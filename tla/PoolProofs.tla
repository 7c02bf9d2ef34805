----------------------------- MODULE PoolProofs -----------------------------
(***************************************************************************)
(* The safety properties of SubClientPool, for any number of Dapp          *)
(* connections, threads and calls.                                         *)
(*                                                                         *)
(* OneConnection is not inductive.  That a connection is made only when    *)
(* there is none needs that the worker only connects for a call that waits *)
(* for it (NoLostJob), and that such a call was made while the map had no  *)
(* client (ClientsInv).                                                    *)
(***************************************************************************)
EXTENDS SubClientPool, FiniteSetTheorems, SequenceTheorems, TLAPS

Job == {"connect", "subscribe"} \X Conn

\* The tasks that relay, one by one.
RelayTasks(r) == UNION {{c} \X (1..r[c]) : c \in Conn}

\* Which calls can be under way, and how many connections were made, given
\* whether the map has a client.
ClientsInv ==
  \A c \in Conn :
    /\ call[c] = "connect" => c \notin clients
    /\ call[c] = "subscribe" => c \in clients
    /\ made[c] = IF c \in clients \/ (call[c] = "connect" /\ reply[c] = "ok")
                   THEN 1 ELSE 0

IInv ==
  /\ TypeOK
  /\ IsFiniteSet(RelayTasks(relays))
  /\ NoLostJob
  /\ ClientsInv

-----------------------------------------------------------------------------
(***************************************************************************)
(* Lemmas about the jobs: what a new job, a job that is taken and a job    *)
(* that has ended do to `Jobs`.                                            *)
(***************************************************************************)
LEMMA JobsType ==
  ASSUME TypeOK
  PROVE  /\ Jobs \in Seq(Job)
         /\ Len(Jobs) = Len(running) + Len(queue)
         /\ DOMAIN Jobs = 1..Len(Jobs)
         /\ running = << >> => Jobs = queue
<1>1. queue \in Seq(Job) /\ running \in Seq(Job)
  BY DEF TypeOK, Job
<1>2. Jobs \in Seq(Job) /\ Len(Jobs) = Len(running) + Len(queue)
  BY <1>1, ConcatProperties DEF Jobs
<1>3. DOMAIN Jobs = 1..Len(Jobs)
  BY <1>2
<1>4. running = << >> => Jobs = queue
  BY <1>1, ConcatEmptySeq DEF Jobs
<1>5. QED
  BY <1>2, <1>3, <1>4

\* A job that is sent comes last.
LEMMA JobSent ==
  ASSUME TypeOK, NEW j \in Job, queue' = Append(queue, j), running' = running
  PROVE  /\ queue' \in Seq(Job)
         /\ DOMAIN Jobs' = DOMAIN Jobs \cup {Len(Jobs) + 1}
         /\ Len(Jobs) + 1 \notin DOMAIN Jobs
         /\ \A k \in DOMAIN Jobs : Jobs'[k] = Jobs[k]
         /\ Jobs'[Len(Jobs) + 1] = j
<1>1. queue \in Seq(Job) /\ running \in Seq(Job)
  BY DEF TypeOK, Job
<1>2. Jobs' = running \o Append(queue, j)
  BY DEF Jobs
<1>3. Append(queue, j) = queue \o <<j>> /\ <<j>> \in Seq(Job)
  BY <1>1, AppendIsConcat
<1>4. Jobs' = Jobs \o <<j>>
  BY <1>1, <1>2, <1>3, ConcatAssociative DEF Jobs
<1>5. Jobs' = Append(Jobs, j)
  BY <1>4, JobsType, AppendIsConcat
<1>6. QED
  BY <1>1, <1>5, JobsType, AppendProperties

\* The worker takes the first job of the queue: nothing changes.
LEMMA JobTaken ==
  ASSUME TypeOK, TakeJob
  PROVE  /\ Jobs' = Jobs
         /\ queue' \in Seq(Job) /\ running' \in Seq(Job) /\ Len(running') = 1
<1>1. queue \in Seq(Job) /\ queue # << >> /\ running = << >>
  BY DEF TypeOK, Job, TakeJob
<1>2. /\ Head(queue) \in Job
      /\ Tail(queue) \in Seq(Job)
      /\ Len(Tail(queue)) = Len(queue) - 1
      /\ \A i \in 1..Len(Tail(queue)) : Tail(queue)[i] = queue[i + 1]
      /\ Head(queue) = queue[1]
  BY <1>1, HeadTailProperties
<1>3. <<Head(queue)>> \in Seq(Job) /\ Len(<<Head(queue)>>) = 1
  BY <1>2
<1>4. /\ <<Head(queue)>> \o Tail(queue) \in Seq(Job)
      /\ Len(<<Head(queue)>> \o Tail(queue)) = Len(queue)
      /\ \A i \in 1..Len(queue) : (<<Head(queue)>> \o Tail(queue))[i] = queue[i]
  BY <1>1, <1>2, <1>3, ConcatProperties
<1>5. <<Head(queue)>> \o Tail(queue) = queue
  BY <1>1, <1>4, SeqEqual
<1>6. QED
  BY <1>1, <1>2, <1>3, <1>5, JobsType DEF TakeJob, Jobs

\* The job that is executed stands first; when it has ended the others move
\* up.
LEMMA JobEnded ==
  ASSUME TypeOK, NEW j \in Job, running = <<j>>, running' = << >>, queue' = queue
  PROVE  /\ 1 \in DOMAIN Jobs /\ Jobs[1] = j
         /\ \A k : k \in DOMAIN Jobs' <=> k \in Nat \ {0} /\ k + 1 \in DOMAIN Jobs
         /\ \A k \in DOMAIN Jobs' : Jobs'[k] = Jobs[k + 1]
<1>1. queue \in Seq(Job) /\ <<j>> \in Seq(Job) /\ Len(<<j>>) = 1
  BY DEF TypeOK, Job
<1>2. Jobs = <<j>> \o queue /\ Jobs' = queue
  BY <1>1, ConcatEmptySeq DEF Jobs
<1>3. /\ Len(Jobs) = Len(queue) + 1
      /\ \A k \in 1..(Len(queue) + 1) :
           Jobs[k] = IF k <= 1 THEN <<j>>[k] ELSE queue[k - 1]
  BY <1>1, <1>2, ConcatProperties
<1>4. DOMAIN Jobs = 1..Len(Jobs) /\ DOMAIN queue = 1..Len(queue) /\ Len(queue) \in Nat
  BY <1>1, JobsType
<1>5. QED
  BY <1>2, <1>3, <1>4

-----------------------------------------------------------------------------
(***************************************************************************)
(* NoLostJob, for the three things that happen to jobs and for the steps   *)
(* that leave them alone.                                                  *)
(***************************************************************************)
LEMMA SameJobs ==
  ASSUME NoLostJob, Jobs' = Jobs, UNCHANGED <<call, reply>>
  PROVE  NoLostJob'
<1>1. \A c \in Conn : JobsOf(c)' = JobsOf(c)
  BY DEF JobsOf
<1>2. QED
  BY <1>1 DEF NoLostJob

\* The call of c sends a job and takes the answer to the last one, if any.
LEMMA CallSends ==
  ASSUME TypeOK, NoLostJob, NEW c \in Conn, NEW kind \in {"connect", "subscribe"},
         call[c] = "none" \/ reply[c] # "none",
         Send(kind, c), running' = running,
         reply' = [reply EXCEPT ![c] = "none"]
  PROVE  NoLostJob'
<1>1. <<kind, c>> \in Job
  BY DEF Job
<1>2. /\ DOMAIN Jobs' = DOMAIN Jobs \cup {Len(Jobs) + 1}
      /\ Len(Jobs) + 1 \notin DOMAIN Jobs
      /\ \A k \in DOMAIN Jobs : Jobs'[k] = Jobs[k]
      /\ Jobs'[Len(Jobs) + 1] = <<kind, c>>
  BY <1>1, JobSent DEF Send
<1>3. JobsOf(c) = {}
  BY DEF NoLostJob
<1>4. JobsOf(c)' = {Len(Jobs) + 1}
  BY <1>2, <1>3 DEF JobsOf
<1>5. \A d \in Conn \ {c} : JobsOf(d)' = JobsOf(d)
  BY <1>2 DEF JobsOf
<1>6. /\ call'[c] = kind /\ reply'[c] = "none"
      /\ \A d \in Conn \ {c} : call'[d] = call[d] /\ reply'[d] = reply[d]
  BY DEF Send, TypeOK
<1>7. \A d \in Conn : JobsOf(d) \subseteq DOMAIN Jobs
  BY DEF JobsOf
<1> SUFFICES ASSUME NEW d \in Conn
             PROVE  IF call'[d] = "none" \/ reply'[d] # "none"
                      THEN JobsOf(d)' = {} /\ (call'[d] = "none" => reply'[d] = "none")
                      ELSE \E k \in DOMAIN Jobs' : JobsOf(d)' = {k} /\ Jobs'[k][1] = call'[d]
  BY DEF NoLostJob
<1>8. CASE d = c
  BY <1>2, <1>4, <1>6, <1>8
<1>9. CASE d # c
  BY <1>2, <1>5, <1>6, <1>7, <1>9 DEF NoLostJob
<1>10. QED
  BY <1>8, <1>9

\* The call of c returns with its answer.
LEMMA CallReturns ==
  ASSUME TypeOK, NoLostJob, NEW c \in Conn, reply[c] # "none",
         reply' = [reply EXCEPT ![c] = "none"],
         call' = [call EXCEPT ![c] = "none"],
         UNCHANGED <<queue, running>>
  PROVE  NoLostJob'
<1>1. Jobs' = Jobs
  BY DEF Jobs
<1>2. \A d \in Conn : JobsOf(d)' = JobsOf(d)
  BY <1>1 DEF JobsOf
<1>3. /\ call'[c] = "none" /\ reply'[c] = "none"
      /\ \A d \in Conn \ {c} : call'[d] = call[d] /\ reply'[d] = reply[d]
  BY DEF TypeOK
<1>4. JobsOf(c) = {}
  BY DEF NoLostJob
<1>5. QED
  BY <1>1, <1>2, <1>3, <1>4 DEF NoLostJob

\* The job that is executed is the one that the call of c waits for.
LEMMA WorkerAnswersCall ==
  ASSUME TypeOK, NoLostJob, NEW c \in Conn, NEW kind \in {"connect", "subscribe"},
         running = <<<<kind, c>>>>
  PROVE  call[c] = kind /\ reply[c] = "none" /\ JobsOf(c) = {1}
<1>1. Jobs = <<<<kind, c>>>> \o queue /\ queue \in Seq(Job)
  BY DEF Jobs, TypeOK, Job
<1>2. <<<<kind, c>>>> \in Seq(Job) /\ Len(<<<<kind, c>>>>) = 1
  BY DEF Job
<1>3. Jobs[1] = <<kind, c>> /\ Len(Jobs) = 1 + Len(queue)
  BY <1>1, <1>2, ConcatProperties
<1>4. 1 \in DOMAIN Jobs
  BY <1>1, <1>3, JobsType
<1>5. 1 \in JobsOf(c)
  BY <1>3, <1>4 DEF JobsOf
<1>6. PICK k \in DOMAIN Jobs : JobsOf(c) = {k} /\ Jobs[k][1] = call[c]
  BY <1>5 DEF NoLostJob
<1>7. k = 1
  BY <1>5, <1>6
<1>8. ~(call[c] = "none" \/ reply[c] # "none")
  <2>1. JobsOf(c) # {}
    BY <1>5
  <2>2. call[c] = "none" \/ reply[c] # "none" => JobsOf(c) = {}
    BY DEF NoLostJob
  <2>3. QED
    BY <2>1, <2>2
<1>9. Jobs[k][1] = kind
  BY <1>3, <1>7
<1>10. QED
  BY <1>6, <1>7, <1>8, <1>9

\* The worker answers the call of c.
LEMMA WorkerAnswers ==
  ASSUME TypeOK, NoLostJob, NEW c \in Conn, NEW kind \in {"connect", "subscribe"},
         NEW r \in {"ok", "err"},
         running = <<<<kind, c>>>>, Answer(c, r), UNCHANGED <<queue, call>>
  PROVE  NoLostJob'
<1>1. <<kind, c>> \in Job
  BY DEF Job
<1>2. /\ 1 \in DOMAIN Jobs /\ Jobs[1] = <<kind, c>>
      /\ \A k : k \in DOMAIN Jobs' <=> k \in Nat \ {0} /\ k + 1 \in DOMAIN Jobs
      /\ \A k \in DOMAIN Jobs' : Jobs'[k] = Jobs[k + 1]
  BY <1>1, JobEnded DEF Answer
<1>3. call[c] = kind /\ reply[c] = "none" /\ JobsOf(c) = {1}
  BY WorkerAnswersCall
<1>4. JobsOf(c)' = {}
  BY <1>2, <1>3 DEF JobsOf
<1>5. /\ reply'[c] = r
      /\ \A d \in Conn \ {c} : reply'[d] = reply[d]
      /\ call' = call
  BY DEF Answer, TypeOK
<1>6. DOMAIN Jobs \subseteq Nat \ {0}
  BY JobsType
<1>7. \A d \in Conn \ {c} : \A k \in Nat \ {0} : k \in JobsOf(d)' <=> k + 1 \in JobsOf(d)
  BY <1>2 DEF JobsOf
<1>8. \A d \in Conn : JobsOf(d) \subseteq DOMAIN Jobs /\ JobsOf(d)' \subseteq DOMAIN Jobs'
  BY DEF JobsOf
<1>9. \A d \in Conn \ {c} : 1 \notin JobsOf(d)
  BY <1>2 DEF JobsOf
<1> SUFFICES ASSUME NEW d \in Conn
             PROVE  IF call'[d] = "none" \/ reply'[d] # "none"
                      THEN JobsOf(d)' = {} /\ (call'[d] = "none" => reply'[d] = "none")
                      ELSE \E k \in DOMAIN Jobs' : JobsOf(d)' = {k} /\ Jobs'[k][1] = call'[d]
  BY DEF NoLostJob
<1>10. CASE d = c
  BY <1>3, <1>4, <1>5, <1>10
<1>11. CASE d # c /\ (call[d] = "none" \/ reply[d] # "none")
  <2>1. JobsOf(d) = {} /\ (call[d] = "none" => reply[d] = "none")
    BY <1>11 DEF NoLostJob
  <2>2. JobsOf(d)' = {}
    BY <1>2, <1>7, <1>8, <1>11, <2>1
  <2>3. QED
    BY <1>5, <1>11, <2>1, <2>2
<1>12. CASE d # c /\ ~(call[d] = "none" \/ reply[d] # "none")
  <2>1. PICK k \in DOMAIN Jobs : JobsOf(d) = {k} /\ Jobs[k][1] = call[d]
    BY <1>12 DEF NoLostJob
  <2>2. k \in Nat \ {0, 1}
    BY <1>6, <1>9, <1>12, <2>1
  <2>3. k - 1 \in Nat \ {0} /\ (k - 1) + 1 = k
    BY <2>2
  <2>4. k - 1 \in DOMAIN Jobs' /\ Jobs'[k - 1] = Jobs[k]
    BY <1>2, <2>3
  <2>5. JobsOf(d)' = {k - 1}
    BY <1>2, <1>7, <1>8, <1>12, <2>1, <2>3
  <2>6. QED
    BY <1>5, <1>12, <2>1, <2>4, <2>5
<1>13. QED
  BY <1>10, <1>11, <1>12

-----------------------------------------------------------------------------
(***************************************************************************)
(* The gauge: a task that starts or ends is one element of RelayTasks.     *)
(***************************************************************************)
LEMMA GaugeIs ==
  ASSUME TypeOK
  PROVE  gauge = Cardinality(RelayTasks(relays)) /\ relays \in [Conn -> Nat]
BY DEF TypeOK, RelayTasks

LEMMA RelayStarts ==
  ASSUME NEW r \in [Conn -> Nat], NEW c \in Conn, IsFiniteSet(RelayTasks(r)),
         NEW q, q = [r EXCEPT ![c] = @ + 1]
  PROVE  /\ IsFiniteSet(RelayTasks(q))
         /\ Cardinality(RelayTasks(q)) = Cardinality(RelayTasks(r)) + 1
<1> DEFINE t == <<c, r[c] + 1>>
<1>1. /\ r[c] \in Nat /\ q[c] = r[c] + 1
      /\ \A d \in Conn \ {c} : q[d] = r[d]
  OBVIOUS
<1>2. 1..(r[c] + 1) = (1..r[c]) \cup {r[c] + 1}
  BY <1>1
<1>3. RelayTasks(q) = RelayTasks(r) \cup {t}
  BY <1>1, <1>2 DEF RelayTasks
<1>4. t \notin RelayTasks(r)
  BY <1>1 DEF RelayTasks
<1> HIDE DEF t
<1>5. /\ IsFiniteSet(RelayTasks(r) \cup {t})
      /\ Cardinality(RelayTasks(r) \cup {t}) = Cardinality(RelayTasks(r)) + 1
  BY <1>4, FS_AddElement, Zenon
<1>6. QED
  BY <1>3, <1>5, Zenon

LEMMA RelayEnds ==
  ASSUME NEW r \in [Conn -> Nat], NEW c \in Conn, r[c] > 0, IsFiniteSet(RelayTasks(r)),
         NEW q, q = [r EXCEPT ![c] = @ - 1]
  PROVE  /\ IsFiniteSet(RelayTasks(q))
         /\ Cardinality(RelayTasks(q)) = Cardinality(RelayTasks(r)) - 1
<1> DEFINE t == <<c, r[c]>>
<1>1. /\ r[c] \in Nat \ {0} /\ q[c] = r[c] - 1
      /\ \A d \in Conn \ {c} : q[d] = r[d]
  OBVIOUS
<1>2. 1..(r[c] - 1) = (1..r[c]) \ {r[c]}
  BY <1>1
<1>3. RelayTasks(q) = RelayTasks(r) \ {t}
  BY <1>1, <1>2 DEF RelayTasks
<1>4. t \in RelayTasks(r)
  BY <1>1 DEF RelayTasks
<1> HIDE DEF t
<1>5. QED
  BY <1>3, <1>4, FS_RemoveElement

-----------------------------------------------------------------------------
(***************************************************************************)
(* The inductive invariant, one lemma per kind of step.                    *)
(***************************************************************************)
LEMMA InitIInv == Init => IInv
<1> SUFFICES ASSUME Init PROVE IInv
  OBVIOUS
<1>1. RelayTasks(relays) = {}
  BY DEF Init, RelayTasks
<1>2. IsFiniteSet(RelayTasks(relays)) /\ Cardinality(RelayTasks(relays)) = 0
  BY <1>1, FS_EmptySet
<1>3. TypeOK
  <2>1. gauge = Cardinality(UNION {{c} \X (1..relays[c]) : c \in Conn})
    BY <1>2 DEF Init, RelayTasks
  <2>2. QED
    BY <2>1, PoolAssumption DEF Init, TypeOK
<1>4. \A c \in Conn : JobsOf(c) = {}
  <2>1. Jobs = << >>
    BY <1>3, JobsType DEF Init
  <2>2. QED
    BY <2>1 DEF JobsOf
<1>5. NoLostJob
  BY <1>4 DEF Init, NoLostJob
<1>6. ClientsInv
  BY DEF Init, ClientsInv
<1>7. QED
  BY <1>2, <1>3, <1>5, <1>6 DEF IInv

\* The Dapps and the connections to the node come and go.
LEMMA EnvironmentStep ==
  ASSUME IInv, NEW c \in Conn, Open(c) \/ Close(c) \/ LinkDown(c)
  PROVE  IInv'
<1>1. UNCHANGED <<call, queue, running, reply, clients, made, spawned, relays, gauge, asked>>
  BY DEF Open, Close, LinkDown, worker, tasks
<1>2. /\ dapp' \in [Conn -> {"new", "open", "closed"}]
      /\ link' \in [Conn -> {"none", "up", "down"}]
  BY DEF IInv, TypeOK, Open, Close, LinkDown
<1>3. TypeOK'
  BY <1>1, <1>2 DEF IInv, TypeOK
<1>4. NoLostJob'
  BY <1>1, SameJobs DEF IInv, Jobs
<1>5. ClientsInv'
  BY <1>1 DEF IInv, ClientsInv
<1>6. QED
  BY <1>1, <1>3, <1>4, <1>5 DEF IInv

LEMMA SubscribeStep ==
  ASSUME IInv, NEW c \in Conn, Subscribe(c)
  PROVE  IInv'
<1> DEFINE kind == IF c \in clients THEN "subscribe" ELSE "connect"
<1>1. /\ call[c] = "none" /\ Send(kind, c) /\ kind \in {"connect", "subscribe"}
      /\ asked[c] < MaxSubs /\ asked' = [asked EXCEPT ![c] = @ + 1]
      /\ UNCHANGED <<dapp, running, reply, clients, link, made, spawned, relays, gauge>>
  BY DEF Subscribe, tasks
<1>2. c \in clients <=> kind = "subscribe"
  OBVIOUS
<1> HIDE DEF kind
<1>3. <<kind, c>> \in Job
  BY <1>1 DEF Job
<1>4. queue' \in Seq(Job)
  BY <1>1, <1>3, JobSent DEF IInv, Send
<1>5. call' \in [Conn -> {"none", "connect", "subscribe"}]
  BY <1>1 DEF Send, IInv, TypeOK
<1>6. asked' \in [Conn -> 0..MaxSubs]
  BY <1>1, PoolAssumption DEF IInv, TypeOK
<1>7. TypeOK'
  BY <1>1, <1>4, <1>5, <1>6 DEF IInv, TypeOK, Job
<1>8. reply' = [reply EXCEPT ![c] = "none"]
  BY <1>1 DEF IInv, NoLostJob, TypeOK
<1>9. NoLostJob'
  BY <1>1, <1>8, CallSends DEF IInv
<1>10. ClientsInv'
  <2>1. call'[c] = kind /\ \A d \in Conn \ {c} : call'[d] = call[d]
    BY <1>1 DEF Send, IInv, TypeOK
  <2>2. reply[c] = "none"
    BY <1>1 DEF IInv, NoLostJob
  <2>3. QED
    BY <1>1, <1>2, <2>1, <2>2 DEF IInv, ClientsInv
<1>11. QED
  BY <1>1, <1>7, <1>9, <1>10 DEF IInv

LEMMA GotClientStep ==
  ASSUME IInv, NEW c \in Conn, GotClient(c)
  PROVE  IInv'
<1>1. /\ call[c] = "connect" /\ reply[c] = "ok" /\ Send("subscribe", c)
      /\ reply' = [reply EXCEPT ![c] = "none"] /\ clients' = clients \cup {c}
      /\ UNCHANGED <<dapp, running, link, made, spawned, relays, gauge, asked>>
  BY DEF GotClient, tasks
<1>2. <<"subscribe", c>> \in Job
  BY DEF Job
<1>3. queue' \in Seq(Job)
  BY <1>1, <1>2, JobSent DEF IInv, Send
<1>4. /\ call' \in [Conn -> {"none", "connect", "subscribe"}]
      /\ reply' \in [Conn -> {"none", "ok", "err"}]
      /\ clients' \subseteq Conn
  BY <1>1 DEF Send, IInv, TypeOK
<1>5. TypeOK'
  BY <1>1, <1>3, <1>4 DEF IInv, TypeOK, Job
<1>6. NoLostJob'
  BY <1>1, CallSends DEF IInv
<1>7. ClientsInv'
  <2>1. /\ call'[c] = "subscribe" /\ reply'[c] = "none"
        /\ \A d \in Conn \ {c} : call'[d] = call[d] /\ reply'[d] = reply[d]
    BY <1>1 DEF Send, IInv, TypeOK
  <2>2. QED
    BY <1>1, <2>1 DEF IInv, ClientsInv
<1>8. QED
  BY <1>1, <1>5, <1>6, <1>7 DEF IInv

\* A call returns, with its subscription or with an error.
LEMMA ReturnStep ==
  ASSUME IInv, NEW c \in Conn, GotSubscription(c) \/ GotError(c)
  PROVE  IInv'
<1>1. /\ reply[c] # "none" /\ reply' = [reply EXCEPT ![c] = "none"]
      /\ call' = [call EXCEPT ![c] = "none"]
      /\ call[c] = "connect" => reply[c] = "err"
      /\ UNCHANGED <<dapp, queue, running, clients, link, made, relays, gauge, asked>>
  BY DEF GotSubscription, GotError, worker, tasks
<1>2. spawned' \in [Conn -> Nat]
  <2>1. spawned \in [Conn -> Nat]
    BY DEF IInv, TypeOK
  <2>2. spawned' = spawned \/ spawned' = [spawned EXCEPT ![c] = @ + 1]
    BY DEF GotSubscription, GotError, tasks
  <2>3. QED
    BY <2>1, <2>2
<1>3. /\ call' \in [Conn -> {"none", "connect", "subscribe"}]
      /\ reply' \in [Conn -> {"none", "ok", "err"}]
  BY <1>1 DEF IInv, TypeOK
<1>4. TypeOK'
  BY <1>1, <1>2, <1>3 DEF IInv, TypeOK
<1>5. NoLostJob'
  BY <1>1, CallReturns DEF IInv
<1>6. ClientsInv'
  <2>1. /\ call'[c] = "none" /\ reply'[c] = "none"
        /\ \A d \in Conn \ {c} : call'[d] = call[d] /\ reply'[d] = reply[d]
    BY <1>1 DEF IInv, TypeOK
  <2>2. QED
    BY <1>1, <2>1 DEF IInv, ClientsInv
<1>7. QED
  BY <1>1, <1>4, <1>5, <1>6 DEF IInv

LEMMA TakeJobStep ==
  ASSUME IInv, TakeJob
  PROVE  IInv'
<1>1. UNCHANGED <<dapp, call, reply, clients, link, made, spawned, relays, gauge, asked>>
  BY DEF TakeJob, tasks
<1>2. /\ Jobs' = Jobs
      /\ queue' \in Seq(Job) /\ running' \in Seq(Job) /\ Len(running') = 1
  BY JobTaken DEF IInv
<1>3. TypeOK'
  BY <1>1, <1>2 DEF IInv, TypeOK, Job
<1>4. NoLostJob'
  BY <1>1, <1>2, SameJobs DEF IInv
<1>5. ClientsInv'
  BY <1>1 DEF IInv, ClientsInv
<1>6. QED
  BY <1>1, <1>3, <1>4, <1>5 DEF IInv

\* The worker ends a job.  It makes a connection only for a call that waits
\* for one, while the map has no client.
LEMMA EndJobStep ==
  ASSUME IInv, NEW c \in Conn, Connected(c) \/ Subscribed(c) \/ JobFails(c)
  PROVE  IInv'
<1>1. PICK kind \in {"connect", "subscribe"}, r \in {"ok", "err"} :
        /\ running = <<<<kind, c>>>> /\ Answer(c, r)
        /\ IF kind = "connect" /\ r = "ok"
             THEN made' = [made EXCEPT ![c] = @ + 1] ELSE made' = made
  BY DEF Connected, Subscribed, JobFails
<1>2. UNCHANGED <<dapp, call, queue, clients, spawned, relays, gauge, asked>>
  BY DEF Connected, Subscribed, JobFails, tasks
<1>3. link' \in [Conn -> {"none", "up", "down"}]
  BY DEF Connected, Subscribed, JobFails, IInv, TypeOK
<1>4. /\ reply' \in [Conn -> {"none", "ok", "err"}]
      /\ reply'[c] = r /\ \A d \in Conn \ {c} : reply'[d] = reply[d]
  BY <1>1 DEF Answer, IInv, TypeOK
<1>5. made' \in [Conn -> Nat]
  <2>1. made \in [Conn -> Nat]
    BY DEF IInv, TypeOK
  <2>2. made' = made \/ made' = [made EXCEPT ![c] = @ + 1]
    BY <1>1
  <2>3. QED
    BY <2>1, <2>2
<1>6. running' \in Seq(Job) /\ Len(running') <= 1
  BY <1>1 DEF Answer
<1>7. TypeOK'
  BY <1>2, <1>3, <1>4, <1>5, <1>6 DEF IInv, TypeOK, Job
<1>8. NoLostJob'
  BY <1>1, <1>2, WorkerAnswers DEF IInv
<1>9. call[c] = kind /\ reply[c] = "none"
  BY <1>1, WorkerAnswersCall DEF IInv
<1>10. ClientsInv'
  <2>1. /\ made'[c] = IF kind = "connect" /\ r = "ok" THEN made[c] + 1 ELSE made[c]
        /\ \A d \in Conn \ {c} : made'[d] = made[d]
    BY <1>1 DEF IInv, TypeOK
  <2>2. QED
    BY <1>1, <1>2, <1>4, <1>9, <2>1 DEF IInv, ClientsInv
<1>11. QED
  BY <1>2, <1>7, <1>8, <1>10 DEF IInv

LEMMA StartRelayStep ==
  ASSUME IInv, NEW c \in Conn, StartRelay(c)
  PROVE  IInv'
<1>1. UNCHANGED <<dapp, call, queue, running, reply, clients, link, made, asked>>
  BY DEF StartRelay, worker
<1>2. /\ IsFiniteSet(RelayTasks(relays'))
      /\ Cardinality(RelayTasks(relays')) = gauge'
      /\ relays' \in [Conn -> Nat] /\ spawned' \in [Conn -> Nat]
  <2>1. IsFiniteSet(RelayTasks(relays')) /\ Cardinality(RelayTasks(relays')) = gauge + 1
    BY GaugeIs, RelayStarts DEF IInv, StartRelay
  <2>2. relays' \in [Conn -> Nat] /\ spawned' \in [Conn -> Nat]
    BY DEF IInv, TypeOK, StartRelay
  <2>3. QED
    BY <2>1, <2>2 DEF StartRelay
<1>3. TypeOK'
  BY <1>1, <1>2 DEF IInv, TypeOK, RelayTasks
<1>4. NoLostJob'
  BY <1>1, SameJobs DEF IInv, Jobs
<1>5. ClientsInv'
  BY <1>1 DEF IInv, ClientsInv
<1>6. QED
  BY <1>2, <1>3, <1>4, <1>5 DEF IInv

LEMMA EndRelayStep ==
  ASSUME IInv, NEW c \in Conn, EndRelay(c)
  PROVE  IInv'
<1>1. UNCHANGED <<dapp, call, queue, running, reply, clients, link, made, spawned, asked>>
  BY DEF EndRelay, worker
<1>2. /\ IsFiniteSet(RelayTasks(relays'))
      /\ Cardinality(RelayTasks(relays')) = gauge'
      /\ relays' \in [Conn -> Nat]
  <2>1. IsFiniteSet(RelayTasks(relays')) /\ Cardinality(RelayTasks(relays')) = gauge - 1
    BY GaugeIs, RelayEnds DEF IInv, EndRelay
  <2>2. relays' \in [Conn -> Nat]
    BY DEF IInv, TypeOK, EndRelay
  <2>3. QED
    BY <2>1, <2>2 DEF EndRelay
<1>3. TypeOK'
  BY <1>1, <1>2 DEF IInv, TypeOK, RelayTasks
<1>4. NoLostJob'
  BY <1>1, SameJobs DEF IInv, Jobs
<1>5. ClientsInv'
  BY <1>1 DEF IInv, ClientsInv
<1>6. QED
  BY <1>2, <1>3, <1>4, <1>5 DEF IInv

LEMMA NextIInv == IInv /\ [Next]_vars => IInv'
<1> SUFFICES ASSUME IInv, [Next]_vars PROVE IInv'
  OBVIOUS
<1>1. CASE Worker
  BY <1>1, TakeJobStep, EndJobStep DEF Worker
<1>2. ASSUME NEW c \in Conn, Open(c) \/ Close(c) \/ LinkDown(c) PROVE IInv'
  BY <1>2, EnvironmentStep
<1>3. ASSUME NEW c \in Conn, Subscribe(c) PROVE IInv'
  BY <1>3, SubscribeStep
<1>4. ASSUME NEW c \in Conn, Resume(c) PROVE IInv'
  BY <1>4, GotClientStep, ReturnStep DEF Resume
<1>5. ASSUME NEW c \in Conn, Relay(c) \/ SubscriptionOver(c) PROVE IInv'
  BY <1>5, StartRelayStep, EndRelayStep
     DEF Relay, RelayAborted, StreamEnds, SubscriptionOver
<1>6. CASE UNCHANGED vars
  <2>1. UNCHANGED <<dapp, call, queue, running, reply, clients, link, made, spawned,
                    relays, gauge, asked>>
    BY <1>6 DEF vars
  <2>2. TypeOK'
    BY <2>1 DEF IInv, TypeOK
  <2>3. NoLostJob'
    BY <2>1, SameJobs DEF IInv, Jobs
  <2>4. ClientsInv'
    BY <2>1 DEF IInv, ClientsInv
  <2>5. QED
    BY <2>1, <2>2, <2>3, <2>4 DEF IInv
<1>7. QED
  BY <1>1, <1>2, <1>3, <1>4, <1>5, <1>6 DEF Next

-----------------------------------------------------------------------------
(***************************************************************************)
(* The theorems.                                                           *)
(***************************************************************************)
THEOREM IInvCorrect == Spec => []IInv
BY InitIInv, NextIInv, PTL DEF Spec

\* Every variable has its type, and RELAYING_SUB_CHANNEL_NUM is the number
\* of tasks that are in pipe_from_stream.
THEOREM TypeCorrect == Spec => []TypeOK
<1>1. IInv => TypeOK
  BY DEF IInv
<1>2. QED
  BY <1>1, IInvCorrect, PTL

\* No call of `subscribe` waits for a job that was lost or that is not the
\* one it sent, and no answer is left behind for a later call.
THEOREM NoLostJobCorrect == Spec => []NoLostJob
<1>1. IInv => NoLostJob
  BY DEF IInv
<1>2. QED
  BY <1>1, IInvCorrect, PTL

\* get_client connects at most once per ConnectionId, and the client in the
\* map is that connection.
THEOREM OneConnectionCorrect == Spec => []OneConnection
<1>1. IInv => OneConnection
  BY DEF IInv, ClientsInv, OneConnection
<1>2. QED
  BY <1>1, IInvCorrect, PTL
=============================================================================

--------------------------- MODULE SubClientPool ---------------------------
(***************************************************************************)
(* Relayed subscriptions: MtoMSubClientPool (relayer/sub_client_pool.rs)   *)
(* and the subscription methods that call it (relayer/relay_server.rs).    *)
(*                                                                         *)
(* A subscription method is not async: it runs to its end on a thread of   *)
(* the server's runtime, and blocks that thread while a worker thread with *)
(* a runtime of its own connects to the full node or subscribes there on   *)
(* its behalf, one job after the other.  Then a task of the server's       *)
(* runtime relays.  The server runs the calls of one Dapp connection one   *)
(* after the other (jsonrpsee drives a connection in one task).            *)
(***************************************************************************)
EXTENDS Naturals, Sequences, FiniteSets

CONSTANTS
  Conn,           (* ConnectionIds of Dapps                                 *)
  WorkerThreads,  (* threads of the server's runtime, 8 in the code         *)
  MaxSubs         (* bound: subscription calls of one Dapp connection       *)

ASSUME PoolAssumption ==
  /\ WorkerThreads \in Nat \ {0}
  /\ MaxSubs \in Nat

VARIABLES
  dapp,     (* dapp[c]: "new", "open" or "closed"                           *)
  call,     (* call[c]: "none", or what the call of c is blocked on:        *)
            (* "connect" or "subscribe"                                     *)
  queue,    (* jobs in the channel of async_runner_sender: <<kind, c>>      *)
  running,  (* the job that the worker executes, in a sequence of at most 1 *)
  reply,    (* reply[c]: what the bounded(1) channel of the call holds      *)
  clients,  (* the keys of the map `clients`                                *)
  link,     (* link[c]: the ws connection to the node made for c: "none",   *)
            (* "up" or "down"                                               *)
  made,     (* history: made[c] connections were made for c                 *)
  spawned,  (* spawned[c]: relaying tasks of c that have not run yet        *)
  relays,   (* relays[c]: relaying tasks of c that are in pipe_from_stream  *)
  gauge,    (* RELAYING_SUB_CHANNEL_NUM                                     *)
  asked     (* asked[c]: subscription calls of c so far                     *)

worker == <<queue, running>>
tasks == <<spawned, relays, gauge>>
vars == <<dapp, call, queue, running, reply, clients, link, made, spawned,
          relays, gauge, asked>>

Init ==
  /\ dapp = [c \in Conn |-> "new"]
  /\ call = [c \in Conn |-> "none"]
  /\ queue = << >>
  /\ running = << >>
  /\ reply = [c \in Conn |-> "none"]
  /\ clients = {}
  /\ link = [c \in Conn |-> "none"]
  /\ made = [c \in Conn |-> 0]
  /\ spawned = [c \in Conn |-> 0]
  /\ relays = [c \in Conn |-> 0]
  /\ gauge = 0
  /\ asked = [c \in Conn |-> 0]

\* A thread of the server's runtime that no call blocks.
ThreadFree == Cardinality({c \in Conn : call[c] # "none"}) < WorkerThreads

-----------------------------------------------------------------------------
(***************************************************************************)
(* The Dapps.  A connection may end at any time, also during a call.       *)
(***************************************************************************)
Open(c) ==
  /\ dapp[c] = "new"
  /\ dapp' = [dapp EXCEPT ![c] = "open"]
  /\ UNCHANGED <<call, worker, reply, clients, link, made, tasks, asked>>

Close(c) ==
  /\ dapp[c] = "open"
  /\ dapp' = [dapp EXCEPT ![c] = "closed"]
  /\ UNCHANGED <<call, worker, reply, clients, link, made, tasks, asked>>

-----------------------------------------------------------------------------
(***************************************************************************)
(* subscribe and get_client, on a thread of the server.  try_send is made  *)
(* on a fresh clone of the sender, which always has a slot: the limit of   *)
(* 64 jobs is never met.                                                   *)
(***************************************************************************)
\* A job is sent and the thread blocks in rx.recv().
Send(kind, c) ==
  /\ queue' = Append(queue, <<kind, c>>)
  /\ call' = [call EXCEPT ![c] = kind]

\* A sink that cannot be accepted has no sub_keys: subscribe returns before it
\* has done anything.
Subscribe(c) ==
  /\ dapp[c] = "open"
  /\ call[c] = "none"
  /\ ThreadFree
  /\ asked[c] < MaxSubs
  /\ asked' = [asked EXCEPT ![c] = @ + 1]
  /\ Send(IF c \in clients THEN "subscribe" ELSE "connect", c)
  /\ UNCHANGED <<dapp, running, reply, clients, link, made, tasks>>

\* Mutant: the new client is not kept.
GotClientDropped(c) ==
  /\ call[c] = "connect"
  /\ reply[c] = "ok"
  /\ reply' = [reply EXCEPT ![c] = "none"]
  /\ Send("subscribe", c)
  /\ UNCHANGED <<dapp, running, clients, link, made, tasks, asked>>

\* get_client returns the new client, and subscribe goes on.
GotClient(c) ==
  /\ call[c] = "connect"
  /\ reply[c] = "ok"
  /\ reply' = [reply EXCEPT ![c] = "none"]
  /\ clients' = clients \cup {c}
  /\ Send("subscribe", c)
  /\ UNCHANGED <<dapp, running, link, made, tasks, asked>>

\* The full node has accepted the subscription: a task will relay it.
GotSubscription(c) ==
  /\ call[c] = "subscribe"
  /\ reply[c] = "ok"
  /\ reply' = [reply EXCEPT ![c] = "none"]
  /\ call' = [call EXCEPT ![c] = "none"]
  /\ spawned' = [spawned EXCEPT ![c] = @ + 1]
  /\ UNCHANGED <<dapp, worker, clients, link, made, relays, gauge, asked>>

\* `rx.recv()??` returns the error of either job.
GotError(c) ==
  /\ reply[c] = "err"
  /\ reply' = [reply EXCEPT ![c] = "none"]
  /\ call' = [call EXCEPT ![c] = "none"]
  /\ UNCHANGED <<dapp, worker, clients, link, made, tasks, asked>>

-----------------------------------------------------------------------------
(***************************************************************************)
(* The worker thread "MtoM_initial_worker".                                *)
(***************************************************************************)
\* Mutant: the jobs are spawned on the runtime of the server.
TakeJobOnServer ==
  /\ ThreadFree
  /\ running = << >>
  /\ queue # << >>
  /\ running' = <<Head(queue)>>
  /\ queue' = Tail(queue)
  /\ UNCHANGED <<dapp, call, reply, clients, link, made, tasks, asked>>

TakeJob ==
  /\ running = << >>
  /\ queue # << >>
  /\ running' = <<Head(queue)>>
  /\ queue' = Tail(queue)
  /\ UNCHANGED <<dapp, call, reply, clients, link, made, tasks, asked>>

\* The job ends and answers the call that waits for it.
Answer(c, r) ==
  /\ running' = << >>
  /\ reply' = [reply EXCEPT ![c] = r]

\* A connection to the full node is made.
Connected(c) ==
  /\ running = <<<<"connect", c>>>>
  /\ Answer(c, "ok")
  /\ link' = [link EXCEPT ![c] = "up"]
  /\ made' = [made EXCEPT ![c] = @ + 1]
  /\ UNCHANGED <<dapp, call, queue, clients, tasks, asked>>

\* Only a client that is still connected can subscribe.
Subscribed(c) ==
  /\ running = <<<<"subscribe", c>>>>
  /\ link[c] = "up"
  /\ Answer(c, "ok")
  /\ UNCHANGED <<dapp, call, queue, clients, link, made, tasks, asked>>

\* Mutant: the error of a job is not sent.
JobFailsSilently(c) ==
  /\ running \in {<<<<"connect", c>>>>, <<<<"subscribe", c>>>>}
  /\ running' = << >>
  /\ UNCHANGED <<dapp, call, queue, reply, clients, link, made, tasks, asked>>

\* The node refuses, cannot be reached, or does not answer in time.
JobFails(c) ==
  /\ running \in {<<<<"connect", c>>>>, <<<<"subscribe", c>>>>}
  /\ Answer(c, "err")
  /\ UNCHANGED <<dapp, call, queue, clients, link, made, tasks, asked>>

\* A client loses its connection; nothing replaces it in the map.
LinkDown(c) ==
  /\ link[c] = "up"
  /\ link' = [link EXCEPT ![c] = "down"]
  /\ UNCHANGED <<dapp, call, worker, reply, clients, made, tasks, asked>>

-----------------------------------------------------------------------------
(***************************************************************************)
(* The relaying tasks, on the server's runtime.                            *)
(***************************************************************************)
StartRelay(c) ==
  /\ ThreadFree
  /\ spawned[c] > 0
  /\ spawned' = [spawned EXCEPT ![c] = @ - 1]
  /\ relays' = [relays EXCEPT ![c] = @ + 1]
  /\ gauge' = gauge + 1
  /\ UNCHANGED <<dapp, call, worker, reply, clients, link, made, asked>>

EndRelay(c) ==
  /\ ThreadFree
  /\ relays[c] > 0
  /\ relays' = [relays EXCEPT ![c] = @ - 1]
  /\ gauge' = gauge - 1
  /\ UNCHANGED <<dapp, call, worker, reply, clients, link, made, spawned, asked>>

\* Mutant: the task returns in the arm of RemotePeerAborted.
RelayAbortedReturns(c) ==
  /\ dapp[c] = "closed"
  /\ ThreadFree
  /\ relays[c] > 0
  /\ relays' = [relays EXCEPT ![c] = @ - 1]
  /\ UNCHANGED <<dapp, call, worker, reply, clients, link, made, spawned, gauge,
                 asked>>

\* SubscriptionClosed::RemotePeerAborted: the Dapp is gone.
RelayAborted(c) == dapp[c] = "closed" /\ EndRelay(c)

\* Mutant: a stream without a connection waits for its Dapp to go.
StreamEndsWithDapp(c) == link[c] = "down" /\ dapp[c] = "closed" /\ EndRelay(c)

\* SubscriptionClosed::Success: the stream is over, with its connection.
StreamEnds(c) == link[c] = "down" /\ EndRelay(c)

\* The full node or the Dapp ends one subscription, or an item cannot be
\* serialized (SubscriptionClosed::Failed).
SubscriptionOver(c) == link[c] = "up" /\ dapp[c] = "open" /\ EndRelay(c)

-----------------------------------------------------------------------------
Worker ==
  \/ TakeJob
  \/ \E c \in Conn : Connected(c) \/ Subscribed(c) \/ JobFails(c)

\* A thread that was blocked goes on.
Resume(c) == GotClient(c) \/ GotSubscription(c) \/ GotError(c)

Relay(c) == StartRelay(c) \/ RelayAborted(c) \/ StreamEnds(c)

Next ==
  \/ Worker
  \/ \E c \in Conn :
       \/ Open(c)
       \/ Close(c)
       \/ Subscribe(c)
       \/ Resume(c)
       \/ LinkDown(c)
       \/ Relay(c)
       \/ SubscriptionOver(c)

Spec == Init /\ [][Next]_vars

\* The threads run; a connection attempt or a request of the worker ends, if
\* only by its timeout; the runtime keeps polling a task that can go on.
FairSpec ==
  /\ Spec
  /\ WF_vars(Worker)
  /\ \A c \in Conn : WF_vars(Resume(c)) /\ WF_vars(Relay(c))

-----------------------------------------------------------------------------
(***************************************************************************)
(* Properties.                                                             *)
(***************************************************************************)
\* Every variable has its type; the gauge counts the tasks that relay.
TypeOK ==
  /\ dapp \in [Conn -> {"new", "open", "closed"}]
  /\ call \in [Conn -> {"none", "connect", "subscribe"}]
  /\ queue \in Seq({"connect", "subscribe"} \X Conn)
  /\ running \in Seq({"connect", "subscribe"} \X Conn) /\ Len(running) <= 1
  /\ reply \in [Conn -> {"none", "ok", "err"}]
  /\ clients \subseteq Conn
  /\ link \in [Conn -> {"none", "up", "down"}]
  /\ made \in [Conn -> Nat]
  /\ spawned \in [Conn -> Nat]
  /\ relays \in [Conn -> Nat]
  /\ gauge = Cardinality(UNION {{c} \X (1..relays[c]) : c \in Conn})
  /\ asked \in [Conn -> 0..MaxSubs]

\* The jobs that are executed or queued, and where those of c stand.
Jobs == running \o queue
JobsOf(c) == {k \in DOMAIN Jobs : Jobs[k][2] = c}

\* A blocked call has exactly one job or one answer under way, for the step
\* that it waits for; a connection without a call has none.
NoLostJob ==
  \A c \in Conn :
    IF call[c] = "none" \/ reply[c] # "none"
      THEN JobsOf(c) = {} /\ (call[c] = "none" => reply[c] = "none")
      ELSE \E k \in DOMAIN Jobs : JobsOf(c) = {k} /\ Jobs[k][1] = call[c]

\* "each ConnId use one connection with multiplexing subscription": the
\* subscriptions of a Dapp connection never cause a second connection to the
\* full node.
OneConnection ==
  \A c \in Conn : made[c] <= 1 /\ (c \in clients => made[c] = 1)

\* Blocked threads are released: every call returns, even when calls block
\* all threads of the server at once.
CallsReturn == \A c \in Conn : call[c] # "none" ~> call[c] = "none"

\* When all Dapps have gone, so have the relaying tasks, also those whose
\* Dapp went while its call was blocked, and the gauge says so.
AllGone == \A c \in Conn : dapp[c] = "closed"
GaugeDrains == AllGone ~> [](gauge = 0 /\ \A c \in Conn : relays[c] = 0)

\* When the connection to the node made for a Dapp is lost, all relaying over
\* it ends for good, also what was subscribed but not yet relayed at that
\* moment: no task waits for a stream that will never bring anything, although
\* the client stays in the map.
DeadLinkEnds ==
  \A c \in Conn : link[c] = "down" ~> [](relays[c] = 0 /\ spawned[c] = 0)
=============================================================================

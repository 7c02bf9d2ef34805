----------------------------- MODULE PullProofs -----------------------------
(***************************************************************************)
(* The safety properties of Pull, for any number of shards, any limits and *)
(* amounts, tables of any length and any number of failures.               *)
(*                                                                         *)
(* What an answer promises is about its last step; the inductive invariant *)
(* says where each shard stands while the answer is put together: which    *)
(* items are pushed, how many more may be, and what the tables are known   *)
(* to hold, although they grow and the cache changes in between.           *)
(***************************************************************************)
EXTENDS Pull, LedgerTypesProofs, SequenceTheorems

Loop == {"has_shard", "cache", "query", "write_back", "more"}
AfterLoop ==
  {"sender_cache", "sender_query", "sender_write_back", "sender_more", "total"}

\* Where the answer ends in shard s and among the senders.
NextReceiver(s) == ckp.receiver_index[s] + Len(recv[s])
NextSender == ckp.sender_index + Len(send)

\* q lists as many items from index `from` on as it is long, each once.
Lists(q, from) == Elements(q) = from..(from + Len(q) - 1)

\* q lists some of the items wanted, all of them among the first `limit`.
Hits(q, from, amount, limit) ==
  /\ Len(q) = Cardinality(Elements(q))
  /\ Elements(q) \subseteq Wanted(from, amount)
  /\ \A u \in Elements(q) : u < limit

(***************************************************************************)
(* The inductive invariant.                                                *)
(***************************************************************************)
\* The tables only grow while a request is served.
TablesInv ==
  pc # "idle" => (\A s \in Shard : rows0[s] <= rows[s]) /\ nulls0 <= nulls

\* What is pushed of each shard.  Between the two reads of a shard the items
\* may have holes; what comes after it is empty.
ReceiversInv ==
  /\ \A s \in Shard :
       (pc = "query" /\ s = shard) \/ Lists(recv[s], ckp.receiver_index[s])
  /\ pc = "query" =>
       Hits(recv[shard], ckp.receiver_index[shard], remain, rows[shard])
  /\ pc = "idle" => recv = NoReceivers /\ shard = 0
  /\ pc \in Loop =>
       \A t \in Shard :
         t > shard \/ (t = shard /\ pc \in {"has_shard", "cache"}) => recv[t] = << >>

\* How many items are pushed and how many more may be.
CountInv ==
  /\ Pulled <= maxR
  /\ pc \in Loop =>
       /\ Len(recv[shard]) <= remain
       /\ (Pulled - Len(recv[shard])) + remain = maxR

\* The shards that are known to be read to their end.
CompleteInv ==
  /\ pc \in {"write_back", "more"} /\ Len(recv[shard]) < remain =>
       rows0[shard] <= NextReceiver(shard)
  /\ pc \in Loop /\ ~swallowed =>
       \A s \in Shard : s < shard => rows0[s] <= NextReceiver(s)
  /\ pc \in AfterLoop /\ ~swallowed /\ Pulled < maxR =>
       \A s \in Shard : rows0[s] <= NextReceiver(s)

\* The loop is left as soon as there is more.
MoreInv ==
  /\ pc \notin AfterLoop => ~moreR
  /\ moreR => \E s \in Shard : NextReceiver(s) < rows[s]

\* What is written back to the cache is in the tables.
FoundInv ==
  /\ pc = "write_back" => \A u \in found : u < rows[shard]
  /\ pc = "sender_write_back" => \A i \in found : i < nulls

\* The same for the senders.
SendersInv ==
  /\ Len(send) <= maxS
  /\ pc \notin AfterLoop \/ pc = "sender_cache" => send = << >>
  /\ pc = "sender_query" => Hits(send, ckp.sender_index, maxS, nulls)
  /\ pc # "sender_query" => Lists(send, ckp.sender_index)
  /\ pc \in {"sender_write_back", "sender_more"} /\ Len(send) < maxS =>
       nulls0 <= NextSender
  /\ pc = "total" =>
       /\ moreS => ckp.sender_index + maxS < nulls
       /\ ~swallowed /\ ~moreS => nulls0 <= NextSender

\* Nothing but the client's own way of counting is needed for ExactlyOnce.
ClientInv == ~FollowCursor => ExactlyOnce

IInv ==
  /\ TypeOK
  /\ TablesInv
  /\ ReceiversInv
  /\ CountInv
  /\ CompleteInv
  /\ MoreInv
  /\ FoundInv
  /\ SendersInv
  /\ ClientInv

-----------------------------------------------------------------------------
(***************************************************************************)
(* Lemmas about the two reads: the hits of the cache, and then the tables. *)
(***************************************************************************)
LEMMA AscendingLists ==
  ASSUME NEW S \in SUBSET Nat, IsFiniteSet(S), NEW q \in Ascending(S)
  PROVE  /\ q \in Seq(Nat)
         /\ Len(q) = Cardinality(S)
         /\ Elements(q) = S
<1> DEFINE n == Cardinality(S)
<1>1. n \in Nat
  BY FS_CardinalityType
<1>2. q \in [1..n -> S] /\ \A i, j \in 1..n : i < j => q[i] < q[j]
  BY DEF Ascending
<1>3. IsFiniteSet(1..n) /\ Cardinality(1..n) = n
  BY <1>1, FS_Interval
<1> HIDE DEF n
<1>4. \A i, j \in 1..n : q[i] = q[j] => i = j
  <2> SUFFICES ASSUME NEW i \in 1..n, NEW j \in 1..n, i # j PROVE q[i] # q[j]
    OBVIOUS
  <2>1. q[i] \in Nat /\ q[j] \in Nat
    BY <1>2
  <2>2. i < j \/ j < i
    BY <1>1
  <2>3. QED
    BY <1>2, <2>1, <2>2
<1>5. q \in Injection(1..n, S)
  BY <1>2, <1>4 DEF Injection, IsInjective
<1>6. q \in Surjection(1..n, S)
  BY <1>3, <1>5, FS_Injection DEF n
<1>7. q \in Seq(Nat) /\ Len(q) = n /\ DOMAIN q = 1..n
  <2>1. q \in [1..n -> Nat]
    BY <1>2
  <2>2. QED
    BY <1>1, <2>1, SeqDef, LenProperties
<1>8. Elements(q) = S
  BY <1>2, <1>6, <1>7 DEF Elements, Surjection
<1>9. QED
  BY <1>7, <1>8 DEF n

LEMMA SeqElements ==
  ASSUME NEW q \in Seq(Nat) PROVE Elements(q) \subseteq Nat
BY LenProperties DEF Elements

LEMMA WantedFinite ==
  ASSUME NEW from \in Nat, NEW amount \in Nat
  PROVE  /\ Wanted(from, amount) \subseteq Nat
         /\ IsFiniteSet(Wanted(from, amount))
         /\ Cardinality(Wanted(from, amount)) = amount
<1>1. from + amount - 1 \in Int
  OBVIOUS
<1>2. QED
  BY <1>1, FS_Interval DEF Wanted

\* What a look at the cache pushes.
LEMMA CacheHits ==
  ASSUME NEW from \in Nat, NEW amount \in Nat, NEW limit \in Nat,
         NEW S \in SUBSET Wanted(from, amount), \A u \in S : u < limit,
         NEW q \in Ascending(S)
  PROVE  /\ q \in Seq(Nat)
         /\ Hits(q, from, amount, limit)
         /\ Len(q) <= amount
<1>1. /\ IsFiniteSet(S) /\ S \in SUBSET Nat
      /\ Cardinality(S) <= amount
  BY WantedFinite, FS_Subset
<1>2. q \in Seq(Nat) /\ Len(q) = Cardinality(S) /\ Elements(q) = S
  BY <1>1, AscendingLists
<1>3. QED
  BY <1>1, <1>2 DEF Hits

LEMMA ConcatElements ==
  ASSUME NEW q \in Seq(Nat), NEW p \in Seq(Nat)
  PROVE  Elements(q \o p) = Elements(q) \cup Elements(p)
<1>1. /\ q \o p \in Seq(Nat) /\ Len(q \o p) = Len(q) + Len(p)
      /\ \A i \in 1..(Len(q) + Len(p)) :
           (q \o p)[i] = IF i <= Len(q) THEN q[i] ELSE p[i - Len(q)]
  BY ConcatProperties
<1>2. /\ DOMAIN (q \o p) = 1..(Len(q) + Len(p))
      /\ DOMAIN q = 1..Len(q) /\ DOMAIN p = 1..Len(p)
      /\ Len(q) \in Nat /\ Len(p) \in Nat
  BY <1>1
<1>3. \A i \in DOMAIN q : i \in DOMAIN (q \o p) /\ (q \o p)[i] = q[i]
  BY <1>1, <1>2
<1>4. \A i \in DOMAIN p :
        i + Len(q) \in DOMAIN (q \o p) /\ (q \o p)[i + Len(q)] = p[i]
  BY <1>1, <1>2
<1>5. \A i \in DOMAIN (q \o p) :
        \/ i \in DOMAIN q /\ (q \o p)[i] = q[i]
        \/ i - Len(q) \in DOMAIN p /\ (q \o p)[i] = p[i - Len(q)]
  BY <1>1, <1>2
<1>6. Elements(q \o p) \subseteq Elements(q) \cup Elements(p)
  BY <1>5 DEF Elements
<1>7. Elements(q) \subseteq Elements(q \o p)
  BY <1>3 DEF Elements
<1>8. Elements(p) \subseteq Elements(q \o p)
  <2> SUFFICES ASSUME NEW i \in DOMAIN p PROVE p[i] \in Elements(q \o p)
    BY DEF Elements
  <2>1. QED
    BY <1>4 DEF Elements
<1>9. QED
  BY <1>6, <1>7, <1>8

\* The part of what is wanted that tables with the first `limit` items hold.
LEMMA TableWindow ==
  ASSUME NEW from \in Nat, NEW amount \in Nat, NEW limit \in Nat
  PROVE  \E n \in Nat :
           /\ n <= amount
           /\ {u \in Wanted(from, amount) : u < limit} = from..(from + n - 1)
           /\ n < amount => limit <= from + n
<1>1. CASE limit <= from
  <2>1. {u \in Wanted(from, amount) : u < limit} = from..(from + 0 - 1)
    BY <1>1 DEF Wanted
  <2>2. QED
    BY <1>1, <2>1
<1>2. CASE from < limit /\ limit <= from + amount
  <2>1. {u \in Wanted(from, amount) : u < limit} = from..(from + (limit - from) - 1)
    BY <1>2 DEF Wanted
  <2>2. limit - from \in Nat /\ limit - from <= amount
    BY <1>2
  <2>3. limit <= from + (limit - from)
    OBVIOUS
  <2>4. QED
    BY <2>1, <2>2, <2>3
<1>3. CASE from + amount < limit
  <2>1. {u \in Wanted(from, amount) : u < limit} = from..(from + amount - 1)
    BY <1>3 DEF Wanted
  <2>2. QED
    BY <2>1
<1>4. limit <= from \/ (from < limit /\ limit <= from + amount) \/ from + amount < limit
  OBVIOUS
<1>5. QED
  BY <1>1, <1>2, <1>3, <1>4, Zenon

\* The rest is read from tables that hold the first `limit` items: then the
\* items are consecutive, and what is missing is not in the tables.
LEMMA TableRead ==
  ASSUME NEW from \in Nat, NEW amount \in Nat, NEW limit \in Nat,
         NEW q \in Seq(Nat), Hits(q, from, amount, limit),
         NEW rest, rest = {u \in Wanted(from, amount) \ Elements(q) : u < limit},
         NEW p \in Ascending(rest)
  PROVE  /\ rest \in SUBSET Nat
         /\ q \o p \in Seq(Nat)
         /\ Lists(q \o p, from)
         /\ Len(q \o p) <= amount
         /\ Len(q \o p) < amount => limit <= from + Len(q \o p)
<1> DEFINE all == {u \in Wanted(from, amount) : u < limit}
<1>1. /\ IsFiniteSet(all) /\ IsFiniteSet(rest) /\ IsFiniteSet(Elements(q))
      /\ rest \in SUBSET Nat
  <2>1. /\ all \in SUBSET Wanted(from, amount)
        /\ rest \in SUBSET Wanted(from, amount)
        /\ Elements(q) \in SUBSET Wanted(from, amount)
    BY DEF Hits
  <2>2. QED
    BY <2>1, WantedFinite, FS_Subset
<1>2. p \in Seq(Nat) /\ Len(p) = Cardinality(rest) /\ Elements(p) = rest
  BY <1>1, AscendingLists
<1>3. q \o p \in Seq(Nat) /\ Len(q \o p) = Len(q) + Len(p)
  BY <1>2, ConcatProperties
<1>4. Elements(q) \cup rest = all /\ Elements(q) \cap rest = {}
  BY DEF Hits
<1>5. Elements(q \o p) = all
  BY <1>2, <1>4, ConcatElements
<1>6. PICK n \in Nat :
        n <= amount /\ all = from..(from + n - 1) /\ (n < amount => limit <= from + n)
  BY TableWindow
<1> HIDE DEF all
<1>7. Cardinality(all) = n
  <2>1. from + n - 1 \in Int
    OBVIOUS
  <2>2. QED
    BY <1>6, <2>1, FS_Interval
<1>8. Cardinality(all) = Cardinality(Elements(q)) + Cardinality(rest) - Cardinality({})
  BY <1>1, <1>4, FS_Union
<1>9. Cardinality(all) = Cardinality(Elements(q)) + Cardinality(rest)
  BY <1>1, <1>8, FS_EmptySet, FS_CardinalityType
<1>10. Len(q \o p) = n
  BY <1>2, <1>3, <1>7, <1>9 DEF Hits
<1>11. QED
  BY <1>1, <1>3, <1>5, <1>6, <1>10 DEF Lists

-----------------------------------------------------------------------------
(***************************************************************************)
(* Facts that every step needs.                                            *)
(***************************************************************************)
LEMMA ShardFacts == Shard \subseteq Nat /\ 0 \in Shard /\ ForestWidth \in Nat \ {0}
BY ForestWidthAssumption DEF Shard

LEMMA StateFacts ==
  ASSUME TypeOK
  PROVE  /\ shard \in Shard /\ shard \in Nat
         /\ remain \in Nat /\ maxR \in Nat /\ maxS \in Nat
         /\ \A s \in Shard : /\ recv[s] \in Seq(Nat) /\ Len(recv[s]) \in Nat
                             /\ ckp.receiver_index[s] \in Nat
                             /\ rows[s] \in Nat /\ rows0[s] \in Nat
                             /\ NextReceiver(s) \in Nat
         /\ send \in Seq(Nat) /\ Len(send) \in Nat
         /\ ckp.sender_index \in Nat /\ NextSender \in Nat
         /\ nulls \in Nat /\ nulls0 \in Nat
<1>1. rows \in [Shard -> Nat] /\ nulls \in Nat
  BY CountAssumption DEF TypeOK, MirrorTypeOK
<1>2. shard \in Shard /\ shard \in Nat
  BY ShardFacts DEF TypeOK
<1>3. remain \in Nat /\ maxR \in Nat /\ maxS \in Nat
  BY PullAssumption DEF TypeOK
<1>4. /\ recv \in [Shard -> Seq(Nat)] /\ send \in Seq(Nat)
      /\ rows0 \in [Shard -> Nat] /\ nulls0 \in Nat
  BY DEF TypeOK
<1>5. ckp.receiver_index \in [Shard -> Nat] /\ ckp.sender_index \in Nat
  BY DEF TypeOK, Checkpoint
<1>6. Len(send) \in Nat /\ \A s \in Shard : recv[s] \in Seq(Nat) /\ Len(recv[s]) \in Nat
  BY <1>4, LenProperties
<1>7. QED
  BY <1>1, <1>2, <1>3, <1>4, <1>5, <1>6 DEF NextReceiver, NextSender

LEMMA PulledType ==
  ASSUME TypeOK
  PROVE  Pulled \in Nat /\ Len(recv[shard]) <= Pulled
<1> DEFINE f == [s \in Shard |-> Len(recv[s])]
<1>1. f \in [Shard -> Nat] /\ f[shard] = Len(recv[shard]) /\ shard \in Shard
  BY StateFacts
<1> HIDE DEF f
<1>2. SumOverShards(f) \in Nat /\ f[shard] <= SumOverShards(f)
  BY <1>1, SumExcept
<1>3. QED
  BY <1>1, <1>2 DEF Pulled, f

\* The items of one shard change.
LEMMA PulledChanges ==
  ASSUME TypeOK, NEW q \in Seq(Nat), recv' = [recv EXCEPT ![shard] = q]
  PROVE  /\ recv' \in [Shard -> Seq(Nat)]
         /\ recv'[shard] = q
         /\ \A s \in Shard \ {shard} : recv'[s] = recv[s]
         /\ Pulled' = (Pulled - Len(recv[shard])) + Len(q)
<1> DEFINE f == [s \in Shard |-> Len(recv[s])]
           g == [s \in Shard |-> Len(recv'[s])]
<1>1. /\ f \in [Shard -> Nat] /\ f[shard] = Len(recv[shard])
      /\ shard \in Shard /\ Len(q) \in Nat
  BY StateFacts
<1>2. /\ recv' \in [Shard -> Seq(Nat)] /\ recv'[shard] = q
      /\ \A s \in Shard \ {shard} : recv'[s] = recv[s]
  BY <1>1 DEF TypeOK
<1>3. g = [f EXCEPT ![shard] = Len(q)]
  BY <1>1, <1>2
<1> HIDE DEF f, g
<1>4. SumOverShards(g) = (SumOverShards(f) - f[shard]) + Len(q)
  BY <1>1, <1>3, SumExcept
<1>5. Pulled = SumOverShards(f) /\ Pulled' = SumOverShards(g)
  BY DEF Pulled, f, g
<1>6. QED
  BY <1>1, <1>2, <1>4, <1>5

\* Nothing is pushed yet.
LEMMA EmptyLists ==
  /\ \A from \in Nat : Lists(<< >>, from)
  /\ << >> \in Seq(Nat) /\ Len(<< >>) = 0
<1>1. << >> \in Seq(Nat) /\ Len(<< >>) = 0 /\ DOMAIN << >> = {}
  BY EmptySeq
<1>2. Elements(<< >>) = {}
  BY <1>1 DEF Elements
<1>3. \A from \in Nat : from..(from + 0 - 1) = {}
  OBVIOUS
<1>4. QED
  BY <1>1, <1>2, <1>3 DEF Lists

LEMMA NothingPulled ==
  ASSUME recv = NoReceivers PROVE Pulled = 0
<1>1. [s \in Shard |-> Len(recv[s])] = [s \in Shard |-> 0]
  BY EmptyLists DEF NoReceivers
<1>2. QED
  BY <1>1, SumZero DEF Pulled

-----------------------------------------------------------------------------
(***************************************************************************)
(* Steps that end a request.                                               *)
(***************************************************************************)
LEMMA ForgetStep ==
  ASSUME ForgetRequest, MirrorTypeOK', ckp' \in Checkpoint,
         gotR' \in [Shard -> SUBSET Nat], gotS' \in SUBSET Nat,
         faults' \in 0..MaxFaults, ClientInv'
  PROVE  IInv'
<1>1. /\ pc' = "idle" /\ maxR' = 0 /\ maxS' = 0 /\ shard' = 0
      /\ recv' = NoReceivers /\ remain' = 0 /\ found' = {}
      /\ moreR' = FALSE /\ send' = << >> /\ moreS' = FALSE /\ swallowed' = FALSE
      /\ rows0' = [s \in Shard |-> 0] /\ nulls0' = 0
  BY DEF ForgetRequest
<1>2. /\ recv' \in [Shard -> Seq(Nat)] /\ send' \in Seq(Nat)
      /\ \A s \in Shard : recv'[s] = << >>
      /\ Len(send') = 0
  BY <1>1, EmptyLists DEF NoReceivers
<1>3. TypeOK'
  BY <1>1, <1>2, ShardFacts, PullAssumption DEF TypeOK
<1>4. /\ \A s \in Shard : Lists(recv'[s], ckp'.receiver_index[s])
      /\ Lists(send', ckp'.sender_index)
  <2>1. ckp'.sender_index \in Nat /\ \A s \in Shard : ckp'.receiver_index[s] \in Nat
    BY DEF Checkpoint
  <2>2. QED
    BY <1>1, <1>2, <2>1, EmptyLists
<1>5. TablesInv' /\ FoundInv' /\ CompleteInv' /\ MoreInv'
  BY <1>1 DEF TablesInv, FoundInv, CompleteInv, MoreInv, Loop, AfterLoop
<1>6. ReceiversInv'
  BY <1>1, <1>4 DEF ReceiversInv, Loop, NoReceivers
<1>7. CountInv'
  <2>1. Pulled' = 0
    <3>1. [s \in Shard |-> Len(recv'[s])] = [s \in Shard |-> 0]
      BY <1>2, EmptyLists
    <3>2. QED
      BY <3>1, SumZero DEF Pulled
  <2>2. QED
    BY <1>1, <2>1 DEF CountInv, Loop
<1>8. SendersInv'
  BY <1>1, <1>2, <1>4 DEF SendersInv, AfterLoop
<1>9. QED
  BY <1>3, <1>5, <1>6, <1>7, <1>8 DEF IInv

LEMMA InitIInv == Init => IInv
<1> SUFFICES ASSUME Init PROVE IInv
  OBVIOUS
<1>1. /\ pc = "idle" /\ maxR = 0 /\ maxS = 0 /\ shard = 0
      /\ recv = NoReceivers /\ remain = 0 /\ found = {}
      /\ moreR = FALSE /\ send = << >> /\ moreS = FALSE /\ swallowed = FALSE
      /\ rows0 = [s \in Shard |-> 0] /\ nulls0 = 0 /\ faults = 0
  BY DEF Init
<1>2. /\ recv \in [Shard -> Seq(Nat)] /\ send \in Seq(Nat)
      /\ \A s \in Shard : recv[s] = << >>
      /\ Len(send) = 0
  BY <1>1, EmptyLists DEF NoReceivers
<1>3. MirrorTypeOK
  BY CountAssumption DEF Init, MirrorInit, MirrorTypeOK
<1>4. /\ ckp = ZeroCheckpoint /\ ckp \in Checkpoint
      /\ gotR = [s \in Shard |-> {}] /\ gotS = {}
  BY DEF Init, ZeroCheckpoint, Checkpoint
<1>5. TypeOK
  BY <1>1, <1>2, <1>3, <1>4, ShardFacts, PullAssumption DEF TypeOK
<1>6. ClientInv
  <2>1. 0..(0 - 1) = {}
    OBVIOUS
  <2>2. QED
    BY <1>4, <2>1 DEF ClientInv, ExactlyOnce, ZeroCheckpoint
<1>7. TablesInv /\ FoundInv /\ CompleteInv /\ MoreInv
  BY <1>1 DEF TablesInv, FoundInv, CompleteInv, MoreInv, Loop, AfterLoop
<1>8. ReceiversInv
  BY <1>1, <1>2, <1>5, StateFacts, EmptyLists DEF ReceiversInv, Loop
<1>9. CountInv
  BY <1>1, NothingPulled DEF CountInv, Loop
<1>10. SendersInv
  BY <1>1, <1>2, <1>5, StateFacts, EmptyLists DEF SendersInv, AfterLoop
<1>11. QED
  BY <1>5, <1>6, <1>7, <1>8, <1>9, <1>10 DEF IInv

\* Two stretches of indices, one after the other.
LEMMA Stretches ==
  ASSUME NEW a \in Nat, NEW n \in Nat
  PROVE  0..((a + n) - 1) = (0..(a - 1)) \cup (a..(a + n - 1))
OBVIOUS

\* The client that counts keeps exactly what is before its checkpoint.
LEMMA RespondStep ==
  ASSUME IInv, Respond
  PROVE  IInv'
<1>1. /\ pc = "total" /\ TakeAnswer /\ ForgetRequest
      /\ UNCHANGED <<rows, nulls, hasTotal, cached, faults>>
  BY DEF Respond, mirrorVars
<1>2. MirrorTypeOK' /\ faults' \in 0..MaxFaults
  BY <1>1 DEF IInv, TypeOK, MirrorTypeOK
<1>3. /\ \A s \in Shard : Lists(recv[s], ckp.receiver_index[s])
      /\ Lists(send, ckp.sender_index)
  BY <1>1 DEF IInv, ReceiversInv, SendersInv
<1>4. /\ gotR' = [s \in Shard |-> gotR[s] \cup Elements(recv[s])]
      /\ gotS' = gotS \cup Elements(send)
      /\ ckp' = IF FollowCursor /\ should_continue
                  THEN next_checkpoint ELSE calculate_next_checkpoint
  BY <1>1 DEF TakeAnswer
<1>5. gotR' \in [Shard -> SUBSET Nat] /\ gotS' \in SUBSET Nat
  <2>1. Elements(send) \subseteq Nat /\ \A s \in Shard : Elements(recv[s]) \subseteq Nat
    BY StateFacts, SeqElements DEF IInv
  <2>2. gotR \in [Shard -> SUBSET Nat] /\ gotS \in SUBSET Nat
    BY DEF IInv, TypeOK
  <2>3. QED
    BY <1>4, <2>1, <2>2
<1>6. ckp' \in Checkpoint
  <2> DEFINE idx == [s \in Shard |-> ckp.receiver_index[s] + Len(recv[s])]
  <2>0. /\ \A s \in Shard : ckp.receiver_index[s] \in Nat /\ Len(recv[s]) \in Nat
        /\ ckp.sender_index \in Nat /\ maxS \in Nat /\ Len(send) \in Nat
    BY StateFacts DEF IInv
  <2>4. idx \in [Shard -> Nat]
    BY <2>0
  <2>5. ckp.sender_index + maxS \in Nat /\ ckp.sender_index + Len(send) \in Nat
    BY <2>0
  <2>6. /\ next_checkpoint =
             [receiver_index |-> idx, sender_index |-> ckp.sender_index + maxS]
        /\ calculate_next_checkpoint =
             [receiver_index |-> idx, sender_index |-> ckp.sender_index + Len(send)]
    BY DEF next_checkpoint, calculate_next_checkpoint
  <2> HIDE DEF idx
  <2>1. next_checkpoint \in Checkpoint
    BY <2>4, <2>5, <2>6 DEF Checkpoint
  <2>2. calculate_next_checkpoint \in Checkpoint
    BY <2>4, <2>5, <2>6 DEF Checkpoint
  <2>3. QED
    BY <1>4, <2>1, <2>2
<1>7. ClientInv'
  <2> SUFFICES ASSUME ~FollowCursor PROVE ExactlyOnce'
    BY DEF ClientInv
  <2>1. /\ \A s \in Shard : ckp'.receiver_index[s] = ckp.receiver_index[s] + Len(recv[s])
        /\ ckp'.sender_index = ckp.sender_index + Len(send)
    BY <1>4 DEF calculate_next_checkpoint
  <2>2. ExactlyOnce
    BY DEF IInv, ClientInv
  <2>3. ASSUME NEW s \in Shard PROVE gotR'[s] = 0..(ckp'.receiver_index[s] - 1)
    <3>1. gotR[s] = 0..(ckp.receiver_index[s] - 1)
      BY <2>2 DEF ExactlyOnce
    <3>2. Elements(recv[s]) =
            ckp.receiver_index[s]..(ckp.receiver_index[s] + Len(recv[s]) - 1)
      BY <1>3 DEF Lists
    <3>3. ckp.receiver_index[s] \in Nat /\ Len(recv[s]) \in Nat
      BY StateFacts DEF IInv
    <3>4. gotR'[s] = gotR[s] \cup Elements(recv[s])
      BY <1>4
    <3>5. 0..((ckp.receiver_index[s] + Len(recv[s])) - 1) = gotR[s] \cup Elements(recv[s])
      BY <3>1, <3>2, <3>3, Stretches
    <3>6. QED
      BY <2>1, <3>4, <3>5
  <2>4. gotS' = 0..(ckp'.sender_index - 1)
    <3>1. gotS = 0..(ckp.sender_index - 1)
      BY <2>2 DEF ExactlyOnce
    <3>2. Elements(send) = ckp.sender_index..(ckp.sender_index + Len(send) - 1)
      BY <1>3 DEF Lists
    <3>3. ckp.sender_index \in Nat /\ Len(send) \in Nat
      BY StateFacts DEF IInv
    <3>4. 0..((ckp.sender_index + Len(send)) - 1) = gotS \cup Elements(send)
      BY <3>1, <3>2, <3>3, Stretches
    <3>5. QED
      BY <1>4, <2>1, <3>4
  <2>5. QED
    BY <2>3, <2>4 DEF ExactlyOnce
<1>8. QED
  BY <1>1, <1>2, <1>5, <1>6, <1>7, ForgetStep

\* Without an answer the client keeps what it has.
LEMMA FailStep ==
  ASSUME IInv, NoTotal \/ RequestFails \/ Restart
  PROVE  IInv'
<1>1. ForgetRequest /\ UNCHANGED <<ckp, gotR, gotS>>
  BY DEF NoTotal, RequestFails, Restart, client
<1>2. faults' \in 0..MaxFaults
  <2>1. faults \in 0..MaxFaults
    BY DEF IInv, TypeOK
  <2>2. faults' = faults \/ (faults < MaxFaults /\ faults' = faults + 1)
    BY DEF NoTotal, RequestFails, Restart, Fault
  <2>3. QED
    BY <2>1, <2>2, PullAssumption
<1>3. MirrorTypeOK'
  <2>1. CASE NoTotal \/ RequestFails
    BY <2>1 DEF NoTotal, RequestFails, mirrorVars, IInv, TypeOK, MirrorTypeOK
  <2>2. CASE Restart
    BY <2>2 DEF Restart, MirrorRestart, IInv, TypeOK, MirrorTypeOK
  <2>3. QED
    BY <2>1, <2>2
<1>4. ClientInv'
  BY <1>1 DEF IInv, ClientInv, ExactlyOnce
<1>5. ckp' \in Checkpoint /\ gotR' \in [Shard -> SUBSET Nat] /\ gotS' \in SUBSET Nat
  BY <1>1 DEF IInv, TypeOK
<1>6. QED
  BY <1>1, <1>2, <1>3, <1>4, <1>5, ForgetStep

-----------------------------------------------------------------------------
(***************************************************************************)
(* Steps of the syncing job and of other requests.                         *)
(***************************************************************************)
LEMMA KeysGrow ==
  ASSUME NEW r \in [Shard -> Nat], NEW q \in [Shard -> Nat], NEW n \in Nat, NEW m \in Nat,
         \A s \in Shard : r[s] <= q[s], n <= m
  PROVE  KeysUpTo(r, n) \subseteq KeysUpTo(q, m)
<1>1. \A s \in Shard : 0..(r[s] - 1) \subseteq 0..(q[s] - 1)
  OBVIOUS
<1>2. 0..(n - 1) \subseteq 0..(m - 1)
  OBVIOUS
<1>3. (UNION {{receiver_key(s, u) : u \in 0..(r[s] - 1)} : s \in Shard})
        \subseteq (UNION {{receiver_key(s, u) : u \in 0..(q[s] - 1)} : s \in Shard})
  BY <1>1
<1>4. {sender_key(i) : i \in 0..(n - 1)} \subseteq {sender_key(i) : i \in 0..(m - 1)}
  BY <1>2
<1>5. QED
  BY <1>3, <1>4 DEF KeysUpTo

LEMMA HitsGrow ==
  ASSUME NEW q, NEW from, NEW amount, NEW limit \in Nat, NEW more \in Nat, limit <= more,
         from \in Nat, amount \in Nat, Hits(q, from, amount, limit)
  PROVE  Hits(q, from, amount, more)
<1>1. Wanted(from, amount) \subseteq Nat
  BY WantedFinite
<1>2. QED
  BY <1>1 DEF Hits

LEMMA OthersStep ==
  ASSUME IInv, UNCHANGED <<pc, client, request, faults>>,
         MirrorTypeOK', \A s \in Shard : rows[s] <= rows'[s], nulls <= nulls'
  PROVE  IInv'
<1>1. UNCHANGED <<pc, ckp, gotR, gotS, maxR, maxS, shard, recv, remain, found, moreR,
                  send, moreS, faults, swallowed, rows0, nulls0>>
  BY DEF client, request
<1>2. TypeOK'
  BY <1>1 DEF IInv, TypeOK
<1>3. /\ \A s \in Shard : rows[s] \in Nat /\ rows'[s] \in Nat /\ rows0[s] \in Nat
                           /\ NextReceiver(s) \in Nat
      /\ nulls \in Nat /\ nulls' \in Nat /\ nulls0 \in Nat
      /\ shard \in Shard /\ ckp.sender_index \in Nat /\ maxS \in Nat /\ remain \in Nat
      /\ ckp.receiver_index[shard] \in Nat
  <2>1. rows' \in [Shard -> Nat] /\ nulls' \in Nat
    BY CountAssumption DEF MirrorTypeOK
  <2>2. QED
    BY <2>1, StateFacts DEF IInv
<1>4. Pulled' = Pulled /\ \A s \in Shard : NextReceiver(s)' = NextReceiver(s)
  BY <1>1 DEF Pulled, NextReceiver
<1>5. TablesInv'
  BY <1>1, <1>3 DEF IInv, TablesInv
<1>6. ReceiversInv'
  <2>1. pc = "query" =>
          Hits(recv[shard], ckp.receiver_index[shard], remain, rows'[shard])
    BY <1>3, HitsGrow DEF IInv, ReceiversInv
  <2>2. QED
    BY <1>1, <2>1 DEF IInv, ReceiversInv
<1>7. CountInv' /\ CompleteInv'
  BY <1>1, <1>4 DEF IInv, CountInv, CompleteInv, NextReceiver
<1>8. MoreInv'
  BY <1>1, <1>3, <1>4 DEF IInv, MoreInv
<1>9. FoundInv'
  <2>1. found \subseteq Nat
    BY DEF IInv, TypeOK
  <2>2. QED
    BY <1>1, <1>3, <2>1 DEF IInv, FoundInv
<1>10. SendersInv'
  <2>1. pc = "sender_query" => Hits(send, ckp.sender_index, maxS, nulls')
    BY <1>3, HitsGrow DEF IInv, SendersInv
  <2>2. QED
    BY <1>1, <1>3, <2>1 DEF IInv, SendersInv, NextSender
<1>11. ClientInv'
  BY <1>1 DEF IInv, ClientInv, ExactlyOnce
<1>12. QED
  BY <1>2, <1>5, <1>6, <1>7, <1>8, <1>9, <1>10, <1>11 DEF IInv

LEMMA EnvironmentStep ==
  ASSUME IInv, SyncCommit \/ OthersFill \/ OthersEvict
  PROVE  IInv'
<1>1. UNCHANGED <<pc, client, request, faults>>
  BY DEF SyncCommit, OthersFill, OthersEvict
<1>2. rows \in [Shard -> Count] /\ nulls \in Count /\ hasTotal \in BOOLEAN
        /\ cached \subseteq KeysUpTo(rows, nulls)
  BY DEF IInv, TypeOK, MirrorTypeOK
<1>3. rows \in [Shard -> Nat] /\ nulls \in Nat
  BY <1>2, CountAssumption
<1>4. /\ MirrorTypeOK'
      /\ \A s \in Shard : rows[s] <= rows'[s]
      /\ nulls <= nulls'
  <2>1. CASE SyncCommit
    <3>1. PICK r \in [Shard -> Count], n \in Count : MirrorCommit(r, n)
      BY <2>1 DEF SyncCommit
    <3>2. /\ rows' = r /\ nulls' = n /\ hasTotal' = TRUE /\ cached' = cached
          /\ \A s \in Shard : rows[s] <= r[s]
          /\ nulls <= n
      BY <3>1 DEF MirrorCommit
    <3>3. r \in [Shard -> Nat] /\ n \in Nat
      BY CountAssumption
    <3>4. KeysUpTo(rows, nulls) \subseteq KeysUpTo(r, n)
      BY <1>3, <3>2, <3>3, KeysGrow
    <3>5. QED
      BY <1>2, <3>2, <3>4 DEF MirrorTypeOK
  <2>2. CASE OthersFill \/ OthersEvict
    <3>1. PICK keys : MirrorCachePut(keys)
      BY <2>2 DEF OthersFill, OthersEvict
    <3>2. /\ UNCHANGED <<rows, nulls, hasTotal>>
          /\ cached' \subseteq cached \cup KeysUpTo(rows, nulls)
      BY <3>1 DEF MirrorCachePut
    <3>3. cached' \subseteq KeysUpTo(rows, nulls)
      BY <1>2, <3>2
    <3>4. \A s \in Shard : rows[s] <= rows[s]
      BY <1>3
    <3>5. QED
      BY <1>2, <1>3, <3>2, <3>3, <3>4 DEF MirrorTypeOK
  <2>3. QED
    BY <2>1, <2>2
<1>5. QED
  BY <1>1, <1>4, OthersStep

-----------------------------------------------------------------------------
(***************************************************************************)
(* Steps of the request.                                                   *)
(***************************************************************************)
LEMMA AskStep ==
  ASSUME IInv, NEW r \in Amount, NEW n \in Amount, Ask(r, n)
  PROVE  IInv'
<1>1. /\ pc = "idle" /\ pc' = "has_shard"
      /\ maxR' = Smaller(r, MAX_RECEIVERS) /\ maxS' = Smaller(n, MAX_SENDERS)
      /\ remain' = maxR' /\ rows0' = rows /\ nulls0' = nulls
      /\ UNCHANGED <<rows, nulls, hasTotal, cached, ckp, gotR, gotS, shard, recv, found,
                     moreR, send, moreS, faults, swallowed>>
  BY DEF Ask, mirrorVars, client
<1>2. /\ maxR' \in Nat /\ maxR' \in 0..MAX_RECEIVERS
      /\ maxS' \in Nat /\ maxS' \in 0..MAX_SENDERS
  BY <1>1, PullAssumption DEF Smaller
<1>3. rows \in [Shard -> Nat] /\ nulls \in Nat
  BY CountAssumption DEF IInv, TypeOK, MirrorTypeOK
<1>4. TypeOK'
  BY <1>1, <1>2, <1>3 DEF IInv, TypeOK, MirrorTypeOK
<1>5. TablesInv'
  BY <1>1, <1>3 DEF TablesInv
<1>6. recv = NoReceivers /\ shard = 0 /\ send = << >>
  BY <1>1 DEF IInv, ReceiversInv, SendersInv, AfterLoop
<1>7. ReceiversInv'
  BY <1>1, <1>6 DEF IInv, ReceiversInv, NoReceivers
<1>8. CountInv'
  <2>1. Pulled' = Pulled /\ Pulled = 0
    BY <1>1, <1>6, NothingPulled DEF Pulled
  <2>2. Len(recv'[shard']) = 0
    BY <1>1, <1>6, ShardFacts, EmptyLists DEF NoReceivers
  <2>3. QED
    BY <1>1, <1>2, <2>1, <2>2 DEF CountInv
<1>9. CompleteInv'
  BY <1>1, <1>6, ShardFacts DEF CompleteInv, AfterLoop
<1>10. MoreInv' /\ FoundInv'
  BY <1>1 DEF IInv, MoreInv, FoundInv, AfterLoop
<1>11. SendersInv'
  BY <1>1, <1>2, <1>6, EmptyLists DEF IInv, SendersInv, AfterLoop
<1>12. ClientInv'
  BY <1>1 DEF IInv, ClientInv, ExactlyOnce
<1>13. QED
  BY <1>4, <1>5, <1>7, <1>8, <1>9, <1>10, <1>11, <1>12 DEF IInv

\* Steps that only move on inside the loop.
LEMMA HasShardStep ==
  ASSUME IInv, HasShard
  PROVE  IInv'
<1>1. /\ pc = "has_shard" /\ pc' = "cache"
      /\ UNCHANGED <<rows, nulls, hasTotal, cached, ckp, gotR, gotS, maxR, maxS, shard,
                     recv, remain, found, moreR, send, moreS, faults, swallowed,
                     rows0, nulls0>>
  BY DEF HasShard, mirrorVars, client, request
<1>2. TypeOK'
  BY <1>1 DEF IInv, TypeOK, MirrorTypeOK
<1>3. Pulled' = Pulled
  BY <1>1 DEF Pulled
<1>4. TablesInv' /\ ReceiversInv'
  BY <1>1 DEF IInv, TablesInv, ReceiversInv, Loop
<1>5. CountInv' /\ CompleteInv'
  BY <1>1, <1>3 DEF IInv, CountInv, CompleteInv, NextReceiver, Loop, AfterLoop
<1>6. MoreInv' /\ FoundInv' /\ ClientInv'
  BY <1>1 DEF IInv, MoreInv, FoundInv, ClientInv, ExactlyOnce, NextReceiver, AfterLoop
<1>7. SendersInv'
  BY <1>1 DEF IInv, SendersInv, NextSender, AfterLoop
<1>8. QED
  BY <1>2, <1>4, <1>5, <1>6, <1>7 DEF IInv

\* A shard is left: the loop goes on only while there is room, and then the
\* shard is read to its end unless an error said so.
LEMMA LeaveShardStep ==
  ASSUME IInv, pc \in {"has_shard", "more"}, NEW break \in BOOLEAN, LeaveShard(break),
         UNCHANGED <<mirrorVars, client, maxR, maxS, recv, found, send, moreS, rows0, nulls0>>,
         faults' \in 0..MaxFaults, swallowed' \in {swallowed, TRUE}, moreR' \in BOOLEAN,
         IF break THEN Pulled = maxR /\ remain' = remain ELSE remain' = maxR - Pulled,
         ~break /\ ~swallowed' => rows0[shard] <= NextReceiver(shard),
         moreR' => break /\ \E s \in Shard : NextReceiver(s) < rows[s]
  PROVE  IInv'
<1>1. UNCHANGED <<rows, nulls, hasTotal, cached, ckp, gotR, gotS, maxR, maxS, recv,
                  found, send, moreS, rows0, nulls0>>
  BY DEF mirrorVars, client
<1>2. \/ pc' = "sender_cache" /\ shard' = shard /\ (break \/ shard = ForestWidth - 1)
      \/ pc' = "has_shard" /\ shard' = shard + 1 /\ ~break /\ shard # ForestWidth - 1
  BY DEF LeaveShard
<1>3. shard' \in Shard /\ shard \in Nat
  <2>1. shard \in Shard /\ shard \in Nat
    BY StateFacts DEF IInv
  <2>2. shard' = shard \/ (shard' = shard + 1 /\ shard # ForestWidth - 1)
    BY <1>2
  <2>3. QED
    BY <2>1, <2>2, ForestWidthAssumption DEF Shard
<1>4. Pulled' = Pulled /\ Pulled \in Nat /\ Pulled <= maxR /\ maxR \in Nat
  BY <1>1, PulledType, StateFacts DEF IInv, Pulled, CountInv
<1>5. remain' \in 0..maxR
  <2>1. remain \in 0..maxR
    BY DEF IInv, TypeOK
  <2>2. QED
    BY <1>4, <2>1
<1>6. TypeOK'
  <2>1. swallowed' \in BOOLEAN
    BY DEF IInv, TypeOK
  <2>2. pc' \in {"sender_cache", "has_shard"}
    BY <1>2
  <2>3. QED
    BY <1>1, <1>3, <1>5, <2>1, <2>2 DEF IInv, TypeOK, MirrorTypeOK
<1>7. TablesInv'
  BY <1>1 DEF IInv, TablesInv
<1>8. \A t \in Shard : t > shard => recv[t] = << >>
  BY DEF IInv, ReceiversInv, Loop
<1>9. ReceiversInv'
  <2>1. \A s \in Shard : Lists(recv[s], ckp.receiver_index[s])
    BY DEF IInv, ReceiversInv
  <2>2. pc' \in Loop => \A t \in Shard : t >= shard' => recv'[t] = << >>
    BY <1>1, <1>2, <1>3, <1>8, ShardFacts DEF Loop
  <2>3. QED
    BY <1>1, <1>2, <1>3, <2>1, <2>2, ShardFacts DEF ReceiversInv
<1>10. CountInv'
  <2>1. pc' \in Loop => Len(recv'[shard']) = 0 /\ remain' = maxR - Pulled
    BY <1>1, <1>2, <1>3, <1>8, EmptyLists DEF Loop
  <2>2. QED
    BY <1>1, <1>4, <2>1 DEF CountInv
<1>11. CompleteInv'
  <2>1. ~swallowed' => ~swallowed
    OBVIOUS
  <2>2. ~swallowed => \A s \in Shard : s < shard => rows0[s] <= NextReceiver(s)
    BY DEF IInv, CompleteInv, Loop
  <2>3. ~swallowed' /\ ~break => \A s \in Shard : s <= shard => rows0[s] <= NextReceiver(s)
    BY <1>3, <2>1, <2>2, ShardFacts
  <2>4. shard = ForestWidth - 1 => \A s \in Shard : s <= shard
    BY ForestWidthAssumption DEF Shard
  <2>5. \A s \in Shard : NextReceiver(s)' = NextReceiver(s)
    BY <1>1 DEF NextReceiver
  <2>6. pc' = "has_shard" => \A s \in Shard : s < shard' => s <= shard
    BY <1>2, <1>3, ShardFacts
  <2>7. pc' \in AfterLoop /\ Pulled < maxR => ~break /\ shard = ForestWidth - 1
    BY <1>2, <1>4 DEF AfterLoop
  <2>8. pc' \in Loop => pc' = "has_shard" /\ ~break
    BY <1>2 DEF Loop
  <2>9. pc' \notin {"write_back", "more"}
    BY <1>2
  <2>10. QED
    BY <1>1, <1>4, <2>3, <2>4, <2>5, <2>6, <2>7, <2>8, <2>9 DEF CompleteInv
<1>12. MoreInv'
  <2>1. \A s \in Shard : NextReceiver(s)' = NextReceiver(s)
    BY <1>1 DEF NextReceiver
  <2>2. pc' \notin AfterLoop => ~break
    BY <1>2 DEF AfterLoop
  <2>3. QED
    BY <1>1, <2>1, <2>2 DEF MoreInv
<1>13. FoundInv' /\ ClientInv'
  BY <1>1, <1>2 DEF IInv, FoundInv, ClientInv, ExactlyOnce
<1>14. SendersInv'
  BY <1>1, <1>2 DEF IInv, SendersInv, AfterLoop
<1>15. QED
  BY <1>6, <1>7, <1>9, <1>10, <1>11, <1>12, <1>13, <1>14 DEF IInv

\* A shard without new items is skipped; so is one whose check fails.
LEMMA SkipShardStep ==
  ASSUME IInv, SkipShard \/ HasShardFails
  PROVE  IInv'
<1>1. /\ pc = "has_shard" /\ LeaveShard(FALSE)
      /\ UNCHANGED <<mirrorVars, client, maxR, maxS, recv, remain, found, moreR, send,
                     moreS, rows0, nulls0>>
      /\ faults' \in {faults, faults + 1} /\ (faults' # faults => faults < MaxFaults)
      /\ swallowed' \in {swallowed, TRUE}
      /\ ~swallowed' => ~has_shard(shard, ckp.receiver_index[shard])
  BY DEF SkipShard, HasShardFails, Fault
<1>2. faults' \in 0..MaxFaults /\ moreR' \in BOOLEAN /\ ~moreR'
  <2>1. faults \in 0..MaxFaults /\ moreR \in BOOLEAN
    BY DEF IInv, TypeOK
  <2>2. ~moreR
    BY <1>1 DEF IInv, MoreInv, AfterLoop
  <2>3. QED
    BY <1>1, <2>1, <2>2, PullAssumption
<1>3. Len(recv[shard]) = 0
  BY <1>1, StateFacts, EmptyLists DEF IInv, ReceiversInv, Loop
<1>4. remain = maxR - Pulled
  BY <1>1, <1>3, PulledType, StateFacts DEF IInv, CountInv, Loop
<1>5. ~swallowed' => rows0[shard] <= NextReceiver(shard)
  <2>1. rows0[shard] <= rows[shard]
    BY <1>1, StateFacts DEF IInv, TablesInv
  <2>2. QED
    BY <1>1, <1>3, <2>1, StateFacts DEF IInv, has_shard, NextReceiver
<1>6. QED
  BY <1>1, <1>2, <1>4, <1>5, LeaveShardStep

\* After a shard: one that filled the answer ends the loop.
LEMMA FinishShardStep ==
  ASSUME IInv, FinishShard \/ HasMoreFails
  PROVE  IInv'
<1> DEFINE break == Pulled = maxR
<1>1. /\ pc = "more"
      /\ UNCHANGED <<mirrorVars, client, maxR, maxS, recv, found, send, moreS, rows0, nulls0>>
      /\ faults' \in {faults, faults + 1} /\ (faults' # faults => faults < MaxFaults)
      /\ swallowed' \in {swallowed, TRUE}
  BY DEF FinishShard, HasMoreFails, Fault
<1>2. /\ LeaveShard(break)
      /\ remain' = IF break THEN remain ELSE maxR - Pulled
      /\ \/ moreR' = (moreR \/ (Len(recv[shard]) = remain /\ FALSE))
         \/ moreR' = (moreR \/ (/\ Len(recv[shard]) = remain
                                /\ has_shard(shard, ckp.receiver_index[shard] + remain)))
  BY DEF FinishShard, HasMoreFails, MoreInShard
<1>3. ~moreR
  BY <1>1 DEF IInv, MoreInv, AfterLoop
<1>4. /\ Len(recv[shard]) <= remain
      /\ (Pulled - Len(recv[shard])) + remain = maxR
      /\ Pulled \in Nat /\ Len(recv[shard]) \in Nat /\ remain \in Nat /\ maxR \in Nat
      /\ shard \in Shard
  BY <1>1, StateFacts, PulledType DEF IInv, CountInv, Loop
<1>5. Len(recv[shard]) = remain <=> break
  BY <1>4
<1>6. faults' \in 0..MaxFaults
  <2>1. faults \in 0..MaxFaults
    BY DEF IInv, TypeOK
  <2>2. QED
    BY <1>1, <2>1, PullAssumption
<1>7. moreR' \in BOOLEAN
  BY <1>2, <1>3
<1>8. ~break => rows0[shard] <= NextReceiver(shard)
  BY <1>1, <1>4, <1>5 DEF IInv, CompleteInv
<1>9. moreR' => break /\ NextReceiver(shard) < rows[shard]
  BY <1>1, <1>2, <1>3, <1>5 DEF NextReceiver, has_shard
<1> HIDE DEF break
<1>10. break \in BOOLEAN /\ (break => Pulled = maxR)
  BY DEF break
<1>11. QED
  BY <1>1, <1>2, <1>4, <1>6, <1>7, <1>8, <1>9, <1>10, LeaveShardStep

\* The keys tell the items apart: a hit is an item of the tables.
LEMMA KeyInTables ==
  ASSUME NEW r \in [Shard -> Nat], NEW n \in Nat
  PROVE  /\ \A s \in Shard, u \in Nat : receiver_key(s, u) \in KeysUpTo(r, n) <=> u < r[s]
         /\ \A i \in Nat : sender_key(i) \in KeysUpTo(r, n) <=> i < n
<1>1. ASSUME NEW s \in Shard, NEW u \in Nat
      PROVE  receiver_key(s, u) \in KeysUpTo(r, n) <=> u < r[s]
  <2>1. u < r[s] <=> u \in 0..(r[s] - 1)
    OBVIOUS
  <2>2. \A i \in 0..(n - 1) : receiver_key(s, u) # sender_key(i)
    BY DEF receiver_key, sender_key, RECEIVER_KEY_PREFIX, SENDER_KEY_PREFIX
  <2>3. \A t \in Shard : \A v \in 0..(r[t] - 1) :
          receiver_key(s, u) = receiver_key(t, v) => s = t /\ u = v
    BY DEF receiver_key
  <2>4. QED
    BY <2>1, <2>2, <2>3 DEF KeysUpTo
<1>2. ASSUME NEW i \in Nat
      PROVE  sender_key(i) \in KeysUpTo(r, n) <=> i < n
  <2>1. i < n <=> i \in 0..(n - 1)
    OBVIOUS
  <2>2. \A t \in Shard : \A v \in 0..(r[t] - 1) : sender_key(i) # receiver_key(t, v)
    BY DEF receiver_key, sender_key, RECEIVER_KEY_PREFIX, SENDER_KEY_PREFIX
  <2>3. \A j \in 0..(n - 1) : sender_key(i) = sender_key(j) => i = j
    BY DEF sender_key
  <2>4. QED
    BY <2>1, <2>2, <2>3 DEF KeysUpTo
<1>3. QED
  BY <1>1, <1>2

LEMMA TableTypes ==
  ASSUME TypeOK
  PROVE  rows \in [Shard -> Nat] /\ nulls \in Nat /\ cached \subseteq KeysUpTo(rows, nulls)
BY CountAssumption DEF TypeOK, MirrorTypeOK

LEMMA ReadCacheStep ==
  ASSUME IInv, ReadCache
  PROVE  IInv'
<1> DEFINE from == ckp.receiver_index[shard]
           hits == cached_receivers(shard, Wanted(from, remain))
<1>1. /\ pc = "cache" /\ pc' = "query"
      /\ UNCHANGED <<rows, nulls, hasTotal, cached, ckp, gotR, gotS, maxR, maxS, shard,
                     remain, found, moreR, send, moreS, faults, swallowed, rows0, nulls0>>
  BY DEF ReadCache, mirrorVars, client
<1>2. PICK q \in Ascending(hits) : recv' = [recv EXCEPT ![shard] = q]
  BY DEF ReadCache
<1>3. from \in Nat /\ remain \in Nat /\ shard \in Shard /\ rows[shard] \in Nat
  BY StateFacts DEF IInv
<1> HIDE DEF from
<1>4. hits \in SUBSET Wanted(from, remain) /\ \A u \in hits : u < rows[shard]
  <2>1. Wanted(from, remain) \subseteq Nat
    BY <1>3, WantedFinite
  <2>2. QED
    BY <1>3, <2>1, TableTypes, KeyInTables DEF cached_receivers, IInv
<1> HIDE DEF hits
<1>5. q \in Seq(Nat) /\ Hits(q, from, remain, rows[shard]) /\ Len(q) <= remain
  BY <1>3, <1>4, CacheHits
<1>6. /\ recv' \in [Shard -> Seq(Nat)] /\ recv'[shard] = q
      /\ \A s \in Shard \ {shard} : recv'[s] = recv[s]
      /\ Pulled' = (Pulled - Len(recv[shard])) + Len(q)
  BY <1>2, <1>5, PulledChanges DEF IInv
<1>7. TypeOK'
  BY <1>1, <1>6 DEF IInv, TypeOK, MirrorTypeOK
<1>8. TablesInv' /\ FoundInv' /\ ClientInv'
  BY <1>1 DEF IInv, TablesInv, FoundInv, ClientInv, ExactlyOnce
<1>9. ReceiversInv'
  <2>1. \A s \in Shard : s # shard => Lists(recv'[s], ckp'.receiver_index[s])
    BY <1>1, <1>6 DEF IInv, ReceiversInv
  <2>2. \A t \in Shard : t > shard => recv'[t] = << >>
    BY <1>1, <1>3, <1>6, ShardFacts DEF IInv, ReceiversInv, Loop
  <2>3. Hits(recv'[shard], ckp'.receiver_index[shard], remain, rows[shard])
    BY <1>1, <1>5, <1>6 DEF from
  <2>4. QED
    BY <1>1, <2>1, <2>2, <2>3 DEF ReceiversInv
<1>10. CountInv'
  <2>1. Len(recv[shard]) = 0 /\ Pulled + remain = maxR
    BY <1>1, <1>3, EmptyLists, PulledType DEF IInv, ReceiversInv, CountInv, Loop
  <2>2. Len(q) \in Nat /\ Pulled \in Nat /\ maxR \in Nat
    BY <1>5, LenProperties, PulledType, StateFacts DEF IInv
  <2>3. QED
    BY <1>1, <1>3, <1>5, <1>6, <2>1, <2>2 DEF CountInv
<1>11. CompleteInv'
  <2>1. \A s \in Shard : s < shard => NextReceiver(s)' = NextReceiver(s)
    BY <1>1, <1>3, <1>6, ShardFacts DEF NextReceiver
  <2>2. QED
    BY <1>1, <2>1 DEF IInv, CompleteInv, Loop, AfterLoop
<1>12. MoreInv'
  BY <1>1 DEF IInv, MoreInv, AfterLoop
<1>13. SendersInv'
  BY <1>1 DEF IInv, SendersInv, AfterLoop
<1>14. QED
  BY <1>7, <1>8, <1>9, <1>10, <1>11, <1>12, <1>13 DEF IInv

LEMMA PlusMinus ==
  ASSUME NEW a \in Int, NEW b \in Int PROVE (a + b) - b = a
OBVIOUS

LEMMA QueryShardStep ==
  ASSUME IInv, QueryShard
  PROVE  IInv'
<1> DEFINE from == ckp.receiver_index[shard]
           q == recv[shard]
<1>1. /\ pc = "query" /\ pc' = "write_back"
      /\ UNCHANGED <<rows, nulls, hasTotal, cached, ckp, gotR, gotS, maxR, maxS, shard,
                     remain, moreR, send, moreS, faults, swallowed, rows0, nulls0>>
  BY DEF QueryShard, mirrorVars, client
<1>2. found' = {u \in Wanted(from, remain) \ Elements(q) : u < rows[shard]}
  BY DEF QueryShard, batched_shards
<1>3. PICK p \in Ascending(found') : recv' = [recv EXCEPT ![shard] = q \o p]
  BY DEF QueryShard
<1>4. /\ from \in Nat /\ remain \in Nat /\ shard \in Shard /\ rows[shard] \in Nat
      /\ q \in Seq(Nat) /\ rows0[shard] \in Nat
  BY StateFacts DEF IInv
<1>5. Hits(q, from, remain, rows[shard])
  BY <1>1 DEF IInv, ReceiversInv
<1> DEFINE r == q \o p
<1>6. recv' = [recv EXCEPT ![shard] = r]
  BY <1>3
<1> HIDE DEF from, q
<1>7. /\ found' \in SUBSET Nat /\ r \in Seq(Nat) /\ Lists(r, from) /\ Len(r) <= remain
      /\ Len(r) < remain => rows[shard] <= from + Len(r)
  BY <1>2, <1>4, <1>5, TableRead
<1> HIDE DEF r
<1>8. /\ recv' \in [Shard -> Seq(Nat)] /\ recv'[shard] = r
      /\ \A s \in Shard \ {shard} : recv'[s] = recv[s]
      /\ Pulled' = (Pulled - Len(recv[shard])) + Len(r)
  BY <1>6, <1>7, PulledChanges DEF IInv
<1>9. TypeOK'
  BY <1>1, <1>7, <1>8 DEF IInv, TypeOK, MirrorTypeOK
<1>10. TablesInv' /\ ClientInv'
  BY <1>1 DEF IInv, TablesInv, ClientInv, ExactlyOnce
<1>11. FoundInv'
  BY <1>1, <1>2 DEF FoundInv
<1>12. ReceiversInv'
  <2>1. \A s \in Shard : s # shard => Lists(recv'[s], ckp'.receiver_index[s])
    BY <1>1, <1>8 DEF IInv, ReceiversInv
  <2>2. \A t \in Shard : t > shard => recv'[t] = << >>
    <3>1. \A t \in Shard : t > shard => recv[t] = << >>
      BY <1>1 DEF IInv, ReceiversInv, Loop
    <3>2. \A t \in Shard : t > shard => t # shard
      BY <1>4, ShardFacts
    <3>3. QED
      BY <1>8, <3>1, <3>2
  <2>3. Lists(recv'[shard], ckp'.receiver_index[shard])
    BY <1>1, <1>7, <1>8 DEF from
  <2>4. QED
    BY <1>1, <2>1, <2>2, <2>3 DEF ReceiversInv
<1>13. CountInv'
  <2>1. (Pulled - Len(recv[shard])) + remain = maxR
    BY <1>1 DEF IInv, CountInv, Loop
  <2>2. Len(r) \in Nat /\ Pulled \in Nat /\ maxR \in Nat /\ Len(recv[shard]) \in Nat
    BY <1>7, LenProperties, PulledType, StateFacts DEF IInv
  <2>3. Pulled' <= maxR /\ (Pulled' - Len(r)) + remain = maxR
    <3>1. remain \in Nat /\ Len(r) <= remain
      BY <1>4, <1>7
    <3>2. Pulled' = (Pulled - Len(recv[shard])) + Len(r)
      BY <1>8
    <3>3. (Pulled - Len(recv[shard])) + Len(r) <= maxR
      BY <2>1, <2>2, <3>1
    <3>4. Pulled - Len(recv[shard]) \in Int /\ Len(r) \in Int
      BY <2>2
    <3>5. ((Pulled - Len(recv[shard])) + Len(r)) - Len(r) = Pulled - Len(recv[shard])
      BY <3>4, PlusMinus, Zenon
    <3>6. Pulled' <= maxR
      BY <3>2, <3>3
    <3>7. Pulled' - Len(r) = Pulled - Len(recv[shard])
      BY <3>2, <3>5
    <3>8. QED
      BY <2>1, <3>6, <3>7
  <2>4. QED
    BY <1>1, <1>7, <1>8, <2>3 DEF CountInv
<1>14. CompleteInv'
  <2>1. \A s \in Shard : s < shard => NextReceiver(s)' = NextReceiver(s)
    BY <1>1, <1>4, <1>8, ShardFacts DEF NextReceiver
  <2>2. NextReceiver(shard)' = from + Len(r)
    BY <1>1, <1>8 DEF NextReceiver, from
  <2>3. Len(r) < remain => rows0[shard] <= from + Len(r)
    <3>1. rows0[shard] <= rows[shard]
      BY <1>1, <1>4 DEF IInv, TablesInv
    <3>2. Len(r) \in Nat
      BY <1>7, LenProperties
    <3>3. QED
      BY <1>4, <1>7, <3>1, <3>2
  <2>4. Len(recv'[shard']) < remain' => rows0'[shard'] <= NextReceiver(shard)'
    BY <1>1, <1>8, <2>2, <2>3
  <2>5. ~swallowed' => \A s \in Shard : s < shard' => rows0'[s] <= NextReceiver(s)'
    BY <1>1, <2>1 DEF IInv, CompleteInv, Loop
  <2>6. QED
    BY <1>1, <2>4, <2>5 DEF CompleteInv, AfterLoop
<1>15. MoreInv'
  BY <1>1 DEF IInv, MoreInv, AfterLoop
<1>16. SendersInv'
  BY <1>1 DEF IInv, SendersInv, AfterLoop
<1>17. QED
  BY <1>9, <1>10, <1>11, <1>12, <1>13, <1>14, <1>15, <1>16 DEF IInv

\* The rows that were found are written back: they are still in the tables.
LEMMA WriteBackKeepsTables ==
  ASSUME IInv, WriteBackReceivers \/ WriteBackSenders
  PROVE  cached' \subseteq KeysUpTo(rows, nulls)
<1>1. found \subseteq Nat /\ shard \in Shard
  BY DEF IInv, TypeOK
<1>2. CASE WriteBackReceivers
  <2>1. \A u \in found : receiver_key(shard, u) \in KeysUpTo(rows, nulls)
    <3>1. \A u \in found : u < rows[shard]
      BY <1>2 DEF WriteBackReceivers, IInv, FoundInv
    <3>2. QED
      BY <1>1, <3>1, TableTypes, KeyInTables DEF IInv
  <2>2. cached' = cached \cup {receiver_key(shard, u) : u \in found}
    BY <1>2 DEF WriteBackReceivers
  <2>3. QED
    BY <2>1, <2>2, TableTypes DEF IInv
<1>3. CASE WriteBackSenders
  <2>1. \A i \in found : sender_key(i) \in KeysUpTo(rows, nulls)
    <3>1. \A i \in found : i < nulls
      BY <1>3 DEF WriteBackSenders, IInv, FoundInv
    <3>2. QED
      BY <1>1, <3>1, TableTypes, KeyInTables DEF IInv
  <2>2. cached' = cached \cup {sender_key(i) : i \in found}
    BY <1>3 DEF WriteBackSenders
  <2>3. QED
    BY <2>1, <2>2, TableTypes DEF IInv
<1>4. QED
  BY <1>2, <1>3

LEMMA WriteBackStep ==
  ASSUME IInv, WriteBackReceivers \/ WriteBackSenders
  PROVE  IInv'
<1>1. /\ \/ pc = "write_back" /\ pc' = "more"
         \/ pc = "sender_write_back" /\ pc' = "sender_more"
      /\ found' = {}
      /\ UNCHANGED <<rows, nulls, hasTotal, ckp, gotR, gotS, maxR, maxS, shard, recv,
                     remain, moreR, send, moreS, faults, swallowed, rows0, nulls0>>
  BY DEF WriteBackReceivers, WriteBackSenders, client
<1>2. TypeOK'
  <2>1. pc' \in {"more", "sender_more"}
    BY <1>1
  <2>2. MirrorTypeOK'
    BY <1>1, WriteBackKeepsTables DEF IInv, TypeOK, MirrorTypeOK
  <2>3. QED
    BY <1>1, <2>1, <2>2 DEF IInv, TypeOK
<1>3. Pulled' = Pulled
  BY <1>1 DEF Pulled
<1>4. TablesInv'
  BY <1>1 DEF IInv, TablesInv
<1>5. ReceiversInv'
  BY <1>1 DEF IInv, ReceiversInv, Loop
<1>6. CountInv' /\ CompleteInv'
  BY <1>1, <1>3 DEF IInv, CountInv, CompleteInv, NextReceiver, Loop, AfterLoop
<1>7. MoreInv' /\ FoundInv' /\ ClientInv'
  BY <1>1 DEF IInv, MoreInv, FoundInv, ClientInv, ExactlyOnce, NextReceiver, AfterLoop
<1>8. SendersInv'
  BY <1>1 DEF IInv, SendersInv, NextSender, AfterLoop
<1>9. QED
  BY <1>2, <1>4, <1>5, <1>6, <1>7, <1>8 DEF IInv

\* Once the loop is left, its part of the invariant only needs that the
\* receivers stay and that no error is forgotten.
LEMMA AfterLoopStep ==
  ASSUME IInv, pc \in AfterLoop, pc' \in AfterLoop,
         UNCHANGED <<rows, ckp, gotR, gotS, maxR, shard, recv, remain, moreR, rows0>>,
         ~swallowed' => ~swallowed
  PROVE  ReceiversInv' /\ CountInv' /\ CompleteInv' /\ MoreInv' /\ ClientInv'
<1>1. Pulled' = Pulled
  BY DEF Pulled
<1>2. ReceiversInv'
  BY DEF IInv, ReceiversInv, Loop, AfterLoop
<1>3. CountInv' /\ CompleteInv'
  BY <1>1 DEF IInv, CountInv, CompleteInv, NextReceiver, Loop, AfterLoop
<1>4. MoreInv' /\ ClientInv'
  BY DEF IInv, MoreInv, ClientInv, ExactlyOnce, NextReceiver
<1>5. QED
  BY <1>2, <1>3, <1>4

LEMMA ReadSenderCacheStep ==
  ASSUME IInv, ReadSenderCache
  PROVE  IInv'
<1> DEFINE hits == cached_senders(Wanted(ckp.sender_index, maxS))
<1>1. /\ pc = "sender_cache" /\ pc' = "sender_query"
      /\ UNCHANGED <<rows, nulls, hasTotal, cached, ckp, gotR, gotS, maxR, maxS, shard,
                     recv, remain, found, moreR, moreS, faults, swallowed, rows0, nulls0>>
      /\ send' \in Ascending(hits)
  BY DEF ReadSenderCache, mirrorVars, client
<1>2. ckp.sender_index \in Nat /\ maxS \in Nat /\ nulls \in Nat
  BY StateFacts DEF IInv
<1>3. hits \in SUBSET Wanted(ckp.sender_index, maxS) /\ \A i \in hits : i < nulls
  <2>1. Wanted(ckp.sender_index, maxS) \subseteq Nat
    BY <1>2, WantedFinite
  <2>2. QED
    BY <2>1, TableTypes, KeyInTables DEF cached_senders, IInv
<1> HIDE DEF hits
<1>4. /\ send' \in Seq(Nat) /\ Hits(send', ckp.sender_index, maxS, nulls)
      /\ Len(send') <= maxS
  BY <1>1, <1>2, <1>3, CacheHits
<1>5. TypeOK'
  BY <1>1, <1>4 DEF IInv, TypeOK, MirrorTypeOK
<1>6. TablesInv' /\ FoundInv'
  BY <1>1 DEF IInv, TablesInv, FoundInv
<1>7. ReceiversInv' /\ CountInv' /\ CompleteInv' /\ MoreInv' /\ ClientInv'
  BY <1>1, AfterLoopStep DEF AfterLoop
<1>8. SendersInv'
  BY <1>1, <1>4 DEF SendersInv, AfterLoop
<1>9. QED
  BY <1>5, <1>6, <1>7, <1>8 DEF IInv

LEMMA QuerySendersStep ==
  ASSUME IInv, QuerySenders
  PROVE  IInv'
<1> DEFINE from == ckp.sender_index
<1>1. /\ pc = "sender_query" /\ pc' = "sender_write_back"
      /\ UNCHANGED <<rows, nulls, hasTotal, cached, ckp, gotR, gotS, maxR, maxS, shard,
                     recv, remain, moreR, moreS, faults, swallowed, rows0, nulls0>>
  BY DEF QuerySenders, mirrorVars, client
<1>2. found' = {i \in Wanted(from, maxS) \ Elements(send) : i < nulls}
  BY DEF QuerySenders, batched_nullifiers
<1>3. PICK p \in Ascending(found') : send' = send \o p
  BY DEF QuerySenders
<1>4. /\ from \in Nat /\ maxS \in Nat /\ nulls \in Nat /\ nulls0 \in Nat
      /\ send \in Seq(Nat)
  BY StateFacts DEF IInv
<1>5. Hits(send, from, maxS, nulls)
  BY <1>1 DEF IInv, SendersInv
<1> HIDE DEF from
<1>6. /\ found' \in SUBSET Nat /\ send' \in Seq(Nat) /\ Lists(send', from)
      /\ Len(send') <= maxS
      /\ Len(send') < maxS => nulls <= from + Len(send')
  BY <1>2, <1>3, <1>4, <1>5, TableRead
<1>7. TypeOK'
  BY <1>1, <1>6 DEF IInv, TypeOK, MirrorTypeOK
<1>8. TablesInv' /\ FoundInv'
  BY <1>1, <1>2 DEF IInv, TablesInv, FoundInv
<1>9. ReceiversInv' /\ CountInv' /\ CompleteInv' /\ MoreInv' /\ ClientInv'
  BY <1>1, AfterLoopStep DEF AfterLoop
<1>10. SendersInv'
  <2>1. Len(send') \in Nat
    BY <1>6, LenProperties
  <2>2. nulls0 <= nulls
    BY <1>1 DEF IInv, TablesInv
  <2>3. Len(send') < maxS => nulls0 <= from + Len(send')
    BY <1>4, <1>6, <2>1, <2>2
  <2>4. QED
    BY <1>1, <1>6, <2>3 DEF SendersInv, NextSender, AfterLoop, from
<1>11. QED
  BY <1>7, <1>8, <1>9, <1>10 DEF IInv

LEMMA FinishSendersStep ==
  ASSUME IInv, FinishSenders \/ HasNullifierFails
  PROVE  IInv'
<1>1. /\ pc = "sender_more" /\ pc' = "total"
      /\ UNCHANGED <<rows, nulls, hasTotal, cached, ckp, gotR, gotS, maxR, maxS, shard,
                     recv, remain, found, moreR, send, rows0, nulls0>>
  BY DEF FinishSenders, HasNullifierFails, mirrorVars, client
<1>2. \/ moreS' = (ckp.sender_index + maxS < nulls) /\ swallowed' = swallowed
      \/ moreS' = FALSE /\ swallowed' = TRUE
  BY DEF FinishSenders, HasNullifierFails, has_nullifier
<1>3. faults' \in 0..MaxFaults /\ swallowed' \in BOOLEAN /\ moreS' \in BOOLEAN
  <2>1. faults \in 0..MaxFaults /\ swallowed \in BOOLEAN
    BY DEF IInv, TypeOK
  <2>2. faults' = faults \/ (faults < MaxFaults /\ faults' = faults + 1)
    BY DEF FinishSenders, HasNullifierFails, Fault
  <2>3. faults' \in 0..MaxFaults
    BY <2>1, <2>2, PullAssumption
  <2>4. (ckp.sender_index + maxS < nulls) \in BOOLEAN
    OBVIOUS
  <2>5. moreS' \in BOOLEAN
    BY <1>2, <2>4
  <2>6. swallowed' \in BOOLEAN
    BY <1>2, <2>1
  <2>7. QED
    BY <2>3, <2>5, <2>6
<1>4. TypeOK'
  BY <1>1, <1>3 DEF IInv, TypeOK, MirrorTypeOK
<1>5. TablesInv' /\ FoundInv'
  BY <1>1 DEF IInv, TablesInv, FoundInv
<1>6. ReceiversInv' /\ CountInv' /\ CompleteInv' /\ MoreInv' /\ ClientInv'
  <2>1. ~swallowed' => ~swallowed
    BY <1>2, Zenon
  <2>2. QED
    BY <1>1, <2>1, AfterLoopStep DEF AfterLoop
<1>7. SendersInv'
  <2>1. Len(send) <= maxS /\ Lists(send, ckp.sender_index)
          /\ (Len(send) < maxS => nulls0 <= NextSender)
    BY <1>1 DEF IInv, SendersInv
  <2>2. nulls0 <= nulls
    BY <1>1 DEF IInv, TablesInv
  <2>3. ~swallowed' /\ ~moreS' => nulls0 <= NextSender
    <3>1. /\ Len(send) \in Nat /\ maxS \in Nat /\ nulls0 \in Nat /\ nulls \in Nat
          /\ ckp.sender_index \in Nat
      BY StateFacts DEF IInv
    <3>2. ~swallowed' /\ ~moreS' => ~(ckp.sender_index + maxS < nulls)
      BY <1>2, Zenon
    <3>3. ~(ckp.sender_index + maxS < nulls) => nulls0 <= NextSender
      BY <2>1, <2>2, <3>1 DEF NextSender
    <3>4. QED
      BY <3>2, <3>3
  <2>4. QED
    BY <1>1, <1>2, <2>1, <2>3 DEF SendersInv, NextSender, AfterLoop
<1>8. QED
  BY <1>4, <1>5, <1>6, <1>7 DEF IInv

LEMMA StutterStep ==
  ASSUME IInv, UNCHANGED vars
  PROVE  IInv'
<1>1. UNCHANGED <<pc, client, request, faults, rows, nulls, hasTotal, cached>>
  BY DEF vars, client, request
<1>2. MirrorTypeOK'
  BY <1>1 DEF IInv, TypeOK, MirrorTypeOK
<1>3. (\A s \in Shard : rows[s] <= rows'[s]) /\ nulls <= nulls'
  BY <1>1, StateFacts DEF IInv
<1>4. QED
  BY <1>1, <1>2, <1>3, OthersStep

LEMMA NextIInv == IInv /\ [Next]_vars => IInv'
<1> SUFFICES ASSUME IInv, [Next]_vars PROVE IInv'
  OBVIOUS
<1>1. ASSUME NEW r \in Amount, NEW n \in Amount, Ask(r, n) PROVE IInv'
  BY <1>1, AskStep
<1>2. CASE Serve
  BY <1>2, HasShardStep, SkipShardStep, ReadCacheStep, QueryShardStep, WriteBackStep,
     FinishShardStep, ReadSenderCacheStep, QuerySendersStep, FinishSendersStep,
     RespondStep, FailStep DEF Serve
<1>3. CASE HasShardFails
  BY <1>3, SkipShardStep
<1>4. CASE HasMoreFails
  BY <1>4, FinishShardStep
<1>5. CASE HasNullifierFails
  BY <1>5, FinishSendersStep
<1>6. CASE RequestFails \/ Restart
  BY <1>6, FailStep
<1>7. CASE SyncCommit \/ OthersFill \/ OthersEvict
  BY <1>7, EnvironmentStep
<1>8. CASE UNCHANGED vars
  BY <1>8, StutterStep
<1>9. QED
  BY <1>1, <1>2, <1>3, <1>4, <1>5, <1>6, <1>7, <1>8 DEF Next

-----------------------------------------------------------------------------
(***************************************************************************)
(* The theorems.                                                           *)
(***************************************************************************)
THEOREM IInvCorrect == Spec => []IInv
BY InitIInv, NextIInv, PTL DEF Spec

\* Every variable has its type; nothing is cached that the tables lack.
THEOREM TypeCorrect == Spec => []TypeOK
<1>1. IInv => TypeOK
  BY DEF IInv
<1>2. QED
  BY <1>1, IInvCorrect, PTL

\* pull_receivers and pull_senders never push more than was asked for, cut to
\* MAX_RECEIVERS and MAX_SENDERS, although each shard is read twice.
THEOREM LimitsCorrect == Spec => []WithinLimits
<1>1. IInv => WithinLimits
  BY DEF IInv, CountInv, SendersInv, WithinLimits
<1>2. QED
  BY <1>1, IInvCorrect, PTL

\* more_receivers and more_senders are never true without reason.
THEOREM MoreCorrect == Spec => []MoreIsTrue
<1>1. IInv => MoreIsTrue
  <2> SUFFICES ASSUME IInv, pc = "total"
               PROVE  /\ moreR => \E s \in Shard :
                                    next_checkpoint.receiver_index[s] < rows[s]
                      /\ moreS => ckp.sender_index + Len(send) < nulls
    BY DEF MoreIsTrue
  <2>1. \A s \in Shard : next_checkpoint.receiver_index[s] = NextReceiver(s)
    BY DEF next_checkpoint, NextReceiver
  <2>2. moreR => \E s \in Shard : NextReceiver(s) < rows[s]
    BY DEF IInv, MoreInv
  <2>3. (moreS => ckp.sender_index + maxS < nulls) /\ Len(send) <= maxS
    BY DEF IInv, SendersInv
  <2>4. /\ ckp.sender_index \in Nat /\ maxS \in Nat /\ nulls \in Nat
        /\ Len(send) \in Nat
    BY StateFacts DEF IInv
  <2>5. QED
    BY <2>1, <2>2, <2>3, <2>4
<1>2. QED
  BY <1>1, IInvCorrect, PTL

\* An answer without them has everything that was there when it was asked
\* for, unless it is full of receivers or an error was swallowed.
THEOREM NoMoreCorrect == Spec => []NoMoreIsTrue
<1>1. IInv => NoMoreIsTrue
  <2> SUFFICES ASSUME IInv, pc = "total", ~swallowed
               PROVE  /\ ~moreR /\ Pulled < maxR =>
                           \A s \in Shard : rows0[s] <= next_checkpoint.receiver_index[s]
                      /\ ~moreS => nulls0 <= ckp.sender_index + Len(send)
    BY DEF NoMoreIsTrue
  <2>1. \A s \in Shard : next_checkpoint.receiver_index[s] = NextReceiver(s)
    BY DEF next_checkpoint, NextReceiver
  <2>2. Pulled < maxR => \A s \in Shard : rows0[s] <= NextReceiver(s)
    BY DEF IInv, CompleteInv, AfterLoop
  <2>3. ~moreS => nulls0 <= NextSender
    BY DEF IInv, SendersInv
  <2>4. QED
    BY <2>1, <2>2, <2>3 DEF NextSender
<1>2. QED
  BY <1>1, IInvCorrect, PTL

\* A client that counts what it gets and does not use next_checkpoint has
\* every item before its checkpoint exactly once.
THEOREM ExactlyOnceCorrect ==
  ASSUME ~FollowCursor
  PROVE  Spec => []ExactlyOnce
<1>1. IInv => ExactlyOnce
  BY DEF IInv, ClientInv
<1>2. QED
  BY <1>1, IInvCorrect, PTL

\* Serving implements LedgerMirror: every step of a request leaves the store
\* alone or is a put of rows that the tables hold.
THEOREM KeepsMirrorCorrect == Spec => KeepsMirror
<1>1. Init => MirrorInit
  BY DEF Init
<1>2. IInv /\ [Next]_vars => [MirrorNext]_mirrorVars
  <2> SUFFICES ASSUME IInv, [Next]_vars PROVE [MirrorNext]_mirrorVars
    OBVIOUS
  <2>1. CASE WriteBackReceivers \/ WriteBackSenders
    <3>1. UNCHANGED <<rows, nulls, hasTotal>>
      BY <2>1 DEF WriteBackReceivers, WriteBackSenders
    <3>2. MirrorCachePut(cached')
      BY <2>1, <3>1, WriteBackKeepsTables DEF MirrorCachePut
    <3>3. QED
      BY <3>2 DEF MirrorNext
  <2>2. CASE OthersFill \/ OthersEvict
    <3>1. PICK keys : MirrorCachePut(keys)
      BY <2>2 DEF OthersFill, OthersEvict
    <3>2. MirrorCachePut(cached')
      BY <3>1 DEF MirrorCachePut
    <3>3. QED
      BY <3>2 DEF MirrorNext
  <2>3. CASE SyncCommit
    BY <2>3 DEF SyncCommit, MirrorNext
  <2>4. CASE Restart
    BY <2>4 DEF Restart, MirrorNext
  <2>5. ASSUME NEW r \in Amount, NEW n \in Amount, Ask(r, n) PROVE UNCHANGED mirrorVars
    BY <2>5 DEF Ask
  <2>6. CASE HasShardFails \/ HasMoreFails \/ HasNullifierFails \/ RequestFails
    BY <2>6 DEF HasShardFails, HasMoreFails, HasNullifierFails, RequestFails
  <2>7. CASE HasShard \/ SkipShard \/ ReadCache \/ QueryShard \/ FinishShard
    BY <2>7 DEF HasShard, SkipShard, ReadCache, QueryShard, FinishShard
  <2>8. CASE \/ ReadSenderCache \/ QuerySenders \/ FinishSenders
             \/ Respond \/ NoTotal
    BY <2>8 DEF ReadSenderCache, QuerySenders, FinishSenders, Respond, NoTotal
  <2>9. CASE UNCHANGED vars
    BY <2>9 DEF vars, mirrorVars
  <2>10. QED
    BY <2>1, <2>2, <2>3, <2>4, <2>5, <2>6, <2>7, <2>8, <2>9 DEF Next, Serve
<1>3. QED
  BY <1>1, <1>2, IInvCorrect, PTL DEF Spec, KeepsMirror, MirrorSpec
=============================================================================

----------------------------- MODULE SyncProofs -----------------------------
(***************************************************************************)
(* The safety properties of Sync for every number of shards, every length  *)
(* of the ledger, every limit, capacity and number of failures.            *)
(***************************************************************************)
EXTENDS Sync, LedgerTypesProofs, SequenceTheorems

-----------------------------------------------------------------------------
(***************************************************************************)
(* Lemmas about the tables.                                                *)
(***************************************************************************)
\* A function on 1..n is a sequence of length n.
LEMMA FunctionIsSeq ==
  ASSUME NEW S, NEW n \in Nat, NEW f \in [1..n -> S]
  PROVE  f \in Seq(S) /\ Len(f) = n
OBVIOUS

\* insert_one_shard's rows: the first n rows of a shard are n rows.
LEMMA FirstRowsLen ==
  ASSUME NEW n \in Nat
  PROVE  FirstRows(n) \in Seq(Row) /\ Len(FirstRows(n)) = n
<1>1. \A k \in 1..n : [utxo_index |-> k - 1, item |-> k - 1] \in Row
  BY DEF Row
<1>2. FirstRows(n) \in [1..n -> Row]
  BY <1>1 DEF FirstRows
<1>3. QED
  BY <1>2

\* The m items of a response from position n on.
Run(n, m) == [k \in 1..m |-> n + (k - 1)]

\* They are a sequence of m numbers.
LEMMA RunLen ==
  ASSUME NEW n \in Nat, NEW m \in Nat
  PROVE  Run(n, m) \in Seq(Nat) /\ Len(Run(n, m)) = m
<1>1. Run(n, m) \in [1..m -> Nat]
  BY DEF Run
<1>2. QED
  BY <1>1

\* insert_one_shard at the offsets that follow n rows gives the first n + m
\* rows: an append at the counted index neither skips nor repeats one.
LEMMA InsertShardExact ==
  ASSUME NEW n \in Nat, NEW m \in Nat
  PROVE  insert_shard(FirstRows(n), n, Run(n, m)) = FirstRows(n + m)
<1> DEFINE new == [k \in 1..m |-> [utxo_index |-> n + (k - 1), item |-> n + (k - 1)]]
<1>1. \A k \in 1..m : [utxo_index |-> n + (k - 1), item |-> n + (k - 1)] \in Row
  BY DEF Row
<1>2. new \in Seq(Row) /\ Len(new) = m
  <2>1. new \in [1..m -> Row]
    BY <1>1
  <2> HIDE DEF new
  <2>2. QED
    BY <2>1, FunctionIsSeq
<1>3. insert_shard(FirstRows(n), n, Run(n, m)) = FirstRows(n) \o new
  BY RunLen DEF insert_shard, Run
<1>4. FirstRows(n) \in Seq(Row) /\ Len(FirstRows(n)) = n
  BY FirstRowsLen
<1>5. FirstRows(n + m) \in Seq(Row) /\ Len(FirstRows(n + m)) = n + m
  BY FirstRowsLen
<1>6. /\ FirstRows(n) \o new \in Seq(Row)
      /\ Len(FirstRows(n) \o new) = n + m
      /\ \A i \in 1..(n + m) : (FirstRows(n) \o new)[i] =
            IF i <= n THEN FirstRows(n)[i] ELSE new[i - n]
  <2> DEFINE old == FirstRows(n)
  <2>1. old \in Seq(Row) /\ Len(old) = n
    BY <1>4
  <2> HIDE DEF new, old
  <2>2. /\ old \o new \in Seq(Row)
        /\ Len(old \o new) = Len(old) + Len(new)
        /\ \A i \in 1..(Len(old) + Len(new)) : (old \o new)[i] =
              IF i <= Len(old) THEN old[i] ELSE new[i - Len(old)]
    BY <1>2, <2>1, ConcatProperties, Zenon
  <2>3. /\ old \o new \in Seq(Row)
        /\ Len(old \o new) = n + m
        /\ \A i \in 1..(n + m) : (old \o new)[i] =
              IF i <= n THEN old[i] ELSE new[i - n]
    BY <1>2, <2>1, <2>2, Zenon
  <2>4. QED
    BY <2>3 DEF old
<1>7. ASSUME NEW i \in 1..(n + m)
      PROVE  (FirstRows(n) \o new)[i] = FirstRows(n + m)[i]
  <2> DEFINE both == FirstRows(n) \o new
  <2>1. both[i] = IF i <= n THEN FirstRows(n)[i] ELSE new[i - n]
    BY <1>6
  <2>2. FirstRows(n + m)[i] = [utxo_index |-> i - 1, item |-> i - 1]
    BY DEF FirstRows
  <2>3. i <= n => FirstRows(n)[i] = [utxo_index |-> i - 1, item |-> i - 1]
    BY DEF FirstRows
  <2>4. ~(i <= n) => new[i - n] = [utxo_index |-> i - 1, item |-> i - 1]
    OBVIOUS
  <2> HIDE DEF both, new
  <2>5. QED
    BY <2>1, <2>2, <2>3, <2>4 DEF both
<1>8. FirstRows(n) \o new = FirstRows(n + m)
  BY <1>5, <1>6, <1>7, SeqEqual
<1>9. QED
  BY <1>3, <1>8

\* SELECT count(*) FROM nullifier, on a table that is an exact prefix.
LEMMA FirstNullifiersCount ==
  ASSUME NEW n \in Nat
  PROVE  /\ DOMAIN FirstNullifiers(n) = 0..(n - 1)
         /\ Cardinality(DOMAIN FirstNullifiers(n)) = n
<1>1. DOMAIN FirstNullifiers(n) = 0..(n - 1)
  BY DEF FirstNullifiers
<1>2. Cardinality(0..(n - 1)) = n
  BY FS_Interval
<1>3. QED
  BY <1>1, <1>2

\* insert_one_nullifier from the counted index on gives the first n + m.
LEMMA InsertNullifiersExact ==
  ASSUME NEW n \in Nat, NEW m \in Nat
  PROVE  insert_nullifiers(FirstNullifiers(n), n, Run(n, m)) = FirstNullifiers(n + m)
<1>1. Len(Run(n, m)) = m
  BY RunLen
<1>2. QED
  BY <1>1 DEF insert_nullifiers, FirstNullifiers, Run

\* put_batch_lru keeps nothing but old entries and new ones, and a new one
\* takes the place of an old one under the same key.
LEMMA PutBatch ==
  ASSUME NEW c, NEW b, NEW r \in put_batch_lru(c, b)
  PROVE  /\ DOMAIN r \subseteq DOMAIN c \cup DOMAIN b
         /\ \A k \in DOMAIN r : r[k] = IF k \in DOMAIN b THEN b[k] ELSE c[k]
<1> DEFINE all == Merged(c, b)
<1>1. PICK D \in SUBSET DOMAIN all : r = [k \in D |-> all[k]]
  BY DEF put_batch_lru
<1>2. DOMAIN all = DOMAIN c \cup DOMAIN b
  BY DEF Merged
<1>3. QED
  BY <1>1, <1>2 DEF Merged

-----------------------------------------------------------------------------
(***************************************************************************)
(* The inductive invariant.  MirrorExact alone is not inductive: a commit  *)
(* makes the open transaction the tables, so what the transaction holds at *)
(* each step has to be known, which depends on the checkpoint the response *)
(* was asked for with, which depends on the tables.                        *)
(***************************************************************************)
\* The checkpoint that the tables stand at, and the order of checkpoints.
Pos(d) == get_latest_check_point(d)
Leq(a, b) ==
  /\ \A s \in Shard : a.receiver_index[s] <= b.receiver_index[s]
  /\ a.sender_index <= b.sender_index

\* The tables hold exactly the items before checkpoint c.
TablesAt(d, c) ==
  d \in [shards : {[s \in Shard |-> FirstRows(c.receiver_index[s])]},
         nullifier : {FirstNullifiers(c.sender_index)},
         total : SUBSET Nat]

\* Where the response ends, and where it stands when only its receivers are
\* written.
End == increasing_checkpoint(ckp, resp)
Half == [receiver_index |-> End.receiver_index, sender_index |-> ckp.sender_index]

\* The response holds the items that follow the checkpoint.
RespFollows ==
  /\ \A s \in Shard :
       resp.recv[s] = Run(ckp.receiver_index[s], Len(resp.recv[s]))
  /\ resp.send = Run(ckp.sender_index, Len(resp.send))

Writing == {"write_shards", "write_nullifiers", "write_total", "commit"}
Committed == {"cache", "advance"}

TypesInv ==
  /\ chain \in Checkpoint /\ ckp \in Checkpoint /\ chain0 \in Checkpoint
  /\ Pos(db) \in Checkpoint
  /\ pc \in Fallible \cup {"cache", "advance", "sleep", "stopped"}
  /\ resp \in Response
  /\ nullCkp \in Nat
  /\ todo \subseteq Shard
  /\ initFinished \in BOOLEAN /\ shutdown \in BOOLEAN /\ wsUp \in BOOLEAN
  /\ faults \in 0..MaxFaults

StoreInv ==
  /\ TablesAt(db, Pos(db))
  /\ Leq(Pos(db), chain)
  /\ Leq(chain0, chain)

PhaseInv ==
  /\ pc \notin {"write_nullifiers", "write_total", "commit"} => tx = db
  /\ pc \in {"request"} \cup Writing => ckp = Pos(db)
  /\ pc \in Writing \cup Committed =>
       /\ RespFollows
       /\ Leq(End, chain)
       /\ ~resp.should_continue => Leq(chain0, End)
  /\ pc = "write_nullifiers" => TablesAt(tx, Half)
  /\ pc \in {"write_total", "commit"} => TablesAt(tx, End)
  /\ pc \in {"write_total", "commit", "cache"} => nullCkp = ckp.sender_index
  /\ pc = "commit" => tx.total # {}
  /\ pc \in Committed => Pos(db) = End

\* An entry of the cache is the item at its own key, and is in the tables.
Entry(k, v, c) ==
  \/ \E s \in Shard : \E u \in 0..(c.receiver_index[s] - 1) :
       k = receiver_key(s, u) /\ v = u
  \/ \E i \in 0..(c.sender_index - 1) : k = sender_key(i) /\ v = i

CacheInv == \A k \in DOMAIN cache : Entry(k, cache[k], Pos(db))

FlagInv == initFinished /\ pc # "stopped" => Leq(chain0, Pos(db))

IInv == TypesInv /\ StoreInv /\ PhaseInv /\ CacheInv /\ FlagInv

\* Tables that hold exactly what is before c stand at c: the counts of
\* get_latest_check_point give back the checkpoint.
LEMMA TablesPos ==
  ASSUME NEW d, NEW c \in Checkpoint, TablesAt(d, c)
  PROVE  Pos(d) = c
<1>1. \A s \in Shard : Len(d.shards[s]) = c.receiver_index[s]
  BY FirstRowsLen DEF TablesAt, Checkpoint
<1>2. Cardinality(DOMAIN d.nullifier) = c.sender_index
  BY FirstNullifiersCount DEF TablesAt, Checkpoint
<1>3. QED
  BY <1>1, <1>2 DEF Pos, get_latest_check_point, get_len_of_nullifier, Checkpoint

\* The tables of a new database.
LEMMA EmptyTablesAt ==
  ZeroCheckpoint \in Checkpoint /\ TablesAt(EmptyTables, ZeroCheckpoint)
<1>1. FirstRows(0) = << >>
  BY FirstRowsLen, EmptySeq
<1>2. FirstNullifiers(0) = << >>
  BY DEF FirstNullifiers
<1>3. QED
  BY <1>1, <1>2 DEF TablesAt, EmptyTables, ZeroCheckpoint, Checkpoint

\* An entry stays right when the tables grow.
LEMMA EntryMonotone ==
  ASSUME NEW k, NEW v, NEW a \in Checkpoint, NEW b \in Checkpoint, Leq(a, b),
         Entry(k, v, a)
  PROVE  Entry(k, v, b)
<1>1. CASE \E s \in Shard : \E u \in 0..(a.receiver_index[s] - 1) :
             k = receiver_key(s, u) /\ v = u
  <2>1. PICK s \in Shard : \E u \in 0..(a.receiver_index[s] - 1) :
               k = receiver_key(s, u) /\ v = u
    BY <1>1
  <2>2. 0..(a.receiver_index[s] - 1) \subseteq 0..(b.receiver_index[s] - 1)
    BY DEF Leq, Checkpoint
  <2>3. QED
    BY <2>1, <2>2 DEF Entry
<1>2. CASE \E i \in 0..(a.sender_index - 1) : k = sender_key(i) /\ v = i
  <2>1. 0..(a.sender_index - 1) \subseteq 0..(b.sender_index - 1)
    BY DEF Leq, Checkpoint
  <2>2. QED
    BY <1>2, <2>1 DEF Entry
<1>3. QED
  BY <1>1, <1>2 DEF Entry

LEMMA LeqTransitive ==
  ASSUME NEW a \in Checkpoint, NEW b \in Checkpoint, NEW c \in Checkpoint,
         Leq(a, b), Leq(b, c)
  PROVE  Leq(a, c)
BY DEF Leq, Checkpoint

LEMMA LeqReflexive ==
  ASSUME NEW a \in Checkpoint
  PROVE  Leq(a, a)
BY DEF Leq, Checkpoint

\* increasing_checkpoint gives a checkpoint, and never moves back.
LEMMA IncreasingType ==
  ASSUME NEW c \in Checkpoint, NEW r \in Response
  PROVE  /\ increasing_checkpoint(c, r) \in Checkpoint
         /\ Leq(c, increasing_checkpoint(c, r))
BY DEF increasing_checkpoint, Checkpoint, Response, Leq

\* The end of a response is a checkpoint.
LEMMA EndType ==
  ASSUME ckp \in Checkpoint, resp \in Response
  PROVE  /\ End \in Checkpoint
         /\ Half \in Checkpoint
         /\ Leq(ckp, End)
BY DEF End, Half, increasing_checkpoint, Checkpoint, Response, Leq

LEMMA NoRespType ==
  NoResp \in Response
BY DEF NoResp, Response

-----------------------------------------------------------------------------
(***************************************************************************)
(* The invariant holds at first, and every step keeps it.                  *)
(***************************************************************************)
LEMMA InitIInv ==
  Init => IInv
<1> SUFFICES ASSUME Init PROVE IInv
  OBVIOUS
<1>1. Pos(db) = ZeroCheckpoint
  BY EmptyTablesAt, TablesPos DEF Init
<1>2. TypesInv
  <2>1. faults \in 0..MaxFaults
    BY SyncAssumption DEF Init
  <2>2. pc \in Fallible \cup {"cache", "advance", "sleep", "stopped"}
    BY DEF Init
  <2>3. nullCkp \in Nat
    BY DEF Init
  <2>4. QED
    BY <1>1, <2>1, <2>2, <2>3, EmptyTablesAt, NoRespType, Zenon DEF Init, TypesInv
<1>3. StoreInv
  BY <1>1, EmptyTablesAt, LeqReflexive DEF Init, StoreInv, EmptyTables
<1>4. PhaseInv
  BY DEF Init, PhaseInv, Writing, Committed
<1>5. CacheInv
  BY DEF Init, CacheInv
<1>6. QED
  BY <1>2, <1>3, <1>4, <1>5 DEF Init, IInv, FlagInv

\* The full node's ledger only grows, which no part of the job relies on
\* being up to date with.
LEMMA GrowIInv ==
  ASSUME IInv, chain' \in Checkpoint, Leq(chain, chain'),
         UNCHANGED <<tables, cache, pc, locals, process, faults>>
  PROVE  IInv'
<1> USE DEF tables, locals, process
<1>1. TypesInv'
  BY DEF IInv, TypesInv
<1>2. StoreInv'
  <2>1. Leq(Pos(db), chain') /\ Leq(chain0, chain')
    BY LeqTransitive DEF IInv, TypesInv, StoreInv
  <2>2. QED
    BY <2>1 DEF IInv, StoreInv
<1>3. PhaseInv'
  <2>1. End' = End /\ Half' = Half /\ RespFollows' = RespFollows
    BY DEF End, Half, RespFollows
  <2>2. pc \in Writing \cup Committed => Leq(End, chain')
    BY EndType, LeqTransitive DEF IInv, TypesInv, PhaseInv
  <2>3. QED
    BY <2>1, <2>2 DEF IInv, PhaseInv
<1>4. CacheInv' /\ FlagInv'
  BY DEF IInv, CacheInv, FlagInv
<1>5. QED
  BY <1>1, <1>2, <1>3, <1>4 DEF IInv

\* A round that fails rolls the transaction back and forgets its locals.
LEMMA FailIInv ==
  ASSUME IInv, pc # "stopped", FailRound, faults' \in 0..MaxFaults
  PROVE  IInv'
<1> USE DEF FailRound, DropLocals, process
<1>1. pc' \in {"stopped", "checkpoint"}
  BY DEF AfterRound
<1>2. TypesInv'
  BY <1>1, EmptyTablesAt, NoRespType DEF IInv, TypesInv, Fallible
<1>3. StoreInv'
  BY DEF IInv, StoreInv
<1>4. PhaseInv'
  BY <1>1 DEF IInv, PhaseInv, Writing, Committed
<1>5. CacheInv' /\ FlagInv'
  BY DEF IInv, CacheInv, FlagInv
<1>6. QED
  BY <1>2, <1>3, <1>4, <1>5 DEF IInv

\* The process dies; its tables stay as they were last committed.
LEMMA CrashIInv ==
  ASSUME IInv, Crash
  PROVE  IInv'
<1> USE DEF Crash, DropLocals, process
<1>1. TypesInv'
  BY EmptyTablesAt, NoRespType, SyncAssumption DEF IInv, TypesInv, Fallible
<1>2. StoreInv'
  BY DEF IInv, StoreInv
<1>3. PhaseInv'
  BY DEF PhaseInv, Writing, Committed
<1>4. CacheInv' /\ FlagInv'
  BY DEF CacheInv, FlagInv
<1>5. QED
  BY <1>1, <1>2, <1>3, <1>4 DEF IInv

\* The node's answer continues the checkpoint that it was asked for with.
LEMMA RequestIInv ==
  ASSUME IInv, Request
  PROVE  IInv'
<1> USE DEF tables, process
<1>1. PICK c \in [Shard -> Count], n \in Count : Answer(c, n)
  BY DEF Request
<1>2. c \in [Shard -> Nat] /\ n \in Nat
  BY CountAssumption
<1>3. /\ \A s \in Shard : Len(resp'.recv[s]) = c[s] /\ resp'.recv[s] \in Seq(Nat)
      /\ Len(resp'.send) = n /\ resp'.send \in Seq(Nat)
  <2>1. /\ \A s \in Shard : resp'.recv[s] = Run(ckp.receiver_index[s], c[s])
        /\ resp'.send = Run(ckp.sender_index, n)
    BY <1>1 DEF Answer, Run
  <2>2. \A s \in Shard : ckp.receiver_index[s] \in Nat /\ c[s] \in Nat
    BY <1>2 DEF IInv, TypesInv, Checkpoint
  <2>3. ckp.sender_index \in Nat
    BY DEF IInv, TypesInv, Checkpoint
  <2>4. Len(resp'.send) = n /\ resp'.send \in Seq(Nat)
    BY <1>2, <2>1, <2>3, RunLen
  <2>5. ASSUME NEW s \in Shard
        PROVE  Len(resp'.recv[s]) = c[s] /\ resp'.recv[s] \in Seq(Nat)
    <3>1. /\ resp'.recv[s] = Run(ckp.receiver_index[s], c[s])
          /\ ckp.receiver_index[s] \in Nat /\ c[s] \in Nat
      BY <2>1, <2>2
    <3>2. QED
      BY <3>1, RunLen
  <2>6. QED
    BY <2>4, <2>5
<1>4. resp' \in Response
  <2>1. resp'.total \in Nat
    <3>1. SumOverShards(chain.receiver_index) \in Nat
      BY SumMonotone DEF IInv, TypesInv, Checkpoint
    <3>2. QED
      BY <1>1, <3>1 DEF Answer, IInv, TypesInv, Checkpoint
  <2>2. QED
    BY <1>1, <1>3, <2>1 DEF Answer, Response
<1>5. /\ End'.receiver_index = [s \in Shard |-> ckp.receiver_index[s] + c[s]]
      /\ End'.sender_index = ckp.sender_index + n
  BY <1>3 DEF Request, End, increasing_checkpoint
<1>6. RespFollows'
  BY <1>1, <1>3 DEF Answer, Request, RespFollows, Run
<1>7. Leq(End', chain)
  BY <1>1, <1>5 DEF Answer, Leq
<1>8. ~resp'.should_continue => Leq(chain0, End')
  <2>1. ~resp'.should_continue => Leq(chain, End')
    BY <1>1, <1>2, <1>5 DEF Answer, Leq, IInv, TypesInv, Checkpoint
  <2>2. End' \in Checkpoint
    BY <1>2, <1>5 DEF End, increasing_checkpoint, IInv, TypesInv, Checkpoint
  <2>3. QED
    BY <2>1, <2>2, LeqTransitive DEF IInv, TypesInv, StoreInv
<1>9. TypesInv'
  BY <1>4 DEF Request, IInv, TypesInv, Fallible
<1>10. StoreInv'
  BY DEF Request, IInv, StoreInv
<1>11. PhaseInv'
  BY <1>6, <1>7, <1>8 DEF Request, IInv, PhaseInv, Writing, Committed
<1>12. CacheInv' /\ FlagInv'
  BY DEF Request, IInv, CacheInv, FlagInv
<1>13. QED
  BY <1>9, <1>10, <1>11, <1>12 DEF IInv

\* The receivers of the response are appended at the tables' own position.
LEMMA WriteShardsIInv ==
  ASSUME IInv, WriteShards
  PROVE  IInv'
<1> USE DEF locals, process
<1>1. ckp = Pos(db) /\ RespFollows
  BY DEF WriteShards, IInv, PhaseInv, Writing
<1>2. \A s \in Shard : insert_shard(db.shards[s], ckp.receiver_index[s], resp.recv[s]) =
                         FirstRows(End.receiver_index[s])
  <2> SUFFICES ASSUME NEW s \in Shard
               PROVE  insert_shard(db.shards[s], ckp.receiver_index[s], resp.recv[s]) =
                      FirstRows(End.receiver_index[s])
    OBVIOUS
  <2>1. db.shards[s] = FirstRows(ckp.receiver_index[s])
    BY <1>1 DEF IInv, StoreInv, TablesAt
  <2>2. ckp.receiver_index[s] \in Nat /\ Len(resp.recv[s]) \in Nat
    BY DEF IInv, TypesInv, Checkpoint, Response
  <2>3. resp.recv[s] = Run(ckp.receiver_index[s], Len(resp.recv[s]))
    BY <1>1 DEF RespFollows
  <2>4. End.receiver_index[s] = ckp.receiver_index[s] + Len(resp.recv[s])
    BY DEF End, increasing_checkpoint
  <2>5. insert_shard(db.shards[s], ckp.receiver_index[s], resp.recv[s]) =
          FirstRows(ckp.receiver_index[s] + Len(resp.recv[s]))
    BY <2>1, <2>2, <2>3, InsertShardExact
  <2>6. QED
    BY <2>4, <2>5
<1>3. TablesAt(tx', Half)
  <2>1. tx' = [db EXCEPT !.shards = [s \in Shard |-> FirstRows(Half.receiver_index[s])]]
    BY <1>2 DEF WriteShards, Half
  <2>2. db \in [shards : {db.shards},
                nullifier : {FirstNullifiers(Half.sender_index)},
                total : SUBSET Nat]
    BY <1>1 DEF IInv, StoreInv, TablesAt, Half
  <2>3. QED
    BY <2>1, <2>2 DEF TablesAt
<1>4. Half' = Half /\ End' = End /\ RespFollows' = RespFollows
  BY DEF WriteShards, Half, End, RespFollows
<1>5. PhaseInv'
  BY <1>3, <1>4 DEF WriteShards, IInv, PhaseInv, Writing, Committed
<1>6. TypesInv'
  BY DEF WriteShards, IInv, TypesInv, Fallible
<1>7. StoreInv' /\ CacheInv' /\ FlagInv'
  BY DEF WriteShards, IInv, StoreInv, CacheInv, FlagInv
<1>8. QED
  BY <1>5, <1>6, <1>7 DEF IInv

\* The nullifiers are appended at the number of rows there are.
LEMMA WriteNullifiersIInv ==
  ASSUME IInv, WriteNullifiers
  PROVE  IInv'
<1> USE DEF process
<1>1. TablesAt(tx, Half) /\ RespFollows
  BY DEF WriteNullifiers, IInv, PhaseInv, Writing
<1>2. ckp.sender_index \in Nat /\ Len(resp.send) \in Nat
  BY DEF IInv, TypesInv, Checkpoint, Response
<1>3. tx.nullifier = FirstNullifiers(ckp.sender_index)
  BY <1>1 DEF TablesAt, Half
<1>4. nullCkp' = ckp.sender_index
  BY <1>2, <1>3, FirstNullifiersCount DEF WriteNullifiers, get_len_of_nullifier
<1>5. insert_nullifiers(tx.nullifier, ckp.sender_index, resp.send) =
        FirstNullifiers(End.sender_index)
  <2>1. resp.send = Run(ckp.sender_index, Len(resp.send))
    BY <1>1 DEF RespFollows
  <2>2. End.sender_index = ckp.sender_index + Len(resp.send)
    BY DEF End, increasing_checkpoint
  <2>3. QED
    BY <1>2, <1>3, <2>1, <2>2, InsertNullifiersExact
<1>6. TablesAt(tx', End)
  <2>1. tx' = [tx EXCEPT !.nullifier = FirstNullifiers(End.sender_index)]
    BY <1>4, <1>5 DEF WriteNullifiers
  <2>2. tx \in [shards : {[s \in Shard |-> FirstRows(End.receiver_index[s])]},
                nullifier : {tx.nullifier}, total : SUBSET Nat]
    BY <1>1 DEF TablesAt, Half
  <2>3. QED
    BY <2>1, <2>2 DEF TablesAt
<1>7. End' = End /\ RespFollows' = RespFollows
  BY DEF WriteNullifiers, End, RespFollows
<1>8. PhaseInv'
  BY <1>4, <1>6, <1>7 DEF WriteNullifiers, IInv, PhaseInv, Writing, Committed
<1>9. TypesInv'
  BY <1>2, <1>4 DEF WriteNullifiers, IInv, TypesInv, Fallible
<1>10. StoreInv' /\ CacheInv' /\ FlagInv'
  BY DEF WriteNullifiers, IInv, StoreInv, CacheInv, FlagInv
<1>11. QED
  BY <1>8, <1>9, <1>10 DEF IInv

LEMMA WriteTotalIInv ==
  ASSUME IInv, WriteTotal
  PROVE  IInv'
<1> USE DEF locals, process
<1>1. TablesAt(tx, End)
  BY DEF WriteTotal, IInv, PhaseInv
<1>2. resp.total \in Nat
  BY DEF IInv, TypesInv, Response
<1>3. TablesAt(tx', End) /\ tx'.total # {}
  BY <1>1, <1>2 DEF WriteTotal, TablesAt
<1>4. End' = End /\ RespFollows' = RespFollows
  BY DEF WriteTotal, End, RespFollows
<1>5. PhaseInv'
  BY <1>3, <1>4 DEF WriteTotal, IInv, PhaseInv, Writing, Committed
<1>6. TypesInv'
  BY DEF WriteTotal, IInv, TypesInv, Fallible
<1>7. StoreInv' /\ CacheInv' /\ FlagInv'
  BY DEF WriteTotal, IInv, StoreInv, CacheInv, FlagInv
<1>8. QED
  BY <1>5, <1>6, <1>7 DEF IInv

\* The transaction becomes the tables: the position moves to the end of the
\* response in one step.
LEMMA CommitIInv ==
  ASSUME IInv, Commit
  PROVE  IInv'
<1> USE DEF process
<1>1. End \in Checkpoint /\ Leq(ckp, End)
  BY EndType DEF IInv, TypesInv
<1>2. /\ TablesAt(tx, End) /\ tx.total # {}
      /\ ckp = Pos(db) /\ Leq(End, chain)
  BY DEF Commit, IInv, PhaseInv, Writing
<1>3. Pos(db') = End
  BY <1>1, <1>2, TablesPos DEF Commit
<1>4. Leq(Pos(db), Pos(db'))
  BY <1>1, <1>2, <1>3
<1>5. TypesInv'
  <2>1. Pos(db') \in Checkpoint
    BY <1>1, <1>3
  <2>2. QED
    BY <2>1 DEF Commit, IInv, TypesInv, Fallible
<1>6. StoreInv'
  <2>1. TablesAt(db', Pos(db')) /\ Leq(Pos(db'), chain) /\ db'.total # {}
    BY <1>2, <1>3 DEF Commit
  <2>2. QED
    BY <2>1 DEF Commit, IInv, StoreInv
<1>7. PhaseInv'
  <2>1. End' = End /\ RespFollows' = RespFollows
    BY DEF Commit, End, RespFollows
  <2>2. QED
    BY <1>3, <2>1 DEF Commit, IInv, PhaseInv, Writing, Committed
<1>8. CacheInv'
  BY <1>1, <1>3, <1>4, EntryMonotone DEF Commit, IInv, TypesInv, CacheInv
<1>9. FlagInv'
  BY <1>1, <1>3, <1>4, LeqTransitive DEF Commit, IInv, TypesInv, FlagInv
<1>10. QED
  BY <1>5, <1>6, <1>7, <1>8, <1>9 DEF IInv

\* What the job puts into the cache are the rows it has just committed.
LEMMA ReceiverBatchEntries ==
  ASSUME IInv, pc = "cache", NEW s \in Shard,
         NEW k \in DOMAIN receiver_batch(s, ckp.receiver_index[s], resp.recv[s])
  PROVE  Entry(k, receiver_batch(s, ckp.receiver_index[s], resp.recv[s])[k], Pos(db))
<1> DEFINE n == ckp.receiver_index[s]
           m == Len(resp.recv[s])
<1>1. n \in Nat /\ m \in Nat
  BY DEF IInv, TypesInv, Checkpoint, Response
<1>2. resp.recv[s] = Run(n, m) /\ Pos(db).receiver_index[s] = n + m
  BY DEF IInv, PhaseInv, Committed, RespFollows, End, increasing_checkpoint
<1>3. PICK j \in 1..m : k = receiver_key(s, n + (j - 1))
  BY DEF receiver_batch
<1>4. k[3] = n + (j - 1)
  BY <1>3 DEF receiver_key
<1>5. receiver_batch(s, n, resp.recv[s])[k] = n + (j - 1)
  BY <1>1, <1>2, <1>3, <1>4 DEF receiver_batch, Run
<1>6. n + (j - 1) \in 0..(Pos(db).receiver_index[s] - 1)
  BY <1>1, <1>2
<1>7. QED
  BY <1>3, <1>5, <1>6 DEF Entry

LEMMA SenderBatchEntries ==
  ASSUME IInv, pc = "cache",
         NEW k \in DOMAIN sender_batch(nullCkp, resp.send)
  PROVE  Entry(k, sender_batch(nullCkp, resp.send)[k], Pos(db))
<1> DEFINE n == nullCkp
           m == Len(resp.send)
<1>1. n \in Nat /\ m \in Nat
  BY DEF IInv, TypesInv, Response
<1>2. resp.send = Run(n, m) /\ Pos(db).sender_index = n + m
  BY DEF IInv, PhaseInv, Committed, RespFollows, End, increasing_checkpoint
<1>3. PICK j \in 1..m : k = sender_key(n + (j - 1))
  BY DEF sender_batch
<1>4. k[3] = n + (j - 1)
  BY <1>3 DEF sender_key
<1>5. sender_batch(n, resp.send)[k] = n + (j - 1)
  BY <1>1, <1>2, <1>3, <1>4 DEF sender_batch, Run
<1>6. n + (j - 1) \in 0..(Pos(db).sender_index - 1)
  BY <1>1, <1>2
<1>7. QED
  BY <1>3, <1>5, <1>6 DEF Entry

\* A put of right entries leaves right entries, whatever is evicted.
LEMMA PutIInv ==
  ASSUME IInv, NEW b, cache' \in put_batch_lru(cache, b),
         \A k \in DOMAIN b : Entry(k, b[k], Pos(db)),
         db' = db
  PROVE  CacheInv'
<1>1. /\ DOMAIN cache' \subseteq DOMAIN cache \cup DOMAIN b
      /\ \A k \in DOMAIN cache' :
           cache'[k] = IF k \in DOMAIN b THEN b[k] ELSE cache[k]
  BY PutBatch
<1>2. QED
  BY <1>1 DEF IInv, CacheInv

\* Every step keeps the invariant.
LEMMA NextIInv ==
  IInv /\ [Next]_vars => IInv'
<1> SUFFICES ASSUME IInv, [Next]_vars PROVE IInv'
  OBVIOUS
<1> USE DEF tables, locals, process
<1>1. CASE ReadCheckpoint
  <2>1. ckp' = Pos(db)
    BY <1>1 DEF ReadCheckpoint, Pos
  <2>2. TypesInv'
    BY <1>1, <2>1 DEF ReadCheckpoint, IInv, TypesInv, Fallible
  <2>3. PhaseInv'
    BY <1>1, <2>1 DEF ReadCheckpoint, IInv, PhaseInv, Writing, Committed
  <2>4. StoreInv' /\ CacheInv' /\ FlagInv'
    BY <1>1 DEF ReadCheckpoint, IInv, StoreInv, CacheInv, FlagInv
  <2>5. QED
    BY <2>2, <2>3, <2>4 DEF IInv
<1>2. CASE Request
  BY <1>2, RequestIInv
<1>3. CASE DeadRequest
  <2>1. faults' \in 0..MaxFaults
    BY <1>3 DEF DeadRequest, IInv, TypesInv
  <2>2. QED
    BY <1>3, <2>1, FailIInv DEF DeadRequest
<1>4. CASE WriteShards
  BY <1>4, WriteShardsIInv
<1>5. CASE WriteNullifiers
  BY <1>5, WriteNullifiersIInv
<1>6. CASE WriteTotal
  BY <1>6, WriteTotalIInv
<1>7. CASE Commit
  BY <1>7, CommitIInv
<1>8. ASSUME NEW s \in Shard, CacheReceivers(s) PROVE IInv'
  <2>1. CacheInv'
    BY <1>8, ReceiverBatchEntries, PutIInv DEF CacheReceivers
  <2>2. TypesInv'
    BY <1>8 DEF CacheReceivers, IInv, TypesInv
  <2>3. End' = End /\ RespFollows' = RespFollows
    BY <1>8 DEF CacheReceivers, End, RespFollows
  <2>4. PhaseInv'
    BY <1>8, <2>3 DEF CacheReceivers, IInv, PhaseInv, Writing, Committed
  <2>5. StoreInv' /\ FlagInv'
    BY <1>8 DEF CacheReceivers, IInv, StoreInv, FlagInv
  <2>6. QED
    BY <2>1, <2>2, <2>4, <2>5 DEF IInv
<1>9. CASE CacheSenders
  <2>1. CacheInv'
    BY <1>9, SenderBatchEntries, PutIInv DEF CacheSenders
  <2>2. TypesInv'
    BY <1>9 DEF CacheSenders, IInv, TypesInv
  <2>3. End' = End /\ RespFollows' = RespFollows
    BY <1>9 DEF CacheSenders, End, RespFollows
  <2>4. PhaseInv'
    BY <1>9, <2>3 DEF CacheSenders, IInv, PhaseInv, Writing, Committed
  <2>5. StoreInv' /\ FlagInv'
    BY <1>9 DEF CacheSenders, IInv, StoreInv, FlagInv
  <2>6. QED
    BY <2>1, <2>2, <2>4, <2>5 DEF IInv
<1>10. CASE Continue
  <2>1. ckp' = Pos(db)
    BY <1>10 DEF Continue, IInv, PhaseInv, Committed, End
  <2>2. TypesInv'
    BY <1>10, <2>1, NoRespType DEF Continue, IInv, TypesInv, Fallible
  <2>3. PhaseInv'
    BY <1>10, <2>1 DEF Continue, IInv, PhaseInv, Writing, Committed
  <2>4. StoreInv' /\ CacheInv' /\ FlagInv'
    BY <1>10 DEF Continue, IInv, StoreInv, CacheInv, FlagInv
  <2>5. QED
    BY <2>2, <2>3, <2>4 DEF IInv
<1>11. CASE FinishRound
  <2>1. Leq(chain0, Pos(db))
    BY <1>11 DEF FinishRound, IInv, PhaseInv, Committed
  <2>2. TypesInv'
    BY <1>11, EmptyTablesAt, NoRespType
       DEF FinishRound, DropLocals, IInv, TypesInv, Fallible
  <2>3. PhaseInv'
    BY <1>11 DEF FinishRound, IInv, PhaseInv, Writing, Committed
  <2>4. FlagInv'
    BY <1>11, <2>1 DEF FinishRound, FlagInv
  <2>5. StoreInv' /\ CacheInv'
    BY <1>11 DEF FinishRound, IInv, StoreInv, CacheInv
  <2>6. QED
    BY <2>2, <2>3, <2>4, <2>5 DEF IInv
<1>12. CASE Wake
  <2>1. pc' \in {"stopped", "checkpoint"}
    BY <1>12 DEF Wake, AfterRound
  <2>2. TypesInv'
    BY <1>12, <2>1 DEF Wake, IInv, TypesInv, Fallible
  <2>3. PhaseInv'
    BY <1>12, <2>1 DEF Wake, IInv, PhaseInv, Writing, Committed
  <2>4. StoreInv' /\ CacheInv' /\ FlagInv'
    BY <1>12 DEF Wake, IInv, StoreInv, CacheInv, FlagInv
  <2>5. QED
    BY <2>2, <2>3, <2>4 DEF IInv
<1>13. ASSUME NEW s \in Shard, GrowShard(s) PROVE IInv'
  <2>1. chain' \in Checkpoint /\ Leq(chain, chain')
    BY <1>13 DEF GrowShard, IInv, TypesInv, Checkpoint, Leq
  <2>2. QED
    BY <1>13, <2>1, GrowIInv DEF GrowShard
<1>14. CASE GrowSenders
  <2>1. chain' \in Checkpoint /\ Leq(chain, chain')
    BY <1>14 DEF GrowSenders, IInv, TypesInv, Checkpoint, Leq
  <2>2. QED
    BY <1>14, <2>1, GrowIInv DEF GrowSenders
<1>15. CASE Start
  <2>1. TypesInv'
    BY <1>15 DEF Start, IInv, TypesInv, Fallible
  <2>2. StoreInv'
    BY <1>15, LeqReflexive DEF Start, IInv, TypesInv, StoreInv
  <2>3. PhaseInv'
    BY <1>15 DEF Start, IInv, PhaseInv, Writing, Committed
  <2>4. CacheInv' /\ FlagInv'
    BY <1>15 DEF Start, CacheInv, FlagInv
  <2>5. QED
    BY <2>1, <2>2, <2>3, <2>4 DEF IInv
<1>16. CASE SyncError
  <2>1. faults' \in 0..MaxFaults
    BY <1>16, SyncAssumption DEF SyncError, IInv, TypesInv
  <2>2. pc # "stopped"
    BY <1>16 DEF SyncError, Fallible
  <2>3. QED
    BY <1>16, <2>1, <2>2, FailIInv DEF SyncError
<1>17. CASE Shutdown
  <2>1. TypesInv'
    BY <1>17 DEF Shutdown, IInv, TypesInv
  <2>2. End' = End /\ Half' = Half /\ RespFollows' = RespFollows
    BY <1>17 DEF Shutdown, End, Half, RespFollows
  <2>3. PhaseInv'
    BY <1>17, <2>2 DEF Shutdown, IInv, PhaseInv
  <2>4. StoreInv' /\ CacheInv' /\ FlagInv'
    BY <1>17 DEF Shutdown, IInv, StoreInv, CacheInv, FlagInv
  <2>5. QED
    BY <2>1, <2>3, <2>4 DEF IInv
<1>18. CASE Crash
  BY <1>18, CrashIInv
<1>19. CASE Disconnect
  <2>1. TypesInv'
    <3>1. faults' \in 0..MaxFaults
      BY <1>19, SyncAssumption DEF Disconnect, IInv, TypesInv
    <3>2. wsUp' \in BOOLEAN
      BY <1>19 DEF Disconnect
    <3>3. QED
      BY <1>19, <3>1, <3>2 DEF Disconnect, IInv, TypesInv
  <2>2. End' = End /\ Half' = Half /\ RespFollows' = RespFollows
    BY <1>19 DEF Disconnect, End, Half, RespFollows
  <2>3. PhaseInv'
    BY <1>19, <2>2 DEF Disconnect, IInv, PhaseInv
  <2>4. StoreInv' /\ CacheInv' /\ FlagInv'
    BY <1>19 DEF Disconnect, IInv, StoreInv, CacheInv, FlagInv
  <2>5. QED
    BY <2>1, <2>3, <2>4 DEF IInv
<1>20. CASE UNCHANGED vars
  <2>1. End' = End /\ Half' = Half /\ RespFollows' = RespFollows
    BY <1>20 DEF vars, End, Half, RespFollows
  <2>2. QED
    BY <1>20, <2>1
       DEF vars, IInv, TypesInv, StoreInv, PhaseInv, CacheInv, FlagInv
<1>21. QED
  BY <1>1, <1>2, <1>3, <1>4, <1>5, <1>6, <1>7, <1>8, <1>9, <1>10, <1>11, <1>12,
     <1>13, <1>14, <1>15, <1>16, <1>17, <1>18, <1>19, <1>20
     DEF Next, Job, Environment

\* The invariant holds throughout every behaviour.
THEOREM Invariance == Spec => []IInv
BY InitIInv, NextIInv, PTL DEF Spec

-----------------------------------------------------------------------------
(***************************************************************************)
(* What follows from it.                                                   *)
(***************************************************************************)
LEMMA TablesAtOK ==
  ASSUME NEW d, NEW c \in Checkpoint, TablesAt(d, c)
  PROVE  TablesOK(d)
<1>1. \A s \in Shard : FirstRows(c.receiver_index[s]) \in Seq(Row)
  BY FirstRowsLen DEF Checkpoint
<1>2. d.shards \in [Shard -> Seq(Row)]
  BY <1>1 DEF TablesAt
<1>3. \A i \in DOMAIN d.nullifier : i \in Nat /\ d.nullifier[i] \in Nat
  BY DEF TablesAt, FirstNullifiers, Checkpoint
<1>4. QED
  BY <1>2, <1>3 DEF TablesAt, TablesOK

LEMMA IInvTypeOK ==
  IInv => TypeOK
<1> SUFFICES ASSUME IInv PROVE TypeOK
  OBVIOUS
<1>1. TablesOK(db)
  BY TablesAtOK DEF IInv, TypesInv, StoreInv
<1>2. TablesOK(tx)
  BY <1>1, TablesAtOK, EndType DEF IInv, TypesInv, PhaseInv
<1>3. \A k \in DOMAIN cache : cache[k] \in Nat
  BY DEF IInv, TypesInv, CacheInv, Entry, Checkpoint
<1>4. QED
  BY <1>1, <1>2, <1>3 DEF IInv, TypesInv, TypeOK

\* Type correctness: no step of the job, and no failure, takes a variable out
\* of the type that the code gives it.
THEOREM TypeCorrect == Spec => []TypeOK
BY Invariance, IInvTypeOK, PTL

LEMMA IInvMirrorExact ==
  IInv => MirrorExact
<1> SUFFICES ASSUME IInv PROVE MirrorExact
  OBVIOUS
<1>1. /\ Pos(db) \in Checkpoint /\ chain \in Checkpoint
      /\ TablesAt(db, Pos(db)) /\ Leq(Pos(db), chain)
  BY DEF IInv, TypesInv, StoreInv
<1>2. ASSUME NEW s \in Shard
      PROVE  /\ db.shards[s] = FirstRows(Len(db.shards[s]))
             /\ Len(db.shards[s]) <= chain.receiver_index[s]
  <2>1. Len(db.shards[s]) = Pos(db).receiver_index[s]
    BY DEF Pos, get_latest_check_point
  <2>2. db.shards[s] = FirstRows(Pos(db).receiver_index[s])
    BY <1>1 DEF TablesAt
  <2>3. QED
    BY <1>1, <2>1, <2>2 DEF Leq
<1>3. Pos(db).sender_index \in 0..chain.sender_index
  BY <1>1 DEF Leq, Checkpoint
<1>4. db.nullifier = FirstNullifiers(Pos(db).sender_index)
  BY <1>1 DEF TablesAt
<1>5. QED
  BY <1>2, <1>3, <1>4 DEF MirrorExact

\* The tables are an exact prefix of the ledger after any number of rounds,
\* errors, retries, crashes and restarts: no row is missing, doubled or at
\* another's index, for any number of shards and any limit.
THEOREM TablesExact == Spec => []MirrorExact
BY Invariance, IInvMirrorExact, PTL

LEMMA IInvCursors ==
  IInv => CursorsAgree
BY DEF IInv, PhaseInv, CursorsAgree, Pos

\* The checkpoint that sync_shards_from_full_node keeps up to date itself
\* equals the one that counting the tables would give, at every request.
THEOREM CursorsCorrect == Spec => []CursorsAgree
BY Invariance, IInvCursors, PTL

LEMMA IInvCache ==
  IInv => CacheCoherent
<1> SUFFICES ASSUME IInv, NEW k \in DOMAIN cache
             PROVE  \/ \E s \in Shard : \E j \in DOMAIN db.shards[s] :
                         /\ k = receiver_key(s, db.shards[s][j].utxo_index)
                         /\ cache[k] = db.shards[s][j].item
                    \/ \E i \in DOMAIN db.nullifier :
                         /\ k = sender_key(i)
                         /\ cache[k] = db.nullifier[i]
  BY DEF CacheCoherent
<1>1. Pos(db) \in Checkpoint /\ TablesAt(db, Pos(db))
  BY DEF IInv, TypesInv, StoreInv
<1>2. ASSUME NEW s \in Shard, NEW u \in 0..(Pos(db).receiver_index[s] - 1),
             k = receiver_key(s, u), cache[k] = u
      PROVE  \E j \in DOMAIN db.shards[s] :
               /\ k = receiver_key(s, db.shards[s][j].utxo_index)
               /\ cache[k] = db.shards[s][j].item
  <2>1. db.shards[s] = FirstRows(Pos(db).receiver_index[s])
    BY <1>1 DEF TablesAt
  <2>2. /\ u + 1 \in DOMAIN db.shards[s]
        /\ db.shards[s][u + 1] = [utxo_index |-> u, item |-> u]
    BY <1>1, <2>1 DEF FirstRows, Checkpoint
  <2>3. QED
    BY <1>2, <2>2
<1>3. ASSUME NEW i \in 0..(Pos(db).sender_index - 1),
             k = sender_key(i), cache[k] = i
      PROVE  i \in DOMAIN db.nullifier /\ cache[k] = db.nullifier[i]
  <2>1. db.nullifier = FirstNullifiers(Pos(db).sender_index)
    BY <1>1 DEF TablesAt
  <2>2. QED
    BY <1>3, <2>1 DEF FirstNullifiers
<1>4. Entry(k, cache[k], Pos(db))
  BY DEF IInv, CacheInv
<1>5. QED
  BY <1>2, <1>3, <1>4 DEF Entry

\* The cache never holds anything that is not committed, although it is
\* refreshed in steps of their own after the commit and evicts at will.
THEOREM CacheCorrect == Spec => []CacheCoherent
BY Invariance, IInvCache, PTL

LEMMA IInvInit ==
  IInv => InitMeansSynced
BY DEF IInv, FlagInv, InitMeansSynced, Leq, Pos, get_latest_check_point,
       get_len_of_nullifier

\* When INIT_SYNCING_FINISHED is set, everything that the ledger held when
\* the process started is in the tables.
THEOREM InitCorrect == Spec => []InitMeansSynced
BY Invariance, IInvInit, PTL

-----------------------------------------------------------------------------
(***************************************************************************)
(* Totals.  The total of a response is at least the size of the ledger up  *)
(* to where the response ends, and equals it when nothing is left.         *)
(***************************************************************************)
Size(c) == SumOverShards(c.receiver_index) + c.sender_index

LEMMA SizeMonotone ==
  ASSUME NEW a \in Checkpoint, NEW b \in Checkpoint, Leq(a, b)
  PROVE  Size(a) \in Nat /\ Size(b) \in Nat /\ Size(a) <= Size(b)
<1>1. /\ SumOverShards(a.receiver_index) \in Nat
      /\ SumOverShards(b.receiver_index) \in Nat
      /\ SumOverShards(a.receiver_index) <= SumOverShards(b.receiver_index)
  BY SumMonotone DEF Leq, Checkpoint
<1>2. QED
  BY <1>1 DEF Size, Leq, Checkpoint

TotalOf(d) ==
  /\ d.total = {} => Pos(d) = ZeroCheckpoint
  /\ \A t \in d.total : Size(Pos(d)) <= t

TotalInv ==
  /\ TotalOf(db)
  /\ pc \in Writing \cup Committed =>
       /\ Size(End) <= resp.total
       /\ ~resp.should_continue => resp.total = Size(End)
  /\ pc = "commit" => tx.total = {resp.total}
  /\ pc \in Committed => db.total = {resp.total}
  /\ pc = "sleep" => db.total = {Size(Pos(db))}

LEMMA InitTotalInv ==
  Init => TotalInv
<1> SUFFICES ASSUME Init PROVE TotalInv
  OBVIOUS
<1>1. Pos(db) = ZeroCheckpoint
  BY EmptyTablesAt, TablesPos DEF Init
<1>2. QED
  BY <1>1 DEF Init, TotalInv, TotalOf, EmptyTables, Writing, Committed

\* The answer's total is the size of the whole ledger.
LEMMA RequestTotalInv ==
  ASSUME IInv, TotalInv, Request, IInv'
  PROVE  TotalInv'
<1>1. PICK c \in [Shard -> Count], n \in Count : Answer(c, n)
  BY DEF Request
<1>2. End' \in Checkpoint /\ chain \in Checkpoint /\ Leq(End', chain)
  <2>1. pc' = "write_shards" /\ chain' = chain
    BY DEF Request
  <2>2. Leq(End', chain')
    BY <2>1 DEF IInv, PhaseInv, Writing
  <2>3. End' \in Checkpoint
    <3>1. ckp' \in Checkpoint /\ resp' \in Response
      BY DEF IInv, TypesInv
    <3>2. QED
      BY <3>1, IncreasingType DEF End
  <2>4. QED
    BY <2>1, <2>2, <2>3 DEF IInv, TypesInv
<1>3. resp'.total = Size(chain)
  BY <1>1 DEF Answer, Size
<1>4. Size(End') <= resp'.total
  BY <1>2, <1>3, SizeMonotone
<1>5. ASSUME ~resp'.should_continue PROVE resp'.total = Size(End')
  <2>1. \A s \in Shard : Len(resp'.recv[s]) = c[s]
    <3>1. ASSUME NEW s \in Shard PROVE Len(resp'.recv[s]) = c[s]
      <4>1. c[s] \in Nat /\ ckp.receiver_index[s] \in Nat
        BY CountAssumption DEF IInv, TypesInv, Checkpoint
      <4>2. resp'.recv[s] = Run(ckp.receiver_index[s], c[s])
        BY <1>1 DEF Answer, Run
      <4>3. QED
        BY <4>1, <4>2, RunLen
    <3>2. QED
      BY <3>1
  <2>2. Len(resp'.send) = n /\ n \in Nat
    <3>1. n \in Nat /\ ckp.sender_index \in Nat
      BY CountAssumption DEF IInv, TypesInv, Checkpoint
    <3>2. resp'.send = Run(ckp.sender_index, n)
      BY <1>1 DEF Answer, Run
    <3>3. QED
      BY <3>1, <3>2, RunLen
  <2>3. /\ \A s \in Shard : End'.receiver_index[s] = ckp.receiver_index[s] + c[s]
        /\ End'.sender_index = ckp.sender_index + n
    BY <2>1, <2>2 DEF Request, End, increasing_checkpoint
  <2>4. Leq(chain, End')
    <3>1. /\ \A s \in Shard :
               ~(ckp.receiver_index[s] + c[s] < chain.receiver_index[s])
          /\ ~(ckp.sender_index + n < chain.sender_index)
      BY <1>1, <1>5 DEF Answer
    <3>2. \A s \in Shard : /\ ckp.receiver_index[s] \in Nat
                            /\ chain.receiver_index[s] \in Nat
                            /\ c[s] \in Nat
      BY CountAssumption DEF IInv, TypesInv, Checkpoint
    <3>3. ckp.sender_index \in Nat /\ chain.sender_index \in Nat
      BY DEF IInv, TypesInv, Checkpoint
    <3>4. QED
      BY <2>2, <2>3, <3>1, <3>2, <3>3 DEF Leq
  <2>5. Size(chain) <= Size(End') /\ Size(chain) \in Nat /\ Size(End') \in Nat
    BY <1>2, <2>4, SizeMonotone
  <2>6. QED
    BY <1>3, <1>4, <2>5
<1>6. QED
  BY <1>4, <1>5 DEF Request, tables, TotalInv, Writing, Committed

LEMMA NextTotalInv ==
  IInv /\ TotalInv /\ [Next]_vars /\ IInv' => TotalInv'
<1> SUFFICES ASSUME IInv, TotalInv, [Next]_vars, IInv' PROVE TotalInv'
  OBVIOUS
<1> USE DEF tables, locals, process
<1>1. CASE Request
  BY <1>1, RequestTotalInv
<1>2. CASE Commit
  <2>1. Pos(db') = End /\ db'.total = {resp.total}
    <3>1. TablesAt(tx, End) /\ tx.total = {resp.total}
      BY <1>2 DEF Commit, IInv, PhaseInv, TotalInv
    <3>2. End \in Checkpoint
      BY EndType DEF IInv, TypesInv
    <3>3. QED
      BY <1>2, <3>1, <3>2, TablesPos DEF Commit
  <2>2. Size(End) <= resp.total
    BY <1>2 DEF Commit, TotalInv, Writing
  <2>3. TotalOf(db)'
    BY <2>1, <2>2 DEF TotalOf
  <2>4. End' = End
    BY <1>2 DEF Commit, End
  <2>5. QED
    BY <1>2, <2>1, <2>3, <2>4 DEF Commit, TotalInv, Writing, Committed
<1>3. CASE FinishRound
  <2>1. db.total = {resp.total} /\ Pos(db) = End /\ resp.total = Size(End)
    BY <1>3 DEF FinishRound, TotalInv, IInv, PhaseInv, Committed
  <2>2. QED
    BY <1>3, <2>1 DEF FinishRound, TotalInv, Writing, Committed
<1>4. CASE \/ WriteShards \/ WriteNullifiers \/ WriteTotal
  <2>1. End' = End /\ pc \in Writing
    BY <1>4 DEF WriteShards, WriteNullifiers, WriteTotal, End, Writing
  <2>2. pc' = "commit" => tx'.total = {resp'.total}
    <3>1. CASE WriteTotal
      <4>1. tx' = [tx EXCEPT !.total = {resp.total}] /\ resp' = resp
        BY <3>1 DEF WriteTotal
      <4>2. TablesAt(tx, End)
        BY <3>1 DEF WriteTotal, IInv, PhaseInv
      <4>3. QED
        BY <4>1, <4>2 DEF TablesAt
    <3>2. QED
      BY <1>4, <3>1 DEF WriteShards, WriteNullifiers
  <2>3. QED
    BY <1>4, <2>1, <2>2
       DEF WriteShards, WriteNullifiers, WriteTotal, TotalInv, Writing, Committed
<1>5. CASE CacheSenders \/ \E s \in Shard : CacheReceivers(s)
  <2>1. End' = End
    BY <1>5 DEF CacheSenders, CacheReceivers, End
  <2>2. QED
    BY <1>5, <2>1 DEF CacheSenders, CacheReceivers, TotalInv, Writing, Committed
<1>6. CASE Crash
  BY <1>6 DEF Crash, TotalInv, Writing, Committed
<1>7. CASE \/ ReadCheckpoint \/ Continue \/ Wake \/ Start
           \/ DeadRequest \/ SyncError
  <2>1. /\ db' = db
        /\ pc' \in {"request", "checkpoint", "stopped"}
    BY <1>7 DEF ReadCheckpoint, Continue, Wake, Start, DeadRequest, SyncError,
                FailRound, AfterRound
  <2>2. QED
    BY <2>1 DEF TotalInv, Writing, Committed
<1>8. CASE \/ \E s \in Shard : GrowShard(s)
           \/ GrowSenders \/ Shutdown \/ Disconnect \/ UNCHANGED vars
  <2>1. End' = End
    BY <1>8 DEF GrowShard, GrowSenders, Shutdown, Disconnect, vars, End
  <2>2. db' = db /\ tx' = tx /\ pc' = pc /\ resp' = resp
    BY <1>8 DEF GrowShard, GrowSenders, Shutdown, Disconnect, vars
  <2>3. QED
    BY <2>1, <2>2 DEF TotalInv
<1>9. QED
  BY <1>1, <1>2, <1>3, <1>4, <1>5, <1>6, <1>7, <1>8 DEF Next, Job, Environment

LEMMA TotalInvariance ==
  Spec => []TotalInv
BY Invariance, InitTotalInv, NextTotalInv, PTL DEF Spec

LEMMA TotalInvMatches ==
  IInv /\ TotalInv => TotalMatches
<1> SUFFICES ASSUME IInv, TotalInv PROVE TotalMatches
  OBVIOUS
<1>1. Stored(db) = Size(Pos(db))
  BY DEF Stored, Size, Pos, get_latest_check_point, get_len_of_nullifier
<1>2. Size(ZeroCheckpoint) = 0
  BY SumZero DEF Size, ZeroCheckpoint
<1>3. QED
  BY <1>1, <1>2 DEF TotalInv, TotalOf, TotalMatches

\* senders_receivers_total is committed with the rows it counts: it is there
\* as soon as there are rows, is never behind them, and counts exactly them
\* between two rounds.
THEOREM TotalCorrect == Spec => []TotalMatches
BY TotalInvariance, Invariance, TotalInvMatches, PTL

-----------------------------------------------------------------------------
(***************************************************************************)
(* Refinement: the tables and the cache implement LedgerMirror.            *)
(***************************************************************************)
InCount(c) ==
  /\ \A s \in Shard : c.receiver_index[s] \in Count
  /\ c.sender_index \in Count

\* The ledger's lengths stay within Count.
LEMMA ChainInCount ==
  Spec => []InCount(chain)
<1>1. Init => InCount(chain)
  BY CountAssumption DEF Init, InCount, ZeroCheckpoint
<1>2. IInv /\ InCount(chain) /\ [Next]_vars => InCount(chain)'
  <2> SUFFICES ASSUME IInv, InCount(chain), [Next]_vars PROVE InCount(chain')
    BY DEF InCount
  <2>1. ASSUME NEW s \in Shard, GrowShard(s) PROVE InCount(chain')
    BY <2>1 DEF GrowShard, InCount, IInv, TypesInv, Checkpoint
  <2>2. CASE GrowSenders
    BY <2>2 DEF GrowSenders, InCount, IInv, TypesInv, Checkpoint
  <2>3. CASE UNCHANGED chain
    BY <2>3
  <2>4. QED
    BY <2>1, <2>2, <2>3
       DEF Next, Job, Environment, vars, ReadCheckpoint, Request, DeadRequest,
           FailRound, WriteShards, WriteNullifiers, WriteTotal, Commit,
           CacheReceivers, CacheSenders, Continue, FinishRound, Wake, Start,
           SyncError, Shutdown, Crash, Disconnect
<1>3. QED
  BY <1>1, <1>2, Invariance, PTL DEF Spec

LEMMA InCountBelow ==
  ASSUME NEW a \in Checkpoint, NEW b \in Checkpoint, Leq(a, b), InCount(b)
  PROVE  a.receiver_index \in [Shard -> Count] /\ a.sender_index \in Count
<1>1. ASSUME NEW i \in Nat, NEW j \in Count, i <= j PROVE i \in Count
  <2>1. j \in Nat /\ 0..j \subseteq Count
    BY CountAssumption
  <2>2. QED
    BY <1>1, <2>1
<1>2. QED
  BY <1>1 DEF Leq, InCount, Checkpoint

\* What LedgerMirror sees of the tables d.
LEMMA MirrorOf ==
  ASSUME NEW d, Pos(d) \in Checkpoint
  PROVE  /\ [s \in Shard |-> Len(d.shards[s])] = Pos(d).receiver_index
         /\ Cardinality(DOMAIN d.nullifier) = Pos(d).sender_index
BY DEF Pos, get_latest_check_point, get_len_of_nullifier

\* The entries of the cache are keys of rows in the tables.
LEMMA EntryKeys ==
  ASSUME NEW c \in Checkpoint, NEW k, NEW v, Entry(k, v, c)
  PROVE  k \in Mirror!KeysUpTo(c.receiver_index, c.sender_index)
<1>1. Mirror!Shard = Shard
  BY DEF Mirror!Shard, Shard
<1>2. /\ \A s, u : Mirror!receiver_key(s, u) = receiver_key(s, u)
      /\ \A i : Mirror!sender_key(i) = sender_key(i)
  BY DEF Mirror!receiver_key, receiver_key, Mirror!sender_key, sender_key,
         Mirror!RECEIVER_KEY_PREFIX, RECEIVER_KEY_PREFIX,
         Mirror!SENDER_KEY_PREFIX, SENDER_KEY_PREFIX
<1>3. CASE \E s \in Shard : \E u \in 0..(c.receiver_index[s] - 1) :
             k = receiver_key(s, u) /\ v = u
  <2>1. PICK s \in Shard : \E u \in 0..(c.receiver_index[s] - 1) : k = receiver_key(s, u)
    BY <1>3
  <2>2. k \in {Mirror!receiver_key(s, u) : u \in 0..(c.receiver_index[s] - 1)}
    BY <1>2, <2>1
  <2>3. QED
    BY <1>1, <2>2 DEF Mirror!KeysUpTo
<1>4. CASE \E i \in 0..(c.sender_index - 1) : k = sender_key(i) /\ v = i
  <2>1. k \in {Mirror!sender_key(i) : i \in 0..(c.sender_index - 1)}
    BY <1>2, <1>4
  <2>2. QED
    BY <2>1 DEF Mirror!KeysUpTo
<1>5. QED
  BY <1>3, <1>4 DEF Entry

\* One step of Sync is one step of LedgerMirror, or changes nothing it sees.
LEMMA StepRefines ==
  ASSUME IInv, IInv', InCount(chain), [Next]_vars
  PROVE  [Mirror!MirrorNext]_(Mirror!mirrorVars)
<1> USE DEF tables, locals, process
<1>0. Mirror!Shard = Shard
  BY DEF Mirror!Shard, Shard
<1>1. /\ Pos(db) \in Checkpoint /\ Pos(db') \in Checkpoint
      /\ chain \in Checkpoint
  BY DEF IInv, TypesInv
<1>2. CASE db' = db /\ cache' = cache
  BY <1>2 DEF Mirror!mirrorVars
<1>3. CASE Commit
  <2> DEFINE r == Pos(db').receiver_index
             n == Pos(db').sender_index
  <2>1. db' = tx /\ db'.total # {} /\ Pos(db') = End /\ Leq(Pos(db), Pos(db'))
    <3>1. /\ TablesAt(tx, End) /\ tx.total # {} /\ ckp = Pos(db)
      BY <1>3 DEF Commit, IInv, PhaseInv, Writing
    <3>2. End \in Checkpoint /\ Leq(ckp, End)
      BY EndType DEF IInv, TypesInv
    <3>3. QED
      BY <1>3, <3>1, <3>2, TablesPos DEF Commit
  <2>2. r \in [Shard -> Count] /\ n \in Count
    <3>1. Leq(Pos(db'), chain)
      BY <1>3, <2>1 DEF Commit, IInv, PhaseInv, Writing
    <3>2. QED
      BY <1>1, <3>1, InCountBelow
  <2>3. Mirror!MirrorCommit(r, n)
    BY <1>0, <1>1, <1>3, <2>1, MirrorOf DEF Mirror!MirrorCommit, Commit, Leq
  <2>4. r \in [Mirror!Shard -> Count] /\ n \in Count
    BY <1>0, <2>2
  <2> HIDE DEF r, n
  <2>5. \E ra \in [Mirror!Shard -> Count], na \in Count : Mirror!MirrorCommit(ra, na)
    BY <2>3, <2>4 DEF Mirror!MirrorCommit
  <2>6. QED
    BY <2>5, Zenon DEF Mirror!MirrorNext
<1>4. CASE CacheSenders \/ \E s \in Shard : CacheReceivers(s)
  <2>1. db' = db
    BY <1>4 DEF CacheSenders, CacheReceivers
  <2>2. DOMAIN cache' \subseteq
          Mirror!KeysUpTo(Pos(db).receiver_index, Pos(db).sender_index)
    BY <1>1, <2>1, EntryKeys DEF IInv, CacheInv
  <2>3. Mirror!MirrorCachePut(DOMAIN cache')
    BY <1>1, <2>1, <2>2, MirrorOf DEF Mirror!MirrorCachePut
  <2>4. QED
    BY <2>3 DEF Mirror!MirrorNext
<1>5. CASE Start \/ Crash
  <2>1. db' = db /\ DOMAIN cache' = {}
    BY <1>5 DEF Start, Crash
  <2>2. Mirror!MirrorRestart
    BY <2>1 DEF Mirror!MirrorRestart
  <2>3. QED
    BY <2>2 DEF Mirror!MirrorNext
<1>6. QED
  BY <1>2, <1>3, <1>4, <1>5
     DEF Next, Job, Environment, vars, ReadCheckpoint, Request, DeadRequest,
         FailRound, WriteShards, WriteNullifiers, WriteTotal, Continue,
         FinishRound, Wake, SyncError, Shutdown, Disconnect,
         GrowShard, GrowSenders

\* The readers of the tables and of the cache see a LedgerMirror: rows are
\* added by whole transactions and never taken back, whatever fails, and the
\* cache holds nothing but what the tables hold.
THEOREM MirrorRefinement == Spec => ImplementsMirror
<1>1. Init => Mirror!MirrorInit
  <2> SUFFICES ASSUME Init PROVE Mirror!MirrorInit
    OBVIOUS
  <2>1. Mirror!Shard = Shard
    BY DEF Mirror!Shard, Shard
  <2>2. Pos(db) = ZeroCheckpoint
    BY EmptyTablesAt, TablesPos DEF Init
  <2>3. /\ [s \in Shard |-> Len(db.shards[s])] = [s \in Shard |-> 0]
        /\ Cardinality(DOMAIN db.nullifier) = 0
    <3>1. /\ [s \in Shard |-> Len(db.shards[s])] = Pos(db).receiver_index
          /\ Cardinality(DOMAIN db.nullifier) = Pos(db).sender_index
      BY <2>2, EmptyTablesAt, MirrorOf
    <3>2. QED
      BY <2>2, <3>1 DEF ZeroCheckpoint
  <2>4. QED
    BY <2>1, <2>3 DEF Init, EmptyTables, Mirror!MirrorInit
<1>2. IInv /\ IInv' /\ InCount(chain) /\ [Next]_vars =>
        [Mirror!MirrorNext]_(Mirror!mirrorVars)
  BY StepRefines
<1>3. QED
  BY <1>1, <1>2, Invariance, ChainInCount, PTL
     DEF Spec, ImplementsMirror, Mirror!MirrorSpec

-----------------------------------------------------------------------------
(***************************************************************************)
(* The rest of the process sees a SyncJob.                                 *)
(***************************************************************************)
\* A step of Sync is one step of SyncJob, or leaves the job where it is.
LEMMA StepIsJobStep ==
  ASSUME [Next]_vars
  PROVE  [JobView!JobNext]_(JobView!jobVars)
<1>1. CASE Start
  <2>1. JobView!JobRestart
    BY <1>1 DEF Start, JobView!JobRestart, JobView!JobStart
  <2>2. QED
    BY <2>1 DEF JobView!JobNext
<1>2. CASE FinishRound
  <2>1. JobView!RoundOk
    BY <1>2 DEF FinishRound, JobView!RoundOk
  <2>2. QED
    BY <2>1 DEF JobView!JobNext
<1>3. CASE DeadRequest \/ SyncError
  <2>1. pc \notin {"stopped", "sleep"} /\ FailRound
    BY <1>3 DEF DeadRequest, SyncError, Fallible
  <2>2. JobView!RoundErr
    BY <2>1 DEF FailRound, AfterRound, process, JobView!RoundErr, JobView!NextRound
  <2>3. QED
    BY <2>2 DEF JobView!JobNext
<1>4. CASE Wake
  <2>1. JobView!JobWake
    BY <1>4 DEF Wake, AfterRound, process, JobView!JobWake, JobView!NextRound
  <2>2. QED
    BY <2>1 DEF JobView!JobNext
<1>5. CASE Shutdown
  <2>1. JobView!Signal
    BY <1>5 DEF Shutdown, JobView!Signal
  <2>2. QED
    BY <2>1 DEF JobView!JobNext
<1>6. CASE Crash
  <2>1. pc # "stopped" /\ pc' = "stopped" /\ UNCHANGED <<initFinished, shutdown>>
    BY <1>6 DEF Crash, process
  <2>2. JobView!JobDies
    BY <2>1 DEF JobView!JobDies
  <2>3. QED
    BY <2>2 DEF JobView!JobNext
<1>7. CASE \/ ReadCheckpoint \/ Request \/ WriteShards \/ WriteNullifiers
           \/ WriteTotal \/ Commit \/ (\E s \in Shard : CacheReceivers(s))
           \/ CacheSenders \/ Continue
  <2>1. /\ pc \notin {"stopped", "sleep"} /\ pc' \notin {"stopped", "sleep"}
        /\ UNCHANGED <<initFinished, shutdown>>
    BY <1>7 DEF ReadCheckpoint, Request, WriteShards, WriteNullifiers, WriteTotal,
         Commit, CacheReceivers, CacheSenders, Continue, process
  <2>2. QED
    BY <2>1 DEF JobView!jobVars
<1>8. CASE \/ (\E s \in Shard : GrowShard(s)) \/ GrowSenders
           \/ Disconnect \/ UNCHANGED vars
  <2>1. UNCHANGED <<pc, initFinished, shutdown>>
    BY <1>8 DEF GrowShard, GrowSenders, Disconnect, process, vars
  <2>2. QED
    BY <2>1 DEF JobView!jobVars
<1>9. QED
  BY <1>1, <1>2, <1>3, <1>4, <1>5, <1>6, <1>7, <1>8 DEF Next, Job, Environment

\* main sees rounds that end well or with an error, a flag that is set at the
\* end of one that went well, and a job that ends only between rounds, or
\* with the process.
THEOREM JobRefinement == Spec => ImplementsJob
<1>1. Init => JobView!JobInit
  BY DEF Init, JobView!JobInit
<1>2. [Next]_vars => [JobView!JobNext]_(JobView!jobVars)
  BY StepIsJobStep
<1>3. QED
  BY <1>1, <1>2, PTL DEF Spec, ImplementsJob, JobView!JobSpec
=============================================================================

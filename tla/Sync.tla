-------------------------------- MODULE Sync --------------------------------
(***************************************************************************)
(* The syncing job (indexer/sync.rs), the tables it writes (db.rs,         *)
(* migrations/0_schema.sql) and the ledger cache it refreshes              *)
(* (indexer/cache.rs), against a full node whose ledger grows.             *)
(*                                                                         *)
(* A step of the job is what it does between two awaits that something     *)
(* else could observe or interrupt: a read of the checkpoint, one request, *)
(* the three groups of writes of the transaction, the commit, one batch    *)
(* put into the cache, the update of the checkpoint, the sleep.  Any step  *)
(* that the code follows by `?` may fail; the process may be told to shut  *)
(* down, and may crash at every step.  The machine does not lose power:    *)
(* with synchronous = OFF nothing is known of the file after that.         *)
(***************************************************************************)
EXTENDS LedgerTypes, Sequences

CONSTANTS
  MAX_RECEIVERS, MAX_SENDERS,   (* limits of one pull, 4096 in the code     *)
  Capacity,                     (* of LEDGER_LRU, 16 Mi entries in the code *)
  MaxFaults                     (* bound: failures in one behaviour         *)

ASSUME SyncAssumption ==
  /\ MAX_RECEIVERS \in Nat \ {0}
  /\ MAX_SENDERS \in Nat \ {0}
  /\ Capacity \in Nat \ {0}
  /\ MaxFaults \in Nat

VARIABLES
  chain,         (* the full node's ledger: its length, as a Checkpoint     *)
  db,            (* the tables, as every committed transaction left them    *)
  tx,            (* the tables as the open transaction sees them            *)
  cache,         (* LEDGER_LRU: function from the keys it holds to items    *)
  pc,            (* where the job is                                        *)
  ckp,           (* current_checkpoint                                      *)
  resp,          (* resp, its receivers grouped by shard                    *)
  nullCkp,       (* nullifier_checkpoint                                    *)
  todo,          (* shards whose receivers are not yet put into the cache   *)
  initFinished,  (* INIT_SYNCING_FINISHED                                   *)
  shutdown,      (* SHUTDOWN_FLAG                                           *)
  wsUp,          (* whether ws_client is still connected                    *)
  faults,        (* failures so far                                         *)
  chain0         (* history: the ledger's length when the process started   *)

tables == <<db, tx>>
locals == <<ckp, resp, nullCkp, todo>>
process == <<initFinished, shutdown, wsUp, chain0>>
vars == <<chain, db, tx, cache, pc, ckp, resp, nullCkp, todo,
          initFinished, shutdown, wsUp, faults, chain0>>

-----------------------------------------------------------------------------
(***************************************************************************)
(* The tables.  Table "shards" has no unique key: "INSERT OR REPLACE" adds *)
(* a row whatever the table holds, so a shard is a sequence of rows.       *)
(* Table "nullifier" has primary key idx: the same statement overwrites,   *)
(* so it is a function on the indices present.  "senders_receivers_total"  *)
(* has at most one row.                                                    *)
(***************************************************************************)
Row == [utxo_index : Nat, item : Nat]

EmptyTables ==
  [shards |-> [s \in Shard |-> << >>], nullifier |-> << >>, total |-> {}]

\* insert_one_shard for every receiver of one shard, from index `from` on.
insert_shard(table, from, items) ==
  table \o
    [k \in 1..Len(items) |-> [utxo_index |-> from + (k - 1), item |-> items[k]]]

\* insert_one_nullifier for every sender, from index `from` on.
insert_nullifiers(table, from, items) ==
  [i \in DOMAIN table \cup from..(from + Len(items) - 1) |->
     IF i \in from..(from + Len(items) - 1)
       THEN items[i - from + 1]
       ELSE table[i]]

\* SELECT count(*) FROM nullifier
get_len_of_nullifier(d) == Cardinality(DOMAIN d.nullifier)

\* Mutant: the index of the last row instead of the number of rows.
get_latest_check_point_last(d) ==
  [receiver_index |-> [s \in Shard |-> Len(d.shards[s]) - 1],
   sender_index |-> get_len_of_nullifier(d)]

\* SELECT COUNT(*) FROM shards WHERE shard_index = ?, for each shard.
get_latest_check_point(d) ==
  [receiver_index |-> [s \in Shard |-> Len(d.shards[s])],
   sender_index |-> get_len_of_nullifier(d)]

(***************************************************************************)
(* The cache.  A put_batch_lru adds the entries of b; when they do not all *)
(* fit, which ones are evicted depends on every use of the cache before    *)
(* and is left open: any Capacity of the entries may be what remains.      *)
(***************************************************************************)
Merged(c, b) ==
  [k \in DOMAIN c \cup DOMAIN b |-> IF k \in DOMAIN b THEN b[k] ELSE c[k]]

put_batch_lru(c, b) ==
  LET all == Merged(c, b)
      kept == IF Cardinality(DOMAIN all) <= Capacity
                THEN {DOMAIN all}
                ELSE {D \in SUBSET DOMAIN all : Cardinality(D) = Capacity}
  IN  {[k \in D |-> all[k]] : D \in kept}

\* The entries that put_batch_receiver and put_batch_sender hand over.
receiver_batch(s, from, items) ==
  [k \in {receiver_key(s, from + (j - 1)) : j \in 1..Len(items)} |->
     items[k[3] - from + 1]]
sender_batch(from, items) ==
  [k \in {sender_key(from + (j - 1)) : j \in 1..Len(items)} |->
     items[k[3] - from + 1]]

-----------------------------------------------------------------------------
(***************************************************************************)
(* Requests.  The limits reach the node crosswise, the one for senders as  *)
(* max_receivers and the other way round, each after a `min` with the      *)
(* other's constant: both end up as the smaller of the two.                *)
(***************************************************************************)
PullLimit == IF MAX_RECEIVERS < MAX_SENDERS THEN MAX_RECEIVERS ELSE MAX_SENDERS

NoResp ==
  [recv |-> [s \in Shard |-> << >>], send |-> << >>, total |-> 0,
   should_continue |-> FALSE]

\* Where the job goes when sync_shards_from_full_node has returned.
AfterRound == IF shutdown THEN "stopped" ELSE "checkpoint"

\* The locals of sync_shards_from_full_node go out of scope.
DropLocals ==
  /\ ckp' = ZeroCheckpoint
  /\ resp' = NoResp
  /\ nullCkp' = 0
  /\ todo' = {}

\* Mutant: only the sender index is moved.
increasing_checkpoint_senders(c, r) ==
  [receiver_index |-> c.receiver_index,
   sender_index |-> c.sender_index + Len(r.send)]

\* increasing_checkpoint
increasing_checkpoint(c, r) ==
  [receiver_index |-> [s \in Shard |-> c.receiver_index[s] + Len(r.recv[s])],
   sender_index |-> c.sender_index + Len(r.send)]

-----------------------------------------------------------------------------
Init ==
  /\ chain = ZeroCheckpoint
  /\ db = EmptyTables
  /\ tx = EmptyTables
  /\ cache = << >>
  /\ pc = "stopped"
  /\ ckp = ZeroCheckpoint
  /\ resp = NoResp
  /\ nullCkp = 0
  /\ todo = {}
  /\ initFinished = FALSE
  /\ shutdown = FALSE
  /\ wsUp = TRUE
  /\ faults = 0
  /\ chain0 = ZeroCheckpoint

(***************************************************************************)
(* The full node's ledger grows by one receiver or one sender.             *)
(***************************************************************************)
GrowShard(s) ==
  /\ chain.receiver_index[s] + 1 \in Count
  /\ chain' = [chain EXCEPT !.receiver_index[s] = @ + 1]
  /\ UNCHANGED <<tables, cache, pc, locals, process, faults>>

GrowSenders ==
  /\ chain.sender_index + 1 \in Count
  /\ chain' = [chain EXCEPT !.sender_index = @ + 1]
  /\ UNCHANGED <<tables, cache, pc, locals, process, faults>>

(***************************************************************************)
(* start_service: a connection of its own and the job, on the tables that  *)
(* an earlier process has left.  The cache and the flags are the process's *)
(* memory.                                                                 *)
(***************************************************************************)
Start ==
  /\ pc = "stopped"
  /\ pc' = "checkpoint"
  /\ cache' = << >>
  /\ initFinished' = FALSE
  /\ shutdown' = FALSE
  /\ wsUp' = TRUE
  /\ chain0' = chain
  /\ UNCHANGED <<chain, tables, locals, faults>>

-----------------------------------------------------------------------------
(***************************************************************************)
(* The steps of sync_shards_from_full_node.                                *)
(***************************************************************************)
ReadCheckpoint ==
  /\ pc = "checkpoint"
  /\ ckp' = get_latest_check_point(db)
  /\ pc' = "request"
  /\ UNCHANGED <<chain, tables, cache, resp, nullCkp, todo, process, faults>>

(***************************************************************************)
(* synchronize_ledger and reconstruct_shards_from_pull_response.  The node *)
(* answers with the next c[s] receivers of every shard s and the next n    *)
(* senders, no more of either than the limit, says whether anything is     *)
(* left, and sends something when something is left.                       *)
(***************************************************************************)
Answer(c, n) ==
  LET left == \/ \E s \in Shard :
                    ckp.receiver_index[s] + c[s] < chain.receiver_index[s]
              \/ ckp.sender_index + n < chain.sender_index
  IN  /\ \A s \in Shard :
           ckp.receiver_index[s] + c[s] <= chain.receiver_index[s]
      /\ ckp.sender_index + n <= chain.sender_index
      /\ SumOverShards(c) <= PullLimit
      /\ n <= PullLimit
      /\ left => (\E s \in Shard : c[s] > 0) \/ n > 0
      /\ resp' =
           [recv |-> [s \in Shard |->
                        [k \in 1..c[s] |-> ckp.receiver_index[s] + (k - 1)]],
            send |-> [k \in 1..n |-> ckp.sender_index + (k - 1)],
            total |-> SumOverShards(chain.receiver_index) + chain.sender_index,
            should_continue |-> left]

Request ==
  /\ pc = "request"
  /\ wsUp
  /\ \E c \in [Shard -> Count], n \in Count : Answer(c, n)
  /\ pc' = "write_shards"
  /\ UNCHANGED <<chain, tables, cache, ckp, nullCkp, todo, process, faults>>

\* Mutant: the Err arm goes on with the loop past the check of the flag.
FailRoundUnchecked ==
  /\ tx' = db
  /\ pc' = "checkpoint"
  /\ DropLocals
  /\ UNCHANGED <<chain, db, cache, process>>

\* The round ends with an error; the open transaction is rolled back.  The
\* job does not sleep, and does not make a new ws_client.
FailRound ==
  /\ tx' = db
  /\ pc' = AfterRound
  /\ DropLocals
  /\ UNCHANGED <<chain, db, cache, process>>

\* ws_client has lost its connection: every request fails from then on.
DeadRequest ==
  /\ pc = "request"
  /\ ~wsUp
  /\ FailRound
  /\ UNCHANGED faults

\* Mutant: the inserts go to the pool, not to the transaction.
WriteShardsAutocommit ==
  /\ pc = "write_shards"
  /\ db' = [db EXCEPT !.shards = [s \in Shard |->
              insert_shard(db.shards[s], ckp.receiver_index[s], resp.recv[s])]]
  /\ tx' = db'
  /\ pc' = "write_nullifiers"
  /\ UNCHANGED <<chain, cache, locals, process, faults>>

\* Begins the transaction; the rows of a shard start at the index that
\* current_checkpoint has for it.
WriteShards ==
  /\ pc = "write_shards"
  /\ tx' = [db EXCEPT !.shards = [s \in Shard |->
              insert_shard(db.shards[s], ckp.receiver_index[s], resp.recv[s])]]
  /\ pc' = "write_nullifiers"
  /\ UNCHANGED <<chain, db, cache, locals, process, faults>>

\* The nullifiers start at the number of rows that the transaction sees.
WriteNullifiers ==
  /\ pc = "write_nullifiers"
  /\ nullCkp' = get_len_of_nullifier(tx)
  /\ tx' = [tx EXCEPT !.nullifier = insert_nullifiers(@, nullCkp', resp.send)]
  /\ pc' = "write_total"
  /\ UNCHANGED <<chain, db, cache, ckp, resp, todo, process, faults>>

WriteTotal ==
  /\ pc = "write_total"
  /\ tx' = [tx EXCEPT !.total = {resp.total}]
  /\ pc' = "commit"
  /\ UNCHANGED <<chain, db, cache, locals, process, faults>>

\* Mutant: the error of the commit is dropped.
CommitUnchecked ==
  /\ pc = "commit"
  /\ db' \in {db, tx}
  /\ tx' = db'
  /\ todo' = {s \in Shard : resp.recv[s] # << >>}
  /\ pc' = "cache"
  /\ UNCHANGED <<chain, cache, ckp, resp, nullCkp, process, faults>>

\* Mutant: the transaction is dropped, which rolls it back.
CommitMissing ==
  /\ pc = "commit"
  /\ tx' = db
  /\ todo' = {s \in Shard : resp.recv[s] # << >>}
  /\ pc' = "cache"
  /\ UNCHANGED <<chain, db, cache, ckp, resp, nullCkp, process, faults>>

Commit ==
  /\ pc = "commit"
  /\ db' = tx
  /\ todo' = {s \in Shard : resp.recv[s] # << >>}
  /\ pc' = "cache"
  /\ UNCHANGED <<chain, tx, cache, ckp, resp, nullCkp, process, faults>>

\* The shards of the response are put into the cache one batch at a time, in
\* the order of a HashMap, then the senders in one batch.
CacheReceivers(s) ==
  /\ pc = "cache"
  /\ s \in todo
  /\ cache' \in put_batch_lru(cache,
                  receiver_batch(s, ckp.receiver_index[s], resp.recv[s]))
  /\ todo' = todo \ {s}
  /\ UNCHANGED <<chain, tables, pc, ckp, resp, nullCkp, process, faults>>

CacheSenders ==
  /\ pc = "cache"
  /\ todo = {}
  /\ cache' \in put_batch_lru(cache, sender_batch(nullCkp, resp.send))
  /\ pc' = "advance"
  /\ UNCHANGED <<chain, tables, locals, process, faults>>

\* Mutant: the next request reuses the checkpoint.
ContinueInPlace ==
  /\ pc = "advance"
  /\ resp.should_continue
  /\ resp' = NoResp
  /\ nullCkp' = 0
  /\ pc' = "request"
  /\ UNCHANGED <<chain, tables, cache, ckp, todo, process, faults>>

\* The next request of this round, or the end of it.
Continue ==
  /\ pc = "advance"
  /\ resp.should_continue
  /\ ckp' = increasing_checkpoint(ckp, resp)
  /\ resp' = NoResp
  /\ nullCkp' = 0
  /\ pc' = "request"
  /\ UNCHANGED <<chain, tables, cache, todo, process, faults>>

\* Mutant: "should_continue == true means the synchronization is done".
FinishRoundEarly ==
  /\ pc = "advance"
  /\ initFinished' = TRUE
  /\ pc' = "sleep"
  /\ DropLocals
  /\ UNCHANGED <<chain, tables, cache, shutdown, wsUp, chain0, faults>>

\* Mutant: a round that brought nothing new does not set the flag.
FinishRoundNews ==
  /\ pc = "advance"
  /\ ~resp.should_continue
  /\ initFinished' = (initFinished \/ resp.send # << >>)
  /\ pc' = "sleep"
  /\ DropLocals
  /\ UNCHANGED <<chain, tables, cache, shutdown, wsUp, chain0, faults>>

FinishRound ==
  /\ pc = "advance"
  /\ ~resp.should_continue
  /\ initFinished' = TRUE
  /\ pc' = "sleep"
  /\ DropLocals
  /\ UNCHANGED <<chain, tables, cache, shutdown, wsUp, chain0, faults>>

\* Mutant: the check of the flag is only in the Err arm.
WakeUnchecked ==
  /\ pc = "sleep"
  /\ pc' = "checkpoint"
  /\ UNCHANGED <<chain, tables, cache, locals, process, faults>>

\* The job has slept for `frequency` seconds after a round without error.
Wake ==
  /\ pc = "sleep"
  /\ pc' = AfterRound
  /\ UNCHANGED <<chain, tables, cache, locals, process, faults>>

-----------------------------------------------------------------------------
(***************************************************************************)
(* What goes wrong.                                                        *)
(***************************************************************************)
\* The steps that the code follows by `?`.
Fallible == {"checkpoint", "request", "write_shards", "write_nullifiers",
             "write_total", "commit"}

SyncError ==
  /\ pc \in Fallible
  /\ faults < MaxFaults
  /\ faults' = faults + 1
  /\ FailRound

\* SIGINT, SIGTERM or SIGQUIT sets the flag.
Shutdown ==
  /\ pc # "stopped"
  /\ ~shutdown
  /\ shutdown' = TRUE
  /\ UNCHANGED <<chain, tables, cache, pc, locals, initFinished, wsUp, chain0, faults>>

\* The process ends wherever it is.  What it has committed is with the
\* operating system, which lives on; the open transaction is gone.
Crash ==
  /\ pc # "stopped"
  /\ faults < MaxFaults
  /\ faults' = faults + 1
  /\ tx' = db
  /\ cache' = << >>
  /\ pc' = "stopped"
  /\ DropLocals
  /\ UNCHANGED <<chain, db, process>>

Disconnect ==
  /\ wsUp
  /\ pc # "stopped"
  /\ faults < MaxFaults
  /\ faults' = faults + 1
  /\ wsUp' = FALSE
  /\ UNCHANGED <<chain, tables, cache, pc, locals, initFinished, shutdown, chain0>>

-----------------------------------------------------------------------------
Job ==
  \/ ReadCheckpoint
  \/ Request
  \/ DeadRequest
  \/ WriteShards
  \/ WriteNullifiers
  \/ WriteTotal
  \/ Commit
  \/ \E s \in Shard : CacheReceivers(s)
  \/ CacheSenders
  \/ Continue
  \/ FinishRound
  \/ Wake

Environment ==
  \/ \E s \in Shard : GrowShard(s)
  \/ GrowSenders
  \/ Start
  \/ SyncError
  \/ Shutdown
  \/ Crash
  \/ Disconnect

Next == Job \/ Environment

Spec == Init /\ [][Next]_vars

\* The runtime keeps polling the job, and the node answers what it is asked.
FairSpec == Spec /\ WF_vars(Job)

-----------------------------------------------------------------------------
(***************************************************************************)
(* What the job promises.                                                  *)
(***************************************************************************)
Response ==
  [recv : [Shard -> Seq(Nat)], send : Seq(Nat), total : Nat,
   should_continue : BOOLEAN]

TablesOK(d) ==
  /\ d.shards \in [Shard -> Seq(Row)]
  /\ \A i \in DOMAIN d.nullifier : i \in Nat /\ d.nullifier[i] \in Nat
  /\ d.total \subseteq Nat

\* Every variable has the type that the code declares for it, and the flags
\* and counters stay within their bounds.
TypeOK ==
  /\ chain \in Checkpoint /\ ckp \in Checkpoint /\ chain0 \in Checkpoint
  /\ TablesOK(db) /\ TablesOK(tx)
  /\ \A k \in DOMAIN cache : cache[k] \in Nat
  /\ pc \in Fallible \cup {"cache", "advance", "sleep", "stopped"}
  /\ resp \in Response
  /\ nullCkp \in Nat
  /\ todo \subseteq Shard
  /\ initFinished \in BOOLEAN /\ shutdown \in BOOLEAN /\ wsUp \in BOOLEAN
  /\ faults \in 0..MaxFaults

\* The first n receivers of a shard, and the first n senders, as the tables
\* hold them when nothing is missing, misplaced or there twice.
FirstRows(n) == [k \in 1..n |-> [utxo_index |-> k - 1, item |-> k - 1]]
FirstNullifiers(n) == [i \in 0..(n - 1) |-> i]

\* Whatever errors, retries, crashes and restarts happen between the steps of
\* the job, the committed tables are a prefix of the ledger: every row once,
\* at its own index.  Nothing in the schema enforces it: insert_one_shard
\* appends to a table without a unique key at offsets that are counted, not
\* read.
MirrorExact ==
  /\ \A s \in Shard :
       /\ db.shards[s] = FirstRows(Len(db.shards[s]))
       /\ Len(db.shards[s]) <= chain.receiver_index[s]
  /\ \E n \in 0..chain.sender_index : db.nullifier = FirstNullifiers(n)

\* sync_shards_from_full_node moves current_checkpoint by the length of each
\* response and counts the nullifiers anew in every transaction: the two
\* cursors agree with each other, and with the tables at every request.
CursorsAgree ==
  /\ pc = "request" => ckp = get_latest_check_point(db)
  /\ pc \in {"write_total", "commit", "cache"} => nullCkp = ckp.sender_index

\* "update cache only if we make sure the transaction has been committed":
\* what the cache holds under a key is the item that the tables hold there.
CacheCoherent ==
  \A k \in DOMAIN cache :
    \/ \E s \in Shard : \E j \in DOMAIN db.shards[s] :
         /\ k = receiver_key(s, db.shards[s][j].utxo_index)
         /\ cache[k] = db.shards[s][j].item
    \/ \E i \in DOMAIN db.nullifier :
         /\ k = sender_key(i)
         /\ cache[k] = db.nullifier[i]

\* INIT_SYNCING_FINISHED is only set when the tables hold everything that
\* the ledger had when this process started, and stays true of them.
InitMeansSynced ==
  initFinished /\ pc # "stopped" =>
    /\ \A s \in Shard : chain0.receiver_index[s] <= Len(db.shards[s])
    /\ chain0.sender_index <= Cardinality(DOMAIN db.nullifier)

\* The number of items in the tables d.
Stored(d) ==
  SumOverShards([s \in Shard |-> Len(d.shards[s])]) + Cardinality(DOMAIN d.nullifier)

\* The rows and the total of a response are committed together: the total
\* never runs behind the rows, there is one as soon as there are rows, and
\* between two rounds it counts exactly the rows.
TotalMatches ==
  /\ db.total = {} => Stored(db) = 0
  /\ \A t \in db.total : Stored(db) <= t
  /\ pc = "sleep" => db.total = {Stored(db)}

(***************************************************************************)
(* The tables and the cache implement LedgerMirror.                        *)
(***************************************************************************)
Mirror == INSTANCE LedgerMirror WITH
  rows <- [s \in Shard |-> Len(db.shards[s])],
  nulls <- Cardinality(DOMAIN db.nullifier),
  hasTotal <- db.total # {},
  cached <- DOMAIN cache

\* Every step of the job, and every failure, is seen by the readers of the
\* tables and of the cache as one step of LedgerMirror or as none.
ImplementsMirror == Mirror!MirrorSpec

(***************************************************************************)
(* The job and its flags implement SyncJob.                                *)
(***************************************************************************)
JobView == INSTANCE SyncJob WITH
  job <- CASE pc = "stopped" -> "ended"
           [] pc = "sleep" -> "sleep"
           [] OTHER -> "round"

\* The process sees rounds that end well or with an error, and a job that
\* ends after the round, or the sleep, in which the flag was set.
ImplementsJob == JobView!JobSpec

-----------------------------------------------------------------------------
(***************************************************************************)
(* What must eventually happen.                                            *)
(***************************************************************************)
\* The job cannot make progress: it has ended, or its only connection has.
CutOff == pc = "stopped" \/ ~wsUp

\* Everything that the ledger holds is mirrored sooner or later, although
\* rounds fail and start over.
CatchUp ==
  \A n \in Count :
    /\ \A s \in Shard :
         chain.receiver_index[s] >= n ~> Len(db.shards[s]) >= n \/ CutOff
    /\ chain.sender_index >= n ~> Cardinality(DOMAIN db.nullifier) >= n \/ CutOff

\* start_service waits for INIT_SYNCING_FINISHED before it serves anything:
\* a connected job sets it.
InitCompletes == pc # "stopped" ~> initFinished \/ CutOff

\* The flag is only looked at between rounds; the job ends nevertheless.
ShutdownStops == shutdown ~> pc = "stopped"
=============================================================================

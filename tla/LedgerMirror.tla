----------------------------- MODULE LedgerMirror -----------------------------
(***************************************************************************)
(* What the store of the indexer promises its readers: the tables hold the *)
(* first rows[s] receivers of every shard s and the first `nulls` senders, *)
(* without holes or duplicates; they grow by whole transactions; the cache *)
(* holds nothing that is not in the tables.  A restart of the process      *)
(* empties the cache and leaves the tables alone.  Nothing is promised for *)
(* a loss of power (the database runs with PRAGMA synchronous = OFF).      *)
(*                                                                         *)
(* Module Sync implements this specification; module Pull relies on it.    *)
(***************************************************************************)
EXTENDS LedgerTypes

VARIABLES
  rows,      (* rows[s]: receivers of shard s in table "shards"             *)
  nulls,     (* rows of table "nullifier"                                   *)
  hasTotal,  (* whether table "senders_receivers_total" has its row         *)
  cached     (* the keys that LEDGER_LRU holds                              *)

mirrorVars == <<rows, nulls, hasTotal, cached>>

\* The keys of the items in the tables when there are r[s] and n of them.
KeysUpTo(r, n) ==
  (UNION {{receiver_key(s, u) : u \in 0..(r[s] - 1)} : s \in Shard})
    \cup {sender_key(i) : i \in 0..(n - 1)}

MirrorTypeOK ==
  /\ rows \in [Shard -> Count]
  /\ nulls \in Count
  /\ hasTotal \in BOOLEAN
  /\ cached \subseteq KeysUpTo(rows, nulls)

MirrorInit ==
  /\ rows = [s \in Shard |-> 0]
  /\ nulls = 0
  /\ hasTotal = FALSE
  /\ cached = {}

\* One committed transaction of the syncing job.
MirrorCommit(r, n) ==
  /\ \A s \in Shard : rows[s] <= r[s]
  /\ nulls <= n
  /\ rows' = r
  /\ nulls' = n
  /\ hasTotal' = TRUE
  /\ UNCHANGED cached

\* One put_batch_lru of rows that are in the tables; what the cache evicts
\* to make room is not determined.
MirrorCachePut(keys) ==
  /\ keys \subseteq cached \cup KeysUpTo(rows, nulls)
  /\ cached' = keys
  /\ UNCHANGED <<rows, nulls, hasTotal>>

\* The process ends and is started again.
MirrorRestart ==
  /\ cached' = {}
  /\ UNCHANGED <<rows, nulls, hasTotal>>

MirrorNext ==
  \/ \E r \in [Shard -> Count], n \in Count : MirrorCommit(r, n)
  \/ MirrorCachePut(cached')
  \/ MirrorRestart

MirrorSpec == MirrorInit /\ [][MirrorNext]_mirrorVars
==============================================================================

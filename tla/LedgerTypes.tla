----------------------------- MODULE LedgerTypes -----------------------------
(***************************************************************************)
(* What every part of the indexer agrees on: the shards of the UTXO        *)
(* forest, checkpoints into the ledger, and the keys of the ledger cache.  *)
(*                                                                         *)
(* Data is abstracted to its position on chain: only finalized state is    *)
(* queried (indexer/sync.rs line 447), so the receiver (Utxo,              *)
(* FullIncomingNote) that the chain holds at index i of shard s never      *)
(* changes and is named by the number i among the receivers of s; a sender *)
(* (NullifierCommitment, OutgoingNote) is named by its position in the     *)
(* nullifier insertion order.                                              *)
(***************************************************************************)
EXTENDS Integers, FiniteSets

CONSTANTS
  ForestWidth,  (* MerkleTreeConfiguration::FOREST_WIDTH, 256 in the code   *)
  Count         (* the lengths a shard or the nullifier set can have        *)

ASSUME ForestWidthAssumption == ForestWidth \in Nat \ {0}

\* Count is Nat or an initial segment of it: lengths are only ever bounded.
ASSUME CountAssumption ==
  /\ Count \subseteq Nat
  /\ 0 \in Count
  /\ \A n \in Count : 0..n \subseteq Count

Shard == 0..(ForestWidth - 1)

(***************************************************************************)
(* A Checkpoint is one receiver index per shard and one sender index: the  *)
(* position of the first item that its owner does not have yet.            *)
(***************************************************************************)
Checkpoint == [receiver_index : [Shard -> Nat], sender_index : Nat]

\* Checkpoint::default()
ZeroCheckpoint == [receiver_index |-> [s \in Shard |-> 0], sender_index |-> 0]

(***************************************************************************)
(* Keys of LEDGER_LRU: type prefix, sub field, value.  The packing of the  *)
(* three fields into one u64 is left out.                                  *)
(***************************************************************************)
RECEIVER_KEY_PREFIX == 1
SENDER_KEY_PREFIX == 2

receiver_key(shard_idx, utxo_idx) == <<RECEIVER_KEY_PREFIX, shard_idx, utxo_idx>>
sender_key(idx) == <<SENDER_KEY_PREFIX, 0, idx>>

\* The number of receivers over all shards, for f a function on Shard: how
\* many positions <<s, u>> it has.
SumOverShards(f) == Cardinality(UNION {{s} \X (0..(f[s] - 1)) : s \in Shard})
==============================================================================

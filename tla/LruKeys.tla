------------------------------ MODULE LruKeys ------------------------------
(***************************************************************************)
(* The keys of the ledger cache (indexer/cache.rs): one integer of three   *)
(* fields, a type prefix, a sub field (the shard) and a value (the index). *)
(* A field that is too large is cut to its width.  The bit operations on   *)
(* u64 are written as arithmetic: a shift is a product, a mask a remainder,*)
(* and the union of disjoint fields a sum.                                 *)
(*                                                                         *)
(* LruKeysProofs shows that the keys of different items differ as long as  *)
(* shards and indices fit their fields, which is why LedgerTypes can keep  *)
(* the fields apart.                                                       *)
(***************************************************************************)
EXTENDS Integers

CONSTANTS
  SubFields,  (* 2 ^ SUB_FIELD_BITS, 2 ^ 12 in the code                     *)
  Values      (* 2 ^ VALUE_FIELD_BITS, 2 ^ 48 in the code                   *)

ASSUME LruKeysAssumption ==
  /\ SubFields \in Nat \ {0}
  /\ Values \in Nat \ {0}

RECEIVER_KEY_PREFIX == 1
SENDER_KEY_PREFIX == 2

Packed(prefix, sub, value) == (prefix * SubFields + sub) * Values + value

receiver_key(shard_idx, utxo_idx) ==
  Packed(RECEIVER_KEY_PREFIX, shard_idx % SubFields, utxo_idx % Values)

\* Mutant: the prefix of the receivers.
sender_key_of_receiver(idx) == Packed(RECEIVER_KEY_PREFIX, 0, idx % Values)

sender_key(idx) == Packed(SENDER_KEY_PREFIX, 0, idx % Values)
=============================================================================

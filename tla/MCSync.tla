------------------------------- MODULE MCSync -------------------------------
(***************************************************************************)
(* Sync for TLC: ledgers of at most MaxCount items per shard.              *)
(***************************************************************************)
EXTENDS Sync

CONSTANT MaxCount

MCCount == 0..MaxCount
=============================================================================

--------------------------- MODULE MCLedgerCache ---------------------------
(***************************************************************************)
(* LedgerCache for TLC: tables of at most MaxCount items per shard, and    *)
(* readers that are alike.                                                 *)
(***************************************************************************)
EXTENDS LedgerCache, TLC

CONSTANT MaxCount

MCCount == 0..MaxCount
ReaderSymmetry == Permutations(Reader)
=============================================================================

------------------------------- MODULE MCPull -------------------------------
(***************************************************************************)
(* Pull for TLC: tables of at most MaxCount items per shard.               *)
(***************************************************************************)
EXTENDS Pull

CONSTANT MaxCount

MCCount == 0..MaxCount
=============================================================================

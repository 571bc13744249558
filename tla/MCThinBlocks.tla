---------------------------- MODULE MCThinBlocks -----------------------------
(***************************************************************************)
(* Two blocks for TLC, the first with two transactions besides its         *)
(* coinbase, the second with none.                                         *)
(***************************************************************************)
EXTENDS ThinBlocks

MCTxs == <<{"s", "t"}, {}>>

=============================================================================

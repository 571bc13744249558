---------------------------- MODULE MCChainState ----------------------------
(***************************************************************************)
(* A tree of two branches for TLC.                                         *)
(*                                                                         *)
(*     G -- p1 -- a2 -- a3                                                 *)
(*            \-- b2 -- b3                                                *)
(*                                                                         *)
(* p1 pays the coinbase "c" to two outputs.  "x" spends both, in a2 and in *)
(* b2.  a3 holds "y", which spends one output of "x", and "z", which       *)
(* spends "y" in the same block.  b3 repeats the txid "c", whose outputs   *)
(* are all spent, and spends the other output of "x".  a2 and b2 have a    *)
(* coinbase "n" without spendable outputs; a3's coinbase repeats it too.   *)
(* e2 repeats "c" too early.                                               *)
(***************************************************************************)
EXTENDS ChainState

MCBlocks == {"G", "p1", "a2", "a3", "b2", "b3", "e2"}
\* A power failure while both branches are connected; a lasting write error and a power
\* failure with the first blocks in two block files.
MCBudgets ==
    {[blocks |-> MCBlocks \ {"e2"}, crashes |-> 1, errors |-> 0, files |-> 0],
     [blocks |-> {"G", "p1", "a2", "e2"}, crashes |-> 1, errors |-> 1, files |-> 1]}
MCParent == [b \in MCBlocks |->
    CASE b = "p1" -> "G" [] b \in {"a2", "b2", "e2"} -> "p1"
      [] b = "a3" -> "a2" [] b = "b3" -> "b2" [] OTHER -> "G"]
MCAnc == [b \in MCBlocks |->
    CASE b = "G" -> {"G"} [] b = "p1" -> {"G", "p1"}
      [] b \in {"a2", "b2", "e2"} -> {"G", "p1", b}
      [] b = "a3" -> {"G", "p1", "a2", "a3"} [] b = "b3" -> {"G", "p1", "b2", "b3"}]
MCHeight == [b \in MCBlocks |->
    CASE b = "G" -> 0 [] b = "p1" -> 1 [] b \in {"a2", "b2", "e2"} -> 2 [] OTHER -> 3]
MCBlockTxs == [b \in MCBlocks |->
    CASE b = "G" -> <<>> [] b \in {"p1", "e2"} -> <<"c">>
      [] b \in {"a2", "b2"} -> <<"n", "x">>
      [] b = "a3" -> <<"n", "y", "z">> [] b = "b3" -> <<"c", "w">>]
MCIns ==
    [c |-> <<>>, n |-> <<>>, x |-> <<<<"c", 1>>, <<"c", 2>>>>,
     y |-> <<<<"x", 1>>>>, z |-> <<<<"y", 1>>>>, w |-> <<<<"x", 2>>>>]
MCOutIdx ==
    [c |-> {1, 2}, n |-> {}, x |-> {1, 2}, y |-> {1}, z |-> {1}, w |-> {1}]

=============================================================================

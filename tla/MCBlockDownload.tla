-------------------------- MODULE MCBlockDownload --------------------------
(***************************************************************************)
(* Trees for TLC: a chain of two blocks after the genesis block, and a     *)
(* tree with a branch "x2" beside the second block.                        *)
(***************************************************************************)
EXTENDS BlockDownload

MCShortChain == {"G", "b1", "b2"}
MCFork == {"G", "b1", "b2", "x2"}
MCParent == [G |-> "G", b1 |-> "G", b2 |-> "b1", x2 |-> "b1"]
MCAnc == [b \in Blocks |-> CASE b = "G" -> {"G"} [] b = "b1" -> {"G", "b1"}
                              [] OTHER -> {"G", "b1", b}]
MCHeight == [b \in Blocks |-> CASE b = "G" -> 0 [] b = "b1" -> 1 [] OTHER -> 2]

=============================================================================

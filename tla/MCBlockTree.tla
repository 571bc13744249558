---------------------------- MODULE MCBlockTree -----------------------------
(***************************************************************************)
(* BlockTree for TLC.  The tree:                                           *)
(*                                                                         *)
(*      G - a1 - a2                                                        *)
(*       \                                                                 *)
(*        b1 - b2 - b3     b2 breaks a rule in ConnectBlock                *)
(*         \                                                               *)
(*          c2             as good as a2                                   *)
(***************************************************************************)
EXTENDS BlockTree, TLC

MCBlocks == {"G", "a1", "a2", "b1", "b2", "b3", "c2"}
MCParent == [a1 |-> "G", a2 |-> "a1", b1 |-> "G", b2 |-> "b1", b3 |-> "b2", c2 |-> "b1"]
MCHeight == [G |-> 0, a1 |-> 1, a2 |-> 2, b1 |-> 1, b2 |-> 2, b3 |-> 3, c2 |-> 2]
MCAnc == [G |-> {"G"}, a1 |-> {"G", "a1"}, a2 |-> {"G", "a1", "a2"}, b1 |-> {"G", "b1"},
          b2 |-> {"G", "b1", "b2"}, b3 |-> {"G", "b1", "b2", "b3"}, c2 |-> {"G", "b1", "c2"}]
MCAddr == [G |-> 1, a1 |-> 7, a2 |-> 3, b1 |-> 4, b2 |-> 5, b3 |-> 2, c2 |-> 6]

\* A second tree for pruning, in which a low block can carry much work:
\*
\*      G - a1 - a2
\*       \
\*        m1 - d2 - e3       work 1, 3, 4; e3 breaks a rule in ConnectBlock
\*               \
\*                f3         work 4, breaks a rule in ContextualCheckBlock
PruneBlocks == {"G", "a1", "a2", "m1", "d2", "e3", "f3"}
PruneParent == [a1 |-> "G", a2 |-> "a1", m1 |-> "G", d2 |-> "m1", e3 |-> "d2", f3 |-> "d2"]
PruneHeight == [G |-> 0, a1 |-> 1, a2 |-> 2, m1 |-> 1, d2 |-> 2, e3 |-> 3, f3 |-> 3]
PruneWork == [G |-> 0, a1 |-> 1, a2 |-> 2, m1 |-> 1, d2 |-> 3, e3 |-> 4, f3 |-> 4]
PruneAnc == [G |-> {"G"}, a1 |-> {"G", "a1"}, a2 |-> {"G", "a1", "a2"}, m1 |-> {"G", "m1"},
             d2 |-> {"G", "m1", "d2"}, e3 |-> {"G", "m1", "d2", "e3"},
             f3 |-> {"G", "m1", "d2", "f3"}]
PruneAddr == [G |-> 1, a1 |-> 7, a2 |-> 3, m1 |-> 4, d2 |-> 5, e3 |-> 6, f3 |-> 2]

\* What the operator and the disk may do in each run.
InvalidateOnce == {[invalidate |-> 1, reconsider |-> 0, prune |-> 0, shutdown |-> 0]}
InvalidateAndReconsider ==
    {[invalidate |-> 1, reconsider |-> 1, prune |-> 0, shutdown |-> 0]}
PruneAndRestart == {[invalidate |-> 0, reconsider |-> 0, prune |-> 1, shutdown |-> 1]}
InvalidateAndRestart == {[invalidate |-> 1, reconsider |-> 0, prune |-> 0, shutdown |-> 1]}
InvalidateAndPrune == {[invalidate |-> 1, reconsider |-> 0, prune |-> 1, shutdown |-> 0]}
AnyRecovery == PruneAndRestart \cup InvalidateAndReconsider \cup InvalidateAndRestart
               \cup InvalidateAndPrune

\* The first tree without c2, for liveness.
LiveBlocks == MCBlocks \ {"c2"}
LiveParent == [b \in LiveBlocks \ {"G"} |-> MCParent[b]]
LiveHeight == [b \in LiveBlocks |-> MCHeight[b]]
LiveAnc == [b \in LiveBlocks |-> MCAnc[b]]
LiveAddr == [b \in LiveBlocks |-> MCAddr[b]]


=============================================================================

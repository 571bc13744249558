----------------------------- MODULE MCMempool ------------------------------
(***************************************************************************)
(* Two branches for TLC; "f" is confirmed in the first block.              *)
(*                                                                         *)
(*     G -- a1 -- a2          a1: t1, t2      a2: nothing but its coinbase *)
(*      \-- b1 -- b2          b1: nothing  b2: t1, x                       *)
(*                                                                         *)
(* t2 spends t1, t3 spends both, t4 spends t3.  x spends what t2 spends.   *)
(* u spends t1, and so does r, which must wait for two blocks.  s spends   *)
(* the coinbase of a1, w nothing of all this.                              *)
(***************************************************************************)
EXTENDS Mempool

MCBlocks == {"G", "a1", "a2", "b1", "b2"}
MCParent == [b \in MCBlocks |->
    CASE b = "a2" -> "a1" [] b = "b2" -> "b1" [] OTHER -> "G"]
MCAnc == [b \in MCBlocks |->
    CASE b = "a2" -> {"G", "a1", "a2"} [] b = "b2" -> {"G", "b1", "b2"} [] OTHER -> {"G", b}]
MCHeight == [b \in MCBlocks |->
    CASE b = "G" -> 0 [] b \in {"a1", "b1"} -> 1 [] OTHER -> 2]
MCBlockTxs == [b \in MCBlocks |->
    CASE b = "G" -> <<"e", "f">> [] b = "a1" -> <<"ca", "t1", "t2">> [] b = "a2" -> <<"c2">>
      [] b = "b1" -> <<"cb">> [] b = "b2" -> <<"d2", "t1", "x">>]
MCIns ==
    [e |-> {}, f |-> {<<"e", 0>>}, ca |-> {}, cb |-> {}, c2 |-> {}, d2 |-> {},
     t1 |-> {<<"f", 0>>}, t2 |-> {<<"t1", 0>>}, t3 |-> {<<"t1", 1>>, <<"t2", 0>>},
     t4 |-> {<<"t3", 0>>}, x |-> {<<"t1", 0>>}, r |-> {<<"t1", 2>>}, u |-> {<<"t1", 3>>}, w |-> {<<"f", 1>>}, s |-> {<<"ca", 0>>}]
MCOutIdx ==
    [e |-> {0}, f |-> {0, 1}, ca |-> {0}, cb |-> {0}, c2 |-> {0}, d2 |-> {0},
     t1 |-> {0, 1, 2, 3}, t2 |-> {0}, t3 |-> {0}, t4 |-> {0}, x |-> {0}, r |-> {0}, u |-> {0}, w |-> {0}, s |-> {0}]
MCCoinbases == {"e", "ca", "cb", "c2", "d2"}
MCFee == [t \in DOMAIN MCIns |->
    CASE t \in {"t1", "t3"} -> 1 [] t = "t4" -> 3 [] OTHER -> 2]
MCSize == [t \in DOMAIN MCIns |-> IF t = "t3" THEN 2 ELSE 1]
MCLockTime == [t \in DOMAIN MCIns |-> IF t = "t4" THEN 1 ELSE 0]
MCRelLock == [t \in DOMAIN MCIns |-> IF t = "r" THEN 2 ELSE -1]
MCDeltas == [t \in DOMAIN MCIns |-> IF t \in {"t1", "t3"} THEN {0, 2} ELSE {0}]

=============================================================================

---------------------------- MODULE MCTxRelay ------------------------------
(***************************************************************************)
(* Four transactions for TLC: "a" spends the confirmed "g", "b" and "x"    *)
(* the same output of "a", and "c", by a script that fails, outputs of "a" *)
(* and "b".  The chain begins with "a" confirmed; the next tip ends a      *)
(* branch that does not have it, and makes "b" final.                      *)
(***************************************************************************)
EXTENDS TxRelay

MCTx == {"a", "b", "c", "x"}
MCSpends == [a |-> {<<"g", 0>>}, b |-> {<<"a", 0>>}, c |-> {<<"a", 1>>, <<"b", 0>>},
             x |-> {<<"a", 0>>}]
MCOutputs == [g |-> {<<"g", 0>>}, a |-> {<<"a", 0>>, <<"a", 1>>},
              b |-> {<<"b", 0>>}, c |-> {<<"c", 0>>}, x |-> {<<"x", 0>>}]
MCTips == <<[height |-> 1, confirmed |-> {"a"}, last |-> {"a"}],
            [height |-> 2, confirmed |-> {}, last |-> {}]>>
MCFinalAt == [t \in MCTx |-> IF t = "b" THEN 3 ELSE 0]

=============================================================================

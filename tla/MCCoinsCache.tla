---------------------------- MODULE MCCoinsCache ----------------------------
(***************************************************************************)
(* CoinsCache for TLC; the configuration gives the transactions, outputs   *)
(* and block hashes.                                                       *)
(***************************************************************************)
EXTENDS CoinsCache, TLC

=============================================================================

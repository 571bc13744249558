---------------------------- MODULE MCCheckQueue ----------------------------
(* CheckQueue for TLC; the configuration gives the threads and the checks.   *)
EXTENDS CheckQueue, TLC

=============================================================================

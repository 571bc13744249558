------------------------ MODULE MCNetworkConnection -------------------------
(***************************************************************************)
(* Two messages for TLC: "b" takes two chunks, the first of which fills a  *)
(* batch with its header, and "p", which is urgent, fills one as well.     *)
(***************************************************************************)
EXTENDS NetworkConnection

MCBodySize == [m \in Sendable |-> CASE m = "b" -> 15 [] m = "p" -> 10 [] m = Ping -> 1]
MCHeaderSize == [m \in Sendable |-> 1]

=============================================================================

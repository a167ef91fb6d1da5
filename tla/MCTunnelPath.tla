---------------------------- MODULE MCTunnelPath ----------------------------
(* Values for model checking TunnelPath. *)
EXTENDS TunnelPath

\* A request of two units and a reply of one.
TwoAndOne == [n \in Nodes |-> IF n = "server" THEN 2 ELSE 1]
=============================================================================

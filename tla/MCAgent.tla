------------------------------ MODULE MCAgent ------------------------------
(* Values for model checking Agent. *)
EXTENDS Agent

CONSTANTS k1, k2
=============================================================================

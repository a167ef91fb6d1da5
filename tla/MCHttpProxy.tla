---------------------------- MODULE MCHttpProxy ----------------------------
(* Values for model checking HttpProxy. *)
EXTENDS HttpProxy

CONSTANTS a, b, n1, n2, r1, r2
=============================================================================

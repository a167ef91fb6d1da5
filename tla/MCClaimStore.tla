---------------------------- MODULE MCClaimStore ----------------------------
(* Values for model checking ClaimStore. *)
EXTENDS ClaimStore

CONSTANTS c1, c2, n1, n2
=============================================================================

----------------------------- MODULE MCFraming -----------------------------
(* Values for model checking Framing. *)
EXTENDS Framing

CONSTANTS c1, c2
=============================================================================

--------------------------- MODULE MCActivityGraph ---------------------------
(* A small instance of ActivityGraph. *)
EXTENDS ActivityGraph

CONSTANTS c1, c2, c3

MCClient3 == {c1, c2, c3}
MCFilled == {2}
==============================================================================

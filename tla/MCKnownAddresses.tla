-------------------------- MODULE MCKnownAddresses --------------------------
(* A small instance of KnownAddresses. *)
EXTENDS KnownAddresses

CONSTANTS d1, d2, d3, c1, c2

MCDelegate == {d1, d2, d3}
MCKnown == {d1}
MCCheck2 == {c1, c2}
==============================================================================

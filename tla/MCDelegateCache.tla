--------------------------- MODULE MCDelegateCache ---------------------------
(* Small instances of DelegateCache. *)
EXTENDS DelegateCache, TLC
CONSTANTS d1, d2, d3, d4, l1, l2
MCDelegate3 == {d1, d2, d3}
MCDelegate4 == {d1, d2, d3, d4}
MCLoad2 == {l1, l2}
Symmetry == Permutations({d1, d2, d3, d4}) \cup Permutations({l1, l2})
==============================================================================

------------------------------ MODULE MCHeader ------------------------------
(* Small instances of Header. *)
EXTENDS Header, TLC

CONSTANTS k1, k2, k3

MCCall3 == {k1, k2, k3}

Symmetry == Permutations({k1, k2, k3})
==============================================================================

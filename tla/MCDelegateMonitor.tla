-------------------------- MODULE MCDelegateMonitor --------------------------
(* Small instances of DelegateMonitor: three delegates, rounds of two slots. *)
EXTENDS DelegateMonitor, TLC

CONSTANTS d1, d2, d3, b1, b2

MCDelegate == {d1, d2, d3}
MCBatchId == {b1, b2}

\* Rounds of d1 d2, d1 d2, then d3 d1.
MCForger == [s \in Slot |-> CASE s \in {1, 3, 6} -> d1 [] s \in {2, 4} -> d2 [] OTHER -> d3]

\* The votes replace d2 by d3 at height 3.
MCTopAt == [h \in Height |-> IF h < 3 THEN {d1, d2} ELSE {d1, d3}]

Symmetry == Permutations(MCBatchId)
==============================================================================

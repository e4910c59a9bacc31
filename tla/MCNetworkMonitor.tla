-------------------------- MODULE MCNetworkMonitor --------------------------
(* Small instances of NetworkMonitor. *)
EXTENDS NetworkMonitor

CONSTANTS p1, p2, h

MCPeer == {p1, p2, h}
MCHidden == {h}
MCNoName == {p2}
MCNoPlace == {p2}
MCNameless == {p1}
==============================================================================

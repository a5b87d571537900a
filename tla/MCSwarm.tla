------------------------------- MODULE MCSwarm -------------------------------
(* Small instances of SwarmController for TLC. *)
EXTENDS SwarmController

\* Any two drones can come close to one another.
MCPairs == {p \in SUBSET Drones : Cardinality(p) = 2}

\* The drones that every UWB frame reports: none, the first, all.
MCNone == {}
MCFirst == {0}
MCAll == Drones
=============================================================================

-------------------------------- MODULE MCPx4 --------------------------------
(* Px4Mission with two waypoints, one of them above the net. *)
EXTENDS Px4Mission

MCAlts == <<2, 4>>
=============================================================================

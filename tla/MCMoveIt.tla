------------------------------ MODULE MCMoveIt ------------------------------
(* Small instances of MoveItMission for TLC. *)
EXTENDS MoveItMission

\* One waypoint above the cap, one that leaves the altitude to --takeoff-alt.
MCRoute == <<[cell |-> 1, alt |-> 4], [cell |-> 2, alt |-> None]>>
MCShort == <<[cell |-> 1, alt |-> 4]>>
=============================================================================

--------------------------- MODULE FlightContract ---------------------------
(***************************************************************************)
(* What every flight program of the workspace promises about the one       *)
(* vehicle it commands, with its own structure left out: the vehicle is    *)
(* disarmed, armed on the ground or flying; the program releases it, by    *)
(* ordering it out of offboard control and to land, or every such order is *)
(* lost; the program ends.                                                 *)
(*                                                                         *)
(* The promise: a released vehicle is never disarmed while it flies and    *)
(* never takes off again, a vehicle is disarmed in flight only if every    *)
(* order that should have released it was lost, and the program does not   *)
(* end with an armed vehicle that it did not try to release.               *)
(***************************************************************************)
VARIABLES
  vehicle,   \* "disarmed", "armed" (on the ground) or "flying"
  release,   \* the orders that release it: "none" given, "done" or "lost"
  over       \* has the flight program ended?

cvars == <<vehicle, release, over>>

Init ==
  /\ vehicle = "disarmed"
  /\ release = "none"
  /\ over = FALSE

\* The program arms a vehicle it has not yet released.
Arm ==
  /\ ~over
  /\ release = "none"
  /\ vehicle = "disarmed"
  /\ vehicle' = "armed"
  /\ UNCHANGED <<release, over>>

\* The vehicle leaves the ground; not once it is released.
Lift ==
  /\ vehicle = "armed"
  /\ release # "done"
  /\ vehicle' = "flying"
  /\ UNCHANGED <<release, over>>

\* The program gives its last orders, once.
Release ==
  /\ ~over
  /\ release = "none"
  /\ release' \in {"done", "lost"}
  /\ UNCHANGED <<vehicle, over>>

Touchdown ==
  /\ vehicle = "flying"
  /\ vehicle' = "armed"
  /\ UNCHANGED <<release, over>>

\* The vehicle is disarmed on the ground or, only if the orders were lost, in
\* the air.
Disarm ==
  /\ \/ vehicle = "armed"
     \/ vehicle = "flying" /\ release = "lost"
  /\ vehicle' = "disarmed"
  /\ UNCHANGED <<release, over>>

\* The program ends: it left the vehicle disarmed, or it tried to release it.
End ==
  /\ ~over
  /\ vehicle = "disarmed" \/ release # "none"
  /\ over' = TRUE
  /\ UNCHANGED <<vehicle, release>>

Next == Arm \/ Lift \/ Release \/ Touchdown \/ Disarm \/ End

Spec == Init /\ [][Next]_cvars
=============================================================================

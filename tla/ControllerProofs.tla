-------------------------- MODULE ControllerProofs --------------------------
(***************************************************************************)
(* The legacy mission of the mapping drone, for every number of waypoints, *)
(* polls, addresses and velocity failures: however run() ends, the vehicle,*)
(* the exit code, the summary and the subsystems are as ExitInv says.      *)
(*                                                                         *)
(* ExitInv speaks of the end.  The invariant below says at every place     *)
(* what is to be true there for the end to be so: where landing was        *)
(* ordered, in which mode a place is reached, and that a flight that left  *)
(* its waypoints for a stop has too few steps left to end as planned       *)
(* before run() sees that stop.                                            *)
(***************************************************************************)
EXTENDS MappingController, TLAPS

Ends == {"mission_done", "finalise", "exit"}

(* TypeOK in parts.                                                        *)
Places ==
  /\ mode \in {"fly", "nofly", "dry"} /\ addr \in 1..Addresses
  /\ pc \in Setup \cup Mission \cup Crash \cup Ends
  /\ who \in {"mission", "main"}
  /\ st \in {"FLIGHT", "SCAN_WP", "EMERGENCY_LAND", "OVER"}
  /\ trouble \subseteq {"battery", "uwb", "stuck"}
  /\ vehicle \in {"disarmed", "armed", "flying"}
  /\ order \in {"none", "takeoff", "offboard", "hold", "land"}
Started == open \subseteq {"uwb", "realsense"}
Counts ==
  /\ gap \in 0..Gap /\ wp \in 1..Waypoints + 1 /\ velFail \in 0..VelFailAbort
  /\ polls \in Nat
Results == code \in {None, 0, 1, 2, 130} /\ summary \in {None, TRUE, FALSE}
Booleans ==
  /\ raised \in BOOLEAN /\ stop \in BOOLEAN /\ cancelled \in BOOLEAN
  /\ stopEvent \in BOOLEAN /\ aborted \in BOOLEAN /\ begun \in BOOLEAN
  /\ airPump \in BOOLEAN /\ inAir \in BOOLEAN /\ airborne \in BOOLEAN
  /\ lost \in BOOLEAN
CtlTypes == Places /\ Started /\ Counts /\ Results /\ Booleans

(* The vehicle is on the ground, or told to land, or that call raised.     *)
Safe == vehicle = "disarmed" \/ order = "land" \/ lost = TRUE

(* Where the vehicle has not armed, and where it is told to land.          *)
LandsAtEnd ==
  /\ pc \in Setup \cup {"await_uwb", "await_health", "arm", "nofly"} =>
       vehicle = "disarmed" /\ order = "none"
  /\ pc \in {"ground", "disarm", "e_ground", "e_disarm", "finalise", "exit"} =>
       Safe
  /\ pc \in {"pumps", "mission_done"} /\ cancelled = FALSE /\ raised = FALSE =>
       Safe

(* The places each mode reaches.                                           *)
Grounded ==
  /\ mode = "dry" => pc \in {"load", "exit"}
  /\ mode = "nofly" =>
       pc \in Setup \cup Ends \cup {"await_uwb", "nofly", "pumps", "e_vel"}
  /\ pc = "nofly" => mode = "nofly"
  /\ mode # "fly" => vehicle = "disarmed" /\ order = "none"

(* The steps from the last waypoint to the end of the mission.             *)
Left ==
  [p \in {"last_vel", "stop_offboard", "land", "ground", "disarm", "pumps",
          "mission_done"} |->
     CASE p = "last_vel" -> 5 [] p = "stop_offboard" -> 4 [] p = "land" -> 3
       [] p \in {"ground", "disarm"} -> 2 [] p = "pumps" -> 1 [] OTHER -> 0]

(* A flight that ends as planned has flown all its waypoints: one that left*)
(* them for a stop is cancelled, which aborts it, before its steps are done.*)
Flown ==
  /\ cancelled = TRUE => aborted = TRUE
  /\ pc \in Crash => aborted = TRUE
  /\ who = "main" => pc \in Crash \cup {"finalise", "exit"}
  /\ stopEvent = TRUE => stop = TRUE \/ who = "main" \/ pc \in Ends
  /\ pc \in {"leg", "settle", "scan", "hover"} => wp <= Waypoints
  /\ mode = "fly" /\ aborted = FALSE /\ raised = FALSE /\ pc \in DOMAIN Left =>
       wp > Waypoints \/ (stop = TRUE /\ gap < Left[pc])
  /\ mode = "fly" /\ aborted = FALSE /\ pc = "finalise" => wp > Waypoints

(* The results come with the exit, the subsystems with the setup.          *)
Reported ==
  /\ pc # "exit" => code = None /\ summary = None
  /\ pc \in {"load", "uwb"} => open = {}

CtlInv ==
  /\ CtlTypes /\ LandsAtEnd /\ Grounded /\ Flown /\ Reported
  /\ EndsLanding /\ GroundedModes /\ ExitCodeTrue /\ NothingLeftOpen

-----------------------------------------------------------------------------
(* A setpoint that fails counts towards the threshold and no further.      *)
LEMMA VelocityCounts ==
  ASSUME velFail \in 0..VelFailAbort, SendVelocity
  PROVE  velFail' \in 0..VelFailAbort
BY ControllerAssumption DEF ControllerAssumption, SendVelocity

(* Types: what writes a variable, and that nothing else does.              *)
LEMMA PlacesNext ==
  CtlInv /\ Next => Places'
<1> SUFFICES ASSUME CtlInv, Next
             PROVE  Places'
  OBVIOUS
<1> USE ControllerAssumption, GapAssumption DEF CtlInv, CtlTypes, Booleans,
    Places, Ends, Setup, Mission, Finally, Crash, Counts, rest, setup, flags,
    leg, feeds, result, craft, flightPart, Goto, Exit
<1>1. CASE DryRun
  BY <1>1 DEF DryRun
<1>2. CASE LoadWaypoints
  BY <1>2 DEF LoadWaypoints, BadWaypoints
<1>3. CASE StartUwb
  BY <1>3 DEF StartUwb
<1>4. CASE StartRealsense
  BY <1>4 DEF StartRealsense, GiveUp
<1>5. CASE Connect
  BY <1>5 DEF Connect
<1>6. CASE ConnectFails
  BY <1>6 DEF ConnectFails, GiveUp
<1>7. CASE StopSeen
  BY <1>7 DEF StopSeen, Leave
<1>8. CASE MissionDone
  BY <1>8 DEF MissionDone
<1>9. CASE Finalise
  BY <1>9 DEF Finalise
<1>10. CASE InterruptSetup
  BY <1>10 DEF InterruptSetup
<1>11. CASE Signal
  BY <1>11 DEF Signal
<1>12. CASE HoverTick
  BY <1>12 DEF HoverTick, SendVelocity
<1>13. CASE AirSample
  BY <1>13 DEF AirSample
<1>14. CASE AirStreamRaises
  BY <1>14 DEF AirStreamRaises
<1>15. CASE TroubleComes
  BY <1>15 DEF TroubleComes
<1>16. CASE TroubleEnds
  BY <1>16 DEF TroubleEnds
<1>17. CASE Fly
  BY <1>17 DEF Fly
<1>18. CASE Exited
  BY <1>18 DEF Exited, vars
<1>19. CASE Paced(AwaitUwb)
  BY <1>19 DEF AwaitUwb, Paced, Unseen
<1>20. CASE Paced(Arm)
  BY <1>20 DEF Arm, Effect, Leave, Paced, Unseen
<1>21. CASE Paced(Takeoff)
  BY <1>21 DEF Takeoff, Effect, Leave, Paced, Unseen
<1>22. CASE Paced(Climb)
  BY <1>22 DEF Climb, Paced, Unseen
<1>23. CASE Paced(Prewarm)
  BY <1>23 DEF Prewarm, SendVelocity, Paced, Unseen
<1>24. CASE Paced(StartOffboard)
  BY <1>24 DEF StartOffboard, Effect, Leave, Paced, Unseen
<1>25. CASE Paced(NextWaypoint)
  BY <1>25 DEF NextWaypoint, AfterLoop, Paced, Unseen
<1>26. CASE Paced(LegPoll)
  BY <1>26 DEF LegPoll, LegDone, CheckSafety, SendVelocity, AfterLoop, Paced,
     Unseen
<1>27. CASE Paced(Settle)
  BY <1>27 DEF Settle, LegDone, AfterLoop, Paced, Unseen
<1>28. CASE Paced(ScanEnds)
  BY <1>28 DEF ScanEnds, Paced, Unseen
<1>29. CASE Paced(HoverEnds)
  BY <1>29 DEF HoverEnds, Paced, Unseen
<1>30. CASE Paced(NoflyScan)
  BY <1>30 DEF NoflyScan, Leave, Paced, Unseen
<1>31. CASE Paced(LastVelocity)
  BY <1>31 DEF LastVelocity, SendVelocity, Paced, Unseen
<1>32. CASE Paced(EmergencyLand)
  BY <1>32 DEF EmergencyLand, SendVelocity, Paced, Unseen
<1>33. CASE Paced(StopOffboard)
  BY <1>33 DEF StopOffboard, Effect, Paced, Unseen
<1>34. CASE Paced(OrderLanding)
  BY <1>34 DEF OrderLanding, Effect, Paced, Unseen
<1>35. CASE Paced(GroundSeen)
  BY <1>35 DEF GroundSeen, Paced, Unseen
<1>36. CASE Paced(GroundNotSeen)
  BY <1>36 DEF GroundNotSeen, Landed, Paced, Unseen
<1>37. CASE Paced(Disarm)
  BY <1>37 DEF Disarm, Landed, Effect, Paced, Unseen
<1>38. CASE Paced(StopPumps)
  BY <1>38 DEF StopPumps, Paced, Unseen
<1>39. CASE Paced(Health)
  BY <1>39 DEF Health, Leave, Paced, Unseen
<1> QED
  BY <1>1, <1>2, <1>3, <1>4, <1>5, <1>6, <1>7, <1>8, <1>9, <1>10, <1>11,
     <1>12, <1>13, <1>14, <1>15, <1>16, <1>17, <1>18, <1>19, <1>20, <1>21,
     <1>22, <1>23, <1>24, <1>25, <1>26, <1>27, <1>28, <1>29, <1>30, <1>31,
     <1>32, <1>33, <1>34, <1>35, <1>36, <1>37, <1>38, <1>39 DEF Next, Main,
     World, Step, Paced

LEMMA StartedNext ==
  CtlInv /\ Next => Started'
<1> SUFFICES ASSUME CtlInv, Next
             PROVE  Started'
  OBVIOUS
<1> USE ControllerAssumption, GapAssumption DEF CtlInv, CtlTypes, Started,
    rest, setup, flags, leg, feeds, result, craft, flightPart, Goto, Exit
<1>1. CASE DryRun
  BY <1>1 DEF DryRun
<1>2. CASE LoadWaypoints
  BY <1>2 DEF LoadWaypoints, BadWaypoints
<1>3. CASE StartUwb
  BY <1>3 DEF StartUwb
<1>4. CASE StartRealsense
  BY <1>4 DEF StartRealsense, GiveUp
<1>5. CASE Connect
  BY <1>5 DEF Connect
<1>6. CASE ConnectFails
  BY <1>6 DEF ConnectFails, GiveUp
<1>7. CASE StopSeen
  BY <1>7 DEF StopSeen, Mission, Crash, Finally, Leave
<1>8. CASE MissionDone
  BY <1>8 DEF MissionDone
<1>9. CASE Finalise
  BY <1>9 DEF Finalise
<1>10. CASE InterruptSetup
  BY <1>10 DEF InterruptSetup, Setup
<1>11. CASE Signal
  BY <1>11 DEF Signal, Mission, Crash, Finally
<1>12. CASE HoverTick
  BY <1>12 DEF HoverTick, SendVelocity
<1>13. CASE AirSample
  BY <1>13 DEF AirSample
<1>14. CASE AirStreamRaises
  BY <1>14 DEF AirStreamRaises
<1>15. CASE TroubleComes
  BY <1>15 DEF TroubleComes, Mission, Finally
<1>16. CASE TroubleEnds
  BY <1>16 DEF TroubleEnds
<1>17. CASE Fly
  BY <1>17 DEF Fly
<1>18. CASE Exited
  BY <1>18 DEF Exited, vars
<1>19. CASE Paced(AwaitUwb)
  BY <1>19 DEF AwaitUwb, Paced, Unseen
<1>20. CASE Paced(Arm)
  BY <1>20 DEF Arm, Effect, Leave, Paced, Unseen
<1>21. CASE Paced(Takeoff)
  BY <1>21 DEF Takeoff, Effect, Leave, Paced, Unseen
<1>22. CASE Paced(Climb)
  BY <1>22 DEF Climb, Paced, Unseen
<1>23. CASE Paced(Prewarm)
  BY <1>23 DEF Prewarm, SendVelocity, Paced, Unseen
<1>24. CASE Paced(StartOffboard)
  BY <1>24 DEF StartOffboard, Effect, Leave, Paced, Unseen
<1>25. CASE Paced(NextWaypoint)
  BY <1>25 DEF NextWaypoint, AfterLoop, Paced, Unseen
<1>26. CASE Paced(LegPoll)
  BY <1>26 DEF LegPoll, LegDone, CheckSafety, SendVelocity, AfterLoop, Paced,
     Unseen
<1>27. CASE Paced(Settle)
  BY <1>27 DEF Settle, LegDone, AfterLoop, Paced, Unseen
<1>28. CASE Paced(ScanEnds)
  BY <1>28 DEF ScanEnds, Paced, Unseen
<1>29. CASE Paced(HoverEnds)
  BY <1>29 DEF HoverEnds, Paced, Unseen
<1>30. CASE Paced(NoflyScan)
  BY <1>30 DEF NoflyScan, Leave, Paced, Unseen
<1>31. CASE Paced(LastVelocity)
  BY <1>31 DEF LastVelocity, SendVelocity, Paced, Unseen
<1>32. CASE Paced(EmergencyLand)
  BY <1>32 DEF EmergencyLand, SendVelocity, Paced, Unseen
<1>33. CASE Paced(StopOffboard)
  BY <1>33 DEF StopOffboard, Effect, Paced, Unseen
<1>34. CASE Paced(OrderLanding)
  BY <1>34 DEF OrderLanding, Effect, Paced, Unseen
<1>35. CASE Paced(GroundSeen)
  BY <1>35 DEF GroundSeen, Paced, Unseen
<1>36. CASE Paced(GroundNotSeen)
  BY <1>36 DEF GroundNotSeen, Landed, Paced, Unseen
<1>37. CASE Paced(Disarm)
  BY <1>37 DEF Disarm, Landed, Effect, Paced, Unseen
<1>38. CASE Paced(StopPumps)
  BY <1>38 DEF StopPumps, Paced, Unseen
<1>39. CASE Paced(Health)
  BY <1>39 DEF Health, Leave, Paced, Unseen
<1> QED
  BY <1>1, <1>2, <1>3, <1>4, <1>5, <1>6, <1>7, <1>8, <1>9, <1>10, <1>11,
     <1>12, <1>13, <1>14, <1>15, <1>16, <1>17, <1>18, <1>19, <1>20, <1>21,
     <1>22, <1>23, <1>24, <1>25, <1>26, <1>27, <1>28, <1>29, <1>30, <1>31,
     <1>32, <1>33, <1>34, <1>35, <1>36, <1>37, <1>38, <1>39 DEF Next, Main,
     World, Step, Paced

(* The counters stay in their range: a hover in flight has a waypoint left.*)
LEMMA CountsNext ==
  CtlInv /\ Next => Counts'
<1> SUFFICES ASSUME CtlInv, Next
             PROVE  Counts'
  OBVIOUS
<1> USE ControllerAssumption, GapAssumption DEF CtlInv, CtlTypes, Booleans,
    Counts, Flown, Left, Ends, Setup, Mission, Finally, Crash, rest, setup,
    flags, leg, feeds, result, craft, flightPart, Goto, Exit
<1>1. CASE DryRun
  BY <1>1 DEF DryRun
<1>2. CASE LoadWaypoints
  BY <1>2 DEF LoadWaypoints, BadWaypoints
<1>3. CASE StartUwb
  BY <1>3 DEF StartUwb
<1>4. CASE StartRealsense
  BY <1>4 DEF StartRealsense, GiveUp
<1>5. CASE Connect
  BY <1>5 DEF Connect
<1>6. CASE ConnectFails
  BY <1>6 DEF ConnectFails, GiveUp
<1>7. CASE StopSeen
  BY <1>7 DEF StopSeen, Leave
<1>8. CASE MissionDone
  BY <1>8 DEF MissionDone
<1>9. CASE Finalise
  BY <1>9 DEF Finalise
<1>10. CASE InterruptSetup
  BY <1>10 DEF InterruptSetup
<1>11. CASE Signal
  BY <1>11 DEF Signal
<1>12. CASE HoverTick
  BY <1>12 DEF HoverTick, SendVelocity
<1>13. CASE AirSample
  BY <1>13 DEF AirSample
<1>14. CASE AirStreamRaises
  BY <1>14 DEF AirStreamRaises
<1>15. CASE TroubleComes
  BY <1>15 DEF TroubleComes
<1>16. CASE TroubleEnds
  BY <1>16 DEF TroubleEnds
<1>17. CASE Fly
  BY <1>17 DEF Fly
<1>18. CASE Exited
  BY <1>18 DEF Exited, vars
<1>19. CASE Paced(AwaitUwb)
  BY <1>19 DEF AwaitUwb, Paced, Unseen
<1>20. CASE Paced(Arm)
  BY <1>20 DEF Arm, Effect, Leave, Paced, Unseen
<1>21. CASE Paced(Takeoff)
  BY <1>21 DEF Takeoff, Effect, Leave, Paced, Unseen
<1>22. CASE Paced(Climb)
  BY <1>22 DEF Climb, Paced, Unseen
<1>23. CASE Paced(Prewarm)
  BY <1>23 DEF Prewarm, SendVelocity, Paced, Unseen
<1>24. CASE Paced(StartOffboard)
  BY <1>24 DEF StartOffboard, Effect, Leave, Paced, Unseen
<1>25. CASE Paced(NextWaypoint)
  BY <1>25 DEF NextWaypoint, AfterLoop, Paced, Unseen
<1>26. CASE Paced(LegPoll)
  BY <1>26 DEF LegPoll, LegDone, CheckSafety, SendVelocity, AfterLoop, Paced,
     Unseen
<1>27. CASE Paced(Settle)
  BY <1>27 DEF Settle, LegDone, AfterLoop, Paced, Unseen
<1>28. CASE Paced(ScanEnds)
  BY <1>28 DEF ScanEnds, Paced, Unseen
<1>29. CASE Paced(HoverEnds)
  BY <1>29 DEF HoverEnds, Paced, Unseen
<1>30. CASE Paced(NoflyScan)
  BY <1>30 DEF NoflyScan, Leave, Paced, Unseen
<1>31. CASE Paced(LastVelocity)
  BY <1>31 DEF LastVelocity, SendVelocity, Paced, Unseen
<1>32. CASE Paced(EmergencyLand)
  <2>1. CASE mode = "nofly"
    BY <1>32, <2>1 DEF EmergencyLand, Paced, Unseen
  <2>2. CASE mode # "nofly"
    <3>1. velFail' \in 0..VelFailAbort
      BY <1>32, <2>2, VelocityCounts DEF EmergencyLand, Paced
    <3>2. gap' \in 0..Gap /\ UNCHANGED leg
      BY <1>32, <2>2 DEF EmergencyLand, Paced, Unseen
    <3> QED
      BY <3>1, <3>2
  <2> QED
    BY <2>1, <2>2
<1>33. CASE Paced(StopOffboard)
  BY <1>33 DEF StopOffboard, Effect, Paced, Unseen
<1>34. CASE Paced(OrderLanding)
  BY <1>34 DEF OrderLanding, Effect, Paced, Unseen
<1>35. CASE Paced(GroundSeen)
  BY <1>35 DEF GroundSeen, Paced, Unseen
<1>36. CASE Paced(GroundNotSeen)
  BY <1>36 DEF GroundNotSeen, Landed, Paced, Unseen
<1>37. CASE Paced(Disarm)
  BY <1>37 DEF Disarm, Landed, Effect, Paced, Unseen
<1>38. CASE Paced(StopPumps)
  BY <1>38 DEF StopPumps, Paced, Unseen
<1>39. CASE Paced(Health)
  BY <1>39 DEF Health, Leave, Paced, Unseen
<1> QED
  BY <1>1, <1>2, <1>3, <1>4, <1>5, <1>6, <1>7, <1>8, <1>9, <1>10, <1>11,
     <1>12, <1>13, <1>14, <1>15, <1>16, <1>17, <1>18, <1>19, <1>20, <1>21,
     <1>22, <1>23, <1>24, <1>25, <1>26, <1>27, <1>28, <1>29, <1>30, <1>31,
     <1>32, <1>33, <1>34, <1>35, <1>36, <1>37, <1>38, <1>39 DEF Next, Main,
     World, Step, Paced

LEMMA ResultsNext ==
  CtlInv /\ Next => Results'
<1> SUFFICES ASSUME CtlInv, Next
             PROVE  Results'
  OBVIOUS
<1> USE ControllerAssumption, GapAssumption DEF CtlInv, CtlTypes, Booleans,
    Results, rest, setup, flags, leg, feeds, result, craft, flightPart, Goto,
    Exit
<1>1. CASE DryRun
  BY <1>1 DEF DryRun
<1>2. CASE LoadWaypoints
  BY <1>2 DEF LoadWaypoints, BadWaypoints
<1>3. CASE StartUwb
  BY <1>3 DEF StartUwb
<1>4. CASE StartRealsense
  BY <1>4 DEF StartRealsense, GiveUp
<1>5. CASE Connect
  BY <1>5 DEF Connect
<1>6. CASE ConnectFails
  BY <1>6 DEF ConnectFails, GiveUp
<1>7. CASE StopSeen
  BY <1>7 DEF StopSeen, Mission, Crash, Finally, Leave
<1>8. CASE MissionDone
  BY <1>8 DEF MissionDone
<1>9. CASE Finalise
  BY <1>9 DEF Finalise
<1>10. CASE InterruptSetup
  BY <1>10 DEF InterruptSetup, Setup
<1>11. CASE Signal
  BY <1>11 DEF Signal, Mission, Crash, Finally
<1>12. CASE HoverTick
  BY <1>12 DEF HoverTick, SendVelocity
<1>13. CASE AirSample
  BY <1>13 DEF AirSample
<1>14. CASE AirStreamRaises
  BY <1>14 DEF AirStreamRaises
<1>15. CASE TroubleComes
  BY <1>15 DEF TroubleComes, Mission, Finally
<1>16. CASE TroubleEnds
  BY <1>16 DEF TroubleEnds
<1>17. CASE Fly
  BY <1>17 DEF Fly
<1>18. CASE Exited
  BY <1>18 DEF Exited, vars
<1>19. CASE Paced(AwaitUwb)
  BY <1>19 DEF AwaitUwb, Paced, Unseen
<1>20. CASE Paced(Arm)
  BY <1>20 DEF Arm, Effect, Leave, Paced, Unseen
<1>21. CASE Paced(Takeoff)
  BY <1>21 DEF Takeoff, Effect, Leave, Paced, Unseen
<1>22. CASE Paced(Climb)
  BY <1>22 DEF Climb, Paced, Unseen
<1>23. CASE Paced(Prewarm)
  BY <1>23 DEF Prewarm, SendVelocity, Paced, Unseen
<1>24. CASE Paced(StartOffboard)
  BY <1>24 DEF StartOffboard, Effect, Leave, Paced, Unseen
<1>25. CASE Paced(NextWaypoint)
  BY <1>25 DEF NextWaypoint, AfterLoop, Paced, Unseen
<1>26. CASE Paced(LegPoll)
  BY <1>26 DEF LegPoll, LegDone, CheckSafety, SendVelocity, AfterLoop, Paced,
     Unseen
<1>27. CASE Paced(Settle)
  BY <1>27 DEF Settle, LegDone, AfterLoop, Paced, Unseen
<1>28. CASE Paced(ScanEnds)
  BY <1>28 DEF ScanEnds, Paced, Unseen
<1>29. CASE Paced(HoverEnds)
  BY <1>29 DEF HoverEnds, Paced, Unseen
<1>30. CASE Paced(NoflyScan)
  BY <1>30 DEF NoflyScan, Leave, Paced, Unseen
<1>31. CASE Paced(LastVelocity)
  BY <1>31 DEF LastVelocity, SendVelocity, Paced, Unseen
<1>32. CASE Paced(EmergencyLand)
  BY <1>32 DEF EmergencyLand, SendVelocity, Paced, Unseen
<1>33. CASE Paced(StopOffboard)
  BY <1>33 DEF StopOffboard, Effect, Paced, Unseen
<1>34. CASE Paced(OrderLanding)
  BY <1>34 DEF OrderLanding, Effect, Paced, Unseen
<1>35. CASE Paced(GroundSeen)
  BY <1>35 DEF GroundSeen, Paced, Unseen
<1>36. CASE Paced(GroundNotSeen)
  BY <1>36 DEF GroundNotSeen, Landed, Paced, Unseen
<1>37. CASE Paced(Disarm)
  BY <1>37 DEF Disarm, Landed, Effect, Paced, Unseen
<1>38. CASE Paced(StopPumps)
  BY <1>38 DEF StopPumps, Paced, Unseen
<1>39. CASE Paced(Health)
  BY <1>39 DEF Health, Leave, Paced, Unseen
<1> QED
  BY <1>1, <1>2, <1>3, <1>4, <1>5, <1>6, <1>7, <1>8, <1>9, <1>10, <1>11,
     <1>12, <1>13, <1>14, <1>15, <1>16, <1>17, <1>18, <1>19, <1>20, <1>21,
     <1>22, <1>23, <1>24, <1>25, <1>26, <1>27, <1>28, <1>29, <1>30, <1>31,
     <1>32, <1>33, <1>34, <1>35, <1>36, <1>37, <1>38, <1>39 DEF Next, Main,
     World, Step, Paced

LEMMA BooleansNext ==
  CtlInv /\ Next => Booleans'
<1> SUFFICES ASSUME CtlInv, Next
             PROVE  Booleans'
  OBVIOUS
<1> USE ControllerAssumption, GapAssumption DEF CtlInv, CtlTypes, Booleans,
    Counts, rest, setup, flags, leg, feeds, result, craft, flightPart, Goto,
    Exit
<1>1. CASE DryRun
  BY <1>1 DEF DryRun
<1>2. CASE LoadWaypoints
  BY <1>2 DEF LoadWaypoints, BadWaypoints
<1>3. CASE StartUwb
  BY <1>3 DEF StartUwb
<1>4. CASE StartRealsense
  BY <1>4 DEF StartRealsense, GiveUp
<1>5. CASE Connect
  BY <1>5 DEF Connect
<1>6. CASE ConnectFails
  BY <1>6 DEF ConnectFails, GiveUp
<1>7. CASE StopSeen
  BY <1>7 DEF StopSeen, Mission, Crash, Finally, Leave
<1>8. CASE MissionDone
  BY <1>8 DEF MissionDone
<1>9. CASE Finalise
  BY <1>9 DEF Finalise
<1>10. CASE InterruptSetup
  BY <1>10 DEF InterruptSetup, Setup
<1>11. CASE Signal
  BY <1>11 DEF Signal, Mission, Crash, Finally
<1>12. CASE HoverTick
  BY <1>12 DEF HoverTick, SendVelocity
<1>13. CASE AirSample
  BY <1>13 DEF AirSample
<1>14. CASE AirStreamRaises
  BY <1>14 DEF AirStreamRaises
<1>15. CASE TroubleComes
  BY <1>15 DEF TroubleComes, Mission, Finally
<1>16. CASE TroubleEnds
  BY <1>16 DEF TroubleEnds
<1>17. CASE Fly
  BY <1>17 DEF Fly
<1>18. CASE Exited
  BY <1>18 DEF Exited, vars
<1>19. CASE Paced(AwaitUwb)
  BY <1>19 DEF AwaitUwb, Paced, Unseen
<1>20. CASE Paced(Arm)
  BY <1>20 DEF Arm, Effect, Leave, Paced, Unseen
<1>21. CASE Paced(Takeoff)
  BY <1>21 DEF Takeoff, Effect, Leave, Paced, Unseen
<1>22. CASE Paced(Climb)
  BY <1>22 DEF Climb, Paced, Unseen
<1>23. CASE Paced(Prewarm)
  BY <1>23 DEF Prewarm, SendVelocity, Paced, Unseen
<1>24. CASE Paced(StartOffboard)
  BY <1>24 DEF StartOffboard, Effect, Leave, Paced, Unseen
<1>25. CASE Paced(NextWaypoint)
  BY <1>25 DEF NextWaypoint, AfterLoop, Paced, Unseen
<1>26. CASE Paced(LegPoll)
  BY <1>26 DEF LegPoll, LegDone, CheckSafety, SendVelocity, AfterLoop, Paced,
     Unseen
<1>27. CASE Paced(Settle)
  BY <1>27 DEF Settle, LegDone, AfterLoop, Paced, Unseen
<1>28. CASE Paced(ScanEnds)
  BY <1>28 DEF ScanEnds, Paced, Unseen
<1>29. CASE Paced(HoverEnds)
  BY <1>29 DEF HoverEnds, Paced, Unseen
<1>30. CASE Paced(NoflyScan)
  BY <1>30 DEF NoflyScan, Leave, Paced, Unseen
<1>31. CASE Paced(LastVelocity)
  BY <1>31 DEF LastVelocity, SendVelocity, Paced, Unseen
<1>32. CASE Paced(EmergencyLand)
  BY <1>32 DEF EmergencyLand, SendVelocity, Paced, Unseen
<1>33. CASE Paced(StopOffboard)
  BY <1>33 DEF StopOffboard, Effect, Paced, Unseen
<1>34. CASE Paced(OrderLanding)
  BY <1>34 DEF OrderLanding, Effect, Paced, Unseen
<1>35. CASE Paced(GroundSeen)
  BY <1>35 DEF GroundSeen, Paced, Unseen
<1>36. CASE Paced(GroundNotSeen)
  BY <1>36 DEF GroundNotSeen, Landed, Paced, Unseen
<1>37. CASE Paced(Disarm)
  BY <1>37 DEF Disarm, Landed, Effect, Paced, Unseen
<1>38. CASE Paced(StopPumps)
  BY <1>38 DEF StopPumps, Paced, Unseen
<1>39. CASE Paced(Health)
  BY <1>39 DEF Health, Leave, Paced, Unseen
<1> QED
  BY <1>1, <1>2, <1>3, <1>4, <1>5, <1>6, <1>7, <1>8, <1>9, <1>10, <1>11,
     <1>12, <1>13, <1>14, <1>15, <1>16, <1>17, <1>18, <1>19, <1>20, <1>21,
     <1>22, <1>23, <1>24, <1>25, <1>26, <1>27, <1>28, <1>29, <1>30, <1>31,
     <1>32, <1>33, <1>34, <1>35, <1>36, <1>37, <1>38, <1>39 DEF Next, Main,
     World, Step, Paced

(* A landing is ordered on every way to the end, cancelled or not.         *)
LEMMA LandsNext ==
  CtlInv /\ Next => LandsAtEnd' /\ EndsLanding'
<1> SUFFICES ASSUME CtlInv, Next
             PROVE  LandsAtEnd' /\ EndsLanding'
  OBVIOUS
<1> USE ControllerAssumption, GapAssumption DEF CtlInv, CtlTypes, Booleans,
    Places, LandsAtEnd, EndsLanding, Safe, Grounded, Setup, Mission, Finally,
    Crash, Ends, rest, setup, flags, leg, feeds, result, craft, flightPart,
    Goto, Exit
<1>1. CASE DryRun
  BY <1>1 DEF DryRun
<1>2. CASE LoadWaypoints
  BY <1>2 DEF LoadWaypoints, BadWaypoints
<1>3. CASE StartUwb
  BY <1>3 DEF StartUwb
<1>4. CASE StartRealsense
  BY <1>4 DEF StartRealsense, GiveUp
<1>5. CASE Connect
  BY <1>5 DEF Connect
<1>6. CASE ConnectFails
  BY <1>6 DEF ConnectFails, GiveUp
<1>7. CASE StopSeen
  BY <1>7 DEF StopSeen, Leave
<1>8. CASE MissionDone
  BY <1>8 DEF MissionDone
<1>9. CASE Finalise
  BY <1>9 DEF Finalise
<1>10. CASE InterruptSetup
  BY <1>10 DEF InterruptSetup
<1>11. CASE Signal
  BY <1>11 DEF Signal
<1>12. CASE HoverTick
  BY <1>12 DEF HoverTick, SendVelocity
<1>13. CASE AirSample
  BY <1>13 DEF AirSample
<1>14. CASE AirStreamRaises
  BY <1>14 DEF AirStreamRaises
<1>15. CASE TroubleComes
  BY <1>15 DEF TroubleComes
<1>16. CASE TroubleEnds
  BY <1>16 DEF TroubleEnds
<1>17. CASE Fly
  BY <1>17 DEF Fly
<1>18. CASE Exited
  BY <1>18 DEF Exited, vars
<1>19. CASE Paced(AwaitUwb)
  BY <1>19 DEF AwaitUwb, Paced, Unseen
<1>20. CASE Paced(Arm)
  BY <1>20 DEF Arm, Effect, Leave, Paced, Unseen
<1>21. CASE Paced(Takeoff)
  BY <1>21 DEF Takeoff, Effect, Leave, Paced, Unseen
<1>22. CASE Paced(Climb)
  BY <1>22 DEF Climb, Paced, Unseen
<1>23. CASE Paced(Prewarm)
  BY <1>23 DEF Prewarm, SendVelocity, Paced, Unseen
<1>24. CASE Paced(StartOffboard)
  BY <1>24 DEF StartOffboard, Effect, Leave, Paced, Unseen
<1>25. CASE Paced(NextWaypoint)
  BY <1>25 DEF NextWaypoint, AfterLoop, Paced, Unseen
<1>26. CASE Paced(LegPoll)
  BY <1>26 DEF LegPoll, LegDone, CheckSafety, SendVelocity, AfterLoop, Paced,
     Unseen
<1>27. CASE Paced(Settle)
  BY <1>27 DEF Settle, LegDone, AfterLoop, Paced, Unseen
<1>28. CASE Paced(ScanEnds)
  BY <1>28 DEF ScanEnds, Paced, Unseen
<1>29. CASE Paced(HoverEnds)
  BY <1>29 DEF HoverEnds, Paced, Unseen
<1>30. CASE Paced(NoflyScan)
  BY <1>30 DEF NoflyScan, Leave, Paced, Unseen
<1>31. CASE Paced(LastVelocity)
  BY <1>31 DEF LastVelocity, SendVelocity, Paced, Unseen
<1>32. CASE Paced(EmergencyLand)
  BY <1>32 DEF EmergencyLand, SendVelocity, Paced, Unseen
<1>33. CASE Paced(StopOffboard)
  BY <1>33 DEF StopOffboard, Effect, Paced, Unseen
<1>34. CASE Paced(OrderLanding)
  BY <1>34 DEF OrderLanding, Effect, Paced, Unseen
<1>35. CASE Paced(GroundSeen)
  BY <1>35 DEF GroundSeen, Paced, Unseen
<1>36. CASE Paced(GroundNotSeen)
  BY <1>36 DEF GroundNotSeen, Landed, Paced, Unseen
<1>37. CASE Paced(Disarm)
  BY <1>37 DEF Disarm, Landed, Effect, Paced, Unseen
<1>38. CASE Paced(StopPumps)
  BY <1>38 DEF StopPumps, Paced, Unseen
<1>39. CASE Paced(Health)
  BY <1>39 DEF Health, Leave, Paced, Unseen
<1> QED
  BY <1>1, <1>2, <1>3, <1>4, <1>5, <1>6, <1>7, <1>8, <1>9, <1>10, <1>11,
     <1>12, <1>13, <1>14, <1>15, <1>16, <1>17, <1>18, <1>19, <1>20, <1>21,
     <1>22, <1>23, <1>24, <1>25, <1>26, <1>27, <1>28, <1>29, <1>30, <1>31,
     <1>32, <1>33, <1>34, <1>35, <1>36, <1>37, <1>38, <1>39 DEF Next, Main,
     World, Step, Paced

(* The modes on the ground keep out of the flight's places.                *)
LEMMA GroundedNext ==
  CtlInv /\ Next => Grounded' /\ GroundedModes'
<1> SUFFICES ASSUME CtlInv, Next
             PROVE  Grounded' /\ GroundedModes'
  OBVIOUS
<1> USE ControllerAssumption, GapAssumption DEF CtlInv, CtlTypes, Booleans,
    Places, Grounded, GroundedModes, LandsAtEnd, Setup, Mission, Finally,
    Crash, Ends, rest, setup, flags, leg, feeds, result, craft, flightPart,
    Goto, Exit
<1>1. CASE DryRun
  BY <1>1 DEF DryRun
<1>2. CASE LoadWaypoints
  BY <1>2 DEF LoadWaypoints, BadWaypoints
<1>3. CASE StartUwb
  BY <1>3 DEF StartUwb
<1>4. CASE StartRealsense
  BY <1>4 DEF StartRealsense, GiveUp
<1>5. CASE Connect
  BY <1>5 DEF Connect
<1>6. CASE ConnectFails
  BY <1>6 DEF ConnectFails, GiveUp
<1>7. CASE StopSeen
  BY <1>7 DEF StopSeen, Leave
<1>8. CASE MissionDone
  BY <1>8 DEF MissionDone
<1>9. CASE Finalise
  BY <1>9 DEF Finalise
<1>10. CASE InterruptSetup
  BY <1>10 DEF InterruptSetup
<1>11. CASE Signal
  BY <1>11 DEF Signal
<1>12. CASE HoverTick
  BY <1>12 DEF HoverTick, SendVelocity
<1>13. CASE AirSample
  BY <1>13 DEF AirSample
<1>14. CASE AirStreamRaises
  BY <1>14 DEF AirStreamRaises
<1>15. CASE TroubleComes
  BY <1>15 DEF TroubleComes
<1>16. CASE TroubleEnds
  BY <1>16 DEF TroubleEnds
<1>17. CASE Fly
  BY <1>17 DEF Fly
<1>18. CASE Exited
  BY <1>18 DEF Exited, vars
<1>19. CASE Paced(AwaitUwb)
  BY <1>19 DEF AwaitUwb, Paced, Unseen
<1>20. CASE Paced(Arm)
  BY <1>20 DEF Arm, Effect, Leave, Paced, Unseen
<1>21. CASE Paced(Takeoff)
  BY <1>21 DEF Takeoff, Effect, Leave, Paced, Unseen
<1>22. CASE Paced(Climb)
  BY <1>22 DEF Climb, Paced, Unseen
<1>23. CASE Paced(Prewarm)
  BY <1>23 DEF Prewarm, SendVelocity, Paced, Unseen
<1>24. CASE Paced(StartOffboard)
  BY <1>24 DEF StartOffboard, Effect, Leave, Paced, Unseen
<1>25. CASE Paced(NextWaypoint)
  BY <1>25 DEF NextWaypoint, AfterLoop, Paced, Unseen
<1>26. CASE Paced(LegPoll)
  BY <1>26 DEF LegPoll, LegDone, CheckSafety, SendVelocity, AfterLoop, Paced,
     Unseen
<1>27. CASE Paced(Settle)
  BY <1>27 DEF Settle, LegDone, AfterLoop, Paced, Unseen
<1>28. CASE Paced(ScanEnds)
  BY <1>28 DEF ScanEnds, Paced, Unseen
<1>29. CASE Paced(HoverEnds)
  BY <1>29 DEF HoverEnds, Paced, Unseen
<1>30. CASE Paced(NoflyScan)
  BY <1>30 DEF NoflyScan, Leave, Paced, Unseen
<1>31. CASE Paced(LastVelocity)
  BY <1>31 DEF LastVelocity, SendVelocity, Paced, Unseen
<1>32. CASE Paced(EmergencyLand)
  BY <1>32 DEF EmergencyLand, SendVelocity, Paced, Unseen
<1>33. CASE Paced(StopOffboard)
  BY <1>33 DEF StopOffboard, Effect, Paced, Unseen
<1>34. CASE Paced(OrderLanding)
  BY <1>34 DEF OrderLanding, Effect, Paced, Unseen
<1>35. CASE Paced(GroundSeen)
  BY <1>35 DEF GroundSeen, Paced, Unseen
<1>36. CASE Paced(GroundNotSeen)
  BY <1>36 DEF GroundNotSeen, Landed, Paced, Unseen
<1>37. CASE Paced(Disarm)
  BY <1>37 DEF Disarm, Landed, Effect, Paced, Unseen
<1>38. CASE Paced(StopPumps)
  BY <1>38 DEF StopPumps, Paced, Unseen
<1>39. CASE Paced(Health)
  BY <1>39 DEF Health, Leave, Paced, Unseen
<1> QED
  BY <1>1, <1>2, <1>3, <1>4, <1>5, <1>6, <1>7, <1>8, <1>9, <1>10, <1>11,
     <1>12, <1>13, <1>14, <1>15, <1>16, <1>17, <1>18, <1>19, <1>20, <1>21,
     <1>22, <1>23, <1>24, <1>25, <1>26, <1>27, <1>28, <1>29, <1>30, <1>31,
     <1>32, <1>33, <1>34, <1>35, <1>36, <1>37, <1>38, <1>39 DEF Next, Main,
     World, Step, Paced

(* A stop that is not seen yet costs a step each, and there are too few.   *)
LEMMA FlownNext ==
  CtlInv /\ Next => Flown'
<1> SUFFICES ASSUME CtlInv, Next
             PROVE  Flown'
  OBVIOUS
<1> USE ControllerAssumption, GapAssumption DEF CtlInv, CtlTypes, Booleans,
    Places, Counts, Flown, Left, Grounded, Setup, Mission, Finally, Crash,
    Ends, rest, setup, flags, leg, feeds, result, craft, flightPart, Goto,
    Exit
<1>1. CASE DryRun
  BY <1>1 DEF DryRun
<1>2. CASE LoadWaypoints
  BY <1>2 DEF LoadWaypoints, BadWaypoints
<1>3. CASE StartUwb
  BY <1>3 DEF StartUwb
<1>4. CASE StartRealsense
  BY <1>4 DEF StartRealsense, GiveUp
<1>5. CASE Connect
  BY <1>5 DEF Connect
<1>6. CASE ConnectFails
  BY <1>6 DEF ConnectFails, GiveUp
<1>7. CASE StopSeen
  BY <1>7 DEF StopSeen, Leave
<1>8. CASE MissionDone
  BY <1>8 DEF MissionDone
<1>9. CASE Finalise
  BY <1>9 DEF Finalise
<1>10. CASE InterruptSetup
  BY <1>10 DEF InterruptSetup
<1>11. CASE Signal
  BY <1>11 DEF Signal
<1>12. CASE HoverTick
  BY <1>12 DEF HoverTick, SendVelocity
<1>13. CASE AirSample
  BY <1>13 DEF AirSample
<1>14. CASE AirStreamRaises
  BY <1>14 DEF AirStreamRaises
<1>15. CASE TroubleComes
  BY <1>15 DEF TroubleComes
<1>16. CASE TroubleEnds
  BY <1>16 DEF TroubleEnds
<1>17. CASE Fly
  BY <1>17 DEF Fly
<1>18. CASE Exited
  BY <1>18 DEF Exited, vars
<1>19. CASE Paced(AwaitUwb)
  BY <1>19 DEF AwaitUwb, Paced, Unseen
<1>20. CASE Paced(Arm)
  BY <1>20 DEF Arm, Effect, Leave, Paced, Unseen
<1>21. CASE Paced(Takeoff)
  BY <1>21 DEF Takeoff, Effect, Leave, Paced, Unseen
<1>22. CASE Paced(Climb)
  BY <1>22 DEF Climb, Paced, Unseen
<1>23. CASE Paced(Prewarm)
  BY <1>23 DEF Prewarm, SendVelocity, Paced, Unseen
<1>24. CASE Paced(StartOffboard)
  BY <1>24 DEF StartOffboard, Effect, Leave, Paced, Unseen
<1>25. CASE Paced(NextWaypoint)
  BY <1>25 DEF NextWaypoint, AfterLoop, Paced, Unseen
<1>26. CASE Paced(LegPoll)
  BY <1>26 DEF LegPoll, LegDone, CheckSafety, SendVelocity, AfterLoop, Paced,
     Unseen
<1>27. CASE Paced(Settle)
  BY <1>27 DEF Settle, LegDone, AfterLoop, Paced, Unseen
<1>28. CASE Paced(ScanEnds)
  BY <1>28 DEF ScanEnds, Paced, Unseen
<1>29. CASE Paced(HoverEnds)
  BY <1>29 DEF HoverEnds, Paced, Unseen
<1>30. CASE Paced(NoflyScan)
  BY <1>30 DEF NoflyScan, Leave, Paced, Unseen
<1>31. CASE Paced(LastVelocity)
  BY <1>31 DEF LastVelocity, SendVelocity, Paced, Unseen
<1>32. CASE Paced(EmergencyLand)
  BY <1>32 DEF EmergencyLand, SendVelocity, Paced, Unseen
<1>33. CASE Paced(StopOffboard)
  BY <1>33 DEF StopOffboard, Effect, Paced, Unseen
<1>34. CASE Paced(OrderLanding)
  BY <1>34 DEF OrderLanding, Effect, Paced, Unseen
<1>35. CASE Paced(GroundSeen)
  BY <1>35 DEF GroundSeen, Paced, Unseen
<1>36. CASE Paced(GroundNotSeen)
  <2>1. CASE pc = "ground"
    BY <1>36, <2>1 DEF GroundNotSeen, Landed, Paced, Unseen
  <2>2. CASE pc = "e_ground"
    BY <1>36, <2>2 DEF GroundNotSeen, Landed, Paced, Unseen
  <2> QED
    BY <1>36, <2>1, <2>2 DEF GroundNotSeen, Paced
<1>37. CASE Paced(Disarm)
  <2>1. CASE pc = "disarm"
    BY <1>37, <2>1 DEF Disarm, Landed, Paced, Unseen
  <2>2. CASE pc = "e_disarm"
    BY <1>37, <2>2 DEF Disarm, Landed, Paced, Unseen
  <2> QED
    BY <1>37, <2>1, <2>2 DEF Disarm, Paced
<1>38. CASE Paced(StopPumps)
  BY <1>38 DEF StopPumps, Paced, Unseen
<1>39. CASE Paced(Health)
  BY <1>39 DEF Health, Leave, Paced, Unseen
<1> QED
  BY <1>1, <1>2, <1>3, <1>4, <1>5, <1>6, <1>7, <1>8, <1>9, <1>10, <1>11,
     <1>12, <1>13, <1>14, <1>15, <1>16, <1>17, <1>18, <1>19, <1>20, <1>21,
     <1>22, <1>23, <1>24, <1>25, <1>26, <1>27, <1>28, <1>29, <1>30, <1>31,
     <1>32, <1>33, <1>34, <1>35, <1>36, <1>37, <1>38, <1>39 DEF Next, Main,
     World, Step, Paced

(* What run() returns and writes agrees with what the flight did.          *)
LEMMA ReportedNext ==
  CtlInv /\ Next => Reported' /\ ExitCodeTrue' /\ NothingLeftOpen'
<1> SUFFICES ASSUME CtlInv, Next
             PROVE  Reported' /\ ExitCodeTrue' /\ NothingLeftOpen'
  OBVIOUS
<1> USE ControllerAssumption, GapAssumption DEF CtlInv, CtlTypes, Booleans,
    Places, Counts, Results, Reported, ExitCodeTrue, NothingLeftOpen, Flown,
    Grounded, Setup, Mission, Finally, Crash, Ends, rest, setup, flags, leg,
    feeds, result, craft, flightPart, Goto, Exit
<1>1. CASE DryRun
  BY <1>1 DEF DryRun
<1>2. CASE LoadWaypoints
  <2>1. /\ open' = open /\ UNCHANGED <<wp, cancelled, mode>>
        /\ open = {} /\ code = None /\ summary = None
        /\ \/ pc' = "uwb" /\ code' = code /\ summary' = summary
           \/ pc' = "exit" /\ code' = 2
           \/ pc' = "exit" /\ code' = 1 /\ summary' = summary
    BY <1>2, Zenon DEF LoadWaypoints, BadWaypoints
  <2>2. Reported'
    BY <2>1
  <2>3. ExitCodeTrue'
    <3>1. pc' = "exit" /\ code' \in {0, 1} => code' # 0 /\ summary' = None
      BY <2>1
    <3> QED
      BY <3>1, Zenon
  <2>4. NothingLeftOpen'
    BY <2>1, Zenon
  <2> QED
    BY <2>2, <2>3, <2>4
<1>3. CASE StartUwb
  BY <1>3 DEF StartUwb
<1>4. CASE StartRealsense
  BY <1>4 DEF StartRealsense, GiveUp
<1>5. CASE Connect
  BY <1>5 DEF Connect
<1>6. CASE ConnectFails
  BY <1>6 DEF ConnectFails, GiveUp
<1>7. CASE StopSeen
  BY <1>7 DEF StopSeen, Leave
<1>8. CASE MissionDone
  BY <1>8 DEF MissionDone
<1>9. CASE Finalise
  BY <1>9 DEF Finalise
<1>10. CASE InterruptSetup
  BY <1>10 DEF InterruptSetup
<1>11. CASE Signal
  BY <1>11 DEF Signal
<1>12. CASE HoverTick
  BY <1>12 DEF HoverTick, SendVelocity
<1>13. CASE AirSample
  BY <1>13 DEF AirSample
<1>14. CASE AirStreamRaises
  BY <1>14 DEF AirStreamRaises
<1>15. CASE TroubleComes
  BY <1>15 DEF TroubleComes
<1>16. CASE TroubleEnds
  BY <1>16 DEF TroubleEnds
<1>17. CASE Fly
  BY <1>17 DEF Fly
<1>18. CASE Exited
  BY <1>18 DEF Exited, vars
<1>19. CASE Paced(AwaitUwb)
  BY <1>19 DEF AwaitUwb, Paced, Unseen
<1>20. CASE Paced(Arm)
  BY <1>20 DEF Arm, Effect, Leave, Paced, Unseen
<1>21. CASE Paced(Takeoff)
  BY <1>21 DEF Takeoff, Effect, Leave, Paced, Unseen
<1>22. CASE Paced(Climb)
  BY <1>22 DEF Climb, Paced, Unseen
<1>23. CASE Paced(Prewarm)
  BY <1>23 DEF Prewarm, SendVelocity, Paced, Unseen
<1>24. CASE Paced(StartOffboard)
  BY <1>24 DEF StartOffboard, Effect, Leave, Paced, Unseen
<1>25. CASE Paced(NextWaypoint)
  BY <1>25 DEF NextWaypoint, AfterLoop, Paced, Unseen
<1>26. CASE Paced(LegPoll)
  BY <1>26 DEF LegPoll, LegDone, CheckSafety, SendVelocity, AfterLoop, Paced,
     Unseen
<1>27. CASE Paced(Settle)
  BY <1>27 DEF Settle, LegDone, AfterLoop, Paced, Unseen
<1>28. CASE Paced(ScanEnds)
  BY <1>28 DEF ScanEnds, Paced, Unseen
<1>29. CASE Paced(HoverEnds)
  BY <1>29 DEF HoverEnds, Paced, Unseen
<1>30. CASE Paced(NoflyScan)
  BY <1>30 DEF NoflyScan, Leave, Paced, Unseen
<1>31. CASE Paced(LastVelocity)
  BY <1>31 DEF LastVelocity, SendVelocity, Paced, Unseen
<1>32. CASE Paced(EmergencyLand)
  BY <1>32 DEF EmergencyLand, SendVelocity, Paced, Unseen
<1>33. CASE Paced(StopOffboard)
  BY <1>33 DEF StopOffboard, Effect, Paced, Unseen
<1>34. CASE Paced(OrderLanding)
  BY <1>34 DEF OrderLanding, Effect, Paced, Unseen
<1>35. CASE Paced(GroundSeen)
  BY <1>35 DEF GroundSeen, Paced, Unseen
<1>36. CASE Paced(GroundNotSeen)
  BY <1>36 DEF GroundNotSeen, Landed, Paced, Unseen
<1>37. CASE Paced(Disarm)
  BY <1>37 DEF Disarm, Landed, Effect, Paced, Unseen
<1>38. CASE Paced(StopPumps)
  BY <1>38 DEF StopPumps, Paced, Unseen
<1>39. CASE Paced(Health)
  BY <1>39 DEF Health, Leave, Paced, Unseen
<1> QED
  BY <1>1, <1>2, <1>3, <1>4, <1>5, <1>6, <1>7, <1>8, <1>9, <1>10, <1>11,
     <1>12, <1>13, <1>14, <1>15, <1>16, <1>17, <1>18, <1>19, <1>20, <1>21,
     <1>22, <1>23, <1>24, <1>25, <1>26, <1>27, <1>28, <1>29, <1>30, <1>31,
     <1>32, <1>33, <1>34, <1>35, <1>36, <1>37, <1>38, <1>39 DEF Next, Main,
     World, Step, Paced

-----------------------------------------------------------------------------
LEMMA CtlInit == Init => CtlInv
<1> SUFFICES ASSUME Init PROVE CtlInv
  OBVIOUS
<1> USE ControllerAssumption DEF Init
<1>1. Places /\ Started /\ Counts
  BY DEF ControllerAssumption, Places, Started, Counts, Setup
<1>2. Results /\ Booleans
  BY Zenon DEF Results, Booleans
<1>3. LandsAtEnd /\ Grounded /\ EndsLanding /\ GroundedModes
  BY DEF LandsAtEnd, Grounded, EndsLanding, GroundedModes, Setup
<1>4. Flown
  BY DEF Flown, Left, Crash, Ends
<1>5. Reported /\ ExitCodeTrue /\ NothingLeftOpen
  BY DEF Reported, ExitCodeTrue, NothingLeftOpen
<1> QED
  BY <1>1, <1>2, <1>3, <1>4, <1>5 DEF CtlInv, CtlTypes

LEMMA CtlNext == CtlInv /\ [Next]_vars => CtlInv'
<1> SUFFICES ASSUME CtlInv, [Next]_vars PROVE CtlInv'
  OBVIOUS
<1>1. CASE Next
  <2>1. CtlTypes'
    BY <1>1, PlacesNext, StartedNext, CountsNext, ResultsNext, BooleansNext
    DEF CtlTypes
  <2> QED
    BY <1>1, <2>1, LandsNext, GroundedNext, FlownNext, ReportedNext DEF CtlInv
<1>2. CASE UNCHANGED vars
  <2>1. Places' /\ Started' /\ Counts'
    BY <1>2 DEF CtlInv, CtlTypes, Places, Started, Counts, vars, setup, leg,
       feeds, craft
  <2>2. Results' /\ Booleans'
    <3>1. Results'
      BY <1>2 DEF CtlInv, CtlTypes, Results, vars, result
    <3>2. Booleans'
      BY <1>2 DEF CtlInv, CtlTypes, Booleans, vars, flags, feeds, craft
    <3> QED
      BY <3>1, <3>2
  <2>3. LandsAtEnd' /\ Grounded' /\ EndsLanding' /\ GroundedModes'
    BY <1>2 DEF CtlInv, LandsAtEnd, Grounded, Safe, EndsLanding, GroundedModes,
       vars, setup, flags, craft
  <2>4. Flown'
    BY <1>2 DEF CtlInv, Flown, vars, setup, flags, leg
  <2>5. Reported' /\ ExitCodeTrue' /\ NothingLeftOpen'
    BY <1>2, Zenon DEF CtlInv, Reported, ExitCodeTrue, NothingLeftOpen, vars,
       setup, flags, leg, result
  <2> QED
    BY <2>1, <2>2, <2>3, <2>4, <2>5 DEF CtlInv, CtlTypes
<1> QED
  BY <1>1, <1>2

(* However run() of the legacy controller ends, cancelled, interrupted or  *)
(* failing anywhere, in its own landing too: a vehicle in the air was told *)
(* to land, a run on the ground left it alone, the exit code and the       *)
(* summary say what happened, and nothing it started goes on.              *)
THEOREM ExitsAsItSays == Spec => []ExitInv
<1>1. CtlInv => ExitInv
  <2>1. CtlTypes => TypeOK
    BY Zenon DEF CtlTypes, Places, Started, Counts, Results, Booleans, TypeOK,
       Ends
  <2> QED
    BY <2>1 DEF CtlInv, ExitInv
<1> QED
  BY CtlInit, CtlNext, <1>1, PTL DEF Spec
=============================================================================

-------------------------- MODULE MappingController --------------------------
(***************************************************************************)
(* semifinal/mapping_drone/controller.py: the velocity-controlled mission  *)
(* of the mapping drone, from main() to the exit code.                     *)
(*                                                                         *)
(* One event loop runs run() and the mission task, which never make a step *)
(* at the same time: run() waits for the mission or for the stop event,    *)
(* cancels the mission, waits for its finally block and then lands the     *)
(* vehicle itself.  pc is therefore the place of whichever of the two is   *)
(* moving, and who says which of them called emergency_land.  The pumps,   *)
(* the hover task, the signal handler and the vehicle move on their own.   *)
(***************************************************************************)
EXTENDS Naturals, FiniteSets

CONSTANTS
  None,          \* no value
  Waypoints,     \* how many waypoints there are
  LegPolls,      \* polls of fly_to before its deadline
  Warmups,       \* zero setpoints sent before offboard.start
  VelFailAbort,  \* CONSECUTIVE_VELOCITY_FAIL_ABORT_THRESHOLD
  Addresses,     \* how many MAVSDK addresses are tried
  Gap            \* steps the mission may make before run() sees a stop

ASSUME ControllerAssumption ==
  /\ Waypoints \in Nat \ {0} /\ LegPolls \in Nat \ {0} /\ Warmups \in Nat
  /\ VelFailAbort \in Nat \ {0} /\ Addresses \in Nat \ {0} /\ Gap \in Nat

\* run() sees a stop four turns of the event loop after the signal (the event,
\* its waiter, asyncio.wait, run() itself), and a step of the mission that
\* calls the vehicle takes one at least.
ASSUME GapAssumption == Gap <= 5

VARIABLES
  mode,       \* "fly", "nofly" or "dry": the command line
  open,       \* which of the UWB node and the camera are started
  addr,       \* the address that is tried
  pc,         \* where run() or the mission is
  who,        \* who is in emergency_land: "mission" or "main"
  st,         \* state.state: "FLIGHT", "SCAN_WP", "EMERGENCY_LAND" or "OVER"
  raised,     \* does an exception leave the mission?
  stop,       \* stop_requested: has a signal come?
  cancelled,  \* has run() seen it and cancelled the mission?
  gap,        \* steps left to the mission until run() sees it
  stopEvent,  \* _stop_event, which the pumps and the loops read
  aborted,    \* state.aborted
  begun,      \* offboard_started
  wp,         \* the waypoint of the current leg
  polls,      \* polls or warm-ups done in the current loop
  velFail,    \* consecutive_velocity_failures
  airPump,    \* does _in_air_loop run?
  inAir,      \* state.in_air, as last heard
  airborne,   \* airborne_at > 0
  trouble,    \* what _check_safety would find: "battery", "uwb", "stuck"
  code,       \* the exit code
  summary,    \* "aborted" in run_summary.json; None if none was written
  vehicle,    \* "disarmed", "armed" (on the ground) or "flying"
  order,      \* what the autopilot does: "none", "takeoff", "offboard",
              \* "hold" or "land"
  lost        \* did the last call of land() raise?

setup  == <<mode, open, addr>>
flags  == <<stop, cancelled, stopEvent>>
leg    == <<wp, polls>>
feeds  == <<airPump, inAir, airborne, trouble>>
result == <<code, summary>>
craft  == <<vehicle, order, lost>>
vars   == <<setup, pc, who, st, raised, flags, gap, aborted, begun, leg,
            velFail, feeds, result, craft>>

Setup   == {"load", "uwb", "realsense", "connect"}
Finally == {"stop_offboard", "land", "ground", "disarm"}
Crash   == {"e_vel", "e_stop", "e_land", "e_ground", "e_disarm"}
Mission == {"await_uwb", "await_health", "arm", "takeoff", "climb", "prewarm",
            "offboard", "wp", "leg", "settle", "scan", "hover", "last_vel",
            "nofly"} \cup Finally \cup {"pumps"}

\* What a call leaves when it returns, and when it raises: done or not.
Effect(fails, x, y) == IF fails THEN {x, y} ELSE {y}

Init ==
  /\ mode \in {"fly", "nofly", "dry"} /\ open = {} /\ addr = 1
  /\ pc = "load" /\ who = "mission" /\ st = "FLIGHT" /\ raised = FALSE
  /\ stop = FALSE /\ cancelled = FALSE /\ gap = Gap /\ stopEvent = FALSE
  /\ aborted = FALSE /\ begun = FALSE /\ wp = 1 /\ polls = 0 /\ velFail = 0
  /\ airPump = FALSE /\ inAir = FALSE /\ airborne = FALSE /\ trouble = {}
  /\ code = None /\ summary = None
  /\ vehicle = "disarmed" /\ order = "none" /\ lost = FALSE

-----------------------------------------------------------------------------
(* run(): the subsystems *)

Exit(c) == pc' = "exit" /\ code' = c
flightPart == <<who, st, raised, flags, gap, aborted, begun, leg, velFail,
                feeds, craft>>

\* --dry-run: three subsystems up, as far as they come, and down again.
DryRun ==
  /\ pc = "load" /\ mode = "dry"
  /\ \E failures \in SUBSET {"mavsdk", "uwb", "realsense"} :
       Exit(IF failures = {} THEN 0 ELSE 2)
  /\ UNCHANGED <<setup, summary, flightPart>>

\* The waypoints, before any hardware; if they are bad, the run is finalised,
\* but a row that is no list raises what run() does not catch.
BadWaypoints == Exit(2) /\ summary' \in {None, TRUE}
LoadWaypoints ==
  /\ pc = "load" /\ mode # "dry"
  /\ \/ pc' = "uwb" /\ UNCHANGED result
     \/ BadWaypoints
     \/ Exit(1) /\ UNCHANGED summary
  /\ UNCHANGED <<setup, flightPart>>

StartUwb ==
  /\ pc = "uwb"
  /\ \/ pc' = "realsense" /\ open' = {"uwb"} /\ UNCHANGED code
     \/ Exit(2) /\ UNCHANGED open
  /\ UNCHANGED <<mode, addr, summary, flightPart>>

\* What was started is stopped, one after the other, and a stop that raises
\* leaves run() with the rest still open.
GiveUpOpen(started) == open' = started /\ Exit(2)
GiveUp(started) ==
  \/ open' = {} /\ Exit(2)
  \/ open' \in SUBSET started /\ Exit(1)

StartRealsense ==
  /\ pc = "realsense"
  /\ \/ pc' = "connect" /\ open' = open \cup {"realsense"} /\ UNCHANGED code
     \/ GiveUp(open)
  /\ UNCHANGED <<mode, addr, summary, flightPart>>

\* _connect_with_fallback: each address in turn, until one answers.
Connect ==
  /\ pc = "connect"
  /\ pc' = "await_uwb" /\ airPump' = TRUE
  /\ UNCHANGED <<setup, who, st, raised, flags, gap, aborted, begun, leg,
                 velFail, inAir, airborne, trouble, result, craft>>

ConnectFails ==
  /\ pc = "connect"
  /\ IF addr < Addresses
       THEN addr' = addr + 1 /\ UNCHANGED <<pc, open, code>>
       ELSE GiveUp(open) /\ UNCHANGED addr
  /\ UNCHANGED <<mode, summary, flightPart>>

\* Ctrl-C while no handler is installed yet: KeyboardInterrupt leaves
\* asyncio.run(), and result_box holds no writer to finalise.
InterruptSetup ==
  /\ pc \in Setup
  /\ Exit(130)
  /\ UNCHANGED <<setup, summary, flightPart>>

-----------------------------------------------------------------------------
(* run_mission up to the first waypoint *)

Goto(place) == pc' = place
rest == <<setup, who, flags, leg, velFail, feeds, result>>

\* The mission's try block is left: by return, or with an exception.
Leave(exc) ==
  /\ raised' = exc
  /\ pc' = IF mode = "nofly" \/ st = "EMERGENCY_LAND" THEN "pumps"
           ELSE IF begun THEN "stop_offboard" ELSE "land"

\* Fifty polls for a fix; without one the mission goes on.
AwaitUwb ==
  /\ pc = "await_uwb"
  /\ Goto(IF mode = "nofly" THEN "nofly" ELSE "await_health")
  /\ UNCHANGED <<rest, st, raised, aborted, begun, craft>>

\* _await_health looks at its deadline only when the stream yields.
Health ==
  /\ pc = "await_health"
  /\ \/ Goto("arm") /\ UNCHANGED <<raised, aborted>>
     \/ aborted' = TRUE /\ Leave(FALSE)
  /\ UNCHANGED <<rest, st, begun, craft>>

Arm ==
  /\ pc = "arm"
  /\ \E fails \in BOOLEAN :
       /\ vehicle' \in Effect(fails, vehicle, "armed")
       /\ IF fails THEN Leave(TRUE) ELSE Goto("takeoff") /\ UNCHANGED raised
  /\ UNCHANGED <<rest, st, aborted, begun, order, lost>>

Takeoff ==
  /\ pc = "takeoff"
  /\ \E fails \in BOOLEAN :
       /\ order' \in Effect(fails, order, "takeoff")
       /\ IF fails THEN Leave(TRUE) ELSE Goto("climb") /\ UNCHANGED raised
  /\ UNCHANGED <<rest, st, aborted, begun, vehicle, lost>>

Climb ==
  /\ pc = "climb" /\ Goto("prewarm")
  /\ UNCHANGED <<rest, st, raised, aborted, begun, craft>>

\* set_velocity_ned; a streak of failures aborts the run.
SendVelocity ==
  \/ velFail' = 0 /\ UNCHANGED aborted
  \/ /\ velFail < VelFailAbort
     /\ velFail' = velFail + 1
     /\ aborted' = (aborted \/ velFail' = VelFailAbort)
  \/ velFail = VelFailAbort /\ UNCHANGED <<velFail, aborted>>

Prewarm ==
  /\ pc = "prewarm"
  /\ IF polls < Warmups
       THEN SendVelocity /\ polls' = polls + 1 /\ UNCHANGED pc
       ELSE Goto("offboard") /\ polls' = 0 /\ UNCHANGED <<velFail, aborted>>
  /\ UNCHANGED <<setup, who, st, raised, flags, begun, wp, feeds, result, craft>>

StartOffboard ==
  /\ pc = "offboard"
  /\ \E fails \in BOOLEAN :
       /\ order' \in Effect(fails, order, "offboard")
       /\ IF fails THEN Leave(TRUE) /\ UNCHANGED begun
          ELSE Goto("wp") /\ begun' = TRUE /\ UNCHANGED raised
  /\ UNCHANGED <<rest, st, aborted, vehicle, lost>>

-----------------------------------------------------------------------------
(* The waypoints *)

\* Out of the loop: the abort is honoured, or the run lands as planned.
AfterLoop(abort) == Goto(IF abort THEN "e_vel" ELSE "last_vel")

NextWaypoint ==
  /\ pc = "wp"
  /\ polls' = 0
  /\ \/ /\ stopEvent \/ aborted \/ wp > Waypoints
        /\ AfterLoop(aborted) /\ UNCHANGED aborted
     \/ /\ ~stopEvent /\ ~aborted /\ wp <= Waypoints
        /\ \/ Goto("leg") /\ UNCHANGED aborted
           \/ aborted' = TRUE /\ AfterLoop(TRUE)      \* max_flight_time
  /\ UNCHANGED <<setup, who, st, raised, flags, begun, wp, velFail, feeds,
                 result, craft>>

\* _check_safety: the stuck watchdog is off in the SCAN_WP states.
CheckSafety == IF st = "SCAN_WP" THEN trouble \ {"stuck"} ELSE trouble

\* run_mission goes on to the scan unless the leg failed by an abort.
LegDone(reached) ==
  IF ~reached /\ aborted' THEN AfterLoop(TRUE) /\ UNCHANGED st
  ELSE Goto("scan") /\ st' = "SCAN_WP"

\* One poll of fly_to_position_velocity, which looks at the stop event, at
\* the watchdogs and at its deadline, but not at aborted.
LegPoll ==
  /\ pc = "leg"
  /\ \/ /\ stopEvent \/ polls >= LegPolls
        /\ UNCHANGED <<aborted, velFail, polls>> /\ LegDone(FALSE)
     \/ /\ ~stopEvent /\ polls < LegPolls /\ CheckSafety # {}
        /\ aborted' = TRUE
        /\ UNCHANGED <<velFail, polls>> /\ LegDone(FALSE)
     \/ /\ ~stopEvent /\ polls < LegPolls /\ CheckSafety = {}
        /\ \/ Goto("settle") /\ UNCHANGED <<aborted, velFail, polls>>
           \/ SendVelocity /\ polls' = polls + 1 /\ UNCHANGED pc
        /\ UNCHANGED st
  /\ UNCHANGED <<setup, who, raised, flags, begun, wp, feeds, result, craft>>

Settle ==
  /\ pc = "settle" /\ UNCHANGED aborted /\ LegDone(TRUE)
  /\ UNCHANGED <<rest, raised, begun, craft>>

\* The scan ends, raises or times out; its frames come from a thread.
ScanEnds ==
  /\ pc = "scan" /\ Goto("hover")
  /\ UNCHANGED <<rest, st, raised, aborted, begun, craft>>

HoverEnds ==
  /\ pc = "hover" /\ Goto("wp") /\ wp' = wp + 1
  /\ UNCHANGED <<setup, who, st, raised, flags, aborted, begun, polls, velFail,
                 feeds, result, craft>>

\* The hover that settles or runs beside the scan corrects the drift.
HoverTick ==
  /\ pc \in {"settle", "scan", "hover"} /\ ~stopEvent /\ ~aborted
  /\ SendVelocity
  /\ UNCHANGED <<setup, pc, who, st, raised, flags, gap, begun, leg, feeds,
                 result, craft>>

\* --nofly: scans in place until the time is over or the stop comes.
NoflyScan ==
  /\ pc = "nofly"
  /\ \/ ~stopEvent /\ UNCHANGED <<pc, raised>>
     \/ Leave(FALSE)
  /\ UNCHANGED <<rest, st, aborted, begun, craft>>

-----------------------------------------------------------------------------
(* Landing: the mission's finally block and emergency_land *)

LastVelocity ==
  /\ pc = "last_vel" /\ Goto("stop_offboard") /\ SendVelocity
  /\ UNCHANGED <<setup, who, st, raised, flags, begun, leg, feeds, result, craft>>

\* emergency_land without the question for the mode.
LandAnyway ==
  /\ pc = "e_vel" /\ Goto("e_stop") /\ st' = "EMERGENCY_LAND" /\ SendVelocity
  /\ UNCHANGED <<setup, who, raised, flags, begun, leg, feeds, result, craft>>

\* emergency_land: nothing in a run that never armed.
EmergencyLand ==
  /\ pc = "e_vel"
  /\ IF mode = "nofly" THEN Goto("finalise") /\ UNCHANGED <<st, velFail, aborted>>
     ELSE Goto("e_stop") /\ st' = "EMERGENCY_LAND" /\ SendVelocity
  /\ UNCHANGED <<setup, who, raised, flags, begun, leg, feeds, result, craft>>

StopOffboard ==
  /\ pc \in {"stop_offboard", "e_stop"}
  /\ Goto(IF pc = "e_stop" THEN "e_land" ELSE "land")
  /\ \E fails \in BOOLEAN : order' \in Effect(fails, order, "hold")
  /\ UNCHANGED <<rest, st, raised, aborted, begun, vehicle, lost>>

OrderLanding ==
  /\ pc \in {"land", "e_land"}
  /\ Goto(IF pc = "e_land" THEN "e_ground" ELSE "ground")
  /\ \E fails \in BOOLEAN :
       order' \in Effect(fails, order, "land") /\ lost' = fails
  /\ UNCHANGED <<rest, st, raised, aborted, begun, vehicle>>

\* After landing the mission's finally goes on, or run() finalises.
Landed == IF who = "mission" THEN "pumps" ELSE "finalise"

\* _safe_disarm_after_land: disarm where in_air, as last heard, is False ...
GroundSeen ==
  /\ pc \in {"ground", "e_ground"} /\ ~inAir
  /\ Goto(IF pc = "ground" THEN "disarm" ELSE "e_disarm")
  /\ UNCHANGED <<rest, st, raised, aborted, begun, craft>>

\* The wait without its cap.
StillInAir == pc \in {"ground", "e_ground"} /\ inAir /\ UNCHANGED vars

\* ... and not at all if it still is True at the hard cap.
GroundNotSeen ==
  /\ pc \in {"ground", "e_ground"} /\ inAir
  /\ Goto(Landed)
  /\ UNCHANGED <<rest, st, raised, aborted, begun, craft>>

Disarm ==
  /\ pc \in {"disarm", "e_disarm"}
  /\ Goto(Landed)
  /\ \E fails \in BOOLEAN : vehicle' \in Effect(fails, vehicle, "disarmed")
  /\ UNCHANGED <<rest, st, raised, aborted, begun, order, lost>>

\* The end of the mission task: DONE or ABORTED, and the pumps are cancelled.
StopPumps ==
  /\ pc = "pumps" /\ Goto("mission_done")
  /\ st' = "OVER" /\ stopEvent' = TRUE /\ airPump' = FALSE
  /\ UNCHANGED <<setup, who, raised, stop, cancelled, aborted, begun, leg,
                 velFail, inAir, airborne, trouble, result, craft>>

-----------------------------------------------------------------------------
(* run() around the mission *)

\* A signal handler: the stop event of the loops is set at once, run() wakes
\* a few turns of the event loop later.
Signal ==
  /\ pc \in Mission \cup Crash \cup {"mission_done"} /\ ~stop
  /\ stop' = TRUE /\ stopEvent' = TRUE
  /\ UNCHANGED <<setup, pc, who, st, raised, cancelled, gap, aborted, begun,
                 leg, velFail, feeds, result, craft>>

\* run() cancels the mission: CancelledError at its current await.  The one
\* around the hover task swallows it, and so does that around the pumps.
StopSeen ==
  /\ stop /\ ~cancelled
  /\ pc \in Mission \cup (IF who = "mission" THEN Crash ELSE {})
  /\ cancelled' = TRUE /\ aborted' = TRUE
  /\ \/ pc = "hover" /\ pc' = "wp" /\ wp' = wp + 1 /\ UNCHANGED raised
     \/ pc = "pumps" /\ UNCHANGED <<pc, raised, wp>>
     \/ pc \in Finally /\ pc' = "mission_done" /\ UNCHANGED <<raised, wp>>
     \/ pc \in Crash /\ pc' = "pumps" /\ UNCHANGED <<raised, wp>>
     \/ pc \notin Finally \cup Crash \cup {"hover", "pumps"} /\ Leave(TRUE)
        /\ UNCHANGED wp
  /\ UNCHANGED <<setup, who, st, stop, stopEvent, gap, begun, polls, velFail,
                 feeds, result, craft>>

\* The mission's own finally block taken for enough.
TrustMission ==
  /\ pc = "mission_done" /\ pc' = "finalise"
  /\ UNCHANGED <<setup, who, st, raised, flags, gap, aborted, begun, leg,
                 velFail, feeds, result, craft>>

\* The mission is over: cancelled or raising, run() lands once more.
MissionDone ==
  /\ pc = "mission_done"
  /\ IF cancelled \/ raised
       THEN pc' = "e_vel" /\ who' = "main" /\ aborted' = TRUE
       ELSE pc' = "finalise" /\ UNCHANGED <<who, aborted>>
  /\ UNCHANGED <<setup, st, raised, flags, gap, begun, leg, velFail, feeds,
                 result, craft>>

\* run()'s finally block: the summary is written if it can be, the camera and
\* the UWB node are stopped.
Finalise ==
  /\ pc = "finalise"
  /\ Exit(IF aborted THEN 1 ELSE 0)
  /\ summary' \in {None, aborted}
  /\ open' = {}
  /\ UNCHANGED <<mode, addr, flightPart>>

Exited == pc = "exit" /\ UNCHANGED vars

-----------------------------------------------------------------------------
(* The pumps and the vehicle *)

\* _in_air_loop hears the vehicle; with the stop event set it then ends.
AirSample ==
  /\ airPump
  /\ inAir' = (vehicle = "flying")
  /\ airborne' = (airborne \/ inAir')
  /\ airPump' = ~stopEvent
  /\ UNCHANGED <<setup, pc, who, st, raised, flags, gap, aborted, begun, leg,
                 velFail, trouble, result, craft>>

AirStreamRaises ==
  /\ airPump /\ airPump' = FALSE
  /\ UNCHANGED <<setup, pc, who, st, raised, flags, gap, aborted, begun, leg,
                 velFail, inAir, airborne, trouble, result, craft>>

\* The battery runs low, fixes stop coming, the vehicle does not move: the
\* last is looked at once the vehicle has been heard to fly.
TroubleComes ==
  /\ pc \in Mission /\ mode = "fly"
  /\ \E t \in {"battery", "uwb", "stuck"} \ trouble :
       /\ t = "stuck" => airborne
       /\ trouble' = trouble \cup {t}
  /\ UNCHANGED <<setup, pc, who, st, raised, flags, gap, aborted, begun, leg,
                 velFail, airPump, inAir, airborne, result, craft>>

TroubleEnds ==
  /\ \E t \in trouble \ {"battery"} : trouble' = trouble \ {t}
  /\ UNCHANGED <<setup, pc, who, st, raised, flags, gap, aborted, begun, leg,
                 velFail, airPump, inAir, airborne, result, craft>>

\* The vehicle leaves the ground, comes down, and disarms itself there; a
\* failsafe lands it.
Fly ==
  /\ \/ /\ vehicle = "armed" /\ order \in {"takeoff", "offboard"}
        /\ vehicle' = "flying" /\ UNCHANGED order
     \/ vehicle = "flying" /\ order' = "land" /\ UNCHANGED vehicle
     \/ vehicle = "flying" /\ order = "land" /\ vehicle' = "armed"
        /\ UNCHANGED order
     \/ vehicle = "armed" /\ order = "land" /\ vehicle' = "disarmed"
        /\ UNCHANGED order
  /\ UNCHANGED <<setup, pc, who, st, raised, flags, gap, aborted, begun, leg,
                 velFail, feeds, result, lost>>

-----------------------------------------------------------------------------
Step ==
  \/ AwaitUwb \/ Arm \/ Takeoff \/ Climb \/ Prewarm \/ StartOffboard
  \/ NextWaypoint \/ LegPoll \/ Settle \/ ScanEnds \/ HoverEnds \/ NoflyScan
  \/ LastVelocity \/ EmergencyLand \/ StopOffboard \/ OrderLanding
  \/ GroundSeen \/ GroundNotSeen \/ Disarm \/ StopPumps

\* Between a signal and its being seen the mission makes at most Gap steps.
Unseen == stop /\ ~cancelled /\ who = "mission"
Paced(A) ==
  /\ Unseen => gap > 0
  /\ A
  /\ gap' = IF Unseen THEN gap - 1 ELSE gap

Main ==
  \/ DryRun \/ LoadWaypoints \/ StartUwb \/ StartRealsense \/ Connect
  \/ ConnectFails \/ StopSeen \/ MissionDone \/ Finalise

World ==
  \/ InterruptSetup \/ Signal \/ HoverTick \/ AirSample \/ AirStreamRaises
  \/ TroubleComes \/ TroubleEnds \/ Fly

Next == Main \/ Paced(Step) \/ Paced(Health) \/ World \/ Exited

Spec == Init /\ [][Next]_vars

\* What is ready runs and a call returns or raises; the health stream may be
\* silent for ever.
FairSpec == Spec /\ WF_vars(Main) /\ WF_vars(Paced(Step))

-----------------------------------------------------------------------------
TypeOK ==
  /\ mode \in {"fly", "nofly", "dry"} /\ open \subseteq {"uwb", "realsense"}
  /\ addr \in 1..Addresses
  /\ pc \in Setup \cup Mission \cup Crash \cup {"mission_done", "finalise", "exit"}
  /\ who \in {"mission", "main"}
  /\ st \in {"FLIGHT", "SCAN_WP", "EMERGENCY_LAND", "OVER"}
  /\ {raised, stop, cancelled, stopEvent, aborted, begun} \subseteq BOOLEAN
  /\ gap \in 0..Gap /\ wp \in 1..Waypoints + 1 /\ velFail \in 0..VelFailAbort
  /\ polls \in Nat
  /\ {airPump, inAir, airborne, lost} \subseteq BOOLEAN
  /\ trouble \subseteq {"battery", "uwb", "stuck"}
  /\ code \in {None, 0, 1, 2, 130} /\ summary \in {None, TRUE, FALSE}
  /\ vehicle \in {"disarmed", "armed", "flying"}
  /\ order \in {"none", "takeoff", "offboard", "hold", "land"}

\* However the run ends, cancelled or failing anywhere, in its own landing
\* too: a vehicle still in the air has landing as its last order, unless that
\* very call raised.
EndsLanding == pc = "exit" /\ vehicle = "flying" => order = "land" \/ lost

\* --nofly and --dry-run leave the vehicle alone on every path, the abort
\* paths shared with a flight included.
GroundedModes == mode # "fly" => vehicle = "disarmed" /\ order = "none"

\* Exit code 0 of a flight says that every waypoint had its leg and its scan
\* and that run() cancelled nothing; a summary that was written agrees.
ExitCodeTrue ==
  pc = "exit" /\ code \in {0, 1} =>
    /\ code = 0 /\ mode = "fly" => wp > Waypoints /\ ~cancelled
    /\ summary # None => summary = (code = 1)

\* run() does not return with a subsystem running.
NothingLeftOpen == pc = "exit" /\ code \in {0, 2} => open = {}

\* However run() ends, its exit code, its files, its subsystems and the vehicle
\* are as they should be.
ExitInv == TypeOK /\ EndsLanding /\ GroundedModes /\ ExitCodeTrue /\ NothingLeftOpen

\* Once a signal is handled the program comes to its end.
StopEnds == stop ~> (pc = "exit")

\* A vehicle is not disarmed in the air.
NoDisarmInAir == [][vehicle = "flying" => vehicle' # "disarmed"]_vars

\* A leg polled while the vehicle is stuck does not go on.
StuckIsWatched ==
  [][pc = "leg" /\ "stuck" \in trouble => polls' = polls]_vars

\* Every run that made its directory leaves a summary, unless that could not
\* be written.
InterruptFinalised == pc = "exit" /\ code = 130 => summary # None
=============================================================================

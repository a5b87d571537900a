---------------------------- MODULE MoveItMission ----------------------------
(***************************************************************************)
(* The mapping drone's entry point, mapping_drone/moveit_mission.py --fly: *)
(* the mission coroutine run_fly, the pose choice and the watchdogs it     *)
(* polls, the telemetry pumps that run beside it, the UWB subscriber       *)
(* thread, the operator's Ctrl-C, and the vehicle at the other end of      *)
(* MAVSDK.  Every await is a step of its own, so that pumps, operator and  *)
(* vehicle act between any two of them; time passes in ticks, and only     *)
(* where the coroutine waits.                                              *)
(***************************************************************************)
EXTENDS Naturals, Sequences

CONSTANTS
  Cells,          \* places the horizontal fix can tell apart (within 0.2 m)
  None,           \* Python's None, and a timestamp that is still 0.0
  Route,          \* the waypoints: a sequence of [cell, alt] records
  TakeoffAlt,     \* --takeoff-alt as given on the command line
  MaxSafeAlt,     \* MAX_SAFE_ALT_M
  PoseSource,     \* --pose: "auto", "fc" or "uwb"
  FcPoseStale,    \* FC_POSE_STALE_S, in ticks, as are all times below
  PoseLossLand,   \* POSE_LOSS_LAND_S
  PoseNeverFix,   \* POSE_NEVER_FIX_S
  StuckGrace,     \* STUCK_GRACE_S
  StuckWindow,    \* STUCK_WINDOW_S
  StuckSpan,      \* the part of the window its samples must span
  WaypointTimeout,\* WAYPOINT_TIMEOUT_S
  MaxFlightTime,  \* --max-flight-time-s
  StreamDeadline, \* deadline of the connection and health streams
  LandDeadline,   \* hard cap on the wait for in_air=False
  RpcTime,        \* longest a MAVSDK call takes before it answers or raises
  SleepTime,      \* the sleeps after takeoff (4 s) and before a scan (2 s)
  GrabTime,       \* longest a camera grab takes
  Frames,         \* FRAMES_PER_WAYPOINT
  VelFailAbort,   \* VEL_FAIL_ABORT
  AgeCap          \* ages from here on are not told apart

ASSUME RouteAssumption ==
  /\ None \notin Nat
  /\ None \notin Cells
  /\ Route \in Seq([cell : Cells, alt : Nat \cup {None}])

\* no value is none of the values it stands for the absence of
ASSUME NoneAssumption ==
  None \notin BOOLEAN /\ None \notin {"battery", "no_fix", "stale", "stuck"}

ASSUME AltAssumption == TakeoffAlt \in Nat /\ MaxSafeAlt \in Nat

ASSUME PoseSourceAssumption == PoseSource \in {"auto", "fc", "uwb"}

ASSUME TimeAssumption ==
  /\ FcPoseStale \in Nat /\ PoseLossLand \in Nat /\ PoseNeverFix \in Nat
  /\ StuckGrace \in Nat /\ StuckWindow \in Nat /\ StuckSpan \in Nat
  /\ WaypointTimeout \in Nat /\ MaxFlightTime \in Nat
  /\ StreamDeadline \in Nat /\ LandDeadline \in Nat
  /\ RpcTime \in Nat /\ SleepTime \in Nat /\ GrabTime \in Nat
  /\ AgeCap \in Nat /\ FcPoseStale <= AgeCap /\ PoseLossLand < AgeCap

ASSUME CountAssumption == Frames \in Nat /\ VelFailAbort \in Nat \ {0}

VARIABLES
  \* the mission coroutine and the process around it
  pc,        \* the await the coroutine is at
  slept,     \* nav: has the loop polled in this tick?
  stop,      \* _stop
  reason,    \* _abort_reason
  aborting,  \* the argument "aborted" of _land_and_disarm
  code,      \* what run_fly returned; None before
  summary,   \* "aborted" in run_summary.json; None while it is not written
  wp,        \* index of the waypoint being flown
  frame,     \* frames begun at this waypoint
  velFail,   \* _vel_fail
  hist,      \* _pos_history over the stuck window: a set of [age, cell]
  \* clocks
  since,     \* ticks since the coroutine came to pc
  elapsed,   \* ticks since started_at
  poseAge,   \* ticks since _last_pose_ts
  fcAge,     \* ticks since _fc_ts; AgeCap while that is 0.0
  uwbAge,    \* ticks since the subscriber's last packet; AgeCap before it
  \* the pumps and what they and the subscriber last stored
  telem,     \* is _telem_loop running?
  battery,   \* is _battery_loop running?
  fcCell,    \* (_fc_n, _fc_e)
  uwbCell,   \* the subscriber's (_n, _e); None until _ready
  batt,      \* _battery_frac: None, "ok" or "low" (below BATTERY_LAND_FRAC)
  \* the vehicle
  vehicle,   \* "disarmed", "armed" (on the ground) or "flying"
  mode,      \* its flight mode
  spAlt,     \* altitude of the setpoint MAVSDK streams to it
  release    \* what became of the orders to leave offboard and to land

ctl    == <<slept, stop, reason, aborting, code, summary, velFail>>
leg    == <<wp, frame, hist>>
clocks == <<elapsed, fcAge, uwbAge>>
pumps  == <<telem, battery>>
feeds  == <<fcCell, uwbCell, batt>>
craft  == <<vehicle, mode, spAlt, release>>
\* what the steps to and from the air leave alone
rest   == <<slept, stop, reason, summary, velFail, poseAge, leg, clocks, feeds>>
vars   == <<pc, since, poseAge, ctl, leg, clocks, pumps, feeds, craft>>

-----------------------------------------------------------------------------
(* Where the coroutine can be, and how long it may stay there *)

Calls   == {"connect", "arm", "prestream", "offboard", "reject", "takeoff",
            "hold", "stop_offboard", "land", "disarm"}
Streams == {"await_link", "await_health", "await_ground"}
Flight  == {"takeoff", "climb", "next_wp", "nav", "hold", "settle", "scan"}
Landing == {"stop_offboard", "land", "await_ground", "disarm"}
Places  == Calls \cup Streams \cup Flight \cup {"start", "finalise", "exit"}

Lowest(a, b)  == IF a <= b THEN a ELSE b
Highest(a, b) == IF a <= b THEN b ELSE a

\* One tick older; at the cap ages are not told apart any more.
Older(age, cap) == Lowest(age + 1, cap)

\* The deadline that the coroutine's current await is measured against.
Deadline ==
  CASE pc = "nav" -> WaypointTimeout
    [] pc \in {"await_link", "await_health"} -> StreamDeadline
    [] pc = "await_ground" -> LandDeadline
    [] pc \in {"climb", "settle"} -> SleepTime
    [] pc = "scan" -> Frames * GrabTime
    [] OTHER -> RpcTime

\* The longest time that anything compares elapsed with.
LongestWait == Highest(MaxFlightTime, Highest(PoseNeverFix, StuckGrace))

\* May another tick pass here?  A sleep ends on time, a call answers within
\* RpcTime, the waypoint loop polls in every tick, a worker thread is at most
\* GrabTime in each frame, and a silent stream is waited for without end.
MayWait ==
  \/ pc \in Streams
  \/ pc \in Calls \cup {"climb", "settle"} /\ since < Deadline
  \/ pc = "scan" /\ since < frame * GrabTime
  \/ pc = "nav" /\ slept

Tick ==
  /\ MayWait
  /\ since' = Older(since, Deadline + 2)
  /\ elapsed' = Older(elapsed, LongestWait + 1)
  /\ poseAge' = IF poseAge = None THEN None ELSE Older(poseAge, AgeCap)
  /\ fcAge' = Older(fcAge, AgeCap)
  /\ uwbAge' = Older(uwbAge, AgeCap)
  /\ hist' = {[h EXCEPT !.age = @ + 1] :
                h \in {g \in hist : g.age < StuckWindow}}
  /\ slept' = FALSE
  /\ UNCHANGED <<pc, stop, reason, aborting, code, summary, velFail, wp,
                 frame, pumps, feeds, craft>>

-----------------------------------------------------------------------------
(* The pose and the watchdogs *)

FcFresh == fcAge < FcPoseStale
UseFc   == PoseSource \in {"fc", "auto"} /\ FcFresh
UseUwb  == ~UseFc /\ PoseSource \in {"uwb", "auto"} /\ uwbCell # None
Ready   == UseFc \/ UseUwb
Fix     == IF UseFc THEN fcCell ELSE uwbCell

\* Every fix of the window is in one place, and the oldest is old enough.  A
\* record of hist stands for the fixes of a tick, of which there are several.
Stuck ==
  /\ elapsed > StuckGrace
  /\ \E h \in hist : h.age >= StuckSpan
  /\ \A g, h \in hist : g.cell = h.cell

NeverHadFix == poseAge = None /\ elapsed > PoseNeverFix
PoseLostUnnoticed == poseAge # None /\ elapsed < PoseLossLand
PoseLost == poseAge # None /\ poseAge > PoseLossLand

\* The watchdogs in the order _check_safety tries them; None = safe.
CheckSafety ==
  IF batt = "low" THEN "battery"
  ELSE IF NeverHadFix THEN "no_fix"
  ELSE IF PoseLost THEN "stale"
  ELSE IF Stuck THEN "stuck"
  ELSE None

Reasons == {"battery", "no_fix", "stale", "stuck", "setpoint"}

-----------------------------------------------------------------------------
(* Helpers of the coroutine's steps *)

Goto(place) == pc' = place /\ since' = 0

\* Leave the mission for _land_and_disarm(aborted=flag).
LandQuietly(flag) == Goto("stop_offboard") /\ aborting' = FALSE
Land(flag) == Goto("stop_offboard") /\ aborting' = flag

\* An exception that reaches run_fly's handler.
Crash == Land(TRUE)

\* run_fly returns; its finally block cancels the pumps.
Return(c) ==
  /\ Goto("finalise")
  /\ code' = c
  /\ telem' = FALSE
  /\ battery' = FALSE

\* A call whose effect turns x into y: it is answered, or it raises with the
\* effect had or not.
Effect(raised, x, y) == IF raised THEN {x, y} ELSE {y}

\* The altitude main() lets the mission use, and that of waypoint i.
Alt      == Lowest(TakeoffAlt, MaxSafeAlt)
WpAltUnclamped(i) == IF Route[i].alt = None THEN Alt ELSE Route[i].alt
WpAlt(i) ==
  Lowest(IF Route[i].alt = None THEN Alt ELSE Route[i].alt, MaxSafeAlt)

-----------------------------------------------------------------------------
(* main() and the way to the air *)

Init ==
  /\ pc = "start" /\ since = 0
  /\ slept = FALSE /\ stop = FALSE /\ reason = None /\ aborting = FALSE
  /\ code = None /\ summary = None /\ velFail = 0
  /\ wp = 1 /\ frame = 0 /\ hist = {}
  /\ elapsed = 0 /\ poseAge = None /\ fcAge = AgeCap /\ uwbAge = AgeCap
  /\ telem = FALSE /\ battery = FALSE
  /\ fcCell \in Cells /\ uwbCell = None /\ batt = None
  /\ vehicle = "disarmed" /\ mode = "manual" /\ spAlt = 0 /\ release = "none"

\* The subscriber, the camera and the route are up, or one of them raised.
Startup ==
  /\ pc = "start"
  /\ \/ Goto("connect") /\ UNCHANGED code
     \/ Goto("finalise") /\ code' = 1
  /\ UNCHANGED <<rest, aborting, pumps, craft>>

Connect ==
  /\ pc = "connect"
  /\ \/ Goto("await_link") /\ UNCHANGED aborting
     \/ Crash
  /\ UNCHANGED <<rest, code, pumps, craft>>

\* connection_state yields: connected, or not connected and the loop gives up.
LinkYields ==
  /\ pc = "await_link"
  /\ \/ /\ Goto("await_health")
        /\ UNCHANGED <<code, pumps>>
     \/ /\ stop \/ since > StreamDeadline
        /\ Return(2)
  /\ UNCHANGED <<rest, aborting, craft>>

\* health yields: a local position, and the pumps are started; or none yet.
HealthYields ==
  /\ pc = "await_health"
  /\ \/ /\ Goto("arm")
        /\ telem' = TRUE /\ battery' = TRUE
        /\ UNCHANGED code
     \/ /\ since > StreamDeadline
        /\ Return(2)
  /\ UNCHANGED <<rest, aborting, craft>>

\* A stream raises before the vehicle is armed.
StreamRaises ==
  /\ pc \in {"await_link", "await_health"}
  /\ Crash
  /\ UNCHANGED <<rest, code, pumps, craft>>

Arm ==
  /\ pc = "arm"
  /\ \E raised \in BOOLEAN :
       /\ vehicle' \in Effect(raised, vehicle, "armed")
       /\ IF raised THEN Crash ELSE Goto("prestream") /\ UNCHANGED aborting
  /\ UNCHANGED <<rest, code, pumps, mode, spAlt, release>>

\* A setpoint on the ground, before offboard is engaged.
Prestream ==
  /\ pc = "prestream"
  /\ spAlt' = 0
  /\ \/ Goto("offboard") /\ UNCHANGED aborting
     \/ Crash
  /\ UNCHANGED <<rest, code, pumps, vehicle, mode, release>>

\* offboard.start() is answered, raises OffboardError, or raises anything else.
StartOffboard ==
  /\ pc = "offboard"
  /\ \E place \in {"takeoff", "reject", "stop_offboard"} :
       /\ mode' \in Effect(place # "takeoff", mode, "offboard")
       /\ Goto(place)
       /\ aborting' = (place = "stop_offboard")
  /\ UNCHANGED <<rest, code, pumps, vehicle, spAlt, release>>

\* The OffboardError handler disarms on the ground and gives up.
RejectArmed ==
  /\ pc = "reject"
  /\ Return(2)
  /\ UNCHANGED <<rest, aborting, craft>>

Reject ==
  /\ pc = "reject"
  /\ \E raised \in BOOLEAN :
       /\ vehicle' \in Effect(raised, vehicle, "disarmed")
       /\ IF raised THEN Crash /\ UNCHANGED <<code, pumps>>
                    ELSE Return(2) /\ UNCHANGED aborting
  /\ UNCHANGED <<rest, mode, spAlt, release>>

Takeoff ==
  /\ pc = "takeoff"
  /\ \E raised \in BOOLEAN :
       /\ spAlt' \in Effect(raised, spAlt, Alt)
       /\ IF raised THEN Crash ELSE Goto("climb") /\ UNCHANGED aborting
  /\ UNCHANGED <<rest, code, pumps, vehicle, mode, release>>

Climb ==
  /\ pc = "climb" /\ since = SleepTime
  /\ Goto("next_wp")
  /\ UNCHANGED <<rest, aborting, code, pumps, craft>>

-----------------------------------------------------------------------------
(* The waypoint loop *)

\* `while wp <= len` where the code has a for loop over the waypoints.
SurveyOverLate == stop \/ elapsed > MaxFlightTime \/ wp > Len(Route) + 1

\* The next waypoint is not flown to: asked to stop, out of time, or no more.
SurveyOver == stop \/ elapsed > MaxFlightTime \/ wp > Len(Route)

NextWaypoint ==
  /\ pc = "next_wp"
  /\ IF SurveyOver
     THEN Land(stop)
     ELSE Goto("nav") /\ UNCHANGED aborting
  /\ slept' = FALSE
  /\ UNCHANGED <<stop, reason, code, summary, velFail, poseAge, leg, clocks,
                 pumps, feeds, craft>>

\* What ends the loop at the top of a poll.
WatchdogAborts == CheckSafety # None
MustAbort == stop \/ CheckSafety # None

\* What ends it at the bottom.
OutOfTime == since > WaypointTimeout

\* The loop finds _stop set, or a watchdog sets it: land at once.
PollAborts ==
  /\ pc = "nav" /\ MustAbort
  /\ stop' = TRUE
  /\ reason' = IF stop THEN reason ELSE CheckSafety
  /\ Land(TRUE)
  /\ UNCHANGED <<slept, code, summary, velFail, poseAge, leg, clocks, pumps,
                 feeds, craft>>

\* _set_setpoint: a success clears the failure count, VelFailAbort failures in
\* a row set _stop.
WedgedLate == velFail >= VelFailAbort
Wedged == velFail + 1 >= VelFailAbort

SetSetpoint(alt) ==
  \/ /\ spAlt' = alt
     /\ velFail' = 0
     /\ UNCHANGED <<stop, reason>>
  \/ /\ spAlt' \in {spAlt, alt}
     /\ velFail' = velFail + 1
     /\ IF Wedged
        THEN stop' = TRUE /\ reason' = "setpoint"
        ELSE UNCHANGED <<stop, reason>>

\* No fresh fix: hold the setpoint; the waypoint's deadline is not looked at.
PollWithoutFix ==
  /\ pc = "nav" /\ ~MustAbort
  /\ ~Ready
  /\ SetSetpoint(WpAlt(wp))
  /\ slept' = TRUE
  /\ UNCHANGED <<pc, since, aborting, code, summary, poseAge, leg, clocks,
                 pumps, feeds, vehicle, mode, release>>

\* A fresh fix: at the waypoint, fly on towards it, or out of time there.
PollWithFix ==
  /\ pc = "nav" /\ ~MustAbort
  /\ Ready
  /\ poseAge' = 0
  /\ hist' = hist \cup {[age |-> 0, cell |-> Fix]}
  /\ \/ /\ Fix = Route[wp].cell
        /\ Goto("hold")
        /\ UNCHANGED <<slept, stop, reason, aborting, velFail, spAlt>>
     \/ /\ Fix # Route[wp].cell
        /\ SetSetpoint(WpAlt(wp))
        /\ IF OutOfTime
           THEN /\ IF stop'
                   THEN Land(TRUE)
                   ELSE Goto("hold") /\ UNCHANGED aborting
                /\ UNCHANGED slept
           ELSE /\ slept' = TRUE
                /\ UNCHANGED <<pc, since, aborting>>
  /\ UNCHANGED <<code, summary, wp, frame, clocks, pumps, feeds, vehicle, mode,
                 release>>

\* Hold over the waypoint, then settle, then scan in a worker thread.
Hold ==
  /\ pc = "hold"
  /\ \E raised \in BOOLEAN :
       /\ spAlt' \in Effect(raised, spAlt, WpAlt(wp))
       /\ IF raised THEN Crash ELSE Goto("settle") /\ UNCHANGED aborting
  /\ UNCHANGED <<rest, code, pumps, vehicle, mode, release>>

Settle ==
  /\ pc = "settle" /\ since = SleepTime
  /\ Goto("scan")
  /\ UNCHANGED <<rest, aborting, code, pumps, craft>>

\* The worker looks at _stop before each of its frames.
ScanFrame ==
  /\ pc = "scan" /\ ~stop /\ frame < Frames
  /\ frame' = frame + 1
  /\ UNCHANGED <<pc, since, ctl, poseAge, wp, hist, clocks, pumps, feeds,
                 craft>>

ScanEnds ==
  /\ pc = "scan"
  /\ \/ /\ stop \/ frame = Frames
        /\ Goto("next_wp")
        /\ wp' = wp + 1
        /\ UNCHANGED aborting
     \/ Crash /\ UNCHANGED wp
  /\ frame' = 0
  /\ UNCHANGED <<slept, stop, reason, code, summary, velFail, poseAge, hist,
                 clocks, pumps, feeds, craft>>
-----------------------------------------------------------------------------
(* _land_and_disarm, and the end of main() *)

StopOffboard ==
  /\ pc = "stop_offboard"
  /\ \E raised \in BOOLEAN : mode' \in Effect(raised, mode, "hold")
  /\ Goto("land")
  /\ UNCHANGED <<rest, aborting, code, pumps, vehicle, spAlt, release>>

OrderLanding ==
  /\ pc = "land"
  /\ \E raised \in BOOLEAN : mode' \in Effect(raised, mode, "land")
  /\ release' = IF mode' = "offboard" THEN "lost" ELSE "done"
  /\ Goto("await_ground")
  /\ UNCHANGED <<rest, aborting, code, pumps, vehicle, spAlt>>

\* What _land_and_disarm returns.
VerdictLost == 0
Verdict == IF aborting THEN 1 ELSE 0

\* in_air yields False.  The flight controller never says so of a vehicle in
\* the air; it may go on saying True of one on the ground.
GroundSeen ==
  /\ pc = "await_ground" /\ vehicle # "flying"
  /\ Goto("disarm")
  /\ UNCHANGED <<rest, aborting, code, pumps, craft>>

\* A vehicle disarmed at the cap, whatever in_air says.
DisarmAtTheCap ==
  /\ pc = "await_ground"
  /\ Goto("disarm")
  /\ UNCHANGED <<rest, aborting, code, pumps, craft>>

\* The same wait without its cap.
GroundAwaited ==
  /\ pc = "await_ground" /\ vehicle # "flying"
  /\ Return(Verdict)
  /\ UNCHANGED <<rest, aborting, craft>>

\* in_air yields True past the cap, or the stream raises: no disarm.
GroundNotSeen ==
  /\ pc = "await_ground"
  /\ Return(Verdict)
  /\ UNCHANGED <<rest, aborting, craft>>

Disarm ==
  /\ pc = "disarm"
  /\ \E raised \in BOOLEAN : vehicle' \in Effect(raised, vehicle, "disarmed")
  /\ Return(Verdict)
  /\ UNCHANGED <<rest, aborting, mode, spAlt, release>>

\* main()'s finally block: run_summary.json says whether the run was aborted,
\* unless it cannot be written.
Finalise ==
  /\ pc = "finalise"
  /\ Goto("exit")
  /\ summary' \in {None, code # 0}
  /\ UNCHANGED <<slept, stop, reason, aborting, code, velFail, poseAge, leg,
                 clocks, pumps, feeds, craft>>

Exited == pc = "exit" /\ UNCHANGED vars

-----------------------------------------------------------------------------
(* Operator, pumps and subscriber *)

\* SIGINT or SIGTERM once the handlers are in place: request_stop.
Interrupt ==
  /\ pc \notin {"start", "exit"} /\ ~stop
  /\ stop' = TRUE
  /\ UNCHANGED <<pc, since, slept, reason, aborting, code, summary, velFail,
                 poseAge, leg, clocks, pumps, feeds, craft>>

TelemSample ==
  /\ telem
  /\ fcAge' = 0
  /\ fcCell' \in Cells
  /\ telem' = ~stop
  /\ UNCHANGED <<pc, since, ctl, poseAge, leg, elapsed, uwbAge, battery,
                 uwbCell, batt, craft>>

BatterySample ==
  /\ battery
  /\ batt' \in {"ok", "low"}
  /\ battery' = ~stop
  /\ UNCHANGED <<pc, since, ctl, poseAge, leg, clocks, telem, fcCell, uwbCell,
                 craft>>

\* A telemetry stream raises: its loop returns and is not restarted.
PumpDies ==
  /\ \/ telem /\ telem' = FALSE /\ UNCHANGED battery
     \/ battery /\ battery' = FALSE /\ UNCHANGED telem
  /\ UNCHANGED <<rest, pc, since, aborting, code, craft>>

\* _on_pose of the UWB subscriber; --pose fc reads none of it.
UwbPacket ==
  /\ pc # "exit" /\ PoseSource # "fc"
  /\ uwbAge' = 0
  /\ uwbCell' \in Cells
  /\ UNCHANGED <<pc, since, ctl, poseAge, leg, elapsed, fcAge, pumps, fcCell,
                 batt, craft>>

-----------------------------------------------------------------------------
(* The vehicle *)

Lift ==
  /\ vehicle = "armed" /\ mode = "offboard" /\ spAlt > 0
  /\ vehicle' = "flying"
  /\ UNCHANGED <<rest, pc, since, aborting, code, pumps, mode, spAlt, release>>

\* The flight controller's own failsafes and the safety pilot land it too.
Failsafe ==
  /\ vehicle = "flying" /\ mode # "land"
  /\ mode' = "land"
  /\ UNCHANGED <<rest, pc, since, aborting, code, pumps, vehicle, spAlt,
                 release>>

Touchdown ==
  /\ vehicle = "flying" /\ mode = "land"
  /\ vehicle' = "armed"
  /\ UNCHANGED <<rest, pc, since, aborting, code, pumps, mode, spAlt, release>>

\* On the ground the flight controller disarms by itself.
AutoDisarm ==
  /\ vehicle = "armed"
  /\ vehicle' = "disarmed"
  /\ UNCHANGED <<rest, pc, since, aborting, code, pumps, mode, spAlt, release>>

-----------------------------------------------------------------------------
Coroutine ==
  \/ Startup \/ Connect \/ LinkYields \/ HealthYields \/ StreamRaises
  \/ Arm \/ Prestream \/ StartOffboard \/ Reject \/ Takeoff \/ Climb
  \/ NextWaypoint \/ PollAborts \/ PollWithoutFix \/ PollWithFix
  \/ Hold \/ Settle \/ ScanFrame \/ ScanEnds
  \/ StopOffboard \/ OrderLanding \/ GroundSeen \/ GroundNotSeen \/ Disarm
  \/ Finalise

Environment ==
  \/ Interrupt \/ TelemSample \/ BatterySample \/ PumpDies \/ UwbPacket
  \/ Lift \/ Failsafe \/ Touchdown \/ AutoDisarm

Next == Tick \/ Coroutine \/ Environment \/ Exited

Spec == Init /\ [][Next]_vars

\* The event loop runs the coroutine, a call answers or raises, a stream goes
\* on yielding, and time passes.  Nothing is assumed of the environment.
Fairness == WF_vars(Coroutine) /\ WF_vars(Tick)

FairSpec == Spec /\ Fairness
-----------------------------------------------------------------------------
(* Properties *)

\* Every variable has the values the code can give it.
TypeMission ==
  /\ pc \in Places
  /\ slept \in BOOLEAN /\ stop \in BOOLEAN /\ aborting \in BOOLEAN
  /\ reason \in Reasons \cup {None}
  /\ code \in {None, 0, 1, 2}
  /\ summary \in BOOLEAN \cup {None}

TypeCounts ==
  /\ wp \in 1 .. Len(Route) + 1
  /\ frame \in 0 .. Frames
  /\ velFail \in 0 .. VelFailAbort

TypeClocks ==
  /\ since \in Nat /\ elapsed \in Nat
  /\ poseAge \in 0 .. AgeCap \cup {None}
  /\ fcAge \in 0 .. AgeCap /\ uwbAge \in 0 .. AgeCap
  /\ hist \subseteq [age : 0 .. StuckWindow, cell : Cells]

TypeFeeds ==
  /\ telem \in BOOLEAN /\ battery \in BOOLEAN
  /\ fcCell \in Cells
  /\ uwbCell \in Cells \cup {None}
  /\ batt \in {None, "ok", "low"}

TypeCraft ==
  /\ vehicle \in {"disarmed", "armed", "flying"}
  /\ mode \in {"manual", "offboard", "hold", "land"}
  /\ spAlt \in Nat
  /\ release \in {"none", "done", "lost"}

TypeOK == TypeMission /\ TypeCounts /\ TypeClocks /\ TypeFeeds /\ TypeCraft

Contract == INSTANCE FlightContract WITH over <- (pc = "exit")

\* The mission keeps the contract of every flight program: neither the
\* OffboardError handler's disarm nor the one after in_air=False meets a
\* vehicle in the air, unless offboard.stop() and land() were both lost; there
\* is no takeoff after them; and the program does not end with an armed
\* vehicle that it did not try to release.
ImplementsContract == Contract!Spec

\* "Refusing to fly" (return 2) means that the vehicle is left disarmed and
\* was never sent an altitude, whichever of the three refusals was taken.
RefusalStaysDown == code = 2 => vehicle = "disarmed" /\ spAlt = 0

\* Exit code 0 is a survey that no watchdog ended and that got to its last
\* waypoint or to its time limit, whatever happened while it landed.
SuccessMeansSurveyed ==
  code = 0 => reason = None /\ (wp > Len(Route) \/ elapsed > MaxFlightTime)

\* A watchdog's abort is never lost on the way to the exit code and to
\* run_summary.json.
AbortIsReported ==
  pc = "exit" /\ reason # None => code = 1 /\ summary # FALSE

\* The exit code tells the truth, of an aborted survey and of a successful one.
VerdictIsTrue == SuccessMeansSurveyed /\ AbortIsReported

\* No setpoint is above the net, whatever --takeoff-alt and the route say.
BelowTheNet == spAlt <= MaxSafeAlt

\* Once _stop is set, by the operator or a watchdog, no further waypoint is
\* flown to, a leg under way goes straight to the landing, without its hold and
\* scan, and the worker thread begins no further frame.
StopEndsSurvey ==
  [][stop => /\ ~(pc = "next_wp" /\ pc' = "nav")
             /\ pc = "nav" /\ pc' # "nav" => pc' = "stop_offboard"
             /\ frame' <= frame]_vars

\* With --pose fc, a mission that had a fix is not flown on for longer without
\* one than the watchdog's patience or, where that is longer, the stretch from
\* reaching a waypoint to the first poll for the next one.
BlindBound ==
  FcPoseStale
    + Highest(PoseLossLand + 1, RpcTime + SleepTime + Frames * GrabTime)

BlindFlightBounded ==
  PoseSource = "fc" /\ poseAge # None /\ fcAge >= BlindBound
    => pc \notin Flight

\* Under Fairness the program comes to its end, whatever fails on the way.
Terminates == <>(pc = "exit")

-----------------------------------------------------------------------------
(* Why the contract is kept: inductive invariants of the steps above. *)

Preflight == {"start", "connect", "await_link", "await_health", "arm"}
OnGround  == Preflight \cup {"prestream", "offboard", "reject", "takeoff"}
Ended     == {"finalise", "exit"}

\* Until the takeoff setpoint the vehicle has no altitude to fly to, and the
\* orders to leave offboard and to land are given exactly by the landing.
CraftInv ==
  /\ pc \in Places
  /\ vehicle \in {"disarmed", "armed", "flying"}
  /\ release \in {"none", "done", "lost"}
  /\ code # None => pc \in Ended
  /\ pc \in Preflight => vehicle = "disarmed"
  /\ pc \in OnGround => vehicle # "flying" /\ spAlt = 0
  /\ pc \in {"await_ground", "disarm"} => release # "none"
  /\ pc \notin {"await_ground", "disarm"} \cup Ended => release = "none"
  /\ pc \in Ended /\ release = "none" => vehicle = "disarmed" /\ spAlt = 0
  /\ code = 2 => release = "none"
  /\ pc = "disarm" /\ vehicle = "flying" => release = "lost"
  /\ release = "done" => mode # "offboard"

\* A waypoint is flown to, held over and scanned only while there is one, and
\* setpoints that failed VelFailAbort times in a row have set _stop.
AtWaypoint == {"nav", "hold", "settle", "scan"}

LegInv ==
  /\ TypeOK
  /\ pc \in AtWaypoint => wp <= Len(Route)
  /\ velFail = VelFailAbort => stop
  /\ spAlt <= MaxSafeAlt

-----------------------------------------------------------------------------
(* What README.md says of the mission and the code does not do.  (Its word on
   the stale-fix abort needs a history variable: see MCMoveItFix.) *)

\* README "Safety": Ctrl-C requests a stop and lands; a mission that is asked
\* to stop before takeoff does not arm.
NoArmAfterStop == [][stop => ~(pc = "arm" /\ pc' = "prestream")]_vars

\* README "Safety": the no-fix abort is for no fix at all.
NeverFixAbortMeansNoFix ==
  [][reason = None /\ reason' = "no_fix" => ~Ready]_vars

\* README "Safety": a fix that is stale for longer than PoseLossLand is caught
\* by the next poll.
StaleFixIsCaught ==
  pc = "nav" /\ slept /\ ~stop /\ poseAge # None
    => fcAge <= PoseLossLand \/ uwbAge <= PoseLossLand

\* README "Safety": the wait for in_air=False has a hard cap.
LandingWaitCapped == pc = "await_ground" => since <= LandDeadline + 1
=============================================================================

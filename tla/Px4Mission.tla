----------------------------- MODULE Px4Mission -----------------------------
(***************************************************************************)
(* semifinal/mapping_drone/px4_mission.py and px4_ros.py: the fallback     *)
(* mission, which flies PX4 over ROS 2 topics.                             *)
(*                                                                         *)
(* Two threads: the mission, which is sequential, and the rclpy executor,  *)
(* which streams the setpoint and stores the last position and status.     *)
(* Commands are best-effort messages: they arrive in order, or are lost,   *)
(* and nobody sends them again or hears of their loss.                     *)
(***************************************************************************)
EXTENDS Naturals, Sequences

CONSTANTS
  None,        \* no value
  TakeoffAlt,  \* --takeoff-alt
  MaxSafeAlt,  \* MAX_SAFE_ALT_M
  Alts,        \* the altitude of each waypoint
  LossPolls    \* polls without a pose until _fly_to gives up

ASSUME Px4Assumption ==
  /\ TakeoffAlt \in Nat \ {0} /\ MaxSafeAlt \in Nat \ {0}
  /\ Alts \in Seq(Nat \ {0}) /\ LossPolls \in Nat

\* no value is none of the values it stands for the absence of
ASSUME NoneAssumption == None # "pose"

VARIABLES
  mode,      \* "check", "nofly" or "fly"
  pc,        \* where the mission thread is
  stop,      \* _stop: None, or who set it, "operator" or "pose"
  wp,        \* the waypoint that is flown to
  blind,     \* polls of this leg since lost_since
  aborted,   \* the argument of _land_and_disarm
  code,      \* the exit code
  summary,   \* "aborted" in run_summary.json; None if none was written
  executor,  \* does the spin thread run?
  decodes,   \* does it live and does every status message come through?
  streaming, \* _stream: setpoints are sent
  spAlt,     \* the altitude of the setpoint; 0 before there is one
  pose,      \* is get_pose() valid?
  armed, offboard,      \* the last status that was heard
  cmds,      \* commands on their way
  nav,       \* PX4's mode: "manual", "offboard" or "land"
  vehicle,   \* "disarmed", "armed" (on the ground) or "flying"
  release    \* the order to land: "none" given, "done" or "lost"

run   == <<mode, code, summary>>
leg   == <<wp, blind>>
ros   == <<executor, decodes, pose, armed, offboard>>
feed  == <<streaming, spAlt>>
craft == <<nav, vehicle, release>>
vars  == <<run, pc, stop, leg, aborted, ros, feed, cmds, craft>>

Flight == {"takeoff", "wp", "leg", "scan"}
Places == {"start", "await_pose", "target", "engage", "arm", "await_armed",
           "check", "nofly", "land", "await_ground", "finalise", "exit"}
          \cup Flight

Goto(place) == pc' = place

Init ==
  /\ mode \in {"check", "nofly", "fly"} /\ pc = "start" /\ stop = None
  /\ wp = 1 /\ blind = 0 /\ aborted = FALSE /\ code = None /\ summary = None
  /\ executor = FALSE /\ decodes \in BOOLEAN /\ streaming = FALSE /\ spAlt = 0
  /\ pose = FALSE /\ armed = FALSE /\ offboard = FALSE /\ cmds = <<>>
  /\ nav = "manual" /\ vehicle = "disarmed" /\ release = "none"

-----------------------------------------------------------------------------
(* main(): start, end and the crash that lands *)

Start ==
  /\ pc = "start"
  /\ executor' = TRUE
  /\ Goto(IF mode = "fly" THEN "await_pose" ELSE mode)
  /\ UNCHANGED <<run, stop, leg, aborted, decodes, pose, armed, offboard,
                 feed, cmds, craft>>

\* A Ctrl-C that no handler of the program turns into a stop: the shell's code.
Interrupted == 130

\* Neither the node nor the camera need come up; --check goes on without one.
\* Before main()'s try - without px4_msgs it returns 2 there - nothing is
\* finalised; a Ctrl-C in the try, which is no Exception, finalises as not aborted.
StartFails ==
  /\ pc = "start"
  /\ \/ Goto("exit") /\ code' \in {1, 2, Interrupted} /\ UNCHANGED <<executor, aborted>>
     \/ /\ Goto("finalise") /\ executor' \in BOOLEAN
        /\ \/ code' = 1 /\ aborted' = TRUE
           \/ code' = Interrupted /\ UNCHANGED aborted
  /\ UNCHANGED <<mode, summary, stop, leg, decodes, pose, armed, offboard,
                 feed, cmds, craft>>

\* The handler without its look at args.fly.
CrashLands ==
  /\ pc \in {"await_pose", "engage", "arm", "scan", "nofly"}
  /\ aborted' = TRUE /\ code' = 1
  /\ Goto("land")
  /\ UNCHANGED <<mode, summary, stop, leg, ros, feed, cmds, craft>>

\* An exception in the mission: a flight is landed, whatever was begun.
Crash ==
  /\ pc \in {"await_pose", "engage", "arm", "scan", "nofly"}
  /\ aborted' = TRUE /\ code' = 1
  /\ Goto(IF mode = "fly" THEN "land" ELSE "finalise")
  /\ UNCHANGED <<mode, summary, stop, leg, ros, feed, cmds, craft>>

Return(c) == Goto("finalise") /\ code' = c

\* The closers without flight.stop().
FinaliseOpen ==
  /\ pc = "finalise" /\ cmds = <<>> /\ Goto("exit")
  /\ summary' \in {None, aborted \/ (mode # "check" /\ code \notin {0, Interrupted})}
  /\ UNCHANGED <<mode, code, stop, leg, aborted, ros, feed, cmds, craft>>

\* main()'s finally block, which takes seconds and takes the node down, so no
\* command is on its way after it; --check is aborted only by an exception.
Finalise ==
  /\ pc = "finalise" /\ cmds = <<>> /\ Goto("exit")
  /\ summary' \in {None, aborted \/ (mode # "check" /\ code \notin {0, Interrupted})}
  /\ executor' = FALSE
  /\ UNCHANGED <<mode, code, stop, leg, aborted, decodes, pose, armed,
                 offboard, feed, cmds, craft>>

Exited == pc = "exit" /\ UNCHANGED vars

\* --check: a pose seen once is enough.  --nofly: scans until the time is over.
Check ==
  /\ pc = "check"
  /\ \E got_fix \in BOOLEAN : Return(IF got_fix THEN 0 ELSE 2)
  /\ UNCHANGED <<mode, summary, stop, leg, aborted, ros, feed, cmds, craft>>

NoflyScan ==
  /\ pc = "nofly" /\ Return(0)
  /\ UNCHANGED <<mode, summary, stop, leg, aborted, ros, feed, cmds, craft>>

-----------------------------------------------------------------------------
(* run_fly up to the takeoff *)

mission == <<run, stop, leg, aborted>>

PoseSeen ==
  /\ pc = "await_pose" /\ pose /\ stop = None
  /\ Goto("target")
  /\ UNCHANGED <<mission, ros, feed, cmds, craft>>

\* No pose in POSE_WAIT_S, or a stop: the flight is refused.
Refuse ==
  /\ pc = "await_pose" /\ Return(2)
  /\ UNCHANGED <<mode, summary, stop, leg, aborted, ros, feed, cmds, craft>>

\* The first setpoint, and the timer streams it from now on.
Clamped(alt) == IF alt > MaxSafeAlt THEN MaxSafeAlt ELSE alt

FirstTarget ==
  /\ pc = "target" /\ Goto("engage")
  /\ spAlt' = TakeoffAlt /\ streaming' = TRUE
  /\ UNCHANGED <<mission, ros, cmds, craft>>

Send(c) == cmds' = Append(cmds, c)

Engage ==
  /\ pc = "engage" /\ Goto("arm") /\ Send("offboard")
  /\ UNCHANGED <<mission, ros, feed, craft>>

Arm ==
  /\ pc = "arm" /\ Goto("await_armed") /\ Send("arm")
  /\ UNCHANGED <<mission, ros, feed, craft>>

\* Seconds have passed: commands have arrived or never will, and what the
\* vehicle says has been heard if it can be.
Settled ==
  /\ cmds = <<>>
  /\ decodes => /\ armed = (vehicle # "disarmed")
               /\ offboard = (nav = "offboard")

Target(alt) == spAlt' = Clamped(alt) /\ blind' = 0

\* Armed and in offboard, as last heard: _fly_to the takeoff altitude.
ArmedSeen ==
  /\ pc = "await_armed" /\ armed /\ offboard
  /\ Goto("takeoff") /\ Target(TakeoffAlt)
  /\ UNCHANGED <<run, stop, wp, aborted, ros, streaming, cmds, craft>>

NotArmed ==
  /\ pc = "await_armed" /\ ~(armed /\ offboard) /\ Settled
  /\ Goto("land") /\ aborted' = TRUE
  /\ UNCHANGED <<run, stop, leg, ros, feed, cmds, craft>>

-----------------------------------------------------------------------------
(* The survey *)

\* _fly_to returns; the takeoff must have been reached, a waypoint need not.
FlownTo(reached) ==
  IF pc = "leg" THEN Goto("scan") /\ UNCHANGED aborted
  ELSE IF reached THEN Goto("wp") /\ UNCHANGED aborted
  ELSE Goto("land") /\ aborted' = TRUE

Reached ==
  /\ pc \in {"takeoff", "leg"} /\ stop = None /\ pose
  /\ FlownTo(TRUE)
  /\ UNCHANGED <<run, stop, leg, ros, feed, cmds, craft>>

NotReached ==
  /\ pc \in {"takeoff", "leg"} /\ (stop # None \/ Settled)
  /\ FlownTo(FALSE)
  /\ UNCHANGED <<run, stop, leg, ros, feed, cmds, craft>>

\* One poll without a valid pose; too many in a row stop the mission.
PollBlind ==
  /\ pc \in {"takeoff", "leg"} /\ stop = None /\ ~pose
  /\ IF blind < LossPolls
       THEN blind' = blind + 1 /\ UNCHANGED <<pc, stop, aborted>>
       ELSE stop' = "pose" /\ UNCHANGED blind /\ FlownTo(FALSE)
  /\ UNCHANGED <<run, wp, ros, feed, cmds, craft>>

PollSeeing ==
  /\ pc \in {"takeoff", "leg"} /\ stop = None /\ pose
  /\ blind' = 0
  /\ UNCHANGED <<run, pc, stop, wp, aborted, ros, feed, cmds, craft>>

\* One waypoint too many.
NextWaypointPast ==
  /\ pc = "wp" /\ stop = None /\ wp <= Len(Alts) + 1
  /\ Goto("leg") /\ Target(TakeoffAlt)
  /\ UNCHANGED <<run, stop, wp, aborted, ros, streaming, cmds, craft>>

NextWaypoint ==
  /\ pc = "wp" /\ stop = None /\ wp <= Len(Alts)
  /\ Goto("leg") /\ Target(Alts[wp])
  /\ UNCHANGED <<run, stop, wp, aborted, ros, streaming, cmds, craft>>

\* A landing that calls itself complete.
SurveyDone ==
  /\ pc = "wp" /\ Goto("land") /\ aborted' = FALSE
  /\ UNCHANGED <<run, stop, leg, ros, feed, cmds, craft>>

\* Stopped, out of time, or through: aborted if it was stopped.
SurveyEnds ==
  /\ pc = "wp" /\ Goto("land") /\ aborted' = (stop # None)
  /\ UNCHANGED <<run, stop, leg, ros, feed, cmds, craft>>

ScanOnce ==
  /\ pc = "scan" /\ Goto("wp") /\ wp' = wp + 1
  /\ UNCHANGED <<run, stop, blind, aborted, ros, feed, cmds, craft>>

-----------------------------------------------------------------------------
(* _land_and_disarm *)

Verdict == IF aborted THEN 1 ELSE 0

\* land() is sent, once, or raises.
Land ==
  /\ pc = "land" /\ Goto("await_ground")
  /\ \/ Send("land") /\ UNCHANGED release
     \/ release' = "lost" /\ UNCHANGED cmds
  /\ UNCHANGED <<mission, ros, feed, nav, vehicle>>

\* armed is False, as last heard: disarm() is sent too.
GroundSeen ==
  /\ pc = "await_ground" /\ ~armed
  /\ Return(Verdict)
  /\ Send("disarm") \/ UNCHANGED cmds
  /\ UNCHANGED <<mode, summary, stop, leg, aborted, ros, feed, craft>>

\* Disarming anyway when the wait is over.
DisarmAnyway ==
  /\ pc = "await_ground" /\ armed /\ Settled
  /\ Return(Verdict) /\ Send("disarm")
  /\ UNCHANGED <<mode, summary, stop, leg, aborted, ros, feed, craft>>

\* Waiting on.
AwaitGround == pc = "await_ground" /\ armed /\ UNCHANGED vars

\* Still armed after forty looks: no disarm.
GroundNotSeen ==
  /\ pc = "await_ground" /\ armed /\ Settled
  /\ Return(Verdict)
  /\ UNCHANGED <<mode, summary, stop, leg, aborted, ros, feed, cmds, craft>>

-----------------------------------------------------------------------------
(* The other actors *)

\* The handler of SIGINT and SIGTERM.
RequestStop ==
  /\ pc \notin {"start", "finalise", "exit"} /\ stop = None
  /\ stop' = "operator"
  /\ UNCHANGED <<run, pc, leg, aborted, ros, feed, cmds, craft>>

\* _on_status and _on_local_position, in the executor; a position grows old
\* by itself.
StatusHeard ==
  /\ executor
  /\ armed' = (vehicle # "disarmed") /\ offboard' = (nav = "offboard")
  /\ UNCHANGED <<mission, pc, executor, decodes, pose, feed, cmds, craft>>

PositionHeard ==
  /\ executor \/ pose
  /\ pose' \in (IF executor THEN BOOLEAN ELSE {FALSE})
  /\ UNCHANGED <<mission, pc, executor, decodes, armed, offboard, feed, cmds,
                 craft>>

\* An exception in a callback ends the spin thread.
ExecutorDies ==
  /\ executor /\ ~decodes /\ executor' = FALSE
  /\ UNCHANGED <<mission, pc, decodes, pose, armed, offboard, feed, cmds, craft>>

\* The next command arrives.  PX4 enters offboard only while setpoints come,
\* and may refuse to arm.
Obey(c) ==
  CASE c = "offboard" ->
         nav' = (IF executor /\ streaming THEN "offboard" ELSE nav)
           /\ UNCHANGED <<vehicle, release>>
    [] c = "arm" ->
         vehicle' \in {vehicle, IF vehicle = "disarmed" THEN "armed" ELSE vehicle}
           /\ UNCHANGED <<nav, release>>
    [] c = "land" -> nav' = "land" /\ release' = "done" /\ UNCHANGED vehicle
    [] c = "disarm" -> vehicle' = "disarmed" /\ UNCHANGED <<nav, release>>

Deliver ==
  /\ cmds # <<>> /\ cmds' = Tail(cmds) /\ Obey(Head(cmds))
  /\ UNCHANGED <<mission, pc, ros, feed>>

Lose ==
  /\ cmds # <<>> /\ cmds' = Tail(cmds)
  /\ release' = IF Head(cmds) = "land" THEN "lost" ELSE release
  /\ UNCHANGED <<mission, pc, ros, feed, nav, vehicle>>

\* Without setpoints PX4 leaves offboard and lands.
OffboardLoss ==
  /\ nav = "offboard" /\ ~(executor /\ streaming)
  /\ nav' = "land"
  /\ UNCHANGED <<mission, pc, ros, feed, cmds, vehicle, release>>

Lift ==
  /\ vehicle = "armed" /\ nav = "offboard" /\ spAlt > 0
  /\ vehicle' = "flying"
  /\ UNCHANGED <<mission, pc, ros, feed, cmds, nav, release>>

ComeDown ==
  /\ nav = "land"
  /\ \/ vehicle = "flying" /\ vehicle' = "armed"
     \/ vehicle = "armed" /\ vehicle' = "disarmed"
  /\ UNCHANGED <<mission, pc, ros, feed, cmds, nav, release>>

-----------------------------------------------------------------------------
Program ==
  \/ Start \/ StartFails \/ Crash \/ Finalise \/ Check \/ NoflyScan
  \/ PoseSeen \/ Refuse \/ FirstTarget \/ Engage \/ Arm \/ ArmedSeen
  \/ NotArmed \/ Reached \/ NotReached \/ PollBlind \/ NextWaypoint
  \/ SurveyEnds \/ ScanOnce \/ Land \/ GroundSeen \/ GroundNotSeen

Px4 == Deliver \/ OffboardLoss \/ ComeDown

World ==
  \/ RequestStop \/ StatusHeard \/ PositionHeard \/ ExecutorDies \/ Lose
  \/ Lift \/ PollSeeing

Next == Program \/ Px4 \/ World \/ Exited

Spec == Init /\ [][Next]_vars

\* The mission thread runs, PX4 obeys and fails safe, and a status that can
\* be heard is.
FairSpec ==
  Spec /\ WF_vars(Program) /\ WF_vars(Px4) /\ WF_vars(StatusHeard)

-----------------------------------------------------------------------------
TypeOK ==
  /\ mode \in {"check", "nofly", "fly"} /\ pc \in Places
  /\ stop \in {None, "operator", "pose"}
  /\ wp \in 1..Len(Alts) + 1 /\ blind \in 0..LossPolls
  /\ code \in {None, 0, 1, 2, Interrupted} /\ summary \in {None, TRUE, FALSE}
  /\ {aborted, executor, decodes, streaming, pose, armed, offboard} \subseteq BOOLEAN
  /\ spAlt \in Nat /\ cmds \in Seq({"offboard", "arm", "land", "disarm"})
  /\ nav \in {"manual", "offboard", "land"}
  /\ vehicle \in {"disarmed", "armed", "flying"}
  /\ release \in {"none", "done", "lost"}

\* While the status is heard, the mission keeps the flight contract; an order
\* is given when it arrives.
Contract == INSTANCE FlightContract WITH
  vehicle <- IF decodes THEN vehicle ELSE "disarmed",
  release <- IF decodes THEN release ELSE "none",
  over    <- decodes /\ pc = "exit"
ImplementsContract == Contract!Spec

\* --check and --nofly send nothing to the vehicle, in a crash neither.
GroundedModes ==
  mode # "fly" => vehicle = "disarmed" /\ cmds = <<>> /\ release = "none"

\* A pose that was lost in flight is in the exit code, whatever was scanned,
\* flown or lost afterwards, exit code 0 was flown to the end of a takeoff
\* nobody stopped, and the summary agrees unless the start was interrupted.
LossIsReported ==
  pc = "exit" /\ mode = "fly" =>
    /\ stop = "pose" => code = 1
    /\ code = 0 => spAlt > 0 /\ ~aborted
    /\ summary # None /\ code # Interrupted => summary = (code # 0)

\* The summary of a flight that did not end well says so.  Violated by a Ctrl-C
\* while the node or the camera comes up; no run.
SummaryTellsTheCode ==
  pc = "exit" /\ mode = "fly" /\ summary # None => summary = (code # 0)

\* The bench modes leave the vehicle alone, and a flight reports how it ended.
Px4Inv == TypeOK /\ GroundedModes /\ LossIsReported

\* A run that has ended leaves a vehicle that comes down, its order to land
\* lost or not.
ComesDown == pc = "exit" ~> vehicle # "flying"

\* A stop request ends the program.
StopEnds == (stop # None) ~> (pc = "exit")

\* No setpoint is above the net.
BelowTheNet == spAlt <= MaxSafeAlt

\* Disarming is sent only to a vehicle that was heard to be disarmed.
DisarmObserved ==
  [][pc = "await_ground" /\ cmds' = Append(cmds, "disarm")
       => vehicle = "disarmed"]_vars
=============================================================================

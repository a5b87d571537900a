-------------------------- MODULE SearchController --------------------------
(***************************************************************************)
(* searchctl/controller.py: the qualifier's controller.                    *)
(*                                                                         *)
(* One asyncio loop runs run() and, beside it, the telemetry monitor, the  *)
(* setpoint pumper, the watchdog, the status writer and the mapping task;  *)
(* signals set state.abort_requested.  Time is a count of ticks of about   *)
(* ten seconds; the planner's loop runs many times in one.                 *)
(***************************************************************************)
EXTENDS Naturals, Sequences

CONSTANTS
  Unset,                       \* None
  ArmableTime, ClimbTime,      \* the deadlines of the setup
  WatchTime,                   \* the watchdog's timeout_s
  Grace, Window,               \* STUCK_WATCHDOG_GRACE_S, _WINDOW_S
  BonusDeadline, Hold,         \* BONUS_HARD_LAND_S, BONUS_DUAL_COLOUR_HOLD_S
  PlateauBonus, PlateauDefault, ScanEvery,
  LandTime, EmergencyTime,     \* waits of land_and_disarm, emergency_land
  MaxFound                     \* barrels of each colour that can be found

ASSUME SearchAssumption ==
  /\ {ArmableTime, ClimbTime, WatchTime, Grace, Window, BonusDeadline, Hold,
      PlateauBonus, PlateauDefault, ScanEvery, LandTime, EmergencyTime}
       \subseteq Nat \ {0}
  /\ MaxFound \in Nat /\ LandTime < EmergencyTime

VARIABLES
  bonus,       \* --bonus
  pc,          \* where run() is
  abort,       \* state.abort_requested
  code,        \* what run() returns
  emergency,   \* is emergency_land running, or has it run?
  live,        \* telemetry streams that still store: "pose", "air"
  sawAlt, sawAir, sawPos, \* down_m, in_air and north_m/east_m as stored
  vehicle,     \* "disarmed", "armed" (on the ground), "low" or "high"
  nav,         \* PX4's mode: "hold", "takeoff", "offboard" or "land"
  pos,         \* the place the vehicle is at
  landed,      \* land() was given: "no", "yes" or "lost"
  age,         \* ticks in the current wait
  idle,        \* ticks since last_planner_progress
  watch,       \* the watchdog task: "off", "on", "tripped" or "done"
  loopAge,     \* ticks since loop_start_ts
  history,     \* pos_history, one entry per tick
  found,       \* unique barrels: yellow and red
  lastTotal, sinceChange,      \* last_unique_total, last_unique_change_at
  sinceBoth,   \* ticks since dual_colour_first_seen_at; Unset before it
  scanIn,      \* ticks until scan_start_at
  slow,        \* is the commanded velocity about zero?
  ran,         \* has the loop run in this tick?
  why          \* early_exit_reason

setup      == <<bonus, code, emergency>>
stored     == <<sawAlt, sawAir, sawPos>>
telemetry  == <<live, stored>>
craftState == <<vehicle, nav, pos, landed>>
search     == <<found, lastTotal, sinceChange, sinceBoth>>
loopClocks == <<loopAge, history, search, scanIn, slow, ran, why>>
dog        == <<idle, watch>>
vars       == <<pc, abort, setup, telemetry, craftState, age, dog, loopClocks>>

Altitudes == {"disarmed", "armed", "low", "high"}
Airborne == vehicle \in {"low", "high"}

Init ==
  /\ bonus \in BOOLEAN /\ pc = "connect" /\ abort = FALSE /\ code = Unset
  /\ emergency = FALSE /\ live = {}
  /\ sawAlt = "armed" /\ sawAir = FALSE /\ sawPos = 0
  /\ vehicle = "disarmed" /\ nav = "hold" /\ pos = 0 /\ landed = "no"
  /\ age = 0 /\ idle = 0 /\ watch = "off"
  /\ loopAge = 0 /\ history = <<>>
  /\ found = [yellow |-> 0, red |-> 0] /\ lastTotal = 0 /\ sinceChange = 0
  /\ sinceBoth = Unset /\ scanIn = ScanEvery /\ slow = TRUE
  /\ ran = FALSE /\ why = Unset

Goto(place) == pc' = place /\ age' = 0

-----------------------------------------------------------------------------
(* The setup: connection, health, takeoff, offboard *)

Step(from, to) ==
  /\ pc = from /\ Goto(to)
  /\ UNCHANGED <<abort, setup, telemetry, craftState, dog, loopClocks>>

Connected == Step("connect", "armable")

\* wait_until_armable, and then the telemetry monitor starts.
Armable ==
  /\ pc = "armable" /\ Goto("arm")
  /\ live' = {"pose", "air"}
  /\ UNCHANGED <<abort, setup, stored, craftState, dog, loopClocks>>

\* A call that raises, a wait that is over: the except branch of run().  The
\* tasks that were started are told to end by abort_requested.
Fatal ==
  /\ Goto("end_offboard") /\ emergency' = TRUE /\ abort' = TRUE
  /\ UNCHANGED <<bonus, code>>

\* At altitude, or when the time is over somewhere above a metre.
AtHeight ==
  \/ sawAlt = "high"
  \/ age >= ClimbTime /\ sawAir /\ sawAlt = "low"

\* The same as a return that leaves the vehicle as it is.
SetupReturns ==
  /\ \/ pc \in {"connect", "arm", "takeoff", "detect", "offboard"}
     \/ pc = "armable" /\ age >= ArmableTime
     \/ pc = "climb" /\ age >= ClimbTime /\ ~AtHeight
  /\ Goto("exit") /\ code' = 1 /\ emergency' = TRUE /\ abort' = TRUE
  /\ UNCHANGED <<bonus, telemetry, craftState, dog, loopClocks>>

\* A call of the setup raises, or its time is over.
SetupFails ==
  /\ \/ pc \in {"connect", "arm", "takeoff", "detect", "offboard"}
     \/ pc = "armable" /\ age >= ArmableTime
     \/ pc = "climb" /\ age >= ClimbTime /\ ~AtHeight
  /\ Fatal
  /\ UNCHANGED <<telemetry, craftState, dog, loopClocks>>

Arm ==
  /\ pc = "arm" /\ Goto("takeoff") /\ vehicle' = "armed"
  /\ UNCHANGED <<abort, setup, telemetry, nav, pos, landed, dog, loopClocks>>

Takeoff ==
  /\ pc = "takeoff" /\ Goto("climb") /\ nav' = "takeoff"
  /\ UNCHANGED <<abort, setup, telemetry, vehicle, pos, landed, dog, loopClocks>>

Climbed == AtHeight /\ Step("climb", "detect")

\* setup_detection in a thread; it may find no model and takes its time.
DetectionReady == Step("detect", "offboard")

\* begin_offboard, the tasks, and the loop's own clocks.
BeginOffboard ==
  /\ pc = "offboard" /\ Goto("loop") /\ nav' = "offboard"
  /\ watch' = "on"
  /\ UNCHANGED <<abort, setup, telemetry, vehicle, pos, landed, idle,
                 loopClocks>>

-----------------------------------------------------------------------------
(* The planner's loop: one pass *)

Total == found.yellow + found.red
Both  == found.yellow >= 1 /\ found.red >= 1

\* pos_history holds the positions of the last Window ticks, and is full in
\* time.
Longer   == IF ran THEN history ELSE Append(history, sawPos)
History  == IF Len(Longer) > Window + 1 THEN Tail(Longer) ELSE Longer
IsStuck  ==
  /\ loopAge >= Grace /\ Len(History) = Window + 1
  /\ History[1] = sawPos

Plateau == IF bonus THEN PlateauBonus ELSE PlateauDefault

\* last_unique_change_at is looked at with both colours only, and the time of
\* the second colour in bonus mode only.
Changed == IF Total # lastTotal \/ ~Both THEN 0 ELSE sinceChange
BothAge == IF bonus /\ Both /\ sinceBoth = Unset THEN 0 ELSE sinceBoth

\* The look at the clock comes after the other checks have gone on.
ReasonWithoutDeadline ==
  IF IsStuck THEN "stuck"
  ELSE IF Both /\ Changed >= Plateau THEN "plateau"
  ELSE Unset

\* The reason to break off, by the order of the checks; Unset to go on.
Reason ==
  IF bonus /\ loopAge >= BonusDeadline THEN "deadline"
  ELSE IF IsStuck THEN "stuck"
  ELSE IF bonus /\ BothAge # Unset /\ BothAge >= Hold THEN "dual"
  ELSE IF Both /\ Changed >= Plateau THEN "plateau"
  ELSE Unset

Books ==
  /\ history' = History /\ lastTotal' = Total /\ sinceChange' = Changed
  /\ sinceBoth' = BothAge /\ ran' = TRUE
  /\ UNCHANGED <<loopAge, found>>

BreakOff ==
  /\ pc = "loop" /\ ~abort /\ Reason # Unset
  /\ why' = Reason /\ Goto("cleanup")
  /\ Books
  /\ UNCHANGED <<abort, setup, telemetry, craftState, dog, scanIn, slow>>

StartScan ==
  /\ pc = "loop" /\ ~abort /\ Reason = Unset /\ scanIn = 0 /\ slow
  /\ Goto("scan") /\ idle' = 0
  /\ Books
  /\ UNCHANGED <<abort, setup, telemetry, craftState, watch, scanIn, slow, why>>

\* Without a depth frame the pass ends here, without progress.
NoDepth ==
  /\ pc = "loop" /\ ~abort /\ Reason = Unset /\ ~(scanIn = 0 /\ slow)
  /\ Books
  /\ UNCHANGED <<pc, age, abort, setup, telemetry, craftState, dog, scanIn, slow, why>>

\* compute(), the push away from a wall ahead, smoothing, the new target.
Follow ==
  /\ pc = "loop" /\ ~abort /\ Reason = Unset /\ ~(scanIn = 0 /\ slow)
  /\ slow' \in BOOLEAN /\ idle' = 0
  /\ Books
  /\ UNCHANGED <<pc, age, abort, setup, telemetry, craftState, watch, scanIn,
                 why>>

\* A full turn on the spot, or as far as an abort lets it come.
ScanEnds ==
  /\ pc = "scan" /\ (age > 0 \/ abort) /\ Goto("loop")
  /\ scanIn' = ScanEvery /\ idle' = 0
  /\ UNCHANGED <<abort, setup, telemetry, craftState, watch, loopAge, history,
                 search, slow, ran, why>>

\* The loop looks at its own reasons only.
LoopGoesOn ==
  /\ pc = "loop" /\ abort /\ UNCHANGED vars

\* while not state.abort_requested
LoopEnds ==
  /\ pc = "loop" /\ abort /\ Goto("cleanup")
  /\ UNCHANGED <<abort, setup, telemetry, craftState, dog, loopClocks>>

\* An exception in the loop: finally first, then emergency_land.
LoopRaises ==
  /\ pc = "loop" /\ ~abort /\ Goto("cleanup") /\ emergency' = TRUE
  /\ UNCHANGED <<bonus, code, abort, telemetry, craftState, dog, loopClocks>>

\* The finally block: the background tasks are cancelled, telemetry too, and
\* nothing reads what they stored any more.
Cleanup ==
  /\ pc = "cleanup" /\ Goto("end_offboard")
  /\ abort' = TRUE /\ live' = {}
  /\ watch' = IF watch = "tripped" THEN watch ELSE "done"
  /\ sawAlt' = "disarmed" /\ sawAir' = FALSE /\ sawPos' = 0 /\ idle' = 0
  /\ history' = <<>> /\ scanIn' = 0 /\ slow' = TRUE /\ ran' = FALSE
  /\ found' = [yellow |-> 0, red |-> 0] /\ lastTotal' = 0 /\ sinceChange' = 0
  /\ sinceBoth' = Unset
  /\ UNCHANGED <<setup, craftState, loopAge, why>>

-----------------------------------------------------------------------------
(* end_offboard and land_and_disarm, on the straight way or in               *)
(* emergency_land, whose handlers go on whatever is raised                    *)

\* A call that raises what the method does not catch.
Raised(next) ==
  IF emergency THEN Goto(next) /\ UNCHANGED <<abort, setup>> ELSE Fatal

EndOffboard ==
  /\ pc = "end_offboard"
  /\ \/ /\ nav' = (IF Airborne THEN "hold" ELSE nav) /\ Goto("land")
        /\ UNCHANGED <<abort, setup>>
     \/ UNCHANGED <<abort, setup, nav>> /\ Goto("land")
     \/ UNCHANGED nav /\ Raised("land")
  /\ UNCHANGED <<telemetry, vehicle, pos, landed, dog, loopClocks>>

\* An ActionError is logged; anything else ends land_and_disarm.
Land ==
  /\ pc = "land"
  /\ \/ nav' = "land" /\ landed' = "yes"
        /\ Goto("ground") /\ UNCHANGED <<abort, setup>>
     \/ /\ UNCHANGED nav /\ landed' = (IF landed = "yes" THEN "yes" ELSE "lost")
        /\ \/ Goto("ground") /\ UNCHANGED <<abort, setup>>
           \/ Raised("summary")
  /\ UNCHANGED <<telemetry, vehicle, pos, dog, loopClocks>>

\* The in_air stream yields FALSE, or yields TRUE after the deadline.
GroundSeen ==
  /\ pc = "ground" /\ (~Airborne \/ age >= LandTime)
  /\ Goto("disarm")
  /\ UNCHANGED <<abort, setup, telemetry, craftState, dog, loopClocks>>

\* Only emergency_land has a limit for the silent stream.
GroundTimeout ==
  /\ pc = "ground" /\ emergency /\ age >= EmergencyTime /\ Goto("summary")
  /\ UNCHANGED <<abort, setup, telemetry, craftState, dog, loopClocks>>

GroundRaises ==
  /\ pc = "ground" /\ Raised("summary")
  /\ UNCHANGED <<telemetry, craftState, dog, loopClocks>>

\* disarm(): PX4 obeys on the ground and, as it likes, in the air.
Disarm ==
  /\ pc = "disarm"
  /\ \/ vehicle' = "disarmed" /\ Goto("summary") /\ UNCHANGED <<abort, setup>>
     \/ /\ UNCHANGED vehicle
        /\ \/ Goto("summary") /\ UNCHANGED <<abort, setup>>
           \/ Raised("summary")
  /\ UNCHANGED <<telemetry, nav, pos, landed, dog, loopClocks>>

\* The teardowns, the summary and the exit code.
Summary ==
  /\ pc = "summary" /\ Goto("exit")
  /\ code' = IF emergency THEN 1 ELSE 0
  /\ UNCHANGED <<bonus, emergency, abort, telemetry, craftState, dog, loopClocks>>

Exited == pc = "exit" /\ UNCHANGED vars

-----------------------------------------------------------------------------
(* The other tasks *)

\* The handler of SIGINT and SIGTERM.
Signal ==
  /\ pc # "exit" /\ ~abort /\ abort' = TRUE
  /\ UNCHANGED <<pc, age, setup, telemetry, craftState, dog, loopClocks>>

\* A stream stores a sample, and ends with it after an abort.
Sample ==
  \E stream \in live :
    /\ live' = IF abort THEN live \ {stream} ELSE live
    /\ IF stream = "pose"
         THEN sawAlt' = vehicle /\ sawPos' = pos /\ UNCHANGED sawAir
         ELSE sawAir' = Airborne /\ UNCHANGED <<sawAlt, sawPos>>
    /\ UNCHANGED <<pc, age, abort, setup, craftState, dog, loopClocks>>

\* A stream raises; nobody looks at the task, and the value stays.
StreamDies ==
  \E stream \in live :
    /\ live' = live \ {stream}
    /\ UNCHANGED <<pc, age, abort, setup, stored, craftState, dog, loopClocks>>

\* A watchdog that tells nobody.
WatchQuietly ==
  /\ watch = "on" /\ ~abort /\ idle > WatchTime
  /\ watch' = "tripped"
  /\ UNCHANGED <<pc, age, abort, setup, telemetry, craftState, idle, loopClocks>>

\* watchdog(): the planner has made no progress for timeout_s.
Watch ==
  /\ watch = "on" /\ ~abort /\ idle > WatchTime
  /\ watch' = "tripped" /\ abort' = TRUE
  /\ UNCHANGED <<pc, age, setup, telemetry, craftState, idle, loopClocks>>

\* run_inference finds a barrel that compute_unique_detections does not have.
Detect ==
  \E colour \in {"yellow", "red"} :
    /\ pc \in {"loop", "scan"} /\ sawAir /\ found[colour] < MaxFound
    /\ found' = [found EXCEPT ![colour] = @ + 1]
    /\ UNCHANGED <<pc, age, abort, setup, telemetry, craftState, dog, loopAge, history,
                   lastTotal, sinceChange, sinceBoth, scanIn, slow, ran, why>>

\* Ticks pass; the loop runs in every one, and nothing that is due is late.
Waits == {"connect", "armable", "climb", "detect", "scan", "ground"}

CountTo(n, limit) == IF n < limit THEN n + 1 ELSE n

Due ==
  \/ pc = "armable" /\ age >= ArmableTime
  \/ pc = "climb" /\ age >= ClimbTime
  \/ pc = "scan" /\ age > 0
  \/ pc = "ground" /\ emergency /\ age >= EmergencyTime
  \/ watch = "on" /\ ~abort /\ idle > WatchTime

InLoop == pc \in {"loop", "scan"}

LoopLimit == IF bonus THEN BonusDeadline ELSE Grace

Tick ==
  /\ pc \in Waits \/ (pc = "loop" /\ ran)
  /\ ~Due
  /\ age' = CountTo(age, EmergencyTime)
  /\ idle' = IF pc = "scan" THEN 0 ELSE CountTo(idle, WatchTime + 1)
  /\ IF InLoop
       THEN /\ loopAge' = CountTo(loopAge, LoopLimit)
            /\ sinceChange' = CountTo(sinceChange, Plateau)
            /\ sinceBoth' = IF sinceBoth = Unset THEN Unset
                            ELSE CountTo(sinceBoth, Hold)
            /\ scanIn' = IF scanIn > 0 THEN scanIn - 1 ELSE 0
            /\ ran' = FALSE
            /\ UNCHANGED <<history, found, lastTotal, slow, why>>
       ELSE UNCHANGED loopClocks
  /\ UNCHANGED <<pc, abort, setup, telemetry, craftState, watch>>

\* PX4: it climbs after takeoff, moves in offboard, comes down when landing.
Fly ==
  /\ \/ /\ nav = "takeoff"
        /\ \/ vehicle = "armed" /\ vehicle' = "low"
           \/ vehicle = "low" /\ vehicle' = "high"
        /\ UNCHANGED pos
     \/ nav = "offboard" /\ InLoop /\ pos' = 1 - pos /\ UNCHANGED vehicle
     \/ /\ nav = "land" /\ UNCHANGED pos
        /\ \/ vehicle = "high" /\ vehicle' = "low"
           \/ vehicle = "low" /\ vehicle' = "armed"
           \/ vehicle = "armed" /\ vehicle' = "disarmed"
  /\ UNCHANGED <<pc, age, abort, setup, telemetry, nav, landed, dog, loopClocks>>

-----------------------------------------------------------------------------
Run ==
  \/ Connected \/ Armable \/ SetupFails \/ Arm \/ Takeoff \/ Climbed
  \/ DetectionReady \/ BeginOffboard \/ BreakOff \/ StartScan \/ NoDepth
  \/ Follow \/ ScanEnds \/ LoopEnds \/ LoopRaises \/ Cleanup \/ EndOffboard
  \/ Land \/ GroundSeen \/ GroundTimeout \/ GroundRaises \/ Disarm \/ Summary

Others == Signal \/ Sample \/ StreamDies \/ Watch \/ Detect \/ Fly

Next == Run \/ Others \/ Tick \/ Exited

\* The steps of run() that nothing but the loop's scheduling delays.
Prompt ==
  \/ SetupFails \/ BreakOff \/ StartScan \/ NoDepth \/ Follow \/ ScanEnds
  \/ LoopEnds \/ Cleanup \/ EndOffboard \/ Land \/ GroundSeen \/ GroundTimeout
  \/ Disarm \/ Summary \/ Arm \/ Takeoff \/ BeginOffboard \/ DetectionReady
  \/ Connected \/ Climbed

Spec == Init /\ [][Next]_vars

\* The event loop runs its tasks, time passes, and the calls that have no
\* timeout of their own, connect() and the loading of the model, return.
FairSpec == Spec /\ WF_vars(Prompt) /\ WF_vars(Watch) /\ WF_vars(Tick)

-----------------------------------------------------------------------------
TypeOK ==
  /\ {bonus, abort, emergency, sawAir, slow, ran} \subseteq BOOLEAN
  /\ pc \in Waits \cup {"arm", "takeoff", "offboard", "loop", "cleanup",
                        "end_offboard", "land", "disarm", "summary", "exit"}
  /\ code \in {Unset, 0, 1} /\ live \subseteq {"pose", "air"}
  /\ sawAlt \in Altitudes /\ vehicle \in Altitudes
  /\ sawPos \in {0, 1} /\ pos \in {0, 1}
  /\ nav \in {"hold", "takeoff", "offboard", "land"}
  /\ landed \in {"no", "yes", "lost"}
  /\ age \in 0..EmergencyTime /\ idle \in 0..WatchTime + 1
  /\ watch \in {"off", "on", "tripped", "done"}
  /\ history \in Seq({0, 1}) /\ Len(history) <= Window + 1
  /\ found \in [{"yellow", "red"} -> 0..MaxFound]
  /\ why \in {Unset, "deadline", "stuck", "dual", "plateau"}

\* Whatever raised, timed out or was interrupted, run() does not return with an
\* armed vehicle that nobody tried to land.
NobodyLeftUp == pc = "exit" /\ vehicle # "disarmed" => landed # "no"

\* Exit code 0 is a flight that took off, searched, and was told to land.
SuccessIsAFlight ==
  pc = "exit" /\ code = 0 => watch # "off" /\ landed # "no" /\ ~emergency

\* However run() ends, the vehicle was told to land, and 0 is a flight.
SearchInv == TypeOK /\ NobodyLeftUp /\ SuccessIsAFlight

\* A bonus run lands by its deadline, with or without telemetry, depth frames
\* and detections.
BonusEnds == bonus /\ pc = "loop" ~> pc = "exit"

\* A stop request ends the run, wherever it was when it came.
StopEnds == abort ~> pc = "exit"

\* A planner that makes no progress any more is ended by the watchdog.
StalledEnds == InLoop ~> (idle = 0 \/ pc = "exit")

\* Both deadlines hold: that of a bonus run, and the watchdog's for a planner
\* that hangs in its loop.
DeadlinesHold == BonusEnds /\ StalledEnds

\* The watchdog trips for a planner that made no progress while it watched.
WatchdogMeansIdle == watch = "tripped" => loopAge > WatchTime

\* The controller disarms only a vehicle that is on the ground.
DisarmOnGround == pc = "disarm" => ~Airborne

\* After a stop request the vehicle is not armed any more.
NoArmAfterStop == [][Arm => ~abort]_vars

\* The summary of a run that was not broken off by anybody says so.
CleanRunNotAborted == pc = "exit" /\ code = 0 /\ why # Unset => ~abort
=============================================================================

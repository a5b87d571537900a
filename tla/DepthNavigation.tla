--------------------------- MODULE DepthNavigation ---------------------------
(***************************************************************************)
(* The depth-camera navigators of codes/Codes: avoid.py flies by position  *)
(* setpoints, vel_avoidance.py by velocities, both on the same planner and *)
(* the same Drone class.  A frame is seen as its three thirds, each at one *)
(* distance, so a bin of the histogram is a third too.  Angles are tenths  *)
(* of a degree, distances half metres, speeds tenths of the full one.  A    *)
(* velocity is the planner's smoothed one, rounded to tenths; of a position *)
(* setpoint only its side is kept.                                         *)
(* get_position_with_task.py, which holds its position, uses the same      *)
(* classes and is the third program here.                                  *)
(***************************************************************************)
EXTENDS Integers, Sequences, FiniteSetsExt

CONSTANTS Ranges,      \* distances a third of the frame can be at
          FirstYaws,   \* yaw after the takeoff
          Gusts,       \* how far a gust turns the vehicle
          MaxGusts     \* bound: gusts between two looks at the heading

\* Gusts are small, and few enough between two looks at the heading to leave a
\* vehicle within 30 degrees of it.
ASSUME DepthAssumption ==
    /\ Ranges \subseteq Nat /\ FirstYaws \subseteq -1800 .. 1800
    /\ Gusts \subseteq -60 .. 60 /\ MaxGusts \in 0 .. 4

VARIABLES pilot,         \* DroneNavigation.run: program counter, planner, grid heading
          turn,        \* Drone.rotate_to_yaw: its target and previous error
          hasFrame,    \* whether DepthReceiver.depth has been set
          located,       \* SharedState: whether position and yaw have arrived
          craft,       \* yaw, what it was last told, gusts since it looked at its heading
          smooth       \* prev_vx and prev_vy, and how many sidesteps were asked for in a
                       \* row (negative to the left, 3 is 3 or more); for avoid.py how
                       \* many setpoints were planned (2 is 2 or more)

depthVars == <<pilot, turn, hasFrame, located, craft, smooth>>

SAFE      == 8
CRITICAL  == 3
TOLERANCE == 20      \* rotate_to_yaw's 2 degrees
ALIGNED   == 50      \* yaw_tolerance
Headings  == <<0, 900, 1800, -900>>
NoFrame   == [left |-> -1, center |-> -1, right |-> -1]
Sides     == {"left", "center", "right"}
Frames    == [Sides -> Ranges]
Magnitude(x) == IF x < 0 THEN -x ELSE x

Unplanned == [ahead |-> 0, right |-> 0, streak |-> 0, planned |-> 0]
DepthInit ==
    /\ pilot = [pc |-> "takeoff", by |-> "none", idx |-> 1, next |-> "plan", trying |-> FALSE, seen |-> NoFrame,
              active |-> FALSE]
    /\ turn = [goal |-> 0, prev |-> 0]
    /\ hasFrame = FALSE
    /\ located = FALSE
    /\ craft = [yaw |-> 0, told |-> "nothing", gusts |-> 0]
    /\ smooth = Unplanned

----------------------------------------------------------------------------
(* The planner.                                                            *)

\* cost of a bin: everything up to the critical distance costs the same
Cost(d) == IF d <= CRITICAL THEN 1000 ELSE 1000 \div d
\* argmin takes the first of equals, and the bins run from left to right
Direction(f) ==
    LET best(s) == \A t \in Sides : Cost(f[s]) <= Cost(f[t])
    IN  IF best("left") THEN "left" ELSE IF best("center") THEN "center" ELSE "right"
Blocked(f) == f.center < CRITICAL /\ f.left < SAFE /\ f.right < SAFE
Emergency(f) == f.center < CRITICAL
SidestepNear(f) == IF f.left < f.right THEN "left" ELSE "right"
Sidestep(f) == IF f.left > f.right THEN "left" ELSE "right"
\* where the planner means the vehicle to go
Course(f) == IF Emergency(f) THEN Sidestep(f) ELSE Direction(f)

\* the velocity that angle_to_velocity or emergency_override asks for; the first
\* bin of a third lies at its left edge
Full    == 10
Bearing == [left |-> [ahead |-> 8, right |-> -6], center |-> [ahead |-> 10, right |-> -2],
            right |-> [ahead |-> 10, right |-> 3]]
Speed(d) == IF d > SAFE THEN Full
            ELSE IF d > CRITICAL THEN (Full * (d - CRITICAL)) \div (SAFE - CRITICAL) ELSE 0
Asked(f) ==
    IF Emergency(f) THEN [ahead |-> 0, right |-> IF Sidestep(f) = "left" THEN -Full ELSE Full]
    ELSE LET b == Bearing[Direction(f)]
         IN  [ahead |-> (Speed(f.center) * b.ahead) \div Full,
              right |-> (Speed(f.center) * b.right) \div Full]

LowPassSlow(prev, asked) == (8 * prev + 2 * asked) \div 10
LowPass(prev, asked) == (6 * prev + 4 * asked) \div 10
\* sidesteps in a row, this one included
Streak(f) ==
    IF ~Emergency(f) THEN 0
    ELSE IF Sidestep(f) = "right" THEN (IF smooth.streak < 0 THEN 1 ELSE Min({3, smooth.streak + 1}))
    ELSE IF smooth.streak > 0 THEN -1 ELSE Max({-3, smooth.streak - 1})
\* Every frame that is planned by is smoothed in, the blocked ones too.
SmoothIn(f) ==
    smooth' = IF pilot.by = "velocity"
                THEN [smooth EXCEPT !.ahead = LowPass(@, Asked(f).ahead),
                                    !.right = LowPass(@, Asked(f).right), !.streak = Streak(f)]
                ELSE [smooth EXCEPT !.planned = Min({2, @ + 1})]
\* where a velocity goes more than it goes ahead
Way(v) == IF v.right > v.ahead THEN "right" ELSE IF -v.right > v.ahead THEN "left" ELSE "center"

----------------------------------------------------------------------------
(* Turning.                                                                *)

YawErrorRaw(target, current) == target - current
NormalizeYaw(y) == IF y > 1800 THEN y - 3600 ELSE IF y < -1800 THEN y + 3600 ELSE y
YawError(target, current) == NormalizeYaw(target - current)
\* the PID step in a tenth of a second, 60 degrees a second at most
Output(e, prev) == Max({-60, Min({60, (8 * e + 20 * (e - prev)) \div 100})})

NextHeadingStops(i) == IF i = 4 THEN 4 ELSE i + 1
NextHeading(i) == (i % 4) + 1

RotateToYaw ==
    LET e == YawError(turn.goal, craft.yaw)
    IN  /\ pilot.pc = "rotate"
        /\ IF Magnitude(e) < TOLERANCE
             THEN /\ pilot' = [pilot EXCEPT !.pc = pilot.next, !.trying = TRUE]
                  /\ craft' = [craft EXCEPT !.told = "still", !.gusts = 0]
                  /\ turn' = [turn EXCEPT !.prev = 0]
             ELSE /\ craft' = [craft EXCEPT !.told = "still",
                                            !.yaw = NormalizeYaw(@ + Output(e, turn.prev))]
                  /\ turn' = [turn EXCEPT !.prev = e]
                  /\ UNCHANGED pilot
        /\ UNCHANGED <<hasFrame, located, smooth>>

----------------------------------------------------------------------------
(* The navigators' loop.                                                   *)

ArmAndTakeoff ==
    /\ pilot.pc = "takeoff"
    /\ \E by \in {"position", "velocity"}, y \in FirstYaws :
         /\ pilot' = [pilot EXCEPT !.pc = "rotate", !.by = by, !.next = "plan"]
         /\ turn' = [goal |-> Headings[1], prev |-> 0]
         /\ craft' = [craft EXCEPT !.yaw = y, !.told = "still"]
    /\ UNCHANGED <<hasFrame, located, smooth>>

\* What the loop held - its plan, its turn - goes with it.
LeaveFor(pc) ==
    /\ pilot' = [pilot EXCEPT !.pc = pc, !.seen = NoFrame, !.next = "plan"]
    /\ turn' = [goal |-> 0, prev |-> 0]
    /\ smooth' = Unplanned
    /\ UNCHANGED <<hasFrame, located, craft>>

\* no frame yet, or for avoid.py no position: the planner raises
Unready == ~hasFrame \/ (pilot.by = "position" /\ ~located)
PlanRaises ==
    /\ pilot.pc = "plan" /\ Unready
    /\ LeaveFor("finally")

\* blocked: stop, and turn to the next of the four headings
PlanBlocked ==
    /\ pilot.pc = "plan" /\ ~Unready
    /\ \E f \in Frames : Blocked(f) /\ SmoothIn(f)
    /\ craft' = [craft EXCEPT !.told = "still"]
    /\ pilot' = [pilot EXCEPT !.pc = "rotate", !.next = "plan", !.idx = NextHeading(@)]
    /\ turn' = [goal |-> Headings[NextHeading(pilot.idx)], prev |-> 0]
    /\ UNCHANGED <<hasFrame, located>>

\* otherwise align to the heading, then send what was planned before
PlanGoes ==
    /\ pilot.pc = "plan" /\ ~Unready
    /\ \E f \in Frames :
         /\ ~Blocked(f) /\ SmoothIn(f)
         /\ IF Magnitude(YawError(Headings[pilot.idx], craft.yaw)) > ALIGNED
              THEN /\ pilot' = [pilot EXCEPT !.pc = "rotate", !.next = "send", !.seen = f]
                   /\ turn' = [goal |-> Headings[pilot.idx], prev |-> 0]
                   /\ UNCHANGED craft
              ELSE /\ pilot' = [pilot EXCEPT !.pc = "send", !.seen = f]
                   /\ craft' = [craft EXCEPT !.gusts = 0]
                   /\ UNCHANGED turn
    /\ UNCHANGED <<hasFrame, located>>

\* The first setpoint is sent as it is.  A later one is a mean with those before
\* it, which lie where the vehicle was: it can be to any side.
SendSetpoint ==
    /\ pilot.pc = "send" /\ pilot.by = "position"
    /\ \E side \in IF smooth.planned = 1 THEN {Course(pilot.seen)} ELSE Sides :
         craft' = [craft EXCEPT !.told = side]
    /\ pilot' = [pilot EXCEPT !.pc = "plan", !.seen = NoFrame]
    /\ UNCHANGED <<turn, hasFrame, located, smooth>>
SendVelocity ==
    /\ pilot.pc = "send" /\ pilot.by = "velocity"
    /\ craft' = [craft EXCEPT !.told = Way(smooth)]
    /\ pilot' = [pilot EXCEPT !.pc = "plan", !.seen = NoFrame]
    /\ UNCHANGED <<turn, hasFrame, located, smooth>>

\* Ctrl-C cancels the task at an await; takeoff and first turn are outside its try
CtrlC ==
    /\ pilot.pc \in {"takeoff", "rotate", "send"}
    /\ LeaveFor(IF pilot.trying THEN "finally" ELSE "gone")
HoverAtEnd ==
    /\ pilot.pc = "finally"
    /\ pilot' = [pilot EXCEPT !.pc = "gone"]
    /\ craft' = [craft EXCEPT !.told = "still"]
    /\ UNCHANGED <<turn, hasFrame, located, smooth>>

----------------------------------------------------------------------------
(* control_loop and run of get_position_with_task.py: wait for a position, *)
(* then send nothing; the finally of the loop clears control_active before *)
(* the one of run() asks for it.                                           *)

HoldTakeoff ==
    /\ pilot.pc = "takeoff"
    /\ pilot' = [pilot EXCEPT !.pc = "await", !.by = "hold", !.active = TRUE]
    /\ craft' = [craft EXCEPT !.told = "still"]
    /\ UNCHANGED <<turn, hasFrame, located, smooth>>
AwaitFix ==
    /\ pilot.pc = "await" /\ located
    /\ pilot' = [pilot EXCEPT !.pc = "hold"]
    /\ UNCHANGED <<turn, hasFrame, located, craft, smooth>>
HoldCancelled ==
    /\ pilot.pc \in {"await", "hold"}
    /\ pilot' = [pilot EXCEPT !.pc = "cleanup", !.active = FALSE]
    /\ UNCHANGED <<turn, hasFrame, located, craft, smooth>>
CleanUp ==
    /\ pilot.pc = "cleanup"
    /\ pilot' = [pilot EXCEPT !.pc = "gone"]
    /\ craft' = [craft EXCEPT !.told = IF pilot.active THEN "land" ELSE @]
    /\ UNCHANGED <<turn, hasFrame, located, smooth>>

----------------------------------------------------------------------------
\* Frames come at any time: after the first the planner may find any.
ReceiveDepth ==
    /\ ~hasFrame
    /\ hasFrame' = TRUE
    /\ UNCHANGED <<pilot, turn, located, craft, smooth>>
PositionMonitor ==
    /\ pilot.pc \notin {"takeoff", "gone"} /\ pilot.by \in {"position", "hold"} /\ ~located
    /\ located' = TRUE
    /\ UNCHANGED <<pilot, turn, hasFrame, craft, smooth>>
Gust ==
    /\ pilot.pc \in {"plan", "send"} /\ craft.gusts < MaxGusts
    /\ \E g \in Gusts : craft' = [craft EXCEPT !.yaw = NormalizeYaw(@ + g), !.gusts = @ + 1]
    /\ UNCHANGED <<pilot, turn, hasFrame, located, smooth>>

Navigator == \/ ArmAndTakeoff \/ RotateToYaw \/ PlanRaises \/ PlanBlocked \/ PlanGoes
             \/ SendSetpoint \/ SendVelocity \/ HoverAtEnd
             \/ HoldTakeoff \/ AwaitFix \/ CleanUp
DepthNext == Navigator \/ CtrlC \/ HoldCancelled \/ ReceiveDepth \/ PositionMonitor \/ Gust
----------------------------------------------------------------------------
(* emergency_override and detect_blocked: when the way ahead is too near   *)
(* and the vehicle is not blocked, the side that the override chooses is    *)
(* clear - the two agree on when there is none.                            *)
SidestepIsClear ==
    pilot.pc = "send" /\ Emergency(pilot.seen) => pilot.seen[Sidestep(pilot.seen)] >= SAFE

(* VelocityPlanner.smooth: what is sent is a mean with what was asked for   *)
(* before, across turns too, but the choice comes through.  Whatever was    *)
(* asked for before, with the second frame in a row that asks for the same *)
(* sidestep the velocity is to that side, which is clear, and with the      *)
(* third it is more to the side than ahead.                                *)
SidestepComes ==
    pilot.pc = "send" /\ pilot.by = "velocity" =>
        /\ smooth.streak >= 2 => smooth.right > 0 /\ pilot.seen.right >= SAFE
        /\ smooth.streak <= -2 => smooth.right < 0 /\ pilot.seen.left >= SAFE
        /\ smooth.streak = 3 => Way(smooth) = "right"
        /\ smooth.streak = -3 => Way(smooth) = "left"

(* "Emergency avoidance (override only)" (VelocityPlanner.py:136): the      *)
(* first frame that asks for a sidestep is not yet flown, the vehicle goes  *)
(* on ahead or to the other side.  Violated; no run.                        *)
SidestepGoesAtOnce ==
    pilot.pc = "send" /\ pilot.by = "velocity" /\ Emergency(pilot.seen) =>
        Way(smooth) = Sidestep(pilot.seen)

(* drone_control.py: a turn to the next heading goes the short way round,  *)
(* over the jump of the yaw at 180 degrees too.                            *)
AngleApart(a, b) == Min({Magnitude(a - b), 3600 - Magnitude(a - b)})
QuarterTurns == pilot.pc = "rotate" /\ pilot.trying => AngleApart(turn.goal, craft.yaw) < 1200

(* However a program ends, its last order is not a way to go.              *)
LeavesStill == pilot.pc = "gone" => craft.told \in {"nothing", "still"}

(* It comes to go where it is clear, turns by the short way, and stops at  *)
(* its end.                                                                *)
NavigatorInv == SidestepIsClear /\ SidestepComes /\ QuarterTurns /\ LeavesStill

(* "Land and disarm using your class" (get_position_with_task.py:118): it  *)
(* never does.  Violated; no run.                                          *)
HoldLands == pilot.pc = "gone" /\ pilot.by = "hold" => craft.told = "land"

(* rotate_to_yaw's loop ends, with or without the flight being cancelled.  *)
TurnsEnd == pilot.pc = "rotate" ~> pilot.pc # "rotate"

(* A vehicle that finds no way looks along all four headings, over and     *)
(* over, until it moves or is stopped.                                     *)
LooksAllRound ==
    \A i \in 1 .. 4 : <>[](pilot.pc \in {"plan", "rotate"}) => []<>(pilot.idx = i)

DepthSpec == DepthInit /\ [][DepthNext]_depthVars /\ WF_depthVars(Navigator)
=============================================================================

--------------------------- MODULE SwarmController ---------------------------
(***************************************************************************)
(* The Hula swarm of Challenge 2, semifinal/swarm_controller.py: one loop  *)
(* that gives every drone its turn in every pass, the operator thread that *)
(* approves Phase B, the UWB parser thread that shares tag_data with the   *)
(* loop, and the SIGINT handler, which may run between any two of the      *)
(* loop's steps.                                                           *)
(*                                                                         *)
(* A turn is split where another thread or the handler can tell: the read  *)
(* of the drone's own position, the speed monitor (the one place of the    *)
(* loop inside a bare except), the drone's state machine, the look at its  *)
(* video frame.  Coordinates are abstracted to what the loop asks of them: *)
(* is a tag known, has a drone arrived, are two drones close.              *)
(***************************************************************************)
EXTENDS Integers, Sequences, SequencesExt, FiniteSetsExt

CONSTANTS
  MaxDrones,    \* most drones that answer the discovery
  Zones,        \* Len(LANDING_ZONES): the first so many drones have one
  Robots,       \* ROBOMASTER_IDS
  TotalRobots,  \* TOTAL_ROBOTS
  Copies,       \* how often one marker can be detected in a single frame
  SpinEvery,    \* SPIN_EVERY_N
  SpinReads,    \* yaw readings that make up a full turn
  TakeoffDelay, \* TAKEOFF_DELAY, in units of the shortest pass
  ClimbTime,    \* CLIMB_TIME, in the same units
  SlowPass,     \* how many of these units the longest pass takes
  Reliable,     \* the drones whose tags are in every UWB frame
  Pairs         \* the pairs of drones that can come close

ASSUME CountAssumption ==
  /\ MaxDrones \in Nat /\ Zones \in Nat /\ TotalRobots \in Nat
  /\ Copies \in Nat /\ SpinEvery \in Nat \ {0} /\ SpinReads \in Nat

ASSUME TimeAssumption ==
  TakeoffDelay \in Nat /\ ClimbTime \in Nat /\ SlowPass \in Nat \ {0}

VARIABLES
  pc,        \* where the main thread is
  list,      \* drone_list, as a sequence of drone_ids
  cur,       \* index in drone_list of the drone whose turn it is
  here,      \* does this turn have a current_pos?
  state,     \* states
  timer,     \* time left until takeoff_trigger, then until climb_until
  spin,      \* spin_total_rotation, in yaw readings
  wp,        \* current_wp_idx modulo SpinEvery
  craft,     \* "ground", "flying", or "landing": told to, not confirmed
  approver,  \* the phase_b_approval thread: "none", "asking" or "done"
  approved,  \* phase_b_approved
  found,     \* robots_found
  ids,       \* snapshotted_ids
  sigint,    \* has the SIGINT handler run?
  parser,    \* the UWB thread: "off", "waiting" for its first frame, "idle",
             \* "clearing" or "dead"
  tags,      \* the drones whose tags are in tag_data
  near       \* the pairs of drones within DRONE_REPEL_DIST

Drones == 0 .. MaxDrones - 1

ASSUME PlaceAssumption ==
  /\ Reliable \subseteq Drones
  /\ \A p \in Pairs : \E d, e \in Drones : d # e /\ p = {d, e}

turn   == <<cur, here>>
fsm    == <<state, timer, spin, wp>>
phase  == <<approver, approved>>
robots == <<found, ids>>
world  == <<parser, tags, near>>
vars   == <<pc, list, turn, fsm, craft, phase, robots, sigint, world>>

PhaseA == {"TAKEOFF_A", "TAKING_OFF_A", "FLY_TO_ZONE", "LAND"}
PhaseB == {"TAKEOFF_B", "TAKING_OFF_B", "FLY_TO_WAYPOINT", "SPIN_SCAN",
           "MISSION_COMPLETE"}
States == PhaseA \cup {"WAIT_PHASE_B"} \cup PhaseB

\* The drone whose turn it is.
D == list[cur]

Members == ToSet(list)

-----------------------------------------------------------------------------
(* Setup and the loop around the turns *)

Init ==
  /\ pc = "setup"
  /\ list = <<>> /\ cur = 1 /\ here = FALSE
  /\ state = [d \in Drones |-> "TAKEOFF_A"]
  /\ timer = [d \in Drones |-> d * TakeoffDelay]
  /\ spin = [d \in Drones |-> 0] /\ wp = [d \in Drones |-> 0]
  /\ craft = [d \in Drones |-> "ground"]
  /\ approver = "none" /\ approved = FALSE
  /\ found = 0 /\ ids = {} /\ sigint = FALSE
  /\ parser \in {"off", "waiting"} /\ tags = {} /\ near = {}

\* Discovery and connection of the drones; any call of it may raise.
Setup ==
  /\ pc = "setup"
  /\ \/ \E n \in 0 .. MaxDrones :
          /\ list' = [i \in 1 .. n |-> i - 1]
          /\ pc' = IF n = 0 THEN "cleanup" ELSE "turn"
     \/ pc' = "cleanup" /\ UNCHANGED list
  /\ UNCHANGED <<turn, fsm, craft, phase, robots, sigint, world>>

\* A turn begins with get_uwb_position.
ReadPosition ==
  /\ pc = "turn"
  /\ here' = (D \in tags)
  /\ pc' = "speed"
  /\ UNCHANGED <<list, cur, fsm, craft, phase, robots, sigint, world>>

\* get_velocity and a print, in a try whose bare except passes.
MonitorSpeed ==
  /\ pc = "speed"
  /\ pc' = "act"
  /\ UNCHANGED <<list, turn, fsm, craft, phase, robots, sigint, world>>

\* A call raises, and nothing in the loop catches it.
Raises == pc' = "cleanup"

\* The drone's frame is looked at in every turn, whatever its state.
Seen == [Robots -> 0 .. Copies]

\* new_ids is read off the frame before snapshotted_ids is added to, so a
\* marker that the frame shows twice is counted twice.
CountEverySighting(seen) == FoldFunction(+, 0, seen)
NewMarkers(seen) == FoldFunctionOnSet(+, 0, seen, Robots \ ids)

\* After a turn: the next drone's, or the end of the pass.
EndTurn ==
  /\ pc' = IF cur < Len(list) THEN "turn" ELSE "pause"
  /\ cur' = IF cur < Len(list) THEN cur + 1 ELSE 1

\* No frame, or the markers of one; a snapshot that raises is counted already.
LookAtFrame ==
  /\ pc = "look"
  /\ \E seen \in Seen :
       /\ found' = found + NewMarkers(seen)
       /\ ids' = ids \cup {r \in Robots : seen[r] > 0}
  /\ \/ EndTurn
     \/ Raises /\ UNCHANGED cur
  /\ UNCHANGED <<list, here, fsm, craft, phase, sigint, world>>

\* The pass is over; the clock moves on by what it and the sleep took.
Pause ==
  /\ pc = "pause"
  /\ \E k \in 1 .. SlowPass :
       timer' = [d \in Drones |-> Max({timer[d] - k, 0})]
  /\ pc' = "turn"
  /\ UNCHANGED <<list, turn, state, spin, wp, craft, phase, robots, sigint,
                 world>>

-----------------------------------------------------------------------------
(* A drone's turn, by its state *)

\* What every branch of the state machine has in common.
Branch(s) == pc = "act" /\ state[D] = s
Become(s) == state' = [state EXCEPT ![D] = s]

\* The branch of the state machine is left for the look at the frame.
Proceeds == pc' = "look"

\* takeoff(blocking=False) when takeoff_trigger is due; it may raise with the
\* drone taking off all the same.
Due == timer[D] = 0

TakeOff(from, to) ==
  /\ Branch(from)
  /\ IF Due
     THEN \/ /\ craft' = [craft EXCEPT ![D] = "flying"]
             /\ timer' = [timer EXCEPT ![D] = ClimbTime]
             /\ Become(to)
             /\ Proceeds
          \/ /\ craft' \in {craft, [craft EXCEPT ![D] = "flying"]}
             /\ Raises
             /\ UNCHANGED <<timer, state>>
     ELSE Proceeds /\ UNCHANGED <<craft, timer, state>>
  /\ UNCHANGED <<list, turn, spin, wp, phase, robots, sigint, world>>

EndClimb(from, to) ==
  /\ Branch(from)
  /\ IF Due THEN Become(to) ELSE UNCHANGED state
  /\ wp' = IF Due /\ to = "FLY_TO_WAYPOINT" THEN [wp EXCEPT ![D] = 0] ELSE wp
  /\ Proceeds
  /\ UNCHANGED <<list, turn, timer, spin, craft, phase, robots, sigint, world>>

\* No zone or no position: wait, without limit.
FlyToZone ==
  /\ Branch("FLY_TO_ZONE")
  /\ \/ /\ Proceeds
        /\ UNCHANGED state
     \/ /\ D < Zones /\ here
        /\ Become("LAND")
        /\ Proceeds
  /\ UNCHANGED <<list, turn, timer, spin, wp, craft, phase, robots, sigint,
                 world>>

\* land() returns when the drone is down, or raises.
LandNow(d) == craft' = [craft EXCEPT ![d] = "ground"]
LandLost(d) ==
  craft' = [craft EXCEPT ![d] = IF @ = "ground" THEN @ ELSE "landing"]

LandInZone ==
  /\ Branch("LAND")
  /\ \/ LandNow(D) /\ Become("WAIT_PHASE_B") /\ Proceeds
     \/ LandLost(D) /\ Raises /\ UNCHANGED state
  /\ UNCHANGED <<list, turn, timer, spin, wp, phase, robots, sigint, world>>

\* Phase B waits for every drone of drone_list and for the operator.
AllDoneUnchecked == TRUE
AllDoneButLanding == \A d \in Members : state[d] \notin PhaseA \ {"LAND"}
AllDone == \A d \in Members : state[d] \notin PhaseA

ScheduleAtOnce == timer' = [timer EXCEPT ![D] = 0]
Schedule == timer' = [timer EXCEPT ![D] = D * TakeoffDelay]

StartPhaseB ==
  /\ IF approved
     THEN Schedule /\ Become("TAKEOFF_B")
     ELSE UNCHANGED <<timer, state>>
  /\ Proceeds

WaitPhaseB ==
  /\ Branch("WAIT_PHASE_B")
  /\ \/ /\ AllDone /\ approved
        /\ StartPhaseB
     \/ /\ AllDone /\ ~approved
        /\ pc' = "ask"
        /\ UNCHANGED <<timer, state>>
     \/ /\ ~AllDone
        /\ Proceeds
        /\ UNCHANGED <<timer, state>>
  /\ UNCHANGED <<list, turn, spin, wp, craft, phase, robots, sigint, world>>

\* Phase B was not approved when the loop looked; unless a thread is asking,
\* the loop starts one, and looks again.
Ask ==
  /\ pc = "ask"
  /\ approver' = "asking"
  /\ StartPhaseB
  /\ UNCHANGED <<list, turn, spin, wp, craft, approved, robots, sigint, world>>

Enough == found >= TotalRobots

\* Another drone that drone d must yield to: a lower id, too close.
YieldAlways(d, e) == {d, e} \in near
Yields(d, e) == {d, e} \in near /\ d > e

Avoided(d) == \E e \in Members \ {d} : e \in tags /\ Yields(d, e)

\* Phase B is over for this drone.
EndHunt ==
  /\ pc = "act" /\ state[D] \in {"FLY_TO_WAYPOINT", "SPIN_SCAN"}
  /\ Enough
  /\ Become("MISSION_COMPLETE")
  /\ Proceeds
  /\ UNCHANGED <<list, turn, timer, spin, wp, craft, phase, robots, sigint,
                 world>>

\* check_drone_avoidance told the drone to hover.
Hover ==
  /\ Branch("FLY_TO_WAYPOINT") /\ ~Enough
  /\ here /\ Avoided(D)
  /\ Proceeds
  /\ UNCHANGED <<list, turn, fsm, craft, phase, robots, sigint, world>>

\* current_wp_idx += 1
NextUnwrapped(w) == w + 1
NextWaypoint(w) == (w + 1) % SpinEvery

\* It did not: on past an obstacle, on to the waypoint (without a position it
\* gets no command), or there, where every SpinEvery-th time it spins.
FlyOn ==
  /\ Branch("FLY_TO_WAYPOINT") /\ ~Enough
  /\ ~(here /\ Avoided(D))
  /\ \/ /\ Proceeds
        /\ UNCHANGED <<state, spin, wp>>
     \/ /\ here /\ wp[D] = 0
        /\ Become("SPIN_SCAN")
        /\ spin' = [spin EXCEPT ![D] = 0]
        /\ Proceeds
        /\ UNCHANGED wp
     \/ /\ here /\ wp[D] # 0
        /\ wp' = [wp EXCEPT ![D] = NextWaypoint(@)]
        /\ Proceeds
        /\ UNCHANGED <<state, spin>>
  /\ UNCHANGED <<list, turn, timer, craft, phase, robots, sigint, world>>

SpinScan ==
  /\ Branch("SPIN_SCAN") /\ ~Enough
  /\ \/ \E turned \in {0, 1} :
          IF spin[D] + turned >= SpinReads
          THEN /\ spin' = [spin EXCEPT ![D] = SpinReads]
               /\ wp' = [wp EXCEPT ![D] = NextWaypoint(@)]
               /\ Become("FLY_TO_WAYPOINT")
               /\ Proceeds
          ELSE /\ spin' = [spin EXCEPT ![D] = @ + turned]
               /\ Proceeds
               /\ UNCHANGED <<wp, state>>
  /\ UNCHANGED <<list, turn, timer, craft, phase, robots, sigint, world>>

\* MISSION_COMPLETE without the break, and without the removal.
CompleteGoesOn ==
  /\ Branch("MISSION_COMPLETE")
  /\ LandNow(D)
  /\ list' = RemoveAt(list, cur)
  /\ Proceeds
  /\ UNCHANGED <<turn, fsm, phase, robots, sigint, world>>

CompleteStays ==
  /\ Branch("MISSION_COMPLETE")
  /\ LandNow(D)
  /\ pc' = "pause" /\ cur' = 1
  /\ UNCHANGED <<list, here, fsm, phase, robots, sigint, world>>

\* The drone lands and leaves drone_list; the pass ends there.
Complete ==
  /\ Branch("MISSION_COMPLETE")
  /\ \/ /\ LandNow(D)
        /\ list' = RemoveAt(list, cur)
        /\ pc' = IF list' = <<>> THEN "cleanup" ELSE "pause"
        /\ cur' = 1
     \/ /\ LandLost(D)
        /\ Raises
        /\ UNCHANGED <<list, cur>>
  /\ UNCHANGED <<here, fsm, phase, robots, sigint, world>>

\* pyhulax raises in flight; land() and takeoff() have their own.
CallRaises ==
  /\ pc = "act"
  /\ state[D] \in {"FLY_TO_ZONE", "FLY_TO_WAYPOINT", "SPIN_SCAN"}
  /\ Raises
  /\ UNCHANGED <<list, turn, fsm, craft, phase, robots, sigint, world>>

-----------------------------------------------------------------------------
(* The end of main(), and SIGINT *)

\* As it would be without the try around each land(): one raises, and the
\* others stay as they are.
LandUntilOneRaises == \E d \in Drones : LandLost(d)

\* land() for every connected drone, whether it returns or raises.
LandAll ==
  craft' \in {c \in [Drones -> {"ground", "landing"}] :
                \A d \in Drones : craft[d] = "ground" => c[d] = "ground"}

Cleanup ==
  /\ pc = "cleanup"
  /\ LandAll
  /\ pc' = "exit"
  /\ UNCHANGED <<list, turn, fsm, phase, robots, sigint, world>>

\* emergency_land: land every drone, then exit(0).  Its SystemExit unwinds
\* main(), but not out of the speed monitor's try; and not twice.
EmergencyLand ==
  /\ pc # "exit"
  /\ LandAll
  /\ sigint' = TRUE
  /\ pc' = IF pc = "speed" THEN "act" ELSE "cleanup"
  /\ UNCHANGED <<list, turn, fsm, phase, robots, world>>

Exited == pc = "exit" /\ UNCHANGED vars

-----------------------------------------------------------------------------
(* The operator, the UWB parser and the drones' whereabouts *)

PressEnter ==
  /\ approver = "asking"
  /\ approver' = "done" /\ approved' = TRUE
  /\ UNCHANGED <<pc, list, turn, fsm, craft, robots, sigint, world>>

\* input() raises EOFError: the thread is gone, and is started again.
PromptFails ==
  /\ approver = "asking"
  /\ approver' = "none"
  /\ UNCHANGED <<pc, list, turn, fsm, craft, approved, robots, sigint, world>>

\* A frame is parsed: tag_data is replaced by an empty table before data_lock
\* is taken, and filled under the lock.  The first frame finds it empty.
Frames == {t \in SUBSET Drones : Reliable \subseteq t}

ClearTags ==
  /\ parser = "idle"
  /\ parser' = "clearing" /\ tags' = {}
  /\ UNCHANGED <<pc, list, turn, fsm, craft, phase, robots, sigint, near>>

FillTags ==
  /\ parser \in {"waiting", "clearing"}
  /\ parser' = "idle" /\ tags' \in Frames
  /\ UNCHANGED <<pc, list, turn, fsm, craft, phase, robots, sigint, near>>

\* The serial port raises: the thread returns, tag_data stays as it is.
ParserDies ==
  /\ parser \in {"waiting", "idle"}
  /\ parser' = "dead"
  /\ UNCHANGED <<pc, list, turn, fsm, craft, phase, robots, sigint, tags,
                 near>>

\* Drones come close to one another, or part.
Drift ==
  /\ pc \notin {"setup", "exit"}
  /\ near' \in SUBSET Pairs
  /\ UNCHANGED <<pc, list, turn, fsm, craft, phase, robots, sigint, parser,
                 tags>>

-----------------------------------------------------------------------------
Turn ==
  \/ TakeOff("TAKEOFF_A", "TAKING_OFF_A")
  \/ EndClimb("TAKING_OFF_A", "FLY_TO_ZONE")
  \/ FlyToZone \/ LandInZone \/ WaitPhaseB \/ Ask
  \/ TakeOff("TAKEOFF_B", "TAKING_OFF_B")
  \/ EndClimb("TAKING_OFF_B", "FLY_TO_WAYPOINT")
  \/ EndHunt \/ Hover \/ FlyOn \/ SpinScan \/ Complete

Main ==
  \/ Setup \/ ReadPosition \/ MonitorSpeed \/ Turn \/ LookAtFrame \/ CallRaises
  \/ Pause \/ Cleanup

Others ==
  \/ EmergencyLand \/ PressEnter \/ PromptFails
  \/ ClearTags \/ FillTags \/ ParserDies \/ Drift

Next == Main \/ Others \/ Exited

Spec == Init /\ [][Next]_vars

\* The main thread goes on.
FairSpec == Spec /\ WF_vars(Main)

\* And an operator who is asked, again if need be, presses Enter.
AttendedSpec == FairSpec /\ SF_vars(PressEnter)

-----------------------------------------------------------------------------
(* Properties *)

TypeOK ==
  /\ pc \in {"setup", "turn", "speed", "act", "ask", "look", "pause",
             "cleanup", "exit"}
  /\ list \in Seq(Drones) /\ cur \in Nat \ {0} /\ here \in BOOLEAN
  /\ state \in [Drones -> States]
  /\ timer \in [Drones -> Nat]
  /\ spin \in [Drones -> 0 .. SpinReads]
  /\ wp \in [Drones -> 0 .. SpinEvery - 1]
  /\ craft \in [Drones -> {"ground", "flying", "landing"}]
  /\ approver \in {"none", "asking", "done"} /\ approved \in BOOLEAN
  /\ found \in Nat /\ ids \subseteq Robots
  /\ sigint \in BOOLEAN
  /\ parser \in {"off", "waiting", "idle", "clearing", "dead"}
  /\ tags \subseteq Drones /\ near \subseteq Pairs

\* The loop's index stays inside drone_list although Complete shortens it.
TurnInList ==
  pc \in {"turn", "speed", "act", "ask", "look"} => cur \in 1 .. Len(list)

OnTheGround ==
  \A d \in Drones : state[d] = "TAKEOFF_A" /\ craft[d] = "ground"

\* No drone is past WAIT_PHASE_B before every drone of drone_list has landed
\* in its zone and the operator has approved.
Barrier ==
  (\E d \in Drones : state[d] \in PhaseB)
    => approved /\ \A d \in Members : state[d] \notin PhaseA

\* The operator who has still to approve is asked only when every drone is on
\* the ground, and stays asked only while that is so.
PromptIsTrue ==
  approver = "asking" /\ ~approved => \A d \in Drones : craft[d] = "ground"

\* However main() ends, the last word every drone had was land().
ReleasedAtExit == pc = "exit" => \A d \in Drones : craft[d] # "flying"

\* What these rest on: where the loop is in drone_list, and what the drones'
\* states say of the drones and of the operator.
LoopInv ==
  /\ list \in Seq(Drones) /\ cur \in Nat \ {0}
  /\ pc = "setup" => cur = 1 /\ approver = "none" /\ OnTheGround
  /\ pc = "pause" => cur = 1 /\ list # <<>>
  /\ pc = "ask" => AllDone /\ state[D] = "WAIT_PHASE_B"
  /\ TurnInList

DroneInv ==
  /\ state \in [Drones -> States] /\ approved \in BOOLEAN
  /\ craft \in [Drones -> {"ground", "flying", "landing"}]
  /\ \A d \in Drones : state[d] = "WAIT_PHASE_B" => craft[d] = "ground"
  /\ \A d \in Drones \ Members :
       craft[d] # "ground" => \E e \in Drones : state[e] \in PhaseB
  /\ approver = "asking" => AllDone
  /\ Barrier

PhaseInv == LoopInv /\ DroneInv

\* robots_found counts each robot once, whichever drones saw it and however
\* often; so the hunt is not over before TotalRobots robots have a snapshot.
CountIsSnapshots == found = Cardinality(ids)

\* Two drones do not take off in one pass: their timers start in the pass.
TookOff(d) ==
  state[d] \in {"TAKING_OFF_A", "TAKING_OFF_B"} /\ timer[d] = ClimbTime

Staggered ==
  \A d, e \in Members : TookOff(d) /\ TookOff(e) => d = e

\* The drones never all hover for one another.
SomeoneFlies == list # <<>> => \E d \in Members : ~Avoided(d)

\* Once Phase B is approved and the robots are found, every drone lands and
\* main() returns, whatever the drones' positions, turns and tags do.
HuntEnds == approved /\ Enough ~> pc = "exit"

-----------------------------------------------------------------------------
(* What the documents say of the swarm and the code does not do *)

\* Ctrl-C lands the drones: none is sent up again.
CtrlCLands ==
  [][sigint => \A d \in Drones :
                 craft'[d] = "flying" => craft[d] = "flying"]_vars

\* "All drones landed": the prompt is up only while that is so.
AskedOnlyOnGround ==
  approver = "asking" => \A d \in Drones : craft[d] = "ground"

\* One drone that is stuck does not hold up the others.
NobodyWaitsForever ==
  \A d \in Drones :
    state[d] = "WAIT_PHASE_B" ~> state[d] # "WAIT_PHASE_B" \/ pc = "exit"

\* A tag that is in every frame has a position as soon as one was received.
TagIsKnown ==
  [][ReadPosition /\ parser \in {"idle", "clearing"} /\ D \in Reliable
       => here']_vars

\* Once main() has returned the process ends, with its threads.
ProcessEnds == pc = "exit" ~> parser \in {"off", "dead"}
=============================================================================

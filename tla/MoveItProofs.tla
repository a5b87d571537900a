---------------------------- MODULE MoveItProofs ----------------------------
(***************************************************************************)
(* Proofs about MoveItMission, for every route, altitude, pose source,     *)
(* frame count and time limit: the flight contract, along the inductive    *)
(* invariant CraftInv; type correctness and the altitude cap, along        *)
(* LegInv; the exit code, along VerdictInv; and how long the mission may   *)
(* fly without a fix, along BlindInv.                                      *)
(***************************************************************************)
EXTENDS MoveItMission, SequenceTheorems, TLAPS

-----------------------------------------------------------------------------
(* The contract *)

\* main() starts with a disarmed vehicle and no orders given.
LEMMA CraftInit == Init => CraftInv
  BY RouteAssumption
  DEF Init, CraftInv, Places, Calls, Streams, Flight, Preflight,
      OnGround, Ended

\* The variables CraftInv speaks of.
watched == <<pc, code, vehicle, mode, spAlt, release>>

\* Steps that touch none of the watched variables keep CraftInv.
LEMMA CraftStutter == CraftInv /\ UNCHANGED watched => CraftInv'
  BY DEF CraftInv, watched

\* main() and the way to the air.
LEMMA CraftTakeoff ==
  ASSUME CraftInv,
         \/ Startup \/ Connect \/ LinkYields \/ HealthYields \/ StreamRaises
         \/ Arm \/ Prestream \/ StartOffboard \/ Reject \/ Takeoff
         \/ Climb
  PROVE  CraftInv'
<1> USE DEF CraftInv, Places, Calls, Streams, Flight, Preflight, OnGround,
            Ended, Goto, Crash, Land, Return, Effect, craft, ctl, rest
<1>0. None # 0 /\ None # 1 /\ None # 2
  BY RouteAssumption
<1>1. CASE Startup
  BY <1>0, <1>1 DEF Startup
<1>2. CASE Connect
  BY <1>0, <1>2 DEF Connect
<1>3. CASE LinkYields
  BY <1>0, <1>3 DEF LinkYields
<1>4. CASE HealthYields
  BY <1>0, <1>4 DEF HealthYields
<1>5. CASE StreamRaises
  BY <1>0, <1>5 DEF StreamRaises
<1>6. CASE Arm
  BY <1>0, <1>6 DEF Arm
<1>7. CASE Prestream
  BY <1>0, <1>7 DEF Prestream
<1>8. CASE StartOffboard
  BY <1>0, <1>8 DEF StartOffboard
<1>9. CASE Reject
  BY <1>0, <1>9 DEF Reject
<1>10. CASE Takeoff
  BY <1>0, <1>10 DEF Takeoff
<1>11. CASE Climb
  BY <1>0, <1>11 DEF Climb
<1>12. QED
  BY <1>1, <1>2, <1>3, <1>4, <1>5, <1>6, <1>7, <1>8, <1>9, <1>10, <1>11

\* The waypoint loop: whatever it sends, it leaves only for the landing.
LEMMA CraftSurvey ==
  ASSUME CraftInv,
         \/ NextWaypoint \/ PollAborts \/ PollWithoutFix \/ PollWithFix \/ Hold
         \/ Settle \/ ScanFrame \/ ScanEnds
  PROVE  CraftInv'
<1> USE DEF CraftInv, Places, Calls, Streams, Flight, Preflight, OnGround,
            Ended, Goto, Crash, Land, Return, Effect, craft, ctl, rest
<1>0. None # 0 /\ None # 1 /\ None # 2
  BY RouteAssumption
<1>1. CASE NextWaypoint
  BY <1>0, <1>1 DEF NextWaypoint
<1>2. CASE PollAborts
  BY <1>0, <1>2 DEF PollAborts
<1>3. CASE PollWithoutFix
  BY <1>0, <1>3 DEF PollWithoutFix, SetSetpoint
<1>4. CASE PollWithFix
  BY <1>0, <1>4 DEF PollWithFix, SetSetpoint
<1>5. CASE Hold
  BY <1>0, <1>5 DEF Hold
<1>6. CASE Settle
  BY <1>0, <1>6 DEF Settle
<1>7. CASE ScanFrame
  BY <1>0, <1>7 DEF ScanFrame
<1>8. CASE ScanEnds
  BY <1>0, <1>8 DEF ScanEnds
<1>9. QED
  BY <1>1, <1>2, <1>3, <1>4, <1>5, <1>6, <1>7, <1>8

\* _land_and_disarm and the end of main().
LEMMA CraftLanding ==
  ASSUME CraftInv,
         \/ StopOffboard \/ OrderLanding \/ GroundSeen
         \/ GroundNotSeen \/ Disarm \/ Finalise
  PROVE  CraftInv'
<1> USE DEF CraftInv, Places, Calls, Streams, Flight, Preflight, OnGround,
            Ended, Goto, Crash, Land, Return, Effect, craft, ctl, rest
<1>0. None # 0 /\ None # 1 /\ None # 2
  BY RouteAssumption
<1>1. CASE StopOffboard
  BY <1>0, <1>1 DEF StopOffboard
<1>2. CASE OrderLanding
  BY <1>0, <1>2 DEF OrderLanding
<1>3. CASE GroundSeen
  BY <1>0, <1>3 DEF GroundSeen
<1>4. CASE GroundNotSeen
  BY <1>0, <1>4 DEF GroundNotSeen, Verdict
<1>5. CASE Disarm
  BY <1>0, <1>5 DEF Disarm, Verdict
<1>6. CASE Finalise
  BY <1>0, <1>6 DEF Finalise
<1>7. QED
  BY <1>1, <1>2, <1>3, <1>4, <1>5, <1>6

\* Operator, pumps, subscriber and vehicle.
LEMMA CraftEnvironment ==
  ASSUME CraftInv,
         \/ Interrupt \/ TelemSample \/ BatterySample \/ PumpDies \/ UwbPacket
         \/ Lift \/ Failsafe \/ Touchdown \/ AutoDisarm
  PROVE  CraftInv'
<1> USE DEF CraftInv, Places, Calls, Streams, Flight, Preflight, OnGround,
            Ended, Goto, Crash, Land, Return, Effect, craft, ctl, rest
<1>0. None # 0 /\ None # 1 /\ None # 2
  BY RouteAssumption
<1>1. CASE Interrupt
  BY <1>0, <1>1 DEF Interrupt
<1>2. CASE TelemSample
  BY <1>0, <1>2 DEF TelemSample
<1>3. CASE BatterySample
  BY <1>0, <1>3 DEF BatterySample
<1>4. CASE PumpDies
  BY <1>0, <1>4 DEF PumpDies
<1>5. CASE UwbPacket
  BY <1>0, <1>5 DEF UwbPacket
<1>6. CASE Lift
  BY <1>0, <1>6 DEF Lift
<1>7. CASE Failsafe
  BY <1>0, <1>7 DEF Failsafe
<1>8. CASE Touchdown
  BY <1>0, <1>8 DEF Touchdown
<1>9. CASE AutoDisarm
  BY <1>0, <1>9 DEF AutoDisarm
<1>10. QED
  BY <1>1, <1>2, <1>3, <1>4, <1>5, <1>6, <1>7, <1>8, <1>9

\* Every step of the mission keeps CraftInv.
LEMMA CraftNext == CraftInv /\ [Next]_vars => CraftInv'
<1> SUFFICES ASSUME CraftInv, [Next]_vars PROVE CraftInv'
  OBVIOUS
<1>1. CASE Tick
  BY <1>1, CraftStutter DEF Tick, watched, craft
<1>2. CASE Coroutine
  BY <1>2, CraftTakeoff, CraftSurvey, CraftLanding DEF Coroutine
<1>3. CASE Environment
  BY <1>3, CraftEnvironment DEF Environment
<1>4. CASE Exited \/ UNCHANGED vars
  BY <1>4, CraftStutter DEF Exited, vars, ctl, craft, watched
<1>5. QED
  BY <1>1, <1>2, <1>3, <1>4 DEF Next

\* Until takeoff there is no altitude to fly to, the orders to leave offboard and
\* to land come exactly with the landing, and a vehicle released by them is out
\* of offboard for good.
THEOREM CraftInvariant == Spec => []CraftInv
<1>1. QED
  BY CraftInit, CraftNext, PTL DEF Spec

\* A refusal to fly (exit code 2) leaves the vehicle disarmed and without an
\* altitude to fly to, whichever of the refusals was taken.
THEOREM RefusalOnGround == Spec => []RefusalStaysDown
<1>1. CraftInv => RefusalStaysDown
  BY RouteAssumption DEF CraftInv, RefusalStaysDown, Preflight, OnGround, Ended
<1>2. QED
  BY <1>1, CraftInvariant, PTL

\* The mission starts as the contract does.
LEMMA ContractInit == Init => Contract!Init
  BY DEF Init, Contract!Init

\* What FlightContract sees of the mission.
seen == <<vehicle, release, pc = "exit">>

\* The steps that the contract does not see.
Unseen ==
  \/ Tick \/ Exited
  \/ Startup \/ Connect \/ LinkYields \/ HealthYields \/ StreamRaises
  \/ Prestream \/ StartOffboard \/ Takeoff \/ Climb
  \/ NextWaypoint \/ PollAborts \/ PollWithoutFix \/ PollWithFix
  \/ Hold \/ Settle \/ ScanFrame \/ ScanEnds
  \/ StopOffboard \/ GroundSeen \/ GroundNotSeen
  \/ Interrupt \/ TelemSample \/ BatterySample \/ PumpDies \/ UwbPacket
  \/ Failsafe

\* They change nothing the contract sees.
LEMMA UnseenStutters == Unseen => UNCHANGED seen
<1> USE DEF seen, craft, rest, Goto, Crash, Land, Return
<1>1. CASE Tick \/ Exited
  BY <1>1 DEF Tick, Exited, vars
<1>2. CASE Startup \/ Connect \/ LinkYields \/ HealthYields \/ StreamRaises
  BY <1>2 DEF Startup, Connect, LinkYields, HealthYields, StreamRaises
<1>3. CASE Prestream \/ StartOffboard \/ Takeoff \/ Climb
  BY <1>3 DEF Prestream, StartOffboard, Takeoff, Climb
<1>4. CASE NextWaypoint \/ PollAborts \/ PollWithoutFix \/ PollWithFix
  BY <1>4 DEF NextWaypoint, PollAborts, PollWithoutFix, PollWithFix
<1>5. CASE Hold \/ Settle \/ ScanFrame \/ ScanEnds
  BY <1>5 DEF Hold, Settle, ScanFrame, ScanEnds
<1>6. CASE StopOffboard \/ GroundSeen \/ GroundNotSeen
  BY <1>6 DEF StopOffboard, GroundSeen, GroundNotSeen
<1>7. CASE Interrupt \/ TelemSample \/ BatterySample \/ PumpDies \/ UwbPacket
  BY <1>7 DEF Interrupt, TelemSample, BatterySample, PumpDies, UwbPacket
<1>8. CASE Failsafe
  BY <1>8 DEF Failsafe
<1>9. QED
  BY <1>1, <1>2, <1>3, <1>4, <1>5, <1>6, <1>7, <1>8 DEF Unseen

\* Every step of the mission is a step of the contract or changes nothing in it.
LEMMA ContractNext ==
  CraftInv /\ [Next]_vars => [Contract!Next]_(Contract!cvars)
<1> SUFFICES ASSUME CraftInv, [Next]_vars
             PROVE  Contract!Next \/ UNCHANGED seen
  BY DEF seen, Contract!cvars
<1> USE DEF CraftInv, Preflight, OnGround, Ended, Goto, Crash, Land, Return,
            Effect, craft, rest, seen, Contract!Next
<1>1. CASE Arm
  BY <1>1 DEF Arm, Contract!Arm
<1>2. CASE Reject \/ Disarm \/ AutoDisarm
  BY <1>2 DEF Reject, Disarm, AutoDisarm, Contract!Disarm
<1>3. CASE OrderLanding
  BY <1>3 DEF OrderLanding, Contract!Release
<1>4. CASE Finalise
  BY <1>4 DEF Finalise, Contract!End
<1>5. CASE Lift
  BY <1>5 DEF Lift, Contract!Lift
<1>6. CASE Touchdown
  BY <1>6 DEF Touchdown, Contract!Touchdown
<1>7. CASE Unseen \/ UNCHANGED vars
  BY <1>7, UnseenStutters DEF vars
<1>8. QED
  BY <1>1, <1>2, <1>3, <1>4, <1>5, <1>6, <1>7
  DEF Next, Coroutine, Environment, Unseen

\* The whole mission implements the flight contract.
THEOREM MissionKeepsContract == Spec => ImplementsContract
<1>1. QED
  BY ContractInit, ContractNext, CraftInvariant, PTL
  DEF Spec, ImplementsContract, Contract!Spec

-----------------------------------------------------------------------------
(* Type correctness and the altitude cap *)

\* The route has a length.
LEMMA RouteLen == Len(Route) \in Nat
  BY RouteAssumption, LenProperties

\* Altitudes that the mission sends are numbers no higher than the cap.
LEMMA AltBound == Alt \in Nat /\ Alt <= MaxSafeAlt
  BY AltAssumption DEF Alt, Lowest

\* So are those of the waypoints, clamped by run_fly.
LEMMA WpAltBound ==
  ASSUME NEW i \in 1 .. Len(Route)
  PROVE  WpAlt(i) \in Nat /\ WpAlt(i) <= MaxSafeAlt
<1>1. Route[i] \in [cell : Cells, alt : Nat \cup {None}]
  BY RouteAssumption, ElementOfSeq
<1>2. Route[i].alt = None \/ Route[i].alt \in Nat
  BY <1>1
<1>3. QED
  BY <1>2, AltBound, AltAssumption DEF WpAlt, Lowest

\* A pose that the mission acts on is a place.
LEMMA FixType == TypeFeeds /\ Ready => Fix \in Cells
  BY RouteAssumption DEF TypeFeeds, Ready, UseFc, UseUwb, Fix

\* A watchdog has one of the known reasons.
LEMMA CheckSafetyType == CheckSafety \in Reasons \cup {None}
  BY DEF CheckSafety, Reasons

\* The mission starts at the first waypoint with the setpoint at rest.
LEMMA LegInit == Init => LegInv
<1> SUFFICES ASSUME Init PROVE LegInv
  OBVIOUS
<1> USE DEF Init
<1>1. TypeMission
  BY DEF TypeMission, Places, Calls, Streams, Flight, Reasons
<1>2. TypeCounts
  BY RouteLen, CountAssumption DEF TypeCounts
<1>3. TypeClocks
  BY TimeAssumption DEF TypeClocks
<1>4. TypeFeeds /\ TypeCraft
  BY DEF TypeFeeds, TypeCraft
<1>5. QED
  BY <1>1, <1>2, <1>3, <1>4, CountAssumption, AltAssumption
  DEF LegInv, TypeOK, AtWaypoint

\* What a step keeps if it leaves the clocks alone ...
LEMMA ClocksKept ==
  TypeClocks /\ UNCHANGED <<elapsed, poseAge, fcAge, uwbAge, hist>>
    /\ since' \in {since, 0} => TypeClocks'
  BY DEF TypeClocks

\* ... the counts alone.
LEMMA CountsKept ==
  TypeCounts /\ UNCHANGED <<wp, frame, velFail>> => TypeCounts'
  BY DEF TypeCounts

\* ... the feeds alone, but for the pumps' ends.
LEMMA FeedsKept ==
  TypeFeeds /\ UNCHANGED feeds /\ telem' \in BOOLEAN /\ battery' \in BOOLEAN
    => TypeFeeds'
  BY DEF TypeFeeds, feeds

\* What the steps to and from the air have in common.
LEMMA GroundStep ==
  ASSUME LegInv, UNCHANGED rest,
         pc' \in Places, pc' \in AtWaypoint => pc \in AtWaypoint,
         since' \in {since, 0},
         aborting' \in BOOLEAN, code' \in {None, 0, 1, 2},
         telem' \in BOOLEAN, battery' \in BOOLEAN,
         TypeCraft', spAlt' <= MaxSafeAlt
  PROVE  LegInv'
<1> USE DEF LegInv, TypeOK, rest, leg, clocks
<1>1. TypeMission'
  BY DEF TypeMission
<1>2. TypeCounts' /\ TypeClocks' /\ TypeFeeds'
  BY CountsKept, ClocksKept, FeedsKept
<1>3. QED
  BY <1>1, <1>2 DEF AtWaypoint

\* main() and the way to the air.
LEMMA LegTakeoff ==
  ASSUME LegInv,
         \/ Startup \/ Connect \/ LinkYields \/ HealthYields
         \/ StreamRaises \/ Arm \/ Prestream \/ StartOffboard
         \/ Reject \/ Takeoff \/ Climb
  PROVE  LegInv'
<1> USE DEF Places, Calls, Streams, Flight, AtWaypoint, Goto, Crash, Land,
            Return, Effect, craft, pumps
<1>0. /\ TypeCraft /\ spAlt <= MaxSafeAlt /\ aborting \in BOOLEAN
      /\ pc \in Places /\ code \in {None, 0, 1, 2}
      /\ telem \in BOOLEAN /\ battery \in BOOLEAN
      /\ Alt \in Nat /\ Alt <= MaxSafeAlt /\ 0 <= MaxSafeAlt
  BY AltBound, AltAssumption
  DEF LegInv, TypeOK, TypeMission, TypeFeeds
<1> USE DEF TypeCraft
<1>1. CASE Startup
  BY <1>0, <1>1, GroundStep DEF Startup
<1>2. CASE Connect
  BY <1>0, <1>2, GroundStep DEF Connect
<1>3. CASE LinkYields
  BY <1>0, <1>3, GroundStep DEF LinkYields
<1>4. CASE HealthYields
  BY <1>0, <1>4, GroundStep DEF HealthYields
<1>5. CASE StreamRaises
  BY <1>0, <1>5, GroundStep DEF StreamRaises
<1>6. CASE Arm
  BY <1>0, <1>6, GroundStep DEF Arm
<1>7. CASE Prestream
  BY <1>0, <1>7, GroundStep DEF Prestream
<1>8. CASE StartOffboard
  BY <1>0, <1>8, GroundStep DEF StartOffboard
<1>9. CASE Reject
  BY <1>0, <1>9, GroundStep DEF Reject
<1>10. CASE Takeoff
  BY <1>0, <1>10, GroundStep DEF Takeoff
<1>11. CASE Climb
  BY <1>0, <1>11, GroundStep DEF Climb
<1>12. QED
  BY <1>1, <1>2, <1>3, <1>4, <1>5, <1>6, <1>7, <1>8, <1>9, <1>10, <1>11

\* _land_and_disarm.
LEMMA LegLanding ==
  ASSUME LegInv,
         \/ StopOffboard \/ OrderLanding \/ GroundSeen \/ GroundNotSeen
         \/ Disarm
  PROVE  LegInv'
<1> USE DEF Places, Calls, Streams, Flight, AtWaypoint, Goto, Crash, Land,
            Return, Effect, craft, pumps
<1>0. /\ TypeCraft /\ spAlt <= MaxSafeAlt /\ aborting \in BOOLEAN
      /\ pc \in Places /\ code \in {None, 0, 1, 2}
      /\ telem \in BOOLEAN /\ battery \in BOOLEAN
      /\ Alt \in Nat /\ Alt <= MaxSafeAlt /\ 0 <= MaxSafeAlt
  BY AltBound, AltAssumption
  DEF LegInv, TypeOK, TypeMission, TypeFeeds
<1> USE DEF TypeCraft
<1>1. CASE StopOffboard
  BY <1>0, <1>1, GroundStep DEF StopOffboard
<1>2. CASE OrderLanding
  BY <1>0, <1>2, GroundStep DEF OrderLanding
<1>3. CASE GroundSeen
  BY <1>0, <1>3, GroundStep DEF GroundSeen
<1>4. CASE GroundNotSeen
  BY <1>0, <1>4, GroundStep DEF GroundNotSeen, Verdict
<1>5. CASE Disarm
  BY <1>0, <1>5, GroundStep DEF Disarm, Verdict
<1>6. QED
  BY <1>1, <1>2, <1>3, <1>4, <1>5

\* Vehicle and pumps that die.
LEMMA LegVehicle ==
  ASSUME LegInv,
         \/ PumpDies \/ Lift \/ Failsafe \/ Touchdown
         \/ AutoDisarm
  PROVE  LegInv'
<1> USE DEF Places, Calls, Streams, Flight, AtWaypoint, Goto, Crash, Land,
            Return, Effect, craft, pumps
<1>0. /\ TypeCraft /\ spAlt <= MaxSafeAlt /\ aborting \in BOOLEAN
      /\ pc \in Places /\ code \in {None, 0, 1, 2}
      /\ telem \in BOOLEAN /\ battery \in BOOLEAN
      /\ Alt \in Nat /\ Alt <= MaxSafeAlt /\ 0 <= MaxSafeAlt
  BY AltBound, AltAssumption
  DEF LegInv, TypeOK, TypeMission, TypeFeeds
<1> USE DEF TypeCraft
<1>1. CASE PumpDies
  <2>1. telem' \in BOOLEAN /\ battery' \in BOOLEAN
    BY <1>0, <1>1 DEF PumpDies
  <2>2. UNCHANGED <<rest, pc, since, aborting, code, craft>>
    BY <1>1 DEF PumpDies
  <2>3. QED
    BY <1>0, <2>1, <2>2, GroundStep
<1>2. CASE Lift
  BY <1>0, <1>2, GroundStep DEF Lift
<1>3. CASE Failsafe
  BY <1>0, <1>3, GroundStep DEF Failsafe
<1>4. CASE Touchdown
  BY <1>0, <1>4, GroundStep DEF Touchdown
<1>5. CASE AutoDisarm
  BY <1>0, <1>5, GroundStep DEF AutoDisarm
<1>6. QED
  BY <1>1, <1>2, <1>3, <1>4, <1>5

\* Time keeps the types: every clock saturates.
LEMMA DeadlineType == Deadline \in Nat
<1>1. Frames * GrabTime \in Nat
  BY TimeAssumption, CountAssumption
<1>2. QED
  BY <1>1, TimeAssumption DEF Deadline

\* Getting older keeps a clock a number,
LEMMA OlderNat ==
  ASSUME NEW age \in Nat, NEW cap \in Nat
  PROVE  Older(age, cap) \in Nat
  BY DEF Older, Lowest

\* and a saturating one within its cap.
LEMMA OlderCapped ==
  ASSUME NEW age \in 0 .. AgeCap
  PROVE  Older(age, AgeCap) \in 0 .. AgeCap
  BY TimeAssumption DEF Older, Lowest

\* Stuttering keeps LegInv.
LEMMA LegStutter == LegInv /\ UNCHANGED vars => LegInv'
<1> SUFFICES ASSUME LegInv, UNCHANGED vars PROVE LegInv'
  OBVIOUS
<1>1. UNCHANGED <<rest, pc, since, aborting, code, pumps, craft>>
  BY DEF vars, rest, ctl
<1>2. QED
  BY <1>1, GroundStep
  DEF LegInv, TypeOK, TypeMission, TypeFeeds, TypeCraft, craft, pumps

\* A tick keeps LegInv.
LEMMA LegTick == LegInv /\ Tick => LegInv'
<1> SUFFICES ASSUME LegInv, Tick PROVE LegInv'
  OBVIOUS
<1>0. TypeMission /\ TypeCounts /\ TypeClocks /\ TypeFeeds /\ TypeCraft
  BY DEF LegInv, TypeOK
<1>1. TypeMission' /\ TypeCraft'
  BY <1>0 DEF Tick, TypeMission, TypeCraft, craft
<1>2. TypeCounts'
  BY <1>0, CountsKept DEF Tick
<1>3. TypeFeeds'
  BY <1>0, FeedsKept DEF Tick, TypeFeeds, pumps
<1>4. TypeClocks'
  <2>1. since' \in Nat
    <3>1. since \in Nat /\ Deadline + 2 \in Nat
      BY <1>0, DeadlineType DEF TypeClocks
    <3>2. since' = Older(since, Deadline + 2)
      BY DEF Tick
    <3>3. QED
      BY <3>1, <3>2, OlderNat
  <2>2. elapsed' \in Nat
    <3>1. elapsed \in Nat /\ LongestWait + 1 \in Nat
      BY <1>0, TimeAssumption DEF TypeClocks, LongestWait, Highest
    <3>2. elapsed' = Older(elapsed, LongestWait + 1)
      BY DEF Tick
    <3>3. QED
      BY <3>1, <3>2, OlderNat
  <2>3. fcAge' \in 0 .. AgeCap /\ uwbAge' \in 0 .. AgeCap
    <3>1. fcAge \in 0 .. AgeCap /\ uwbAge \in 0 .. AgeCap
      BY <1>0 DEF TypeClocks
    <3>2. fcAge' = Older(fcAge, AgeCap) /\ uwbAge' = Older(uwbAge, AgeCap)
      BY DEF Tick
    <3>3. QED
      BY <3>1, <3>2, OlderCapped
  <2>4. poseAge' \in 0 .. AgeCap \cup {None}
    <3>1. poseAge \in 0 .. AgeCap \cup {None}
      BY <1>0 DEF TypeClocks
    <3>2. poseAge' = IF poseAge = None THEN None ELSE Older(poseAge, AgeCap)
      BY DEF Tick
    <3>3. QED
      BY <3>1, <3>2, OlderCapped
  <2>5. hist' \subseteq [age : 0 .. StuckWindow, cell : Cells]
    <3>1. hist \subseteq [age : 0 .. StuckWindow, cell : Cells]
      BY <1>0 DEF TypeClocks
    <3>2. hist' = {[h EXCEPT !.age = @ + 1] :
                     h \in {g \in hist : g.age < StuckWindow}}
      BY DEF Tick
    <3>3. QED
      BY <3>1, <3>2, TimeAssumption
  <2>6. QED
    BY <2>1, <2>2, <2>3, <2>4, <2>5 DEF TypeClocks
<1>5. QED
  BY <1>1, <1>2, <1>3, <1>4 DEF LegInv, TypeOK, Tick, AtWaypoint, craft

\* _set_setpoint keeps the count of failures and the altitude in bounds.
LEMMA SetpointKept ==
  ASSUME LegInv, ~stop, NEW alt \in Nat, alt <= MaxSafeAlt, SetSetpoint(alt)
  PROVE  /\ velFail' \in 0 .. VelFailAbort
         /\ velFail' = VelFailAbort => stop'
         /\ stop' \in BOOLEAN /\ reason' \in Reasons \cup {None}
         /\ spAlt' \in Nat /\ spAlt' <= MaxSafeAlt
<1>1. velFail \in 0 .. VelFailAbort /\ velFail # VelFailAbort
  BY DEF LegInv, TypeOK, TypeCounts
<1>2. /\ velFail' \in 0 .. VelFailAbort
      /\ velFail' = VelFailAbort => stop'
  BY <1>1, CountAssumption DEF SetSetpoint, Wedged
<1>3. stop' \in BOOLEAN /\ reason' \in Reasons \cup {None}
  <2>1. stop \in BOOLEAN /\ reason \in Reasons \cup {None}
    BY DEF LegInv, TypeOK, TypeMission
  <2>2. QED
    BY <2>1 DEF SetSetpoint, Reasons
<1>4. spAlt' \in Nat /\ spAlt' <= MaxSafeAlt
  <2>1. spAlt \in Nat /\ spAlt <= MaxSafeAlt
    BY DEF LegInv, TypeOK, TypeCraft
  <2>2. spAlt' = spAlt \/ spAlt' = alt
    BY DEF SetSetpoint
  <2>3. QED
    BY <2>1, <2>2
<1>5. QED
  BY <1>2, <1>3, <1>4

\* The waypoint loop.
LEMMA LegPoll ==
  ASSUME LegInv, PollAborts \/ PollWithoutFix \/ PollWithFix
  PROVE  LegInv'
<1> USE DEF craft, ctl, leg, clocks
<1>0. /\ TypeMission /\ TypeCounts /\ TypeClocks /\ TypeFeeds /\ TypeCraft
      /\ wp \in 1 .. Len(Route) /\ spAlt <= MaxSafeAlt
      /\ velFail = VelFailAbort => stop
  <2>1. pc = "nav"
    BY DEF PollAborts, PollWithoutFix, PollWithFix
  <2>2. wp \in 1 .. Len(Route) + 1 /\ wp <= Len(Route)
    BY <2>1 DEF LegInv, TypeOK, TypeCounts, AtWaypoint
  <2>3. QED
    BY <2>2, RouteLen DEF LegInv, TypeOK
<1>1. WpAlt(wp) \in Nat /\ WpAlt(wp) <= MaxSafeAlt
  BY <1>0, WpAltBound
<1>2. CASE PollAborts
  <2>1. TypeMission'
    BY <1>0, <1>2, CheckSafetyType
    DEF PollAborts, TypeMission, Land, Goto, Places, Calls
  <2>2. TypeCounts'
    BY <1>0, <1>2, CountsKept DEF PollAborts
  <2>3. TypeClocks'
    <3>1. UNCHANGED <<elapsed, poseAge, fcAge, uwbAge, hist>> /\ since' = 0
      BY <1>2 DEF PollAborts, Land, Goto
    <3>2. QED
      BY <1>0, <3>1 DEF TypeClocks
  <2>4. TypeFeeds'
    BY <1>0, <1>2, FeedsKept DEF PollAborts, pumps, TypeFeeds
  <2>5. TypeCraft'
    BY <1>0, <1>2 DEF PollAborts, TypeCraft
  <2>6. QED
    BY <1>0, <1>2, <2>1, <2>2, <2>3, <2>4, <2>5
    DEF LegInv, TypeOK, PollAborts, Land, Goto, AtWaypoint
<1>3. CASE PollWithoutFix
  <2>0. ~stop /\ SetSetpoint(WpAlt(wp))
    BY <1>3 DEF PollWithoutFix, MustAbort
  <2>1. TypeMission'
    BY <1>0, <1>1, <1>3, <2>0, SetpointKept DEF PollWithoutFix, TypeMission
  <2>2. TypeCounts'
    BY <1>0, <1>1, <1>3, <2>0, SetpointKept DEF PollWithoutFix, TypeCounts
  <2>3. TypeClocks'
    BY <1>0, <1>3, ClocksKept DEF PollWithoutFix
  <2>4. TypeFeeds'
    BY <1>0, <1>3, FeedsKept DEF PollWithoutFix, pumps, TypeFeeds
  <2>5. TypeCraft'
    BY <1>0, <1>1, <1>3, <2>0, SetpointKept DEF PollWithoutFix, TypeCraft
  <2>6. wp' = wp /\ wp <= Len(Route)
    BY <1>0, <1>3, RouteLen DEF PollWithoutFix
  <2>7. QED
    BY <1>1, <2>0, <2>1, <2>2, <2>3, <2>4, <2>5, <2>6, SetpointKept
    DEF LegInv, TypeOK
<1>4. CASE PollWithFix
  <2>1. ~stop
    BY <1>4 DEF PollWithFix, MustAbort
  <2>2. /\ velFail' \in 0 .. VelFailAbort
        /\ velFail' = VelFailAbort => stop'
        /\ stop' \in BOOLEAN /\ reason' \in Reasons \cup {None}
        /\ spAlt' \in Nat /\ spAlt' <= MaxSafeAlt
    <3>1. CASE SetSetpoint(WpAlt(wp))
      BY <1>1, <2>1, <3>1, SetpointKept
    <3>2. CASE UNCHANGED <<stop, reason, velFail, spAlt>>
      BY <1>0, <3>2 DEF TypeMission, TypeCounts, TypeCraft
    <3>3. QED
      BY <1>4, <3>1, <3>2 DEF PollWithFix
  <2>3. TypeMission'
    <3>1. /\ pc' \in {"hold", "nav", "stop_offboard"}
          /\ slept' \in BOOLEAN /\ aborting' \in BOOLEAN
      BY <1>0, <1>4 DEF PollWithFix, Land, Goto, TypeMission
    <3>2. UNCHANGED <<code, summary>>
      BY <1>4 DEF PollWithFix
    <3>3. QED
      BY <1>0, <2>2, <3>1, <3>2
      DEF TypeMission, Places, Calls, Streams, Flight
  <2>4. TypeCounts'
    BY <1>0, <1>4, <2>2 DEF PollWithFix, TypeCounts
  <2>5. TypeClocks'
    <3>1. Fix \in Cells
      BY <1>0, <1>4, FixType DEF PollWithFix
    <3>2. since' \in {since, 0} /\ poseAge' = 0 /\ UNCHANGED clocks
      BY <1>4 DEF PollWithFix, Land, Goto
    <3>3. hist' = hist \cup {[age |-> 0, cell |-> Fix]}
      BY <1>4 DEF PollWithFix
    <3>4. hist' \subseteq [age : 0 .. StuckWindow, cell : Cells]
      BY <1>0, <3>1, <3>3, TimeAssumption DEF TypeClocks
    <3>5. QED
      BY <1>0, <3>2, <3>4, TimeAssumption DEF TypeClocks
  <2>6. TypeFeeds'
    BY <1>0, <1>4, FeedsKept DEF PollWithFix, pumps, TypeFeeds
  <2>7. TypeCraft'
    BY <1>0, <1>4, <2>2 DEF PollWithFix, TypeCraft
  <2>8. wp' = wp /\ wp <= Len(Route)
    BY <1>0, <1>4, RouteLen DEF PollWithFix
  <2>9. QED
    BY <2>2, <2>3, <2>4, <2>5, <2>6, <2>7, <2>8 DEF LegInv, TypeOK
<1>5. QED
  BY <1>2, <1>3, <1>4

\* Between the legs, over a waypoint and in the scan.
LEMMA LegSurvey ==
  ASSUME LegInv, NextWaypoint \/ Hold \/ Settle \/ ScanFrame \/ ScanEnds
  PROVE  LegInv'
<1> USE DEF craft, ctl, leg, Goto, Land, Crash
<1>0. /\ TypeMission /\ TypeCounts /\ TypeClocks /\ TypeFeeds /\ TypeCraft
      /\ pc \in AtWaypoint => wp \in 1 .. Len(Route)
      /\ spAlt <= MaxSafeAlt
      /\ velFail = VelFailAbort => stop
  BY RouteLen DEF LegInv, TypeOK, TypeCounts
<1>1. CASE NextWaypoint
  <2>1. TypeMission'
    BY <1>0, <1>1
    DEF NextWaypoint, TypeMission, Places, Calls, Flight
  <2>2. TypeCounts' /\ TypeClocks'
    BY <1>0, <1>1, CountsKept, ClocksKept DEF NextWaypoint, clocks
  <2>3. TypeFeeds' /\ TypeCraft'
    BY <1>0, <1>1, FeedsKept DEF NextWaypoint, pumps, TypeFeeds, TypeCraft
  <2>4. pc' \in AtWaypoint => wp' <= Len(Route)
    BY <1>0, <1>1, RouteLen
    DEF NextWaypoint, SurveyOver, TypeCounts, AtWaypoint
  <2>5. QED
    BY <1>0, <1>1, <2>1, <2>2, <2>3, <2>4 DEF NextWaypoint, LegInv, TypeOK
<1>2. CASE Hold
  <2>1. WpAlt(wp) \in Nat /\ WpAlt(wp) <= MaxSafeAlt
    BY <1>0, <1>2, WpAltBound DEF Hold, AtWaypoint
  <2>2. TypeCraft' /\ spAlt' <= MaxSafeAlt
    BY <1>0, <1>2, <2>1 DEF Hold, Effect, TypeCraft
  <2>3. pc' \in {"settle", "stop_offboard"} /\ aborting' \in BOOLEAN
    BY <1>0, <1>2 DEF Hold, TypeMission
  <2>4. /\ UNCHANGED <<rest, code, pumps>>
        /\ since' = 0 /\ pc \in AtWaypoint
    BY <1>2 DEF Hold, AtWaypoint
  <2>5. telem' \in BOOLEAN /\ battery' \in BOOLEAN /\ code' \in {None, 0, 1, 2}
    BY <1>0, <2>4 DEF pumps, TypeFeeds, TypeMission
  <2>6. QED
    BY <2>2, <2>3, <2>4, <2>5, GroundStep DEF Places, Calls, Flight
<1>3. CASE Settle
  BY <1>0, <1>3, GroundStep
  DEF Settle, Places, Flight, AtWaypoint, TypeMission, TypeFeeds, TypeCraft,
      pumps
<1>4. CASE ScanFrame
  <2>1. TypeMission' /\ TypeClocks'
    BY <1>0, <1>4, ClocksKept DEF ScanFrame, TypeMission, clocks
  <2>2. TypeCounts'
    BY <1>0, <1>4, CountAssumption DEF ScanFrame, TypeCounts
  <2>3. TypeFeeds' /\ TypeCraft'
    BY <1>0, <1>4, FeedsKept DEF ScanFrame, pumps, TypeFeeds, TypeCraft
  <2>4. QED
    BY <1>0, <1>4, <2>1, <2>2, <2>3, RouteLen
    DEF ScanFrame, LegInv, TypeOK, AtWaypoint
<1>5. CASE ScanEnds
  <2>1. TypeMission'
    BY <1>0, <1>5
    DEF ScanEnds, TypeMission, Places, Calls, Flight
  <2>2. TypeCounts'
    BY <1>0, <1>5, RouteLen, CountAssumption
    DEF ScanEnds, TypeCounts, AtWaypoint
  <2>3. TypeClocks'
    BY <1>0, <1>5, ClocksKept DEF ScanEnds, clocks
  <2>4. TypeFeeds' /\ TypeCraft'
    BY <1>0, <1>5, FeedsKept DEF ScanEnds, pumps, TypeFeeds, TypeCraft
  <2>5. QED
    BY <1>0, <1>5, <2>1, <2>2, <2>3, <2>4
    DEF ScanEnds, LegInv, TypeOK, AtWaypoint
<1>6. QED
  BY <1>1, <1>2, <1>3, <1>4, <1>5

\* The end of main(), the operator, the pumps and the subscriber.
LEMMA LegFeeds ==
  ASSUME LegInv,
         Finalise \/ Interrupt \/ TelemSample \/ BatterySample \/ UwbPacket
  PROVE  LegInv'
<1> USE DEF craft, ctl, leg, pumps
<1>0. /\ TypeMission /\ TypeCounts /\ TypeClocks /\ TypeFeeds /\ TypeCraft
      /\ pc \in AtWaypoint => wp <= Len(Route)
      /\ spAlt <= MaxSafeAlt
      /\ velFail = VelFailAbort => stop
  BY DEF LegInv, TypeOK
<1>1. CASE Finalise
  <2>1. TypeMission'
    <3>1. summary' = None \/ summary' = (code # 0)
      BY <1>1 DEF Finalise
    <3>2. summary' \in BOOLEAN \cup {None}
      BY <3>1
    <3>3. QED
      BY <1>0, <1>1, <3>2 DEF Finalise, Goto, TypeMission, Places
  <2>2. TypeCounts' /\ TypeClocks'
    BY <1>0, <1>1, CountsKept, ClocksKept DEF Finalise, Goto, clocks
  <2>3. TypeFeeds' /\ TypeCraft'
    BY <1>0, <1>1, FeedsKept DEF Finalise, TypeFeeds, TypeCraft
  <2>4. QED
    BY <1>0, <1>1, <2>1, <2>2, <2>3
    DEF Finalise, Goto, LegInv, TypeOK, AtWaypoint
<1>2. CASE Interrupt
  <2>1. TypeMission'
    BY <1>0, <1>2 DEF Interrupt, TypeMission
  <2>2. TypeCounts' /\ TypeClocks'
    BY <1>0, <1>2, CountsKept, ClocksKept DEF Interrupt, clocks
  <2>3. TypeFeeds' /\ TypeCraft'
    BY <1>0, <1>2, FeedsKept DEF Interrupt, TypeFeeds, TypeCraft
  <2>4. QED
    BY <1>0, <1>2, <2>1, <2>2, <2>3 DEF Interrupt, LegInv, TypeOK
<1>3. CASE TelemSample \/ BatterySample \/ UwbPacket
  <2> USE DEF TelemSample, BatterySample, UwbPacket
  <2>1. TypeMission' /\ TypeCraft'
    BY <1>0, <1>3 DEF TypeMission, TypeCraft
  <2>2. TypeCounts'
    BY <1>0, <1>3, CountsKept
  <2>3. TypeClocks'
    <3>1. UNCHANGED <<since, elapsed, poseAge, hist>>
      BY <1>3 DEF clocks
    <3>2. fcAge' \in {fcAge, 0} /\ uwbAge' \in {uwbAge, 0}
      BY <1>3 DEF clocks
    <3>3. QED
      BY <1>0, <3>1, <3>2, TimeAssumption DEF TypeClocks
  <2>4. TypeFeeds'
    <3>1. stop \in BOOLEAN
      BY <1>0 DEF TypeMission
    <3>2. CASE TelemSample
      BY <1>0, <3>1, <3>2 DEF TypeFeeds
    <3>3. CASE BatterySample
      BY <1>0, <3>1, <3>3 DEF TypeFeeds
    <3>4. CASE UwbPacket
      BY <1>0, <3>4 DEF TypeFeeds
    <3>5. QED
      BY <1>3, <3>2, <3>3, <3>4
  <2>5. UNCHANGED <<pc, wp, spAlt, velFail, stop>>
    BY <1>3
  <2>6. QED
    BY <1>0, <2>1, <2>2, <2>3, <2>4, <2>5 DEF LegInv, TypeOK
<1>4. QED
  BY <1>1, <1>2, <1>3

\* Every step of the mission keeps LegInv.
LEMMA LegNext == LegInv /\ [Next]_vars => LegInv'
<1> SUFFICES ASSUME LegInv, [Next]_vars PROVE LegInv'
  OBVIOUS
<1>1. CASE Tick
  BY <1>1, LegTick
<1>2. CASE Coroutine
  BY <1>2, LegTakeoff, LegPoll, LegSurvey, LegLanding, LegFeeds DEF Coroutine
<1>3. CASE Environment
  BY <1>3, LegVehicle, LegFeeds DEF Environment
<1>4. CASE Exited \/ UNCHANGED vars
  BY <1>4, LegStutter DEF Exited
<1>5. QED
  BY <1>1, <1>2, <1>3, <1>4 DEF Next

\* A leg always has a waypoint, failed setpoints stop the mission in time, and
\* the setpoint stays below the net.
THEOREM LegInvariant == Spec => []LegInv
<1>1. QED
  BY LegInit, LegNext, PTL DEF Spec

\* Every variable has the values the code can give it: in particular no
\* waypoint is read past the end of the route, and the count of failed
\* setpoints never passes its limit.
THEOREM TypeCorrect == Spec => []TypeOK
<1>1. LegInv => TypeOK
  BY DEF LegInv
<1>2. QED
  BY <1>1, LegInvariant, PTL

\* No setpoint is above the net, whatever --takeoff-alt and the route say.
THEOREM NeverAboveTheNet == Spec => []BelowTheNet
<1>1. LegInv => BelowTheNet
  BY DEF LegInv, BelowTheNet
<1>2. QED
  BY <1>1, LegInvariant, PTL

-----------------------------------------------------------------------------
(* The exit code *)

\* No watchdog ended the survey, and it got to its end or ran out of time.
Surveyed == reason = None /\ (wp > Len(Route) \/ elapsed > MaxFlightTime)

\* A watchdog sets _stop with its reason, and from then on every way out of
\* the survey is an aborted landing; a landing that is not aborted follows a
\* survey.
VerdictInv ==
  /\ reason # None =>
       stop = TRUE /\ pc \in {"next_wp"} \cup AtWaypoint \cup Landing \cup Ended
  /\ pc \in Landing => aborting = TRUE \/ Surveyed
  /\ code = 0 => Surveyed
  /\ pc \in Ended /\ reason # None => code = 1
  /\ pc = "exit" /\ reason # None => summary # FALSE
  /\ code # None => pc \in Ended

\* What VerdictInv speaks of.
judged ==
  <<pc, stop, reason, aborting, code, summary, wp, elapsed>>

\* Steps that change none of it, but for the place before the landing.
LEMMA VerdictStutter == VerdictInv /\ UNCHANGED judged => VerdictInv'
  BY DEF VerdictInv, judged, Surveyed

LEMMA VerdictInit == Init => VerdictInv
  BY RouteAssumption DEF Init, VerdictInv, Surveyed, Landing, Ended

\* Before the first waypoint no watchdog looks.
LEMMA VerdictTakeoff ==
  ASSUME TypeMission, VerdictInv,
         \/ Startup \/ Connect \/ LinkYields \/ HealthYields \/ StreamRaises
         \/ Arm \/ Prestream \/ StartOffboard \/ Reject \/ Takeoff
         \/ Climb
  PROVE  VerdictInv'
<1> USE DEF VerdictInv, AtWaypoint, Landing, Ended, Goto, Crash, Land,
            Return, ctl, leg, clocks, rest
<1>0. /\ code = None /\ reason = None /\ reason' = reason
      /\ None \notin {0, 1, 2}
  BY RouteAssumption DEF Startup, Connect, LinkYields, HealthYields,
    StreamRaises, Arm, Prestream, StartOffboard, Reject, Takeoff, Climb
<1>1. CASE Startup
  BY <1>0, <1>1 DEF Startup
<1>2. CASE Connect
  BY <1>0, <1>2 DEF Connect
<1>3. CASE LinkYields
  BY <1>0, <1>3 DEF LinkYields
<1>4. CASE HealthYields
  BY <1>0, <1>4 DEF HealthYields
<1>5. CASE StreamRaises
  BY <1>0, <1>5 DEF StreamRaises
<1>6. CASE Arm
  BY <1>0, <1>6 DEF Arm
<1>7. CASE Prestream
  BY <1>0, <1>7 DEF Prestream
<1>8. CASE StartOffboard
  BY <1>0, <1>8 DEF StartOffboard
<1>9. CASE Reject
  BY <1>0, <1>9 DEF Reject
<1>10. CASE Takeoff
  BY <1>0, <1>10 DEF Takeoff
<1>11. CASE Climb
  BY <1>0, <1>11 DEF Climb
<1>12. QED
  BY <1>1, <1>2, <1>3, <1>4, <1>5, <1>6, <1>7, <1>8, <1>9, <1>10, <1>11

\* In the waypoint loop.
LEMMA VerdictSurvey ==
  ASSUME LegInv, VerdictInv,
         \/ NextWaypoint \/ PollAborts \/ PollWithoutFix \/ PollWithFix
         \/ Hold \/ Settle \/ ScanFrame \/ ScanEnds
  PROVE  VerdictInv'
<1> USE DEF VerdictInv, AtWaypoint, Landing, Ended, Goto, Crash, Land, ctl, leg,
            clocks, rest
<1>0. code = None /\ None \notin {0, 1} /\ stop \in BOOLEAN
  BY RouteAssumption DEF NextWaypoint, PollAborts, PollWithoutFix,
    PollWithFix, Hold, Settle,
         ScanFrame, ScanEnds, LegInv, TypeOK, TypeMission
<1>1. CASE NextWaypoint
  <2>1. Surveyed' = Surveyed
    BY <1>1 DEF NextWaypoint, Surveyed
  <2>2. SurveyOver => stop = TRUE \/ Surveyed
    BY <1>0 DEF SurveyOver, Surveyed
  <2>3. QED
    BY <1>0, <1>1, <2>1, <2>2 DEF NextWaypoint
<1>2. CASE PollAborts
  BY <1>0, <1>2 DEF PollAborts
<1>3. CASE PollWithoutFix
  BY <1>0, <1>3 DEF PollWithoutFix, SetSetpoint
<1>4. CASE PollWithFix
  BY <1>0, <1>4 DEF PollWithFix, SetSetpoint
<1>5. CASE Hold
  BY <1>0, <1>5 DEF Hold
<1>6. CASE Settle
  BY <1>0, <1>6 DEF Settle
<1>7. CASE ScanFrame
  BY <1>0, <1>7, VerdictStutter DEF ScanFrame, judged
<1>8. CASE ScanEnds
  BY <1>0, <1>8 DEF ScanEnds
<1>9. QED
  BY <1>1, <1>2, <1>3, <1>4, <1>5, <1>6, <1>7, <1>8

\* The landing turns the argument into the code, and main() the code into the
\* summary.
LEMMA VerdictLanding ==
  ASSUME TypeMission, VerdictInv,
         StopOffboard \/ OrderLanding \/ GroundSeen \/ GroundNotSeen
           \/ Disarm \/ Finalise
  PROVE  VerdictInv'
<1> USE DEF VerdictInv, Surveyed, AtWaypoint, Landing, Ended, Goto, Return,
            Verdict, ctl, leg, clocks, rest
<1>0. None # 0 /\ None # 1
  BY RouteAssumption
<1>1. CASE StopOffboard
  BY <1>0, <1>1 DEF StopOffboard
<1>2. CASE OrderLanding
  BY <1>0, <1>2 DEF OrderLanding
<1>3. CASE GroundSeen
  BY <1>0, <1>3 DEF GroundSeen
<1>4. CASE GroundNotSeen
  BY <1>0, <1>4 DEF GroundNotSeen
<1>5. CASE Disarm
  BY <1>0, <1>5 DEF Disarm
<1>6. CASE Finalise
  <2>1. code = 1 => summary' \in {None, TRUE}
    <3>1. summary' \in {None, code # 0}
      BY <1>6 DEF Finalise
    <3>2. code = 1 => (code # 0) = TRUE
      OBVIOUS
    <3>3. QED
      BY <3>1, <3>2, Zenon
  <2>2. code = 1 => summary' # FALSE
    BY <2>1, NoneAssumption
  <2>3. /\ pc = "finalise" /\ pc' = "exit"
        /\ UNCHANGED <<stop, reason, aborting, code, wp, elapsed>>
    BY <1>6 DEF Finalise
  <2>4. QED
    BY <2>2, <2>3
<1>7. QED
  BY <1>1, <1>2, <1>3, <1>4, <1>5, <1>6

\* Every other step leaves the verdict alone; time only goes on.
LEMMA VerdictNext == LegInv /\ VerdictInv /\ [Next]_vars => VerdictInv'
<1> SUFFICES ASSUME LegInv, VerdictInv, [Next]_vars PROVE VerdictInv'
  OBVIOUS
<1> USE DEF rest, ctl, leg, clocks, judged
<1>1. CASE Tick
  <2>1. elapsed \in Nat /\ LongestWait \in Nat /\ MaxFlightTime <= LongestWait
    BY TimeAssumption DEF LegInv, TypeOK, TypeClocks, LongestWait, Highest
  <2>2. elapsed > MaxFlightTime => elapsed' > MaxFlightTime
    BY <1>1, <2>1, TimeAssumption DEF Tick, Older, Lowest
  <2>3. UNCHANGED <<pc, stop, reason, aborting, code, summary, wp>>
    BY <1>1 DEF Tick
  <2>4. QED
    BY <2>2, <2>3 DEF VerdictInv, Surveyed
<1>2. CASE Coroutine
  BY <1>2, VerdictTakeoff, VerdictSurvey, VerdictLanding
  DEF Coroutine, LegInv, TypeOK
<1>3. CASE Interrupt
  <2>1. stop' = TRUE /\ UNCHANGED <<pc, reason, aborting, code, summary, wp, elapsed>>
    BY <1>3 DEF Interrupt
  <2>2. QED
    BY <2>1 DEF VerdictInv, Surveyed
<1>4. CASE Environment /\ ~Interrupt
  BY <1>4, VerdictStutter DEF Environment, TelemSample, BatterySample, PumpDies,
    UwbPacket, Lift, Failsafe, Touchdown, AutoDisarm
<1>5. CASE Exited \/ UNCHANGED vars
  BY <1>5, VerdictStutter DEF Exited, vars
<1>6. QED
  BY <1>1, <1>2, <1>3, <1>4, <1>5 DEF Next

\* Exit code 0 is a survey that nothing aborted, and a watchdog's abort is in
\* the code and the summary, whatever fails on the way.
THEOREM VerdictHolds == Spec => []VerdictIsTrue
<1>1. VerdictInv => VerdictIsTrue
  BY DEF VerdictInv, VerdictIsTrue, SuccessMeansSurveyed, AbortIsReported,
     Surveyed, Ended
<1>2. QED
  BY <1>1, VerdictInit, VerdictNext, LegInvariant, PTL DEF Spec

\* Once _stop is set no leg begins, the leg under way ends in the landing and
\* the worker begins no frame.
THEOREM StopIsObeyed == Spec => StopEndsSurvey
<1> DEFINE Obeyed ==
      stop => /\ ~(pc = "next_wp" /\ pc' = "nav")
              /\ pc = "nav" /\ pc' # "nav" => pc' = "stop_offboard"
              /\ frame' <= frame
<1>1. ASSUME LegInv, [Next]_vars PROVE [Obeyed]_vars
  <2> SUFFICES ASSUME stop, Next PROVE Obeyed
    BY <1>1
  <2> USE DEF Goto, Land, Crash, Return, rest, leg
  <2>0. frame \in Nat
    BY <1>1, CountAssumption DEF LegInv, TypeOK, TypeCounts
  <2>1. CASE NextWaypoint
    BY <2>0, <2>1 DEF NextWaypoint, SurveyOver
  <2>2. CASE PollAborts
    BY <2>0, <2>2 DEF PollAborts
  <2>3. CASE ScanEnds
    BY <2>0, <2>3 DEF ScanEnds
  <2>4. CASE Coroutine /\ ~(NextWaypoint \/ PollAborts \/ ScanEnds)
    <3>1. pc \notin {"next_wp", "nav"} /\ frame' = frame
      BY <2>4 DEF Coroutine, MustAbort, Startup, Connect, LinkYields,
        HealthYields, StreamRaises, Arm, Prestream, StartOffboard, Reject,
        Takeoff, Climb, PollWithoutFix, PollWithFix, Hold, Settle, ScanFrame,
        StopOffboard, OrderLanding, GroundSeen, GroundNotSeen, Disarm, Finalise
    <3>2. QED
      BY <2>0, <3>1
  <2>5. CASE Tick \/ Environment \/ Exited
    <3>1. UNCHANGED <<pc, frame>>
      BY <2>5 DEF Tick, Environment, Interrupt, TelemSample, BatterySample,
        PumpDies, UwbPacket, Lift, Failsafe, Touchdown, AutoDisarm, Exited, vars
    <3>2. QED
      BY <2>0, <3>1
  <2>6. QED
    BY <2>1, <2>2, <2>3, <2>4, <2>5 DEF Next
<1>2. QED
  BY <1>1, LegInvariant, PTL DEF Spec, StopEndsSurvey

-----------------------------------------------------------------------------
(* Flying without a fix *)

\* The longest way from reaching a waypoint to the first poll for the next one.
Detour   == RpcTime + SleepTime + Frames * GrabTime
Patience == Highest(PoseLossLand + 1, Detour)

\* With --pose fc the fix the mission flies by was FcPoseStale old at most when
\* poseAge was reset, and both grow together; poseAge is bounded by the poll
\* behind it while the loop polls, and by what the coroutine has waited since
\* while it holds, settles and scans.
BlindInv ==
  poseAge # None =>
    /\ pc \notin OnGround \cup {"climb"}
    /\ PoseSource = "fc" => FcPoseStale > 0 /\ fcAge < FcPoseStale + poseAge
    /\ pc = "nav" /\ slept = TRUE => poseAge <= PoseLossLand
    /\ pc \in {"nav", "next_wp"} => poseAge <= Patience
    /\ pc = "hold" => poseAge <= since /\ since <= RpcTime
    /\ pc = "settle" => poseAge <= RpcTime + since /\ since <= SleepTime
    /\ pc = "scan" =>
         poseAge <= RpcTime + SleepTime + since /\ since <= frame * GrabTime

\* What BlindInv speaks of.
aged == <<pc, since, slept, poseAge, fcAge, frame>>

LEMMA BlindStutter == BlindInv /\ UNCHANGED aged => BlindInv'
  BY DEF BlindInv, aged

LEMMA BlindInit == Init => BlindInv
  BY DEF Init, BlindInv

\* What the numbers of BlindInv are.
LEMMA WaitTypes ==
  /\ Detour \in Nat /\ Patience \in Nat
  /\ PoseLossLand < Patience /\ Detour <= Patience
  /\ \A f \in 0 .. Frames : f * GrabTime \in Nat
  /\ \A f \in 0 .. Frames : f * GrabTime <= Frames * GrabTime
<1>1. \A f \in 0 .. Frames : f * GrabTime \in Nat
  BY TimeAssumption, CountAssumption
<1>2. ASSUME NEW f \in 0 .. Frames PROVE f * GrabTime <= Frames * GrabTime
  <2>1. Frames - f \in Nat /\ Frames = f + (Frames - f)
    BY CountAssumption
  <2>2. (Frames - f) * GrabTime \in Nat
    BY <2>1, TimeAssumption
  <2>3. Frames * GrabTime = f * GrabTime + (Frames - f) * GrabTime
    BY <2>1, TimeAssumption, CountAssumption
  <2>4. QED
    BY <1>1, <2>2, <2>3
<1>3. Frames * GrabTime \in Nat
  BY TimeAssumption, CountAssumption
<1>4. Detour \in Nat
  BY <1>3, TimeAssumption DEF Detour
<1>5. Patience \in Nat /\ PoseLossLand < Patience /\ Detour <= Patience
  BY <1>4, TimeAssumption DEF Patience, Highest
<1>6. QED
  BY <1>1, <1>2, <1>4, <1>5

\* While the coroutine stays where it is both ages grow, and it stays no longer
\* than it may.
LEMMA BlindTick == LegInv /\ BlindInv /\ Tick => BlindInv'
<1> SUFFICES ASSUME LegInv, BlindInv, Tick, poseAge # None PROVE BlindInv'
  BY DEF BlindInv, Tick
<1>1. /\ since \in Nat /\ Deadline \in Nat /\ poseAge \in 0 .. AgeCap
      /\ fcAge \in 0 .. AgeCap /\ frame \in 0 .. Frames
      /\ slept \in BOOLEAN /\ AgeCap \in Nat /\ frame * GrabTime \in Nat
  BY DeadlineType, TimeAssumption, WaitTypes
  DEF LegInv, TypeOK, TypeMission, TypeCounts, TypeClocks
<1>2. /\ UNCHANGED <<pc, frame>> /\ slept' = FALSE
      /\ since' = Older(since, Deadline + 2)
      /\ poseAge' = Older(poseAge, AgeCap) /\ fcAge' = Older(fcAge, AgeCap)
  BY DEF Tick
<1>3. since' \in Nat /\ since' <= since + 1
  BY <1>1, <1>2 DEF Older, Lowest
<1>4. /\ poseAge' \in 0 .. AgeCap /\ poseAge' <= poseAge + 1
      /\ fcAge' <= fcAge + 1 /\ fcAge' <= AgeCap
      /\ poseAge' = poseAge + 1 \/ poseAge' = AgeCap
  BY <1>1, <1>2 DEF Older, Lowest
<1>5. PoseSource = "fc" => fcAge' < FcPoseStale + poseAge'
  <2> SUFFICES ASSUME PoseSource = "fc" PROVE fcAge' < FcPoseStale + poseAge'
    OBVIOUS
  <2>1. fcAge < FcPoseStale + poseAge /\ FcPoseStale \in Nat \ {0}
    BY TimeAssumption DEF BlindInv
  <2>2. QED
    BY <1>1, <1>2, <1>4, <2>1 DEF Older, Lowest
<1>6. pc \notin OnGround \cup {"climb"} /\ pc # "next_wp"
  BY DEF BlindInv, Tick, MayWait, Streams, Calls
<1>7. CASE pc = "nav"
  <2>1. slept = TRUE
    BY <1>1, <1>7 DEF Tick, MayWait, Streams, Calls
  <2>2. poseAge <= PoseLossLand /\ PoseLossLand \in Nat
    BY <1>7, <2>1, TimeAssumption DEF BlindInv
  <2>3. QED
    BY <1>1, <1>2, <1>4, <1>5, <1>6, <1>7, <2>2, WaitTypes DEF BlindInv
<1>8. CASE pc = "hold"
  <2>1. since < RpcTime /\ RpcTime \in Nat /\ Deadline = RpcTime
    BY <1>8, TimeAssumption DEF Tick, MayWait, Streams, Calls, Deadline
  <2>2. QED
    BY <1>1, <1>2, <1>3, <1>4, <1>5, <1>6, <1>8, <2>1 DEF BlindInv, Older,
      Lowest
<1>9. CASE pc = "settle"
  <2>1. /\ since < SleepTime /\ SleepTime \in Nat /\ RpcTime \in Nat
        /\ Deadline = SleepTime
    BY <1>9, TimeAssumption DEF Tick, MayWait, Streams, Calls, Deadline
  <2>2. QED
    BY <1>1, <1>2, <1>3, <1>4, <1>5, <1>6, <1>9, <2>1 DEF BlindInv, Older,
      Lowest
<1>10. CASE pc = "scan"
  <2>1. /\ since < frame * GrabTime
        /\ SleepTime \in Nat /\ RpcTime \in Nat
    BY <1>10, TimeAssumption DEF Tick, MayWait, Streams, Calls
  <2>2. /\ poseAge <= RpcTime + SleepTime + since
        /\ Deadline = Frames * GrabTime /\ frame * GrabTime <= Frames * GrabTime
    BY <1>1, <1>10, WaitTypes DEF BlindInv, Deadline
  <2>3. since' = since + 1
    BY <1>1, <1>2, <2>1, <2>2 DEF Older, Lowest
  <2>4. poseAge' <= RpcTime + SleepTime + since' /\ since' <= frame' * GrabTime
    BY <1>1, <1>2, <1>4, <2>1, <2>2, <2>3
  <2>5. QED
    BY <1>2, <1>4, <1>5, <1>6, <1>10, <2>4 DEF BlindInv
<1>11. CASE pc \notin {"nav", "hold", "settle", "scan"}
  BY <1>2, <1>4, <1>5, <1>6, <1>11 DEF BlindInv
<1>12. QED
  BY <1>7, <1>8, <1>9, <1>10, <1>11

\* A poll that goes on saw a fix that is not older than the watchdog's
\* patience, and one that uses a fix starts poseAge again.
LEMMA BlindPoll ==
  ASSUME LegInv, BlindInv, PollAborts \/ PollWithoutFix \/ PollWithFix
  PROVE  BlindInv'
<1>1. /\ PoseLossLand \in Nat /\ FcPoseStale \in Nat /\ RpcTime \in Nat
      /\ fcAge \in 0 .. AgeCap /\ stop \in BOOLEAN
  BY TimeAssumption DEF LegInv, TypeOK, TypeMission, TypeClocks
<1>2. CASE PollAborts
  BY <1>2 DEF PollAborts, Land, Goto, BlindInv, clocks, OnGround, Preflight
<1>3. CASE PollWithoutFix
  <2>1. /\ pc = "nav" /\ slept' = TRUE
        /\ UNCHANGED <<pc, since, poseAge, fcAge, frame>>
    BY <1>3 DEF PollWithoutFix, leg, clocks
  <2>2. poseAge # None => ~PoseLost
    BY <1>3, NoneAssumption DEF PollWithoutFix, MustAbort, CheckSafety
  <2>3. poseAge # None => poseAge <= PoseLossLand
    BY <1>1, <2>2 DEF PoseLost, LegInv, TypeOK, TypeClocks
  <2>4. QED
    BY <2>1, <2>3 DEF BlindInv
<1>4. CASE PollWithFix
  <2>1. /\ pc = "nav" /\ Ready /\ poseAge' = 0
        /\ pc' \in {"nav", "hold", "stop_offboard"}
        /\ pc' = "hold" => since' = 0
        /\ UNCHANGED <<fcAge, frame>>
    BY <1>4 DEF PollWithFix, Land, Goto, clocks
  <2>2. PoseSource = "fc" => fcAge < FcPoseStale
    BY <2>1 DEF Ready, UseFc, UseUwb, FcFresh
  <2>3. QED
    BY <1>1, <2>1, <2>2, WaitTypes DEF BlindInv, OnGround, Preflight
<1>5. QED
  BY <1>2, <1>3, <1>4

\* From one waypoint to the next.
LEMMA BlindSurvey ==
  ASSUME LegInv, BlindInv,
         NextWaypoint \/ Hold \/ Settle \/ ScanFrame \/ ScanEnds
  PROVE  BlindInv'
<1>1. /\ since \in Nat /\ poseAge \in 0 .. AgeCap \cup {None}
      /\ fcAge \in 0 .. AgeCap /\ frame \in 0 .. Frames
      /\ RpcTime \in Nat /\ SleepTime \in Nat /\ GrabTime \in Nat
      /\ FcPoseStale \in Nat
  BY TimeAssumption DEF LegInv, TypeOK, TypeCounts, TypeClocks
<1>2. CASE NextWaypoint
  BY <1>2
  DEF NextWaypoint, Land, Goto, BlindInv, leg, clocks, OnGround, Preflight
<1>3. CASE Hold
  <2>1. /\ pc = "hold" /\ pc' \in {"settle", "stop_offboard"} /\ since' = 0
        /\ UNCHANGED <<poseAge, fcAge>>
    BY <1>3 DEF Hold, Crash, Land, Goto, rest, clocks
  <2>2. QED
    BY <1>1, <2>1 DEF BlindInv, OnGround, Preflight
<1>4. CASE Settle
  <2>1. /\ pc = "settle" /\ since = SleepTime /\ pc' = "scan" /\ since' = 0
        /\ UNCHANGED <<poseAge, fcAge, frame>>
    BY <1>4 DEF Settle, Goto, rest, leg, clocks
  <2>2. 0 <= frame * GrabTime
    BY <1>1
  <2>3. QED
    BY <1>1, <2>1, <2>2 DEF BlindInv, OnGround, Preflight
<1>5. CASE ScanFrame
  <2>1. /\ pc = "scan" /\ frame' = frame + 1
        /\ UNCHANGED <<pc, since, poseAge, fcAge>>
    BY <1>5 DEF ScanFrame, clocks
  <2>2. frame * GrabTime <= (frame + 1) * GrabTime
    BY <1>1
  <2>3. frame * GrabTime \in Nat /\ (frame + 1) * GrabTime \in Nat
    BY <1>1
  <2>4. poseAge # None => since <= frame' * GrabTime
    BY <1>1, <2>1, <2>2, <2>3 DEF BlindInv
  <2>5. QED
    BY <2>1, <2>4 DEF BlindInv
<1>6. CASE ScanEnds
  <2>1. /\ pc = "scan" /\ pc' \in {"next_wp", "stop_offboard"}
        /\ UNCHANGED <<poseAge, fcAge>>
    BY <1>6 DEF ScanEnds, Crash, Land, Goto, clocks
  <2>2. poseAge # None => poseAge <= Detour
    <3>1. /\ frame * GrabTime <= Frames * GrabTime /\ frame * GrabTime \in Nat
          /\ Frames * GrabTime \in Nat
      BY <1>1, WaitTypes, CountAssumption
    <3>2. QED
      BY <1>1, <2>1, <3>1 DEF BlindInv, Detour
  <2>3. QED
    BY <1>1, <2>1, <2>2, WaitTypes DEF BlindInv, OnGround, Preflight
<1>7. QED
  BY <1>2, <1>3, <1>4, <1>5, <1>6

\* Before the first waypoint there was no fix; afterwards nothing is flown.
LEMMA BlindElsewhere ==
  ASSUME LegInv, BlindInv,
         \/ Startup \/ Connect \/ LinkYields \/ HealthYields \/ StreamRaises
         \/ Arm \/ Prestream \/ StartOffboard \/ Reject \/ Takeoff \/ Climb
         \/ StopOffboard \/ OrderLanding \/ GroundSeen \/ GroundNotSeen
         \/ Disarm \/ Finalise
  PROVE  BlindInv'
<1>1. /\ pc \in OnGround \cup {"climb"} \cup Landing \cup Ended
      /\ pc \in Landing \cup Ended => pc' \in Landing \cup Ended
      /\ UNCHANGED <<poseAge, fcAge>>
  BY DEF Startup, Connect, LinkYields, HealthYields, StreamRaises, Arm,
    Prestream,
    StartOffboard, Reject, Takeoff, Climb, StopOffboard, OrderLanding,
    GroundSeen,
    GroundNotSeen, Disarm, Finalise, Goto, Return, rest, clocks, OnGround,
    Preflight, Landing, Ended
<1>2. QED
  BY <1>1 DEF BlindInv, OnGround, Preflight, Landing, Ended

LEMMA BlindNext == LegInv /\ BlindInv /\ [Next]_vars => BlindInv'
<1> SUFFICES ASSUME LegInv, BlindInv, [Next]_vars PROVE BlindInv'
  OBVIOUS
<1> USE DEF rest, ctl, leg, clocks, aged
<1>1. CASE Tick
  BY <1>1, BlindTick
<1>2. CASE Coroutine
  BY <1>2, BlindElsewhere, BlindPoll, BlindSurvey DEF Coroutine
<1>3. CASE TelemSample
  <2>1. fcAge' = 0 /\ UNCHANGED <<pc, since, slept, poseAge, frame>>
    BY <1>3 DEF TelemSample
  <2>2. poseAge # None /\ PoseSource = "fc" => 0 < FcPoseStale + poseAge
    BY TimeAssumption DEF BlindInv, LegInv, TypeOK, TypeClocks
  <2>3. QED
    BY <2>1, <2>2 DEF BlindInv
<1>4. CASE Environment /\ ~TelemSample
  BY <1>4, BlindStutter DEF Environment, Interrupt, BatterySample, PumpDies,
    UwbPacket, Lift, Failsafe, Touchdown, AutoDisarm
<1>5. CASE Exited \/ UNCHANGED vars
  BY <1>5, BlindStutter DEF Exited, vars
<1>6. QED
  BY <1>1, <1>2, <1>3, <1>4, <1>5 DEF Next

\* With --pose fc no mission that had a fix is flown on for longer than
\* BlindBound without one, for any patience of the watchdogs and any time the
\* calls, sleeps and scans take.
THEOREM BlindnessIsBounded == Spec => []BlindFlightBounded
<1>1. LegInv /\ BlindInv => BlindFlightBounded
  <2> SUFFICES ASSUME LegInv, BlindInv, PoseSource = "fc", poseAge # None,
                      pc \in Flight
               PROVE  fcAge < BlindBound
    BY TimeAssumption, WaitTypes DEF BlindFlightBounded, LegInv, TypeOK,
      TypeClocks, BlindBound, Patience, Detour
  <2>1. fcAge < FcPoseStale + poseAge /\ pc \in {"next_wp"} \cup AtWaypoint
    BY DEF BlindInv, Flight, AtWaypoint, OnGround
  <2>2. poseAge \in Nat /\ fcAge \in Nat /\ since \in Nat /\ frame \in 0 .. Frames
    BY TimeAssumption DEF LegInv, TypeOK, TypeClocks, TypeCounts
  <2>3. /\ frame * GrabTime <= Frames * GrabTime /\ frame * GrabTime \in Nat
        /\ Frames * GrabTime \in Nat
    BY <2>2, WaitTypes, CountAssumption
  <2>4. poseAge <= Patience
    <3>1. PoseLossLand \in Nat /\ RpcTime \in Nat /\ SleepTime \in Nat
      BY TimeAssumption
    <3>2. CASE pc \in {"nav", "next_wp"}
      BY <3>2 DEF BlindInv
    <3>3. CASE pc \in {"hold", "settle", "scan"}
      <4>1. poseAge <= Detour
        BY <2>2, <2>3, <3>1, <3>3 DEF BlindInv, Detour
      <4>2. QED
        BY <2>2, <4>1, WaitTypes
    <3>4. QED
      BY <2>1, <3>2, <3>3 DEF AtWaypoint
  <2>5. BlindBound = FcPoseStale + Patience
    BY DEF BlindBound, Patience, Detour
  <2>6. QED
    BY <2>1, <2>2, <2>4, <2>5, WaitTypes, TimeAssumption
<1>2. QED
  BY <1>1, BlindInit, BlindNext, LegInvariant, PTL DEF Spec
=============================================================================

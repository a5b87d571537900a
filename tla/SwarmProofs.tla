----------------------------- MODULE SwarmProofs -----------------------------
(***************************************************************************)
(* Proofs about SwarmController, for any number of drones, zones and       *)
(* robots: nobody enters Phase B early, and the prompt is true.  Along the *)
(* inductive invariant PhaseInv.  The last lemma is about the priority     *)
(* rule of check_drone_avoidance.                                          *)
(***************************************************************************)
EXTENDS SwarmController, SequenceTheorems, WellFoundedInduction, TLAPS

-----------------------------------------------------------------------------
(* Facts about drone_list *)

\* The drone whose turn it is, is a drone of drone_list.
LEMMA TurnsDrone ==
  ASSUME list \in Seq(Drones), cur \in 1 .. Len(list)
  PROVE  D \in Drones /\ D \in Members
  BY ElementOfSeq, LenProperties DEF D, Members, ToSet

\* The drones of drone_list are drones.
LEMMA MembersAreDrones ==
  ASSUME list \in Seq(Drones)
  PROVE  Members \subseteq Drones
  BY ElementOfSeq, LenProperties DEF Members, ToSet

\* drone_list.remove leaves drones that were in drone_list.
LEMMA RemovedList ==
  ASSUME NEW S, NEW s \in Seq(S), NEW i \in 1 .. Len(s)
  PROVE  RemoveAt(s, i) \in Seq(S) /\ ToSet(RemoveAt(s, i)) \subseteq ToSet(s)
<1> DEFINE a == SubSeq(s, 1, i - 1)
           b == SubSeq(s, i + 1, Len(s))
<1>1. Len(s) \in Nat
  BY LenProperties
<1>2. a \in Seq(S) /\ b \in Seq(S)
  BY <1>1, SubSeqProperties, ElementOfSeq
<1>3. Len(a) = i - 1 /\ Len(b) = Len(s) - i
  BY <1>1, SubSeqProperties, ElementOfSeq
<1>4. \A j \in 1 .. i - 1 : a[j] = s[j]
  BY <1>1, SubSeqProperties, ElementOfSeq
<1>5. \A j \in 1 .. Len(s) - i : b[j] = s[i + j]
  <2>1. \A j \in i + 1 .. Len(s) : s[j] \in S
    BY <1>1, ElementOfSeq
  <2>2. \A j \in 1 .. Len(s) - (i + 1) + 1 : b[j] = s[(i + 1) + j - 1]
    BY <1>1, <2>1, SubSeqProperties
  <2>3. QED
    BY <1>1, <2>2
<1> DEFINE c == a \o b
<1> HIDE DEF a, b
<1>6. Len(c) = Len(s) - 1
  BY <1>1, <1>2, <1>3, ConcatProperties
<1>7. \A j \in 1 .. Len(s) - 1 : c[j] = IF j <= i - 1 THEN s[j] ELSE s[j + 1]
  <2>1. \A j \in 1 .. Len(a) + Len(b) :
          c[j] = IF j <= Len(a) THEN a[j] ELSE b[j - Len(a)]
    BY <1>2, ConcatProperties
  <2>2. QED
    BY <1>1, <1>3, <1>4, <1>5, <2>1
<1>8. c \in Seq(S) /\ DOMAIN c = 1 .. Len(s) - 1
  BY <1>2, <1>6, ConcatProperties, LenProperties
<1>9. DOMAIN s = 1 .. Len(s)
  BY LenProperties
<1> HIDE DEF c
<1>10. ToSet(c) \subseteq ToSet(s)
  BY <1>1, <1>7, <1>8, <1>9 DEF ToSet
<1>11. QED
  BY <1>8, <1>10 DEF RemoveAt, a, b, c

-----------------------------------------------------------------------------
(* The priority rule *)

\* check_drone_avoidance: a drone yields to lower ids only, so of the drones in
\* drone_list the one with the lowest id flies on, whoever is near whom.
LEMMA LowestFlies ==
  ASSUME list \in Seq(Drones)
  PROVE  SomeoneFlies
<1> SUFFICES ASSUME list # <<>>
             PROVE  \E d \in Members : ~Avoided(d)
  BY DEF SomeoneFlies
<1>1. Members \subseteq Nat
  BY MembersAreDrones, CountAssumption DEF Drones
<1>2. Members # {}
  <2>1. Len(list) \in Nat /\ Len(list) # 0 /\ DOMAIN list = 1 .. Len(list)
    BY EmptySeq, LenProperties
  <2>2. list[1] \in Members
    BY <2>1 DEF Members, ToSet
  <2>3. QED
    BY <2>2
<1> DEFINE Less == {p \in Nat \X Nat : p[1] < p[2]}
<1>3. IsWellFoundedOn(Less, Nat)
  BY NatLessThanWellFounded DEF OpToRel
<1> HIDE DEF Less
<1>4. PICK d \in Members : \A e \in Members : ~(<<e, d>> \in Less)
  BY <1>1, <1>2, <1>3, WFMin
<1>5. \A e \in Members : ~(e < d)
  BY <1>1, <1>4 DEF Less
<1>6. QED
  BY <1>1, <1>5 DEF Avoided, Yields

-----------------------------------------------------------------------------
(* The invariant *)

\* At the start every drone is on the ground and drone_list is empty.
LEMMA PhaseInit == Init => PhaseInv
<1> SUFFICES ASSUME Init
             PROVE  PhaseInv
  OBVIOUS
<1>1. LoopInv
  BY EmptySeq DEF Init, LoopInv, OnTheGround, TurnInList
<1>2. DroneInv
  BY DEF Init, DroneInv, States, PhaseA, PhaseB, Barrier
<1>3. QED
  BY <1>1, <1>2 DEF PhaseInv

\* What DroneInv speaks of.
told == <<list, state, craft, approver, approved>>

\* Steps that leave all of that alone keep DroneInv.
LEMMA DronesKept == DroneInv /\ UNCHANGED told => DroneInv'
  BY DEF DroneInv, told, Members, AllDone, Barrier

\* Setup, and the steps of a turn that no state of the drone is about.
LEMMA PhaseLoop ==
  ASSUME PhaseInv,
         \/ Setup \/ ReadPosition \/ MonitorSpeed \/ LookAtFrame \/ CallRaises
         \/ Pause \/ Hover
  PROVE  PhaseInv'
<1> USE DEF PhaseInv, LoopInv, TurnInList, OnTheGround, turn, fsm, phase,
            robots, world, told
<1>0. Len(list) \in Nat
  BY LenProperties
<1>1. CASE Setup
  <2>1. ASSUME NEW n \in 0 .. MaxDrones
        PROVE  /\ [i \in 1 .. n |-> i - 1] \in Seq(Drones)
               /\ Len([i \in 1 .. n |-> i - 1]) = n
    <3>1. \A i \in 1 .. n : i - 1 \in Drones
      BY <2>1, CountAssumption DEF Drones
    <3>2. n \in Nat
      BY <2>1, CountAssumption
    <3>3. QED
      BY <3>1, <3>2
  <2>5. list' \in Seq(Drones) /\ (pc' # "cleanup" => Len(list') > 0)
    BY <1>1, <2>1 DEF Setup
  <2>2. LoopInv'
    BY <1>1, <2>5 DEF Setup
  <2>3. DroneInv'
    BY <1>1 DEF Setup, DroneInv, Barrier, AllDone, Members, PhaseA, PhaseB
  <2>4. QED
    BY <2>2, <2>3
<1>2. CASE ReadPosition
  BY <1>2, DronesKept DEF ReadPosition
<1>3. CASE MonitorSpeed
  BY <1>3, DronesKept DEF MonitorSpeed
<1>4. CASE LookAtFrame
  BY <1>0, <1>4, DronesKept, EmptySeq DEF LookAtFrame, EndTurn, Raises
<1>5. CASE CallRaises
  BY <1>5, DronesKept DEF CallRaises, Raises
<1>6. CASE Pause
  BY <1>0, <1>6, DronesKept, EmptySeq DEF Pause
<1>7. CASE Hover
  BY <1>7, DronesKept DEF Hover, Proceeds, Branch
<1>8. QED
  BY <1>1, <1>2, <1>3, <1>4, <1>5, <1>6, <1>7

\* A step in which nothing changes.
LEMMA Standing == PhaseInv /\ UNCHANGED vars => PhaseInv'
  BY DronesKept
     DEF PhaseInv, LoopInv, TurnInList, OnTheGround, AllDone, Members, D, vars,
         turn, fsm, phase, told

\* A drone whose turn it is moves on within Phase A, to the wait, or within
\* Phase B; only its own craft may have moved.
LEMMA DroneMoves ==
  ASSUME DroneInv, D \in Drones, D \in Members,
         UNCHANGED <<list, phase>>,
         NEW t \in States,
         state' = [state EXCEPT ![D] = t],
         craft' \in [Drones -> {"ground", "flying", "landing"}],
         \A d \in Drones \ {D} : craft'[d] = craft[d],
         t = "WAIT_PHASE_B" => craft'[D] = "ground",
         \/ state[D] \in PhaseA /\ t \in PhaseA \cup {"WAIT_PHASE_B"}
         \/ state[D] \in PhaseB /\ t \in PhaseB
  PROVE  DroneInv'
<1> USE DEF DroneInv, phase
<1>1. Members' = Members
  BY DEF Members
<1>2. /\ state'[D] = t
      /\ \A d \in Drones \ {D} : state'[d] = state[d]
  OBVIOUS
<1>3. PhaseA \cap PhaseB = {} /\ "WAIT_PHASE_B" \notin PhaseA \cup PhaseB
  BY DEF PhaseA, PhaseB
<1>4. state' \in [Drones -> States] /\ approved' \in BOOLEAN
  OBVIOUS
<1>5. ASSUME NEW d \in Drones, state'[d] = "WAIT_PHASE_B"
      PROVE  craft'[d] = "ground"
  BY <1>2, <1>5
<1>6. ASSUME NEW d \in Drones \ Members', craft'[d] # "ground"
      PROVE  \E e \in Drones : state'[e] \in PhaseB
  <2>1. PICK e \in Drones : state[e] \in PhaseB
    BY <1>1, <1>6
  <2>2. QED
    BY <1>2, <1>3, <2>1
<1>7. Barrier'
  BY <1>1, <1>2, <1>3 DEF Barrier
<1>8. approver' = "asking" => AllDone'
  BY <1>1, <1>2, <1>3 DEF AllDone
<1>9. QED
  BY <1>4, <1>5, <1>6, <1>7, <1>8
\* The turns in which the drone's state says what to do.
LEMMA PhaseTurn ==
  ASSUME PhaseInv,
         \/ TakeOff("TAKEOFF_A", "TAKING_OFF_A")
         \/ EndClimb("TAKING_OFF_A", "FLY_TO_ZONE")
         \/ FlyToZone \/ LandInZone
         \/ TakeOff("TAKEOFF_B", "TAKING_OFF_B")
         \/ EndClimb("TAKING_OFF_B", "FLY_TO_WAYPOINT")
         \/ EndHunt \/ FlyOn \/ SpinScan
  PROVE  PhaseInv'
<1> USE DEF Branch, Become, Proceeds, Raises, fsm, phase, turn, robots, world,
            PhaseA, PhaseB, States
<1>1. /\ pc = "act" /\ pc' \in {"look", "cleanup"}
      /\ UNCHANGED <<list, turn, phase>>
  BY DEF TakeOff, EndClimb, FlyToZone, LandInZone, EndHunt, FlyOn, SpinScan
<1>2. D \in Drones /\ D \in Members
  BY <1>1, TurnsDrone DEF PhaseInv, LoopInv, TurnInList
<1>3. LoopInv'
  BY <1>1 DEF PhaseInv, LoopInv, TurnInList
<1>4. /\ state \in [Drones -> States]
      /\ craft \in [Drones -> {"ground", "flying", "landing"}]
  BY DEF PhaseInv, DroneInv
<1>5. \E t \in States :
        /\ state' = [state EXCEPT ![D] = t]
        /\ craft' \in [Drones -> {"ground", "flying", "landing"}]
        /\ \A d \in Drones \ {D} : craft'[d] = craft[d]
        /\ t = "WAIT_PHASE_B" => craft'[D] = "ground"
        /\ \/ state[D] \in PhaseA /\ t \in PhaseA \cup {"WAIT_PHASE_B"}
           \/ state[D] \in PhaseB /\ t \in PhaseB
  <2>1. state = [state EXCEPT ![D] = state[D]] /\ state[D] \in States
    BY <1>2, <1>4
  <2>2. CASE TakeOff("TAKEOFF_A", "TAKING_OFF_A")
    BY <1>2, <1>4, <2>1, <2>2 DEF TakeOff
  <2>3. CASE EndClimb("TAKING_OFF_A", "FLY_TO_ZONE")
    BY <1>2, <1>4, <2>1, <2>3 DEF EndClimb
  <2>4. CASE FlyToZone
    BY <1>2, <1>4, <2>1, <2>4 DEF FlyToZone
  <2>5. CASE LandInZone
    BY <1>2, <1>4, <2>1, <2>5 DEF LandInZone, LandNow, LandLost
  <2>6. CASE TakeOff("TAKEOFF_B", "TAKING_OFF_B")
    BY <1>2, <1>4, <2>1, <2>6 DEF TakeOff
  <2>7. CASE EndClimb("TAKING_OFF_B", "FLY_TO_WAYPOINT")
    BY <1>2, <1>4, <2>1, <2>7 DEF EndClimb
  <2>8. CASE EndHunt
    BY <1>2, <1>4, <2>1, <2>8 DEF EndHunt
  <2>9. CASE FlyOn
    BY <1>2, <1>4, <2>1, <2>9 DEF FlyOn
  <2>10. CASE SpinScan
    BY <1>2, <1>4, <2>1, <2>10 DEF SpinScan
  <2>11. QED
    BY <2>2, <2>3, <2>4, <2>5, <2>6, <2>7, <2>8, <2>9, <2>10
<1>6. DroneInv'
  BY <1>1, <1>2, <1>5, DroneMoves DEF PhaseInv
<1>7. QED
  BY <1>3, <1>6 DEF PhaseInv

\* The wait for the other drones and for the operator.  A drone starts on
\* Phase B in a step in which all the others have landed and it is approved.
LEMMA PhaseWait ==
  ASSUME PhaseInv, WaitPhaseB \/ Ask
  PROVE  PhaseInv'
<1> USE DEF Branch, Become, Proceeds, fsm, phase, turn, robots, world
<1>1. /\ pc \in {"act", "ask"} /\ pc' \in {"look", "ask"}
      /\ state[D] = "WAIT_PHASE_B"
      /\ UNCHANGED <<list, cur, craft, approved>>
      /\ pc' = "ask" => AllDone /\ UNCHANGED state
  BY DEF WaitPhaseB, Ask, StartPhaseB, PhaseInv, LoopInv
<1>2. D \in Drones /\ D \in Members
  BY <1>1, TurnsDrone DEF PhaseInv, LoopInv, TurnInList
<1>3. LoopInv'
  BY <1>1 DEF PhaseInv, LoopInv, TurnInList, AllDone, Members, D
<1>4. \/ UNCHANGED state /\ (approver' = "asking" => AllDone)
      \/ AllDone /\ approved /\ state' = [state EXCEPT ![D] = "TAKEOFF_B"]
  BY DEF WaitPhaseB, Ask, StartPhaseB, PhaseInv, LoopInv, DroneInv
<1>5. Members' = Members
  BY <1>1 DEF Members
<1>6. CASE UNCHANGED state /\ (approver' = "asking" => AllDone)
  BY <1>1, <1>3, <1>5, <1>6 DEF PhaseInv, DroneInv, Barrier, AllDone
<1>7. CASE AllDone /\ approved /\ state' = [state EXCEPT ![D] = "TAKEOFF_B"]
  <2> DEFINE d0 == D
  <2>1. d0 \in Drones /\ state' = [state EXCEPT ![d0] = "TAKEOFF_B"]
    BY <1>2, <1>7
  <2> HIDE DEF d0
  <2>2. state' \in [Drones -> States]
    BY <2>1 DEF PhaseInv, DroneInv, States, PhaseB
  <2>3. AllDone'
    BY <1>5, <1>7, <2>1 DEF PhaseInv, DroneInv, AllDone, PhaseA
  <2>4. Barrier' /\ approved'
    BY <1>1, <1>7, <2>3 DEF Barrier, AllDone
  <2>5. state'[d0] \in PhaseB
    BY <2>1 DEF PhaseInv, DroneInv, PhaseB
  <2>6. \A d \in Drones : state'[d] = "WAIT_PHASE_B" => craft'[d] = "ground"
    BY <1>1, <2>1 DEF PhaseInv, DroneInv
  <2>7. QED
    BY <1>1, <1>3, <2>1, <2>2, <2>3, <2>4, <2>5, <2>6 DEF PhaseInv, DroneInv
<1>8. QED
  BY <1>4, <1>6, <1>7

\* A drone that has completed the mission lands and leaves drone_list.
LEMMA PhaseComplete ==
  ASSUME PhaseInv, Complete
  PROVE  PhaseInv'
<1> USE DEF Branch, Raises, fsm, phase, robots, world
<1>1. pc = "act" /\ state[D] = "MISSION_COMPLETE"
  BY DEF Complete
<1>2. D \in Drones /\ D \in Members /\ cur \in 1 .. Len(list)
  BY <1>1, TurnsDrone DEF PhaseInv, LoopInv, TurnInList
<1>3. list' \in Seq(Drones) /\ ToSet(list') \subseteq ToSet(list)
  BY <1>2, RemovedList DEF Complete, PhaseInv, LoopInv
<1>4. LoopInv'
  BY <1>3 DEF Complete, PhaseInv, LoopInv, TurnInList
<1>5. /\ UNCHANGED <<state, phase>>
      /\ craft' \in [Drones -> {"ground", "flying", "landing"}]
      /\ \A d \in Drones : craft[d] = "ground" => craft'[d] = "ground"
  BY <1>2 DEF Complete, LandNow, LandLost, PhaseInv, DroneInv
<1>6. state[D] \in PhaseB
  BY <1>1 DEF PhaseB
<1>7. DroneInv'
  BY <1>2, <1>3, <1>5, <1>6 DEF PhaseInv, DroneInv, Barrier, AllDone, Members
<1>8. QED
  BY <1>4, <1>7 DEF PhaseInv

\* The end of main(), SIGINT, the operator, the parser and the drones' drift.
LEMMA PhaseOthers ==
  ASSUME PhaseInv,
         \/ Cleanup \/ EmergencyLand \/ PressEnter \/ PromptFails
         \/ ClearTags \/ FillTags \/ ParserDies \/ Drift
  PROVE  PhaseInv'
<1> USE DEF turn, fsm, phase, robots, world, told
<1>1. ASSUME LandAll, UNCHANGED <<list, state, phase>>
      PROVE  DroneInv'
  BY <1>1 DEF LandAll, PhaseInv, DroneInv, Barrier, AllDone, Members
<1>2. CASE Cleanup
  <2>1. LoopInv'
    BY <1>2 DEF Cleanup, PhaseInv, LoopInv, TurnInList
  <2>2. QED
    BY <1>1, <1>2, <2>1 DEF Cleanup, PhaseInv
<1>3. CASE EmergencyLand
  <2>1. LoopInv'
    BY <1>3 DEF EmergencyLand, PhaseInv, LoopInv, TurnInList
  <2>2. QED
    BY <1>1, <1>3, <2>1 DEF EmergencyLand, PhaseInv
<1>4. CASE PressEnter \/ PromptFails
  <2>1. LoopInv'
    BY <1>4 DEF PressEnter, PromptFails, PhaseInv, LoopInv, TurnInList,
                AllDone, Members, D, OnTheGround
  <2>2. DroneInv'
    BY <1>4 DEF PressEnter, PromptFails, PhaseInv, DroneInv, Barrier,
                AllDone, Members
  <2>3. QED
    BY <2>1, <2>2 DEF PhaseInv
<1>5. CASE ClearTags \/ FillTags \/ ParserDies \/ Drift
  <2>1. UNCHANGED <<pc, cur>> /\ UNCHANGED told
    BY <1>5 DEF ClearTags, FillTags, ParserDies, Drift
  <2>2. LoopInv'
    BY <2>1 DEF PhaseInv, LoopInv, TurnInList, AllDone, Members, D, OnTheGround
  <2>3. QED
    BY <2>1, <2>2, DronesKept DEF PhaseInv
<1>6. QED
  BY <1>2, <1>3, <1>4, <1>5

\* For every instance: where the loop is, and what the drones' states mean.
THEOREM PhaseInvariant == Spec => []PhaseInv
<1>1. Init => PhaseInv
  BY PhaseInit
<1>2. PhaseInv /\ [Next]_vars => PhaseInv'
  <2> SUFFICES ASSUME PhaseInv, [Next]_vars
               PROVE  PhaseInv'
    OBVIOUS
  <2>1. CASE Next
    BY <2>1, PhaseLoop, PhaseTurn, PhaseWait, PhaseComplete, PhaseOthers,
       Standing
       DEF Next, Main, Others, Turn, Exited
  <2>2. CASE UNCHANGED vars
    BY <2>2, Standing
  <2>3. QED
    BY <2>1, <2>2
<1>3. QED
  BY <1>1, <1>2, PTL DEF Spec

\* The Phase B barrier of the WAIT_PHASE_B branch holds in every instance.
THEOREM BarrierHolds == Spec => []Barrier
<1>1. PhaseInv => Barrier
  BY DEF PhaseInv, DroneInv
<1>2. QED
  BY <1>1, PhaseInvariant, PTL

\* The operator is never asked to approve Phase B while a drone is in the air.
THEOREM PromptHolds == Spec => []PromptIsTrue
<1>1. PhaseInv => PromptIsTrue
  <2> SUFFICES ASSUME PhaseInv, approver = "asking", ~approved,
                      NEW d \in Drones
               PROVE  craft[d] = "ground"
    BY DEF PromptIsTrue
  <2>1. \A e \in Drones : state[e] \notin PhaseB
    BY DEF PhaseInv, DroneInv, Barrier
  <2>2. CASE d \in Members
    <3>1. state[d] = "WAIT_PHASE_B"
      BY <2>1, <2>2 DEF PhaseInv, DroneInv, AllDone, States
    <3>2. QED
      BY <3>1 DEF PhaseInv, DroneInv
  <2>3. CASE d \notin Members
    BY <2>1, <2>3 DEF PhaseInv, DroneInv
  <2>4. QED
    BY <2>2, <2>3
<1>2. QED
  BY <1>1, PhaseInvariant, PTL

\* The loop never reads past the end of drone_list, though Complete shortens it.
THEOREM TurnStaysInList == Spec => []TurnInList
<1>1. PhaseInv => TurnInList
  BY DEF PhaseInv, LoopInv
<1>2. QED
  BY <1>1, PhaseInvariant, PTL

\* Whatever the positions and the tags, some drone in drone_list may fly on.
THEOREM NoMutualHover == Spec => []SomeoneFlies
<1>1. PhaseInv => SomeoneFlies
  BY LowestFlies DEF PhaseInv, LoopInv
<1>2. QED
  BY <1>1, PhaseInvariant, PTL
=============================================================================

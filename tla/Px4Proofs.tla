------------------------------ MODULE Px4Proofs ------------------------------
(***************************************************************************)
(* The fallback mission for every route, altitude and number of polls: its *)
(* types, that the bench modes leave the vehicle alone, and that a lost    *)
(* pose is in the exit code.                                               *)
(***************************************************************************)
EXTENDS Px4Mission, TLAPS

Commands == {"offboard", "arm", "land", "disarm"}

(* TypeOK in parts that different actions disturb; the waypoint of a leg   *)
(* exists.                                                                 *)
TPlace == pc \in Places /\ mode \in {"check", "nofly", "fly"}
TCode == code \in {None, 0, 1, 2, Interrupted}
TSummary == summary \in {None, TRUE, FALSE}
TStop == stop \in {None, "operator", "pose"}
TFlags == aborted \in BOOLEAN /\ streaming \in BOOLEAN
TRos ==
  /\ executor \in BOOLEAN /\ decodes \in BOOLEAN
  /\ pose \in BOOLEAN /\ armed \in BOOLEAN /\ offboard \in BOOLEAN
TCraft ==
  /\ nav \in {"manual", "offboard", "land"}
  /\ vehicle \in {"disarmed", "armed", "flying"}
  /\ release \in {"none", "done", "lost"}
TCmds == cmds \in Seq(Commands)
TCounts ==
  /\ wp \in 1..Len(Alts) + 1 /\ blind \in 0..LossPolls /\ spAlt \in Nat
  /\ pc \in {"leg", "scan"} => wp <= Len(Alts)

Types ==
  /\ TPlace /\ TCode /\ TSummary /\ TStop /\ TFlags /\ TRos /\ TCraft /\ TCmds
  /\ TCounts

(* The places of a flight that have a setpoint.                            *)
After == {"engage", "arm", "await_armed"} \cup Flight

(* Which places belong to which mode.                                      *)
ModeOfPlace ==
  /\ mode # "fly" => pc \in {"start", "check", "nofly", "finalise", "exit"}
  /\ mode = "fly" => pc \notin {"check", "nofly"}

(* A flight has a setpoint from the takeoff on, and what ends it well has. *)
HasSetpoint ==
  /\ pc \in After => spAlt > 0
  /\ pc \in {"land", "await_ground"} /\ ~aborted => spAlt > 0

(* Where the loss of the pose is remembered: by the survey in stop, by the *)
(* landing in its argument, afterwards in the exit code.                   *)
LossIsRemembered ==
  stop = "pose" =>
    /\ mode = "fly"
    /\ \/ pc \in {"scan", "wp"}
       \/ pc \in {"land", "await_ground"} /\ aborted
       \/ pc \in {"finalise", "exit"} /\ code = 1

(* What the exit code of a flight says from the end of the landing on.     *)
Ended ==
  /\ pc # "exit" => summary = None
  /\ pc \in {"finalise", "exit"} /\ mode = "fly" =>
       /\ code = 0 => spAlt > 0 /\ ~aborted
       /\ aborted => code # 0
       /\ pc = "exit" /\ summary # None /\ code # Interrupted => summary = (code # 0)

PInv ==
  Types /\ GroundedModes /\ ModeOfPlace /\ HasSetpoint /\ LossIsRemembered /\ Ended

(* The takeoff altitude and the legs' are positive after the clamp.        *)
LEMMA ClampedIs ==
  ASSUME NEW alt \in Nat \ {0}
  PROVE  Clamped(alt) \in Nat \ {0}
BY Px4Assumption DEF Clamped

-----------------------------------------------------------------------------
(* Types: what writes a variable, and that nothing else does.              *)
LEMMA SummaryType == TSummary /\ Next => TSummary'
<1> SUFFICES ASSUME TSummary, Next PROVE TSummary'
  OBVIOUS
<1>1. CASE Finalise
  <2>1. summary' \in {None, aborted \/ (mode # "check" /\ code \notin {0, Interrupted})}
    BY <1>1, Zenon DEF Finalise
  <2>2. (aborted \/ (mode # "check" /\ code \notin {0, Interrupted})) \in {TRUE, FALSE}
    OBVIOUS
  <2> QED BY <2>1, <2>2, Zenon DEF TSummary
<1>2. CASE ~Finalise
  <2>1. summary' = summary
    BY <1>2 DEF Next, Program, Px4, World, Start, StartFails, Crash, Check,
      NoflyScan, PoseSeen, Refuse, FirstTarget, Engage, Arm, ArmedSeen,
      NotArmed, Reached, NotReached, PollBlind, NextWaypoint, SurveyEnds,
      ScanOnce, Land, GroundSeen, GroundNotSeen, Deliver, OffboardLoss,
      ComeDown, RequestStop, StatusHeard, PositionHeard, ExecutorDies, Lose,
      Lift, PollSeeing, Exited, vars, run, mission
  <2> QED BY <2>1 DEF TSummary
<1> QED BY <1>1, <1>2

(* Only the mission's steps move pc, and they stay in Places.              *)
LEMMA PlaceType == TPlace /\ Next => TPlace'
<1> SUFFICES ASSUME TPlace, Next PROVE TPlace'
  OBVIOUS
<1> USE DEF run, leg, ros, feed, craft, mission, vars, Goto
<1>1. CASE Start
  BY <1>1 DEF TPlace, Places, Flight, Start
<1>2. CASE StartFails \/ Crash
  BY <1>2 DEF TPlace, Places, Flight, StartFails, Crash
<1>3. CASE Finalise \/ Check \/ NoflyScan
  BY <1>3 DEF TPlace, Places, Flight, Return, Finalise, Check, NoflyScan
<1>4. CASE PoseSeen \/ Refuse \/ FirstTarget
  BY <1>4 DEF TPlace, Places, Flight, Return, PoseSeen, Refuse, FirstTarget
<1>5. CASE Engage \/ Arm \/ ArmedSeen \/ NotArmed
  BY <1>5 DEF TPlace, Places, Flight, Engage, Arm, ArmedSeen, NotArmed
<1>6. CASE Reached \/ NotReached
  BY <1>6 DEF TPlace, Places, Flight, FlownTo, Reached, NotReached
<1>7. CASE PollBlind
  BY <1>7 DEF TPlace, Places, Flight, FlownTo, PollBlind
<1>8. CASE NextWaypoint \/ SurveyEnds \/ ScanOnce
  BY <1>8 DEF TPlace, Places, Flight, NextWaypoint, SurveyEnds, ScanOnce
<1>9. CASE Land \/ GroundSeen \/ GroundNotSeen
  BY <1>9 DEF TPlace, Places, Flight, Return, Land, GroundSeen,
    GroundNotSeen
<1>10. CASE ~Program
  <2>1. UNCHANGED <<pc, mode>>
    BY <1>10 DEF Next, Px4, World, Deliver, OffboardLoss, ComeDown,
      RequestStop, StatusHeard, PositionHeard, ExecutorDies, Lose, Lift,
      PollSeeing, Exited
  <2> QED BY <2>1 DEF TPlace
<1> QED BY <1>1, <1>2, <1>3, <1>4, <1>5, <1>6, <1>7, <1>8, <1>9, <1>10 DEF
     Program

(* The exit code is one that main can return.                              *)
LEMMA CodeType == TCode /\ Next => TCode'
<1> SUFFICES ASSUME TCode, Next PROVE TCode'
  OBVIOUS
<1> USE DEF run, leg, ros, feed, craft, mission, vars, Goto
<1>1. CASE StartFails \/ Crash
  BY <1>1 DEF TCode, StartFails, Interrupted, Crash
<1>2. CASE Check \/ NoflyScan \/ Refuse
  BY <1>2 DEF TCode, Return, Check, NoflyScan, Refuse
<1>3. CASE GroundSeen \/ GroundNotSeen
  BY <1>3 DEF TCode, Return, Verdict, GroundSeen, GroundNotSeen
<1>4. CASE ~(StartFails \/ Crash \/ Check \/ NoflyScan \/ Refuse \/
          GroundSeen \/ GroundNotSeen)
  <2>1. UNCHANGED <<code>>
    BY <1>4 DEF Next, Program, Px4, World, Start, Finalise, PoseSeen,
      FirstTarget, Engage, Arm, ArmedSeen, NotArmed, Reached, NotReached,
      PollBlind, NextWaypoint, SurveyEnds, ScanOnce, Land, Deliver,
      OffboardLoss, ComeDown, RequestStop, StatusHeard, PositionHeard,
      ExecutorDies, Lose, Lift, PollSeeing, Exited, FlownTo, Target, Send
  <2> QED BY <2>1 DEF TCode
<1> QED BY <1>1, <1>2, <1>3, <1>4

(* stop says who ended the survey.                                         *)
LEMMA StopType == TStop /\ Next => TStop'
<1> SUFFICES ASSUME TStop, Next PROVE TStop'
  OBVIOUS
<1> USE DEF run, leg, ros, feed, craft, mission, vars, Goto
<1>1. CASE PollBlind
  BY <1>1 DEF TStop, FlownTo, PollBlind
<1>2. CASE RequestStop
  BY <1>2 DEF TStop, RequestStop
<1>3. CASE ~(PollBlind \/ RequestStop)
  <2>1. UNCHANGED <<stop>>
    BY <1>3 DEF Next, Program, Px4, World, Start, StartFails, Crash,
      Finalise, Check, NoflyScan, PoseSeen, Refuse, FirstTarget, Engage, Arm,
      ArmedSeen, NotArmed, Reached, NotReached, NextWaypoint, SurveyEnds,
      ScanOnce, Land, GroundSeen, GroundNotSeen, Deliver, OffboardLoss,
      ComeDown, StatusHeard, PositionHeard, ExecutorDies, Lose, Lift,
      PollSeeing, Exited, Return, FlownTo, Target, Send
  <2> QED BY <2>1 DEF TStop
<1> QED BY <1>1, <1>2, <1>3

(* The setpoint timer and the landing's argument are flags.                *)
LEMMA FlagsType == TFlags /\ Next => TFlags'
<1> SUFFICES ASSUME TFlags, Next PROVE TFlags'
  OBVIOUS
<1> USE DEF run, leg, ros, feed, craft, mission, vars, Goto
<1>1. CASE StartFails \/ Crash
  BY <1>1 DEF TFlags, StartFails, Crash
<1>2. CASE NotArmed \/ SurveyEnds
  BY <1>2 DEF TFlags, NotArmed, SurveyEnds
<1>3. CASE Reached \/ NotReached
  BY <1>3 DEF TFlags, FlownTo, Reached, NotReached
<1>4. CASE PollBlind
  BY <1>4 DEF TFlags, FlownTo, PollBlind
<1>5. CASE FirstTarget
  BY <1>5 DEF TFlags, FirstTarget
<1>6. CASE ~(StartFails \/ Crash \/ NotArmed \/ SurveyEnds \/ Reached \/
          NotReached \/ PollBlind \/ FirstTarget)
  <2>1. UNCHANGED <<aborted, streaming>>
    BY <1>6 DEF Next, Program, Px4, World, Start, Finalise, Check,
      NoflyScan, PoseSeen, Refuse, Engage, Arm, ArmedSeen, NextWaypoint,
      ScanOnce, Land, GroundSeen, GroundNotSeen, Deliver, OffboardLoss,
      ComeDown, RequestStop, StatusHeard, PositionHeard, ExecutorDies, Lose,
      Lift, PollSeeing, Exited, Return, Target, Send
  <2> QED BY <2>1 DEF TFlags
<1> QED BY <1>1, <1>2, <1>3, <1>4, <1>5, <1>6

(* What the spin thread writes are flags.                                  *)
LEMMA RosType == TRos /\ Next => TRos'
<1> SUFFICES ASSUME TRos, Next PROVE TRos'
  OBVIOUS
<1> USE DEF run, leg, ros, feed, craft, mission, vars, Goto
<1>1. CASE Start \/ StartFails
  BY <1>1 DEF TRos, Start, StartFails
<1>2. CASE Finalise
  BY <1>2 DEF TRos, Finalise
<1>3. CASE StatusHeard
  BY <1>3 DEF TRos, StatusHeard
<1>4. CASE PositionHeard
  BY <1>4 DEF TRos, PositionHeard
<1>5. CASE ExecutorDies
  BY <1>5 DEF TRos, ExecutorDies
<1>6. CASE ~(Start \/ StartFails \/ Finalise \/ StatusHeard \/
          PositionHeard \/ ExecutorDies)
  <2>1. UNCHANGED <<executor, decodes, pose, armed, offboard>>
    BY <1>6 DEF Next, Program, Px4, World, Crash, Check, NoflyScan,
      PoseSeen, Refuse, FirstTarget, Engage, Arm, ArmedSeen, NotArmed,
      Reached, NotReached, PollBlind, NextWaypoint, SurveyEnds, ScanOnce,
      Land, GroundSeen, GroundNotSeen, Deliver, OffboardLoss, ComeDown,
      RequestStop, Lose, Lift, PollSeeing, Exited, Return, FlownTo, Target,
      Send
  <2> QED BY <2>1 DEF TRos
<1> QED BY <1>1, <1>2, <1>3, <1>4, <1>5, <1>6

(* What is delivered is one of the four commands.                          *)
LEMMA CraftType == TCmds /\ TCraft /\ Next => TCraft'
<1> SUFFICES ASSUME TCmds, TCraft, Next PROVE TCraft'
  OBVIOUS
<1> USE DEF run, leg, ros, feed, craft, mission, vars, Goto
<1>1. CASE Deliver
  <2>1. Head(cmds) \in Commands
    BY <1>1 DEF Deliver, TCmds
  <2>2. Obey(Head(cmds))
    BY <1>1 DEF Deliver
  <2> QED BY <2>1, <2>2 DEF TCraft, Obey, Commands
<1>2. CASE Land
  BY <1>2 DEF TCraft, Send, Land
<1>3. CASE Lose
  BY <1>3 DEF TCraft, Lose
<1>4. CASE OffboardLoss \/ Lift \/ ComeDown
  BY <1>4 DEF TCraft, OffboardLoss, Lift, ComeDown
<1>5. CASE ~(Deliver \/ Land \/ Lose \/ OffboardLoss \/ Lift \/ ComeDown)
  <2>1. UNCHANGED <<nav, vehicle, release>>
    BY <1>5 DEF Next, Program, Px4, World, Start, StartFails, Crash,
      Finalise, Check, NoflyScan, PoseSeen, Refuse, FirstTarget, Engage, Arm,
      ArmedSeen, NotArmed, Reached, NotReached, PollBlind, NextWaypoint,
      SurveyEnds, ScanOnce, GroundSeen, GroundNotSeen, RequestStop,
      StatusHeard, PositionHeard, ExecutorDies, PollSeeing, Exited, Return,
      FlownTo, Target, Send
  <2> QED BY <2>1 DEF TCraft
<1> QED BY <1>1, <1>2, <1>3, <1>4, <1>5

(* Only commands that the mission sends are on their way.                  *)
LEMMA CmdsType == TCmds /\ Next => TCmds'
<1> SUFFICES ASSUME TCmds, Next PROVE TCmds'
  OBVIOUS
<1> USE DEF run, leg, ros, feed, craft, mission, vars, Goto
<1>1. CASE Engage
  BY <1>1 DEF TCmds, Commands, Send, Engage
<1>2. CASE Arm
  BY <1>2 DEF TCmds, Commands, Send, Arm
<1>3. CASE Land
  BY <1>3 DEF TCmds, Commands, Send, Land
<1>4. CASE GroundSeen
  BY <1>4 DEF TCmds, Commands, Send, Return, GroundSeen
<1>5. CASE Deliver
  BY <1>5 DEF TCmds, Deliver
<1>6. CASE Lose
  BY <1>6 DEF TCmds, Lose
<1>7. CASE ~(Engage \/ Arm \/ Land \/ GroundSeen \/ Deliver \/ Lose)
  <2>1. UNCHANGED <<cmds>>
    BY <1>7 DEF Next, Program, Px4, World, Start, StartFails, Crash,
      Finalise, Check, NoflyScan, PoseSeen, Refuse, FirstTarget, ArmedSeen,
      NotArmed, Reached, NotReached, PollBlind, NextWaypoint, SurveyEnds,
      ScanOnce, GroundNotSeen, OffboardLoss, ComeDown, RequestStop,
      StatusHeard, PositionHeard, ExecutorDies, Lift, PollSeeing, Exited,
      Return, FlownTo, Target
  <2> QED BY <2>1 DEF TCmds
<1> QED BY <1>1, <1>2, <1>3, <1>4, <1>5, <1>6, <1>7

(* Indices, polls and altitudes keep their bounds.                         *)
LEMMA CountsType == TPlace /\ TCounts /\ Next => TCounts'
<1> SUFFICES ASSUME TPlace, TCounts, Next PROVE TCounts'
  OBVIOUS
<1> USE DEF run, leg, ros, feed, craft, mission, vars, Goto
<1>1. CASE ArmedSeen
  BY <1>1, Px4Assumption, ClampedIs DEF TCounts, TPlace, Target, ArmedSeen
<1>2. CASE Reached \/ NotReached
  BY <1>2, Px4Assumption DEF TCounts, TPlace, FlownTo, Reached, NotReached
<1>3. CASE PollBlind
  BY <1>3, Px4Assumption DEF TCounts, TPlace, FlownTo, PollBlind
<1>4. CASE NextWaypoint
  BY <1>4, Px4Assumption, ClampedIs DEF TCounts, TPlace, Target,
    NextWaypoint
<1>5. CASE ScanOnce
  BY <1>5, Px4Assumption DEF TCounts, TPlace, ScanOnce
<1>6. CASE PollSeeing
  BY <1>6, Px4Assumption DEF TCounts, TPlace, PollSeeing
<1>7. CASE FirstTarget
  BY <1>7, Px4Assumption DEF TCounts, TPlace, FirstTarget
<1>8. CASE Engage \/ Arm \/ Land \/ NotArmed \/ SurveyEnds
  BY <1>8, Px4Assumption DEF TCounts, TPlace, Engage, Arm, Land, NotArmed,
    SurveyEnds
<1>9. CASE Start \/ StartFails \/ Crash
  BY <1>9, Px4Assumption DEF TCounts, TPlace, Start, StartFails, Crash
<1>10. CASE Check \/ NoflyScan \/ Refuse
  BY <1>10, Px4Assumption DEF TCounts, TPlace, Return, Check, NoflyScan,
    Refuse
<1>11. CASE GroundSeen \/ GroundNotSeen
  BY <1>11, Px4Assumption DEF TCounts, TPlace, Return, GroundSeen,
    GroundNotSeen
<1>12. CASE Finalise \/ PoseSeen
  BY <1>12, Px4Assumption DEF TCounts, TPlace, Finalise, PoseSeen
<1>13. CASE ~(Program \/ PollSeeing)
  <2>1. UNCHANGED <<wp, blind, spAlt, pc>>
    BY <1>13 DEF Next, Px4, World, Deliver, OffboardLoss, ComeDown,
      RequestStop, StatusHeard, PositionHeard, ExecutorDies, Lose, Lift,
      Exited
  <2> QED BY <2>1 DEF TCounts
<1> QED BY <1>1, <1>2, <1>3, <1>4, <1>5, <1>6, <1>7, <1>8, <1>9, <1>10,
     <1>11, <1>12, <1>13 DEF Program

-----------------------------------------------------------------------------
(* The invariants.  A run never reaches a place of another mode.           *)
LEMMA ModeIsKept == TPlace /\ ModeOfPlace /\ Next => ModeOfPlace'
<1> SUFFICES ASSUME TPlace, ModeOfPlace, Next PROVE ModeOfPlace'
  OBVIOUS
<1> USE DEF run, leg, ros, feed, craft, mission, vars, Goto
<1>1. CASE Start
  BY <1>1 DEF ModeOfPlace, TPlace, Start
<1>2. CASE StartFails \/ Crash
  BY <1>2 DEF ModeOfPlace, TPlace, StartFails, Crash
<1>3. CASE Finalise \/ Check \/ NoflyScan
  BY <1>3 DEF ModeOfPlace, TPlace, Return, Finalise, Check, NoflyScan
<1>4. CASE PoseSeen \/ Refuse \/ FirstTarget
  BY <1>4 DEF ModeOfPlace, TPlace, Return, PoseSeen, Refuse, FirstTarget
<1>5. CASE Engage \/ Arm \/ ArmedSeen \/ NotArmed
  BY <1>5 DEF ModeOfPlace, TPlace, Engage, Arm, ArmedSeen, NotArmed
<1>6. CASE Reached \/ NotReached
  BY <1>6 DEF ModeOfPlace, TPlace, FlownTo, Reached, NotReached
<1>7. CASE PollBlind
  BY <1>7 DEF ModeOfPlace, TPlace, FlownTo, PollBlind
<1>8. CASE NextWaypoint \/ SurveyEnds \/ ScanOnce
  BY <1>8 DEF ModeOfPlace, TPlace, NextWaypoint, SurveyEnds, ScanOnce
<1>9. CASE Land \/ GroundSeen \/ GroundNotSeen
  BY <1>9 DEF ModeOfPlace, TPlace, Return, Land, GroundSeen, GroundNotSeen
<1>10. CASE ~Program
  <2>1. UNCHANGED <<pc, mode>>
    BY <1>10 DEF Next, Px4, World, Deliver, OffboardLoss, ComeDown,
      RequestStop, StatusHeard, PositionHeard, ExecutorDies, Lose, Lift,
      PollSeeing, Exited
  <2> QED BY <2>1 DEF ModeOfPlace
<1> QED BY <1>1, <1>2, <1>3, <1>4, <1>5, <1>6, <1>7, <1>8, <1>9, <1>10 DEF
     Program

(* The bench modes send no command.                                        *)
LEMMA GroundIsKept == ModeOfPlace /\ GroundedModes /\ Next => GroundedModes'
<1> SUFFICES ASSUME ModeOfPlace, GroundedModes, Next PROVE GroundedModes'
  OBVIOUS
<1> USE DEF run, leg, ros, feed, craft, mission, vars, Goto
<1>1. CASE Engage \/ Arm
  BY <1>1 DEF GroundedModes, ModeOfPlace, Send, Engage, Arm
<1>2. CASE Land
  BY <1>2 DEF GroundedModes, ModeOfPlace, Send, Land
<1>3. CASE GroundSeen
  BY <1>3 DEF GroundedModes, ModeOfPlace, Send, Return, GroundSeen
<1>4. CASE Deliver \/ Lose
  BY <1>4 DEF GroundedModes, ModeOfPlace, Deliver, Lose
<1>5. CASE OffboardLoss \/ Lift \/ ComeDown
  BY <1>5 DEF GroundedModes, ModeOfPlace, OffboardLoss, Lift, ComeDown
<1>6. CASE ~(Engage \/ Arm \/ Land \/ GroundSeen \/ Deliver \/ Lose \/
          OffboardLoss \/ Lift \/ ComeDown)
  <2>1. UNCHANGED <<mode, vehicle, cmds, release>>
    BY <1>6 DEF Next, Program, Px4, World, Start, StartFails, Crash,
      Finalise, Check, NoflyScan, PoseSeen, Refuse, FirstTarget, ArmedSeen,
      NotArmed, Reached, NotReached, PollBlind, NextWaypoint, SurveyEnds,
      ScanOnce, GroundNotSeen, RequestStop, StatusHeard, PositionHeard,
      ExecutorDies, PollSeeing, Exited, Return, FlownTo, Target
  <2> QED BY <2>1 DEF GroundedModes
<1> QED BY <1>1, <1>2, <1>3, <1>4, <1>5, <1>6

(* No step of a flight goes on without a setpoint.                         *)
LEMMA SetpointIsKept == TPlace /\ TCounts /\ HasSetpoint /\ Next => HasSetpoint'
<1> SUFFICES ASSUME TPlace, TCounts, HasSetpoint, Next PROVE HasSetpoint'
  OBVIOUS
<1> USE DEF run, leg, ros, feed, craft, mission, vars, Goto
<1>1. CASE Start
  BY <1>1 DEF HasSetpoint, TPlace, TCounts, After, Flight, Start
<1>2. CASE StartFails \/ Crash
  BY <1>2 DEF HasSetpoint, TPlace, TCounts, After, Flight, StartFails,
    Crash
<1>3. CASE Finalise \/ Check \/ NoflyScan
  BY <1>3 DEF HasSetpoint, TPlace, TCounts, After, Flight, Return,
    Finalise, Check, NoflyScan
<1>4. CASE PoseSeen \/ Refuse \/ FirstTarget
  BY <1>4, Px4Assumption DEF HasSetpoint, TPlace, TCounts, After, Flight,
    Return, PoseSeen, Refuse, FirstTarget
<1>5. CASE Engage \/ Arm \/ ArmedSeen \/ NotArmed
  BY <1>5, Px4Assumption, ClampedIs DEF HasSetpoint, TPlace, TCounts,
    After, Flight, Target, Engage, Arm, ArmedSeen, NotArmed
<1>6. CASE Reached \/ NotReached
  BY <1>6 DEF HasSetpoint, TPlace, TCounts, After, Flight, FlownTo,
    Reached, NotReached
<1>7. CASE PollBlind
  BY <1>7 DEF HasSetpoint, TPlace, TCounts, After, Flight, FlownTo,
    PollBlind
<1>8. CASE NextWaypoint \/ SurveyEnds \/ ScanOnce
  BY <1>8, Px4Assumption, ClampedIs DEF HasSetpoint, TPlace, TCounts,
    After, Flight, Target, NextWaypoint, SurveyEnds, ScanOnce
<1>9. CASE Land \/ GroundSeen \/ GroundNotSeen
  BY <1>9 DEF HasSetpoint, TPlace, TCounts, After, Flight, Return, Land,
    GroundSeen, GroundNotSeen
<1>10. CASE ~Program
  <2>1. UNCHANGED <<pc, aborted, spAlt>>
    BY <1>10 DEF Next, Px4, World, Deliver, OffboardLoss, ComeDown,
      RequestStop, StatusHeard, PositionHeard, ExecutorDies, Lose, Lift,
      PollSeeing, Exited
  <2> QED BY <2>1 DEF HasSetpoint
<1> QED BY <1>1, <1>2, <1>3, <1>4, <1>5, <1>6, <1>7, <1>8, <1>9, <1>10 DEF
     Program

(* No step forgets that the pose was lost.                                 *)
LEMMA LossIsKept == ModeOfPlace /\ LossIsRemembered /\ Next => LossIsRemembered'
<1> SUFFICES ASSUME ModeOfPlace, LossIsRemembered, Next PROVE LossIsRemembered'
  OBVIOUS
<1> USE DEF run, leg, ros, feed, craft, mission, vars, Goto
<1>1. CASE Start
  BY <1>1 DEF LossIsRemembered, ModeOfPlace, Start
<1>2. CASE StartFails \/ Crash
  BY <1>2 DEF LossIsRemembered, ModeOfPlace, StartFails, Crash
<1>3. CASE Finalise \/ Check \/ NoflyScan
  BY <1>3 DEF LossIsRemembered, ModeOfPlace, Return, Finalise, Check,
    NoflyScan
<1>4. CASE PoseSeen \/ Refuse \/ FirstTarget
  BY <1>4, NoneAssumption DEF LossIsRemembered, ModeOfPlace, Return,
    PoseSeen, Refuse, FirstTarget
<1>5. CASE Engage \/ Arm \/ ArmedSeen \/ NotArmed
  BY <1>5 DEF LossIsRemembered, ModeOfPlace, Engage, Arm, ArmedSeen,
    NotArmed
<1>6. CASE Reached \/ NotReached
  BY <1>6, NoneAssumption DEF LossIsRemembered, ModeOfPlace, FlownTo,
    Reached, NotReached
<1>7. CASE PollBlind
  BY <1>7, NoneAssumption DEF LossIsRemembered, ModeOfPlace, FlownTo,
    PollBlind
<1>8. CASE NextWaypoint \/ SurveyEnds \/ ScanOnce
  BY <1>8, NoneAssumption DEF LossIsRemembered, ModeOfPlace, NextWaypoint,
    SurveyEnds, ScanOnce
<1>9. CASE Land \/ GroundSeen \/ GroundNotSeen
  BY <1>9 DEF LossIsRemembered, ModeOfPlace, Verdict, Return, Land,
    GroundSeen, GroundNotSeen
<1>10. CASE RequestStop
  BY <1>10, NoneAssumption DEF LossIsRemembered, ModeOfPlace, RequestStop
<1>11. CASE ~(Program \/ RequestStop)
  <2>1. UNCHANGED <<stop, mode, pc, aborted, code>>
    BY <1>11 DEF Next, Px4, World, Deliver, OffboardLoss, ComeDown,
      StatusHeard, PositionHeard, ExecutorDies, Lose, Lift, PollSeeing,
      Exited
  <2> QED BY <2>1 DEF LossIsRemembered
<1> QED BY <1>1, <1>2, <1>3, <1>4, <1>5, <1>6, <1>7, <1>8, <1>9, <1>10,
     <1>11 DEF Program

(* The exit code of a landing says how it came about.                      *)
LEMMA EndIsKept == HasSetpoint /\ ModeOfPlace /\ Ended /\ Next => Ended'
<1> SUFFICES ASSUME HasSetpoint, ModeOfPlace, Ended, Next PROVE Ended'
  OBVIOUS
<1> USE DEF run, leg, ros, feed, craft, mission, vars, Goto
<1>1. CASE Start
  BY <1>1 DEF Ended, ModeOfPlace, HasSetpoint, Start
<1>2. CASE StartFails \/ Crash
  BY <1>2 DEF Ended, ModeOfPlace, HasSetpoint, StartFails, Interrupted, Crash
<1>3. CASE Finalise \/ Check \/ NoflyScan
  BY <1>3 DEF Ended, ModeOfPlace, HasSetpoint, Return, Finalise, Check,
    NoflyScan, Interrupted
<1>4. CASE PoseSeen \/ Refuse \/ FirstTarget
  BY <1>4 DEF Ended, ModeOfPlace, HasSetpoint, Return, PoseSeen, Refuse,
    FirstTarget
<1>5. CASE Engage \/ Arm \/ ArmedSeen \/ NotArmed
  BY <1>5 DEF Ended, ModeOfPlace, HasSetpoint, Engage, Arm, ArmedSeen,
    NotArmed
<1>6. CASE Reached \/ NotReached
  BY <1>6 DEF Ended, ModeOfPlace, HasSetpoint, FlownTo, Reached, NotReached
<1>7. CASE PollBlind
  BY <1>7 DEF Ended, ModeOfPlace, HasSetpoint, FlownTo, PollBlind
<1>8. CASE NextWaypoint \/ SurveyEnds \/ ScanOnce
  BY <1>8 DEF Ended, ModeOfPlace, HasSetpoint, NextWaypoint, SurveyEnds,
    ScanOnce
<1>9. CASE Land \/ GroundSeen \/ GroundNotSeen
  BY <1>9 DEF Ended, ModeOfPlace, HasSetpoint, Verdict, Return, Land,
    GroundSeen, GroundNotSeen
<1>10. CASE ~Program
  <2>1. UNCHANGED <<pc, mode, aborted, spAlt, code, summary>>
    BY <1>10 DEF Next, Px4, World, Deliver, OffboardLoss, ComeDown,
      RequestStop, StatusHeard, PositionHeard, ExecutorDies, Lose, Lift,
      PollSeeing, Exited
  <2> QED BY <2>1 DEF Ended
<1> QED BY <1>1, <1>2, <1>3, <1>4, <1>5, <1>6, <1>7, <1>8, <1>9, <1>10 DEF
     Program

-----------------------------------------------------------------------------
(* The parts are TypeOK.                                                   *)
LEMMA TypesFit == Types => TypeOK
<1> SUFFICES ASSUME Types PROVE TypeOK
  OBVIOUS
<1>1. {aborted, executor, decodes, streaming, pose, armed, offboard} \subseteq BOOLEAN
  BY Zenon DEF Types, TFlags, TRos
<1>2. summary \in {None, TRUE, FALSE}
  BY Zenon DEF Types, TSummary
<1> QED BY <1>1, <1>2, Zenon
  DEF Types, TPlace, TCode, TStop, TCraft, TCmds, TCounts, Commands, TypeOK

(* The invariant holds at the start.                                       *)
LEMMA Px4InitInv == Init => PInv
<1> SUFFICES ASSUME Init PROVE PInv
  OBVIOUS
<1>1. TPlace /\ TCode /\ TStop /\ TCraft /\ TCmds
  BY DEF Init, TPlace, Places, TCode, TStop, TCraft, TCmds
<1>2. TFlags /\ TRos /\ TSummary
  BY Zenon DEF Init, TFlags, TRos, TSummary
<1>3. TCounts
  BY Px4Assumption DEF Init, TCounts
<1>4. GroundedModes /\ ModeOfPlace
  BY DEF Init, GroundedModes, ModeOfPlace
<1>5. HasSetpoint /\ LossIsRemembered /\ Ended
  BY NoneAssumption DEF Init, HasSetpoint, LossIsRemembered, Ended, After,
    Flight
<1> QED BY <1>1, <1>2, <1>3, <1>4, <1>5 DEF PInv, Types

(* Every step, and a stutter, keeps it.                                    *)
LEMMA Px4NextInv == PInv /\ [Next]_vars => PInv'
<1>1. CASE Next
  BY <1>1, PlaceType, CodeType, SummaryType, StopType, FlagsType, RosType,
     CraftType, CmdsType, CountsType, ModeIsKept, GroundIsKept, SetpointIsKept,
     LossIsKept, EndIsKept, Zenon DEF PInv, Types
<1>2. CASE UNCHANGED vars
  <2>1. /\ UNCHANGED <<mode, pc, stop, wp, blind, aborted, code, summary>>
        /\ spAlt' = spAlt
        /\ UNCHANGED <<executor, decodes, streaming, pose, armed, offboard>>
        /\ UNCHANGED <<cmds, nav, vehicle, release>>
    BY <1>2 DEF vars, run, leg, ros, feed, craft
  <2>2. Types => Types'
    <3>1. TFlags /\ TRos => TFlags' /\ TRos'
      BY <2>1 DEF TFlags, TRos
    <3>2. TSummary => TSummary'
      BY <2>1 DEF TSummary
    <3>3. TPlace /\ TCode /\ TStop => TPlace' /\ TCode' /\ TStop'
      BY <2>1 DEF TPlace, TCode, TStop
    <3>4. TCraft /\ TCmds /\ TCounts => TCraft' /\ TCmds' /\ TCounts'
      BY <2>1 DEF TCraft, TCmds, TCounts
    <3> QED BY <3>1, <3>2, <3>3, <3>4 DEF Types
  <2>3. GroundedModes /\ ModeOfPlace => GroundedModes' /\ ModeOfPlace'
    BY <2>1 DEF GroundedModes, ModeOfPlace
  <2>4. HasSetpoint /\ LossIsRemembered /\ Ended
          => HasSetpoint' /\ LossIsRemembered' /\ Ended'
    BY <2>1 DEF HasSetpoint, LossIsRemembered, Ended
  <2> QED BY <2>2, <2>3, <2>4 DEF PInv
<1> QED BY <1>1, <1>2

(* The bench modes send nothing to the vehicle; a pose lost in flight is   *)
(* in the exit code, and exit code 0 was a flight that nobody stopped      *)
(* (run_fly, _land_and_disarm and main's handlers of px4_mission.py).      *)
THEOREM FallbackReports == Spec => []Px4Inv
<1>1. PInv => Px4Inv
  <2> SUFFICES ASSUME PInv PROVE Px4Inv
    OBVIOUS
  <2>1. TypeOK
    BY TypesFit DEF PInv
  <2>2. LossIsReported
    BY DEF PInv, LossIsRemembered, Ended, LossIsReported
  <2> QED BY <2>1, <2>2 DEF PInv, Px4Inv
<1> QED BY <1>1, Px4InitInv, Px4NextInv, PTL DEF Spec
-----------------------------------------------------------------------------
(* The flight contract.  Commands arrive in the order of a flight, so that *)
(* what can be on its way says how far the mission is and the other way    *)
(* round.                                                                  *)
Rank(c) ==
  IF c = "offboard" THEN 1
  ELSE IF c = "arm" THEN 2 ELSE IF c = "land" THEN 3 ELSE 4

Pending == {cmds[i] : i \in 1..Len(cmds)}

InOrder ==
  \A i, j \in 1..Len(cmds) : i < j => Rank(cmds[i]) < Rank(cmds[j])

(* The places before the vehicle is told to arm.                           *)
Early == {"start", "await_pose", "target", "engage", "arm", "check", "nofly"}

(* What can be on its way where; a flight begins when all has arrived.     *)
SentAt ==
  /\ pc \in Early \ {"arm"} => Pending = {}
  /\ pc \in {"arm", "land"} => Pending \subseteq {"offboard"}
  /\ pc = "await_armed" => Pending \subseteq {"offboard", "arm"}
  /\ pc \in Flight \cup {"exit"} => Pending = {}
  /\ pc = "await_ground" => Pending \subseteq {"offboard", "land"}
  /\ pc = "finalise" => Pending \subseteq {"offboard", "land", "disarm"}

(* Nothing arms the vehicle a second time.                                 *)
ArmedOnce ==
  /\ pc \in Early => vehicle = "disarmed" /\ ~armed
  /\ armed \/ vehicle # "disarmed" => Pending \cap {"offboard", "arm"} = {}

(* The order to land is given once, after a flight, and is the last word   *)
(* on the mode.                                                            *)
LandedOnce ==
  /\ pc \in Early \cup Flight \cup {"await_armed", "land"} => release = "none"
  /\ "land" \in Pending => release = "none"
  /\ pc = "await_ground" => "land" \in Pending \/ release # "none"
  /\ pc \in {"finalise", "exit"} =>
       "land" \in Pending \/ release # "none" \/ vehicle = "disarmed"
  /\ release = "done" => nav = "land" /\ Pending \subseteq {"disarm"}

(* A status that can be heard tells a flight that the vehicle is armed.    *)
HeardInFlight ==
  decodes =>
    /\ pc \in Flight \cup {"land", "await_ground"} /\ vehicle # "disarmed"
         => armed
    /\ "disarm" \in Pending => vehicle = "disarmed"

ContractInv == InOrder /\ SentAt /\ ArmedOnce /\ LandedOnce /\ HeardInFlight

(* A command that is sent joins those on their way.                        *)
LEMMA SentIsPending ==
  ASSUME NEW c \in Commands, TCmds, Send(c)
  PROVE  /\ Pending' = Pending \cup {c}
         /\ InOrder /\ (\A d \in Pending : Rank(d) < Rank(c)) => InOrder'
<1>1. /\ Len(cmds) \in Nat /\ Len(cmds') = Len(cmds) + 1
      /\ \A i \in 1..Len(cmds) : cmds'[i] = cmds[i]
      /\ cmds'[Len(cmds) + 1] = c
  BY DEF TCmds, Send
<1>2. 1..Len(cmds') = 1..Len(cmds) \cup {Len(cmds) + 1}
  BY <1>1
<1>3. Pending' = Pending \cup {c}
  BY <1>1, <1>2 DEF Pending
<1>4. ASSUME InOrder, \A d \in Pending : Rank(d) < Rank(c) PROVE InOrder'
  <2> SUFFICES ASSUME NEW i \in 1..Len(cmds'), NEW j \in 1..Len(cmds'), i < j
               PROVE  Rank(cmds'[i]) < Rank(cmds'[j])
    BY DEF InOrder
  <2>1. i \in 1..Len(cmds) /\ cmds[i] \in Pending
    BY <1>1, <1>2 DEF Pending
  <2> QED BY <1>1, <1>2, <1>4, <2>1 DEF InOrder
<1> QED BY <1>3, <1>4

(* The one that arrives or is lost was the first of them.                  *)
LEMMA FirstIsTaken ==
  ASSUME TCmds, cmds # <<>>, cmds' = Tail(cmds)
  PROVE  /\ Head(cmds) \in Pending /\ Pending' \subseteq Pending
         /\ Pending \subseteq Pending' \cup {Head(cmds)}
         /\ InOrder => InOrder' /\ \A d \in Pending' : Rank(Head(cmds)) < Rank(d)
<1>1. /\ Len(cmds) \in Nat \ {0} /\ Len(cmds') = Len(cmds) - 1
      /\ \A i \in 1..Len(cmds') : cmds'[i] = cmds[i + 1]
      /\ Head(cmds) = cmds[1]
  BY DEF TCmds
<1>2. Head(cmds) \in Pending
  BY <1>1 DEF Pending
<1>3. \A i \in 1..Len(cmds') : i + 1 \in 1..Len(cmds)
  BY <1>1
<1>4. Pending' \subseteq Pending
  BY <1>1, <1>3 DEF Pending
<1>5. ASSUME NEW d \in Pending PROVE d \in Pending' \cup {Head(cmds)}
  <2>1. PICK i \in 1..Len(cmds) : d = cmds[i]
    BY <1>5 DEF Pending
  <2>2. CASE i = 1
    BY <1>1, <2>1, <2>2
  <2>3. CASE i # 1
    <3>1. i - 1 \in 1..Len(cmds') /\ d = cmds'[i - 1]
      BY <1>1, <2>1, <2>3
    <3> QED BY <3>1 DEF Pending
  <2> QED BY <2>2, <2>3
<1>6. ASSUME InOrder PROVE InOrder'
  BY <1>1, <1>3, <1>6 DEF InOrder
<1>7. ASSUME InOrder, NEW d \in Pending' PROVE Rank(Head(cmds)) < Rank(d)
  <2>1. PICK i \in 1..Len(cmds') : d = cmds'[i]
    BY <1>7 DEF Pending
  <2> QED BY <1>1, <1>3, <1>7, <2>1 DEF InOrder
<1> QED BY <1>2, <1>4, <1>5, <1>6, <1>7

(* Nothing is on its way when the queue is empty.                          *)
LEMMA NothingPending ==
  /\ cmds = <<>> => Pending = {}
  /\ cmds' = cmds => Pending' = Pending /\ (InOrder => InOrder')
BY DEF Pending, InOrder

(* The mission's steps that send nothing keep the invariant ...            *)
LEMMA QuietStepKeeps ==
  ASSUME TPlace, TCraft, TCmds, ModeOfPlace, ContractInv, Next, cmds' = cmds
  PROVE  ContractInv'
<1>1. InOrder' /\ Pending' = Pending
  BY NothingPending DEF ContractInv
<1>2. cmds = <<>> => Pending = {}
  BY NothingPending
<1> USE DEF run, leg, ros, feed, craft, mission, vars, Goto, ContractInv,
  TPlace,
     TCraft, Places, Early, Flight, SentAt, ArmedOnce, LandedOnce, HeardInFlight
<1>3. CASE Start \/ StartFails \/ Crash
  <2>1. /\ pc \in Early \cup {"scan"}
        /\ pc' \in {"await_pose", "check", "nofly", "finalise", "land", "exit"}
        /\ pc \notin {"start", "scan"} => pc' \in {"finalise", "land"}
        /\ pc' = "exit" => pc = "start"
        /\ UNCHANGED <<vehicle, release, nav, armed, decodes>>
    BY <1>3 DEF Start, StartFails, Crash
  <2>2. pc = "scan" => pc' = "land"
    BY <1>3 DEF Start, StartFails, Crash, ModeOfPlace
  <2> QED BY <1>1, <2>1, <2>2
<1>4. CASE Finalise \/ Check \/ NoflyScan
  BY <1>1, <1>2, <1>4 DEF Finalise, Check, NoflyScan, Return
<1>5. CASE PoseSeen \/ Refuse \/ FirstTarget
  BY <1>1, <1>5 DEF PoseSeen, Refuse, FirstTarget, Return
<1>6. CASE ArmedSeen \/ NotArmed
  <2>1. /\ pc = "await_armed" /\ pc' \in {"takeoff", "land"}
        /\ UNCHANGED <<vehicle, release, nav, armed, decodes>>
        /\ pc' = "takeoff" => armed
        /\ pc' = "land" => cmds = <<>> /\ (decodes /\ vehicle # "disarmed" => armed)
    BY <1>6 DEF ArmedSeen, NotArmed, Settled
  <2> QED BY <1>1, <1>2, <2>1
<1>7. CASE Reached \/ NotReached \/ PollBlind \/ PollSeeing
  BY <1>1, <1>7 DEF Reached, NotReached, PollBlind, PollSeeing, FlownTo
<1>8. CASE NextWaypoint \/ SurveyEnds \/ ScanOnce
  BY <1>1, <1>8 DEF NextWaypoint, SurveyEnds, ScanOnce
<1>9. CASE Land \/ GroundSeen \/ GroundNotSeen
  <2>1. CASE Land
    <3>1. ~Send("land")
      BY DEF Send, TCmds
    <3>2. /\ pc = "land" /\ pc' = "await_ground" /\ release' = "lost"
          /\ UNCHANGED <<vehicle, nav, armed, decodes>>
      BY <2>1, <3>1 DEF Land
    <3> QED BY <1>1, <3>2
  <2>2. CASE GroundSeen \/ GroundNotSeen
    <3>1. /\ pc = "await_ground" /\ pc' = "finalise"
          /\ UNCHANGED <<vehicle, release, nav, armed, decodes>>
      BY <2>2 DEF GroundSeen, GroundNotSeen, Return
    <3> QED BY <1>1, <3>1
  <2> QED BY <1>9, <2>1, <2>2
<1>10. CASE RequestStop \/ PositionHeard \/ ExecutorDies
  <2>1. UNCHANGED <<pc, vehicle, release, nav, armed, decodes>>
    BY <1>10 DEF RequestStop, PositionHeard, ExecutorDies
  <2> QED BY <1>1, <2>1
<1>11. CASE StatusHeard
  BY <1>1, <1>11 DEF StatusHeard
<1>12. CASE OffboardLoss \/ Lift \/ ComeDown
  BY <1>1, <1>12 DEF OffboardLoss, Lift, ComeDown
<1>13. CASE Exited
  BY <1>1, <1>13 DEF Exited
<1>14. CASE Engage \/ Arm \/ Deliver \/ Lose
  <2>1. cmds' # cmds
    BY <1>14 DEF Engage, Arm, Deliver, Lose, Send
  <2> QED BY <2>1
<1> QED BY <1>3, <1>4, <1>5, <1>6, <1>7, <1>8, <1>9, <1>10, <1>11, <1>12, <1>13,
     <1>14 DEF Next, Program, Px4, World

(* ... so do those that send ...                                           *)
LEMMA SendingKeeps ==
  ASSUME TPlace, TCraft, TCmds, ContractInv, Next,
         NEW c \in Commands, Send(c)
  PROVE  ContractInv'
<1> USE DEF run, leg, ros, feed, craft, mission, vars, Goto, ContractInv,
  TPlace,
     TCraft, Places, Early, Flight, SentAt, ArmedOnce, LandedOnce, HeardInFlight
<1>1. /\ Pending' = Pending \cup {c}
      /\ InOrder /\ (\A d \in Pending : Rank(d) < Rank(c)) => InOrder'
  BY SentIsPending
<1>2. Len(cmds') = Len(cmds) + 1 /\ Len(cmds) \in Nat /\ cmds'[Len(cmds) + 1] = c
  BY DEF TCmds, Send
<1>3. CASE Engage
  <2>1. c = "offboard"
    BY <1>2, <1>3 DEF Engage, Send, TCmds
  <2> QED BY <1>1, <1>3, <2>1 DEF Engage
<1>4. CASE Arm
  <2>1. c = "arm" /\ \A d \in Pending : Rank(d) < Rank(c)
    BY <1>2, <1>4 DEF Arm, Send, TCmds, Rank
  <2> QED BY <1>1, <1>4, <2>1 DEF Arm
<1>5. CASE Land
  <2>1. c = "land" /\ \A d \in Pending : Rank(d) < Rank(c)
    BY <1>2, <1>5 DEF Land, Send, TCmds, Rank
  <2>2. release' = release
    BY <1>2, <1>5 DEF Land
  <2> QED BY <1>1, <1>5, <2>1, <2>2 DEF Land
<1>6. CASE GroundSeen
  <2>1. c = "disarm" /\ \A d \in Pending : Rank(d) < Rank(c)
    BY <1>2, <1>6 DEF GroundSeen, Send, TCmds, Rank
  <2> QED BY <1>1, <1>6, <2>1 DEF GroundSeen, Return
<1>7. CASE ~(Engage \/ Arm \/ Land \/ GroundSeen)
  <2>1. Deliver \/ Lose => cmds # <<>> /\ cmds' = Tail(cmds)
    BY DEF Deliver, Lose
  <2>2. ~(Deliver \/ Lose) => cmds' = cmds
    BY <1>7 DEF Next, Program, Px4, World, Start, StartFails, Crash,
      Finalise, Check, NoflyScan, PoseSeen, Refuse, FirstTarget, ArmedSeen,
      NotArmed, Reached, NotReached, PollBlind, NextWaypoint, SurveyEnds,
      ScanOnce, GroundNotSeen, OffboardLoss, ComeDown, RequestStop, StatusHeard,
      PositionHeard, ExecutorDies, Lift, PollSeeing, Exited, Return, FlownTo,
      Target
  <2>3. cmds' = cmds \/ (cmds # <<>> /\ cmds' = Tail(cmds))
    BY <2>1, <2>2
  <2> QED BY <1>2, <2>3 DEF TCmds
<1> QED BY <1>3, <1>4, <1>5, <1>6, <1>7

(* ... the arrival of a command, and its loss.                             *)
LEMMA ArrivalKeeps == TPlace /\ TCraft /\ TCmds /\ ContractInv /\ Deliver
                        => ContractInv'
<1> SUFFICES ASSUME TPlace, TCraft, TCmds, ContractInv, Deliver PROVE ContractInv'
  OBVIOUS
<1> DEFINE c == Head(cmds)
<1>1. /\ c \in Pending /\ Pending' \subseteq Pending /\ InOrder'
      /\ Pending \subseteq Pending' \cup {c}
      /\ \A d \in Pending' : Rank(c) < Rank(d)
  BY FirstIsTaken DEF Deliver, ContractInv
<1>2. /\ c \in Commands /\ Pending \subseteq Commands /\ Obey(c)
      /\ UNCHANGED <<pc, armed, decodes>>
  BY DEF Deliver, TCmds, mission, ros, Pending
<1> HIDE DEF c
<1> USE DEF ContractInv, TPlace, TCraft, Places, Early, Flight, SentAt,
  ArmedOnce,
     LandedOnce, HeardInFlight
<1>3. CASE c = "offboard"
  BY <1>1, <1>2, <1>3 DEF Obey, Rank, Commands
<1>4. CASE c = "arm"
  BY <1>1, <1>2, <1>4 DEF Obey, Rank, Commands
<1>5. CASE c = "land"
  BY <1>1, <1>2, <1>5 DEF Obey, Rank, Commands
<1>6. CASE c = "disarm"
  BY <1>1, <1>2, <1>6 DEF Obey, Rank, Commands
<1> QED BY <1>2, <1>3, <1>4, <1>5, <1>6 DEF Commands

LEMMA LossKeeps == TPlace /\ TCraft /\ TCmds /\ ContractInv /\ Lose => ContractInv'
<1> SUFFICES ASSUME TPlace, TCraft, TCmds, ContractInv, Lose PROVE ContractInv'
  OBVIOUS
<1> DEFINE c == Head(cmds)
<1>1. /\ c \in Pending /\ Pending' \subseteq Pending /\ InOrder'
      /\ Pending \subseteq Pending' \cup {c}
      /\ \A d \in Pending' : Rank(c) < Rank(d)
  BY FirstIsTaken DEF Lose, ContractInv
<1>2. /\ release' = IF c = "land" THEN "lost" ELSE release
      /\ UNCHANGED <<pc, armed, decodes, nav, vehicle>>
  BY DEF Lose, mission, ros
<1> HIDE DEF c
<1> QED BY <1>1, <1>2 DEF ContractInv, TPlace, TCraft, Places, Early, Flight,
  SentAt,
     ArmedOnce, LandedOnce, HeardInFlight, Rank

(* The contract's steps: an action of its own for each way in which a step *)
(* changes what the contract sees, and a stutter otherwise.                *)
LEMMA ContractInit == Init => ContractInv /\ Contract!Init
<1> SUFFICES ASSUME Init PROVE ContractInv /\ Contract!Init
  OBVIOUS
<1>1. Pending = {} /\ InOrder
  BY DEF Init, Pending, InOrder
<1> QED BY <1>1 DEF Init, ContractInv, SentAt, ArmedOnce, LandedOnce,
  HeardInFlight,
     Early, Flight, Contract!Init

LEMMA ContractNext ==
  ASSUME PInv, ContractInv, [Next]_vars
  PROVE  ContractInv' /\ [Contract!Next]_(Contract!cvars)
<1> USE DEF PInv, Types
<1>1. CASE UNCHANGED vars
  <2>1. UNCHANGED <<pc, nav, vehicle, release, armed, decodes, cmds>>
    BY <1>1 DEF vars, craft, ros
  <2>2. Pending' = Pending /\ InOrder'
    BY <2>1, NothingPending DEF ContractInv
  <2> QED BY <2>1, <2>2 DEF ContractInv, SentAt, ArmedOnce, LandedOnce,
       HeardInFlight, Contract!cvars
<1>2. CASE Next
  <2>1. ContractInv'
    <3>1. CASE Deliver \/ Lose
      BY <3>1, ArrivalKeeps, LossKeeps
    <3>2. CASE ~(Deliver \/ Lose) /\ cmds' = cmds
      BY <1>2, <3>2, QuietStepKeeps
    <3>3. CASE ~(Deliver \/ Lose) /\ cmds' # cmds
      <4>1. CASE Engage
        BY <1>2, <4>1, SendingKeeps DEF Engage, Commands
      <4>2. CASE Arm
        BY <1>2, <4>2, SendingKeeps DEF Arm, Commands
      <4>3. CASE Land
        BY <1>2, <3>3, <4>3, SendingKeeps DEF Land, Commands
      <4>4. CASE GroundSeen
        BY <1>2, <3>3, <4>4, SendingKeeps DEF GroundSeen, Commands
      <4>5. CASE ~(Engage \/ Arm \/ Land \/ GroundSeen)
        BY <1>2, <3>3, <4>5 DEF Next, Program, Px4, World, Start, StartFails,
          Crash, Finalise, Check, NoflyScan, PoseSeen, Refuse, FirstTarget,
          ArmedSeen, NotArmed, Reached, NotReached, PollBlind, NextWaypoint,
          SurveyEnds, ScanOnce, GroundNotSeen, OffboardLoss, ComeDown,
          RequestStop, StatusHeard, PositionHeard, ExecutorDies, Lift,
          PollSeeing, Exited, vars, run, Return, FlownTo, Target
      <4> QED BY <4>1, <4>2, <4>3, <4>4, <4>5
    <3> QED BY <3>1, <3>2, <3>3
  <2> DEFINE Step == [Contract!Next]_(Contract!cvars)
  <2> SUFFICES Step
    BY <2>1
  <2>2. decodes' = decodes
    BY <1>2 DEF Next, Program, Px4, World, Start, StartFails, Crash, Finalise,
      Check, NoflyScan, PoseSeen, Refuse, FirstTarget, Engage, Arm, ArmedSeen,
      NotArmed, Reached, NotReached, PollBlind, NextWaypoint, SurveyEnds,
      ScanOnce, Land, GroundSeen, GroundNotSeen, Deliver, OffboardLoss,
      ComeDown, RequestStop, StatusHeard, PositionHeard, ExecutorDies, Lose,
      Lift, PollSeeing, Exited, vars, ros
  <2>3. CASE ~decodes
    BY <2>2, <2>3 DEF Contract!cvars
  <2>4. CASE decodes /\ UNCHANGED <<vehicle, release>> /\ (pc' = "exit" <=> pc
    = "exit")
    BY <2>2, <2>4 DEF Contract!cvars
  <2>5. CASE decodes /\ (Deliver \/ Lose)
    <3>1. cmds # <<>> /\ pc' = pc
      BY <2>5 DEF Deliver, Lose
    <3>2. Head(cmds) \in Pending
      BY <2>5, FirstIsTaken DEF Deliver, Lose
    <3>3. pc # "exit"
      BY <3>2 DEF ContractInv, SentAt
    <3>4. CASE Deliver
      <4>1. Obey(Head(cmds)) /\ Head(cmds) \in Commands
        BY <3>4 DEF Deliver, TCmds
      <4>2. CASE Head(cmds) = "offboard"
        <5>1. UNCHANGED <<vehicle, release>>
          BY <4>1, <4>2 DEF Obey
        <5> QED BY <2>4, <2>5, <3>1, <5>1
      <4>3. CASE Head(cmds) = "arm"
        <5>1. /\ vehicle' \in {vehicle,
                             IF vehicle = "disarmed" THEN "armed" ELSE vehicle}
              /\ release' = release
          BY <4>1, <4>3 DEF Obey
        <5>2. release = "none" /\ vehicle = "disarmed"
          BY <3>2, <3>3, <4>3 DEF ContractInv, SentAt, ArmedOnce, LandedOnce,
            TPlace, Places, Early, Flight, TCraft
        <5> QED BY <2>2, <2>5, <3>1, <3>3, <5>1, <5>2 DEF Contract!Next,
          Contract!Arm, Contract!cvars
      <4>4. CASE Head(cmds) = "land"
        <5>1. release' = "done" /\ vehicle' = vehicle
          BY <4>1, <4>4 DEF Obey
        <5>2. release = "none"
          BY <3>2, <4>4 DEF ContractInv, LandedOnce
        <5> QED BY <2>2, <2>5, <3>1, <3>3, <5>1, <5>2 DEF Contract!Next,
          Contract!Release, Contract!cvars
      <4>5. CASE Head(cmds) = "disarm"
        <5>1. vehicle' = "disarmed" /\ release' = release
          BY <4>1, <4>5 DEF Obey
        <5>2. vehicle = "disarmed"
          BY <2>5, <3>2, <4>5 DEF ContractInv, HeardInFlight
        <5> QED BY <2>4, <2>5, <3>1, <5>1, <5>2
      <4> QED BY <4>1, <4>2, <4>3, <4>4, <4>5 DEF Commands
    <3>5. CASE Lose
      <4>1. /\ release' = IF Head(cmds) = "land" THEN "lost" ELSE release
            /\ vehicle' = vehicle
        BY <3>5 DEF Lose
      <4>2. Head(cmds) = "land" => release = "none"
        BY <3>2 DEF ContractInv, LandedOnce
      <4> QED BY <2>2, <2>4, <2>5, <3>1, <3>3, <4>1, <4>2 DEF Contract!Next,
        Contract!Release, Contract!cvars
    <3> QED BY <2>5, <3>4, <3>5
  <2>6. CASE decodes /\ Land
    <3>1. /\ pc = "land" /\ pc' = "await_ground" /\ vehicle' = vehicle
          /\ release' \in {release, "lost"}
      BY <2>6 DEF Land, Goto
    <3>2. release = "none"
      BY <3>1 DEF ContractInv, LandedOnce
    <3> QED BY <2>2, <2>6, <3>1, <3>2 DEF Contract!Next, Contract!Release,
      Contract!cvars
  <2>7. CASE decodes /\ Lift
    <3>1. /\ vehicle = "armed" /\ vehicle' = "flying" /\ nav = "offboard"
          /\ UNCHANGED <<pc, release>>
      BY <2>7 DEF Lift, craft
    <3>2. release # "done"
      BY <3>1 DEF ContractInv, LandedOnce
    <3> QED BY <2>2, <2>7, <3>1, <3>2 DEF Contract!Next, Contract!Lift,
      Contract!cvars
  <2>8. CASE decodes /\ ComeDown
    <3>1. /\ \/ vehicle = "flying" /\ vehicle' = "armed"
             \/ vehicle = "armed" /\ vehicle' = "disarmed"
          /\ UNCHANGED <<pc, release>>
      BY <2>8 DEF ComeDown, craft
    <3> QED BY <2>2, <2>8, <3>1 DEF Contract!Next, Contract!Touchdown,
      Contract!Disarm, Contract!cvars
  <2>9. CASE decodes /\ Finalise
    <3>1. /\ pc = "finalise" /\ cmds = <<>> /\ pc' = "exit"
          /\ UNCHANGED <<vehicle, release>>
      BY <2>9 DEF Finalise, Goto, craft
    <3>2. release # "none" \/ vehicle = "disarmed"
      BY <3>1, NothingPending DEF ContractInv, LandedOnce
    <3> QED BY <2>2, <2>9, <3>1, <3>2 DEF Contract!Next, Contract!End,
      Contract!cvars
  <2>11. CASE decodes /\ StartFails
    <3>1. /\ pc = "start" /\ pc' \in {"finalise", "exit"} /\ UNCHANGED <<vehicle, release>>
      BY <2>11 DEF StartFails, Goto, craft
    <3>2. vehicle = "disarmed"
      BY <3>1 DEF ContractInv, ArmedOnce, Early
    <3> QED BY <2>2, <2>11, <3>1, <3>2 DEF Contract!Next, Contract!End,
      Contract!cvars
  <2>10. CASE ~(Deliver \/ Lose \/ Land \/ Lift \/ ComeDown \/ Finalise \/ StartFails)
    <3>1. UNCHANGED <<vehicle, release>>
      BY <1>2, <2>10 DEF Next, Program, Px4, World, Start, StartFails, Crash,
        Check, NoflyScan, PoseSeen, Refuse, FirstTarget, Engage, Arm, ArmedSeen,
        NotArmed, Reached, NotReached, PollBlind, NextWaypoint, SurveyEnds,
        ScanOnce, GroundSeen, GroundNotSeen, OffboardLoss, RequestStop,
        StatusHeard, PositionHeard, ExecutorDies, PollSeeing, Exited, vars,
        craft
    <3>2. ASSUME Program PROVE pc' = "exit" <=> pc = "exit"
      BY <2>10, <3>2 DEF TPlace, Program, Start, StartFails, Crash, Check,
        NoflyScan,
        PoseSeen, Refuse, FirstTarget, Engage, Arm, ArmedSeen, NotArmed,
        Reached, NotReached, PollBlind, NextWaypoint, SurveyEnds, ScanOnce,
        GroundSeen, GroundNotSeen, Goto, Return, FlownTo
    <3>3. ASSUME ~Program PROVE pc' = "exit" <=> pc = "exit"
      BY <1>2, <2>10, <3>3 DEF Next, Px4, World, Deliver, Lose, OffboardLoss,
        RequestStop, StatusHeard, PositionHeard, ExecutorDies, PollSeeing,
        Exited, vars
    <3> QED BY <2>3, <2>4, <3>1, <3>2, <3>3
  <2> QED BY <2>3, <2>5, <2>6, <2>7, <2>8, <2>9, <2>10, <2>11
<1> QED BY <1>1, <1>2

(* The fallback keeps the flight contract for every route, however late    *)
(* its commands arrive and whichever are lost, as long as the status can   *)
(* be heard.                                                               *)
THEOREM FallbackKeepsContract == Spec => ImplementsContract
<1> QED BY ContractInit, ContractNext, Px4InitInv, Px4NextInv, PTL
     DEF Spec, ImplementsContract, Contract!Spec

=============================================================================

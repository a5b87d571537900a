---------------------------- MODULE GroundProofs ----------------------------
(***************************************************************************)
(* The qualifier and the navigators: the run of the search controller, its *)
(* records, the wall follower, the summary of a slot, the maze and the     *)
(* scorer, the depth navigators, the top-down mapper, the path planner and *)
(* the keyboard of codes/Codes and the explorer of the earlier project,    *)
(* alone and beside each other (MCGround).                                 *)
(***************************************************************************)
EXTENDS MCGround, SearchController, SearchRecords, FiniteSetTheorems,
        SequenceTheorems, WellFoundedInduction, TLAPS

-----------------------------------------------------------------------------
(* SearchController: for every deadline, window and number of barrels,     *)
(* whatever raised, timed out or was interrupted, run() does not return    *)
(* before the vehicle was told to land, and 0 is a flight.                 *)


InSetup == {"connect", "armable", "arm", "takeoff", "climb", "detect", "offboard"}
Closing == {"end_offboard", "land", "ground", "disarm", "summary"}
Searching == {"loop", "scan", "cleanup", "exit"}

(* TypeOK in parts.                                                        *)
Whereabouts ==
  /\ pc \in InSetup \cup Closing \cup Searching
  /\ sawAlt \in Altitudes /\ vehicle \in Altitudes
  /\ nav \in {"hold", "takeoff", "offboard", "land"}
  /\ landed \in {"no", "yes", "lost"}
  /\ watch \in {"off", "on", "tripped", "done"}
Streams == live \subseteq {"pose", "air"}
Meters ==
  /\ sawPos \in {0, 1} /\ pos \in {0, 1}
  /\ age \in 0..EmergencyTime /\ idle \in 0..WatchTime + 1
Finds == found \in [{"yellow", "red"} -> 0..MaxFound]
Known == history \in Seq({0, 1}) /\ Len(history) <= Window + 1
Results ==
  /\ code \in {Unset, 0, 1}
  /\ why \in {Unset, "deadline", "stuck", "dual", "plateau"}
Booleans ==
  /\ bonus \in BOOLEAN /\ abort \in BOOLEAN /\ emergency \in BOOLEAN
  /\ sawAir \in BOOLEAN /\ slow \in BOOLEAN /\ ran \in BOOLEAN
SearchTypes ==
  Whereabouts /\ Streams /\ Meters /\ Finds /\ Known /\ Results /\ Booleans

(* land() comes before the wait for the ground, on every way there; a run  *)
(* that raised nothing has come through the loop, with its watchdog.       *)
Ordered ==
  /\ pc \in {"ground", "disarm", "summary", "exit"} => landed # "no"
  /\ pc \in {"loop", "scan", "cleanup"} => watch # "off"
  /\ pc \in Closing /\ emergency = FALSE => watch # "off"
  /\ pc = "exit" /\ code = 0 => watch # "off" /\ emergency = FALSE

SrchInv == SearchTypes /\ Ordered

-----------------------------------------------------------------------------
(* The history of positions that the stuck watchdog looks at.              *)
LEMMA HistoryKept ==
  ASSUME Meters, Known
  PROVE  History \in Seq({0, 1}) /\ Len(History) <= Window + 1
<1>1. Window \in Nat /\ sawPos \in {0, 1} /\ Len(history) \in Nat
  BY SearchAssumption DEF SearchAssumption, Meters, Known
<1>2. /\ Longer \in Seq({0, 1}) /\ Len(Longer) \in Nat
      /\ Len(Longer) <= Window + 2
  BY <1>1 DEF Known, Longer
<1>3. CASE Len(Longer) > Window + 1
  <2>1. Tail(Longer) \in Seq({0, 1}) /\ Len(Tail(Longer)) = Len(Longer) - 1
    BY <1>1, <1>2, <1>3
  <2> QED
    BY <1>1, <1>2, <1>3, <2>1 DEF History
<1>4. CASE ~(Len(Longer) > Window + 1)
  BY <1>1, <1>2, <1>4 DEF History
<1> QED
  BY <1>3, <1>4

(* Types.                                                                  *)
LEMMA PlacesNext ==
  SrchInv /\ Next => Whereabouts'
<1> SUFFICES ASSUME SrchInv, Next
             PROVE  Whereabouts'
  OBVIOUS
<1> USE SearchAssumption DEF SearchAssumption, SrchInv, SearchTypes,
    Booleans, Whereabouts, Altitudes, InSetup, Closing, Searching, setup, stored,
    telemetry, craftState, search, loopClocks, dog, Goto
<1>1. CASE Connected
  BY <1>1 DEF Connected, Step
<1>2. CASE Armable
  BY <1>2 DEF Armable
<1>3. CASE SetupFails
  BY <1>3 DEF SetupFails, AtHeight, Fatal
<1>4. CASE Arm
  BY <1>4 DEF Arm
<1>5. CASE Takeoff
  BY <1>5 DEF Takeoff
<1>6. CASE Climbed
  BY <1>6 DEF Climbed, AtHeight, Step
<1>7. CASE DetectionReady
  BY <1>7 DEF DetectionReady, Step
<1>8. CASE BeginOffboard
  BY <1>8 DEF BeginOffboard
<1>9. CASE BreakOff
  BY <1>9 DEF BreakOff, Reason, Books, IsStuck, BothAge, Both, Changed,
     Plateau, History, Total, Longer
<1>10. CASE StartScan
  BY <1>10 DEF StartScan, Reason, Books, IsStuck, BothAge, Both, Changed,
     Plateau, History, Total, Longer
<1>11. CASE NoDepth
  BY <1>11 DEF NoDepth, Reason, Books, IsStuck, BothAge, Both, Changed,
     Plateau, History, Total, Longer
<1>12. CASE Follow
  BY <1>12 DEF Follow, Reason, Books, IsStuck, BothAge, Both, Changed,
     Plateau, History, Total, Longer
<1>13. CASE ScanEnds
  BY <1>13 DEF ScanEnds
<1>14. CASE LoopEnds
  BY <1>14 DEF LoopEnds
<1>15. CASE LoopRaises
  BY <1>15 DEF LoopRaises
<1>16. CASE Cleanup
  BY <1>16 DEF Cleanup
<1>17. CASE EndOffboard
  BY <1>17 DEF EndOffboard, Airborne, Raised, Fatal
<1>18. CASE Land
  BY <1>18 DEF Land, Raised, Fatal
<1>19. CASE GroundSeen
  BY <1>19 DEF GroundSeen, Airborne
<1>20. CASE GroundTimeout
  BY <1>20 DEF GroundTimeout
<1>21. CASE GroundRaises
  BY <1>21 DEF GroundRaises, Raised, Fatal
<1>22. CASE Disarm
  BY <1>22 DEF Disarm, Raised, Fatal
<1>23. CASE Summary
  BY <1>23 DEF Summary
<1>24. CASE Signal
  BY <1>24 DEF Signal
<1>25. CASE Sample
  BY <1>25 DEF Sample, Airborne
<1>26. CASE StreamDies
  BY <1>26 DEF StreamDies
<1>27. CASE Watch
  BY <1>27 DEF Watch
<1>28. CASE Detect
  BY <1>28 DEF Detect
<1>29. CASE Fly
  BY <1>29 DEF Fly, InLoop
<1>30. CASE Tick
  BY <1>30 DEF Tick, Waits, Due, CountTo, InLoop, LoopLimit, Plateau
<1>31. CASE Exited
  BY <1>31 DEF Exited, vars
<1> QED
  BY <1>1, <1>2, <1>3, <1>4, <1>5, <1>6, <1>7, <1>8, <1>9, <1>10, <1>11,
     <1>12, <1>13, <1>14, <1>15, <1>16, <1>17, <1>18, <1>19, <1>20, <1>21,
     <1>22, <1>23, <1>24, <1>25, <1>26, <1>27, <1>28, <1>29, <1>30, <1>31
     DEF Next, Run, Others

LEMMA StreamsNext ==
  SrchInv /\ Next => Streams'
<1> SUFFICES ASSUME SrchInv, Next
             PROVE  Streams'
  OBVIOUS
<1> USE SearchAssumption DEF SearchAssumption, SrchInv, SearchTypes, Streams,
    setup, stored, telemetry, craftState, search, loopClocks, dog, Goto
<1>1. CASE Connected
  BY <1>1 DEF Connected, Step
<1>2. CASE Armable
  BY <1>2 DEF Armable
<1>3. CASE SetupFails
  BY <1>3 DEF SetupFails, AtHeight, Fatal
<1>4. CASE Arm
  BY <1>4 DEF Arm
<1>5. CASE Takeoff
  BY <1>5 DEF Takeoff
<1>6. CASE Climbed
  BY <1>6 DEF Climbed, AtHeight, Step
<1>7. CASE DetectionReady
  BY <1>7 DEF DetectionReady, Step
<1>8. CASE BeginOffboard
  BY <1>8 DEF BeginOffboard
<1>9. CASE BreakOff
  BY <1>9 DEF BreakOff, Reason, Books, IsStuck, BothAge, Both, Changed,
     Plateau, History, Total, Longer
<1>10. CASE StartScan
  BY <1>10 DEF StartScan, Reason, Books, IsStuck, BothAge, Both, Changed,
     Plateau, History, Total, Longer
<1>11. CASE NoDepth
  BY <1>11 DEF NoDepth, Reason, Books, IsStuck, BothAge, Both, Changed,
     Plateau, History, Total, Longer
<1>12. CASE Follow
  BY <1>12 DEF Follow, Reason, Books, IsStuck, BothAge, Both, Changed,
     Plateau, History, Total, Longer
<1>13. CASE ScanEnds
  BY <1>13 DEF ScanEnds
<1>14. CASE LoopEnds
  BY <1>14 DEF LoopEnds
<1>15. CASE LoopRaises
  BY <1>15 DEF LoopRaises
<1>16. CASE Cleanup
  BY <1>16 DEF Cleanup
<1>17. CASE EndOffboard
  BY <1>17 DEF EndOffboard, Airborne, Raised, Fatal
<1>18. CASE Land
  BY <1>18 DEF Land, Raised, Fatal
<1>19. CASE GroundSeen
  BY <1>19 DEF GroundSeen, Airborne
<1>20. CASE GroundTimeout
  BY <1>20 DEF GroundTimeout
<1>21. CASE GroundRaises
  BY <1>21 DEF GroundRaises, Raised, Fatal
<1>22. CASE Disarm
  BY <1>22 DEF Disarm, Raised, Fatal
<1>23. CASE Summary
  BY <1>23 DEF Summary
<1>24. CASE Signal
  BY <1>24 DEF Signal
<1>25. CASE Sample
  BY <1>25 DEF Sample, Airborne
<1>26. CASE StreamDies
  BY <1>26 DEF StreamDies
<1>27. CASE Watch
  BY <1>27 DEF Watch
<1>28. CASE Detect
  BY <1>28 DEF Detect
<1>29. CASE Fly
  BY <1>29 DEF Fly, InLoop
<1>30. CASE Tick
  BY <1>30 DEF Tick, Waits, Due, CountTo, InLoop, LoopLimit, Plateau
<1>31. CASE Exited
  BY <1>31 DEF Exited, vars
<1> QED
  BY <1>1, <1>2, <1>3, <1>4, <1>5, <1>6, <1>7, <1>8, <1>9, <1>10, <1>11,
     <1>12, <1>13, <1>14, <1>15, <1>16, <1>17, <1>18, <1>19, <1>20, <1>21,
     <1>22, <1>23, <1>24, <1>25, <1>26, <1>27, <1>28, <1>29, <1>30, <1>31
     DEF Next, Run, Others

LEMMA CountsNext ==
  SrchInv /\ Next => Meters'
<1> SUFFICES ASSUME SrchInv, Next
             PROVE  Meters'
  OBVIOUS
<1> USE SearchAssumption DEF SearchAssumption, SrchInv, SearchTypes,
    Booleans, Meters, setup, stored, telemetry, craftState, search, loopClocks, dog, Goto
<1>1. CASE Connected
  BY <1>1 DEF Connected, Step
<1>2. CASE Armable
  BY <1>2 DEF Armable
<1>3. CASE SetupFails
  BY <1>3 DEF SetupFails, AtHeight, Fatal
<1>4. CASE Arm
  BY <1>4 DEF Arm
<1>5. CASE Takeoff
  BY <1>5 DEF Takeoff
<1>6. CASE Climbed
  BY <1>6 DEF Climbed, AtHeight, Step
<1>7. CASE DetectionReady
  BY <1>7 DEF DetectionReady, Step
<1>8. CASE BeginOffboard
  BY <1>8 DEF BeginOffboard
<1>9. CASE BreakOff
  BY <1>9 DEF BreakOff, Reason, Books, IsStuck, BothAge, Both, Changed,
     Plateau, History, Total, Longer
<1>10. CASE StartScan
  BY <1>10 DEF StartScan, Reason, Books, IsStuck, BothAge, Both, Changed,
     Plateau, History, Total, Longer
<1>11. CASE NoDepth
  BY <1>11 DEF NoDepth, Reason, Books, IsStuck, BothAge, Both, Changed,
     Plateau, History, Total, Longer
<1>12. CASE Follow
  BY <1>12 DEF Follow, Reason, Books, IsStuck, BothAge, Both, Changed,
     Plateau, History, Total, Longer
<1>13. CASE ScanEnds
  BY <1>13 DEF ScanEnds
<1>14. CASE LoopEnds
  BY <1>14 DEF LoopEnds
<1>15. CASE LoopRaises
  BY <1>15 DEF LoopRaises
<1>16. CASE Cleanup
  BY <1>16 DEF Cleanup
<1>17. CASE EndOffboard
  BY <1>17 DEF EndOffboard, Airborne, Raised, Fatal
<1>18. CASE Land
  BY <1>18 DEF Land, Raised, Fatal
<1>19. CASE GroundSeen
  BY <1>19 DEF GroundSeen, Airborne
<1>20. CASE GroundTimeout
  BY <1>20 DEF GroundTimeout
<1>21. CASE GroundRaises
  BY <1>21 DEF GroundRaises, Raised, Fatal
<1>22. CASE Disarm
  BY <1>22 DEF Disarm, Raised, Fatal
<1>23. CASE Summary
  BY <1>23 DEF Summary
<1>24. CASE Signal
  BY <1>24 DEF Signal
<1>25. CASE Sample
  BY <1>25 DEF Sample, Airborne
<1>26. CASE StreamDies
  BY <1>26 DEF StreamDies
<1>27. CASE Watch
  BY <1>27 DEF Watch
<1>28. CASE Detect
  BY <1>28 DEF Detect
<1>29. CASE Fly
  BY <1>29 DEF Fly, InLoop
<1>30. CASE Tick
  BY <1>30 DEF Tick, Waits, Due, CountTo, InLoop, LoopLimit, Plateau
<1>31. CASE Exited
  BY <1>31 DEF Exited, vars
<1> QED
  BY <1>1, <1>2, <1>3, <1>4, <1>5, <1>6, <1>7, <1>8, <1>9, <1>10, <1>11,
     <1>12, <1>13, <1>14, <1>15, <1>16, <1>17, <1>18, <1>19, <1>20, <1>21,
     <1>22, <1>23, <1>24, <1>25, <1>26, <1>27, <1>28, <1>29, <1>30, <1>31
     DEF Next, Run, Others

LEMMA SeenNext ==
  SrchInv /\ Next => Finds'
<1> SUFFICES ASSUME SrchInv, Next
             PROVE  Finds'
  OBVIOUS
<1> USE SearchAssumption DEF SearchAssumption, SrchInv, SearchTypes, Finds,
    setup, stored, telemetry, craftState, search, loopClocks, dog, Goto
<1>1. CASE Connected
  BY <1>1 DEF Connected, Step
<1>2. CASE Armable
  BY <1>2 DEF Armable
<1>3. CASE SetupFails
  BY <1>3 DEF SetupFails, AtHeight, Fatal
<1>4. CASE Arm
  BY <1>4 DEF Arm
<1>5. CASE Takeoff
  BY <1>5 DEF Takeoff
<1>6. CASE Climbed
  BY <1>6 DEF Climbed, AtHeight, Step
<1>7. CASE DetectionReady
  BY <1>7 DEF DetectionReady, Step
<1>8. CASE BeginOffboard
  BY <1>8 DEF BeginOffboard
<1>9. CASE BreakOff
  BY <1>9 DEF BreakOff, Reason, Books, IsStuck, BothAge, Both, Changed,
     Plateau, History, Total, Longer
<1>10. CASE StartScan
  BY <1>10 DEF StartScan, Reason, Books, IsStuck, BothAge, Both, Changed,
     Plateau, History, Total, Longer
<1>11. CASE NoDepth
  BY <1>11 DEF NoDepth, Reason, Books, IsStuck, BothAge, Both, Changed,
     Plateau, History, Total, Longer
<1>12. CASE Follow
  BY <1>12 DEF Follow, Reason, Books, IsStuck, BothAge, Both, Changed,
     Plateau, History, Total, Longer
<1>13. CASE ScanEnds
  BY <1>13 DEF ScanEnds
<1>14. CASE LoopEnds
  BY <1>14 DEF LoopEnds
<1>15. CASE LoopRaises
  BY <1>15 DEF LoopRaises
<1>16. CASE Cleanup
  BY <1>16 DEF Cleanup
<1>17. CASE EndOffboard
  BY <1>17 DEF EndOffboard, Airborne, Raised, Fatal
<1>18. CASE Land
  BY <1>18 DEF Land, Raised, Fatal
<1>19. CASE GroundSeen
  BY <1>19 DEF GroundSeen, Airborne
<1>20. CASE GroundTimeout
  BY <1>20 DEF GroundTimeout
<1>21. CASE GroundRaises
  BY <1>21 DEF GroundRaises, Raised, Fatal
<1>22. CASE Disarm
  BY <1>22 DEF Disarm, Raised, Fatal
<1>23. CASE Summary
  BY <1>23 DEF Summary
<1>24. CASE Signal
  BY <1>24 DEF Signal
<1>25. CASE Sample
  BY <1>25 DEF Sample, Airborne
<1>26. CASE StreamDies
  BY <1>26 DEF StreamDies
<1>27. CASE Watch
  BY <1>27 DEF Watch
<1>28. CASE Detect
  BY <1>28 DEF Detect
<1>29. CASE Fly
  BY <1>29 DEF Fly, InLoop
<1>30. CASE Tick
  BY <1>30 DEF Tick, Waits, Due, CountTo, InLoop, LoopLimit, Plateau
<1>31. CASE Exited
  BY <1>31 DEF Exited, vars
<1> QED
  BY <1>1, <1>2, <1>3, <1>4, <1>5, <1>6, <1>7, <1>8, <1>9, <1>10, <1>11,
     <1>12, <1>13, <1>14, <1>15, <1>16, <1>17, <1>18, <1>19, <1>20, <1>21,
     <1>22, <1>23, <1>24, <1>25, <1>26, <1>27, <1>28, <1>29, <1>30, <1>31
     DEF Next, Run, Others

LEMMA KnownNext ==
  SrchInv /\ Next => Known'
<1> SUFFICES ASSUME SrchInv, Next
             PROVE  Known'
  OBVIOUS
<1> USE SearchAssumption DEF SearchAssumption, SrchInv, SearchTypes, setup,
    stored, telemetry, craftState, search, loopClocks, dog, Goto
<1>1. CASE Connected
  BY <1>1 DEF Connected, Step, Known
<1>2. CASE Armable
  BY <1>2 DEF Armable, Known
<1>3. CASE SetupFails
  BY <1>3 DEF SetupFails, AtHeight, Fatal, Known
<1>4. CASE Arm
  BY <1>4 DEF Arm, Known
<1>5. CASE Takeoff
  BY <1>5 DEF Takeoff, Known
<1>6. CASE Climbed
  BY <1>6 DEF Climbed, AtHeight, Step, Known
<1>7. CASE DetectionReady
  BY <1>7 DEF DetectionReady, Step, Known
<1>8. CASE BeginOffboard
  BY <1>8 DEF BeginOffboard, Known
<1>9. CASE BreakOff
  BY <1>9, HistoryKept DEF BreakOff, Books, Known
<1>10. CASE StartScan
  BY <1>10, HistoryKept DEF StartScan, Books, Known
<1>11. CASE NoDepth
  BY <1>11, HistoryKept DEF NoDepth, Books, Known
<1>12. CASE Follow
  BY <1>12, HistoryKept DEF Follow, Books, Known
<1>13. CASE ScanEnds
  BY <1>13 DEF ScanEnds, Known
<1>14. CASE LoopEnds
  BY <1>14 DEF LoopEnds, Known
<1>15. CASE LoopRaises
  BY <1>15 DEF LoopRaises, Known
<1>16. CASE Cleanup
  BY <1>16 DEF Cleanup, Known
<1>17. CASE EndOffboard
  BY <1>17 DEF EndOffboard, Airborne, Raised, Fatal, Known
<1>18. CASE Land
  BY <1>18 DEF Land, Raised, Fatal, Known
<1>19. CASE GroundSeen
  BY <1>19 DEF GroundSeen, Airborne, Known
<1>20. CASE GroundTimeout
  BY <1>20 DEF GroundTimeout, Known
<1>21. CASE GroundRaises
  BY <1>21 DEF GroundRaises, Raised, Fatal, Known
<1>22. CASE Disarm
  BY <1>22 DEF Disarm, Raised, Fatal, Known
<1>23. CASE Summary
  BY <1>23 DEF Summary, Known
<1>24. CASE Signal
  BY <1>24 DEF Signal, Known
<1>25. CASE Sample
  BY <1>25 DEF Sample, Airborne, Known
<1>26. CASE StreamDies
  BY <1>26 DEF StreamDies, Known
<1>27. CASE Watch
  BY <1>27 DEF Watch, Known
<1>28. CASE Detect
  BY <1>28 DEF Detect, Known
<1>29. CASE Fly
  BY <1>29 DEF Fly, InLoop, Known
<1>30. CASE Tick
  BY <1>30 DEF Tick, Waits, Due, CountTo, InLoop, LoopLimit, Plateau, Known
<1>31. CASE Exited
  BY <1>31 DEF Exited, vars, Known
<1> QED
  BY <1>1, <1>2, <1>3, <1>4, <1>5, <1>6, <1>7, <1>8, <1>9, <1>10, <1>11,
     <1>12, <1>13, <1>14, <1>15, <1>16, <1>17, <1>18, <1>19, <1>20, <1>21,
     <1>22, <1>23, <1>24, <1>25, <1>26, <1>27, <1>28, <1>29, <1>30, <1>31
     DEF Next, Run, Others

LEMMA ResultsNext ==
  SrchInv /\ Next => Results'
<1> SUFFICES ASSUME SrchInv, Next
             PROVE  Results'
  OBVIOUS
<1> USE SearchAssumption DEF SearchAssumption, SrchInv, SearchTypes,
    Booleans, Results, setup, stored, telemetry, craftState, search, loopClocks, dog, Goto
<1>1. CASE Connected
  BY <1>1 DEF Connected, Step
<1>2. CASE Armable
  BY <1>2 DEF Armable
<1>3. CASE SetupFails
  BY <1>3 DEF SetupFails, AtHeight, Fatal
<1>4. CASE Arm
  BY <1>4 DEF Arm
<1>5. CASE Takeoff
  BY <1>5 DEF Takeoff
<1>6. CASE Climbed
  BY <1>6 DEF Climbed, AtHeight, Step
<1>7. CASE DetectionReady
  BY <1>7 DEF DetectionReady, Step
<1>8. CASE BeginOffboard
  BY <1>8 DEF BeginOffboard
<1>9. CASE BreakOff
  BY <1>9 DEF BreakOff, Reason, Books, IsStuck, BothAge, Both, Changed,
     Plateau, History, Total, Longer
<1>10. CASE StartScan
  BY <1>10 DEF StartScan, Reason, Books, IsStuck, BothAge, Both, Changed,
     Plateau, History, Total, Longer
<1>11. CASE NoDepth
  BY <1>11 DEF NoDepth, Reason, Books, IsStuck, BothAge, Both, Changed,
     Plateau, History, Total, Longer
<1>12. CASE Follow
  BY <1>12 DEF Follow, Reason, Books, IsStuck, BothAge, Both, Changed,
     Plateau, History, Total, Longer
<1>13. CASE ScanEnds
  BY <1>13 DEF ScanEnds
<1>14. CASE LoopEnds
  BY <1>14 DEF LoopEnds
<1>15. CASE LoopRaises
  BY <1>15 DEF LoopRaises
<1>16. CASE Cleanup
  BY <1>16 DEF Cleanup
<1>17. CASE EndOffboard
  BY <1>17 DEF EndOffboard, Airborne, Raised, Fatal
<1>18. CASE Land
  BY <1>18 DEF Land, Raised, Fatal
<1>19. CASE GroundSeen
  BY <1>19 DEF GroundSeen, Airborne
<1>20. CASE GroundTimeout
  BY <1>20 DEF GroundTimeout
<1>21. CASE GroundRaises
  BY <1>21 DEF GroundRaises, Raised, Fatal
<1>22. CASE Disarm
  BY <1>22 DEF Disarm, Raised, Fatal
<1>23. CASE Summary
  BY <1>23 DEF Summary
<1>24. CASE Signal
  BY <1>24 DEF Signal
<1>25. CASE Sample
  BY <1>25 DEF Sample, Airborne
<1>26. CASE StreamDies
  BY <1>26 DEF StreamDies
<1>27. CASE Watch
  BY <1>27 DEF Watch
<1>28. CASE Detect
  BY <1>28 DEF Detect
<1>29. CASE Fly
  BY <1>29 DEF Fly, InLoop
<1>30. CASE Tick
  BY <1>30 DEF Tick, Waits, Due, CountTo, InLoop, LoopLimit, Plateau
<1>31. CASE Exited
  BY <1>31 DEF Exited, vars
<1> QED
  BY <1>1, <1>2, <1>3, <1>4, <1>5, <1>6, <1>7, <1>8, <1>9, <1>10, <1>11,
     <1>12, <1>13, <1>14, <1>15, <1>16, <1>17, <1>18, <1>19, <1>20, <1>21,
     <1>22, <1>23, <1>24, <1>25, <1>26, <1>27, <1>28, <1>29, <1>30, <1>31
     DEF Next, Run, Others

LEMMA BooleansNext ==
  SrchInv /\ Next => Booleans'
<1> SUFFICES ASSUME SrchInv, Next
             PROVE  Booleans'
  OBVIOUS
<1> USE SearchAssumption DEF SearchAssumption, SrchInv, SearchTypes,
    Booleans, setup, stored, telemetry, craftState, search, loopClocks, dog, Goto
<1>1. CASE Connected
  BY <1>1 DEF Connected, Step
<1>2. CASE Armable
  BY <1>2 DEF Armable
<1>3. CASE SetupFails
  BY <1>3 DEF SetupFails, AtHeight, Fatal
<1>4. CASE Arm
  BY <1>4 DEF Arm
<1>5. CASE Takeoff
  BY <1>5 DEF Takeoff
<1>6. CASE Climbed
  BY <1>6 DEF Climbed, AtHeight, Step
<1>7. CASE DetectionReady
  BY <1>7 DEF DetectionReady, Step
<1>8. CASE BeginOffboard
  BY <1>8 DEF BeginOffboard
<1>9. CASE BreakOff
  BY <1>9 DEF BreakOff, Reason, Books, IsStuck, BothAge, Both, Changed,
     Plateau, History, Total, Longer
<1>10. CASE StartScan
  BY <1>10 DEF StartScan, Reason, Books, IsStuck, BothAge, Both, Changed,
     Plateau, History, Total, Longer
<1>11. CASE NoDepth
  BY <1>11 DEF NoDepth, Reason, Books, IsStuck, BothAge, Both, Changed,
     Plateau, History, Total, Longer
<1>12. CASE Follow
  BY <1>12 DEF Follow, Reason, Books, IsStuck, BothAge, Both, Changed,
     Plateau, History, Total, Longer
<1>13. CASE ScanEnds
  BY <1>13 DEF ScanEnds
<1>14. CASE LoopEnds
  BY <1>14 DEF LoopEnds
<1>15. CASE LoopRaises
  BY <1>15 DEF LoopRaises
<1>16. CASE Cleanup
  BY <1>16 DEF Cleanup
<1>17. CASE EndOffboard
  BY <1>17 DEF EndOffboard, Airborne, Raised, Fatal
<1>18. CASE Land
  BY <1>18 DEF Land, Raised, Fatal
<1>19. CASE GroundSeen
  BY <1>19 DEF GroundSeen, Airborne
<1>20. CASE GroundTimeout
  BY <1>20 DEF GroundTimeout
<1>21. CASE GroundRaises
  BY <1>21 DEF GroundRaises, Raised, Fatal
<1>22. CASE Disarm
  BY <1>22 DEF Disarm, Raised, Fatal
<1>23. CASE Summary
  BY <1>23 DEF Summary
<1>24. CASE Signal
  BY <1>24 DEF Signal
<1>25. CASE Sample
  <2>1. (sawAir' = sawAir \/ sawAir' = Airborne) /\ UNCHANGED <<setup, abort, loopClocks>>
    BY <1>25 DEF Sample
  <2>2. Airborne \in BOOLEAN
    BY DEF Airborne
  <2> QED
    BY <2>1, <2>2, Zenon
<1>26. CASE StreamDies
  BY <1>26 DEF StreamDies
<1>27. CASE Watch
  BY <1>27 DEF Watch
<1>28. CASE Detect
  BY <1>28 DEF Detect
<1>29. CASE Fly
  BY <1>29 DEF Fly, InLoop
<1>30. CASE Tick
  BY <1>30 DEF Tick, Waits, Due, CountTo, InLoop, LoopLimit, Plateau
<1>31. CASE Exited
  BY <1>31 DEF Exited, vars
<1> QED
  BY <1>1, <1>2, <1>3, <1>4, <1>5, <1>6, <1>7, <1>8, <1>9, <1>10, <1>11,
     <1>12, <1>13, <1>14, <1>15, <1>16, <1>17, <1>18, <1>19, <1>20, <1>21,
     <1>22, <1>23, <1>24, <1>25, <1>26, <1>27, <1>28, <1>29, <1>30, <1>31
     DEF Next, Run, Others

LEMMA OrderedNext ==
  SrchInv /\ Next => Ordered'
<1> SUFFICES ASSUME SrchInv, Next
             PROVE  Ordered'
  OBVIOUS
<1> USE SearchAssumption DEF SearchAssumption, SrchInv, SearchTypes,
    Booleans, Whereabouts, Ordered, InSetup, Closing, Searching, setup, stored,
    telemetry, craftState, search, loopClocks, dog, Goto
<1>1. CASE Connected
  BY <1>1 DEF Connected, Step
<1>2. CASE Armable
  BY <1>2 DEF Armable
<1>3. CASE SetupFails
  BY <1>3 DEF SetupFails, AtHeight, Fatal
<1>4. CASE Arm
  BY <1>4 DEF Arm
<1>5. CASE Takeoff
  BY <1>5 DEF Takeoff
<1>6. CASE Climbed
  BY <1>6 DEF Climbed, AtHeight, Step
<1>7. CASE DetectionReady
  BY <1>7 DEF DetectionReady, Step
<1>8. CASE BeginOffboard
  BY <1>8 DEF BeginOffboard
<1>9. CASE BreakOff
  BY <1>9 DEF BreakOff, Reason, Books, IsStuck, BothAge, Both, Changed,
     Plateau, History, Total, Longer
<1>10. CASE StartScan
  BY <1>10 DEF StartScan, Reason, Books, IsStuck, BothAge, Both, Changed,
     Plateau, History, Total, Longer
<1>11. CASE NoDepth
  BY <1>11 DEF NoDepth, Reason, Books, IsStuck, BothAge, Both, Changed,
     Plateau, History, Total, Longer
<1>12. CASE Follow
  BY <1>12 DEF Follow, Reason, Books, IsStuck, BothAge, Both, Changed,
     Plateau, History, Total, Longer
<1>13. CASE ScanEnds
  BY <1>13 DEF ScanEnds
<1>14. CASE LoopEnds
  BY <1>14 DEF LoopEnds
<1>15. CASE LoopRaises
  BY <1>15 DEF LoopRaises
<1>16. CASE Cleanup
  BY <1>16 DEF Cleanup
<1>17. CASE EndOffboard
  BY <1>17 DEF EndOffboard, Airborne, Raised, Fatal
<1>18. CASE Land
  BY <1>18 DEF Land, Raised, Fatal
<1>19. CASE GroundSeen
  BY <1>19 DEF GroundSeen, Airborne
<1>20. CASE GroundTimeout
  BY <1>20 DEF GroundTimeout
<1>21. CASE GroundRaises
  BY <1>21 DEF GroundRaises, Raised, Fatal
<1>22. CASE Disarm
  BY <1>22 DEF Disarm, Raised, Fatal
<1>23. CASE Summary
  BY <1>23 DEF Summary
<1>24. CASE Signal
  BY <1>24 DEF Signal
<1>25. CASE Sample
  BY <1>25 DEF Sample, Airborne
<1>26. CASE StreamDies
  BY <1>26 DEF StreamDies
<1>27. CASE Watch
  BY <1>27 DEF Watch
<1>28. CASE Detect
  BY <1>28 DEF Detect
<1>29. CASE Fly
  BY <1>29 DEF Fly, InLoop
<1>30. CASE Tick
  BY <1>30 DEF Tick, Waits, Due, CountTo, InLoop, LoopLimit, Plateau
<1>31. CASE Exited
  BY <1>31 DEF Exited, vars
<1> QED
  BY <1>1, <1>2, <1>3, <1>4, <1>5, <1>6, <1>7, <1>8, <1>9, <1>10, <1>11,
     <1>12, <1>13, <1>14, <1>15, <1>16, <1>17, <1>18, <1>19, <1>20, <1>21,
     <1>22, <1>23, <1>24, <1>25, <1>26, <1>27, <1>28, <1>29, <1>30, <1>31
     DEF Next, Run, Others

-----------------------------------------------------------------------------
LEMMA SearchInit == Init => SrchInv
<1> SUFFICES ASSUME Init PROVE SrchInv
  OBVIOUS
<1> USE SearchAssumption DEF Init, SearchAssumption
<1>1. Whereabouts /\ Streams
  BY DEF Whereabouts, Streams, Altitudes, InSetup
<1>2. Meters
  BY DEF Meters
<1>3. Finds
  BY DEF Finds
<1>4. Known
  BY DEF Known
<1>5. Results /\ Booleans
  BY Zenon DEF Results, Booleans
<1>6. Ordered
  BY DEF Ordered, Closing
<1> QED
  BY <1>1, <1>2, <1>3, <1>4, <1>5, <1>6 DEF SrchInv, SearchTypes

LEMMA SearchNext == SrchInv /\ [Next]_vars => SrchInv'
<1> SUFFICES ASSUME SrchInv, [Next]_vars PROVE SrchInv'
  OBVIOUS
<1>1. CASE Next
  BY <1>1, PlacesNext, StreamsNext, CountsNext, SeenNext, KnownNext,
     ResultsNext, BooleansNext, OrderedNext DEF SrchInv, SearchTypes
<1>2. CASE UNCHANGED vars
  <2> USE <1>2 DEF SrchInv, SearchTypes, vars, setup, stored, telemetry, craftState,
      search, loopClocks, dog
  <2>1. Whereabouts' /\ Streams' /\ Meters'
    BY DEF Whereabouts, Streams, Meters
  <2>2. Finds' /\ Known'
    BY DEF Finds, Known
  <2>3. Results'
    BY DEF Results
  <2>4. Booleans'
    BY DEF Booleans
  <2>5. Ordered'
    BY DEF Ordered
  <2> QED
    BY <2>1, <2>2, <2>3, <2>4, <2>5
<1> QED
  BY <1>1, <1>2

(* Whatever raised, timed out or was interrupted, run() does not return    *)
(* with a vehicle nobody tried to land, and exit code 0 is a flight that   *)
(* took off, searched and was told to land.                                *)
THEOREM SearchLands == Spec => []SearchInv
<1>1. SrchInv => SearchInv
  <2> SUFFICES ASSUME SrchInv PROVE SearchInv
    OBVIOUS
  <2>1. TypeOK
    BY Zenon DEF SrchInv, SearchTypes, Whereabouts, Streams, Meters, Finds, Known,
       Results, Booleans, TypeOK, Waits, InSetup, Closing, Searching
  <2>2. NobodyLeftUp /\ SuccessIsAFlight
    BY DEF SrchInv, Ordered, NobodyLeftUp, SuccessIsAFlight
  <2> QED
    BY <2>1, <2>2 DEF SearchInv
<1> QED
  BY SearchInit, SearchNext, <1>1, PTL DEF Spec

-----------------------------------------------------------------------------
(* SearchRecords *)

Tasks == [pc : {"none", "infer", "add", "append"}, boxes : Int]
Entries == [seq : Nat, air : BOOLEAN]
Totals == [unique : Nat, count : Nat, listed : Nat]

(* A thread at work has the flag, alone.                                   *)
Working ==
  /\ thread \in [Threads -> Tasks]
  /\ busy \in BOOLEAN /\ up \in BOOLEAN
  /\ \A t \in Threads : thread[t].pc # "none" =>
       /\ busy = TRUE
       /\ \A u \in Threads : thread[u].pc # "none" => u = t
  /\ busy = TRUE => \E t \in Threads : thread[t].pc # "none"

(* The count is the length of the list, but for a box that is counted and  *)
(* not yet appended.                                                       *)
Counted ==
  /\ detectionCount \in Nat /\ detections \in Seq(Entries)
  /\ RecordsNumbered
  /\ (\E t \in Threads : thread[t].pc = "append") => detectionCount = Len(detections) + 1
  /\ (\A t \in Threads : thread[t].pc # "append") => detectionCount = Len(detections)

(* What is on the map is older than the last frame that was taken for it.  *)
Mapped ==
  /\ latest \in Nat /\ consumed \in Nat /\ consumed <= latest
  /\ points \in Seq(Nat) /\ \A i \in DOMAIN points : points[i] <= consumed
  /\ main \in {"flying", "landing", "map"} => saved = <<>>
  /\ MapIsInOrder

AddsUp(s) ==
  s.unique <= s.count /\ s.count <= s.listed + 1 /\ s.unique <= s.listed

(* What was read of a summary so far, off a list that now has n records.   *)
ReadSoFar(s, place, n) ==
  /\ s \in Totals
  /\ place \in {"count", "list"} => s.unique <= n
  /\ place = "list" => s.unique <= s.count /\ s.count <= n + 1
  /\ place \in {"json", "jsonWait", "status", "statusWait", "open", "fill", "over"} => AddsUp(s)

Summed ==
  /\ ReadSoFar(sum, writer, Len(detections)) /\ ReadSoFar(mainSum, main, Len(detections))
  /\ job.pc # "none" => AddsUp(job.sum)
  /\ json \in {NoSum, Torn} \/ AddsUp(json)
  /\ status \in {NoSum, Torn} \/ AddsUp(status)

RecInv == Working /\ Counted /\ Mapped /\ Summed

LEMMA IdleIsACell == Idle \in Tasks /\ Idle.pc = "none"
BY DEF Idle, Tasks

(* Before the first frame.                                                 *)
LEMMA RecordsStart == RecordsInit => RecInv
<1> SUFFICES ASSUME RecordsInit
             PROVE  RecInv
  OBVIOUS
<1>1. Working
  BY IdleIsACell DEF RecordsInit, Working
<1>2. Counted
  BY DEF RecordsInit, Counted, Idle, RecordsNumbered
<1>3. Mapped
  BY RecordsAssumption DEF RecordsInit, SetupMapping, Mapped, MapIsInOrder
<1>4. Summed
  BY DEF RecordsInit, Summed, ReadSoFar, Totals, Empty, AddsUp, NoJob
<1> QED
  BY <1>1, <1>2, <1>3, <1>4 DEF RecInv

(* One thread changes, as the only one that works or while none does.      *)
LEMMA OneChanges ==
  ASSUME Working, NEW t \in Threads, NEW x \in Tasks,
         thread' = [thread EXCEPT ![t] = x], up' = up,
         thread[t].pc # "none" \/ busy = FALSE,
         x.pc # "none" => busy' = TRUE, x.pc = "none" => busy' = FALSE
  PROVE  Working'
<1>1. \A u \in Threads : u # t => thread[u].pc = "none" /\ thread'[u] = thread[u]
  BY DEF Working
<1>2. thread' \in [Threads -> Tasks] /\ thread'[t] = x
  BY DEF Working
<1>3. busy' \in BOOLEAN /\ up' \in BOOLEAN
  BY DEF Working
<1>4. \A s \in Threads : thread'[s].pc # "none" =>
         busy' = TRUE /\ \A u \in Threads : thread'[u].pc # "none" => u = s
  BY <1>1, <1>2
<1>5. busy' = TRUE => \E s \in Threads : thread'[s].pc # "none"
  BY <1>1, <1>2
<1> QED
  BY <1>2, <1>3, <1>4, <1>5 DEF Working

(* What an inference thread does to itself and the flag.                   *)
LEMMA InferIs ==
  ASSUME RecInv, NEW t \in Threads, Infer(t) \/ Add(t) \/ RecordBox(t)
  PROVE  /\ thread[t].pc # "none" /\ up' = up
         /\ \E x \in Tasks : /\ thread' = [thread EXCEPT ![t] = x]
                             /\ x.pc # "none" => busy' = TRUE
                             /\ x.pc = "none" => busy' = FALSE
                             /\ x.pc = "append" => thread[t].pc = "add"
                             /\ thread[t].pc = "add" => x.pc = "append"
<1> DEFINE work == thread[t]
<1>1. work \in Tasks /\ (work.pc # "none" => busy = TRUE)
  BY DEF RecInv, Working
<1>2. CASE Infer(t)
  <2>1. work.pc = "infer" /\ up' = up
    BY <1>2 DEF Infer, craftVars
  <2>2. CASE Ends(t)
    BY <2>1, <2>2, IdleIsACell DEF Ends
  <2>3. CASE ~Ends(t)
    <3>1. PICK b \in 1..MaxBoxes :
            thread' = [thread EXCEPT ![t] = [pc |-> "add", boxes |-> b]] /\ busy' = busy
      BY <1>2, <2>3 DEF Infer
    <3>2. [pc |-> "add", boxes |-> b] \in Tasks
      BY RecordsAssumption DEF Tasks
    <3> QED
      BY <3>1, <3>2, <1>1, <2>1
  <2> QED
    BY <2>2, <2>3
<1>3. CASE Add(t)
  <2>1. /\ work.pc = "add" /\ up' = up /\ busy' = busy
        /\ thread' = [thread EXCEPT ![t] = [work EXCEPT !.pc = "append"]]
    BY <1>3 DEF Add, CountBox, craftVars
  <2>2. [work EXCEPT !.pc = "append"] \in Tasks
    BY <1>1 DEF Tasks
  <2>3. [work EXCEPT !.pc = "append"].pc = "append"
    BY <1>1 DEF Tasks
  <2> QED
    BY <1>1, <1>3, <2>1, <2>2, <2>3
<1>4. CASE RecordBox(t)
  <2>1. work.pc = "append" /\ up' = up
    BY <1>4 DEF RecordBox, craftVars
  <2>2. CASE work.boxes = 1
    <3>1. Ends(t)
      BY <1>4, <2>2 DEF RecordBox
    <3> QED
      BY <2>1, <3>1, IdleIsACell DEF Ends
  <2>3. CASE work.boxes # 1
    <3>1. work.boxes - 1 \in Int
      BY <1>1 DEF Tasks
    <3>2. /\ busy' = busy
          /\ thread' = [thread EXCEPT ![t] = [pc |-> "add", boxes |-> work.boxes - 1]]
      BY <1>4, <2>3 DEF RecordBox
    <3>3. [pc |-> "add", boxes |-> work.boxes - 1] \in Tasks
      BY <3>1 DEF Tasks
    <3> QED
      BY <1>1, <2>1, <3>2, <3>3
  <2> QED
    BY <2>2, <2>3
<1> QED
  BY <1>2, <1>3, <1>4

(* A thread starts with the flag and ends without it.                      *)
LEMMA WorkingKept == RecInv /\ RecordsNext => Working'
<1> SUFFICES ASSUME RecInv, RecordsNext
             PROVE  Working'
  OBVIOUS
<1> USE DEF RecInv
<1>1. CASE ImageCallback
  <2>1. up' = up
    BY <1>1 DEF ImageCallback, craftVars
  <2>2. CASE \E t \in Threads : Starts(t)
    <3>1. PICK t \in Threads : Starts(t)
      BY <2>2
    <3>2. [pc |-> "infer", boxes |-> 0] \in Tasks
      BY DEF Tasks
    <3>3. busy = FALSE
      BY <3>1 DEF Starts, Working
    <3> QED
      BY <2>1, <3>1, <3>2, <3>3, OneChanges DEF Starts
  <2>3. CASE UNCHANGED <<busy, thread>>
    BY <2>1, <2>3 DEF Working
  <2> QED
    BY <1>1, <2>2, <2>3 DEF ImageCallback
<1>2. CASE InferenceNext
  <2>1. PICK t \in Threads : Infer(t) \/ Add(t) \/ RecordBox(t)
    BY <1>2 DEF InferenceNext
  <2>2. PICK x \in Tasks : /\ thread' = [thread EXCEPT ![t] = x]
                           /\ x.pc # "none" => busy' = TRUE
                           /\ x.pc = "none" => busy' = FALSE
    BY <2>1, InferIs
  <2>3. thread[t].pc # "none" /\ up' = up
    BY <2>1, InferIs
  <2> QED
    BY <2>2, <2>3, OneChanges
<1>3. CASE \/ DepthCallback \/ MappingTask \/ RenderPng \/ WriterNext \/ Telemetry
           \/ Cancelled \/ TeardownMapping \/ WriteRunSummary
  <2>1. UNCHANGED <<thread, busy, up>>
    BY <1>3 DEF DepthCallback, MappingTask, RenderPng, WriterNext, Telemetry, Cancelled,
       TeardownMapping, WriteRunSummary, WriterReads, WriterHands, WriterGoesOn, JobOpens,
       JobFills, camera, craftVars
  <2> QED
    BY <2>1 DEF Working
<1>4. CASE Landed
  BY <1>4 DEF Landed, camera, Working
<1> QED
  BY <1>1, <1>2, <1>3, <1>4 DEF RecordsNext, RunNext

(* The list as it was, or with the next number at its end.                 *)
LEMMA CountedKept ==
  RecInv /\ RecordsNext => Counted' /\ Len(detections) \in Nat /\ Len(detections') \in Nat
                           /\ Len(detections) <= Len(detections')
<1> SUFFICES ASSUME RecInv, RecordsNext
             PROVE  Counted' /\ Len(detections) \in Nat /\ Len(detections') \in Nat
                    /\ Len(detections) <= Len(detections')
  OBVIOUS
<1>0. /\ detectionCount \in Nat /\ detections \in Seq(Entries) /\ Len(detections) \in Nat
      /\ \A i \in 1..Len(detections) : detections[i].seq = i
  BY DEF RecInv, Counted, RecordsNumbered
<1>1. CASE ImageCallback
  <2>1. UNCHANGED <<detectionCount, detections>>
    BY <1>1 DEF ImageCallback
  <2>2. CASE \E t \in Threads : Starts(t)
    <3>1. PICK t \in Threads : Starts(t)
      BY <2>2
    <3>2. \A u \in Threads : thread[u].pc = "none"
      BY <3>1 DEF Starts, RecInv, Working
    <3>3. \A u \in Threads : thread'[u].pc # "append"
      BY <3>1, <3>2 DEF Starts, RecInv, Working
    <3> QED
      BY <1>0, <2>1, <3>2, <3>3 DEF RecInv, Counted, RecordsNumbered
  <2>3. CASE UNCHANGED <<busy, thread>>
    BY <1>0, <2>1, <2>3 DEF RecInv, Counted, RecordsNumbered
  <2> QED
    BY <1>1, <2>2, <2>3 DEF ImageCallback
<1>2. CASE InferenceNext
  <2>1. PICK t \in Threads : Infer(t) \/ Add(t) \/ RecordBox(t)
    BY <1>2 DEF InferenceNext
  <2>2. PICK x \in Tasks : /\ thread' = [thread EXCEPT ![t] = x]
                           /\ x.pc = "append" => thread[t].pc = "add"
                           /\ thread[t].pc = "add" => x.pc = "append"
    BY <2>1, InferIs
  <2>3. thread[t].pc # "none"
    BY <2>1, InferIs
  <2>4. \A u \in Threads : u # t => thread[u].pc = "none" /\ thread'[u].pc = "none"
    BY <2>2, <2>3 DEF RecInv, Working
  <2>5. thread'[t] = x
    BY <2>2 DEF RecInv, Working
  <2>6. CASE Infer(t)
    <3>1. /\ thread[t].pc = "infer" /\ UNCHANGED <<detectionCount, detections>>
          /\ x.pc # "append"
      BY <2>2, <2>6 DEF Infer
    <3>2. \A u \in Threads : thread[u].pc # "append" /\ thread'[u].pc # "append"
      BY <2>4, <2>5, <3>1
    <3> QED
      BY <1>0, <3>1, <3>2 DEF RecInv, Counted, RecordsNumbered
  <2>7. CASE Add(t)
    <3>1. /\ thread[t].pc = "add" /\ detectionCount' = detectionCount + 1
          /\ detections' = detections /\ x.pc = "append"
      BY <2>2, <2>7 DEF Add, CountBox
    <3>2. \A u \in Threads : thread[u].pc # "append"
      BY <2>4, <3>1
    <3>3. detectionCount = Len(detections)
      BY <3>2 DEF RecInv, Counted
    <3>4. thread'[t].pc = "append"
      BY <2>5, <3>1
    <3> QED
      BY <1>0, <3>1, <3>3, <3>4 DEF Counted, RecordsNumbered
  <2>8. CASE RecordBox(t)
    <3>1. /\ thread[t].pc = "append" /\ UNCHANGED detectionCount
          /\ detections' = Append(detections, [seq |-> detectionCount, air |-> up])
          /\ x.pc # "append"
      BY <2>2, <2>8 DEF RecordBox
    <3>2. \A u \in Threads : thread'[u].pc # "append"
      BY <2>4, <2>5, <3>1
    <3>3. detectionCount = Len(detections) + 1
      BY <3>1 DEF RecInv, Counted
    <3>4. [seq |-> detectionCount, air |-> up] \in Entries
      BY <1>0 DEF Entries, RecInv, Working
    <3>5. /\ detections' \in Seq(Entries) /\ Len(detections') = Len(detections) + 1
          /\ \A i \in 1..Len(detections) : detections'[i] = detections[i]
          /\ detections'[Len(detections) + 1] = [seq |-> detectionCount, air |-> up]
      BY <1>0, <3>1, <3>4
    <3>6. \A i \in 1..Len(detections') : detections'[i].seq = i
      BY <1>0, <3>3, <3>5
    <3> QED
      BY <1>0, <3>1, <3>2, <3>3, <3>5, <3>6 DEF Counted, RecordsNumbered
  <2> QED
    BY <2>1, <2>6, <2>7, <2>8
<1>3. CASE \/ DepthCallback \/ MappingTask \/ RenderPng \/ WriterNext \/ Telemetry
           \/ RunNext
  <2>1. UNCHANGED <<thread, detectionCount, detections>>
    BY <1>3 DEF DepthCallback, MappingTask, RenderPng, WriterNext, Telemetry, Cancelled,
       Landed, RunNext, TeardownMapping, WriteRunSummary, WriterReads, WriterHands,
       WriterGoesOn, JobOpens, JobFills, camera
  <2> QED
    BY <1>0, <2>1 DEF RecInv, Counted, RecordsNumbered
<1> QED
  BY <1>1, <1>2, <1>3 DEF RecordsNext

(* The newest of a sequence that grows are growing.                        *)
LEMMA NewestGrow ==
  ASSUME NEW s \in Seq(Nat), NEW f \in Nat,
         \A i, j \in DOMAIN s : i < j => s[i] < s[j], \A i \in DOMAIN s : s[i] < f
  PROVE  LET l == LastOf(Append(s, f))
         IN  /\ l \in Seq(Nat) /\ Len(l) <= MaxPoints
             /\ \A i, j \in DOMAIN l : i < j => l[i] < l[j]
             /\ \A i \in DOMAIN l : l[i] <= f
<1> DEFINE a == Append(s, f)  n == Len(s) + 1  l == LastOf(a)
             Good(z) == /\ z \in Seq(Nat) /\ Len(z) <= MaxPoints
                        /\ \A i, j \in DOMAIN z : i < j => z[i] < z[j]
                        /\ \A i \in DOMAIN z : z[i] <= f
<1>1. /\ Len(s) \in Nat /\ MaxPoints \in Nat /\ a \in Seq(Nat) /\ Len(a) = n
      /\ a[n] = f /\ \A i \in 1..n - 1 : a[i] = s[i]
  BY RecordsAssumption
<1>2. \A i \in 1..n : a[i] \in Nat /\ a[i] <= f
  BY <1>1
<1>3. \A i, j \in 1..n : i < j => a[i] < a[j]
  <2> SUFFICES ASSUME NEW i \in 1..n, NEW j \in 1..n, i < j
               PROVE  a[i] < a[j]
    OBVIOUS
  <2>1. i \in 1..n - 1 /\ a[i] = s[i] /\ i \in DOMAIN s
    BY <1>1
  <2>2. CASE j = n
    BY <1>1, <2>1, <2>2
  <2>3. CASE j # n
    <3>1. j \in DOMAIN s /\ a[j] = s[j]
      BY <1>1, <2>3
    <3> QED
      BY <2>1, <3>1
  <2> QED
    BY <2>2, <2>3
<1> HIDE DEF a
<1> SUFFICES Good(l)
  BY DEF a
<1>4. CASE n <= MaxPoints
  <2>1. l = a
    BY <1>1, <1>4 DEF LastOf
  <2> QED
    BY <1>1, <1>2, <1>3, <1>4, <2>1
<1>5. CASE ~(n <= MaxPoints)
  <2>1. l = SubSeq(a, n - MaxPoints + 1, n)
    BY <1>1, <1>5 DEF LastOf
  <2>2. n - MaxPoints + 1 \in 1..n + 1 /\ n \in Nat
    BY <1>1, <1>5
  <2>3. /\ l \in Seq(Nat) /\ Len(l) = MaxPoints
        /\ \A i \in 1..MaxPoints : l[i] = a[n - MaxPoints + i]
    BY <1>1, <1>5, <2>1, <2>2, SubSeqProperties
  <2>4. \A i \in 1..MaxPoints : n - MaxPoints + i \in 1..n
    BY <1>1, <1>5
  <2>5. \A i, j \in 1..MaxPoints : i < j => l[i] < l[j]
    <3> SUFFICES ASSUME NEW i \in 1..MaxPoints, NEW j \in 1..MaxPoints, i < j
                 PROVE  l[i] < l[j]
      OBVIOUS
    <3>1. n - MaxPoints + i < n - MaxPoints + j
      BY <1>1
    <3> QED
      BY <1>3, <2>3, <2>4, <3>1
  <2>6. \A i \in 1..MaxPoints : l[i] <= f
    BY <1>2, <2>3, <2>4
  <2>7. DOMAIN l = 1..MaxPoints
    BY <2>3
  <2> HIDE DEF l
  <2> QED
    BY <1>1, <2>3, <2>5, <2>6, <2>7
<1> QED
  BY <1>1, <1>4, <1>5

(* A frame goes on the map after those that are there.                     *)
LEMMA MappedKept == RecInv /\ RecordsNext => Mapped'
<1> SUFFICES ASSUME RecInv, RecordsNext
             PROVE  Mapped'
  OBVIOUS
<1> USE DEF RecInv
<1>0. /\ latest \in Nat /\ consumed \in Nat /\ consumed <= latest
      /\ points \in Seq(Nat) /\ \A i \in DOMAIN points : points[i] <= consumed
      /\ \A i, j \in DOMAIN points : i < j => points[i] < points[j]
      /\ Len(points) <= MaxPoints
  BY DEF Mapped, MapIsInOrder
<1>1. CASE \/ ImageCallback \/ InferenceNext \/ RenderPng \/ WriterNext \/ Telemetry
  <2>1. UNCHANGED <<latest, consumed, points, saved, main>>
    BY <1>1 DEF ImageCallback, InferenceNext, Infer, Add, RecordBox, RenderPng, WriterNext,
       Telemetry, WriterReads, WriterHands, WriterGoesOn, JobOpens, JobFills, map, runVars
  <2> QED
    BY <2>1 DEF Mapped, MapIsInOrder
<1>2. CASE DepthCallback
  <2>1. latest' = latest + 1 /\ UNCHANGED <<consumed, points, saved, main>>
    BY <1>2 DEF DepthCallback, runVars
  <2> QED
    BY <1>0, <2>1 DEF Mapped, MapIsInOrder
<1>3. CASE MappingTask
  <2>1. /\ main = "flying" /\ latest # consumed /\ consumed' = latest
        /\ points' = LastOf(Append(points, latest)) \/ points' = points
        /\ UNCHANGED <<latest, saved, main>>
    BY <1>3 DEF MappingTask, Consume, runVars
  <2>2. \A i \in DOMAIN points : points[i] < latest
    <3> SUFFICES ASSUME NEW i \in DOMAIN points
                 PROVE  points[i] < latest
      OBVIOUS
    <3>1. points[i] \in Nat /\ points[i] <= consumed /\ consumed < latest
      BY <1>0, <2>1
    <3> QED
      BY <1>0, <3>1
  <2>3. /\ points' \in Seq(Nat) /\ Len(points') <= MaxPoints
        /\ \A i, j \in DOMAIN points' : i < j => points'[i] < points'[j]
        /\ \A i \in DOMAIN points' : points'[i] <= latest
    <3>1. CASE points' = points
      <4>1. \A i \in DOMAIN points : points[i] \in Nat
        BY <1>0
      <4> QED
        BY <1>0, <2>2, <3>1, <4>1
    <3>2. CASE points' = LastOf(Append(points, latest))
      BY <1>0, <2>2, <3>2, NewestGrow
    <3> QED
      BY <2>1, <3>1, <3>2
  <2>4. saved' = <<>> /\ main' = "flying"
    BY <2>1 DEF Mapped
  <2> QED
    BY <1>0, <2>1, <2>3, <2>4 DEF Mapped, MapIsInOrder
<1>4. CASE RunNext
  <2>1. UNCHANGED <<latest, consumed, points>>
    BY <1>4 DEF RunNext, Cancelled, Landed, TeardownMapping, WriteRunSummary, map
  <2>2. CASE TeardownMapping
    <3>1. main = "map" /\ main' = "unique" /\ saved' \in {points, saved}
      BY <2>2 DEF TeardownMapping
    <3>2. saved' \in {points, <<>>}
      BY <3>1 DEF Mapped
    <3> QED
      BY <1>0, <2>1, <3>1, <3>2 DEF Mapped, MapIsInOrder
  <2>3. CASE Cancelled \/ Landed
    <3>1. main \in {"flying", "landing"} /\ main' \in {"landing", "map"} /\ saved' = saved
      BY <2>3 DEF Cancelled, Landed, map
    <3> QED
      BY <1>0, <2>1, <3>1 DEF Mapped, MapIsInOrder
  <2>4. CASE WriteRunSummary
    <3>1. /\ main \in {"unique", "count", "list", "open", "fill"} /\ saved' = saved
          /\ main' \in {"count", "list", "json", "open", "fill", "over"}
      BY <2>4 DEF WriteRunSummary, After, map
    <3> QED
      BY <1>0, <2>1, <3>1 DEF Mapped, MapIsInOrder
  <2> QED
    BY <1>4, <2>2, <2>3, <2>4 DEF RunNext
<1> QED
  BY <1>1, <1>2, <1>3, <1>4 DEF RecordsNext

(* One part more is read, in the order in which a reader reads them.       *)
LEMMA PartRead ==
  ASSUME Counted, NEW s, NEW item \in {"unique", "count", "list"}, ReadSoFar(s, item, Len(detections))
  PROVE  /\ item = "unique" => ReadSoFar(ReadPart(s, item), "count", Len(detections))
         /\ item = "count" => ReadSoFar(ReadPart(s, item), "list", Len(detections))
         /\ item = "list" => AddsUp(ReadPart(s, item)) /\ ReadPart(s, item) \in Totals
<1> DEFINE n == Len(detections)
<1>1. n \in Nat /\ detectionCount \in Nat /\ n <= detectionCount /\ detectionCount <= n + 1
  BY DEF Counted
<1>2. s \in Totals
  BY DEF ReadSoFar
<1>3. CASE item = "unique"
  <2>1. ReadPart(s, item) = [s EXCEPT !.unique = n]
    BY <1>3 DEF ReadPart
  <2> QED
    BY <1>1, <1>2, <1>3, <2>1 DEF ReadSoFar, Totals
<1>4. CASE item = "count"
  <2>1. ReadPart(s, item) = [s EXCEPT !.count = detectionCount]
    BY <1>4 DEF ReadPart
  <2> QED
    BY <1>1, <1>2, <1>4, <2>1 DEF ReadSoFar, Totals
<1>5. CASE item = "list"
  <2>1. ReadPart(s, item) = [s EXCEPT !.listed = n]
    BY <1>5 DEF ReadPart
  <2> QED
    BY <1>1, <1>2, <1>5, <2>1 DEF ReadSoFar, Totals, AddsUp
<1> QED
  BY <1>3, <1>4, <1>5

(* What was read stays right while the list grows.                         *)
LEMMA StillRead ==
  ASSUME NEW s, NEW item, NEW m \in Nat, NEW n \in Nat, m <= n, ReadSoFar(s, item, m)
  PROVE  ReadSoFar(s, item, n)
BY DEF ReadSoFar, Totals

(* A summary is read off a list that only grows, the whole list last.      *)
LEMMA SummedKept == RecInv /\ RecordsNext => Summed'
<1> SUFFICES ASSUME RecInv, RecordsNext
             PROVE  Summed'
  OBVIOUS
<1> DEFINE m == Len(detections)  n == Len(detections')
<1>0. m \in Nat /\ n \in Nat /\ m <= n
  BY CountedKept
<1>1. /\ Counted /\ ReadSoFar(sum, writer, m) /\ ReadSoFar(mainSum, main, m)
      /\ job.pc # "none" => AddsUp(job.sum)
      /\ json \in {NoSum, Torn} \/ AddsUp(json)
      /\ status \in {NoSum, Torn} \/ AddsUp(status)
  BY DEF RecInv, Summed
<1>2. ReadSoFar(sum, writer, n) /\ ReadSoFar(mainSum, main, n)
  <2> HIDE DEF m, n
  <2> QED
    BY <1>0, <1>1, StillRead
<1> HIDE DEF m
<1>3. CASE \/ ImageCallback \/ InferenceNext \/ DepthCallback \/ MappingTask \/ RenderPng
           \/ Telemetry
  <2>1. UNCHANGED <<sum, writer, mainSum, main, job, json, status>>
    BY <1>3 DEF ImageCallback, InferenceNext, Infer, Add, RecordBox, DepthCallback,
       MappingTask, RenderPng, Telemetry, writerVars, outputs, runVars
  <2> QED
    BY <1>1, <1>2, <2>1 DEF Summed
<1>4. CASE WriterReads
  <2>1. /\ writer \in {"unique", "count", "list"} /\ sum' = ReadPart(sum, writer)
        /\ writer' = After(writer) /\ n = Len(detections)
        /\ UNCHANGED <<mainSum, main, job, json, status>>
    BY <1>4 DEF WriterReads, camera, outputs, runVars
  <2>2. ReadSoFar(sum', writer', n)
    <3>1. CASE writer = "unique"
      BY <1>1, <2>1, <3>1, PartRead DEF After, m
    <3>2. CASE writer = "count"
      BY <1>1, <2>1, <3>2, PartRead DEF After, m
    <3>3. CASE writer = "list"
      <4>1. AddsUp(sum') /\ sum' \in Totals /\ writer' = "json"
        BY <1>1, <2>1, <3>3, PartRead DEF After, m
      <4> QED
        BY <4>1 DEF ReadSoFar
    <3> QED
      BY <2>1, <3>1, <3>2, <3>3
  <2> QED
    BY <1>1, <1>2, <2>1, <2>2 DEF Summed
<1>5. CASE WriterHands
  <2>1. /\ writer \in {"json", "status"} /\ UNCHANGED <<sum, mainSum, main, json, status>>
        /\ job' = [file |-> writer, pc |-> "open", sum |-> sum]
        /\ writer' = IF writer = "json" THEN "jsonWait" ELSE "statusWait"
    BY <1>5 DEF WriterHands, outputs, runVars
  <2>2. AddsUp(sum) /\ sum \in Totals
    BY <1>2, <2>1 DEF ReadSoFar
  <2>3. ReadSoFar(sum', writer', n)
    BY <2>1, <2>2 DEF ReadSoFar
  <2>4. AddsUp(job'.sum)
    BY <2>1, <2>2
  <2> QED
    BY <1>1, <1>2, <2>1, <2>3, <2>4 DEF Summed
<1>6. CASE WriterGoesOn
  <2>1. /\ UNCHANGED <<sum, mainSum, main, job, json, status>>
        /\ \/ writer = "jsonWait" /\ writer' \in {"status", "sleep"}
           \/ writer' \in {"sleep", "unique"}
    BY <1>6 DEF WriterGoesOn, outputs, runVars
  <2>2. ReadSoFar(sum', writer', n)
    BY <1>2, <2>1 DEF ReadSoFar
  <2> QED
    BY <1>1, <1>2, <2>1, <2>2 DEF Summed
<1>7. CASE JobOpens
  <2>1. /\ UNCHANGED <<sum, writer, mainSum, main>>
        /\ job.pc = "open" /\ job'.sum = job.sum
        /\ json' \in {json, Torn} /\ status' \in {status, Torn}
    <3>1. job' = [job EXCEPT !.pc = "fill"] /\ job.pc = "open"
      BY <1>7 DEF JobOpens
    <3> QED
      BY <1>7, <3>1 DEF JobOpens, ToFile, runVars
  <2> QED
    BY <1>1, <1>2, <2>1 DEF Summed
<1>8. CASE JobFills
  <2>1. /\ UNCHANGED <<sum, writer, mainSum, main>> /\ job.pc = "fill" /\ job' = NoJob
        /\ json' \in {json, job.sum} /\ status' \in {status, job.sum}
    BY <1>8 DEF JobFills, ToFile, runVars
  <2>2. AddsUp(job.sum) /\ job'.pc = "none"
    BY <1>1, <2>1 DEF NoJob
  <2> QED
    BY <1>1, <1>2, <2>1, <2>2 DEF Summed
<1>9. CASE RunNext
  <2>1. CASE Cancelled \/ Landed \/ TeardownMapping
    <3>1. /\ UNCHANGED <<sum, mainSum, job, json, status>> /\ writer' \in {writer, "cancelled"}
          /\ main' \in {"landing", "map", "unique"}
      BY <2>1 DEF Cancelled, Landed, TeardownMapping, writerVars, outputs
    <3>2. ReadSoFar(sum', writer', n) /\ ReadSoFar(mainSum', main', n)
      BY <1>2, <3>1 DEF ReadSoFar
    <3> QED
      BY <1>1, <3>1, <3>2 DEF Summed
  <2>2. CASE WriteRunSummary
    <3>1. UNCHANGED <<sum, writer, job, status>> /\ n = Len(detections)
      BY <2>2 DEF WriteRunSummary, writerVars, outputs, camera, ToFile
    <3>2. CASE main \in {"unique", "count", "list"}
      <4>1. /\ mainSum' = ReadPart(mainSum, main) /\ json' = json
            /\ main' = IF main = "list" THEN "open" ELSE After(main)
        BY <2>2, <3>2 DEF WriteRunSummary, outputs
      <4>2. ReadSoFar(mainSum', main', n)
        <5>1. CASE main = "unique"
          BY <1>1, <3>1, <4>1, <5>1, PartRead DEF After, m
        <5>2. CASE main = "count"
          BY <1>1, <3>1, <4>1, <5>2, PartRead DEF After, m
        <5>3. CASE main = "list"
          <6>1. AddsUp(mainSum') /\ mainSum' \in Totals /\ main' = "open"
            BY <1>1, <4>1, <5>3, PartRead DEF m
          <6> QED
            BY <6>1 DEF ReadSoFar
        <5> QED
          BY <3>2, <5>1, <5>2, <5>3
      <4> QED
        BY <1>1, <1>2, <3>1, <4>1, <4>2 DEF Summed
    <3>3. CASE main \notin {"unique", "count", "list"}
      <4>1. /\ mainSum' = mainSum /\ main \in {"open", "fill"} /\ main' \in {"fill", "over"}
            /\ json' \in {Torn, mainSum}
        BY <2>2, <3>3 DEF WriteRunSummary, ToFile
      <4>2. AddsUp(mainSum) /\ mainSum \in Totals
        BY <1>1, <4>1 DEF ReadSoFar
      <4>3. ReadSoFar(mainSum', main', n)
        BY <4>1, <4>2 DEF ReadSoFar
      <4> QED
        BY <1>1, <1>2, <3>1, <4>1, <4>2, <4>3 DEF Summed
    <3> QED
      BY <3>2, <3>3
  <2> QED
    BY <1>9, <2>1, <2>2 DEF RunNext
<1> QED
  BY <1>3, <1>4, <1>5, <1>6, <1>7, <1>8, <1>9 DEF RecordsNext, WriterNext

(* Nothing happens, nothing changes.                                       *)
LEMMA RecordsStill == RecInv /\ UNCHANGED recordVars => RecInv'
BY DEF RecInv, Working, Counted, RecordsNumbered, Mapped, MapIsInOrder, Summed, ReadSoFar,
   Totals, AddsUp, recordVars, camera, craftVars, map, picture, writerVars, outputs, runVars

(* A thread that has something to do is not idle.                          *)
LEMMA RecordsFit == RecInv => RecordsInv
<1> SUFFICES ASSUME RecInv
             PROVE  RecordsInv
  OBVIOUS
<1>1. SummariesAddUp
  BY DEF RecInv, Summed, SummariesAddUp, AddsUp
<1>2. RecordsNumbered /\ MapIsInOrder
  BY DEF RecInv, Counted, Mapped
<1>3. BusyMeansWorking
  <2> SUFFICES ASSUME busy = TRUE
               PROVE  \E t \in Threads : thread[t] # Idle
    BY DEF BusyMeansWorking, RecInv, Working
  <2>1. PICK t \in Threads : thread[t].pc # "none"
    BY DEF RecInv, Working
  <2> QED
    BY <2>1, IdleIsACell
<1> QED
  BY <1>1, <1>2, <1>3 DEF RecordsInv

(* However the inference threads, the status writer, its job and the end   *)
(* of the run interleave, without a lock: what a summary claims it lists,  *)
(* the records are numbered by their places, no depth frame is on the map  *)
(* twice, and the flag that drops frames is not left behind.               *)
THEOREM RecordsFitTogether == RecordsSpec => []RecordsInv
<1>1. RecInv /\ [RecordsNext]_recordVars => RecInv'
  BY WorkingKept, CountedKept, MappedKept, SummedKept, RecordsStill DEF RecInv
<1> QED
  BY RecordsStart, RecordsFit, <1>1, PTL DEF RecordsSpec

-----------------------------------------------------------------------------
(* WallFollower: compute() block by block.  What each hands to the next is *)
(* a record of the follower's fields, "still" until a command is decided.  *)
Views == [front : Nat, right : Nat]
Followings == [state : States, pre : {"find_wall", "follow_wall"}, corner : 0..CORNER_TICKS,
           avoid_cooldown : 0..AVOID_COOLDOWN, history : Seq(Views),
           escape : 0..ESCAPE_TICKS - 1, cooldown : 0..ESCAPE_COOLDOWN_TICKS,
           avoid : 0..AVOID_FRONT_MAX_TICKS - 1, find : Nat, told : Commands]
Followed(f) ==
  /\ f \in Followings /\ Len(f.history) <= STUCK_WINDOW_TICKS
  /\ f.state = "outer_corner" => f.corner < CORNER_TICKS

(* How long it has gone on with a wall ahead, by where it is in a corner.  *)
Dashes ==
  /\ pressing \in Nat /\ since_escape \in Nat
  /\ state \in {"escape", "avoid_front"} => pressing = 0
  /\ state \in {"find_wall", "follow_wall"} => pressing <= CORNER_PHASE3_TICKS + 1
  /\ state = "outer_corner" =>
       /\ corner_ticks < CORNER_PHASE1_TICKS => pressing <= corner_ticks
       /\ corner_ticks >= CORNER_PHASE1_TICKS
          /\ corner_ticks < CORNER_PHASE1_TICKS + CORNER_PHASE2_TICKS => pressing = 0
       /\ corner_ticks >= CORNER_PHASE1_TICKS + CORNER_PHASE2_TICKS =>
            pressing <= corner_ticks - (CORNER_PHASE1_TICKS + CORNER_PHASE2_TICKS) + 1

(* The turning is counted by the follower itself.                          *)
Turns ==
  /\ spinning \in Nat
  /\ state # "avoid_front" => spinning = 0
  /\ state = "avoid_front" => spinning <= avoid_front_ticks + 1

WallIInv == Followed(Fields) /\ command \in Commands /\ Dashes /\ Turns

(* The durations of wall_following.py are numbers of ticks.                *)
LEMMA Durations ==
  /\ STUCK_WINDOW_TICKS \in Nat /\ STUCK_WINDOW_TICKS > 0
  /\ ESCAPE_TICKS \in Nat /\ ESCAPE_TICKS > 0 /\ ESCAPE_COOLDOWN_TICKS \in Nat
  /\ AVOID_FRONT_MAX_TICKS \in Nat /\ AVOID_FRONT_MAX_TICKS > 0
  /\ AVOID_COOLDOWN \in Nat /\ FIND_WALL_STALL_TICKS \in Nat
  /\ CORNER_PHASE1_TICKS \in Nat /\ CORNER_PHASE1_TICKS > 0
  /\ CORNER_PHASE2_TICKS \in Nat /\ CORNER_PHASE2_TICKS > 0
  /\ CORNER_PHASE3_TICKS \in Nat /\ CORNER_PHASE3_TICKS > 0
  /\ CORNER_TICKS = CORNER_PHASE1_TICKS + CORNER_PHASE2_TICKS + CORNER_PHASE3_TICKS
BY WallAssumption DEF WallAssumption, CORNER_TICKS

(* A block that decides has the follower escape; one that does not leaves  *)
(* it where it is, or at the end of an escape with nothing in reach.       *)
Undecided(f, g) ==
  /\ g.state # "escape" /\ g.corner = f.corner
  /\ g.state # f.state => f.state = "escape" /\ g.state = "find_wall"
  /\ g.state = "avoid_front" => g.avoid = f.avoid
Decided(g) == g.told = "escape_turn" /\ g.state = "escape"

(* What a counter may be set to.                                           *)
LEMMA Zeroes ==
  /\ 0 \in 0..ESCAPE_TICKS - 1 /\ 0 \in 0..AVOID_FRONT_MAX_TICKS - 1 /\ 0 \in Nat
  /\ 0 \in 0..CORNER_TICKS /\ 0 < CORNER_TICKS
  /\ ESCAPE_COOLDOWN_TICKS \in 0..ESCAPE_COOLDOWN_TICKS
  /\ AVOID_COOLDOWN \in 0..AVOID_COOLDOWN
  /\ <<>> \in Seq(Views) /\ Len(<<>>) <= STUCK_WINDOW_TICKS
BY Durations

LEMMA EscapeBlockIs ==
  ASSUME NEW f, Followed(f), f.told = "still"
  PROVE  LET g == EscapeBlock(f)
         IN  /\ Followed(g)
             /\ Decided(g) \/ (g.told = "still" /\ Undecided(f, g))
<1> DEFINE g == EscapeBlock(f)
<1>0. f \in Followings /\ f.escape \in 0..ESCAPE_TICKS - 1
  BY DEF Followed, Followings
<1>1. CASE f.state # "escape"
  BY <1>1 DEF EscapeBlock, Undecided
<1>2. CASE f.state = "escape" /\ f.escape + 1 < ESCAPE_TICKS
  <2>1. g = [f EXCEPT !.escape = f.escape + 1, !.told = "escape_turn"]
    BY <1>2 DEF EscapeBlock
  <2>2. f.escape + 1 \in 0..ESCAPE_TICKS - 1
    BY <1>0, <1>2, Durations
  <2> HIDE DEF g
  <2>3. g \in Followings
    BY <1>0, <2>1, <2>2 DEF Followings, Commands
  <2>4. /\ g.state = "escape" /\ g.told = "escape_turn" /\ g.history = f.history
    BY <1>0, <1>2, <2>1 DEF Followings
  <2> QED
    BY <2>3, <2>4 DEF Followed, Decided, g
<1>3. CASE f.state = "escape" /\ ~(f.escape + 1 < ESCAPE_TICKS)
  <2>1. g = [f EXCEPT !.state = "find_wall", !.pre = "find_wall", !.escape = 0,
               !.cooldown = ESCAPE_COOLDOWN_TICKS, !.history = <<>>,
               !.avoid = 0, !.find = 0]
    BY <1>3 DEF EscapeBlock
  <2> HIDE DEF g
  <2>2. g \in Followings
    BY <1>0, <2>1, Zeroes DEF Followings, States
  <2>3. /\ g.state = "find_wall" /\ g.told = f.told /\ g.history = <<>>
        /\ g.corner = f.corner
    BY <1>0, <2>1 DEF Followings
  <2> QED
    BY <1>3, <2>2, <2>3, Zeroes DEF Followed, Undecided, g
<1> QED
  BY <1>1, <1>2, <1>3

(* The window keeps its length.                                            *)
LEMMA WindowKept ==
  ASSUME NEW h \in Seq(Views), Len(h) <= STUCK_WINDOW_TICKS, NEW v \in Views
  PROVE  LET longer == Append(h, v)
             window == IF Len(longer) > STUCK_WINDOW_TICKS THEN Tail(longer) ELSE longer
         IN  window \in Seq(Views) /\ Len(window) <= STUCK_WINDOW_TICKS
<1> DEFINE longer == Append(h, v)
<1>1. longer \in Seq(Views) /\ Len(longer) = Len(h) + 1 /\ Len(h) \in Nat
  OBVIOUS
<1>2. Tail(longer) \in Seq(Views) /\ Len(Tail(longer)) = Len(h)
  <2> HIDE DEF longer
  <2>1. longer # <<>>
    BY <1>1
  <2> QED
    BY <1>1, <2>1, HeadTailProperties
<1> QED
  BY <1>1, <1>2, Durations

LEMMA StuckBlockIs ==
  ASSUME NEW f, Followed(f), f.told = "still", f.state # "escape",
         NEW front \in Nat, NEW right \in Nat
  PROVE  LET g == StuckBlock(f, front, right)
         IN  /\ Followed(g)
             /\ Decided(g) \/ (g.told = "still" /\ Undecided(f, g))
<1> DEFINE cooled == [f EXCEPT !.cooldown = Less1(f.cooldown)]
           longer == Append(f.history, [front |-> front, right |-> right])
           window == IF Len(longer) > STUCK_WINDOW_TICKS THEN Tail(longer) ELSE longer
           g == StuckBlock(f, front, right)
<1>1. /\ f.history \in Seq(Views) /\ Len(f.history) <= STUCK_WINDOW_TICKS
      /\ [front |-> front, right |-> right] \in Views
  BY DEF Followed, Followings, Views
<1>2. window \in Seq(Views) /\ Len(window) <= STUCK_WINDOW_TICKS
  BY <1>1, WindowKept
<1>3. /\ Followed(cooled) /\ cooled.state = f.state /\ cooled.corner = f.corner
      /\ cooled.avoid = f.avoid /\ cooled.told = "still"
  <2>1. f \in Followings /\ Less1(f.cooldown) \in 0..ESCAPE_COOLDOWN_TICKS
    BY Durations DEF Followed, Followings, Less1
  <2>2. cooled \in Followings
    BY <2>1 DEF Followings
  <2>3. /\ cooled.state = f.state /\ cooled.corner = f.corner /\ cooled.avoid = f.avoid
        /\ cooled.told = f.told /\ cooled.history = f.history
    BY <2>1 DEF Followings
  <2> QED
    BY <2>2, <2>3 DEF Followed
<1>4. \/ g = EnterEscape([cooled EXCEPT !.history = <<>>])
      \/ g = [cooled EXCEPT !.history = window]
      \/ g = [cooled EXCEPT !.history = <<>>]
  BY DEF StuckBlock
<1> HIDE DEF cooled, window, g
<1>5. cooled \in Followings
  BY <1>3 DEF Followed
<1>6. CASE g = EnterEscape([cooled EXCEPT !.history = <<>>])
  <2>1. g = [cooled EXCEPT !.history = <<>>, !.state = "escape", !.escape = 0,
                           !.told = "escape_turn"]
    BY <1>3, <1>6 DEF EnterEscape, Followed
  <2>2. g \in Followings
    BY <1>5, <2>1, Zeroes DEF Followings, Commands, States
  <2>3. g.history = <<>> /\ g.state = "escape" /\ g.told = "escape_turn"
    BY <1>5, <2>1 DEF Followings
  <2> QED
    BY <2>2, <2>3, Zeroes DEF Followed, Decided, g
<1>7. CASE \E h \in Seq(Views) : Len(h) <= STUCK_WINDOW_TICKS /\ g = [cooled EXCEPT !.history = h]
  <2>1. PICK h \in Seq(Views) : Len(h) <= STUCK_WINDOW_TICKS /\ g = [cooled EXCEPT !.history = h]
    BY <1>7
  <2>2. g \in Followings
    BY <1>5, <2>1 DEF Followings
  <2>3. /\ g.history = h /\ g.state = f.state /\ g.told = "still" /\ g.corner = f.corner
        /\ g.avoid = f.avoid
    BY <1>3, <1>5, <2>1 DEF Followings
  <2> QED
    BY <2>1, <2>2, <2>3 DEF Followed, Undecided, g
<1> QED
  BY <1>2, <1>4, <1>6, <1>7, Zeroes

LEMMA FindBlockIs ==
  ASSUME NEW f, Followed(f), f.told = "still", f.state # "escape"
  PROVE  LET g == FindBlock(f)
         IN  /\ Followed(g)
             /\ Decided(g) \/ (g.told = "still" /\ Undecided(f, g))
<1> DEFINE g == FindBlock(f)
<1>1. \/ g = [f EXCEPT !.find = 0]
      \/ g = EnterEscape([f EXCEPT !.find = 0])
      \/ g = [f EXCEPT !.find = f.find + 1]
  BY DEF FindBlock
<1> HIDE DEF g
<1>2. CASE g = EnterEscape([f EXCEPT !.find = 0])
  <2>1. g = [f EXCEPT !.find = 0, !.state = "escape", !.escape = 0, !.told = "escape_turn"]
    BY <1>2 DEF EnterEscape, Followed
  <2>2. g \in Followings
    BY <2>1, Zeroes DEF Followed, Followings, Commands, States
  <2>3. g.state = "escape" /\ g.told = "escape_turn" /\ g.history = f.history
    BY <2>1 DEF Followed, Followings
  <2> QED
    BY <2>2, <2>3 DEF Followed, Decided, g
<1>3. CASE g = [f EXCEPT !.find = 0] \/ g = [f EXCEPT !.find = f.find + 1]
  <2>1. f.find + 1 \in Nat
    BY DEF Followed, Followings
  <2> QED
    BY <1>3, <2>1 DEF Followed, Followings, Undecided, g
<1> QED
  BY <1>1, <1>2, <1>3

(* How avoid_front, outer_corner and the tracking states are left.         *)
Goes(f, m, front) ==
  \/ /\ f.state = "avoid_front"
     /\ \/ front >= 180 /\ m.state \in {"find_wall", "follow_wall"}
        \/ front < 180 /\ m.state = "find_wall"
        \/ front < 180 /\ m.state = "avoid_front" /\ m.avoid = f.avoid + 1
  \/ /\ f.state = "outer_corner" /\ m.corner = f.corner + 1
     /\ m.state = IF f.corner + 1 >= CORNER_TICKS THEN "follow_wall" ELSE "outer_corner"
  \/ /\ f.state \in {"find_wall", "follow_wall"}
     /\ \/ front < 200 /\ m.state = "avoid_front" /\ m.avoid = 0
        \/ front >= 200 /\ m.state = "outer_corner" /\ m.corner = 0
        \/ front >= 200 /\ m.state \in {"find_wall", "follow_wall"}

LEMMA AvoidIs ==
  ASSUME NEW f, Followed(f), f.state = "avoid_front", NEW front \in Nat
  PROVE  LET m == Avoid(f, front)
         IN  Followed(m) /\ m.told = f.told /\ Goes(f, m, front)
<1> DEFINE m == Avoid(f, front)
<1>0. f \in Followings /\ f.avoid \in Nat /\ f.pre \in {"find_wall", "follow_wall"}
  BY Durations DEF Followed, Followings
<1>1. CASE front >= 180
  <2>1. m = [f EXCEPT !.state = f.pre, !.avoid_cooldown = AVOID_COOLDOWN, !.avoid = 0]
    BY <1>1 DEF Avoid
  <2> HIDE DEF m
  <2>2. m \in Followings
    BY <1>0, <2>1, Zeroes DEF Followings, States
  <2>3. m.state = f.pre /\ m.told = f.told /\ m.history = f.history
    BY <1>0, <2>1 DEF Followings
  <2> QED
    BY <1>0, <1>1, <2>2, <2>3 DEF Followed, Goes, m
<1>2. CASE ~(front >= 180) /\ f.avoid + 1 >= AVOID_FRONT_MAX_TICKS
  <2>1. m = [f EXCEPT !.state = "find_wall", !.pre = "find_wall",
               !.avoid_cooldown = AVOID_COOLDOWN, !.avoid = 0]
    BY <1>2 DEF Avoid
  <2> HIDE DEF m
  <2>2. m \in Followings
    BY <1>0, <2>1, Zeroes DEF Followings, States
  <2>3. m.state = "find_wall" /\ m.told = f.told /\ m.history = f.history
    BY <1>0, <2>1 DEF Followings
  <2>4. front < 180
    BY <1>2
  <2> QED
    BY <1>2, <2>2, <2>3, <2>4 DEF Followed, Goes, m
<1>3. CASE ~(front >= 180) /\ ~(f.avoid + 1 >= AVOID_FRONT_MAX_TICKS)
  <2>1. m = [f EXCEPT !.avoid = f.avoid + 1]
    BY <1>3 DEF Avoid
  <2>2. f.avoid + 1 \in 0..AVOID_FRONT_MAX_TICKS - 1
    BY <1>0, <1>3, Durations
  <2> HIDE DEF m
  <2>3. m \in Followings
    BY <1>0, <2>1, <2>2 DEF Followings
  <2>4. /\ m.state = "avoid_front" /\ m.told = f.told /\ m.history = f.history
        /\ m.avoid = f.avoid + 1
    BY <1>0, <2>1 DEF Followings
  <2>5. front < 180
    BY <1>3
  <2> QED
    BY <1>3, <2>3, <2>4, <2>5 DEF Followed, Goes, m
<1> QED
  BY <1>1, <1>2, <1>3

LEMMA CornerIs ==
  ASSUME NEW f, Followed(f), f.state = "outer_corner", NEW front \in Nat
  PROVE  LET m == Corner(f)
         IN  Followed(m) /\ m.told = f.told /\ Goes(f, m, front)
<1> DEFINE m == Corner(f)
           s == IF f.corner + 1 >= CORNER_TICKS THEN "follow_wall" ELSE "outer_corner"
<1>0. f \in Followings /\ f.corner \in Nat /\ f.corner < CORNER_TICKS /\ CORNER_TICKS \in Nat
  BY Durations DEF Followed, Followings
<1>1. m = [f EXCEPT !.corner = f.corner + 1, !.state = s]
  BY <1>0 DEF Corner, Followings
<1>2. f.corner + 1 \in 0..CORNER_TICKS
  BY <1>0
<1>3. s \in States /\ (s = "outer_corner" => f.corner + 1 < CORNER_TICKS)
  BY <1>0 DEF States
<1> HIDE DEF m, s
<1>4. m \in Followings
  BY <1>0, <1>1, <1>2, <1>3 DEF Followings
<1>5. m.state = s /\ m.corner = f.corner + 1 /\ m.told = f.told /\ m.history = f.history
  BY <1>0, <1>1 DEF Followings
<1> QED
  BY <1>3, <1>4, <1>5 DEF Followed, Goes, m, s

LEMMA TrackIs ==
  ASSUME NEW f, Followed(f), f.state \in {"find_wall", "follow_wall"},
         NEW front \in Nat, NEW right \in Nat
  PROVE  LET m == Track(f, front, right)
         IN  Followed(m) /\ m.told = f.told /\ Goes(f, m, front)
<1> DEFINE m == Track(f, front, right)
<1>0. f \in Followings
  BY DEF Followed
<1>1. CASE front < 200
  <2>1. m = [f EXCEPT !.pre = f.state, !.state = "avoid_front", !.avoid = 0]
    BY <1>1 DEF Track
  <2> HIDE DEF m
  <2>2. m \in Followings
    BY <1>0, <2>1, Zeroes DEF Followings, States
  <2>3. m.state = "avoid_front" /\ m.avoid = 0 /\ m.told = f.told /\ m.history = f.history
    BY <1>0, <2>1 DEF Followings
  <2> QED
    BY <1>1, <2>2, <2>3 DEF Followed, Goes, m
<1>2. CASE front >= 200 /\ f.state = "follow_wall" /\ right > WALL_LOST_DIST + 70
  <2>1. ~(front < 200)
    BY <1>2
  <2>2. m = [f EXCEPT !.state = "outer_corner", !.corner = 0]
    BY <1>2, <2>1 DEF Track
  <2> HIDE DEF m
  <2>3. m \in Followings
    BY <1>0, <2>2, Zeroes DEF Followings, States
  <2>4. m.state = "outer_corner" /\ m.corner = 0 /\ m.told = f.told /\ m.history = f.history
    BY <1>0, <2>2 DEF Followings
  <2> QED
    BY <1>2, <2>3, <2>4, Zeroes DEF Followed, Goes, m
<1>3. CASE ~(front < 200)
           /\ ~(front >= 200 /\ f.state = "follow_wall" /\ right > WALL_LOST_DIST + 70)
  <2>1. PICK s \in {"find_wall", "follow_wall"} : m = [f EXCEPT !.state = s]
    BY <1>3 DEF Track
  <2> HIDE DEF m
  <2>2. m \in Followings
    BY <1>0, <2>1 DEF Followings, States
  <2>3. m.state = s /\ m.told = f.told /\ m.history = f.history
    BY <1>0, <2>1 DEF Followings
  <2>4. front >= 200
    BY <1>3
  <2> QED
    BY <2>2, <2>3, <2>4 DEF Followed, Goes, m
<1> QED
  BY <1>1, <1>2, <1>3

LEMMA CoreIs ==
  ASSUME NEW f, Followed(f), f.state # "escape", NEW front \in Nat, NEW right \in Nat
  PROVE  LET m == Core(f, front, right)
         IN  Followed(m) /\ m.told = f.told /\ Goes(f, m, front)
<1> DEFINE moved == CASE f.state = "avoid_front"  -> Avoid(f, front)
                      [] f.state = "outer_corner" -> Corner(f)
                      [] OTHER                    -> Track(f, front, right)
           m == Core(f, front, right)
<1>1. f.state \in {"find_wall", "follow_wall", "avoid_front", "outer_corner"}
  BY DEF Followed, Followings, States
<1>2. Followed(moved) /\ moved.told = f.told /\ Goes(f, moved, front)
  <2>1. CASE f.state = "avoid_front"
    BY <2>1, AvoidIs
  <2>2. CASE f.state = "outer_corner"
    BY <2>2, CornerIs
  <2>3. CASE f.state \in {"find_wall", "follow_wall"}
    BY <2>3, TrackIs
  <2> QED
    BY <1>1, <2>1, <2>2, <2>3
<1>3. m = [moved EXCEPT !.avoid_cooldown = Less1(moved.avoid_cooldown)]
  BY DEF Core
<1> HIDE DEF moved, m
<1>4. moved \in Followings /\ Less1(moved.avoid_cooldown) \in 0..AVOID_COOLDOWN
  <2>1. moved \in Followings /\ moved.avoid_cooldown \in 0..AVOID_COOLDOWN
    BY <1>2 DEF Followed, Followings
  <2>2. AVOID_COOLDOWN \in Nat
    BY Durations
  <2> QED
    BY <2>1, <2>2 DEF Less1
<1>5. m \in Followings
  BY <1>3, <1>4 DEF Followings
<1>6. /\ m.state = moved.state /\ m.told = moved.told /\ m.history = moved.history
      /\ m.corner = moved.corner /\ m.avoid = moved.avoid
  BY <1>3, <1>4 DEF Followings
<1> QED
  BY <1>2, <1>5, <1>6 DEF Followed, Goes, m

(* A tick: an escape turn, or a move from where it was, after an escape    *)
(* from find_wall.  What is seen is never as near as the corner's abort.   *)
LEMMA ComputeIs ==
  ASSUME Followed(Fields), NEW front \in Nat, front >= 150, NEW right \in Nat
  PROVE  LET g == Compute(front, right)
         IN  /\ Followed(g)
             /\ \/ Decided(g)
                \/ \E f : /\ Followed(f) /\ Undecided(Fields, f) /\ Goes(f, g, front)
                          /\ g.told = Command(g) /\ g.state # "escape"
<1> DEFINE escaped == EscapeBlock(Fields)
           stuck == IF Told(escaped) THEN escaped ELSE StuckBlock(escaped, front, right)
           looked == IF Told(stuck) THEN stuck ELSE FindBlock(stuck)
           moved == Core(CornerAbort(looked, front), front, right)
           g == Compute(front, right)
<1>1. Fields.told = "still"
  BY DEF Fields
<1>2. /\ Followed(escaped)
      /\ Decided(escaped) \/ (escaped.told = "still" /\ Undecided(Fields, escaped))
  BY <1>1, EscapeBlockIs
<1>3. /\ Followed(stuck)
      /\ Decided(stuck) \/ (stuck.told = "still" /\ Undecided(Fields, stuck))
  <2>1. CASE Told(escaped)
    BY <1>2, <2>1 DEF Told
  <2>2. CASE ~Told(escaped)
    <3>1. escaped.told = "still" /\ Undecided(Fields, escaped) /\ escaped.state # "escape"
      BY <1>2, <2>2 DEF Told, Decided, Undecided
    <3> HIDE DEF escaped
    <3>2. /\ Followed(stuck)
          /\ Decided(stuck) \/ (stuck.told = "still" /\ Undecided(escaped, stuck))
      BY <1>2, <2>2, <3>1, StuckBlockIs
    <3> QED
      BY <3>1, <3>2 DEF Undecided
  <2> QED
    BY <2>1, <2>2
<1> HIDE DEF stuck
<1>4. /\ Followed(looked)
      /\ Decided(looked) \/ (looked.told = "still" /\ Undecided(Fields, looked))
  <2>1. CASE Told(stuck)
    BY <1>3, <2>1 DEF Told
  <2>2. CASE ~Told(stuck)
    <3>1. stuck.told = "still" /\ Undecided(Fields, stuck) /\ stuck.state # "escape"
      BY <1>3, <2>2 DEF Told, Decided, Undecided
    <3>2. /\ Followed(looked)
          /\ Decided(looked) \/ (looked.told = "still" /\ Undecided(stuck, looked))
      BY <1>3, <2>2, <3>1, FindBlockIs
    <3> QED
      BY <3>1, <3>2 DEF Undecided
  <2> QED
    BY <2>1, <2>2
<1>5. g = IF Told(looked) THEN looked ELSE [moved EXCEPT !.told = Command(moved)]
  BY DEF Compute, stuck
<1> HIDE DEF looked, g
<1>6. CASE Told(looked)
  <2>1. g = looked /\ Decided(looked)
    BY <1>4, <1>5, <1>6 DEF Told
  <2> QED
    BY <1>4, <2>1 DEF g
<1>7. CASE ~Told(looked)
  <2>1. looked.told = "still" /\ Undecided(Fields, looked) /\ looked.state # "escape"
    BY <1>4, <1>7 DEF Told, Decided, Undecided
  <2>2. CornerAbort(looked, front) = looked
    BY DEF CornerAbort
  <2>3. Followed(moved) /\ Goes(looked, moved, front)
    BY <1>4, <2>1, <2>2, CoreIs
  <2>4. g = [moved EXCEPT !.told = Command(moved)]
    BY <1>5, <1>7
  <2> HIDE DEF moved
  <2>5. moved.state \in {"find_wall", "follow_wall", "avoid_front", "outer_corner"}
    BY <2>3 DEF Goes
  <2>6. Command(moved) \in Commands
    BY <2>5 DEF Command, Commands
  <2>7. moved \in Followings
    BY <2>3 DEF Followed
  <2>8. g \in Followings
    BY <2>4, <2>6, <2>7 DEF Followings
  <2>9. /\ g.told = Command(moved) /\ g.state = moved.state /\ g.corner = moved.corner
        /\ g.avoid = moved.avoid /\ g.history = moved.history
    BY <2>4, <2>7 DEF Followings
  <2>10. Command(g) = Command(moved)
    BY <2>9 DEF Command
  <2>11. Goes(looked, g, front) /\ Followed(g) /\ g.state # "escape"
    BY <2>3, <2>5, <2>8, <2>9 DEF Goes, Followed
  <2> QED
    BY <1>4, <2>1, <2>9, <2>10, <2>11 DEF g
<1> QED
  BY <1>6, <1>7

LEMMA WallStart == WallInit => WallIInv
<1> SUFFICES ASSUME WallInit
             PROVE  WallIInv
  OBVIOUS
<1>1. Fields = [state |-> "find_wall", pre |-> "find_wall", corner |-> 0,
                avoid_cooldown |-> 0, history |-> <<>>, escape |-> 0, cooldown |-> 0,
                avoid |-> 0, find |-> 0, told |-> "still"]
  BY DEF WallInit, Fields
<1>2. 0 \in 0..AVOID_COOLDOWN /\ 0 \in 0..ESCAPE_COOLDOWN_TICKS
  BY Durations
<1>3. Fields \in Followings
  BY <1>1, <1>2, Zeroes DEF Followings, States, Commands
<1>4. Followed(Fields)
  BY <1>1, <1>3, Zeroes DEF Followed
<1>5. command \in Commands
  BY DEF WallInit, Commands
<1>6. Dashes /\ Turns
  BY Durations DEF WallInit, Dashes, Turns, SinceLimit
<1> QED
  BY <1>4, <1>5, <1>6 DEF WallIInv

(* Nothing nearer than the body filter is seen.                            *)
LEMMA SeenIsFar == ASSUME NEW a \in Nat PROVE Seen(a) \in Nat /\ Seen(a) >= 150
BY DEF Seen, BodyFilter, Nothing

LEMMA WallKept == WallIInv /\ WallNext => WallIInv'
<1> SUFFICES ASSUME WallIInv, WallNext
             PROVE  WallIInv'
  OBVIOUS
<1>1. PICK a \in Ahead, b \in Beside : FollowTick(a, b)
  BY DEF WallNext
<1>2. a \in Nat /\ b \in Nat
  BY WallAssumption DEF WallAssumption
<1> DEFINE front == Seen(a)  g == Compute(front, b)
<1>3. /\ state' = g.state /\ pre_avoid_state' = g.pre
      /\ corner_ticks' = g.corner /\ avoid_cooldown' = g.avoid_cooldown
      /\ stuck_history' = g.history /\ escape_ticks' = g.escape
      /\ escape_cooldown' = g.cooldown /\ avoid_front_ticks' = g.avoid
      /\ find_wall_ticks' = g.find /\ command' = g.told
      /\ since_escape' = IF g.state = "escape" THEN 0
                         ELSE CountUp(since_escape, SinceLimit)
      /\ pressing' = IF g.told \in Onward /\ front < 180
                     THEN CountUp(pressing, CORNER_TICKS) ELSE 0
      /\ spinning' = IF g.told = "turn_away"
                     THEN CountUp(spinning, AVOID_FRONT_MAX_TICKS + 1) ELSE 0
  BY <1>1 DEF FollowTick
<1>4. front \in Nat /\ front >= 150
  BY <1>2, SeenIsFar
<1> HIDE DEF front
<1>5. /\ Followed(g)
      /\ \/ Decided(g)
         \/ \E f : /\ Followed(f) /\ Undecided(Fields, f) /\ Goes(f, g, front)
                   /\ g.told = Command(g) /\ g.state # "escape"
  BY <1>2, <1>4, ComputeIs DEF WallIInv
<1> HIDE DEF g
<1>6. g \in Followings
  BY <1>5 DEF Followed
<1>7. command' \in Commands
  BY <1>3, <1>6 DEF Followings
<1>8. Followed(Fields)'
  <2>1. Fields' = [state |-> g.state, pre |-> g.pre, corner |-> g.corner,
           avoid_cooldown |-> g.avoid_cooldown, history |-> g.history,
           escape |-> g.escape, cooldown |-> g.cooldown,
           avoid |-> g.avoid, find |-> g.find, told |-> "still"]
    BY <1>3 DEF Fields
  <2>2. Fields' \in Followings
    BY <1>6, <2>1 DEF Followings, Commands
  <2>3. Fields'.history = g.history /\ Fields'.state = g.state /\ Fields'.corner = g.corner
    BY <2>1
  <2> QED
    BY <1>5, <2>2, <2>3 DEF Followed
<1>9. /\ corner_ticks \in Nat /\ avoid_front_ticks \in Nat /\ pressing \in Nat
      /\ spinning \in Nat /\ since_escape \in Nat /\ state \in States
  <2>1. Fields \in Followings
    BY DEF WallIInv, Followed
  <2>2. corner_ticks \in 0..CORNER_TICKS /\ avoid_front_ticks \in 0..AVOID_FRONT_MAX_TICKS - 1
        /\ state \in States
    BY <2>1 DEF Fields, Followings
  <2> QED
    BY <2>2 DEF WallIInv, Dashes, Turns
<1>10. /\ since_escape' \in Nat
       /\ pressing' \in Nat /\ (pressing' = 0 \/ pressing' = pressing \/ pressing' = pressing + 1)
       /\ spinning' \in Nat /\ (spinning' = 0 \/ spinning' <= spinning + 1)
  BY <1>3, <1>9, Durations DEF CountUp, SinceLimit
<1>11. CASE Decided(g)
  <2>1. pressing' = 0 /\ spinning' = 0 /\ state' = "escape"
    BY <1>3, <1>11 DEF Decided, Onward
  <2> QED
    BY <1>7, <1>8, <1>10, <2>1 DEF WallIInv, Dashes, Turns
<1>12. ASSUME NEW f, Followed(f), Undecided(Fields, f), Goes(f, g, front),
              g.told = Command(g), g.state # "escape"
       PROVE  Dashes' /\ Turns'
  <2> DEFINE P1 == CORNER_PHASE1_TICKS  P2 == CORNER_PHASE2_TICKS  P3 == CORNER_PHASE3_TICKS
  <2>1. /\ f.corner = corner_ticks
        /\ f.state # "escape"
        /\ f.state # state => state = "escape" /\ f.state = "find_wall"
        /\ f.state = "avoid_front" => f.avoid = avoid_front_ticks
    BY <1>12 DEF Undecided, Fields
  <2>2. g.corner \in Nat /\ g.avoid \in Nat /\ g.state \in States
    BY <1>6, Durations DEF Followings
  <2>3. /\ g.state = "avoid_front" => g.told = "turn_away"
        /\ g.state # "avoid_front" => g.told # "turn_away"
        /\ g.state = "outer_corner" /\ g.corner >= P1 /\ g.corner < P1 + P2 =>
             g.told \notin Onward
    BY <1>12, <2>2, Durations DEF Command, States, Onward
  <2>4. front >= 180 => pressing' = 0
    BY <1>3, <1>4
  <2>5. g.state = "avoid_front" => pressing' = 0
    BY <1>3, <2>3 DEF Onward
  <2>6. g.state = "outer_corner" /\ g.corner >= P1 /\ g.corner < P1 + P2 => pressing' = 0
    BY <1>3, <2>3
  <2>7. g.state # "avoid_front" => spinning' = 0
    BY <1>3, <2>3
  <2>8. CASE f.state = "avoid_front"
    <3>1. state = "avoid_front" /\ pressing = 0 /\ spinning <= avoid_front_ticks + 1
      BY <2>1, <2>8 DEF WallIInv, Dashes, Turns
    <3>2. /\ g.state \in {"find_wall", "follow_wall", "avoid_front"}
          /\ g.state = "avoid_front" => g.avoid = avoid_front_ticks + 1
      BY <1>12, <2>1, <2>8 DEF Goes
    <3> QED
      BY <1>3, <1>9, <1>10, <2>2, <2>5, <2>7, <3>1, <3>2, Durations DEF Dashes, Turns
  <2>9. CASE f.state = "outer_corner"
    <3>1. /\ state = "outer_corner"
          /\ corner_ticks < P1 => pressing <= corner_ticks
          /\ corner_ticks >= P1 /\ corner_ticks < P1 + P2 => pressing = 0
          /\ corner_ticks >= P1 + P2 => pressing <= corner_ticks - (P1 + P2) + 1
      BY <2>1, <2>9 DEF WallIInv, Dashes
    <3>2. /\ g.corner = corner_ticks + 1 /\ corner_ticks < CORNER_TICKS
          /\ g.state = IF corner_ticks + 1 >= CORNER_TICKS THEN "follow_wall" ELSE "outer_corner"
      BY <1>12, <2>1, <2>9 DEF Goes, Followed
    <3>3. CASE g.state = "follow_wall"
      <4>1. corner_ticks + 1 = P1 + P2 + P3 /\ corner_ticks >= P1 + P2
        BY <1>9, <3>2, <3>3, Durations
      <4>2. pressing' <= P3 + 1
        BY <1>9, <1>10, <3>1, <4>1, Durations
      <4> QED
        BY <1>3, <1>10, <2>7, <3>3, <4>2 DEF Dashes, Turns
    <3>4. CASE g.state = "outer_corner"
      <4>1. /\ g.corner < P1 => pressing' <= g.corner
            /\ g.corner >= P1 + P2 => pressing' <= g.corner - (P1 + P2) + 1
        <5>1. CASE g.corner < P1
          BY <1>9, <1>10, <3>1, <3>2, <5>1, Durations
        <5>2. CASE g.corner >= P1 + P2
          <6>1. CASE corner_ticks >= P1 + P2
            BY <1>9, <1>10, <3>1, <3>2, <5>2, <6>1, Durations
          <6>2. CASE ~(corner_ticks >= P1 + P2)
            <7>1. corner_ticks >= P1 /\ corner_ticks < P1 + P2
              BY <1>9, <3>2, <5>2, <6>2, Durations
            <7> QED
              BY <1>9, <1>10, <3>1, <3>2, <5>2, <7>1, Durations
          <6> QED
            BY <6>1, <6>2
        <5> QED
          BY <2>2, <5>1, <5>2, Durations
      <4> QED
        BY <1>3, <1>10, <2>6, <2>7, <3>4, <4>1 DEF Dashes, Turns
    <3> QED
      BY <3>2, <3>3, <3>4
  <2>10. CASE f.state \in {"find_wall", "follow_wall"}
    <3>1. state # "avoid_front" /\ spinning = 0
      BY <2>1, <2>10 DEF WallIInv, Turns
    <3>2. \/ g.state = "avoid_front" /\ g.avoid = 0
          \/ front >= 200 /\ g.state = "outer_corner" /\ g.corner = 0
          \/ front >= 200 /\ g.state \in {"find_wall", "follow_wall"}
      BY <1>12, <2>10 DEF Goes
    <3>3. pressing' = 0
      BY <1>4, <2>4, <2>5, <3>2
    <3> QED
      BY <1>3, <1>10, <2>2, <2>7, <3>1, <3>2, <3>3, Durations DEF Dashes, Turns
  <2> QED
    BY <1>12, <2>8, <2>9, <2>10 DEF Goes
<1> QED
  BY <1>5, <1>7, <1>8, <1>11, <1>12 DEF WallIInv

LEMMA WallStill == WallIInv /\ UNCHANGED wallVars => WallIInv'
BY DEF WallIInv, wallVars, counters, Fields, Dashes, Turns, Followed

(* What the follower keeps bounds what it does.                            *)
LEMMA WallHolds == WallIInv => WallInv
<1> SUFFICES ASSUME WallIInv
             PROVE  WallInv
  OBVIOUS
<1>0. Fields \in Followings /\ Followed(Fields)
  BY DEF WallIInv, Followed
<1>1. WallTypeOK
  <2>1. /\ state \in States /\ pre_avoid_state \in {"find_wall", "follow_wall"}
        /\ corner_ticks \in 0..CORNER_TICKS /\ avoid_cooldown \in 0..AVOID_COOLDOWN
        /\ stuck_history \in Seq([front : Nat, right : Nat])
        /\ escape_ticks \in 0..ESCAPE_TICKS - 1
        /\ escape_cooldown \in 0..ESCAPE_COOLDOWN_TICKS
        /\ avoid_front_ticks \in 0..AVOID_FRONT_MAX_TICKS - 1
        /\ find_wall_ticks \in Nat
    BY <1>0 DEF Fields, Followings, Views
  <2>2. Len(stuck_history) <= STUCK_WINDOW_TICKS
    BY <1>0 DEF Fields, Followed
  <2> QED
    BY <2>1, <2>2 DEF WallTypeOK, WallIInv
<1>2. PressingBounded
  <2>1. state \in States /\ corner_ticks \in Nat
    BY <1>1, Durations DEF WallTypeOK
  <2>2. state = "outer_corner" => corner_ticks < CORNER_TICKS
    BY <1>0 DEF Fields, Followed
  <2>3. CASE state # "outer_corner"
    BY <2>1, <2>3, Durations, DashAssumption
       DEF WallIInv, Dashes, PressingBounded, States, DashAssumption
  <2>4. CASE state = "outer_corner"
    BY <2>1, <2>2, <2>4, Durations, DashAssumption
       DEF WallIInv, Dashes, PressingBounded, DashAssumption
  <2> QED
    BY <2>3, <2>4
<1>3. SpinCapped
  <2>1. avoid_front_ticks <= AVOID_FRONT_MAX_TICKS - 1 /\ avoid_front_ticks \in Nat
    BY <1>1, Durations DEF WallTypeOK
  <2> QED
    BY <2>1, Durations DEF WallIInv, Turns, SpinCapped
<1> QED
  BY <1>1, <1>2, <1>3 DEF WallInv

(* Whatever walls it meets, for every duration of its manoeuvres, of which *)
(* the second dash of a corner is the shorter: the follower presses on     *)
(* towards a wall that it sees, which one nearer than 1.5 m is not, for no *)
(* longer than the first dash, and turns away from one for no longer than  *)
(* a circle.                                                               *)
THEOREM NeitherPressesNorSpins == WallSpec => []WallInv
<1> QED
  BY WallStart, WallKept, WallStill, WallHolds, PTL DEF WallSpec

-----------------------------------------------------------------------------
(* DepthNavigation: angles first.                                          *)
Angles == -1800..1800

LEMMA LeastOfTwo ==
  ASSUME NEW a \in Int, NEW b \in Int
  PROVE  Min({a, b}) \in {a, b} /\ Min({a, b}) <= a /\ Min({a, b}) <= b
<1>1. \E x \in {a, b} : \A y \in {a, b} : x <= y
  <2>1. CASE a <= b
    BY <2>1
  <2>2. CASE b <= a
    BY <2>2
  <2> QED
    BY <2>1, <2>2
<1> QED
  BY <1>1 DEF Min

LEMMA GreatestOfTwo ==
  ASSUME NEW a \in Int, NEW b \in Int
  PROVE  Max({a, b}) \in {a, b} /\ a <= Max({a, b}) /\ b <= Max({a, b})
<1>1. \E x \in {a, b} : \A y \in {a, b} : x >= y
  <2>1. CASE a <= b
    BY <2>1
  <2>2. CASE b <= a
    BY <2>2
  <2> QED
    BY <2>1, <2>2
<1>2. Max({a, b}) \in {a, b} /\ \A y \in {a, b} : Max({a, b}) >= y
  BY <1>1 DEF Max
<1> QED
  BY <1>2

LEMMA HeadingIs ==
  ASSUME NEW i \in 1..4
  PROVE  /\ Headings[i] \in {0, 900, 1800, -900} /\ NextHeading(i) \in 1..4
         /\ i = 1 => Headings[i] = 0 /\ Headings[NextHeading(i)] = 900
         /\ i = 2 => Headings[i] = 900 /\ Headings[NextHeading(i)] = 1800
         /\ i = 3 => Headings[i] = 1800 /\ Headings[NextHeading(i)] = -900
         /\ i = 4 => Headings[i] = -900 /\ Headings[NextHeading(i)] = 0
BY DEF Headings, NextHeading

LEMMA YawIsAngle ==
  ASSUME NEW y \in Angles, NEW d \in -60..60
  PROVE  NormalizeYaw(y + d) \in Angles
<1> DEFINE z == NormalizeYaw(y + d)
<1>1. z \in Int /\ -1800 <= z /\ z <= 1800
  BY DEF Angles, NormalizeYaw
<1> HIDE DEF z
<1>2. z \in Angles
  BY <1>1 DEF Angles
<1> QED
  BY <1>2 DEF z

(* A turn by a little changes the error by as much, over the jump too.     *)
LEMMA TurnedBy ==
  ASSUME NEW g \in Angles, NEW y \in Angles, NEW d \in -60..60,
         Magnitude(YawError(g, y)) < 1200
  PROVE  /\ NormalizeYaw(y + d) \in Angles /\ YawError(g, y) \in Int
         /\ YawError(g, NormalizeYaw(y + d)) = YawError(g, y) - d
<1> DEFINE r == g - y  z == NormalizeYaw(y + d)
<1>0. g \in Int /\ y \in Int /\ d \in Int /\ -1800 <= g /\ g <= 1800 /\ -1800 <= y
      /\ y <= 1800 /\ -60 <= d /\ d <= 60
  BY DEF Angles
<1>1. \/ z = y + d /\ -1800 <= y + d /\ y + d <= 1800
      \/ z = y + d - 3600 /\ y + d > 1800
      \/ z = y + d + 3600 /\ y + d < -1800
  BY <1>0 DEF NormalizeYaw
<1>2. \/ YawError(g, y) = r /\ -1200 < r /\ r < 1200
      \/ YawError(g, y) = r - 3600 /\ 2400 < r
      \/ YawError(g, y) = r + 3600 /\ r < -2400
  BY <1>0 DEF YawError, NormalizeYaw, Magnitude
<1>3. z \in Int /\ z \in Angles
  <2>1. z \in Int /\ -1800 <= z /\ z <= 1800
    BY <1>0, <1>1
  <2> HIDE DEF z
  <2> QED
    BY <2>1 DEF Angles
<1>4. YawError(g, z) = IF g - z > 1800 THEN g - z - 3600
                       ELSE IF g - z < -1800 THEN g - z + 3600 ELSE g - z
  BY <1>0, <1>3 DEF YawError, NormalizeYaw
<1> HIDE DEF z
<1>5. YawError(g, z) = YawError(g, y) - d
  BY <1>0, <1>1, <1>2, <1>3, <1>4
<1>6. YawError(g, y) \in Int
  BY <1>0, <1>2
<1> QED
  BY <1>3, <1>5, <1>6 DEF z

LEMMA ErrorIsAngle ==
  ASSUME NEW g \in Angles, NEW y \in Angles
  PROVE  YawError(g, y) \in Angles
BY DEF Angles, YawError, NormalizeYaw

(* The next heading is a quarter away.                                     *)
LEMMA QuarterAway ==
  ASSUME NEW i \in 1..4, NEW y \in Angles, Magnitude(YawError(Headings[i], y)) < 300
  PROVE  Magnitude(YawError(Headings[NextHeading(i)], y)) < 1200
<1>1. i \in {1, 2, 3, 4}
  OBVIOUS
<1> QED
  BY <1>1, HeadingIs DEF Angles, Magnitude, YawError, NormalizeYaw

LEMMA ApartIsError ==
  ASSUME NEW g \in Angles, NEW y \in Angles, Magnitude(YawError(g, y)) < 1200
  PROVE  AngleApart(g, y) < 1200
<1> DEFINE m == Magnitude(g - y)
<1>1. m \in Int /\ 3600 - m \in Int /\ (m < 1200 \/ 3600 - m < 1200)
  BY DEF Angles, Magnitude, YawError, NormalizeYaw
<1>2. AngleApart(g, y) = Min({m, 3600 - m})
  BY DEF AngleApart
<1> HIDE DEF m
<1> DEFINE n == 3600 - m
<1>3. m \in Int /\ n \in Int /\ (m < 1200 \/ n < 1200)
  BY <1>1
<1> HIDE DEF n
<1>4. Min({m, n}) \in {m, n} /\ Min({m, n}) <= m /\ Min({m, n}) <= n
  BY <1>3, LeastOfTwo
<1>5. Min({m, n}) \in Int
  BY <1>3, <1>4
<1>6. Min({m, n}) < 1200
  BY <1>3, <1>4, <1>5
<1> QED
  BY <1>2, <1>6 DEF n

LEMMA Clamped ==
  ASSUME NEW lo \in Int, NEW hi \in Int, lo <= hi, NEW x \in Int
  PROVE  LET c == Max({lo, Min({hi, x})})
         IN  /\ c \in Int /\ lo <= c /\ c <= hi
             /\ c < x => c = hi
             /\ x < c => c = lo
<1> DEFINE m == Min({hi, x})  c == Max({lo, m})
<1>1. m \in {hi, x} /\ m <= hi /\ m <= x
  BY LeastOfTwo
<1>2. m \in Int
  BY <1>1
<1> HIDE DEF m
<1>3. c \in {lo, m} /\ lo <= c /\ m <= c
  BY <1>2, GreatestOfTwo
<1> HIDE DEF c
<1>4. c \in Int /\ lo <= c /\ c <= hi /\ (c < x => c = hi) /\ (x < c => c = lo)
  BY <1>1, <1>2, <1>3
<1> QED
  BY <1>4 DEF m, c

(* The step is a little.                                                   *)
Wanted(e, prev) == (8 * e + 20 * (e - prev)) \div 100
LEMMA OutputIsLittle ==
  ASSUME NEW e \in Int, NEW prev \in Int
  PROVE  /\ Output(e, prev) \in -60..60
         /\ Output(e, prev) < Wanted(e, prev) => Output(e, prev) = 60
         /\ Wanted(e, prev) < Output(e, prev) => Output(e, prev) = -60
<1> DEFINE x == Wanted(e, prev)
           o == Output(e, prev)
<1>1. x \in Int
  BY DEF Wanted
<1>2. o = Max({-60, Min({60, x})})
  BY DEF Output, Wanted
<1> HIDE DEF x, o
<1>3. o \in Int /\ -60 <= o /\ o <= 60 /\ (o < x => o = 60) /\ (x < o => o = -60)
  <2>1. \A lo, hi \in Int : lo <= hi =>
          LET c == Max({lo, Min({hi, x})})
          IN  c \in Int /\ lo <= c /\ c <= hi /\ (c < x => c = hi) /\ (x < c => c = lo)
    BY <1>1, Clamped
  <2>2. -60 \in Int /\ 60 \in Int /\ -60 <= 60
    OBVIOUS
  <2> QED
    BY <1>2, <2>1, <2>2
<1>4. o \in -60..60
  BY <1>3
<1> QED
  BY <1>3, <1>4 DEF x, o

(* It is towards the target, and never back by much.                       *)
LEMMA OutputIs ==
  ASSUME NEW e \in Int, -1199 <= e, e <= 1199, NEW prev \in Int,
         prev = 0 \/ (prev - e <= 60 /\ e - prev <= 60)
  PROVE  -1199 <= e - Output(e, prev) /\ e - Output(e, prev) <= 1199
<1> DEFINE x == Wanted(e, prev)
           o == Output(e, prev)
<1>1. x \in Int
  BY DEF Wanted
<1>2. /\ e >= 150 => x >= 0
      /\ e >= 0 => x >= -12
      /\ e < 0 => x <= 12
      /\ e <= -150 => x <= 0
  BY DEF Wanted
<1>3. o \in -60..60 /\ (o < x => o = 60) /\ (x < o => o = -60)
  <2>1. e \in Int
    OBVIOUS
  <2> QED
    BY <2>1, OutputIsLittle
<1> HIDE DEF x, o
<1>4. o \in Int /\ -60 <= o /\ o <= 60 /\ (o < x => o = 60) /\ (x < o => o = -60)
  BY <1>3
<1>5. e \in Int /\ -1199 <= e /\ e <= 1199
  OBVIOUS
<1>6. -1199 <= e - o /\ e - o <= 1199
  BY <1>1, <1>2, <1>4, <1>5
<1> QED
  BY <1>6 DEF o

-----------------------------------------------------------------------------
Programs == {"takeoff", "rotate", "plan", "send", "finally", "gone", "await", "hold",
             "cleanup"}
Sights == Frames \cup {NoFrame}
Navigated ==
  /\ pilot \in [pc : Programs, by : {"none", "position", "velocity", "hold"}, idx : 1..4,
                next : {"plan", "send"}, trying : BOOLEAN, seen : Sights, active : BOOLEAN]
  /\ turn \in [goal : Angles, prev : Int]
  /\ hasFrame \in BOOLEAN
  /\ craft \in [yaw : Angles, told : {"nothing", "still", "land"} \cup Sides,
                gusts : 0..MaxGusts]
  /\ smooth \in [ahead : 0..10, right : -10..10, streak : -3..3, planned : 0..2]

(* How far it is from the heading that it looks along, and how far a turn  *)
(* has come.                                                               *)
Error(i) == Magnitude(YawError(Headings[i], craft.yaw))
Little(d) == -60 <= d /\ d <= 60
Aims ==
  /\ pilot.pc \in {"plan", "send"} => Error(pilot.idx) <= 50 + 60 * craft.gusts
  /\ pilot.pc = "takeoff" => pilot.idx = 1
  /\ pilot.pc = "rotate" => turn.goal = Headings[pilot.idx]
  /\ pilot.pc = "rotate" /\ pilot.trying = TRUE =>
       /\ Error(pilot.idx) < 1200
       /\ turn.prev = 0 \/ Little(turn.prev - YawError(turn.goal, craft.yaw))

(* What a row of sidesteps has left of the velocities before it.           *)
Remembers ==
  /\ smooth.streak >= 1 => smooth.ahead <= 6 /\ smooth.right >= -2
  /\ smooth.streak >= 2 => smooth.ahead <= 3 /\ smooth.right >= 2
  /\ smooth.streak >= 3 => smooth.ahead <= 1 /\ smooth.right >= 5
  /\ smooth.streak <= -1 => smooth.ahead <= 6 /\ smooth.right <= 2
  /\ smooth.streak <= -2 => smooth.ahead <= 3 /\ smooth.right <= -2
  /\ smooth.streak <= -3 => smooth.ahead <= 1 /\ smooth.right <= -5

(* The frame that it will go by was not blocked, and ends the row.         *)
EndsTheRow(f) ==
  /\ smooth.streak >= 1 => Emergency(f) /\ Sidestep(f) = "right"
  /\ smooth.streak <= -1 => Emergency(f) /\ Sidestep(f) = "left"
Carries ==
  /\ pilot.pc = "takeoff" => pilot.next = "plan"
  /\ pilot.pc = "rotate" /\ pilot.trying = FALSE => pilot.next = "plan"
  /\ pilot.pc = "send" \/ (pilot.pc = "rotate" /\ pilot.next = "send") =>
       /\ pilot.seen \in Frames /\ ~Blocked(pilot.seen)
       /\ pilot.by = "velocity" => EndsTheRow(pilot.seen)

(* What it was told where it may stop.                                     *)
Rests ==
  /\ pilot.pc \in {"plan", "send"} => pilot.trying = TRUE
  /\ pilot.pc = "takeoff" => pilot.trying = FALSE /\ craft.told = "nothing"
  /\ pilot.pc = "rotate" /\ pilot.trying = FALSE => craft.told = "still"
  /\ pilot.pc \in {"await", "hold", "cleanup"} => craft.told = "still"
  /\ pilot.pc = "cleanup" => pilot.active = FALSE
  /\ pilot.pc = "gone" => craft.told \in {"nothing", "still"}

DepthInv == Navigated /\ Aims /\ Carries /\ Rests /\ Remembers

LEMMA DepthStart == DepthInit => DepthInv
<1> SUFFICES ASSUME DepthInit
             PROVE  DepthInv
  OBVIOUS
<1>1. Navigated
  <2>1. 0 \in Angles /\ 0 \in 0..MaxGusts /\ 1 \in 1..4 /\ 0 \in Int
    BY DepthAssumption DEF DepthAssumption, Angles
  <2>2. smooth \in [ahead : 0..10, right : -10..10, streak : -3..3, planned : 0..2]
    BY DEF DepthInit, Unplanned
  <2> QED
    BY <2>1, <2>2 DEF DepthInit, Navigated, Programs, Sights
<1> QED
  BY <1>1 DEF DepthInit, Unplanned, DepthInv, Aims, Carries, Rests, Remembers

(* A program that is left forgets its plan.                                *)
LEMMA ForgetKept ==
  ASSUME Navigated, NEW q \in {"finally", "gone"}, LeaveFor(q),
         q = "gone" => craft.told \in {"nothing", "still"}
  PROVE  DepthInv'
<1>1. /\ pilot' = [pilot EXCEPT !.pc = q, !.seen = NoFrame, !.next = "plan"]
      /\ turn' = [goal |-> 0, prev |-> 0] /\ smooth' = Unplanned
      /\ hasFrame' = hasFrame /\ craft' = craft
  BY DEF LeaveFor
<1>2. pilot'.pc = q /\ smooth'.streak = 0
  BY <1>1 DEF Navigated, Unplanned
<1>3. Navigated'
  <2>1. 0 \in Angles /\ 0 \in Int /\ q \in Programs /\ NoFrame \in Sights
    BY DEF Angles, Programs, Sights
  <2>2. smooth' \in [ahead : 0..10, right : -10..10, streak : -3..3, planned : 0..2]
    BY <1>1 DEF Unplanned
  <2> QED
    BY <1>1, <2>1, <2>2 DEF Navigated
<1> QED
  BY <1>1, <1>2, <1>3 DEF DepthInv, Aims, Carries, Rests, Remembers

(* What a frame asks for.                                                  *)
LEMMA AskedIs ==
  ASSUME NEW f \in Frames
  PROVE  /\ Asked(f).ahead \in 0..10 /\ Asked(f).right \in -10..10
         /\ Emergency(f) => /\ Asked(f).ahead = 0
                            /\ Sidestep(f) = "right" => Asked(f).right = 10
                            /\ Sidestep(f) # "right" => Asked(f).right = -10
<1> DEFINE d == f["center"]
<1>1. d \in Nat
  <2>1. f["center"] \in Ranges
    BY DEF Frames, Sides
  <2>2. Ranges \subseteq Nat
    BY DepthAssumption DEF DepthAssumption
  <2> QED
    BY <2>1, <2>2
<1> DEFINE v == Speed(d)
<1>2. v \in Int /\ 0 <= v /\ v <= 10
  <2> HIDE DEF d
  <2> QED
    BY <1>1 DEF Speed, SAFE, CRITICAL, Full
<1>3. CASE Emergency(f)
  BY <1>3 DEF Asked, Full, Sidestep
<1>4. CASE ~Emergency(f)
  <2> DEFINE b == Bearing[Direction(f)]
  <2>1. Asked(f) = [ahead |-> (v * b.ahead) \div 10, right |-> (v * b.right) \div 10]
    BY <1>4 DEF Asked, Full
  <2>2. b \in {[ahead |-> 8, right |-> -6], [ahead |-> 10, right |-> -2],
               [ahead |-> 10, right |-> 3]}
    <3>1. Direction(f) \in {"left", "center", "right"}
      BY DEF Direction
    <3> QED
      BY <3>1 DEF Bearing
  <2> HIDE DEF v, b
  <2>3. \/ b.ahead = 8 /\ b.right = -6
        \/ b.ahead = 10 /\ b.right = -2
        \/ b.ahead = 10 /\ b.right = 3
    BY <2>2
  <2>4. Asked(f).ahead = (v * b.ahead) \div 10 /\ Asked(f).right = (v * b.right) \div 10
    BY <2>1
  <2>5. /\ (v * b.ahead) \div 10 \in Int /\ 0 <= (v * b.ahead) \div 10
        /\ (v * b.ahead) \div 10 <= 10
        /\ (v * b.right) \div 10 \in Int /\ -10 <= (v * b.right) \div 10
        /\ (v * b.right) \div 10 <= 10
    BY <1>2, <2>3
  <2> QED
    BY <1>4, <2>4, <2>5
<1> QED
  BY <1>3, <1>4

(* A plan smoothes its frame in; a row of sidesteps that it ends has pulled *)
(* the velocity over by so much.                                           *)
LEMMA SmoothKept ==
  ASSUME Navigated, Remembers, NEW f \in Frames, SmoothIn(f)
  PROVE  /\ smooth' \in [ahead : 0..10, right : -10..10, streak : -3..3, planned : 0..2]
         /\ Remembers' /\ (pilot.by = "velocity" => EndsTheRow(f)')
<1> DEFINE a == Asked(f).ahead  w == Asked(f).right
           x == LowPass(smooth.ahead, a)  y == LowPass(smooth.right, w)
           k == smooth.streak  n == Streak(f)
<1>1. /\ a \in Int /\ 0 <= a /\ a <= 10 /\ w \in Int /\ -10 <= w /\ w <= 10
      /\ Emergency(f) => /\ a = 0
                         /\ Sidestep(f) = "right" => w = 10
                         /\ Sidestep(f) # "right" => w = -10
  <2> HIDE DEF a, w
  <2>1. /\ a \in 0..10 /\ w \in -10..10
        /\ Emergency(f) => /\ a = 0
                           /\ Sidestep(f) = "right" => w = 10
                           /\ Sidestep(f) # "right" => w = -10
    BY AskedIs DEF a, w
  <2> QED
    BY <2>1
<1>2. /\ smooth.ahead \in Int /\ 0 <= smooth.ahead /\ smooth.ahead <= 10
      /\ smooth.right \in Int /\ -10 <= smooth.right /\ smooth.right <= 10
      /\ k \in Int /\ -3 <= k /\ k <= 3 /\ smooth.planned \in 0..2
  BY DEF Navigated
<1>3. CASE pilot.by # "velocity"
  <2>1. smooth' = [smooth EXCEPT !.planned = Min({2, smooth.planned + 1})]
    BY <1>3 DEF SmoothIn, Navigated
  <2>2. Min({2, smooth.planned + 1}) \in 0..2
    <3> DEFINE c == smooth.planned + 1  z == Min({2, c})
    <3>1. c \in Int /\ 1 <= c
      BY <1>2
    <3> HIDE DEF c
    <3>2. z \in {2, c} /\ z <= 2
      BY <3>1, LeastOfTwo
    <3> HIDE DEF z
    <3>3. z \in 0..2
      BY <3>1, <3>2
    <3> QED
      BY <3>3 DEF c, z
  <2> HIDE DEF a, w
  <2>3. smooth' \in [ahead : 0..10, right : -10..10, streak : -3..3, planned : 0..2]
    BY <2>1, <2>2 DEF Navigated
  <2>4. smooth'.ahead = smooth.ahead /\ smooth'.right = smooth.right /\ smooth'.streak = k
    BY <2>1 DEF Navigated
  <2>5. Remembers'
    BY <2>4 DEF Remembers
  <2> QED
    BY <1>3, <2>3, <2>5
<1>4. CASE pilot.by = "velocity"
  <2>1. smooth' = [[[smooth EXCEPT !.ahead = x] EXCEPT !.right = y] EXCEPT !.streak = n]
    BY <1>4 DEF SmoothIn, Navigated
  <2>2. n = IF ~Emergency(f) THEN 0
            ELSE IF Sidestep(f) = "right" THEN (IF k < 0 THEN 1 ELSE Min({3, k + 1}))
            ELSE IF k > 0 THEN -1 ELSE Max({-3, k - 1})
    BY DEF Streak
  <2>3. /\ Min({3, k + 1}) \in {3, k + 1} /\ Min({3, k + 1}) <= 3 /\ Min({3, k + 1}) <= k + 1
        /\ Max({-3, k - 1}) \in {-3, k - 1} /\ -3 <= Max({-3, k - 1}) /\ k - 1 <= Max({-3, k - 1})
    <3> DEFINE u == k + 1  l == k - 1  three == -3
    <3>1. u \in Int /\ l \in Int /\ three \in Int /\ 3 \in Int
      BY <1>2
    <3> HIDE DEF u, l, three
    <3>2. Min({3, u}) \in {3, u} /\ Min({3, u}) <= 3 /\ Min({3, u}) <= u
      BY <3>1, LeastOfTwo
    <3>3. Max({three, l}) \in {three, l} /\ three <= Max({three, l}) /\ l <= Max({three, l})
      BY <3>1, GreatestOfTwo
    <3> QED
      BY <3>2, <3>3 DEF u, l, three
  <2> DEFINE hi == Min({3, k + 1})  lo == Max({-3, k - 1})
  <2>4. /\ x = (6 * smooth.ahead + 4 * a) \div 10 /\ y = (6 * smooth.right + 4 * w) \div 10
    BY DEF LowPass
  <2> HIDE DEF a, w, x, y, n, hi, lo
  <2>5. /\ n \in Int /\ -3 <= n /\ n <= 3
        /\ n > 0 => Emergency(f) /\ Sidestep(f) = "right" /\ (n = 1 \/ n - 1 <= k)
        /\ n < 0 => Emergency(f) /\ Sidestep(f) # "right" /\ (n = -1 \/ k <= n + 1)
    <3>1. /\ hi \in {3, k + 1} /\ hi <= 3 /\ hi <= k + 1 /\ lo \in {-3, k - 1}
          /\ -3 <= lo /\ k - 1 <= lo
      BY <2>3 DEF hi, lo
    <3>2. n = IF ~Emergency(f) THEN 0
              ELSE IF Sidestep(f) = "right" THEN (IF k < 0 THEN 1 ELSE hi)
              ELSE IF k > 0 THEN -1 ELSE lo
      BY <2>2 DEF hi, lo
    <3> HIDE DEF k
    <3> QED
      BY <1>2, <3>1, <3>2
  <2>6. /\ x \in Int /\ 0 <= x /\ x <= 10 /\ y \in Int /\ -10 <= y /\ y <= 10
    BY <1>1, <1>2, <2>4
  <2>7. smooth'.ahead = x /\ smooth'.right = y /\ smooth'.streak = n
    BY <2>1 DEF Navigated
  <2>8. smooth' \in [ahead : 0..10, right : -10..10, streak : -3..3, planned : 0..2]
    <3>1. x \in 0..10 /\ y \in -10..10 /\ n \in -3..3
      BY <2>5, <2>6
    <3> QED
      BY <2>1, <3>1 DEF Navigated
  <2>9. n > 0 => /\ x <= 6 /\ y >= -2
                 /\ n >= 2 => x <= 3 /\ y >= 2
                 /\ n >= 3 => x <= 1 /\ y >= 5
    <3> SUFFICES ASSUME n > 0
                 PROVE  /\ x <= 6 /\ y >= -2
                        /\ n >= 2 => x <= 3 /\ y >= 2
                        /\ n >= 3 => x <= 1 /\ y >= 5
      OBVIOUS
    <3>1. a = 0 /\ w = 10 /\ (n = 1 \/ n - 1 <= k)
      BY <1>1, <2>5
    <3>2. /\ n >= 2 => smooth.ahead <= 6 /\ smooth.right >= -2
          /\ n >= 3 => smooth.ahead <= 3 /\ smooth.right >= 2
      BY <1>2, <2>5, <3>1 DEF Remembers
    <3> QED
      BY <1>2, <2>4, <2>5, <3>1, <3>2
  <2>10. n < 0 => /\ x <= 6 /\ y <= 2
                  /\ n <= -2 => x <= 3 /\ y <= -2
                  /\ n <= -3 => x <= 1 /\ y <= -5
    <3> SUFFICES ASSUME n < 0
                 PROVE  /\ x <= 6 /\ y <= 2
                        /\ n <= -2 => x <= 3 /\ y <= -2
                        /\ n <= -3 => x <= 1 /\ y <= -5
      OBVIOUS
    <3>1. a = 0 /\ w = -10 /\ (n = -1 \/ k <= n + 1)
      BY <1>1, <2>5
    <3>2. /\ n <= -2 => smooth.ahead <= 6 /\ smooth.right <= 2
          /\ n <= -3 => smooth.ahead <= 3 /\ smooth.right <= -2
      BY <1>2, <2>5, <3>1 DEF Remembers
    <3> QED
      BY <1>2, <2>4, <2>5, <3>1, <3>2
  <2>11. Remembers'
    BY <2>5, <2>7, <2>9, <2>10 DEF Remembers
  <2>12. EndsTheRow(f)'
    <3>1. Sidestep(f) \in {"left", "right"}
      BY DEF Sidestep
    <3> QED
      BY <2>5, <2>7, <3>1 DEF EndsTheRow, Emergency, Sidestep
  <2> QED
    BY <2>8, <2>11, <2>12
<1> QED
  BY <1>3, <1>4

(* The parts of a state.                                                   *)
LEMMA NavigatedIs ==
  ASSUME Navigated
  PROVE  /\ pilot.pc \in Programs /\ pilot.idx \in 1..4 /\ pilot.next \in {"plan", "send"}
         /\ pilot.seen \in Sights /\ turn.goal \in Angles /\ turn.prev \in Int
         /\ craft.yaw \in Angles /\ craft.gusts \in 0..MaxGusts /\ craft.gusts \in Nat
         /\ craft.gusts <= 4 /\ Headings[pilot.idx] \in Angles
         /\ Headings[NextHeading(pilot.idx)] \in Angles
<1>1. /\ pilot.pc \in Programs /\ pilot.idx \in 1..4 /\ pilot.next \in {"plan", "send"}
      /\ pilot.seen \in Sights /\ turn.goal \in Angles /\ turn.prev \in Int
      /\ craft.yaw \in Angles /\ craft.gusts \in 0..MaxGusts
  BY DEF Navigated
<1>2. craft.gusts \in Nat /\ craft.gusts <= 4
  BY <1>1, DepthAssumption DEF DepthAssumption
<1>3. Headings[pilot.idx] \in Angles /\ Headings[NextHeading(pilot.idx)] \in Angles
  <2>1. {0, 900, 1800, -900} \subseteq Angles
    BY DEF Angles
  <2>2. \A i \in 1..4 : Headings[i] \in {0, 900, 1800, -900} /\ NextHeading(i) \in 1..4
    BY HeadingIs
  <2>3. pilot.idx \in 1..4 /\ NextHeading(pilot.idx) \in 1..4
    BY <1>1, <2>2
  <2> QED
    BY <2>1, <2>2, <2>3
<1> QED
  BY <1>1, <1>2, <1>3

(* A turn comes nearer, or is over with its heading at most 2 degrees off. *)
LEMMA TurnKept ==
  DepthInv /\ RotateToYaw => DepthInv'
<1> SUFFICES ASSUME DepthInv, RotateToYaw
             PROVE  DepthInv'
  OBVIOUS
<1> DEFINE e == YawError(turn.goal, craft.yaw)
<1>0. Navigated /\ pilot.pc = "rotate" /\ turn.goal = Headings[pilot.idx]
      /\ hasFrame' = hasFrame /\ smooth' = smooth /\ Remembers
  BY DEF DepthInv, RotateToYaw, Aims
<1>1. /\ pilot.idx \in 1..4 /\ pilot.next \in {"plan", "send"}
      /\ turn.goal \in Angles /\ turn.prev \in Int /\ craft.yaw \in Angles
      /\ craft.gusts \in Nat
  BY <1>0, NavigatedIs
<1>2. e \in Angles /\ e \in Int
  <2>1. e \in Angles
    BY <1>1, ErrorIsAngle
  <2> HIDE DEF e
  <2> QED
    BY <2>1 DEF Angles
<1>3. CASE Magnitude(e) < TOLERANCE
  <2>1. /\ pilot' = [pilot EXCEPT !.pc = pilot.next, !.trying = TRUE]
        /\ craft' = [[craft EXCEPT !.told = "still"] EXCEPT !.gusts = 0]
        /\ turn' = [turn EXCEPT !.prev = 0]
    BY <1>0, <1>3 DEF RotateToYaw, Navigated
  <2>2. /\ pilot'.pc = pilot.next /\ pilot'.trying = TRUE /\ pilot'.idx = pilot.idx
        /\ pilot'.next = pilot.next /\ pilot'.seen = pilot.seen /\ pilot'.by = pilot.by
        /\ craft'.yaw = craft.yaw /\ craft'.gusts = 0 /\ craft'.told = "still"
    BY <1>0, <2>1 DEF Navigated
  <2>3. Navigated'
    <3>1. pilot.next \in Programs /\ TRUE \in BOOLEAN
      BY <1>1 DEF Programs
    <3>2. pilot' \in [pc : Programs, by : {"none", "position", "velocity", "hold"}, idx : 1..4,
                      next : {"plan", "send"}, trying : BOOLEAN, seen : Sights,
                      active : BOOLEAN]
      BY <1>0, <2>1, <3>1 DEF Navigated
    <3>3. turn' \in [goal : Angles, prev : Int] /\ 0 \in 0..MaxGusts
      BY <1>0, <2>1, DepthAssumption DEF Navigated, DepthAssumption
    <3> QED
      BY <1>0, <2>1, <3>2, <3>3 DEF Navigated
  <2>4. Error(pilot.idx)' <= 50 + 60 * craft'.gusts
    <3>1. Error(pilot.idx)' < 20
      BY <1>0, <1>3, <2>2 DEF Error, TOLERANCE
    <3>2. Error(pilot.idx)' \in Int
      BY <1>0, <1>2, <2>2 DEF Error, Magnitude
    <3> QED
      BY <1>1, <2>2, <3>1, <3>2
  <2>5. Aims'
    BY <1>1, <2>2, <2>4 DEF Aims
  <2>6. Carries'
    BY <1>0, <1>1, <2>2 DEF DepthInv, Carries, EndsTheRow
  <2>7. Rests' /\ Remembers'
    BY <1>0, <1>1, <2>2 DEF Rests, Remembers
  <2> QED
    BY <2>3, <2>5, <2>6, <2>7 DEF DepthInv
<1>4. CASE ~(Magnitude(e) < TOLERANCE)
  <2> DEFINE o == Output(e, turn.prev)
  <2>1. /\ craft' = [[craft EXCEPT !.told = "still"] EXCEPT !.yaw = NormalizeYaw(craft.yaw + o)]
        /\ turn' = [turn EXCEPT !.prev = e] /\ pilot' = pilot
    BY <1>0, <1>4 DEF RotateToYaw, Navigated
  <2>2. o \in -60..60
    BY <1>1, <1>2, OutputIsLittle
  <2>3. NormalizeYaw(craft.yaw + o) \in Angles
    BY <1>1, <2>2, YawIsAngle
  <2> HIDE DEF o
  <2>4. /\ pilot' = pilot /\ craft'.gusts = craft.gusts /\ craft'.told = "still"
        /\ craft'.yaw = NormalizeYaw(craft.yaw + o) /\ turn'.goal = turn.goal /\ turn'.prev = e
    BY <1>0, <2>1 DEF Navigated
  <2>5. Navigated'
    BY <1>0, <1>2, <2>1, <2>3 DEF Navigated
  <2>6. ASSUME pilot.trying = TRUE
        PROVE  Error(pilot.idx)' < 1200 /\ Little(e - YawError(turn.goal, craft'.yaw))
    <3>1. Magnitude(e) < 1200 /\ (turn.prev = 0 \/ Little(turn.prev - e))
      BY <1>0, <2>6 DEF DepthInv, Aims, Error
    <3>2. YawError(turn.goal, craft'.yaw) = e - o
      BY <1>1, <2>2, <2>4, <3>1, TurnedBy
    <3>3. o = Output(e, turn.prev) /\ turn.prev \in Int
      BY <1>1 DEF o
    <3> HIDE DEF e
    <3>4. -1199 <= e /\ e <= 1199
      BY <1>2, <3>1 DEF Magnitude
    <3>5. -1199 <= e - o /\ e - o <= 1199
      <4>1. turn.prev = 0 \/ (turn.prev - e <= 60 /\ e - turn.prev <= 60)
        BY <1>2, <3>1, <3>3 DEF Little
      <4> QED
        BY <1>2, <3>3, <3>4, <4>1, OutputIs
    <3>6. o \in Int /\ -60 <= o /\ o <= 60
      BY <2>2
    <3>7. Magnitude(e - o) < 1200
      BY <1>2, <3>5, <3>6 DEF Magnitude
    <3>8. Error(pilot.idx)' < 1200
      BY <1>0, <2>4, <3>2, <3>7 DEF Error, e
    <3>9. Little(e - (e - o))
      BY <1>2, <3>6 DEF Little
    <3> QED
      BY <3>2, <3>8, <3>9
  <2>7. Aims'
    BY <1>0, <2>4, <2>6 DEF Aims, Error
  <2>8. Carries' /\ Rests' /\ Remembers'
    BY <1>0, <2>4 DEF DepthInv, Carries, EndsTheRow, Rests, Remembers
  <2> QED
    BY <2>5, <2>7, <2>8 DEF DepthInv
<1> QED
  BY <1>3, <1>4

(* Before the first turn.                                                  *)
LEMMA TakeoffKept == DepthInv /\ (ArmAndTakeoff \/ HoldTakeoff) => DepthInv'
<1> SUFFICES ASSUME DepthInv, ArmAndTakeoff \/ HoldTakeoff
             PROVE  DepthInv'
  OBVIOUS
<1>0. /\ Navigated /\ pilot.pc = "takeoff" /\ pilot.idx = 1 /\ pilot.trying = FALSE
      /\ hasFrame' = hasFrame /\ smooth' = smooth /\ Remembers
  BY DEF DepthInv, Aims, Rests, ArmAndTakeoff, HoldTakeoff
<1>1. CASE ArmAndTakeoff
  <2>1. PICK by \in {"position", "velocity"}, y \in FirstYaws :
          /\ pilot' = [pilot EXCEPT !.pc = "rotate", !.by = by, !.next = "plan"]
          /\ turn' = [goal |-> Headings[1], prev |-> 0]
          /\ craft' = [craft EXCEPT !.yaw = y, !.told = "still"]
    BY <1>1 DEF ArmAndTakeoff
  <2>2. y \in Angles /\ Headings[1] \in Angles /\ 0 \in Int
    BY DepthAssumption, HeadingIs DEF DepthAssumption, Angles
  <2>3. /\ pilot'.pc = "rotate" /\ pilot'.next = "plan" /\ pilot'.trying = FALSE
        /\ pilot'.idx = 1 /\ turn'.goal = Headings[1] /\ craft'.told = "still"
    BY <1>0, <2>1 DEF Navigated
  <2>4. Navigated'
    BY <1>0, <2>1, <2>2 DEF Navigated, Programs
  <2> QED
    BY <1>0, <2>3, <2>4 DEF DepthInv, Aims, Carries, Rests, Remembers
<1>2. CASE HoldTakeoff
  <2>1. /\ pilot' = [pilot EXCEPT !.pc = "await", !.by = "hold", !.active = TRUE]
        /\ craft' = [craft EXCEPT !.told = "still"] /\ turn' = turn
    BY <1>2 DEF HoldTakeoff
  <2>2. pilot'.pc = "await" /\ craft'.told = "still"
    BY <1>0, <2>1 DEF Navigated
  <2>3. Navigated'
    BY <1>0, <2>1 DEF Navigated, Programs
  <2> QED
    BY <1>0, <2>2, <2>3 DEF DepthInv, Aims, Carries, Rests, Remembers
<1> QED
  BY <1>1, <1>2

(* A blocked vehicle is less than 30 degrees off, and turns by a quarter; a  *)
(* free one keeps the frame that it found free.                            *)
LEMMA PlanKept == DepthInv /\ (PlanRaises \/ PlanBlocked \/ PlanGoes) => DepthInv'
<1> SUFFICES ASSUME DepthInv, PlanRaises \/ PlanBlocked \/ PlanGoes
             PROVE  DepthInv'
  OBVIOUS
<1>0. /\ Navigated /\ pilot.pc = "plan" /\ pilot.trying = TRUE /\ hasFrame' = hasFrame
      /\ Error(pilot.idx) <= 50 + 60 * craft.gusts /\ Remembers
  BY DEF DepthInv, Aims, Rests, LeaveFor, PlanRaises, PlanBlocked, PlanGoes
<1>1. /\ pilot.idx \in 1..4 /\ craft.gusts \in Nat /\ craft.gusts <= 4 /\ craft.yaw \in Angles
      /\ Headings[pilot.idx] \in Angles /\ Headings[NextHeading(pilot.idx)] \in Angles
  BY <1>0, NavigatedIs
<1>2. YawError(Headings[pilot.idx], craft.yaw) \in Angles
  BY <1>1, ErrorIsAngle
<1>3. Error(pilot.idx) \in Int /\ Error(pilot.idx) < 300
  <2> DEFINE e == YawError(Headings[pilot.idx], craft.yaw)
  <2> HIDE DEF e
  <2>1. e \in Int
    BY <1>2 DEF e, Angles
  <2>2. Magnitude(e) \in Int
    BY <2>1 DEF Magnitude
  <2>3. Error(pilot.idx) = Magnitude(e)
    BY DEF Error, e
  <2> QED
    BY <1>0, <1>1, <2>2, <2>3
<1>5. CASE PlanRaises
  BY <1>0, <1>5, ForgetKept DEF PlanRaises
<1>6. CASE PlanBlocked
  <2> DEFINE n == NextHeading(pilot.idx)
  <2>1. /\ craft' = [craft EXCEPT !.told = "still"]
        /\ pilot' = [pilot EXCEPT !.pc = "rotate", !.next = "plan", !.idx = n]
        /\ turn' = [goal |-> Headings[n], prev |-> 0]
    BY <1>0, <1>6 DEF PlanBlocked, Navigated
  <2>7. /\ smooth' \in [ahead : 0..10, right : -10..10, streak : -3..3, planned : 0..2]
        /\ Remembers'
    BY <1>0, <1>6, SmoothKept DEF PlanBlocked
  <2>2. n \in 1..4 /\ Headings[n] \in Angles /\ 0 \in Int
    BY <1>1, HeadingIs
  <2>3. Magnitude(YawError(Headings[n], craft.yaw)) < 1200
    BY <1>1, <1>3, QuarterAway DEF Error
  <2> HIDE DEF n
  <2>4. /\ pilot'.pc = "rotate" /\ pilot'.next = "plan" /\ pilot'.idx = n
        /\ pilot'.trying = TRUE /\ turn'.goal = Headings[n] /\ turn'.prev = 0
        /\ craft'.yaw = craft.yaw
    BY <1>0, <2>1 DEF Navigated
  <2>5. Navigated'
    BY <1>0, <2>1, <2>2, <2>7 DEF Navigated, Programs
  <2>6. Aims'
    BY <2>3, <2>4 DEF Aims, Error
  <2> QED
    BY <2>4, <2>5, <2>6, <2>7 DEF DepthInv, Carries, Rests
<1>7. CASE PlanGoes
  <2>1. PICK f \in Frames :
          /\ ~Blocked(f) /\ SmoothIn(f)
          /\ IF Magnitude(YawError(Headings[pilot.idx], craft.yaw)) > ALIGNED
               THEN /\ pilot' = [pilot EXCEPT !.pc = "rotate", !.next = "send", !.seen = f]
                    /\ turn' = [goal |-> Headings[pilot.idx], prev |-> 0]
                    /\ craft' = craft
               ELSE /\ pilot' = [pilot EXCEPT !.pc = "send", !.seen = f]
                    /\ craft' = [craft EXCEPT !.gusts = 0]
                    /\ turn' = turn
    BY <1>7 DEF PlanGoes
  <2>2. /\ smooth' \in [ahead : 0..10, right : -10..10, streak : -3..3, planned : 0..2]
        /\ Remembers' /\ (pilot.by = "velocity" => EndsTheRow(f)')
    BY <1>0, <2>1, SmoothKept
  <2>3. 0 \in Int /\ f \in Sights /\ 0 \in 0..MaxGusts
    BY <2>1, DepthAssumption DEF Sights, DepthAssumption
  <2>4. CASE Magnitude(YawError(Headings[pilot.idx], craft.yaw)) > ALIGNED
    <3>1. /\ pilot' = [pilot EXCEPT !.pc = "rotate", !.next = "send", !.seen = f]
          /\ turn' = [goal |-> Headings[pilot.idx], prev |-> 0] /\ craft' = craft
      BY <2>1, <2>4
    <3>2. /\ pilot'.pc = "rotate" /\ pilot'.next = "send" /\ pilot'.seen = f
          /\ pilot'.idx = pilot.idx /\ pilot'.trying = TRUE /\ pilot'.by = pilot.by
          /\ turn'.goal = Headings[pilot.idx] /\ turn'.prev = 0
      BY <1>0, <3>1 DEF Navigated
    <3>4. Navigated'
      BY <1>0, <1>1, <2>2, <2>3, <3>1 DEF Navigated, Programs
    <3>5. Error(pilot.idx) < 1200
      BY <1>3
    <3>6. Aims'
      BY <3>1, <3>2, <3>5 DEF Aims, Error
    <3>7. Carries'
      BY <2>1, <2>2, <3>2 DEF Carries, EndsTheRow
    <3> QED
      BY <2>2, <3>2, <3>4, <3>6, <3>7 DEF DepthInv, Rests
  <2>5. CASE ~(Magnitude(YawError(Headings[pilot.idx], craft.yaw)) > ALIGNED)
    <3>1. /\ pilot' = [pilot EXCEPT !.pc = "send", !.seen = f]
          /\ craft' = [craft EXCEPT !.gusts = 0] /\ turn' = turn
      BY <2>1, <2>5
    <3>2. /\ pilot'.pc = "send" /\ pilot'.seen = f /\ pilot'.idx = pilot.idx
          /\ pilot'.trying = TRUE /\ pilot'.by = pilot.by
          /\ craft'.yaw = craft.yaw /\ craft'.gusts = 0
      BY <1>0, <3>1 DEF Navigated
    <3>3. Navigated'
      BY <1>0, <2>2, <2>3, <3>1 DEF Navigated, Programs
    <3>4. Error(pilot.idx)' <= 50 + 60 * craft'.gusts
      <4>1. Error(pilot.idx) <= 50
        BY <1>3, <2>5 DEF Error, ALIGNED
      <4>2. Error(pilot.idx)' = Error(pilot.idx)
        BY <3>2 DEF Error
      <4> QED
        BY <1>3, <3>2, <4>1, <4>2
    <3>5. Aims'
      BY <3>2, <3>4 DEF Aims, Error
    <3>6. Carries'
      BY <2>1, <2>2, <3>2 DEF Carries, EndsTheRow
    <3> QED
      BY <2>2, <3>2, <3>3, <3>5, <3>6 DEF DepthInv, Rests
  <2> QED
    BY <2>4, <2>5
<1> QED
  BY <1>5, <1>6, <1>7

(* An order to go is followed by a look.                                   *)
LEMMA SendKept == DepthInv /\ (SendSetpoint \/ SendVelocity) => DepthInv'
<1> SUFFICES ASSUME DepthInv, SendSetpoint \/ SendVelocity
             PROVE  DepthInv'
  OBVIOUS
<1>0. /\ Navigated /\ pilot.pc = "send" /\ pilot.trying = TRUE /\ UNCHANGED <<turn, hasFrame, smooth>>
      /\ Error(pilot.idx) <= 50 + 60 * craft.gusts /\ Remembers
  BY DEF DepthInv, Aims, Rests, SendSetpoint, SendVelocity
<1>1. PICK side \in Sides :
        /\ craft' = [craft EXCEPT !.told = side]
        /\ pilot' = [pilot EXCEPT !.pc = "plan", !.seen = NoFrame]
  <2>1. Course(pilot.seen) \in Sides /\ Way(smooth) \in Sides
    BY DEF Course, Sidestep, Direction, Way, Sides
  <2>2. CASE SendVelocity
    BY <2>1, <2>2 DEF SendVelocity
  <2>3. CASE SendSetpoint
    <3>1. PICK side \in IF smooth.planned = 1 THEN {Course(pilot.seen)} ELSE Sides :
            craft' = [craft EXCEPT !.told = side]
      BY <2>3 DEF SendSetpoint
    <3>2. side \in Sides
      BY <2>1, <3>1
    <3> QED
      BY <2>3, <3>1, <3>2 DEF SendSetpoint
  <2> QED
    BY <2>2, <2>3
<1>3. /\ pilot'.pc = "plan" /\ pilot'.idx = pilot.idx /\ pilot'.trying = TRUE
      /\ craft'.yaw = craft.yaw /\ craft'.gusts = craft.gusts
  BY <1>0, <1>1 DEF Navigated
<1>4. Navigated'
  <2>1. NoFrame \in Sights
    BY DEF Sights
  <2>2. pilot' \in [pc : Programs, by : {"none", "position", "velocity", "hold"}, idx : 1..4,
                    next : {"plan", "send"}, trying : BOOLEAN, seen : Sights,
                    active : BOOLEAN]
    BY <1>0, <1>1, <2>1 DEF Navigated, Programs
  <2>3. craft' \in [yaw : Angles, told : {"nothing", "still", "land"} \cup Sides,
                    gusts : 0..MaxGusts]
    BY <1>0, <1>1 DEF Navigated
  <2> QED
    BY <1>0, <2>2, <2>3 DEF Navigated
<1>5. Aims'
  BY <1>0, <1>3 DEF Aims, Error
<1> QED
  BY <1>0, <1>3, <1>4, <1>5 DEF DepthInv, Carries, Rests, Remembers

(* The ways out.                                                           *)
LEMMA EndKept ==
  DepthInv /\ (CtrlC \/ HoverAtEnd \/ AwaitFix \/ HoldCancelled \/ CleanUp) => DepthInv'
<1> SUFFICES ASSUME DepthInv, CtrlC \/ HoverAtEnd \/ AwaitFix \/ HoldCancelled \/ CleanUp
             PROVE  DepthInv'
  OBVIOUS
<1>0. Navigated /\ Rests /\ Remembers
  BY DEF DepthInv
<1>1. CASE CtrlC
  <2>1. /\ pilot.pc \in {"takeoff", "rotate", "send"}
        /\ LeaveFor(IF pilot.trying THEN "finally" ELSE "gone")
    BY <1>1 DEF CtrlC
  <2>2. pilot.trying = FALSE => craft.told \in {"nothing", "still"}
    BY <1>0, <2>1 DEF Rests
  <2>3. pilot.trying \in BOOLEAN
    BY <1>0 DEF Navigated
  <2> QED
    BY <1>0, <2>1, <2>2, <2>3, ForgetKept
<1>2. CASE HoverAtEnd
  <2>1. /\ pilot' = [pilot EXCEPT !.pc = "gone"] /\ craft' = [craft EXCEPT !.told = "still"]
        /\ UNCHANGED <<turn, hasFrame, smooth>>
    BY <1>2 DEF HoverAtEnd
  <2>2. pilot'.pc = "gone" /\ craft'.told = "still"
    BY <1>0, <2>1 DEF Navigated
  <2>3. Navigated'
    BY <1>0, <2>1 DEF Navigated, Programs
  <2> QED
    BY <1>0, <2>1, <2>2, <2>3 DEF DepthInv, Aims, Carries, Rests, Remembers
<1>3. CASE AwaitFix
  <2>1. pilot' = [pilot EXCEPT !.pc = "hold"] /\ craft' = craft /\ pilot.pc = "await"
        /\ UNCHANGED <<turn, hasFrame, smooth>>
    BY <1>3 DEF AwaitFix
  <2>2. pilot'.pc = "hold"
    BY <1>0, <2>1 DEF Navigated
  <2>3. Navigated'
    BY <1>0, <2>1 DEF Navigated, Programs
  <2> QED
    BY <1>0, <2>1, <2>2, <2>3 DEF DepthInv, Aims, Carries, Rests, Remembers
<1>4. CASE HoldCancelled
  <2>1. /\ pilot' = [pilot EXCEPT !.pc = "cleanup", !.active = FALSE] /\ craft' = craft
        /\ pilot.pc \in {"await", "hold"} /\ UNCHANGED <<turn, hasFrame, smooth>>
    BY <1>4 DEF HoldCancelled
  <2>2. pilot'.pc = "cleanup" /\ pilot'.active = FALSE
    BY <1>0, <2>1 DEF Navigated
  <2>3. Navigated'
    BY <1>0, <2>1 DEF Navigated, Programs
  <2> QED
    BY <1>0, <2>1, <2>2, <2>3 DEF DepthInv, Aims, Carries, Rests, Remembers
<1>5. CASE CleanUp
  <2>1. pilot.pc = "cleanup" /\ pilot.active = FALSE /\ craft.told = "still"
    BY <1>0, <1>5 DEF CleanUp, Rests
  <2>2. pilot' = [pilot EXCEPT !.pc = "gone"] /\ craft' = [craft EXCEPT !.told = craft.told]
        /\ UNCHANGED <<turn, hasFrame, smooth>>
    BY <1>0, <1>5, <2>1 DEF CleanUp, Navigated
  <2>3. pilot'.pc = "gone" /\ craft'.told = "still"
    BY <1>0, <2>1, <2>2 DEF Navigated
  <2>4. Navigated'
    BY <1>0, <2>2 DEF Navigated, Programs
  <2> QED
    BY <1>0, <2>2, <2>3, <2>4 DEF DepthInv, Aims, Carries, Rests, Remembers
<1> QED
  BY <1>1, <1>2, <1>3, <1>4, <1>5

(* The world: a frame, a position, a gust.                                 *)
LEMMA WorldKept == DepthInv /\ (ReceiveDepth \/ PositionMonitor \/ Gust) => DepthInv'
<1> SUFFICES ASSUME DepthInv, ReceiveDepth \/ PositionMonitor \/ Gust
             PROVE  DepthInv'
  OBVIOUS
<1>0. Navigated /\ Aims /\ Carries /\ Rests /\ Remembers /\ UNCHANGED <<pilot, turn, smooth>>
  BY DEF DepthInv, ReceiveDepth, PositionMonitor, Gust
<1>1. CASE ReceiveDepth \/ PositionMonitor
  <2>1. craft' = craft /\ hasFrame' \in BOOLEAN
    BY <1>0, <1>1 DEF ReceiveDepth, PositionMonitor, Navigated
  <2> QED
    BY <1>0, <2>1 DEF DepthInv, Navigated, Aims, Carries, Rests, Error, Remembers, EndsTheRow
<1>2. CASE Gust
  <2>1. PICK g \in Gusts :
          craft' = [craft EXCEPT !.yaw = NormalizeYaw(craft.yaw + g), !.gusts = craft.gusts + 1]
    BY <1>0, <1>2 DEF Gust, Navigated
  <2>2. /\ pilot.pc \in {"plan", "send"} /\ craft.gusts < MaxGusts /\ hasFrame' = hasFrame
        /\ Error(pilot.idx) <= 50 + 60 * craft.gusts
    BY <1>0, <1>2 DEF Gust, Aims
  <2>3. g \in -60..60 /\ g \in Int /\ -60 <= g /\ g <= 60
    BY DepthAssumption DEF DepthAssumption
  <2>4. /\ craft.gusts \in Nat /\ craft.gusts <= 4 /\ craft.yaw \in Angles /\ pilot.idx \in 1..4
        /\ Headings[pilot.idx] \in Angles
    BY <1>0, NavigatedIs
  <2>5. craft.gusts + 1 \in 0..MaxGusts /\ NormalizeYaw(craft.yaw + g) \in Angles
    <3>1. MaxGusts \in Nat
      BY DepthAssumption DEF DepthAssumption
    <3>2. craft.gusts + 1 \in 0..MaxGusts
      BY <2>2, <2>4, <3>1
    <3> QED
      BY <2>3, <2>4, <3>2, YawIsAngle
  <2>6. Navigated'
    BY <1>0, <2>1, <2>2, <2>5 DEF Navigated
  <2>7. craft'.gusts = craft.gusts + 1 /\ craft'.yaw = NormalizeYaw(craft.yaw + g)
        /\ craft'.told = craft.told
    BY <1>0, <2>1 DEF Navigated
  <2> DEFINE e == YawError(Headings[pilot.idx], craft.yaw)
  <2>8. e \in Int
    <3>1. e \in Angles
      BY <2>4, ErrorIsAngle
    <3> HIDE DEF e
    <3> QED
      BY <3>1 DEF Angles
  <2>9. Magnitude(e) < 1200
    <3>1. Magnitude(e) <= 50 + 60 * craft.gusts
      BY <2>2 DEF Error
    <3> HIDE DEF e
    <3> QED
      BY <2>4, <2>8, <3>1 DEF Magnitude
  <2>10. YawError(Headings[pilot.idx], craft'.yaw) = e - g
    BY <2>3, <2>4, <2>7, <2>9, TurnedBy
  <2>11. Error(pilot.idx)' <= 50 + 60 * craft'.gusts
    <3>1. Magnitude(e) <= 50 + 60 * craft.gusts
      BY <2>2 DEF Error
    <3>2. Error(pilot.idx)' = Magnitude(e - g)
      BY <1>0, <2>10 DEF Error
    <3> HIDE DEF e
    <3>3. Magnitude(e - g) <= 50 + 60 * (craft.gusts + 1)
      BY <2>3, <2>4, <2>8, <3>1 DEF Magnitude
    <3> QED
      BY <2>7, <3>2, <3>3
  <2>12. Aims'
    BY <1>0, <2>2, <2>11 DEF Aims
  <2> QED
    BY <1>0, <2>2, <2>6, <2>7, <2>12 DEF DepthInv, Carries, Rests, Remembers, EndsTheRow
<1> QED
  BY <1>1, <1>2

LEMMA DepthStill == DepthInv /\ UNCHANGED depthVars => DepthInv'
BY DEF DepthInv, depthVars, Navigated, Aims, Carries, Rests, Error, Remembers, EndsTheRow

(* What it carries is clear where it goes.                                 *)
LEMMA DepthHolds == DepthInv => NavigatorInv
<1> SUFFICES ASSUME DepthInv
             PROVE  NavigatorInv
  OBVIOUS
<1>1. SidestepIsClear
  <2> SUFFICES ASSUME pilot.pc = "send", Emergency(pilot.seen)
               PROVE  pilot.seen[Sidestep(pilot.seen)] >= SAFE
    BY DEF SidestepIsClear
  <2> DEFINE f == pilot.seen
  <2>1. f \in Frames /\ ~Blocked(f)
    BY DEF DepthInv, Carries
  <2>2. f["left"] \in Nat /\ f["right"] \in Nat
    <3>1. f["left"] \in Ranges /\ f["right"] \in Ranges
      <4> HIDE DEF f
      <4> QED
        BY <2>1 DEF Frames, Sides
    <3>2. Ranges \subseteq Nat
      BY DepthAssumption DEF DepthAssumption
    <3> HIDE DEF f
    <3> QED
      BY <3>1, <3>2
  <2>3. f.center < CRITICAL
    BY DEF Emergency
  <2>4. f["left"] >= SAFE \/ f["right"] >= SAFE
    BY <2>1, <2>2, <2>3 DEF Blocked, SAFE
  <2>5. Sidestep(f) = IF f["left"] > f["right"] THEN "left" ELSE "right"
    BY DEF Sidestep
  <2> HIDE DEF f
  <2>6. f[Sidestep(f)] >= SAFE
    BY <2>2, <2>4, <2>5 DEF SAFE
  <2> QED
    BY <2>6 DEF f
<1>2. QuarterTurns
  <2> SUFFICES ASSUME pilot.pc = "rotate", pilot.trying = TRUE
               PROVE  AngleApart(turn.goal, craft.yaw) < 1200
    BY DEF QuarterTurns, DepthInv, Navigated
  <2>1. turn.goal \in Angles /\ craft.yaw \in Angles
    BY NavigatedIs DEF DepthInv
  <2>2. Magnitude(YawError(turn.goal, craft.yaw)) < 1200
    BY DEF DepthInv, Aims, Error
  <2> QED
    BY <2>1, <2>2, ApartIsError
<1>3. LeavesStill
  BY DEF DepthInv, Rests, LeavesStill
<1>4. SidestepComes
  <2> SUFFICES ASSUME pilot.pc = "send", pilot.by = "velocity"
               PROVE  /\ smooth.streak >= 2 => smooth.right > 0 /\ pilot.seen.right >= SAFE
                      /\ smooth.streak <= -2 => smooth.right < 0 /\ pilot.seen.left >= SAFE
                      /\ smooth.streak = 3 => Way(smooth) = "right"
                      /\ smooth.streak = -3 => Way(smooth) = "left"
    BY DEF SidestepComes
  <2>1. /\ smooth.streak \in Int /\ smooth.ahead \in Int /\ smooth.right \in Int
        /\ Remembers /\ EndsTheRow(pilot.seen)
    BY DEF DepthInv, Navigated, Carries
  <2>2. Emergency(pilot.seen) => pilot.seen[Sidestep(pilot.seen)] >= SAFE
    BY <1>1 DEF SidestepIsClear
  <2>3. /\ smooth.streak >= 2 => smooth.right > 0 /\ pilot.seen.right >= SAFE
        /\ smooth.streak <= -2 => smooth.right < 0 /\ pilot.seen.left >= SAFE
    BY <2>1, <2>2 DEF Remembers, EndsTheRow
  <2>4. /\ smooth.streak = 3 => smooth.right > smooth.ahead
        /\ smooth.streak = -3 => -smooth.right > smooth.ahead /\ ~(smooth.right > smooth.ahead)
    <3>1. smooth.ahead >= 0
      BY DEF DepthInv, Navigated
    <3> QED
      BY <2>1, <3>1 DEF Remembers
  <2> QED
    BY <2>3, <2>4 DEF Way
<1> QED
  BY <1>1, <1>2, <1>3, <1>4 DEF NavigatorInv

(* Whatever it sees, from whatever yaw it starts, and with gusts of at most *)
(* 6 degrees each, four between two looks at the heading: the side that is *)
(* chosen when the way ahead is too near is clear, a velocity goes there   *)
(* with the second frame in a row that asks for it, a turn goes the short  *)
(* way round, and no program ends on an order to go.                       *)
THEOREM NavigatorKeepsClear == DepthSpec => []NavigatorInv
<1>1. DepthInv /\ [DepthNext]_depthVars => DepthInv'
  BY TurnKept, TakeoffKept, PlanKept, SendKept, EndKept, WorldKept, DepthStill
     DEF DepthNext, Navigator
<1> QED
  BY DepthStart, DepthHolds, <1>1, PTL DEF DepthSpec

-----------------------------------------------------------------------------
(* SlotSummary: rows stand for the files that were read, and the best of   *)
(* them is one of those.                                                   *)
Row(file) == IF file = Unread THEN Skipped ELSE TotalOf(file)
SlotInv ==
  /\ files \in Seq(Summaries \cup {Unread})
  /\ rows # <<>> => rows = [i \in DOMAIN files |-> Row(files[i])]
  /\ best # 0 => rows # <<>> /\ best \in Scored /\ \A j \in Scored : rows[j] <= rows[best]

(* Only a run with both colours has points.                                *)
LEMMA PointsNeedBoth ==
  ASSUME NEW s \in Summaries
  PROVE  /\ Eligible(s) => TotalOf(s) \in Nat /\ TotalOf(s) > 0
         /\ ~Eligible(s) => TotalOf(s) = 0
<1>1. s.yellow \in Nat /\ s.red \in Nat /\ s.flight \in Flights \cup {NoFlight}
  BY SlotAssumption DEF SlotAssumption, Summaries
<1>2. EstimatedBonus(s) \in Nat
  <2>1. CASE s.flight # NoFlight /\ s.flight < 300
    <3>1. s.flight \in Nat
      BY <1>1, <2>1, SlotAssumption DEF SlotAssumption
    <3>2. (300 - s.flight) \div 30 \in Nat
      BY <2>1, <3>1
    <3> QED
      BY <2>1, <3>2 DEF EstimatedBonus
  <2>2. CASE ~(s.flight # NoFlight /\ s.flight < 300)
    BY <2>2 DEF EstimatedBonus
  <2> QED
    BY <2>1, <2>2
<1>3. CASE Eligible(s)
  <2>1. s.yellow >= 1 /\ s.red >= 1 /\ TotalOf(s) = 50 * s.yellow + 100 * s.red + EstimatedBonus(s)
    BY <1>3 DEF Eligible, TotalOf, Base
  <2> QED
    BY <1>1, <1>2, <1>3, <2>1
<1>4. CASE ~Eligible(s)
  BY <1>4 DEF TotalOf
<1> QED
  BY <1>3, <1>4

LEMMA SlotKept == SlotInv /\ SlotNext => SlotInv'
<1> SUFFICES ASSUME SlotInv, SlotNext
             PROVE  SlotInv'
  OBVIOUS
<1>1. ASSUME NEW s \in Summaries \cup {Unread}, Ran(s)
      PROVE  SlotInv'
  <2>1. files' = Append(files, s) /\ rows' = <<>> /\ best' = 0
    BY <1>1 DEF Ran, SlotInv
  <2>2. files' \in Seq(Summaries \cup {Unread})
    BY <1>1, <2>1, AppendProperties DEF SlotInv
  <2> QED
    BY <2>1, <2>2 DEF SlotInv
<1>2. CASE ReadAll
  <2>1. files' = files /\ rows' = [i \in DOMAIN files |-> Row(files[i])] /\ best' = 0
    BY <1>2 DEF ReadAll, SlotInv, Row
  <2> QED
    BY <2>1 DEF SlotInv
<1>3. CASE Recommend
  BY <1>3 DEF Recommend, SlotInv, Scored
<1> QED
  BY <1>1, <1>2, <1>3 DEF SlotNext

LEMMA SlotHolds == SlotInv => EligibleFirst
<1> SUFFICES ASSUME SlotInv, best # 0,
                    NEW i \in DOMAIN files, files[i] # Unread, Eligible(files[i])
             PROVE  Eligible(files[best])
  BY DEF EligibleFirst
<1>1. /\ rows = [j \in DOMAIN files |-> Row(files[j])] /\ best \in Scored
      /\ \A j \in Scored : rows[j] <= rows[best]
  BY DEF SlotInv
<1>2. files[i] \in Summaries /\ rows[i] = TotalOf(files[i]) /\ rows[i] \in Nat /\ rows[i] > 0
  BY <1>1, PointsNeedBoth DEF SlotInv, Row
<1>3. i \in Scored
  BY <1>1, <1>2 DEF Scored, Skipped
<1>4. best \in DOMAIN files /\ rows[best] # Skipped
  BY <1>1 DEF Scored
<1>5. files[best] \in Summaries /\ rows[best] = TotalOf(files[best])
  BY <1>1, <1>4 DEF SlotInv, Row
<1>6. rows[i] <= rows[best]
  BY <1>1, <1>3
<1> QED
  BY <1>2, <1>5, <1>6, PointsNeedBoth

(* For every number of runs, whatever files cannot be read: the judge is   *)
(* not shown a run without both colours while there is one with both.      *)
THEOREM BothColoursFirst == SlotSpec => []EligibleFirst
<1>1. SlotInit => SlotInv
  BY DEF SlotInit, SlotInv
<1>2. SlotInv /\ UNCHANGED slotVars => SlotInv'
  BY DEF SlotInv, slotVars, Scored
<1> QED
  BY SlotKept, SlotHolds, <1>1, <1>2, PTL DEF SlotSpec

-----------------------------------------------------------------------------
(* TopDownMapper: a frame is what the camera saw from where it was taken.  *)
Bearings == {0, 90, 180, 270}
Placed(v) == v.n \in Int /\ v.e \in Int /\ v.yaw \in Bearings /\ v.alt \in {0, Altitude}
Framed == shot = NotYet \/ (shot = <<{ InCamera(t, shot[2]) : t \in Things }, shot[2]>> /\ Placed(shot[2]))
ToldWhere(w) == w.do = "fly" => w.n \in Int /\ w.e \in Int /\ w.yaw \in Bearings /\ w.alt = 0
Faithful ==
  /\ uav = [n |-> uav.n, e |-> uav.e, alt |-> uav.alt, yaw |-> uav.yaw, told |-> uav.told]
  /\ Placed(uav) /\ ToldWhere(uav.told) /\ Framed
  /\ PointsInPlace

(* Out of the camera and onto the map is onto the place of the thing.      *)
LEMMA ThereAndBack ==
  ASSUME NEW t \in Things, NEW v, Placed(v)
  PROVE  LET q == InCamera(t, v)
         IN  /\ LocalToNedGlobal(<<q[1], q[3]>>, <<v.n, v.e>>, v.yaw) = <<t[1], t[2]>>
             /\ q[2] = v.alt - t[3] /\ t[3] \in Int /\ t[1] \in Int /\ t[2] \in Int
<1>1. t[1] \in Int /\ t[2] \in Int /\ t[3] \in Int
  BY MapperAssumption DEF MapperAssumption
<1>2. v.n \in Int /\ v.e \in Int
  BY DEF Placed
<1>3. CASE v.yaw = 0
  BY <1>1, <1>2, <1>3 DEF InCamera, LocalToNedGlobal, Cosine, Sine
<1>4. CASE v.yaw = 90
  BY <1>1, <1>2, <1>4 DEF InCamera, LocalToNedGlobal, Cosine, Sine
<1>5. CASE v.yaw = 180
  BY <1>1, <1>2, <1>5 DEF InCamera, LocalToNedGlobal, Cosine, Sine
<1>6. CASE v.yaw = 270
  BY <1>1, <1>2, <1>6 DEF InCamera, LocalToNedGlobal, Cosine, Sine
<1> QED
  BY <1>3, <1>4, <1>5, <1>6 DEF Placed, Bearings

(* What is laid on the map by the pose it was taken from.                  *)
LEMMA LaidInPlace ==
  ASSUME Faithful, shot # NotYet, Current,
         NEW xy \in DepthToXyMap(shot[1])
  PROVE  \E t \in Things, a \in {0, Altitude} :
           /\ LocalToNedGlobal(xy, LatestPosition, LatestYaw) = <<t[1], t[2]>>
           /\ t[3] - a + CAM_HEIGHT \in OBS_H_MIN .. OBS_H_MAX
<1>1. PICK q \in shot[1] : /\ xy = <<q[1], q[3]>>
                           /\ q[2] \in CAM_HEIGHT - OBS_H_MAX .. CAM_HEIGHT - OBS_H_MIN
  BY DEF DepthToXyMap
<1>2. shot[1] = { InCamera(t, shot[2]) : t \in Things } /\ Placed(uav) /\ shot[2] = uav
  BY DEF Faithful, Framed, Current
<1>3. PICK t \in Things : q = InCamera(t, uav)
  BY <1>1, <1>2
<1>4. LatestPosition = <<uav.n, uav.e>> /\ LatestYaw = uav.yaw
  BY DEF Current
<1>5. /\ LocalToNedGlobal(xy, LatestPosition, LatestYaw) = <<t[1], t[2]>>
      /\ q[2] = uav.alt - t[3] /\ t[3] \in Int
  BY <1>1, <1>2, <1>3, <1>4, ThereAndBack
<1>6. uav.alt \in {0, Altitude} /\ uav.alt \in Int
  BY <1>2, MapperAssumption DEF Placed, MapperAssumption
<1>7. t[3] - uav.alt + CAM_HEIGHT \in OBS_H_MIN .. OBS_H_MAX
  BY <1>1, <1>5, <1>6 DEF CAM_HEIGHT, OBS_H_MAX, OBS_H_MIN
<1> QED
  BY <1>5, <1>6, <1>7

LEMMA FlightsOfTheScript ==
  ASSUME NEW k \in 1 .. Len(Steps), Steps[k].do = "fly"
  PROVE  ToldWhere(Steps[k])
<1>1. Len(Steps) = 10
  BY DEF Steps
<1>2. k \in 1 .. 10
  BY <1>1
<1>3. Steps[k] \in {Collect, Setpoint(3, 0, 0), Setpoint(0, 0, 90), Setpoint(0, 3, 0)}
  BY <1>2 DEF Steps
<1> QED
  BY <1>3 DEF Collect, Setpoint, ToldWhere, Bearings

LEMMA MapperStarts == MapperInit => Faithful
<1> SUFFICES ASSUME MapperInit
             PROVE  Faithful
  OBVIOUS
<1>1. PICK y \in {0, 90, 180, 270} :
        uav = [n |-> 0, e |-> 0, alt |-> Altitude, yaw |-> y, told |-> [do |-> "takeoff"]]
  BY DEF MapperInit
<1>2. cloud = {} /\ shot = NotYet
  BY DEF MapperInit
<1> QED
  BY <1>1, <1>2 DEF Faithful, Placed, ToldWhere, Framed, Bearings, PointsInPlace

LEMMA MapperKept == Faithful /\ MapperNext => Faithful'
<1> SUFFICES ASSUME Faithful, MapperNext
             PROVE  Faithful'
  OBVIOUS
<1>1. CASE CollectAndMapFrame
  <2>1. shot' = shot /\ uav' = uav
    BY <1>1 DEF CollectAndMapFrame
  <2>2. ASSUME NEW p \in cloud', p.fresh
        PROVE  \E t \in Things, a \in {0, Altitude} :
                 p.at = <<t[1], t[2]>> /\ t[3] - a + CAM_HEIGHT \in OBS_H_MIN .. OBS_H_MAX
    <3>1. CASE p \in cloud
      BY <2>2, <3>1 DEF Faithful, PointsInPlace
    <3>2. CASE p \notin cloud
      <4>1. shot # NotYet /\ p \in UpdateFrame(shot[1])
        BY <1>1, <2>2, <3>2 DEF CollectAndMapFrame
      <4>2. PICK xy \in DepthToXyMap(shot[1]) :
              p = [at |-> LocalToNedGlobal(xy, LatestPosition, LatestYaw), fresh |-> Current]
        BY <4>1 DEF UpdateFrame
      <4>3. p.at = LocalToNedGlobal(xy, LatestPosition, LatestYaw) /\ p.fresh = Current
        BY <4>2, Zenon
      <4>4. Current
        BY <2>2, <4>3, Zenon
      <4> QED
        BY <4>1, <4>3, <4>4, LaidInPlace
    <3> QED
      BY <3>1, <3>2
  <2> QED
    BY <2>1, <2>2 DEF Faithful, Framed, PointsInPlace
<1>2. CASE SendPositionSetpoint
  <2>1. shot' = shot /\ cloud' = cloud
    BY <1>2 DEF SendPositionSetpoint
  <2>2. CASE uav' = uav
    BY <2>1, <2>2 DEF Faithful, Framed, PointsInPlace
  <2>3. CASE uav' = [uav EXCEPT !.told = Steps[script]]
    <3>1. ToldWhere(Steps[script])
      BY <1>2, FlightsOfTheScript DEF SendPositionSetpoint
    <3>2. uav' = [n |-> uav.n, e |-> uav.e, alt |-> uav.alt, yaw |-> uav.yaw, told |-> Steps[script]]
      BY <2>3 DEF Faithful
    <3> QED
      BY <2>1, <3>1, <3>2 DEF Faithful, Framed, PointsInPlace, Placed
  <2> QED
    BY <1>2, <2>2, <2>3 DEF SendPositionSetpoint
<1>3. CASE LandAtEnd
  <2>1. shot' = shot /\ cloud' = cloud
    BY <1>3 DEF LandAtEnd
  <2>2. CASE uav' = uav
    BY <2>1, <2>2 DEF Faithful, Framed, PointsInPlace
  <2>3. CASE uav' = [uav EXCEPT !.told = [do |-> "land"]]
    <3>1. uav' = [n |-> uav.n, e |-> uav.e, alt |-> uav.alt, yaw |-> uav.yaw, told |-> [do |-> "land"]]
      BY <2>3 DEF Faithful
    <3> QED
      BY <2>1, <3>1 DEF Faithful, Framed, PointsInPlace, Placed, ToldWhere
  <2> QED
    BY <1>3, <2>2, <2>3 DEF LandAtEnd
<1>4. CASE StreamPosition \/ StreamYaw
  <2>1. shot' = shot /\ cloud' = cloud /\ uav' = uav
    BY <1>4 DEF StreamPosition, StreamYaw
  <2> QED
    BY <2>1 DEF Faithful, Framed, PointsInPlace
<1>5. CASE FrameArrives
  <2>1. shot' = <<{ InCamera(t, uav) : t \in Things }, uav>> /\ cloud' = cloud /\ uav' = uav
    BY <1>5 DEF FrameArrives, DepthImage
  <2>2. Framed'
    BY <2>1 DEF Faithful, Framed
  <2> QED
    BY <2>1, <2>2 DEF Faithful, PointsInPlace
<1>6. CASE Flies
  <2>1. shot' = shot /\ cloud' = cloud /\ uav.told.do = "fly"
    BY <1>6 DEF Flies
  <2>2. uav' = [n |-> uav.told.n, e |-> uav.told.e, alt |-> uav.told.alt,
                yaw |-> uav.told.yaw, told |-> uav.told]
    BY <1>6 DEF Flies, Faithful
  <2>3. Placed(uav')
    BY <2>1, <2>2 DEF Faithful, ToldWhere, Placed
  <2> QED
    BY <2>1, <2>2, <2>3 DEF Faithful, Framed, PointsInPlace, Placed
<1> QED
  BY <1>1, <1>2, <1>3, <1>4, <1>5, <1>6 DEF MapperNext

(* For any things in the field: where a frame is laid on the map by the    *)
(* pose it was taken from, its points are where the things are.            *)
THEOREM LandsWhereItIs == MapperSpec => []PointsInPlace
<1>1. Faithful => PointsInPlace
  BY DEF Faithful
<1>2. Faithful /\ UNCHANGED mapperVars => Faithful'
  BY DEF mapperVars, Faithful, Framed, PointsInPlace
<1> QED
  BY MapperStarts, MapperKept, <1>1, <1>2, PTL DEF MapperSpec

-----------------------------------------------------------------------------
(* Induction over the numbers, over a set in place of a property.          *)

LEMMA Lowest ==
  ASSUME NEW S \in SUBSET Nat, S # {}
  PROVE  \E i \in S : \A j \in S : i <= j
<1> DEFINE Less == {p \in Nat \X Nat : p[1] < p[2]}
<1>1. IsWellFoundedOn(Less, Nat)
  BY NatLessThanWellFounded DEF OpToRel
<1>2. PICK i \in S : \A j \in S : ~(<<j, i>> \in Less)
  <2> HIDE DEF Less
  <2> QED BY <1>1, WFMin
<1>3. \A j \in S : ~(j < i)
  BY <1>2
<1> QED BY <1>3

LEMMA Induct ==
  ASSUME NEW S \in SUBSET Nat, 0 \in S, \A k \in S : k + 1 \in S
  PROVE  \A k \in Nat : k \in S
<1> SUFFICES ASSUME Nat \ S # {} PROVE FALSE
  OBVIOUS
<1>1. PICK i \in Nat \ S : \A j \in Nat \ S : i <= j
  <2>1. Nat \ S \in SUBSET Nat
    OBVIOUS
  <2> QED BY <2>1, Lowest
<1>2. i # 0
  BY <1>1
<1>3. i - 1 \in Nat /\ i = (i - 1) + 1
  BY <1>1, <1>2
<1>4. i - 1 \in S
  BY <1>1, <1>3
<1>5. i \in S
  BY <1>3, <1>4
<1> QED BY <1>1, <1>5

-----------------------------------------------------------------------------
(* MazeGenerator: what the flood fill of generate_maze.py reaches.         *)

\* a set that nothing free is next to
Closed(free, R) == \A d \in free : NextTo(d) \cap R # {} => d \in R
\* free cells that are in one piece
Joined(free) == \A R \in SUBSET free : R # {} /\ Closed(free, R) => R = free

Further(free, R) == R \cup {d \in free : NextTo(d) \cap R # {}}
IsFlood(F, free, s, n) ==
  F = [k \in 0..n |-> IF k = 0 THEN s
                      ELSE F[k - 1] \cup {d \in free : NextTo(d) \cap F[k - 1] # {}}]

LEMMA FloodExists ==
  ASSUME NEW free, NEW s
  PROVE  \A n \in Nat : \E F : IsFlood(F, free, s, n)
<1> DEFINE S == {n \in Nat : \E F : IsFlood(F, free, s, n)}
<1>1. 0 \in S
  <2> DEFINE F == [k \in 0..0 |-> s]
  <2>1. IsFlood(F, free, s, 0)
    BY DEF IsFlood
  <2> QED BY <2>1
<1>2. ASSUME NEW n \in S
      PROVE  n + 1 \in S
  <2>1. PICK G : IsFlood(G, free, s, n)
    BY <1>2
  <2> DEFINE F == [k \in 0..(n + 1) |-> IF k = n + 1 THEN Further(free, G[n]) ELSE G[k]]
  <2>2. n \in Nat
    BY <1>2
  <2>3. G = [k \in 0..n |-> IF k = 0 THEN s ELSE Further(free, G[k - 1])]
    BY <2>1 DEF IsFlood, Further
  <2>4. \A k \in 0..n : G[k] = IF k = 0 THEN s ELSE Further(free, G[k - 1])
    <3> DEFINE w(k) == IF k = 0 THEN s ELSE Further(free, G[k - 1])
    <3>1. G = [k \in 0..n |-> w(k)]
      BY <2>3
    <3> HIDE DEF w
    <3>2. \A k \in 0..n : G[k] = w(k)
      BY <3>1
    <3> QED BY <3>2 DEF w
  <2>5. ASSUME NEW k \in 0..(n + 1)
        PROVE  F[k] = IF k = 0 THEN s ELSE Further(free, F[k - 1])
    <3>1. CASE k = n + 1
      <4>1. k - 1 = n /\ n \in 0..(n + 1) /\ n # n + 1 /\ k # 0
        BY <2>2, <3>1
      <4>2. F[k] = Further(free, G[n]) /\ F[k - 1] = G[n]
        BY <3>1, <4>1
      <4> QED BY <4>1, <4>2
    <3>2. CASE k # n + 1
      <4>1. k \in 0..n /\ F[k] = G[k]
        BY <2>2, <3>2
      <4>2. k # 0 => k - 1 \in 0..(n + 1) /\ k - 1 # n + 1
        BY <2>2, <4>1
      <4>3. k # 0 => F[k - 1] = G[k - 1]
        BY <4>2
      <4> QED BY <2>4, <4>1, <4>3
    <3> QED BY <3>1, <3>2
  <2>6. F = [k \in 0..(n + 1) |-> IF k = 0 THEN s ELSE Further(free, F[k - 1])]
    <3> DEFINE w(k) == IF k = 0 THEN s ELSE Further(free, F[k - 1])
    <3>1. \A k \in 0..(n + 1) : F[k] = w(k)
      BY <2>5
    <3>2. F = [k \in 0..(n + 1) |-> F[k]]
      OBVIOUS
    <3> HIDE DEF F, w
    <3>3. F = [k \in 0..(n + 1) |-> w(k)]
      BY <3>1, <3>2
    <3> QED BY <3>3 DEF w
  <2>7. IsFlood(F, free, s, n + 1)
    <3> HIDE DEF F
    <3> QED BY <2>6 DEF IsFlood, Further
  <2>8. n + 1 \in Nat
    BY <2>2
  <2> QED BY <2>7, <2>8
<1>3. \A n \in Nat : n \in S
  <2>1. S \in SUBSET Nat
    OBVIOUS
  <2> HIDE DEF S
  <2> QED BY <1>1, <1>2, <2>1, Induct
<1> QED BY <1>3

(* Step by step the flood grows, within every closed set around its start, *)
(* until it is closed: in fewer steps than there are free cells.           *)
LEMMA FloodIs ==
  ASSUME NEW free, IsFiniteSet(free), NEW s \in SUBSET free, s # {}
  PROVE  /\ s \subseteq Flood(free, s) /\ Flood(free, s) \subseteq free
         /\ Closed(free, Flood(free, s))
         /\ \A R : s \subseteq R /\ Closed(free, R) => Flood(free, s) \subseteq R
<1> DEFINE n == Cardinality(free)
           F == CHOOSE f : IsFlood(f, free, s, n)
<1>0. n \in Nat
  BY FS_CardinalityType
<1>1. IsFlood(F, free, s, n)
  BY <1>0, FloodExists
<1>2. Flood(free, s) = F[n]
  BY DEF Flood, IsFlood
<1> HIDE DEF n, F
<1>3. \A k \in 0..n : F[k] = IF k = 0 THEN s ELSE Further(free, F[k - 1])
  <2> DEFINE w(k) == IF k = 0 THEN s ELSE Further(free, F[k - 1])
  <2>1. F = [k \in 0..n |-> w(k)]
    BY <1>1 DEF IsFlood, Further
  <2> HIDE DEF w
  <2>2. \A k \in 0..n : F[k] = w(k)
    BY <2>1
  <2> QED BY <2>2 DEF w
<1>4. F[0] = s /\ \A k \in 0..n : k + 1 <= n => F[k + 1] = Further(free, F[k])
  <2>1. 0 \in 0..n
    BY <1>0
  <2>2. ASSUME NEW k \in 0..n, k + 1 <= n
        PROVE  F[k + 1] = Further(free, F[k])
    <3>1. k + 1 \in 0..n /\ k + 1 # 0 /\ (k + 1) - 1 = k
      BY <1>0, <2>2
    <3> QED BY <1>3, <3>1
  <2> QED BY <1>3, <2>1, <2>2
<1> DEFINE S == {k \in Nat : k <= n => /\ s \subseteq F[k] /\ F[k] \subseteq free
                                       /\ Closed(free, F[k]) \/ Cardinality(F[k]) > k
                                       /\ \A R : s \subseteq R /\ Closed(free, R) => F[k] \subseteq R}
<1>5. 0 \in S
  <2>1. IsFiniteSet(s)
    BY FS_Subset
  <2>2. Cardinality(s) \in Nat /\ Cardinality(s) # 0
    BY <2>1, FS_CardinalityType, FS_EmptySet
  <2>3. Cardinality(s) > 0
    BY <2>2
  <2> QED BY <1>4, <2>3
<1>6. ASSUME NEW k \in S
      PROVE  k + 1 \in S
  <2>1. k \in Nat /\ k + 1 \in Nat
    BY <1>6
  <2> SUFFICES ASSUME k + 1 <= n
               PROVE  /\ s \subseteq F[k + 1] /\ F[k + 1] \subseteq free
                      /\ Closed(free, F[k + 1]) \/ Cardinality(F[k + 1]) > k + 1
                      /\ \A R : s \subseteq R /\ Closed(free, R) => F[k + 1] \subseteq R
    BY <2>1
  <2>2. k \in 0..n /\ k <= n
    BY <1>0, <2>1
  <2>3. F[k + 1] = F[k] \cup {d \in free : NextTo(d) \cap F[k] # {}}
    BY <1>4, <2>2 DEF Further
  <2>4. /\ s \subseteq F[k] /\ F[k] \subseteq free
        /\ Closed(free, F[k]) \/ Cardinality(F[k]) > k
        /\ \A R : s \subseteq R /\ Closed(free, R) => F[k] \subseteq R
    BY <1>6, <2>2
  <2>5. s \subseteq F[k + 1] /\ F[k + 1] \subseteq free
    BY <2>3, <2>4
  <2>6. ASSUME NEW R, s \subseteq R, Closed(free, R)
        PROVE  F[k + 1] \subseteq R
    <3>1. F[k] \subseteq R
      BY <2>4, <2>6
    <3>2. ASSUME NEW d \in free, NextTo(d) \cap F[k] # {}
          PROVE  d \in R
      BY <2>6, <3>1, <3>2 DEF Closed
    <3> QED BY <2>3, <3>1, <3>2
  <2>7. Closed(free, F[k + 1]) \/ Cardinality(F[k + 1]) > k + 1
    <3>1. CASE Closed(free, F[k])
      <4>1. F[k + 1] = F[k]
        BY <2>3, <3>1 DEF Closed
      <4> QED BY <3>1, <4>1
    <3>2. CASE ~Closed(free, F[k])
      <4>1. PICK d \in free : d \in F[k + 1] /\ d \notin F[k]
        BY <2>3, <3>2 DEF Closed
      <4>2. IsFiniteSet(F[k]) /\ IsFiniteSet(F[k + 1])
        BY <2>4, <2>5, FS_Subset
      <4>3. /\ IsFiniteSet(F[k] \cup {d})
            /\ Cardinality(F[k] \cup {d}) = Cardinality(F[k]) + 1
        BY <4>1, <4>2, FS_AddElement
      <4>4. Cardinality(F[k] \cup {d}) <= Cardinality(F[k + 1])
        <5>1. F[k] \cup {d} \in SUBSET F[k + 1]
          BY <2>3, <4>1
        <5> QED BY <4>2, <5>1, FS_Subset
      <4>5. Cardinality(F[k]) \in Nat /\ Cardinality(F[k + 1]) \in Nat
        BY <4>2, FS_CardinalityType
      <4>6. Cardinality(F[k]) > k
        BY <2>4, <3>2
      <4> QED BY <2>1, <4>3, <4>4, <4>5, <4>6
    <3> QED BY <3>1, <3>2
  <2> QED BY <2>5, <2>6, <2>7
<1>7. \A k \in Nat : k \in S
  <2>1. S \in SUBSET Nat
    OBVIOUS
  <2> HIDE DEF S
  <2> QED BY <1>5, <1>6, <2>1, Induct
<1>8. /\ s \subseteq F[n] /\ F[n] \subseteq free
      /\ Closed(free, F[n]) \/ Cardinality(F[n]) > n
      /\ \A R : s \subseteq R /\ Closed(free, R) => F[n] \subseteq R
  <2>1. n \in S /\ n <= n
    BY <1>0, <1>7
  <2> QED BY <2>1
<1>9. ~(Cardinality(F[n]) > n)
  <2>1. Cardinality(F[n]) <= Cardinality(free)
    BY <1>8, FS_Subset
  <2>2. IsFiniteSet(F[n])
    BY <1>8, FS_Subset
  <2>3. Cardinality(F[n]) \in Nat
    BY <2>2, FS_CardinalityType
  <2> QED BY <1>0, <2>1, <2>3 DEF n
<1> QED BY <1>2, <1>8, <1>9

LEMMA SquaresAre ==
  /\ IsFiniteSet(Squares)
  /\ \A c \in Squares : /\ c = <<c[1], c[2]>> /\ c[1] \in Int /\ c[2] \in Int
                        /\ 0 <= c[1] /\ c[1] <= N - 1 /\ 0 <= c[2] /\ c[2] <= N - 1
  /\ \A x, y \in Int : 0 <= x /\ x <= N - 1 /\ 0 <= y /\ y <= N - 1 => <<x, y>> \in Squares
  /\ \A c, d \in Squares : d \in NextTo(c) => c \in NextTo(d)
<1>n. N \in Nat /\ N >= 1
  BY MazeAssumption
<1>1. IsFiniteSet(Squares)
  <2>1. IsFiniteSet(0..N-1)
    BY <1>n, FS_Interval
  <2> QED BY <2>1, FS_Product DEF Squares
<1>2. \A c \in Squares : /\ c = <<c[1], c[2]>> /\ c[1] \in Int /\ c[2] \in Int
                         /\ 0 <= c[1] /\ c[1] <= N - 1 /\ 0 <= c[2] /\ c[2] <= N - 1
  BY <1>n DEF Squares
<1>3. \A x, y \in Int : 0 <= x /\ x <= N - 1 /\ 0 <= y /\ y <= N - 1 => <<x, y>> \in Squares
  BY <1>n DEF Squares
<1>4. ASSUME NEW c \in Squares, NEW d \in Squares, d \in NextTo(c)
      PROVE  c \in NextTo(d)
  <2>1. c[1] \in Int /\ c[2] \in Int /\ d[1] \in Int /\ d[2] \in Int
    BY <1>2
  <2>2. \/ d[1] = c[1] /\ d[2] - c[2] \in {-1, 1}
        \/ d[2] = c[2] /\ d[1] - c[1] \in {-1, 1}
    BY <1>4 DEF NextTo
  <2>3. \/ c[1] = d[1] /\ c[2] - d[2] \in {-1, 1}
        \/ c[2] = d[2] /\ c[1] - d[1] \in {-1, 1}
    BY <2>1, <2>2
  <2> QED BY <2>3 DEF NextTo
<1> QED BY <1>1, <1>2, <1>3, <1>4

LEMMA FreeSquaresAre ==
  ASSUME NEW g, NEW blocked
  PROVE  FreeSquares(g, blocked) \subseteq Squares /\ IsFiniteSet(FreeSquares(g, blocked))
<1>1. FreeSquares(g, blocked) \in SUBSET Squares
  BY DEF FreeSquares
<1> QED BY <1>1, SquaresAre, FS_Subset

(* What the program takes for connected is in one piece: from whichever    *)
(* cell the flood starts, a closed part holds that cell or leaves it and   *)
(* all the others out.                                                     *)
LEMMA ConnectedIsJoined ==
  ASSUME NEW g, NEW blocked, IsConnected(g, blocked)
  PROVE  Joined(FreeSquares(g, blocked))
<1> DEFINE free == FreeSquares(g, blocked)
           x == CHOOSE c \in free : TRUE
<1>1. free # {} /\ Flood(free, {x}) = free
  BY DEF IsConnected
<1>2. free \subseteq Squares /\ IsFiniteSet(free)
  BY FreeSquaresAre
<1>3. x \in free
  BY <1>1
<1> HIDE DEF free, x
<1>4. \A R : x \in R /\ Closed(free, R) => free \subseteq R
  <2>1. {x} \in SUBSET free /\ {x} # {}
    BY <1>3
  <2>2. \A R : {x} \subseteq R /\ Closed(free, R) => Flood(free, {x}) \subseteq R
    BY <1>2, <2>1, FloodIs
  <2> QED BY <1>1, <2>2
<1>5. ASSUME NEW R \in SUBSET free, R # {}, Closed(free, R)
      PROVE  R = free
  <2>1. CASE x \in R
    BY <1>4, <1>5, <2>1
  <2>2. CASE x \notin R
    <3>1. ASSUME NEW d \in free, NextTo(d) \cap (free \ R) # {}
          PROVE  d \in free \ R
      <4>1. PICK e \in free \ R : e \in NextTo(d)
        BY <3>1
      <4>2. d \in NextTo(e)
        BY <1>2, <4>1, SquaresAre
      <4>3. d \in R => e \in R
        BY <1>5, <4>1, <4>2 DEF Closed
      <4> QED BY <4>1, <4>3
    <3>2. Closed(free, free \ R)
      BY <3>1 DEF Closed
    <3>3. free \subseteq free \ R
      BY <1>3, <1>4, <2>2, <3>2
    <3> QED BY <1>5, <3>3
  <2> QED BY <2>1, <2>2
<1> QED BY <1>5 DEF Joined, free

(* An empty grid is in one piece: of the cells that a closed part leaves   *)
(* out, the one nearest to a cell of it has a neighbour that is nearer.    *)
LEMMA GridIsJoined == Joined(Squares)
<1> SUFFICES ASSUME NEW R \in SUBSET Squares, R # {}, Closed(Squares, R),
                    NEW q \in Squares, q \notin R
             PROVE  FALSE
  BY DEF Joined
<1> DEFINE Abs(x) == IF x < 0 THEN -x ELSE x
           Far(c, d) == Abs(c[1] - d[1]) + Abs(c[2] - d[2])
<1>1. PICK p \in R : TRUE
  OBVIOUS
<1> DEFINE S == {k \in Nat : \E c \in Squares : c \notin R /\ Far(c, p) = k}
<1>2. p \in Squares /\ p[1] \in Int /\ p[2] \in Int
  BY SquaresAre
<1>3. \A c \in Squares : c[1] \in Int /\ c[2] \in Int /\ Far(c, p) \in Nat
  <2>1. ASSUME NEW c \in Squares
        PROVE  c[1] \in Int /\ c[2] \in Int /\ Far(c, p) \in Nat
    <3>1. c[1] \in Int /\ c[2] \in Int
      BY SquaresAre
    <3> QED BY <1>2, <3>1
  <2> QED BY <2>1
<1>4. PICK k \in S : \A j \in S : k <= j
  <2>1. S \in SUBSET Nat /\ S # {}
    BY <1>3
  <2> HIDE DEF S
  <2> QED BY <2>1, Lowest
<1>5. PICK c \in Squares : c \notin R /\ Far(c, p) = k
  OBVIOUS
<1>6. ASSUME NEW e \in Squares, e \in NextTo(c), Far(e, p) < k
      PROVE  FALSE
  <2>1. e \notin R
    BY <1>5, <1>6 DEF Closed
  <2>2. Far(e, p) \in S
    BY <1>3, <2>1
  <2>3. k <= Far(e, p) /\ k \in Nat /\ Far(e, p) \in Nat
    BY <1>3, <1>4, <2>2
  <2> HIDE DEF Far, S
  <2> QED BY <1>6, <2>3
<1>7. /\ c = <<c[1], c[2]>> /\ c[1] \in Int /\ c[2] \in Int
      /\ 0 <= c[1] /\ c[1] <= N - 1 /\ 0 <= c[2] /\ c[2] <= N - 1
      /\ p = <<p[1], p[2]>>
      /\ 0 <= p[1] /\ p[1] <= N - 1 /\ 0 <= p[2] /\ p[2] <= N - 1
      /\ N \in Nat
  BY <1>2, SquaresAre, MazeAssumption
<1>t. ASSUME NEW x \in Int, NEW y \in Int, 0 <= x, x <= N - 1, 0 <= y, y <= N - 1,
             \/ x = c[1] /\ y - c[2] \in {-1, 1}
             \/ y = c[2] /\ x - c[1] \in {-1, 1},
             Abs(x - p[1]) + Abs(y - p[2]) < k
      PROVE  FALSE
  <2>1. <<x, y>> \in Squares
    BY <1>t, SquaresAre
  <2>2. <<x, y>> \in NextTo(c)
    BY <1>t, <2>1 DEF NextTo
  <2>3. Far(<<x, y>>, p) < k
    BY <1>t
  <2> HIDE DEF Far
  <2> QED BY <1>6, <2>1, <2>2, <2>3
<1>8. c[1] # p[1] \/ c[2] # p[2]
  BY <1>1, <1>5, <1>7
<1>9. Abs(c[1] - p[1]) + Abs(c[2] - p[2]) = k
  BY <1>5
<1> HIDE DEF S, Far
<1>10. CASE c[1] < p[1]
  <2>1. Abs((c[1] + 1) - p[1]) + Abs(c[2] - p[2]) < k
    BY <1>2, <1>7, <1>9, <1>10
  <2>2. c[1] + 1 \in Int /\ 0 <= c[1] + 1 /\ c[1] + 1 <= N - 1 /\ (c[1] + 1) - c[1] \in {-1, 1}
    BY <1>2, <1>7, <1>10
  <2> HIDE DEF Abs
  <2> QED BY <1>7, <1>t, <2>1, <2>2
<1>11. CASE c[1] > p[1]
  <2>1. Abs((c[1] - 1) - p[1]) + Abs(c[2] - p[2]) < k
    BY <1>2, <1>7, <1>9, <1>11
  <2>2. c[1] - 1 \in Int /\ 0 <= c[1] - 1 /\ c[1] - 1 <= N - 1 /\ (c[1] - 1) - c[1] \in {-1, 1}
    BY <1>2, <1>7, <1>11
  <2> HIDE DEF Abs
  <2> QED BY <1>7, <1>t, <2>1, <2>2
<1>12. CASE c[2] < p[2]
  <2>1. Abs(c[1] - p[1]) + Abs((c[2] + 1) - p[2]) < k
    BY <1>2, <1>7, <1>9, <1>12
  <2>2. c[2] + 1 \in Int /\ 0 <= c[2] + 1 /\ c[2] + 1 <= N - 1 /\ (c[2] + 1) - c[2] \in {-1, 1}
    BY <1>2, <1>7, <1>12
  <2> HIDE DEF Abs
  <2> QED BY <1>7, <1>t, <2>1, <2>2
<1>13. CASE c[2] > p[2]
  <2>1. Abs(c[1] - p[1]) + Abs((c[2] - 1) - p[2]) < k
    BY <1>2, <1>7, <1>9, <1>13
  <2>2. c[2] - 1 \in Int /\ 0 <= c[2] - 1 /\ c[2] - 1 <= N - 1 /\ (c[2] - 1) - c[2] \in {-1, 1}
    BY <1>2, <1>7, <1>13
  <2> HIDE DEF Abs
  <2> QED BY <1>7, <1>t, <2>1, <2>2
<1> QED BY <1>2, <1>7, <1>8, <1>10, <1>11, <1>12, <1>13

Material == {"open", "wall", "shelf"}
(* The middle stays open, shelves come after the walls, and what is still  *)
(* to be tried is open.                                                    *)
Laid ==
  /\ grid \in [Squares -> Material]
  /\ stage \in {"walls", "shelves", "barrels", "emit", "done"}
  /\ \A c \in Keepout : grid[c] = "open"
  /\ stage = "walls" => \A c \in Squares : grid[c] # "shelf"
  /\ stage = "shelves" => candidates \subseteq Spare(grid)
(* The air and the floor are each in one piece, at every stage.            *)
InOnePiece ==
  Joined(FreeSquares(grid, Air)) /\ Joined(FreeSquares(grid, Ground))
(* Barrels have a cell each, without a wall: on the floor, or on a shelf.  *)
Standing ==
  stage \in {"emit", "done"} =>
    /\ \A b \in barrels :
         /\ b \in [kind : {"yellow", "red", "toxic"}, cell : Squares, ground : BOOLEAN]
         /\ grid[b.cell] = IF b.ground THEN "open" ELSE "shelf"
         /\ b.kind = "yellow" => b.ground
         /\ b.kind = "red" => ~b.ground
    /\ \A b, c \in barrels : b.cell = c.cell => b = c
Written ==
  stage = "done" =>
    models = {Box("wall", c, 60) : c \in {d \in Squares : grid[d] = "wall"}}
               \cup {Box("shelf", c, 20) : c \in Shelved}
               \cup {Cylinder(b) : b \in barrels}

MazeInd == Laid /\ InOnePiece /\ Standing /\ Written

LEMMA PutIs ==
  ASSUME NEW cells, NEW v \in Material, Laid
  PROVE  /\ Put(grid, cells, v) \in [Squares -> Material]
         /\ \A c \in Squares : Put(grid, cells, v)[c] = IF c \in cells THEN v ELSE grid[c]
<1>1. \A c \in Squares : Put(grid, cells, v)[c] = IF c \in cells THEN v ELSE grid[c]
  BY DEF Put
<1>2. Put(grid, cells, v) = [c \in Squares |-> Put(grid, cells, v)[c]]
  BY DEF Put
<1>3. \A c \in Squares : Put(grid, cells, v)[c] \in Material
  BY <1>1 DEF Laid
<1> HIDE DEF Material
<1> QED BY <1>1, <1>2, <1>3

LEMMA MazeInitInd == MazeInit => MazeInd
<1> SUFFICES ASSUME MazeInit PROVE MazeInd
  OBVIOUS
<1>1. /\ grid \in [Squares -> Material] /\ stage = "walls"
      /\ \A c \in Squares : grid[c] = "open"
  BY DEF MazeInit, Material
<1>2. Keepout \subseteq Squares
  BY MazeAssumption DEF Squares
<1>3. Laid
  BY <1>1, <1>2 DEF Laid
<1>4. FreeSquares(grid, Air) = Squares /\ FreeSquares(grid, Ground) = Squares
  BY <1>1 DEF FreeSquares, Air, Ground
<1>5. InOnePiece
  BY <1>4, GridIsJoined DEF InOnePiece
<1> QED BY <1>1, <1>3, <1>5 DEF MazeInd, Standing, Written

LEMMA TryWallKeeps == MazeInd /\ TryWall => MazeInd'
<1> SUFFICES ASSUME MazeInd, TryWall PROVE MazeInd'
  OBVIOUS
<1>1. stage = "walls" /\ stage' = stage
  BY DEF TryWall
<1>2. PICK cells : Place(cells)
  BY DEF TryWall
<1>3. CASE UNCHANGED grid
  <2>1. Laid' /\ InOnePiece'
    BY <1>1, <1>3 DEF MazeInd, Laid, InOnePiece
  <2> QED BY <1>1, <2>1 DEF MazeInd, Standing, Written
<1>4. CASE /\ CanPlace(cells) /\ IsConnected(Put(grid, cells, "wall"), Air)
           /\ grid' = Put(grid, cells, "wall")
  <2>1. /\ grid' \in [Squares -> Material]
        /\ \A c \in Squares : grid'[c] = IF c \in cells THEN "wall" ELSE grid[c]
    BY <1>4, PutIs DEF MazeInd, Material
  <2>2. cells \subseteq Squares \ Keepout
    BY <1>4 DEF CanPlace
  <2>3. Keepout \subseteq Squares
    BY MazeAssumption DEF Squares
  <2>4. Laid'
    BY <1>1, <2>1, <2>2, <2>3 DEF MazeInd, Laid
  <2>5. FreeSquares(grid', Ground) = FreeSquares(grid', Air)
    BY <1>1, <2>4 DEF Laid, FreeSquares, Air, Ground
  <2>6. Joined(FreeSquares(grid', Air))
    BY <1>4, ConnectedIsJoined
  <2>7. InOnePiece'
    BY <2>5, <2>6 DEF InOnePiece
  <2> QED BY <1>1, <2>4, <2>7 DEF MazeInd, Standing, Written
<1> QED BY <1>2, <1>3, <1>4 DEF Place, Accept

LEMMA TryShelfKeeps ==
  ASSUME MazeInd, NEW c \in candidates, TryShelf(c)
  PROVE  MazeInd'
<1>1. /\ stage = "shelves" /\ stage' = stage /\ candidates' = candidates \ {c}
  BY DEF TryShelf
<1>2. c \in Spare(grid) /\ candidates \subseteq Spare(grid)
  BY <1>1 DEF MazeInd, Laid
<1>3. CASE UNCHANGED grid
  <2>1. Laid' /\ InOnePiece'
    BY <1>1, <1>3 DEF MazeInd, Laid, InOnePiece, Spare
  <2> QED BY <1>1, <2>1 DEF MazeInd, Standing, Written
<1>4. CASE ShelfStays(c) /\ grid' = Put(grid, {c}, "shelf")
  <2>1. /\ grid' \in [Squares -> Material]
        /\ \A d \in Squares : grid'[d] = IF d \in {c} THEN "shelf" ELSE grid[d]
    BY <1>4, PutIs DEF MazeInd, Material
  <2>2. c \in Squares \ Keepout /\ grid[c] = "open"
    BY <1>2 DEF Spare
  <2>3. Keepout \subseteq Squares
    BY MazeAssumption DEF Squares
  <2>4. candidates' \subseteq Spare(grid')
    BY <1>1, <1>2, <2>1 DEF Spare
  <2>5. Laid'
    BY <1>1, <2>1, <2>2, <2>3, <2>4 DEF MazeInd, Laid
  <2>6. FreeSquares(grid', Air) = FreeSquares(grid, Air)
    BY <2>1, <2>2 DEF FreeSquares, Air
  <2>7. Joined(FreeSquares(grid', Ground))
    BY <1>4, ConnectedIsJoined DEF ShelfStays
  <2>8. InOnePiece'
    BY <2>6, <2>7 DEF MazeInd, InOnePiece
  <2> QED BY <1>1, <2>5, <2>8 DEF MazeInd, Standing, Written
<1> QED BY <1>3, <1>4 DEF TryShelf

LEMMA PickBarrelsKeeps == MazeInd /\ PickBarrels => MazeInd'
<1> SUFFICES ASSUME MazeInd, PickBarrels PROVE MazeInd'
  OBVIOUS
<1>1. stage = "barrels" /\ stage' = "emit" /\ grid' = grid
  BY DEF PickBarrels
<1>2. Laid' /\ InOnePiece'
  BY <1>1 DEF MazeInd, Laid, InOnePiece
<1>p. PICK y \in SUBSET Spare(grid), r \in SUBSET Shelved :
        \E t \in SUBSET Left(y \cup r) :
          barrels' = Barrel("yellow", y, TRUE) \cup Barrel("red", r, FALSE)
                       \cup Barrel("toxic", t \ Shelved, TRUE)
                       \cup Barrel("toxic", t \cap Shelved, FALSE)
  BY DEF PickBarrels, Draws
<1>3. PICK t \in SUBSET Left(y \cup r) :
        barrels' = Barrel("yellow", y, TRUE) \cup Barrel("red", r, FALSE)
                     \cup Barrel("toxic", t \ Shelved, TRUE)
                     \cup Barrel("toxic", t \cap Shelved, FALSE)
  BY <1>p
<1>4. ASSUME NEW b \in barrels'
      PROVE  /\ b \in [kind : {"yellow", "red", "toxic"}, cell : Squares, ground : BOOLEAN]
             /\ grid[b.cell] = IF b.ground THEN "open" ELSE "shelf"
             /\ b.kind = "yellow" => b.ground
             /\ b.kind = "red" => ~b.ground
             /\ \/ b.cell \in y /\ b = [kind |-> "yellow", cell |-> b.cell, ground |-> TRUE]
                \/ b.cell \in r /\ b = [kind |-> "red", cell |-> b.cell, ground |-> FALSE]
                \/ b.cell \in t \ Shelved /\ b = [kind |-> "toxic", cell |-> b.cell, ground |-> TRUE]
                \/ b.cell \in t \cap Shelved
                   /\ b = [kind |-> "toxic", cell |-> b.cell, ground |-> FALSE]
  <2>1. \/ \E c \in y : b = [kind |-> "yellow", cell |-> c, ground |-> TRUE]
        \/ \E c \in r : b = [kind |-> "red", cell |-> c, ground |-> FALSE]
        \/ \E c \in t \ Shelved : b = [kind |-> "toxic", cell |-> c, ground |-> TRUE]
        \/ \E c \in t \cap Shelved : b = [kind |-> "toxic", cell |-> c, ground |-> FALSE]
    BY <1>3 DEF Barrel
  <2>2. /\ \A c \in y : c \in Squares /\ grid[c] = "open"
        /\ \A c \in r : c \in Squares /\ grid[c] = "shelf"
        /\ \A c \in t \ Shelved : c \in Squares /\ grid[c] = "open"
        /\ \A c \in t \cap Shelved : c \in Squares /\ grid[c] = "shelf"
    BY <1>3 DEF Left, Spare, Shelved
  <2>3. CASE \E c \in y : b = [kind |-> "yellow", cell |-> c, ground |-> TRUE]
    BY <2>2, <2>3
  <2>4. CASE \E c \in r : b = [kind |-> "red", cell |-> c, ground |-> FALSE]
    BY <2>2, <2>4
  <2>5. CASE \E c \in t \ Shelved : b = [kind |-> "toxic", cell |-> c, ground |-> TRUE]
    BY <2>2, <2>5
  <2>6. CASE \E c \in t \cap Shelved : b = [kind |-> "toxic", cell |-> c, ground |-> FALSE]
    BY <2>2, <2>6
  <2> QED BY <2>1, <2>3, <2>4, <2>5, <2>6
<1>5. ASSUME NEW b \in barrels', NEW c \in barrels', b.cell = c.cell
      PROVE  b = c
  <2>1. /\ y \cap r = {} /\ t \cap y = {} /\ t \cap r = {}
    BY <1>3 DEF Left, Spare, Shelved
  <2> QED BY <1>4, <1>5, <2>1
<1>6. Standing'
  BY <1>1, <1>4, <1>5 DEF Standing
<1>7. Written'
  BY <1>1 DEF Written
<1> QED BY <1>2, <1>6, <1>7 DEF MazeInd

LEMMA MazeStep == MazeInd /\ [MazeNext]_mazeVars => MazeInd'
<1> SUFFICES ASSUME MazeInd, [MazeNext]_mazeVars PROVE MazeInd'
  OBVIOUS
<1>1. CASE TryWall
  BY <1>1, TryWallKeeps
<1>2. CASE WallsDone
  <2>1. stage' = "shelves" /\ candidates' = Spare(grid) /\ grid' = grid
    BY <1>2 DEF WallsDone
  <2>2. Laid'
    BY <2>1 DEF MazeInd, Laid, Spare
  <2>3. InOnePiece'
    BY <2>1 DEF MazeInd, InOnePiece
  <2> QED BY <2>1, <2>2, <2>3 DEF MazeInd, Standing, Written
<1>3. CASE \E c \in candidates : TryShelf(c)
  BY <1>3, TryShelfKeeps
<1>4. CASE ShelvesDone
  <2>1. stage' = "barrels" /\ grid' = grid
    BY <1>4 DEF ShelvesDone
  <2>2. Laid'
    BY <2>1 DEF MazeInd, Laid
  <2>3. InOnePiece'
    BY <2>1 DEF MazeInd, InOnePiece
  <2> QED BY <2>1, <2>2, <2>3 DEF MazeInd, Standing, Written
<1>5. CASE PickBarrels
  BY <1>5, PickBarrelsKeeps
<1>6. CASE Emit
  <2>1. stage = "emit" /\ stage' = "done" /\ grid' = grid /\ barrels' = barrels
    BY <1>6 DEF Emit
  <2>2. Laid' /\ InOnePiece'
    BY <2>1 DEF MazeInd, Laid, InOnePiece
  <2>3. Standing'
    BY <2>1 DEF MazeInd, Standing
  <2>4. Shelved' = Shelved
    BY <2>1 DEF Shelved
  <2>5. Written'
    BY <1>6, <2>1, <2>4 DEF Written, Emit
  <2> QED BY <2>2, <2>3, <2>5 DEF MazeInd
<1>7. CASE UNCHANGED mazeVars
  <2>1. UNCHANGED <<grid, candidates, stage, barrels, models>>
    BY <1>7 DEF mazeVars
  <2>2. Laid' /\ InOnePiece'
    BY <2>1 DEF MazeInd, Laid, InOnePiece, Spare
  <2>3. Standing'
    BY <2>1 DEF MazeInd, Standing
  <2>4. Written'
    BY <2>1 DEF MazeInd, Written, Shelved
  <2> QED BY <2>2, <2>3, <2>4 DEF MazeInd
<1> QED BY <1>1, <1>2, <1>3, <1>4, <1>5, <1>6, <1>7 DEF MazeNext

LEMMA ReachedIsAll == MazeInd => NobodyShutIn
<1> SUFFICES ASSUME MazeInd, NEW blocked \in {Air, Ground}
             PROVE  Flood(FreeSquares(grid, blocked), Keepout) = FreeSquares(grid, blocked)
  BY DEF NobodyShutIn
<1> DEFINE free == FreeSquares(grid, blocked)
<1>1. Keepout \in SUBSET free /\ Keepout # {}
  BY MazeAssumption DEF MazeInd, Laid, FreeSquares, Squares, Air, Ground
<1>2. Joined(free) /\ IsFiniteSet(free)
  BY FreeSquaresAre DEF MazeInd, InOnePiece
<1> HIDE DEF free
<1>3. /\ Keepout \subseteq Flood(free, Keepout) /\ Flood(free, Keepout) \subseteq free
      /\ Closed(free, Flood(free, Keepout))
  BY <1>1, <1>2, FloodIs
<1>4. Flood(free, Keepout) = free
  BY <1>1, <1>2, <1>3 DEF Joined
<1> QED BY <1>4 DEF free

LEMMA NothingIsInside == MazeInd => NothingOverlaps
<1> SUFFICES ASSUME MazeInd, stage = "done" PROVE NothingOverlaps
  BY DEF NothingOverlaps
<1>1. ASSUME NEW m \in models
      PROVE  \/ \E c \in Squares : grid[c] = "wall" /\ m = Box("wall", c, 60)
             \/ \E c \in Squares : grid[c] = "shelf" /\ m = Box("shelf", c, 20)
             \/ \E b \in barrels : m = Cylinder(b)
  BY DEF MazeInd, Written, Shelved
<1>2. ASSUME NEW b \in barrels
      PROVE  /\ Cylinder(b).kind = b.kind /\ Cylinder(b).cell = b.cell
             /\ Cylinder(b).bottom = IF b.ground THEN 0 ELSE 20
             /\ grid[b.cell] = IF b.ground THEN "open" ELSE "shelf"
             /\ b.kind \in {"yellow", "red", "toxic"}
             /\ b.kind = "yellow" => b.ground
             /\ b.kind = "red" => ~b.ground
  BY DEF Cylinder, MazeInd, Standing
<1>3. \A b, c \in barrels : b.cell = c.cell => b = c
  BY DEF MazeInd, Standing
<1>4. \A k, c, h : Box(k, c, h).kind = k /\ Box(k, c, h).cell = c /\ Box(k, c, h).bottom = 0
                   /\ Box(k, c, h).top = h
  BY DEF Box
<1>5. ASSUME NEW m \in models, NEW n \in models, m.cell = n.cell, m # n
      PROVE  m.bottom >= n.top \/ n.bottom >= m.top
  <2>1. CASE \E b \in barrels : m = Cylinder(b)
    <3>1. CASE \E b \in barrels : n = Cylinder(b)
      BY <1>2, <1>3, <1>5, <2>1, <3>1
    <3>2. CASE \E c \in Squares : grid[c] = "wall" /\ n = Box("wall", c, 60)
      BY <1>2, <1>4, <1>5, <2>1, <3>2
    <3>3. CASE \E c \in Squares : grid[c] = "shelf" /\ n = Box("shelf", c, 20)
      BY <1>2, <1>4, <1>5, <2>1, <3>3
    <3> QED BY <1>1, <3>1, <3>2, <3>3
  <2>2. CASE \E b \in barrels : n = Cylinder(b)
    <3>1. CASE \E c \in Squares : grid[c] = "wall" /\ m = Box("wall", c, 60)
      BY <1>2, <1>4, <1>5, <2>2, <3>1
    <3>2. CASE \E c \in Squares : grid[c] = "shelf" /\ m = Box("shelf", c, 20)
      BY <1>2, <1>4, <1>5, <2>2, <3>2
    <3> QED BY <1>1, <2>1, <3>1, <3>2
  <2>3. CASE ~(\E b \in barrels : m = Cylinder(b)) /\ ~(\E b \in barrels : n = Cylinder(b))
    BY <1>1, <1>4, <1>5, <2>3
  <2> QED BY <2>1, <2>2, <2>3
<1>6. ASSUME NEW m \in models
      PROVE  (m.kind = "red" => m.bottom = 20) /\ (m.kind = "yellow" => m.bottom = 0)
  BY <1>1, <1>2, <1>4
<1> QED BY <1>3, <1>5, <1>6 DEF NothingOverlaps

(* For every grid, every set of shapes and every number of things: what is *)
(* written can be flown from the middle, and each thing has its place.     *)
THEOREM MazeHolds == MazeSpec => []MazeWorld
<1>1. MazeInd => MazeWorld
  BY ReachedIsAll, NothingIsInside DEF MazeWorld
<1> QED BY <1>1, MazeInitInd, MazeStep, PTL DEF MazeSpec

-----------------------------------------------------------------------------
(* Scorer: the log in order.                                               *)

(* A first element, then the others in order: any number of lines can be   *)
(* sorted by time and, of equal times, by place.                           *)
SortedBy(o, S, n, lines) ==
  /\ o \in [1..n -> S]
  /\ \A k, m \in 1..n : k < m => Before(lines, o[k], o[m])
  /\ \A i \in S : \E k \in 1..n : o[k] = i

LEMMA FirstLine ==
  ASSUME NEW lines, NEW S \in SUBSET Nat, S # {}, \A i \in S : lines[i].t \in Nat
  PROVE  \E i \in S : \A j \in S \ {i} : Before(lines, i, j)
<1> DEFINE T == {lines[i].t : i \in S}
<1>1. PICK t \in T : \A u \in T : t <= u
  <2>1. T \in SUBSET Nat /\ T # {}
    OBVIOUS
  <2> HIDE DEF T
  <2> QED BY <2>1, Lowest
<1> DEFINE U == {i \in S : lines[i].t = t}
<1>2. PICK i \in U : \A j \in U : i <= j
  <2>1. U \in SUBSET Nat /\ U # {}
    BY <1>1
  <2> HIDE DEF U
  <2> QED BY <2>1, Lowest
<1>3. ASSUME NEW j \in S \ {i}
      PROVE  Before(lines, i, j)
  <2>1. lines[i].t \in Nat /\ lines[j].t \in Nat /\ lines[i].t = t /\ t <= lines[j].t
    BY <1>1, <1>2
  <2>2. CASE lines[j].t = t
    <3>1. i <= j /\ i \in Nat /\ j \in Nat /\ i # j
      BY <1>2, <1>3, <2>2
    <3> QED BY <2>1, <2>2, <3>1 DEF Before
  <2>3. CASE lines[j].t # t
    BY <2>1, <2>3 DEF Before
  <2> QED BY <2>2, <2>3
<1> QED BY <1>2, <1>3

LEMMA SortingExists ==
  ASSUME NEW lines
  PROVE  \A n \in Nat : \A S \in SUBSET Nat :
           IsFiniteSet(S) /\ Cardinality(S) = n /\ (\A i \in S : lines[i].t \in Nat)
             => \E o : SortedBy(o, S, n, lines)
<1> DEFINE Fits(S, n) == /\ S \in SUBSET Nat /\ IsFiniteSet(S) /\ Cardinality(S) = n
                         /\ \A i \in S : lines[i].t \in Nat
           M == {n \in Nat : \A S : Fits(S, n) => \E o : SortedBy(o, S, n, lines)}
<1>1. 0 \in M
  <2>1. ASSUME NEW S, Fits(S, 0)
        PROVE  \E o : SortedBy(o, S, 0, lines)
    <3>1. S = {}
      BY <2>1, FS_EmptySet
    <3> DEFINE e == [k \in 1..0 |-> 0]
    <3>2. 1..0 = {}
      OBVIOUS
    <3>3. SortedBy(e, S, 0, lines)
      BY <3>1, <3>2 DEF SortedBy
    <3> QED BY <3>3
  <2> QED BY <2>1
<1>2. ASSUME NEW n \in M
      PROVE  n + 1 \in M
  <2>0. n \in Nat /\ n + 1 \in Nat
    BY <1>2
  <2>1. ASSUME NEW S, Fits(S, n + 1)
        PROVE  \E o : SortedBy(o, S, n + 1, lines)
    <3>1. S \in SUBSET Nat /\ S # {}
      BY <2>0, <2>1, FS_EmptySet
    <3>2. PICK f \in S : \A j \in S \ {f} : Before(lines, f, j)
      BY <2>1, <3>1, FirstLine
    <3>3. Fits(S \ {f}, n)
      <4>1. IsFiniteSet(S \ {f}) /\ Cardinality(S \ {f}) = Cardinality(S) - 1
        BY <2>1, FS_RemoveElement
      <4>2. Cardinality(S \ {f}) = n
        BY <2>0, <2>1, <4>1
      <4> QED BY <2>1, <4>1, <4>2
    <3>4. PICK o : SortedBy(o, S \ {f}, n, lines)
      BY <1>2, <3>3
    <3> DEFINE p == [k \in 1..(n + 1) |-> IF k = 1 THEN f ELSE o[k - 1]]
    <3>5. \A k \in 1..(n + 1) : k # 1 => k - 1 \in 1..n
      BY <2>0
    <3>6. p \in [1..(n + 1) -> S]
      BY <3>4, <3>5 DEF SortedBy
    <3>7. ASSUME NEW k \in 1..(n + 1), NEW m \in 1..(n + 1), k < m
          PROVE  Before(lines, p[k], p[m])
      <4>1. m # 1 /\ m - 1 \in 1..n /\ p[m] = o[m - 1]
        BY <2>0, <3>5, <3>7
      <4>2. o[m - 1] \in S \ {f}
        BY <3>4, <4>1 DEF SortedBy
      <4>3. CASE k = 1
        BY <3>2, <4>1, <4>2, <4>3
      <4>4. CASE k # 1
        <5>1. k - 1 \in 1..n /\ p[k] = o[k - 1] /\ k - 1 < m - 1
          BY <2>0, <3>5, <3>7, <4>4
        <5> QED BY <3>4, <4>1, <5>1 DEF SortedBy
      <4> QED BY <4>3, <4>4
    <3>8. ASSUME NEW i \in S
          PROVE  \E k \in 1..(n + 1) : p[k] = i
      <4>1. CASE i = f
        <5>1. 1 \in 1..(n + 1) /\ p[1] = f
          BY <2>0
        <5> QED BY <4>1, <5>1
      <4>2. CASE i # f
        <5>1. PICK k \in 1..n : o[k] = i
          BY <3>4, <4>2 DEF SortedBy
        <5>2. k + 1 \in 1..(n + 1) /\ k + 1 # 1 /\ (k + 1) - 1 = k
          BY <2>0
        <5>3. p[k + 1] = i
          BY <5>1, <5>2
        <5> QED BY <5>2, <5>3
      <4> QED BY <4>1, <4>2
    <3>9. SortedBy(p, S, n + 1, lines)
      <4> HIDE DEF p
      <4> QED BY <3>6, <3>7, <3>8 DEF SortedBy
    <3> QED BY <3>9
  <2> QED BY <2>0, <2>1
<1>3. \A n \in Nat : n \in M
  <2>1. M \in SUBSET Nat
    OBVIOUS
  <2> HIDE DEF M
  <2> QED BY <1>1, <1>2, <2>1, Induct
<1> QED BY <1>3

(* What load_run_log returns: the lines that can be read, each of them, by *)
(* the time.                                                               *)
LEMMA SortedIs ==
  ASSUME NEW lines \in Seq(Detections \cup {Bad})
  PROVE  LET n == Cardinality(Whole(lines))
             s == Sorted(lines)
         IN  /\ n \in Nat /\ s \in Seq(Detections) /\ Len(s) = n
             /\ \A k, m \in 1..n : k < m => s[k].t <= s[m].t
             /\ \A k \in 1..n : \E i \in Whole(lines) : s[k] = lines[i]
             /\ \A i \in Whole(lines) : \E k \in 1..n : s[k] = lines[i]
<1> DEFINE S == Whole(lines)
           n == Cardinality(S)
           s == Sorted(lines)
           order == CHOOSE o \in [1..n -> S] : IsSorting(o, lines)
<1>1. S \in SUBSET Nat /\ IsFiniteSet(S)
  <2>1. DOMAIN lines = 1..Len(lines) /\ Len(lines) \in Nat
    OBVIOUS
  <2>2. IsFiniteSet(1..Len(lines))
    BY <2>1, FS_Interval
  <2>3. S \in SUBSET (1..Len(lines))
    BY <2>1 DEF Whole
  <2> QED BY <2>2, <2>3, FS_Subset
<1>2. \A i \in S : lines[i] \in Detections /\ lines[i].t \in Nat
  <2>1. \A i \in S : lines[i] \in Detections
    BY DEF Whole
  <2>2. \A d \in Detections : d.t \in Nat
    BY ScorerAssumption DEF Detections
  <2> QED BY <2>1, <2>2
<1>3. n \in Nat
  BY <1>1, FS_CardinalityType
<1>4. PICK o : SortedBy(o, S, n, lines)
  <2> HIDE DEF S
  <2> QED BY <1>1, <1>2, <1>3, SortingExists
<1>5. o \in [1..n -> S] /\ IsSorting(o, lines)
  <2>1. o \in [1..n -> S] /\ DOMAIN o = 1..n
    BY <1>4 DEF SortedBy
  <2> QED BY <1>4, <2>1 DEF SortedBy, IsSorting
<1>6. order \in [1..n -> S] /\ IsSorting(order, lines)
  <2> HIDE DEF S, n
  <2> QED BY <1>5
<1>7. s = [k \in 1..n |-> lines[order[k]]]
  BY DEF Sorted
<1> HIDE DEF S, n, order, s
<1>8. DOMAIN order = 1..n /\ \A k \in 1..n : order[k] \in S /\ s[k] = lines[order[k]]
  BY <1>6, <1>7
<1>9. s \in Seq(Detections) /\ Len(s) = n
  <2>1. \A k \in 1..n : lines[order[k]] \in Detections
    BY <1>2, <1>8
  <2>2. s \in [1..n -> Detections]
    BY <1>7, <2>1
  <2> QED BY <1>3, <2>2
<1>10. ASSUME NEW k \in 1..n, NEW m \in 1..n, k < m
       PROVE  s[k].t <= s[m].t
  <2>1. Before(lines, order[k], order[m])
    BY <1>6, <1>8, <1>10 DEF IsSorting
  <2>2. lines[order[k]].t \in Nat /\ lines[order[m]].t \in Nat
    BY <1>2, <1>8
  <2> QED BY <1>8, <2>1, <2>2 DEF Before
<1>11. \A k \in 1..n : \E i \in S : s[k] = lines[i]
  BY <1>8
<1>12. \A i \in S : \E k \in 1..n : s[k] = lines[i]
  BY <1>6, <1>8 DEF IsSorting, S
<1> QED BY <1>3, <1>9, <1>10, <1>11, <1>12 DEF S, n, s

(* No detection is near two barrels.                                       *)
LEMMA SquareBetween ==
  ASSUME NEW a \in Int, NEW b \in Int, NEW c \in Int, NEW d \in Int,
         a * a + b * b <= 9, c * c + d * d <= 9
  PROVE  (a - c) * (a - c) + (b - d) * (b - d) <= 36
<1>1. (a + c) * (a + c) >= 0 /\ (b + d) * (b + d) >= 0
  <2>1. \A x \in Int : x * x >= 0
    OBVIOUS
  <2> QED BY <2>1
<1>2. /\ (a - c) * (a - c) + (a + c) * (a + c) = 2 * (a * a) + 2 * (c * c)
      /\ (b - d) * (b - d) + (b + d) * (b + d) = 2 * (b * b) + 2 * (d * d)
  OBVIOUS
<1>3. /\ (a - c) * (a - c) \in Int /\ (a + c) * (a + c) \in Int /\ a * a \in Int /\ c * c \in Int
      /\ (b - d) * (b - d) \in Int /\ (b + d) * (b + d) \in Int /\ b * b \in Int /\ d * d \in Int
  OBVIOUS
<1> QED BY <1>1, <1>2, <1>3

LEMMA NearOneOnly ==
  ASSUME truth \in Truths, NEW d \in Detections, NEW b \in truth, NEW c \in truth,
         IsNear(d, b), IsNear(d, c)
  PROVE  b = c
<1>1. /\ b \in Barrels /\ c \in Barrels
      /\ b.at \in BarrelPlaces /\ c.at \in BarrelPlaces /\ d.at \in Spots
  BY DEF Truths, Barrels, Detections
<1>2. /\ b.at[1] \in Int /\ b.at[2] \in Int /\ c.at[1] \in Int /\ c.at[2] \in Int
      /\ d.at[1] \in Int /\ d.at[2] \in Int
  BY <1>1, ScorerAssumption
<1>3. /\ (d.at[1] - b.at[1]) * (d.at[1] - b.at[1]) + (d.at[2] - b.at[2]) * (d.at[2] - b.at[2]) <= 9
      /\ (d.at[1] - c.at[1]) * (d.at[1] - c.at[1]) + (d.at[2] - c.at[2]) * (d.at[2] - c.at[2]) <= 9
  BY DEF IsNear, Within, MATCH_RADIUS
<1> DEFINE x == d.at[1] - b.at[1]
           y == d.at[2] - b.at[2]
           u == d.at[1] - c.at[1]
           v == d.at[2] - c.at[2]
<1>4. x \in Int /\ y \in Int /\ u \in Int /\ v \in Int
  BY <1>2
<1>5. (x - u) * (x - u) + (y - v) * (y - v) <= 36
  <2> HIDE DEF x, y, u, v
  <2>1. x * x + y * y <= 9 /\ u * u + v * v <= 9
    BY <1>3 DEF x, y, u, v
  <2> QED BY <1>4, <2>1, SquareBetween
<1>6. x - u = c.at[1] - b.at[1] /\ y - v = c.at[2] - b.at[2]
  BY <1>2
<1>7. Within(c.at, b.at, 2 * MATCH_RADIUS)
  <2>1. (2 * MATCH_RADIUS) * (2 * MATCH_RADIUS) = 36
    BY DEF MATCH_RADIUS
  <2> HIDE DEF x, y, u, v
  <2> QED BY <1>5, <1>6, <2>1 DEF Within
<1>8. c.at = b.at
  BY <1>1, <1>7, ScorerAssumption
<1> QED BY <1>8 DEF Truths

(* If a barrel that is shown has not been found, it is the one taken.      *)
LEMMA ClosestIs ==
  ASSUME truth \in Truths, NEW d \in Detections, NEW b \in truth, Shows(d, b), matched[b] = Unfound
  PROVE  ClosestTo(d) = {b}
<1>1. b \in Candidates(d) /\ IsNear(d, b)
  BY DEF Candidates, Shows
<1> DEFINE Sq(z) == (d.at[1] - z.at[1]) * (d.at[1] - z.at[1])
                      + (d.at[2] - z.at[2]) * (d.at[2] - z.at[2])
<1>2. \A z \in truth : Sq(z) \in Int /\ (IsNear(d, z) <=> Sq(z) <= 9)
  <2>1. ASSUME NEW z \in truth
        PROVE  Sq(z) \in Int /\ (IsNear(d, z) <=> Sq(z) <= 9)
    <3>1. z.at[1] \in Int /\ z.at[2] \in Int /\ d.at[1] \in Int /\ d.at[2] \in Int
      <4>1. z.at \in BarrelPlaces /\ d.at \in Spots
        BY DEF Truths, Barrels, Detections
      <4> QED BY <4>1, ScorerAssumption
    <3> QED BY <3>1 DEF IsNear, Within, MATCH_RADIUS
  <2> QED BY <2>1
<1>3. \A y, z : Nearer(d, y, z) <=> Sq(y) <= Sq(z)
  BY DEF Nearer
<1> HIDE DEF Sq
<1>4. \A z \in truth : Sq(z) <= Sq(b) => z = b
  <2>1. ASSUME NEW z \in truth, Sq(z) <= Sq(b)
        PROVE  z = b
    <3>1. Sq(z) <= 9
      BY <1>1, <1>2, <2>1
    <3> QED BY <1>1, <1>2, <2>1, <3>1, NearOneOnly
  <2> QED BY <2>1
<1>5. \A z \in truth : Sq(b) <= Sq(z)
  <2>1. ASSUME NEW z \in truth
        PROVE  Sq(b) <= Sq(z)
    <3>1. Sq(z) \in Int /\ Sq(b) \in Int
      BY <1>2
    <3>2. CASE Sq(z) <= Sq(b)
      BY <1>4, <3>1, <3>2
    <3> QED BY <3>1, <3>2
  <2> QED BY <2>1
<1>6. Candidates(d) \subseteq truth
  BY DEF Candidates
<1>7. ASSUME NEW z \in ClosestTo(d)
      PROVE  z = b
  BY <1>1, <1>3, <1>4, <1>6 DEF ClosestTo
<1>8. b \in ClosestTo(d)
  BY <1>1, <1>3, <1>5, <1>6 DEF ClosestTo
<1> QED BY <1>7, <1>8

(* After k lines a barrel that they show has the first time they show it,  *)
(* and the others are not found.                                           *)
ReadFrom(s, k) ==
  /\ dets \in Seq(Detections) /\ Len(dets) = Len(s) - k
  /\ \A i \in 1..Len(dets) : dets[i] = s[k + i]
FoundAt(s, k, b) ==
  /\ matched[b] = Unfound => \A j \in 1..k : ~Shows(s[j], b)
  /\ matched[b] # Unfound => \E j \in 1..k :
       /\ Shows(s[j], b) /\ matched[b] = s[j].t
       /\ \A i \in 1..k : Shows(s[i], b) => s[j].t <= s[i].t
Logged ==
  /\ truth \in Truths /\ log \in Seq(Detections \cup {Bad})
  /\ phase \in {"logging", "matching", "scored"}
  /\ matched \in [truth -> Nat \cup {Unfound}]
  /\ phase = "logging" => matched = [b \in truth |-> Unfound]
MatchedSoFar ==
  phase = "matching" =>
    \E k \in 0..Len(Sorted(log)) :
      ReadFrom(Sorted(log), k) /\ \A b \in truth : FoundAt(Sorted(log), k, b)

ScoreInd == Logged /\ MatchedSoFar /\ ScoreIsTheRules

LEMMA SortedLog ==
  ASSUME Logged
  PROVE  /\ Sorted(log) \in Seq(Detections) /\ Len(Sorted(log)) \in Nat
         /\ \A k \in 1..Len(Sorted(log)) : Sorted(log)[k] \in Detections /\ Sorted(log)[k].t \in Nat
         /\ \A k, m \in 1..Len(Sorted(log)) : k < m => Sorted(log)[k].t <= Sorted(log)[m].t
         /\ \A k \in 1..Len(Sorted(log)) : \E i \in Whole(log) : Sorted(log)[k] = log[i]
         /\ \A i \in Whole(log) : \E k \in 1..Len(Sorted(log)) : Sorted(log)[k] = log[i]
<1> DEFINE s == Sorted(log)
           n == Cardinality(Whole(log))
<1>1. log \in Seq(Detections \cup {Bad})
  BY DEF Logged
<1>2. /\ n \in Nat /\ s \in Seq(Detections) /\ Len(s) = n
      /\ \A k, m \in 1..n : k < m => s[k].t <= s[m].t
      /\ \A k \in 1..n : \E i \in Whole(log) : s[k] = log[i]
      /\ \A i \in Whole(log) : \E k \in 1..n : s[k] = log[i]
  BY <1>1, SortedIs
<1> HIDE DEF s, n
<1>3. \A k \in 1..Len(s) : s[k] \in Detections
  BY <1>2
<1>4. \A d \in Detections : d.t \in Nat
  BY ScorerAssumption DEF Detections
<1>5. s \in Seq(Detections) /\ Len(s) \in Nat
  BY <1>2
<1>6. /\ \A k, m \in 1..Len(s) : k < m => s[k].t <= s[m].t
      /\ \A k \in 1..Len(s) : \E i \in Whole(log) : s[k] = log[i]
      /\ \A i \in Whole(log) : \E k \in 1..Len(s) : s[k] = log[i]
  BY <1>2
<1> QED BY <1>3, <1>4, <1>5, <1>6 DEF s

LEMMA ScorerInitInd == ScorerInit => ScoreInd
<1> SUFFICES ASSUME ScorerInit PROVE ScoreInd
  OBVIOUS
<1>1. Logged
  BY DEF ScorerInit, Logged
<1> QED BY <1>1 DEF ScorerInit, ScoreInd, MatchedSoFar, ScoreIsTheRules

LEMMA WriteKeeps == ASSUME ScoreInd, NEW line \in Detections \cup {Bad}, Write(line) PROVE ScoreInd'
<1>1. phase = "logging" /\ phase' = "logging" /\ log' = Append(log, line)
      /\ UNCHANGED <<truth, matched>>
  BY DEF Write
<1>2. log' \in Seq(Detections \cup {Bad})
  <2> DEFINE D == Detections \cup {Bad}
  <2>1. log \in Seq(D) /\ line \in D
    BY DEF ScoreInd, Logged
  <2> HIDE DEF D
  <2>2. log' \in Seq(D)
    BY <1>1, <2>1
  <2> QED BY <2>2 DEF D
<1>3. Logged'
  BY <1>1, <1>2 DEF ScoreInd, Logged
<1> QED BY <1>1, <1>3 DEF ScoreInd, MatchedSoFar, ScoreIsTheRules

LEMMA LoadKeeps == ScoreInd /\ LoadRunLog => ScoreInd'
<1> SUFFICES ASSUME ScoreInd, LoadRunLog PROVE ScoreInd'
  OBVIOUS
<1>1. phase = "logging" /\ phase' = "matching" /\ dets' = Sorted(log)
      /\ UNCHANGED <<truth, log, matched>>
  BY DEF LoadRunLog
<1>2. Logged'
  BY <1>1 DEF ScoreInd, Logged
<1> DEFINE s == Sorted(log)
<1>3. s \in Seq(Detections) /\ Len(s) \in Nat
  BY SortedLog DEF ScoreInd
<1>4. \A b \in truth : matched[b] = Unfound
  BY <1>1 DEF ScoreInd, Logged
<1>5. ReadFrom(s, 0)'
  <2> HIDE DEF s
  <2>1. s' = s /\ dets' = s
    BY <1>1 DEF s
  <2> QED BY <1>3, <2>1 DEF ReadFrom
<1>6. \A b \in truth : FoundAt(s, 0, b)'
  BY <1>1, <1>4 DEF FoundAt
<1>7. 0 \in 0..Len(s)
  BY <1>3
<1>8. MatchedSoFar'
  <2>1. s' = s /\ truth' = truth
    BY <1>1
  <2> QED BY <1>5, <1>6, <1>7, <2>1 DEF MatchedSoFar
<1> QED BY <1>1, <1>2, <1>8 DEF ScoreInd, ScoreIsTheRules

LEMMA TakeKeeps == ScoreInd /\ Take => ScoreInd'
<1> SUFFICES ASSUME ScoreInd, Take PROVE ScoreInd'
  OBVIOUS
<1>1. phase = "matching" /\ phase' = "matching" /\ dets # <<>> /\ dets' = Tail(dets)
      /\ UNCHANGED <<truth, log>>
  BY DEF Take
<1> DEFINE s == Sorted(log)
           d == Head(dets)
<1>2. PICK k \in 0..Len(s) : ReadFrom(s, k) /\ \A b \in truth : FoundAt(s, k, b)
  BY <1>1 DEF ScoreInd, MatchedSoFar
<1>3. /\ s \in Seq(Detections) /\ Len(s) \in Nat
      /\ \A m \in 1..Len(s) : s[m] \in Detections /\ s[m].t \in Nat
      /\ \A j, m \in 1..Len(s) : j < m => s[j].t <= s[m].t
  BY SortedLog DEF ScoreInd
<1> HIDE DEF s
<1>4. k \in Nat /\ k + 1 \in 1..Len(s) /\ d = s[k + 1] /\ d \in Detections
  <2>1. Len(dets) >= 1 /\ d = dets[1]
    BY <1>1, <1>2 DEF ReadFrom
  <2>2. 1 \in 1..Len(dets)
    BY <1>2, <2>1 DEF ReadFrom
  <2>3. k + 1 \in 1..Len(s)
    BY <1>2, <1>3, <2>1 DEF ReadFrom
  <2> QED BY <1>2, <1>3, <2>1, <2>2, <2>3 DEF ReadFrom
<1>5. s' = s /\ truth' = truth
  BY <1>1 DEF s
<1>6. ReadFrom(s, k + 1)'
  <2>1. /\ dets' \in Seq(Detections) /\ Len(dets') = Len(dets) - 1
        /\ \A i \in 1..Len(dets') : dets'[i] = dets[i + 1]
    BY <1>1, <1>2 DEF ReadFrom
  <2>2. Len(dets) \in Nat /\ Len(dets) = Len(s) - k /\ Len(dets) # 0
    BY <1>1, <1>2 DEF ReadFrom
  <2>3. Len(dets') = Len(s) - (k + 1)
    BY <1>3, <1>4, <2>1, <2>2
  <2>4. ASSUME NEW i \in 1..Len(dets')
        PROVE  dets'[i] = s[(k + 1) + i]
    <3>0. i \in Int /\ 1 <= i /\ i <= Len(dets) - 1 /\ k \in Int
      BY <1>4, <2>1, <2>2
    <3>1. i + 1 \in 1..Len(dets) /\ k + (i + 1) = (k + 1) + i
      BY <2>2, <3>0
    <3> QED BY <1>2, <2>1, <3>1 DEF ReadFrom
  <2> QED BY <1>5, <2>1, <2>3, <2>4 DEF ReadFrom
<1>7. truth \in Truths /\ matched \in [truth -> Nat \cup {Unfound}] /\ d.t \in Nat
  BY <1>3, <1>4 DEF ScoreInd, Logged
<1>8. \/ \E c \in ClosestTo(d) : IsNear(d, c) /\ matched' = [matched EXCEPT ![c] = d.t]
      \/ UNCHANGED matched /\ (ClosestTo(d) = {} \/ \E c \in ClosestTo(d) : ~IsNear(d, c))
  BY DEF Take, Match, Miss
<1>9. \A c \in ClosestTo(d) : c \in truth /\ matched[c] = Unfound /\ c.cls = d.cls
  BY DEF ClosestTo, Candidates
<1> HIDE DEF d
<1>10. matched' \in [truth -> Nat \cup {Unfound}]
  BY <1>7, <1>8, <1>9
<1>11. Logged'
  BY <1>1, <1>10 DEF ScoreInd, Logged
<1>12. ASSUME NEW b \in truth
       PROVE  FoundAt(s, k + 1, b)'
  <2>1. FoundAt(s, k, b)
    BY <1>2
  <2>k. \A j \in 1..(k + 1) : j \in 1..k \/ j = k + 1
    BY <1>4
  <2>l. \A j \in 1..k : j \in 1..(k + 1) /\ j \in 1..Len(s) /\ j < k + 1
    BY <1>3, <1>4
  <2>m. k + 1 \in 1..(k + 1)
    BY <1>4
  <2>2. CASE Shows(d, b) /\ matched[b] = Unfound
    <3>1. ClosestTo(d) = {b} /\ IsNear(d, b)
      BY <1>4, <1>7, <2>2, ClosestIs DEF Shows
    <3>2. matched' = [matched EXCEPT ![b] = d.t]
      BY <1>8, <3>1
    <3>3. matched'[b] = d.t
      BY <1>7, <3>2
    <3>4. \A i \in 1..k : ~Shows(s[i], b)
      BY <2>1, <2>2 DEF FoundAt
    <3>5. \A i \in 1..(k + 1) : Shows(s[i], b) => s[k + 1].t <= s[i].t
      <4>1. ASSUME NEW i \in 1..(k + 1), Shows(s[i], b)
            PROVE  s[k + 1].t <= s[i].t
        <5>1. i = k + 1
          BY <2>k, <3>4, <4>1
        <5> QED BY <1>4, <1>7, <5>1
      <4> QED BY <4>1
    <3>6. matched'[b] # Unfound
      BY <1>7, <3>3 DEF Unfound
    <3>7. Shows(s[k + 1], b) /\ matched'[b] = s[k + 1].t
      BY <1>4, <2>2, <3>3
    <3>8. \E j \in 1..(k + 1) :
            /\ Shows(s[j], b) /\ matched'[b] = s[j].t
            /\ \A i \in 1..(k + 1) : Shows(s[i], b) => s[j].t <= s[i].t
      BY <2>m, <3>5, <3>7
    <3> QED BY <1>5, <3>6, <3>8 DEF FoundAt, Shows, IsNear
  <2>3. CASE ~(Shows(d, b) /\ matched[b] = Unfound)
    <3>1. matched'[b] = matched[b]
      <4>1. ASSUME NEW c \in ClosestTo(d), IsNear(d, c), matched' = [matched EXCEPT ![c] = d.t]
            PROVE  matched'[b] = matched[b]
        <5>1. c # b
          BY <1>9, <2>3, <4>1 DEF Shows
        <5> QED BY <1>7, <4>1, <5>1
      <4> QED BY <1>8, <4>1
    <3>2. CASE matched[b] = Unfound
      <4>1. ~Shows(s[k + 1], b)
        BY <1>4, <2>3, <3>2
      <4>2. \A j \in 1..(k + 1) : ~Shows(s[j], b)
        BY <2>1, <2>k, <3>2, <4>1 DEF FoundAt
      <4> QED BY <1>5, <3>1, <3>2, <4>2 DEF FoundAt, Shows, IsNear
    <3>3. CASE matched[b] # Unfound
      <4>1. PICK j \in 1..k : /\ Shows(s[j], b) /\ matched[b] = s[j].t
                              /\ \A i \in 1..k : Shows(s[i], b) => s[j].t <= s[i].t
        BY <2>1, <3>3 DEF FoundAt
      <4>2. s[j].t <= s[k + 1].t
        BY <1>3, <1>4, <2>l
      <4>3. \A i \in 1..(k + 1) : Shows(s[i], b) => s[j].t <= s[i].t
        BY <2>k, <4>1, <4>2
      <4>4. \E m \in 1..(k + 1) :
              /\ Shows(s[m], b) /\ matched'[b] = s[m].t
              /\ \A i \in 1..(k + 1) : Shows(s[i], b) => s[m].t <= s[i].t
        BY <2>l, <3>1, <4>1, <4>3
      <4> QED BY <1>5, <3>1, <3>3, <4>4 DEF FoundAt, Shows, IsNear
    <3> QED BY <3>2, <3>3
  <2> QED BY <2>2, <2>3
<1>13. k + 1 \in 0..Len(s)
  BY <1>3, <1>4
<1>14. MatchedSoFar'
  <2>1. \A b \in truth' : FoundAt(s, k + 1, b)'
    BY <1>5, <1>12
  <2>2. s' = Sorted(log)'
    BY DEF s
  <2> QED BY <1>5, <1>6, <1>13, <2>1, <2>2 DEF MatchedSoFar
<1> QED BY <1>1, <1>11, <1>14 DEF ScoreInd, ScoreIsTheRules

(* The points are those of the barrels that some line shows.               *)
LEMMA ScoredIsDue == ScoreInd /\ Score => ScoreInd'
<1> SUFFICES ASSUME ScoreInd, Score PROVE ScoreInd'
  OBVIOUS
<1>1. phase = "matching" /\ phase' = "scored" /\ dets = <<>> /\ UNCHANGED <<truth, log, matched>>
  BY DEF Score
<1> DEFINE s == Sorted(log)
<1>2. PICK k \in 0..Len(s) : ReadFrom(s, k) /\ \A b \in truth : FoundAt(s, k, b)
  BY <1>1 DEF ScoreInd, MatchedSoFar
<1>3. /\ Len(s) \in Nat
      /\ \A m \in 1..Len(s) : s[m] \in Detections /\ s[m].t \in Nat
      /\ \A m \in 1..Len(s) : \E i \in Whole(log) : s[m] = log[i]
      /\ \A i \in Whole(log) : \E m \in 1..Len(s) : s[m] = log[i]
  BY SortedLog DEF ScoreInd
<1> HIDE DEF s
<1>4. k = Len(s)
  BY <1>1, <1>2, <1>3 DEF ReadFrom
<1>5. /\ matched \in [truth -> Nat \cup {Unfound}]
      /\ \A b \in truth : matched[b] \in Nat \cup {Unfound}
  BY DEF ScoreInd, Logged
<1>6. ASSUME NEW b \in truth
      PROVE  /\ matched[b] = Unfound <=> Shown(b) = {}
             /\ matched[b] # Unfound => matched[b] = FirstShown(b)
  <2>1. FoundAt(s, Len(s), b)
    BY <1>2, <1>4
  <2>2. Shown(b) = {s[m].t : m \in {j \in 1..Len(s) : Shows(s[j], b)}}
    <3>1. ASSUME NEW i \in Whole(log), Shows(log[i], b)
          PROVE  \E m \in {j \in 1..Len(s) : Shows(s[j], b)} : log[i].t = s[m].t
      BY <1>3, <3>1
    <3>2. ASSUME NEW m \in 1..Len(s), Shows(s[m], b)
          PROVE  \E i \in {j \in Whole(log) : Shows(log[j], b)} : s[m].t = log[i].t
      BY <1>3, <3>2
    <3> QED BY <3>1, <3>2 DEF Shown
  <2>3. matched[b] = Unfound => Shown(b) = {}
    BY <2>1, <2>2 DEF FoundAt
  <2>4. ASSUME matched[b] # Unfound
        PROVE  Shown(b) # {} /\ matched[b] = FirstShown(b)
    <3>1. matched[b] \in Shown(b) /\ \A u \in Shown(b) : matched[b] <= u
      BY <2>1, <2>2, <2>4 DEF FoundAt
    <3>2. \A u \in Shown(b) : u \in Nat
      BY <1>3, <2>2
    <3>3. \A t \in Shown(b) : (\A u \in Shown(b) : t <= u) => t = matched[b]
      BY <3>1, <3>2
    <3> QED BY <3>1, <3>3 DEF FirstShown
  <2> QED BY <2>3, <2>4
<1>7. \A c : Of(c) \subseteq truth
  BY DEF Of
<1>8. ASSUME NEW c
      PROVE  /\ Found(c) = {b \in Of(c) : Shown(b) # {}}
             /\ Bonus(Finish(c)) = DueBonus(c)
  <2>1. Found(c) = {b \in Of(c) : Shown(b) # {}}
    BY <1>6, <1>7 DEF Found
  <2>2. CASE Of(c) = {} \/ \E b \in Of(c) : Shown(b) = {}
    <3>1. Found(c) # Of(c) \/ Of(c) = {}
      BY <2>1, <2>2
    <3>2. Finish(c) = Unfound
      BY <3>1 DEF Finish
    <3> QED BY <2>1, <2>2, <3>2 DEF Bonus, DueBonus
  <2>3. CASE ~(Of(c) = {} \/ \E b \in Of(c) : Shown(b) = {})
    <3>1. Found(c) = Of(c) /\ Of(c) # {}
      BY <2>1, <2>3
    <3>2. \A b \in Of(c) : matched[b] = FirstShown(b)
      BY <1>6, <1>7, <2>3
    <3>3. {matched[b] : b \in Of(c)} = {FirstShown(b) : b \in Of(c)}
      BY <3>2
    <3> QED BY <2>1, <2>3, <3>1, <3>3 DEF Finish, DueBonus
  <2> QED BY <2>2, <2>3
<1>9. /\ report'.total = 50 * Cardinality({b \in Of("yellow") : Shown(b) # {}})
                           + 100 * Cardinality({b \in Of("red") : Shown(b) # {}})
                           + DueBonus("yellow") + DueBonus("red")
      /\ report'.eligible <=> \A c \in Colours : Found(c) # {}
  <2>1. report' = [total |-> Points["yellow"] * Cardinality(Found("yellow"))
                               + Points["red"] * Cardinality(Found("red"))
                               + Bonus(Finish("yellow")) + Bonus(Finish("red")),
                   eligible |-> \A c \in Colours : Found(c) # {}]
    BY DEF Score
  <2>2. Points["yellow"] = 50 /\ Points["red"] = 100
    BY DEF Points
  <2>3. report'.total = 50 * Cardinality(Found("yellow")) + 100 * Cardinality(Found("red"))
                          + Bonus(Finish("yellow")) + Bonus(Finish("red"))
    BY <2>1, <2>2
  <2>4. report'.eligible = (\A c \in Colours : Found(c) # {})
    BY <2>1
  <2>5. /\ Found("yellow") = {b \in Of("yellow") : Shown(b) # {}}
        /\ Found("red") = {b \in Of("red") : Shown(b) # {}}
        /\ Bonus(Finish("yellow")) = DueBonus("yellow") /\ Bonus(Finish("red")) = DueBonus("red")
    BY <1>8
  <2>6. report'.total = 50 * Cardinality({b \in Of("yellow") : Shown(b) # {}})
                          + 100 * Cardinality({b \in Of("red") : Shown(b) # {}})
                          + DueBonus("yellow") + DueBonus("red")
    BY ONLY <2>3, <2>5
  <2> QED BY <2>4, <2>6
<1>10. report'.eligible <=> {b \in Of("yellow") : Shown(b) # {}} # {}
                             /\ {b \in Of("red") : Shown(b) # {}} # {}
  BY <1>8, <1>9 DEF Colours
<1>11. ScoreIsTheRules'
  <2>1. /\ \A c : Of(c)' = Of(c)
        /\ \A b : Shown(b)' = Shown(b)
        /\ \A c : DueBonus(c)' = DueBonus(c)
    BY <1>1 DEF Of, Shown, DueBonus, FirstShown, Whole
  <2> QED BY <1>9, <1>10, <2>1 DEF ScoreIsTheRules
<1>12. Logged'
  BY <1>1 DEF ScoreInd, Logged
<1> QED BY <1>1, <1>11, <1>12 DEF ScoreInd, MatchedSoFar

LEMMA ScorerStep == ScoreInd /\ [ScorerNext]_scorerVars => ScoreInd'
<1> SUFFICES ASSUME ScoreInd, [ScorerNext]_scorerVars PROVE ScoreInd'
  OBVIOUS
<1>1. CASE \E line \in Detections \cup {Bad} : Write(line)
  BY <1>1, WriteKeeps
<1>2. CASE LoadRunLog
  BY <1>2, LoadKeeps
<1>3. CASE Take
  BY <1>3, TakeKeeps
<1>4. CASE Score
  BY <1>4, ScoredIsDue
<1>5. CASE UNCHANGED scorerVars
  <2>1. UNCHANGED <<truth, log, dets, matched, phase, report>>
    BY <1>5 DEF scorerVars
  <2>2. Logged'
    BY <2>1 DEF ScoreInd, Logged
  <2>3. MatchedSoFar'
    BY <2>1 DEF ScoreInd, MatchedSoFar, ReadFrom, FoundAt
  <2>4. ScoreIsTheRules'
    <3>1. /\ \A c : Of(c)' = Of(c)
          /\ \A b : Shown(b)' = Shown(b)
          /\ \A c : DueBonus(c)' = DueBonus(c)
      BY <2>1 DEF Of, Shown, DueBonus, FirstShown, Whole
    <3> QED BY <2>1, <3>1 DEF ScoreInd, ScoreIsTheRules
  <2> QED BY <2>2, <2>3, <2>4 DEF ScoreInd
<1> QED BY <1>1, <1>2, <1>3, <1>4, <1>5 DEF ScorerNext

LEMMA ScoreHolds == ScorerSpec => []ScoreIsTheRules
<1>1. ScoreInd => ScoreIsTheRules
  BY DEF ScoreInd
<1> QED BY <1>1, ScorerInitInd, ScorerStep, PTL DEF ScorerSpec

-----------------------------------------------------------------------------
(* PathPlanner: lengths and costs.                                         *)

LEMMA MinIs ==
  ASSUME NEW S \in SUBSET Nat, S # {}
  PROVE  Min(S) \in S /\ \A j \in S : Min(S) <= j
<1>1. PICK i \in S : \A j \in S : i <= j
  BY Lowest
<1> QED BY <1>1 DEF Min

LEMMA RootIs == ASSUME NEW n \in Nat PROVE Root(n) \in Nat
<1> DEFINE S == {r \in Nat : (r + 1) * (r + 1) > 100 * n}
<1>1. 10 * n \in S
  <2>1. (10 * n + 1) * (10 * n + 1) = 100 * (n * n) + 20 * n + 1
    OBVIOUS
  <2>2. n * n >= n /\ n * n \in Nat
    <3>1. CASE n = 0
      BY <3>1
    <3>2. CASE n >= 1
      BY <3>2
    <3> QED BY <3>1, <3>2
  <2>3. (10 * n + 1) * (10 * n + 1) > 100 * n
    BY <2>1, <2>2
  <2> QED BY <2>3
<1>2. PICK r \in S : \A j \in S : r <= j
  <2>1. S \in SUBSET Nat /\ S # {}
    BY <1>1
  <2> HIDE DEF S
  <2> QED BY <2>1, Lowest
<1>3. r * r <= 100 * n
  <2>1. CASE r = 0
    BY <2>1
  <2>2. CASE r # 0
    <3>1. r - 1 \in Nat /\ ~(r <= r - 1) /\ (r - 1) + 1 = r
      BY <2>2
    <3>2. r - 1 \notin S
      BY <1>2, <3>1
    <3>3. ~(r * r > 100 * n)
      BY <3>1, <3>2
    <3> QED BY <3>3
  <2> QED BY <2>1, <2>2
<1>4. r \in 0 .. 10 * n
  BY <1>1, <1>2
<1>5. \E q \in 0 .. 10 * n : q * q <= 100 * n /\ (q + 1) * (q + 1) > 100 * n
  BY <1>2, <1>3, <1>4
<1>6. Root(n) \in 0 .. 10 * n
  <2> DEFINE P(q) == q * q <= 100 * n /\ (q + 1) * (q + 1) > 100 * n
  <2>1. \E q \in 0 .. 10 * n : P(q)
    BY <1>5
  <2>2. Root(n) = CHOOSE q \in 0 .. 10 * n : P(q)
    BY DEF Root
  <2> HIDE DEF P
  <2> QED BY <2>1, <2>2
<1> QED BY <1>6

LEMMA SquareIs ==
  /\ \A p \in WayPoints : p[1] \in Int /\ p[2] \in Int
  /\ \A p, q \in WayPoints : Square(p, q) \in Nat
<1>1. \A p \in WayPoints : p[1] \in Int /\ p[2] \in Int
  BY PlanAssumption DEF WayPoints
<1>2. \A x \in Int : x * x \in Nat
  OBVIOUS
<1>3. ASSUME NEW p \in WayPoints, NEW q \in WayPoints
      PROVE  Square(p, q) \in Nat
  <2>1. p[1] - q[1] \in Int /\ p[2] - q[2] \in Int
    BY <1>1
  <2> QED BY <1>2, <2>1 DEF Square
<1> QED BY <1>1, <1>3

LEMMA LengthIs == \A p, q \in WayPoints : Length(p, q) \in Nat
<1> SUFFICES ASSUME NEW p \in WayPoints, NEW q \in WayPoints
             PROVE  Length(p, q) \in Nat
  OBVIOUS
<1>1. <<p, q>> \in WayPoints \X WayPoints /\ <<p, q>>[1] = p /\ <<p, q>>[2] = q
  OBVIOUS
<1>2. Length(p, q) = Root(Square(p, q))
  BY <1>1 DEF Length, Distances
<1> QED BY <1>2, SquareIs, RootIs

Costs == 0 .. Infinite
LEMMA Dearer == \A a, b, c \in Costs : a >= b /\ a < c => ~(c <= b)
BY DEF Costs

LEMMA PlusIs ==
  /\ \A c \in Costs, d \in Nat : Plus(c, d) \in Costs /\ Plus(c, d) >= c
  /\ \A b, c \in Costs, d \in Nat : b <= c => Plus(b, d) <= Plus(c, d)
<1>1. ASSUME NEW c \in Costs, NEW d \in Nat
      PROVE  Plus(c, d) \in Costs /\ Plus(c, d) >= c
  <2>1. CASE c + d >= Infinite
    BY <2>1 DEF Plus, Costs, Infinite
  <2>2. CASE ~(c + d >= Infinite)
    <3>1. Plus(c, d) = c + d
      BY <2>2 DEF Plus
    <3> QED BY <2>2, <3>1 DEF Costs, Infinite
  <2> QED BY <2>1, <2>2
<1>2. ASSUME NEW b \in Costs, NEW c \in Costs, NEW d \in Nat, b <= c
      PROVE  Plus(b, d) <= Plus(c, d)
  <2>1. CASE b + d >= Infinite
    BY <1>2, <2>1 DEF Plus, Costs, Infinite
  <2>2. CASE ~(b + d >= Infinite)
    BY <1>2, <2>2 DEF Plus, Costs, Infinite
  <2> QED BY <2>1, <2>2
<1> QED BY <1>1, <1>2

-----------------------------------------------------------------------------
(* The tree: nodes hang below nodes, costs are not less than the way, and  *)
(* no nodes hang below each other.                                         *)
Nodes == [at : WayPoints, cost : Costs, parent : Nat]
Hangs(t) ==
  /\ t \in Seq(Nodes) /\ Len(t) >= 1
  /\ t[1].parent = 0 /\ t[1].cost = 0 /\ t[1].at = Origin
  /\ \A i \in 2 .. Len(t) : t[i].parent \in 1 .. Len(t)
Covered(t) ==
  \A i \in 2 .. Len(t) :
    t[i].cost >= Plus(t[t[i].parent].cost, Length(t[t[i].parent].at, t[i].at))
Freed(t) ==
  \A i \in 2 .. Len(t) :
    t[i].cost < Infinite /\ t[i].at # Goal => FreeWay(t[t[i].parent].at, t[i].at)
NoRing(t) == \A C \in SUBSET (1 .. Len(t)) : (\A i \in C : t[i].parent \in C) => C = {}
Grown(t) == Hangs(t) /\ Covered(t) /\ Freed(t) /\ NoRing(t)

LEMMA NodeIs ==
  ASSUME NEW t, Hangs(t)
  PROVE  /\ Len(t) \in Nat /\ DOMAIN t = 1 .. Len(t)
         /\ \A i \in 1 .. Len(t) : t[i] \in Nodes /\ t[i].at \in WayPoints
                                   /\ t[i].cost \in Costs /\ t[i].parent \in Nat
<1>1. t \in Seq(Nodes)
  BY DEF Hangs
<1>2. Len(t) \in Nat /\ DOMAIN t = 1 .. Len(t) /\ \A i \in 1 .. Len(t) : t[i] \in Nodes
  BY <1>1
<1>3. \A x \in Nodes : x.at \in WayPoints /\ x.cost \in Costs /\ x.parent \in Nat
  BY DEF Nodes
<1> QED BY <1>2, <1>3

(* Which node a new one is hung below, and at which cost.                  *)
LEMMA ParentIs ==
  ASSUME Hangs(tree), NEW near \in 1 .. Len(tree), NEW new \in WayPoints
  PROVE  /\ BestParent(near, new) \in 1 .. Len(tree)
         /\ MinCost(new) \in Costs
         /\ \A b \in {BestParent(near, new)} :
              /\ MinCost(new) >= Plus(tree[b].cost, Length(tree[b].at, new))
              /\ MinCost(new) < Infinite => FreeWay(tree[b].at, new)
<1>1. /\ Len(tree) \in Nat /\ DOMAIN tree = 1 .. Len(tree)
      /\ \A i \in 1 .. Len(tree) : tree[i].at \in WayPoints /\ tree[i].cost \in Costs
  BY NodeIs
<1>2. \A i \in 1 .. Len(tree) : CostVia(i, new) \in Costs
  BY <1>1, LengthIs, PlusIs DEF CostVia
<1> DEFINE P == NearParents(new)
           K == {CostVia(i, new) : i \in P}
<1>3. /\ P \subseteq 1 .. Len(tree)
      /\ \A i \in P : FreeWay(tree[i].at, new) /\ CostVia(i, new) < Infinite
  BY <1>1 DEF NearParents, Neighbours
<1>4. \A c \in Costs : c \in Nat /\ c <= Infinite
  BY DEF Costs, Infinite
<1>i. Infinite \in Costs /\ Infinite \in Nat
  BY DEF Costs, Infinite
<1>5. CASE P = {}
  <2>1. BestParent(near, new) = near
    BY <1>5 DEF BestParent
  <2>2. {Infinite} \cup K = {Infinite}
    BY <1>5
  <2>3. MinCost(new) = Infinite
    <3>1. MinCost(new) = Min({Infinite})
      BY <2>2 DEF MinCost
    <3>2. {Infinite} \in SUBSET Nat
      BY <1>i
    <3> QED BY <3>1, <3>2, MinIs
  <2>4. Plus(tree[near].cost, Length(tree[near].at, new)) \in Costs
    BY <1>1, LengthIs, PlusIs
  <2>5. Infinite >= Plus(tree[near].cost, Length(tree[near].at, new))
    BY <1>4, <2>4
  <2>6. ~(Infinite < Infinite)
    BY <1>i
  <2> QED BY <1>i, <2>1, <2>3, <2>5, <2>6
<1>6. CASE P # {}
  <2>1. K \in SUBSET Nat /\ K # {} /\ {Infinite} \cup K \in SUBSET Nat /\ {Infinite} \cup K # {}
    BY <1>2, <1>3, <1>4, <1>6, <1>i
  <2>2. /\ MinCost(new) \in {Infinite} \cup K
        /\ \A c \in {Infinite} \cup K : MinCost(new) <= c
    <3> HIDE DEF K
    <3>1. MinCost(new) = Min({Infinite} \cup K)
      BY DEF MinCost, K
    <3> QED BY <2>1, <3>1, MinIs
  <2>3. PICK c \in K : \A d \in K : c <= d
    <3> HIDE DEF K
    <3> QED BY <2>1, Lowest
  <2> DEFINE B == {i \in P : \A j \in P : CostVia(i, new) <= CostVia(j, new)}
  <2>4. B \in SUBSET Nat /\ B # {}
    BY <1>3, <2>3
  <2>5. BestParent(near, new) = Min(B)
    BY <1>6 DEF BestParent
  <2>6. BestParent(near, new) \in B
    <3> HIDE DEF B
    <3> QED BY <2>4, <2>5, MinIs
  <2> DEFINE b == BestParent(near, new)
  <2>7. b \in P /\ \A j \in P : CostVia(b, new) <= CostVia(j, new)
    BY <2>6
  <2> HIDE DEF b, B
  <2>8. /\ b \in 1 .. Len(tree) /\ FreeWay(tree[b].at, new)
        /\ CostVia(b, new) < Infinite /\ CostVia(b, new) \in Nat /\ CostVia(b, new) \in K
    BY <1>2, <1>3, <1>4, <2>7
  <2>9. \A d \in {Infinite} \cup K : CostVia(b, new) <= d
    BY <1>i, <2>7, <2>8
  <2>10. MinCost(new) \in Nat
    <3> HIDE DEF K
    <3> QED BY <2>1, <2>2
  <2>11. MinCost(new) >= CostVia(b, new)
    BY <2>2, <2>8, <2>9, <2>10
  <2>12. MinCost(new) \in Costs
    BY <1>2, <1>3, <1>i, <2>2
  <2> QED BY <2>8, <2>11, <2>12 DEF CostVia, b
<1> QED BY <1>5, <1>6

(* A node that ends a tree without leaving a node above it is in no ring.  *)
LEMMA LastNode ==
  ASSUME NEW t, Grown(t), NEW x \in Nodes, x.parent = Len(t),
         x.cost >= Plus(t[Len(t)].cost, Length(t[Len(t)].at, x.at)), x.at = Goal
  PROVE  Grown(Append(t, x)) /\ Append(t, x)[Len(Append(t, x))] = x
<1> DEFINE g == Append(t, x)
           n == Len(t)
<1>1. /\ n \in Nat /\ n >= 1 /\ t \in Seq(Nodes)
      /\ \A i \in 1 .. n : t[i] \in Nodes
  BY NodeIs DEF Grown, Hangs
<1>2. /\ g \in Seq(Nodes) /\ Len(g) = n + 1 /\ g[n + 1] = x
      /\ \A i \in 1 .. n : g[i] = t[i]
  BY <1>1
<1>3. \A i \in 2 .. n : t[i].parent \in 1 .. n
  BY DEF Grown, Hangs
<1> HIDE DEF g, n
<1>4. \A i \in 2 .. (n + 1) : i \in 2 .. n \/ i = n + 1
  BY <1>1
<1>5. /\ 1 \in 1 .. n /\ n \in 1 .. n /\ n + 1 \notin 1 .. n
      /\ \A i \in 2 .. n : i \in 1 .. n
      /\ \A i \in 1 .. n : i \in 1 .. (n + 1)
  BY <1>1
<1>6. Hangs(g)
  <2>1. g[1] = t[1] /\ Len(g) >= 1
    BY <1>1, <1>2, <1>5
  <2>2. ASSUME NEW i \in 2 .. Len(g)
        PROVE  g[i].parent \in 1 .. Len(g)
    <3>1. CASE i = n + 1
      BY <1>2, <1>5, <3>1 DEF n
    <3>2. CASE i \in 2 .. n
      BY <1>2, <1>3, <1>5, <3>2
    <3> QED BY <1>2, <1>4, <3>1, <3>2
  <2> QED BY <1>2, <2>1, <2>2 DEF Grown, Hangs
<1>7. Covered(g) /\ Freed(g)
  <2>1. ASSUME NEW i \in 2 .. Len(g)
        PROVE  /\ g[i].cost >= Plus(g[g[i].parent].cost, Length(g[g[i].parent].at, g[i].at))
               /\ g[i].cost < Infinite /\ g[i].at # Goal => FreeWay(g[g[i].parent].at, g[i].at)
    <3>1. CASE i = n + 1
      BY <1>2, <1>5, <3>1 DEF n
    <3>2. CASE i \in 2 .. n
      <4>1. g[i] = t[i] /\ g[g[i].parent] = t[t[i].parent]
        BY <1>2, <1>3, <1>5, <3>2
      <4> QED BY <3>2, <4>1 DEF Grown, Covered, Freed, n
    <3> QED BY <1>2, <1>4, <3>1, <3>2
  <2> QED BY <2>1 DEF Covered, Freed
<1>8. NoRing(g)
  <2> SUFFICES ASSUME NEW C \in SUBSET (1 .. (n + 1)), \A i \in C : g[i].parent \in C
               PROVE  C = {}
    BY <1>2 DEF NoRing
  <2>1. \A D \in SUBSET (1 .. n) : (\A i \in D : t[i].parent \in D) => D = {}
    BY DEF Grown, NoRing, n
  <2> DEFINE D == C \ {n + 1}
  <2>2. D \in SUBSET (1 .. n) /\ \A i \in 1 .. (n + 1) : i \in 1 .. n \/ i = n + 1
    BY <1>1
  <2>3. \A i \in D : t[i].parent \in D
    <3>1. ASSUME NEW i \in D
          PROVE  t[i].parent \in D
      <4>1. i \in 1 .. n /\ t[i].parent \in C
        BY <1>2, <2>2
      <4>2. t[i].parent # n + 1
        <5>1. CASE i = 1
          <6>1. t[1].parent = 0
            BY DEF Grown, Hangs
          <6> QED BY <1>1, <5>1, <6>1
        <5>2. CASE i # 1
          <6>1. i \in 2 .. n
            BY <1>1, <4>1, <5>2
          <6> QED BY <1>3, <1>5, <6>1
        <5> QED BY <5>1, <5>2
      <4> QED BY <4>1, <4>2
    <3> QED BY <3>1
  <2>4. D = {}
    <3> HIDE DEF D
    <3> QED BY <2>1, <2>2, <2>3
  <2>5. n + 1 \in C => n \in D
    <3>1. n + 1 \in C => g[n + 1].parent \in C
      OBVIOUS
    <3> QED BY <1>1, <1>2, <3>1 DEF n
  <2> QED BY <2>4, <2>5
<1>9. g[Len(g)] = x
  BY <1>2
<1> QED BY <1>6, <1>7, <1>8, <1>9 DEF Grown, g

(* One iteration's node: what it hangs below keeps its cost, what is hung  *)
(* below it was dearer, so nothing above it was.                           *)
NodeFor(near, new) == [at |-> new, cost |-> MinCost(new), parent |-> BestParent(near, new)]
WithNode(near, new) ==
  Append(Rewired(BestParent(near, new), NodeFor(near, new)), NodeFor(near, new))

LEMMA NewNode ==
  ASSUME Grown(tree), NEW near \in 1 .. Len(tree), NEW new \in WayPoints
  PROVE  /\ Grown(WithNode(near, new)) /\ NodeFor(near, new) \in Nodes
         /\ WithNode(near, new)[Len(WithNode(near, new))] = NodeFor(near, new)
<1> DEFINE n == Len(tree)
           host == BestParent(near, new)
           node == [at |-> new, cost |-> MinCost(new), parent |-> host]
           r == Rewired(host, node)
           g == Append(r, node)
<1>1. /\ n \in Nat /\ n >= 1 /\ DOMAIN tree = 1 .. n
      /\ \A i \in 1 .. n : tree[i] \in Nodes /\ tree[i].at \in WayPoints
                           /\ tree[i].cost \in Costs /\ tree[i].parent \in Nat
  BY NodeIs DEF Grown, Hangs
<1>2. /\ host \in 1 .. n /\ node.cost \in Costs /\ node.at = new /\ node.parent = host
      /\ node.cost >= Plus(tree[host].cost, Length(tree[host].at, new))
      /\ node.cost < Infinite => FreeWay(tree[host].at, new)
  BY ParentIs DEF Grown
<1>n. node \in Nodes
  <2>1. host \in Nat
    BY <1>1, <1>2
  <2>2. MinCost(new) \in Costs
    BY <1>2
  <2> HIDE DEF host
  <2> QED BY <2>1, <2>2 DEF Nodes
<1> HIDE DEF n, host, node
<1> DEFINE Hung(i) == i \in Neighbours(node.at) \ {host} /\ Cheaper(i, node)
           via(i) == Plus(node.cost, Length(node.at, tree[i].at))
<1>3. \A i \in 1 .. n : via(i) \in Costs /\ via(i) >= node.cost
  BY <1>1, <1>2, LengthIs, PlusIs
<1>4. \A i \in 1 .. n : /\ Hung(i) => r[i] = [tree[i] EXCEPT !.cost = via(i), !.parent = n + 1]
                        /\ ~Hung(i) => r[i] = tree[i]
  BY <1>1 DEF Rewired, n
<1>h. \A i \in 1 .. n : Hung(i) => /\ i # host /\ via(i) < tree[i].cost
                                   /\ FreeWay(node.at, tree[i].at)
  BY DEF Cheaper
<1> HIDE DEF Hung, via
<1>5. \A i \in 1 .. n : /\ r[i] \in Nodes /\ r[i].at = tree[i].at
                        /\ r[i].cost = IF Hung(i) THEN via(i) ELSE tree[i].cost
                        /\ r[i].parent = IF Hung(i) THEN n + 1 ELSE tree[i].parent
  <2>1. ASSUME NEW i \in 1 .. n, Hung(i)
        PROVE  /\ r[i] \in Nodes /\ r[i].at = tree[i].at
               /\ r[i].cost = via(i) /\ r[i].parent = n + 1
    <3>1. r[i] = [tree[i] EXCEPT !.cost = via(i), !.parent = n + 1] /\ tree[i] \in Nodes
      BY <1>1, <1>4, <2>1
    <3>2. via(i) \in Costs /\ n + 1 \in Nat
      BY <1>1, <1>3
    <3> HIDE DEF r
    <3> QED BY <3>1, <3>2 DEF Nodes
  <2>2. ASSUME NEW i \in 1 .. n, ~Hung(i)
        PROVE  r[i] \in Nodes /\ r[i] = tree[i]
    BY <1>1, <1>4, <2>2
  <2> QED BY <2>1, <2>2
<1>6. r \in Seq(Nodes) /\ Len(r) = n
  <2>1. DOMAIN r = 1 .. n /\ r = [i \in 1 .. n |-> r[i]]
    BY <1>1 DEF Rewired
  <2> HIDE DEF r
  <2>2. r \in [1 .. n -> Nodes]
    BY <1>5, <2>1
  <2> QED BY <1>1, <2>2
<1> HIDE DEF r
<1>7. /\ g \in Seq(Nodes) /\ Len(g) = n + 1 /\ g[n + 1] = node
      /\ \A i \in 1 .. n : g[i] = r[i]
  BY <1>1, <1>n, <1>6
<1> HIDE DEF g
<1>8. /\ \A i \in 2 .. (n + 1) : i \in 2 .. n \/ i = n + 1
      /\ \A i \in 1 .. (n + 1) : i \in 1 .. n \/ i = n + 1
      /\ 1 \in 1 .. n /\ n + 1 \notin 1 .. n /\ n + 1 \in 1 .. (n + 1)
      /\ \A i \in 2 .. n : i \in 1 .. n
      /\ \A i \in 1 .. n : i \in 1 .. (n + 1)
  BY <1>1
<1>9. \A i \in 2 .. n : tree[i].parent \in 1 .. n
  BY DEF Grown, Hangs, n
<1>10. tree[1].parent = 0 /\ tree[1].cost = 0 /\ tree[1].at = Origin
  BY DEF Grown, Hangs
<1>11. ~Hung(1)
  <2>1. \A c \in Costs : ~(c < 0)
    BY DEF Costs, Infinite
  <2> QED BY <1>3, <1>8, <1>10, <1>h, <2>1
<1>12. Hangs(g)
  <2>1. g[1] = r[1] /\ Len(g) >= 1
    BY <1>1, <1>7, <1>8
  <2>2. g[1].parent = 0 /\ g[1].cost = 0 /\ g[1].at = Origin
    BY <1>5, <1>8, <1>10, <1>11, <2>1
  <2>3. ASSUME NEW i \in 2 .. Len(g)
        PROVE  g[i].parent \in 1 .. Len(g)
    <3>1. CASE i = n + 1
      BY <1>2, <1>7, <1>8, <3>1
    <3>2. CASE i \in 2 .. n
      BY <1>5, <1>7, <1>8, <1>9, <3>2
    <3> QED BY <1>7, <1>8, <3>1, <3>2
  <2> QED BY <1>7, <2>1, <2>2, <2>3 DEF Hangs
\* no cost grows
<1>13. \A i \in 1 .. n : g[i].at = tree[i].at /\ g[i].cost \in Costs /\ g[i].cost <= tree[i].cost
  <2>1. ASSUME NEW i \in 1 .. n
        PROVE  g[i].at = tree[i].at /\ g[i].cost \in Costs /\ g[i].cost <= tree[i].cost
    <3>c. \A c, d \in Costs : (c < d => c <= d) /\ c <= c
      BY DEF Costs, Infinite
    <3>1. CASE Hung(i)
      <4>1. g[i].at = tree[i].at /\ g[i].cost = via(i) /\ via(i) < tree[i].cost
        BY <1>5, <1>7, <1>h, <3>1
      <4> QED BY <1>1, <1>3, <3>c, <4>1
    <3>2. CASE ~Hung(i)
      <4>1. g[i].at = tree[i].at /\ g[i].cost = tree[i].cost
        BY <1>5, <1>7, <3>2
      <4> QED BY <1>1, <3>c, <4>1
    <3> QED BY <3>1, <3>2
  <2> QED BY <2>1
<1>14. g[host] = tree[host]
  <2>1. ~Hung(host)
    BY <1>2, <1>h
  <2> QED BY <1>2, <1>4, <1>7, <2>1
<1>15. Covered(g) /\ Freed(g)
  <2>1. ASSUME NEW i \in 2 .. Len(g)
        PROVE  /\ g[i].cost >= Plus(g[g[i].parent].cost, Length(g[g[i].parent].at, g[i].at))
               /\ g[i].cost < Infinite /\ g[i].at # Goal => FreeWay(g[g[i].parent].at, g[i].at)
    <3>1. CASE i = n + 1
      BY <1>2, <1>7, <1>14, <3>1
    <3>2. CASE i \in 2 .. n /\ Hung(i)
      <4>1. /\ g[i].parent = n + 1 /\ g[i].at = tree[i].at /\ g[i].cost = via(i)
        BY <1>5, <1>7, <1>8, <3>2
      <4>2. via(i) >= Plus(node.cost, Length(node.at, tree[i].at))
        <5>1. via(i) \in Costs
          BY <1>3, <1>8, <3>2
        <5>2. \A c \in Costs : c >= c
          BY DEF Costs, Infinite
        <5> QED BY <5>1, <5>2 DEF via
      <4>3. FreeWay(node.at, tree[i].at)
        BY <1>8, <1>h, <3>2
      <4> QED BY <1>7, <4>1, <4>2, <4>3
    <3>3. CASE i \in 2 .. n /\ ~Hung(i)
      <4> DEFINE u == tree[i].parent
      <4>1. /\ g[i] = tree[i] /\ u \in 1 .. n /\ i \in 1 .. n
        BY <1>4, <1>7, <1>8, <1>9, <3>3
      <4>2. tree[i].cost >= Plus(tree[u].cost, Length(tree[u].at, tree[i].at))
        BY <3>3 DEF Grown, Covered, n
      <4>3. tree[i].cost < Infinite /\ tree[i].at # Goal => FreeWay(tree[u].at, tree[i].at)
        BY <3>3 DEF Grown, Freed, n
      <4> HIDE DEF u
      <4>4. g[u].at = tree[u].at /\ g[u].cost \in Costs /\ g[u].cost <= tree[u].cost
        BY <1>13, <4>1
      <4>5. Length(tree[u].at, tree[i].at) \in Nat
        BY <1>1, <4>1, LengthIs
      <4>6. /\ Plus(g[u].cost, Length(tree[u].at, tree[i].at))
                 <= Plus(tree[u].cost, Length(tree[u].at, tree[i].at))
            /\ Plus(g[u].cost, Length(tree[u].at, tree[i].at)) \in Costs
            /\ Plus(tree[u].cost, Length(tree[u].at, tree[i].at)) \in Costs
        BY <1>1, <4>1, <4>4, <4>5, PlusIs
      <4>7. tree[i].cost >= Plus(g[u].cost, Length(tree[u].at, tree[i].at))
        <5>1. \A a, b, c \in Costs : a >= b /\ c <= b => a >= c
          BY DEF Costs, Infinite
        <5> QED BY <1>1, <4>1, <4>2, <4>6, <5>1
      <4>8. g[i].parent = u
        BY <4>1 DEF u
      <4> QED BY <4>1, <4>3, <4>4, <4>7, <4>8
    <3> QED BY <1>7, <1>8, <3>1, <3>2, <3>3
  <2> QED BY <2>1 DEF Covered, Freed
<1>16. NoRing(g)
  <2> SUFFICES ASSUME NEW C \in SUBSET (1 .. (n + 1)), \A i \in C : g[i].parent \in C
               PROVE  C = {}
    BY <1>7 DEF NoRing
  <2>1. \A D \in SUBSET (1 .. n) : (\A i \in D : tree[i].parent \in D) => D = {}
    BY DEF Grown, NoRing, n
  <2>0. 0 \notin C /\ 1 \notin C
    <3>1. 0 \notin 1 .. (n + 1)
      BY <1>1
    <3>2. g[1].parent = 0
      BY <1>5, <1>7, <1>8, <1>10, <1>11
    <3> QED BY <3>1, <3>2
  <2>2. CASE n + 1 \notin C
    <3>1. C \in SUBSET (1 .. n)
      BY <1>8, <2>2
    <3>2. ASSUME NEW i \in C
          PROVE  tree[i].parent \in C
      <4>1. i \in 1 .. n /\ g[i].parent \in C
        BY <3>1
      <4>2. ~Hung(i)
        BY <1>5, <1>7, <2>2, <4>1
      <4> QED BY <1>5, <1>7, <4>1, <4>2
    <3> QED BY <2>1, <3>1, <3>2
  <2>3. CASE n + 1 \in C
    <3> DEFINE D == {j \in C \ {n + 1} : tree[j].cost <= node.cost}
    <3>1. D \in SUBSET (1 .. n)
      BY <1>8
    <3>c. \A a, b, c \in Costs : (a >= b /\ b >= c => c <= a) /\ (a <= b => ~(b < a))
                                 /\ (a >= b /\ b >= c /\ a <= a => a >= c)
      BY DEF Costs, Infinite
    <3>2. host \in D
      <4>1. host \in C /\ host # n + 1
        BY <1>2, <1>7, <1>8, <2>3
      <4>2. Length(tree[host].at, new) \in Nat /\ tree[host].cost \in Costs
        BY <1>1, <1>2, LengthIs
      <4>3. /\ Plus(tree[host].cost, Length(tree[host].at, new)) \in Costs
            /\ Plus(tree[host].cost, Length(tree[host].at, new)) >= tree[host].cost
        BY <4>2, PlusIs
      <4>4. tree[host].cost <= node.cost
        BY <1>2, <3>c, <4>2, <4>3
      <4> QED BY <4>1, <4>4
    <3>3. ASSUME NEW j \in D
          PROVE  tree[j].parent \in D
      <4> DEFINE u == tree[j].parent
      <4>1. j \in 1 .. n /\ j \in C /\ tree[j].cost <= node.cost /\ j # 1
        BY <2>0, <3>1
      <4>2. ~Hung(j)
        <5>1. Hung(j) => via(j) >= node.cost /\ via(j) < tree[j].cost
          BY <1>3, <1>h, <4>1
        <5>2. via(j) \in Costs /\ tree[j].cost \in Costs /\ node.cost \in Costs
          BY <1>1, <1>2, <1>3, <4>1
        <5>3. via(j) >= node.cost /\ via(j) < tree[j].cost => ~(tree[j].cost <= node.cost)
          BY <5>2, Dearer
        <5> QED BY <4>1, <5>1, <5>3
      <4>3. u \in C /\ j \in 2 .. n
        <5>1. g[j].parent = u
          BY <1>5, <1>7, <4>1, <4>2
        <5>2. j \in 2 .. n
          BY <1>1, <4>1
        <5> QED BY <4>1, <5>1, <5>2
      <4>4. u \in 1 .. n
        BY <1>9, <4>3
      <4>5. tree[j].cost >= Plus(tree[u].cost, Length(tree[u].at, tree[j].at))
        BY <4>3 DEF Grown, Covered, n
      <4>6. /\ Plus(tree[u].cost, Length(tree[u].at, tree[j].at)) \in Costs
            /\ Plus(tree[u].cost, Length(tree[u].at, tree[j].at)) >= tree[u].cost
            /\ tree[u].cost \in Costs /\ tree[j].cost \in Costs /\ node.cost \in Costs
        BY <1>1, <1>2, <4>1, <4>4, LengthIs, PlusIs
      <4>7. tree[u].cost <= node.cost
        <5>1. \A a, b, c, d \in Costs : a <= d /\ a >= b /\ b >= c => c <= d
          BY DEF Costs, Infinite
        <5> HIDE DEF u
        <5> QED BY <4>1, <4>5, <4>6, <5>1
      <4> QED BY <1>8, <4>3, <4>4, <4>7
    <3>4. D = {}
      <4> HIDE DEF D
      <4> QED BY <2>1, <3>1, <3>3
    <3> QED BY <3>2, <3>4
  <2> QED BY <2>2, <2>3
<1>17. g[Len(g)] = node
  BY <1>7
<1> QED BY <1>n, <1>12, <1>15, <1>16, <1>17 DEF Grown, g, r, node, host, NodeFor, WithNode

-----------------------------------------------------------------------------
(* The way up a tree without rings.                                        *)

IsWayUp(f, i, n) == f = [k \in 0 .. n |-> IF k = 0 THEN i ELSE Up(f[k - 1])]

LEMMA WayUpExists ==
  ASSUME NEW i
  PROVE  \A n \in Nat : \E f : IsWayUp(f, i, n)
<1> DEFINE S == {n \in Nat : \E f : IsWayUp(f, i, n)}
<1>1. 0 \in S
  <2> DEFINE f == [k \in 0 .. 0 |-> i]
  <2>1. IsWayUp(f, i, 0)
    BY DEF IsWayUp
  <2> QED BY <2>1
<1>2. ASSUME NEW n \in S
      PROVE  n + 1 \in S
  <2>1. PICK g : IsWayUp(g, i, n)
    BY <1>2
  <2>2. n \in Nat /\ n + 1 \in Nat
    BY <1>2
  <2> DEFINE f == [k \in 0 .. (n + 1) |-> IF k = n + 1 THEN Up(g[n]) ELSE g[k]]
             w(k) == IF k = 0 THEN i ELSE Up(g[k - 1])
             v(k) == IF k = 0 THEN i ELSE Up(f[k - 1])
  <2>3. \A k \in 0 .. n : g[k] = w(k)
    <3>1. g = [k \in 0 .. n |-> w(k)]
      BY <2>1 DEF IsWayUp
    <3> HIDE DEF w
    <3> QED BY <3>1
  <2>4. ASSUME NEW k \in 0 .. (n + 1)
        PROVE  f[k] = v(k)
    <3>1. CASE k = n + 1
      <4>1. k - 1 = n /\ n \in 0 .. (n + 1) /\ n # n + 1 /\ k # 0
        BY <2>2, <3>1
      <4>2. f[k] = Up(g[n]) /\ f[k - 1] = g[n]
        BY <3>1, <4>1
      <4> QED BY <4>1, <4>2
    <3>2. CASE k # n + 1
      <4>1. k \in 0 .. n /\ f[k] = g[k]
        BY <2>2, <3>2
      <4>2. k # 0 => k - 1 \in 0 .. (n + 1) /\ k - 1 # n + 1
        BY <2>2, <4>1
      <4>3. k # 0 => f[k - 1] = g[k - 1]
        BY <4>2
      <4> QED BY <2>3, <4>1, <4>3
    <3> QED BY <3>1, <3>2
  <2>5. f = [k \in 0 .. (n + 1) |-> v(k)]
    <3>1. f = [k \in 0 .. (n + 1) |-> f[k]]
      OBVIOUS
    <3> HIDE DEF f, v
    <3> QED BY <2>4, <3>1
  <2>6. IsWayUp(f, i, n + 1)
    <3>1. f = [k \in 0 .. (n + 1) |-> IF k = 0 THEN i ELSE Up(f[k - 1])]
      BY <2>5 DEF v
    <3> HIDE DEF f
    <3> QED BY <3>1 DEF IsWayUp
  <2> QED BY <2>2, <2>6
<1>3. \A n \in Nat : n \in S
  <2>1. S \in SUBSET Nat
    OBVIOUS
  <2> HIDE DEF S
  <2> QED BY <1>1, <1>2, <2>1, Induct
<1> QED BY <1>3

LEMMA WayUpIs ==
  ASSUME Hangs(tree), NEW i \in 1 .. Len(tree)
  PROVE  /\ WayUp(i)[0] = i
         /\ \A k \in 0 .. Len(tree) : k + 1 <= Len(tree) => WayUp(i)[k + 1] = Up(WayUp(i)[k])
         /\ \A k \in 0 .. Len(tree) : WayUp(i)[k] \in 0 .. Len(tree)
<1> DEFINE n == Len(tree)
           F == CHOOSE f : IsWayUp(f, i, n)
<1>0. n \in Nat /\ n >= 1
  BY NodeIs DEF Hangs
<1>1. IsWayUp(F, i, n)
  BY <1>0, WayUpExists
<1>2. WayUp(i) = F
  BY DEF WayUp, IsWayUp
<1> HIDE DEF F, n
<1>3. \A k \in 0 .. n : F[k] = IF k = 0 THEN i ELSE Up(F[k - 1])
  <2> DEFINE w(k) == IF k = 0 THEN i ELSE Up(F[k - 1])
  <2>1. F = [k \in 0 .. n |-> w(k)]
    BY <1>1 DEF IsWayUp
  <2> HIDE DEF w
  <2>2. \A k \in 0 .. n : F[k] = w(k)
    BY <2>1
  <2> QED BY <2>2 DEF w
<1>4. F[0] = i
  BY <1>0, <1>3
<1>5. \A k \in 0 .. n : k + 1 <= n => F[k + 1] = Up(F[k])
  <2>1. ASSUME NEW k \in 0 .. n, k + 1 <= n
        PROVE  F[k + 1] = Up(F[k])
    <3>1. k + 1 \in 0 .. n /\ k + 1 # 0 /\ (k + 1) - 1 = k
      BY <1>0, <2>1
    <3> QED BY <1>3, <3>1
  <2> QED BY <2>1
<1>6. \A j \in 0 .. n : Up(j) \in 0 .. n
  <2>1. ASSUME NEW j \in 0 .. n
        PROVE  Up(j) \in 0 .. n
    <3>1. CASE j = 0
      BY <1>0, <3>1 DEF Up
    <3>2. CASE j = 1
      BY <1>0, <3>2 DEF Up, Hangs
    <3>3. CASE j \notin {0, 1}
      <4>1. j \in 2 .. n
        BY <1>0, <3>3
      <4>2. tree[j].parent \in 1 .. n
        BY <4>1 DEF Hangs, n
      <4> QED BY <1>0, <3>3, <4>2 DEF Up
    <3> QED BY <3>1, <3>2, <3>3
  <2> QED BY <2>1
<1> DEFINE S == {k \in Nat : k <= n => F[k] \in 0 .. n}
<1>7. 0 \in S
  <2>1. i \in 0 .. n
    BY <1>0 DEF n
  <2> QED BY <1>4, <2>1
<1>8. ASSUME NEW k \in S
      PROVE  k + 1 \in S
  <2>1. k \in Nat /\ k + 1 \in Nat
    BY <1>8
  <2>2. ASSUME k + 1 <= n
        PROVE  F[k + 1] \in 0 .. n
    <3>1. k <= n /\ k \in 0 .. n
      BY <1>0, <2>1, <2>2
    <3>2. F[k] \in 0 .. n
      BY <1>8, <3>1
    <3> QED BY <1>5, <1>6, <2>2, <3>1, <3>2
  <2> QED BY <2>1, <2>2
<1>9. \A k \in Nat : k \in S
  <2>1. S \in SUBSET Nat
    OBVIOUS
  <2> HIDE DEF S
  <2> QED BY <1>7, <1>8, <2>1, Induct
<1>10. \A k \in 0 .. n : F[k] \in 0 .. n
  <2>1. ASSUME NEW k \in 0 .. n
        PROVE  F[k] \in 0 .. n
    <3>1. k \in Nat /\ k <= n /\ k \in S
      BY <1>0, <1>9
    <3> QED BY <3>1
  <2> QED BY <2>1
<1> QED BY <1>2, <1>4, <1>5, <1>10 DEF n

(* Of as many steps as there are nodes, and one, two end at one node: a    *)
(* way that did not reach the root would be a ring.                        *)
LEMMA WayUpEnds ==
  ASSUME Hangs(tree), NoRing(tree), NEW i \in 1 .. Len(tree)
  PROVE  \E k \in 0 .. Len(tree) : WayUp(i)[k] = 0
<1> DEFINE n == Len(tree)
           F == WayUp(i)
<1>0. n \in Nat /\ n >= 1
  BY NodeIs DEF Hangs
<1>1. /\ F[0] = i
      /\ \A k \in 0 .. n : k + 1 <= n => F[k + 1] = Up(F[k])
      /\ \A k \in 0 .. n : F[k] \in 0 .. n
  BY WayUpIs
<1>r. \A C \in SUBSET (1 .. n) : (\A j \in C : tree[j].parent \in C) => C = {}
  BY DEF NoRing
<1> HIDE DEF n, F
<1> SUFFICES ASSUME \A k \in 0 .. n : F[k] # 0 PROVE FALSE
  BY DEF n, F
<1>2. \A k \in 0 .. n : F[k] \in 1 .. n
  BY <1>0, <1>1
<1>3. PICK x \in 0 .. n, y \in 0 .. n : x # y /\ F[x] = F[y]
  <2> DEFINE G == [k \in 0 .. n |-> F[k]]
  <2>1. G \in [0 .. n -> 1 .. n]
    BY <1>2
  <2>2. /\ IsFiniteSet(0 .. n) /\ Cardinality(0 .. n) = n + 1
        /\ IsFiniteSet(1 .. n) /\ Cardinality(1 .. n) = n
    <3>1. /\ IsFiniteSet(0 .. n) /\ Cardinality(0 .. n) = IF 0 > n THEN 0 ELSE n - 0 + 1
          /\ IsFiniteSet(1 .. n) /\ Cardinality(1 .. n) = IF 1 > n THEN 0 ELSE n - 1 + 1
      BY <1>0, FS_Interval
    <3> QED BY <1>0, <3>1
  <2>3. Cardinality(1 .. n) < Cardinality(0 .. n)
    BY <1>0, <2>2
  <2> HIDE DEF G
  <2>4. \E x, y \in 0 .. n : x # y /\ G[x] = G[y]
    BY <2>1, <2>2, <2>3, FS_PigeonHole
  <2> QED BY <2>4 DEF G
<1>4. PICK a \in 0 .. n, b \in 0 .. n : a < b /\ F[a] = F[b]
  BY <1>0, <1>3
<1> DEFINE C == {F[k] : k \in a .. (b - 1)}
<1>5. a \in Int /\ b \in Int /\ 0 <= a /\ b <= n
  BY <1>0
<1>6. \A k \in a .. (b - 1) : k \in 0 .. n /\ k + 1 <= n /\ (k + 1 \in a .. (b - 1) \/ k + 1 = b)
  BY <1>0, <1>4, <1>5
<1>7. a \in a .. (b - 1)
  BY <1>4, <1>5
<1>8. C \in SUBSET (1 .. n) /\ F[a] \in C
  BY <1>2, <1>6, <1>7
<1>9. ASSUME NEW j \in C
      PROVE  tree[j].parent \in C
  <2>1. PICK k \in a .. (b - 1) : j = F[k]
    BY <1>9
  <2>2. F[k + 1] = Up(F[k]) /\ k \in 0 .. n
    BY <1>1, <1>6
  <2>3. Up(F[k]) = tree[j].parent
    <3>1. F[k] # 0
      BY <2>2
    <3> QED BY <2>1, <3>1 DEF Up
  <2>4. F[k + 1] \in C
    <3>1. CASE k + 1 \in a .. (b - 1)
      BY <3>1
    <3>2. CASE k + 1 = b
      BY <1>4, <1>8, <3>2
    <3> QED BY <1>6, <3>1, <3>2
  <2> QED BY <2>2, <2>3, <2>4
<1> QED
  <2> HIDE DEF C
  <2> QED BY <1>r, <1>8, <1>9

LEMMA RootReached ==
  ASSUME Hangs(tree), NoRing(tree), NEW i \in 1 .. Len(tree)
  PROVE  WayUp(i)[Len(tree)] = 0
<1> DEFINE n == Len(tree)
           F == WayUp(i)
<1>0. n \in Nat /\ n >= 1
  BY NodeIs DEF Hangs
<1>1. \A k \in 0 .. n : k + 1 <= n => F[k + 1] = Up(F[k])
  BY WayUpIs
<1>2. PICK d \in 0 .. n : F[d] = 0
  BY WayUpEnds
<1> HIDE DEF n, F
<1> DEFINE S == {k \in Nat : d + k <= n => F[d + k] = 0}
<1>3. 0 \in S
  BY <1>0, <1>2
<1>4. ASSUME NEW k \in S
      PROVE  k + 1 \in S
  <2>1. k \in Nat /\ k + 1 \in Nat /\ d \in Nat
    BY <1>0, <1>4
  <2>2. ASSUME d + (k + 1) <= n
        PROVE  F[d + (k + 1)] = 0
    <3>1. d + k \in 0 .. n /\ (d + k) + 1 = d + (k + 1) /\ d + k <= n
      BY <1>0, <2>1, <2>2
    <3>2. F[d + k] = 0
      BY <1>4, <3>1
    <3>3. F[(d + k) + 1] = Up(F[d + k])
      BY <1>1, <2>2, <3>1
    <3> QED BY <3>1, <3>2, <3>3 DEF Up
  <2> QED BY <2>1, <2>2
<1>5. \A k \in Nat : k \in S
  <2>1. S \in SUBSET Nat
    OBVIOUS
  <2> HIDE DEF S
  <2> QED BY <1>3, <1>4, <2>1, Induct
<1>6. n - d \in Nat /\ d + (n - d) = n /\ n <= n
  BY <1>0
<1>7. n - d \in S
  BY <1>5, <1>6
<1>8. d + (n - d) <= n => F[d + (n - d)] = 0
  BY <1>7
<1> QED BY <1>6, <1>8 DEF n, F

(* What is traced: from a node to the root, and no node that is none.      *)
LEMMA BranchIs ==
  ASSUME Hangs(tree), NoRing(tree), NEW i \in 1 .. Len(tree)
  PROVE  /\ Branch(i) \in Seq(1 .. Len(tree)) /\ Len(Branch(i)) >= 1
         /\ Branch(i)[1] = i /\ Branch(i)[Len(Branch(i))] = 1
<1> DEFINE n == Len(tree)
           F == WayUp(i)
           S == {k \in 0 .. n : F[k] = 0}
           d == Depth(i)
           B == Branch(i)
<1>0. n \in Nat /\ n >= 1
  BY NodeIs DEF Hangs
<1>1. /\ F[0] = i
      /\ \A k \in 0 .. n : k + 1 <= n => F[k + 1] = Up(F[k])
      /\ \A k \in 0 .. n : F[k] \in 0 .. n
  BY WayUpIs
<1>2. d \in S /\ \A k \in S : d <= k
  <2>1. S \in SUBSET Nat /\ S # {}
    BY <1>0, WayUpEnds
  <2>2. d = Min(S)
    BY DEF Depth
  <2> HIDE DEF S, d
  <2> QED BY <2>1, <2>2, MinIs
<1>3. d \in 0 .. n /\ F[d] = 0 /\ \A k \in 0 .. n : k < d => F[k] # 0
  <2>1. d \in 0 .. n /\ F[d] = 0
    BY <1>2
  <2>2. ASSUME NEW k \in 0 .. n, k < d
        PROVE  F[k] # 0
    <3>1. F[k] = 0 => k \in S
      OBVIOUS
    <3>2. k \in Int /\ d \in Int
      BY <2>1
    <3> HIDE DEF d, S, F
    <3> QED BY <1>2, <2>2, <3>1, <3>2
  <2> QED BY <2>1, <2>2
<1>b. B = [k \in 1 .. d |-> F[k - 1]]
  BY DEF Branch
<1>i. i \in 1 .. n
  OBVIOUS
<1> HIDE DEF n, F, S, d, B
<1>4. d # 0 /\ d \in Nat /\ d >= 1
  BY <1>0, <1>1, <1>3, <1>i
<1>5. \A k \in 1 .. d : F[k - 1] \in 1 .. n
  <2>1. ASSUME NEW k \in 1 .. d
        PROVE  F[k - 1] \in 1 .. n
    <3>1. k - 1 \in 0 .. n /\ k - 1 < d
      BY <1>0, <1>3, <1>4
    <3> QED BY <1>0, <1>1, <1>3, <3>1
  <2> QED BY <2>1
<1>6. B \in Seq(1 .. n) /\ Len(B) = d
  <2> DEFINE V == 1 .. n
  <2>1. B \in [1 .. d -> V]
    BY <1>5, <1>b
  <2> HIDE DEF V
  <2>2. B \in Seq(V) /\ Len(B) = d
    BY <1>4, <2>1
  <2> QED BY <2>2 DEF V
<1>7. B[1] = i /\ B[d] = F[d - 1]
  <2>1. 1 \in 1 .. d /\ d \in 1 .. d /\ 1 - 1 = 0
    BY <1>4
  <2> QED BY <1>1, <1>b, <2>1
<1>8. F[d - 1] = 1
  <2>1. d - 1 \in 0 .. n /\ (d - 1) + 1 = d /\ d <= n /\ d \in 1 .. d
    BY <1>0, <1>3, <1>4
  <2>2. Up(F[d - 1]) = 0
    BY <1>1, <1>3, <2>1
  <2>3. F[d - 1] \in 1 .. n /\ F[d - 1] # 0
    BY <1>0, <1>5, <2>1
  <2>4. F[d - 1] \in 2 .. n => tree[F[d - 1]].parent \in 1 .. n
    BY DEF Hangs, n
  <2>5. tree[F[d - 1]].parent = 0
    BY <2>2, <2>3 DEF Up
  <2>6. F[d - 1] \notin 2 .. n
    BY <1>0, <2>4, <2>5
  <2> QED BY <1>0, <2>3, <2>6
<1> QED BY <1>4, <1>6, <1>7, <1>8 DEF n, B

-----------------------------------------------------------------------------
(* The plan: what it knows of its path at every place.                     *)
PlanTypes ==
  plan \in [pc : {"grow", "trace", "smooth", "done", "spins", "failed"}, iter : Nat,
            path : Seq(1 .. Len(tree)), curr : Nat, smoothed : Seq(1 .. Len(tree))]
Traced ==
  /\ plan.pc \in {"grow", "trace", "failed"} =>
       plan.path = <<>> /\ plan.smoothed = <<>> /\ plan.curr = 1
  /\ plan.pc = "trace" => tree[Len(tree)].at = Goal
  /\ plan.pc \in {"smooth", "done"} =>
       /\ Len(plan.path) >= 1 /\ Len(plan.smoothed) >= 1
       /\ tree[plan.path[1]].at = Origin /\ tree[plan.path[Len(plan.path)]].at = Goal
       /\ plan.smoothed[1] = plan.path[1]
Shortened ==
  /\ plan.pc = "smooth" => /\ plan.curr \in 1 .. Len(plan.path) - 1
                           /\ plan.smoothed[Len(plan.smoothed)] = plan.path[plan.curr]
  /\ plan.pc = "done" => plan.smoothed[Len(plan.smoothed)] = plan.path[Len(plan.path)]
  /\ Len(plan.path) > 2 /\ plan.pc # "spins" => \A i \in 1 .. Len(plan.smoothed) - 1 :
       FreeWay(tree[plan.smoothed[i]].at, tree[plan.smoothed[i + 1]].at)

PlanInd == Grown(tree) /\ PlanTypes /\ Traced /\ Shortened

LEMMA PlanInitInd == PlanInit => PlanInd
<1> SUFFICES ASSUME PlanInit PROVE PlanInd
  OBVIOUS
<1> DEFINE x == [at |-> Origin, cost |-> 0, parent |-> 0]
<1>1. x \in Nodes
  BY PlanAssumption DEF Nodes, WayPoints, Costs, Infinite
<1>2. tree \in Seq(Nodes) /\ Len(tree) = 1 /\ tree[1] = x
  BY <1>1 DEF PlanInit
<1>3. 2 .. Len(tree) = {} /\ \A i \in 1 .. Len(tree) : i = 1
  BY <1>2
<1>4. Hangs(tree) /\ Covered(tree) /\ Freed(tree)
  BY <1>2, <1>3 DEF Hangs, Covered, Freed
<1>5. NoRing(tree)
  <2> SUFFICES ASSUME NEW C \in SUBSET (1 .. Len(tree)), \A i \in C : tree[i].parent \in C
               PROVE  C = {}
    BY DEF NoRing
  <2>1. ASSUME NEW i \in C
        PROVE  FALSE
    <3>1. i = 1 /\ tree[i].parent = 0 /\ 0 \in C
      BY <1>2, <1>3
    <3> QED BY <1>3, <3>1
  <2> QED BY <2>1
<1>6. PlanTypes
  BY DEF PlanInit, PlanTypes
<1>7. Traced /\ Shortened
  BY DEF PlanInit, Traced, Shortened
<1> QED BY <1>4, <1>5, <1>6, <1>7 DEF PlanInd, Grown

LEMMA NearestIs ==
  ASSUME Grown(tree), NEW s \in WayPoints
  PROVE  Nearest(s) \in 1 .. Len(tree)
<1> DEFINE D(i) == Square(tree[i].at, s)
           K == {D(i) : i \in DOMAIN tree}
           M == {i \in DOMAIN tree : \A j \in DOMAIN tree : D(i) <= D(j)}
<1>1. /\ Len(tree) \in Nat /\ Len(tree) >= 1 /\ DOMAIN tree = 1 .. Len(tree)
      /\ \A i \in DOMAIN tree : tree[i].at \in WayPoints
  BY NodeIs DEF Grown, Hangs
<1>2. \A i \in DOMAIN tree : D(i) \in Nat
  BY <1>1, SquareIs
<1>3. K \in SUBSET Nat /\ K # {}
  <2>1. 1 \in DOMAIN tree
    BY <1>1
  <2> HIDE DEF D
  <2> QED BY <1>2, <2>1
<1>4. PICK c \in K : \A e \in K : c <= e
  <2> HIDE DEF K
  <2> QED BY <1>3, Lowest
<1>5. M \in SUBSET Nat /\ M # {}
  <2> HIDE DEF D
  <2> QED BY <1>1, <1>4
<1>6. Nearest(s) = Min(M)
  BY DEF Nearest
<1>7. Min(M) \in M
  <2> HIDE DEF M
  <2> QED BY <1>5, MinIs
<1> QED BY <1>1, <1>6, <1>7

(* The path and its shortcuts are of no more than the tree there was.      *)
LEMMA GrowKeeps == PlanInd /\ Grow => PlanInd'
<1> SUFFICES ASSUME PlanInd, Grow PROVE PlanInd'
  OBVIOUS
<1>0. plan.pc = "grow"
  BY DEF Grow
<1>1. PICK s \in WayPoints : \E near \in {Nearest(s)} :
         LET new == Steer(tree[near].at, s)
         IN  IF s = tree[near].at \/ new \notin Places \/ ~Clear(new)
               THEN plan' = [plan EXCEPT !.iter = @ + 1] /\ UNCHANGED tree
               ELSE AddNode(near, new)
  BY DEF Grow
<1> DEFINE near == Nearest(s)
           new == Steer(tree[near].at, s)
<1>2. near \in 1 .. Len(tree)
  BY NearestIs DEF PlanInd
<1>3. \/ plan' = [plan EXCEPT !.iter = @ + 1] /\ UNCHANGED tree
      \/ new \in Places /\ AddNode(near, new)
  BY <1>1
<1>4. /\ plan.path = <<>> /\ plan.smoothed = <<>> /\ plan.iter \in Nat /\ plan.curr \in Nat
      /\ plan.curr = 1
  BY <1>0 DEF PlanInd, Traced, PlanTypes
<1> HIDE DEF near, new
<1>e. \A S : <<>> \in Seq(S) /\ ~(Len(<<>>) > 2)
  OBVIOUS
\* what is planned is still to come
<1>p. ASSUME NEW q \in {"grow", "trace"},
             plan' = [plan EXCEPT !.pc = q, !.iter = @ + 1],
             q = "trace" => tree'[Len(tree')].at = Goal
      PROVE  PlanTypes' /\ Traced' /\ Shortened'
  <2>1. plan' = [pc |-> q, iter |-> plan.iter + 1, path |-> <<>>, curr |-> plan.curr,
                 smoothed |-> <<>>]
    BY <1>4, <1>p DEF PlanInd, PlanTypes
  <2>2. PlanTypes'
    BY <1>4, <1>e, <2>1 DEF PlanTypes
  <2>3. plan'.pc = q /\ plan'.path = <<>> /\ plan'.smoothed = <<>> /\ plan'.curr = 1
    BY <1>4, <2>1
  <2>4. q \notin {"smooth", "done"} /\ q # "smooth" /\ q # "done"
    OBVIOUS
  <2>5. Traced'
    BY <1>p, <2>3, <2>4 DEF Traced
  <2>6. Shortened'
    BY <1>e, <2>3, <2>4 DEF Shortened
  <2> QED BY <2>2, <2>5, <2>6
<1>5. CASE plan' = [plan EXCEPT !.iter = @ + 1] /\ UNCHANGED tree
  <2>1. plan' = [plan EXCEPT !.pc = "grow", !.iter = @ + 1]
    BY <1>0, <1>5 DEF PlanInd, PlanTypes
  <2>2. Grown(tree')
    BY <1>5 DEF PlanInd
  <2> QED BY <1>p, <2>1, <2>2 DEF PlanInd
<1>6. CASE new \in Places /\ AddNode(near, new)
  <2> DEFINE x == NodeFor(near, new)
             g == WithNode(near, new)
             y == [at |-> Goal, cost |-> Plus(x.cost, Length(new, Goal)), parent |-> Len(g)]
  <2>1. new \in WayPoints /\ Goal \in WayPoints
    BY <1>6 DEF WayPoints
  <2>2. Grown(g) /\ x \in Nodes /\ g[Len(g)] = x
    BY <1>2, <2>1, NewNode DEF PlanInd
  <2>3. \/ Square(new, Goal) < GOAL_RADIUS * GOAL_RADIUS
           /\ tree' = Append(g, y) /\ plan' = [plan EXCEPT !.pc = "trace", !.iter = @ + 1]
        \/ tree' = g /\ plan' = [plan EXCEPT !.iter = @ + 1]
    BY <1>6 DEF AddNode, NodeFor, WithNode
  <2>4. x.at = new /\ x.cost \in Costs
    BY <2>2 DEF NodeFor, Nodes
  <2> HIDE DEF x, g
  <2>5. CASE tree' = g /\ plan' = [plan EXCEPT !.iter = @ + 1]
    <3>1. plan' = [plan EXCEPT !.pc = "grow", !.iter = @ + 1]
      BY <1>0, <2>5 DEF PlanInd, PlanTypes
    <3> QED BY <1>p, <2>2, <2>5, <3>1 DEF PlanInd
  <2>6. CASE tree' = Append(g, y) /\ plan' = [plan EXCEPT !.pc = "trace", !.iter = @ + 1]
    <3>1. Plus(x.cost, Length(new, Goal)) \in Costs /\ Len(g) \in Nat
      <4>1. Length(new, Goal) \in Nat
        BY <2>1, LengthIs
      <4>2. Len(g) \in Nat
        BY <2>2, NodeIs DEF Grown
      <4> QED BY <2>4, <4>1, <4>2, PlusIs
    <3>2. y \in Nodes /\ y.parent = Len(g) /\ y.at = Goal
      BY <2>1, <3>1 DEF Nodes
    <3>3. y.cost >= Plus(g[Len(g)].cost, Length(g[Len(g)].at, y.at))
      <4>1. y.cost = Plus(g[Len(g)].cost, Length(g[Len(g)].at, y.at)) /\ y.cost \in Costs
        BY <2>2, <2>4, <3>1
      <4>2. \A c \in Costs : c >= c
        BY DEF Costs, Infinite
      <4> QED BY <4>1, <4>2
    <3> HIDE DEF y
    <3>4. Grown(tree') /\ tree'[Len(tree')] = y
      BY <2>2, <2>6, <3>2, <3>3, LastNode
    <3> QED BY <1>p, <2>6, <3>2, <3>4 DEF PlanInd
  <2> QED BY <2>3, <2>5, <2>6
<1> QED BY <1>3, <1>5, <1>6

LEMMA GiveUpKeeps == PlanInd /\ GiveUpPlan => PlanInd'
<1> SUFFICES ASSUME PlanInd, GiveUpPlan PROVE PlanInd'
  OBVIOUS
<1>1. /\ plan.pc = "grow" /\ plan' = [plan EXCEPT !.pc = "failed"] /\ tree' = tree
  BY DEF GiveUpPlan
<1>2. /\ plan.path = <<>> /\ plan.smoothed = <<>> /\ plan.iter \in Nat /\ plan.curr \in Nat
      /\ plan.curr = 1
  BY <1>1 DEF PlanInd, Traced, PlanTypes
<1>3. plan' = [pc |-> "failed", iter |-> plan.iter, path |-> <<>>, curr |-> plan.curr,
               smoothed |-> <<>>]
  BY <1>1, <1>2 DEF PlanInd, PlanTypes
<1>4. \A S : <<>> \in Seq(S) /\ ~(Len(<<>>) > 2)
  OBVIOUS
<1>5. PlanTypes'
  BY <1>2, <1>3, <1>4 DEF PlanTypes
<1>6. plan'.pc = "failed" /\ plan'.path = <<>> /\ plan'.smoothed = <<>> /\ plan'.curr = 1
  BY <1>2, <1>3
<1>7. Traced'
  BY <1>6 DEF Traced
<1>8. Shortened'
  BY <1>4, <1>6 DEF Shortened
<1> QED BY <1>1, <1>5, <1>7, <1>8 DEF PlanInd

LEMMA TurnedOver ==
  ASSUME NEW n \in Nat, NEW b \in Seq(1 .. n), Len(b) >= 1
  PROVE  /\ Reverse(b) \in Seq(1 .. n) /\ Len(Reverse(b)) = Len(b)
         /\ Reverse(b)[1] = b[Len(b)] /\ Reverse(b)[Len(b)] = b[1]
<1> DEFINE V == 1 .. n
           m == Len(b)
           r == Reverse(b)
<1>1. m \in Nat /\ m >= 1 /\ \A k \in 1 .. m : b[k] \in V
  OBVIOUS
<1>2. r = [k \in 1 .. m |-> b[(m - k) + 1]]
  BY DEF Reverse
<1> HIDE DEF V, m, r
<1>3. \A k \in 1 .. m : (m - k) + 1 \in 1 .. m
  BY <1>1
<1>4. r \in [1 .. m -> V]
  BY <1>1, <1>2, <1>3
<1>5. r \in Seq(V) /\ Len(r) = m
  BY <1>1, <1>4
<1>6. 1 \in 1 .. m /\ m \in 1 .. m /\ (m - 1) + 1 = m /\ (m - m) + 1 = 1
  BY <1>1
<1>7. r[1] = b[m] /\ r[m] = b[1]
  BY <1>2, <1>6
<1> QED BY <1>5, <1>7 DEF V, m, r

LEMMA TraceKeeps == PlanInd /\ TracePath => PlanInd'
<1> SUFFICES ASSUME PlanInd, TracePath PROVE PlanInd'
  OBVIOUS
<1> DEFINE n == Len(tree)
           b == Reverse(Branch(n))
<1>1. /\ plan.pc = "trace" /\ tree' = tree
      /\ plan' = [plan EXCEPT !.pc = IF Len(b) <= 2 THEN "done" ELSE "smooth", !.path = b,
                              !.smoothed = IF Len(b) <= 2 THEN b ELSE <<b[1]>>]
  BY DEF TracePath
<1>2. n \in Nat /\ n >= 1 /\ Hangs(tree) /\ NoRing(tree) /\ tree[1].at = Origin
  BY NodeIs DEF PlanInd, Grown, Hangs
<1>3. tree[n].at = Goal /\ plan.iter \in Nat
  BY <1>1 DEF PlanInd, Traced, PlanTypes
<1>4. /\ Branch(n) \in Seq(1 .. n) /\ Len(Branch(n)) >= 1
      /\ Branch(n)[1] = n /\ Branch(n)[Len(Branch(n))] = 1
  <2>1. n \in 1 .. Len(tree)
    BY <1>2
  <2> QED BY <1>2, <2>1, BranchIs
<1>5. /\ b \in Seq(1 .. n) /\ Len(b) >= 1 /\ Len(b) \in Nat
      /\ b[1] = 1 /\ b[Len(b)] = n
  <2> DEFINE c == Branch(n)
  <2>1. c \in Seq(1 .. n) /\ Len(c) >= 1 /\ c[1] = n /\ c[Len(c)] = 1 /\ n \in Nat
    BY <1>2, <1>4
  <2> HIDE DEF c, n
  <2>2. /\ Reverse(c) \in Seq(1 .. n) /\ Len(Reverse(c)) = Len(c)
        /\ Reverse(c)[1] = c[Len(c)] /\ Reverse(c)[Len(c)] = c[1]
    BY <2>1, TurnedOver
  <2>3. Len(c) \in Nat
    BY <2>1
  <2> QED BY <2>1, <2>2, <2>3 DEF c
<1>c. plan.curr = 1
  BY <1>1 DEF PlanInd, Traced
<1> DEFINE q == IF Len(b) <= 2 THEN "done" ELSE "smooth"
           sm == IF Len(b) <= 2 THEN b ELSE <<b[1]>>
<1>6. plan' = [pc |-> q, iter |-> plan.iter, path |-> b, curr |-> 1, smoothed |-> sm]
  BY <1>1, <1>c DEF PlanInd, PlanTypes
<1> HIDE DEF n, b
<1>7. sm \in Seq(1 .. n) /\ Len(sm) >= 1 /\ sm[1] = b[1]
  <2>1. CASE Len(b) <= 2
    BY <1>5, <2>1
  <2>2. CASE ~(Len(b) <= 2)
    <3> DEFINE V == 1 .. n
    <3>1. b[1] \in V
      BY <1>2, <1>5
    <3> HIDE DEF V
    <3>2. <<b[1]>> \in Seq(V) /\ Len(<<b[1]>>) = 1 /\ <<b[1]>>[1] = b[1]
      BY <3>1
    <3> QED BY <2>2, <3>2 DEF V
  <2> QED BY <2>1, <2>2
<1>8. q \in {"done", "smooth"}
  OBVIOUS
<1>9. Len(b) <= 2 => q = "done" /\ sm = b
  OBVIOUS
<1>10. ~(Len(b) <= 2) => q = "smooth" /\ sm = <<b[1]>>
  OBVIOUS
<1> HIDE DEF q, sm
<1>11. /\ plan'.pc = q /\ plan'.iter = plan.iter /\ plan'.path = b /\ plan'.curr = 1
       /\ plan'.smoothed = sm
  BY <1>6
<1>12. PlanTypes'
  <2>1. 1 \in Nat /\ tree' = tree
    BY <1>1
  <2>2. q \in {"grow", "trace", "smooth", "done", "spins", "failed"}
    BY <1>8
  <2>3. b \in Seq(1 .. Len(tree')) /\ sm \in Seq(1 .. Len(tree'))
    BY <1>5, <1>7, <2>1 DEF n
  <2> QED BY <1>3, <1>6, <2>1, <2>2, <2>3 DEF PlanTypes
<1>13. Traced'
  <2>1. q \notin {"grow", "trace", "failed"} /\ q # "trace"
    BY <1>8
  <2> QED BY <1>1, <1>2, <1>3, <1>5, <1>7, <1>11, <2>1 DEF Traced
<1>14. Shortened'
  <2>1. CASE Len(b) <= 2
    <3>1. q = "done" /\ sm = b /\ q # "smooth" /\ ~(Len(b) > 2)
      BY <1>5, <1>9, <2>1
    <3> QED BY <1>11, <3>1 DEF Shortened
  <2>2. CASE ~(Len(b) <= 2)
    <3>1. q = "smooth" /\ sm = <<b[1]>> /\ q # "done"
      BY <1>10, <2>2
    <3>2. 1 \in 1 .. Len(b) - 1 /\ Len(sm) = 1 /\ sm[1] = b[1] /\ 1 .. Len(sm) - 1 = {}
      BY <1>5, <2>2, <3>1
    <3> QED BY <1>11, <3>1, <3>2 DEF Shortened
  <2> QED BY <2>1, <2>2
<1> QED BY <1>1, <1>12, <1>13, <1>14 DEF PlanInd

\* the waypoint before the first that no free edge leads to
LEMMA FurthestIs ==
  ASSUME NEW i \in Nat, NEW m \in Nat, m = Len(plan.path), i >= 1, i < m
  PROVE  /\ Furthest(i) \in i .. m
         /\ Furthest(i) # i => FreeWay(WayPointAt(i), WayPointAt(Furthest(i)))
<1> DEFINE B == {j \in i + 1 .. m : ~FreeWay(WayPointAt(i), WayPointAt(j))}
           S == {m + 1} \cup B
           c == Min(S)
           f == Furthest(i)
<1>1. \A j \in i + 1 .. m : j \in Nat /\ j > i /\ j <= m
  OBVIOUS
<1>2. S \in SUBSET Nat /\ S # {} /\ m + 1 \in S
  BY <1>1
<1>3. c \in S /\ \A j \in S : c <= j
  <2> HIDE DEF S
  <2> QED BY <1>2, MinIs
<1>4. c \in Nat /\ c <= m + 1 /\ c >= i + 1
  <2>1. c \in Nat /\ c <= m + 1
    BY <1>2, <1>3
  <2>2. \A j \in S : j >= i + 1
    BY <1>1
  <2> HIDE DEF c, S
  <2> QED BY <1>3, <2>1, <2>2
<1>5. f = c - 1
  BY DEF Furthest
<1>6. \A j \in i + 1 .. m : j \notin S => FreeWay(WayPointAt(i), WayPointAt(j))
  OBVIOUS
<1> HIDE DEF S, c, f
<1>7. f \in i .. m /\ f \in Nat
  BY <1>4, <1>5
<1>8. ASSUME f # i
      PROVE  FreeWay(WayPointAt(i), WayPointAt(f))
  <2>1. f \in i + 1 .. m /\ ~(c <= f)
    BY <1>4, <1>5, <1>7, <1>8
  <2>2. f \notin S
    BY <1>3, <2>1
  <2> QED BY <1>6, <2>1, <2>2
<1> QED BY <1>7, <1>8 DEF f

(* One waypoint more: those there were, and the last.                      *)
LEMMA OneMore ==
  ASSUME NEW n \in Nat, NEW s \in Seq(1 .. n), NEW x \in 1 .. n, Len(s) >= 1
  PROVE  /\ Append(s, x) \in Seq(1 .. n) /\ Len(Append(s, x)) = Len(s) + 1 /\ Len(s) \in Nat
         /\ Append(s, x)[Len(s) + 1] = x
         /\ \A k \in 1 .. Len(s) : Append(s, x)[k] = s[k]
<1> DEFINE V == 1 .. n
<1>1. s \in Seq(V) /\ x \in V
  OBVIOUS
<1> HIDE DEF V
<1>2. /\ Append(s, x) \in Seq(V) /\ Len(Append(s, x)) = Len(s) + 1 /\ Len(s) \in Nat
      /\ Append(s, x)[Len(s) + 1] = x
      /\ \A k \in 1 .. Len(s) : Append(s, x)[k] = s[k]
  BY <1>1
<1> QED BY <1>2 DEF V

LEMMA SmoothKeeps == PlanInd /\ Smooth => PlanInd'
<1> SUFFICES ASSUME PlanInd, Smooth PROVE PlanInd'
  OBVIOUS
<1> DEFINE m == Len(plan.path)
           n == Furthest(plan.curr)
           q == CASE n = plan.curr -> "spins" [] n = m -> "done" [] OTHER -> "smooth"
           a == Append(plan.smoothed, plan.path[n])
           k == Len(plan.smoothed)
<1>1. /\ plan.pc = "smooth" /\ tree' = tree
      /\ plan' = [plan EXCEPT !.curr = n, !.smoothed = a, !.pc = q]
  BY DEF Smooth
<1>2. /\ plan.path \in Seq(1 .. Len(tree)) /\ plan.smoothed \in Seq(1 .. Len(tree))
      /\ plan.iter \in Nat /\ Len(tree) \in Nat
  BY NodeIs DEF PlanInd, PlanTypes, Grown
<1>3. /\ m >= 1 /\ k >= 1 /\ plan.smoothed[1] = plan.path[1]
      /\ tree[plan.path[1]].at = Origin /\ tree[plan.path[m]].at = Goal
  BY <1>1 DEF PlanInd, Traced
<1>4. /\ plan.curr \in 1 .. m - 1 /\ plan.smoothed[k] = plan.path[plan.curr]
      /\ m > 2 => \A i \in 1 .. k - 1 :
           FreeWay(tree[plan.smoothed[i]].at, tree[plan.smoothed[i + 1]].at)
  BY <1>1 DEF PlanInd, Shortened
<1>5. m \in Nat /\ k \in Nat /\ plan.curr \in Nat /\ plan.curr >= 1 /\ plan.curr < m
  <2>1. m \in Nat /\ k \in Nat
    BY <1>2
  <2> HIDE DEF m, k
  <2> QED BY <1>4, <2>1
<1>6. /\ n \in plan.curr .. m /\ n \in Nat
      /\ n # plan.curr => FreeWay(tree[plan.path[plan.curr]].at, tree[plan.path[n]].at)
  <2>1. /\ Furthest(plan.curr) \in plan.curr .. m
        /\ Furthest(plan.curr) # plan.curr =>
             FreeWay(WayPointAt(plan.curr), WayPointAt(Furthest(plan.curr)))
    BY <1>5, FurthestIs
  <2> HIDE DEF m
  <2> QED BY <1>5, <2>1 DEF WayPointAt
<1>7. plan' = [pc |-> q, iter |-> plan.iter, path |-> plan.path, curr |-> n, smoothed |-> a]
  BY <1>1 DEF PlanInd, PlanTypes
<1>8. /\ n = plan.curr => q = "spins"
      /\ n # plan.curr /\ n = m => q = "done"
      /\ n # plan.curr /\ n # m => q = "smooth"
      /\ q \in {"spins", "done", "smooth"}
  BY <1>5
<1> HIDE DEF n, q
<1>9. plan.path[n] \in 1 .. Len(tree)
  <2> DEFINE V == 1 .. Len(tree)
  <2>1. plan.path \in Seq(V)
    BY <1>2
  <2>2. n \in 1 .. Len(plan.path)
    BY <1>5, <1>6
  <2> HIDE DEF V
  <2>3. plan.path[n] \in V
    BY <2>1, <2>2
  <2> QED BY <2>3 DEF V
<1>10. /\ a \in Seq(1 .. Len(tree)) /\ Len(a) = k + 1 /\ a[k + 1] = plan.path[n]
       /\ \A i \in 1 .. k : a[i] = plan.smoothed[i]
  BY <1>2, <1>3, <1>9, OneMore
<1> HIDE DEF a, k, m
<1>11. /\ plan'.pc = q /\ plan'.path = plan.path /\ plan'.curr = n /\ plan'.smoothed = a
  BY <1>7
<1>12. PlanTypes'
  <2>1. q \in {"grow", "trace", "smooth", "done", "spins", "failed"}
    BY <1>8
  <2> QED BY <1>1, <1>2, <1>6, <1>7, <1>10, <2>1 DEF PlanTypes
<1>13. 1 \in 1 .. k /\ Len(a) >= 1 /\ a[1] = plan.smoothed[1]
  BY <1>3, <1>5, <1>10
<1>14. Traced'
  <2>1. q \notin {"grow", "trace", "failed"} /\ q # "trace"
    BY <1>8
  <2> QED BY <1>1, <1>3, <1>11, <1>13, <2>1 DEF Traced, m
<1>15. ASSUME m > 2, q # "spins", NEW i \in 1 .. Len(a) - 1
       PROVE  FreeWay(tree[a[i]].at, tree[a[i + 1]].at)
  <2>1. i \in 1 .. k /\ (i = k \/ (i \in 1 .. k - 1 /\ i + 1 \in 1 .. k))
    BY <1>5, <1>10
  <2>2. CASE i = k
    <3>1. a[i] = plan.path[plan.curr] /\ a[i + 1] = plan.path[n]
      BY <1>4, <1>10, <2>1, <2>2
    <3> QED BY <1>6, <1>8, <1>15, <3>1
  <2>3. CASE i \in 1 .. k - 1 /\ i + 1 \in 1 .. k
    <3>1. a[i] = plan.smoothed[i] /\ a[i + 1] = plan.smoothed[i + 1]
      BY <1>10, <2>1, <2>3
    <3> QED BY <1>4, <1>15, <2>3, <3>1
  <2> QED BY <2>1, <2>2, <2>3
<1>16. q = "smooth" => n \in 1 .. m - 1
  BY <1>5, <1>6, <1>8
<1>17. q = "done" => n = m
  BY <1>8
<1>18. Shortened'
  <2>1. a[Len(a)] = plan.path[n]
    BY <1>10
  <2> QED BY <1>1, <1>11, <1>15, <1>16, <1>17, <2>1 DEF Shortened, m
<1> QED BY <1>1, <1>12, <1>14, <1>18 DEF PlanInd

LEMMA PlanStep == PlanInd /\ [PlanNext]_planVars => PlanInd'
<1> SUFFICES ASSUME PlanInd, [PlanNext]_planVars PROVE PlanInd'
  OBVIOUS
<1>1. CASE UNCHANGED planVars
  BY <1>1 DEF planVars, PlanInd, Grown, Hangs, Covered, Freed, NoRing, PlanTypes, Traced, Shortened
<1>2. CASE PlanNext
  BY <1>2, GrowKeeps, GiveUpKeeps, TraceKeeps, SmoothKeeps DEF PlanNext
<1> QED BY <1>1, <1>2

(* What the inductive invariant says of the tree and of the route.         *)
LEMMA PlanIndInv == PlanInd => PlanInv
<1> SUFFICES ASSUME PlanInd PROVE PlanInv
  OBVIOUS
<1>1. /\ Len(tree) \in Nat /\ Len(tree) >= 1 /\ DOMAIN tree = 1 .. Len(tree)
      /\ Hangs(tree) /\ NoRing(tree) /\ Covered(tree) /\ Freed(tree)
  BY NodeIs DEF PlanInd, Grown, Hangs
<1>2. \A i \in DOMAIN tree \ {1} : i \in 2 .. Len(tree) /\ Up(i) = tree[i].parent
  BY <1>1 DEF Up
<1>3. Rooted
  BY <1>1, RootReached DEF Rooted
<1>4. CostsCover
  BY <1>1, <1>2 DEF CostsCover, Covered
<1>5. CheapIsFree
  BY <1>1, <1>2 DEF CheapIsFree, Freed
<1>6. RouteIsFlyable
  <2>1. ASSUME plan.pc = "done"
        PROVE  /\ tree[plan.smoothed[1]].at = Origin
               /\ tree[plan.smoothed[Len(plan.smoothed)]].at = Goal
    BY <2>1 DEF PlanInd, Traced, Shortened
  <2>2. Len(plan.path) > 2 /\ plan.pc # "spins" => \A i \in 1 .. Len(plan.smoothed) - 1 :
          FreeWay(tree[plan.smoothed[i]].at, tree[plan.smoothed[i + 1]].at)
    BY DEF PlanInd, Shortened
  <2> QED BY <2>1, <2>2 DEF RouteIsFlyable
<1> QED BY <1>3, <1>4, <1>5, <1>6 DEF PlanInv

LEMMA PlanHolds == PlanInit /\ [][PlanNext]_planVars => []PlanInv
BY PlanInitInd, PlanStep, PlanIndInv, PTL

-----------------------------------------------------------------------------
(* KeyboardControl: what comes down is sent nothing.                       *)

Descending == drone.at = "descent" => loop.active = FALSE /\ drone.told = Still
Piloted ==
  /\ loop = [pc |-> loop.pc, active |-> loop.active]
  /\ drone = [at |-> drone.at, armed |-> drone.armed, told |-> drone.told]
KeyboardInd == Piloted /\ Descending

LEMMA KeyboardStart == KeyboardInit => KeyboardInd
BY DEF KeyboardInit, KeyboardInd, Piloted, Descending, Still

LEMMA KeyboardStep == KeyboardInd /\ [KeyboardNext]_keyboardVars => KeyboardInd'
<1> SUFFICES ASSUME KeyboardInd, [KeyboardNext]_keyboardVars PROVE KeyboardInd'
  OBVIOUS
<1> USE DEF KeyboardInd, Piloted, Descending
<1>1. CASE UNCHANGED keyboardVars
  BY <1>1 DEF keyboardVars
<1>2. CASE UNCHANGED <<loop, drone>>
  BY <1>2
<1>3. ASSUME drone' = drone, NEW l, LoopAt(l)
      PROVE  KeyboardInd'
  <2>1. loop' = [pc |-> l, active |-> loop.active]
    BY <1>3 DEF LoopAt
  <2> QED BY <1>3, <2>1
<1>4. CASE TakesOff
  <2>1. CASE LoopAt("climb") /\ drone' = [drone EXCEPT !.armed = TRUE,
                                               !.at = IF @ = "air" THEN @ ELSE "climb"]
    <3>1. drone' = [at |-> IF drone.at = "air" THEN drone.at ELSE "climb", armed |-> TRUE,
                    told |-> drone.told]
      BY <2>1
    <3>2. loop' = [pc |-> "climb", active |-> loop.active]
      BY <2>1 DEF LoopAt
    <3>3. drone'.at # "descent"
      BY <3>1
    <3> QED BY <3>1, <3>2, <3>3
  <2> QED BY <1>3, <1>4, <2>1 DEF TakesOff
<1>5. CASE StartOffboard
  <2>1. drone' = [at |-> "air", armed |-> drone.armed, told |-> Still]
    BY <1>5 DEF StartOffboard
  <2>2. loop' = [pc |-> loop'.pc, active |-> loop'.active]
    BY <1>5 DEF StartOffboard, LoopAt
  <2>3. drone'.at # "descent"
    BY <2>1
  <2> QED BY <2>1, <2>2, <2>3
<1>6. CASE NoTakeoff \/ LandingWaited \/ NoLanding \/ Idles
  BY <1>3, <1>6 DEF NoTakeoff, LandingWaited, NoLanding, Idles
<1>7. CASE Lands
  <2>1. CASE /\ loop' = [pc |-> "landing", active |-> FALSE]
             /\ drone' = [drone EXCEPT !.at = IF @ = "ground" THEN @ ELSE "descent", !.told = Still]
    <3>1. drone' = [at |-> IF drone.at = "ground" THEN drone.at ELSE "descent",
                    armed |-> drone.armed, told |-> Still]
      BY <2>1
    <3> QED BY <2>1, <3>1
  <2>2. CASE loop' = [pc |-> "shutdown", active |-> FALSE] /\ UNCHANGED drone
    BY <2>2
  <2> QED BY <1>7, <2>1, <2>2 DEF Lands
<1>8. CASE Sends
  <2> DEFINE v == [forward |-> shared.forward, yaw |-> Yaw]
  <2>1. CASE LoopAt("shutdown") /\ UNCHANGED drone
    BY <1>3, <2>1
  <2>2. CASE LoopAt("loop") /\ drone' = [drone EXCEPT !.told = v]
    <3>1. /\ loop.active /\ drone' = [drone EXCEPT !.told = v]
          /\ loop' = [loop EXCEPT !.pc = "loop"]
      BY <1>8, <2>2 DEF Sends, LoopAt
    <3> HIDE DEF v
    <3>2. /\ drone' = [at |-> drone.at, armed |-> drone.armed, told |-> v]
          /\ loop' = [pc |-> "loop", active |-> loop.active]
      BY <3>1
    <3>3. drone'.at = drone.at /\ drone.at # "descent"
      BY <3>1, <3>2
    <3> QED BY <3>2, <3>3
  <2> QED BY <1>8, <2>1, <2>2 DEF Sends
<1>9. CASE Shutdown
  <2>1. PICK off : drone' = [drone EXCEPT !.armed = off, !.told = Still]
    BY <1>9 DEF Shutdown
  <2>2. loop' = [pc |-> "gone", active |-> FALSE]
    BY <1>9 DEF Shutdown
  <2>3. drone' = [at |-> drone.at, armed |-> off, told |-> Still]
    BY <2>1
  <2> QED BY <2>2, <2>3
<1>10. CASE Vehicle
  <2>1. CASE drone' = [drone EXCEPT !.at = "air"]
    <3>1. drone' = [at |-> "air", armed |-> drone.armed, told |-> drone.told] /\ loop' = loop
      BY <1>10, <2>1 DEF Vehicle
    <3>2. drone'.at # "descent"
      BY <3>1
    <3> QED BY <3>1, <3>2
  <2>2. CASE drone' = [drone EXCEPT !.at = "ground", !.armed = FALSE]
    <3>1. drone' = [at |-> "ground", armed |-> FALSE, told |-> drone.told] /\ loop' = loop
      BY <1>10, <2>2 DEF Vehicle
    <3>2. drone'.at # "descent"
      BY <3>1
    <3> QED BY <3>1, <3>2
  <2> QED BY <1>10, <2>1, <2>2 DEF Vehicle
<1>11. CASE KeyboardThread \/ KeyTimesOut
  BY <1>2, <1>11 DEF KeyboardThread, KeyTimesOut
<1> QED
  BY <1>1, <1>4, <1>5, <1>6, <1>7, <1>8, <1>9, <1>10, <1>11 DEF KeyboardNext, KeyboardLoop

(* Whatever keys are pressed and whichever call raises: from the order to  *)
(* land until it is down or takes off again, the vehicle is sent nothing   *)
(* but to be still (keyboardcontrol.py:215, 226).                          *)
THEOREM DescendsAlone == KeyboardSpec => DescentIsLeftAlone
<1>1. KeyboardInd' => (drone.at = "descent" /\ drone'.at = "descent" => drone'.told = Still)
  BY DEF KeyboardInd, Descending
<1> QED BY <1>1, KeyboardStart, KeyboardStep, PTL DEF KeyboardSpec, DescentIsLeftAlone

-----------------------------------------------------------------------------
(* GlobalController: the bot remembers one ramp, and throws all its balls. *)

(* Where the control loop can sleep, and what it knows there.              *)
Sleeping ==
  /\ inside = "touring" => botState = "Goal_Navigation"
  /\ inside = "climbing" => botState = "Attempting_Ramp"
Bumped ==
  /\ ramp # None => hitRamped = TRUE
  /\ botState = "Imu_Interrupt" /\ hitRamped = TRUE => inside = "backing" \/ dead = TRUE
Thrown ==
  /\ heat \in Nat /\ (centres = None \/ centres \in Nat)
  /\ inside = "touring" => aims \in Nat /\ balls \in Nat /\ aims + balls = centres
  /\ botState = "Attempting_Ramp" => balls = centres
ExplorerInd == Sleeping /\ Bumped /\ Thrown

LEMMA ExplorerStart == ExplorerInit => ExplorerInd
BY ExplorerAssumption DEF ExplorerInit, ExplorerInd, Sleeping, Bumped, Thrown

LEMMA ExplorerStep == ExplorerInd /\ [ExplorerNext]_explorerVars => ExplorerInd'
<1> SUFFICES ASSUME ExplorerInd, [ExplorerNext]_explorerVars PROVE ExplorerInd'
  OBVIOUS
<1>0. /\ None # "touring" /\ None # "climbing" /\ None # "backing" /\ None # "wait_for_map"
      /\ Clusters \in Nat
  BY ExplorerAssumption, GridAssumption
<1> USE DEF ExplorerInd, Sleeping, Bumped, Thrown, mapping, ramping, heating, goals
<1>1. CASE UNCHANGED <<botState, inside, dead, ramping, heating>>
  BY <1>1
<1>2. CASE ImuCallback \/ HeatCallback
  BY <1>2 DEF ImuCallback, HeatCallback
<1>3. CASE FastLoop
  BY <1>0, <1>3 DEF FastLoop, Free
<1>4. CASE Initialise
  BY <1>0, <1>4 DEF Initialise, Free
<1>5. CASE HandleInterrupt
  BY <1>0, <1>5 DEF HandleInterrupt, Free, NavToGoal, Dies
<1>6. ASSUME Free, botState = "Exploratory_Mapping", AfterMover
      PROVE  ExplorerInd'
  <2>1. /\ inside' = inside /\ hitRamped' = hitRamped /\ ramp' = ramp /\ heat' = heat
        /\ aims' = aims /\ balls' = balls
        /\ \/ botState' = "Goal_Navigation" /\ centres' \in {None, 1, Clusters}
           \/ botState' = botState /\ centres' = centres
    BY <1>6 DEF AfterMover, FindCenters
  <2> QED BY <1>0, <1>6, <2>1 DEF Free
<1>7. CASE Explore \/ NoFrontier
  BY <1>6, <1>7 DEF Explore, NoFrontier
<1>8. CASE BeginTour
  <2>1. CASE centres = None
    BY <1>0, <1>8, <2>1 DEF BeginTour, Dies, Free
  <2>2. CASE centres # None
    <3>1. centres + 0 = centres
      BY <2>2
    <3> QED BY <1>0, <1>8, <2>2, <3>1 DEF BeginTour, Free
  <2> QED BY <2>1, <2>2
<1>9. CASE NoRamp \/ ToRamp
  BY <1>0, <1>9 DEF NoRamp, ToRamp, Free, NavToGoal
<1>10. CASE BackedOff
  BY <1>0, <1>10 DEF BackedOff
<1>11. CASE ThrowBall
  <2>1. aims \in Nat /\ balls \in Nat /\ aims + balls = centres /\ aims > 0
    BY <1>11 DEF ThrowBall
  <2>2. aims - 1 \in Nat /\ balls + 1 \in Nat /\ (aims - 1) + (balls + 1) = centres
    BY <2>1
  <2> QED BY <1>11, <2>2 DEF ThrowBall
<1>12. CASE TourEnds
  <2>1. aims = 0 /\ balls \in Nat /\ aims + balls = centres
    BY <1>12 DEF TourEnds
  <2>2. balls = centres
    BY <2>1
  <2> QED BY <1>0, <1>12, <2>2 DEF TourEnds
<1>13. CASE Climb
  BY <1>0, <1>13 DEF Climb, Dies
<1>14. CASE UNCHANGED explorerVars
  BY <1>1, <1>14 DEF explorerVars
<1>15. CASE OccCallback \/ GoalResponse \/ GoalResult \/ FastInterrupt \/ Drive \/ NavDone
  BY <1>1, <1>15 DEF OccCallback, GoalResponse, GoalResult, FastInterrupt, Drive, NavDone
<1> QED
  BY <1>2, <1>3, <1>4, <1>5, <1>7, <1>8, <1>9, <1>10, <1>11, <1>12, <1>13, <1>14, <1>15
  DEF ExplorerNext, ControlLoop, Sleeps, World, Down

(* For every field: the explorer tries the ramp only after a ball for      *)
(* every centre of heat, and what it remembers as the ramp is not replaced *)
(* by a later bump, though interrupts come at any time                     *)
(* (global_controller.py).                                                 *)
THEOREM OneRampOneTour == ExplorerSpec => []TourIsWhole /\ OneRamp
<1>1. ExplorerInd => TourIsWhole
  BY DEF ExplorerInd, Thrown, TourIsWhole
<1>2. ExplorerInd /\ [ExplorerNext]_explorerVars => (ramp # None => ramp' = ramp)
  <2> SUFFICES ASSUME ExplorerInd, [ExplorerNext]_explorerVars, ramp # None PROVE ramp' = ramp
    OBVIOUS
  <2>1. ~HandleInterrupt
    BY ExplorerAssumption DEF ExplorerInd, Bumped, HandleInterrupt, Free
  <2> QED
    BY <2>1 DEF ExplorerNext, OccCallback, GoalResponse, GoalResult, FastInterrupt, FastLoop,
      ControlLoop, Initialise, Explore, NoFrontier, AfterMover, BeginTour, NoRamp, ToRamp,
      Sleeps, BackedOff, ThrowBall, TourEnds, Climb, World, ImuCallback, HeatCallback, Drive,
      NavDone, Down, explorerVars, ramping
<1> QED BY <1>1, <1>2, ExplorerStart, ExplorerStep, PTL DEF ExplorerSpec, OneRamp

-----------------------------------------------------------------------------
(* The programs beside each other (MCGround): each runs as on its own.     *)

LEMMA GroundParts ==
  MCSpec => /\ ScorerSpec /\ SlotSpec /\ MapperSpec
            /\ PlanInit /\ [][PlanNext]_planVars
<1>1. GroundInit => ScorerInit /\ SlotInit /\ MapperInit /\ PlanInit
  BY DEF GroundInit
<1>2. [GroundNext]_allVars => /\ [ScorerNext]_scorerVars /\ [SlotNext]_slotVars
                              /\ [MapperNext]_mapperVars /\ [PlanNext]_planVars
  BY DEF GroundNext, Rest, allVars
<1> QED BY <1>1, <1>2, PTL DEF MCSpec, ScorerSpec, SlotSpec, MapperSpec

(* A run is scored by the rules of the challenge, whatever the console     *)
(* wrote and however many lines of it (testing/score.py), and of two runs  *)
(* the one with both colours is ranked first (searchctl/slot_summary.py).  *)
THEOREM JudgedFairly == MCSpec => []JudgedByTheRules
<1>1. ScoreIsTheRules /\ EligibleFirst => JudgedByTheRules
  BY DEF JudgedByTheRules
<1> QED BY <1>1, GroundParts, ScoreHolds, BothColoursFirst, PTL

(* For every set of places and obstacles and any number of iterations: the *)
(* parents of the planner's tree lead to its start, no cost is less than   *)
(* the way it stands for, and a route that is returned leads from start to *)
(* goal over free edges (RRTStarPlanner.py); and every point that was laid *)
(* with a current frame and pose is on the map where it was seen           *)
(* (GlobalMapper_new.py).                                                  *)
THEOREM RouteAndMap == MCSpec => []RouteAndMapInv
<1>1. PlanInv /\ PointsInPlace => RouteAndMapInv
  BY DEF RouteAndMapInv
<1> QED BY <1>1, GroundParts, PlanHolds, LandsWhereItIs, PTL

=============================================================================

------------------------------ MODULE MCMapping ------------------------------
(* The parts of mapping_drone around the missions, one at a time: the map, *)
(* the camera, the swarm's discovery, the rule of validity, the subscriber *)
(* of positions, the scan at a waypoint, the survey of the arena, main() and   *)
(* its bench modes, the lap of a swarm drone, and its UWB thread's frames. *)
EXTENDS OccupancyGrid, RealsenseCamera, DolaDiscovery, PadValidity,
        UwbSubscriber, UwbFrames, WaypointScan, SurveyBox, BenchModes, SwarmLap

VARIABLE part

MCPixels == {<<0, 0>>, <<4, 0>>, <<1, 4>>}
MCPoses == [n : {-3, 2}, e : {1}, down : {-4, -2}, yaw : {0, 90, 180, 270}]
MCPitches == {0, -90}
Seen == {<<7, 19, 5>>, <<7, 20, 5>>, <<7, 45, 5>>, <<7, 5, 30>>}
One == { <<x>> : x \in Seen }
MCMarks == { <<a, b>> : a \in One \cup { <<x, y>> : x, y \in Seen }, b \in One \cup {<<>>} }
MCTables == { [valid |-> {11}, invalid |-> {50}], [valid |-> {50}, invalid |-> {11}],
              [valid |-> {11}, invalid |-> {11, 50}] }
MCTagPlace == [t \in Tags |-> 0]
MCOffCorners == {<<3, 9>>, <<2, 0>>}

MCQuiet == <<"data", "data", "data">>
MCBlocks == {MCQuiet, <<"data", "U", "mark">>, <<"U", "mark", "end">>,
             <<"mark", "end", "U">>, <<"end", "data", "U">>, <<"U", "U", "end">>}

MCNoFile == [given |-> FALSE, readable |-> FALSE, rows |-> <<>>]
MCPoint(n, e) == [length |-> 2, numeric |-> TRUE, n |-> n, e |-> e]
MCBadRows == {[length |-> 1, numeric |-> TRUE, n |-> 0, e |-> 0],
              [length |-> 3, numeric |-> FALSE, n |-> 0, e |-> 0]}
MCFiles ==
    {MCNoFile, [MCNoFile EXCEPT !.given = TRUE]}
    \cup { [given |-> TRUE, readable |-> TRUE, rows |-> r] :
              r \in {<<>>} \cup { <<MCPoint(70, 70), b>> : b \in MCBadRows }
                   \cup { <<MCPoint(70, 70), MCPoint(n, 300), MCPoint(500, e)>> :
                             n \in {600, 1030, 1220, 1221}, e \in {-480, 316, 480, 671} } }

\* a part that is not looked at starts in one state
Init ==
    /\ part \in {"grid", "camera", "dola", "validity", "uwb", "scan", "survey", "bench", "lap",
             "frames"}
    /\ GridInit /\ DolaInit
    /\ CameraInit /\ (part # "camera" => useIr)
    /\ ValidityInit /\ (part # "validity" => rule = "lookup" /\ absolute /\ file = Gone)
    /\ UwbInit /\ (part # "uwb" => context = "theirs")
    /\ ScanInit /\ (part # "scan" => scan.mode = "px4" /\ place = 0)
    /\ SurveyInit /\ (part # "survey" => there = <<2, 0>>)
    /\ BenchInit /\ (part # "bench" => orders.file = MCNoFile)
    /\ FramesInit /\ (part # "frames" => wire = [blocks |-> MCQuiet, gone |-> 0])
    /\ LapInit /\ (part # "lap" => lap.margin = 5 /\ lap.dir = 1)

Others(kept) ==
    /\ part # "grid" => UNCHANGED gridVars
    /\ part # "camera" => UNCHANGED cameraVars
    /\ part # "dola" => UNCHANGED dolaVars
    /\ part # "validity" => UNCHANGED validityVars
    /\ part # "uwb" => UNCHANGED uwbVars
    /\ part # "scan" => UNCHANGED scanVars
    /\ part # "survey" => UNCHANGED surveyVars
    /\ part # "bench" => UNCHANGED benchVars
    /\ part # "lap" => UNCHANGED lapVars
    /\ part # "frames" => UNCHANGED framesVars
    /\ kept' = kept

Next ==
    /\ \/ part = "grid" /\ GridNext
       \/ part = "camera" /\ CameraNext
       \/ part = "dola" /\ DolaNext
       \/ part = "validity" /\ ValidityNext
       \/ part = "uwb" /\ UwbNext
       \/ part = "scan" /\ ScanNext
       \/ part = "survey" /\ SurveyNext
       \/ part = "bench" /\ BenchNext
       \/ part = "lap" /\ LapNext
       \/ part = "frames" /\ FramesNext
    /\ Others(part)

MCSpec ==
    Init /\ [][Next]_<<part, gridVars, cameraVars, dolaVars, validityVars, uwbVars, scanVars,
                       surveyVars, benchVars, lapVars, framesVars>>

(* What the swarm hears over the air and over its serial line.             *)
HeardInv == DolaInv /\ FramesInv
=============================================================================

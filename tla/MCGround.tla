------------------------------- MODULE MCGround -------------------------------
(* The programs that fly, drive, plan or judge on their own, one at a time: *)
(* the wall follower of the qualifier, the scorer, the summary of a slot,   *)
(* the maze, the depth navigator, the keyboard, the path planner, the       *)
(* top-down mapper and the explorer of the earlier project.                 *)
EXTENDS WallFollower, GlobalController, Scorer, SlotSummary, MazeGenerator,
        DepthNavigation, KeyboardControl, PathPlanner, TopDownMapper

VARIABLE part

MCStart == <<0, 0>>
MCWalls == {<<3, 0>>}
MCOrigins == {<<0, 0>>, <<1, 0>>}
MCBarrels == {<<0, 0>>, <<8, 0>>}
MCSpots == {<<2, 2>>, <<5, 0>>, <<4, 0>>}
MCKeepout == {<<1, 1>>}
MCShapes == {{<<0, 0>>}, {<<0, 0>>, <<1, 0>>}, {<<0, 0>>, <<1, 0>>, <<1, 1>>}}
MCYaws == {-1200}
MCGusts == {60}
MCPlaces == { <<4 * x, 4 * y>> : x \in 0 .. 2, y \in 0 .. 2 }
MCObstacles == {<<2, 2>>, <<6, 6>>}
MCGoal == <<8, 7>>
MCThings == {<<2, 0, 8>>, <<3, 1, 20>>, <<1, 3, 0>>}
\* bound: the wind turns the vehicle where the yaw jumps, at the third heading
GustsAtTheJump == craft'.gusts > 0 => pilot.idx = 3
\* bound: the map's corner moves once, after a frontier was given out
MapMovesOnce == mapOrigin' # mapOrigin => mapOrigin = <<0, 0>> /\ visited # {}

GroundInit ==
    /\ part \in {"wall", "explorer", "scorer", "slot", "maze", "depth", "keyboard", "planner",
                "mapper"}
    /\ WallInit /\ ExplorerInit /\ ScorerInit /\ SlotInit /\ MazeInit
    /\ DepthInit /\ KeyboardInit /\ PlanInit /\ MapperInit
    /\ part # "scorer" => truth = {}
    /\ part # "mapper" => uav.yaw = 0

Rest(kept) ==
    /\ part # "wall" => UNCHANGED wallVars
    /\ part # "explorer" => UNCHANGED explorerVars
    /\ part # "scorer" => UNCHANGED scorerVars
    /\ part # "slot" => UNCHANGED slotVars
    /\ part # "maze" => UNCHANGED mazeVars
    /\ part # "depth" => UNCHANGED depthVars
    /\ part # "keyboard" => UNCHANGED keyboardVars
    /\ part # "planner" => UNCHANGED planVars
    /\ part # "mapper" => UNCHANGED mapperVars
    /\ kept' = kept

GroundNext ==
    /\ \/ part = "wall" /\ WallNext
       \/ part = "explorer" /\ ExplorerNext /\ MapMovesOnce
       \/ part = "scorer" /\ ScorerNext
       \/ part = "slot" /\ SlotNext
       \/ part = "maze" /\ MazeNext
       \/ part = "depth" /\ DepthNext /\ GustsAtTheJump
       \/ part = "keyboard" /\ KeyboardNext
       \/ part = "planner" /\ PlanNext
       \/ part = "mapper" /\ MapperNext
    /\ Rest(part)

allVars == <<part, wallVars, explorerVars, scorerVars, slotVars, mazeVars, depthVars,
             keyboardVars, planVars, mapperVars>>

\* the fairness of each part, asked of that part only
Fair ==
    /\ WF_allVars(part = "wall" /\ WallNext /\ Rest(part))
    /\ SF_allVars(part = "explorer" /\ ControlLoop /\ Rest(part))
    /\ WF_allVars(part = "explorer" /\ (BackedOff \/ ThrowBall \/ TourEnds) /\ Rest(part))
    /\ WF_allVars(part = "depth" /\ Navigator /\ Rest(part))
    /\ WF_allVars(part = "keyboard" /\ KeyboardLoop /\ Rest(part))
    /\ WF_allVars(part = "keyboard" /\ Vehicle /\ Rest(part))

MCSpec == GroundInit /\ [][GroundNext]_allVars /\ Fair

\* A run is scored by the rules of the challenge (testing/score.py), and of two
\* runs the eligible one is ranked first (searchctl/slot_summary.py).
JudgedByTheRules == ScoreIsTheRules /\ EligibleFirst

\* A planned route costs no less than its ways are long and is clear of obstacles
\* (RRTStarPlanner.py), and the points the drone has seen are put on the map
\* where they are, if frame and pose are current (GlobalMapper_new.py).
RouteAndMapInv == PlanInv /\ PointsInPlace
=============================================================================

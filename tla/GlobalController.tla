-------------------------- MODULE GlobalController --------------------------
(***************************************************************************)
(* pastproject/remote_laptop_src/nodes/global_controller.py: a TurtleBot   *)
(* that explores frontiers, turns away from a ramp, and throws balls at    *)
(* the heat it saw.                                                        *)
(*                                                                         *)
(* All callbacks of the node are in its default callback group, which is   *)
(* mutually exclusive: while the control loop sleeps, no other callback    *)
(* runs, whatever the number of the executor's threads.                    *)
(***************************************************************************)
EXTENDS Integers, FiniteSets, FiniteSetsExt

CONSTANTS
  Width, Height, Walls,        \* the map
  Origins,                     \* where the map's corner may lie, in half cells
  Start,                       \* where the robot stands at first
  SenseRadius,                 \* how far the lidar sees
  FreeRadius, Rate,            \* mark_area_around_robot, rate_of_placement
  RampRadius,                  \* mark_area_around_robot_as_occ
  Clusters, MaxHeat,           \* clusters; bound on the samples of heat
  None

Cells == (0 .. Width - 1) \X (0 .. Height - 1)

ASSUME GridAssumption ==
  /\ {Width, Height, SenseRadius, FreeRadius, Rate, RampRadius, Clusters,
      MaxHeat} \subseteq Nat
  /\ Walls \subseteq Cells /\ Start \in Cells \ Walls
  /\ Origins \subseteq {0, 1} \X {0, 1} /\ <<0, 0>> \in Origins

ASSUME ExplorerAssumption ==
  None \notin {"wait_for_map", "backing", "touring", "climbing"}

VARIABLES
  botState,       \* the bot's state
  inside,      \* what the control loop sleeps in: None or a place
  dead,        \* did a callback raise?  The executor's spin ends with it
  at, known,   \* the robot's cell, what SLAM has mapped
  occ,         \* occdata; None before the first map
  mapOrigin,   \* map_origin_x, map_origin_y, up to whole cells
  visited,     \* visited_frontiers: points of the world, in half cells
  finished,    \* finished_mapping
  steep,       \* is the recent pitch above five times the average?
  hitRamped, ramp, \* hit_ramped, ramp_location
  behind,      \* previous_position: does it hold a position?
  heat,        \* samples of heat
  centres,     \* max_heat_locations: how many, None when there are none
  aims, balls, \* of this tour: locations to go, balls thrown
  navGoal,     \* Nav2's goal: "none", "sent", "active", "done"
  handles,     \* current_goal_handle: are there any?
  reached      \* just_reached_goal

mapping == <<occ, mapOrigin, visited, finished, known>>
ramping == <<steep, hitRamped, ramp, behind>>
heating == <<heat, centres, aims, balls>>
goals   == <<navGoal, handles, reached>>
explorerVars    == <<botState, inside, dead, at, mapping, ramping, heating, goals>>

ExplorerInit ==
  /\ botState = "Initializing" /\ inside = None /\ dead = FALSE
  /\ at = Start /\ known = {} /\ occ = None /\ visited = {}
  /\ mapOrigin = <<0, 0>>
  /\ finished = FALSE /\ steep = FALSE /\ hitRamped = FALSE /\ ramp = None
  /\ behind = FALSE /\ heat = 0 /\ centres = None /\ aims = 0 /\ balls = 0
  /\ navGoal = "none" /\ handles = FALSE /\ reached = FALSE

-----------------------------------------------------------------------------
(* The grid: 0 is unknown, 1 free, 101 occupied *)

Apart(c, d) == Max({c[1] - d[1], d[1] - c[1], c[2] - d[2], d[2] - c[2]})

Near(c, radius) == {d \in Cells : Apart(c, d) <= radius}

\* grid_to_world, world_to_grid: the origin is the map's own, and int() cuts
\* towards zero.  A map moved by whole cells has other numbers for the cells and
\* no other points in them: only what is left of a cell is told apart.
GridToWorld(c) == <<2 * c[1] + mapOrigin[1], 2 * c[2] + mapOrigin[2]>>

Truncated(n) == IF n < 0 THEN -((-n) \div 2) ELSE n \div 2

WorldToGrid(p, origin) ==
  <<Truncated(p[1] - origin[1]), Truncated(p[2] - origin[2])>>

Visited(origin) == { WorldToGrid(p, origin) : p \in visited } \cap Cells

\* mark_area_mapped: what can be reached in so many steps without an obstacle.
Reach(blocked, c) ==
  LET within[n \in 0 .. Rate] ==
        IF n = 0 THEN {c}
        ELSE within[n - 1] \cup
               {d \in Cells \ blocked : \E e \in within[n - 1] : Apart(d, e) <= 1}
  IN within[Rate]

\* occ_callback: what the lidar found free is unknown again, but for the
\* robot's surroundings and what is known around the visited frontiers.
Grid(seen, robot, frontiers) ==
  LET blocked == seen \cap Walls
      mapped  == seen \cap UNION {Reach(blocked, f) : f \in frontiers \ blocked}
      free    == (Near(robot, FreeRadius) \cup mapped) \ blocked
  IN [c \in Cells |-> IF c \in blocked THEN 101 ELSE IF c \in free THEN 1 ELSE 0]

IsFrontier(grid, robot, c) ==
  /\ grid[c] \notin {0, 101} /\ c # robot
  /\ \E d \in Near(c, 1) \ {c} : grid[d] = 0

\* detect_closest_frontier_outside: the search goes through every cell, so the
\* nearest comes first.
Open(grid, robot) ==
  {c \in Cells \ Visited(mapOrigin) : IsFrontier(grid, robot, c)}

Closest(S) == {c \in S : \A d \in S : Apart(at, c) <= Apart(at, d)}

-----------------------------------------------------------------------------
(* Callbacks of sensors and of Nav2 *)

Free == ~dead /\ inside = None

OccCallback ==
  /\ Free /\ known' = known \cup Near(at, SenseRadius)
  /\ mapOrigin' \in Origins /\ occ' = Grid(known', at, Visited(mapOrigin'))
  /\ UNCHANGED <<botState, inside, dead, at, visited, finished, ramping, heating,
                 goals>>

ImuCallback ==
  /\ Free /\ steep' = ~steep
  /\ UNCHANGED <<botState, inside, dead, at, mapping, hitRamped, ramp, behind,
                 heating, goals>>

\* sensor1_callback, sensor2_callback: something hot, near enough.
HeatCallback ==
  /\ Free /\ heat < MaxHeat /\ heat' = heat + 1
  /\ UNCHANGED <<botState, inside, dead, at, mapping, ramping, centres, aims,
                 balls, goals>>

GoalResponse ==
  /\ Free /\ navGoal = "sent"
  /\ \/ navGoal' = "active" /\ handles' = TRUE
     \/ navGoal' = "none" /\ UNCHANGED handles
  /\ UNCHANGED <<botState, inside, dead, at, mapping, ramping, heating, reached>>

\* goal_result_callback takes status 3 for success; a result has 4, 5 or 6.
GoalResult ==
  /\ Free /\ navGoal = "done" /\ navGoal' = "none"
  /\ \E status \in {4, 5, 6} : reached' = (reached \/ status = 3)
  /\ UNCHANGED <<botState, inside, dead, at, mapping, ramping, heating, handles>>

\* Nav2 drives, and is done; this needs no callback of the node.
Drive ==
  /\ navGoal = "active" /\ at' \in Near(at, 1) \ Walls
  /\ UNCHANGED <<botState, inside, dead, mapping, ramping, heating, goals>>

NavDone ==
  /\ navGoal = "active" /\ navGoal' = "done"
  /\ UNCHANGED <<botState, inside, dead, at, mapping, ramping, heating, handles,
                 reached>>

-----------------------------------------------------------------------------
(* fast_loop *)

\* The goals are cancelled and the robot stops, in every pass.
FastInterrupt ==
  /\ Free /\ botState = "Imu_Interrupt" /\ handles' = FALSE
  /\ navGoal' = IF handles /\ navGoal = "active" THEN "done" ELSE navGoal
  /\ UNCHANGED <<botState, inside, dead, at, mapping, ramping, heating, reached>>

FastLoop ==
  /\ Free /\ botState \in {"Exploratory_Mapping", "Goal_Navigation"}
  /\ steep /\ ~hitRamped /\ botState' = "Imu_Interrupt"
  /\ UNCHANGED <<inside, dead, at, mapping, ramping, heating, goals>>

-----------------------------------------------------------------------------
(* control_loop, one state at a time *)

\* mark_area_around_robot_as_occ
WalledOff(c) ==
  [d \in Cells |-> IF d \in Near(c, RampRadius) THEN 101 ELSE occ[d]]

NavToGoal == navGoal' = "sent" /\ reached' = FALSE /\ UNCHANGED handles

Dies ==
  /\ dead' = TRUE /\ UNCHANGED <<botState, inside>>

\* initialise: a map with anything known in it lets it pass; without one it
\* spins the node from inside of a callback, which lets no callback in.
Initialise ==
  /\ Free /\ botState = "Initializing"
  /\ IF occ # None /\ \E c \in Cells : occ[c] # 0
       THEN botState' = "Exploratory_Mapping" /\ UNCHANGED inside
       ELSE inside' = "wait_for_map" /\ UNCHANGED botState
  /\ UNCHANGED <<dead, at, mapping, ramping, heating, goals>>

\* An interrupt that does not take note that there was one.
HandleForgets ==
  /\ Free /\ botState = "Imu_Interrupt" /\ ramp' = at
  /\ occ' = WalledOff(at)
  /\ IF behind
       THEN NavToGoal /\ inside' = "backing" /\ UNCHANGED <<botState, dead>>
       ELSE Dies /\ UNCHANGED goals
  /\ UNCHANGED <<at, mapOrigin, visited, finished, known, steep, hitRamped, behind,
                 heating>>

\* previous_position[0] raises when nothing was put into it.
HandleInterrupt ==
  /\ Free /\ botState = "Imu_Interrupt"
  /\ hitRamped' = TRUE /\ ramp' = at
  /\ occ' = WalledOff(at)
  /\ IF behind
       THEN NavToGoal /\ inside' = "backing" /\ UNCHANGED <<botState, dead>>
       ELSE Dies /\ UNCHANGED goals
  /\ UNCHANGED <<at, mapOrigin, visited, finished, known, steep, behind, heating>>

BackedOff ==
  /\ inside = "backing" /\ inside' = None /\ botState' = "Exploratory_Mapping"
  /\ UNCHANGED <<dead, at, mapping, ramping, heating, goals>>

\* find_centers: KMeans with more clusters than samples raises.
FindCenters ==
  IF heat = 0 THEN centres' = None /\ botState' = "Goal_Navigation" /\ UNCHANGED dead
  ELSE IF heat > 1 /\ heat < Clusters
    THEN dead' = TRUE /\ UNCHANGED <<botState, centres>>
    ELSE /\ centres' = IF heat = 1 THEN 1 ELSE Clusters
         /\ botState' = "Goal_Navigation" /\ UNCHANGED dead

\* The position after it is not stored when TF has none.
AfterMover ==
  /\ behind' \in {behind, TRUE}
  /\ IF finished' THEN FindCenters ELSE UNCHANGED <<botState, dead, centres>>
  /\ UNCHANGED <<inside, at, occ, mapOrigin, known, steep, hitRamped, ramp, heat,
                 aims, balls>>

\* A search that takes no note of the frontiers it gave out.
ExploreAgain ==
  /\ Free /\ botState = "Exploratory_Mapping" /\ Open(occ, at) # {}
  /\ UNCHANGED <<visited, finished>>
  /\ NavToGoal /\ AfterMover

\* dijk_mover with a frontier: whether a goal is active is not asked.
Explore ==
  /\ Free /\ botState = "Exploratory_Mapping"
  /\ \E c \in Closest(Open(occ, at)) :
       visited' = visited \cup { GridToWorld(d) : d \in Near(c, 1) }
  /\ UNCHANGED finished
  /\ NavToGoal /\ AfterMover

NoFrontier ==
  /\ Free /\ botState = "Exploratory_Mapping" /\ Open(occ, at) = {}
  /\ finished' = TRUE /\ UNCHANGED <<visited, goals>>
  /\ AfterMover

\* for location in None raises, which is no list of centres.
BeginTour ==
  /\ Free /\ botState = "Goal_Navigation"
  /\ IF centres = None THEN Dies /\ UNCHANGED <<aims, balls>>
     ELSE /\ inside' = "touring" /\ aims' = centres /\ balls' = 0
          /\ UNCHANGED <<botState, dead>>
  /\ UNCHANGED <<at, mapping, ramping, heat, centres, goals>>

\* A goal, twenty seconds, a ball, forty seconds: whether or not the robot is
\* there.
ThrowBall ==
  /\ inside = "touring" /\ aims > 0 /\ aims' = aims - 1 /\ balls' = balls + 1
  /\ NavToGoal
  /\ UNCHANGED <<botState, inside, dead, at, mapping, ramping, heat, centres>>

\* A tour that breaks off.
TourBreaks ==
  /\ inside = "touring" /\ inside' = None
  /\ botState' = "Attempting_Ramp"
  /\ UNCHANGED <<dead, at, mapping, ramping, heating, goals>>

\* After the last ball.
TourEnds ==
  /\ inside = "touring" /\ aims = 0 /\ inside' = None
  /\ botState' = "Attempting_Ramp"
  /\ UNCHANGED <<dead, at, mapping, ramping, heating, goals>>

NoRamp ==
  /\ Free /\ botState = "Attempting_Ramp" /\ ramp = None
  /\ botState' = "Exploratory_Mapping"
  /\ UNCHANGED <<inside, dead, at, mapping, ramping, heating, goals>>

ToRamp ==
  /\ Free /\ botState = "Attempting_Ramp" /\ ramp # None
  /\ NavToGoal /\ inside' = "climbing"
  /\ UNCHANGED <<botState, dead, at, mapping, ramping, heating>>

\* run_pd_until_obstacle looks at a scan that no callback replaces: it is near
\* already, or there is none, or the robot drives on.
Climb ==
  /\ inside = "climbing"
  /\ \/ inside' = None /\ UNCHANGED <<botState, dead>>
     \/ Dies
  /\ UNCHANGED <<at, mapping, ramping, heating, goals>>

-----------------------------------------------------------------------------
ControlLoop ==
  \/ Initialise \/ HandleInterrupt \/ Explore \/ NoFrontier \/ BeginTour
  \/ NoRamp \/ ToRamp

Sleeps == BackedOff \/ ThrowBall \/ TourEnds \/ Climb

World == ImuCallback \/ HeatCallback \/ Drive \/ NavDone

Down == dead /\ UNCHANGED explorerVars

ExplorerNext ==
  \/ OccCallback \/ GoalResponse \/ GoalResult \/ FastInterrupt \/ FastLoop
  \/ ControlLoop \/ Sleeps \/ World \/ Down

ExplorerSpec == ExplorerInit /\ [][ExplorerNext]_explorerVars

\* The timer of the control loop fires, and its sleeps end, but for the drive
\* up the ramp.
ExplorerFair ==
  /\ ExplorerSpec /\ SF_explorerVars(ControlLoop)
  /\ WF_explorerVars(BackedOff \/ ThrowBall \/ TourEnds)

-----------------------------------------------------------------------------
ExplorerTypeOK ==
  /\ botState \in {"Initializing", "Exploratory_Mapping", "Imu_Interrupt",
                "Goal_Navigation", "Attempting_Ramp"}
  /\ inside \in {None, "wait_for_map", "backing", "touring", "climbing"}
  /\ at \in Cells \ Walls /\ mapOrigin \in Origins
  /\ visited \subseteq (0 .. 2 * Width) \X (0 .. 2 * Height)

\* Exploration ends: every frontier is given out once, however the map grows
\* and the grid is marked again, and an interrupt does not start it anew.
ExplorationEnds ==
  botState = "Exploratory_Mapping" ~> (finished \/ dead)

\* The robot turns away from one ramp only: what it remembers as the ramp, and
\* drives up in the end, is not replaced by a later bump.
OneRamp == [][ramp # None => ramp' = ramp]_explorerVars

\* Every centre of heat gets its ball before the ramp is tried.
TourIsWhole == botState = "Attempting_Ramp" => balls = centres

\* A goal that was reached is noticed.
SuccessNoticed == [][GoalResult => \E status \in {4} : status = 3]_explorerVars

\* The node comes to explore.
ExplorationBegins == <>(botState # "Initializing")

\* No callback raises, whatever heat was seen and wherever the ramp is.
NodeSurvives == ~dead

\* The ramp stays walled off while the robot explores.
RampStaysWalled ==
  ramp # None /\ botState = "Exploratory_Mapping" =>
    \A c \in Near(ramp, RampRadius) : occ[c] = 101
=============================================================================

SPECIFICATION MCSpec
CONSTANTS
  Ahead = {100, 160, 190, 300, 500} Beside = {120, 180, 250}
  STUCK_WINDOW_TICKS = 3 ESCAPE_TICKS = 2 ESCAPE_COOLDOWN_TICKS = 6
  AVOID_FRONT_MAX_TICKS = 4 AVOID_COOLDOWN = 2 FIND_WALL_STALL_TICKS = 8
  CORNER_PHASE1_TICKS = 4 CORNER_PHASE2_TICKS = 3 CORNER_PHASE3_TICKS = 2
  None = None Width = 4 Height = 1 Walls <- MCWalls Origins <- MCOrigins Start <- MCStart
  SenseRadius = 1 FreeRadius = 1 Rate = 1 RampRadius = 1 Clusters = 3 MaxHeat = 3
  BarrelPlaces <- MCBarrels Spots <- MCSpots Times = {200, 310} Bad = Bad MaxLines = 2
  Counts = {0, 1, 2} Flights = {200, 310} NoFlight = NoFlight Unread = Unread MaxRuns = 2
  N = 3 Keepout <- MCKeepout Shapes <- MCShapes NumWalls = 2 NumShelves = 2
  NumYellow = 1 NumRed = 1 NumToxic = 1 MaxAttempts = 2
  FirstYaws <- MCYaws Gusts <- MCGusts Ranges = {1, 5, 9} MaxGusts = 1
  MaxForward = 2
  Places <- MCPlaces Obstacles <- MCObstacles Origin <- MCStart Goal <- MCGoal MaxIter = 5
  Things <- MCThings Altitude = 25
INVARIANT JudgedByTheRules
INVARIANT MazeWorld
 
INVARIANT WallInv
INVARIANT RouteAndMapInv
PROPERTY WallIsFollowed
PROPERTY ExplorationEnds
PROPERTY LandIsHeeded
CHECK_DEADLOCK FALSE

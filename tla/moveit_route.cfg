SPECIFICATION Spec
CONSTANTS
  None = None
  Cells = {1, 2}
  Route <- MCRoute
  TakeoffAlt = 4
  MaxSafeAlt = 3
  PoseSource = "fc"
  FcPoseStale = 1
  PoseLossLand = 1
  PoseNeverFix = 2
  StuckGrace = 2
  StuckWindow = 3
  StuckSpan = 2
  WaypointTimeout = 2
  MaxFlightTime = 6
  StreamDeadline = 1
  LandDeadline = 1
  RpcTime = 0
  SleepTime = 1
  GrabTime = 1
  Frames = 1
  VelFailAbort = 2
  AgeCap = 3
INVARIANT VerdictIsTrue
INVARIANT BlindFlightBounded
INVARIANT LegInv
PROPERTY ImplementsContract
PROPERTY StopEndsSurvey

SPECIFICATION FairSpec
CONSTANTS
  None = None
  Cells = {1, 2}
  Route <- MCShort
  TakeoffAlt = 4
  MaxSafeAlt = 3
  PoseSource = "auto"
  FcPoseStale = 1
  PoseLossLand = 1
  PoseNeverFix = 1
  StuckGrace = 1
  StuckWindow = 1
  StuckSpan = 1
  WaypointTimeout = 1
  MaxFlightTime = 1
  StreamDeadline = 0
  LandDeadline = 0
  RpcTime = 0
  SleepTime = 1
  GrabTime = 1
  Frames = 1
  VelFailAbort = 1
  AgeCap = 2
PROPERTY Terminates

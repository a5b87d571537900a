SPECIFICATION MCSpec
CONSTANTS
  Pixels <- MCPixels Depths = {0, 1, 2, 9} MIN_DEPTH = 1 MAX_DEPTH = 5
  Poses <- MCPoses Pitches <- MCPitches CELLS = 3 Marks <- MCMarks MaxIntegrated = 1
  Profiles = 2 Every = 3 MaxGrabs = 8
  Planes = {d1, d2} Ips = {i1, i2} NoIp = NoIp Listen = 2 MaxHeard = 3 MaxCalls = 2
  d1 = d1 d2 = d2 i1 = i1 i2 = i2
  Ids = {11, 50} Tables <- MCTables Gone = Gone Malformed = Malformed NotCached = NotCached
  MaxEdits = 2
  Fixes = {fixP, fixQ} MaxPackets = 3 MaxStarts = 3
  fixP = fixP fixQ = fixQ
  Tags = {11} TagPlace <- MCTagPlace Places = {0, 1, 2} DEDUPE = 2 MaxFrames = 3
  Verdicts = {"valid", "unknown"}
  OffCorners <- MCOffCorners Lanes = 4 Ranks = 4
  RouteFiles <- MCFiles MaxFlight = 4 SettleTime = 5 ScanTime = 2
  Margins = {0, 5, 10, 18, 25} Turns = {0, 1, 2, 4, 7} MaxWaypoints = 4
  FrameLength = 6 MaxTorn = 3 Blocks <- MCBlocks
INVARIANT GridInv
INVARIANT CameraInv
INVARIANT HeardInv
INVARIANT NoTwoVerdicts
INVARIANT ScanInv
INVARIANT SurveyInv
INVARIANT BenchInv
INVARIANT LapInv
PROPERTY ImplementsMock
\* The programs end.
CHECK_DEADLOCK FALSE

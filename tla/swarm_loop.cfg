SPECIFICATION FairSpec
CONSTANTS
  MaxDrones = 2
  Zones = 2
  Robots = {11, 45}
  TotalRobots = 2
  Copies = 1
  SpinEvery = 1
  SpinReads = 1
  TakeoffDelay = 3
  ClimbTime = 1
  SlowPass = 1
  Reliable <- MCNone
  Pairs <- MCPairs
INVARIANT Barrier
INVARIANT PromptIsTrue
PROPERTY HuntEnds

SPECIFICATION Spec
CONSTANTS
  None = None
  Waypoints = 2
  LegPolls = 1
  Warmups = 1
  VelFailAbort = 2
  Addresses = 2
  Gap = 1
PROPERTY StuckIsWatched

SPECIFICATION FairSpec
CONSTANTS
  Unset = Unset
  ArmableTime = 1
  ClimbTime = 1
  WatchTime = 2
  Grace = 3
  Window = 1
  BonusDeadline = 4
  Hold = 1
  PlateauBonus = 2
  PlateauDefault = 3
  ScanEvery = 2
  LandTime = 1
  EmergencyTime = 2
  MaxFound = 1
INVARIANT SearchInv
PROPERTY DeadlinesHold

SPECIFICATION FairSpec
CONSTANTS
  None = None
  TakeoffAlt = 4
  MaxSafeAlt = 3
  Alts <- MCAlts
  LossPolls = 1
INVARIANT Px4Inv
PROPERTY ImplementsContract
PROPERTY ComesDown

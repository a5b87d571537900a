SPECIFICATION WrittenSpec
CONSTANTS
  None = None
  Ids = {11, 28}
  Worlds = {1, 2, 3}
  Close <- MCClose
  Verdict <- MCVerdict
  MaxMarks = 3
  MaxFails = 1
  Threads = {t1, t2} t1 = t1 t2 = t2 NoSum = NoSum Torn = Torn
  MaxFrames = 3 MaxBoxes = 2 MaxTicks = 1 MaxPoints = 2
INVARIANT Inv
INVARIANT NoTwins
INVARIANT RecordsInv
SYMMETRY MCSymmetry

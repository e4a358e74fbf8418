SPECIFICATION FairSpec
CONSTANTS
  ULongMod = 64
  IntHalf = 4
  NumThreads = 3
  NumProbes = 3
  Iters = 2
  MaxProbes = 4
INVARIANTS
  TypeOK
  UnloadLeavesNone
  VerdictTellsTheModule
  HitsOfAPass
PROPERTY
  TestEnds

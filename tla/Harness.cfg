SPECIFICATION FairSpec
CONSTANTS
  Tests <- MCTests
  NumThreads = 2
  Iters = 1
  ULongMod = 16
  IntHalf = 4
  Ten = 4
  SmallLogs <- MCSmallLogs
INVARIANTS
  TypeOK
  PassMeansParentOnly
  HealthyTestPasses
  DiffIsSubsequence
  ModuleGoesLast
PROPERTY ScriptEnds

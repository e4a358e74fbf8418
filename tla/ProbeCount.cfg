SPECIFICATION FairSpec
CONSTANTS
  ULongMod = 16
  IntHalf = 8
  NumThreads = 3
  NumProbes = 2
  Iters = 2
  Programs <- MCPrograms
INVARIANTS
  TypeOK
  CountsAgree
  PassMeansCounted
  NoFalseAlarm
  NumProbesBound
  NastyEnds
PROPERTIES
  Ends
  HealthyPasses

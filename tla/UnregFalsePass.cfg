SPECIFICATION Spec
CONSTANTS
  ULongMod = 64
  IntHalf = 4
  NumThreads = 2
  NumProbes = 3
  Iters = 1
  MaxProbes = 4
INVARIANT
  PassMeansNoneHit

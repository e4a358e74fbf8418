SPECIFICATION Spec
CONSTANTS
  ULongMod = 16
  IntHalf = 8
  NumThreads = 3
  NumProbes = 2
  Iters = 2
  Programs <- MCSuicide
INVARIANT NumProbesExact

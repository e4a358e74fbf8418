SPECIFICATION Spec
CONSTANTS
  ULongMod = 64
  IntHalf = 4
  NumThreads = 2
  NumProbes = 2
  Iters = 3
  Programs <- MCUthread
INVARIANT CountsAgree

SPECIFICATION FairSpec
CONSTANTS
  Variants <- MCVariants
  MaxCalls = 6
INVARIANTS
  TypeOK
  PendingExact
  CleanUnload
  Alternate
PROPERTY CleanupEnds

SPECIFICATION Spec
CONSTANTS
  Builds <- MCBuilds
  Limit = 4
  MaxCalls = 31
INVARIANTS
  TypeOK
  LeakNeedsRace
  BlinkPhase
  LimitHolds

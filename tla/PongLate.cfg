SPECIFICATION Spec
CONSTANTS
  Variants <- MCVariants
  MaxCalls = 4
INVARIANT DeferredListEmpty

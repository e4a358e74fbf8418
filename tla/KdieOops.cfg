SPECIFICATION Spec
CONSTANTS
  NumSymbols = 2
  Tasks = {t1, t2}
  Modules <- MCKdie
INVARIANT NoOopsOnceGone

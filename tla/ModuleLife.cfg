SPECIFICATION FairSpec
CONSTANTS
  NumSymbols = 3
  Tasks = {t1, t2}
  Modules <- MCModules
INVARIANTS
  TypeOK
  NothingLeft
  HandlersHaveLog
  StrayCalls
PROPERTIES
  CallsEnd
  DutyMet

SPECIFICATION FairSpec
CONSTANTS
  Printers = {p1, p2}
  Writers = {w1, w2}
  Readers = {r1}
  None = None
  Lens = {1, 3}
  Cap = 4
  SizeMod = 32
  IntHalf = 8
  MaxMsgs = 3
INVARIANTS
  TypeOK
  WritesStayInside
  ReaderGetsLog
  
PROPERTY
  CallsReturn

SPECIFICATION FairSpec
CONSTANTS
  c1 = c1
  c2 = c2
  p1 = p1
  Clients = {c1, c2}
  MaxCalls = 3
  MaxThreads = 2
  Ports = {p1}
  LeftToInit <- Counter
  MayHang = TRUE
INVARIANTS
  TypeOK
  PendingIsOwned
  CreatedIsOwn
PROPERTIES
  ExecutesOnce
  CallsReturn

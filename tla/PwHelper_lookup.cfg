\* The client may wait for ever, so that in the end nothing happens.
SPECIFICATION FairSpec
CHECK_DEADLOCK FALSE
CONSTANTS
  n1 = n1
  n2 = n2
  m1 = m1
  NoObject = NoObject
  Nodes = {n1}
  Metadata = {m1}
  Hotplug = {n1, m1}
  Changing = {n1, m1}
  Lookups <- AllLookups
INVARIANTS
  TypeOK
  OnlyEarlyLookupsFault
  FoundIsBound
PROPERTIES
  PlainLookupReturns
  SpinEndsOrBlocks

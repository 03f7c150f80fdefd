\* One driver at a time, a Wine thread that answers within 100 ms.
SPECIFICATION FairSpec
CONSTANTS
  d1 = d1
  d2 = d2
  none = none
  Drivers = {d1, d2}
  NoDriver = none
  Late = {}
  Stuck = {}
  Exclusive = TRUE
  Failures = {}
INVARIANTS
  TypeOK
  NoFault
PROPERTIES
  CallsAreSynchronous

\* One driver at a time, a Wine thread that may be late anywhere, a host
\* callback of any length, and a manager that may fail to start.
SPECIFICATION FairSpec
CONSTANTS
  d1 = d1
  d2 = d2
  none = none
  Drivers = {d1, d2}
  NoDriver = none
  Late = {"wait", "enter", "decided", "calling", "leave", "signal"}
  Stuck = {"calling"}
  Exclusive = TRUE
  Failures = {"connect", "paused", "events", "thread"}
INVARIANTS
  ManagerOutlivesUsers
  RequestIsWoken
  DisposedIsQuiet
  RunningHasManager
  NoTornHalf
  DisposeWaitsForHost
PROPERTIES
  ProcessReturns
  MethodReturns
  RequestIsServed

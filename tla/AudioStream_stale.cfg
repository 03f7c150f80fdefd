\* A host callback that may take more than 100 ms.
SPECIFICATION Spec
CONSTANTS
  d1 = d1
  d2 = d2
  none = none
  NoDriver = none
  Drivers = {d1}
  Late = {"calling"}
  Stuck = {}
  Exclusive = TRUE
  Failures = {}
PROPERTY CompletionMeansServed

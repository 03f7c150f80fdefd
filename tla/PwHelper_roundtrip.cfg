SPECIFICATION Spec
CHECK_DEADLOCK FALSE
CONSTANTS
  n1 = n1
  n2 = n2
  m1 = m1
  NoObject = NoObject
  Nodes = {n1, n2}
  Metadata = {m1}
  Hotplug = {}
  Changing = {}
  Lookups = {"find"}
INVARIANT NodesKnownFirst

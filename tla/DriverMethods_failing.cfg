SPECIFICATION Spec
CONSTANTS
  MaxChannels = 2
  Sizes = {1, 2}
  Durations = {1, 2, 3}
  Rates = {0, 48}
  FixedSize = TRUE
  Panel = {"size", "rate"}
  Host <- AnyHost
  Failures <- AnyFailure
INVARIANTS
  AccessesInBounds

SPECIFICATION Spec
CONSTANTS
  MaxChannels = 2
  Sizes = {1, 2}
  Durations = {1, 2, 3}
  Rates = {44, 48}
  FixedSize = TRUE
  Panel = {"size", "rate"}
  Host = {}
  Failures = {"init", "connect"}
INVARIANTS
  TypeOK
  NoFault
  ChannelsServed
PROPERTIES
  StartsClean
  FollowsProtocol

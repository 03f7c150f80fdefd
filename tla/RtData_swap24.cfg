SPECIFICATION Spec
CONSTANTS
  None = None
  ByteBits = 2
  LeastFragment = 2
  Rounds = {0, 1}
  Apis = {"ASIO"}
  Systems <- MCSystems
  Requests <- MCRequests
INVARIANTS
  SwappedArrive

SPECIFICATION Spec
CONSTANTS
  None = None
  ByteBits = 2
  LeastFragment = 2
  Rounds = {0, 1}
  Apis = {"ASIO", "JACK", "ALSA", "PULSE", "OSS", "CORE"}
  Systems <- MCSystems
  Requests <- MCRequests
INVARIANTS
  TypeOK
  SamplesArrive
  AccessesFit
  InfoIsTrue

SPECIFICATION FairSpec
CONSTANTS
  Apis = {"ASIO", "JACK", "CORE", "ALSA", "PULSE", "OSS"}
  s1 = s1
  s2 = s2
  Stoppers <- MCStoppers
  Returns <- MCReturns
CHECK_DEADLOCK FALSE
INVARIANTS
  TypeOK
  NoFault
PROPERTIES
  QuietAfterStop
  CallsReturn
  StartIsHeard

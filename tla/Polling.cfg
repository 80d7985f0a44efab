SPECIFICATION PollingSpec
CONSTANTS
  NThreads = 2
  Obj <- MCObj
  ThreadOf <- MCThreadOf
  RecvMax = 2
  SockCap = 5
  QMax = 3
  CanStop = FALSE
INVARIANTS
  SingleFlight
  WakeupsBounded
PROPERTIES
  ImplementsLiveMailbox
  PollsForever

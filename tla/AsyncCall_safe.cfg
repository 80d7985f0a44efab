SPECIFICATION FairSpec
CONSTANTS
  NThreads = 2
  Obj <- MCObj
  ThreadOf <- MCThreadOf
  RecvMax = 2
  SockCap = 2
  QMax = 2
  CanStop = TRUE
INVARIANTS
  NoLostWakeup
  NoStrandedRequest
  RecvNeverBlocks
PROPERTIES
  ImplementsMailbox
  JoinReturns
  DrainGoesOn
CHECK_DEADLOCK FALSE

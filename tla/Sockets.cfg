SPECIFICATION Spec
CONSTANTS
  a = a
  b = b
  Client = {a, b}
  FrameLen <- Lengths
  Unknown <- UnknownType
  Silent <- NoAnswer
  SendMax = 1
  HeadLen = 2
  RecvMax = 4
  MaxSend = 5
  Address = {1, 2, 3, 4}
  ServerAt = 2
  WakeUpAt = 3
INVARIANTS FramesAsSent NoDanglingIterator HeldUpOnlyBy
PROPERTY FramesHandled
CHECK_DEADLOCK FALSE

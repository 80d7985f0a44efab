SPECIFICATION Spec
CONSTANTS
  a = a
  b = b
  Client = {a, b}
  FileLen <- Lengths
  ChunkSize = 2
  MaxFd = 2
  MaxClicks = 2
  MaxFaults = 1
  None = None
INVARIANTS Accounts SuccessIsUnpacked FailureHasACause
PROPERTY UploadEnds
CHECK_DEADLOCK FALSE

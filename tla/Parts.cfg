SPECIFICATION PartsSpec
CONSTANTS
  a = a
  b = b
  Garbage = Garbage
  Byte <- MCByte
  Chunks <- MCChunks
  MaxSkip = 4
  InitBlock = 2
  BlockSizes <- MCBlockSizes
  YearDays = 2
  MaxSize = 2
  MaxIndex = 4
  MaxLines = 5
  MaxDays = 3
  MaxQueue = 3
  MaxStarts = 3
  MaxCuts = 2
  DeviceKind = {"Pv", "Ess"}
  MaxEdits = 1
  MaxSent = 3
  MaxFaults = 1
  Day = 4
  Tou <- MCTou
  Grid <- MCGrid
  Antibackflow = 2
  Demand = 4
  Soc = {0, 1, 2}
  MinSoc = 1
  MaxSoc = 2
  Unset <- MCUnset
  MaxWindup = 8
  MaxWaiting = 2
  MaxUnderWay = 2
  MaxReads = 4
  MaxSets = 2
  CallThread = {"main", "worker"}
  Block = {"shared", "b1", "b2"}
  Permanent = {"shared"}
  MaxCalls = 3
  Kinds = {"Pv", "Ess", "Meter"}
  Uuid = {"ems", "", "u1"}
  Ems = "ems"
  NoUuid = ""
  MaxPort = 2
  ThreadNum = 2
  MaxEntries = 3
INVARIANTS LogIsWhole KindsDoNotMix ThreadsFit CommandedArePolled
INVARIANTS WithinPlan ChainsGoOn FreedOnce ValuesSettle
PROPERTY ImplementsByteQueue
PROPERTY UpdateKeepsTheRest
CHECK_DEADLOCK FALSE

SPECIFICATION Spec
CONSTANTS
  Soc = {0, 1, 2, 3, 4}
  DgOn = 1
  DgOff = 1
  PvUnlimit = 2
  PvLimit = 3
  PvOff = 3
  Load = {3}
  PvNum = 2
  W16 = 4
  W32 = 16
  MaxQueue = 2
  MaxSwings = 1
INVARIANT DoesNotChatter
PROPERTY Follows
CHECK_DEADLOCK FALSE

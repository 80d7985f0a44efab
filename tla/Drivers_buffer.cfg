SPECIFICATION DriversSpec
CONSTANT MaxVer = 2
INVARIANT TakesItsOwnData

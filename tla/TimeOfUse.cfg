SPECIFICATION TouSpec
CONSTANTS
  Day = 4
  Tou <- MCTou
  Grid <- MCGrid
  Antibackflow = 2
  Demand = 4
  Soc = {0, 1, 2}
  MinSoc = 1
  MaxSoc = 2
  Unset <- MCUnset
  MaxWindup = 8
PROPERTY KeepsMinSoc
CHECK_DEADLOCK FALSE

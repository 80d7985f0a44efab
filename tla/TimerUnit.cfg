SPECIFICATION Spec
CONSTANTS
  Timer = {t1, t2}
  Intervals = {1, 2}
  Counts <- MCCounts
  MaxClock = 3
INVARIANTS
  HeapMatchesActive
PROPERTIES
  NeverSleepsPastATimer
  OncePerPass
  DueTimersFire

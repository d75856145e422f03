\* Two changes of the interval before the next tick.
SPECIFICATION TimerSpec
CONSTANTS
  Structs = {s1, s2, s3, s4}
  MaxPeriod = 3
  GC_INTERVAL = 2
INVARIANTS
  OnlyCurrentInterval

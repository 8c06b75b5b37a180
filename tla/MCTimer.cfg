\* Three timers with times up to 3 ticks; two creations of periodic ones.
CONSTANTS
  Timer = {x1, x2, x3}
  Nil = Nil
  MaxTime = 3
  MaxStarts = 2
SPECIFICATION LiveSpec
INVARIANTS
  LateAtMostOnePerPeriodic
PROPERTIES
  NeverEarly
  EveryTimerFires

\* An auto-reset and a manual event, two threads that wait and set.
CONSTANTS
  t1 = t1
  t2 = t2
  x0 = x0
  x1 = x1
  x2 = x2
  x3 = x3
  Main = Main
  Idle = Idle
  Nil = Nil
  Thread = {Main, Idle, t1}
  Event = {ea, em}
  AutoReset = {ea}
  Handle = {Main, Idle, t1, x0, x1, x3}
  Object = {ea, em, x0, x1, x3}
  Priority <- MCPriority
  Bit <- MCBit
  Timer <- MCTimer
SPECIFICATION LiveSpec
INVARIANTS
  SetWakesAll
  FalseIsTimeout
  StackIsUnlinked
PROPERTIES
  Spec
  TimedWaitReturns

\* One consumer that waits for ever; the event is not auto-reset.
CONSTANTS
  t1 = t1
  x0 = x0
  x1 = x1
  x2 = x2
  t2 = t2
  x3 = x3
  Main = Main
  Idle = Idle
  Nil = Nil
  Thread = {Main, Idle, t1, t2}
  Event = {e1}
  AutoReset = {}
  FifoEvent = e1
  Node = {n1, n2, n3}
  Consumer = {t1}
  Timeout = {TRUE}
  Handle = {Main, Idle, t1, t2, x0, x1, x2, x3}
  Object = {e1, x0, x1, x2, x3}
  Priority <- MCPriority
  Bit <- MCBit
  Timer <- MCTimer
SPECIFICATION FifoSpec
INVARIANTS
  NeverEmptyHanded

\* Two threads of one priority above the idle thread; more handles than bits,
\* so that a thread can run out of bits.
CONSTANTS
  t1 = t1
  Main = Main
  Idle = Idle
  Nil = Nil
  Thread = {Main, Idle, t1}
  Handle = {h1, h2, h3}
  Object = {o1}
  Priority <- MCPriority
  Bit <- MCBit
SPECIFICATION Spec
INVARIANTS
  HandlePlace
  MaskExact
  StrictlyByPriority
  NoLostWakeup
  EndedIsClean
PROPERTIES
  WakeIsEarned
  NoOvertaking
SYMMETRY HandleSymmetry
CHECK_DEADLOCK FALSE

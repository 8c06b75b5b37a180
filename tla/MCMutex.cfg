\* Three threads of three priorities share a mutex; the idle thread is the fourth.
CONSTANTS
  t1 = t1
  t2 = t2
  Main = Main
  Idle = Idle
  Nil = Nil
  Tick = Tick
  Thread = {Main, Idle, t1, t2}
  Handle = {Main, Idle, t1, t2}
  Mutex = {m1}
  Object = {m1, Tick}
  MaxCount = 2
  Priority <- MCPriority
  Bit <- MCBit
SPECIFICATION LiveSpec
INVARIANTS
  MutualExclusion
  NoOrphanWaiter
PROPERTIES
  Spec
  ImplementsLock
  TopLocks

\* Two dispatchers with events, one of them auto-reset; one without, which
\* another thread adds and removes.
CONSTANTS
  d1 = d1
  d2 = d2
  d3 = d3
  e1 = e1
  e2 = e2
  Nil = Nil
  Dispatcher = {d1, d2, d3}
  Event = {e1, e2}
  DEvent <- MCDEvent
  AddTimeout <- MCAddTimeout
  AutoReset = {e1}
  Client = {d3}
  Timeout = {TRUE, FALSE}
SPECIFICATION LiveSpec
INVARIANTS
  NothingDangles
  SleepsOnAll
PROPERTIES
  EveryoneServed

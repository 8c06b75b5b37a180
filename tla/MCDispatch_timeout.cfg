\* exos_dispatch with a timeout, as the loop of iap2.c calls it.
CONSTANTS
  d1 = d1
  d2 = d2
  d3 = d3
  e1 = e1
  e2 = e2
  Nil = Nil
  Dispatcher = {d1, d2, d3}
  Event = {e1, e2}
  DEvent <- MCDEvent
  AddTimeout <- MCAddTimeout
  AutoReset = {e1}
  Client = {}
  Timeout = {TRUE}
SPECIFICATION LiveSpec
PROPERTIES
  TimedDispatchReturns

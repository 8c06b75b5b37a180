-------------------------------- MODULE Timer --------------------------------
(***************************************************************************)
(* The timer list of kernel/timer.c, in the build with EXOS_OLD_TICK_API   *)
(* (the only one a machine of the repository supports): every interrupt of *)
(* the hardware timer is one tick, and between ticks no time has elapsed.  *)
(*                                                                         *)
(* _tick_handler walks the list with FOREACH while it removes nodes from   *)
(* it and enqueues periodic ones again.  Each node it visits is a step;    *)
(* "cursor" is the loop variable and no other action runs during the walk. *)
(* What the events of the timers do to threads is the matter of Event.     *)
(***************************************************************************)
EXTENDS FiniteSets, List

CONSTANTS Timer,      \* the exos_timer_t objects
          MaxTime,    \* bound: the longest time or period
          MaxStarts,  \* bound: how often a periodic timer is created
          Nil         \* the end of the list

ASSUME TimerAssumption == MaxTime \in Nat /\ MaxStarts \in Nat /\ Nil \notin Timer

VARIABLES timers,     \* the list _timers
          Time,       \* timer -> Time
          Period,     \* timer -> Period
          State,      \* timer -> State
          cursor,     \* the node _tick_handler is at, or Nil
          due,        \* timer -> the ticks it was asked for, less those that came
          starts      \* how many periodic timers were created

vars == <<timers, Time, Period, State, cursor, due, starts>>

\* bound: where due stops counting, later than any timer may be
MaxLate == MaxStarts + 1

TimerTypeOK ==
  /\ timers \in Seq(Timer)
  /\ Time \in [Timer -> 0..MaxTime]
  /\ Period \in [Timer -> 0..MaxTime]
  /\ State \in [Timer -> {"DETACHED", "RUNNING", "FINISHED"}]
  /\ cursor \in Timer \cup {Nil}
  /\ due \in [Timer -> -MaxLate..MaxTime]
  /\ starts \in 0..MaxStarts

TimerInit ==
  /\ timers = <<>>
  /\ Time = [x \in Timer |-> 0]
  /\ Period = [x \in Timer |-> 0]
  /\ State = [x \in Timer |-> "DETACHED"]
  /\ cursor = Nil
  /\ due = [x \in Timer |-> 0]
  /\ starts = 0

Listed == Range(timers)

\* n->Succ
Succ(list, x) ==
  LET i == CHOOSE j \in DOMAIN list : list[j] = x
  IN  IF i = Len(list) THEN Nil ELSE list[i + 1]

\* Faulty variant: behind the timers that are due later.
_enqueue_unsorted(list, x, time) == list_add_tail(list, x)

\* _enqueue: behind the timers due before it or with it.
_enqueue(list, x, time) == list_enqueue(list, x, [y \in Timer |-> -time[y]])

\* exos_timer_create of a timer that is not on the list, with ___add_timer.
exos_timer_create(x, time, period) ==
  /\ cursor = Nil
  /\ x \notin Listed
  /\ period # 0 => starts < MaxStarts
  /\ Time' = [Time EXCEPT ![x] = time]
  /\ Period' = [Period EXCEPT ![x] = period]
  /\ State' = [State EXCEPT ![x] = "RUNNING"]
  /\ timers' = _enqueue(timers, x, Time')
  /\ due' = [due EXCEPT ![x] = time]
  /\ starts' = IF period = 0 THEN starts ELSE starts + 1
  /\ UNCHANGED cursor

\* A timer that is off the list is not measured.
Forget(x) == due' = [due EXCEPT ![x] = 0]

\* exos_timer_dispose.  The State is left as it is.
exos_timer_dispose(x) ==
  /\ cursor = Nil
  /\ x \in Listed
  /\ timers' = list_remove(timers, x)
  /\ Forget(x)
  /\ UNCHANGED <<Time, Period, State, cursor, starts>>

\* __kernel_tick: _tick_handler(1) starts its walk.
__kernel_tick ==
  /\ cursor = Nil
  /\ timers # <<>>
  /\ cursor' = Head(timers)
  /\ due' = [x \in Timer |-> IF x \in Listed /\ due[x] > -MaxLate THEN due[x] - 1 ELSE due[x]]
  /\ UNCHANGED <<timers, Time, Period, State, starts>>

\* Faulty variant: a timer is taken to be due one tick before it is.
Due_early(x) == Time[x] <= 2

Due(x) == Time[x] <= 1

CountDown ==
  /\ cursor # Nil
  /\ ~Due(cursor)
  /\ Time' = [Time EXCEPT ![cursor] = @ - 1]
  /\ cursor' = Succ(timers, cursor)
  /\ UNCHANGED <<timers, Period, State, due, starts>>

\* A one-shot timer is removed; its Succ still points into the list.
Finish ==
  /\ cursor # Nil
  /\ Due(cursor)
  /\ Period[cursor] = 0
  /\ timers' = list_remove(timers, cursor)
  /\ State' = [State EXCEPT ![cursor] = "FINISHED"]
  /\ cursor' = Succ(timers, cursor)
  /\ Forget(cursor)
  /\ UNCHANGED <<Time, Period, starts>>

\* Faulty variants: the period is added to what is left; the walk ends here.
Reload_adds ==
  /\ cursor # Nil
  /\ Due(cursor)
  /\ Period[cursor] # 0
  /\ Time' = [Time EXCEPT ![cursor] = @ + Period[cursor]]
  /\ timers' = _enqueue(list_remove(timers, cursor), cursor, Time')
  /\ cursor' = Succ(timers', cursor)
  /\ due' = [due EXCEPT ![cursor] = Period[cursor]]
  /\ UNCHANGED <<Period, State, starts>>
Reload_breaks ==
  /\ cursor # Nil
  /\ Due(cursor)
  /\ Period[cursor] # 0
  /\ Time' = [Time EXCEPT ![cursor] = Period[cursor]]
  /\ timers' = _enqueue(list_remove(timers, cursor), cursor, Time')
  /\ cursor' = Nil
  /\ due' = [due EXCEPT ![cursor] = Period[cursor]]
  /\ UNCHANGED <<Period, State, starts>>

\* A periodic timer is enqueued again and the walk goes on behind its new
\* place: the timers in between do not count this tick.
Reload ==
  /\ cursor # Nil
  /\ Due(cursor)
  /\ Period[cursor] # 0
  /\ Time' = [Time EXCEPT ![cursor] = Period[cursor]]
  /\ timers' = _enqueue(list_remove(timers, cursor), cursor, Time')
  /\ cursor' = Succ(timers', cursor)
  /\ due' = [due EXCEPT ![cursor] = Period[cursor]]
  /\ UNCHANGED <<Period, State, starts>>

Walk == CountDown \/ Finish \/ Reload

Next ==
  \/ \E x \in Timer, time \in 1..MaxTime, period \in 0..MaxTime :
       exos_timer_create(x, time, period)
  \/ \E x \in Timer : exos_timer_dispose(x)
  \/ __kernel_tick
  \/ Walk

Spec == TimerInit /\ [][Next]_vars

\* Ticks keep coming, and the handler finishes.
LiveSpec == Spec /\ WF_vars(__kernel_tick) /\ WF_vars(Walk)

----------------------------------------------------------------------------
(* Properties *)

\* How many ticks a timer is behind: those the walk skipped it in.
Lag(x) == Time[x] - due[x]

\* Between ticks the list is in order of Time and nothing on it is due: the
\* assertion at the end of _tick_handler, and what _enqueue relies on.  No
\* timer runs ahead of the ticks, and each creation of a periodic timer costs
\* any other timer at most one tick, however often it is reloaded.
LateAtMostOnePerPeriodic ==
  /\ TimerTypeOK
  /\ cursor = Nil =>
    /\ \A i, j \in DOMAIN timers : i < j => timers[i] # timers[j] /\ Time[timers[i]] <= Time[timers[j]]
    /\ \A x \in Listed : State[x] = "RUNNING" /\ Time[x] > 0
    /\ \A x \in Listed : Lag(x) \in 0..starts

\* A timer never fires before the time it was asked for, first shot or reload:
\* a visit that does not count it down finds its time over.
NotEarly == cursor # Nil /\ Time'[cursor] >= Time[cursor] => due[cursor] <= 0
NeverEarly == [][NotEarly]_vars

\* Every timer on the list fires or is disposed of: no reload of another can
\* put it off for ever.
EveryTimerFires ==
  \A x \in Timer : x \in Listed /\ Period[x] = 0 ~> x \notin Listed
=============================================================================

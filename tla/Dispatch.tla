------------------------------ MODULE Dispatch ------------------------------
(***************************************************************************)
(* The event loop of kernel/dispatch.c: a thread calls exos_dispatch again *)
(* and again, which waits for the events and timers of all dispatchers of  *)
(* a context at once and calls back for one of them.  Interrupts set the   *)
(* events and expire the timers at any moment; callbacks, and other        *)
(* threads, add and remove dispatchers.                                    *)
(*                                                                         *)
(* Wait handles and events do what the modules Threads and Event show: to  *)
(* set an event makes the handles that wait for it DONE, and the thread    *)
(* goes on if it waits for one of them.  context->Lock is held from "scan" *)
(* to "select" and in "again"; what another thread does with the lock in   *)
(* its hands is one step.                                                  *)
(***************************************************************************)
EXTENDS FiniteSets, List

CONSTANTS Dispatcher,  \* the dispatcher_t objects
          Event,       \* the events they can wait for
          DEvent,      \* dispatcher -> Event, or Nil
          AutoReset,   \* the events with EXOS_EVENTF_AUTORESET
          Client,      \* the dispatchers other threads add and remove
          AddTimeout,  \* dispatcher -> its timeouts when added: TRUE when not 0
          Timeout,     \* the timeouts of exos_dispatch
          Nil

ASSUME DispatchAssumption ==
  /\ DEvent \in [Dispatcher -> Event \cup {Nil}] /\ Nil \notin Dispatcher \cup Event
  /\ AutoReset \subseteq Event /\ Client \subseteq Dispatcher /\ Timeout \subseteq BOOLEAN
  /\ AddTimeout \in [Dispatcher -> SUBSET BOOLEAN]

\* The wait handles.  A timer and its event have the name of the handle.
EventHandle(d) == <<"event", d>>
TimerHandle(d) == <<"timer", d>>
WakeHandle == <<"wake", Nil>>
TimeoutHandle == <<"timeout", Nil>>
TimerSet == {TimerHandle(d) : d \in Dispatcher} \cup {TimeoutHandle}
Handle == {EventHandle(d) : d \in Dispatcher} \cup {WakeHandle} \cup TimerSet
Signal == Event \cup {WakeHandle} \cup TimerSet

\* Events, wait handles and timers are different objects.
ASSUME DistinctAssumption == (Event \cup {Nil}) \cap (TimerSet \cup {WakeHandle}) = {}

\* The event a handle waits for.
Of(h) == IF h[1] = "event" THEN DEvent[h[2]] ELSE h

VARIABLES EState,      \* event -> State
          HState,      \* handle -> State
          Running,     \* the timers on the timer list
          Dispatchers, \* the list context->Dispatchers
          State,       \* dispatcher -> State
          HasTimeout,  \* dispatcher -> DISPATCHERF_HAS_TIMEOUT
          pc,          \* where the loop is in exos_dispatch
          cursor,      \* the dispatcher its FOREACH is at, or Nil
          mask,        \* the handles it waits for
          selected,    \* the dispatcher to call back, or Nil
          timed        \* timeout # 0

objVars == <<EState, HState, Running>>
listVars == <<Dispatchers, State, HasTimeout>>
callVars == <<cursor, mask, selected, timed>>
vars == <<objVars, listVars, pc, callVars>>

DispatchTypeOK ==
  /\ EState \in [Signal -> BOOLEAN]
  /\ HState \in [Handle -> {"DETACHED", "WAITING", "DONE"}]
  /\ Running \subseteq TimerSet
  /\ Dispatchers \in Seq(Dispatcher) /\ IsInjective(Dispatchers)
  /\ State \in [Dispatcher -> {"CREATED", "WAITING", "IMMEDIATE", "DONE", "TIMEOUT", "REMOVED"}]
  /\ HasTimeout \in [Dispatcher -> BOOLEAN]
  /\ pc \in {"user", "scan", "scantimer", "select", "wake", "timer", "tadd", "wait",
             "asleep", "woken", "again", "callback"}
  /\ cursor \in Dispatcher \cup {Nil}
  /\ mask \subseteq Handle
  /\ selected \in Dispatcher \cup {Nil}
  /\ timed \in BOOLEAN

\* exos_dispatcher_context_create, and exos_dispatcher_create for each.
DispatchInit ==
  /\ EState = [e \in Signal |-> FALSE]
  /\ HState = [h \in Handle |-> "DETACHED"]
  /\ Running = {}
  /\ Dispatchers = <<>>
  /\ State = [d \in Dispatcher |-> "CREATED"]
  /\ HasTimeout = [d \in Dispatcher |-> FALSE]
  /\ pc = "user"
  /\ cursor = Nil /\ mask = {} /\ selected = Nil /\ timed = FALSE

Listed == Range(Dispatchers)
Locked == pc \in {"scan", "scantimer", "select", "again"}

First == IF Dispatchers = <<>> THEN Nil ELSE Head(Dispatchers)

\* Faulty variant: a FOREACH that ends after its first dispatcher.
Succ_breaks(d) == Nil

Succ(d) ==
  LET i == CHOOSE j \in DOMAIN Dispatchers : Dispatchers[j] = d
  IN  IF i = Len(Dispatchers) THEN Nil ELSE Dispatchers[i + 1]

----------------------------------------------------------------------------
(* Events *)

\* exos_event_add_handle answers 0: the event is set.  A handle that is in use
\* already is left as it is and keeps its mask.
Answers0(h) == HState[h] = "DETACHED" /\ EState[Of(h)]

Add(h) ==
  IF Answers0(h)
  THEN EState' = [EState EXCEPT ![Of(h)] = Of(h) \notin AutoReset] /\ UNCHANGED HState
  ELSE /\ HState' = [HState EXCEPT ![h] = IF @ = "DETACHED" THEN "WAITING" ELSE @]
       /\ UNCHANGED EState

\* exos_thread_resume_all for event e: its waiting handles, and the thread.
Waiting(e) == {h \in Handle : HState[h] = "WAITING" /\ Of(h) = e}
Resumed(e) == [h \in Handle |-> IF h \in Waiting(e) THEN "DONE" ELSE HState[h]]
Wakes(e) == pc = "asleep" /\ Waiting(e) \cap mask # {}

\* exos_event_set.  For a manual event the state and the handles are two
\* sections of the kernel, one step here: a handle added in between is DONE
\* at once, as it is after both.
SetEvent(e) ==
  /\ EState' = [EState EXCEPT ![e] = (e \in AutoReset => Waiting(e) = {})]
  /\ HState' = Resumed(e)
  /\ pc' = IF Wakes(e) THEN "woken" ELSE pc

\* exos_event_set, by an interrupt handler or another thread
InterruptSets(e) ==
  /\ SetEvent(e)
  /\ UNCHANGED <<Running, listVars, callVars>>

\* The tick interrupt finds a timer due.
Expire(x) ==
  /\ x \in Running
  /\ Running' = Running \ {x}
  /\ SetEvent(x)
  /\ UNCHANGED <<listVars, callVars>>

----------------------------------------------------------------------------
(* Adding and removing *)

\* Faulty variant: the timer's handle is forgotten.
Used_event_only(d) == {EventHandle(d)}

\* The handles of a dispatcher on the list, which _remove disposes of.
Used(d) ==
  IF d \notin Listed THEN {}
  ELSE (IF DEvent[d] = Nil THEN {} ELSE {EventHandle(d)})
         \cup (IF HasTimeout[d] THEN {TimerHandle(d)} ELSE {})

\* Who may call: the loop's thread in a callback or between two calls of
\* exos_dispatch, and other threads when they get the lock.
MayChange(d) == pc \in {"user", "callback"} \/ (d \in Client /\ ~Locked)

\* Faulty variant: without the _remove at its beginning.
exos_dispatcher_add_again(d, timeout) ==
  /\ MayChange(d)
  /\ d \in Client \/ d \notin Listed
  /\ Dispatchers' = Append(Dispatchers, d)
  /\ State' = [State EXCEPT ![d] = "WAITING"]
  /\ UNCHANGED <<objVars, HasTimeout, pc, callVars>>

\* exos_dispatcher_add, with the exos_event_reset of WakeEvent at its end.  The
\* loop's thread only adds a dispatcher that is not waiting.
exos_dispatcher_add(d, timeout) ==
  /\ MayChange(d)
  /\ d \in Client \/ d \notin Listed
  /\ Dispatchers' = list_add_tail(list_remove(Dispatchers, d), d)
  /\ State' = [State EXCEPT ![d] = "WAITING"]
  /\ HasTimeout' = [HasTimeout EXCEPT ![d] = timeout]
  /\ Running' = (Running \ Used(d)) \cup (IF timeout THEN {TimerHandle(d)} ELSE {})
  /\ EState' = [EState EXCEPT ![TimerHandle(d)] = IF timeout THEN FALSE ELSE @,
                              ![WakeHandle] = FALSE]
  /\ HState' = [h \in Handle |-> IF h \in Used(d) THEN "DETACHED" ELSE Resumed(WakeHandle)[h]]
  /\ pc' = IF Wakes(WakeHandle) THEN "woken" ELSE pc
  /\ UNCHANGED callVars

exos_dispatcher_remove(d) ==
  /\ MayChange(d)
  /\ d \in Client
  /\ Dispatchers' = list_remove(Dispatchers, d)
  /\ State' = [State EXCEPT ![d] = "REMOVED"]
  /\ Running' = Running \ Used(d)
  /\ HState' = [h \in Handle |-> IF h \in Used(d) THEN "DETACHED" ELSE HState[h]]
  /\ UNCHANGED <<EState, HasTimeout, pc, callVars>>

----------------------------------------------------------------------------
(* exos_dispatch *)

exos_dispatch(timeout) ==
  /\ pc = "user"
  /\ pc' = "scan"
  /\ cursor' = First
  /\ mask' = {}
  /\ selected' = Nil
  /\ timed' = timeout
  /\ UNCHANGED <<objVars, listVars>>

\* The first FOREACH: each dispatcher's event gets its handle ...
Scan ==
  /\ pc = "scan"
  /\ \/ /\ cursor = Nil
        /\ pc' = "wake"
        /\ UNCHANGED <<objVars, State, callVars>>
     \/ /\ cursor # Nil /\ DEvent[cursor] = Nil
        /\ pc' = "scantimer"
        /\ UNCHANGED <<objVars, State, callVars>>
     \/ /\ cursor # Nil /\ DEvent[cursor] # Nil
        /\ Add(EventHandle(cursor))
        /\ IF Answers0(EventHandle(cursor))
           THEN /\ State' = [State EXCEPT ![cursor] = "DONE"]
                /\ selected' = cursor
                /\ pc' = "select"
                /\ UNCHANGED mask
           ELSE /\ mask' = mask \cup {EventHandle(cursor)}
                /\ pc' = "scantimer"
                /\ UNCHANGED <<State, selected>>
        /\ UNCHANGED <<Running, cursor, timed>>
  /\ UNCHANGED <<Dispatchers, HasTimeout>>

\* ... and then its timer; one that has neither is called back at once.
ScanTimer ==
  /\ pc = "scantimer"
  /\ \/ /\ HasTimeout[cursor]
        /\ Add(TimerHandle(cursor))
        /\ IF Answers0(TimerHandle(cursor))
           THEN /\ State' = [State EXCEPT ![cursor] = "TIMEOUT"]
                /\ selected' = cursor
                /\ pc' = "select"
                /\ UNCHANGED <<mask, cursor>>
           ELSE /\ mask' = mask \cup {TimerHandle(cursor)}
                /\ cursor' = Succ(cursor)
                /\ pc' = "scan"
                /\ UNCHANGED <<State, selected>>
     \/ /\ ~HasTimeout[cursor] /\ DEvent[cursor] # Nil
        /\ cursor' = Succ(cursor)
        /\ pc' = "scan"
        /\ UNCHANGED <<EState, HState, State, mask, selected>>
     \/ /\ ~HasTimeout[cursor] /\ DEvent[cursor] = Nil
        /\ State' = [State EXCEPT ![cursor] = "IMMEDIATE"]
        /\ selected' = cursor
        /\ pc' = "select"
        /\ UNCHANGED <<EState, HState, mask, cursor>>
  /\ UNCHANGED <<Running, Dispatchers, HasTimeout, timed>>

\* _remove of the selected dispatcher; the lock is released.
Select ==
  /\ pc = "select"
  /\ Dispatchers' = list_remove(Dispatchers, selected)
  /\ Running' = Running \ Used(selected)
  /\ HState' = [h \in Handle |-> IF h \in Used(selected) THEN "DETACHED" ELSE HState[h]]
  /\ pc' = "callback"
  /\ UNCHANGED <<EState, State, HasTimeout, callVars>>

\* Nobody was ready: a handle for WakeEvent, and for a timer of its own.
WakeAdd ==
  /\ pc = "wake"
  /\ Add(WakeHandle)
  /\ mask' = IF Answers0(WakeHandle) THEN mask ELSE mask \cup {WakeHandle}
  /\ pc' = IF timed THEN "timer" ELSE "wait"
  /\ UNCHANGED <<Running, listVars, cursor, selected, timed>>

TimerCreate ==
  /\ pc = "timer"
  /\ Running' = Running \cup {TimeoutHandle}
  /\ EState' = [EState EXCEPT ![TimeoutHandle] = FALSE]
  /\ pc' = "tadd"
  /\ UNCHANGED <<HState, listVars, callVars>>

\* A timer that has expired already gives no mask.
TimerAdd ==
  /\ pc = "tadd"
  /\ Add(TimeoutHandle)
  /\ mask' = IF Answers0(TimeoutHandle) THEN mask ELSE mask \cup {TimeoutHandle}
  /\ pc' = "wait"
  /\ UNCHANGED <<Running, listVars, cursor, selected, timed>>

\* exos_thread_wait
Wait ==
  /\ pc = "wait"
  /\ pc' = IF \E h \in mask : HState[h] = "DONE" THEN "woken" ELSE "asleep"
  /\ UNCHANGED <<objVars, listVars, callVars>>

\* The handles on the stack are disposed of; the lock is taken again.
Woken ==
  /\ pc = "woken"
  /\ HState' = [HState EXCEPT ![WakeHandle] = "DETACHED", ![TimeoutHandle] = "DETACHED"]
  /\ Running' = Running \ {TimeoutHandle}
  /\ cursor' = First
  /\ pc' = "again"
  /\ UNCHANGED <<EState, listVars, mask, selected, timed>>

\* Faulty variant: only the events are looked at.
DoneHandles_events(d) == {h \in {EventHandle(d)} : HState[h] = "DONE"}

\* The second FOREACH: whose handle is done?
DoneHandles(d) == {h \in Used(d) : HState[h] = "DONE"}

Again ==
  /\ pc = "again"
  /\ \/ cursor = Nil /\ pc' = "user" /\ UNCHANGED <<State, selected, cursor>>
     \/ /\ cursor # Nil /\ DoneHandles(cursor) = {}
        /\ cursor' = Succ(cursor)
        /\ UNCHANGED <<pc, State, selected>>
     \/ /\ cursor # Nil /\ DoneHandles(cursor) # {}
        /\ State' = [State EXCEPT ![cursor] =
             IF EventHandle(cursor) \in DoneHandles(cursor) THEN "DONE" ELSE "TIMEOUT"]
        /\ selected' = cursor
        /\ pc' = "select"
        /\ UNCHANGED cursor
  /\ UNCHANGED <<objVars, Dispatchers, HasTimeout, mask, timed>>

\* selected->Callback returns, having called exos_dispatcher_add or not.
Callback ==
  /\ pc = "callback"
  /\ pc' = "user"
  /\ cursor' = Nil /\ mask' = {} /\ selected' = Nil
  /\ UNCHANGED <<objVars, listVars, timed>>

Loop == \/ Scan \/ ScanTimer \/ Select \/ WakeAdd \/ TimerCreate \/ TimerAdd \/ Wait
        \/ Woken \/ Again \/ Callback

Next ==
  \/ \E timeout \in Timeout : exos_dispatch(timeout)
  \/ Loop
  \/ \E d \in Dispatcher : \E timeout \in AddTimeout[d] : exos_dispatcher_add(d, timeout)
  \/ \E d \in Dispatcher : exos_dispatcher_remove(d)
  \/ \E e \in Event : InterruptSets(e)
  \/ \E x \in TimerSet : Expire(x)

Spec == DispatchInit /\ [][Next]_vars

\* The loop's thread goes on, calls exos_dispatch again, and timers expire.
Fairness ==
  /\ WF_vars(Loop)
  /\ WF_vars(\E timeout \in Timeout : exos_dispatch(timeout))
  /\ \A x \in TimerSet : WF_vars(Expire(x))

LiveSpec == Spec /\ Fairness

----------------------------------------------------------------------------
(* Properties *)

\* A handle or a timer in use belongs to a dispatcher on the list, whoever
\* removed others and when; those on the loop's stack only to a call that
\* waits.  A dispatcher that is off the list can be reused or freed.
NothingDangles ==
  /\ DispatchTypeOK
  /\ \A d \in Dispatcher \ Listed :
       HState[EventHandle(d)] = "DETACHED" /\ HState[TimerHandle(d)] = "DETACHED"
         /\ TimerHandle(d) \notin Running
  /\ pc \notin {"wait", "timer", "tadd", "asleep", "woken"} =>
       HState[WakeHandle] = "DETACHED" /\ HState[TimeoutHandle] = "DETACHED"
         /\ TimeoutHandle \notin Running

\* The assertion of ___wait, mask != 0; and while the loop sleeps it waits for
\* everything its own thread added: no event of theirs can be missed.
SleepsOnAll ==
  pc = "asleep" =>
    /\ mask # {}
    /\ \A d \in Listed \ Client : \A h \in Used(d) : HState[h] = "WAITING" /\ h \in mask

\* A dispatcher whose event or timer has come is called back, if the loop gets
\* to its second FOREACH again and again: those served queue up behind it.  (The
\* first one does not look at a handle that is DONE; a dispatcher further back
\* that is ready there every time, say for an event that stays set, keeps the
\* loop from it.)
Ready(d) ==
  \E h \in Used(d) : HState[h] = "DONE" \/ (HState[h] = "DETACHED" /\ EState[Of(h)])
EveryoneServed ==
  \A d \in Dispatcher \ Client :
    []<>(pc = "again") => (Ready(d) ~> (pc = "callback" /\ selected = d))

\* exos_dispatch with a timeout returns: "timeout provides loop exit when
\* theres no activity".
TimedDispatchReturns == (timed /\ pc # "user") ~> pc = "user"
=============================================================================

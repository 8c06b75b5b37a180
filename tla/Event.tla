------------------------------- MODULE Event -------------------------------
(***************************************************************************)
(* The events of kernel/event.c over the thread kernel, with the timed     *)
(* wait of exos_event_wait: a wait handle for the event, and a one-shot    *)
(* timer with a wait handle of its own, all on the caller's stack.         *)
(*                                                                         *)
(* The timer list is a module of its own (Timer); here a running timer may *)
(* expire at any moment.  A thread's event handle is named by the thread,  *)
(* and Timer[t] names its timer, the event in it and the handle for it.    *)
(***************************************************************************)
EXTENDS Threads

CONSTANTS Event,      \* the event_t objects shared by threads
          AutoReset,  \* those with EXOS_EVENTF_AUTORESET
          Timer       \* thread -> the timer on its stack

TimerSet == {Timer[t] : t \in Thread}

ASSUME EventAssumption ==
  /\ Timer \in [Thread -> TimerSet]
  /\ \A t, u \in Thread : Timer[t] = Timer[u] => t = u
  /\ AutoReset \subseteq Event /\ Event \cap TimerSet = {}
  /\ Object = Event \cup TimerSet
  /\ Handle = Thread \cup TimerSet

VARIABLES EState,     \* event -> State
          TState,     \* timer -> "RUNNING" on the list, "FINISHED" or "DETACHED"
          pc,         \* thread -> where it is in a call
          want,       \* thread -> the event of that call
          timed,      \* thread -> timeout # 0
          done        \* thread -> the local "done" of exos_event_wait

eventVars == <<EState, TState, pc, want, timed, done>>
vars == <<kernelVars, eventVars>>

Place == {"user", "resume", "timer", "tadd", "wait", "woken", "tfree", "tdispose",
          "dispose", "return"}

EventTypeOK ==
  /\ TypeOK
  /\ EState \in [Object -> BOOLEAN]
  /\ TState \in [TimerSet -> {"DETACHED", "RUNNING", "FINISHED"}]
  /\ pc \in [Thread -> Place]
  /\ want \in [Thread -> Event \cup {Nil}]
  /\ timed \in [Thread -> BOOLEAN]
  /\ done \in [Thread -> BOOLEAN]

EventInit ==
  /\ KernelInit
  /\ EState = [e \in Object |-> FALSE]
  /\ TState = [x \in TimerSet |-> "DETACHED"]
  /\ pc = [t \in Thread |-> "user"]
  /\ want = [t \in Thread |-> Nil]
  /\ timed = [t \in Thread |-> FALSE]
  /\ done = [t \in Thread |-> FALSE]

At(place) == Calling /\ pc[running] = place

Goto(place) == pc' = [pc EXCEPT ![running] = place]

----------------------------------------------------------------------------
(* Setting and resetting *)

\* Faulty variant: the state of the event is not looked at.
exos_event_add_handle_untested(e, h) ==
  exos_thread_add_wait_handle(h, e) /\ UNCHANGED EState

\* exos_event_add_handle with ___event_cond: a set event is not waited for,
\* and an auto-reset event is used up.
exos_event_add_handle(e, h) ==
  IF EState[e]
  THEN /\ EState' = [EState EXCEPT ![e] = e \notin AutoReset]
       /\ UNCHANGED kernelVars
  ELSE exos_thread_add_wait_handle(h, e) /\ UNCHANGED EState

\* exos_event_set by an interrupt handler, or inside a kernel section.
\* ___event_set: an auto-reset event that resumed somebody does not stay set.
SetEvent(e) ==
  /\ EState' = [EState EXCEPT ![e] = (e \in AutoReset => waiters[e] = <<>>)]
  /\ exos_thread_resume_all(e)

InterruptSets(e) ==
  /\ SetEvent(e)
  /\ UNCHANGED <<TState, pc, want, timed, done>>

\* exos_event_set by a thread.  Of an event that is not auto-reset only the
\* resumption is a kernel section, and interrupts come in between.
exos_event_set(e) ==
  /\ At("user")
  /\ IF e \in AutoReset
     THEN SetEvent(e) /\ UNCHANGED <<pc, want>>
     ELSE /\ EState' = [EState EXCEPT ![e] = TRUE]
          /\ want' = [want EXCEPT ![running] = e]
          /\ Goto("resume")
          /\ UNCHANGED kernelVars
  /\ UNCHANGED <<TState, timed, done>>

exos_event_reset(e) ==
  /\ At("user")
  /\ EState' = [EState EXCEPT ![e] = FALSE]
  /\ want' = [want EXCEPT ![running] = e]
  /\ Goto("resume")
  /\ UNCHANGED <<kernelVars, TState, timed, done>>

\* A call returns and its locals are gone, the timer with them.
BackToUser ==
  /\ TState' = [TState EXCEPT ![Timer[running]] = "DETACHED"]
  /\ Goto("user")
  /\ want' = [want EXCEPT ![running] = Nil]
  /\ timed' = [timed EXCEPT ![running] = FALSE]
  /\ done' = [done EXCEPT ![running] = FALSE]

\* The exos_thread_resume_all at the end of both.
ResumeWaiters ==
  /\ At("resume")
  /\ exos_thread_resume_all(want[running])
  /\ BackToUser
  /\ UNCHANGED EState

----------------------------------------------------------------------------
(* Waiting *)

exos_event_wait(e, timeout) ==
  /\ At("user")
  /\ exos_event_add_handle(e, running)
  /\ want' = [want EXCEPT ![running] = e]
  /\ timed' = [timed EXCEPT ![running] = timeout]
  /\ done' = [done EXCEPT ![running] = TRUE]
  /\ Goto(IF EState[e] THEN "return" ELSE IF timeout THEN "timer" ELSE "wait")
  /\ UNCHANGED TState

\* exos_timer_create, with the exos_event_create of the timer's event.
TimerCreate ==
  /\ At("timer")
  /\ TState' = [TState EXCEPT ![Timer[running]] = "RUNNING"]
  /\ EState' = [EState EXCEPT ![Timer[running]] = FALSE]
  /\ waiters' = [waiters EXCEPT ![Timer[running]] = <<>>]
  /\ Goto("tadd")
  /\ UNCHANGED <<threadVars, HState, Owner, Mask, sectionVars, want, timed, done>>

\* A timer that has expired already gives no mask: no wait, "done" stays.
TimerAdd ==
  /\ At("tadd")
  /\ exos_event_add_handle(Timer[running], Timer[running])
  /\ Goto(IF EState[Timer[running]] THEN "tdispose" ELSE "wait")
  /\ UNCHANGED <<TState, want, timed, done>>

\* Faulty variant: the timer is not part of the mask.
Wait_event_only ==
  /\ At("wait")
  /\ exos_thread_wait(Mask[running])
  /\ Goto("woken")
  /\ UNCHANGED <<EState, TState, want, timed, done>>

Wait ==
  /\ At("wait")
  /\ exos_thread_wait(Mask[running] \cup IF timed[running] THEN Mask[Timer[running]] ELSE {})
  /\ Goto("woken")
  /\ UNCHANGED <<EState, TState, want, timed, done>>

\* Faulty variant: the event's handle is disposed of before it is looked at.
Woken_disposed ==
  /\ At("woken")
  /\ done' = [done EXCEPT ![running] = ~timed[running]]
  /\ Goto(IF timed[running] THEN "tfree" ELSE "dispose")
  /\ UNCHANGED <<kernelVars, EState, TState, want, timed>>

Woken ==
  /\ At("woken")
  /\ done' = [done EXCEPT ![running] = timed[running] => HState[running] = "DONE"]
  /\ Goto(IF timed[running] THEN "tfree" ELSE "dispose")
  /\ UNCHANGED <<kernelVars, EState, TState, want, timed>>

\* Faulty variant: the timer's handle is forgotten.
TimerHandleDispose_skipped ==
  /\ At("tfree")
  /\ Goto("tdispose")
  /\ UNCHANGED <<kernelVars, EState, TState, want, timed, done>>

TimerHandleDispose ==
  /\ At("tfree")
  /\ exos_thread_dispose_wait_handle(Timer[running])
  /\ Goto("tdispose")
  /\ UNCHANGED <<EState, TState, want, timed, done>>

\* Faulty variant: the timer stays on the list.
TimerDispose_skipped ==
  /\ At("tdispose")
  /\ Goto("dispose")
  /\ UNCHANGED <<kernelVars, EState, TState, want, timed, done>>

\* exos_timer_dispose takes the timer off the list if it is still there, and
\* the block that declares the timer, with its event, ends.
TimerDispose ==
  /\ At("tdispose")
  /\ TState' = [TState EXCEPT ![Timer[running]] = IF @ = "RUNNING" THEN "DETACHED" ELSE @]
  /\ EState' = [EState EXCEPT ![Timer[running]] = FALSE]
  /\ Goto("dispose")
  /\ UNCHANGED <<kernelVars, want, timed, done>>

Dispose ==
  /\ At("dispose")
  /\ exos_thread_dispose_wait_handle(running)
  /\ Goto("return")
  /\ UNCHANGED <<EState, TState, want, timed, done>>

Return ==
  /\ At("return")
  /\ BackToUser
  /\ UNCHANGED <<kernelVars, EState>>

Waiting == \/ TimerCreate \/ TimerAdd \/ Wait \/ Woken \/ TimerHandleDispose
           \/ TimerDispose \/ Dispose

----------------------------------------------------------------------------
(* The rest of the system *)

\* _tick_handler finds the timer due: it leaves the list and its event, which
\* is not auto-reset, is set.
Expire(x) ==
  /\ TState[x] = "RUNNING"
  /\ TState' = [TState EXCEPT ![x] = "FINISHED"]
  /\ SetEvent(x)
  /\ UNCHANGED <<pc, want, timed, done>>

Create(t) ==
  /\ At("user")
  /\ exos_thread_create(t)
  /\ UNCHANGED eventVars

Kernel == Drain /\ UNCHANGED eventVars

EventNext ==
  \/ \E e \in Event : InterruptSets(e) \/ exos_event_set(e) \/ exos_event_reset(e)
  \/ \E e \in Event, timeout \in BOOLEAN : exos_event_wait(e, timeout)
  \/ ResumeWaiters
  \/ Waiting
  \/ Return
  \/ \E x \in TimerSet : Expire(x)
  \/ \E t \in Thread : Create(t)
  \/ Kernel

EventSpec == EventInit /\ [][EventNext]_vars

\* The CPU does not stop inside a call or a section, and interrupts leave it
\* time for the running thread; a running timer expires.
Fairness ==
  /\ SF_vars(Waiting \/ Return \/ ResumeWaiters)
  /\ WF_vars(Kernel)
  /\ \A x \in TimerSet : SF_vars(Expire(x))

LiveSpec == EventSpec /\ Fairness

----------------------------------------------------------------------------
(* Properties *)

\* No thread sleeps on an event that is set: only while exos_event_set is
\* between its two steps may a set event have waiters.
SetWakesAll ==
  \A e \in Object : EState[e] /\ waiters[e] # <<>> /\ draining # e =>
    \E t \in Thread : pc[t] = "resume" /\ want[t] = e

\* The assertions after exos_thread_wait, and what its callers make of the
\* answer: a thread that goes on was woken by the event, or by its timer if it
\* has one; and exos_event_wait answers "false" only when that has expired.
FalseIsTimeout ==
  \A t \in Thread :
    /\ pc[t] = "woken" /\ State[t] = "READY" =>
         HState[t] = "DONE" \/ (timed[t] /\ HState[Timer[t]] = "DONE")
    /\ pc[t] \in {"tfree", "tdispose", "dispose", "return"} /\ ~done[t] =>
         TState[Timer[t]] = "FINISHED"

\* When exos_event_wait returns, nothing links to the handles and the timer
\* on the stack it leaves; and exos_event_create, which initialises the list
\* of the timer's event, drops no handle.
StackIsUnlinked ==
  \A t \in Thread : pc[t] \in {"user", "resume", "timer", "return"} =>
    /\ pc[t] # "timer" => HState[t] = "DETACHED"
    /\ HState[Timer[t]] = "DETACHED"
    /\ TState[Timer[t]] # "RUNNING"
    /\ draining # Timer[t] => waiters[Timer[t]] = <<>>

\* A wait with a timeout of the thread with the highest priority returns.
TimedWaitReturns ==
  \A t \in Thread : (\A u \in Thread \ {t} : Priority[u] < Priority[t]) =>
    (pc[t] = "wait" /\ timed[t] ~> pc[t] = "user")
=============================================================================

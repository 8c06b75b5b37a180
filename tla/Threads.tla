------------------------------ MODULE Threads ------------------------------
(***************************************************************************)
(* The thread kernel of ExOS, kernel/thread.c: the ready list and its      *)
(* strict-priority scheduler, and the wait handles through which a thread  *)
(* blocks on a set of conditions and is resumed.                           *)
(*                                                                         *)
(* The code of thread.c that changes shared state runs inside __kernel_do  *)
(* (an SVC on the Cortex-M port, a depth counter on the host), which       *)
(* nothing interrupts, and a requested context switch is taken when the    *)
(* outermost section ends.  A kernel section is therefore one step here,   *)
(* with the switch at its end.  The one exception is the loop of           *)
(* ___resume_all: each turn is a step of its own, and while "draining"     *)
(* names the list it empties no other action is enabled.                   *)
(*                                                                         *)
(* Two kinds of code call the kernel: the running thread, and interrupt    *)
(* handlers, which run between any two steps of the running thread.  Next  *)
(* below is the most general client that keeps the obligations the         *)
(* assertions of thread.c put on callers.                                  *)
(***************************************************************************)
EXTENDS FiniteSets, List

CONSTANTS Thread,     \* the exos_thread_t objects
          Main, Idle, \* the two threads __thread_init starts
          Priority,   \* thread -> Node.Priority
          Handle,     \* the exos_wait_handle_t objects
          Object,     \* what has a Handles list: mutexes, events
          Bit,        \* the bit positions of an exos_wait_mask_t
          Nil         \* NULL

ASSUME ThreadAssumption ==
  /\ Main \in Thread /\ Idle \in Thread /\ Main # Idle
  /\ Priority \in [Thread -> Int]
  /\ \A t \in Thread \ {Idle} : Priority[Idle] < Priority[t]
ASSUME BitAssumption == Bit \subseteq Nat
ASSUME ObjectAssumption == Thread \cap Object = {} /\ Nil \notin Thread \cup Object

\* The lists a handle can wait on: a thread stands for its Joining list, an
\* object for its Handles list.
WaitList == Thread \cup Object

VARIABLES ready,      \* the list _ready
          running,    \* __running_thread
          State,      \* thread -> State
          MaskUsed,   \* thread -> the bits of MaskUsed
          MaskWait,   \* thread -> the bits of MaskWait
          Pending,    \* thread -> the handles of its Pending list
          HState,     \* handle -> State
          Owner,      \* handle -> Owner
          Mask,       \* handle -> the bits of Mask
          waiters,    \* wait list -> its handles, first in first
          draining,   \* the list ___resume_all is emptying, or Nil
          switchReq,  \* a switch is pended (PendSV) by the current section
          halted      \* __kernel_panic was reached

threadVars == <<ready, running, State, MaskUsed, MaskWait, Pending>>
handleVars == <<HState, Owner, Mask, waiters>>
sectionVars == <<draining, switchReq, halted>>
kernelVars == <<threadVars, handleVars, sectionVars>>

TypeOK ==
  /\ ready \in Seq(Thread)
  /\ running \in Thread
  /\ State \in [Thread -> {"DETACHED", "READY", "WAIT"}]
  /\ MaskUsed \in [Thread -> SUBSET Bit]
  /\ MaskWait \in [Thread -> SUBSET Bit]
  /\ Pending \in [Thread -> SUBSET Handle]
  /\ HState \in [Handle -> {"DETACHED", "WAITING", "DONE"}]
  /\ Owner \in [Handle -> Thread \cup {Nil}]
  /\ Mask \in [Handle -> SUBSET Bit]
  /\ waiters \in [WaitList -> Seq(Handle)]
  /\ draining \in WaitList \cup {Nil}
  /\ switchReq \in BOOLEAN
  /\ halted \in BOOLEAN

\* __thread_init: the boot context becomes the main thread and runs; the idle
\* thread is ready behind it.
KernelInit ==
  /\ ready = <<Main, Idle>>
  /\ running = Main
  /\ State = [t \in Thread |-> IF t \in {Main, Idle} THEN "READY" ELSE "DETACHED"]
  /\ MaskUsed = [t \in Thread |-> {}]
  /\ MaskWait = [t \in Thread |-> {}]
  /\ Pending = [t \in Thread |-> {}]
  /\ HState = [h \in Handle |-> "DETACHED"]
  /\ Owner = [h \in Handle |-> Nil]
  /\ Mask = [h \in Handle |-> {}]
  /\ waiters = [l \in WaitList |-> <<>>]
  /\ draining = Nil
  /\ switchReq = FALSE
  /\ halted = FALSE

----------------------------------------------------------------------------
(* Kernel sections *)

\* No section is open: the CPU runs thread code, or an interrupt handler.
Outside == draining = Nil /\ ~halted

\* Thread code calls the kernel.  The idle thread never does: its loop is empty.
Calling == Outside /\ running # Idle

\* __kernel_schedule at the end of a section that pended a switch.
__kernel_schedule(queue) ==
  /\ running' = IF queue = <<>> THEN running ELSE Head(queue)
  /\ halted' = (queue = <<>>)

\* The end of the outermost section: the pended switch, if any, is taken.
EndSection(queue, req) ==
  /\ IF req THEN __kernel_schedule(queue) ELSE UNCHANGED <<running, halted>>
  /\ draining' = Nil
  /\ switchReq' = FALSE

\* The section goes on with exos_thread_resume_all(list).
ThenResumeAll(list, req) ==
  /\ draining' = list
  /\ switchReq' = req
  /\ UNCHANGED <<running, halted>>

\* ___add_thread, after exos_thread_create filled in the structure.
exos_thread_create(t) ==
  /\ Calling
  /\ State[t] = "DETACHED"
  /\ ready' = list_enqueue(ready, t, Priority)
  /\ State' = [State EXCEPT ![t] = "READY"]
  /\ MaskUsed' = [MaskUsed EXCEPT ![t] = {}]
  /\ MaskWait' = [MaskWait EXCEPT ![t] = {}]
  /\ Pending' = [Pending EXCEPT ![t] = {}]
  /\ waiters' = [waiters EXCEPT ![t] = <<>>]
  /\ EndSection(ready', TRUE)
  /\ UNCHANGED <<HState, Owner, Mask>>

\* Faulty variant: the threads on the Joining list are not resumed.
exos_thread_exit_no_joining ==
  /\ Calling
  /\ \A h \in Handle : Owner[h] # running
  /\ ready' = list_remove(ready, running)
  /\ State' = [State EXCEPT ![running] = "DETACHED"]
  /\ EndSection(ready', TRUE)
  /\ UNCHANGED <<MaskUsed, MaskWait, Pending, handleVars>>

\* _exit and ___rem_thread.  A thread that ends has disposed of its handles:
\* they live on its stack, and _resume asserts that an Owner is not detached.
exos_thread_exit ==
  /\ Calling
  /\ \A h \in Handle : Owner[h] # running
  /\ ready' = list_remove(ready, running)
  /\ State' = [State EXCEPT ![running] = "DETACHED"]
  /\ ThenResumeAll(running, TRUE)
  /\ UNCHANGED <<MaskUsed, MaskWait, Pending, handleVars>>

\* ___join_cond: the list to wait on, or Nil when the thread has ended.
___join_cond(t) == IF State[t] \in {"READY", "WAIT"} THEN t ELSE Nil

\* Faulty variant: counts down from the top, one position too high.
_alloc_mask_from_top == Cardinality(Bit \ MaskUsed[running])

\* _alloc_mask: the lowest free bit of the running thread.
_alloc_mask == Min(Bit \ MaskUsed[running])

\* ___add_handle for a condition that answered "list".  With no bit left
\* _alloc_mask panics; a condition that answered NULL leaves the handle alone.
___add_handle(h, list) ==
  IF list = Nil THEN UNCHANGED kernelVars
  ELSE IF MaskUsed[running] = Bit
    THEN halted' = TRUE /\ UNCHANGED <<threadVars, handleVars, draining, switchReq>>
    ELSE /\ MaskUsed' = [MaskUsed EXCEPT ![running] = @ \cup {_alloc_mask}]
         /\ Mask' = [Mask EXCEPT ![h] = {_alloc_mask}]
         /\ HState' = [HState EXCEPT ![h] = "WAITING"]
         /\ Owner' = [Owner EXCEPT ![h] = running]
         /\ waiters' = [waiters EXCEPT ![list] = list_add_tail(@, h)]
         /\ UNCHANGED <<ready, running, State, MaskWait, Pending, sectionVars>>

\* exos_thread_add_wait_handle; a handle already in use is left as it is.
exos_thread_add_wait_handle(h, list) ==
  /\ Calling
  /\ HState[h] = "DETACHED"
  /\ ___add_handle(h, list)

\* Faulty variants: the bit is not given back; the handle stays linked.
dispose_leaks_bit(h) ==
  /\ Calling
  /\ HState[h] # "DETACHED"
  /\ waiters' = [l \in WaitList |-> list_remove(waiters[l], h)]
  /\ Pending' = [t \in Thread |-> Pending[t] \ {h}]
  /\ HState' = [HState EXCEPT ![h] = "DETACHED"]
  /\ Owner' = [Owner EXCEPT ![h] = Nil]
  /\ Mask' = [Mask EXCEPT ![h] = {}]
  /\ UNCHANGED <<ready, running, State, MaskUsed, MaskWait, sectionVars>>
dispose_keeps_link(h) ==
  /\ Calling
  /\ HState[h] # "DETACHED"
  /\ HState' = [HState EXCEPT ![h] = "DETACHED"]
  /\ MaskUsed' = [t \in Thread |->
       IF t = Owner[h] THEN MaskUsed[t] \ Mask[h] ELSE MaskUsed[t]]
  /\ Owner' = [Owner EXCEPT ![h] = Nil]
  /\ Mask' = [Mask EXCEPT ![h] = {}]
  /\ UNCHANGED <<ready, running, State, Pending, waiters, MaskWait, sectionVars>>

\* ___dispose_handle, on a handle that is not detached: it leaves its list
\* and its bit becomes free again.  Not only the owner may do this.
exos_thread_dispose_wait_handle(h) ==
  /\ Calling
  /\ HState[h] # "DETACHED"
  /\ waiters' = [l \in WaitList |-> list_remove(waiters[l], h)]
  /\ Pending' = [t \in Thread |-> Pending[t] \ {h}]
  /\ HState' = [HState EXCEPT ![h] = "DETACHED"]
  /\ MaskUsed' = [t \in Thread |->
       IF t = Owner[h] THEN MaskUsed[t] \ Mask[h] ELSE MaskUsed[t]]
  /\ Owner' = [Owner EXCEPT ![h] = Nil]
  /\ Mask' = [Mask EXCEPT ![h] = {}]
  /\ UNCHANGED <<ready, running, State, MaskWait, sectionVars>>

\* Faulty variant: any handle wakes its owner.
Wakes_any(h) == State[Owner[h]] = "WAIT"

\* _resume makes a handle's owner ready when it waits for that handle's bit.
Wakes(h) == State[Owner[h]] = "WAIT" /\ MaskWait[Owner[h]] \cap Mask[h] # {}

\* _resume: the handle moves to the Pending list of its owner and is done.
_resume(h) ==
  /\ HState' = [HState EXCEPT ![h] = "DONE"]
  /\ waiters' = [l \in WaitList |-> list_remove(waiters[l], h)]
  /\ Pending' = [Pending EXCEPT ![Owner[h]] = @ \cup {h}]
  /\ State' = IF Wakes(h) THEN [State EXCEPT ![Owner[h]] = "READY"] ELSE State
  /\ ready' = IF Wakes(h) THEN list_enqueue(ready, Owner[h], Priority) ELSE ready
  /\ UNCHANGED <<MaskUsed, MaskWait, Owner, Mask>>

\* exos_thread_resume, from a thread or an interrupt handler.
exos_thread_resume(h) ==
  /\ Outside
  /\ HState[h] # "DETACHED"
  /\ _resume(h)
  /\ EndSection(ready', Wakes(h))

\* exos_thread_resume_all opens a section; ___resume_all then takes the first
\* handle of the list until there is none.
exos_thread_resume_all(list) ==
  /\ Outside
  /\ ThenResumeAll(list, FALSE)
  /\ UNCHANGED <<threadVars, handleVars>>

\* Faulty variant: no switch is requested for the woken thread.
ResumeFirst_no_switch ==
  /\ draining # Nil
  /\ waiters[draining] # <<>>
  /\ _resume(Head(waiters[draining]))
  /\ UNCHANGED <<running, draining, switchReq, halted>>

ResumeFirst ==
  /\ draining # Nil
  /\ waiters[draining] # <<>>
  /\ _resume(Head(waiters[draining]))
  /\ switchReq' = (switchReq \/ Wakes(Head(waiters[draining])))
  /\ UNCHANGED <<running, draining, halted>>

ResumeAllEnd ==
  /\ draining # Nil
  /\ waiters[draining] = <<>>
  /\ EndSection(ready, switchReq)
  /\ UNCHANGED <<ready, State, MaskUsed, MaskWait, Pending, handleVars>>

\* Faulty variants: the Pending list is not looked at; a wait that is already
\* satisfied gives the CPU to the next thread of the same priority.
wait_ignores_pending(mask) ==
  /\ Calling
  /\ ready' = list_remove(ready, running)
  /\ State' = [State EXCEPT ![running] = "WAIT"]
  /\ MaskWait' = [MaskWait EXCEPT ![running] = mask]
  /\ EndSection(ready', TRUE)
  /\ UNCHANGED <<MaskUsed, Pending, handleVars>>
wait_yields(mask) ==
  /\ Calling
  /\ IF \E h \in Pending[running] : Mask[h] \cap mask # {}
     THEN /\ ready' = list_enqueue(list_remove(ready, running), running, Priority)
          /\ EndSection(ready', TRUE)
          /\ UNCHANGED <<State, MaskWait, MaskUsed, Pending, handleVars>>
     ELSE wait_ignores_pending(mask)

\* ___wait: a pending handle of the mask ends the wait at once, otherwise the
\* thread leaves the ready list.  (The list _wait is never read: it holds the
\* threads whose State is WAIT.)
exos_thread_wait(mask) ==
  /\ Calling
  /\ IF \E h \in Pending[running] : Mask[h] \cap mask # {}
     THEN UNCHANGED kernelVars
     ELSE /\ ready' = list_remove(ready, running)
          /\ State' = [State EXCEPT ![running] = "WAIT"]
          /\ MaskWait' = [MaskWait EXCEPT ![running] = mask]
          /\ EndSection(ready', TRUE)
          /\ UNCHANGED <<MaskUsed, Pending, handleVars>>

----------------------------------------------------------------------------
(* The most general client *)

Drain == ResumeFirst \/ ResumeAllEnd

Next ==
  \/ \E t \in Thread : exos_thread_create(t)
  \/ exos_thread_exit
  \/ \E h \in Handle, o \in Object : exos_thread_add_wait_handle(h, o)
  \/ \E h \in Handle, t \in Thread \ {running} :
       exos_thread_add_wait_handle(h, ___join_cond(t))
  \/ \E h \in Handle : exos_thread_dispose_wait_handle(h)
  \/ \E h \in Handle : exos_thread_resume(h)
  \/ \E o \in Object : exos_thread_resume_all(o)
  \/ \E mask \in (SUBSET Bit) \ {{}} : exos_thread_wait(mask)
  \/ Drain

Spec == KernelInit /\ [][Next]_kernelVars

----------------------------------------------------------------------------
(* Properties *)

\* The handles a thread has in use.
Live(t) == {h \in Handle : Owner[h] = t}

\* list_enqueue and list_remove keep _ready what the scheduler takes it for:
\* exactly the READY threads, each once, in order of priority.
ReadyList ==
  /\ \A t \in Thread : State[t] = "READY" <=> t \in Range(ready)
  /\ \A i, j \in DOMAIN ready : i < j =>
       ready[i] # ready[j] /\ Priority[ready[i]] >= Priority[ready[j]]

\* Outside a kernel section the CPU runs the first ready thread: every change
\* of the head of _ready pended a switch (__machine_req_switch).
RunningIsFirst == Outside => ready # <<>> /\ running = Head(ready)

\* Scheduling is strictly by priority: the list is in order and its head runs.
StrictlyByPriority == ReadyList /\ RunningIsFirst

\* A handle stands where its State says: WAITING on one list and once, DONE
\* in the Pending list of its owner, DETACHED nowhere.  list_remove in
\* _rem_handle unlinks it from the right place only if this holds.
HandlePlace ==
  \A h \in Handle :
    /\ \A t \in Thread : h \in Pending[t] <=> HState[h] = "DONE" /\ Owner[h] = t
    /\ HState[h] = "WAITING" <=> \E l \in WaitList : h \in Range(waiters[l])
    /\ \A k, l \in WaitList : \A i \in DOMAIN waiters[k], j \in DOMAIN waiters[l] :
         waiters[k][i] = h /\ waiters[l][j] = h => k = l /\ i = j

\* The bits of MaskUsed are those of the thread's handles, one bit per handle
\* and no two handles with one bit: _alloc_mask and ___dispose_handle neither
\* leak a bit nor give it out twice.
MaskExact ==
  /\ \A t \in Thread : MaskUsed[t] = UNION {Mask[h] : h \in Live(t)}
  /\ \A h \in Handle : HState[h] = "DETACHED" <=> Owner[h] = Nil
  /\ \A h \in Handle :
       IF Owner[h] = Nil THEN Mask[h] = {} ELSE \E b \in Bit : Mask[h] = {b}
  /\ \A g, h \in Handle : g # h /\ Owner[g] = Owner[h] => Mask[g] \cap Mask[h] = {}

\* No lost wakeup: a thread does not stay in WAIT once one of the handles it
\* waits for is done, whichever came first, ___wait or _resume.
NoLostWakeup ==
  \A t \in Thread : State[t] = "WAIT" =>
    \A h \in Pending[t] : Mask[h] \cap MaskWait[t] = {}

\* A thread that has ended keeps nobody on its Joining list and owns nothing,
\* so that exos_thread_create may clear its lists when it is started again.
EndedIsClean ==
  \A t \in Thread : State[t] = "DETACHED" =>
    /\ draining # t => waiters[t] = <<>>
    /\ Live(t) = {}

\* The idle thread is always ready, so __kernel_schedule finds a thread and
\* the only panic left is that of _alloc_mask, with every bit of the calling
\* thread in the hands of a live handle.
PanicOnlyWhenExhausted ==
  /\ State[Idle] = "READY"
  /\ halted => ready # <<>> /\ \A b \in Bit : \E h \in Live(running) : Mask[h] = {b}

\* A waiting thread is made ready only by _resume of a handle it waits for,
\* which was not done before.
Earned ==
  \A t \in Thread : State[t] = "WAIT" /\ State'[t] # "WAIT" =>
    /\ State'[t] = "READY"
    /\ \E h \in Pending'[t] : HState[h] = "WAITING" /\ Mask[h] \cap MaskWait[t] # {}
WakeIsEarned == [][Earned]_kernelVars

\* Threads that stay ready keep their order in _ready: nothing overtakes a
\* thread of the same priority, and there is no time slicing.
Before(queue, t, u) == \E i, j \in DOMAIN queue : i < j /\ queue[i] = t /\ queue[j] = u
KeepsOrder ==
  \A t, u \in Range(ready) \cap Range(ready') :
    Before(ready, t, u) => Before(ready', t, u)
NoOvertaking == [][KeepsOrder]_kernelVars
=============================================================================

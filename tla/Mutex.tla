------------------------------- MODULE Mutex -------------------------------
(***************************************************************************)
(* The recursive mutexes of kernel/mutex.c over the thread kernel, with    *)
(* exos_thread_sleep as the other way for a thread to block.               *)
(*                                                                         *)
(* Every blocking call of ExOS has one shape: add a wait handle, wait for  *)
(* its bit, dispose of it.  Each of these is a kernel section, and other   *)
(* threads and interrupts run between them.  pc says where a thread is in  *)
(* such a call; the wait handle on its stack is named by the thread.       *)
(***************************************************************************)
EXTENDS Threads

CONSTANTS Mutex,     \* the mutex_t objects
          Tick,      \* the Handles list of the timer a thread sleeps on
          MaxCount   \* bound: how often one thread locks one mutex

ASSUME MutexAssumption ==
  /\ Object = Mutex \cup {Tick} /\ Tick \notin Mutex
  /\ Thread \subseteq Handle
  /\ MaxCount \in Nat

VARIABLES MOwner,    \* mutex -> Owner
          MCount,    \* mutex -> Count
          pc,        \* thread -> where it is in a blocking call
          want,      \* thread -> the mutex, or Tick, of that call
          depth      \* thread -> mutex -> acquired and not yet released,
                     \* as the callers see it

mutexVars == <<MOwner, MCount, pc, want, depth>>
vars == <<kernelVars, mutexVars>>

MutexTypeOK ==
  /\ TypeOK
  /\ MOwner \in [Mutex -> Thread \cup {Nil}]
  /\ MCount \in [Mutex -> Nat]
  /\ pc \in [Thread -> {"user", "lock", "wait", "dispose", "test"}]
  /\ want \in [Thread -> Object \cup {Nil}]
  /\ depth \in [Thread -> [Mutex -> Nat]]

\* exos_mutex_create for each mutex.
MutexInit ==
  /\ KernelInit
  /\ MOwner = [m \in Mutex |-> Nil]
  /\ MCount = [m \in Mutex |-> 0]
  /\ pc = [t \in Thread |-> "user"]
  /\ want = [t \in Thread |-> Nil]
  /\ depth = [t \in Thread |-> [m \in Mutex |-> 0]]

\* The running thread is at this place.
At(place) == Calling /\ pc[running] = place

Goto(place) == pc' = [pc EXCEPT ![running] = place]

----------------------------------------------------------------------------
(* Acquiring *)

\* Faulty variant: the list is initialised on recursive locking too.
___mutex_cond_initialises(m) ==
  /\ MOwner[m] \in {Nil, running}
  /\ MOwner' = [MOwner EXCEPT ![m] = running]
  /\ MCount' = [MCount EXCEPT ![m] = IF MOwner[m] = Nil THEN 1 ELSE @ + 1]
  /\ waiters' = [waiters EXCEPT ![m] = <<>>]
  /\ UNCHANGED <<threadVars, HState, Owner, Mask, sectionVars>>

\* ___mutex_cond answers NULL: the mutex is free and is taken, or the caller
\* has it already.  A free mutex has its list initialised, whatever is on it.
___mutex_cond(m) ==
  /\ MOwner[m] \in {Nil, running}
  /\ MOwner' = [MOwner EXCEPT ![m] = running]
  /\ MCount' = [MCount EXCEPT ![m] = IF MOwner[m] = Nil THEN 1 ELSE @ + 1]
  /\ waiters' = [waiters EXCEPT ![m] = IF MOwner[m] = Nil THEN <<>> ELSE @]
  /\ UNCHANGED <<threadVars, HState, Owner, Mask, sectionVars>>

exos_mutex_lock(m) ==
  /\ At("user")
  /\ depth[running][m] < MaxCount
  /\ want' = [want EXCEPT ![running] = m]
  /\ Goto("lock")
  /\ UNCHANGED <<kernelVars, MOwner, MCount, depth>>

\* The section of the loop in exos_mutex_lock: take the mutex or queue up.
LockAdd ==
  /\ At("lock")
  /\ \/ /\ ___mutex_cond(want[running])
        /\ Goto("test")
     \/ /\ MOwner[want[running]] \notin {Nil, running}
        /\ exos_thread_add_wait_handle(running, want[running])
        /\ Goto("wait")
        /\ UNCHANGED <<MOwner, MCount>>
  /\ UNCHANGED <<want, depth>>

\* exos_thread_wait on the handle's bit.
Wait ==
  /\ At("wait")
  /\ exos_thread_wait(Mask[running])
  /\ Goto("dispose")
  /\ UNCHANGED <<MOwner, MCount, want, depth>>

Dispose ==
  /\ At("dispose")
  /\ exos_thread_dispose_wait_handle(running)
  /\ Goto(IF want[running] = Tick THEN "user" ELSE "test")
  /\ UNCHANGED <<MOwner, MCount, want, depth>>

\* Faulty variant: the loop is an "if", a woken thread takes it that it owns
\* the mutex.
LockTest_no_loop ==
  /\ At("test")
  /\ depth' = [depth EXCEPT ![running][want[running]] = @ + 1]
  /\ Goto("user")
  /\ UNCHANGED <<kernelVars, MOwner, MCount, want>>

\* while (mutex->Owner != __running_thread), read outside any section.
LockTest ==
  /\ At("test")
  /\ IF MOwner[want[running]] = running
     THEN /\ depth' = [depth EXCEPT ![running][want[running]] = @ + 1]
          /\ Goto("user")
     ELSE Goto("lock") /\ UNCHANGED depth
  /\ UNCHANGED <<kernelVars, MOwner, MCount, want>>

exos_mutex_try(m) ==
  /\ At("user")
  /\ depth[running][m] < MaxCount
  /\ \/ /\ ___mutex_cond(m)
        /\ depth' = [depth EXCEPT ![running][m] = @ + 1]
     \/ /\ MOwner[m] \notin {Nil, running}
        /\ UNCHANGED <<kernelVars, MOwner, MCount, depth>>
  /\ UNCHANGED <<pc, want>>

----------------------------------------------------------------------------
(* Releasing *)

\* Faulty variants: the mutex is freed at any Count; nobody is resumed.
exos_mutex_unlock_any_count(m) ==
  /\ At("user")
  /\ depth[running][m] > 0
  /\ depth' = [depth EXCEPT ![running][m] = @ - 1]
  /\ MCount' = [MCount EXCEPT ![m] = @ - 1]
  /\ MOwner' = [MOwner EXCEPT ![m] = Nil]
  /\ ThenResumeAll(m, FALSE)
  /\ UNCHANGED <<threadVars, handleVars, pc, want>>
exos_mutex_unlock_no_resume(m) ==
  /\ At("user")
  /\ depth[running][m] > 0
  /\ depth' = [depth EXCEPT ![running][m] = @ - 1]
  /\ MCount' = [MCount EXCEPT ![m] = @ - 1]
  /\ MOwner' = IF MCount[m] = 1 THEN [MOwner EXCEPT ![m] = Nil] ELSE MOwner
  /\ UNCHANGED <<kernelVars, pc, want>>

\* The caller has the mutex: _unlock panics otherwise.
exos_mutex_unlock(m) ==
  /\ At("user")
  /\ depth[running][m] > 0
  /\ depth' = [depth EXCEPT ![running][m] = @ - 1]
  /\ MCount' = [MCount EXCEPT ![m] = @ - 1]
  /\ IF MCount[m] = 1
     THEN /\ MOwner' = [MOwner EXCEPT ![m] = Nil]
          /\ ThenResumeAll(m, FALSE)
          /\ UNCHANGED <<threadVars, handleVars>>
     ELSE UNCHANGED <<MOwner, kernelVars>>
  /\ UNCHANGED <<pc, want>>

----------------------------------------------------------------------------
(* The rest of the system *)

\* exos_thread_sleep: the handle waits for the event of a timer.  The timer is
\* the thread's own and not due yet when the handle is added: its sections are
\* not told apart from that of the handle, and the sleeps of all threads end
\* with one Tick.
exos_thread_sleep ==
  /\ At("user")
  /\ exos_thread_add_wait_handle(running, Tick)
  /\ want' = [want EXCEPT ![running] = Tick]
  /\ Goto("wait")
  /\ UNCHANGED <<MOwner, MCount, depth>>

\* The tick interrupt sets the event of the timers that are due.
TickInterrupt ==
  /\ exos_thread_resume_all(Tick)
  /\ UNCHANGED mutexVars

Create(t) ==
  /\ At("user")
  /\ exos_thread_create(t)
  /\ UNCHANGED mutexVars

Kernel == Drain /\ UNCHANGED mutexVars

MutexNext ==
  \/ \E m \in Mutex : exos_mutex_lock(m) \/ exos_mutex_try(m) \/ exos_mutex_unlock(m)
  \/ LockAdd \/ Wait \/ Dispose \/ LockTest
  \/ exos_thread_sleep
  \/ \E t \in Thread : Create(t)
  \/ TickInterrupt
  \/ Kernel

MutexSpec == MutexInit /\ [][MutexNext]_vars

\* The CPU does not stop inside a call or a section, interrupts leave it time
\* for the running thread, and whoever takes a mutex gives it back.  The last
\* is for the application to see to: mutex.c lends no priority to an owner,
\* which a thread of a priority in between can keep from running for good.
Fairness ==
  /\ WF_vars(Kernel)
  /\ \A t \in Thread \ {Idle} :
       /\ SF_vars(running = t /\ (LockAdd \/ Wait \/ Dispose \/ LockTest))
       /\ []<>(\A m \in Mutex : MOwner[m] # t)

LiveSpec == MutexSpec /\ Fairness

----------------------------------------------------------------------------
(* Properties *)

\* Mutual exclusion as the callers see it, recursion included: who holds a
\* mutex is its Owner, and Count is what the holder acquired, with the one
\* exos_mutex_lock is about to return.
MutualExclusion ==
  /\ MutexTypeOK
  /\ \A t \in Thread, m \in Mutex :
    LET inCall == IF pc[t] = "test" /\ want[t] = m /\ MOwner[m] = t THEN 1 ELSE 0
    IN  depth[t][m] + inCall = IF MOwner[m] = t THEN MCount[m] ELSE 0

\* To their callers the mutexes are recursive locks: what a thread acquired
\* through exos_mutex_lock or _try nobody else has, until it released it.
L == INSTANCE Lock WITH hold <- depth
ImplementsLock == L!Spec

\* A thread blocked on a mutex has an owner to wait for, which is another
\* thread: exos_mutex_unlock leaves nobody behind, and list_initialize in
\* ___mutex_cond drops nobody.
NoOrphanWaiter ==
  /\ \A m \in Mutex : MOwner[m] = Nil /\ draining # m => waiters[m] = <<>>
  /\ \A t \in Thread : State[t] = "WAIT" /\ want[t] \in Mutex /\ draining # want[t] =>
       MOwner[want[t]] \notin {Nil, t}

\* exos_mutex_lock of a thread that nobody else's priority reaches returns:
\* it is woken by the unlock and nobody can take the mutex before it runs.
TopLocks ==
  \A t \in Thread : (\A u \in Thread \ {t} : Priority[u] < Priority[t]) =>
    \A m \in Mutex : (pc[t] \in {"lock", "wait", "dispose", "test"} /\ want[t] = m)
                       ~> (pc[t] = "user" /\ depth[t][m] > 0)
=============================================================================

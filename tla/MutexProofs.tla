---------------------------- MODULE MutexProofs ----------------------------
(***************************************************************************)
(* Proofs about the mutexes, for any number of threads, mutexes and bits,  *)
(* any priorities and any depth of recursion.                              *)
(*                                                                         *)
(* ___mutex_cond empties the list of waiters of a mutex it finds free,     *)
(* which is no operation of the thread kernel.  That it drops nobody is    *)
(* therefore part of showing that the callers of mutex.c are clients the   *)
(* thread kernel allows, and everything proved of the kernel holds for     *)
(* them only then: MInv carries both invariants together.                  *)
(***************************************************************************)
EXTENDS Mutex, ThreadsProofs

\* The thread is past adding its handle and has not disposed of it.
Blocking(t) == pc[t] \in {"wait", "dispose"}

\* What a place in a call says about the handle on the stack of the caller.
\* (A thread that found no free bit is at "wait" without a handle, and the
\* kernel has halted.)
CallInv ==
  /\ \A t \in Thread : pc[t] \in {"lock", "test"} => want[t] \in Mutex
  /\ \A t \in Thread : Blocking(t) => want[t] \in Object
  /\ \A t \in Thread : Blocking(t) /\ ~halted => Owner[t] = t
  /\ \A t \in Thread : Blocking(t) /\ HState[t] = "WAITING" => t \in Range(waiters[want[t]])
  /\ \A t \in Thread : State[t] = "WAIT" =>
       pc[t] = "dispose" /\ Owner[t] = t /\ MaskWait[t] = Mask[t]

\* Who holds what; who waits for a mutex does not own it.
InCall(t, m) == IF pc[t] = "test" /\ want[t] = m /\ MOwner[m] = t THEN 1 ELSE 0
HoldInv ==
  /\ \A t \in Thread, m \in Mutex :
       depth[t][m] + InCall(t, m) = IF MOwner[m] = t THEN MCount[m] ELSE 0
  /\ \A t \in Thread : Blocking(t) /\ want[t] \in Mutex => MOwner[want[t]] # t

\* Nobody is on the list of a free mutex, except while unlock empties it.
FreeInv == \A m \in Mutex : MOwner[m] = Nil /\ draining # m => waiters[m] = <<>>

MInv == IInv /\ MutexTypeOK /\ CallInv /\ HoldInv /\ FreeInv

----------------------------------------------------------------------------
(* Every step of a caller is a step of the thread kernel *)

\* The constants, and what is known of a thread that calls.
LEMMA CallerFacts ==
  ASSUME MInv, Calling
  PROVE  /\ running \in Thread /\ running \in Handle /\ running # Idle
         /\ draining = Nil /\ halted = FALSE /\ State[running] = "READY"
<1>1. running \in Thread /\ halted \in BOOLEAN
  BY Zenon DEF MInv, IInv, TypeOK
<1>2. draining = Nil /\ ~halted /\ running # Idle
  BY Zenon DEF Calling, Outside
<1>3. State[running] = "READY"
  BY <1>2, HeadOfReady, Zenon DEF MInv
<1> QED
  BY <1>1, <1>2, <1>3, MutexAssumption, Zenon

\* ___mutex_cond drops nobody: a free mutex has no waiter.
LEMMA CondFacts ==
  ASSUME MInv, Calling, NEW m \in Mutex, ___mutex_cond(m)
  PROVE  UNCHANGED kernelVars
<1>1. waiters' = [waiters EXCEPT ![m] = IF MOwner[m] = Nil THEN <<>> ELSE @]
  BY Zenon DEF ___mutex_cond
<1>2. MOwner[m] = Nil => waiters[m] = <<>>
  <2>1. draining = Nil /\ Nil # m
    BY CallerFacts, MutexAssumption, ObjectAssumption, Zenon
  <2> QED
    BY <2>1, Zenon DEF MInv, FreeInv
<1>3. waiters \in [WaitList -> Seq(Handle)] /\ m \in WaitList
  BY MutexAssumption, Zenon DEF MInv, IInv, TypeOK, WaitList
<1>4. waiters' = waiters
  BY <1>1, <1>2, <1>3, Zenon
<1> QED
  BY <1>4, Zenon DEF ___mutex_cond, kernelVars, threadVars, handleVars, sectionVars

\* A caller at "wait" waits for the bit of its handle.
LEMMA WaitMask ==
  ASSUME MInv, At("wait")
  PROVE  Mask[running] \in (SUBSET Bit) \ {{}}
<1>1. running \in Thread /\ running \in Handle /\ halted = FALSE
  BY CallerFacts, Zenon DEF At
<1>2. Owner[running] = running
  BY <1>1, Zenon DEF MInv, CallInv, Blocking, At
<1>3. Owner[running] # Nil
  BY <1>1, <1>2, ObjectAssumption, Zenon
<1>4. \E b \in Bit : Mask[running] = {b}
  BY <1>1, <1>3, Zenon DEF MInv, IInv, MaskExact
<1> QED
  BY <1>4, Zenon

LEMMA UnlockFacts ==
  ASSUME MInv, NEW m \in Mutex, exos_mutex_unlock(m)
  PROVE  \/ MCount[m] = 1 /\ exos_thread_resume_all(m) /\ MOwner' = [MOwner EXCEPT ![m] = Nil]
         \/ MCount[m] # 1 /\ UNCHANGED <<kernelVars, MOwner>>
<1>1. Outside
  BY Zenon DEF exos_mutex_unlock, At, Calling
<1> QED
  BY <1>1, Zenon DEF exos_mutex_unlock, exos_thread_resume_all

LEMMA StepIsThreadStep == ASSUME MInv, [MutexNext]_vars PROVE [Next]_kernelVars
<1>0. Mutex \subseteq Object /\ Tick \in Object
  BY MutexAssumption, Zenon
<1>1. ASSUME NEW m \in Mutex, exos_mutex_lock(m) PROVE UNCHANGED kernelVars
  BY <1>1, Zenon DEF exos_mutex_lock
<1>2. ASSUME NEW m \in Mutex, exos_mutex_try(m) PROVE UNCHANGED kernelVars
  <2>1. CASE ___mutex_cond(m)
    BY <1>2, <2>1, CondFacts, Zenon DEF exos_mutex_try, At
  <2> QED
    BY <1>2, <2>1, Zenon DEF exos_mutex_try
<1>3. ASSUME NEW m \in Mutex, exos_mutex_unlock(m) PROVE [Next]_kernelVars
  <2>1. CASE exos_thread_resume_all(m)
    BY <1>0, <2>1, Zenon DEF Next
  <2> QED
    BY <1>3, <2>1, UnlockFacts, Zenon
<1>4. CASE LockAdd
  <2>1. Calling /\ running \in Thread /\ running \in Handle /\ want[running] \in Mutex
    BY <1>4, CallerFacts, Zenon DEF LockAdd, At, MInv, CallInv
  <2>2. CASE ___mutex_cond(want[running])
    BY <2>1, <2>2, CondFacts, Zenon
  <2>3. CASE exos_thread_add_wait_handle(running, want[running])
    BY <1>0, <2>1, <2>3, Zenon DEF Next
  <2> QED
    BY <1>4, <2>2, <2>3, Zenon DEF LockAdd
<1>5. CASE Wait
  BY <1>5, WaitMask, Zenon DEF Wait, Next
<1>6. CASE Dispose
  <2>1. running \in Handle /\ exos_thread_dispose_wait_handle(running)
    BY <1>6, CallerFacts, Zenon DEF Dispose, At
  <2> QED
    BY <2>1, Zenon DEF Next
<1>7. CASE LockTest
  BY <1>7, Zenon DEF LockTest
<1>8. CASE exos_thread_sleep
  <2>1. running \in Handle /\ exos_thread_add_wait_handle(running, Tick)
    BY <1>8, CallerFacts, Zenon DEF exos_thread_sleep, At
  <2> QED
    BY <1>0, <2>1, Zenon DEF Next
<1>9. ASSUME NEW t \in Thread, Create(t) PROVE [Next]_kernelVars
  BY <1>9, Zenon DEF Create, Next
<1>10. CASE TickInterrupt
  BY <1>0, <1>10, Zenon DEF TickInterrupt, Next
<1>11. CASE Kernel
  BY <1>11, Zenon DEF Kernel, Next
<1>12. CASE UNCHANGED vars
  BY <1>12, Zenon DEF vars
<1> QED
  BY <1>1, <1>2, <1>3, <1>4, <1>5, <1>6, <1>7, <1>8, <1>9, <1>10, <1>11, <1>12, Zenon DEF MutexNext

----------------------------------------------------------------------------
(* The variables of the callers *)

\* What taking or releasing a mutex does to the accounts of its threads.
LEMMA CondKeepsAccounts ==
  ASSUME MutexTypeOK, HoldInv, NEW r \in Thread, r = running, NEW m \in Mutex,
         ___mutex_cond(m), InCall(r, m) = 0
  PROVE  /\ MOwner' \in [Mutex -> Thread \cup {Nil}] /\ MCount' \in [Mutex -> Nat]
         /\ MOwner'[m] = r /\ MCount'[m] = depth[r][m] + 1
         /\ \A t \in Thread \ {r} : MOwner[m] # t /\ MOwner'[m] # t
         /\ \A n \in Mutex \ {m} : MOwner'[n] = MOwner[n] /\ MCount'[n] = MCount[n]
<1>1. /\ MOwner \in [Mutex -> Thread \cup {Nil}] /\ MCount \in [Mutex -> Nat]
      /\ depth[r][m] \in Nat
  BY Zenon DEF MutexTypeOK
<1>2. /\ MOwner[m] \in {Nil, r}
      /\ MOwner' = [MOwner EXCEPT ![m] = r]
      /\ MCount' = [MCount EXCEPT ![m] = IF MOwner[m] = Nil THEN 1 ELSE @ + 1]
  BY Zenon DEF ___mutex_cond
<1>3. Nil \notin Thread
  BY ObjectAssumption, Zenon
<1>4. depth[r][m] = IF MOwner[m] = r THEN MCount[m] ELSE 0
  BY <1>1 DEF HoldInv
<1> QED
  BY ONLY <1>1, <1>2, <1>3, <1>4, r \in Thread, m \in Mutex

\* The accounts agree after every step.
LEMMA HoldKeeps ==
  ASSUME MInv, MutexNext
  PROVE  /\ HoldInv'
         /\ MOwner' \in [Mutex -> Thread \cup {Nil}] /\ MCount' \in [Mutex -> Nat]
         /\ pc' \in [Thread -> {"user", "lock", "wait", "dispose", "test"}]
         /\ want' \in [Thread -> Object \cup {Nil}]
         /\ depth' \in [Thread -> [Mutex -> Nat]]
<1> DEFINE r == running
           Types == /\ MOwner' \in [Mutex -> Thread \cup {Nil}] /\ MCount' \in [Mutex -> Nat]
                    /\ pc' \in [Thread -> {"user", "lock", "wait", "dispose", "test"}]
                    /\ want' \in [Thread -> Object \cup {Nil}]
                    /\ depth' \in [Thread -> [Mutex -> Nat]]
<1>1. /\ MOwner \in [Mutex -> Thread \cup {Nil}] /\ MCount \in [Mutex -> Nat]
      /\ pc \in [Thread -> {"user", "lock", "wait", "dispose", "test"}]
      /\ want \in [Thread -> Object \cup {Nil}]
      /\ depth \in [Thread -> [Mutex -> Nat]]
      /\ r \in Thread
  BY Zenon DEF MInv, MutexTypeOK, IInv, TypeOK
<1>2. Nil \notin Thread /\ Mutex \subseteq Object /\ Tick \in Object /\ Tick \notin Mutex
  BY ObjectAssumption, MutexAssumption, Zenon
<1>3. /\ \A t \in Thread, m \in Mutex :
           depth[t][m] + InCall(t, m) = IF MOwner[m] = t THEN MCount[m] ELSE 0
      /\ \A t \in Thread : Blocking(t) /\ want[t] \in Mutex => MOwner[want[t]] # t
      /\ \A t \in Thread : pc[t] \in {"lock", "test"} => want[t] \in Mutex
      /\ \A t \in Thread : Blocking(t) => want[t] \in Object
      /\ HoldInv /\ MutexTypeOK
  BY Zenon DEF MInv, HoldInv, CallInv
<1> HIDE DEF r
\* A step of the caller that leaves mutexes and depths alone.
<1>4. ASSUME UNCHANGED <<MOwner, MCount, depth>>,
             pc' \in [Thread -> {"user", "lock", "wait", "dispose", "test"}],
             want' \in [Thread -> Object \cup {Nil}],
             \A t \in Thread \ {r} : pc'[t] = pc[t] /\ want'[t] = want[t],
             \/ pc'[r] \in {"user", "lock"}
             \/ want'[r] \notin Mutex
             \/ MOwner[want'[r]] # r,
             \A m \in Mutex : InCall(r, m) = 0
      PROVE  HoldInv' /\ Types
  <2>1. Types
    BY ONLY <1>1, <1>4, Zenon
  <2>2. ASSUME NEW t \in Thread, NEW m \in Mutex PROVE InCall(t, m)' = InCall(t, m)
    <3>1. CASE t = r
      BY ONLY <1>1, <1>2, <1>4, <3>1, t \in Thread, m \in Mutex, Zenon DEF InCall
    <3>2. CASE t # r
      BY ONLY <1>1, <1>4, <3>2, t \in Thread, m \in Mutex, Zenon DEF InCall
    <3> QED
      BY <3>1, <3>2, Zenon
  <2>3. ASSUME NEW t \in Thread, Blocking(t)', want'[t] \in Mutex PROVE MOwner'[want'[t]] # t
    <3>1. CASE t = r
      BY ONLY <1>1, <1>4, <3>1, <2>3, Zenon DEF Blocking
    <3>2. CASE t # r
      BY ONLY <1>1, <1>3, <1>4, <3>2, <2>3, Zenon DEF Blocking
    <3> QED
      BY <3>1, <3>2, Zenon
  <2> QED
    BY ONLY <2>1, <2>2, <2>3, <1>3, <1>4 DEF HoldInv
<1>5. CASE UNCHANGED mutexVars
  BY ONLY <1>1, <1>3, <1>5, Zenon DEF HoldInv, InCall, Blocking, mutexVars
<1>6. ASSUME NEW m \in Mutex, exos_mutex_lock(m) PROVE HoldInv' /\ Types
  <2>1. /\ pc[r] = "user" /\ pc' = [pc EXCEPT ![r] = "lock"] /\ want' = [want EXCEPT ![r] = m]
        /\ UNCHANGED <<MOwner, MCount, depth>>
    BY <1>6, Zenon DEF exos_mutex_lock, At, Goto, r
  <2>2. \A n \in Mutex : InCall(r, n) = 0
    BY ONLY <2>1, Zenon DEF InCall
  <2>3. /\ pc' \in [Thread -> {"user", "lock", "wait", "dispose", "test"}] /\ pc'[r] = "lock"
        /\ want' \in [Thread -> Object \cup {Nil}]
        /\ \A t \in Thread \ {r} : pc'[t] = pc[t] /\ want'[t] = want[t]
    BY ONLY <1>1, <1>2, <2>1, m \in Mutex, Zenon
  <2> QED
    BY ONLY <1>4, <2>1, <2>2, <2>3, Zenon
<1>7. ASSUME NEW m \in Mutex, exos_mutex_try(m) PROVE HoldInv' /\ Types
  <2>1. pc[r] = "user" /\ UNCHANGED <<pc, want>>
    BY <1>7, Zenon DEF exos_mutex_try, At, r
  <2>2. CASE UNCHANGED <<MOwner, MCount, depth>>
    BY ONLY <1>5, <2>1, <2>2, Zenon DEF mutexVars
  <2>3. CASE ___mutex_cond(m) /\ depth' = [depth EXCEPT ![r][m] = @ + 1]
    <3>1. InCall(r, m) = 0
      BY ONLY <2>1, Zenon DEF InCall
    <3>2. /\ MOwner' \in [Mutex -> Thread \cup {Nil}] /\ MCount' \in [Mutex -> Nat]
          /\ MOwner'[m] = r /\ MCount'[m] = depth[r][m] + 1
          /\ \A t \in Thread \ {r} : MOwner[m] # t /\ MOwner'[m] # t
          /\ \A n \in Mutex \ {m} : MOwner'[n] = MOwner[n] /\ MCount'[n] = MCount[n]
      BY <1>1, <1>3, <2>3, <3>1, CondKeepsAccounts, Zenon DEF r
    <3>3. Types
      BY ONLY <1>1, <2>1, <2>3, <3>2
    <3>4. ASSUME NEW t \in Thread, NEW n \in Mutex
          PROVE  depth'[t][n] + InCall(t, n)' = IF MOwner'[n] = t THEN MCount'[n] ELSE 0
      <4>1. CASE t = r /\ n = m
        BY ONLY <1>1, <2>1, <2>3, <3>2, <4>1, m \in Mutex, SMTT(40) DEF InCall
      <4>2. CASE t # r /\ n = m
        BY ONLY <1>1, <1>3, <2>1, <2>3, <3>2, <4>2, t \in Thread, m \in Mutex, SMTT(40) DEF InCall
      <4>3. CASE n # m
        BY ONLY <1>1, <1>3, <2>1, <2>3, <3>2, <4>3, t \in Thread, n \in Mutex, SMTT(40) DEF InCall
      <4> QED
        BY <4>1, <4>2, <4>3, Zenon
    <3>5. ASSUME NEW t \in Thread, Blocking(t)', want'[t] \in Mutex PROVE MOwner'[want'[t]] # t
      <4>1. t # r
        BY ONLY <2>1, <3>5, Zenon DEF Blocking
      <4> QED
        BY ONLY <1>3, <2>1, <3>2, <3>5, <4>1, Zenon DEF Blocking
    <3> QED
      BY ONLY <3>3, <3>4, <3>5, Zenon DEF HoldInv
  <2> QED
    BY <1>7, <2>2, <2>3, Zenon DEF exos_mutex_try, r
<1>8. ASSUME NEW m \in Mutex, exos_mutex_unlock(m) PROVE HoldInv' /\ Types
  <2>1. /\ pc[r] = "user" /\ UNCHANGED <<pc, want>> /\ depth[r][m] > 0
        /\ depth' = [depth EXCEPT ![r][m] = @ - 1]
        /\ MCount' = [MCount EXCEPT ![m] = @ - 1]
    BY <1>8, Zenon DEF exos_mutex_unlock, At, r
  <2>2. InCall(r, m) = 0 /\ depth[r][m] \in Nat
    BY ONLY <1>1, <2>1, m \in Mutex, Zenon DEF InCall
  <2>3. MOwner[m] = r /\ MCount[m] = depth[r][m]
    BY ONLY <1>1, <1>3, <2>1, <2>2, m \in Mutex
  <2>4. MOwner' = IF MCount[m] = 1 THEN [MOwner EXCEPT ![m] = Nil] ELSE MOwner
    BY <1>8, UnlockFacts, Zenon
  <2>5. Types
    BY ONLY <1>1, <2>1, <2>2, <2>3, <2>4, m \in Mutex, SMTT(40)
  <2>6. ASSUME NEW t \in Thread, NEW n \in Mutex
        PROVE  depth'[t][n] + InCall(t, n)' = IF MOwner'[n] = t THEN MCount'[n] ELSE 0
    <3>1. CASE t = r /\ n = m
      BY ONLY <1>1, <1>2, <2>1, <2>2, <2>3, <2>4, <3>1, m \in Mutex, SMTT(40) DEF InCall
    <3>2. CASE t # r /\ n = m
      BY ONLY <1>1, <1>2, <1>3, <2>1, <2>3, <2>4, <3>2, t \in Thread, m \in Mutex, Zenon DEF InCall
    <3>3. CASE n # m
      BY ONLY <1>1, <1>3, <2>1, <2>4, <3>3, t \in Thread, n \in Mutex, Zenon DEF InCall
    <3> QED
      BY <3>1, <3>2, <3>3, Zenon
  <2>7. ASSUME NEW t \in Thread, Blocking(t)', want'[t] \in Mutex PROVE MOwner'[want'[t]] # t
    BY ONLY <1>1, <1>2, <1>3, <2>1, <2>4, <2>7, Zenon DEF Blocking
  <2> QED
    BY ONLY <2>5, <2>6, <2>7, Zenon DEF HoldInv
<1>9. CASE LockAdd
  <2>1. pc[r] = "lock" /\ want[r] \in Mutex /\ UNCHANGED <<want, depth>>
    BY <1>1, <1>3, <1>9, Zenon DEF LockAdd, At, r
  <2>2. \A n \in Mutex : InCall(r, n) = 0
    BY ONLY <2>1, Zenon DEF InCall
  <2>3. CASE MOwner[want[r]] # r /\ pc' = [pc EXCEPT ![r] = "wait"] /\ UNCHANGED <<MOwner, MCount>>
    <3>1. /\ pc' \in [Thread -> {"user", "lock", "wait", "dispose", "test"}] /\ want'[r] = want[r]
          /\ \A t \in Thread \ {r} : pc'[t] = pc[t] /\ want'[t] = want[t]
      BY ONLY <1>1, <2>1, <2>3, Zenon
    <3> QED
      BY ONLY <1>1, <1>4, <2>1, <2>2, <2>3, <3>1, Zenon
  <2>4. CASE ___mutex_cond(want[r]) /\ pc' = [pc EXCEPT ![r] = "test"]
    <3> DEFINE m == want[r]
    <3>1. m \in Mutex
      BY <2>1, Zenon
    <3>2. /\ MOwner' \in [Mutex -> Thread \cup {Nil}] /\ MCount' \in [Mutex -> Nat]
          /\ MOwner'[m] = r /\ MCount'[m] = depth[r][m] + 1
          /\ \A t \in Thread \ {r} : MOwner[m] # t /\ MOwner'[m] # t
          /\ \A n \in Mutex \ {m} : MOwner'[n] = MOwner[n] /\ MCount'[n] = MCount[n]
      BY <1>1, <1>3, <2>2, <2>4, <3>1, CondKeepsAccounts, SMTT(40) DEF r
    <3>3. Types
      BY ONLY <1>1, <2>1, <2>4, <3>2, Zenon
    <3>4. want'[r] = m
      BY <2>1, Zenon
    <3> HIDE DEF m
    <3>5. ASSUME NEW t \in Thread, NEW n \in Mutex
          PROVE  depth'[t][n] + InCall(t, n)' = IF MOwner'[n] = t THEN MCount'[n] ELSE 0
      <4>1. CASE t = r /\ n = m
        BY ONLY <1>1, <2>1, <2>4, <3>1, <3>2, <3>4, <4>1, ZenonT(40) DEF InCall
      <4>2. CASE t = r /\ n # m
        BY ONLY <1>1, <1>3, <2>1, <2>2, <2>4, <3>2, <3>4, <4>2, n \in Mutex, SMTT(40) DEF InCall
      <4>3. CASE t # r /\ n = m
        BY ONLY <1>1, <1>3, <2>1, <2>4, <3>1, <3>2, <4>3, t \in Thread, SMTT(40) DEF InCall
      <4>4. CASE t # r /\ n # m
        BY ONLY <1>1, <1>3, <2>1, <2>4, <3>2, <4>4, t \in Thread, n \in Mutex, SMTT(40) DEF InCall
      <4> QED
        BY <4>1, <4>2, <4>3, <4>4, Zenon
    <3>6. ASSUME NEW t \in Thread, Blocking(t)', want'[t] \in Mutex PROVE MOwner'[want'[t]] # t
      <4>1. t # r
        BY ONLY <1>1, <2>4, <3>6, Zenon DEF Blocking
      <4> QED
        BY ONLY <1>1, <1>3, <2>1, <2>4, <3>2, <3>6, <4>1, Zenon DEF Blocking
    <3> QED
      BY ONLY <3>3, <3>5, <3>6, Zenon DEF HoldInv
  <2> QED
    BY <1>9, <2>3, <2>4, Zenon DEF LockAdd, Goto, r
<1>10. CASE Wait
  <2>1. /\ pc[r] = "wait" /\ pc' = [pc EXCEPT ![r] = "dispose"]
        /\ UNCHANGED <<MOwner, MCount, want, depth>>
    BY <1>10, Zenon DEF Wait, At, Goto, r
  <2>2. \A n \in Mutex : InCall(r, n) = 0
    BY ONLY <2>1, Zenon DEF InCall
  <2>3. want[r] \in Mutex => MOwner[want[r]] # r
    BY ONLY <1>1, <1>3, <2>1, Zenon DEF Blocking
  <2>4. /\ pc' \in [Thread -> {"user", "lock", "wait", "dispose", "test"}]
        /\ want' \in [Thread -> Object \cup {Nil}]
        /\ \A t \in Thread \ {r} : pc'[t] = pc[t] /\ want'[t] = want[t]
    BY ONLY <1>1, <1>2, <2>1, Zenon
  <2> QED
    BY ONLY <1>4, <2>1, <2>2, <2>3, <2>4, Zenon
<1>11. CASE Dispose
  <2>1. /\ pc[r] = "dispose" /\ UNCHANGED <<MOwner, MCount, want, depth>>
        /\ pc' = [pc EXCEPT ![r] = IF want[r] = Tick THEN "user" ELSE "test"]
    BY <1>11, Zenon DEF Dispose, At, Goto, r
  <2>2. \A n \in Mutex : InCall(r, n) = 0
    BY ONLY <2>1, Zenon DEF InCall
  <2>3. want[r] \in Mutex => MOwner[want[r]] # r
    BY ONLY <1>1, <1>3, <2>1, Zenon DEF Blocking
  <2>4. /\ pc' \in [Thread -> {"user", "lock", "wait", "dispose", "test"}]
        /\ want' \in [Thread -> Object \cup {Nil}]
        /\ \A t \in Thread \ {r} : pc'[t] = pc[t] /\ want'[t] = want[t]
    BY ONLY <1>1, <1>2, <2>1, Zenon
  <2> QED
    BY ONLY <1>4, <2>1, <2>2, <2>3, <2>4, Zenon
<1>12. CASE LockTest
  <2>1. pc[r] = "test" /\ want[r] \in Mutex /\ UNCHANGED <<MOwner, MCount, want>>
    BY <1>1, <1>3, <1>12, Zenon DEF LockTest, At, r
  <2>2. CASE MOwner[want[r]] # r /\ pc' = [pc EXCEPT ![r] = "lock"] /\ depth' = depth
    <3>1. \A n \in Mutex : InCall(r, n) = 0
      BY ONLY <2>2, Zenon DEF InCall
    <3>2. /\ pc' \in [Thread -> {"user", "lock", "wait", "dispose", "test"}] /\ pc'[r] = "lock"
          /\ \A t \in Thread \ {r} : pc'[t] = pc[t] /\ want'[t] = want[t]
      BY ONLY <1>1, <2>1, <2>2, Zenon
    <3> QED
      BY ONLY <1>1, <1>4, <2>1, <2>2, <3>1, <3>2, Zenon
  <2>3. CASE /\ MOwner[want[r]] = r /\ pc' = [pc EXCEPT ![r] = "user"]
             /\ depth' = [depth EXCEPT ![r][want[r]] = @ + 1]
    <3> DEFINE m == want[r]
    <3>1. m \in Mutex /\ MOwner[m] = r /\ depth' = [depth EXCEPT ![r][m] = @ + 1]
      BY <2>1, <2>3, Zenon
    <3>2. Types
      BY ONLY <1>1, <2>1, <2>3, <3>1, SMTT(40)
    <3>3. \A n \in Mutex : InCall(r, n) = IF n = m THEN 1 ELSE 0
      BY ONLY <2>1, <3>1, Zenon DEF InCall
    <3> HIDE DEF m
    <3>4. ASSUME NEW t \in Thread, NEW n \in Mutex
          PROVE  depth'[t][n] + InCall(t, n)' = IF MOwner'[n] = t THEN MCount'[n] ELSE 0
      <4>1. CASE t = r
        <5>1. InCall(t, n)' = 0
          BY ONLY <1>1, <2>3, <4>1, Zenon DEF InCall
        <5>2. depth'[t][n] = depth[t][n] + InCall(t, n) /\ depth[t][n] \in Nat
          BY ONLY <1>1, <3>1, <3>3, <4>1, n \in Mutex, SMTT(40)
        <5>3. depth'[t][n] \in Nat
          BY ONLY <3>2, t \in Thread, n \in Mutex, Zenon
        <5> QED
          BY ONLY <1>3, <2>1, <5>1, <5>2, <5>3, t \in Thread, n \in Mutex, SMTT(40)
      <4>2. CASE t # r
        BY ONLY <1>1, <1>3, <2>1, <2>3, <3>1, <4>2, t \in Thread, n \in Mutex, SMTT(40) DEF InCall
      <4> QED
        BY <4>1, <4>2, Zenon
    <3>5. ASSUME NEW t \in Thread, Blocking(t)', want'[t] \in Mutex PROVE MOwner'[want'[t]] # t
      BY ONLY <1>1, <1>3, <2>1, <2>3, <3>5, Zenon DEF Blocking
    <3> QED
      BY ONLY <3>2, <3>4, <3>5, Zenon DEF HoldInv
  <2> QED
    BY <1>12, <2>2, <2>3, Zenon DEF LockTest, Goto, r
<1>13. CASE exos_thread_sleep
  <2>1. /\ pc[r] = "user" /\ pc' = [pc EXCEPT ![r] = "wait"] /\ want' = [want EXCEPT ![r] = Tick]
        /\ UNCHANGED <<MOwner, MCount, depth>>
    BY <1>13, Zenon DEF exos_thread_sleep, At, Goto, r
  <2>2. \A n \in Mutex : InCall(r, n) = 0
    BY ONLY <2>1, Zenon DEF InCall
  <2>3. want'[r] \notin Mutex
    BY ONLY <1>1, <1>2, <2>1, Zenon
  <2>4. /\ pc' \in [Thread -> {"user", "lock", "wait", "dispose", "test"}]
        /\ want' \in [Thread -> Object \cup {Nil}]
        /\ \A t \in Thread \ {r} : pc'[t] = pc[t] /\ want'[t] = want[t]
    BY ONLY <1>1, <1>2, <2>1, Zenon
  <2> QED
    BY ONLY <1>4, <2>1, <2>2, <2>3, <2>4, Zenon
<1>14. (\E t \in Thread : Create(t)) \/ TickInterrupt \/ Kernel => UNCHANGED mutexVars
  BY Zenon DEF Create, TickInterrupt, Kernel
<1> QED
  BY <1>5, <1>6, <1>7, <1>8, <1>9, <1>10, <1>11, <1>12, <1>13, <1>14, Zenon DEF MutexNext

----------------------------------------------------------------------------
(* Lists of waiters, and handles on the stack *)

\* exos_thread_add_wait_handle by a caller: its own handle, on one list.
Added(list) ==
  /\ Owner' = [Owner EXCEPT ![running] = running]
  /\ HState' = [HState EXCEPT ![running] = "WAITING"]
  /\ \A h \in Handle \ {running} : Mask'[h] = Mask[h]
  /\ Range(waiters'[list]) = Range(waiters[list]) \cup {running}

LEMMA AddFacts ==
  ASSUME MInv, NEW list \in Object, Calling, exos_thread_add_wait_handle(running, list)
  PROVE  /\ State' = State /\ MaskWait' = MaskWait /\ draining' = draining
         /\ HState[running] = "DETACHED"
         /\ \A l \in WaitList \ {list} : waiters'[l] = waiters[l]
         /\ halted' => HState' = HState /\ Owner' = Owner /\ Mask' = Mask /\ waiters' = waiters
         /\ ~halted' => Added(list)
<1>1. running \in Handle /\ list \in WaitList /\ list # Nil
  BY CallerFacts, ObjectAssumption, Zenon DEF WaitList
<1>2. HState[running] = "DETACHED" /\ ___add_handle(running, list)
  BY Zenon DEF exos_thread_add_wait_handle
<1>3. /\ Mask \in [Handle -> SUBSET Bit] /\ waiters \in [WaitList -> Seq(Handle)]
      /\ Distinct(waiters[list]) /\ running \notin Range(waiters[list])
  <2>1. TypeOK /\ PlaceInv
    BY Zenon DEF MInv, IInv
  <2>2. Mask \in [Handle -> SUBSET Bit] /\ waiters \in [WaitList -> Seq(Handle)]
    BY ONLY <2>1, Zenon DEF TypeOK
  <2>3. Distinct(waiters[list]) /\ running \notin Range(waiters[list])
    BY ONLY <1>1, <1>2, <2>1, Zenon DEF PlaceInv
  <2> QED
    BY ONLY <2>2, <2>3, Zenon
<1>4. halted = FALSE
  BY CallerFacts, Zenon
<1>5. CASE MaskUsed[running] = Bit
  <2>1. /\ State' = State /\ MaskWait' = MaskWait /\ draining' = draining /\ halted' = TRUE
        /\ HState' = HState /\ Owner' = Owner /\ Mask' = Mask /\ waiters' = waiters
    BY <1>1, <1>2, <1>5, Zenon DEF ___add_handle, threadVars, handleVars
  <2> QED
    BY ONLY <1>2, <2>1, Zenon
<1>6. CASE MaskUsed[running] # Bit
  <2>1. /\ \E bits : Mask' = [Mask EXCEPT ![running] = bits]
        /\ HState' = [HState EXCEPT ![running] = "WAITING"]
        /\ Owner' = [Owner EXCEPT ![running] = running]
        /\ waiters' = [waiters EXCEPT ![list] = list_add_tail(@, running)]
        /\ State' = State /\ MaskWait' = MaskWait /\ draining' = draining /\ halted' = FALSE
    BY <1>1, <1>2, <1>4, <1>6, Zenon DEF ___add_handle, sectionVars
  <2>2. \A h \in Handle \ {running} : Mask'[h] = Mask[h]
    BY ONLY <1>3, <2>1, Zenon
  <2>3. /\ \A l \in WaitList \ {list} : waiters'[l] = waiters[l]
        /\ waiters'[list] = list_add_tail(waiters[list], running)
    BY ONLY <1>1, <1>3, <2>1, Zenon
  <2>4. Range(waiters'[list]) = Range(waiters[list]) \cup {running}
    <3> DEFINE old == waiters[list]
               new == waiters'[list]
    <3>1. old \in Seq(Handle) /\ running \notin Range(old) /\ Distinct(old) /\ new = list_add_tail(old, running)
      BY <1>1, <1>3, <2>3, Zenon
    <3> HIDE DEF old, new
    <3>2. Range(new) = Range(old) \cup {running}
      BY <1>1, <3>1, AddTailFacts
    <3> QED
      BY <3>2, Zenon DEF old, new
  <2> QED
    BY ONLY <1>2, <2>1, <2>2, <2>3, <2>4, Zenon DEF Added
<1> QED
  BY ONLY <1>5, <1>6, Zenon

\* exos_thread_wait leaves the handles alone, and at most puts the caller to sleep.
LEMMA WaitFacts ==
  ASSUME NEW mask, exos_thread_wait(mask)
  PROVE  /\ HState' = HState /\ Owner' = Owner /\ Mask' = Mask /\ waiters' = waiters
         /\ State' \in {State, [State EXCEPT ![running] = "WAIT"]}
         /\ State' # State => MaskWait' = [MaskWait EXCEPT ![running] = mask]
         /\ State' = State => MaskWait' \in {MaskWait, [MaskWait EXCEPT ![running] = mask]}
<1> USE DEF exos_thread_wait
<1>1. CASE \E h \in Pending[running] : Mask[h] \cap mask # {}
  <2>1. UNCHANGED kernelVars
    BY <1>1, Zenon
  <2>2. /\ HState' = HState /\ Owner' = Owner /\ Mask' = Mask /\ waiters' = waiters
        /\ State' = State /\ MaskWait' = MaskWait
    BY ONLY <2>1, Zenon DEF kernelVars, threadVars, handleVars
  <2> QED
    BY ONLY <2>2, Zenon
<1>2. CASE ~ \E h \in Pending[running] : Mask[h] \cap mask # {}
  BY <1>2, Zenon DEF handleVars
<1> QED
  BY <1>1, <1>2, Zenon

\* The list of a free mutex stays empty.
LEMMA FreeKeeps == ASSUME MInv, MutexNext PROVE FreeInv'
<1>1. /\ MOwner \in [Mutex -> Thread \cup {Nil}] /\ waiters \in [WaitList -> Seq(Handle)]
      /\ running \in Thread /\ IInv
      /\ \A m \in Mutex : MOwner[m] = Nil /\ draining # m => waiters[m] = <<>>
  BY Zenon DEF MInv, MutexTypeOK, IInv, TypeOK, FreeInv
<1>2. /\ Nil \notin Thread /\ Tick \notin Mutex
      /\ \A m \in Mutex : m \in WaitList /\ m \in Object /\ m # Nil /\ m \notin Thread
  BY ObjectAssumption, MutexAssumption, Zenon DEF WaitList
<1>3. Tick \in Object
  BY MutexAssumption, Zenon
<1>4. CASE UNCHANGED <<waiters, MOwner>> /\ draining' = draining
  BY ONLY <1>1, <1>4, Zenon DEF FreeInv
<1>5. CASE UNCHANGED <<waiters, MOwner>> /\ draining = Nil
  BY ONLY <1>1, <1>2, <1>5, Zenon DEF FreeInv
<1>6. ASSUME NEW m \in Mutex, ___mutex_cond(m), Calling PROVE FreeInv'
  <2>1. UNCHANGED kernelVars
    BY <1>6, CondFacts, Zenon
  <2>2. UNCHANGED <<waiters, draining>>
    BY <2>1, Zenon DEF kernelVars, handleVars, sectionVars
  <2>3. MOwner' = [MOwner EXCEPT ![m] = running]
    BY <1>6, Zenon DEF ___mutex_cond
  <2> QED
    BY ONLY <1>1, <1>2, <2>2, <2>3, Zenon DEF FreeInv
<1>7. ASSUME NEW list \in Object, Calling, exos_thread_add_wait_handle(running, list),
             UNCHANGED MOwner, list \in Mutex => MOwner[list] # Nil
      PROVE  FreeInv'
  <2>1. draining' = draining /\ \A l \in WaitList \ {list} : waiters'[l] = waiters[l]
    BY ONLY MInv, <1>7, AddFacts, Zenon
  <2> QED
    BY ONLY <1>1, <1>2, <1>7, <2>1, Zenon DEF FreeInv
<1>8. ASSUME NEW h \in Handle, waiters' = [l \in WaitList |-> list_remove(waiters[l], h)],
             UNCHANGED <<draining, MOwner>>
      PROVE  FreeInv'
  <2>1. \A l \in WaitList : waiters[l] = <<>> => waiters'[l] = <<>>
    BY <1>1, <1>8, EmptyStaysEmpty, Zenon
  <2> QED
    BY ONLY <1>1, <1>2, <1>8, <2>1, Zenon DEF FreeInv
<1>9. ASSUME NEW m \in Mutex, exos_mutex_lock(m) PROVE FreeInv'
  BY <1>4, <1>9, Zenon DEF exos_mutex_lock, kernelVars, handleVars, sectionVars
<1>10. ASSUME NEW m \in Mutex, exos_mutex_try(m) PROVE FreeInv'
  BY <1>4, <1>6, <1>10, Zenon DEF exos_mutex_try, At, kernelVars, handleVars, sectionVars
<1>11. ASSUME NEW m \in Mutex, exos_mutex_unlock(m) PROVE FreeInv'
  <2>1. CASE UNCHANGED <<kernelVars, MOwner>>
    BY <1>4, <2>1, Zenon DEF kernelVars, handleVars, sectionVars
  <2>2. CASE exos_thread_resume_all(m) /\ MOwner' = [MOwner EXCEPT ![m] = Nil]
    <3>1. draining = Nil /\ draining' = m /\ waiters' = waiters
      BY <2>2, Zenon DEF exos_thread_resume_all, Outside, ThenResumeAll, handleVars
    <3> QED
      BY ONLY <1>1, <1>2, <2>2, <3>1, Zenon DEF FreeInv
  <2> QED
    BY <1>11, <2>1, <2>2, UnlockFacts, Zenon
<1>12. CASE LockAdd
  <2>1. want[running] \in Mutex /\ Calling
    BY <1>1, <1>12, Zenon DEF LockAdd, At, MInv, CallInv
  <2>2. CASE ___mutex_cond(want[running])
    BY <1>6, <2>1, <2>2, Zenon
  <2>3. CASE /\ exos_thread_add_wait_handle(running, want[running])
             /\ MOwner[want[running]] # Nil /\ UNCHANGED MOwner
    BY <1>2, <1>7, <2>1, <2>3, Zenon
  <2> QED
    BY <1>12, <2>2, <2>3, Zenon DEF LockAdd
<1>13. CASE Wait
  <2>1. draining = Nil /\ MOwner' = MOwner /\ exos_thread_wait(Mask[running])
    BY <1>13, Zenon DEF Wait, At, Calling, Outside
  <2>2. waiters' = waiters
    BY <2>1, WaitFacts, Zenon
  <2> QED
    BY <1>5, <2>1, <2>2, Zenon
<1>14. CASE Dispose
  <2>1. exos_thread_dispose_wait_handle(running) /\ running \in Handle /\ MOwner' = MOwner
    BY <1>14, CallerFacts, Zenon DEF Dispose, At
  <2> QED
    BY <1>8, <2>1, Zenon DEF exos_thread_dispose_wait_handle, sectionVars
<1>15. CASE LockTest
  BY <1>4, <1>15, Zenon DEF LockTest, kernelVars, handleVars, sectionVars
<1>16. CASE exos_thread_sleep
  BY <1>2, <1>3, <1>7, <1>16, Zenon DEF exos_thread_sleep, At
<1>17. ASSUME NEW t \in Thread, Create(t) PROVE FreeInv'
  <2>1. /\ waiters' = [waiters EXCEPT ![t] = <<>>] /\ draining = Nil /\ draining' = Nil
        /\ MOwner' = MOwner
    BY <1>17, Zenon DEF Create, exos_thread_create, Calling, Outside, EndSection, mutexVars
  <2> QED
    BY ONLY <1>1, <1>2, <2>1, t \in Thread, Zenon DEF FreeInv
<1>18. CASE TickInterrupt
  BY <1>5, <1>18, Zenon DEF TickInterrupt, exos_thread_resume_all, Outside, handleVars, mutexVars
<1>19. CASE Kernel
  <2>1. CASE ResumeFirst
    <3>1. Head(waiters[draining]) \in Handle
      BY <1>1, <2>1, FirstIsWaiting, Zenon DEF ResumeFirst
    <3> QED
      BY <1>8, <1>19, <2>1, <3>1, Zenon DEF ResumeFirst, _resume, Kernel, mutexVars
  <2>2. CASE ResumeAllEnd
    <3>1. /\ waiters[draining] = <<>> /\ waiters' = waiters /\ MOwner' = MOwner
      BY <1>19, <2>2, Zenon DEF ResumeAllEnd, handleVars, Kernel, mutexVars
    <3> QED
      BY ONLY <1>1, <3>1, Zenon DEF FreeInv
  <2> QED
    BY <1>19, <2>1, <2>2, Zenon DEF Kernel, Drain
<1> QED
  BY <1>9, <1>10, <1>11, <1>12, <1>13, <1>14, <1>15, <1>16, <1>17, <1>18, <1>19, Zenon DEF MutexNext

\* What is said of the handles of blocked callers stays true.
LEMMA CallKeeps == ASSUME MInv, MutexNext PROVE CallInv'
<1> DEFINE r == running
           Places == /\ \A t \in Thread : pc'[t] \in {"lock", "test"} => want'[t] \in Mutex
                     /\ \A t \in Thread : Blocking(t)' => want'[t] \in Object
           Handles == /\ \A t \in Thread : Blocking(t)' /\ ~halted' => Owner'[t] = t
                      /\ \A t \in Thread : Blocking(t)' /\ HState'[t] = "WAITING" =>
                           t \in Range(waiters'[want'[t]])
                      /\ \A t \in Thread : State'[t] = "WAIT" =>
                           pc'[t] = "dispose" /\ Owner'[t] = t /\ MaskWait'[t] = Mask'[t]
<1>1. /\ pc \in [Thread -> {"user", "lock", "wait", "dispose", "test"}]
      /\ want \in [Thread -> Object \cup {Nil}]
      /\ State \in [Thread -> {"DETACHED", "READY", "WAIT"}]
      /\ MaskWait \in [Thread -> SUBSET Bit]
      /\ HState \in [Handle -> {"DETACHED", "WAITING", "DONE"}]
      /\ Owner \in [Handle -> Thread \cup {Nil}]
      /\ waiters \in [WaitList -> Seq(Handle)]
      /\ r \in Thread /\ IInv
  BY Zenon DEF MInv, MutexTypeOK, IInv, TypeOK
<1>2. /\ Thread \subseteq Handle /\ Mutex \subseteq Object /\ Tick \in Object /\ Tick \notin Mutex
      /\ Object \subseteq WaitList /\ Thread \cap Object = {} /\ Object = Mutex \cup {Tick}
  BY MutexAssumption, ObjectAssumption, Zenon DEF WaitList
<1>3. /\ \A t \in Thread : pc[t] \in {"lock", "test"} => want[t] \in Mutex
      /\ \A t \in Thread : Blocking(t) => want[t] \in Object
      /\ \A t \in Thread : Blocking(t) /\ ~halted => Owner[t] = t
      /\ \A t \in Thread : Blocking(t) /\ HState[t] = "WAITING" => t \in Range(waiters[want[t]])
      /\ \A t \in Thread : State[t] = "WAIT" =>
           pc[t] = "dispose" /\ Owner[t] = t /\ MaskWait[t] = Mask[t]
  BY Zenon DEF MInv, CallInv
<1>4. Calling => State[r] = "READY" /\ halted = FALSE
  BY CallerFacts, Zenon
<1>5. Places /\ Handles => CallInv'
  BY Zenon DEF CallInv
<1> HIDE DEF r
\* Nothing that concerns a handle changes, and nobody begins to block.
<1>6. ASSUME State' = State, MaskWait' = MaskWait, HState' = HState, Owner' = Owner,
             Mask' = Mask, waiters' = waiters, halted => halted',
             \A t \in Thread : Blocking(t)' => Blocking(t) /\ want'[t] = want[t],
             \A t \in Thread : State[t] = "WAIT" => pc'[t] = pc[t]
      PROVE  Handles
  BY ONLY <1>3, <1>6, Zenon
\* A step of the running thread from a place where it does not block to another.
<1>7. ASSUME UNCHANGED kernelVars, Calling,
             pc' \in [Thread -> {"user", "lock", "wait", "dispose", "test"}],
             pc'[r] \in {"user", "lock", "test"},
             \A t \in Thread \ {r} : pc'[t] = pc[t] /\ want'[t] = want[t]
      PROVE  Handles
  <2>1. /\ State' = State /\ MaskWait' = MaskWait /\ HState' = HState /\ Owner' = Owner
        /\ Mask' = Mask /\ waiters' = waiters /\ halted' = halted
    BY <1>7, Zenon DEF kernelVars, threadVars, handleVars, sectionVars
  <2>2. \A t \in Thread : Blocking(t)' => Blocking(t) /\ want'[t] = want[t]
    BY ONLY <1>7, Zenon DEF Blocking
  <2>3. \A t \in Thread : State[t] = "WAIT" => pc'[t] = pc[t]
    BY ONLY <1>4, <1>7, Zenon
  <2> QED
    BY ONLY <1>6, <2>1, <2>2, <2>3, Zenon
\* The running thread adds its handle to a list and goes to "wait".
<1>8. ASSUME NEW list \in Object, Calling, exos_thread_add_wait_handle(running, list),
             pc' = [pc EXCEPT ![r] = "wait"], want' = [want EXCEPT ![r] = list]
      PROVE  Places /\ Handles
  <2>1. /\ State' = State /\ MaskWait' = MaskWait
        /\ HState[r] = "DETACHED"
        /\ \A l \in WaitList \ {list} : waiters'[l] = waiters[l]
        /\ halted' => HState' = HState /\ Owner' = Owner /\ Mask' = Mask /\ waiters' = waiters
        /\ ~halted' => Added(list)
    BY <1>8, AddFacts, Zenon DEF r
  <2>2. /\ pc'[r] = "wait" /\ want'[r] = list
        /\ \A t \in Thread : t # r => pc'[t] = pc[t] /\ want'[t] = want[t]
    BY ONLY <1>1, <1>8, Zenon
  <2>3. \A t \in Thread : t # r /\ Blocking(t)' => Blocking(t)
    BY ONLY <2>2, Zenon DEF Blocking
  <2>4. Places
    BY ONLY <1>3, <2>2, <2>3, list \in Object, Zenon
  <2>5. State[r] = "READY" /\ halted = FALSE
    BY <1>4, <1>8, Zenon
  <2>6. CASE halted'
    <3>1. \A t \in Thread : Blocking(t)' /\ HState'[t] = "WAITING" =>
            t \in Range(waiters'[want'[t]])
      BY ONLY <1>3, <2>1, <2>2, <2>3, <2>6, Zenon
    <3>2. \A t \in Thread : State'[t] = "WAIT" =>
            pc'[t] = "dispose" /\ Owner'[t] = t /\ MaskWait'[t] = Mask'[t]
      BY ONLY <1>3, <2>1, <2>2, <2>5, <2>6, ZenonT(40)
    <3> QED
      BY ONLY <2>4, <2>6, <3>1, <3>2, ZenonT(40)
  <2>7. CASE ~halted'
    <3>1. /\ Owner' = [Owner EXCEPT ![r] = r]
          /\ HState' = [HState EXCEPT ![r] = "WAITING"]
          /\ \A h \in Handle \ {r} : Mask'[h] = Mask[h]
          /\ Range(waiters'[list]) = Range(waiters[list]) \cup {r}
      BY <2>1, <2>7, Zenon DEF Added, r
    <3>2. /\ Owner'[r] = r
          /\ \A t \in Thread : t # r => Owner'[t] = Owner[t] /\ HState'[t] = HState[t] /\ Mask'[t] = Mask[t]
      <4>1. r \in Handle /\ \A t \in Thread : t \in Handle
        BY ONLY <1>1, <1>2, Zenon
      <4> QED
        BY ONLY <1>1, <3>1, <4>1, Zenon
    <3>3. \A t \in Thread : Blocking(t)' => Owner'[t] = t
      BY ONLY <1>3, <2>3, <2>5, <3>2, Zenon
    <3>4. ASSUME NEW t \in Thread, Blocking(t)', HState'[t] = "WAITING"
          PROVE  t \in Range(waiters'[want'[t]])
      <4>1. CASE t = r
        BY ONLY <2>2, <3>1, <4>1, Zenon
      <4>2. CASE t # r
        <5>1. Blocking(t) /\ HState[t] = "WAITING" /\ want'[t] = want[t]
          BY ONLY <2>2, <2>3, <3>2, <3>4, <4>2, Zenon
        <5>2. want[t] \in Object /\ t \in Range(waiters[want[t]])
          BY ONLY <1>3, <5>1, t \in Thread, Zenon
        <5>3. CASE want[t] = list
          BY ONLY <3>1, <5>1, <5>2, <5>3, Zenon
        <5>4. CASE want[t] # list
          <6>1. want[t] \in WaitList \ {list}
            BY ONLY <1>2, <5>2, <5>4, Zenon
          <6>2. waiters'[want[t]] = waiters[want[t]]
            BY ONLY <2>1, <6>1, Zenon
          <6> QED
            BY ONLY <5>1, <5>2, <6>2, Zenon
        <5> QED
          BY ONLY <5>3, <5>4, Zenon
      <4> QED
        BY ONLY <4>1, <4>2, Zenon
    <3>5. \A t \in Thread : State'[t] = "WAIT" =>
            pc'[t] = "dispose" /\ Owner'[t] = t /\ MaskWait'[t] = Mask'[t]
      BY ONLY <1>3, <2>1, <2>2, <2>5, <3>2, Zenon
    <3>6. \A t \in Thread : Blocking(t)' /\ HState'[t] = "WAITING" =>
            t \in Range(waiters'[want'[t]])
      BY ONLY <3>4, Zenon
    <3> QED
      BY ONLY <2>4, <3>3, <3>5, <3>6, Zenon
  <2> QED
    BY ONLY <2>6, <2>7, Zenon
\* Nobody moves, and at most other places of waiting change.
<1>9. UNCHANGED <<pc, want>> => Places
  BY ONLY <1>3, Zenon DEF Blocking
<1>10. ASSUME NEW m \in Mutex, exos_mutex_lock(m) PROVE CallInv'
  <2>1. /\ Calling /\ UNCHANGED kernelVars
        /\ pc' = [pc EXCEPT ![r] = "lock"] /\ want' = [want EXCEPT ![r] = m]
    BY <1>10, Zenon DEF exos_mutex_lock, At, Goto, r
  <2>2. /\ pc'[r] = "lock" /\ want'[r] = m
        /\ \A t \in Thread : t # r => pc'[t] = pc[t] /\ want'[t] = want[t]
    BY ONLY <1>1, <2>1, Zenon
  <2>3. Places
    BY ONLY <1>3, <2>2, m \in Mutex, Zenon DEF Blocking
  <2>4. pc' \in [Thread -> {"user", "lock", "wait", "dispose", "test"}]
    BY ONLY <1>1, <2>1, Zenon
  <2>5. Handles
    BY ONLY <1>7, <2>1, <2>2, <2>4, Zenon
  <2> QED
    BY ONLY <1>5, <2>3, <2>5, Zenon
<1>11. ASSUME NEW m \in Mutex, exos_mutex_try(m) PROVE CallInv'
  <2>1. Calling /\ pc[r] = "user" /\ UNCHANGED <<pc, want>>
    BY <1>11, Zenon DEF exos_mutex_try, At, r
  <2>2. UNCHANGED kernelVars
    BY <1>11, <2>1, CondFacts, Zenon DEF exos_mutex_try
  <2>3. Handles
    BY ONLY <1>1, <1>7, <2>1, <2>2, Zenon
  <2> QED
    BY ONLY <1>5, <1>9, <2>1, <2>3, Zenon
<1>12. ASSUME NEW list \in WaitList, exos_thread_resume_all(list), UNCHANGED <<pc, want>>
       PROVE  CallInv'
  <2>1. /\ State' = State /\ MaskWait' = MaskWait /\ HState' = HState /\ Owner' = Owner
        /\ Mask' = Mask /\ waiters' = waiters /\ halted' = halted
    BY <1>12, Zenon DEF exos_thread_resume_all, ThenResumeAll, threadVars, handleVars
  <2>2. \A t \in Thread : Blocking(t)' => Blocking(t) /\ want'[t] = want[t]
    BY ONLY <1>12, Zenon DEF Blocking
  <2>3. Handles
    BY ONLY <1>6, <1>12, <2>1, <2>2, Zenon
  <2> QED
    BY ONLY <1>5, <1>9, <1>12, <2>3, Zenon
<1>13. ASSUME NEW m \in Mutex, exos_mutex_unlock(m) PROVE CallInv'
  <2>1. Calling /\ pc[r] = "user" /\ UNCHANGED <<pc, want>>
    BY <1>13, Zenon DEF exos_mutex_unlock, At, r
  <2>2. CASE exos_thread_resume_all(m)
    BY <1>2, <1>12, <2>1, <2>2, Zenon
  <2>3. CASE UNCHANGED kernelVars
    <3>1. Handles
      BY ONLY <1>1, <1>7, <2>1, <2>3, Zenon
    <3> QED
      BY ONLY <1>5, <1>9, <2>1, <3>1, Zenon
  <2> QED
    BY <1>13, <2>2, <2>3, UnlockFacts, Zenon
<1>14. CASE LockAdd
  <2>1. Calling /\ pc[r] = "lock" /\ want' = want /\ want[r] \in Mutex
    BY <1>1, <1>3, <1>14, Zenon DEF LockAdd, At, r
  <2>2. CASE ___mutex_cond(want[r]) /\ pc' = [pc EXCEPT ![r] = "test"]
    <3>1. UNCHANGED kernelVars
      BY <2>1, <2>2, CondFacts, Zenon
    <3>2. /\ pc' \in [Thread -> {"user", "lock", "wait", "dispose", "test"}] /\ pc'[r] = "test"
          /\ \A t \in Thread : t # r => pc'[t] = pc[t] /\ want'[t] = want[t]
      BY ONLY <1>1, <2>1, <2>2, Zenon
    <3>3. Places
      BY ONLY <1>3, <2>1, <3>2, Zenon DEF Blocking
    <3>4. Handles
      BY ONLY <1>7, <2>1, <3>1, <3>2, Zenon
    <3> QED
      BY ONLY <1>5, <3>3, <3>4, Zenon
  <2>3. CASE /\ exos_thread_add_wait_handle(running, want[r])
             /\ pc' = [pc EXCEPT ![r] = "wait"]
    <3>1. want' = [want EXCEPT ![r] = want[r]] /\ want[r] \in Object
      BY ONLY <1>1, <1>2, <2>1, Zenon
    <3> HIDE DEF Places, Handles
    <3>2. Places /\ Handles
      BY ONLY <1>8, <2>1, <2>3, <3>1, Zenon
    <3> QED
      BY ONLY <1>5, <3>2, Zenon
  <2> QED
    BY <1>14, <2>2, <2>3, Zenon DEF LockAdd, Goto, r
<1>15. CASE Wait
  <2>1. /\ Calling /\ pc[r] = "wait" /\ want' = want
        /\ pc' = [pc EXCEPT ![r] = "dispose"] /\ exos_thread_wait(Mask[running])
    BY <1>15, Zenon DEF Wait, At, Goto, r
  <2>2. /\ HState' = HState /\ Owner' = Owner /\ Mask' = Mask /\ waiters' = waiters
        /\ State' \in {State, [State EXCEPT ![r] = "WAIT"]}
        /\ State' # State => MaskWait' = [MaskWait EXCEPT ![r] = Mask[r]]
        /\ State' = State => MaskWait' \in {MaskWait, [MaskWait EXCEPT ![r] = Mask[r]]}
    BY <2>1, WaitFacts, Zenon DEF r
  <2>3. State[r] = "READY" /\ halted = FALSE /\ Owner[r] = r
    BY <1>1, <1>3, <1>4, <2>1, Zenon DEF Blocking
  <2>4. /\ pc'[r] = "dispose"
        /\ \A t \in Thread : t # r => pc'[t] = pc[t]
        /\ \A t \in Thread : t # r /\ State'[t] = "WAIT" => State[t] = "WAIT" /\ MaskWait'[t] = MaskWait[t]
    <3>1. pc'[r] = "dispose" /\ \A t \in Thread : t # r => pc'[t] = pc[t]
      BY ONLY <1>1, <2>1, Zenon
    <3>2. \A t \in Thread : t # r => State'[t] = State[t] /\ MaskWait'[t] = MaskWait[t]
      BY ONLY <1>1, <2>2, Zenon
    <3> QED
      BY ONLY <3>1, <3>2, Zenon
  <2>5. \A t \in Thread : Blocking(t)' => Blocking(t)
    BY ONLY <2>1, <2>4, Zenon DEF Blocking
  <2>6. Places
    BY ONLY <1>3, <2>1, <2>4, <2>5, Zenon
  <2>7. \A t \in Thread : Blocking(t)' => Owner'[t] = t
    BY ONLY <1>3, <2>2, <2>3, <2>5, Zenon
  <2>8. \A t \in Thread : Blocking(t)' /\ HState'[t] = "WAITING" => t \in Range(waiters'[want'[t]])
    BY ONLY <1>3, <2>1, <2>2, <2>5, Zenon
  <2>9. ASSUME NEW t \in Thread, State'[t] = "WAIT"
        PROVE  pc'[t] = "dispose" /\ Owner'[t] = t /\ MaskWait'[t] = Mask'[t]
    <3>1. CASE t = r
      <4>1. State' # State
        BY ONLY <2>3, <2>9, <3>1, Zenon
      <4>2. MaskWait'[r] = Mask[r]
        BY ONLY <1>1, <2>2, <4>1, Zenon
      <4> QED
        BY ONLY <2>2, <2>3, <2>4, <3>1, <4>2, Zenon
    <3>2. CASE t # r
      <4>1. State[t] = "WAIT" /\ MaskWait'[t] = MaskWait[t] /\ pc'[t] = pc[t]
        BY ONLY <2>4, <2>9, <3>2, Zenon
      <4>2. pc[t] = "dispose" /\ Owner[t] = t /\ MaskWait[t] = Mask[t]
        BY ONLY <1>3, <4>1, t \in Thread, Zenon
      <4> QED
        BY ONLY <2>2, <4>1, <4>2, Zenon
    <3> QED
      BY ONLY <3>1, <3>2, Zenon
  <2>10. \A t \in Thread : State'[t] = "WAIT" =>
            pc'[t] = "dispose" /\ Owner'[t] = t /\ MaskWait'[t] = Mask'[t]
    BY ONLY <2>9, Zenon
  <2>11. Handles
    BY ONLY <2>7, <2>8, <2>10, Zenon
  <2> QED
    BY ONLY <1>5, <2>6, <2>11, Zenon
<1>16. CASE Dispose
  <2>1. /\ Calling /\ pc[r] = "dispose" /\ want' = want
        /\ pc' = [pc EXCEPT ![r] = IF want[r] = Tick THEN "user" ELSE "test"]
    BY <1>16, Zenon DEF Dispose, At, Goto, r
  <2>2. /\ waiters' = [l \in WaitList |-> list_remove(waiters[l], r)]
        /\ HState' = [HState EXCEPT ![r] = "DETACHED"]
        /\ Owner' = [Owner EXCEPT ![r] = Nil] /\ Mask' = [Mask EXCEPT ![r] = {}]
        /\ State' = State /\ MaskWait' = MaskWait
    BY <1>16, Zenon DEF Dispose, exos_thread_dispose_wait_handle, r
  <2>3. \A l \in WaitList : Range(waiters'[l]) = Range(waiters[l]) \ {r}
    BY <1>1, <1>2, <2>2, UnlinkFacts, Zenon
  <2>4. State[r] = "READY" /\ halted = FALSE
    BY <1>4, <2>1, Zenon
  <2>5. /\ pc'[r] \in {"user", "test"} /\ (pc'[r] = "test" => want[r] # Tick)
        /\ \A t \in Thread : t # r => pc'[t] = pc[t]
    BY ONLY <1>1, <2>1, Zenon
  <2>6. \A t \in Thread : t # r => HState'[t] = HState[t] /\ Owner'[t] = Owner[t] /\ Mask'[t] = Mask[t]
    <3>1. \A t \in Thread : t \in Handle
      BY ONLY <1>2, Zenon
    <3>2. Mask \in [Handle -> SUBSET Bit]
      BY <1>1, Zenon DEF IInv, TypeOK
    <3> QED
      BY ONLY <1>1, <2>2, <3>1, <3>2, Zenon
  <2>7. \A t \in Thread : Blocking(t)' => Blocking(t) /\ t # r
    BY ONLY <2>5, Zenon DEF Blocking
  <2>8. Places
    <3>1. want[r] \in Object /\ Blocking(r)
      BY ONLY <1>1, <1>3, <2>1, Zenon DEF Blocking
    <3>2. pc'[r] = "test" => want[r] \in Mutex
      BY ONLY <1>2, <2>5, <3>1, Zenon
    <3> QED
      BY ONLY <1>3, <2>1, <2>5, <2>7, <3>2, Zenon
  <2>9. ASSUME NEW t \in Thread, Blocking(t)', HState'[t] = "WAITING"
        PROVE  t \in Range(waiters'[want'[t]])
    <3>1. Blocking(t) /\ t # r /\ HState[t] = "WAITING"
      BY ONLY <2>6, <2>7, <2>9, Zenon
    <3>2. t \in Range(waiters[want[t]]) /\ want[t] \in WaitList
      BY ONLY <1>2, <1>3, <3>1, t \in Thread, Zenon
    <3> QED
      BY ONLY <2>1, <2>3, <3>1, <3>2, Zenon
  <2>10. \A t \in Thread : Blocking(t)' /\ HState'[t] = "WAITING" =>
             t \in Range(waiters'[want'[t]])
    BY ONLY <2>9, Zenon
  <2>11. \A t \in Thread : State'[t] = "WAIT" =>
            pc'[t] = "dispose" /\ Owner'[t] = t /\ MaskWait'[t] = Mask'[t]
    <3>1. \A t \in Thread : State'[t] = "WAIT" => t # r /\ State[t] = "WAIT"
      BY ONLY <2>2, <2>4, Zenon
    <3> QED
      BY ONLY <1>3, <2>2, <2>5, <2>6, <3>1, ZenonT(40)
  <2>12. \A t \in Thread : Blocking(t)' => Owner'[t] = t
    BY ONLY <1>3, <2>4, <2>6, <2>7, Zenon
  <2>13. Handles
    BY ONLY <2>10, <2>11, <2>12, Zenon
  <2> QED
    BY ONLY <1>5, <2>8, <2>13, Zenon
<1>17. CASE LockTest
  <2>1. /\ Calling /\ pc[r] = "test" /\ UNCHANGED kernelVars /\ want' = want
        /\ \/ pc' = [pc EXCEPT ![r] = "user"]
           \/ pc' = [pc EXCEPT ![r] = "lock"]
    BY <1>17, Zenon DEF LockTest, At, Goto, r
  <2>2. /\ pc' \in [Thread -> {"user", "lock", "wait", "dispose", "test"}]
        /\ pc'[r] \in {"user", "lock"}
        /\ \A t \in Thread : t # r => pc'[t] = pc[t] /\ want'[t] = want[t]
    BY ONLY <1>1, <2>1, Zenon
  <2>3. Places
    <3>1. want[r] \in Mutex
      BY ONLY <1>1, <1>3, <2>1, Zenon
    <3> QED
      BY ONLY <1>3, <2>1, <2>2, <3>1, Zenon DEF Blocking
  <2>4. Handles
    BY ONLY <1>7, <2>1, <2>2, Zenon
  <2> QED
    BY ONLY <1>5, <2>3, <2>4, Zenon
<1>18. CASE exos_thread_sleep
  <2>1. /\ Calling /\ exos_thread_add_wait_handle(running, Tick)
        /\ pc' = [pc EXCEPT ![r] = "wait"] /\ want' = [want EXCEPT ![r] = Tick]
    BY <1>18, Zenon DEF exos_thread_sleep, At, Goto, r
  <2> HIDE DEF Places, Handles
  <2>2. Places /\ Handles
    BY ONLY <1>2, <1>8, <2>1, ZenonT(40)
  <2> QED
    BY ONLY <1>5, <2>2, Zenon
<1>19. ASSUME NEW u \in Thread, Create(u) PROVE CallInv'
  <2>1. /\ Calling /\ UNCHANGED <<pc, want>>
        /\ State' = [State EXCEPT ![u] = "READY"]
        /\ MaskWait' = [MaskWait EXCEPT ![u] = {}]
        /\ waiters' = [waiters EXCEPT ![u] = <<>>]
        /\ UNCHANGED <<HState, Owner, Mask>>
    BY <1>19, Zenon DEF Create, At, exos_thread_create, mutexVars
  <2>2. halted = FALSE
    BY <1>4, <2>1, Zenon
  <2>3. \A t \in Thread : Blocking(t)' => Owner'[t] = t
    BY ONLY <1>3, <2>1, <2>2, Zenon DEF Blocking
  <2>4. ASSUME NEW t \in Thread, Blocking(t)', HState'[t] = "WAITING"
        PROVE  t \in Range(waiters'[want'[t]])
    <3>1. Blocking(t)
      BY ONLY <2>1, <2>4, Zenon DEF Blocking
    <3>2. t \in Range(waiters[want[t]]) /\ want[t] \in WaitList /\ want[t] # u
      BY ONLY <1>2, <1>3, <2>1, <2>4, <3>1, u \in Thread, SMTT(40)
    <3>3. waiters'[want[t]] = waiters[want[t]]
      BY ONLY <1>1, <2>1, <3>2, Zenon
    <3> QED
      BY ONLY <2>1, <3>2, <3>3, Zenon
  <2>5. \A t \in Thread : Blocking(t)' /\ HState'[t] = "WAITING" =>
             t \in Range(waiters'[want'[t]])
    BY ONLY <2>4, Zenon
  <2>6. \A t \in Thread : State'[t] = "WAIT" =>
            pc'[t] = "dispose" /\ Owner'[t] = t /\ MaskWait'[t] = Mask'[t]
    <3>1. \A t \in Thread : State'[t] = "WAIT" => State[t] = "WAIT" /\ MaskWait'[t] = MaskWait[t]
      BY ONLY <1>1, <2>1, Zenon
    <3> QED
      BY ONLY <1>3, <2>1, <3>1, Zenon
  <2>7. Handles
    BY ONLY <2>3, <2>5, <2>6, Zenon
  <2> QED
    BY ONLY <1>5, <1>9, <2>1, <2>7, Zenon
<1>20. CASE TickInterrupt
  BY <1>2, <1>12, <1>20, Zenon DEF TickInterrupt, mutexVars
<1>21. CASE Kernel /\ ResumeAllEnd
  <2>1. /\ UNCHANGED <<pc, want>> /\ draining # Nil
        /\ State' = State /\ MaskWait' = MaskWait /\ HState' = HState /\ Owner' = Owner
        /\ Mask' = Mask /\ waiters' = waiters
    BY <1>21, Zenon DEF Kernel, ResumeAllEnd, handleVars, mutexVars
  <2>2. ~halted
    BY <1>1, <2>1, Zenon DEF IInv, SchedInv
  <2>3. \A t \in Thread : Blocking(t)' => Blocking(t) /\ want'[t] = want[t]
    BY ONLY <2>1, Zenon DEF Blocking
  <2>4. Handles
    BY ONLY <1>6, <2>1, <2>2, <2>3, Zenon
  <2> QED
    BY ONLY <1>5, <1>9, <2>1, <2>4, Zenon
<1>22. CASE Kernel /\ ResumeFirst
  <2> DEFINE h == Head(waiters[draining])
  <2>1. /\ UNCHANGED <<pc, want>> /\ draining # Nil /\ waiters[draining] # <<>>
        /\ _resume(h) /\ halted' = halted
    BY <1>22, Zenon DEF Kernel, ResumeFirst, mutexVars
  <2>2. h \in Handle /\ HState[h] = "WAITING"
    BY <1>1, <2>1, FirstIsWaiting, Zenon
  <2> HIDE DEF h
  <2>3. /\ \A t \in Thread : State[t] # State'[t] => State[t] = "WAIT" /\ State'[t] = "READY"
        /\ MaskWait' = MaskWait /\ Owner' = Owner /\ Mask' = Mask
    BY <1>1, <2>1, <2>2, ResumeFacts, Zenon
  <2>4. /\ HState' = [HState EXCEPT ![h] = "DONE"]
        /\ waiters' = [l \in WaitList |-> list_remove(waiters[l], h)]
    BY <2>1, Zenon DEF _resume
  <2>5. \A l \in WaitList : Range(waiters'[l]) = Range(waiters[l]) \ {h}
    BY <1>1, <2>2, <2>4, UnlinkFacts, Zenon
  <2>6. \A t \in Thread : Blocking(t)' => Blocking(t)
    BY ONLY <2>1, Zenon DEF Blocking
  <2>7. \A t \in Thread : Blocking(t)' /\ ~halted' => Owner'[t] = t
    BY ONLY <1>3, <2>1, <2>3, <2>6, Zenon
  <2>8. ASSUME NEW t \in Thread, Blocking(t)', HState'[t] = "WAITING"
        PROVE  t \in Range(waiters'[want'[t]])
    <3>1. HState[t] = "WAITING" /\ t # h
      BY ONLY <1>1, <1>2, <2>2, <2>4, <2>8, Zenon
    <3>2. t \in Range(waiters[want[t]]) /\ want[t] \in WaitList
      BY ONLY <1>2, <1>3, <2>6, <2>8, <3>1, Zenon
    <3> QED
      BY ONLY <2>1, <2>5, <3>1, <3>2, Zenon
  <2>9. \A t \in Thread : Blocking(t)' /\ HState'[t] = "WAITING" =>
             t \in Range(waiters'[want'[t]])
    BY ONLY <2>8, Zenon
  <2>10. \A t \in Thread : State'[t] = "WAIT" =>
            pc'[t] = "dispose" /\ Owner'[t] = t /\ MaskWait'[t] = Mask'[t]
    <3>1. \A t \in Thread : State'[t] = "WAIT" => State[t] = "WAIT"
      BY ONLY <2>3, Zenon
    <3> QED
      BY ONLY <1>3, <2>1, <2>3, <3>1, Zenon
  <2>11. Handles
    BY ONLY <2>7, <2>9, <2>10, Zenon
  <2> QED
    BY ONLY <1>5, <1>9, <2>1, <2>11, Zenon
<1> QED
  BY <1>10, <1>11, <1>13, <1>14, <1>15, <1>16, <1>17, <1>18, <1>19, <1>20, <1>21, <1>22, Zenon
  DEF MutexNext, Kernel, Drain

----------------------------------------------------------------------------
(* The theorems *)

LEMMA MInvInit == MutexInit => MInv
<1> SUFFICES ASSUME MutexInit PROVE MInv
  BY Zenon
<1>1. IInv
  BY InitIInv, Zenon DEF MutexInit
<1>2. /\ MOwner = [m \in Mutex |-> Nil] /\ MCount = [m \in Mutex |-> 0]
      /\ pc = [t \in Thread |-> "user"] /\ want = [t \in Thread |-> Nil]
      /\ depth = [t \in Thread |-> [m \in Mutex |-> 0]]
  BY Zenon DEF MutexInit
<1>3. /\ State = [t \in Thread |-> IF t \in {Main, Idle} THEN "READY" ELSE "DETACHED"]
      /\ waiters = [l \in WaitList |-> <<>>]
  BY Zenon DEF MutexInit, KernelInit
<1>4. Nil \notin Thread /\ Mutex \subseteq WaitList
  BY ObjectAssumption, MutexAssumption, Zenon DEF WaitList
<1>5. MutexTypeOK
  BY <1>1, <1>2, Zenon DEF MutexTypeOK, IInv
<1>6. CallInv
  BY ONLY <1>2, <1>3, Zenon DEF CallInv, Blocking
<1>7. HoldInv
  BY ONLY <1>2, <1>4 DEF HoldInv, InCall, Blocking
<1>8. FreeInv
  BY ONLY <1>3, <1>4, Zenon DEF FreeInv
<1> QED
  BY <1>1, <1>5, <1>6, <1>7, <1>8, Zenon DEF MInv

LEMMA MInvKeeps == ASSUME MInv, [MutexNext]_vars PROVE MInv'
<1>1. IInv'
  BY StepIsThreadStep, NextKeeps, Zenon DEF MInv
<1>2. CASE MutexNext
  <2>1. TypeOK'
    BY <1>1, Zenon DEF IInv
  <2>2. MutexTypeOK'
    BY <1>2, <2>1, HoldKeeps, Zenon DEF MutexTypeOK
  <2> QED
    BY <1>1, <1>2, <2>2, CallKeeps, HoldKeeps, FreeKeeps, Zenon DEF MInv
<1>3. CASE UNCHANGED vars
  <2>1. /\ UNCHANGED <<State, MaskWait, HState, Owner, Mask, waiters, draining, halted>>
        /\ UNCHANGED <<MOwner, MCount, pc, want, depth>>
    BY <1>3, Zenon DEF vars, kernelVars, threadVars, handleVars, sectionVars, mutexVars
  <2>2. MutexTypeOK'
    BY <1>1, <2>1, Zenon DEF IInv, MutexTypeOK, MInv
  <2>3. CallInv'
    BY <2>1, Zenon DEF MInv, CallInv, Blocking
  <2>4. HoldInv'
    BY <2>1, Zenon DEF MInv, HoldInv, Blocking, InCall
  <2>5. FreeInv'
    BY <2>1, Zenon DEF MInv, FreeInv
  <2> QED
    BY <1>1, <2>2, <2>3, <2>4, <2>5, Zenon DEF MInv
<1> QED
  BY <1>2, <1>3, Zenon

\* MInv holds in every state the callers of mutex.c reach.
THEOREM MutexInvariance == MutexSpec => []MInv
BY MInvInit, MInvKeeps, PTL DEF MutexSpec

\* What mutex.c does, the initialisation of the list of a free mutex included,
\* are steps the thread kernel allows its clients: whatever is proved of the
\* kernel holds while mutexes are used.
THEOREM MutexUsesThreads == MutexSpec => Spec
<1>1. MutexInit => KernelInit
  BY Zenon DEF MutexInit
<1>2. MInv /\ [MutexNext]_vars => [Next]_kernelVars
  BY StepIsThreadStep, Zenon
<1> QED
  BY <1>1, <1>2, MutexInvariance, PTL DEF MutexSpec, Spec

\* Owner and Count of a mutex say who holds it and how often, in the view of
\* the callers of exos_mutex_lock, _try and _unlock.
THEOREM MutexExclusion == MutexSpec => []MutualExclusion
<1>1. MInv => MutualExclusion
  BY Zenon DEF MInv, HoldInv, InCall, MutualExclusion
<1> QED
  BY <1>1, MutexInvariance, PTL

\* Whoever sleeps in exos_mutex_lock waits for another thread that owns the
\* mutex, and no waiter is left at a free one.
THEOREM NobodyOrphaned == MutexSpec => []NoOrphanWaiter
<1>1. ASSUME MInv, NEW t \in Thread, State[t] = "WAIT", want[t] \in Mutex, draining # want[t]
      PROVE  MOwner[want[t]] \notin {Nil, t}
  <2>1. pc[t] = "dispose" /\ Owner[t] = t /\ MaskWait[t] = Mask[t] /\ t \in Handle
    BY <1>1, MutexAssumption, Zenon DEF MInv, CallInv
  <2>2. Mask[t] # {} /\ HState[t] # "DETACHED"
    <3>1. Owner[t] # Nil
      BY <2>1, ObjectAssumption, Zenon
    <3> QED
      BY <1>1, <2>1, <3>1, Zenon DEF MInv, IInv, MaskExact
  <2>3. t \notin Pending[t]
    BY <1>1, <2>1, <2>2, Zenon DEF MInv, IInv, NoLostWakeup
  <2>4. HState[t] # "DONE"
    BY <1>1, <2>1, <2>3, Zenon DEF MInv, IInv, PlaceInv
  <2>5. HState[t] = "WAITING"
    BY <1>1, <2>1, <2>2, <2>4, Zenon DEF MInv, IInv, TypeOK
  <2>6. t \in Range(waiters[want[t]])
    BY <1>1, <2>1, <2>5, Zenon DEF MInv, CallInv, Blocking
  <2>7. waiters[want[t]] # <<>>
    BY <2>6 DEF Range
  <2>8. MOwner[want[t]] # Nil
    BY <1>1, <2>7, Zenon DEF MInv, FreeInv
  <2>9. MOwner[want[t]] # t
    BY <1>1, <2>1, Zenon DEF MInv, HoldInv, Blocking
  <2> QED
    BY <2>8, <2>9, Zenon
<1>2. MInv => NoOrphanWaiter
  BY <1>1, Zenon DEF NoOrphanWaiter, MInv, FreeInv
<1> QED
  BY <1>2, MutexInvariance, PTL

\* A step of mutex.c takes or gives back a lock that nobody else has.
LEMMA StepIsLockStep == ASSUME MInv, [MutexNext]_vars PROVE [L!Next]_depth
<1>1. /\ running \in Thread /\ depth \in [Thread -> [Mutex -> Nat]]
      /\ MCount \in [Mutex -> Nat]
      /\ \A t \in Thread, m \in Mutex :
           depth[t][m] + InCall(t, m) = IF MOwner[m] = t THEN MCount[m] ELSE 0
  BY Zenon DEF MInv, IInv, TypeOK, MutexTypeOK, HoldInv
<1>2. \A t \in Thread, m \in Mutex : MOwner[m] # t => depth[t][m] = 0
  <2>1. \A t \in Thread, m \in Mutex : depth[t][m] \in Nat /\ InCall(t, m) \in {0, 1}
    BY ONLY <1>1, Zenon DEF InCall
  <2> QED
    BY ONLY <1>1, <2>1
<1>3. ASSUME NEW m \in Mutex, MOwner[m] \in {Nil, running},
             depth' = [depth EXCEPT ![running][m] = @ + 1]
      PROVE  L!Next
  <2>1. \A u \in Thread \ {running} : depth[u][m] = 0
    BY ONLY <1>1, <1>2, <1>3, ObjectAssumption, Zenon
  <2>2. L!Acquire(running, m)
    BY <1>3, <2>1, Zenon DEF L!Acquire
  <2> QED
    BY <1>1, <2>2, Zenon DEF L!Next
<1>4. ASSUME NEW m \in Mutex, exos_mutex_unlock(m) PROVE L!Next
  <2>1. L!Release(running, m)
    BY <1>4, Zenon DEF exos_mutex_unlock, L!Release
  <2> QED
    BY <1>1, <2>1, Zenon DEF L!Next
<1>5. ASSUME NEW m \in Mutex, exos_mutex_try(m) PROVE [L!Next]_depth
  BY <1>3, <1>5, Zenon DEF exos_mutex_try, ___mutex_cond
<1>6. CASE LockTest
  <2>1. want[running] \in Mutex
    BY <1>1, <1>6, Zenon DEF LockTest, At, MInv, CallInv
  <2> QED
    BY <1>3, <1>6, <2>1, Zenon DEF LockTest
<1>7. CASE ~ \E m \in Mutex : exos_mutex_unlock(m) \/ exos_mutex_try(m)
  <2>1. \/ LockTest \/ depth' = depth
    BY <1>7, Zenon DEF MutexNext, exos_mutex_lock, LockAdd, Wait, Dispose, exos_thread_sleep, Create,
         TickInterrupt, Kernel, mutexVars, vars
  <2> QED
    BY <1>6, <2>1, Zenon
<1> QED
  BY <1>4, <1>5, <1>7, Zenon

\* The mutexes implement recursive locks: mutex.c, with its barging, its
\* handles and its wakeups, does nothing the module Lock forbids.
THEOREM MutexImplementsLock == MutexSpec => ImplementsLock
<1>1. MutexInit => L!Init
  BY Zenon DEF MutexInit, L!Init
<1>2. MInv /\ [MutexNext]_vars => [L!Next]_depth
  BY StepIsLockStep, Zenon
<1> QED
  BY <1>1, <1>2, MutexInvariance, PTL DEF MutexSpec, ImplementsLock, L!Spec
=============================================================================

--------------------------- MODULE ThreadsProofs ---------------------------
(***************************************************************************)
(* Proofs about the thread kernel, for any number of threads, handles,     *)
(* wait lists and mask bits and for any priorities.                        *)
(*                                                                         *)
(* The properties of Threads are not inductive one by one: a wakeup is     *)
(* delivered because a handle stands where its State says, and has a bit   *)
(* of its own; a thread may be started again because nothing was left on   *)
(* its lists when it ended.  IInv is their conjunction, with what a        *)
(* section that is still open owes the scheduler.                          *)
(***************************************************************************)
EXTENDS Threads, ListProofs

\* _ready, and who runs.  A section that is open and has changed the head of
\* _ready has pended a switch.
SchedInv ==
  /\ \A t \in Thread : State[t] = "READY" <=> t \in Range(ready)
  /\ Distinct(ready)
  /\ Ordered(ready, Priority)
  /\ State[Idle] = "READY"
  /\ draining = Nil => ~switchReq
  /\ switchReq \/ running = Head(ready)
  /\ halted => draining = Nil /\ MaskUsed[running] = Bit

\* Where the handles are.
PlaceInv ==
  /\ \A h \in Handle, t \in Thread : h \in Pending[t] <=> HState[h] = "DONE" /\ Owner[h] = t
  /\ \A h \in Handle : HState[h] = "WAITING" <=> \E l \in WaitList : h \in Range(waiters[l])
  /\ \A l \in WaitList : Distinct(waiters[l])
  /\ \A k, l \in WaitList : k # l => Range(waiters[k]) \cap Range(waiters[l]) = {}

IInv ==
  /\ TypeOK
  /\ SchedInv
  /\ PlaceInv
  /\ MaskExact
  /\ NoLostWakeup
  /\ EndedIsClean

----------------------------------------------------------------------------
(* Facts about one state *)

LEMMA HeadOfReady ==
  ASSUME IInv
  PROVE  /\ ready # <<>>
         /\ Head(ready) \in Range(ready)
         /\ draining = Nil => running = Head(ready) /\ State[running] = "READY"
<1>1. ready \in Seq(Thread) /\ Idle \in Range(ready)
  BY ThreadAssumption, Zenon DEF IInv, TypeOK, SchedInv
<1>2. ready # <<>>
  BY <1>1 DEF Range
<1>3. Head(ready) \in Range(ready)
  <2>1. Len(ready) \in Nat /\ DOMAIN ready = 1..Len(ready) /\ Len(ready) # 0
    BY <1>1, <1>2, LenProperties, EmptySeq, Zenon
  <2> QED
    BY <2>1, <1>2 DEF Range
<1>4. draining = Nil => running = Head(ready) /\ State[running] = "READY"
  BY <1>3, Zenon DEF IInv, TypeOK, SchedInv
<1> QED
  BY <1>2, <1>3, <1>4, Zenon

\* The head of any list that is not empty, for __kernel_schedule.
LEMMA ScheduleFacts ==
  ASSUME NEW queue \in Seq(Thread), Idle \in Range(queue), EndSection(queue, TRUE)
  PROVE  /\ running' = Head(queue)
         /\ running' \in Thread
         /\ draining' = Nil /\ switchReq' = FALSE /\ halted' = FALSE
<1>1. queue # <<>>
  BY DEF Range
<1>2. Head(queue) \in Thread
  BY <1>1, HeadTailProperties, Zenon
<1> QED
  BY <1>1, <1>2, Zenon DEF EndSection, __kernel_schedule

LEMMA InitIInv == KernelInit => IInv
<1> SUFFICES ASSUME KernelInit PROVE IInv
  BY Zenon
<1> USE ThreadAssumption DEF KernelInit
<1>1. ready \in Seq(Thread) /\ DOMAIN ready = 1..2 /\ ready[1] = Main /\ ready[2] = Idle
  OBVIOUS
<1>2. Range(ready) = {Main, Idle}
  BY <1>1 DEF Range
<1>3. TypeOK
  <2>1. ready \in Seq(Thread) /\ running \in Thread
    BY <1>1, Zenon
  <2>2. /\ State \in [Thread -> {"DETACHED", "READY", "WAIT"}]
        /\ MaskUsed \in [Thread -> SUBSET Bit]
        /\ MaskWait \in [Thread -> SUBSET Bit]
        /\ Pending \in [Thread -> SUBSET Handle]
    BY Zenon
  <2>3. /\ HState \in [Handle -> {"DETACHED", "WAITING", "DONE"}]
        /\ Owner \in [Handle -> Thread \cup {Nil}]
        /\ Mask \in [Handle -> SUBSET Bit]
    BY Zenon
  <2>4. waiters \in [WaitList -> Seq(Handle)]
    BY EmptySeq, Zenon
  <2> QED
    BY <2>1, <2>2, <2>3, <2>4, Zenon DEF TypeOK
<1>4. SchedInv
  <2>1. Distinct(ready)
    BY <1>1 DEF Distinct
  <2>2. Ordered(ready, Priority)
    BY <1>1 DEF Ordered
  <2>3. Head(ready) = Main
    OBVIOUS
  <2> QED
    BY <1>2, <2>1, <2>2, <2>3, Zenon DEF SchedInv
<1>5. PlaceInv
  <2>1. \A l \in WaitList : Range(waiters[l]) = {} /\ Distinct(waiters[l])
    BY DEF Range, Distinct
  <2> QED
    BY <2>1, Zenon DEF PlaceInv
<1>6. MaskExact
  BY ObjectAssumption, Zenon DEF MaskExact, Live
<1>7. NoLostWakeup /\ EndedIsClean
  BY ObjectAssumption, Zenon DEF NoLostWakeup, EndedIsClean, Live, WaitList
<1> QED
  BY <1>3, <1>4, <1>5, <1>6, <1>7, Zenon DEF IInv

----------------------------------------------------------------------------
(* The operations on threads *)

\* A removal keeps the order of priorities.
LEMMA RemoveKeepsOrder ==
  ASSUME NEW list \in Seq(Thread), Distinct(list), Ordered(list, Priority),
         NEW t, NEW new, new = list_remove(list, t)
  PROVE  Ordered(new, Priority)
<1>1. \A i, j \in DOMAIN new : i < j =>
        \E m, n \in DOMAIN list : m < n /\ new[i] = list[m] /\ new[j] = list[n]
  BY RemoveFacts
<1> QED
  BY <1>1 DEF Ordered

LEMMA CreateKeeps ==
  ASSUME IInv, NEW t \in Thread, exos_thread_create(t)
  PROVE  IInv' /\ ready' = list_enqueue(ready, t, Priority)
<1> USE DEF exos_thread_create
<1>1. ready \in Seq(Thread) /\ t \notin Range(ready) /\ Priority \in [Thread -> Int]
  BY ThreadAssumption, Zenon DEF IInv, TypeOK, SchedInv
<1>2. /\ ready' \in Seq(Thread)
      /\ Range(ready') = Range(ready) \cup {t}
      /\ Distinct(ready') /\ Ordered(ready', Priority)
  BY <1>1, EnqueueFacts DEF IInv, SchedInv
<1>3. Idle \in Range(ready')
  BY <1>2, ThreadAssumption, Zenon DEF IInv, SchedInv
<1>4. /\ running' = Head(ready') /\ running' \in Thread
      /\ draining' = Nil /\ switchReq' = FALSE /\ halted' = FALSE
  BY <1>2, <1>3, ScheduleFacts, Zenon
<1>5. MaskUsed[t] = {} /\ Pending[t] = {} /\ waiters[t] = <<>>
  <2>1. Live(t) = {} /\ waiters[t] = <<>>
    BY ObjectAssumption, Zenon DEF IInv, EndedIsClean, Calling, Outside
  <2> QED
    BY <2>1 DEF IInv, TypeOK, MaskExact, PlaceInv, Live
<1>6. MaskUsed' = MaskUsed /\ Pending' = Pending /\ waiters' = waiters
  BY <1>5, Zenon DEF IInv, TypeOK, WaitList
<1>7. /\ State' = [State EXCEPT ![t] = "READY"]
      /\ State \in [Thread -> {"DETACHED", "READY", "WAIT"}]
  BY Zenon DEF IInv, TypeOK
<1>8. TypeOK'
  BY <1>2, <1>4, <1>6, Zenon DEF IInv, TypeOK
<1>9. SchedInv'
  BY <1>2, <1>4, <1>7, ThreadAssumption, Zenon DEF IInv, SchedInv
<1>10. PlaceInv' /\ MaskExact'
  <2>1. UNCHANGED <<HState, Owner, Mask>>
    BY Zenon
  <2> HIDE DEF exos_thread_create
  <2> QED
    BY <1>6, <2>1 DEF IInv, PlaceInv, MaskExact, Live
<1>11. NoLostWakeup'
  BY <1>6, <1>7, Zenon DEF IInv, TypeOK, NoLostWakeup
<1>12. EndedIsClean'
  BY <1>4, <1>6, <1>7, ObjectAssumption DEF IInv, EndedIsClean, Live, Calling, Outside
<1> QED
  BY <1>8, <1>9, <1>10, <1>11, <1>12, Zenon DEF IInv

LEMMA ExitKeeps ==
  ASSUME IInv, exos_thread_exit
  PROVE  IInv' /\ ready' = list_remove(ready, running)
<1> USE DEF exos_thread_exit, ThenResumeAll
<1>1. /\ ready \in Seq(Thread) /\ running \in Thread /\ running # Idle
      /\ Distinct(ready) /\ Ordered(ready, Priority)
  BY Zenon DEF IInv, TypeOK, SchedInv, Calling
<1>2. /\ ready' \in Seq(Thread)
      /\ Range(ready') = Range(ready) \ {running}
      /\ Distinct(ready') /\ Ordered(ready', Priority)
  BY <1>1, RemoveFacts, RemoveKeepsOrder
<1>3. /\ State' = [State EXCEPT ![running] = "DETACHED"]
      /\ State \in [Thread -> {"DETACHED", "READY", "WAIT"}]
  BY Zenon DEF IInv, TypeOK
<1>4. TypeOK'
  BY <1>1, <1>2, Zenon DEF IInv, TypeOK, handleVars, WaitList
<1>5. SchedInv'
  <2>1. \A u \in Thread : State'[u] = "READY" <=> u \in Range(ready')
    BY <1>1, <1>2, <1>3, Zenon DEF IInv, SchedInv
  <2> QED
    BY <1>1, <1>2, <1>3, <2>1, ObjectAssumption, ThreadAssumption, Zenon
       DEF IInv, SchedInv, Calling, Outside
<1>6. PlaceInv' /\ MaskExact'
  BY DEF IInv, PlaceInv, MaskExact, Live, handleVars
<1>7. NoLostWakeup'
  BY <1>3, Zenon DEF IInv, TypeOK, NoLostWakeup, handleVars
<1>8. EndedIsClean'
  <2>1. draining = Nil /\ Live(running) = {}
    BY Zenon DEF Calling, Outside, Live
  <2> QED
    BY <2>1, <1>3, ObjectAssumption DEF IInv, EndedIsClean, Live, handleVars
<1> QED
  BY <1>4, <1>5, <1>6, <1>7, <1>8, Zenon DEF IInv

\* What the handles and the masks depend on.
LEMMA HandlesUnchanged ==
  ASSUME PlaceInv, MaskExact, UNCHANGED <<MaskUsed, Pending, HState, Owner, Mask, waiters>>
  PROVE  PlaceInv' /\ MaskExact' /\ \A t \in Thread : Live(t)' = Live(t)
<1>1. /\ MaskUsed' = MaskUsed /\ Pending' = Pending /\ HState' = HState
      /\ Owner' = Owner /\ Mask' = Mask /\ waiters' = waiters
  BY Zenon
<1>2. PlaceInv'
  <2>1. \A h \in Handle, t \in Thread :
          h \in Pending'[t] <=> HState'[h] = "DONE" /\ Owner'[h] = t
    BY ONLY PlaceInv, <1>1, Zenon DEF PlaceInv
  <2>2. \A h \in Handle :
          HState'[h] = "WAITING" <=> \E l \in WaitList : h \in Range(waiters'[l])
    BY ONLY PlaceInv, <1>1, Zenon DEF PlaceInv
  <2>3. \A l \in WaitList : Distinct(waiters'[l])
    BY ONLY PlaceInv, <1>1, Zenon DEF PlaceInv
  <2>4. \A k, l \in WaitList : k # l => Range(waiters'[k]) \cap Range(waiters'[l]) = {}
    BY ONLY PlaceInv, <1>1, Zenon DEF PlaceInv
  <2> QED
    BY ONLY <2>1, <2>2, <2>3, <2>4, Zenon DEF PlaceInv
<1>3. \A t \in Thread : Live(t)' = Live(t)
  BY ONLY <1>1, Zenon DEF Live
<1>4. MaskExact'
  BY ONLY MaskExact, <1>1 DEF MaskExact, Live
<1> QED
  BY <1>2, <1>3, <1>4, Zenon

LEMMA StutterKeeps == ASSUME IInv, UNCHANGED kernelVars PROVE IInv'
<1>1. /\ UNCHANGED <<MaskUsed, Pending, HState, Owner, Mask, waiters>>
      /\ UNCHANGED <<ready, running, State, MaskWait, draining, switchReq, halted>>
  BY Zenon DEF kernelVars, threadVars, handleVars, sectionVars
<1>2. TypeOK /\ SchedInv /\ PlaceInv /\ MaskExact /\ NoLostWakeup /\ EndedIsClean
  BY Zenon DEF IInv
<1>3. TypeOK'
  BY ONLY <1>1, <1>2, Zenon DEF TypeOK
<1>4. SchedInv'
  BY ONLY <1>1, <1>2, Zenon DEF SchedInv
<1>5. PlaceInv' /\ MaskExact' /\ \A t \in Thread : Live(t)' = Live(t)
  BY ONLY <1>1, <1>2, HandlesUnchanged, Zenon
<1>6. NoLostWakeup'
  BY ONLY <1>1, <1>2, Zenon DEF NoLostWakeup
<1>7. EndedIsClean'
  BY ONLY <1>1, <1>2, <1>5, Zenon DEF EndedIsClean
<1> QED
  BY <1>3, <1>4, <1>5, <1>6, <1>7, Zenon DEF IInv

LEMMA WaitKeeps ==
  ASSUME IInv, NEW mask \in SUBSET Bit, exos_thread_wait(mask)
  PROVE  IInv' /\ ready' \in {ready, list_remove(ready, running)}
<1> USE DEF exos_thread_wait
<1>1. CASE \E h \in Pending[running] : Mask[h] \cap mask # {}
  <2>1. UNCHANGED kernelVars
    BY <1>1, Zenon
  <2>2. ready' = ready
    BY <2>1, Zenon DEF kernelVars, threadVars
  <2> QED
    BY ONLY IInv, <2>1, <2>2, StutterKeeps, Zenon
<1>2. CASE ~ \E h \in Pending[running] : Mask[h] \cap mask # {}
  <2>1. /\ ready' = list_remove(ready, running)
        /\ State' = [State EXCEPT ![running] = "WAIT"]
        /\ MaskWait' = [MaskWait EXCEPT ![running] = mask]
        /\ EndSection(ready', TRUE)
        /\ UNCHANGED <<MaskUsed, Pending, HState, Owner, Mask, waiters>>
    BY <1>2, Zenon DEF handleVars
  <2>2. /\ ready \in Seq(Thread) /\ running \in Thread /\ running # Idle
        /\ Distinct(ready) /\ Ordered(ready, Priority)
    BY Zenon DEF IInv, TypeOK, SchedInv, Calling
  <2>3. /\ ready' \in Seq(Thread)
        /\ Range(ready') = Range(ready) \ {running}
        /\ Distinct(ready') /\ Ordered(ready', Priority)
    BY <2>1, <2>2, RemoveFacts, RemoveKeepsOrder, Zenon
  <2>4. Idle \in Range(ready')
    BY <2>2, <2>3, ThreadAssumption, Zenon DEF IInv, SchedInv
  <2>5. /\ running' = Head(ready') /\ running' \in Thread
        /\ draining' = Nil /\ switchReq' = FALSE /\ halted' = FALSE
    BY <2>1, <2>3, <2>4, ScheduleFacts, Zenon
  <2>6. State \in [Thread -> {"DETACHED", "READY", "WAIT"}] /\ MaskWait \in [Thread -> SUBSET Bit]
    BY Zenon DEF IInv, TypeOK
  <2>7. TypeOK'
    BY <2>1, <2>3, <2>5, Zenon DEF IInv, TypeOK
  <2>8. SchedInv'
    <3>1. \A u \in Thread : State'[u] = "READY" <=> u \in Range(ready')
      BY <2>1, <2>2, <2>3, <2>6, Zenon DEF IInv, SchedInv
    <3> QED
      BY <2>3, <2>4, <2>5, <3>1, ThreadAssumption, Zenon DEF SchedInv
  <2>9. PlaceInv' /\ MaskExact'
    <3>1. PlaceInv /\ MaskExact
      BY Zenon DEF IInv
    <3> QED
      BY ONLY <2>1, <3>1, HandlesUnchanged, Zenon
  <2>10. NoLostWakeup'
    BY <1>2, <2>1, <2>2, <2>6, Zenon DEF IInv, NoLostWakeup
  <2>11. EndedIsClean'
    BY <2>1, <2>2, <2>5, <2>6, ObjectAssumption, Zenon DEF IInv, EndedIsClean, Live, Calling, Outside
  <2> QED
    BY <2>1, <2>7, <2>8, <2>9, <2>10, <2>11, Zenon DEF IInv
<1> QED
  BY <1>1, <1>2, Zenon

----------------------------------------------------------------------------
(* The operations on wait handles *)

\* A handle that is not on a list in use can be put on one.
LEMMA AddKeeps ==
  ASSUME IInv, Calling, NEW h \in Handle, HState[h] = "DETACHED", NEW list \in WaitList,
         list \in Thread => State[list] # "DETACHED", ___add_handle(h, list)
  PROVE  IInv' /\ UNCHANGED <<ready, State>>
<1>1. list # Nil /\ draining = Nil /\ running \in Thread /\ State[running] = "READY"
  BY ObjectAssumption, HeadOfReady, Zenon DEF Calling, Outside, WaitList, IInv, TypeOK
<1>2. CASE MaskUsed[running] = Bit
  <2>1. halted' = TRUE /\ UNCHANGED <<threadVars, handleVars, draining, switchReq>>
    BY <1>1, <1>2, Zenon DEF ___add_handle
  <2>2. TypeOK'
    BY <2>1, Zenon DEF IInv, TypeOK, threadVars, handleVars
  <2>3. SchedInv'
    BY <1>1, <1>2, <2>1, Zenon DEF IInv, SchedInv, threadVars, handleVars
  <2>4. PlaceInv' /\ MaskExact'
    BY <2>1 DEF IInv, PlaceInv, MaskExact, Live, threadVars, handleVars
  <2>5. NoLostWakeup' /\ EndedIsClean'
    BY <2>1, Zenon DEF IInv, NoLostWakeup, EndedIsClean, Live, threadVars, handleVars
  <2> QED
    BY <2>1, <2>2, <2>3, <2>4, <2>5, Zenon DEF IInv, threadVars
<1>3. CASE MaskUsed[running] # Bit
  <2> DEFINE b == _alloc_mask
  <2>1. b \in Bit \ MaskUsed[running]
    <3>1. Bit \ MaskUsed[running] \subseteq Nat /\ Bit \ MaskUsed[running] # {}
      BY <1>1, <1>3, BitAssumption, Zenon DEF IInv, TypeOK
    <3> QED
      BY <3>1, LeastNatural, Zenon DEF _alloc_mask
  <2>2. /\ MaskUsed' = [MaskUsed EXCEPT ![running] = @ \cup {b}]
        /\ Mask' = [Mask EXCEPT ![h] = {b}]
        /\ HState' = [HState EXCEPT ![h] = "WAITING"]
        /\ Owner' = [Owner EXCEPT ![h] = running]
        /\ waiters' = [waiters EXCEPT ![list] = list_add_tail(@, h)]
        /\ UNCHANGED <<ready, running, State, MaskWait, Pending, draining, switchReq, halted>>
    BY <1>1, <1>3, Zenon DEF ___add_handle, sectionVars
  <2> HIDE DEF b
  <2>3. /\ MaskUsed \in [Thread -> SUBSET Bit] /\ Mask \in [Handle -> SUBSET Bit]
        /\ HState \in [Handle -> {"DETACHED", "WAITING", "DONE"}]
        /\ Owner \in [Handle -> Thread \cup {Nil}]
        /\ waiters \in [WaitList -> Seq(Handle)]
    BY Zenon DEF IInv, TypeOK
  <2>4. /\ \A l \in WaitList : h \notin Range(waiters[l])
        /\ Owner[h] = Nil /\ Mask[h] = {} /\ \A t \in Thread : h \notin Pending[t]
    BY Zenon DEF IInv, PlaceInv, MaskExact
  <2>5. /\ waiters'[list] \in Seq(Handle)
        /\ Range(waiters'[list]) = Range(waiters[list]) \cup {h}
        /\ Distinct(waiters'[list])
    <3>1. waiters'[list] = list_add_tail(waiters[list], h) /\ waiters[list] \in Seq(Handle)
      BY <2>2, <2>3, Zenon
    <3>2. Distinct(waiters[list])
      BY Zenon DEF IInv, PlaceInv
    <3>3. h \notin Range(waiters[list])
      BY <2>4, Zenon
    <3> DEFINE old == waiters[list]
               new == waiters'[list]
    <3>4. new = list_add_tail(old, h) /\ old \in Seq(Handle) /\ Distinct(old) /\ h \notin Range(old)
      BY <3>1, <3>2, <3>3, Zenon
    <3> HIDE DEF old, new
    <3>5. new \in Seq(Handle) /\ Range(new) = Range(old) \cup {h} /\ Distinct(new)
      BY <3>4, AddTailFacts
    <3> QED
      BY <3>5, Zenon DEF old, new
  <2>6. \A l \in WaitList : l # list => waiters'[l] = waiters[l]
    BY <2>2, <2>3, Zenon
  <2>7. TypeOK'
    <3>1. waiters' \in [WaitList -> Seq(Handle)]
      BY <2>2, <2>3, <2>5, Zenon
    <3>2. /\ MaskUsed' \in [Thread -> SUBSET Bit] /\ Mask' \in [Handle -> SUBSET Bit]
          /\ HState' \in [Handle -> {"DETACHED", "WAITING", "DONE"}]
          /\ Owner' \in [Handle -> Thread \cup {Nil}]
      BY <1>1, <2>1, <2>2, <2>3, Zenon
    <3> QED
      BY <2>2, <3>1, <3>2, Zenon DEF IInv, TypeOK
  <2>8. SchedInv'
    BY <1>1, <2>2, Zenon DEF IInv, SchedInv, Calling, Outside
  <2>9. PlaceInv'
    <3>1. \A g \in Handle, t \in Thread : g \in Pending'[t] <=> HState'[g] = "DONE" /\ Owner'[g] = t
      BY <2>2, <2>3, <2>4 DEF IInv, PlaceInv
    <3>2. \A g \in Handle : HState'[g] = "WAITING" <=> \E l \in WaitList : g \in Range(waiters'[l])
      <4>1. HState'[h] = "WAITING" /\ h \in Range(waiters'[list])
        BY <2>2, <2>3, <2>5, Zenon
      <4>2. ASSUME NEW g \in Handle, g # h
            PROVE  /\ HState'[g] = HState[g]
                   /\ \A l \in WaitList : g \in Range(waiters'[l]) <=> g \in Range(waiters[l])
        BY <2>2, <2>3, <2>5, <2>6, <4>2, Zenon
      <4>3. \A g \in Handle : HState[g] = "WAITING" <=> \E l \in WaitList : g \in Range(waiters[l])
        BY Zenon DEF IInv, PlaceInv
      <4> QED
        BY <4>1, <4>2, <4>3
    <3>3. \A l \in WaitList : Distinct(waiters'[l])
      BY <2>5, <2>6, Zenon DEF IInv, PlaceInv
    <3>4. \A k, l \in WaitList : k # l => Range(waiters'[k]) \cap Range(waiters'[l]) = {}
      BY <2>4, <2>5, <2>6 DEF IInv, PlaceInv
    <3> QED
      BY <3>1, <3>2, <3>3, <3>4, Zenon DEF PlaceInv
  <2>10. MaskExact'
    <3>1. \A t \in Thread : Live(t)' = IF t = running THEN Live(t) \cup {h} ELSE Live(t)
      BY <1>1, <2>2, <2>3, <2>4, ObjectAssumption, Zenon DEF Live
    <3>2. \A g \in Handle : g # h => Mask'[g] = Mask[g] /\ Owner'[g] = Owner[g] /\ HState'[g] = HState[g]
      BY <2>2, <2>3, Zenon
    <3>3. Mask'[h] = {b} /\ Owner'[h] = running /\ HState'[h] = "WAITING" /\ running # Nil
      BY <1>1, <2>2, <2>3, ObjectAssumption, Zenon
    <3>4. \A t \in Thread : MaskUsed'[t] = UNION {Mask'[g] : g \in Live(t)'}
      <4>1. ASSUME NEW t \in Thread
            PROVE  MaskUsed'[t] = UNION {Mask'[g] : g \in Live(t)'}
        <5>1. MaskUsed[t] = UNION {Mask[g] : g \in Live(t)} /\ h \notin Live(t)
          BY <2>4, ObjectAssumption, Zenon DEF IInv, MaskExact, Live
        <5>2. Live(t) \subseteq Handle
          BY Zenon DEF Live
        <5>3. CASE t = running
          <6>1. MaskUsed'[t] = MaskUsed[t] \cup {b} /\ Live(t)' = Live(t) \cup {h}
            BY <5>3, <2>2, <2>3, <3>1, Zenon
          <6>2. \A g \in Live(t) : Mask'[g] = Mask[g]
            BY ONLY <5>1, <5>2, <3>2, Zenon
          <6>3. \A c : c \in MaskUsed[t] <=> \E g \in Live(t) : c \in Mask[g]
            BY ONLY <5>1, Zenon
          <6>4. \A c : c \in MaskUsed'[t] <=> \E g \in Live(t)' : c \in Mask'[g]
            BY ONLY <6>1, <6>2, <6>3, <3>3, Zenon
          <6> QED
            BY ONLY <6>4, Zenon
        <5>4. CASE t # running
          <6>1. MaskUsed'[t] = MaskUsed[t] /\ Live(t)' = Live(t)
            BY <5>4, <2>2, <2>3, <3>1, Zenon
          <6> QED
            BY ONLY <5>1, <5>2, <6>1, <3>2
        <5> QED
          BY <5>3, <5>4, Zenon
      <4> QED
        BY <4>1, Zenon
    <3>5. \A g \in Handle : g # h /\ Owner[g] = running => b \notin Mask[g]
      <4>1. MaskUsed[running] = UNION {Mask[g] : g \in Live(running)}
        BY <1>1, Zenon DEF IInv, MaskExact
      <4>2. \A g \in Handle : Owner[g] = running => g \in Live(running)
        BY ONLY TRUE, Zenon DEF Live
      <4> QED
        BY ONLY <2>1, <4>1, <4>2, Zenon
    <3>6. \A f, g \in Handle : f # g /\ Owner'[f] = Owner'[g] => Mask'[f] \cap Mask'[g] = {}
      BY <3>2, <3>3, <3>5 DEF IInv, MaskExact
    <3>7. \A g \in Handle : /\ HState'[g] = "DETACHED" <=> Owner'[g] = Nil
                            /\ IF Owner'[g] = Nil THEN Mask'[g] = {} ELSE \E c \in Bit : Mask'[g] = {c}
      BY <2>1, <3>2, <3>3 DEF IInv, MaskExact
    <3> QED
      BY <3>4, <3>6, <3>7, Zenon DEF MaskExact
  <2>11. NoLostWakeup'
    BY <2>2, <2>3, <2>4, Zenon DEF IInv, TypeOK, NoLostWakeup
  <2>12. EndedIsClean'
    <3>1. ASSUME NEW t \in Thread, State[t] = "DETACHED"
          PROVE  waiters'[t] = <<>> /\ Live(t)' = {}
      <4>1. t # list /\ t # running /\ waiters[t] = <<>> /\ Live(t) = {} /\ t # Nil
        BY <3>1, <1>1, ObjectAssumption, Zenon DEF IInv, EndedIsClean
      <4> QED
        BY <4>1, <2>2, <2>3, <2>6, Zenon DEF Live, WaitList
    <3> QED
      BY <3>1, <2>2, Zenon DEF EndedIsClean
  <2> QED
    BY <2>2, <2>7, <2>8, <2>9, <2>10, <2>11, <2>12, Zenon DEF IInv
<1> QED
  BY <1>2, <1>3, Zenon

\* What taking a handle off whatever list it is on does to the wait lists.
LEMMA UnlinkFacts ==
  ASSUME IInv, NEW h \in Handle, waiters' = [l \in WaitList |-> list_remove(waiters[l], h)]
  PROVE  /\ waiters' \in [WaitList -> Seq(Handle)]
         /\ \A l \in WaitList : /\ Range(waiters'[l]) = Range(waiters[l]) \ {h}
                                /\ Distinct(waiters'[l])
                                /\ h \notin Range(waiters[l]) => waiters'[l] = waiters[l]
<1>1. ASSUME NEW l \in WaitList
      PROVE  /\ waiters'[l] \in Seq(Handle)
             /\ Range(waiters'[l]) = Range(waiters[l]) \ {h}
             /\ Distinct(waiters'[l])
             /\ h \notin Range(waiters[l]) => waiters'[l] = waiters[l]
  <2> DEFINE old == waiters[l]
             new == waiters'[l]
  <2>1. new = list_remove(old, h) /\ old \in Seq(Handle) /\ Distinct(old)
    BY Zenon DEF IInv, TypeOK, PlaceInv
  <2> HIDE DEF old, new
  <2>2. /\ new \in Seq(Handle) /\ Range(new) = Range(old) \ {h} /\ Distinct(new)
        /\ h \notin Range(old) => new = old
    BY <2>1, RemoveFacts
  <2> QED
    BY <2>2, Zenon DEF old, new
<1> QED
  BY <1>1, Zenon

\* An empty list stays empty when a handle is taken off it.
LEMMA EmptyStaysEmpty ==
  ASSUME IInv, NEW h \in Handle, waiters' = [l \in WaitList |-> list_remove(waiters[l], h)],
         NEW l \in WaitList, waiters[l] = <<>>
  PROVE  waiters'[l] = <<>>
<1>1. h \notin Range(waiters[l])
  BY DEF Range
<1> QED
  BY <1>1, UnlinkFacts, Zenon

LEMMA DisposeKeeps ==
  ASSUME IInv, NEW h \in Handle, exos_thread_dispose_wait_handle(h)
  PROVE  IInv' /\ UNCHANGED <<ready, State>>
<1>1. /\ waiters' = [l \in WaitList |-> list_remove(waiters[l], h)]
      /\ Pending' = [t \in Thread |-> Pending[t] \ {h}]
      /\ HState' = [HState EXCEPT ![h] = "DETACHED"]
      /\ MaskUsed' = [t \in Thread |->
           IF t = Owner[h] THEN MaskUsed[t] \ Mask[h] ELSE MaskUsed[t]]
      /\ Owner' = [Owner EXCEPT ![h] = Nil]
      /\ Mask' = [Mask EXCEPT ![h] = {}]
      /\ UNCHANGED <<ready, running, State, MaskWait, draining, switchReq, halted>>
      /\ draining = Nil /\ ~halted
  BY Zenon DEF exos_thread_dispose_wait_handle, Calling, Outside, sectionVars
<1>2. /\ MaskUsed \in [Thread -> SUBSET Bit] /\ Mask \in [Handle -> SUBSET Bit]
      /\ HState \in [Handle -> {"DETACHED", "WAITING", "DONE"}]
      /\ Owner \in [Handle -> Thread \cup {Nil}] /\ Pending \in [Thread -> SUBSET Handle]
  BY Zenon DEF IInv, TypeOK
<1>3. /\ waiters' \in [WaitList -> Seq(Handle)]
      /\ \A l \in WaitList : Range(waiters'[l]) = Range(waiters[l]) \ {h} /\ Distinct(waiters'[l])
  BY <1>1, UnlinkFacts, Zenon
<1>4. /\ \A g \in Handle : g # h =>
           Mask'[g] = Mask[g] /\ Owner'[g] = Owner[g] /\ HState'[g] = HState[g]
      /\ Mask'[h] = {} /\ Owner'[h] = Nil /\ HState'[h] = "DETACHED"
  BY <1>1, <1>2, Zenon
<1>5. TypeOK'
  <2>1. MaskUsed' \in [Thread -> SUBSET Bit] /\ Pending' \in [Thread -> SUBSET Handle]
    BY <1>1, <1>2, Zenon
  <2>2. /\ Mask' \in [Handle -> SUBSET Bit]
        /\ HState' \in [Handle -> {"DETACHED", "WAITING", "DONE"}]
        /\ Owner' \in [Handle -> Thread \cup {Nil}]
    BY <1>1, <1>2, Zenon
  <2> QED
    BY <1>1, <1>3, <2>1, <2>2, Zenon DEF IInv, TypeOK
<1>6. SchedInv'
  BY <1>1, Zenon DEF IInv, SchedInv
<1>7. PlaceInv'
  <2>1. \A g \in Handle, t \in Thread : g \in Pending'[t] <=> HState'[g] = "DONE" /\ Owner'[g] = t
    <3>1. \A g \in Handle, t \in Thread : g \in Pending[t] <=> HState[g] = "DONE" /\ Owner[g] = t
      BY Zenon DEF IInv, PlaceInv
    <3>2. \A g \in Handle, t \in Thread : g \in Pending'[t] <=> g \in Pending[t] /\ g # h
      <4>1. Pending' = [t \in Thread |-> Pending[t] \ {h}]
        BY <1>1, Zenon
      <4> QED
        BY ONLY <4>1, Zenon
    <3>3. ASSUME NEW g \in Handle, NEW t \in Thread
          PROVE  g \in Pending'[t] <=> HState'[g] = "DONE" /\ Owner'[g] = t
      <4>1. CASE g = h
        BY ONLY <1>4, <3>2, <4>1, g \in Handle, t \in Thread, Zenon
      <4>2. CASE g # h
        <5>1. HState'[g] = HState[g] /\ Owner'[g] = Owner[g]
          BY ONLY <1>4, <4>2, g \in Handle, Zenon
        <5> QED
          BY ONLY <3>1, <3>2, <4>2, <5>1, g \in Handle, t \in Thread, ZenonT(40)
      <4> QED
        BY ONLY <4>1, <4>2, Zenon
    <3> QED
      BY ONLY <3>3, Zenon
  <2>2. \A g \in Handle : HState'[g] = "WAITING" <=> \E l \in WaitList : g \in Range(waiters'[l])
    <3>1. \A g \in Handle : HState[g] = "WAITING" <=> \E l \in WaitList : g \in Range(waiters[l])
      BY Zenon DEF IInv, PlaceInv
    <3>2. \A g \in Handle, l \in WaitList : g \in Range(waiters'[l]) <=> g \in Range(waiters[l]) /\ g # h
      BY ONLY <1>3, Zenon
    <3> QED
      BY ONLY <3>1, <3>2, <1>4
  <2>3. \A k, l \in WaitList : k # l => Range(waiters'[k]) \cap Range(waiters'[l]) = {}
    BY <1>3, Zenon DEF IInv, PlaceInv
  <2> QED
    BY <1>3, <2>1, <2>2, <2>3, Zenon DEF PlaceInv
<1>8. MaskExact'
  <2>1. \A t \in Thread : Live(t)' = Live(t) \ {h}
    BY <1>4, ObjectAssumption, Zenon DEF Live
  <2>2. ASSUME NEW t \in Thread
        PROVE  MaskUsed'[t] = UNION {Mask'[g] : g \in Live(t)'}
    <3>1. MaskUsed[t] = UNION {Mask[g] : g \in Live(t)} /\ Live(t) \subseteq Handle
      BY Zenon DEF IInv, MaskExact, Live
    <3>2. CASE t = Owner[h]
      <4>1. MaskUsed'[t] = MaskUsed[t] \ Mask[h]
        BY <3>2, <1>1, Zenon
      <4>2. \A g \in Live(t) : g # h => Mask[g] \cap Mask[h] = {} /\ Mask'[g] = Mask[g]
        BY <3>1, <3>2, <1>4, Zenon DEF IInv, MaskExact, Live
      <4> QED
        BY <4>1, <4>2, <3>1, <2>1
    <3>3. CASE t # Owner[h]
      <4>1. MaskUsed'[t] = MaskUsed[t] /\ h \notin Live(t)
        BY <3>3, <1>1, Zenon DEF Live
      <4>2. \A g \in Live(t) : Mask'[g] = Mask[g]
        BY <4>1, <3>1, <1>4, Zenon
      <4> QED
        BY <4>1, <4>2, <3>1, <2>1
    <3> QED
      BY <3>2, <3>3, Zenon
  <2>3. \A f, g \in Handle : f # g /\ Owner'[f] = Owner'[g] => Mask'[f] \cap Mask'[g] = {}
    BY <1>4 DEF IInv, MaskExact
  <2>4. \A g \in Handle : /\ HState'[g] = "DETACHED" <=> Owner'[g] = Nil
                          /\ IF Owner'[g] = Nil THEN Mask'[g] = {} ELSE \E c \in Bit : Mask'[g] = {c}
    BY <1>4 DEF IInv, MaskExact
  <2> QED
    BY <2>2, <2>3, <2>4, Zenon DEF MaskExact
<1>9. NoLostWakeup'
  BY <1>1, <1>2, <1>4, Zenon DEF IInv, NoLostWakeup
<1>10. EndedIsClean'
  <2>1. ASSUME NEW t \in Thread, State[t] = "DETACHED"
        PROVE  waiters'[t] = <<>> /\ Live(t)' = {}
    <3>1. waiters[t] = <<>> /\ Live(t) = {}
      BY <1>1, <2>1, ObjectAssumption, Zenon DEF IInv, EndedIsClean
    <3>2. waiters'[t] = <<>>
      BY <3>1, <1>1, EmptyStaysEmpty, ZenonT(40) DEF WaitList
    <3> QED
      BY <3>1, <3>2, <1>4, ObjectAssumption, Zenon DEF Live
  <2> QED
    BY <1>1, <2>1, Zenon DEF EndedIsClean
<1> QED
  BY <1>1, <1>5, <1>6, <1>7, <1>8, <1>9, <1>10, ZenonT(40) DEF IInv

\* What _resume does, whoever calls it.
LEMMA ResumeFacts ==
  ASSUME IInv, NEW h \in Handle, HState[h] # "DETACHED", _resume(h)
  PROVE  /\ ready' \in Seq(Thread) /\ Distinct(ready') /\ Ordered(ready', Priority)
         /\ \A t \in Thread : State'[t] = "READY" <=> t \in Range(ready')
         /\ Wakes(h) => Owner[h] \in Thread /\ Owner[h] \notin Range(ready)
                          /\ ready' = list_enqueue(ready, Owner[h], Priority)
         /\ ~Wakes(h) => ready' = ready
         /\ State' \in [Thread -> {"DETACHED", "READY", "WAIT"}]
         /\ \A t \in Thread : State[t] # State'[t] =>
              State[t] = "WAIT" /\ State'[t] = "READY" /\ t = Owner[h] /\ Wakes(h)
         /\ Pending' \in [Thread -> SUBSET Handle]
         /\ HState' \in [Handle -> {"DETACHED", "WAITING", "DONE"}]
         /\ waiters' \in [WaitList -> Seq(Handle)]
         /\ UNCHANGED <<MaskUsed, MaskWait, Owner, Mask>>
         /\ PlaceInv' /\ MaskExact' /\ NoLostWakeup'
<1> DEFINE t == Owner[h]
<1>1. /\ HState' = [HState EXCEPT ![h] = "DONE"]
      /\ waiters' = [l \in WaitList |-> list_remove(waiters[l], h)]
      /\ Pending' = [Pending EXCEPT ![t] = @ \cup {h}]
      /\ State' = IF Wakes(h) THEN [State EXCEPT ![t] = "READY"] ELSE State
      /\ ready' = IF Wakes(h) THEN list_enqueue(ready, t, Priority) ELSE ready
      /\ UNCHANGED <<MaskUsed, MaskWait, Owner, Mask>>
  BY Zenon DEF _resume
<1>2. /\ State \in [Thread -> {"DETACHED", "READY", "WAIT"}]
      /\ HState \in [Handle -> {"DETACHED", "WAITING", "DONE"}]
      /\ Owner \in [Handle -> Thread \cup {Nil}] /\ Pending \in [Thread -> SUBSET Handle]
      /\ ready \in Seq(Thread)
  BY Zenon DEF IInv, TypeOK
<1>3. t \in Thread
  BY <1>2, Zenon DEF IInv, MaskExact
<1>4. Wakes(h) => State[t] = "WAIT" /\ MaskWait[t] \cap Mask[h] # {}
  BY Zenon DEF Wakes
<1>5. State[t] = "WAIT" /\ ~Wakes(h) => MaskWait[t] \cap Mask[h] = {}
  BY Zenon DEF Wakes
<1> HIDE DEF t
<1>6. /\ waiters' \in [WaitList -> Seq(Handle)]
      /\ \A l \in WaitList : Range(waiters'[l]) = Range(waiters[l]) \ {h} /\ Distinct(waiters'[l])
  BY <1>1, UnlinkFacts, Zenon
<1>7. State' \in [Thread -> {"DETACHED", "READY", "WAIT"}]
  BY <1>1, <1>2, <1>3, Zenon
<1>8. \A u \in Thread : State[u] # State'[u] =>
        State[u] = "WAIT" /\ State'[u] = "READY" /\ u = t /\ Wakes(h)
  BY <1>1, <1>2, <1>3, <1>4, Zenon
<1>9. /\ HState' \in [Handle -> {"DETACHED", "WAITING", "DONE"}]
      /\ Pending' \in [Thread -> SUBSET Handle]
  BY <1>1, <1>2, <1>3, Zenon
<1>10. /\ ready' \in Seq(Thread) /\ Distinct(ready') /\ Ordered(ready', Priority)
       /\ \A u \in Thread : State'[u] = "READY" <=> u \in Range(ready')
       /\ Wakes(h) => t \notin Range(ready)
  <2>1. /\ Distinct(ready) /\ Ordered(ready, Priority)
        /\ \A u \in Thread : State[u] = "READY" <=> u \in Range(ready)
    BY Zenon DEF IInv, SchedInv
  <2>2. CASE Wakes(h)
    <3>1. ready' = list_enqueue(ready, t, Priority) /\ t \notin Range(ready)
      BY <1>1, <1>3, <1>4, <2>1, <2>2, Zenon
    <3>2. Priority \in [Thread -> Int]
      BY ThreadAssumption, Zenon
    <3>3. /\ ready' \in Seq(Thread) /\ Distinct(ready') /\ Ordered(ready', Priority)
          /\ Range(ready') = Range(ready) \cup {t}
      <4>1. ready \in Seq(Thread) /\ t \in Thread /\ Distinct(ready) /\ Ordered(ready, Priority)
        BY <1>2, <1>3, <2>1, Zenon
      <4> QED
        BY ONLY <4>1, <3>1, <3>2, EnqueueFacts
    <3>4. State' = [State EXCEPT ![t] = "READY"]
      BY <1>1, <2>2, Zenon
    <3> QED
      BY <1>2, <1>3, <2>1, <3>1, <3>3, <3>4, Zenon
  <2>3. CASE ~Wakes(h)
    BY <1>1, <1>2, <2>1, <2>3, Zenon
  <2> QED
    BY <2>2, <2>3, Zenon
<1>11. /\ HState'[h] = "DONE" /\ Pending'[t] = Pending[t] \cup {h}
       /\ \A g \in Handle : g # h => HState'[g] = HState[g]
       /\ \A u \in Thread : u # t => Pending'[u] = Pending[u]
  BY <1>1, <1>2, <1>3, Zenon
<1>12. PlaceInv'
  <2>1. \A g \in Handle, u \in Thread : g \in Pending'[u] <=> HState'[g] = "DONE" /\ Owner'[g] = u
    <3>1. \A g \in Handle, u \in Thread : g \in Pending[u] <=> HState[g] = "DONE" /\ Owner[g] = u
      BY Zenon DEF IInv, PlaceInv
    <3>2. Owner' = Owner /\ Owner[h] = t
      BY <1>1, Zenon DEF t
    <3>3. ASSUME NEW g \in Handle, NEW u \in Thread
          PROVE  g \in Pending'[u] <=> HState'[g] = "DONE" /\ Owner'[g] = u
      <4>1. CASE g = h
        <5>1. h \in Pending'[u] <=> u = t
          <6>1. CASE u = t
            BY ONLY <1>11, <6>1, Zenon
          <6>2. CASE u # t
            <7>1. h \notin Pending[u]
              BY <3>1, <3>2, <6>2, Zenon
            <7> QED
              BY ONLY <1>11, <6>2, <7>1, u \in Thread, Zenon
          <6> QED
            BY ONLY <6>1, <6>2, Zenon
        <5> QED
          BY ONLY <1>11, <3>2, <4>1, <5>1, Zenon
      <4>2. CASE g # h
        <5>1. g \in Pending'[u] <=> g \in Pending[u]
          BY ONLY <1>11, <4>2, u \in Thread, Zenon
        <5> QED
          BY ONLY <1>11, <3>1, <3>2, <4>2, <5>1, g \in Handle, u \in Thread, Zenon
      <4> QED
        BY ONLY <4>1, <4>2, Zenon
    <3> QED
      BY ONLY <3>3, Zenon
  <2>2. \A g \in Handle : HState'[g] = "WAITING" <=> \E l \in WaitList : g \in Range(waiters'[l])
    <3>1. \A g \in Handle : HState[g] = "WAITING" <=> \E l \in WaitList : g \in Range(waiters[l])
      BY Zenon DEF IInv, PlaceInv
    <3>2. \A g \in Handle, l \in WaitList : g \in Range(waiters'[l]) <=> g \in Range(waiters[l]) /\ g # h
      BY ONLY <1>6, Zenon
    <3> QED
      BY ONLY <3>1, <3>2, <1>11
  <2>3. \A k, l \in WaitList : k # l => Range(waiters'[k]) \cap Range(waiters'[l]) = {}
    BY <1>6, Zenon DEF IInv, PlaceInv
  <2> QED
    BY <1>6, <2>1, <2>2, <2>3, Zenon DEF PlaceInv
<1>13. MaskExact'
  <2>1. \A g \in Handle : HState'[g] = "DETACHED" <=> HState[g] = "DETACHED"
    BY <1>11, Zenon
  <2>2. MaskUsed' = MaskUsed /\ Owner' = Owner /\ Mask' = Mask
    BY <1>1, Zenon
  <2>3. MaskExact
    BY Zenon DEF IInv
  <2>4. \A u \in Thread : MaskUsed'[u] = UNION {Mask'[g] : g \in Live(u)'}
    <3>1. \A u \in Thread : Live(u)' = Live(u)
      BY ONLY <2>2, Zenon DEF Live
    <3>2. \A u \in Thread : MaskUsed[u] = UNION {Mask[g] : g \in Live(u)}
      BY ONLY <2>3, Zenon DEF MaskExact
    <3> QED
      BY ONLY <2>2, <3>1, <3>2
  <2>5. \A g \in Handle : HState'[g] = "DETACHED" <=> Owner'[g] = Nil
    BY ONLY <2>1, <2>2, <2>3, Zenon DEF MaskExact
  <2>6. /\ \A g \in Handle :
             IF Owner'[g] = Nil THEN Mask'[g] = {} ELSE \E b \in Bit : Mask'[g] = {b}
        /\ \A f, g \in Handle : f # g /\ Owner'[f] = Owner'[g] => Mask'[f] \cap Mask'[g] = {}
    BY ONLY <2>2, <2>3, Zenon DEF MaskExact
  <2> QED
    BY ONLY <2>4, <2>5, <2>6, Zenon DEF MaskExact
<1>14. NoLostWakeup'
  <2>1. ASSUME NEW u \in Thread, State'[u] = "WAIT", NEW g \in Pending'[u]
        PROVE  Mask[g] \cap MaskWait[u] = {}
    <3>1. State[u] = "WAIT" /\ (u = t => ~Wakes(h))
      BY <2>1, <1>1, <1>2, <1>3, <1>8, Zenon
    <3>2. CASE g \in Pending[u]
      BY <3>1, <3>2, Zenon DEF IInv, NoLostWakeup
    <3>3. CASE g \notin Pending[u]
      BY <3>1, <3>3, <2>1, <1>5, <1>11, Zenon
    <3> QED
      BY <3>2, <3>3, Zenon
  <2> QED
    BY <2>1, <1>1, Zenon DEF NoLostWakeup
<1> QED
  BY <1>1, <1>3, <1>6, <1>7, <1>8, <1>9, <1>10, <1>12, <1>13, <1>14, Zenon DEF t

\* The end of a section that made threads ready, or none.
LEMMA ResumeKeeps ==
  ASSUME IInv, NEW h \in Handle, exos_thread_resume(h)
  PROVE  IInv'
<1>1. /\ _resume(h) /\ HState[h] # "DETACHED" /\ draining = Nil /\ ~halted
      /\ EndSection(ready', Wakes(h))
      /\ waiters' = [l \in WaitList |-> list_remove(waiters[l], h)]
  BY Zenon DEF exos_thread_resume, Outside, _resume
<1>2. /\ ready' \in Seq(Thread) /\ Distinct(ready') /\ Ordered(ready', Priority)
      /\ \A t \in Thread : State'[t] = "READY" <=> t \in Range(ready')
      /\ ~Wakes(h) => ready' = ready
      /\ State' \in [Thread -> {"DETACHED", "READY", "WAIT"}]
      /\ \A t \in Thread : State[t] # State'[t] => State[t] = "WAIT" /\ State'[t] = "READY"
      /\ Pending' \in [Thread -> SUBSET Handle]
      /\ HState' \in [Handle -> {"DETACHED", "WAITING", "DONE"}]
      /\ waiters' \in [WaitList -> Seq(Handle)]
      /\ UNCHANGED <<MaskUsed, MaskWait, Owner, Mask>>
      /\ PlaceInv' /\ MaskExact' /\ NoLostWakeup'
  BY <1>1, ResumeFacts, Zenon
<1>3. State'[Idle] = "READY" /\ Idle \in Range(ready')
  BY <1>2, ThreadAssumption, Zenon DEF IInv, SchedInv
<1>4. /\ running' = Head(ready') /\ running' \in Thread
      /\ draining' = Nil /\ switchReq' = FALSE /\ halted' = FALSE
  <2>1. CASE Wakes(h)
    BY <1>1, <1>2, <1>3, <2>1, ScheduleFacts, Zenon
  <2>2. CASE ~Wakes(h)
    <3>1. running = Head(ready) /\ running \in Thread
      BY <1>1, HeadOfReady, Zenon DEF IInv, TypeOK
    <3> QED
      BY <1>1, <1>2, <2>2, <3>1, Zenon DEF EndSection, IInv, TypeOK
  <2> QED
    BY <2>1, <2>2, Zenon
<1>5. TypeOK'
  BY <1>2, <1>4, Zenon DEF IInv, TypeOK
<1>6. SchedInv'
  BY <1>2, <1>3, <1>4, Zenon DEF SchedInv
<1>7. EndedIsClean'
  <2>1. ASSUME NEW t \in Thread, State'[t] = "DETACHED"
        PROVE  waiters'[t] = <<>> /\ Live(t)' = {}
    <3>1. waiters[t] = <<>> /\ Live(t) = {}
      BY <1>1, <1>2, <2>1, ObjectAssumption, Zenon DEF IInv, EndedIsClean
    <3>2. waiters'[t] = <<>>
      BY <3>1, <1>1, EmptyStaysEmpty, Zenon DEF WaitList
    <3> QED
      BY <3>1, <3>2, <1>2, Zenon DEF Live
  <2> QED
    BY <2>1, Zenon DEF EndedIsClean
<1> QED
  BY <1>2, <1>5, <1>6, <1>7, Zenon DEF IInv

LEMMA ResumeAllKeeps ==
  ASSUME IInv, NEW list \in Object, exos_thread_resume_all(list)
  PROVE  IInv' /\ UNCHANGED <<ready, State>>
<1>1. /\ draining = Nil /\ ~halted /\ draining' = list /\ switchReq' = FALSE
      /\ UNCHANGED <<running, halted, ready, State, MaskUsed, MaskWait, Pending,
                     HState, Owner, Mask, waiters>>
  BY Zenon DEF exos_thread_resume_all, Outside, ThenResumeAll, threadVars, handleVars
<1>2. TypeOK'
  BY <1>1, Zenon DEF IInv, TypeOK, WaitList
<1>3. SchedInv'
  BY <1>1, Zenon DEF IInv, SchedInv
<1>4. PlaceInv' /\ MaskExact'
  <2>1. PlaceInv /\ MaskExact
    BY Zenon DEF IInv
  <2> QED
    BY ONLY <1>1, <2>1, HandlesUnchanged, Zenon
<1>5. NoLostWakeup' /\ EndedIsClean'
  BY <1>1, ObjectAssumption, Zenon DEF IInv, NoLostWakeup, EndedIsClean, Live
<1> QED
  BY <1>1, <1>2, <1>3, <1>4, <1>5, Zenon DEF IInv

\* The first handle of the list being emptied is in use.
LEMMA FirstIsWaiting ==
  ASSUME IInv, draining # Nil, waiters[draining] # <<>>
  PROVE  Head(waiters[draining]) \in Handle /\ HState[Head(waiters[draining])] = "WAITING"
<1> DEFINE list == waiters[draining]
<1>1. draining \in WaitList /\ list \in Seq(Handle) /\ list # <<>>
  BY Zenon DEF IInv, TypeOK
<1>2. Head(list) \in Handle /\ Head(list) \in Range(list)
  <2> HIDE DEF list
  <2>1. Len(list) \in Nat /\ DOMAIN list = 1..Len(list) /\ Len(list) # 0
    BY <1>1, LenProperties, EmptySeq, Zenon
  <2> QED
    BY <1>1, <2>1, HeadTailProperties DEF Range
<1> QED
  BY <1>1, <1>2, Zenon DEF IInv, PlaceInv

LEMMA ResumeFirstKeeps ==
  ASSUME IInv, ResumeFirst
  PROVE  IInv'
<1> DEFINE h == Head(waiters[draining])
<1>1. /\ draining # Nil /\ _resume(h) /\ switchReq' = (switchReq \/ Wakes(h))
      /\ UNCHANGED <<running, draining, halted>>
      /\ waiters' = [l \in WaitList |-> list_remove(waiters[l], h)]
  BY Zenon DEF ResumeFirst, _resume
<1>2. h \in Handle /\ HState[h] # "DETACHED"
  BY FirstIsWaiting, Zenon DEF ResumeFirst
<1> HIDE DEF h
<1>3. /\ ready' \in Seq(Thread) /\ Distinct(ready') /\ Ordered(ready', Priority)
      /\ \A t \in Thread : State'[t] = "READY" <=> t \in Range(ready')
      /\ ~Wakes(h) => ready' = ready
      /\ State' \in [Thread -> {"DETACHED", "READY", "WAIT"}]
      /\ \A t \in Thread : State[t] # State'[t] => State[t] = "WAIT" /\ State'[t] = "READY"
      /\ Pending' \in [Thread -> SUBSET Handle]
      /\ HState' \in [Handle -> {"DETACHED", "WAITING", "DONE"}]
      /\ waiters' \in [WaitList -> Seq(Handle)]
      /\ UNCHANGED <<MaskUsed, MaskWait, Owner, Mask>>
      /\ PlaceInv' /\ MaskExact' /\ NoLostWakeup'
  BY <1>1, <1>2, ResumeFacts, Zenon
<1>4. switchReq' \in BOOLEAN
  BY <1>1, Zenon DEF IInv, TypeOK, Wakes
<1>5. TypeOK'
  BY <1>1, <1>3, <1>4, Zenon DEF IInv, TypeOK
<1>6. SchedInv'
  <2>1. State'[Idle] = "READY"
    BY <1>3, ThreadAssumption, Zenon DEF IInv, SchedInv
  <2>2. switchReq' \/ running' = Head(ready')
    BY <1>1, <1>3, Zenon DEF IInv, SchedInv
  <2>3. ~halted'
    BY <1>1, Zenon DEF IInv, SchedInv
  <2> QED
    BY <1>1, <1>3, <2>1, <2>2, <2>3, Zenon DEF SchedInv
<1>7. EndedIsClean'
  <2>1. ASSUME NEW t \in Thread, State'[t] = "DETACHED"
        PROVE  (draining' # t => waiters'[t] = <<>>) /\ Live(t)' = {}
    <3>1. (draining # t => waiters[t] = <<>>) /\ Live(t) = {}
      BY <1>3, <2>1, Zenon DEF IInv, EndedIsClean
    <3>2. waiters[t] = <<>> => waiters'[t] = <<>>
      BY <1>1, <1>2, EmptyStaysEmpty, Zenon DEF WaitList
    <3> QED
      BY <3>1, <3>2, <1>1, <1>3, ZenonT(40) DEF Live
  <2> QED
    BY <2>1, Zenon DEF EndedIsClean
<1> QED
  BY <1>3, <1>5, <1>6, <1>7, Zenon DEF IInv

LEMMA ResumeAllEndKeeps ==
  ASSUME IInv, ResumeAllEnd
  PROVE  IInv' /\ UNCHANGED <<ready, State>>
<1>1. /\ draining # Nil /\ waiters[draining] = <<>> /\ EndSection(ready, switchReq)
      /\ UNCHANGED <<ready, State, MaskUsed, MaskWait, Pending, HState, Owner, Mask, waiters>>
  BY Zenon DEF ResumeAllEnd, handleVars
<1>2. ready \in Seq(Thread) /\ Idle \in Range(ready) /\ running \in Thread /\ ~halted
  BY <1>1, ThreadAssumption, Zenon DEF IInv, TypeOK, SchedInv
<1>3. /\ running' = Head(ready) /\ running' \in Thread
      /\ draining' = Nil /\ switchReq' = FALSE /\ halted' = FALSE
  <2>1. CASE switchReq
    <3>1. EndSection(ready, TRUE)
      BY <1>1, <2>1, Zenon DEF EndSection
    <3> QED
      BY <1>2, <3>1, ScheduleFacts, Zenon
  <2>2. CASE ~switchReq
    <3>1. UNCHANGED <<running, halted>> /\ draining' = Nil /\ switchReq' = FALSE
      BY <1>1, <2>2, Zenon DEF EndSection
    <3>2. running = Head(ready) /\ halted = FALSE
      BY <1>2, <2>2, Zenon DEF IInv, SchedInv, TypeOK
    <3> QED
      BY <1>2, <3>1, <3>2, Zenon
  <2> QED
    BY <2>1, <2>2, Zenon
<1>4. TypeOK'
  BY <1>1, <1>3, Zenon DEF IInv, TypeOK
<1>5. SchedInv'
  BY <1>1, <1>3, Zenon DEF IInv, SchedInv
<1>6. PlaceInv' /\ MaskExact'
  <2>1. UNCHANGED <<MaskUsed, Pending, HState, Owner, Mask, waiters>>
    BY <1>1, Zenon
  <2>2. PlaceInv /\ MaskExact
    BY Zenon DEF IInv
  <2>3. PlaceInv'
    BY ONLY <2>1, <2>2, Zenon DEF PlaceInv
  <2>4. \A u \in Thread : Live(u)' = Live(u)
    BY ONLY <2>1, Zenon DEF Live
  <2>5. \A u \in Thread : MaskUsed'[u] = UNION {Mask'[g] : g \in Live(u)'}
    <3>1. \A u \in Thread : MaskUsed[u] = UNION {Mask[g] : g \in Live(u)}
      BY ONLY <2>2, Zenon DEF MaskExact
    <3> QED
      BY ONLY <2>1, <2>4, <3>1
  <2>6. MaskExact'
    BY ONLY <2>1, <2>2, <2>5, Zenon DEF MaskExact
  <2> QED
    BY <2>3, <2>6, Zenon
<1>7. NoLostWakeup' /\ EndedIsClean'
  BY <1>1, <1>3, Zenon DEF IInv, NoLostWakeup, EndedIsClean, Live
<1> QED
  BY <1>1, <1>4, <1>5, <1>6, <1>7, Zenon DEF IInv

----------------------------------------------------------------------------
(* The invariant, and what follows from it *)

LEMMA AddWaitHandleKeeps ==
  ASSUME IInv, NEW h \in Handle, NEW list,
         \/ list \in Object
         \/ \E t \in Thread : list = ___join_cond(t),
         exos_thread_add_wait_handle(h, list)
  PROVE  IInv' /\ UNCHANGED <<ready, State>>
<1>1. Calling /\ HState[h] = "DETACHED" /\ ___add_handle(h, list)
  BY Zenon DEF exos_thread_add_wait_handle
<1>2. CASE list = Nil
  <2>1. UNCHANGED kernelVars
    BY <1>1, <1>2, Zenon DEF ___add_handle
  <2>2. UNCHANGED <<ready, State>>
    BY <2>1, Zenon DEF kernelVars, threadVars
  <2> QED
    BY ONLY IInv, <2>1, <2>2, StutterKeeps, Zenon
<1>3. CASE list # Nil
  <2>1. list \in WaitList /\ (list \in Thread => State[list] # "DETACHED")
    BY <1>3, ObjectAssumption, Zenon DEF ___join_cond, WaitList
  <2> QED
    BY <1>1, <2>1, AddKeeps, Zenon
<1> QED
  BY <1>2, <1>3, Zenon

LEMMA NextKeeps == IInv /\ [Next]_kernelVars => IInv'
<1> SUFFICES ASSUME IInv, [Next]_kernelVars PROVE IInv'
  BY Zenon
<1>1. ASSUME NEW t \in Thread, exos_thread_create(t) PROVE IInv'
  BY <1>1, CreateKeeps, Zenon
<1>2. CASE exos_thread_exit
  BY <1>2, ExitKeeps, Zenon
<1>3. ASSUME NEW h \in Handle, NEW o \in Object, exos_thread_add_wait_handle(h, o) PROVE IInv'
  BY <1>3, AddWaitHandleKeeps, Zenon
<1>4. ASSUME NEW h \in Handle, NEW t \in Thread \ {running},
             exos_thread_add_wait_handle(h, ___join_cond(t))
      PROVE  IInv'
  BY <1>4, AddWaitHandleKeeps, Zenon
<1>5. ASSUME NEW h \in Handle, exos_thread_dispose_wait_handle(h) PROVE IInv'
  BY <1>5, DisposeKeeps, Zenon
<1>6. ASSUME NEW h \in Handle, exos_thread_resume(h) PROVE IInv'
  BY <1>6, ResumeKeeps, Zenon
<1>7. ASSUME NEW o \in Object, exos_thread_resume_all(o) PROVE IInv'
  BY <1>7, ResumeAllKeeps, Zenon
<1>8. ASSUME NEW mask \in (SUBSET Bit) \ {{}}, exos_thread_wait(mask) PROVE IInv'
  BY <1>8, WaitKeeps, Zenon
<1>9. CASE Drain
  BY <1>9, ResumeFirstKeeps, ResumeAllEndKeeps, Zenon DEF Drain
<1>10. CASE UNCHANGED kernelVars
  BY <1>10, StutterKeeps, Zenon
<1> QED
  BY <1>1, <1>2, <1>3, <1>4, <1>5, <1>6, <1>7, <1>8, <1>9, <1>10, Zenon DEF Next

\* Each property that speaks of one state follows from IInv.
LEMMA IInvImplies ==
  ASSUME IInv
  PROVE  ReadyList /\ RunningIsFirst /\ HandlePlace /\ PanicOnlyWhenExhausted
<1>1. ReadyList
  <2>1. DOMAIN ready = 1..Len(ready) /\ Len(ready) \in Nat
    BY LenProperties, Zenon DEF IInv, TypeOK
  <2> QED
    BY <2>1 DEF IInv, SchedInv, ReadyList, Distinct, Ordered
<1>2. RunningIsFirst
  BY HeadOfReady, Zenon DEF RunningIsFirst, Outside
<1>3. HandlePlace
  <2>1. ASSUME NEW h \in Handle, NEW k \in WaitList, NEW l \in WaitList,
               NEW i \in DOMAIN waiters[k], NEW j \in DOMAIN waiters[l],
               waiters[k][i] = h, waiters[l][j] = h
        PROVE  k = l /\ i = j
    <3>1. h \in Range(waiters[k]) /\ h \in Range(waiters[l])
      BY <2>1, Zenon DEF Range
    <3>2. k = l
      BY <3>1, Zenon DEF IInv, PlaceInv
    <3> QED
      BY <2>1, <3>2 DEF IInv, PlaceInv, Distinct
  <2>2. PlaceInv
    BY Zenon DEF IInv
  <2>3. \A h \in Handle : \A t \in Thread :
          h \in Pending[t] <=> HState[h] = "DONE" /\ Owner[h] = t
    BY ONLY <2>2, Zenon DEF PlaceInv
  <2>4. \A h \in Handle :
          HState[h] = "WAITING" <=> \E l \in WaitList : h \in Range(waiters[l])
    BY ONLY <2>2, Zenon DEF PlaceInv
  <2> QED
    BY ONLY <2>1, <2>3, <2>4 DEF HandlePlace
<1>4. PanicOnlyWhenExhausted
  <2>1. State[Idle] = "READY" /\ ready # <<>>
    BY HeadOfReady, Zenon DEF IInv, SchedInv
  <2>2. ASSUME halted, NEW b \in Bit PROVE \E h \in Live(running) : Mask[h] = {b}
    <3>1. running \in Thread /\ b \in UNION {Mask[h] : h \in Live(running)}
      BY <2>2 DEF IInv, TypeOK, SchedInv, MaskExact
    <3>2. PICK h \in Live(running) : b \in Mask[h]
      BY <3>1, Zenon
    <3>3. h \in Handle /\ Owner[h] # Nil
      BY <3>1, ObjectAssumption, Zenon DEF Live
    <3> QED
      BY <3>2, <3>3 DEF IInv, MaskExact
  <2> QED
    BY <2>1, <2>2, Zenon DEF PanicOnlyWhenExhausted
<1> QED
  BY <1>1, <1>2, <1>3, <1>4, Zenon

\* The thread kernel keeps its inductive invariant.
THEOREM Invariance == Spec => []IInv
  BY InitIInv, NextKeeps, PTL DEF Spec

\* The variables of the kernel keep their types.
THEOREM TypeCorrect == Spec => []TypeOK
<1>1. IInv => TypeOK
  BY Zenon DEF IInv
<1> QED
  BY <1>1, Invariance, PTL

\* _ready holds the READY threads, each once and by priority, and outside a
\* kernel section the CPU runs the first of them.
THEOREM StrictPriority == Spec => []StrictlyByPriority
<1>1. IInv => StrictlyByPriority
  BY IInvImplies, Zenon DEF StrictlyByPriority
<1> QED
  BY <1>1, Invariance, PTL

\* Every handle stands where its State says, so that list_remove unlinks it
\* from the list it is on.
THEOREM HandlesInPlace == Spec => []HandlePlace
<1>1. IInv => HandlePlace
  BY IInvImplies, Zenon
<1> QED
  BY <1>1, Invariance, PTL

\* _alloc_mask and ___dispose_handle neither leak a bit nor give one out twice.
THEOREM MasksExact == Spec => []MaskExact
<1>1. IInv => MaskExact
  BY Zenon DEF IInv
<1> QED
  BY <1>1, Invariance, PTL

\* A thread never stays in WAIT with a handle it waits for already done.
THEOREM NoWakeupLost == Spec => []NoLostWakeup
<1>1. IInv => NoLostWakeup
  BY Zenon DEF IInv
<1> QED
  BY <1>1, Invariance, PTL

\* An ended thread has nobody on its Joining list and owns no handle.
THEOREM EndsClean == Spec => []EndedIsClean
<1>1. IInv => EndedIsClean
  BY Zenon DEF IInv
<1> QED
  BY <1>1, Invariance, PTL

\* __kernel_schedule always finds a thread; only _alloc_mask can panic.
THEOREM OnlyExhaustionPanics == Spec => []PanicOnlyWhenExhausted
<1>1. IInv => PanicOnlyWhenExhausted
  BY IInvImplies, Zenon
<1> QED
  BY <1>1, Invariance, PTL

----------------------------------------------------------------------------
(* What a step may never do *)

\* A thread that waits for nothing that is done is woken by a handle that was
\* waiting.
LEMMA ResumeIsEarned ==
  ASSUME IInv, NEW h \in Handle, HState[h] # "DETACHED", _resume(h)
  PROVE  Earned
<1> SUFFICES ASSUME NEW t \in Thread, State[t] = "WAIT", State'[t] # "WAIT"
             PROVE  /\ State'[t] = "READY"
                    /\ \E g \in Pending'[t] : HState[g] = "WAITING" /\ Mask[g] \cap MaskWait[t] # {}
  BY Zenon DEF Earned
<1>1. State'[t] = "READY" /\ t = Owner[h] /\ Wakes(h)
  <2>1. \A u \in Thread : State[u] # State'[u] =>
          State[u] = "WAIT" /\ State'[u] = "READY" /\ u = Owner[h] /\ Wakes(h)
    BY ResumeFacts, Zenon
  <2> QED
    BY <2>1, Zenon
<1>2. h \in Pending'[t] /\ Mask[h] \cap MaskWait[t] # {}
  <2>1. Pending' = [Pending EXCEPT ![t] = @ \cup {h}] /\ Pending \in [Thread -> SUBSET Handle]
    BY <1>1, Zenon DEF _resume, IInv, TypeOK
  <2>2. Mask[h] \cap MaskWait[t] # {}
    BY <1>1, Zenon DEF Wakes
  <2>3. h \in Pending'[t]
    BY ONLY <2>1, t \in Thread, Zenon
  <2> QED
    BY <2>2, <2>3, Zenon
<1>3. HState[h] = "WAITING"
  <2>1. h \notin Pending[t]
    BY <1>2, Zenon DEF IInv, NoLostWakeup
  <2>2. HState[h] # "DONE"
    BY <1>1, <2>1, Zenon DEF IInv, PlaceInv
  <2> QED
    BY <2>2, Zenon DEF IInv, TypeOK
<1> QED
  BY <1>1, <1>2, <1>3, Zenon

LEMMA StepIsEarned == ASSUME IInv, Next PROVE Earned
<1>1. ASSUME NEW t \in Thread, exos_thread_create(t) PROVE Earned
  BY <1>1, Zenon DEF exos_thread_create, Earned, IInv, TypeOK
<1>2. CASE exos_thread_exit
  <2>1. State[running] = "READY"
    BY <1>2, HeadOfReady, Zenon DEF exos_thread_exit, Calling, Outside
  <2> QED
    BY <1>2, <2>1, Zenon DEF exos_thread_exit, Earned, IInv, TypeOK
<1>3. ASSUME NEW h \in Handle, NEW o \in Object, exos_thread_add_wait_handle(h, o) PROVE Earned
  BY <1>3, AddWaitHandleKeeps, Zenon DEF Earned
<1>4. ASSUME NEW h \in Handle, NEW t \in Thread \ {running},
             exos_thread_add_wait_handle(h, ___join_cond(t))
      PROVE  Earned
  BY <1>4, AddWaitHandleKeeps, Zenon DEF Earned
<1>5. ASSUME NEW h \in Handle, exos_thread_dispose_wait_handle(h) PROVE Earned
  BY <1>5, DisposeKeeps, Zenon DEF Earned
<1>6. ASSUME NEW h \in Handle, exos_thread_resume(h) PROVE Earned
  BY <1>6, ResumeIsEarned, Zenon DEF exos_thread_resume
<1>7. ASSUME NEW o \in Object, exos_thread_resume_all(o) PROVE Earned
  BY <1>7, ResumeAllKeeps, Zenon DEF Earned
<1>8. ASSUME NEW mask \in (SUBSET Bit) \ {{}}, exos_thread_wait(mask) PROVE Earned
  <2>1. State' = State \/ State' = [State EXCEPT ![running] = "WAIT"]
    BY <1>8, Zenon DEF exos_thread_wait, kernelVars, threadVars
  <2> QED
    BY <2>1, Zenon DEF Earned, IInv, TypeOK
<1>9. CASE ResumeFirst
  BY <1>9, FirstIsWaiting, ResumeIsEarned, Zenon DEF ResumeFirst
<1>10. CASE ResumeAllEnd
  BY <1>10, ResumeAllEndKeeps, Zenon DEF Earned
<1> QED
  BY <1>1, <1>2, <1>3, <1>4, <1>5, <1>6, <1>7, <1>8, <1>9, <1>10, Zenon DEF Next, Drain

\* Every way in which _ready changes keeps the order of those that stay.
LEMMA OrderKept ==
  ASSUME IInv,
         \/ ready' = ready
         \/ ready' = list_remove(ready, running)
         \/ \E t \in Thread : t \notin Range(ready) /\ ready' = list_enqueue(ready, t, Priority)
  PROVE  KeepsOrder
<1>1. /\ ready \in Seq(Thread) /\ Distinct(ready) /\ Ordered(ready, Priority)
      /\ Priority \in [Thread -> Int]
  BY ThreadAssumption, Zenon DEF IInv, TypeOK, SchedInv
<1>2. CASE ready' = ready
  BY <1>2, Zenon DEF KeepsOrder
<1>3. CASE ready' = list_remove(ready, running)
  <2>1. /\ Range(ready') = Range(ready) \ {running}
        /\ \A m, n \in DOMAIN ready : m < n /\ ready[m] # running /\ ready[n] # running =>
             \E i, j \in DOMAIN ready' : i < j /\ ready'[i] = ready[m] /\ ready'[j] = ready[n]
    BY ONLY <1>1, <1>3, RemoveFacts
  <2> QED
    BY <2>1 DEF KeepsOrder, Before
<1>4. ASSUME NEW t \in Thread, t \notin Range(ready), ready' = list_enqueue(ready, t, Priority)
      PROVE  KeepsOrder
  <2>1. \A i, j \in DOMAIN ready : i < j =>
          \E m, n \in DOMAIN ready' : m < n /\ ready'[m] = ready[i] /\ ready'[n] = ready[j]
    BY ONLY <1>1, <1>4, EnqueueFacts
  <2> QED
    BY <2>1 DEF KeepsOrder, Before
<1> QED
  BY <1>2, <1>3, <1>4, Zenon

LEMMA ResumeKeepsOrder ==
  ASSUME IInv, NEW h \in Handle, HState[h] # "DETACHED", _resume(h)
  PROVE  KeepsOrder
<1>1. \/ ready' = ready
      \/ \E t \in Thread : t \notin Range(ready) /\ ready' = list_enqueue(ready, t, Priority)
  BY ResumeFacts, Zenon
<1> QED
  BY <1>1, OrderKept, Zenon

LEMMA StepKeepsOrder == ASSUME IInv, Next PROVE KeepsOrder
<1>1. ASSUME NEW t \in Thread, exos_thread_create(t) PROVE KeepsOrder
  <2>1. t \notin Range(ready)
    BY <1>1, Zenon DEF exos_thread_create, IInv, SchedInv
  <2> QED
    BY <1>1, <2>1, CreateKeeps, OrderKept, Zenon
<1>2. CASE exos_thread_exit
  BY <1>2, ExitKeeps, OrderKept, Zenon
<1>3. ASSUME NEW h \in Handle, NEW o \in Object, exos_thread_add_wait_handle(h, o) PROVE KeepsOrder
  BY <1>3, AddWaitHandleKeeps, OrderKept, Zenon
<1>4. ASSUME NEW h \in Handle, NEW t \in Thread \ {running},
             exos_thread_add_wait_handle(h, ___join_cond(t))
      PROVE  KeepsOrder
  BY <1>4, AddWaitHandleKeeps, OrderKept, Zenon
<1>5. ASSUME NEW h \in Handle, exos_thread_dispose_wait_handle(h) PROVE KeepsOrder
  BY <1>5, DisposeKeeps, OrderKept, Zenon
<1>6. ASSUME NEW h \in Handle, exos_thread_resume(h) PROVE KeepsOrder
  BY <1>6, ResumeKeepsOrder, Zenon DEF exos_thread_resume
<1>7. ASSUME NEW o \in Object, exos_thread_resume_all(o) PROVE KeepsOrder
  BY <1>7, ResumeAllKeeps, OrderKept, Zenon
<1>8. ASSUME NEW mask \in (SUBSET Bit) \ {{}}, exos_thread_wait(mask) PROVE KeepsOrder
  BY <1>8, WaitKeeps, OrderKept, Zenon
<1>9. CASE ResumeFirst
  BY <1>9, FirstIsWaiting, ResumeKeepsOrder, Zenon DEF ResumeFirst
<1>10. CASE ResumeAllEnd
  BY <1>10, ResumeAllEndKeeps, OrderKept, Zenon
<1> QED
  BY <1>1, <1>2, <1>3, <1>4, <1>5, <1>6, <1>7, <1>8, <1>9, <1>10, Zenon DEF Next, Drain

\* A waiting thread is made ready only by _resume of a handle it waits for.
THEOREM WakeupsEarned == Spec => WakeIsEarned
<1>1. IInv /\ [Next]_kernelVars => [Earned]_kernelVars
  BY StepIsEarned, Zenon
<1> QED
  BY <1>1, Invariance, PTL DEF Spec, WakeIsEarned

\* Threads that stay ready keep their order in _ready.
THEOREM FirstInFirstOut == Spec => NoOvertaking
<1>1. IInv /\ [Next]_kernelVars => [KeepsOrder]_kernelVars
  BY StepKeepsOrder, Zenon
<1> QED
  BY <1>1, Invariance, PTL DEF Spec, NoOvertaking
=============================================================================

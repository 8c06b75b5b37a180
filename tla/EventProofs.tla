---------------------------- MODULE EventProofs -----------------------------
(***************************************************************************)
(* Proofs about the events and their timed wait, for any number of threads *)
(* and events, any priorities and any number of mask bits.                 *)
(*                                                                         *)
(* exos_event_wait keeps up to two handles and a timer on the stack of its *)
(* caller.  ThreadInv says, place by place, which of them are in use; it   *)
(* is what makes the exos_event_create of the timer's event harmless, and  *)
(* with that every caller of event.c a client the thread kernel allows.    *)
(* The queue of fifo.c, which is built on an event, follows.               *)
(***************************************************************************)
EXTENDS Fifo, ThreadsProofs

\* The handles and the timer of one thread.  (A thread that found no free bit
\* is past the call without a handle, and the kernel has halted.)
HandlesInv(t) ==
  /\ pc[t] \in {"user", "resume", "return"} => HState[t] = "DETACHED"
  /\ \/ pc[t] \in {"woken", "tfree", "tdispose", "dispose"}
     \/ pc[t] \in {"timer", "tadd", "wait"} /\ ~halted
     => Owner[t] = t
  /\ \/ pc[t] \notin {"wait", "woken", "tfree"}
     \/ pc[t] \in {"wait", "woken"} /\ ~timed[t]
     => HState[Timer[t]] = "DETACHED"
  /\ \/ pc[t] = "tfree"
     \/ pc[t] = "woken" /\ timed[t]
     \/ pc[t] = "wait" /\ timed[t] /\ ~halted
     => Owner[Timer[t]] = t

\* What it waits for, and what it was woken by.
SleepInv(t) ==
  /\ State[t] = "WAIT" =>
       /\ pc[t] = "woken"
       /\ MaskWait[t] = Mask[t] \cup IF timed[t] THEN Mask[Timer[t]] ELSE {}
  /\ pc[t] = "woken" /\ State[t] = "READY" =>
       HState[t] = "DONE" \/ (timed[t] /\ HState[Timer[t]] = "DONE")

\* The timer on its stack, and the answer of the call.
TimerInv(t) ==
  /\ TState[Timer[t]] = "RUNNING" =>
       pc[t] \in {"tadd", "wait", "woken", "tfree", "tdispose"} /\ timed[t]
  /\ HState[Timer[t]] = "DONE" => TState[Timer[t]] = "FINISHED"
  /\ pc[t] \in {"timer", "tadd"} => done[t] /\ timed[t]
  /\ pc[t] \in {"tfree", "tdispose", "dispose", "return"} /\ ~done[t] =>
       TState[Timer[t]] = "FINISHED"

ThreadInv(t) ==
  /\ pc[t] # "user" => State[t] # "DETACHED" /\ want[t] \in Event
  /\ HandlesInv(t)
  /\ SleepInv(t)
  /\ TimerInv(t)

\* A handle is on the list of the event its owner wants, a timer's handle on
\* the list of that timer; and only a timer that has expired is resumed.
ListInv ==
  /\ \A l \in WaitList : \A h \in Range(waiters[l]) :
       \/ h \in Thread /\ l = want[h]
       \/ h \in TimerSet /\ l = h
  /\ draining \in TimerSet => TState[draining] = "FINISHED"

EInv == IInv /\ EventTypeOK /\ (\A t \in Thread : ThreadInv(t)) /\ ListInv /\ SetWakesAll
----------------------------------------------------------------------------
(* Facts about one state *)

LEMMA Names ==
  ASSUME NEW t \in Thread
  PROVE  /\ t \in Handle /\ t \in WaitList /\ t # Nil /\ t \notin Object /\ t \notin TimerSet
         /\ Timer[t] \in TimerSet /\ Timer[t] \in Object /\ Timer[t] \in Handle
         /\ Timer[t] \in WaitList /\ Timer[t] # Nil /\ Timer[t] \notin Thread
         /\ Timer[t] \notin Event
<1>1. Timer[t] \in TimerSet
  BY Zenon DEF TimerSet
<1>2. Timer[t] \in Object /\ Timer[t] \in Handle /\ t \in Handle
  BY <1>1, EventAssumption, Zenon
<1>3. Timer[t] \notin Event
  BY <1>1, EventAssumption, Zenon
<1>4. t # Nil /\ t \notin Object /\ Timer[t] # Nil /\ Timer[t] \notin Thread
  BY <1>2, ObjectAssumption, Zenon
<1>5. t \notin TimerSet
  BY <1>4, EventAssumption, Zenon
<1> QED
  BY <1>1, <1>2, <1>3, <1>4, <1>5, Zenon DEF WaitList

\* The handles of two threads are four.
LEMMA TwoThreads ==
  ASSUME NEW t \in Thread, NEW r \in Thread, t # r
  PROVE  {t, Timer[t]} \cap {r, Timer[r]} = {}
<1>1. Timer[t] # Timer[r]
  BY EventAssumption, Zenon
<1>2. t # Timer[r] /\ r # Timer[t]
  BY Names, Zenon
<1> QED
  BY ONLY <1>1, <1>2, t # r, Zenon

LEMMA EventNames ==
  ASSUME NEW e \in Event
  PROVE  e \in Object /\ e \in WaitList /\ e # Nil /\ e \notin Thread /\ e \notin TimerSet
<1>1. e \in Object /\ e \notin TimerSet
  BY EventAssumption, Zenon
<1> QED
  BY <1>1, ObjectAssumption, Zenon DEF WaitList

\* What is known of a thread that calls.
LEMMA CallerFacts ==
  ASSUME EInv, Calling
  PROVE  /\ running \in Thread /\ draining = Nil /\ halted = FALSE
         /\ State[running] = "READY" /\ ThreadInv(running)
<1>1. running \in Thread /\ halted \in BOOLEAN /\ \A t \in Thread : ThreadInv(t)
  BY Zenon DEF EInv, IInv, TypeOK
<1>2. draining = Nil /\ ~halted
  BY Zenon DEF Calling, Outside
<1>3. State[running] = "READY"
  BY <1>2, HeadOfReady, Zenon DEF EInv
<1> QED
  BY ONLY <1>1, <1>2, <1>3, Zenon

\* A handle that is detached is on no list.
LEMMA DetachedOnNoList ==
  ASSUME IInv, NEW h \in Handle, HState[h] = "DETACHED"
  PROVE  Owner[h] = Nil /\ \A l \in WaitList : h \notin Range(waiters[l])
<1>1. PlaceInv /\ MaskExact
  BY Zenon DEF IInv
<1>2. HState[h] # "WAITING"
  BY Zenon
<1>3. \A l \in WaitList : h \notin Range(waiters[l])
  BY ONLY <1>1, <1>2, h \in Handle, Zenon DEF PlaceInv
<1>4. Owner[h] = Nil
  BY ONLY <1>1, h \in Handle, HState[h] = "DETACHED", Zenon DEF MaskExact
<1> QED
  BY <1>3, <1>4, Zenon

\* The list of a timer whose handle is detached is empty: exos_event_create
\* drops nobody.
LEMMA TimerListEmpty ==
  ASSUME EInv, NEW t \in Thread, HState[Timer[t]] = "DETACHED"
  PROVE  waiters[Timer[t]] = <<>>
<1> DEFINE x == Timer[t]
<1>1. x \in Handle /\ x \in WaitList /\ x \in TimerSet /\ x \notin Event /\ x # Nil
  BY Names, Zenon
<1>2. x \notin Range(waiters[x]) /\ waiters[x] \in Seq(Handle)
  BY <1>1, DetachedOnNoList, Zenon DEF EInv, IInv, TypeOK
<1>3. \A h \in Range(waiters[x]) : (h \in Thread /\ x = want[h]) \/ x = h
  BY <1>1, Zenon DEF EInv, ListInv
<1>4. \A h \in Thread : want[h] \in Event \cup {Nil}
  BY Zenon DEF EInv, EventTypeOK
<1>5. Range(waiters[x]) = {}
  BY ONLY <1>1, <1>2, <1>3, <1>4, Zenon
<1> HIDE DEF x
<1> QED
  <2> DEFINE list == waiters[x]
  <2>1. list \in Seq(Handle) /\ Range(list) = {}
    BY <1>2, <1>5, Zenon
  <2> HIDE DEF list
  <2>2. ASSUME list # <<>> PROVE FALSE
    <3>1. 1 \in DOMAIN list
      BY ONLY <2>1, <2>2
    <3>2. list[1] \in Range(list)
      BY ONLY <3>1, Zenon DEF Range
    <3> QED
      BY ONLY <2>1, <3>2, Zenon
  <2> QED
    BY <2>2, Zenon DEF list, x

----------------------------------------------------------------------------
(* What a step leaves alone *)

CallKept(t) ==
  /\ pc'[t] = pc[t] /\ want'[t] = want[t] /\ timed'[t] = timed[t] /\ done'[t] = done[t]
  /\ TState'[Timer[t]] = TState[Timer[t]]

KernelKept(t) ==
  /\ State'[t] = State[t] /\ MaskWait'[t] = MaskWait[t]
  /\ HState'[t] = HState[t] /\ HState'[Timer[t]] = HState[Timer[t]]
  /\ Owner'[t] = Owner[t] /\ Owner'[Timer[t]] = Owner[Timer[t]]
  /\ Mask'[t] = Mask[t] /\ Mask'[Timer[t]] = Mask[Timer[t]]

LEMMA Frame ==
  ASSUME NEW t \in Thread, ThreadInv(t), halted = FALSE, CallKept(t), KernelKept(t)
  PROVE  ThreadInv(t)'
<1>1. HandlesInv(t)'
  BY Zenon DEF ThreadInv, HandlesInv, CallKept, KernelKept
<1>2. SleepInv(t)'
  BY Zenon DEF ThreadInv, SleepInv, CallKept, KernelKept
<1>3. TimerInv(t)'
  BY Zenon DEF ThreadInv, TimerInv, CallKept, KernelKept
<1> QED
  BY <1>1, <1>2, <1>3, Zenon DEF ThreadInv, CallKept, KernelKept

----------------------------------------------------------------------------
(* What the operations of the thread kernel do to the handles of the caller *)

\* A step that touches only handles of the caller keeps those of the others.
LEMMA OthersKept ==
  ASSUME NEW r \in Thread, NEW h \in {r, Timer[r]},
         \A g \in Handle \ {h} : HState'[g] = HState[g] /\ Owner'[g] = Owner[g] /\ Mask'[g] = Mask[g],
         \A t \in Thread \ {r} : State'[t] = State[t] /\ MaskWait'[t] = MaskWait[t],
         NEW t \in Thread, t # r
  PROVE  KernelKept(t)
<1>1. t \in Handle /\ Timer[t] \in Handle
  BY Names, Zenon
<1>2. t # h /\ Timer[t] # h
  BY TwoThreads, ZenonT(40)
<1> QED
  BY ONLY <1>1, <1>2, t \in Thread, t # r,
     \A g \in Handle \ {h} : HState'[g] = HState[g] /\ Owner'[g] = Owner[g] /\ Mask'[g] = Mask[g],
     \A u \in Thread \ {r} : State'[u] = State[u] /\ MaskWait'[u] = MaskWait[u], Zenon
  DEF KernelKept

LEMMA NothingKept ==
  ASSUME UNCHANGED <<State, MaskWait, HState, Owner, Mask>>
  PROVE  \A t \in Thread : KernelKept(t)
BY Zenon DEF KernelKept

LEMMA StutterFacts ==
  ASSUME UNCHANGED kernelVars
  PROVE  /\ UNCHANGED <<running, State, MaskWait, HState, Owner, Mask, waiters, draining, halted>>
         /\ \A t \in Thread : KernelKept(t)
<1>1. UNCHANGED <<running, State, MaskWait, HState, Owner, Mask, waiters, draining, halted>>
  BY Zenon DEF kernelVars, threadVars, handleVars, sectionVars
<1> QED
  BY <1>1, NothingKept, Zenon

LEMMA ResumeAllFacts ==
  ASSUME NEW list, exos_thread_resume_all(list)
  PROVE  /\ UNCHANGED <<running, State, MaskWait, HState, Owner, Mask, waiters, halted>>
         /\ draining = Nil /\ draining' = list /\ ~halted
         /\ \A t \in Thread : KernelKept(t)
<1>1. UNCHANGED <<running, State, MaskWait, HState, Owner, Mask, waiters, halted>>
  BY Zenon DEF exos_thread_resume_all, ThenResumeAll, threadVars, handleVars
<1>2. draining = Nil /\ draining' = list /\ ~halted
  BY Zenon DEF exos_thread_resume_all, ThenResumeAll, Outside
<1> QED
  BY <1>1, <1>2, NothingKept, Zenon

\* A handle of the caller waits on a list, or the kernel has halted.
LEMMA AddFacts ==
  ASSUME EInv, NEW h \in {running, Timer[running]}, NEW list \in Object,
         exos_thread_add_wait_handle(h, list)
  PROVE  /\ running \in Thread /\ HState[h] = "DETACHED"
         /\ UNCHANGED <<State, MaskWait, draining>>
         /\ \A g \in Handle \ {h} : HState'[g] = HState[g] /\ Owner'[g] = Owner[g] /\ Mask'[g] = Mask[g]
         /\ \A l \in WaitList \ {list} : waiters'[l] = waiters[l]
         /\ \A t \in Thread \ {running} : KernelKept(t)
         /\ IF halted' THEN HState' = HState /\ waiters' = waiters
            ELSE /\ HState'[h] = "WAITING" /\ Owner'[h] = running
                 /\ Range(waiters'[list]) = Range(waiters[list]) \cup {h}
<1>0. running \in Thread /\ halted = FALSE
  BY CallerFacts, Zenon DEF exos_thread_add_wait_handle
<1>1. h \in Handle /\ list \in WaitList /\ list # Nil
  BY <1>0, Names, ObjectAssumption, Zenon DEF WaitList
<1>2. HState[h] = "DETACHED" /\ ___add_handle(h, list)
  BY Zenon DEF exos_thread_add_wait_handle
<1>3. /\ Mask \in [Handle -> SUBSET Bit] /\ waiters \in [WaitList -> Seq(Handle)]
      /\ HState \in [Handle -> {"DETACHED", "WAITING", "DONE"}]
      /\ Owner \in [Handle -> Thread \cup {Nil}]
      /\ Distinct(waiters[list]) /\ h \notin Range(waiters[list])
  <2>1. TypeOK /\ PlaceInv /\ IInv
    BY Zenon DEF EInv, IInv
  <2>2. /\ Mask \in [Handle -> SUBSET Bit] /\ waiters \in [WaitList -> Seq(Handle)]
        /\ HState \in [Handle -> {"DETACHED", "WAITING", "DONE"}]
        /\ Owner \in [Handle -> Thread \cup {Nil}]
    BY ONLY <2>1, Zenon DEF TypeOK
  <2>3. Distinct(waiters[list])
    BY ONLY <1>1, <2>1, Zenon DEF PlaceInv
  <2>4. h \notin Range(waiters[list])
    BY ONLY <1>1, <1>2, <2>1, DetachedOnNoList, Zenon
  <2> QED
    BY ONLY <2>2, <2>3, <2>4, Zenon
<1>4. CASE MaskUsed[running] = Bit
  <2>1. /\ UNCHANGED <<State, MaskWait, draining, HState, Owner, Mask, waiters>> /\ halted' = TRUE
    BY <1>1, <1>2, <1>4, Zenon DEF ___add_handle, threadVars, handleVars
  <2>2. \A t \in Thread : KernelKept(t)
    BY <2>1, NothingKept, Zenon
  <2> QED
    BY ONLY <1>0, <1>2, <2>1, <2>2, Zenon
<1>5. CASE MaskUsed[running] # Bit
  <2>1. /\ \E bits : Mask' = [Mask EXCEPT ![h] = bits]
        /\ HState' = [HState EXCEPT ![h] = "WAITING"]
        /\ Owner' = [Owner EXCEPT ![h] = running]
        /\ waiters' = [waiters EXCEPT ![list] = list_add_tail(@, h)]
        /\ UNCHANGED <<State, MaskWait, draining>> /\ halted' = FALSE
    BY <1>0, <1>1, <1>2, <1>5, Zenon DEF ___add_handle, sectionVars
  <2>2. \A g \in Handle \ {h} : HState'[g] = HState[g] /\ Owner'[g] = Owner[g] /\ Mask'[g] = Mask[g]
    BY ONLY <1>3, <2>1, Zenon
  <2>3. /\ \A l \in WaitList \ {list} : waiters'[l] = waiters[l]
        /\ waiters'[list] = list_add_tail(waiters[list], h)
        /\ HState'[h] = "WAITING" /\ Owner'[h] = running
    BY ONLY <1>1, <1>3, <2>1, Zenon
  <2>4. Range(waiters'[list]) = Range(waiters[list]) \cup {h}
    <3> DEFINE old == waiters[list]
               new == waiters'[list]
    <3>1. old \in Seq(Handle) /\ h \notin Range(old) /\ Distinct(old) /\ new = list_add_tail(old, h)
      BY <1>1, <1>3, <2>3, Zenon
    <3> HIDE DEF old, new
    <3>2. Range(new) = Range(old) \cup {h}
      BY ONLY <1>1, <3>1, AddTailFacts
    <3> QED
      BY <3>2, Zenon DEF old, new
  <2>5. \A t \in Thread \ {running} : State'[t] = State[t] /\ MaskWait'[t] = MaskWait[t]
    BY ONLY <2>1, Zenon
  <2>6. \A t \in Thread \ {running} : KernelKept(t)
    BY ONLY <1>0, <2>2, <2>5, h \in {running, Timer[running]}, OthersKept, Zenon
  <2> QED
    BY ONLY <1>0, <1>2, <2>1, <2>2, <2>3, <2>4, <2>6, Zenon
<1> QED
  BY ONLY <1>4, <1>5, Zenon

\* A handle of the caller is off every list and free.
LEMMA DisposeFacts ==
  ASSUME EInv, NEW h \in {running, Timer[running]}, exos_thread_dispose_wait_handle(h)
  PROVE  /\ running \in Thread /\ HState'[h] = "DETACHED"
         /\ UNCHANGED <<State, MaskWait, draining, halted>>
         /\ \A g \in Handle \ {h} : HState'[g] = HState[g] /\ Owner'[g] = Owner[g] /\ Mask'[g] = Mask[g]
         /\ \A l \in WaitList : /\ Range(waiters'[l]) \subseteq Range(waiters[l])
                                /\ waiters[l] = <<>> => waiters'[l] = <<>>
         /\ \A t \in Thread \ {running} : KernelKept(t)
<1>0. running \in Thread /\ IInv
  BY CallerFacts, ZenonT(40) DEF exos_thread_dispose_wait_handle, EInv
<1>1. h \in Handle
  BY <1>0, Names, Zenon
<1>2. /\ HState' = [HState EXCEPT ![h] = "DETACHED"]
      /\ Owner' = [Owner EXCEPT ![h] = Nil] /\ Mask' = [Mask EXCEPT ![h] = {}]
      /\ UNCHANGED <<State, MaskWait, draining, halted>>
      /\ waiters' = [l \in WaitList |-> list_remove(waiters[l], h)]
  BY Zenon DEF exos_thread_dispose_wait_handle, sectionVars
<1>3. /\ HState \in [Handle -> {"DETACHED", "WAITING", "DONE"}]
      /\ Owner \in [Handle -> Thread \cup {Nil}] /\ Mask \in [Handle -> SUBSET Bit]
  BY ONLY <1>0, Zenon DEF IInv, TypeOK
<1>4. HState'[h] = "DETACHED"
  BY ONLY <1>1, <1>2, <1>3, Zenon
<1>5. \A g \in Handle \ {h} : HState'[g] = HState[g] /\ Owner'[g] = Owner[g] /\ Mask'[g] = Mask[g]
  BY ONLY <1>2, <1>3, Zenon
<1>6. \A l \in WaitList : Range(waiters'[l]) = Range(waiters[l]) \ {h}
  BY ONLY <1>0, <1>1, <1>2, UnlinkFacts, ZenonT(40)
<1>7. \A l \in WaitList : waiters[l] = <<>> => waiters'[l] = <<>>
  BY ONLY <1>0, <1>1, <1>2, EmptyStaysEmpty, Zenon
<1>8. \A t \in Thread \ {running} : State'[t] = State[t] /\ MaskWait'[t] = MaskWait[t]
  BY ONLY <1>2, Zenon
<1>9. \A t \in Thread \ {running} : KernelKept(t)
  BY ONLY <1>0, <1>5, <1>8, h \in {running, Timer[running]}, OthersKept, Zenon
<1> QED
  BY ONLY <1>0, <1>2, <1>4, <1>5, <1>6, <1>7, <1>9, Zenon

\* exos_thread_wait returns at once, or the caller sleeps.
LEMMA WaitFacts ==
  ASSUME EInv, NEW mask, exos_thread_wait(mask)
  PROVE  /\ running \in Thread /\ UNCHANGED <<HState, Owner, Mask, waiters, draining>>
         /\ \A t \in Thread \ {running} : KernelKept(t)
         /\ \/ State'[running] = "WAIT" /\ MaskWait'[running] = mask
            \/ /\ State'[running] = "READY"
               /\ \E h \in Handle : /\ HState[h] = "DONE" /\ Owner[h] = running
                                    /\ Mask[h] \cap mask # {}
<1>0. running \in Thread /\ draining = Nil /\ State[running] = "READY"
  BY CallerFacts, Zenon DEF exos_thread_wait
<1>1. CASE \E h \in Pending[running] : Mask[h] \cap mask # {}
  <2>1. UNCHANGED kernelVars
    BY <1>1, Zenon DEF exos_thread_wait
  <2>2. UNCHANGED <<HState, Owner, Mask, waiters, draining, State>> /\ \A t \in Thread : KernelKept(t)
    BY <2>1, StutterFacts, Zenon
  <2>3. Pending \in [Thread -> SUBSET Handle] /\ PlaceInv
    BY Zenon DEF EInv, IInv, TypeOK
  <2>4. PICK h \in Pending[running] : Mask[h] \cap mask # {}
    BY <1>1, Zenon
  <2>5. h \in Handle
    BY ONLY <1>0, <2>3, <2>4, Zenon
  <2>6. HState[h] = "DONE" /\ Owner[h] = running
    BY ONLY <1>0, <2>3, <2>4, <2>5, Zenon DEF PlaceInv
  <2> QED
    BY ONLY <1>0, <2>2, <2>4, <2>5, <2>6, Zenon
<1>2. CASE ~ \E h \in Pending[running] : Mask[h] \cap mask # {}
  <2>1. /\ State' = [State EXCEPT ![running] = "WAIT"]
        /\ MaskWait' = [MaskWait EXCEPT ![running] = mask]
        /\ UNCHANGED <<HState, Owner, Mask, waiters>> /\ draining' = Nil
    BY <1>2, Zenon DEF exos_thread_wait, handleVars, EndSection
  <2>2. /\ State \in [Thread -> {"DETACHED", "READY", "WAIT"}]
        /\ MaskWait \in [Thread -> SUBSET Bit]
    BY Zenon DEF EInv, IInv, TypeOK
  <2>3. /\ State'[running] = "WAIT" /\ MaskWait'[running] = mask
        /\ \A t \in Thread \ {running} : State'[t] = State[t] /\ MaskWait'[t] = MaskWait[t]
    BY ONLY <1>0, <2>1, <2>2, Zenon
  <2>4. \A t \in Thread \ {running} : KernelKept(t)
    BY ONLY <2>1, <2>3, Zenon DEF KernelKept
  <2> QED
    BY ONLY <1>0, <2>1, <2>3, <2>4, Zenon
<1> QED
  BY ONLY <1>1, <1>2, Zenon

\* Only the two handles of a thread have the bits it waits for.
LEMMA MaskHit ==
  ASSUME IInv, NEW t \in Thread, NEW h \in Handle, Owner[t] = t, Owner[h] = t,
         timed[t] => Owner[Timer[t]] = t,
         Mask[h] \cap (Mask[t] \cup IF timed[t] THEN Mask[Timer[t]] ELSE {}) # {}
  PROVE  h = t \/ (timed[t] /\ h = Timer[t])
<1>1. t \in Handle /\ Timer[t] \in Handle
  BY Names, Zenon
<1>2. \A g, k \in Handle : g # k /\ Owner[g] = Owner[k] => Mask[g] \cap Mask[k] = {}
  BY Zenon DEF IInv, MaskExact
<1>3. h # t => Mask[h] \cap Mask[t] = {}
  BY ONLY <1>1, <1>2, h \in Handle, Owner[t] = t, Owner[h] = t, Zenon
<1>4. timed[t] /\ h # Timer[t] => Mask[h] \cap Mask[Timer[t]] = {}
  BY ONLY <1>1, <1>2, h \in Handle, timed[t] => Owner[Timer[t]] = t, Owner[h] = t, Zenon
<1> QED
  BY ONLY <1>3, <1>4, Mask[h] \cap (Mask[t] \cup IF timed[t] THEN Mask[Timer[t]] ELSE {}) # {}, Zenon

\* A turn of ___resume_all: the first handle of the list is done.
LEMMA FirstFacts ==
  ASSUME EInv, ResumeFirst, NEW h, h = Head(waiters[draining])
  PROVE  /\ h \in Handle /\ draining \in WaitList /\ h \in Range(waiters[draining])
         /\ HState[h] = "WAITING" /\ UNCHANGED <<MaskWait, Owner, Mask, draining, halted>>
         /\ HState' = [HState EXCEPT ![h] = "DONE"]
         /\ \A l \in WaitList : /\ Range(waiters'[l]) \subseteq Range(waiters[l])
                                /\ waiters[l] = <<>> => waiters'[l] = <<>>
         /\ \A t \in Thread : State[t] # State'[t] =>
              /\ State[t] = "WAIT" /\ State'[t] = "READY" /\ t = Owner[h]
              /\ MaskWait[t] \cap Mask[h] # {}
<1>1. draining # Nil /\ waiters[draining] # <<>> /\ _resume(h) /\ UNCHANGED <<draining, halted>> /\ IInv
  BY Zenon DEF ResumeFirst, EInv
<1>2. h \in Handle /\ HState[h] = "WAITING"
  BY ONLY <1>1, FirstIsWaiting, h = Head(waiters[draining]), Zenon
<1>3. draining \in WaitList /\ waiters[draining] \in Seq(Handle)
  BY ONLY <1>1, Zenon DEF IInv, TypeOK
<1>4. h \in Range(waiters[draining])
  <2> DEFINE list == waiters[draining]
  <2>1. list \in Seq(Handle) /\ list # <<>> /\ h = Head(list)
    BY <1>1, <1>3, Zenon
  <2> HIDE DEF list
  <2>2. h \in Range(list)
    BY ONLY <2>1, SMTT(30) DEF Range
  <2> QED
    BY <2>2, Zenon DEF list
<1>5. /\ HState' = [HState EXCEPT ![h] = "DONE"] /\ UNCHANGED <<MaskWait, Owner, Mask>>
      /\ waiters' = [l \in WaitList |-> list_remove(waiters[l], h)]
  BY ONLY <1>1, Zenon DEF _resume
<1>6. \A l \in WaitList : Range(waiters'[l]) = Range(waiters[l]) \ {h}
  BY ONLY <1>1, <1>2, <1>5, UnlinkFacts, ZenonT(40)
<1>7. \A l \in WaitList : waiters[l] = <<>> => waiters'[l] = <<>>
  BY ONLY <1>1, <1>2, <1>5, EmptyStaysEmpty, Zenon
<1>8. \A t \in Thread : State[t] # State'[t] =>
        State[t] = "WAIT" /\ State'[t] = "READY" /\ t = Owner[h] /\ Wakes(h)
  BY ONLY <1>1, <1>2, ResumeFacts, Zenon
<1>9. \A t \in Thread : State[t] # State'[t] =>
        /\ State[t] = "WAIT" /\ State'[t] = "READY" /\ t = Owner[h]
        /\ MaskWait[t] \cap Mask[h] # {}
  BY ONLY <1>8, Zenon DEF Wakes
<1> QED
  BY ONLY <1>1, <1>2, <1>3, <1>4, <1>5, <1>6, <1>7, <1>9, ZenonT(40)

----------------------------------------------------------------------------
(* Every step of a caller is a step of the thread kernel *)

\* exos_event_create finds the list of the timer's event empty.
LEMMA TimerCreateFacts ==
  ASSUME EInv, TimerCreate
  PROVE  UNCHANGED kernelVars
<1> DEFINE x == Timer[running]
<1>1. Calling /\ pc[running] = "timer" /\ waiters' = [waiters EXCEPT ![x] = <<>>]
  BY Zenon DEF TimerCreate, At
<1>2. running \in Thread /\ HState[x] = "DETACHED"
  BY <1>1, CallerFacts, Zenon DEF ThreadInv, HandlesInv
<1>3. waiters[x] = <<>> /\ waiters \in [WaitList -> Seq(Handle)]
  BY <1>2, TimerListEmpty, Zenon DEF EInv, IInv, TypeOK
<1>4. waiters' = waiters
  BY ONLY <1>1, <1>3, Zenon
<1> QED
  BY <1>4, Zenon DEF TimerCreate, kernelVars, handleVars

\* A caller at "wait" waits for the bits of its handles.
LEMMA WaitMask ==
  ASSUME EInv, At("wait")
  PROVE  (Mask[running] \cup IF timed[running] THEN Mask[Timer[running]] ELSE {})
           \in (SUBSET Bit) \ {{}}
<1>1. running \in Thread /\ halted = FALSE /\ ThreadInv(running) /\ pc[running] = "wait"
  BY CallerFacts, Zenon DEF At
<1>2. Owner[running] = running
  BY ONLY <1>1, Zenon DEF ThreadInv, HandlesInv
<1>3. running \in Handle /\ Timer[running] \in Handle /\ running # Nil
  BY <1>1, Names, Zenon
<1>4. MaskExact /\ Mask \in [Handle -> SUBSET Bit]
  BY Zenon DEF EInv, IInv, TypeOK
<1>5. Mask[running] # {}
  BY ONLY <1>2, <1>3, <1>4, Zenon DEF MaskExact
<1>6. Mask[running] \in SUBSET Bit /\ Mask[Timer[running]] \in SUBSET Bit
  BY ONLY <1>3, <1>4, Zenon
<1> QED
  BY ONLY <1>5, <1>6, Zenon

LEMMA AddIsThreadStep ==
  ASSUME EInv, NEW h \in Handle, NEW e \in Object, exos_event_add_handle(e, h)
  PROVE  [Next]_kernelVars
<1>1. CASE EState[e]
  BY <1>1, Zenon DEF exos_event_add_handle
<1>2. CASE ~EState[e]
  <2>1. exos_thread_add_wait_handle(h, e)
    BY <1>2, Zenon DEF exos_event_add_handle
  <2> QED
    BY <2>1, Zenon DEF Next
<1> QED
  BY <1>1, <1>2, Zenon

LEMMA StepIsThreadStep == ASSUME EInv, [EventNext]_vars PROVE [Next]_kernelVars
<1>0. Event \subseteq Object /\ TimerSet \subseteq Object
  BY EventAssumption, Zenon
<1>1. ASSUME NEW e \in Object, SetEvent(e) PROVE [Next]_kernelVars
  <2>1. exos_thread_resume_all(e)
    BY <1>1, Zenon DEF SetEvent
  <2> QED
    BY <2>1, Zenon DEF Next
<1>2. ASSUME NEW e \in Event, InterruptSets(e) PROVE [Next]_kernelVars
  BY <1>0, <1>1, <1>2, Zenon DEF InterruptSets
<1>3. ASSUME NEW e \in Event, exos_event_set(e) PROVE [Next]_kernelVars
  BY <1>0, <1>1, <1>3, Zenon DEF exos_event_set
<1>4. ASSUME NEW e \in Event, exos_event_reset(e) PROVE [Next]_kernelVars
  BY <1>4, Zenon DEF exos_event_reset
<1>5. ASSUME NEW e \in Event, NEW timeout \in BOOLEAN, exos_event_wait(e, timeout)
      PROVE  [Next]_kernelVars
  <2>1. running \in Thread
    BY <1>5, CallerFacts, Zenon DEF exos_event_wait, At
  <2>2. running \in Handle /\ e \in Object
    BY <1>0, <2>1, Names, Zenon
  <2> QED
    BY <1>5, <2>2, AddIsThreadStep, Zenon DEF exos_event_wait
<1>6. CASE ResumeWaiters
  <2>1. At("resume") /\ exos_thread_resume_all(want[running])
    BY <1>6, Zenon DEF ResumeWaiters
  <2>2. want[running] \in Object
    BY <1>0, <2>1, CallerFacts, Zenon DEF At, ThreadInv
  <2> QED
    BY <2>1, <2>2, Zenon DEF Next
<1>7. CASE TimerCreate
  BY <1>7, TimerCreateFacts, Zenon
<1>8. CASE TimerAdd
  <2>1. running \in Thread
    BY <1>8, CallerFacts, Zenon DEF TimerAdd, At
  <2>2. Timer[running] \in Handle /\ Timer[running] \in Object
    BY <2>1, Names, Zenon
  <2> QED
    BY <1>8, <2>2, AddIsThreadStep, Zenon DEF TimerAdd
<1>9. CASE Wait
  BY <1>9, WaitMask, Zenon DEF Wait, Next
<1>10. CASE Woken
  BY <1>10, Zenon DEF Woken
<1>11. CASE TimerHandleDispose
  <2>1. running \in Thread /\ exos_thread_dispose_wait_handle(Timer[running])
    BY <1>11, CallerFacts, Zenon DEF TimerHandleDispose, At
  <2>2. Timer[running] \in Handle
    BY <2>1, Names, Zenon
  <2> QED
    BY <2>1, <2>2, Zenon DEF Next
<1>12. CASE TimerDispose
  BY <1>12, Zenon DEF TimerDispose
<1>13. CASE Dispose
  <2>1. running \in Thread /\ exos_thread_dispose_wait_handle(running)
    BY <1>13, CallerFacts, Zenon DEF Dispose, At
  <2>2. running \in Handle
    BY <2>1, Names, Zenon
  <2> QED
    BY <2>1, <2>2, Zenon DEF Next
<1>14. CASE Return
  BY <1>14, Zenon DEF Return
<1>15. ASSUME NEW x \in TimerSet, Expire(x) PROVE [Next]_kernelVars
  BY <1>0, <1>1, <1>15, Zenon DEF Expire
<1>16. ASSUME NEW t \in Thread, Create(t) PROVE [Next]_kernelVars
  BY <1>16, Zenon DEF Create, Next
<1>17. CASE Kernel
  BY <1>17, Zenon DEF Kernel, Next
<1>18. CASE UNCHANGED vars
  BY <1>18, Zenon DEF vars
<1> QED
  BY <1>2, <1>3, <1>4, <1>5, <1>6, <1>7, <1>8, <1>9, <1>10, <1>11, <1>12, <1>13, <1>14, <1>15,
     <1>16, <1>17, <1>18, Zenon DEF EventNext, Waiting

----------------------------------------------------------------------------
(* What a step of thread r has to show *)

CallTypes ==
  /\ EState \in [Object -> BOOLEAN]
  /\ TState \in [TimerSet -> {"DETACHED", "RUNNING", "FINISHED"}]
  /\ pc \in [Thread -> Place]
  /\ want \in [Thread -> Event \cup {Nil}]
  /\ timed \in [Thread -> BOOLEAN]
  /\ done \in [Thread -> BOOLEAN]

\* What is on a list was there, or is a handle of r and on the right one.
ListStep(r) ==
  /\ \A l \in WaitList : \A h \in Range(waiters'[l]) :
       \/ h \in Range(waiters[l])
       \/ h = r /\ l = want'[r]
       \/ h = Timer[r] /\ l = h
  /\ want'[r] # want[r] => HState[r] = "DETACHED"
  /\ draining' \in TimerSet => TState'[draining'] = "FINISHED"

\* A set event with waiters was one before, or r is about to resume them.
WakeStep(r) ==
  \A e \in Object : EState'[e] /\ waiters'[e] # <<>> /\ draining' # e =>
    \/ pc'[r] = "resume" /\ want'[r] = e
    \/ EState[e] /\ waiters[e] # <<>> /\ draining # e /\ ~(pc[r] = "resume" /\ want[r] = e)

Kept == CallTypes /\ (\A t \in Thread : ThreadInv(t)) /\ ListInv /\ SetWakesAll

LEMMA CallerStep ==
  ASSUME EInv, NEW r \in Thread, halted = FALSE, CallTypes',
         \A t \in Thread \ {r} : CallKept(t),
         \A t \in Thread \ {r} : KernelKept(t),
         ThreadInv(r)', ListStep(r), WakeStep(r)
  PROVE  Kept'
<1>1. \A t \in Thread : ThreadInv(t)'
  <2>1. \A t \in Thread : ThreadInv(t)
    BY Zenon DEF EInv
  <2>2. \A t \in Thread \ {r} : ThreadInv(t)'
    BY <2>1, Frame, ZenonT(40)
  <2> QED
    BY <2>2, Zenon
<1>2. ListInv'
  <2>1. ASSUME NEW l \in WaitList, NEW h \in Range(waiters'[l])
        PROVE  (h \in Thread /\ l = want'[h]) \/ (h \in TimerSet /\ l = h)
    <3>1. CASE h \in Range(waiters[l])
      <4>1. (h \in Thread /\ l = want[h]) \/ (h \in TimerSet /\ l = h)
        BY <3>1, Zenon DEF EInv, ListInv
      <4>2. CASE h \in Thread /\ l = want[h] /\ h # r
        BY ONLY <4>2, \A t \in Thread \ {r} : CallKept(t), Zenon DEF CallKept
      <4>3. CASE h = r /\ l = want[r]
        <5>1. r \in Handle /\ IInv
          BY Names, Zenon DEF EInv
        <5>2. HState[r] # "DETACHED"
          BY ONLY <3>1, <4>3, <5>1, DetachedOnNoList, l \in WaitList, Zenon
        <5>3. want'[r] = want[r]
          BY ONLY <5>2, ListStep(r), Zenon DEF ListStep
        <5> QED
          BY ONLY <4>3, <5>3, r \in Thread, Zenon
      <4> QED
        BY ONLY <4>1, <4>2, <4>3, Zenon
    <3>2. CASE h = r /\ l = want'[r]
      BY <3>2, Zenon
    <3>3. CASE h = Timer[r] /\ l = h
      BY <3>3, Names, Zenon
    <3> QED
      BY ONLY <3>1, <3>2, <3>3, ListStep(r), l \in WaitList, h \in Range(waiters'[l]), Zenon DEF ListStep
  <2>2. draining' \in TimerSet => TState'[draining'] = "FINISHED"
    BY ONLY ListStep(r), Zenon DEF ListStep
  <2> QED
    BY ONLY <2>1, <2>2, Zenon DEF ListInv
<1>3. SetWakesAll'
  <2> SUFFICES ASSUME NEW e \in Object, EState'[e], waiters'[e] # <<>>, draining' # e
               PROVE  \E t \in Thread : pc'[t] = "resume" /\ want'[t] = e
    BY Zenon DEF SetWakesAll
  <2>1. CASE pc'[r] = "resume" /\ want'[r] = e
    BY <2>1, Zenon
  <2>2. CASE EState[e] /\ waiters[e] # <<>> /\ draining # e /\ ~(pc[r] = "resume" /\ want[r] = e)
    <3>1. PICK t \in Thread : pc[t] = "resume" /\ want[t] = e
      BY <2>2, Zenon DEF EInv, SetWakesAll
    <3>2. CallKept(t)
      BY ONLY <2>2, <3>1, \A u \in Thread \ {r} : CallKept(u), Zenon
    <3> QED
      BY ONLY <3>1, <3>2, Zenon DEF CallKept
  <2> QED
    BY <2>1, <2>2, Zenon DEF WakeStep
<1> QED
  BY <1>1, <1>2, <1>3, Zenon DEF Kept

----------------------------------------------------------------------------
(* Setting and resetting *)

LEMMA TypesNow ==
  ASSUME EInv
  PROVE  /\ CallTypes /\ running \in Thread /\ IInv
         /\ \A t \in Thread : ThreadInv(t)
         /\ draining \in TimerSet => TState[draining] = "FINISHED"
         /\ \A e \in Object : e # Nil
         /\ \A e \in Event : e \in Object /\ e \notin TimerSet
BY ObjectAssumption, EventAssumption, Zenon DEF EInv, EventTypeOK, CallTypes, IInv, TypeOK, ListInv

\* An event is set or reset inside a section that goes on to resume its waiters.
LEMMA SectionKeeps ==
  ASSUME EInv, NEW e \in Event, NEW state \in BOOLEAN, EState' = [EState EXCEPT ![e] = state],
         exos_thread_resume_all(e), UNCHANGED <<TState, pc, want, timed, done>>
  PROVE  Kept'
<1>0. PICK r : r = running
  BY Zenon
<1>1. /\ CallTypes /\ r \in Thread /\ ThreadInv(r) /\ e \in Object /\ e \notin TimerSet
      /\ \A o \in Object : o # Nil
  BY <1>0, TypesNow, Zenon
<1>2. /\ EState' = [EState EXCEPT ![e] = state] /\ state \in BOOLEAN
      /\ exos_thread_resume_all(e)
  BY Zenon
<1>3. /\ waiters' = waiters /\ draining = Nil /\ draining' = e /\ halted = FALSE
      /\ \A t \in Thread : KernelKept(t)
  <2>1. halted \in BOOLEAN
    BY Zenon DEF EInv, IInv, TypeOK
  <2> QED
    BY <1>2, <2>1, ResumeAllFacts, ZenonT(40)
<1>4. \A t \in Thread : CallKept(t)
  BY Zenon DEF CallKept
<1>5. CallTypes'
  BY ONLY <1>1, <1>2, UNCHANGED <<TState, pc, want, timed, done>>, Zenon DEF CallTypes
<1>6. ThreadInv(r)'
  BY ONLY <1>1, <1>3, <1>4, Frame, ZenonT(40)
<1>7. ListStep(r)
  BY ONLY <1>1, <1>3, UNCHANGED <<TState, pc, want, timed, done>>, Zenon DEF ListStep
<1>8. WakeStep(r)
  <2>1. \A o \in Object : o # e => EState'[o] = EState[o]
    BY ONLY <1>1, <1>2, Zenon DEF CallTypes
  <2> QED
    BY ONLY <1>1, <1>3, <2>1, UNCHANGED <<TState, pc, want, timed, done>>, Zenon DEF WakeStep
<1> QED
  BY ONLY EInv, <1>1, <1>3, <1>4, <1>5, <1>6, <1>7, <1>8, CallerStep, ZenonT(40)

\* Interrupt handlers set an event while the thread runs.
LEMMA SetKeeps ==
  ASSUME EInv, NEW e \in Event, SetEvent(e), UNCHANGED <<TState, pc, want, timed, done>>
  PROVE  Kept'
<1>1. PICK state \in BOOLEAN : state = (e \in AutoReset => waiters[e] = <<>>)
  BY Zenon
<1>2. EState' = [EState EXCEPT ![e] = state] /\ exos_thread_resume_all(e)
  BY <1>1, Zenon DEF SetEvent
<1> QED
  BY ONLY EInv, <1>1, <1>2, e \in Event, UNCHANGED <<TState, pc, want, timed, done>>, SectionKeeps, ZenonT(40)

\* A timer expires under its owner.
LEMMA ExpireKeeps ==
  ASSUME EInv, NEW x \in TimerSet, Expire(x)
  PROVE  Kept'
<1>1. PICK r \in Thread : x = Timer[r]
  BY Zenon DEF TimerSet
<1>2. CallTypes /\ ThreadInv(r) /\ x \in Object /\ \A o \in Object : o # Nil
  BY <1>1, TypesNow, Names, Zenon
<1>3. /\ TState[x] = "RUNNING" /\ TState' = [TState EXCEPT ![x] = "FINISHED"]
      /\ EState' = [EState EXCEPT ![x] = (x \in AutoReset => waiters[x] = <<>>)]
      /\ exos_thread_resume_all(x) /\ UNCHANGED <<pc, want, timed, done>>
  BY Zenon DEF Expire, SetEvent
<1>4. /\ waiters' = waiters /\ draining = Nil /\ draining' = x /\ halted = FALSE
      /\ \A t \in Thread : KernelKept(t)
  <2>1. halted \in BOOLEAN
    BY Zenon DEF EInv, IInv, TypeOK
  <2> QED
    BY <1>3, <2>1, ResumeAllFacts, Zenon
<1>5. CallTypes'
  BY ONLY <1>2, <1>3, Zenon DEF CallTypes
<1>6. TState'[x] = "FINISHED" /\ \A y \in TimerSet : y # x => TState'[y] = TState[y]
  BY ONLY <1>2, <1>3, x \in TimerSet, Zenon DEF CallTypes
<1>7. \A t \in Thread \ {r} : CallKept(t)
  <2>1. ASSUME NEW t \in Thread, t # r PROVE CallKept(t)
    <3>1. Timer[t] \in TimerSet /\ Timer[t] # x
      BY <1>1, <2>1, Names, TwoThreads, ZenonT(40)
    <3> QED
      BY ONLY <1>3, <1>6, <3>1, Zenon DEF CallKept
  <2> QED
    BY <2>1, Zenon
<1>8. ThreadInv(r)'
  <2>1. KernelKept(r)
    BY <1>4, Zenon
  <2>2. HandlesInv(r)'
    BY ONLY <1>2, <1>3, <1>4, <2>1, ZenonT(40) DEF ThreadInv, HandlesInv, KernelKept
  <2>3. SleepInv(r)'
    BY ONLY <1>2, <1>3, <2>1, ZenonT(40) DEF ThreadInv, SleepInv, KernelKept
  <2>4. TimerInv(r)'
    BY ONLY <1>1, <1>2, <1>3, <1>6, <2>1, ZenonT(40) DEF ThreadInv, TimerInv, KernelKept
  <2> QED
    BY ONLY <1>2, <1>3, <2>1, <2>2, <2>3, <2>4, Zenon DEF ThreadInv, KernelKept
<1>9. ListStep(r)
  BY ONLY <1>3, <1>4, <1>6, Zenon DEF ListStep
<1>10. WakeStep(r)
  <2>1. \A o \in Object : o # x => EState'[o] = EState[o]
    BY ONLY <1>2, <1>3, Zenon DEF CallTypes
  <2> QED
    BY ONLY <1>2, <1>3, <1>4, <2>1, Zenon DEF WakeStep
<1> QED
  BY ONLY EInv, <1>4, <1>5, <1>7, <1>8, <1>9, <1>10, CallerStep, ZenonT(40)

\* The first half of exos_event_set and exos_event_reset.
LEMMA MarkKeeps ==
  ASSUME EInv, NEW e \in Event, At("user"),
         \/ EState' = [EState EXCEPT ![e] = TRUE]
         \/ EState' = [EState EXCEPT ![e] = FALSE],
         want' = [want EXCEPT ![running] = e], Goto("resume"),
         UNCHANGED <<kernelVars, TState, timed, done>>
  PROVE  Kept'
<1>0. PICK r : r = running
  BY Zenon
<1>1. /\ CallTypes /\ r \in Thread /\ e \in Object /\ e \notin TimerSet
      /\ \A o \in Object : o # Nil
  BY <1>0, TypesNow, Zenon
<1>2. /\ ThreadInv(r) /\ pc[r] = "user" /\ State[r] = "READY" /\ halted = FALSE /\ draining = Nil
      /\ pc' = [pc EXCEPT ![r] = "resume"]
  BY <1>0, CallerFacts, Zenon DEF At, Goto
<1>3. /\ UNCHANGED <<running, State, MaskWait, HState, Owner, Mask, waiters, draining, halted>>
      /\ \A t \in Thread : KernelKept(t)
  BY <1>0, StutterFacts, Zenon
<1>4. /\ \/ EState' = [EState EXCEPT ![e] = TRUE]
         \/ EState' = [EState EXCEPT ![e] = FALSE]
      /\ want' = [want EXCEPT ![r] = e] /\ UNCHANGED <<TState, timed, done>>
  BY <1>0, Zenon
<1>5. CallTypes'
  BY ONLY <1>1, <1>2, <1>4, e \in Event, ZenonT(40) DEF CallTypes, Place
<1>6. \A t \in Thread \ {r} : CallKept(t)
  BY ONLY <1>1, <1>2, <1>4, Zenon DEF CallKept, CallTypes
<1>7. pc'[r] = "resume" /\ want'[r] = e
  BY ONLY <1>1, <1>2, <1>4, Zenon DEF CallTypes
<1>8. ThreadInv(r)'
  <2>1. HState[r] = "DETACHED" /\ HState[Timer[r]] = "DETACHED"
    BY ONLY <1>2, Zenon DEF ThreadInv, HandlesInv
  <2>2. HandlesInv(r)'
    BY ONLY <1>3, <1>7, <2>1, Zenon DEF HandlesInv
  <2>3. SleepInv(r)'
    BY ONLY <1>2, <1>3, <1>7, ZenonT(40) DEF SleepInv
  <2>4. TimerInv(r)'
    BY ONLY <1>2, <1>3, <1>4, <1>7, ZenonT(40) DEF ThreadInv, TimerInv
  <2> QED
    BY ONLY <1>2, <1>3, <1>7, <2>2, <2>3, <2>4, e \in Event, ZenonT(40) DEF ThreadInv
<1>9. ListStep(r)
  <2>1. HState[r] = "DETACHED"
    BY ONLY <1>2, ZenonT(40) DEF ThreadInv, HandlesInv
  <2>2. Nil \notin TimerSet
    BY EventAssumption, ObjectAssumption, Zenon
  <2> QED
    BY ONLY <1>2, <1>3, <2>1, <2>2, ZenonT(40) DEF ListStep
<1>10. WakeStep(r)
  <2>1. \A o \in Object : o # e => EState'[o] = EState[o]
    BY ONLY <1>1, <1>4, Zenon DEF CallTypes
  <2> QED
    BY ONLY <1>1, <1>2, <1>3, <1>7, <2>1, Zenon DEF WakeStep
<1> QED
  BY ONLY EInv, <1>1, <1>2, <1>3, <1>5, <1>6, <1>8, <1>9, <1>10, CallerStep, ZenonT(40)

\* The end of a call: it resumes an event's waiters, or has nothing left to do.
LEMMA BackKeeps ==
  ASSUME EInv, Calling, BackToUser, NEW e \in Event, pc[running] \in {"return", "resume"},
         \/ pc[running] = "return" /\ UNCHANGED <<EState, kernelVars>>
         \/ e = want[running] /\ exos_thread_resume_all(e) /\ UNCHANGED EState
         \/ pc[running] = "return" /\ exos_thread_resume_all(e) /\ EState' = [EState EXCEPT ![e] = FALSE]
  PROVE  Kept'
<1>0. PICK r : r = running
  BY Zenon
<1> DEFINE x == Timer[r]
<1>1. /\ CallTypes /\ r \in Thread /\ x \in TimerSet /\ e \in Object /\ e \notin TimerSet
      /\ \A o \in Object : o # Nil
  BY <1>0, TypesNow, Names, Zenon
<1>2. ThreadInv(r) /\ State[r] = "READY" /\ halted = FALSE /\ draining = Nil
  BY <1>0, CallerFacts, Zenon
<1>3. /\ TState' = [TState EXCEPT ![x] = "DETACHED"] /\ pc' = [pc EXCEPT ![r] = "user"]
      /\ want' = [want EXCEPT ![r] = Nil] /\ timed' = [timed EXCEPT ![r] = FALSE]
      /\ done' = [done EXCEPT ![r] = FALSE]
      /\ EState' = EState \/ (EState' = [EState EXCEPT ![e] = FALSE] /\ draining' = e)
  BY <1>0, ResumeAllFacts, Zenon DEF BackToUser, Goto
<1>4. /\ UNCHANGED <<State, HState, waiters, halted>> /\ \A t \in Thread : KernelKept(t)
      /\ pc[r] \in {"return", "resume"} /\ draining' \in {Nil, e}
      /\ pc[r] = "resume" => draining' = want[r]
  BY <1>0, <1>2, StutterFacts, ResumeAllFacts, Zenon
<1>5. x = Timer[r]
  BY Zenon
<1>6. CallTypes'
  BY ONLY <1>1, <1>3, Zenon DEF CallTypes, Place
<1>7. \A t \in Thread \ {r} : CallKept(t)
  <2>1. ASSUME NEW t \in Thread, t # r PROVE CallKept(t)
    <3>1. Timer[t] \in TimerSet /\ Timer[t] # x
      BY <1>1, <1>5, <2>1, Names, TwoThreads, ZenonT(40)
    <3> QED
      BY ONLY <1>1, <1>3, <2>1, <3>1, Zenon DEF CallKept, CallTypes
  <2> QED
    BY <2>1, Zenon
<1>8. pc'[r] = "user" /\ TState'[x] = "DETACHED"
  BY ONLY <1>1, <1>3, Zenon DEF CallTypes
<1>9. HState[r] = "DETACHED" /\ HState[x] = "DETACHED"
  BY ONLY <1>2, <1>4, <1>5, Zenon DEF ThreadInv, HandlesInv
<1>10. ThreadInv(r)'
  <2>1. HandlesInv(r)'
    BY ONLY <1>4, <1>5, <1>8, <1>9, Zenon DEF HandlesInv
  <2>2. SleepInv(r)'
    BY ONLY <1>2, <1>4, <1>8, Zenon DEF SleepInv
  <2>3. TimerInv(r)'
    BY ONLY <1>4, <1>5, <1>8, <1>9, ZenonT(40) DEF TimerInv
  <2> QED
    BY ONLY <1>8, <2>1, <2>2, <2>3, Zenon DEF ThreadInv
<1>11. ListStep(r)
  <2>1. Nil \notin TimerSet /\ Event \cap TimerSet = {}
    BY EventAssumption, ObjectAssumption, Zenon
  <2>2. draining' \notin TimerSet
    BY ONLY <1>1, <1>4, <2>1, Zenon
  <2> QED
    BY ONLY <1>4, <1>9, <2>2, ZenonT(40) DEF ListStep
<1>12. WakeStep(r)
  <2>1. \A o \in Object : EState'[o] => EState[o]
    BY ONLY <1>1, <1>3, Zenon DEF CallTypes
  <2> QED
    BY ONLY <1>1, <1>2, <1>4, <2>1, ZenonT(40) DEF WakeStep
<1> QED
  BY ONLY EInv, <1>1, <1>2, <1>4, <1>6, <1>7, <1>10, <1>11, <1>12, CallerStep, ZenonT(40)

----------------------------------------------------------------------------
(* Waiting *)

LEMMA WaitCallKeeps ==
  ASSUME EInv, NEW e \in Event, NEW timeout \in BOOLEAN, exos_event_wait(e, timeout)
  PROVE  Kept'
<1>0. PICK r : r = running
  BY Zenon
<1> DEFINE x == Timer[r]
           place == IF EState[e] THEN "return" ELSE IF timeout THEN "timer" ELSE "wait"
<1>1. /\ CallTypes /\ r \in Thread /\ x \in TimerSet /\ e \in Object /\ e \notin TimerSet
      /\ \A o \in Object : o # Nil
  BY <1>0, TypesNow, Names, Zenon
<1>2. /\ ThreadInv(r) /\ pc[r] = "user" /\ State[r] = "READY" /\ halted = FALSE /\ draining = Nil
  BY <1>0, CallerFacts, Zenon DEF exos_event_wait, At
<1>3. /\ want' = [want EXCEPT ![r] = e] /\ timed' = [timed EXCEPT ![r] = timeout]
      /\ done' = [done EXCEPT ![r] = TRUE] /\ pc' = [pc EXCEPT ![r] = place] /\ TState' = TState
      /\ exos_event_add_handle(e, r)
  BY <1>0, Zenon DEF exos_event_wait, Goto
<1>4. x = Timer[r] /\ r = running /\ place \in Place
  BY <1>0, Zenon DEF Place
<1>5. place = IF EState[e] THEN "return" ELSE IF timeout THEN "timer" ELSE "wait"
  BY Zenon
<1> HIDE DEF place
<1>6. \A t \in Thread \ {r} : CallKept(t)
  BY ONLY <1>1, <1>3, Zenon DEF CallKept, CallTypes
<1>7. pc'[r] = place /\ want'[r] = e /\ timed'[r] = timeout /\ done'[r] = TRUE
  BY ONLY <1>1, <1>3, Zenon DEF CallTypes
<1>8. HState[r] = "DETACHED" /\ HState[x] = "DETACHED" /\ TState[x] # "RUNNING"
  BY ONLY <1>2, <1>4, Zenon DEF ThreadInv, HandlesInv, TimerInv
<1>9. Nil \notin TimerSet
  BY EventAssumption, ObjectAssumption, Zenon
<1>10. CASE EState[e]
  <2>1. EState' = [EState EXCEPT ![e] = e \notin AutoReset] /\ UNCHANGED kernelVars
    BY <1>3, <1>10, Zenon DEF exos_event_add_handle
  <2>2. UNCHANGED <<State, HState, waiters, halted, draining>> /\ \A t \in Thread : KernelKept(t)
    BY <1>0, <2>1, StutterFacts, Zenon
  <2>3. CallTypes'
    BY ONLY <1>1, <1>3, <1>4, <2>1, e \in Event, timeout \in BOOLEAN, Zenon DEF CallTypes
  <2>4. pc'[r] = "return"
    BY ONLY <1>5, <1>7, <1>10, Zenon
  <2>5. ThreadInv(r)'
    <3>1. HandlesInv(r)'
      BY ONLY <1>4, <1>8, <2>2, <2>4, ZenonT(40) DEF HandlesInv
    <3>2. SleepInv(r)'
      BY ONLY <1>2, <2>2, <2>4, ZenonT(40) DEF SleepInv
    <3>3. TimerInv(r)'
      BY ONLY <1>3, <1>4, <1>7, <1>8, <2>2, <2>4, ZenonT(40) DEF TimerInv
    <3> QED
      BY ONLY <1>2, <1>7, <2>2, <3>1, <3>2, <3>3, e \in Event, ZenonT(40) DEF ThreadInv
  <2>6. ListStep(r)
    BY ONLY <1>2, <1>8, <1>9, <2>2, ZenonT(40) DEF ListStep
  <2>7. WakeStep(r)
    <3>1. \A o \in Object : EState'[o] => EState[o]
      BY ONLY <1>1, <1>10, <2>1, Zenon DEF CallTypes
    <3> QED
      BY ONLY <1>1, <1>2, <2>2, <3>1, ZenonT(40) DEF WakeStep
  <2> QED
    BY ONLY EInv, <1>1, <1>2, <1>6, <2>2, <2>3, <2>5, <2>6, <2>7, CallerStep, ZenonT(40)
<1>11. CASE ~EState[e]
  <2>1. EState' = EState /\ exos_thread_add_wait_handle(r, e)
    BY <1>3, <1>11, Zenon DEF exos_event_add_handle
  <2>2. /\ UNCHANGED <<State, draining>>
        /\ \A g \in Handle \ {r} : HState'[g] = HState[g]
        /\ \A l \in WaitList \ {e} : waiters'[l] = waiters[l]
        /\ \A t \in Thread \ {r} : KernelKept(t)
        /\ IF halted' THEN waiters' = waiters
           ELSE Owner'[r] = r /\ Range(waiters'[e]) = Range(waiters[e]) \cup {r}
    BY ONLY EInv, <1>1, <1>4, <2>1, AddFacts, Zenon
  <2>3. CallTypes'
    BY ONLY <1>1, <1>3, <1>4, <2>1, e \in Event, timeout \in BOOLEAN, Zenon DEF CallTypes
  <2>4. pc'[r] = IF timeout THEN "timer" ELSE "wait"
    BY ONLY <1>5, <1>7, <1>11, Zenon
  <2>5. HState'[x] = "DETACHED"
    <3>1. x \in Handle /\ x # r
      BY <1>1, <1>4, Names, Zenon
    <3> QED
      BY ONLY <1>8, <2>2, <3>1, ZenonT(40)
  <2>6. ThreadInv(r)'
    <3>1. HandlesInv(r)'
      BY ONLY <1>4, <1>7, <2>2, <2>4, <2>5, ZenonT(40) DEF HandlesInv
    <3>2. SleepInv(r)'
      BY ONLY <1>2, <2>2, <2>4, Zenon DEF SleepInv
    <3>3. TimerInv(r)'
      BY ONLY <1>3, <1>4, <1>7, <1>8, <2>4, <2>5, SMTT(30) DEF TimerInv
    <3> QED
      BY ONLY <1>2, <1>7, <2>2, <3>1, <3>2, <3>3, e \in Event, ZenonT(40) DEF ThreadInv
  <2>7. ListStep(r)
    <3>1. ASSUME NEW l \in WaitList, NEW h \in Range(waiters'[l])
          PROVE  h \in Range(waiters[l]) \/ (h = r /\ l = want'[r])
      <4>1. CASE l # e
        <5>1. waiters'[l] = waiters[l]
          BY ONLY <2>2, <4>1, l \in WaitList, Zenon
        <5> QED
          BY ONLY <5>1, h \in Range(waiters'[l]), Zenon
      <4>2. CASE l = e
        <5>1. want'[r] = e
          BY ONLY <1>7, Zenon
        <5>2. h \in Range(waiters[e]) \/ h = r
          <6>1. waiters' = waiters \/ Range(waiters'[e]) = Range(waiters[e]) \cup {r}
            BY ONLY <2>2, Zenon
          <6> QED
            BY ONLY <6>1, <4>2, h \in Range(waiters'[l]), Zenon
        <5> QED
          BY ONLY <4>2, <5>1, <5>2, Zenon
      <4> QED
        BY ONLY <4>1, <4>2, Zenon
    <3> QED
      BY ONLY <1>2, <1>8, <1>9, <2>2, <3>1, ZenonT(40) DEF ListStep
  <2>8. WakeStep(r)
    <3>1. \A o \in Object : o \in WaitList
      BY Zenon DEF WaitList
    <3> QED
      BY ONLY <1>1, <1>2, <1>11, <2>1, <2>2, <3>1, ZenonT(40) DEF WakeStep
  <2> QED
    BY ONLY EInv, <1>1, <1>2, <1>6, <2>2, <2>3, <2>6, <2>7, <2>8, CallerStep, ZenonT(40)
<1> QED
  BY <1>10, <1>11, Zenon

\* What every later step of exos_event_wait starts from.
LEMMA InCall ==
  ASSUME EInv, NEW place, At(place), NEW r, r = running
  PROVE  /\ r \in Thread /\ Timer[r] \in TimerSet /\ Timer[r] \in Object /\ Timer[r] \in Handle
         /\ Timer[r] # r /\ r \in Handle /\ CallTypes /\ ThreadInv(r)
         /\ HandlesInv(r) /\ SleepInv(r) /\ TimerInv(r)
         /\ place # "user" => State[r] # "DETACHED" /\ want[r] \in Event
         /\ pc[r] = place /\ State[r] = "READY" /\ halted = FALSE /\ draining = Nil
         /\ Nil \notin TimerSet /\ \A o \in Object : o # Nil /\ o \in WaitList
<1>1. CallTypes /\ r \in Thread /\ \A o \in Object : o # Nil
  BY TypesNow, Zenon
<1>2. ThreadInv(r) /\ pc[r] = place /\ State[r] = "READY" /\ halted = FALSE /\ draining = Nil
  BY CallerFacts, Zenon DEF At
<1>3. /\ Timer[r] \in TimerSet /\ Timer[r] \in Object /\ Timer[r] \in Handle
      /\ Timer[r] # r /\ r \in Handle
  BY <1>1, Names, Zenon
<1>4. Nil \notin TimerSet
  BY EventAssumption, ObjectAssumption, Zenon
<1>5. HandlesInv(r) /\ SleepInv(r) /\ TimerInv(r) /\ (pc[r] # "user" => State[r] # "DETACHED" /\ want[r] \in Event)
  BY ONLY <1>2, Zenon DEF ThreadInv
<1> QED
  BY ONLY <1>1, <1>2, <1>3, <1>4, <1>5, ZenonT(40) DEF WaitList


LEMMA TimerCreateKeeps == ASSUME EInv, TimerCreate PROVE Kept'
<1>0. PICK r : r = running
  BY Zenon
<1> DEFINE x == Timer[r]
<1>1. /\ r \in Thread /\ x \in TimerSet /\ x \in Object /\ CallTypes
      /\ HandlesInv(r) /\ TimerInv(r) /\ want[r] \in Event
      /\ pc[r] = "timer" /\ State[r] = "READY" /\ halted = FALSE /\ draining = Nil
      /\ Nil \notin TimerSet /\ \A o \in Object : o # Nil
  BY <1>0, InCall, ZenonT(40) DEF TimerCreate
<1>2. /\ TState' = [TState EXCEPT ![x] = "RUNNING"] /\ EState' = [EState EXCEPT ![x] = FALSE]
      /\ pc' = [pc EXCEPT ![r] = "tadd"] /\ UNCHANGED <<want, timed, done>>
  BY <1>0, Zenon DEF TimerCreate, Goto
<1>3. UNCHANGED <<State, HState, Owner, waiters, draining, halted>> /\ \A t \in Thread : KernelKept(t)
  BY TimerCreateFacts, StutterFacts, Zenon
<1>4. CallTypes'
  BY ONLY <1>1, <1>2, Zenon DEF CallTypes, Place
<1>5. \A t \in Thread \ {r} : CallKept(t)
  <2>1. ASSUME NEW t \in Thread, t # r PROVE CallKept(t)
    <3>1. Timer[t] \in TimerSet /\ Timer[t] # x
      BY <1>1, <2>1, Names, TwoThreads, ZenonT(40)
    <3> QED
      BY ONLY <1>1, <1>2, <2>1, <3>1, Zenon DEF CallKept, CallTypes
  <2> QED
    BY <2>1, Zenon
<1>6. pc'[r] = "tadd" /\ TState'[x] = "RUNNING" /\ want'[r] = want[r] /\ timed'[r] = timed[r] /\ done'[r] = done[r]
  BY ONLY <1>1, <1>2, Zenon DEF CallTypes
<1>7. ThreadInv(r)'
  <2>1. HandlesInv(r)'
    BY ONLY <1>1, <1>3, <1>6, Zenon DEF HandlesInv
  <2>2. SleepInv(r)'
    BY ONLY <1>1, <1>3, <1>6, Zenon DEF SleepInv
  <2>3. TimerInv(r)'
    BY ONLY <1>1, <1>3, <1>6, Zenon DEF TimerInv, HandlesInv
  <2> QED
    BY ONLY <1>1, <1>3, <1>6, <2>1, <2>2, <2>3, Zenon DEF ThreadInv
<1>8. ListStep(r)
  BY ONLY <1>1, <1>2, <1>3, Zenon DEF ListStep
<1>9. WakeStep(r)
  <2>1. \A o \in Object : EState'[o] => EState[o]
    BY ONLY <1>1, <1>2, Zenon DEF CallTypes
  <2> QED
    BY ONLY <1>1, <1>3, <2>1, Zenon DEF WakeStep
<1> QED
  BY ONLY EInv, <1>1, <1>3, <1>4, <1>5, <1>7, <1>8, <1>9, CallerStep, ZenonT(40)

LEMMA TimerAddKeeps == ASSUME EInv, TimerAdd PROVE Kept'
<1>0. PICK r : r = running
  BY Zenon
<1> DEFINE x == Timer[r]
<1>1. /\ r \in Thread /\ x \in TimerSet /\ x \in Object /\ x \in Handle /\ x # r /\ r \in Handle /\ CallTypes
      /\ HandlesInv(r) /\ TimerInv(r) /\ want[r] \in Event
      /\ pc[r] = "tadd" /\ State[r] = "READY" /\ halted = FALSE /\ draining = Nil
      /\ Nil \notin TimerSet /\ \A o \in Object : o # Nil /\ o \in WaitList
  BY <1>0, InCall, ZenonT(40) DEF TimerAdd
<1>2. /\ pc' = [pc EXCEPT ![r] = IF EState[x] THEN "tdispose" ELSE "wait"]
      /\ UNCHANGED <<TState, want, timed, done>> /\ exos_event_add_handle(x, x)
  BY <1>0, Zenon DEF TimerAdd, Goto
<1>3. \A t \in Thread \ {r} : CallKept(t)
  BY ONLY <1>1, <1>2, Zenon DEF CallKept, CallTypes
<1>4. CASE EState[x]
  <2>1. EState' = [EState EXCEPT ![x] = x \notin AutoReset] /\ UNCHANGED kernelVars
    BY <1>2, <1>4, Zenon DEF exos_event_add_handle
  <2>2. UNCHANGED <<State, HState, Owner, waiters, draining, halted>> /\ \A t \in Thread : KernelKept(t)
    BY <2>1, StutterFacts, Zenon
  <2>3. CallTypes'
    BY ONLY <1>1, <1>2, <2>1, Zenon DEF CallTypes, Place
  <2>4. pc'[r] = "tdispose"
    BY ONLY <1>1, <1>2, <1>4, Zenon DEF CallTypes
  <2>5. ThreadInv(r)'
    <3>1. HandlesInv(r)'
      BY ONLY <1>1, <2>2, <2>4, Zenon DEF HandlesInv
    <3>2. SleepInv(r)'
      BY ONLY <1>1, <2>2, <2>4, Zenon DEF SleepInv
    <3>3. TimerInv(r)'
      BY ONLY <1>1, <1>2, <2>2, <2>4, Zenon DEF TimerInv
    <3> QED
      BY ONLY <1>1, <1>2, <2>2, <3>1, <3>2, <3>3, Zenon DEF ThreadInv
  <2>6. ListStep(r)
    BY ONLY <1>1, <1>2, <2>2, Zenon DEF ListStep
  <2>7. WakeStep(r)
    <3>1. \A o \in Object : EState'[o] => EState[o]
      BY ONLY <1>1, <1>4, <2>1, Zenon DEF CallTypes
    <3> QED
      BY ONLY <1>1, <2>2, <3>1, Zenon DEF WakeStep
  <2> QED
    BY ONLY EInv, <1>1, <1>3, <2>2, <2>3, <2>5, <2>6, <2>7, CallerStep, ZenonT(40)
<1>5. CASE ~EState[x]
  <2>1. EState' = EState /\ exos_thread_add_wait_handle(x, x)
    BY <1>2, <1>5, Zenon DEF exos_event_add_handle
  <2>2. /\ UNCHANGED <<State, draining>> /\ HState[x] = "DETACHED"
        /\ \A g \in Handle \ {x} : HState'[g] = HState[g] /\ Owner'[g] = Owner[g]
        /\ \A l \in WaitList \ {x} : waiters'[l] = waiters[l]
        /\ \A t \in Thread \ {r} : KernelKept(t)
        /\ IF halted' THEN HState' = HState /\ waiters' = waiters
           ELSE /\ HState'[x] = "WAITING" /\ Owner'[x] = r
                /\ Range(waiters'[x]) = Range(waiters[x]) \cup {x}
    BY ONLY EInv, <1>0, <1>1, <2>1, AddFacts, Zenon
  <2>3. CallTypes'
    BY ONLY <1>1, <1>2, <2>1, Zenon DEF CallTypes, Place
  <2>4. pc'[r] = "wait"
    BY ONLY <1>1, <1>2, <1>5, Zenon DEF CallTypes
  <2>5. Owner'[r] = Owner[r] /\ HState'[x] # "DONE"
    BY ONLY <1>1, <2>2, Zenon
  <2>6. ThreadInv(r)'
    <3>1. HandlesInv(r)'
      BY ONLY <1>1, <1>2, <2>2, <2>4, <2>5, ZenonT(40) DEF HandlesInv, TimerInv
    <3>2. SleepInv(r)'
      BY ONLY <1>1, <2>2, <2>4, Zenon DEF SleepInv
    <3>3. TimerInv(r)'
      BY ONLY <1>1, <1>2, <2>4, <2>5, Zenon DEF TimerInv
    <3> QED
      BY ONLY <1>1, <1>2, <2>2, <3>1, <3>2, <3>3, Zenon DEF ThreadInv
  <2>7. ListStep(r)
    <3>1. ASSUME NEW l \in WaitList, NEW h \in Range(waiters'[l])
          PROVE  h \in Range(waiters[l]) \/ (h = x /\ l = h)
      BY ONLY <2>2, l \in WaitList, h \in Range(waiters'[l]), SMTT(30)
    <3> QED
      BY ONLY <1>1, <1>2, <2>2, <3>1, Zenon DEF ListStep
  <2>8. WakeStep(r)
    BY ONLY <1>1, <1>5, <2>1, <2>2, Zenon DEF WakeStep
  <2> QED
    BY ONLY EInv, <1>1, <1>3, <2>2, <2>3, <2>6, <2>7, <2>8, CallerStep, ZenonT(40)
<1> QED
  BY <1>4, <1>5, Zenon

\* A thread that goes on at once has one of its handles done.
LEMMA WaitKeepsCall == ASSUME EInv, Wait PROVE Kept'
<1>0. PICK r : r = running
  BY Zenon
<1> DEFINE x == Timer[r]
           mask == Mask[r] \cup IF timed[r] THEN Mask[x] ELSE {}
<1>1. /\ r \in Thread /\ x \in Handle /\ r \in Handle /\ CallTypes
      /\ HandlesInv(r) /\ TimerInv(r) /\ want[r] \in Event
      /\ pc[r] = "wait" /\ State[r] = "READY" /\ halted = FALSE /\ draining = Nil
      /\ Nil \notin TimerSet /\ \A o \in Object : o # Nil
  BY <1>0, InCall, ZenonT(40) DEF Wait
<1>2. /\ pc' = [pc EXCEPT ![r] = "woken"] /\ UNCHANGED <<EState, TState, want, timed, done>>
      /\ exos_thread_wait(mask)
  BY <1>0, Zenon DEF Wait, Goto
<1>3. /\ UNCHANGED <<HState, Owner, Mask, waiters, draining>>
      /\ \A t \in Thread \ {r} : KernelKept(t)
      /\ \/ State'[r] = "WAIT" /\ MaskWait'[r] = mask
         \/ /\ State'[r] = "READY"
            /\ \E h \in Handle : HState[h] = "DONE" /\ Owner[h] = r /\ Mask[h] \cap mask # {}
  BY ONLY EInv, <1>0, <1>2, WaitFacts, Zenon
<1>4. Owner[r] = r /\ (timed[r] => Owner[x] = r)
  BY ONLY <1>1, Zenon DEF HandlesInv
<1>5. State'[r] = "READY" => HState[r] = "DONE" \/ (timed[r] /\ HState[x] = "DONE")
  <2>1. IInv
    BY Zenon DEF EInv
  <2>2. ASSUME NEW h \in Handle, HState[h] = "DONE", Owner[h] = r, Mask[h] \cap mask # {}
        PROVE  h = r \/ (timed[r] /\ h = x)
    BY ONLY <1>1, <1>4, <2>1, <2>2, MaskHit, Zenon
  <2> QED
    BY ONLY <1>3, <2>2, Zenon
<1>6. CallTypes'
  BY ONLY <1>1, <1>2, Zenon DEF CallTypes, Place
<1>7. \A t \in Thread \ {r} : CallKept(t)
  BY ONLY <1>1, <1>2, Zenon DEF CallKept, CallTypes
<1>8. pc'[r] = "woken"
  BY ONLY <1>1, <1>2, Zenon DEF CallTypes
<1>9. ThreadInv(r)'
  <2>1. HandlesInv(r)'
    BY ONLY <1>1, <1>2, <1>3, <1>4, <1>8, ZenonT(40) DEF HandlesInv
  <2>2. SleepInv(r)'
    BY ONLY <1>2, <1>3, <1>5, <1>8, Zenon DEF SleepInv
  <2>3. TimerInv(r)'
    BY ONLY <1>1, <1>2, <1>3, <1>8, Zenon DEF TimerInv
  <2> QED
    BY ONLY <1>1, <1>2, <1>3, <2>1, <2>2, <2>3, Zenon DEF ThreadInv
<1>10. ListStep(r)
  BY ONLY <1>1, <1>2, <1>3, ZenonT(40) DEF ListStep
<1>11. WakeStep(r)
  BY ONLY <1>1, <1>2, <1>3, Zenon DEF WakeStep
<1> QED
  BY ONLY EInv, <1>1, <1>3, <1>6, <1>7, <1>9, <1>10, <1>11, CallerStep, ZenonT(40)

\* "done" is FALSE only when the timer was what woke the thread.
LEMMA WokenKeeps == ASSUME EInv, Woken PROVE Kept'
<1>0. PICK r : r = running
  BY Zenon
<1> DEFINE x == Timer[r]
<1>1. /\ r \in Thread /\ CallTypes
      /\ HandlesInv(r) /\ SleepInv(r) /\ TimerInv(r) /\ want[r] \in Event
      /\ pc[r] = "woken" /\ State[r] = "READY" /\ halted = FALSE /\ draining = Nil
      /\ Nil \notin TimerSet /\ \A o \in Object : o # Nil
  BY <1>0, InCall, ZenonT(40) DEF Woken
<1>2. /\ pc' = [pc EXCEPT ![r] = IF timed[r] THEN "tfree" ELSE "dispose"]
      /\ done' = [done EXCEPT ![r] = timed[r] => HState[r] = "DONE"]
      /\ UNCHANGED <<EState, TState, want, timed>> /\ UNCHANGED kernelVars
  BY <1>0, Zenon DEF Woken, Goto
<1>3. UNCHANGED <<State, HState, Owner, waiters, draining, halted>> /\ \A t \in Thread : KernelKept(t)
  BY <1>2, StutterFacts, Zenon
<1>4. CallTypes'
  BY ONLY <1>1, <1>2, Zenon DEF CallTypes, Place
<1>5. \A t \in Thread \ {r} : CallKept(t)
  BY ONLY <1>1, <1>2, Zenon DEF CallKept, CallTypes
<1>6. /\ pc'[r] = IF timed[r] THEN "tfree" ELSE "dispose"
      /\ done'[r] <=> (timed[r] => HState[r] = "DONE")
  BY ONLY <1>1, <1>2, ZenonT(40) DEF CallTypes
<1>7. ThreadInv(r)'
  <2>1. HandlesInv(r)'
    BY ONLY <1>1, <1>2, <1>3, <1>6 DEF HandlesInv
  <2>2. SleepInv(r)'
    BY ONLY <1>1, <1>3, <1>6, ZenonT(40) DEF SleepInv
  <2>3. TimerInv(r)'
    BY ONLY <1>1, <1>2, <1>3, <1>6, SMTT(30) DEF TimerInv, SleepInv
  <2> QED
    BY ONLY <1>1, <1>2, <1>3, <2>1, <2>2, <2>3, ZenonT(40) DEF ThreadInv
<1>8. ListStep(r)
  BY ONLY <1>1, <1>2, <1>3, Zenon DEF ListStep
<1>9. WakeStep(r)
  BY ONLY <1>1, <1>2, <1>3, Zenon DEF WakeStep
<1> QED
  BY ONLY EInv, <1>1, <1>3, <1>4, <1>5, <1>7, <1>8, <1>9, CallerStep, ZenonT(40)

\* The two handles go, the timer's first.
LEMMA DisposeKeepsCall ==
  ASSUME EInv, NEW h, NEW place,
         \/ h = Timer[running] /\ At("tfree") /\ place = "tdispose"
         \/ h = running /\ At("dispose") /\ place = "return",
         exos_thread_dispose_wait_handle(h), Goto(place),
         UNCHANGED <<EState, TState, want, timed, done>>
  PROVE  Kept'
<1>0. PICK r : r = running
  BY Zenon
<1> DEFINE x == Timer[r]
<1>1. /\ r \in Thread /\ x \in Handle /\ x # r /\ r \in Handle /\ CallTypes
      /\ HandlesInv(r) /\ TimerInv(r) /\ want[r] \in Event
      /\ State[r] = "READY" /\ halted = FALSE /\ draining = Nil
      /\ Nil \notin TimerSet /\ \A o \in Object : o # Nil /\ o \in WaitList
  BY <1>0, InCall, ZenonT(40)
<1>2. /\ pc' = [pc EXCEPT ![r] = place] /\ UNCHANGED <<EState, TState, want, timed, done>>
      /\ \/ h = x /\ pc[r] = "tfree" /\ place = "tdispose"
         \/ h = r /\ pc[r] = "dispose" /\ place = "return"
  BY <1>0, Zenon DEF Goto, At
<1>3. /\ UNCHANGED <<State, draining, halted>> /\ HState'[h] = "DETACHED"
      /\ \A g \in Handle \ {h} : HState'[g] = HState[g] /\ Owner'[g] = Owner[g]
      /\ \A l \in WaitList : /\ Range(waiters'[l]) \subseteq Range(waiters[l])
                             /\ waiters[l] = <<>> => waiters'[l] = <<>>
      /\ \A t \in Thread \ {r} : KernelKept(t)
  BY <1>0, <1>2, DisposeFacts, ZenonT(40)
<1>4. CallTypes'
  BY ONLY <1>1, <1>2, Zenon DEF CallTypes, Place
<1>5. \A t \in Thread \ {r} : CallKept(t)
  BY ONLY <1>1, <1>2, Zenon DEF CallKept, CallTypes
<1>6. pc'[r] = place
  BY ONLY <1>1, <1>2, Zenon DEF CallTypes
<1>7. HState'[x] = "DETACHED" /\ (h = x => Owner'[r] = Owner[r])
  BY ONLY <1>1, <1>2, <1>3, Zenon DEF HandlesInv
<1>8. ThreadInv(r)'
  <2>1. HandlesInv(r)'
    BY ONLY <1>1, <1>2, <1>3, <1>6, <1>7, ZenonT(40) DEF HandlesInv
  <2>2. SleepInv(r)'
    BY ONLY <1>1, <1>2, <1>3, <1>6, ZenonT(40) DEF SleepInv
  <2>3. TimerInv(r)'
    BY ONLY <1>1, <1>2, <1>6, <1>7, ZenonT(40) DEF TimerInv
  <2> QED
    BY ONLY <1>1, <1>2, <1>3, <2>1, <2>2, <2>3, ZenonT(40) DEF ThreadInv
<1>9. ListStep(r)
  BY ONLY <1>1, <1>2, <1>3, ZenonT(40) DEF ListStep
<1>10. WakeStep(r)
  BY ONLY <1>1, <1>2, <1>3, ZenonT(40) DEF WakeStep
<1> QED
  BY ONLY EInv, <1>1, <1>3, <1>4, <1>5, <1>8, <1>9, <1>10, CallerStep, ZenonT(40)

LEMMA TimerDisposeKeeps == ASSUME EInv, TimerDispose PROVE Kept'
<1>0. PICK r : r = running
  BY Zenon
<1> DEFINE x == Timer[r]
<1>1. /\ r \in Thread /\ x \in TimerSet /\ x \in Object /\ CallTypes
      /\ HandlesInv(r) /\ TimerInv(r) /\ want[r] \in Event
      /\ pc[r] = "tdispose" /\ State[r] = "READY" /\ halted = FALSE /\ draining = Nil
      /\ Nil \notin TimerSet /\ \A o \in Object : o # Nil
  BY <1>0, InCall, ZenonT(40) DEF TimerDispose
<1>2. /\ TState' = [TState EXCEPT ![x] = IF TState[x] = "RUNNING" THEN "DETACHED" ELSE TState[x]]
      /\ EState' = [EState EXCEPT ![x] = FALSE]
      /\ pc' = [pc EXCEPT ![r] = "dispose"] /\ UNCHANGED <<want, timed, done>> /\ UNCHANGED kernelVars
  BY <1>0, Zenon DEF TimerDispose, Goto
<1>3. UNCHANGED <<State, HState, Owner, waiters, draining, halted>> /\ \A t \in Thread : KernelKept(t)
  BY <1>2, StutterFacts, Zenon
<1>4. CallTypes'
  BY ONLY <1>1, <1>2, Zenon DEF CallTypes, Place
<1>5. \A t \in Thread \ {r} : CallKept(t)
  <2>1. ASSUME NEW t \in Thread, t # r PROVE CallKept(t)
    <3>1. Timer[t] \in TimerSet /\ Timer[t] # x
      BY <1>1, <2>1, Names, TwoThreads, ZenonT(40)
    <3> QED
      BY ONLY <1>1, <1>2, <2>1, <3>1, Zenon DEF CallKept, CallTypes
  <2> QED
    BY <2>1, Zenon
<1>6. /\ pc'[r] = "dispose" /\ TState'[x] # "RUNNING"
      /\ TState[x] = "FINISHED" => TState'[x] = "FINISHED"
  BY ONLY <1>1, <1>2, Zenon DEF CallTypes
<1>7. ThreadInv(r)'
  <2>1. HandlesInv(r)'
    BY ONLY <1>1, <1>3, <1>6, Zenon DEF HandlesInv
  <2>2. SleepInv(r)'
    BY ONLY <1>1, <1>3, <1>6, Zenon DEF SleepInv
  <2>3. TimerInv(r)'
    BY ONLY <1>1, <1>2, <1>3, <1>6, ZenonT(40) DEF TimerInv
  <2> QED
    BY ONLY <1>1, <1>2, <1>3, <2>1, <2>2, <2>3, Zenon DEF ThreadInv
<1>8. ListStep(r)
  BY ONLY <1>1, <1>2, <1>3, Zenon DEF ListStep
<1>9. WakeStep(r)
  <2>1. \A o \in Object : EState'[o] => EState[o]
    BY ONLY <1>1, <1>2, Zenon DEF CallTypes
  <2> QED
    BY ONLY <1>1, <1>3, <2>1, Zenon DEF WakeStep
<1> QED
  BY ONLY EInv, <1>1, <1>3, <1>4, <1>5, <1>7, <1>8, <1>9, CallerStep, ZenonT(40)

----------------------------------------------------------------------------
(* The rest of the system *)

LEMMA CreateKeepsCalls == ASSUME EInv, NEW t \in Thread, Create(t) PROVE Kept'
<1>1. CallTypes /\ ThreadInv(t) /\ \A o \in Object : o # Nil /\ o \in WaitList /\ o # t
  BY TypesNow, Names, Zenon DEF WaitList
<1>2. /\ State[t] = "DETACHED" /\ State' = [State EXCEPT ![t] = "READY"]
      /\ MaskWait' = [MaskWait EXCEPT ![t] = {}] /\ waiters' = [waiters EXCEPT ![t] = <<>>]
      /\ UNCHANGED <<HState, Owner, Mask>> /\ draining' = Nil
      /\ UNCHANGED <<EState, TState, pc, want, timed, done>>
  BY Zenon DEF Create, exos_thread_create, EndSection, eventVars
<1>3. halted = FALSE /\ draining = Nil
  BY CallerFacts, Zenon DEF Create, At
<1>4. /\ State \in [Thread -> {"DETACHED", "READY", "WAIT"}] /\ MaskWait \in [Thread -> SUBSET Bit]
      /\ waiters \in [WaitList -> Seq(Handle)] /\ Nil \notin TimerSet /\ t \in WaitList
  BY EventAssumption, ObjectAssumption, Zenon DEF EInv, IInv, TypeOK, WaitList
<1>5. CallTypes'
  BY ONLY <1>1, <1>2, Zenon DEF CallTypes
<1>6. \A u \in Thread : CallKept(u)
  BY ONLY <1>2, Zenon DEF CallKept
<1>7. \A u \in Thread \ {t} : KernelKept(u)
  BY ONLY <1>2, <1>4, Zenon DEF KernelKept
<1>8. pc[t] = "user" /\ State'[t] = "READY"
  BY ONLY <1>1, <1>2, <1>4, t \in Thread, Zenon DEF ThreadInv
<1>9. ThreadInv(t)'
  <2>1. HandlesInv(t)'
    BY ONLY <1>1, <1>2, <1>8, Zenon DEF ThreadInv, HandlesInv
  <2>2. SleepInv(t)'
    BY ONLY <1>2, <1>8, Zenon DEF SleepInv
  <2>3. TimerInv(t)'
    BY ONLY <1>1, <1>2, Zenon DEF ThreadInv, TimerInv
  <2> QED
    BY ONLY <1>2, <1>8, <2>1, <2>2, <2>3, Zenon DEF ThreadInv
<1>10. ListStep(t)
  <2>1. \A l \in WaitList : l # t => waiters'[l] = waiters[l]
    BY ONLY <1>2, <1>4, Zenon
  <2>2. waiters'[t] = <<>>
    BY ONLY <1>2, <1>4, Zenon
  <2>3. \A l \in WaitList : \A h \in Range(waiters'[l]) : h \in Range(waiters[l])
    BY ONLY <2>1, <2>2, SMTT(30) DEF Range
  <2> QED
    BY ONLY <1>2, <1>4, <2>3, Zenon DEF ListStep
<1>11. WakeStep(t)
  <2>1. \A o \in Object : waiters'[o] = waiters[o]
    BY ONLY <1>1, <1>2, <1>4, Zenon
  <2> QED
    BY ONLY <1>1, <1>2, <1>3, <2>1, Zenon DEF WakeStep
<1> QED
  BY ONLY EInv, <1>3, <1>5, <1>6, <1>7, <1>9, <1>10, <1>11, t \in Thread, CallerStep, ZenonT(40)

\* The handle that is done is one of the two of its owner.
LEMMA FirstKeeps == ASSUME EInv, ResumeFirst, UNCHANGED eventVars PROVE Kept'
<1>0. PICK h : h = Head(waiters[draining])
  BY Zenon
<1>1. /\ h \in Handle /\ draining \in WaitList /\ h \in Range(waiters[draining])
      /\ HState[h] = "WAITING" /\ UNCHANGED <<MaskWait, Owner, Mask, draining, halted>>
      /\ HState' = [HState EXCEPT ![h] = "DONE"]
      /\ \A l \in WaitList : /\ Range(waiters'[l]) \subseteq Range(waiters[l])
                             /\ waiters[l] = <<>> => waiters'[l] = <<>>
      /\ \A t \in Thread : State[t] # State'[t] =>
           /\ State[t] = "WAIT" /\ State'[t] = "READY" /\ t = Owner[h]
           /\ MaskWait[t] \cap Mask[h] # {}
  BY <1>0, FirstFacts, Zenon
<1>2. UNCHANGED <<EState, TState, pc, want, timed, done>>
  BY Zenon DEF eventVars
<1>3. PICK r \in Thread : h \in {r, Timer[r]}
  <2>1. h \in Thread \/ h \in TimerSet
    BY <1>1, EventAssumption, Zenon
  <2> QED
    BY <2>1, Zenon DEF TimerSet
<1> DEFINE x == Timer[r]
<1>4. /\ CallTypes /\ ThreadInv(r) /\ x # r /\ x \in Handle /\ r \in Handle /\ x \in TimerSet
      /\ x \notin Thread /\ \A o \in Object : o \in WaitList
      /\ draining \in TimerSet => TState[draining] = "FINISHED"
  BY TypesNow, Names, Zenon DEF WaitList
<1>5. halted = FALSE
  <2>1. draining # Nil /\ SchedInv /\ halted \in BOOLEAN
    BY Zenon DEF ResumeFirst, EInv, IInv, TypeOK
  <2> QED
    BY ONLY <2>1, Zenon DEF SchedInv
<1>6. /\ Owner[h] = r
      /\ h = r => pc[r] \notin {"user", "resume", "return"}
      /\ h = x => pc[r] \in {"wait", "woken", "tfree"} /\ (pc[r] = "tfree" \/ timed[r])
  <2>1. HandlesInv(r) /\ pc[r] \in Place
    BY ONLY <1>4, r \in Thread, Zenon DEF ThreadInv, CallTypes
  <2>2. CASE h = r
    BY ONLY <1>1, <1>4, <1>5, <2>1, <2>2, ZenonT(40) DEF HandlesInv, Place
  <2>3. CASE h = x
    BY ONLY <1>1, <1>4, <1>5, <2>1, <2>3, Zenon DEF HandlesInv
  <2> QED
    BY ONLY <1>3, <2>2, <2>3, Zenon
<1>7. h = x => TState[x] = "FINISHED"
  <2>1. (h \in Thread /\ draining = want[h]) \/ draining = h
    BY <1>1, Zenon DEF EInv, ListInv
  <2> QED
    BY ONLY <1>4, <2>1, Zenon
<1>8. HState \in [Handle -> {"DETACHED", "WAITING", "DONE"}]
  BY Zenon DEF EInv, IInv, TypeOK
<1>9. HState'[h] = "DONE" /\ \A g \in Handle \ {h} : HState'[g] = HState[g]
  BY ONLY <1>1, <1>8, Zenon
<1>10. CallTypes'
  BY ONLY <1>2, <1>4, Zenon DEF CallTypes
<1>11. \A t \in Thread : CallKept(t)
  BY ONLY <1>2, Zenon DEF CallKept
<1>12. \A t \in Thread \ {r} : KernelKept(t)
  <2>1. \A t \in Thread \ {r} : State'[t] = State[t] /\ MaskWait'[t] = MaskWait[t]
    BY ONLY <1>1, <1>6, Zenon
  <2>2. \A g \in Handle \ {h} : HState'[g] = HState[g] /\ Owner'[g] = Owner[g] /\ Mask'[g] = Mask[g]
    BY ONLY <1>1, <1>9, Zenon
  <2> QED
    BY ONLY <1>3, <2>1, <2>2, OthersKept, Zenon
<1>13. ThreadInv(r)'
  <2>0. (HState'[r] = IF h = r THEN "DONE" ELSE HState[r]) /\ (HState'[x] = IF h = x THEN "DONE" ELSE HState[x])
    BY ONLY <1>4, <1>9, Zenon
  <2>1. HandlesInv(r)'
    BY ONLY <1>1, <1>2, <1>4, <1>5, <1>6, <2>0, ZenonT(40) DEF ThreadInv, HandlesInv
  <2>2. SleepInv(r)'
    <3>1. CASE State'[r] = State[r]
      BY ONLY <1>1, <1>2, <1>4, <2>0, <3>1, ZenonT(40) DEF ThreadInv, SleepInv
    <3>2. CASE State'[r] # State[r]
      <4>1. State[r] = "WAIT" /\ State'[r] = "READY"
        BY ONLY <1>1, <3>2, r \in Thread, Zenon
      <4>2. pc[r] = "woken"
        BY ONLY <1>4, <4>1, Zenon DEF ThreadInv, SleepInv
      <4>3. HState'[r] = "DONE" \/ (timed[r] /\ HState'[x] = "DONE")
        BY ONLY <1>3, <1>6, <2>0, <4>2, Zenon
      <4> QED
        BY ONLY <1>2, <4>1, <4>3, ZenonT(40) DEF SleepInv
    <3> QED
      BY ONLY <3>1, <3>2, Zenon
  <2>3. TimerInv(r)'
    BY ONLY <1>2, <1>4, <1>7, <2>0, Zenon DEF ThreadInv, TimerInv
  <2>4. State'[r] = "DETACHED" => State[r] = "DETACHED"
    BY ONLY <1>1, r \in Thread, Zenon
  <2> QED
    BY ONLY <1>2, <1>4, <2>1, <2>2, <2>3, <2>4, Zenon DEF ThreadInv
<1>14. ListStep(r)
  BY ONLY <1>1, <1>2, <1>4, Zenon DEF ListStep
<1>15. WakeStep(r)
  BY ONLY <1>1, <1>2, <1>4, Zenon DEF WakeStep
<1> QED
  BY ONLY EInv, <1>3, <1>5, <1>10, <1>11, <1>12, <1>13, <1>14, <1>15, CallerStep, ZenonT(40)

LEMMA EndKeeps == ASSUME EInv, ResumeAllEnd, UNCHANGED eventVars PROVE Kept'
<1>0. PICK r : r = running
  BY Zenon
<1>1. CallTypes /\ r \in Thread /\ ThreadInv(r) /\ Nil \notin TimerSet
  BY <1>0, TypesNow, EventAssumption, ObjectAssumption, Zenon
<1>2. UNCHANGED <<EState, TState, pc, want, timed, done>>
  BY Zenon DEF eventVars
<1>3. /\ waiters[draining] = <<>> /\ draining # Nil /\ draining' = Nil
      /\ UNCHANGED <<State, MaskWait, HState, Owner, Mask, waiters>>
  BY Zenon DEF ResumeAllEnd, EndSection, handleVars
<1>4. halted = FALSE
  <2>1. SchedInv /\ halted \in BOOLEAN
    BY Zenon DEF EInv, IInv, TypeOK
  <2> QED
    BY ONLY <1>3, <2>1, Zenon DEF SchedInv
<1>5. CallTypes'
  BY ONLY <1>1, <1>2, Zenon DEF CallTypes
<1>6. \A t \in Thread : CallKept(t)
  BY ONLY <1>2, Zenon DEF CallKept
<1>7. \A t \in Thread : KernelKept(t)
  BY <1>3, NothingKept, Zenon
<1>8. ThreadInv(r)'
  BY ONLY <1>1, <1>4, <1>6, <1>7, Frame, ZenonT(40)
<1>9. ListStep(r)
  BY ONLY <1>1, <1>2, <1>3, Zenon DEF ListStep
<1>10. WakeStep(r)
  BY ONLY <1>2, <1>3, Zenon DEF WakeStep
<1> QED
  BY ONLY EInv, <1>1, <1>4, <1>5, <1>6, <1>7, <1>8, <1>9, <1>10, CallerStep, ZenonT(40)

LEMMA StutterKept == ASSUME EInv, UNCHANGED vars PROVE Kept'
<1>0. PICK r : r = running
  BY Zenon
<1>1. /\ UNCHANGED <<State, MaskWait, HState, Owner, Mask, waiters, draining, halted>>
      /\ UNCHANGED <<EState, TState, pc, want, timed, done>>
  BY StutterFacts, Zenon DEF vars, eventVars
<1>2. CallTypes /\ ListInv /\ SetWakesAll /\ \A t \in Thread : ThreadInv(t)
  BY TypesNow, Zenon DEF EInv
<1>3. CallTypes'
  BY ONLY <1>1, <1>2, Zenon DEF CallTypes
<1>4. ASSUME NEW t \in Thread PROVE ThreadInv(t)'
  BY ONLY <1>1, <1>2, <1>4, ZenonT(40) DEF ThreadInv, HandlesInv, SleepInv, TimerInv
<1>5. ListInv'
  BY ONLY <1>1, <1>2, Zenon DEF ListInv
<1>6. SetWakesAll'
  BY ONLY <1>1, <1>2, Zenon DEF SetWakesAll
<1> QED
  BY ONLY <1>3, <1>4, <1>5, <1>6, Zenon DEF Kept

----------------------------------------------------------------------------
(* The theorems *)

LEMMA InitEInv == EventInit => EInv
<1> SUFFICES ASSUME EventInit PROVE EInv
  BY Zenon
<1>1. IInv /\ KernelInit
  BY InitIInv, Zenon DEF EventInit
<1>2. /\ EState = [e \in Object |-> FALSE] /\ TState = [x \in TimerSet |-> "DETACHED"]
      /\ pc = [t \in Thread |-> "user"] /\ want = [t \in Thread |-> Nil]
      /\ timed = [t \in Thread |-> FALSE] /\ done = [t \in Thread |-> FALSE]
  BY Zenon DEF EventInit
<1>3. /\ State = [t \in Thread |-> IF t \in {Main, Idle} THEN "READY" ELSE "DETACHED"]
      /\ HState = [h \in Handle |-> "DETACHED"] /\ waiters = [l \in WaitList |-> <<>>]
      /\ draining = Nil
  BY <1>1, Zenon DEF KernelInit
<1>4. EventTypeOK
  BY <1>1, <1>2, Zenon DEF EventTypeOK, Place, IInv
<1>5. ASSUME NEW t \in Thread PROVE ThreadInv(t)
  <2>1. t \in Handle /\ Timer[t] \in Handle /\ Timer[t] \in TimerSet
    BY Names, Zenon
  <2>2. /\ pc[t] = "user" /\ HState[t] = "DETACHED" /\ HState[Timer[t]] = "DETACHED"
        /\ TState[Timer[t]] = "DETACHED" /\ State[t] # "WAIT"
    BY ONLY <1>2, <1>3, <2>1, t \in Thread, Zenon
  <2> QED
    BY ONLY <2>2, Zenon DEF ThreadInv, HandlesInv, SleepInv, TimerInv
<1>6. ListInv
  <2>1. Nil \notin TimerSet
    BY EventAssumption, ObjectAssumption, Zenon
  <2>2. \A l \in WaitList : Range(waiters[l]) = {}
    BY ONLY <1>3 DEF Range
  <2> QED
    BY ONLY <1>3, <2>1, <2>2, Zenon DEF ListInv
<1>7. SetWakesAll
  BY ONLY <1>2, Zenon DEF SetWakesAll
<1> QED
  BY ONLY <1>1, <1>4, <1>5, <1>6, <1>7, Zenon DEF EInv

LEMMA KeptIsEInv == ASSUME IInv', Kept' PROVE EInv'
<1>1. TypeOK'
  BY ONLY IInv', Zenon DEF IInv
<1>2. EventTypeOK'
  BY ONLY Kept', <1>1, Zenon DEF Kept, CallTypes, EventTypeOK
<1> QED
  BY ONLY IInv', Kept', <1>2, Zenon DEF EInv, Kept

LEMMA EventNextKeeps == EInv /\ [EventNext]_vars => EInv'
<1> SUFFICES ASSUME EInv, [EventNext]_vars PROVE EInv'
  BY Zenon
<1>1. IInv'
  <2>1. IInv /\ [Next]_kernelVars
    BY StepIsThreadStep, Zenon DEF EInv
  <2> QED
    BY ONLY <2>1, NextKeeps, Zenon
<1> SUFFICES Kept'
  BY <1>1, KeptIsEInv, Zenon
<1>2. ASSUME NEW e \in Event, InterruptSets(e) PROVE Kept'
  BY <1>2, SetKeeps, Zenon DEF InterruptSets
<1>3. ASSUME NEW e \in Event, exos_event_set(e) PROVE Kept'
  <2>1. CASE e \in AutoReset
    BY <1>3, <2>1, SetKeeps, Zenon DEF exos_event_set
  <2>2. CASE e \notin AutoReset
    <3>1. /\ At("user") /\ EState' = [EState EXCEPT ![e] = TRUE]
          /\ want' = [want EXCEPT ![running] = e] /\ Goto("resume")
          /\ UNCHANGED <<kernelVars, TState, timed, done>>
      BY <1>3, <2>2, Zenon DEF exos_event_set
    <3> QED
      BY ONLY EInv, <1>3, <3>1, MarkKeeps, ZenonT(40)
  <2> QED
    BY <2>1, <2>2, Zenon
<1>4. ASSUME NEW e \in Event, exos_event_reset(e) PROVE Kept'
  <2>1. /\ At("user") /\ EState' = [EState EXCEPT ![e] = FALSE]
        /\ want' = [want EXCEPT ![running] = e] /\ Goto("resume")
        /\ UNCHANGED <<kernelVars, TState, timed, done>>
    BY <1>4, Zenon DEF exos_event_reset
  <2> QED
    BY ONLY EInv, <1>4, <2>1, MarkKeeps, ZenonT(40)
<1>5. CASE ResumeWaiters
  <2>1. /\ Calling /\ BackToUser /\ UNCHANGED EState
        /\ pc[running] = "resume" /\ exos_thread_resume_all(want[running])
    BY <1>5, Zenon DEF ResumeWaiters, At
  <2>2. want[running] \in Event
    BY <2>1, CallerFacts, Zenon DEF ThreadInv
  <2> QED
    BY ONLY EInv, <2>1, <2>2, BackKeeps, Zenon
<1>6. CASE Return
  <2>1. /\ Calling /\ BackToUser /\ UNCHANGED EState
        /\ pc[running] = "return" /\ UNCHANGED kernelVars
    BY <1>6, Zenon DEF Return, At
  <2>2. want[running] \in Event
    BY <2>1, CallerFacts, Zenon DEF ThreadInv
  <2> QED
    BY ONLY EInv, <2>1, <2>2, BackKeeps, Zenon
<1>7. CASE TimerHandleDispose
  <2>1. /\ At("tfree") /\ exos_thread_dispose_wait_handle(Timer[running]) /\ Goto("tdispose")
        /\ UNCHANGED <<EState, TState, want, timed, done>>
    BY <1>7, Zenon DEF TimerHandleDispose
  <2> QED
    BY ONLY EInv, <2>1, DisposeKeepsCall, Zenon
<1>8. CASE Dispose
  <2>1. /\ At("dispose") /\ exos_thread_dispose_wait_handle(running) /\ Goto("return")
        /\ UNCHANGED <<EState, TState, want, timed, done>>
    BY <1>8, Zenon DEF Dispose
  <2> QED
    BY ONLY EInv, <2>1, DisposeKeepsCall, Zenon
<1>9. CASE Waiting
  BY <1>7, <1>8, <1>9, TimerCreateKeeps, TimerAddKeeps, WaitKeepsCall, WokenKeeps, TimerDisposeKeeps, Zenon
  DEF Waiting
<1>10. CASE Kernel
  BY <1>10, FirstKeeps, EndKeeps, Zenon DEF Kernel, Drain
<1> QED
  BY <1>2, <1>3, <1>4, <1>5, <1>6, <1>9, <1>10, WaitCallKeeps, ExpireKeeps, CreateKeepsCalls, StutterKept, Zenon
  DEF EventNext

LEMMA EInvImplies == ASSUME EInv PROVE SetWakesAll /\ FalseIsTimeout /\ StackIsUnlinked
<1>1. SetWakesAll /\ \A t \in Thread : ThreadInv(t)
  BY Zenon DEF EInv
<1>2. FalseIsTimeout
  BY ONLY <1>1, Zenon DEF FalseIsTimeout, ThreadInv, SleepInv, TimerInv
<1>3. ASSUME NEW t \in Thread, pc[t] \in {"user", "resume", "timer", "return"}
      PROVE  /\ pc[t] # "timer" => HState[t] = "DETACHED"
             /\ HState[Timer[t]] = "DETACHED" /\ TState[Timer[t]] # "RUNNING"
             /\ waiters[Timer[t]] = <<>>
  <2>1. /\ pc[t] # "timer" => HState[t] = "DETACHED"
        /\ HState[Timer[t]] = "DETACHED" /\ TState[Timer[t]] # "RUNNING"
    BY ONLY <1>1, <1>3, Zenon DEF ThreadInv, HandlesInv, TimerInv
  <2>2. waiters[Timer[t]] = <<>>
    BY <2>1, TimerListEmpty, Zenon
  <2> QED
    BY ONLY <2>1, <2>2, Zenon
<1>4. StackIsUnlinked
  BY ONLY <1>3, Zenon DEF StackIsUnlinked
<1> QED
  BY ONLY <1>1, <1>2, <1>4, Zenon

\* The inductive invariant.
THEOREM EventInvariance == EventSpec => []EInv
  BY InitEInv, EventNextKeeps, PTL DEF EventSpec

\* Whoever waits for an event that is set is about to be resumed.
THEOREM SettingWakesAll == EventSpec => []SetWakesAll
<1>1. EInv => SetWakesAll
  BY EInvImplies, Zenon
<1> QED
  BY <1>1, EventInvariance, PTL

\* A thread goes on after exos_thread_wait only for its event or its timer, and
\* exos_event_wait answers "false" only after its timer expired.
THEOREM FalseOnlyAfterTimeout == EventSpec => []FalseIsTimeout
<1>1. EInv => FalseIsTimeout
  BY EInvImplies, Zenon
<1> QED
  BY <1>1, EventInvariance, PTL

\* exos_event_wait returns with its handles and its timer off every list.
THEOREM StackLeftUnlinked == EventSpec => []StackIsUnlinked
<1>1. EInv => StackIsUnlinked
  BY EInvImplies, Zenon
<1> QED
  BY <1>1, EventInvariance, PTL

\* The users of event.c are a client the thread kernel allows: everything
\* proved of the kernel holds for them.
THEOREM EventsUseTheKernel == EventSpec => Spec
<1>1. EventInit => KernelInit
  BY Zenon DEF EventInit
<1>2. EInv /\ [EventNext]_vars => [Next]_kernelVars
  BY StepIsThreadStep, Zenon
<1> QED
  BY <1>1, <1>2, EventInvariance, PTL DEF EventSpec, Spec

----------------------------------------------------------------------------
(* The queue of fifo.c *)

\* The queue as its run has it: the event keeps its state, and one thread takes
\* nodes.  (With two, the one that is woken second may find the list empty.)
OneConsumer == FifoEvent \notin AutoReset /\ \A t, u \in Consumer : t = u

\* Who is in a call is the consumer, in exos_fifo_wait; and if it has no timeout
\* then a node is there from the moment it is woken.
WaitInv(t) ==
  /\ pc[t] # "user" => t \in Consumer /\ pc[t] # "resume" /\ want[t] = FifoEvent
  /\ pc[t] \in {"tfree", "tdispose"} => timed[t]
  /\ ~timed[t] /\ (HState[t] = "DONE" \/ pc[t] \in {"dispose", "return"}) => Items # <<>>

QueueInv ==
  /\ Items \in Seq(Node) /\ nothing \subseteq Thread \X BOOLEAN
  /\ EState[FifoEvent] <=> Items # <<>>
  /\ \A t \in Thread : WaitInv(t)
  /\ draining = FifoEvent /\ waiters[FifoEvent] # <<>> => Items # <<>>
  /\ \A t \in Consumer : <<t, FALSE>> \notin nothing

FifoInv == EInv /\ OneConsumer /\ QueueInv

LEMMA FifoNames ==
  /\ FifoEvent \in Event /\ FifoEvent \in Object /\ FifoEvent \in WaitList
  /\ FifoEvent # Nil /\ FifoEvent \notin Thread /\ FifoEvent \notin TimerSet
  /\ Consumer \subseteq Thread
<1>1. FifoEvent \in Event /\ Consumer \subseteq Thread
  BY FifoAssumption, Zenon
<1> QED
  BY <1>1, EventNames, Zenon

\* While the consumer runs, nobody waits for the event.
LEMMA NobodyElse ==
  ASSUME FifoInv, NEW r \in Consumer, HState[r] = "DETACHED"
  PROVE  waiters[FifoEvent] = <<>>
<1>1. /\ FifoEvent \in WaitList /\ FifoEvent \notin TimerSet /\ r \in Thread /\ r \in Handle
  BY FifoNames, Names, Zenon
<1>2. EInv /\ IInv /\ OneConsumer /\ \A t \in Thread : WaitInv(t)
  BY Zenon DEF FifoInv, QueueInv, EInv
<1>3. waiters[FifoEvent] \in Seq(Handle) /\ r \notin Range(waiters[FifoEvent])
  BY <1>1, <1>2, DetachedOnNoList, Zenon DEF IInv, TypeOK
<1>4. ASSUME NEW h \in Range(waiters[FifoEvent]) PROVE FALSE
  <2>1. h \in Thread
    BY ONLY <1>1, <1>2, <1>4, Zenon DEF EInv, ListInv
  <2>2. HState[h] # "DETACHED"
    BY <1>1, <1>2, <1>4, <2>1, Names, DetachedOnNoList, Zenon
  <2>3. pc[h] # "user"
    BY ONLY <1>2, <2>1, <2>2, Zenon DEF EInv, ThreadInv, HandlesInv
  <2>4. h = r
    BY ONLY <1>2, <2>1, <2>3, r \in Consumer, Zenon DEF WaitInv, OneConsumer
  <2> QED
    BY ONLY <1>3, <1>4, <2>4, Zenon
<1> DEFINE list == waiters[FifoEvent]
<1>5. list \in Seq(Handle) /\ \A h \in Range(list) : FALSE
  BY <1>3, <1>4, Zenon
<1> HIDE DEF list
<1>6. ASSUME list # <<>> PROVE FALSE
  <2>1. 1 \in DOMAIN list
    BY ONLY <1>5, <1>6, SMTT(40)
  <2>2. list[1] \in Range(list)
    BY ONLY <2>1, Zenon DEF Range
  <2> QED
    BY ONLY <1>5, <2>2, Zenon
<1> QED
  BY <1>6, Zenon DEF list

\* A step of thread r that leaves the list of nodes alone.
LEMMA FifoStep ==
  ASSUME FifoInv, EInv', NEW r \in Thread, UNCHANGED <<Items, nothing>>,
         EState'[FifoEvent] = EState[FifoEvent],
         \A t \in Thread \ {r} : CallKept(t),
         \A t \in Thread \ {r} : HState'[t] = HState[t],
         WaitInv(r)',
         draining' = FifoEvent => /\ draining = FifoEvent
                                  /\ waiters[FifoEvent] = <<>> => waiters'[FifoEvent] = <<>>
  PROVE  FifoInv'
<1>1. QueueInv /\ OneConsumer
  BY Zenon DEF FifoInv
<1>2. ASSUME NEW t \in Thread, t # r PROVE WaitInv(t)'
  <2>1. WaitInv(t) /\ CallKept(t) /\ HState'[t] = HState[t] /\ Items' = Items
    BY <1>1, <1>2, Zenon DEF QueueInv
  <2> QED
    BY ONLY <2>1, Zenon DEF WaitInv, CallKept
<1>3. \A t \in Thread : WaitInv(t)'
  BY ONLY <1>2, WaitInv(r)', Zenon
<1>4. QueueInv'
  BY ONLY <1>1, <1>3, UNCHANGED <<Items, nothing>>, EState'[FifoEvent] = EState[FifoEvent],
     draining' = FifoEvent => /\ draining = FifoEvent
                              /\ waiters[FifoEvent] = <<>> => waiters'[FifoEvent] = <<>>, Zenon
  DEF QueueInv
<1> QED
  BY ONLY <1>1, <1>4, EInv', Zenon DEF FifoInv, OneConsumer

----------------------------------------------------------------------------
(* Queueing and taking *)

LEMMA QueueKeeps == ASSUME FifoInv, EInv', NEW node \in Node, _queue(node) PROVE FifoInv'
<1>1. QueueInv /\ OneConsumer /\ EState \in [Object -> BOOLEAN]
  BY Zenon DEF FifoInv, EInv, EventTypeOK
<1>2. /\ Items' = list_add_tail(Items, node) /\ UNCHANGED <<pc, want, timed, nothing>>
      /\ EState' = [EState EXCEPT ![FifoEvent] = (FifoEvent \in AutoReset => waiters[FifoEvent] = <<>>)]
  BY Zenon DEF _queue, SetEvent
<1>3. Items' \in Seq(Node) /\ Items' # <<>>
  <2>1. Items \in Seq(Node)
    BY <1>1, Zenon DEF QueueInv
  <2> QED
    BY ONLY <1>2, <2>1, node \in Node DEF list_add_tail
<1>4. EState'[FifoEvent]
  BY ONLY <1>1, <1>2, FifoNames, Zenon DEF OneConsumer
<1>5. \A t \in Thread : WaitInv(t)'
  BY ONLY <1>1, <1>2, <1>3, Zenon DEF QueueInv, WaitInv
<1>6. QueueInv'
  BY ONLY <1>1, <1>2, <1>3, <1>4, <1>5, Zenon DEF QueueInv
<1> QED
  BY ONLY <1>1, <1>6, EInv', Zenon DEF FifoInv, OneConsumer

\* _dequeue by the consumer, outside or at the end of exos_fifo_wait.
LEMMA DequeueKeeps ==
  ASSUME FifoInv, EInv', NEW r \in Consumer, HState[r] = "DETACHED", _dequeue,
         \A t \in Thread \ {r} : pc'[t] = pc[t] /\ want'[t] = want[t] /\ timed'[t] = timed[t],
         pc'[r] = "user", \A t \in Consumer : <<t, FALSE>> \notin nothing',
         nothing' \subseteq Thread \X BOOLEAN
  PROVE  FifoInv'
<1>1. QueueInv /\ OneConsumer /\ EState \in [Object -> BOOLEAN]
  BY Zenon DEF FifoInv, EInv, EventTypeOK
<1>2. /\ Items' = IF Items = <<>> THEN Items ELSE Tail(Items)
      /\ IF Items' = <<>>
         THEN /\ EState' = [EState EXCEPT ![FifoEvent] = FALSE]
              /\ exos_thread_resume_all(FifoEvent)
         ELSE UNCHANGED <<kernelVars, EState>>
  BY Zenon DEF _dequeue
<1>3. Items' \in Seq(Node) /\ (Items' # <<>> => Items # <<>>)
  <2>1. Items \in Seq(Node)
    BY <1>1, Zenon DEF QueueInv
  <2> QED
    BY ONLY <1>2, <2>1
<1>4. UNCHANGED <<HState, waiters>>
  BY <1>2, ResumeAllFacts, StutterFacts, ZenonT(40)
<1>5. waiters'[FifoEvent] = <<>>
  BY <1>4, NobodyElse, Zenon
<1>6. EState'[FifoEvent] <=> Items' # <<>>
  BY ONLY <1>1, <1>2, <1>3, FifoNames, Zenon DEF QueueInv
<1>7. ASSUME NEW t \in Thread, t # r PROVE WaitInv(t)'
  <2>1. WaitInv(t) /\ OneConsumer /\ EInv
    BY Zenon DEF FifoInv, QueueInv
  <2>2. pc[t] = "user"
    BY ONLY <1>7, <2>1, r \in Consumer, Zenon DEF WaitInv, OneConsumer
  <2>3. HState[t] = "DETACHED"
    BY ONLY <2>1, <2>2, t \in Thread, Zenon DEF EInv, ThreadInv, HandlesInv
  <2>4. pc'[t] = "user" /\ HState'[t] = "DETACHED"
    BY <1>4, <1>7, <2>2, <2>3, Zenon
  <2> QED
    BY ONLY <2>4, Zenon DEF WaitInv
<1>8. WaitInv(r)'
  BY ONLY <1>4, HState[r] = "DETACHED", pc'[r] = "user", Zenon DEF WaitInv
<1>9. QueueInv'
  BY <1>3, <1>5, <1>6, <1>7, <1>8, Zenon DEF QueueInv
<1> QED
  BY ONLY <1>1, <1>9, EInv', Zenon DEF FifoInv, OneConsumer

\* exos_fifo_dequeue, and the end of exos_fifo_wait.
LEMMA FreeDequeueKeeps == ASSUME FifoInv, EInv', exos_fifo_dequeue PROVE FifoInv'
<1>1. /\ At("user") /\ running \in Consumer /\ _dequeue /\ UNCHANGED <<pc, want, timed, nothing>>
      /\ EInv /\ QueueInv
  BY Zenon DEF exos_fifo_dequeue, FifoInv
<1>2. HState[running] = "DETACHED" /\ pc[running] = "user"
  BY ONLY <1>1, CallerFacts, Zenon DEF At, ThreadInv, HandlesInv
<1>3. nothing' \subseteq Thread \X BOOLEAN /\ \A t \in Consumer : <<t, FALSE>> \notin nothing'
  BY ONLY <1>1, Zenon DEF QueueInv
<1> QED
  BY <1>1, <1>2, <1>3, DequeueKeeps, ZenonT(40)

LEMMA TakeFacts ==
  ASSUME FifoInv, FifoTake, NEW r, r = running
  PROVE  /\ r \in Thread /\ r \in Consumer /\ HState[r] = "DETACHED" /\ pc[r] = "return"
         /\ pc'[r] = "user" /\ EInv /\ QueueInv
         /\ \A t \in Thread \ {r} : CallKept(t)
         /\ (~timed[r] => Items # <<>>)
<1>1. At("return") /\ BackToUser /\ EInv /\ QueueInv
  BY Zenon DEF FifoTake, FifoInv
<1>2. r \in Thread /\ pc[r] = "return" /\ HandlesInv(r) /\ CallTypes
  BY ONLY <1>1, InCall, r = running, Zenon
<1>3. HState[r] = "DETACHED"
  BY ONLY <1>2, Zenon DEF HandlesInv
<1>4. r \in Consumer /\ (~timed[r] => Items # <<>>)
  BY ONLY <1>1, <1>2, Zenon DEF QueueInv, WaitInv
<1>5. /\ TState' = [TState EXCEPT ![Timer[r]] = "DETACHED"] /\ pc' = [pc EXCEPT ![r] = "user"]
      /\ want' = [want EXCEPT ![r] = Nil] /\ timed' = [timed EXCEPT ![r] = FALSE]
      /\ done' = [done EXCEPT ![r] = FALSE]
  BY <1>1, Zenon DEF BackToUser, Goto
<1>6. pc'[r] = "user"
  BY ONLY <1>2, <1>5, Zenon DEF CallTypes
<1>7. ASSUME NEW t \in Thread, t # r PROVE CallKept(t)
  <2>1. Timer[t] \in TimerSet /\ Timer[t] # Timer[r]
    BY <1>2, <1>7, Names, TwoThreads, ZenonT(40)
  <2> QED
    BY ONLY <1>2, <1>5, <1>7, <2>1, Zenon DEF CallKept, CallTypes
<1> QED
  BY ONLY <1>1, <1>2, <1>3, <1>4, <1>6, <1>7, Zenon

LEMMA TakeKeeps == ASSUME FifoInv, EInv', FifoTake PROVE FifoInv'
<1>0. PICK r : r = running
  BY Zenon
<1>1. /\ r \in Thread /\ r \in Consumer /\ HState[r] = "DETACHED" /\ pc'[r] = "user" /\ QueueInv
      /\ \A t \in Thread \ {r} : CallKept(t)
      /\ (~timed[r] => Items # <<>>)
  BY ONLY FifoInv, FifoTake, <1>0, TakeFacts, Zenon
<1>2. CASE done[running]
  <2>1. /\ _dequeue
        /\ nothing' = IF Items = <<>> THEN nothing \cup {<<r, timed[r]>>} ELSE nothing
    BY <1>0, <1>2, Zenon DEF FifoTake
  <2>2. timed[r] \in BOOLEAN
    BY <1>1, Zenon DEF FifoInv, EInv, EventTypeOK
  <2>3. nothing \subseteq Thread \X BOOLEAN /\ \A t \in Consumer : <<t, FALSE>> \notin nothing
    BY ONLY <1>1, Zenon DEF QueueInv
  <2>4. nothing' \subseteq Thread \X BOOLEAN
    <3>1. <<r, timed[r]>> \in Thread \X BOOLEAN
      BY ONLY <1>1, <2>2
    <3> QED
      BY ONLY <2>1, <2>3, <3>1, Zenon
  <2>5. \A t \in Consumer : <<t, FALSE>> \notin nothing'
    <3>1. ASSUME Items = <<>> PROVE timed[r] = TRUE
      BY ONLY <1>1, <2>2, <3>1, Zenon
    <3>2. ASSUME NEW t \in Consumer PROVE <<t, FALSE>> # <<r, TRUE>>
      BY ONLY TRUE
    <3> QED
      BY ONLY <2>1, <2>3, <3>1, <3>2, Zenon
  <2>6. \A t \in Thread \ {r} : pc'[t] = pc[t] /\ want'[t] = want[t] /\ timed'[t] = timed[t]
    BY ONLY <1>1, Zenon DEF CallKept
  <2> QED
    BY ONLY FifoInv, EInv', <1>1, <2>1, <2>4, <2>5, <2>6, DequeueKeeps, ZenonT(40)
<1>3. CASE ~done[running]
  <2>1. UNCHANGED <<kernelVars, EState, Items, nothing>>
    BY <1>3, Zenon DEF FifoTake
  <2>2. UNCHANGED <<HState, waiters, draining>>
    BY <2>1, StutterFacts, Zenon
  <2>3. WaitInv(r)'
    BY ONLY <1>1, <2>2, Zenon DEF WaitInv
  <2> QED
    BY ONLY FifoInv, EInv', <1>1, <2>1, <2>2, <2>3, FifoStep, ZenonT(40)
<1> QED
  BY <1>2, <1>3, Zenon

----------------------------------------------------------------------------
(* Waiting *)

LEMMA FifoWaitKeeps ==
  ASSUME FifoInv, EInv', NEW timeout \in BOOLEAN, exos_fifo_wait(timeout)
  PROVE  FifoInv'
<1>0. PICK r : r = running
  BY Zenon
<1>1. /\ r \in Consumer /\ exos_event_wait(FifoEvent, timeout) /\ UNCHANGED <<Items, nothing>>
      /\ EInv /\ QueueInv /\ OneConsumer
  BY <1>0, Zenon DEF exos_fifo_wait, FifoInv
<1>2. At("user")
  BY <1>1, Zenon DEF exos_event_wait
<1>3. /\ r \in Thread /\ r \in Handle /\ CallTypes /\ HandlesInv(r) /\ pc[r] = "user" /\ draining = Nil
  BY ONLY <1>0, <1>1, <1>2, InCall, Zenon
<1>4. HState[r] = "DETACHED"
  BY ONLY <1>3, Zenon DEF HandlesInv
<1>5. /\ want' = [want EXCEPT ![r] = FifoEvent] /\ timed' = [timed EXCEPT ![r] = timeout]
      /\ done' = [done EXCEPT ![r] = TRUE] /\ TState' = TState
      /\ pc' = [pc EXCEPT ![r] = IF EState[FifoEvent] THEN "return" ELSE IF timeout THEN "timer" ELSE "wait"]
      /\ exos_event_add_handle(FifoEvent, r)
  BY <1>0, <1>1, Zenon DEF exos_event_wait, Goto
<1>6. \A t \in Thread \ {r} : CallKept(t)
  BY ONLY <1>3, <1>5, Zenon DEF CallKept, CallTypes
<1>7. /\ want'[r] = FifoEvent
      /\ pc'[r] = IF EState[FifoEvent] THEN "return" ELSE IF timeout THEN "timer" ELSE "wait"
  BY ONLY <1>3, <1>5, Zenon DEF CallTypes
<1>8. CASE EState[FifoEvent]
  <2>1. EState' = [EState EXCEPT ![FifoEvent] = FifoEvent \notin AutoReset] /\ UNCHANGED kernelVars
    BY <1>5, <1>8, Zenon DEF exos_event_add_handle
  <2>2. EState'[FifoEvent] = EState[FifoEvent]
    <3>1. EState[FifoEvent] = TRUE /\ EState'[FifoEvent] = TRUE
      BY ONLY <1>1, <1>3, <1>8, <2>1, FifoNames, ZenonT(40) DEF CallTypes, OneConsumer
    <3> QED
      BY ONLY <3>1, Zenon
  <2>3. UNCHANGED <<HState, waiters, draining>>
    BY <2>1, StutterFacts, Zenon
  <2>4. Items # <<>>
    BY ONLY <1>1, <1>8, Zenon DEF QueueInv
  <2>5. WaitInv(r)'
    BY ONLY <1>1, <1>7, <1>8, <2>4, Zenon DEF WaitInv
  <2> QED
    BY ONLY FifoInv, EInv', <1>1, <1>3, <1>6, <2>2, <2>3, <2>5, FifoStep, ZenonT(40)
<1>9. CASE ~EState[FifoEvent]
  <2>1. EState' = EState /\ exos_thread_add_wait_handle(r, FifoEvent)
    BY <1>5, <1>9, Zenon DEF exos_event_add_handle
  <2>2. /\ draining' = draining /\ \A g \in Handle \ {r} : HState'[g] = HState[g]
        /\ HState'[r] # "DONE"
    BY ONLY <1>0, <1>1, <1>4, <2>1, FifoNames, AddFacts, ZenonT(40)
  <2>3. \A t \in Thread \ {r} : HState'[t] = HState[t]
    BY <2>2, Names, Zenon
  <2>4. WaitInv(r)'
    BY ONLY <1>1, <1>7, <1>9, <2>2, Zenon DEF WaitInv
  <2>5. draining' # FifoEvent
    BY ONLY <1>3, <2>2, FifoNames, Zenon
  <2> QED
    BY ONLY FifoInv, EInv', <1>1, <1>3, <1>6, <2>1, <2>3, <2>4, <2>5, FifoStep, ZenonT(40)
<1> QED
  BY <1>8, <1>9, Zenon

\* A step of exos_event_wait takes the caller from one place to the next, and
\* leaves the event's handle alone or frees it.
Inner(r, from, place) ==
  /\ At(from) /\ pc' = [pc EXCEPT ![r] = place] /\ UNCHANGED <<want, timed>>
  /\ \A t \in Thread \ {r} : TState'[Timer[t]] = TState[Timer[t]] /\ done'[t] = done[t]
  /\ EState'[FifoEvent] = EState[FifoEvent] /\ draining' = draining
  /\ \A t \in Thread \ {r} : HState'[t] = HState[t]
  /\ HState'[r] = "DONE" => HState[r] = "DONE"
  /\ from # "user" /\ place \notin {"user", "resume"}
  /\ place \in {"tfree", "tdispose"} => timed[r]
  /\ place \in {"dispose", "return"} => timed[r] \/ HState[r] = "DONE" \/ Items # <<>>

LEMMA InnerStep ==
  ASSUME FifoInv, EInv', UNCHANGED <<Items, nothing>>, NEW r, r = running,
         NEW from, NEW place, Inner(r, from, place)
  PROVE  FifoInv'
<1>1. r \in Thread /\ CallTypes /\ pc[r] = from /\ draining = Nil /\ WaitInv(r)
  <2>1. EInv /\ QueueInv /\ At(from)
    BY Zenon DEF FifoInv, Inner
  <2>2. r \in Thread /\ CallTypes /\ pc[r] = from /\ draining = Nil
    BY ONLY <2>1, r = running, InCall, ZenonT(40)
  <2> QED
    BY ONLY <2>1, <2>2, Zenon DEF QueueInv
<1>2. pc'[r] = place /\ \A t \in Thread \ {r} : pc'[t] = pc[t]
  BY ONLY <1>1, Inner(r, from, place), Zenon DEF CallTypes, Inner
<1>3. \A t \in Thread \ {r} : CallKept(t)
  BY ONLY <1>2, Inner(r, from, place), Zenon DEF CallKept, Inner
<1>4. WaitInv(r)'
  BY ONLY <1>1, <1>2, Inner(r, from, place), UNCHANGED <<Items, nothing>>, ZenonT(40) DEF WaitInv, Inner
<1>5. draining' # FifoEvent /\ EState'[FifoEvent] = EState[FifoEvent]
  BY <1>1, FifoNames, Zenon DEF Inner
<1>6. \A t \in Thread \ {r} : HState'[t] = HState[t]
  BY Zenon DEF Inner
<1> QED
  BY ONLY FifoInv, EInv', UNCHANGED <<Items, nothing>>, <1>1, <1>3, <1>4, <1>5, <1>6, FifoStep, ZenonT(40)

LEMMA InnerKeeps ==
  ASSUME FifoInv, EInv', Waiting, UNCHANGED <<Items, nothing>>
  PROVE  FifoInv'
<1>0. PICK r : r = running
  BY Zenon
<1> DEFINE x == Timer[r]
<1>1. EInv /\ QueueInv /\ Calling /\ running \in Thread
  BY CallerFacts, Zenon DEF FifoInv, Waiting, TimerCreate, TimerAdd, Wait, Woken, TimerHandleDispose,
     TimerDispose, Dispose, At
<1>2. /\ r \in Thread /\ x \in Handle /\ x # r /\ r \in Handle /\ x \in TimerSet /\ x \in Object
      /\ CallTypes /\ ThreadInv(r) /\ WaitInv(r) /\ State[r] = "READY"
  <2>1. ThreadInv(r) /\ State[r] = "READY"
    BY ONLY <1>0, <1>1, CallerFacts, Zenon
  <2> QED
    BY <1>0, <1>1, <2>1, TypesNow, Names, ZenonT(40) DEF QueueInv
<1>3. x = Timer[r] /\ FifoEvent # x /\ FifoEvent \in Object
  BY <1>2, FifoNames, Zenon
<1> HIDE DEF x
<1>4. \A t \in Thread \ {r} : t \in Handle /\ t # x /\ Timer[t] # x /\ Timer[t] \in TimerSet
  BY <1>2, <1>3, Names, TwoThreads, ZenonT(40)
<1>5. CASE TimerCreate
  <2>1. /\ At("timer") /\ TState' = [TState EXCEPT ![x] = "RUNNING"] /\ EState' = [EState EXCEPT ![x] = FALSE]
        /\ pc' = [pc EXCEPT ![r] = "tadd"] /\ UNCHANGED <<want, timed, done>>
    BY <1>0, <1>3, <1>5, Zenon DEF TimerCreate, Goto
  <2>2. UNCHANGED <<HState, draining>>
    BY <1>1, <1>5, TimerCreateFacts, StutterFacts, Zenon
  <2>3. /\ \A t \in Thread \ {r} : TState'[Timer[t]] = TState[Timer[t]]
        /\ EState'[FifoEvent] = EState[FifoEvent]
    BY ONLY <1>2, <1>3, <1>4, <2>1, Zenon DEF CallTypes
  <2>9. Inner(r, "timer", "tadd")
    BY ONLY <2>1, <2>2, <2>3, ZenonT(40) DEF Inner
  <2> QED
    BY ONLY FifoInv, EInv', UNCHANGED <<Items, nothing>>, <1>0, <2>9, InnerStep, Zenon
<1>6. CASE TimerAdd
  <2>1. /\ At("tadd") /\ pc' = [pc EXCEPT ![r] = IF EState[x] THEN "tdispose" ELSE "wait"]
        /\ UNCHANGED <<TState, want, timed, done>> /\ exos_event_add_handle(x, x)
    BY <1>0, <1>3, <1>6, Zenon DEF TimerAdd, Goto
  <2>2. timed[r]
    BY ONLY <1>0, <1>2, <2>1, Zenon DEF ThreadInv, TimerInv, At
  <2>3. CASE EState[x]
    <3>1. EState' = [EState EXCEPT ![x] = x \notin AutoReset] /\ UNCHANGED kernelVars
      BY <2>1, <2>3, Zenon DEF exos_event_add_handle
    <3>2. UNCHANGED <<HState, draining>>
      BY <3>1, StutterFacts, Zenon
    <3>3. EState'[FifoEvent] = EState[FifoEvent] /\ pc' = [pc EXCEPT ![r] = "tdispose"]
      BY ONLY <1>2, <1>3, <2>1, <2>3, <3>1, Zenon DEF CallTypes
    <3>9. Inner(r, "tadd", "tdispose")
      BY ONLY <2>1, <2>2, <3>2, <3>3, ZenonT(40) DEF Inner
    <3> QED
      BY ONLY FifoInv, EInv', UNCHANGED <<Items, nothing>>, <1>0, <3>9, InnerStep, Zenon
  <2>4. CASE ~EState[x]
    <3>1. EState' = EState /\ exos_thread_add_wait_handle(x, x) /\ pc' = [pc EXCEPT ![r] = "wait"]
      BY <2>1, <2>4, Zenon DEF exos_event_add_handle
    <3>2. draining' = draining /\ \A g \in Handle \ {x} : HState'[g] = HState[g]
      BY ONLY <1>0, <1>1, <1>2, <1>3, <3>1, AddFacts, ZenonT(40)
    <3>3. HState'[r] = HState[r] /\ \A t \in Thread \ {r} : HState'[t] = HState[t]
      BY ONLY <1>2, <1>4, <3>2, Zenon
    <3>9. Inner(r, "tadd", "wait")
      BY ONLY <2>1, <3>1, <3>2, <3>3, ZenonT(40) DEF Inner
    <3> QED
      BY ONLY FifoInv, EInv', UNCHANGED <<Items, nothing>>, <1>0, <3>9, InnerStep, Zenon
  <2> QED
    BY <2>3, <2>4, Zenon
<1>7. CASE Wait
  <2>1. /\ At("wait") /\ pc' = [pc EXCEPT ![r] = "woken"] /\ UNCHANGED <<EState, TState, want, timed, done>>
        /\ exos_thread_wait(Mask[running] \cup IF timed[running] THEN Mask[Timer[running]] ELSE {})
    BY <1>0, <1>7, Zenon DEF Wait, Goto
  <2>2. UNCHANGED <<HState, draining>>
    BY ONLY <1>1, <2>1, WaitFacts, ZenonT(40)
  <2>9. Inner(r, "wait", "woken")
    BY ONLY <2>1, <2>2, ZenonT(40) DEF Inner
  <2> QED
    BY ONLY FifoInv, EInv', UNCHANGED <<Items, nothing>>, <1>0, <2>9, InnerStep, ZenonT(40)
<1>8. CASE Woken
  <2>1. /\ At("woken") /\ pc' = [pc EXCEPT ![r] = IF timed[r] THEN "tfree" ELSE "dispose"]
        /\ done' = [done EXCEPT ![r] = timed[r] => HState[r] = "DONE"]
        /\ UNCHANGED <<EState, TState, want, timed>> /\ UNCHANGED kernelVars
    BY <1>0, <1>8, Zenon DEF Woken, Goto
  <2>2. UNCHANGED <<HState, draining>> /\ \A t \in Thread \ {r} : done'[t] = done[t]
    BY <1>2, <2>1, StutterFacts, Zenon DEF CallTypes
  <2>3. ~timed[r] => HState[r] = "DONE"
    BY ONLY <1>0, <1>2, <2>1, Zenon DEF ThreadInv, SleepInv, At
  <2>4. CASE timed[r]
    <3>1. Inner(r, "woken", "tfree")
      BY ONLY <2>1, <2>2, <2>4, ZenonT(40) DEF Inner
    <3> QED
      BY ONLY FifoInv, EInv', UNCHANGED <<Items, nothing>>, <1>0, <3>1, InnerStep, Zenon
  <2>5. CASE ~timed[r]
    <3>1. Inner(r, "woken", "dispose")
      BY ONLY <2>1, <2>2, <2>3, <2>5, ZenonT(40) DEF Inner
    <3> QED
      BY ONLY FifoInv, EInv', UNCHANGED <<Items, nothing>>, <1>0, <3>1, InnerStep, ZenonT(40)
  <2> QED
    BY <2>4, <2>5, Zenon
<1>9. CASE TimerHandleDispose
  <2>1. /\ At("tfree") /\ pc' = [pc EXCEPT ![r] = "tdispose"] /\ UNCHANGED <<EState, TState, want, timed, done>>
        /\ exos_thread_dispose_wait_handle(x)
    BY <1>0, <1>3, <1>9, Zenon DEF TimerHandleDispose, Goto
  <2>2. draining' = draining /\ \A g \in Handle \ {x} : HState'[g] = HState[g]
    BY ONLY <1>0, <1>1, <1>3, <2>1, DisposeFacts, ZenonT(40)
  <2>3. HState'[r] = HState[r] /\ \A t \in Thread \ {r} : HState'[t] = HState[t]
    BY ONLY <1>2, <1>4, <2>2, Zenon
  <2>4. timed[r]
    BY ONLY <1>0, <1>2, <2>1, Zenon DEF WaitInv, At
  <2>9. Inner(r, "tfree", "tdispose")
    BY ONLY <2>1, <2>2, <2>3, <2>4, ZenonT(40) DEF Inner
  <2> QED
    BY ONLY FifoInv, EInv', UNCHANGED <<Items, nothing>>, <1>0, <2>9, InnerStep, Zenon
<1>10. CASE TimerDispose
  <2>1. /\ At("tdispose") /\ pc' = [pc EXCEPT ![r] = "dispose"] /\ UNCHANGED <<want, timed, done>>
        /\ TState' = [TState EXCEPT ![x] = IF @ = "RUNNING" THEN "DETACHED" ELSE @]
        /\ EState' = [EState EXCEPT ![x] = FALSE] /\ UNCHANGED kernelVars
    BY <1>0, <1>3, <1>10, Zenon DEF TimerDispose, Goto
  <2>2. UNCHANGED <<HState, draining>>
    BY <2>1, StutterFacts, Zenon
  <2>3. /\ \A t \in Thread \ {r} : TState'[Timer[t]] = TState[Timer[t]]
        /\ EState'[FifoEvent] = EState[FifoEvent]
    BY ONLY <1>2, <1>3, <1>4, <2>1, ZenonT(40) DEF CallTypes
  <2>4. timed[r]
    BY ONLY <1>0, <1>2, <2>1, Zenon DEF WaitInv, At
  <2>9. Inner(r, "tdispose", "dispose")
    BY ONLY <2>1, <2>2, <2>3, <2>4, ZenonT(40) DEF Inner
  <2> QED
    BY ONLY FifoInv, EInv', UNCHANGED <<Items, nothing>>, <1>0, <2>9, InnerStep, Zenon
<1>11. CASE Dispose
  <2>1. /\ At("dispose") /\ pc' = [pc EXCEPT ![r] = "return"] /\ UNCHANGED <<EState, TState, want, timed, done>>
        /\ exos_thread_dispose_wait_handle(r)
    BY <1>0, <1>11, Zenon DEF Dispose, Goto
  <2>2. /\ draining' = draining /\ \A g \in Handle \ {r} : HState'[g] = HState[g]
        /\ HState'[r] = "DETACHED"
    BY ONLY <1>0, <1>1, <2>1, DisposeFacts, ZenonT(40)
  <2>3. HState'[r] # "DONE" /\ \A t \in Thread \ {r} : HState'[t] = HState[t]
    BY ONLY <1>4, <2>2, Zenon
  <2>4. timed[r] \/ Items # <<>>
    BY ONLY <1>0, <1>2, <2>1, Zenon DEF WaitInv, At
  <2>9. Inner(r, "dispose", "return")
    BY ONLY <2>1, <2>2, <2>3, <2>4, ZenonT(40) DEF Inner
  <2> QED
    BY ONLY FifoInv, EInv', UNCHANGED <<Items, nothing>>, <1>0, <2>9, InnerStep, Zenon
<1> QED
  BY <1>5, <1>6, <1>7, <1>8, <1>9, <1>10, <1>11, Zenon DEF Waiting

----------------------------------------------------------------------------
(* The rest of the system *)

\* A step that leaves every handle, every call and the queue's event alone.
LEMMA AsideKeeps ==
  ASSUME FifoInv, EInv', UNCHANGED <<Items, nothing, pc, want, timed, HState>>,
         EState'[FifoEvent] = EState[FifoEvent],
         draining' = FifoEvent => draining = FifoEvent /\ waiters' = waiters
  PROVE  FifoInv'
<1>1. QueueInv /\ OneConsumer
  BY Zenon DEF FifoInv
<1>2. \A t \in Thread : WaitInv(t)'
  BY ONLY <1>1, UNCHANGED <<Items, nothing, pc, want, timed, HState>>, Zenon DEF QueueInv, WaitInv
<1>3. QueueInv'
  BY ONLY <1>1, <1>2, UNCHANGED <<Items, nothing, pc, want, timed, HState>>, EState'[FifoEvent] = EState[FifoEvent],
     draining' = FifoEvent => draining = FifoEvent /\ waiters' = waiters, Zenon DEF QueueInv
<1> QED
  BY ONLY <1>1, <1>3, EInv', Zenon DEF FifoInv, OneConsumer

LEMMA ExpireKeepsFifo ==
  ASSUME FifoInv, EInv', NEW x \in TimerSet, Expire(x), UNCHANGED <<Items, nothing>>
  PROVE  FifoInv'
<1>1. EState' = [EState EXCEPT ![x] = (x \in AutoReset => waiters[x] = <<>>)]
  BY Zenon DEF Expire, SetEvent
<1>2. EState \in [Object -> BOOLEAN] /\ FifoEvent # x /\ FifoEvent \in Object
  BY FifoNames, Zenon DEF FifoInv, EInv, EventTypeOK
<1>3. EState'[FifoEvent] = EState[FifoEvent]
  BY ONLY <1>1, <1>2, Zenon
<1>4. UNCHANGED <<pc, want, timed, HState>> /\ draining' = x
  BY ResumeAllFacts, Zenon DEF Expire, SetEvent
<1> QED
  BY ONLY FifoInv, EInv', UNCHANGED <<Items, nothing>>, <1>2, <1>3, <1>4, AsideKeeps, ZenonT(40)

LEMMA CreateKeepsFifo ==
  ASSUME FifoInv, EInv', NEW t \in Thread, Create(t), UNCHANGED <<Items, nothing>>
  PROVE  FifoInv'
<1>1. UNCHANGED <<EState, pc, want, timed, HState>> /\ draining' = Nil
  BY Zenon DEF Create, exos_thread_create, EndSection, eventVars
<1>2. FifoEvent # Nil
  BY FifoNames, Zenon
<1> QED
  BY ONLY FifoInv, EInv', UNCHANGED <<Items, nothing>>, <1>1, <1>2, AsideKeeps, ZenonT(40)

\* ___resume_all wakes the consumer: only _queue can have started it.
LEMMA KernelKeepsFifo ==
  ASSUME FifoInv, EInv', Kernel, UNCHANGED <<Items, nothing>>
  PROVE  FifoInv'
<1>1. UNCHANGED <<EState, TState, pc, want, timed, done>> /\ EInv /\ QueueInv
  BY Zenon DEF Kernel, eventVars, FifoInv
<1>2. CASE ResumeAllEnd
  <2>1. draining' = Nil /\ HState' = HState /\ FifoEvent # Nil
    BY <1>2, FifoNames, Zenon DEF ResumeAllEnd, EndSection, handleVars
  <2> QED
    BY ONLY FifoInv, EInv', UNCHANGED <<Items, nothing>>, <1>1, <2>1, AsideKeeps, ZenonT(40)
<1>3. CASE ResumeFirst
  <2>0. PICK h : h = Head(waiters[draining])
    BY Zenon
  <2>1. /\ h \in Handle /\ draining \in WaitList /\ h \in Range(waiters[draining])
        /\ HState[h] = "WAITING" /\ draining' = draining /\ HState' = [HState EXCEPT ![h] = "DONE"]
        /\ \A l \in WaitList : waiters[l] = <<>> => waiters'[l] = <<>>
    BY ONLY <1>1, <1>3, <2>0, FirstFacts, Zenon
  <2>2. HState \in [Handle -> {"DETACHED", "WAITING", "DONE"}] /\ waiters[draining] # <<>>
    BY <1>1, <1>3, Zenon DEF EInv, IInv, TypeOK, ResumeFirst
  <2>3. PICK r \in Thread : h \in {r, Timer[r]}
    <3>1. h \in Thread \/ h \in TimerSet
      BY <2>1, EventAssumption, Zenon
    <3> QED
      BY <3>1, Zenon DEF TimerSet
  <2>4. \A t \in Thread \ {r} : HState'[t] = HState[t]
    <3>1. ASSUME NEW t \in Thread, t # r PROVE t \in Handle /\ t # h
      BY <2>3, <3>1, Names, Zenon
    <3> QED
      BY ONLY <2>1, <2>2, <3>1, Zenon
  <2>5. WaitInv(r) /\ ThreadInv(r) /\ r \in Handle
    BY <1>1, Names, Zenon DEF QueueInv, EInv
  <2>6. WaitInv(r)'
    <3>1. CASE h = r
      <4>1. draining = want[r]
        BY <1>1, <2>1, <2>3, <3>1, Names, Zenon DEF EInv, ListInv
      <4>2. pc[r] # "user"
        BY ONLY <2>1, <2>5, <3>1, Zenon DEF ThreadInv, HandlesInv
      <4>3. draining = FifoEvent
        BY ONLY <2>5, <4>1, <4>2, Zenon DEF WaitInv
      <4>4. Items # <<>>
        BY ONLY <1>1, <2>2, <4>3, Zenon DEF QueueInv
      <4> QED
        BY ONLY <1>1, <2>5, <4>4, UNCHANGED <<Items, nothing>>, ZenonT(40) DEF WaitInv
    <3>2. CASE h # r
      <4>1. HState'[r] = HState[r]
        BY ONLY <2>1, <2>2, <2>5, <3>2, Zenon
      <4> QED
        BY ONLY <1>1, <2>5, <4>1, UNCHANGED <<Items, nothing>>, ZenonT(40) DEF WaitInv
    <3> QED
      BY <3>1, <3>2, Zenon
  <2>7. \A t \in Thread : CallKept(t)
    BY ONLY <1>1, Zenon DEF CallKept
  <2>8. FifoEvent \in WaitList
    BY FifoNames, Zenon
  <2> QED
    BY ONLY FifoInv, EInv', UNCHANGED <<Items, nothing>>, <1>1, <2>1, <2>3, <2>4, <2>6, <2>7, <2>8, FifoStep,
       ZenonT(40)
<1> QED
  BY <1>2, <1>3, Zenon DEF Kernel, Drain

\* Every step of the queue keeps the invariant of the events: but for the two
\* that reset the event in one section, it is a step of Event.
LEMMA FifoKeepsEInv == ASSUME FifoInv, [FifoNext]_fifoVars PROVE EInv'
<1>1. EInv /\ IInv
  BY Zenon DEF FifoInv, EInv
<1>2. FifoEvent \in Event /\ FifoEvent \in Object /\ Timeout \subseteq BOOLEAN
  BY FifoNames, FifoAssumption, Zenon
<1>3. ASSUME [EventNext]_vars PROVE EInv'
  BY ONLY <1>1, <1>3, EventNextKeeps, Zenon
<1>4. ASSUME exos_thread_resume_all(FifoEvent), Kept' PROVE EInv'
  <2>1. [Next]_kernelVars
    BY <1>2, <1>4, Zenon DEF Next
  <2>2. IInv'
    BY ONLY <1>1, <2>1, NextKeeps, Zenon
  <2> QED
    BY ONLY <1>4, <2>2, KeptIsEInv, Zenon
<1>5. ASSUME NEW node \in Node, _queue(node) PROVE EInv'
  <2>1. InterruptSets(FifoEvent)
    BY <1>5, Zenon DEF _queue, InterruptSets
  <2> QED
    BY <1>2, <1>3, <2>1, Zenon DEF EventNext
<1>6. ASSUME NEW timeout \in Timeout, exos_fifo_wait(timeout) PROVE EInv'
  BY <1>2, <1>3, <1>6, Zenon DEF exos_fifo_wait, EventNext
<1>7. ASSUME exos_fifo_dequeue PROVE EInv'
  <2>1. _dequeue /\ UNCHANGED <<TState, pc, want, timed, done>>
    BY <1>7, Zenon DEF exos_fifo_dequeue
  <2>2. CASE Items' = <<>>
    <3>1. EState' = [EState EXCEPT ![FifoEvent] = FALSE] /\ exos_thread_resume_all(FifoEvent)
      BY <2>1, <2>2, Zenon DEF _dequeue
    <3>2. Kept'
      BY ONLY <1>1, <1>2, <2>1, <3>1, SectionKeeps, ZenonT(40)
    <3> QED
      BY ONLY <1>4, <3>1, <3>2, Zenon
  <2>3. CASE Items' # <<>>
    BY <1>3, <2>1, <2>3, Zenon DEF _dequeue, vars, eventVars
  <2> QED
    BY <2>2, <2>3, Zenon
<1>8. ASSUME FifoTake PROVE EInv'
  <2>1. /\ At("return") /\ BackToUser
        /\ \/ UNCHANGED <<kernelVars, EState>>
           \/ EState' = [EState EXCEPT ![FifoEvent] = FALSE] /\ exos_thread_resume_all(FifoEvent)
    BY <1>8, Zenon DEF FifoTake, _dequeue
  <2>2. CASE UNCHANGED <<kernelVars, EState>>
    BY <1>3, <2>1, <2>2, Zenon DEF EventNext, Return
  <2>3. CASE EState' = [EState EXCEPT ![FifoEvent] = FALSE] /\ exos_thread_resume_all(FifoEvent)
    <3>1. Calling /\ pc[running] = "return"
      BY <2>1, Zenon DEF At
    <3>2. Kept'
      BY ONLY <1>1, <1>2, <2>1, <2>3, <3>1, BackKeeps, ZenonT(40)
    <3> QED
      BY ONLY <1>4, <2>3, <3>2, Zenon
  <2> QED
    BY <2>1, <2>2, <2>3, Zenon
<1>9. CASE Waiting \/ (\E x \in TimerSet : Expire(x)) \/ (\E t \in Thread : Create(t)) \/ Kernel
  BY <1>3, <1>9, Zenon DEF EventNext
<1>10. CASE UNCHANGED fifoVars
  BY <1>3, <1>10, Zenon DEF fifoVars
<1> QED
  BY <1>5, <1>6, <1>7, <1>8, <1>9, <1>10, Zenon DEF FifoNext, exos_fifo_queue

LEMMA FifoNextKeeps == FifoInv /\ [FifoNext]_fifoVars => FifoInv'
<1> SUFFICES ASSUME FifoInv, [FifoNext]_fifoVars PROVE FifoInv'
  BY Zenon
<1>1. EInv'
  BY FifoKeepsEInv, Zenon
<1>2. ASSUME NEW timeout \in Timeout, exos_fifo_wait(timeout) PROVE FifoInv'
  <2>1. timeout \in BOOLEAN
    BY FifoAssumption, Zenon
  <2> QED
    BY <1>1, <1>2, <2>1, FifoWaitKeeps, Zenon
<1>3. CASE UNCHANGED fifoVars
  <2>1. UNCHANGED <<Items, nothing, pc, want, timed, EState>> /\ UNCHANGED <<HState, waiters, draining>>
    BY <1>3, StutterFacts, Zenon DEF fifoVars, vars, eventVars
  <2> QED
    BY <1>1, <2>1, AsideKeeps, ZenonT(40)
<1> QED
  BY <1>1, <1>2, <1>3, QueueKeeps, FreeDequeueKeeps, TakeKeeps, InnerKeeps, ExpireKeepsFifo, CreateKeepsFifo,
     KernelKeepsFifo, ZenonT(40) DEF FifoNext, exos_fifo_queue

LEMMA InitFifoInv == OneConsumer /\ FifoInit => FifoInv
<1> SUFFICES ASSUME OneConsumer, FifoInit PROVE FifoInv
  BY Zenon
<1>1. EInv /\ EventInit /\ Items = <<>> /\ nothing = {}
  BY InitEInv, Zenon DEF FifoInit
<1>2. /\ EState = [e \in Object |-> FALSE] /\ pc = [t \in Thread |-> "user"]
      /\ HState = [h \in Handle |-> "DETACHED"] /\ waiters = [l \in WaitList |-> <<>>]
  BY <1>1, Zenon DEF EventInit, KernelInit
<1>3. ~EState[FifoEvent] /\ waiters[FifoEvent] = <<>>
  BY ONLY <1>2, FifoNames, Zenon
<1>4. \A t \in Thread : WaitInv(t)
  <2>1. ASSUME NEW t \in Thread PROVE pc[t] = "user" /\ HState[t] = "DETACHED"
    BY <1>2, Names, Zenon
  <2> QED
    BY ONLY <2>1, Zenon DEF WaitInv
<1>5. <<>> \in Seq(Node)
  BY ONLY TRUE
<1>6. QueueInv
  BY ONLY <1>1, <1>3, <1>4, <1>5, Zenon DEF QueueInv
<1> QED
  BY ONLY <1>1, <1>6, OneConsumer, Zenon DEF FifoInv

\* The queue of fifo.c with one consumer and an event that is not auto-reset:
\* the event is set exactly while a node is queued, so the consumer does not
\* sleep over a node, and exos_fifo_wait without a timeout has one to return.
THEOREM NoNodeStranded == FifoSpec /\ OneConsumer => []NothingStranded
<1>1. ASSUME FifoInv PROVE NothingStranded
  <2>1. EInv /\ QueueInv
    BY <1>1, Zenon DEF FifoInv
  <2>2. FifoTypeOK
    BY ONLY <2>1, Zenon DEF FifoTypeOK, EInv, QueueInv
  <2>3. ASSUME Outside, Items # <<>>, NEW t \in Consumer, State[t] = "WAIT", want[t] = FifoEvent PROVE FALSE
    <3>1. t \in Thread /\ t \in Handle /\ FifoEvent \in Object /\ draining # FifoEvent
      BY <2>3, FifoNames, Names, Zenon DEF Outside
    <3>2. EState[FifoEvent] /\ \A u \in Thread : pc[u] # "resume"
      BY ONLY <2>1, <2>3, Zenon DEF QueueInv, WaitInv
    <3>3. waiters[FifoEvent] = <<>>
      BY ONLY <2>1, <3>1, <3>2, Zenon DEF EInv, SetWakesAll
    <3>4. pc[t] = "woken" /\ MaskWait[t] = Mask[t] \cup IF timed[t] THEN Mask[Timer[t]] ELSE {}
      BY ONLY <2>1, <2>3, <3>1, Zenon DEF EInv, ThreadInv, SleepInv
    <3>5. Owner[t] = t
      BY ONLY <2>1, <3>1, <3>4, ZenonT(40) DEF EInv, ThreadInv, HandlesInv
    <3>6. IInv /\ MaskExact /\ NoLostWakeup /\ PlaceInv /\ t # Nil
      BY <2>1, <3>1, Names, Zenon DEF EInv, IInv
    <3>7. HState[t] # "DETACHED" /\ Mask[t] # {}
      BY ONLY <3>1, <3>5, <3>6, Zenon DEF MaskExact
    <3>8. HState[t] # "DONE"
      BY ONLY <2>3, <3>1, <3>4, <3>5, <3>6, <3>7, ZenonT(40) DEF PlaceInv, NoLostWakeup
    <3>9. HState[t] = "WAITING"
      BY <2>1, <3>1, <3>7, <3>8, Zenon DEF EInv, IInv, TypeOK
    <3>10. PICK l \in WaitList : t \in Range(waiters[l])
      BY ONLY <3>1, <3>6, <3>9, Zenon DEF PlaceInv
    <3>11. l = FifoEvent
      BY <2>1, <2>3, <3>1, <3>10, Names, Zenon DEF EInv, ListInv
    <3>12. t \in Range(<<>>)
      BY ONLY <3>3, <3>10, <3>11, Zenon
    <3> QED
      BY ONLY <3>12 DEF Range
  <2> QED
    BY ONLY <2>1, <2>2, <2>3, Zenon DEF NothingStranded, QueueInv
<1> QED
  BY <1>1, InitFifoInv, FifoNextKeeps, PTL DEF FifoSpec
=============================================================================

--------------------------- MODULE DispatchProofs ---------------------------
(***************************************************************************)
(* Proofs about the event loop of dispatch.c, for any number of            *)
(* dispatchers, of the loop's own thread and of others, and any events.    *)
(*                                                                         *)
(* The mutex of the context is free while the loop waits, and others add   *)
(* and remove dispatchers then.  DInv says at every place of exos_dispatch *)
(* which handles are in use, and of the first FOREACH which part of the    *)
(* list has been given its handles.                                        *)
(***************************************************************************)
EXTENDS Dispatch, ListProofs

\* A dispatcher of the loop's own thread whose handles are all given out.
Armed(d) == d \in Client \/ \A h \in Used(d) : h \in mask /\ HState[h] # "DETACHED"

\* The handles and the timer that _remove would not find are not in use.
UsedOnly ==
  \A d \in Dispatcher :
    /\ EventHandle(d) \notin Used(d) => HState[EventHandle(d)] = "DETACHED"
    /\ TimerHandle(d) \notin Used(d) => HState[TimerHandle(d)] = "DETACHED" /\ TimerHandle(d) \notin Running

\* The handles on the stack of a call.
StackClean ==
  pc \notin {"wait", "timer", "tadd", "asleep", "woken"} =>
    HState[WakeHandle] = "DETACHED" /\ HState[TimeoutHandle] = "DETACHED" /\ TimeoutHandle \notin Running

\* Where the two FOREACH are.
CursorListed ==
  /\ pc \in {"scan", "again"} => cursor \in Listed \cup {Nil}
  /\ pc = "scantimer" => cursor \in Listed
  /\ pc = "select" => selected \in Listed

\* What the first FOREACH has done.
ScanArmed ==
  /\ pc = "scan" /\ cursor = Nil => \A d \in Listed : Armed(d)
  /\ pc \in {"scan", "scantimer"} =>
       \A i \in DOMAIN Dispatchers : Dispatchers[i] = cursor => \A j \in 1..(i - 1) : Armed(Dispatchers[j])
  /\ pc = "scantimer" /\ cursor \notin Client /\ DEvent[cursor] # Nil =>
       EventHandle(cursor) \in mask /\ HState[EventHandle(cursor)] # "DETACHED"

\* The loop waits: for WakeEvent too, which is never left set.
WaitsForAll ==
  /\ ~EState[WakeHandle]
  /\ pc \in {"wake", "timer", "tadd", "wait", "asleep"} => \A d \in Listed : Armed(d)
  /\ pc \in {"timer", "tadd", "wait", "asleep"} => WakeHandle \in mask
  /\ pc = "asleep" => \A d \in Listed \ Client : \A h \in Used(d) : HState[h] = "WAITING"

DInv == DispatchTypeOK /\ UsedOnly /\ StackClean /\ CursorListed /\ ScanArmed /\ WaitsForAll

----------------------------------------------------------------------------
(* Handles, and what a step does to them *)

LEMMA HandleFacts ==
  /\ WakeHandle \in Handle /\ TimeoutHandle \in Handle /\ WakeHandle # TimeoutHandle
  /\ \A d \in Dispatcher :
       /\ EventHandle(d) \in Handle /\ TimerHandle(d) \in Handle /\ EventHandle(d) # TimerHandle(d)
       /\ {EventHandle(d), TimerHandle(d)} \cap {WakeHandle, TimeoutHandle} = {}
  /\ \A d, x \in Dispatcher :
       /\ EventHandle(d) = EventHandle(x) => d = x
       /\ TimerHandle(d) = TimerHandle(x) => d = x
       /\ EventHandle(d) # TimerHandle(x)
BY DEF Handle, TimerSet, EventHandle, TimerHandle, WakeHandle, TimeoutHandle

LEMMA OfFacts ==
  /\ Of(WakeHandle) = WakeHandle /\ Of(TimeoutHandle) = TimeoutHandle
  /\ \A d \in Dispatcher : Of(EventHandle(d)) = DEvent[d] /\ Of(TimerHandle(d)) = TimerHandle(d)
BY Zenon DEF Of, EventHandle, TimerHandle, WakeHandle, TimeoutHandle

LEMMA SignalFacts ==
  /\ WakeHandle \in Signal /\ TimeoutHandle \in Signal /\ TimeoutHandle \in TimerSet
  /\ \A d \in Dispatcher : TimerHandle(d) \in Signal /\ TimerHandle(d) \in TimerSet
  /\ \A d \in Dispatcher : DEvent[d] # Nil => DEvent[d] \in Event /\ DEvent[d] \in Signal
  /\ WakeHandle \notin Event /\ WakeHandle \notin TimerSet /\ Event \subseteq Signal /\ TimerSet \subseteq Signal
  /\ TimerSet \subseteq Handle
<1>1. WakeHandle \notin TimerSet
  BY Zenon DEF TimerSet, TimerHandle, WakeHandle, TimeoutHandle
<1>2. WakeHandle \notin Event
  BY DistinctAssumption, Zenon
<1> QED
  BY <1>1, <1>2, DispatchAssumption, Zenon DEF Signal, TimerSet, Handle

\* The handles of a dispatcher; those of others are different.
LEMMA UsedFacts ==
  ASSUME NEW d \in Dispatcher
  PROVE  /\ Used(d) \subseteq Handle /\ Used(d) \subseteq {EventHandle(d), TimerHandle(d)}
         /\ WakeHandle \notin Used(d) /\ TimeoutHandle \notin Used(d)
         /\ EventHandle(d) \in Used(d) <=> d \in Listed /\ DEvent[d] # Nil
         /\ TimerHandle(d) \in Used(d) <=> d \in Listed /\ HasTimeout[d]
         /\ \A x \in Dispatcher : x # d => EventHandle(x) \notin Used(d) /\ TimerHandle(x) \notin Used(d)
<1> USE HandleFacts
<1> HIDE DEF EventHandle, TimerHandle, WakeHandle, TimeoutHandle
<1> QED
  BY Zenon DEF Used

\* A step that leaves the list as it is and gives back no handle.
LEMMA StillArmed ==
  ASSUME UNCHANGED <<Dispatchers, HasTimeout>>, mask \subseteq mask',
         \A h \in Handle : HState[h] # "DETACHED" => HState'[h] # "DETACHED"
  PROVE  /\ Listed' = Listed
         /\ \A d \in Dispatcher : Used(d)' = Used(d)
         /\ \A d \in Dispatcher : Armed(d) => Armed(d)'
<1>1. Listed' = Listed /\ \A d : Used(d)' = Used(d)
  BY Zenon DEF Listed, Used
<1>2. ASSUME NEW d \in Dispatcher, Armed(d) PROVE Armed(d)'
  <2>1. Used(d) \subseteq Handle
    BY UsedFacts, Zenon
  <2> QED
    BY <1>1, <1>2, <2>1, Zenon DEF Armed
<1> QED
  BY <1>1, <1>2, Zenon

LEMMA ListedFacts ==
  ASSUME DispatchTypeOK
  PROVE  /\ Listed \subseteq Dispatcher /\ DOMAIN Dispatchers = 1..Len(Dispatchers) /\ Len(Dispatchers) \in Nat
         /\ \A i \in DOMAIN Dispatchers : Dispatchers[i] \in Listed
         /\ \A d \in Listed : \E i \in DOMAIN Dispatchers : Dispatchers[i] = d
         /\ \A i, j \in DOMAIN Dispatchers : Dispatchers[i] = Dispatchers[j] => i = j
BY DEF DispatchTypeOK, Listed, Range, IsInjective

\* An event that is set, WakeEvent apart: handles that wait are done, and the
\* loop does not sleep on when one of them is in its mask.
LEMMA SetEventKeeps ==
  ASSUME DInv, NEW e \in Signal \ {WakeHandle}, SetEvent(e), Running' \subseteq Running,
         UNCHANGED <<listVars, callVars>>
  PROVE  DInv'
<1>1. DispatchTypeOK /\ UsedOnly /\ StackClean /\ CursorListed /\ ScanArmed /\ WaitsForAll
  BY Zenon DEF DInv
<1>2. UNCHANGED <<Dispatchers, State, HasTimeout, cursor, mask, selected, timed>>
  BY Zenon DEF listVars, callVars
<1>3. \A h \in Handle : HState'[h] = IF HState[h] = "WAITING" /\ Of(h) = e THEN "DONE" ELSE HState[h]
  BY Zenon DEF SetEvent, Resumed, Waiting
<1>4. pc' = pc \/ (pc = "asleep" /\ pc' = "woken")
  BY Zenon DEF SetEvent, Wakes
<1>5. DispatchTypeOK'
  <2>1. EState' \in [Signal -> BOOLEAN]
    BY <1>1, Zenon DEF SetEvent, DispatchTypeOK
  <2>2. HState' \in [Handle -> {"DETACHED", "WAITING", "DONE"}]
    BY <1>1, Zenon DEF SetEvent, Resumed, DispatchTypeOK
  <2> QED
    BY <1>1, <1>2, <1>4, <2>1, <2>2, Zenon DEF DispatchTypeOK
<1>6. /\ Listed' = Listed
      /\ \A d \in Dispatcher : Used(d)' = Used(d) /\ (Armed(d) => Armed(d)')
  BY <1>2, <1>3, StillArmed, Zenon
<1>7. UsedOnly' /\ StackClean'
  BY <1>1, <1>3, <1>4, <1>6, HandleFacts, Zenon DEF UsedOnly, StackClean
<1>8. CursorListed'
  BY <1>1, <1>2, <1>4, <1>6, Zenon DEF CursorListed
<1>9. ScanArmed'
  BY <1>1, <1>2, <1>3, <1>4, <1>6, ListedFacts, HandleFacts DEF ScanArmed, CursorListed
<1>10. WaitsForAll'
  <2>1. ~EState'[WakeHandle]
    BY <1>1, SignalFacts, Zenon DEF SetEvent, WaitsForAll, DispatchTypeOK
  <2>2. \A d \in Listed' : pc' \in {"wake", "timer", "tadd", "wait", "asleep"} => Armed(d)'
    BY <1>1, <1>4, <1>6, ListedFacts, Zenon DEF WaitsForAll
  <2>3. ASSUME pc' = "asleep", NEW d \in Listed \ Client, NEW h \in Used(d) PROVE HState'[h] = "WAITING"
    <3>1. pc = "asleep" /\ Waiting(e) \cap mask = {}
      BY <1>4, <2>3, Zenon DEF SetEvent, Wakes
    <3>2. d \in Dispatcher /\ h \in Handle /\ HState[h] = "WAITING" /\ h \in mask
      BY <1>1, <2>3, <3>1, ListedFacts, UsedFacts, Zenon DEF WaitsForAll, Armed
    <3> QED
      BY <1>3, <3>1, <3>2, Zenon DEF Waiting
  <2> QED
    BY <1>1, <1>2, <1>4, <1>6, <2>1, <2>2, <2>3, ListedFacts DEF WaitsForAll
<1> QED
  BY <1>5, <1>7, <1>8, <1>9, <1>10, Zenon DEF DInv

----------------------------------------------------------------------------
(* Adding and removing *)

\* One dispatcher comes or goes; the others keep their handles and timers.
LEMMA ChangeKeeps ==
  ASSUME DInv, NEW d \in Dispatcher, MayChange(d), DispatchTypeOK', UNCHANGED callVars,
         \A x \in Dispatcher \ {d} : (x \in Listed' <=> x \in Listed) /\ HasTimeout'[x] = HasTimeout[x],
         \A h \in Handle \ {WakeHandle, EventHandle(d), TimerHandle(d)} : HState'[h] = HState[h],
         HState[WakeHandle] = "DETACHED" => HState'[WakeHandle] = "DETACHED",
         \A x \in TimerSet \ {TimerHandle(d)} : x \in Running' => x \in Running,
         EventHandle(d) \notin Used(d)' => HState'[EventHandle(d)] = "DETACHED",
         TimerHandle(d) \notin Used(d)' => HState'[TimerHandle(d)] = "DETACHED" /\ TimerHandle(d) \notin Running',
         ~EState'[WakeHandle],
         pc' = pc \/ (pc = "asleep" /\ pc' = "woken")
  PROVE  DInv'
<1>1. DispatchTypeOK /\ UsedOnly /\ StackClean /\ CursorListed /\ ScanArmed /\ WaitsForAll
  BY Zenon DEF DInv
<1>2. pc' \notin {"scan", "scantimer", "select", "again"}
  BY Zenon DEF MayChange, Locked
<1>3. ASSUME NEW x \in Dispatcher \ {d}
      PROVE  /\ Used(x)' = Used(x)
             /\ HState'[EventHandle(x)] = HState[EventHandle(x)] /\ HState'[TimerHandle(x)] = HState[TimerHandle(x)]
             /\ TimerHandle(x) \in Running' => TimerHandle(x) \in Running
             /\ \A h \in Used(x) : HState'[h] = HState[h]
  <2>1. Used(x)' = Used(x)
    BY Zenon DEF Used
  <2>2. /\ EventHandle(x) \in Handle \ {WakeHandle, EventHandle(d), TimerHandle(d)}
        /\ TimerHandle(x) \in Handle \ {WakeHandle, EventHandle(d), TimerHandle(d)}
        /\ TimerHandle(x) \in TimerSet \ {TimerHandle(d)}
    BY HandleFacts, SignalFacts, Zenon
  <2>3. Used(x) \subseteq {EventHandle(x), TimerHandle(x)}
    BY UsedFacts, Zenon
  <2> QED
    BY <2>1, <2>2, <2>3, Zenon
<1>4. UsedOnly'
  BY <1>1, <1>3 DEF UsedOnly
<1>5. StackClean'
  BY <1>1, HandleFacts, SignalFacts, Zenon DEF StackClean
<1>6. CursorListed' /\ ScanArmed'
  BY <1>2, Zenon DEF CursorListed, ScanArmed
<1>7. WaitsForAll'
  <2>1. pc' \in {"wake", "timer", "tadd", "wait", "asleep"} => d \in Client /\ pc = pc'
    BY Zenon DEF MayChange
  <2>2. mask' = mask
    BY Zenon DEF callVars
  <2>3. ASSUME NEW x \in Listed', pc' \in {"wake", "timer", "tadd", "wait", "asleep"} PROVE Armed(x)'
    <3>1. x \in Dispatcher
      BY DEF DispatchTypeOK, Listed, Range
    <3>2. CASE x = d
      BY <2>1, <2>3, <3>2, Zenon DEF Armed
    <3>3. CASE x # d
      BY <1>1, <1>3, <2>1, <2>2, <2>3, <3>1, <3>3 DEF WaitsForAll, Armed
    <3> QED
      BY <3>2, <3>3, Zenon
  <2>4. ASSUME NEW x \in Listed' \ Client, NEW h \in Used(x)', pc' = "asleep" PROVE HState'[h] = "WAITING"
    <3>1. x \in Dispatcher \ {d}
      BY <2>1, <2>4 DEF DispatchTypeOK, Listed, Range
    <3> QED
      BY <1>1, <1>3, <2>1, <2>4, <3>1 DEF WaitsForAll
  <2> QED
    BY <1>1, <2>1, <2>2, <2>3, <2>4, Zenon DEF WaitsForAll
<1> QED
  BY <1>4, <1>5, <1>6, <1>7, Zenon DEF DInv

\* The list after list_remove.
LEMMA RemovedFacts ==
  ASSUME DispatchTypeOK, NEW d \in Dispatcher, NEW new, new = list_remove(Dispatchers, d)
  PROVE  new \in Seq(Dispatcher) /\ IsInjective(new) /\ Range(new) = Listed \ {d}
<1>1. Dispatchers \in Seq(Dispatcher) /\ Distinct(Dispatchers)
  BY Zenon DEF DispatchTypeOK, IsInjective, Distinct
<1>2. new \in Seq(Dispatcher) /\ Distinct(new) /\ Range(new) = Range(Dispatchers) \ {d}
  BY <1>1, RemoveFacts, Zenon
<1> QED
  BY <1>2, Zenon DEF IsInjective, Distinct, Listed

LEMMA RemoveKeeps ==
  ASSUME DInv, NEW d \in Dispatcher, exos_dispatcher_remove(d)
  PROVE  DInv'
<1>1. DispatchTypeOK /\ UsedOnly /\ WaitsForAll /\ MayChange(d)
  BY Zenon DEF DInv, exos_dispatcher_remove
<1>2. Dispatchers' \in Seq(Dispatcher) /\ IsInjective(Dispatchers') /\ Listed' = Listed \ {d}
  BY <1>1, RemovedFacts, Zenon DEF exos_dispatcher_remove, Listed
<1>3. /\ UNCHANGED <<EState, HasTimeout, pc, callVars>> /\ Running' = Running \ Used(d)
      /\ \A h \in Handle : HState'[h] = IF h \in Used(d) THEN "DETACHED" ELSE HState[h]
  BY Zenon DEF exos_dispatcher_remove
<1>4. DispatchTypeOK'
  <2>1. HState' \in [Handle -> {"DETACHED", "WAITING", "DONE"}] /\ Running' \subseteq TimerSet
    BY <1>1, Zenon DEF exos_dispatcher_remove, DispatchTypeOK
  <2>2. State' \in [Dispatcher -> {"CREATED", "WAITING", "IMMEDIATE", "DONE", "TIMEOUT", "REMOVED"}]
    BY <1>1, Zenon DEF exos_dispatcher_remove, DispatchTypeOK
  <2> QED
    BY <1>1, <1>2, <1>3, <2>1, <2>2, Zenon DEF DispatchTypeOK, callVars
<1>5. \A h \in Handle \ {WakeHandle, EventHandle(d), TimerHandle(d)} : HState'[h] = HState[h]
  BY <1>3, UsedFacts, Zenon
<1>6. HState'[WakeHandle] = HState[WakeHandle]
  BY <1>3, UsedFacts, HandleFacts, Zenon
<1>7. HState'[EventHandle(d)] = "DETACHED" /\ HState'[TimerHandle(d)] = "DETACHED" /\ TimerHandle(d) \notin Running'
  BY <1>1, <1>3, HandleFacts, Zenon DEF UsedOnly
<1> QED
  BY <1>1, <1>2, <1>3, <1>4, <1>5, <1>6, <1>7, ChangeKeeps, Zenon DEF WaitsForAll

LEMMA AddKeeps ==
  ASSUME DInv, NEW d \in Dispatcher, NEW timeout \in AddTimeout[d], exos_dispatcher_add(d, timeout)
  PROVE  DInv'
<1>1. DispatchTypeOK /\ UsedOnly /\ WaitsForAll /\ MayChange(d) /\ timeout \in BOOLEAN
  BY DispatchAssumption, Zenon DEF DInv, exos_dispatcher_add
<1>2. Dispatchers' \in Seq(Dispatcher) /\ IsInjective(Dispatchers') /\ Listed' = Listed \cup {d}
  <2>1. PICK rest : rest = list_remove(Dispatchers, d)
    BY Zenon
  <2>2. rest \in Seq(Dispatcher) /\ Distinct(rest) /\ Range(rest) = Listed \ {d}
    BY <1>1, <2>1, RemovedFacts, Zenon DEF IsInjective, Distinct
  <2>3. Dispatchers' = list_add_tail(rest, d)
    BY <2>1, Zenon DEF exos_dispatcher_add
  <2>4. Dispatchers' \in Seq(Dispatcher) /\ Range(Dispatchers') = Range(rest) \cup {d} /\ Distinct(Dispatchers')
    BY <2>2, <2>3, AddTailFacts
  <2> QED
    BY <2>2, <2>4, Zenon DEF IsInjective, Distinct, Listed
<1>3. /\ HasTimeout' = [HasTimeout EXCEPT ![d] = timeout] /\ UNCHANGED callVars
      /\ Running' = (Running \ Used(d)) \cup (IF timeout THEN {TimerHandle(d)} ELSE {})
      /\ \A h \in Handle : HState'[h] = IF h \in Used(d) THEN "DETACHED"
                             ELSE IF HState[h] = "WAITING" /\ Of(h) = WakeHandle THEN "DONE" ELSE HState[h]
  BY Zenon DEF exos_dispatcher_add, Resumed, Waiting
<1>4. pc' = pc \/ (pc = "asleep" /\ pc' = "woken")
  BY Zenon DEF exos_dispatcher_add, Wakes
<1>5. EState' \in [Signal -> BOOLEAN] /\ ~EState'[WakeHandle]
  BY <1>1, SignalFacts, Zenon DEF exos_dispatcher_add, DispatchTypeOK
<1>6. DispatchTypeOK'
  <2>1. HState' \in [Handle -> {"DETACHED", "WAITING", "DONE"}]
    BY <1>1, Zenon DEF exos_dispatcher_add, DispatchTypeOK, Resumed
  <2>2. State' \in [Dispatcher -> {"CREATED", "WAITING", "IMMEDIATE", "DONE", "TIMEOUT", "REMOVED"}]
    BY <1>1, Zenon DEF exos_dispatcher_add, DispatchTypeOK
  <2>3. HasTimeout' \in [Dispatcher -> BOOLEAN] /\ Running' \subseteq TimerSet
    BY <1>1, <1>3, SignalFacts, Zenon DEF DispatchTypeOK
  <2> QED
    BY <1>1, <1>2, <1>3, <1>4, <1>5, <2>1, <2>2, <2>3, Zenon DEF DispatchTypeOK, callVars
<1>7. \A h \in Handle \ {WakeHandle} : Of(h) # WakeHandle
  BY OfFacts, DistinctAssumption, DispatchAssumption, SignalFacts DEF Handle, TimerSet
<1>8. \A h \in Handle \ {WakeHandle, EventHandle(d), TimerHandle(d)} : HState'[h] = HState[h]
  BY <1>3, <1>7, UsedFacts, Zenon
<1>9. HState[WakeHandle] = "DETACHED" => HState'[WakeHandle] = "DETACHED"
  BY <1>3, HandleFacts, Zenon
<1>10. \A x \in Dispatcher \ {d} : (x \in Listed' <=> x \in Listed) /\ HasTimeout'[x] = HasTimeout[x]
  BY <1>1, <1>2, <1>3, Zenon DEF DispatchTypeOK
<1>11. EventHandle(d) \notin Used(d)' => HState'[EventHandle(d)] = "DETACHED"
  <2>1. EventHandle(d) \notin Used(d)' => DEvent[d] = Nil
    BY <1>2, Zenon DEF Used
  <2>2. EventHandle(d) \in Used(d) \/ HState[EventHandle(d)] = "DETACHED"
    BY <1>1, Zenon DEF UsedOnly
  <2> QED
    BY <1>3, <2>2, HandleFacts, Zenon
<1>12. TimerHandle(d) \notin Used(d)' => HState'[TimerHandle(d)] = "DETACHED" /\ TimerHandle(d) \notin Running'
  <2>1. TimerHandle(d) \notin Used(d)' => ~timeout
    BY <1>1, <1>2, <1>3, Zenon DEF Used, DispatchTypeOK
  <2>2. TimerHandle(d) \in Used(d) \/ (HState[TimerHandle(d)] = "DETACHED" /\ TimerHandle(d) \notin Running)
    BY <1>1, Zenon DEF UsedOnly
  <2> QED
    BY <1>3, <2>1, <2>2, HandleFacts, Zenon
<1>13. \A x \in TimerSet \ {TimerHandle(d)} : x \in Running' => x \in Running
  BY <1>3, Zenon
<1> QED
  BY <1>1, <1>3, <1>4, <1>5, <1>6, <1>8, <1>9, <1>10, <1>11, <1>12, <1>13, ChangeKeeps, Zenon

----------------------------------------------------------------------------
(* exos_dispatch *)

\* exos_event_add_handle: no handle is given back, and an event that answers is
\* never WakeEvent.
LEMMA AddFacts ==
  ASSUME DispatchTypeOK, ~EState[WakeHandle], NEW h \in Handle, Of(h) \in Signal, Add(h)
  PROVE  /\ HState' \in [Handle -> {"DETACHED", "WAITING", "DONE"}] /\ EState' \in [Signal -> BOOLEAN]
         /\ \A x \in Handle : x # h => HState'[x] = HState[x]
         /\ \A x \in Handle : HState[x] # "DETACHED" => HState'[x] # "DETACHED"
         /\ ~Answers0(h) => HState'[h] # "DETACHED"
         /\ ~EState'[WakeHandle]
<1>1. CASE Answers0(h)
  <2>1. EState[Of(h)] /\ Of(h) # WakeHandle
    BY <1>1, Zenon DEF Answers0
  <2>2. HState' = HState
    BY <1>1, Zenon DEF Add
  <2>3. PICK b \in BOOLEAN : EState' = [EState EXCEPT ![Of(h)] = b]
    BY <1>1, Zenon DEF Add
  <2>4. EState' \in [Signal -> BOOLEAN] /\ EState'[WakeHandle] = EState[WakeHandle]
    BY <2>1, <2>3, SignalFacts, Zenon DEF DispatchTypeOK
  <2> QED
    BY <1>1, <2>2, <2>4, Zenon DEF DispatchTypeOK
<1>2. CASE ~Answers0(h)
  BY <1>2, Zenon DEF Add, DispatchTypeOK
<1> QED
  BY <1>1, <1>2, Zenon

\* The FOREACH goes on: to the dispatcher behind, or to the end of the list.
LEMMA SuccFacts ==
  ASSUME DispatchTypeOK, NEW i \in DOMAIN Dispatchers
  PROVE  IF i = Len(Dispatchers) THEN Succ(Dispatchers[i]) = Nil
         ELSE i + 1 \in DOMAIN Dispatchers /\ Succ(Dispatchers[i]) = Dispatchers[i + 1]
<1>1. (CHOOSE j \in DOMAIN Dispatchers : Dispatchers[j] = Dispatchers[i]) = i
  BY ListedFacts, Zenon
<1> QED
  BY <1>1, ListedFacts DEF Succ

LEMMA NextScanned ==
  ASSUME DispatchTypeOK, UNCHANGED Dispatchers, NEW c \in Listed, cursor' = Succ(c),
         \A i \in DOMAIN Dispatchers : Dispatchers[i] = c => \A j \in 1..(i - 1) : Armed(Dispatchers[j])',
         Armed(c)'
  PROVE  /\ cursor' \in Listed \cup {Nil}
         /\ cursor' = Nil => \A d \in Listed : Armed(d)'
         /\ \A i \in DOMAIN Dispatchers : Dispatchers[i] = cursor' => \A j \in 1..(i - 1) : Armed(Dispatchers[j])'
<1>1. PICK i \in DOMAIN Dispatchers : Dispatchers[i] = c
  BY ListedFacts, Zenon
<1>2. DOMAIN Dispatchers = 1..Len(Dispatchers) /\ Len(Dispatchers) \in Nat /\ i \in Nat
  BY ListedFacts
<1>3. \A j \in 1..i : Armed(Dispatchers[j])'
  <2>1. ASSUME NEW j \in 1..i PROVE Armed(Dispatchers[j])'
    <3>1. j = i \/ j \in 1..(i - 1)
      BY <1>2
    <3>2. CASE j = i
      <4>1. Dispatchers'[j] = c
        BY <1>1, <3>2, Zenon
      <4> QED
        BY <4>1, Zenon
    <3>3. CASE j \in 1..(i - 1)
      BY <1>1, <3>3, Zenon
    <3> QED
      BY <3>1, <3>2, <3>3, Zenon
  <2> QED
    BY <2>1, Zenon
<1>4. CASE i = Len(Dispatchers)
  <2>1. cursor' = Nil
    BY <1>1, <1>4, SuccFacts, Zenon
  <2>2. \A d \in Listed : Armed(d)'
    BY <1>2, <1>3, <1>4, ListedFacts
  <2>3. Nil \notin Listed
    BY ListedFacts, DispatchAssumption, Zenon
  <2> QED
    BY <2>1, <2>2, <2>3, ListedFacts
<1>5. CASE i # Len(Dispatchers)
  <2>1. i + 1 \in DOMAIN Dispatchers /\ cursor' = Dispatchers[i + 1]
    BY <1>1, <1>5, SuccFacts, Zenon
  <2>2. cursor' \in Listed /\ cursor' # Nil
    BY <2>1, ListedFacts, DispatchAssumption
  <2>3. \A m \in DOMAIN Dispatchers : Dispatchers[m] = cursor' => m = i + 1
    BY <2>1, ListedFacts, Zenon
  <2>4. 1..((i + 1) - 1) = 1..i
    BY <1>2
  <2> QED
    BY <1>3, <2>2, <2>3, <2>4, Zenon
<1> QED
  BY <1>4, <1>5, Zenon

\* A dispatcher on the list gets the handle of its event or of its timer.
LEMMA HandleGiven ==
  ASSUME DInv, NEW c \in Listed, NEW h \in Used(c), Add(h), Of(h) \in Signal,
         UNCHANGED <<Running, Dispatchers, HasTimeout>>, mask \subseteq mask',
         pc \in {"scan", "scantimer"}, pc' \in {"scan", "scantimer", "select"}
  PROVE  /\ HState' \in [Handle -> {"DETACHED", "WAITING", "DONE"}] /\ EState' \in [Signal -> BOOLEAN]
         /\ UsedOnly' /\ StackClean' /\ ~EState'[WakeHandle] /\ Listed' = Listed
         /\ \A d \in Dispatcher : Used(d)' = Used(d) /\ (Armed(d) => Armed(d)')
         /\ \A x \in Handle : HState[x] # "DETACHED" => HState'[x] # "DETACHED"
         /\ ~Answers0(h) => HState'[h] # "DETACHED"
<1>1. DispatchTypeOK /\ UsedOnly /\ StackClean /\ ~EState[WakeHandle] /\ c \in Dispatcher
  BY ListedFacts, Zenon DEF DInv, WaitsForAll
<1>2. h \in Handle /\ h \in {EventHandle(c), TimerHandle(c)} /\ h # WakeHandle /\ h # TimeoutHandle
  BY <1>1, UsedFacts, Zenon
<1>3. /\ HState' \in [Handle -> {"DETACHED", "WAITING", "DONE"}] /\ EState' \in [Signal -> BOOLEAN]
      /\ \A x \in Handle : x # h => HState'[x] = HState[x]
      /\ \A x \in Handle : HState[x] # "DETACHED" => HState'[x] # "DETACHED"
      /\ ~Answers0(h) => HState'[h] # "DETACHED"
      /\ ~EState'[WakeHandle]
  BY <1>1, <1>2, AddFacts, Zenon
<1>4. Listed' = Listed /\ \A d \in Dispatcher : Used(d)' = Used(d) /\ (Armed(d) => Armed(d)')
  BY <1>3, StillArmed, Zenon
<1>5. UsedOnly'
  <2>1. ASSUME NEW d \in Dispatcher
        PROVE  /\ EventHandle(d) \notin Used(d)' => HState'[EventHandle(d)] = "DETACHED"
               /\ TimerHandle(d) \notin Used(d)' => HState'[TimerHandle(d)] = "DETACHED" /\ TimerHandle(d) \notin Running'
    <3>1. (EventHandle(d) = h => EventHandle(d) \in Used(d)) /\ (TimerHandle(d) = h => TimerHandle(d) \in Used(d))
      BY <1>1, <1>2, HandleFacts, Zenon
    <3> QED
      BY <1>1, <1>3, <1>4, <3>1, HandleFacts, Zenon DEF UsedOnly
  <2> QED
    BY <2>1, Zenon DEF UsedOnly
<1>6. StackClean'
  BY <1>1, <1>2, <1>3, HandleFacts, Zenon DEF StackClean
<1> QED
  BY <1>3, <1>4, <1>5, <1>6, Zenon

LEMMA ScanKeeps == ASSUME DInv, Scan PROVE DInv'
<1>1. DispatchTypeOK /\ UsedOnly /\ StackClean /\ CursorListed /\ ScanArmed /\ WaitsForAll /\ Listed \subseteq Dispatcher
  BY ListedFacts, Zenon DEF DInv
<1>2. pc = "scan" /\ UNCHANGED <<Dispatchers, HasTimeout, Running, cursor, timed>> /\ cursor \in Listed \cup {Nil}
  BY <1>1, Zenon DEF Scan, CursorListed, objVars, callVars
<1>3. CASE UNCHANGED <<objVars, State, callVars>> /\ (IF cursor = Nil THEN pc' = "wake" ELSE DEvent[cursor] = Nil /\ pc' = "scantimer")
  <2>1. UNCHANGED <<EState, HState, State, mask, selected>>
    BY <1>3, Zenon DEF objVars, callVars
  <2>2. Listed' = Listed /\ \A d : Used(d)' = Used(d) /\ Armed(d)' = Armed(d)
    BY <1>2, <2>1, Zenon DEF Listed, Used, Armed
  <2>3. DispatchTypeOK' /\ UsedOnly' /\ StackClean' /\ CursorListed'
    BY <1>1, <1>2, <1>3, <2>1, <2>2, Zenon DEF DispatchTypeOK, UsedOnly, StackClean, CursorListed
  <2>4. ScanArmed'
    BY <1>1, <1>2, <1>3, <2>1, <2>2, Zenon DEF ScanArmed
  <2>5. WaitsForAll'
    BY <1>1, <1>2, <1>3, <2>1, <2>2, Zenon DEF ScanArmed, WaitsForAll
  <2> QED
    BY <2>3, <2>4, <2>5, Zenon DEF DInv
<1>4. CASE cursor # Nil /\ DEvent[cursor] # Nil
  <2>1. PICK h : h = EventHandle(cursor)
    BY Zenon
  <2>2. cursor \in Listed /\ cursor \in Dispatcher /\ h \in Used(cursor) /\ Of(h) \in Signal /\ Add(h)
    BY <1>1, <1>2, <1>4, <2>1, UsedFacts, OfFacts, SignalFacts, SMTT(40) DEF Scan
  <2>3. \/ /\ Answers0(h) /\ State' = [State EXCEPT ![cursor] = "DONE"]
           /\ selected' = cursor /\ pc' = "select" /\ UNCHANGED mask
        \/ /\ ~Answers0(h) /\ mask' = mask \cup {h} /\ pc' = "scantimer" /\ UNCHANGED <<State, selected>>
    BY <1>2, <1>4, <2>1, Zenon DEF Scan
  <2>4. mask \subseteq mask' /\ pc' \in {"scantimer", "select"}
    BY <2>3, Zenon
  <2>5. /\ HState' \in [Handle -> {"DETACHED", "WAITING", "DONE"}] /\ EState' \in [Signal -> BOOLEAN]
        /\ UsedOnly' /\ StackClean' /\ ~EState'[WakeHandle] /\ Listed' = Listed
        /\ \A d \in Dispatcher : Used(d)' = Used(d) /\ (Armed(d) => Armed(d)')
        /\ ~Answers0(h) => HState'[h] # "DETACHED"
    BY <1>2, <2>2, <2>4, HandleGiven, Zenon
  <2>6. DispatchTypeOK'
    <3>1. State' \in [Dispatcher -> {"CREATED", "WAITING", "IMMEDIATE", "DONE", "TIMEOUT", "REMOVED"}]
      BY <1>1, <2>3, Zenon DEF DispatchTypeOK
    <3>2. selected' \in Dispatcher \cup {Nil} /\ mask' \subseteq Handle
      BY <1>1, <2>2, <2>3, UsedFacts, Zenon DEF DispatchTypeOK
    <3> QED
      BY <1>1, <1>2, <2>4, <2>5, <3>1, <3>2, Zenon DEF DispatchTypeOK
  <2>7. CursorListed'
    BY <1>2, <2>2, <2>3, <2>5, Zenon DEF CursorListed
  <2>8. ScanArmed'
    <3>1. \A i \in DOMAIN Dispatchers : Dispatchers[i] = cursor => \A j \in 1..(i - 1) : Armed(Dispatchers[j])
      BY <1>1, <1>2, Zenon DEF ScanArmed
    <3>2. \A i \in DOMAIN Dispatchers : \A j \in 1..(i - 1) : Dispatchers[j] \in Dispatcher
      BY <1>1, ListedFacts
    <3> QED
      BY <1>2, <2>1, <2>3, <2>5, <3>1, <3>2, Zenon DEF ScanArmed
  <2>9. WaitsForAll'
    BY <2>4, <2>5, Zenon DEF WaitsForAll
  <2> QED
    BY <2>5, <2>6, <2>7, <2>8, <2>9, Zenon DEF DInv
<1> QED
  BY <1>3, <1>4, Zenon DEF Scan

LEMMA ScanTimerKeeps == ASSUME DInv, ScanTimer PROVE DInv'
<1>1. DispatchTypeOK /\ UsedOnly /\ StackClean /\ CursorListed /\ ScanArmed /\ WaitsForAll /\ Listed \subseteq Dispatcher
  BY ListedFacts, Zenon DEF DInv
<1>2. pc = "scantimer" /\ UNCHANGED <<Running, Dispatchers, HasTimeout, timed>> /\ cursor \in Listed /\ cursor \in Dispatcher
  BY <1>1, Zenon DEF ScanTimer, CursorListed
<1>3. PICK c : c = cursor
  BY Zenon
<1>4. \A i \in DOMAIN Dispatchers : Dispatchers[i] = c => \A j \in 1..(i - 1) : Armed(Dispatchers[j]) /\ Dispatchers[j] \in Dispatcher
  BY <1>1, <1>2, <1>3, ListedFacts DEF ScanArmed
<1>5. \/ HasTimeout[c] /\ Add(TimerHandle(c))
      \/ ~HasTimeout[c] /\ UNCHANGED <<EState, HState, mask>>
  BY <1>2, <1>3, Zenon DEF ScanTimer
<1>6. mask \subseteq mask' /\ mask' \subseteq mask \cup {TimerHandle(c)} /\ pc' \in {"scan", "select"}
  BY <1>2, <1>3, Zenon DEF ScanTimer
<1>7. /\ HState' \in [Handle -> {"DETACHED", "WAITING", "DONE"}] /\ EState' \in [Signal -> BOOLEAN]
      /\ UsedOnly' /\ StackClean' /\ ~EState'[WakeHandle] /\ Listed' = Listed
      /\ \A d \in Dispatcher : Used(d)' = Used(d) /\ (Armed(d) => Armed(d)')
      /\ \A x \in Handle : HState[x] # "DETACHED" => HState'[x] # "DETACHED"
      /\ HasTimeout[c] /\ ~Answers0(TimerHandle(c)) => HState'[TimerHandle(c)] # "DETACHED"
  <2>1. CASE HasTimeout[c] /\ Add(TimerHandle(c))
    <3>1. TimerHandle(c) \in Used(c) /\ Of(TimerHandle(c)) \in Signal
      BY <1>2, <1>3, <2>1, UsedFacts, OfFacts, SignalFacts
    <3> QED
      BY <1>2, <1>3, <1>6, <2>1, <3>1, HandleGiven, Zenon
  <2>2. CASE ~HasTimeout[c] /\ UNCHANGED <<EState, HState, mask>>
    <3>1. Listed' = Listed /\ \A d \in Dispatcher : Used(d)' = Used(d) /\ (Armed(d) => Armed(d)')
      BY <1>2, <2>2, Zenon DEF Listed, Used, Armed
    <3> QED
      BY <1>1, <1>2, <1>6, <2>2, <3>1, Zenon DEF DispatchTypeOK, UsedOnly, StackClean, WaitsForAll
  <2> QED
    BY <1>5, <2>1, <2>2, Zenon
<1>8. \/ pc' = "select" /\ selected' = c /\ \E x \in {"TIMEOUT", "IMMEDIATE"} : State' = [State EXCEPT ![c] = x]
      \/ pc' = "scan" /\ UNCHANGED <<State, selected>> /\ cursor' = Succ(c)
  BY <1>2, <1>3, Zenon DEF ScanTimer
<1>9. pc' = "scan" => Armed(c)'
  <2>1. SUFFICES ASSUME pc' = "scan", c \notin Client PROVE \A h \in Used(c) : h \in mask' /\ HState'[h] # "DETACHED"
    BY <1>2, <1>3, <1>7, Zenon DEF Armed
  <2>2. Used(c) \subseteq {EventHandle(c), TimerHandle(c)} /\ EventHandle(c) \in Handle
    BY <1>2, <1>3, UsedFacts, HandleFacts, Zenon
  <2>3. EventHandle(c) \in Used(c) => EventHandle(c) \in mask' /\ HState'[EventHandle(c)] # "DETACHED"
    <3>1. EventHandle(c) \in Used(c) => DEvent[c] # Nil
      BY <1>2, <1>3, UsedFacts, Zenon
    <3> QED
      BY <1>1, <1>2, <1>3, <1>6, <1>7, <2>1, <2>2, <3>1, Zenon DEF ScanArmed
  <2>4. TimerHandle(c) \in Used(c) => TimerHandle(c) \in mask' /\ HState'[TimerHandle(c)] # "DETACHED"
    <3>1. TimerHandle(c) \in Used(c) => HasTimeout[c]
      BY <1>2, <1>3, UsedFacts, Zenon
    <3>2. HasTimeout[c] => ~Answers0(TimerHandle(c)) /\ mask' = mask \cup {TimerHandle(c)}
      BY <1>2, <1>3, <2>1, Zenon DEF ScanTimer
    <3> QED
      BY <1>7, <3>1, <3>2, Zenon
  <2> QED
    BY <2>2, <2>3, <2>4, Zenon
<1>10. pc' = "scan" => /\ cursor' \in Listed \cup {Nil}
                       /\ cursor' = Nil => \A d \in Listed : Armed(d)'
                       /\ \A i \in DOMAIN Dispatchers : Dispatchers[i] = cursor' => \A j \in 1..(i - 1) : Armed(Dispatchers[j])'
  <2>1. \A i \in DOMAIN Dispatchers : Dispatchers[i] = c => \A j \in 1..(i - 1) : Armed(Dispatchers[j])'
    BY <1>2, <1>4, <1>7, Zenon
  <2> QED
    BY <1>1, <1>2, <1>3, <1>8, <1>9, <2>1, NextScanned, Zenon
<1>11. DispatchTypeOK'
  <2>1. State' \in [Dispatcher -> {"CREATED", "WAITING", "IMMEDIATE", "DONE", "TIMEOUT", "REMOVED"}]
    BY <1>1, <1>8, Zenon DEF DispatchTypeOK
  <2>2. selected' \in Dispatcher \cup {Nil} /\ mask' \subseteq Handle
    BY <1>1, <1>2, <1>3, <1>6, <1>8, HandleFacts, Zenon DEF DispatchTypeOK
  <2>3. cursor' \in Dispatcher \cup {Nil}
    <3>1. pc' = "select" => cursor' = cursor
      BY <1>2, Zenon DEF ScanTimer
    <3> QED
      BY <1>1, <1>2, <1>6, <1>10, <3>1, Zenon
  <2> QED
    BY <1>1, <1>2, <1>6, <1>7, <2>1, <2>2, <2>3, Zenon DEF DispatchTypeOK
<1>12. CursorListed'
  BY <1>2, <1>3, <1>6, <1>7, <1>8, <1>10, Zenon DEF CursorListed
<1>13. ScanArmed'
  BY <1>2, <1>6, <1>7, <1>10, Zenon DEF ScanArmed
<1>14. WaitsForAll'
  BY <1>6, <1>7, Zenon DEF WaitsForAll
<1> QED
  BY <1>7, <1>11, <1>12, <1>13, <1>14, Zenon DEF DInv

\* _remove of the dispatcher that is to be called back.
LEMMA SelectKeeps == ASSUME DInv, Select PROVE DInv'
<1>1. DispatchTypeOK /\ UsedOnly /\ StackClean /\ WaitsForAll
  BY Zenon DEF DInv
<1>2. PICK d \in Dispatcher : d = selected /\ d \in Listed
  BY <1>1, ListedFacts, Zenon DEF DInv, CursorListed, Select
<1>3. Dispatchers' \in Seq(Dispatcher) /\ IsInjective(Dispatchers') /\ Listed' = Listed \ {d}
  BY <1>1, <1>2, RemovedFacts, Zenon DEF Select, Listed
<1>4. /\ pc = "select" /\ pc' = "callback" /\ UNCHANGED <<EState, State, HasTimeout, cursor, mask, selected, timed>>
      /\ Running' = Running \ Used(d)
      /\ \A h \in Handle : HState'[h] = IF h \in Used(d) THEN "DETACHED" ELSE HState[h]
  BY <1>2, Zenon DEF Select, callVars
<1>5. DispatchTypeOK'
  <2>1. HState' \in [Handle -> {"DETACHED", "WAITING", "DONE"}] /\ Running' \subseteq TimerSet
    BY <1>1, Zenon DEF Select, DispatchTypeOK
  <2> QED
    BY <1>1, <1>3, <1>4, <2>1, Zenon DEF DispatchTypeOK
<1>6. UsedOnly'
  <2>1. ASSUME NEW x \in Dispatcher
        PROVE  /\ EventHandle(x) \notin Used(x)' => HState'[EventHandle(x)] = "DETACHED"
               /\ TimerHandle(x) \notin Used(x)' => HState'[TimerHandle(x)] = "DETACHED" /\ TimerHandle(x) \notin Running'
    <3>1. x # d => Used(x)' = Used(x)
      BY <1>3, <1>4, Zenon DEF Used
    <3>2. /\ EventHandle(x) \notin Used(x) => HState[EventHandle(x)] = "DETACHED"
          /\ TimerHandle(x) \notin Used(x) => HState[TimerHandle(x)] = "DETACHED" /\ TimerHandle(x) \notin Running
      BY <1>1, Zenon DEF UsedOnly
    <3>3. CASE x = d
      BY <1>4, <3>2, <3>3, HandleFacts, Zenon
    <3>4. CASE x # d
      BY <1>4, <3>1, <3>2, <3>4, HandleFacts, Zenon
    <3> QED
      BY <3>3, <3>4, Zenon
  <2> QED
    BY <2>1, Zenon DEF UsedOnly
<1>7. StackClean'
  BY <1>1, <1>4, HandleFacts, UsedFacts, Zenon DEF StackClean
<1>8. CursorListed' /\ ScanArmed' /\ WaitsForAll'
  BY <1>1, <1>4, Zenon DEF CursorListed, ScanArmed, WaitsForAll
<1> QED
  BY <1>5, <1>6, <1>7, <1>8, Zenon DEF DInv

\* The handles of WakeEvent and of the timer on the stack.
LEMMA StackHandleGiven ==
  ASSUME DInv, NEW h \in {WakeHandle, TimeoutHandle}, Add(h),
         mask' = IF Answers0(h) THEN mask ELSE mask \cup {h},
         UNCHANGED <<Running, listVars, cursor, selected, timed>>,
         pc \in {"wake", "tadd"}, pc = "wake" => h = WakeHandle, pc' \in {"timer", "wait"}
  PROVE  DInv'
<1>1. DispatchTypeOK /\ UsedOnly /\ StackClean /\ WaitsForAll /\ ~EState[WakeHandle]
  BY Zenon DEF DInv, WaitsForAll
<1>2. UNCHANGED <<Dispatchers, State, HasTimeout>> /\ h \in Handle /\ Of(h) \in Signal
  BY HandleFacts, OfFacts, SignalFacts, Zenon DEF listVars
<1>3. /\ HState' \in [Handle -> {"DETACHED", "WAITING", "DONE"}] /\ EState' \in [Signal -> BOOLEAN]
      /\ \A x \in Handle : x # h => HState'[x] = HState[x]
      /\ \A x \in Handle : HState[x] # "DETACHED" => HState'[x] # "DETACHED"
      /\ ~EState'[WakeHandle]
  BY <1>1, <1>2, AddFacts, Zenon
<1>4. mask \subseteq mask' /\ mask' \subseteq Handle
  BY <1>1, <1>2, Zenon DEF DispatchTypeOK
<1>5. Listed' = Listed /\ \A d \in Dispatcher : Used(d)' = Used(d) /\ (Armed(d) => Armed(d)')
  BY <1>2, <1>3, <1>4, StillArmed, Zenon
<1>6. DispatchTypeOK'
  BY <1>1, <1>2, <1>3, <1>4, Zenon DEF DispatchTypeOK
<1>7. UsedOnly'
  BY <1>1, <1>3, <1>5, HandleFacts, Zenon DEF UsedOnly
<1>8. StackClean' /\ CursorListed' /\ ScanArmed'
  BY Zenon DEF StackClean, CursorListed, ScanArmed
<1>9. WaitsForAll'
  <2>1. WakeHandle \in mask'
    BY <1>1, <1>4, OfFacts DEF WaitsForAll, Answers0
  <2> QED
    BY <1>1, <1>3, <1>5, <2>1, ListedFacts, Zenon DEF WaitsForAll
<1> QED
  BY <1>6, <1>7, <1>8, <1>9, Zenon DEF DInv

LEMMA TimerCreateKeeps == ASSUME DInv, TimerCreate PROVE DInv'
<1>1. DispatchTypeOK /\ UsedOnly /\ WaitsForAll
  BY Zenon DEF DInv
<1>2. /\ pc = "timer" /\ pc' = "tadd" /\ Running' = Running \cup {TimeoutHandle}
      /\ EState' = [EState EXCEPT ![TimeoutHandle] = FALSE]
      /\ UNCHANGED <<HState, Dispatchers, State, HasTimeout, cursor, mask, selected, timed>>
  BY Zenon DEF TimerCreate, listVars, callVars
<1>3. EState' \in [Signal -> BOOLEAN] /\ ~EState'[WakeHandle]
  BY <1>1, <1>2, HandleFacts, SignalFacts, Zenon DEF WaitsForAll, DispatchTypeOK
<1>4. Listed' = Listed /\ \A d \in Dispatcher : Used(d)' = Used(d) /\ (Armed(d) => Armed(d)')
  BY <1>2, StillArmed, Zenon
<1>5. DispatchTypeOK'
  BY <1>1, <1>2, <1>3, SignalFacts, Zenon DEF DispatchTypeOK
<1>6. UsedOnly'
  BY <1>1, <1>2, <1>4, HandleFacts, Zenon DEF UsedOnly
<1>7. StackClean' /\ CursorListed' /\ ScanArmed' /\ WaitsForAll'
  BY <1>1, <1>2, <1>3, <1>4, ListedFacts, Zenon DEF StackClean, CursorListed, ScanArmed, WaitsForAll
<1> QED
  BY <1>5, <1>6, <1>7, Zenon DEF DInv

\* exos_thread_wait: the loop sleeps when no handle in its mask is done.
LEMMA WaitKeeps == ASSUME DInv, Wait PROVE DInv'
<1>1. DispatchTypeOK /\ UsedOnly /\ WaitsForAll
  BY Zenon DEF DInv
<1>2. /\ pc = "wait" /\ pc' = IF \E h \in mask : HState[h] = "DONE" THEN "woken" ELSE "asleep"
      /\ UNCHANGED <<EState, HState, Running, Dispatchers, State, HasTimeout, cursor, mask, selected, timed>>
  BY Zenon DEF Wait, objVars, listVars, callVars
<1>3. Listed' = Listed /\ \A d \in Dispatcher : Used(d)' = Used(d) /\ (Armed(d) => Armed(d)')
  BY <1>2, StillArmed, Zenon
<1>4. DispatchTypeOK' /\ UsedOnly' /\ StackClean' /\ CursorListed' /\ ScanArmed'
  BY <1>1, <1>2, <1>3, Zenon DEF DispatchTypeOK, UsedOnly, StackClean, CursorListed, ScanArmed
<1>5. WaitsForAll'
  <2>1. ASSUME pc' = "asleep", NEW d \in Listed \ Client, NEW h \in Used(d) PROVE HState[h] = "WAITING"
    <3>1. d \in Dispatcher /\ Armed(d)
      BY <1>1, <1>2, ListedFacts, Zenon DEF WaitsForAll
    <3>2. h \in Handle /\ h \in mask /\ HState[h] # "DETACHED"
      BY <2>1, <3>1, UsedFacts, Zenon DEF Armed
    <3> QED
      BY <1>1, <1>2, <2>1, <3>2, Zenon DEF DispatchTypeOK
  <2> QED
    BY <1>1, <1>2, <1>3, <2>1, ListedFacts DEF WaitsForAll
<1> QED
  BY <1>4, <1>5, Zenon DEF DInv

LEMMA FirstFacts ==
  ASSUME DispatchTypeOK
  PROVE  /\ First \in Listed \cup {Nil} /\ (First = Nil => Listed = {})
         /\ \A i \in DOMAIN Dispatchers : Dispatchers[i] = First => i = 1
<1>1. CASE Dispatchers = <<>>
  BY <1>1 DEF First, Listed, Range
<1>2. CASE Dispatchers # <<>>
  <2>1. 1 \in DOMAIN Dispatchers /\ First = Dispatchers[1]
    BY <1>2 DEF First, DispatchTypeOK
  <2>2. First \in Listed /\ First # Nil
    BY <2>1, ListedFacts, DispatchAssumption, SMTT(40)
  <2> QED
    BY <2>1, <2>2, ListedFacts, Zenon
<1> QED
  BY <1>1, <1>2, Zenon

LEMMA WokenKeeps == ASSUME DInv, Woken PROVE DInv'
<1>1. DispatchTypeOK /\ UsedOnly /\ WaitsForAll
  BY Zenon DEF DInv
<1>2. /\ pc = "woken" /\ pc' = "again" /\ cursor' = First /\ Running' = Running \ {TimeoutHandle}
      /\ HState' = [HState EXCEPT ![WakeHandle] = "DETACHED", ![TimeoutHandle] = "DETACHED"]
      /\ UNCHANGED <<EState, Dispatchers, State, HasTimeout, mask, selected, timed>>
  BY Zenon DEF Woken, listVars
<1>3. /\ HState' \in [Handle -> {"DETACHED", "WAITING", "DONE"}]
      /\ HState'[WakeHandle] = "DETACHED" /\ HState'[TimeoutHandle] = "DETACHED"
      /\ \A h \in Handle \ {WakeHandle, TimeoutHandle} : HState'[h] = HState[h]
  BY <1>1, <1>2, HandleFacts, Zenon DEF DispatchTypeOK
<1>4. Listed' = Listed /\ \A d \in Dispatcher : Used(d)' = Used(d)
  BY <1>2, Zenon DEF Listed, Used
<1>5. First \in Listed \cup {Nil} /\ Listed \subseteq Dispatcher
  BY <1>1, FirstFacts, ListedFacts, Zenon
<1>6. DispatchTypeOK'
  BY <1>1, <1>2, <1>3, <1>5, Zenon DEF DispatchTypeOK
<1>7. UsedOnly'
  BY <1>1, <1>2, <1>3, <1>4, HandleFacts DEF UsedOnly
<1>8. StackClean' /\ CursorListed' /\ ScanArmed' /\ WaitsForAll'
  BY <1>1, <1>2, <1>3, <1>4, <1>5, Zenon DEF StackClean, CursorListed, ScanArmed, WaitsForAll
<1> QED
  BY <1>6, <1>7, <1>8, Zenon DEF DInv

\* The steps that touch no object and do not wait.
LEMMA CallKeeps ==
  ASSUME DInv, \/ \E timeout \in Timeout : exos_dispatch(timeout)
               \/ Again \/ Callback \/ UNCHANGED vars
  PROVE  DInv'
<1>1. DispatchTypeOK /\ UsedOnly /\ StackClean /\ CursorListed /\ ScanArmed /\ WaitsForAll /\ Listed \subseteq Dispatcher
  BY ListedFacts, Zenon DEF DInv
<1>2. UNCHANGED <<EState, HState, Running, Dispatchers, HasTimeout>>
  BY Zenon DEF exos_dispatch, Again, Callback, vars, objVars, listVars
<1>3. Listed' = Listed /\ \A d : Used(d)' = Used(d)
  BY <1>2, Zenon DEF Listed, Used
<1>4. UsedOnly'
  BY <1>1, <1>2, <1>3, Zenon DEF UsedOnly
<1>5. ASSUME NEW timeout \in Timeout, exos_dispatch(timeout) PROVE DInv'
  <2>1. /\ pc = "user" /\ pc' = "scan" /\ cursor' = First /\ mask' = {} /\ selected' = Nil /\ timed' = timeout /\ State' = State
    BY <1>5, Zenon DEF exos_dispatch, listVars
  <2>2. /\ First \in Listed \cup {Nil} /\ (First = Nil => Listed = {})
        /\ \A i \in DOMAIN Dispatchers : Dispatchers[i] = First => i = 1
    BY <1>1, FirstFacts, Zenon
  <2>3. DispatchTypeOK' /\ StackClean' /\ CursorListed' /\ WaitsForAll'
    BY <1>1, <1>2, <1>3, <2>1, <2>2, DispatchAssumption, Zenon DEF DispatchTypeOK, StackClean, CursorListed, WaitsForAll
  <2>4. ScanArmed'
    BY <1>2, <1>3, <2>1, <2>2 DEF ScanArmed
  <2> QED
    BY <1>4, <2>3, <2>4, Zenon DEF DInv
<1>6. CASE Again
  <2>1. pc = "again" /\ pc' \in {"again", "user", "select"} /\ UNCHANGED <<mask, timed>>
    BY <1>6, Zenon DEF Again
  <2>2. pc' = "again" => cursor \in Listed /\ cursor' = Succ(cursor) /\ UNCHANGED <<State, selected>>
    BY <1>1, <1>6, Zenon DEF Again, CursorListed
  <2>3. cursor \in Listed => Succ(cursor) \in Listed \cup {Nil}
    BY <1>1, SuccFacts, ListedFacts
  <2>4. pc' = "select" => cursor \in Listed /\ selected' = cursor /\ UNCHANGED cursor /\ \E x \in {"DONE", "TIMEOUT"} : State' = [State EXCEPT ![cursor] = x]
    BY <1>1, <1>6, Zenon DEF Again, CursorListed
  <2>5. pc' = "user" => UNCHANGED <<State, selected, cursor>>
    BY <1>6, Zenon DEF Again
  <2>6. State' \in [Dispatcher -> {"CREATED", "WAITING", "IMMEDIATE", "DONE", "TIMEOUT", "REMOVED"}]
    BY <1>1, <2>1, <2>2, <2>4, <2>5, Zenon DEF DispatchTypeOK
  <2>7. DispatchTypeOK'
    BY <1>1, <1>2, <2>1, <2>2, <2>3, <2>4, <2>5, <2>6, Zenon DEF DispatchTypeOK
  <2>8. StackClean' /\ CursorListed' /\ ScanArmed' /\ WaitsForAll'
    BY <1>1, <1>2, <1>3, <2>1, <2>2, <2>3, <2>4, Zenon DEF StackClean, CursorListed, ScanArmed, WaitsForAll
  <2> QED
    BY <1>4, <2>7, <2>8, Zenon DEF DInv
<1>7. CASE Callback
  <2>1. pc = "callback" /\ pc' = "user" /\ cursor' = Nil /\ mask' = {} /\ selected' = Nil /\ UNCHANGED <<State, timed>>
    BY <1>7, Zenon DEF Callback, listVars
  <2>2. DispatchTypeOK' /\ StackClean' /\ CursorListed' /\ ScanArmed' /\ WaitsForAll'
    BY <1>1, <1>2, <2>1, Zenon DEF DispatchTypeOK, StackClean, CursorListed, ScanArmed, WaitsForAll
  <2> QED
    BY <1>4, <2>2, Zenon DEF DInv
<1>8. CASE UNCHANGED vars
  <2>1. UNCHANGED <<pc, cursor, mask, selected, timed, State>>
    BY <1>8, Zenon DEF vars, listVars, callVars
  <2>2. \A d : Armed(d)' = Armed(d)
    BY <1>2, <1>3, <2>1, Zenon DEF Armed
  <2>3. DispatchTypeOK' /\ StackClean' /\ CursorListed'
    BY <1>1, <1>2, <1>3, <2>1, Zenon DEF DispatchTypeOK, StackClean, CursorListed
  <2>4. ScanArmed' /\ WaitsForAll'
    BY <1>1, <1>2, <1>3, <2>1, <2>2, Zenon DEF ScanArmed, WaitsForAll
  <2> QED
    BY <1>4, <2>3, <2>4, Zenon DEF DInv
<1> QED
  BY <1>5, <1>6, <1>7, <1>8, Zenon

----------------------------------------------------------------------------
(* Theorems *)

LEMMA DispatchInitInv == DispatchInit => DInv
<1> SUFFICES ASSUME DispatchInit PROVE DInv
  BY Zenon
<1>1. Dispatchers = <<>> /\ Listed = {} /\ pc = "user" /\ \A d : Used(d) = {}
  BY DEF DispatchInit, Listed, Range, Used
<1>2. DispatchTypeOK
  <2>1. <<>> \in Seq(Dispatcher) /\ IsInjective(<<>>)
    BY DEF IsInjective
  <2> QED
    BY <1>1, <2>1, Zenon DEF DispatchInit, DispatchTypeOK
<1>3. UsedOnly /\ StackClean
  BY HandleFacts, Zenon DEF DispatchInit, UsedOnly, StackClean
<1>4. CursorListed /\ ScanArmed /\ WaitsForAll
  BY <1>1, SignalFacts, Zenon DEF DispatchInit, CursorListed, ScanArmed, WaitsForAll
<1> QED
  BY <1>2, <1>3, <1>4, Zenon DEF DInv

LEMMA DispatchNextKeeps == DInv /\ [Next]_vars => DInv'
<1> SUFFICES ASSUME DInv, [Next]_vars PROVE DInv'
  BY Zenon
<1>1. ASSUME NEW e \in Event, InterruptSets(e) PROVE DInv'
  BY <1>1, SetEventKeeps, SignalFacts, Zenon DEF InterruptSets
<1>2. ASSUME NEW x \in TimerSet, Expire(x) PROVE DInv'
  BY <1>2, SetEventKeeps, SignalFacts, Zenon DEF Expire
<1>3. CASE WakeAdd
  BY <1>3, StackHandleGiven, Zenon DEF WakeAdd
<1>4. CASE TimerAdd
  BY <1>4, StackHandleGiven, Zenon DEF TimerAdd
<1> QED
  BY <1>1, <1>2, <1>3, <1>4, AddKeeps, RemoveKeeps, ScanKeeps, ScanTimerKeeps, SelectKeeps,
     TimerCreateKeeps, WaitKeeps, WokenKeeps, CallKeeps, Zenon DEF Next, Loop

\* The inductive invariant holds in every behaviour of a loop that calls
\* exos_dispatch while others call exos_dispatcher_add and _remove and events
\* and timers come at any moment.
THEOREM DispatchInvariant == Spec => []DInv
<1>1. DispatchInit => DInv
  BY DispatchInitInv, Zenon
<1>2. DInv /\ [Next]_vars => DInv'
  BY DispatchNextKeeps, Zenon
<1> QED
  BY <1>1, <1>2, PTL DEF Spec

LEMMA DInvDangles == DInv => NothingDangles
<1> SUFFICES ASSUME DInv PROVE NothingDangles
  BY Zenon
<1>1. DispatchTypeOK /\ UsedOnly /\ StackClean
  BY Zenon DEF DInv
<1>2. \A d \in Dispatcher \ Listed : Used(d) = {}
  BY Zenon DEF Used
<1> QED
  BY <1>1, <1>2, Zenon DEF UsedOnly, StackClean, NothingDangles

LEMMA DInvSleeps == DInv => SleepsOnAll
<1> SUFFICES ASSUME DInv PROVE SleepsOnAll
  BY Zenon
<1>1. WaitsForAll
  BY Zenon DEF DInv
<1> QED
  BY <1>1, Zenon DEF WaitsForAll, SleepsOnAll, Armed

\* Whoever adds and removes dispatchers and whenever, one that is off the list has
\* no handle in use and no timer running, and exos_dispatch leaves none behind on
\* its stack.
THEOREM NoHandleDangles == Spec => []NothingDangles
BY DispatchInvariant, DInvDangles, PTL

\* exos_dispatch never sleeps past one of its own dispatchers: each on the list
\* has its handles in the mask the loop waits for, whatever was added and removed
\* before it slept.
THEOREM SleepsOnEverything == Spec => []SleepsOnAll
BY DispatchInvariant, DInvSleeps, PTL
=============================================================================

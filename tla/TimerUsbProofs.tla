--------------------------- MODULE TimerUsbProofs ---------------------------
(***************************************************************************)
(* Proofs about the timer list and, after it, about the USB host.  Neither *)
(* uses the other.                                                         *)
(***************************************************************************)
EXTENDS Timer, UsbHost, ListProofs, FiniteSetTheorems

----------------------------------------------------------------------------
(***************************************************************************)
(* Proofs about the timer list, for any number of timers, times, periods   *)
(* and creations of periodic timers.                                       *)
(*                                                                         *)
(* That a timer is never early, and late by at most one tick per periodic  *)
(* timer, is not inductive: it holds between ticks, and the walk must be   *)
(* accounted for.  A timer the walk has yet to visit owes it this tick.  A *)
(* periodic timer costs another one a tick when it is put behind it, and   *)
(* can do so only once, since it stays behind: the ticks a timer is late   *)
(* by and the periodic timers ahead of it are together at most those ever  *)
(* created.                                                                *)
(***************************************************************************)

\* x stands before y in a list.
Before(list, x, y) == \E i, j \in DOMAIN list : i < j /\ list[i] = x /\ list[j] = y

Periodic == {y \in Listed : Period[y] # 0}
Ahead(x) == {y \in Periodic : Before(timers, y, x)}

\* The walk has yet to visit x.
Todo(x) == cursor # Nil /\ ~Before(timers, x, cursor)

\* The ticks x is behind, without the one it is still to be given.
Missed(x) == Lag(x) - (IF Todo(x) THEN 1 ELSE 0)

ShapeInv ==
  /\ TimerTypeOK
  /\ Distinct(timers) /\ IsFiniteSet(Listed)
  /\ cursor # Nil => cursor \in Listed

OrderInv ==
  /\ \A x \in Listed : State[x] = "RUNNING" /\ Time[x] > 0
  /\ \A x, y \in Listed : Before(timers, x, y) => Time[x] <= Time[y]
  /\ \A x, y \in Listed : ~Todo(x) /\ Todo(y) => Time[x] < Time[y]

LateInv ==
  /\ Cardinality(Periodic) <= starts
  /\ \A x \in Listed : Missed(x) >= 0 /\ Missed(x) + Cardinality(Ahead(x)) <= starts

\* The inductive invariant.
TInv == ShapeInv /\ OrderInv /\ LateInv

----------------------------------------------------------------------------
(* The order of a list *)

\* Standing before is a strict order of the nodes of a list.
LEMMA BeforeIsOrder ==
  ASSUME NEW S, NEW list \in Seq(S), Distinct(list)
  PROVE  /\ \A x, y : Before(list, x, y) =>
              x \in Range(list) /\ y \in Range(list) /\ x # y /\ ~Before(list, y, x)
         /\ \A x, y \in Range(list) : x = y \/ Before(list, x, y) \/ Before(list, y, x)
         /\ \A x, y, z : Before(list, x, y) /\ Before(list, y, z) => Before(list, x, z)
<1>1. DOMAIN list = 1..Len(list) /\ Len(list) \in Nat
  OBVIOUS
<1>2. ASSUME NEW x, NEW y, Before(list, x, y)
      PROVE  x \in Range(list) /\ y \in Range(list) /\ x # y /\ ~Before(list, y, x)
  <2>1. PICK i, j \in DOMAIN list : i < j /\ list[i] = x /\ list[j] = y
    BY <1>2, Zenon DEF Before
  <2>2. x \in Range(list) /\ y \in Range(list)
    BY <2>1, Zenon DEF Range
  <2>3. \A m \in DOMAIN list : (list[m] = x => m = i) /\ (list[m] = y => m = j)
    BY <2>1, Zenon DEF Distinct
  <2>4. x # y
    BY <2>1, <2>3, <1>1
  <2>5. ~Before(list, y, x)
    BY <2>1, <2>3, <1>1 DEF Before
  <2> QED
    BY <2>2, <2>4, <2>5, Zenon
<1>3. ASSUME NEW x \in Range(list), NEW y \in Range(list)
      PROVE  x = y \/ Before(list, x, y) \/ Before(list, y, x)
  <2>1. PICK i \in DOMAIN list : list[i] = x
    BY Zenon DEF Range
  <2>2. PICK j \in DOMAIN list : list[j] = y
    BY Zenon DEF Range
  <2>3. i = j \/ i < j \/ j < i
    BY <1>1
  <2> QED
    BY <2>1, <2>2, <2>3, Zenon DEF Before
<1>4. ASSUME NEW x, NEW y, NEW z, Before(list, x, y), Before(list, y, z)
      PROVE  Before(list, x, z)
  <2>1. PICK i, j \in DOMAIN list : i < j /\ list[i] = x /\ list[j] = y
    BY <1>4, Zenon DEF Before
  <2>2. PICK m, n \in DOMAIN list : m < n /\ list[m] = y /\ list[n] = z
    BY <1>4, Zenon DEF Before
  <2>3. j = m
    BY <2>1, <2>2, Zenon DEF Distinct
  <2>4. i < n
    BY <2>1, <2>2, <2>3, <1>1
  <2> QED
    BY <2>1, <2>2, <2>4, Zenon DEF Before
<1> QED
  BY <1>2, <1>3, <1>4, Zenon

\* Going on at the next node: what the walk has yet to visit is behind x.
LEMMA SuccFacts ==
  ASSUME NEW list \in Seq(Timer), Distinct(list), NEW x \in Range(list),
         NEW s, s = Succ(list, x)
  PROVE  /\ s # Nil => s \in Range(list) \ {x}
         /\ \A z \in Range(list) : s # Nil /\ ~Before(list, z, s) <=> Before(list, x, z)
<1>1. DOMAIN list = 1..Len(list) /\ Len(list) \in Nat
  OBVIOUS
<1>2. \A i \in DOMAIN list : list[i] \in Timer /\ list[i] # Nil
  BY TimerAssumption
<1> DEFINE i == CHOOSE j \in DOMAIN list : list[j] = x
<1>3. i \in DOMAIN list /\ list[i] = x
  BY Zenon DEF Range
<1>4. s = IF i = Len(list) THEN Nil ELSE list[i + 1]
  BY Zenon DEF Succ
<1> HIDE DEF i
<1>5. \A m \in DOMAIN list : list[m] = x => m = i
  BY <1>3, Zenon DEF Distinct
<1>6. CASE i = Len(list)
  <2>1. s = Nil
    BY <1>4, <1>6, Zenon
  <2>2. \A z : ~Before(list, x, z)
    BY <1>1, <1>5, <1>6 DEF Before
  <2> QED
    BY <2>1, <2>2, Zenon
<1>7. CASE i # Len(list)
  <2>1. i + 1 \in DOMAIN list /\ s = list[i + 1]
    BY <1>1, <1>3, <1>4, <1>7
  <2>2. s # Nil /\ s \in Range(list)
    BY <2>1, <1>2, Zenon DEF Range
  <2>3. Before(list, x, s)
    BY <2>1, <1>1, <1>3 DEF Before
  <2>4. ASSUME NEW z, Before(list, z, s)
        PROVE  z = x \/ Before(list, z, x)
    <3>1. PICK m, n \in DOMAIN list : m < n /\ list[m] = z /\ list[n] = s
      BY <2>4, Zenon DEF Before
    <3>2. n = i + 1
      BY <3>1, <2>1, Zenon DEF Distinct
    <3>3. m = i \/ m < i
      BY <3>1, <3>2, <1>1, <1>3
    <3> QED
      BY <3>1, <3>3, <1>3, Zenon DEF Before
  <2>5. ASSUME NEW z \in Range(list)
        PROVE  ~Before(list, z, s) <=> Before(list, x, z)
    <3>1. x # s /\ ~Before(list, s, x)
      BY <2>3, BeforeIsOrder, Zenon
    <3>2. z = x \/ Before(list, z, x) => Before(list, z, s)
      BY <2>3, BeforeIsOrder, Zenon
    <3>3. z = x \/ Before(list, z, x) \/ Before(list, x, z)
      BY BeforeIsOrder, Zenon
    <3>4. Before(list, x, z) => z # x /\ ~Before(list, z, x)
      BY BeforeIsOrder, Zenon
    <3> QED
      BY <3>2, <3>3, <3>4, <2>4, Zenon
  <2>6. s # x
    BY <2>3, BeforeIsOrder, Zenon
  <2> QED
    BY <2>2, <2>5, <2>6, Zenon
<1> QED
  BY <1>6, <1>7, Zenon

\* Removing a node keeps the order of the others.
LEMMA RemoveOrder ==
  ASSUME NEW list \in Seq(Timer), Distinct(list), NEW node \in Timer,
         NEW new, new = list_remove(list, node)
  PROVE  /\ new \in Seq(Timer) /\ Distinct(new) /\ Range(new) = Range(list) \ {node}
         /\ \A x, y : Before(new, x, y) <=> Before(list, x, y) /\ x # node /\ y # node
<1>1. /\ new \in Seq(Timer) /\ Distinct(new) /\ Range(new) = Range(list) \ {node}
      /\ \A i, j \in DOMAIN new : i < j =>
           \E m, n \in DOMAIN list : m < n /\ new[i] = list[m] /\ new[j] = list[n]
      /\ \A m, n \in DOMAIN list : m < n /\ list[m] # node /\ list[n] # node =>
           \E i, j \in DOMAIN new : i < j /\ new[i] = list[m] /\ new[j] = list[n]
  BY RemoveFacts
<1>2. ASSUME NEW x, NEW y, Before(new, x, y)
      PROVE  Before(list, x, y) /\ x # node /\ y # node
  <2>1. Before(list, x, y)
    BY <1>1, <1>2 DEF Before
  <2>2. x \in Range(new) /\ y \in Range(new)
    BY <1>2, Zenon DEF Before, Range
  <2> QED
    BY <2>1, <2>2, <1>1, Zenon
<1>3. ASSUME NEW x, NEW y, Before(list, x, y), x # node, y # node
      PROVE  Before(new, x, y)
  BY <1>1, <1>3 DEF Before
<1> QED
  BY <1>1, <1>2, <1>3, Zenon

\* _enqueue keeps the order of the others and the order of times, and what
\* it puts the timer in front of is due later.
LEMMA EnqueueOrder ==
  ASSUME NEW list \in Seq(Timer), Distinct(list), NEW x \in Timer, x \notin Range(list),
         NEW time \in [Timer -> Int],
         \A y, z \in Range(list) : Before(list, y, z) => time[y] <= time[z],
         NEW new, new = _enqueue(list, x, time)
  PROVE  /\ new \in Seq(Timer) /\ Distinct(new) /\ Range(new) = Range(list) \cup {x}
         /\ \A y, z \in Range(list) : Before(new, y, z) <=> Before(list, y, z)
         /\ \A y, z \in Range(new) : Before(new, y, z) => time[y] <= time[z]
         /\ \A y \in Range(list) : Before(new, x, y) => time[x] < time[y]
<1> DEFINE Pri == [y \in Timer |-> -time[y]]
<1>1. Pri \in [Timer -> Int] /\ \A y \in Timer : Pri[y] = -time[y]
  OBVIOUS
<1>2. DOMAIN list = 1..Len(list) /\ Len(list) \in Nat /\ \A i \in DOMAIN list : list[i] \in Timer
  OBVIOUS
<1>3. new = list_enqueue(list, x, Pri)
  BY Zenon DEF _enqueue
<1> HIDE DEF Pri
<1>4. Ordered(list, Pri)
  <2> SUFFICES ASSUME NEW i \in DOMAIN list, NEW j \in DOMAIN list, i < j
               PROVE  Pri[list[i]] >= Pri[list[j]]
    BY Zenon DEF Ordered
  <2>1. Before(list, list[i], list[j])
    BY Zenon DEF Before
  <2>2. list[i] \in Range(list) /\ list[j] \in Range(list)
    BY Zenon DEF Range
  <2> QED
    BY <2>1, <2>2, <1>1, <1>2
<1>5. /\ new \in Seq(Timer) /\ Range(new) = Range(list) \cup {x} /\ Distinct(new) /\ Ordered(new, Pri)
      /\ \A i, j \in DOMAIN list : i < j =>
           \E m, n \in DOMAIN new : m < n /\ new[m] = list[i] /\ new[n] = list[j]
  BY ONLY <1>1, <1>3, <1>4, list \in Seq(Timer), x \in Timer, x \notin Range(list), Distinct(list),
          EnqueueFacts, SMTT(40)
<1>6. \A y, z : Before(list, y, z) => Before(new, y, z)
  BY <1>5 DEF Before
<1>7. ASSUME NEW y \in Range(list), NEW z \in Range(list), Before(new, y, z)
      PROVE  Before(list, y, z)
  <2>1. y # z /\ ~Before(new, z, y)
    BY <1>5, <1>7, BeforeIsOrder, Zenon
  <2>2. y = z \/ Before(list, y, z) \/ Before(list, z, y)
    BY BeforeIsOrder, Zenon
  <2> QED
    BY <2>1, <2>2, <1>6, Zenon
<1>8. ASSUME NEW y \in Range(new), NEW z \in Range(new), Before(new, y, z)
      PROVE  time[y] <= time[z]
  <2>1. PICK i, j \in DOMAIN new : i < j /\ new[i] = y /\ new[j] = z
    BY <1>8, Zenon DEF Before
  <2>2. Pri[y] >= Pri[z]
    BY <2>1, <1>5, Zenon DEF Ordered
  <2>3. y \in Timer /\ z \in Timer
    BY <2>1, <1>5
  <2> QED
    BY <2>2, <2>3, <1>1
<1>9. ASSUME NEW y \in Range(list), Before(new, x, y)
      PROVE  time[x] < time[y]
  <2>1. PICK p \in 1..Len(list) + 1 : EnqueuedAt(new, list, p, x, Pri)
    BY <1>1, <1>3, EnqueueIsInsertion, Zenon
  <2>2. /\ Len(new) = Len(list) + 1 /\ p \in 1..Len(new)
        /\ \A i \in 1..Len(new) : new[i] = IF i < p THEN list[i] ELSE IF i = p THEN x ELSE list[i - 1]
        /\ p <= Len(list) => Pri[list[p]] < Pri[x]
    BY <2>1, Zenon DEF EnqueuedAt, IsInsertion
  <2>3. PICK i, j \in DOMAIN new : i < j /\ new[i] = x /\ new[j] = y
    BY <1>9, Zenon DEF Before
  <2>4. DOMAIN new = 1..Len(new)
    BY <1>5
  <2>5. i = p
    <3>1. p \in DOMAIN new /\ new[p] = x
      BY ONLY <2>2, <2>4, <1>2
    <3>2. \A m, n \in DOMAIN new : new[m] = new[n] => m = n
      BY <1>5, Zenon DEF Distinct
    <3> QED
      BY ONLY <2>3, <3>1, <3>2, Zenon
  <2>6. j - 1 \in DOMAIN list /\ y = list[j - 1] /\ p <= j - 1 /\ p \in DOMAIN list
    BY <2>2, <2>3, <2>4, <2>5, <1>2, SMTT(40)
  <2>7. Pri[list[p]] >= Pri[y]
    <3>1. CASE p = j - 1
      BY <3>1, <2>6, <1>1, <1>2
    <3>2. CASE p < j - 1
      BY <3>2, <2>6, <1>4, Zenon DEF Ordered
    <3> QED
      BY <3>1, <3>2, <2>6, <1>2, SMTT(40)
  <2>8. p <= Len(list) /\ y \in Timer /\ list[p] \in Timer
    BY <2>6, <1>2
  <2>9. Pri[y] = -time[y] /\ Pri[x] = -time[x] /\ Pri[list[p]] \in Int /\ time[x] \in Int /\ time[y] \in Int
    BY <2>8, <1>1, Zenon
  <2>10. Pri[list[p]] < Pri[x]
    BY ONLY <2>2, <2>8, Zenon
  <2> QED
    BY ONLY <2>7, <2>9, <2>10
<1> QED
  BY <1>5, <1>6, <1>7, <1>8, <1>9, Zenon

----------------------------------------------------------------------------
(* What the invariant says of a state *)

\* Subsets of a finite set are finite and no larger.
LEMMA SubsetCount ==
  ASSUME NEW S, IsFiniteSet(S), NEW T, T \subseteq S
  PROVE  IsFiniteSet(T) /\ Cardinality(T) \in Nat /\ Cardinality(S) \in Nat /\ Cardinality(T) <= Cardinality(S)
<1>1. T \in SUBSET S
  BY Zenon
<1> QED
  BY <1>1, FS_Subset, FS_CardinalityType, Zenon

\* The counts of LateInv are naturals.
LEMMA Counts ==
  ASSUME ShapeInv, NEW x
  PROVE  /\ IsFiniteSet(Periodic) /\ IsFiniteSet(Ahead(x))
         /\ Cardinality(Periodic) \in Nat /\ Cardinality(Ahead(x)) \in Nat
         /\ Cardinality(Ahead(x)) <= Cardinality(Periodic)
<1>1. Periodic \subseteq Listed /\ Ahead(x) \subseteq Periodic
  BY Zenon DEF Periodic, Ahead
<1>2. IsFiniteSet(Listed)
  BY Zenon DEF ShapeInv
<1>3. IsFiniteSet(Periodic)
  BY <1>1, <1>2, SubsetCount, Zenon
<1> QED
  BY <1>1, <1>3, SubsetCount, Zenon

\* What the invariant knows of the times of a timer.
LEMMA Times ==
  ASSUME TInv, NEW x \in Listed
  PROVE  /\ x \in Timer /\ x # Nil
         /\ Time[x] \in Int /\ due[x] \in Int /\ Period[x] \in Int
         /\ 0 < Time[x] /\ Time[x] <= MaxTime
         /\ Lag(x) \in Int /\ Missed(x) \in Int /\ starts \in Int
<1>1. x \in Timer
  BY DEF TInv, ShapeInv, TimerTypeOK, Listed, Range
<1>2. Time[x] \in 0..MaxTime /\ due[x] \in -MaxLate..MaxTime /\ Period[x] \in 0..MaxTime /\ starts \in 0..MaxStarts
  BY <1>1, Zenon DEF TInv, ShapeInv, TimerTypeOK
<1>3. Time[x] > 0
  BY Zenon DEF TInv, OrderInv
<1>4. Time[x] \in Int /\ due[x] \in Int /\ Period[x] \in Int /\ Time[x] <= MaxTime /\ starts \in Int
  BY <1>2, TimerAssumption DEF MaxLate
<1>5. Lag(x) \in Int /\ Missed(x) \in Int
  BY <1>4 DEF Lag, Missed
<1> QED
  BY <1>1, <1>3, <1>4, <1>5, TimerAssumption, Zenon

\* A visit to a timer that is due is the first of its tick: it heads the list.
LEMMA DueIsHead ==
  ASSUME TInv, cursor # Nil, Due(cursor)
  PROVE  /\ cursor \in Listed /\ Time[cursor] = 1 /\ due[cursor] <= 0
         /\ \A x \in Listed : Todo(x)
         /\ \A x \in Listed \ {cursor} : Before(timers, cursor, x) /\ ~Before(timers, x, cursor)
<1>1. cursor \in Listed
  BY Zenon DEF TInv, ShapeInv
<1>2. Time[cursor] = 1
  BY <1>1, Times DEF Due
<1>3. timers \in Seq(Timer) /\ Distinct(timers)
  BY Zenon DEF TInv, ShapeInv, TimerTypeOK
<1>4. Todo(cursor)
  <2>1. ~Before(timers, cursor, cursor)
    BY <1>3, BeforeIsOrder, Zenon
  <2> QED
    BY <2>1, Zenon DEF Todo
<1>5. \A x \in Listed : Todo(x)
  <2> SUFFICES ASSUME NEW x \in Listed, ~Todo(x) PROVE FALSE
    BY Zenon
  <2>1. Time[x] < Time[cursor]
    BY <1>1, <1>4, Zenon DEF TInv, OrderInv
  <2>2. 0 < Time[x] /\ Time[x] \in Int
    BY Times, Zenon
  <2> QED
    BY <2>1, <2>2, <1>2
<1>6. due[cursor] <= 0
  <2>1. Missed(cursor) >= 0
    BY <1>1, Zenon DEF TInv, LateInv
  <2>2. Missed(cursor) = 1 - due[cursor] - 1 /\ due[cursor] \in Int
    BY <1>1, <1>2, <1>4, Times, Zenon DEF Missed, Lag
  <2> QED
    BY <2>1, <2>2
<1>7. ASSUME NEW x \in Listed \ {cursor}
      PROVE  Before(timers, cursor, x) /\ ~Before(timers, x, cursor)
  <2>1. ~Before(timers, x, cursor)
    BY <1>5, Zenon DEF Todo
  <2>2. x = cursor \/ Before(timers, x, cursor) \/ Before(timers, cursor, x)
    BY <1>1, <1>3, BeforeIsOrder, Zenon DEF Listed
  <2> QED
    BY <2>1, <2>2, Zenon
<1> QED
  BY <1>1, <1>2, <1>5, <1>6, <1>7, Zenon

----------------------------------------------------------------------------
(* The actions *)

LEMMA InitInv == TimerInit => TInv
<1> SUFFICES ASSUME TimerInit PROVE TInv
  BY Zenon
<1>1. timers = <<>> /\ cursor = Nil /\ starts = 0
  BY Zenon DEF TimerInit
<1>2. Listed = {} /\ Periodic = {}
  BY <1>1 DEF Listed, Range, Periodic
<1>3. TimerTypeOK
  BY TimerAssumption DEF TimerInit, TimerTypeOK, MaxLate
<1>4. ShapeInv
  BY <1>1, <1>2, <1>3, FS_EmptySet DEF ShapeInv, Distinct
<1>5. OrderInv
  BY <1>2, Zenon DEF OrderInv
<1>6. LateInv
  BY <1>1, <1>2, FS_EmptySet, SMTT(40) DEF LateInv
<1> QED
  BY <1>4, <1>5, <1>6, Zenon DEF TInv

\* The first node of a list has nothing before it.
LEMMA HeadFacts ==
  ASSUME NEW list \in Seq(Timer), list # <<>>, Distinct(list)
  PROVE  Head(list) \in Range(list) /\ \A z : ~Before(list, z, Head(list))
<1>1. Len(list) \in Nat \ {0} /\ DOMAIN list = 1..Len(list) /\ Head(list) = list[1] /\ 1 \in DOMAIN list
  OBVIOUS
<1>2. Head(list) \in Range(list)
  BY <1>1, Zenon DEF Range
<1>3. ASSUME NEW z, Before(list, z, Head(list)) PROVE FALSE
  <2>1. PICK i, j \in DOMAIN list : i < j /\ list[i] = z /\ list[j] = list[1]
    BY <1>1, <1>3, Zenon DEF Before
  <2>2. j = 1
    BY <2>1, <1>1, Zenon DEF Distinct
  <2> QED
    BY <2>1, <2>2, <1>1
<1> QED
  BY <1>2, <1>3, Zenon

LEMMA TickInv ==
  ASSUME TInv, __kernel_tick
  PROVE  TInv'
<1>1. /\ cursor = Nil /\ timers # <<>> /\ cursor' = Head(timers)
      /\ due' = [x \in Timer |-> IF x \in Listed /\ due[x] > -MaxLate THEN due[x] - 1 ELSE due[x]]
      /\ timers' = timers /\ Time' = Time /\ Period' = Period /\ State' = State /\ starts' = starts
  BY Zenon DEF __kernel_tick
<1>2. TimerTypeOK /\ timers \in Seq(Timer) /\ Distinct(timers) /\ IsFiniteSet(Listed)
  BY Zenon DEF TInv, ShapeInv, TimerTypeOK
<1>3. cursor' \in Listed /\ \A z : ~Before(timers, z, cursor')
  BY <1>1, <1>2, HeadFacts, Zenon DEF Listed
<1>4. cursor' \in Timer /\ cursor' # Nil
  BY <1>3, Times, Zenon
<1>5. Listed' = Listed /\ Periodic' = Periodic /\ \A x : Ahead(x)' = Ahead(x)
  BY <1>1, Zenon DEF Listed, Periodic, Ahead
<1>6. \A x : Todo(x)' /\ ~Todo(x)
  BY <1>1, <1>3, <1>4, Zenon DEF Todo
<1>7. due' \in [Timer -> -MaxLate..MaxTime]
  <2> SUFFICES ASSUME NEW x \in Timer
               PROVE  (IF x \in Listed /\ due[x] > -MaxLate THEN due[x] - 1 ELSE due[x]) \in -MaxLate..MaxTime
    BY <1>1, Zenon
  <2>1. due[x] \in -MaxLate..MaxTime
    BY <1>2, Zenon DEF TimerTypeOK
  <2> QED
    BY <2>1, TimerAssumption DEF MaxLate
<1>8. ShapeInv'
  BY <1>1, <1>2, <1>3, <1>4, <1>5, <1>7, Zenon DEF ShapeInv, TimerTypeOK
<1>9. OrderInv'
  <2>1. \A x \in Listed : State[x] = "RUNNING" /\ Time[x] > 0
    BY Zenon DEF TInv, OrderInv
  <2>2. \A x, y \in Listed : Before(timers, x, y) => Time[x] <= Time[y]
    BY Zenon DEF TInv, OrderInv
  <2> QED
    BY <2>1, <2>2, <1>1, <1>5, <1>6, Zenon DEF OrderInv
<1>10. LateInv'
  <2>1. Cardinality(Periodic) <= starts
    BY Zenon DEF TInv, LateInv
  <2>2. ASSUME NEW x \in Listed PROVE Missed(x)' = Missed(x)
    <3>1. Missed(x) = Time[x] - due[x] /\ Missed(x) + Cardinality(Ahead(x)) <= starts
      BY <1>6, Times DEF TInv, LateInv, Missed, Lag
    <3>2. Cardinality(Ahead(x)) \in Nat
      BY Counts, Zenon DEF TInv
    <3>3. starts <= MaxStarts /\ starts \in Int
      BY <1>2, TimerAssumption DEF TimerTypeOK
    <3>4. due[x] > -MaxLate
      BY <3>1, <3>2, <3>3, Times, TimerAssumption, SMTT(40) DEF MaxLate
    <3>5. due'[x] = due[x] - 1
      BY <3>4, <1>1, Times, Zenon
    <3> QED
      BY <3>1, <3>5, <1>1, <1>6, Times, SMTT(40) DEF Missed, Lag
  <2>3. \A x \in Listed : Missed(x) >= 0 /\ Missed(x) + Cardinality(Ahead(x)) <= starts
    BY Zenon DEF TInv, LateInv
  <2> QED
    BY <2>1, <2>2, <2>3, <1>1, <1>5, Zenon DEF LateInv
<1> QED
  BY <1>8, <1>9, <1>10, Zenon DEF TInv

LEMMA CountDownInv ==
  ASSUME TInv, CountDown
  PROVE  TInv'
<1> DEFINE c == cursor
<1>1. /\ c # Nil /\ ~Due(c) /\ Time' = [Time EXCEPT ![c] = @ - 1] /\ cursor' = Succ(timers, c)
      /\ timers' = timers /\ due' = due /\ Period' = Period /\ State' = State /\ starts' = starts
  BY Zenon DEF CountDown
<1>2. TimerTypeOK /\ timers \in Seq(Timer) /\ Distinct(timers) /\ IsFiniteSet(Listed) /\ c \in Listed
  BY <1>1, Zenon DEF TInv, ShapeInv, TimerTypeOK
<1>3. /\ cursor' # Nil => cursor' \in Listed \ {c}
      /\ \A z \in Listed : cursor' # Nil /\ ~Before(timers, z, cursor') <=> Before(timers, c, z)
  BY <1>1, <1>2, SuccFacts, Zenon DEF Listed
<1>4. c \in Timer /\ Time[c] \in Int /\ Time[c] > 1 /\ Time[c] <= MaxTime
  BY <1>1, <1>2, Times DEF Due
<1>5. Time'[c] = Time[c] - 1 /\ \A x \in Timer : x # c => Time'[x] = Time[x]
  BY <1>1, <1>2, <1>4, Zenon DEF TimerTypeOK
<1>6. Listed' = Listed /\ Periodic' = Periodic /\ \A x : Ahead(x)' = Ahead(x)
  BY <1>1, Zenon DEF Listed, Periodic, Ahead
<1>7. \A x \in Listed : Todo(x)' <=> Before(timers, c, x)
  BY <1>1, <1>3, Zenon DEF Todo
<1>8. \A x \in Listed : Todo(x) <=> x = c \/ Before(timers, c, x)
  <2> SUFFICES ASSUME NEW x \in Listed PROVE ~Before(timers, x, c) <=> x = c \/ Before(timers, c, x)
    BY <1>1, Zenon DEF Todo
  <2>1. x = c \/ Before(timers, x, c) \/ Before(timers, c, x)
    BY <1>2, BeforeIsOrder, Zenon DEF Listed
  <2>2. Before(timers, x, c) => x # c /\ ~Before(timers, c, x)
    BY <1>2, BeforeIsOrder, Zenon
  <2> QED
    BY <2>1, <2>2, Zenon
<1>9. ~Before(timers, c, c)
  BY <1>2, BeforeIsOrder, Zenon
<1> HIDE DEF c
<1>10. ShapeInv'
  <2>1. Time' \in [Timer -> 0..MaxTime]
    <3>1. Time[c] - 1 \in 0..MaxTime
      BY <1>4, TimerAssumption, SMTT(40)
    <3> QED
      BY <3>1, <1>1, <1>2, Zenon DEF TimerTypeOK
  <2>2. cursor' \in Timer \cup {Nil}
    BY <1>3, Times, Zenon
  <2> QED
    BY <2>1, <2>2, <1>1, <1>2, <1>3, <1>6, Zenon DEF ShapeInv, TimerTypeOK
<1>11. OrderInv'
  <2>1. ASSUME NEW x \in Listed PROVE State'[x] = "RUNNING" /\ Time'[x] > 0
    BY <1>1, <1>4, <1>5, Times, SMTT(40) DEF TInv, OrderInv
  <2>2. ASSUME NEW x \in Listed, NEW y \in Listed, Before(timers, x, y) PROVE Time'[x] <= Time'[y]
    <3>1. Time[x] <= Time[y] /\ Time[x] \in Int /\ Time[y] \in Int /\ x \in Timer /\ y \in Timer
      BY <2>2, Times, Zenon DEF TInv, OrderInv
    <3>2. CASE y = c
      <4>1. x # c /\ ~Before(timers, c, x)
        BY <2>2, <3>2, <1>2, BeforeIsOrder, Zenon
      <4>2. ~Todo(x) /\ Todo(y)
        BY <4>1, <3>2, <1>8, Zenon
      <4>3. Time[x] < Time[c]
        BY <4>2, <3>2, Zenon DEF TInv, OrderInv
      <4> QED
        BY <4>1, <4>3, <3>1, <3>2, <1>5, SMTT(40)
    <3>3. CASE y # c
      BY <3>1, <3>3, <1>5
    <3> QED
      BY <3>2, <3>3, Zenon
  <2>3. ASSUME NEW x \in Listed, NEW y \in Listed, ~Todo(x)', Todo(y)' PROVE Time'[x] < Time'[y]
    <3>1. Before(timers, c, y) /\ ~Before(timers, c, x)
      BY <2>3, <1>7, Zenon
    <3>2. y # c /\ Todo(y) /\ Time[x] \in Int /\ Time[y] \in Int /\ x \in Timer /\ y \in Timer
      BY <3>1, <1>8, <1>9, Times, Zenon
    <3>3. CASE x = c
      <4>1. Time[c] <= Time[y]
        BY <3>1, <1>2, Zenon DEF TInv, OrderInv
      <4> QED
        BY <4>1, <3>2, <3>3, <1>4, <1>5, SMTT(40)
    <3>4. CASE x # c
      <4>1. ~Todo(x)
        BY <3>1, <3>4, <1>8, Zenon
      <4>2. Time[x] < Time[y]
        BY <4>1, <3>2, Zenon DEF TInv, OrderInv
      <4> QED
        BY <4>2, <3>2, <3>4, <1>5, Zenon
    <3> QED
      BY <3>3, <3>4, Zenon
  <2> QED
    BY <2>1, <2>2, <2>3, <1>1, <1>6, Zenon DEF OrderInv
<1>12. LateInv'
  <2>1. ASSUME NEW x \in Listed PROVE Missed(x)' = Missed(x)
    <3>1. x \in Timer /\ Time[x] \in Int /\ due[x] \in Int
      BY Times, Zenon
    <3>2. CASE x = c
      <4>1. Todo(x) /\ ~Todo(x)'
        BY <3>2, <1>7, <1>8, <1>9, Zenon
      <4> QED
        BY <4>1, <3>1, <3>2, <1>1, <1>5, SMTT(40) DEF Missed, Lag
    <3>3. CASE x # c
      <4>1. Todo(x)' <=> Todo(x)
        BY <3>3, <1>7, <1>8, Zenon
      <4> QED
        BY <4>1, <3>1, <3>3, <1>1, <1>5, Zenon DEF Missed, Lag
    <3> QED
      BY <3>2, <3>3, Zenon
  <2> QED
    BY <2>1, <1>1, <1>6, Zenon DEF TInv, LateInv
<1> QED
  BY <1>10, <1>11, <1>12, Zenon DEF TInv

LEMMA CreateInv ==
  ASSUME TInv, NEW x \in Timer, NEW time \in 1..MaxTime, NEW period \in 0..MaxTime,
         exos_timer_create(x, time, period)
  PROVE  TInv'
<1>1. /\ cursor = Nil /\ x \notin Listed /\ (period # 0 => starts < MaxStarts)
      /\ Time' = [Time EXCEPT ![x] = time] /\ Period' = [Period EXCEPT ![x] = period]
      /\ State' = [State EXCEPT ![x] = "RUNNING"] /\ timers' = _enqueue(timers, x, Time')
      /\ due' = [due EXCEPT ![x] = time]
      /\ starts' = (IF period = 0 THEN starts ELSE starts + 1) /\ cursor' = cursor
  BY Zenon DEF exos_timer_create
<1>2. TimerTypeOK /\ timers \in Seq(Timer) /\ Distinct(timers) /\ IsFiniteSet(Listed)
  BY Zenon DEF TInv, ShapeInv, TimerTypeOK
<1>3. /\ time \in Int /\ 0 < time /\ time <= MaxTime /\ MaxTime \in Nat
      /\ starts \in Int /\ 0 <= starts /\ starts <= MaxStarts /\ MaxStarts \in Nat
  BY <1>2, TimerAssumption DEF TimerTypeOK
<1>4. /\ Time'[x] = time /\ Period'[x] = period /\ due'[x] = time /\ State'[x] = "RUNNING"
      /\ \A y \in Timer : y # x =>
           Time'[y] = Time[y] /\ Period'[y] = Period[y] /\ due'[y] = due[y] /\ State'[y] = State[y]
  BY <1>1, <1>2, Zenon DEF TimerTypeOK
<1>5. TimerTypeOK' /\ Time' \in [Timer -> Int]
  <2>1. /\ Time' \in [Timer -> 0..MaxTime] /\ Period' \in [Timer -> 0..MaxTime]
        /\ due' \in [Timer -> -MaxLate..MaxTime]
        /\ State' \in [Timer -> {"DETACHED", "RUNNING", "FINISHED"}]
    <3>1. time \in 0..MaxTime /\ time \in -MaxLate..MaxTime
      BY <1>3 DEF MaxLate
    <3> QED
      BY <3>1, <1>1, <1>2, Zenon DEF TimerTypeOK
  <2>2. starts' \in 0..MaxStarts
    BY <1>1, <1>3, SMTT(40)
  <2>3. Time' \in [Timer -> Int]
    BY <2>1, SMTT(40)
  <2>4. \A y, z \in Range(timers) : Before(timers, y, z) => Time'[y] <= Time'[z]
    BY <1>1, <1>4, Times, Zenon DEF TInv, OrderInv, Listed
  <2>5. timers' \in Seq(Timer)
    BY <2>3, <2>4, <1>1, <1>2, EnqueueOrder, ZenonT(40) DEF Listed
  <2> QED
    BY <2>1, <2>2, <2>3, <2>5, <1>1, <1>2, Zenon DEF TimerTypeOK
<1>6. \A y, z \in Range(timers) : Before(timers, y, z) => Time'[y] <= Time'[z]
  BY <1>1, <1>4, Times, Zenon DEF TInv, OrderInv, Listed
<1>7. /\ Distinct(timers') /\ Listed' = Listed \cup {x}
      /\ \A y, z \in Listed : Before(timers', y, z) <=> Before(timers, y, z)
      /\ \A y, z \in Listed' : Before(timers', y, z) => Time'[y] <= Time'[z]
  <2>1. x \notin Range(timers) /\ timers' = _enqueue(timers, x, Time')
    BY <1>1, Zenon DEF Listed
  <2>2. Time' \in [Timer -> Int] /\ timers \in Seq(Timer) /\ Distinct(timers)
    BY <1>2, <1>5, Zenon
  <2>3. /\ Distinct(timers') /\ Range(timers') = Range(timers) \cup {x}
        /\ \A y, z \in Range(timers) : Before(timers', y, z) <=> Before(timers, y, z)
        /\ \A y, z \in Range(timers') : Before(timers', y, z) => Time'[y] <= Time'[z]
    BY ONLY <2>1, <2>2, <1>6, x \in Timer, EnqueueOrder, SMTT(40)
  <2> QED
    BY ONLY <2>3, Zenon DEF Listed
<1>8. \A y : ~Todo(y) /\ ~Todo(y)'
  BY <1>1, Zenon DEF Todo
<1>9. ShapeInv'
  BY <1>1, <1>2, <1>5, <1>7, FS_AddElement, Zenon DEF ShapeInv
<1>10. OrderInv'
  <2>1. ASSUME NEW y \in Listed' PROVE State'[y] = "RUNNING" /\ Time'[y] > 0
    <3>1. CASE y = x
      BY <3>1, <1>3, <1>4, Zenon
    <3>2. CASE y # x
      BY <3>2, <1>4, <1>7, Times, Zenon DEF TInv, OrderInv
    <3> QED
      BY <3>1, <3>2, Zenon
  <2> QED
    BY <2>1, <1>7, <1>8, Zenon DEF OrderInv
<1>11. Periodic' = (IF period = 0 THEN Periodic ELSE Periodic \cup {x}) /\ x \notin Periodic
  BY <1>1, <1>4, <1>7, Times, Zenon DEF Periodic
<1>12. IsFiniteSet(Periodic) /\ Cardinality(Periodic) \in Nat /\ Cardinality(Periodic) <= starts
  BY Counts, Zenon DEF TInv, LateInv
<1>13. Cardinality(Periodic') <= starts'
  <2>1. Cardinality(Periodic \cup {x}) = Cardinality(Periodic) + 1
    BY <1>11, <1>12, FS_AddElement, Zenon
  <2>2. CASE period = 0
    BY ONLY <2>2, <1>1, <1>11, <1>12, Zenon
  <2>3. CASE period # 0
    <3>1. Periodic' = Periodic \cup {x} /\ starts' = starts + 1
      BY ONLY <2>3, <1>1, <1>11, Zenon
    <3> QED
      BY ONLY <2>1, <3>1, <1>3, <1>12, SMTT(40)
  <2> QED
    BY ONLY <2>2, <2>3, Zenon
<1>14. LateInv'
  <2>1. ASSUME NEW y \in Listed'
        PROVE  Missed(y)' >= 0 /\ Missed(y)' + Cardinality(Ahead(y)') <= starts'
    <3>1. Missed(y)' = Time'[y] - due'[y]
      <4>1. Time'[y] \in Int /\ due'[y] \in Int
        BY <1>3, <1>4, <1>7, Times, Zenon
      <4> QED
        BY <4>1, <1>8, SMTT(40) DEF Missed, Lag
    <3>2. /\ IsFiniteSet(Ahead(y)') /\ Cardinality(Ahead(y)') \in Nat
          /\ Cardinality(Ahead(y)') <= Cardinality(Periodic')
          /\ Cardinality(Periodic') \in Nat
      <4>1. Ahead(y)' \subseteq Periodic'
        BY Zenon DEF Ahead
      <4>2. IsFiniteSet(Periodic')
        BY <1>11, <1>12, FS_AddElement, Zenon
      <4> QED
        BY <4>1, <4>2, SubsetCount, Zenon
    <3>3. CASE y = x
      BY <3>1, <3>2, <3>3, <1>1, <1>3, <1>4, <1>13, SMTT(40)
    <3>4. CASE y # x
      <4>1. y \in Listed /\ y \in Timer
        BY <3>4, <1>7, Times, Zenon
      <4>2. Missed(y)' = Missed(y) /\ Missed(y) \in Int
        BY <3>1, <3>4, <4>1, <1>4, <1>8, Times, Zenon DEF Missed, Lag
      <4>3. Missed(y) >= 0 /\ Missed(y) + Cardinality(Ahead(y)) <= starts
        BY <4>1, Zenon DEF TInv, LateInv
      <4>4. IsFiniteSet(Ahead(y)) /\ Cardinality(Ahead(y)) \in Nat
        BY Counts, Zenon DEF TInv
      <4>5. CASE period = 0
        <5>1. Ahead(y)' = Ahead(y)
          BY <4>1, <4>5, <1>7, <1>11, Zenon DEF Ahead, Periodic
        <5> QED
          BY <5>1, <4>2, <4>3, <4>5, <1>1, Zenon
      <4>6. CASE period # 0
        <5>1. Ahead(y)' \subseteq Ahead(y) \cup {x}
          BY <4>1, <4>6, <1>7, <1>11, Zenon DEF Ahead, Periodic
        <5>2. Cardinality(Ahead(y) \cup {x}) <= Cardinality(Ahead(y)) + 1 /\ IsFiniteSet(Ahead(y) \cup {x})
          <6>1. /\ IsFiniteSet(Ahead(y) \cup {x})
                /\ Cardinality(Ahead(y) \cup {x}) =
                     IF x \in Ahead(y) THEN Cardinality(Ahead(y)) ELSE Cardinality(Ahead(y)) + 1
            BY ONLY <4>4, FS_AddElement, Zenon
          <6> QED
            BY ONLY <4>4, <6>1, SMTT(40)
        <5>3. Cardinality(Ahead(y)') <= Cardinality(Ahead(y) \cup {x}) /\ Cardinality(Ahead(y) \cup {x}) \in Nat
          BY <5>1, <5>2, SubsetCount, Zenon
        <5> QED
          BY <5>2, <5>3, <3>2, <4>2, <4>3, <4>4, <4>6, <1>1, <1>3, SMTT(40)
      <4> QED
        BY <4>5, <4>6, Zenon
    <3> QED
      BY <3>3, <3>4, Zenon
  <2> QED
    BY <2>1, <1>13, Zenon DEF LateInv
<1> QED
  BY <1>9, <1>10, <1>14, Zenon DEF TInv

LEMMA DisposeInv ==
  ASSUME TInv, NEW x \in Timer, exos_timer_dispose(x)
  PROVE  TInv'
<1>1. /\ cursor = Nil /\ x \in Listed /\ timers' = list_remove(timers, x)
      /\ due' = [due EXCEPT ![x] = 0]
      /\ Time' = Time /\ Period' = Period /\ State' = State /\ cursor' = cursor /\ starts' = starts
  BY Zenon DEF exos_timer_dispose, Forget
<1>2. TimerTypeOK /\ timers \in Seq(Timer) /\ Distinct(timers) /\ IsFiniteSet(Listed)
  BY Zenon DEF TInv, ShapeInv, TimerTypeOK
<1>3. /\ timers' \in Seq(Timer) /\ Distinct(timers') /\ Listed' = Listed \ {x}
      /\ \A y, z : Before(timers', y, z) => Before(timers, y, z)
  BY <1>1, <1>2, RemoveOrder, SMTT(40) DEF Listed
<1>4. \A y : ~Todo(y) /\ ~Todo(y)'
  BY <1>1, Zenon DEF Todo
<1>5. ShapeInv'
  <2>1. due' \in [Timer -> -MaxLate..MaxTime]
    BY <1>1, <1>2, TimerAssumption, SMTT(40) DEF TimerTypeOK, MaxLate
  <2> QED
    BY <2>1, <1>1, <1>2, <1>3, FS_RemoveElement, Zenon DEF ShapeInv, TimerTypeOK
<1>6. OrderInv'
  BY <1>1, <1>3, <1>4, Zenon DEF TInv, OrderInv
<1>7. Periodic' \subseteq Periodic /\ \A y : Ahead(y)' \subseteq Ahead(y)
  BY <1>1, <1>3, Zenon DEF Periodic, Ahead
<1>8. ASSUME NEW y \in Listed'
      PROVE  Missed(y)' >= 0 /\ Missed(y)' + Cardinality(Ahead(y)') <= starts
  <2>1. y \in Listed /\ y # x /\ y \in Timer
    BY <1>3, Times, Zenon
  <2>2. due'[y] = due[y]
    BY <2>1, <1>1, <1>2, Zenon DEF TimerTypeOK
  <2>3. Missed(y)' = Missed(y) /\ Missed(y) \in Int /\ starts \in Int
    BY <2>1, <2>2, <1>1, <1>4, Times, Zenon DEF Missed, Lag
  <2>4. /\ Cardinality(Ahead(y)') <= Cardinality(Ahead(y))
        /\ Cardinality(Ahead(y)') \in Nat /\ Cardinality(Ahead(y)) \in Nat
    BY <1>7, Counts, SubsetCount, Zenon DEF TInv
  <2>5. Missed(y) >= 0 /\ Missed(y) + Cardinality(Ahead(y)) <= starts
    BY <2>1, Zenon DEF TInv, LateInv
  <2> QED
    BY <2>3, <2>4, <2>5, SMTT(40)
<1>9. LateInv'
  <2>1. /\ Cardinality(Periodic') <= Cardinality(Periodic) /\ Cardinality(Periodic) <= starts
        /\ Cardinality(Periodic') \in Nat /\ Cardinality(Periodic) \in Nat
    BY <1>7, Counts, SubsetCount, Zenon DEF TInv, LateInv
  <2>2. starts \in Int
    BY <1>1, Times, Zenon
  <2> QED
    BY <2>1, <2>2, <1>1, <1>8, SMTT(40) DEF LateInv
<1> QED
  BY <1>5, <1>6, <1>9, Zenon DEF TInv

LEMMA FinishInv ==
  ASSUME TInv, Finish
  PROVE  TInv'
<1> DEFINE c == cursor
<1>1. /\ c # Nil /\ Due(c) /\ Period[c] = 0 /\ timers' = list_remove(timers, c)
      /\ State' = [State EXCEPT ![c] = "FINISHED"] /\ cursor' = Succ(timers, c)
      /\ due' = [due EXCEPT ![c] = 0]
      /\ Time' = Time /\ Period' = Period /\ starts' = starts
  BY Zenon DEF Finish, Forget
<1>2. TimerTypeOK /\ timers \in Seq(Timer) /\ Distinct(timers) /\ IsFiniteSet(Listed) /\ c \in Listed
  BY <1>1, Zenon DEF TInv, ShapeInv, TimerTypeOK
<1>3. /\ \A x \in Listed : Todo(x)
      /\ \A x \in Listed \ {c} : Before(timers, c, x)
  BY <1>1, DueIsHead, Zenon
<1>4. c \in Timer
  BY <1>2, Times, Zenon
<1> HIDE DEF c
<1>5. /\ cursor' # Nil => cursor' \in Listed \ {c}
      /\ \A z \in Listed : cursor' # Nil /\ ~Before(timers, z, cursor') <=> Before(timers, c, z)
  BY <1>1, <1>2, SuccFacts, Zenon DEF Listed
<1>6. /\ timers' \in Seq(Timer) /\ Distinct(timers') /\ Listed' = Listed \ {c}
      /\ \A y, z : Before(timers', y, z) <=> Before(timers, y, z) /\ y # c /\ z # c
  BY <1>1, <1>2, <1>4, RemoveOrder, Zenon DEF Listed
<1>7. \A x \in Listed' : Todo(x)'
  BY <1>3, <1>5, <1>6, Zenon DEF Todo
<1>8. ShapeInv'
  <2>1. due' \in [Timer -> -MaxLate..MaxTime] /\ State' \in [Timer -> {"DETACHED", "RUNNING", "FINISHED"}]
    <3>1. 0 \in -MaxLate..MaxTime
      BY TimerAssumption DEF MaxLate
    <3>2. /\ due \in [Timer -> -MaxLate..MaxTime]
          /\ State \in [Timer -> {"DETACHED", "RUNNING", "FINISHED"}]
      BY <1>2, Zenon DEF TimerTypeOK
    <3> QED
      BY ONLY <1>1, <3>1, <3>2, Zenon
  <2>2. cursor' \in Timer \cup {Nil}
    BY <1>5, Times, Zenon
  <2> QED
    BY <2>1, <2>2, <1>1, <1>2, <1>5, <1>6, FS_RemoveElement, Zenon DEF ShapeInv, TimerTypeOK
<1>9. OrderInv'
  <2>1. \A x \in Listed' : x \in Listed /\ State'[x] = State[x]
    BY <1>1, <1>2, <1>6, Times, Zenon DEF TimerTypeOK
  <2> QED
    BY <2>1, <1>1, <1>6, <1>7, Zenon DEF TInv, OrderInv
<1>10. Periodic' = Periodic /\ \A x \in Listed' : Ahead(x)' = Ahead(x)
  BY <1>1, <1>6, Zenon DEF Periodic, Ahead
<1>11. \A x \in Listed' : x \in Listed /\ Missed(x)' = Missed(x)
  BY <1>1, <1>2, <1>3, <1>6, <1>7, Times, Zenon DEF Missed, Lag, TimerTypeOK
<1>12. LateInv'
  BY <1>1, <1>10, <1>11, Zenon DEF TInv, LateInv
<1> QED
  BY <1>8, <1>9, <1>12, Zenon DEF TInv

\* The timers a reload passes over lose a tick, and have one periodic timer
\* less ahead of them.
LEMMA ReloadInv ==
  ASSUME TInv, Reload
  PROVE  TInv'
<1> DEFINE c == cursor
           rest == list_remove(timers, c)
<1>1. /\ c # Nil /\ Due(c) /\ Period[c] # 0
      /\ Time' = [Time EXCEPT ![c] = Period[c]]
      /\ timers' = _enqueue(rest, c, Time') /\ cursor' = Succ(timers', c)
      /\ due' = [due EXCEPT ![c] = Period[c]]
      /\ Period' = Period /\ State' = State /\ starts' = starts
  BY Zenon DEF Reload
<1>2. TimerTypeOK /\ timers \in Seq(Timer) /\ Distinct(timers) /\ IsFiniteSet(Listed) /\ c \in Listed
  BY <1>1, Zenon DEF TInv, ShapeInv, TimerTypeOK
<1>3. /\ \A x \in Listed : Todo(x)
      /\ \A x \in Listed \ {c} : Before(timers, c, x)
  BY <1>1, DueIsHead, Zenon
<1>4. c \in Timer /\ Period[c] \in 0..MaxTime /\ Period[c] > 0
  BY <1>1, <1>2, Times, SMTT(40) DEF TimerTypeOK
<1>5. /\ rest \in Seq(Timer) /\ Distinct(rest) /\ Range(rest) = Listed \ {c}
      /\ \A y, z : Before(rest, y, z) <=> Before(timers, y, z) /\ y # c /\ z # c
  BY <1>2, <1>4, RemoveOrder, Zenon DEF Listed
<1> HIDE DEF c, rest
<1>6. /\ Time'[c] = Period[c] /\ due'[c] = Period[c]
      /\ \A y \in Timer : y # c => Time'[y] = Time[y] /\ due'[y] = due[y]
  BY <1>1, <1>2, <1>4, Zenon DEF TimerTypeOK
<1>7. Time' \in [Timer -> 0..MaxTime] /\ Time' \in [Timer -> Int] /\ due' \in [Timer -> -MaxLate..MaxTime]
  <2>1. Period[c] \in -MaxLate..MaxTime
    BY <1>4, TimerAssumption, SMTT(40) DEF MaxLate
  <2>2. Time' \in [Timer -> 0..MaxTime] /\ due' \in [Timer -> -MaxLate..MaxTime]
    BY <2>1, <1>1, <1>2, <1>4, Zenon DEF TimerTypeOK
  <2> QED
    BY <2>2
<1>8. \A y, z \in Range(rest) : Before(rest, y, z) => Time'[y] <= Time'[z]
  BY <1>5, <1>6, Times, Zenon DEF TInv, OrderInv
<1>9. /\ timers' \in Seq(Timer) /\ Distinct(timers') /\ Listed' = Listed
      /\ \A y, z \in Listed \ {c} : Before(timers', y, z) <=> Before(timers, y, z)
      /\ \A y, z \in Listed : Before(timers', y, z) => Time'[y] <= Time'[z]
      /\ \A y \in Listed \ {c} : Before(timers', c, y) => Time'[c] < Time'[y]
  <2>1. c \notin Range(rest)
    BY <1>5, Zenon
  <2>2. /\ timers' \in Seq(Timer) /\ Distinct(timers') /\ Range(timers') = Range(rest) \cup {c}
        /\ \A y, z \in Range(rest) : Before(timers', y, z) <=> Before(rest, y, z)
        /\ \A y, z \in Range(timers') : Before(timers', y, z) => Time'[y] <= Time'[z]
        /\ \A y \in Range(rest) : Before(timers', c, y) => Time'[c] < Time'[y]
    <3>1. timers' = _enqueue(rest, c, Time') /\ c \in Timer /\ Time' \in [Timer -> Int]
      BY <1>1, <1>4, <1>7, Zenon
    <3>2. rest \in Seq(Timer) /\ Distinct(rest)
      BY <1>5, Zenon
    <3> QED
      BY ONLY <2>1, <3>1, <3>2, <1>8, EnqueueOrder, SMTT(40)
  <2>3. Listed' = Listed /\ Range(timers') = Listed
    BY <2>2, <1>2, <1>5, Zenon DEF Listed
  <2> QED
    BY <2>2, <2>3, <1>5, Zenon
<1>10. /\ cursor' # Nil => cursor' \in Listed
       /\ \A x \in Listed : Todo(x)' <=> Before(timers', c, x)
  <2>1. cursor' = Succ(timers', c) /\ timers' \in Seq(Timer) /\ Distinct(timers') /\ Range(timers') = Listed
    BY <1>1, <1>9, Zenon DEF Listed
  <2>2. c \in Range(timers')
    BY <2>1, <1>2, Zenon
  <2>3. /\ cursor' # Nil => cursor' \in Range(timers') \ {c}
        /\ \A z \in Range(timers') : cursor' # Nil /\ ~Before(timers', z, cursor') <=> Before(timers', c, z)
    BY ONLY <2>1, <2>2, SuccFacts, Zenon
  <2> QED
    BY ONLY <2>1, <2>3, Zenon DEF Todo
<1>11. ~Before(timers', c, c)
  BY <1>9, BeforeIsOrder, Zenon
<1>12. \A x \in Listed \ {c} : Before(timers', x, c) <=> ~Before(timers', c, x)
  <2> SUFFICES ASSUME NEW x \in Listed \ {c} PROVE Before(timers', x, c) <=> ~Before(timers', c, x)
    BY Zenon
  <2>1. x = c \/ Before(timers', x, c) \/ Before(timers', c, x)
    BY <1>2, <1>9, BeforeIsOrder, Zenon DEF Listed
  <2>2. Before(timers', x, c) => ~Before(timers', c, x)
    BY <1>9, BeforeIsOrder, Zenon
  <2> QED
    BY <2>1, <2>2, Zenon
<1>13. ShapeInv'
  <2>1. cursor' \in Timer \cup {Nil}
    BY <1>10, Times, Zenon
  <2> QED
    BY <2>1, <1>1, <1>2, <1>7, <1>9, <1>10, Zenon DEF ShapeInv, TimerTypeOK
<1>14. OrderInv'
  <2>1. ASSUME NEW x \in Listed PROVE State'[x] = "RUNNING" /\ Time'[x] > 0
    BY <1>1, <1>4, <1>6, Times, Zenon DEF TInv, OrderInv
  <2>2. ASSUME NEW x \in Listed, NEW y \in Listed, ~Todo(x)', Todo(y)' PROVE Time'[x] < Time'[y]
    <3>1. Before(timers', c, y) /\ ~Before(timers', c, x) /\ y # c
      BY <2>2, <1>10, <1>11, Zenon
    <3>2. Time'[c] < Time'[y]
      BY <3>1, <1>9, Zenon
    <3>3. Time'[x] <= Time'[c]
      <4>1. CASE x = c
        BY <4>1, <1>4, <1>7, SMTT(40)
      <4>2. CASE x # c
        BY <4>2, <3>1, <1>2, <1>9, <1>12, Zenon
      <4> QED
        BY <4>1, <4>2, Zenon
    <3>4. Time'[x] \in Int /\ Time'[c] \in Int /\ Time'[y] \in Int
      BY <1>4, <1>7, Times, Zenon
    <3> QED
      BY <3>2, <3>3, <3>4, SMTT(40)
  <2> QED
    BY <2>1, <2>2, <1>9, Zenon DEF OrderInv
<1>15. Periodic' = Periodic /\ c \in Periodic
  BY <1>1, <1>2, <1>9, Zenon DEF Periodic
<1>16. Cardinality(Periodic) <= starts /\ starts \in Int
  BY <1>2, Times, Zenon DEF TInv, LateInv
<1>17. ASSUME NEW x \in Listed
       PROVE  Missed(x)' >= 0 /\ Missed(x)' + Cardinality(Ahead(x)') <= starts
  <2>1. x \in Timer /\ Time'[x] \in Int /\ due'[x] \in Int /\ due[x] \in Int /\ Time[x] \in Int
    BY <1>4, <1>6, <1>7, Times, Zenon
  <2>2. CASE x = c
    <3>1. Missed(x)' = 0
      BY <2>1, <2>2, <1>2, <1>6, <1>10, <1>11, SMTT(40) DEF Missed, Lag
    <3>2. Ahead(x)' \subseteq Periodic
      BY <1>15, Zenon DEF Ahead
    <3>3. Cardinality(Ahead(x)') \in Nat /\ Cardinality(Ahead(x)') <= Cardinality(Periodic) /\ Cardinality(Periodic) \in Nat
      BY <3>2, Counts, SubsetCount, Zenon DEF TInv
    <3> QED
      BY <3>1, <3>3, <1>16, SMTT(40)
  <2>3. CASE x # c
    <3>1. Todo(x) /\ Before(timers, c, x)
      BY <2>3, <1>3, Zenon
    <3>2. Missed(x) = Time[x] - due[x] - 1 /\ Missed(x) >= 0 /\ Missed(x) + Cardinality(Ahead(x)) <= starts
      BY <2>1, <3>1, Zenon DEF Missed, Lag, TInv, LateInv
    <3>3. IsFiniteSet(Ahead(x)) /\ Cardinality(Ahead(x)) \in Nat
      BY Counts, Zenon DEF TInv
    <3>4. Time'[x] = Time[x] /\ due'[x] = due[x]
      BY <2>1, <2>3, <1>6, Zenon
    <3>5. CASE Before(timers', c, x)
      <4>1. Missed(x)' = Missed(x)
        BY <2>1, <3>2, <3>4, <3>5, <1>10, Zenon DEF Missed, Lag
      <4>2. Ahead(x)' = Ahead(x)
        <5>1. ASSUME NEW y \in Periodic PROVE Before(timers', y, x) <=> Before(timers, y, x)
          BY <2>3, <3>1, <3>5, <1>9, Zenon DEF Periodic
        <5> QED
          BY <5>1, <1>15, Zenon DEF Ahead
      <4> QED
        BY <4>1, <4>2, <3>2, Zenon
    <3>6. CASE ~Before(timers', c, x)
      <4>1. Missed(x)' = Missed(x) + 1
        BY <2>1, <3>2, <3>4, <3>6, <1>10, SMTT(40) DEF Missed, Lag
      <4>2. Ahead(x)' = Ahead(x) \ {c} /\ c \in Ahead(x)
        <5>1. ASSUME NEW y \in Periodic PROVE Before(timers', y, x) <=> Before(timers, y, x) /\ y # c
          BY <2>3, <3>1, <3>6, <1>9, Zenon DEF Periodic
        <5> QED
          BY <5>1, <3>1, <1>15, Zenon DEF Ahead
      <4>3. Cardinality(Ahead(x)') = Cardinality(Ahead(x)) - 1
        BY <4>2, <3>3, FS_RemoveElement, Zenon
      <4> QED
        BY <4>1, <4>3, <2>1, <3>2, <3>3, <1>16, SMTT(40)
    <3> QED
      BY <3>5, <3>6, Zenon
  <2> QED
    BY <2>2, <2>3, Zenon
<1>18. LateInv'
  BY <1>1, <1>9, <1>15, <1>16, <1>17, Zenon DEF LateInv
<1> QED
  BY <1>13, <1>14, <1>18, Zenon DEF TInv

----------------------------------------------------------------------------
(* The theorems *)

LEMMA StutterInv ==
  ASSUME TInv, UNCHANGED vars
  PROVE  TInv'
<1>1. /\ timers' = timers /\ Time' = Time /\ Period' = Period /\ State' = State
      /\ cursor' = cursor /\ due' = due /\ starts' = starts
  BY Zenon DEF vars
<1>2. Listed' = Listed /\ Periodic' = Periodic
  BY <1>1, Zenon DEF Listed, Periodic
<1>3. \A x : Ahead(x)' = Ahead(x) /\ (Todo(x)' <=> Todo(x)) /\ Missed(x)' = Missed(x)
  BY <1>1, <1>2, Zenon DEF Ahead, Todo, Missed, Lag
<1>4. ShapeInv' /\ OrderInv' /\ LateInv'
  BY <1>1, <1>2, <1>3, Zenon DEF TInv, ShapeInv, TimerTypeOK, OrderInv, LateInv
<1> QED
  BY <1>4, Zenon DEF TInv

\* The list stays as the walk needs it, and the ticks a timer is late by and
\* the periodic timers ahead of it stay within those ever created.
THEOREM TimerInvariant == Spec => []TInv
<1>1. ASSUME TInv, [Next]_vars PROVE TInv'
  <2>1. CASE \E x \in Timer, time \in 1..MaxTime, period \in 0..MaxTime : exos_timer_create(x, time, period)
    BY <1>1, <2>1, CreateInv, Zenon
  <2>2. CASE \E x \in Timer : exos_timer_dispose(x)
    BY <1>1, <2>2, DisposeInv, Zenon
  <2>3. CASE __kernel_tick
    BY <1>1, <2>3, TickInv, Zenon
  <2>4. CASE CountDown
    BY <1>1, <2>4, CountDownInv, Zenon
  <2>5. CASE Finish
    BY <1>1, <2>5, FinishInv, Zenon
  <2>6. CASE Reload
    BY <1>1, <2>6, ReloadInv, Zenon
  <2>7. CASE UNCHANGED vars
    BY <1>1, <2>7, StutterInv, Zenon
  <2> QED
    BY <1>1, <2>1, <2>2, <2>3, <2>4, <2>5, <2>6, <2>7, Zenon DEF Next, Walk
<1> QED
  BY <1>1, InitInv, PTL DEF Spec

\* Between ticks the list is sorted with nothing due on it, no timer runs
\* ahead of the ticks, and each creation of a periodic timer costs any other
\* at most one: the list _tick_handler leaves, for any number of timers.
THEOREM LateByPeriodicTimers == Spec => []LateAtMostOnePerPeriodic
<1>1. ASSUME TInv PROVE LateAtMostOnePerPeriodic
  <2>1. TimerTypeOK /\ timers \in Seq(Timer) /\ Distinct(timers)
    BY <1>1, Zenon DEF TInv, ShapeInv, TimerTypeOK
  <2>2. ASSUME NEW i \in DOMAIN timers, NEW j \in DOMAIN timers, i < j
        PROVE  timers[i] # timers[j] /\ Time[timers[i]] <= Time[timers[j]]
    <3>1. Before(timers, timers[i], timers[j])
      BY <2>2, Zenon DEF Before
    <3>2. timers[i] \in Listed /\ timers[j] \in Listed
      BY Zenon DEF Listed, Range
    <3>3. timers[i] # timers[j]
      BY <3>1, <2>1, BeforeIsOrder, Zenon
    <3> QED
      BY <3>1, <3>2, <3>3, <1>1, Zenon DEF TInv, OrderInv
  <2>3. \A x \in Listed : State[x] = "RUNNING" /\ Time[x] > 0
    BY <1>1, Zenon DEF TInv, OrderInv
  <2>4. ASSUME cursor = Nil, NEW x \in Listed PROVE Lag(x) \in 0..starts
    <3>1. Lag(x) = Missed(x) /\ Lag(x) \in Int /\ starts \in Int
      BY <2>4, <1>1, Times DEF Missed, Todo
    <3>2. Missed(x) >= 0 /\ Missed(x) + Cardinality(Ahead(x)) <= starts
      BY <1>1, Zenon DEF TInv, LateInv
    <3>3. Cardinality(Ahead(x)) \in Nat
      BY <1>1, Counts, Zenon DEF TInv
    <3> QED
      BY <3>1, <3>2, <3>3, SMTT(40)
  <2> QED
    BY <2>1, <2>2, <2>3, <2>4, Zenon DEF LateAtMostOnePerPeriodic
<1> QED
  BY <1>1, TimerInvariant, PTL

\* No timer fires before its time, whatever else is on the list: a node
\* _tick_handler takes to be due was given every tick it was asked to wait.
THEOREM NoTimerIsEarly == Spec => NeverEarly
<1>1. ASSUME TInv, [Next]_vars PROVE [NotEarly]_vars
  <2> SUFFICES ASSUME Next, cursor # Nil, Time'[cursor] >= Time[cursor]
               PROVE  due[cursor] <= 0
    BY <1>1, Zenon DEF NotEarly
  <2>1. CASE CountDown
    <3>1. cursor \in Listed
      BY <1>1, Zenon DEF TInv, ShapeInv
    <3>2. cursor \in Timer /\ Time[cursor] \in Int
      BY <3>1, <1>1, Times, Zenon
    <3>3. Time'[cursor] = Time[cursor] - 1
      BY <2>1, <3>2, <1>1, Zenon DEF CountDown, TInv, ShapeInv, TimerTypeOK
    <3> QED
      BY <3>2, <3>3
  <2>2. CASE Finish \/ Reload
    <3>1. Due(cursor)
      BY <2>2, Zenon DEF Finish, Reload
    <3> QED
      BY <3>1, <1>1, DueIsHead, Zenon
  <2> QED
    BY <2>1, <2>2, Zenon DEF Next, Walk, exos_timer_create, exos_timer_dispose, __kernel_tick
<1> QED
  BY <1>1, TimerInvariant, PTL DEF Spec, NeverEarly

----------------------------------------------------------------------------
(***************************************************************************)
(* Proofs about the USB host, for any number of channels and endpoints and *)
(* however often a device is plugged in.                                   *)
(*                                                                         *)
(* Channels are closed by the channel interrupt, at any moment, and by the *)
(* context thread when it stops a pipe, in steps.  UsbInv says how far the *)
(* thread has come with that, so that the endpoint it gives back to the    *)
(* pool has no channel left.                                               *)
(***************************************************************************)

\* Where a thread is when it stops a pipe, and when it stops none.
StopPlace == {"Tx", "close Tx", "Rx", "close Rx", "pool"}
OtherPlace == {"idle", "control", "mutex", "begin", "issue", "enter", "wait", "next", "failed", "attach",
               "create", "start", "startpipe", "debounce", "detach", "stop", "stopped", "root"}
Place == OtherPlace \cup StopPlace

ChannelRecord == [ep : Ep \cup {nullptr}, Period : BOOLEAN, Request : Urb \cup {nullptr},
                  hc : {"off", "on", "halt"}]
EpRecord == [Tx : Channel \cup {nullptr}, Rx : Channel \cup {nullptr}, Status : {"IDLE", "BUSY", "STOPPING"}]

CoreTypes ==
  /\ ch \in [Channel -> ChannelRecord]
  /\ ep \in [Ep -> EpRecord]
  /\ free \in Seq(Ep)

CallTypes ==
  /\ _root_control_ep \in Ep \cup {nullptr}
  /\ Endpoint \in [Pipe -> Ep \cup {nullptr}]
  /\ pc \in [Thread -> Place]
  /\ local \in [Thread -> [ep : Ep \cup {nullptr}, ch : Channel \cup {nullptr}]]

\* The two ends of the link, and the pool.
Linked ==
  /\ \A c \in Channel, e \in Ep : ch[c].ep = e <=> c \in {ep[e].Tx, ep[e].Rx}
  /\ \A e \in Ep : ep[e].Tx # nullptr => ep[e].Tx # ep[e].Rx
Pooled ==
  \A i \in DOMAIN free :
    /\ ep[free[i]].Tx = nullptr /\ ep[free[i]].Rx = nullptr
    /\ \A j \in DOMAIN free : free[i] = free[j] => i = j

\* How far usb_fs_host_stop_pipe has come with the endpoint of the pipe.
StopsAt(place, e, c) ==
  /\ e \in Ep
  /\ place \in {"close Tx", "close Rx"} => c \in Channel
  /\ place = "close Tx" => ep[e].Tx \in {nullptr, c}
  /\ place \in {"Rx", "close Rx", "pool"} => ep[e].Tx = nullptr
  /\ place = "close Rx" => ep[e].Rx \in {nullptr, c}
  /\ place = "pool" => ep[e].Rx = nullptr
StopInv ==
  pc["context"] \in StopPlace =>
    stopping \in Pipe /\ StopsAt(pc["context"], Endpoint[stopping], local["context"].ch)

UsbInv == CoreTypes /\ CallTypes /\ Linked /\ Pooled /\ StopInv

----------------------------------------------------------------------------
(* What the operators do to the links *)

LEMMA Numbers ==
  /\ nullptr \notin Channel /\ nullptr \notin Ep
  /\ "context" \in Thread /\ "client" \in Thread
  /\ "control" \in Pipe /\ "input" \in Pipe
<1>1. nullptr \notin Channel /\ nullptr \notin Ep
  BY UsbAssumption DEF Channel, Ep
<1> QED
  BY <1>1, Zenon DEF Thread, Pipe

\* Every link is as it was.
LinksKept ==
  /\ \A c \in Channel : ch'[c].ep = ch[c].ep
  /\ \A e \in Ep : ep'[e].Tx = ep[e].Tx /\ ep'[e].Rx = ep[e].Rx

\* A step that opens and closes no channel and leaves the pool alone.
LEMMA KeepsLinks ==
  ASSUME UsbInv, LinksKept, CoreTypes', CallTypes', free' = free,
         pc'["context"] \in StopPlace =>
           stopping' \in Pipe /\ StopsAt(pc'["context"], Endpoint'[stopping'], local'["context"].ch)
  PROVE  UsbInv'
<1>1. CoreTypes /\ Linked /\ Pooled
  BY Zenon DEF UsbInv
<1>2. Linked'
  <2>1. \A c \in Channel, e \in Ep : ch'[c].ep = e <=> c \in {ep'[e].Tx, ep'[e].Rx}
    BY ONLY <1>1, LinksKept DEF Linked, LinksKept
  <2>2. \A e \in Ep : ep'[e].Tx # nullptr => ep'[e].Tx # ep'[e].Rx
    BY ONLY <1>1, LinksKept, Zenon DEF Linked, LinksKept
  <2> QED
    BY <2>1, <2>2, Zenon DEF Linked
<1>3. \A i \in DOMAIN free : free[i] \in Ep
  BY ONLY <1>1 DEF CoreTypes
<1>4. Pooled'
  BY ONLY <1>1, <1>3, free' = free, LinksKept, Zenon DEF Pooled, LinksKept
<1>5. StopInv'
  <2> SUFFICES ASSUME pc'["context"] \in StopPlace
               PROVE  stopping' \in Pipe /\ StopsAt(pc["context"], Endpoint[stopping], local["context"].ch)'
    BY Zenon DEF StopInv
  <2>1. stopping' \in Pipe /\ StopsAt(pc'["context"], Endpoint'[stopping'], local'["context"].ch)
    BY Zenon
  <2>2. Endpoint'[stopping'] \in Ep
    BY <2>1, Zenon DEF StopsAt
  <2> QED
    BY ONLY <2>1, <2>2, LinksKept, Zenon DEF StopsAt, LinksKept
<1> QED
  BY ONLY <1>2, <1>4, <1>5, CoreTypes', CallTypes', Zenon DEF UsbInv

\* Where the context thread is with stopping a pipe does not change, or it
\* stops none.
PlaceKept ==
  \/ pc'["context"] \notin StopPlace
  \/ /\ pc'["context"] = pc["context"] /\ local'["context"] = local["context"]
     /\ Endpoint' = Endpoint /\ stopping' = stopping

LEMMA PlaceKeeps ==
  ASSUME UsbInv, LinksKept, CoreTypes', CallTypes', free' = free, PlaceKept
  PROVE  UsbInv'
<1>1. ASSUME pc'["context"] \in StopPlace
      PROVE  stopping' \in Pipe /\ StopsAt(pc'["context"], Endpoint'[stopping'], local'["context"].ch)
  <2>1. /\ pc'["context"] = pc["context"] /\ local'["context"] = local["context"]
        /\ Endpoint' = Endpoint /\ stopping' = stopping
    BY <1>1, Zenon DEF PlaceKept
  <2>2. stopping \in Pipe /\ StopsAt(pc["context"], Endpoint[stopping], local["context"].ch)
    BY <1>1, <2>1, Zenon DEF UsbInv, StopInv
  <2> QED
    BY ONLY <2>1, <2>2, Zenon
<1> QED
  BY <1>1, KeepsLinks, Zenon

\* A step that leaves the endpoints and the channels alone.
LEMMA AsideKeeps ==
  ASSUME UsbInv, UNCHANGED <<ch, ep, free>>, CallTypes', PlaceKept
  PROVE  UsbInv'
<1>1. LinksKept /\ free' = free
  BY Zenon DEF LinksKept
<1>2. CoreTypes'
  BY Zenon DEF UsbInv, CoreTypes
<1> QED
  BY <1>1, <1>2, PlaceKeeps, Zenon

LEMMA GotoMoves ==
  ASSUME NEW t \in Thread, NEW place \in Place, pc \in [Thread -> Place], Goto(t, place)
  PROVE  /\ pc' \in [Thread -> Place]
         /\ pc'[t] = place
         /\ \A u \in Thread : u # t => pc'[u] = pc[u]
BY Zenon DEF Goto

\* A request is put on a channel: no link changes.
LEMMA IssueLinks ==
  ASSUME CoreTypes, NEW u \in Urb, NEW on, Issue(u, on)
  PROVE  LinksKept /\ ch' \in [Channel -> ChannelRecord] /\ ep' \in [Ep -> EpRecord]
<1>1. ch' \in [Channel -> ChannelRecord] /\ \A c \in Channel : ch'[c].ep = ch[c].ep
  BY ZenonT(40) DEF CoreTypes, Issue, ChannelRecord
<1>2. ep' \in [Ep -> EpRecord] /\ \A e \in Ep : ep'[e].Tx = ep[e].Tx /\ ep'[e].Rx = ep[e].Rx
  BY ZenonT(40) DEF CoreTypes, Issue, EpRecord
<1> QED
  BY <1>1, <1>2, Zenon DEF LinksKept

\* _xfer_complete on a channel that stays open.
LEMMA SettleOpen ==
  ASSUME CoreTypes, NEW c \in Channel, NEW u, Settle(c, u, FALSE, "off")
  PROVE  LinksKept /\ ch' \in [Channel -> ChannelRecord] /\ ep' \in [Ep -> EpRecord]
<1>1. ch' \in [Channel -> ChannelRecord] /\ \A d \in Channel : ch'[d].ep = ch[d].ep
  <2>1. \A d \in Channel : ch[d] \in ChannelRecord
    BY Zenon DEF CoreTypes
  <2>2. ch' = [d \in Channel |-> ch'[d]]
    BY Zenon DEF CoreTypes, Settle
  <2>3. \A d \in Channel : d # c => ch'[d] = ch[d]
    BY Zenon DEF CoreTypes, Settle
  <2>4. ch'[c] = [[[ch[c] EXCEPT !.Request = IF u = nullptr THEN @ ELSE nullptr] EXCEPT !.ep = @] EXCEPT !.hc = "off"]
    BY Zenon DEF CoreTypes, Settle
  <2>5. ch'[c] \in ChannelRecord /\ ch'[c].ep = ch[c].ep
    BY <2>1, <2>4, Zenon DEF ChannelRecord
  <2> QED
    BY <2>1, <2>2, <2>3, <2>5, Zenon
<1>2. ep' \in [Ep -> EpRecord] /\ \A e \in Ep : ep'[e].Tx = ep[e].Tx /\ ep'[e].Rx = ep[e].Rx
  BY ZenonT(40) DEF CoreTypes, Settle, EpRecord
<1> QED
  BY <1>1, <1>2, Zenon DEF LinksKept

\* Channel c alone is closed: its endpoint has it no more, on either side.
Closes(c) ==
  /\ \A d \in Channel : ch'[d].ep = IF d = c THEN nullptr ELSE ch[d].ep
  /\ \A e \in Ep : /\ ep'[e].Tx = IF ep[e].Tx = c THEN nullptr ELSE ep[e].Tx
                   /\ ep'[e].Rx = IF ep[e].Rx = c THEN nullptr ELSE ep[e].Rx

\* _xfer_complete and _free_channel.
LEMMA SettleClose ==
  ASSUME CoreTypes, Linked, NEW c \in Channel, NEW u, Settle(c, u, TRUE, "off"), ch[c].ep # nullptr
  PROVE  Closes(c) /\ ch' \in [Channel -> ChannelRecord] /\ ep' \in [Ep -> EpRecord]
<1> DEFINE f == ch[c].ep
<1>1. f \in Ep
  BY Zenon DEF CoreTypes, ChannelRecord
<1>2. /\ ch' \in [Channel -> ChannelRecord]
      /\ \A d \in Channel : ch'[d].ep = IF d = c THEN nullptr ELSE ch[d].ep
  BY DEF CoreTypes, Settle, ChannelRecord
<1>3. ep' = [ep EXCEPT ![f] = [Unlinked(f, c) EXCEPT !.Status = "IDLE"]]
  BY Zenon DEF Settle
<1>4. \A e \in Ep : ep[e] \in EpRecord
  BY Zenon DEF CoreTypes
<1>5. \A e \in Ep \ {f} : ep[e].Tx # c /\ ep[e].Rx # c
  BY <1>1, Zenon DEF Linked
<1>6. c \in {ep[f].Tx, ep[f].Rx} /\ (ep[f].Tx # nullptr => ep[f].Tx # ep[f].Rx)
  BY <1>1, Zenon DEF Linked
<1>7. ep'[f] \in EpRecord /\ ep'[f].Tx = (IF ep[f].Tx = c THEN nullptr ELSE ep[f].Tx)
                          /\ ep'[f].Rx = (IF ep[f].Rx = c THEN nullptr ELSE ep[f].Rx)
  <2> HIDE DEF f
  <2>1. ep'[f] = [Unlinked(f, c) EXCEPT !.Status = "IDLE"]
    BY <1>1, <1>3, Zenon DEF CoreTypes
  <2> QED
    BY <1>1, <1>4, <1>6, <2>1, Numbers, Zenon DEF Unlinked, EpRecord
<1>8. \A e \in Ep : /\ ep'[e] \in EpRecord
                    /\ ep'[e].Tx = (IF ep[e].Tx = c THEN nullptr ELSE ep[e].Tx)
                    /\ ep'[e].Rx = (IF ep[e].Rx = c THEN nullptr ELSE ep[e].Rx)
  <2> HIDE DEF f
  <2> TAKE e \in Ep
  <2>1. CASE e = f
    BY <1>7, <2>1, Zenon
  <2>2. CASE e # f
    <3>1. ep'[e] = ep[e]
      BY <1>3, <2>2, Zenon DEF CoreTypes
    <3> QED
      BY <1>4, <1>5, <2>2, <3>1, Zenon
  <2> QED
    BY <2>1, <2>2, Zenon
<1>9. ep' \in [Ep -> EpRecord]
  <2> HIDE DEF f
  <2>1. ep' = [e \in Ep |-> ep'[e]]
    BY <1>3, Zenon DEF CoreTypes
  <2> QED
    BY <1>8, <2>1, Zenon
<1> QED
  BY <1>2, <1>8, <1>9, Zenon DEF Closes

\* Closing a channel keeps everything, and a thread that stops a pipe comes
\* no worse off.
LEMMA CloseKeeps ==
  ASSUME UsbInv, NEW c \in Channel, Closes(c), free' = free
  PROVE  /\ Linked' /\ Pooled'
         /\ \A e \in Ep, place \in StopPlace, d \in Channel \cup {nullptr} :
              StopsAt(place, e, d) => StopsAt(place, e, d)'
<1>0. c # nullptr
  BY Numbers, Zenon
<1>1. CoreTypes /\ Linked /\ Pooled
  BY Zenon DEF UsbInv
<1>2. \A d \in Channel, e \in Ep : ch'[d].ep = e <=> d \in {ep'[e].Tx, ep'[e].Rx}
  <2> TAKE d \in Channel, e \in Ep
  <2>1. d # nullptr /\ e # nullptr
    BY Numbers, Zenon
  <2>2. ch[d].ep = e <=> d \in {ep[e].Tx, ep[e].Rx}
    BY <1>1, Zenon DEF Linked
  <2>3. /\ ch'[d].ep = IF d = c THEN nullptr ELSE ch[d].ep
        /\ ep'[e].Tx = IF ep[e].Tx = c THEN nullptr ELSE ep[e].Tx
        /\ ep'[e].Rx = IF ep[e].Rx = c THEN nullptr ELSE ep[e].Rx
    BY Zenon DEF Closes
  <2> QED
    BY ONLY <2>1, <2>2, <2>3, Zenon
<1>3. \A e \in Ep : ep'[e].Tx # nullptr => ep'[e].Tx # ep'[e].Rx
  BY ONLY <1>0, <1>1, Closes(c), Zenon DEF Linked, Closes
<1>4. \A i \in DOMAIN free : free[i] \in Ep
  BY ONLY <1>1 DEF CoreTypes
<1>5. Pooled'
  BY ONLY <1>1, <1>4, free' = free, Closes(c), Zenon DEF Pooled, Closes
<1>6. \A e \in Ep, place \in StopPlace, d \in Channel \cup {nullptr} :
        StopsAt(place, e, d) => StopsAt(place, e, d)'
  BY ONLY Closes(c), ZenonT(40) DEF StopsAt, Closes
<1> QED
  BY <1>2, <1>3, <1>5, <1>6, Zenon DEF Linked

----------------------------------------------------------------------------
(* Starting a pipe *)

\* _alloc_channel finds a channel when there is one.
LEMMA LowestIsIn ==
  ASSUME NEW S \in SUBSET Channel, S # {}
  PROVE  Lowest(S) \in S
<1>1. S \subseteq Nat
  BY UsbAssumption DEF Channel
<1>2. PICK c \in S : \A d \in S : <<d, c>> \notin OpToRel(<, Nat)
  BY <1>1, NatLessThanWellFounded, WFMin, Zenon
<1>3. \A d \in S : c <= d
  <2>1. ASSUME NEW d \in S, d < c PROVE FALSE
    <3>1. d \in Nat /\ c \in Nat
      BY <1>1, Zenon
    <3>2. <<d, c>> \in OpToRel(<, Nat)
      BY <2>1, <3>1, Zenon DEF OpToRel
    <3> QED
      BY <1>2, <3>2, Zenon
  <2> QED
    BY <1>1, <2>1
<1> QED
  BY <1>3, Zenon DEF Lowest

\* ... and a second one when there are two.
LEMMA EnoughChannels ==
  ASSUME NEW n \in 1..2, Cardinality(FreeChannels) >= n
  PROVE  /\ FreeChannels # {}
         /\ n = 2 => FreeChannels \ {Lowest(FreeChannels)} # {}
<1> DEFINE F == FreeChannels
           c == Lowest(F)
<1>1. IsFiniteSet(Channel)
  BY UsbAssumption, FS_Interval DEF Channel
<1>2. F \in SUBSET Channel
  BY Zenon DEF FreeChannels
<1>3. IsFiniteSet(F)
  BY <1>1, <1>2, FS_Subset, Zenon
<1> HIDE DEF F
<1>4. Cardinality(F) \in Nat /\ Cardinality(F) >= n
  BY <1>3, FS_CardinalityType, Zenon DEF F
<1>5. F # {}
  BY <1>4, FS_EmptySet
<1>6. ASSUME n = 2 PROVE F \ {c} # {}
  <2>1. c \in F
    BY <1>2, <1>5, LowestIsIn, Zenon
  <2> HIDE DEF c
  <2>2. Cardinality(F \ {c}) = Cardinality(F) - 1
    BY <1>3, <2>1, FS_RemoveElement, Zenon
  <2> QED
    BY <1>4, <1>6, <2>2, FS_EmptySet, SMTT(40)
<1> QED
  BY <1>5, <1>6, Zenon DEF F

\* An endpoint of the pool gets channels that no endpoint has.
LEMMA OpenKeeps ==
  ASSUME UsbInv, free # <<>>, NEW tx \in FreeChannels \cup {nullptr}, NEW rx \in FreeChannels,
         tx # rx, NEW periodic \in BOOLEAN, Opened(Head(free), tx, rx, periodic)
  PROVE  CoreTypes' /\ Linked' /\ Pooled' /\ Head(free) \in Ep
<1> DEFINE f == Head(free)
<1>1. CoreTypes /\ Linked /\ Pooled
  BY Zenon DEF UsbInv
<1>2. f \in Ep /\ f = free[1] /\ 1 \in DOMAIN free
  BY <1>1 DEF CoreTypes
<1>3. ep[f].Tx = nullptr /\ ep[f].Rx = nullptr
  BY <1>1, <1>2, Zenon DEF Pooled
<1>4. free' = Tail(free) /\ free' \in Seq(Ep)
  BY <1>1 DEF CoreTypes, Opened, pool_allocate
<1>5. /\ tx \in Channel \cup {nullptr} /\ rx \in Channel
      /\ \A e \in Ep : rx \notin {ep[e].Tx, ep[e].Rx}
      /\ \A e \in Ep : tx # nullptr => tx \notin {ep[e].Tx, ep[e].Rx}
  <2>1. rx \in Channel /\ ch[rx].ep = nullptr /\ (tx # nullptr => tx \in Channel /\ ch[tx].ep = nullptr)
    BY Zenon DEF FreeChannels
  <2>2. \A e \in Ep : e # nullptr
    BY Numbers, Zenon
  <2>3. \A c \in Channel, e \in Ep : ch[c].ep = e <=> c \in {ep[e].Tx, ep[e].Rx}
    BY <1>1, Zenon DEF Linked
  <2> QED
    BY ONLY <2>1, <2>2, <2>3
<1>6. /\ ch' \in [Channel -> ChannelRecord]
      /\ \A c \in Channel : ch'[c].ep = IF c \in {tx, rx} THEN f ELSE ch[c].ep
  <2> DEFINE new == [NoChannel EXCEPT !.ep = f, !.Period = periodic]
  <2>1. ch' = [c \in Channel |-> IF c \in {tx, rx} THEN new ELSE ch[c]]
    BY Zenon DEF Opened
  <2> HIDE DEF f
  <2>2. new \in ChannelRecord /\ new.ep = f
    BY <1>2, Zenon DEF NoChannel, ChannelRecord
  <2> HIDE DEF new
  <2> QED
    BY <1>1, <2>1, <2>2, Zenon DEF CoreTypes
<1>7. /\ ep' \in [Ep -> EpRecord]
      /\ ep'[f].Tx = tx /\ ep'[f].Rx = rx
      /\ \A e \in Ep : e # f => ep'[e] = ep[e]
  <2>1. ep' = [ep EXCEPT ![f] = [Tx |-> tx, Rx |-> rx, Status |-> "IDLE"]]
    BY Zenon DEF Opened
  <2> HIDE DEF f
  <2> QED
    BY <1>1, <1>2, <1>5, <2>1, Zenon DEF CoreTypes, EpRecord
<1> HIDE DEF f
<1>8. \A c \in Channel, e \in Ep : ch'[c].ep = e <=> c \in {ep'[e].Tx, ep'[e].Rx}
  <2> TAKE c \in Channel, e \in Ep
  <2>1. c # nullptr
    BY Numbers, Zenon
  <2>2. ch[c].ep = e <=> c \in {ep[e].Tx, ep[e].Rx}
    BY <1>1, Zenon DEF Linked
  <2>3. c \notin {ep[f].Tx, ep[f].Rx}
    BY <1>3, <2>1, Zenon
  <2>4. CASE e = f
    BY <1>1, <1>2, <1>6, <1>7, <2>3, <2>4, SMTT(40) DEF Linked
  <2>5. CASE e # f
    BY <1>5, <1>6, <1>7, <2>1, <2>2, <2>5, SMTT(40)
  <2> QED
    BY <2>4, <2>5, Zenon
<1>9. \A e \in Ep : ep'[e].Tx # nullptr => ep'[e].Tx # ep'[e].Rx
  BY <1>1, <1>7, Zenon DEF Linked
<1>10. \A i \in DOMAIN free' : i + 1 \in DOMAIN free /\ free'[i] = free[i + 1] /\ i \in Nat /\ i + 1 # 1
  BY <1>1, <1>4 DEF CoreTypes
<1>11. Pooled'
  <2> SUFFICES ASSUME NEW i \in DOMAIN free'
               PROVE  /\ ep'[free'[i]].Tx = nullptr /\ ep'[free'[i]].Rx = nullptr
                      /\ \A j \in DOMAIN free' : free'[i] = free'[j] => i = j
    BY Zenon DEF Pooled
  <2>1. i + 1 \in DOMAIN free /\ free'[i] = free[i + 1] /\ i + 1 # 1
    BY <1>10, Zenon
  <2>2. free[i + 1] # f /\ free[i + 1] \in Ep
    BY <1>1, <1>2, <2>1 DEF Pooled, CoreTypes
  <2>3. ep'[free'[i]].Tx = nullptr /\ ep'[free'[i]].Rx = nullptr
    <3>1. ep[free[i + 1]].Tx = nullptr /\ ep[free[i + 1]].Rx = nullptr
      BY <1>1, <2>1, Zenon DEF Pooled
    <3>2. ep'[free[i + 1]] = ep[free[i + 1]]
      BY <1>7, <2>2, Zenon
    <3> QED
      BY <2>1, <3>1, <3>2, Zenon
  <2>4. ASSUME NEW j \in DOMAIN free', free'[i] = free'[j] PROVE i = j
    <3>1. j + 1 \in DOMAIN free /\ free'[j] = free[j + 1] /\ i \in Nat /\ j \in Nat
      BY <1>10, Zenon
    <3>2. i + 1 = j + 1
      BY <1>1, <2>1, <2>4, <3>1, Zenon DEF Pooled
    <3> QED
      BY <3>1, <3>2
  <2> QED
    BY <2>3, <2>4, Zenon
<1> QED
  BY <1>2, <1>4, <1>6, <1>7, <1>8, <1>9, <1>11, Zenon DEF CoreTypes, Linked, f

\* usb_fs_host_start_pipe, whether the pipe is started, shares the control
\* endpoint, or finds no endpoint or not enough channels.
LEMMA StartKeeps ==
  ASSUME UsbInv, NEW p \in Pipe, usb_fs_host_start_pipe(p)
  PROVE  /\ CoreTypes' /\ Linked' /\ Pooled'
         /\ _root_control_ep' \in Ep \cup {nullptr} /\ Endpoint' \in [Pipe -> Ep \cup {nullptr}]
<1> DEFINE c == Lowest(FreeChannels)
           d == Lowest(FreeChannels \ {c})
<1>1. CoreTypes /\ CallTypes /\ Linked /\ Pooled
  BY Zenon DEF UsbInv
<1>2. CASE UNCHANGED <<ch, ep, free, _root_control_ep>>
           /\ \E e \in Ep \cup {nullptr} : Endpoint' \in {Endpoint, [Endpoint EXCEPT ![p] = e]}
  <2>1. CoreTypes' /\ Linked' /\ Pooled'
    BY <1>1, <1>2, ZenonT(40) DEF CoreTypes, Linked, Pooled
  <2>2. _root_control_ep' \in Ep \cup {nullptr} /\ Endpoint' \in [Pipe -> Ep \cup {nullptr}]
    BY <1>1, <1>2, Zenon DEF CallTypes
  <2> QED
    BY <2>1, <2>2, Zenon
<1>3. CASE ~CanStart(p) \/ (p = "control" /\ _root_control_ep # nullptr)
  <2>1. Endpoint' \in {Endpoint, [Endpoint EXCEPT ![p] = nullptr], [Endpoint EXCEPT ![p] = _root_control_ep]}
        /\ UNCHANGED <<ch, ep, free, _root_control_ep>>
    BY <1>3, Zenon DEF usb_fs_host_start_pipe, CanStart
  <2> QED
    BY <1>1, <1>2, <2>1, Zenon DEF CallTypes
<1>4. CASE ~(~CanStart(p) \/ (p = "control" /\ _root_control_ep # nullptr))
  <2>1. /\ free # <<>> /\ Cardinality(FreeChannels) >= (IF p = "control" THEN 2 ELSE 1)
        /\ Endpoint' = [Endpoint EXCEPT ![p] = Head(free)]
        /\ IF p = "control"
           THEN Opened(Head(free), c, d, FALSE) /\ _root_control_ep' = Head(free)
           ELSE Opened(Head(free), nullptr, c, TRUE) /\ UNCHANGED _root_control_ep
    BY <1>4, Zenon DEF usb_fs_host_start_pipe, CanStart
  <2>2. FreeChannels \in SUBSET Channel /\ nullptr \notin FreeChannels
    BY Numbers, Zenon DEF FreeChannels
  <2>3. CoreTypes' /\ Linked' /\ Pooled' /\ Head(free) \in Ep
    <3>1. CASE p = "control"
      <4>1. FreeChannels # {} /\ FreeChannels \ {c} # {}
        BY <2>1, <3>1, EnoughChannels
      <4>2. c \in FreeChannels /\ d \in FreeChannels \ {c}
        BY <2>2, <4>1, LowestIsIn, Zenon
      <4> QED
        BY <2>1, <3>1, <4>2, OpenKeeps, Zenon
    <3>2. CASE p # "control"
      <4>1. FreeChannels # {}
        BY <2>1, <3>2, EnoughChannels
      <4>2. c \in FreeChannels
        BY <2>2, <4>1, LowestIsIn, Zenon
      <4> QED
        BY <2>1, <2>2, <3>2, <4>2, OpenKeeps, Zenon
    <3> QED
      BY <3>1, <3>2, Zenon
  <2>4. _root_control_ep' \in Ep \cup {nullptr} /\ Endpoint' \in [Pipe -> Ep \cup {nullptr}]
    BY <1>1, <2>1, <2>3, Zenon DEF CallTypes
  <2> QED
    BY <2>3, <2>4, Zenon
<1> QED
  BY <1>3, <1>4, Zenon

----------------------------------------------------------------------------
(* The steps of the host *)

LEMMA Places == \A place \in OtherPlace : place \in Place /\ place \notin StopPlace
<1>1. SUFFICES ASSUME NEW place \in OtherPlace, place \in StopPlace
               PROVE  FALSE
  BY Zenon DEF Place
<1> QED
  BY <1>1, Zenon DEF OtherPlace, StopPlace

\* A thread goes on, and stops no pipe after the step.
LEMMA MoveKeeps ==
  ASSUME UsbInv, NEW t \in Thread, NEW place \in OtherPlace, Goto(t, place),
         t = "context" \/ UNCHANGED <<Endpoint, stopping>>,
         \A u \in Thread : u # t => local'[u] = local[u]
  PROVE  PlaceKept /\ pc' \in [Thread -> Place]
<1>1. pc \in [Thread -> Place] /\ place \in Place /\ place \notin StopPlace
  BY Places, Zenon DEF UsbInv, CallTypes
<1>2. pc' \in [Thread -> Place] /\ pc'[t] = place /\ \A u \in Thread : u # t => pc'[u] = pc[u]
  BY <1>1, GotoMoves, Zenon
<1>3. PlaceKept
  <2>1. CASE t = "context"
    BY <1>1, <1>2, <2>1, Zenon DEF PlaceKept
  <2>2. CASE t # "context"
    BY <1>2, <2>2, Numbers, Zenon DEF PlaceKept
  <2> QED
    BY <2>1, <2>2, Zenon
<1> QED
  BY <1>2, <1>3, Zenon

\* An assertion that fails changes nothing else.
LEMMA FailsKeeps ==
  ASSUME UsbInv, NEW assertion, Fails(assertion)
  PROVE  UsbInv'
<1>1. UNCHANGED <<ch, ep, free, _root_control_ep, Endpoint, pc, local, stopping>>
  BY Zenon DEF Fails, coreVars, threadVars
<1>2. CallTypes' /\ PlaceKept
  BY <1>1, Zenon DEF UsbInv, CallTypes, PlaceKept
<1> QED
  BY <1>1, <1>2, AsideKeeps, Zenon

\* A step of a thread that leaves endpoints, channels and pipes alone.
LEMMA MovesAside ==
  ASSUME UsbInv, NEW t \in Thread, NEW place \in OtherPlace, Goto(t, place),
         UNCHANGED <<ch, ep, free, _root_control_ep, Endpoint>>,
         t = "context" \/ stopping' = stopping, local' = local
  PROVE  UsbInv'
<1>1. PlaceKept /\ pc' \in [Thread -> Place]
  BY MoveKeeps, Zenon
<1>2. CallTypes'
  BY <1>1, Zenon DEF UsbInv, CallTypes
<1> QED
  BY <1>1, <1>2, AsideKeeps, Zenon

\* The steps of a control request.
LEMMA ControlKeeps ==
  ASSUME UsbInv, NEW t \in Thread,
         \/ LockControl(t) \/ LockMutex(t) \/ _do_control_xfer(t)
         \/ IssueControl(t) \/ EnterWait(t) \/ WaitAgain(t) \/ Resumed(t)
  PROVE  UsbInv'
<1>0. {"mutex", "begin", "issue", "enter", "wait", "idle", "next", "failed"} \subseteq OtherPlace
  BY Zenon DEF OtherPlace
<1>01. CoreTypes /\ CallTypes
  BY Zenon DEF UsbInv
<1>1. CASE LockControl(t)
  BY <1>0, <1>1, MovesAside, Zenon DEF LockControl, coreVars
<1>2. CASE LockMutex(t)
  BY <1>0, <1>2, MovesAside, Zenon DEF LockMutex
<1>3. CASE _do_control_xfer(t)
  <2> DEFINE e == Endpoint["control"]
             c == IF Head(stages[t]) = "Rx" THEN ep[e].Rx ELSE ep[e].Tx
  <2>1. CASE \E assertion : Fails(assertion)
    BY <2>1, FailsKeeps, Zenon
  <2>2. CASE /\ e # nullptr /\ c # nullptr
             /\ local' = [local EXCEPT ![t] = [ep |-> e, ch |-> c]]
             /\ Goto(t, "issue")
             /\ UNCHANGED <<ch, ep, free, _root_control_ep, Endpoint, stopping>>
    <3>1. e \in Ep /\ c \in Channel
      BY <1>01, <2>2, Numbers, Zenon DEF CoreTypes, CallTypes, EpRecord
    <3> HIDE DEF e, c
    <3>2. /\ local' \in [Thread -> [ep : Ep \cup {nullptr}, ch : Channel \cup {nullptr}]]
          /\ \A u \in Thread : u # t => local'[u] = local[u]
      BY <1>01, <2>2, <3>1, Zenon DEF CallTypes
    <3>3. PlaceKept /\ pc' \in [Thread -> Place]
      BY <1>0, <2>2, <3>2, MoveKeeps, Zenon
    <3>4. CallTypes'
      BY <1>01, <2>2, <3>2, <3>3, Zenon DEF CallTypes
    <3> QED
      BY <2>2, <3>3, <3>4, AsideKeeps, Zenon
  <2> QED
    BY <1>3, <2>1, <2>2, Zenon DEF _do_control_xfer
<1>4. CASE IssueControl(t)
  <2>1. CASE \E assertion : Fails(assertion)
    BY <2>1, FailsKeeps, Zenon
  <2>2. CASE /\ Issue(t, local[t]) /\ Goto(t, "enter")
             /\ UNCHANGED <<free, _root_control_ep, Endpoint, local, stopping>>
    <3>1. t \in Urb
      BY Zenon DEF Thread, Urb
    <3>2. LinksKept /\ CoreTypes'
      BY <1>01, <2>2, <3>1, IssueLinks, Zenon DEF CoreTypes
    <3>3. PlaceKept /\ pc' \in [Thread -> Place]
      BY <1>0, <2>2, MoveKeeps, Zenon
    <3>4. CallTypes'
      BY <1>01, <2>2, <3>3, Zenon DEF CallTypes
    <3> QED
      BY <2>2, <3>2, <3>3, <3>4, PlaceKeeps, Zenon
  <2> QED
    BY <1>4, <2>1, <2>2, Zenon DEF IssueControl
<1>5. CASE EnterWait(t)
  BY <1>0, <1>5, MovesAside, Zenon DEF EnterWait
<1>6. CASE WaitAgain(t)
  BY <1>0, <1>6, MovesAside, Zenon DEF WaitAgain
<1>7. CASE Resumed(t)
  <2>1. CASE \E assertion : Fails(assertion)
    BY <2>1, FailsKeeps, Zenon
  <2>2. CASE /\ UNCHANGED <<ch, ep, free, _root_control_ep, Endpoint, stopping>>
             /\ \E place \in {"begin", "idle", "next", "failed"} : Goto(t, place)
             /\ local' \in {local, [local EXCEPT ![t] = [ep |-> nullptr, ch |-> nullptr]]}
    <3>1. /\ local' \in [Thread -> [ep : Ep \cup {nullptr}, ch : Channel \cup {nullptr}]]
          /\ \A u \in Thread : u # t => local'[u] = local[u]
      BY <1>01, <2>2 DEF CallTypes
    <3>2. PICK place \in OtherPlace : Goto(t, place)
      BY <1>0, <2>2, Zenon
    <3>3. PlaceKept /\ pc' \in [Thread -> Place]
      BY <2>2, <3>1, <3>2, MoveKeeps, Zenon
    <3>4. CallTypes'
      BY <1>01, <2>2, <3>1, <3>3, Zenon DEF CallTypes
    <3> QED
      BY <2>2, <3>3, <3>4, AsideKeeps, ZenonT(40)
  <2> QED
    BY <1>7, <2>1, <2>2, Zenon DEF Resumed
<1> QED
  BY <1>1, <1>2, <1>3, <1>4, <1>5, <1>6, <1>7, Zenon

\* The context thread goes on; pipes may be started, or forgotten.
LEMMA ContextKeeps ==
  ASSUME UsbInv, NEW place \in OtherPlace, Goto("context", place), local' = local,
         CoreTypes', Linked', Pooled',
         _root_control_ep' \in Ep \cup {nullptr}, Endpoint' \in [Pipe -> Ep \cup {nullptr}]
  PROVE  UsbInv'
<1>1. pc \in [Thread -> Place] /\ place \in Place /\ place \notin StopPlace
  BY Places, Zenon DEF UsbInv, CallTypes
<1>2. pc' \in [Thread -> Place] /\ pc'["context"] = place
  BY <1>1, GotoMoves, Numbers, Zenon
<1>3. CallTypes'
  BY <1>2, Zenon DEF UsbInv, CallTypes
<1>4. StopInv'
  BY <1>1, <1>2, Zenon DEF StopInv
<1> QED
  BY <1>3, <1>4, Zenon DEF UsbInv

LEMMA ContextAside ==
  ASSUME UsbInv, NEW place \in OtherPlace, Goto("context", place),
         UNCHANGED <<local, ch, ep, free, _root_control_ep>>,
         Endpoint' = Endpoint \/ \E p \in Pipe : Endpoint' = [Endpoint EXCEPT ![p] = nullptr]
  PROVE  UsbInv'
<1>1. CoreTypes' /\ Linked' /\ Pooled'
  BY ZenonT(40) DEF UsbInv, CoreTypes, Linked, Pooled
<1>2. _root_control_ep' \in Ep \cup {nullptr} /\ Endpoint' \in [Pipe -> Ep \cup {nullptr}]
  BY Zenon DEF UsbInv, CallTypes
<1> QED
  BY <1>1, <1>2, ContextKeeps, Zenon

\* The steps of the enumeration.
LEMMA EnumerationKeeps ==
  ASSUME UsbInv,
         \/ usb_hid_set_report \/ usb_host_create_root_device \/ _create_device
         \/ Proceed \/ Failed \/ DriverStart \/ StartInput
  PROVE  UsbInv'
<1>0. {"control", "create", "idle", "start", "startpipe"} \subseteq OtherPlace
  BY Zenon DEF OtherPlace
<1>1. CASE usb_hid_set_report
  BY <1>0, <1>1, MovesAside, Numbers, Zenon DEF usb_hid_set_report, Call, coreVars
<1>2. CASE usb_host_create_root_device
  BY <1>0, <1>2, ContextAside, Numbers, Zenon DEF usb_host_create_root_device
<1>3. CASE _create_device
  <2>1. usb_fs_host_start_pipe("control") /\ local' = local
    BY <1>3, Zenon DEF _create_device
  <2>2. PICK place \in OtherPlace : Goto("context", place)
    BY <1>0, <1>3, Zenon DEF _create_device, Ask, Call
  <2> QED
    BY <2>1, <2>2, StartKeeps, ContextKeeps, Numbers, Zenon
<1>4. CASE Proceed
  <2>1. UNCHANGED <<local, ch, ep, free, _root_control_ep>>
    BY <1>4, Zenon DEF Proceed, Created
  <2>2. Endpoint' = Endpoint \/ \E p \in Pipe : Endpoint' = [Endpoint EXCEPT ![p] = nullptr]
    BY <1>4, Numbers, Zenon DEF Proceed
  <2>3. PICK place \in OtherPlace : Goto("context", place)
    BY <1>0, <1>4, Zenon DEF Proceed, Created, Ask, Call
  <2> QED
    BY <2>1, <2>2, <2>3, ContextAside, Zenon
<1>5. CASE Failed
  <2>1. CASE \E assertion : Fails(assertion)
    BY <2>1, FailsKeeps, Zenon
  <2>2. CASE UNCHANGED coreVars /\ \E state, f : Created(state, f)
    BY <1>0, <2>2, ContextAside, Zenon DEF Created, coreVars
  <2> QED
    BY <1>5, <2>1, <2>2, Zenon DEF Failed
<1>6. CASE DriverStart
  <2>1. UNCHANGED <<local, ch, ep, free, _root_control_ep, Endpoint>>
    BY <1>6, Zenon DEF DriverStart, Created, coreVars
  <2>2. PICK place \in OtherPlace : Goto("context", place)
    BY <1>0, <1>6, Zenon DEF DriverStart, Created
  <2> QED
    BY <2>1, <2>2, ContextAside, Zenon
<1>7. CASE StartInput
  <2>1. CASE \E assertion : Fails(assertion)
    BY <2>1, FailsKeeps, Zenon
  <2>2. CASE usb_fs_host_start_pipe("input") /\ \E state, f : Created(state, f)
    <3>1. Goto("context", "idle") /\ local' = local
      BY <2>2, Zenon DEF Created
    <3> QED
      BY <1>0, <2>2, <3>1, StartKeeps, ContextKeeps, Numbers, Zenon
  <2> QED
    BY <1>7, <2>1, <2>2, Zenon DEF StartInput
<1> QED
  BY <1>1, <1>2, <1>3, <1>4, <1>5, <1>6, <1>7, Zenon

\* Nothing of a pipe changes, and no thread moves.
LEMMA StayKeeps ==
  ASSUME UsbInv, UNCHANGED <<ch, ep, free, _root_control_ep, Endpoint, pc, local, stopping>>
  PROVE  UsbInv'
<1>1. CallTypes' /\ PlaceKept
  BY Zenon DEF UsbInv, CallTypes, PlaceKept
<1> QED
  BY <1>1, AsideKeeps, Zenon

\* The dispatchers' steps.
LEMMA DispatcherKeeps ==
  ASSUME UsbInv, HidDispatch \/ \E d \in {"port", "input"} : AddHandle(d)
  PROVE  UsbInv'
<1>1. CASE \E d \in {"port", "input"} : AddHandle(d)
  BY <1>1, StayKeeps, Zenon DEF AddHandle, threadVars
<1>2. CASE HidDispatch
  <2>1. CASE \E assertion : Fails(assertion)
    BY <2>1, FailsKeeps, Zenon
  <2>2. CASE UNCHANGED <<ch, ep, free, _root_control_ep, Endpoint, threadVars>>
    BY <2>2, StayKeeps, Zenon DEF threadVars
  <2>3. CASE /\ \E on : Issue("input", on)
             /\ UNCHANGED <<free, _root_control_ep, Endpoint, threadVars>>
    <3>1. "input" \in Urb
      BY Zenon DEF Urb
    <3>2. LinksKept /\ CoreTypes'
      BY <2>3, <3>1, IssueLinks, Zenon DEF UsbInv, CoreTypes
    <3>3. CallTypes' /\ PlaceKept
      BY <2>3, Zenon DEF UsbInv, CallTypes, PlaceKept, threadVars
    <3> QED
      BY <2>3, <3>2, <3>3, PlaceKeeps, Zenon
  <2> QED
    BY <1>2, <2>1, <2>2, <2>3, Zenon DEF HidDispatch
<1> QED
  BY <1>1, <1>2, Zenon

\* The callback of the port, and the world around it.
LEMMA PortKeeps ==
  ASSUME UsbInv,
         \/ PortPowered \/ PortDebounced \/ PortReset \/ PortResetDone \/ PortError \/ PortReady
         \/ _destroy_device \/ HidStopped
         \/ Plug \/ Unplug \/ EnableChange \/ usb_fs_request_role_switch
  PROVE  UsbInv'
<1>0. {"debounce", "idle", "attach", "root", "detach", "stop"} \subseteq OtherPlace
  BY Zenon DEF OtherPlace
<1>1. CASE UNCHANGED <<ch, ep, free, _root_control_ep, Endpoint, local, stopping>>
           /\ (pc' = pc \/ \E place \in OtherPlace : Goto("context", place))
  <2>1. CASE pc' = pc
    BY <1>1, <2>1, StayKeeps, Zenon
  <2>2. CASE \E place \in OtherPlace : Goto("context", place)
    BY <1>1, <2>2, ContextAside, Zenon
  <2> QED
    BY <1>1, <2>1, <2>2, Zenon
<1>2. CASE \E s, p : PortCallback(s, p) /\ (pc' = pc \/ \E place \in OtherPlace : Goto("context", place))
  BY <1>1, <1>2, Zenon DEF PortCallback
<1>3. CASE PortPowered
  BY <1>0, <1>2, <1>3, Zenon DEF PortPowered, Then
<1>4. CASE PortDebounced
  BY <1>0, <1>1, <1>4, Zenon DEF PortDebounced, coreVars
<1>5. CASE PortReset
  BY <1>0, <1>2, <1>5, Zenon DEF PortReset, Then
<1>6. CASE PortResetDone
  BY <1>0, <1>2, <1>6, Zenon DEF PortResetDone, Then
<1>7. CASE PortError
  BY <1>0, <1>2, <1>7, Zenon DEF PortError, Then
<1>8. CASE PortReady
  BY <1>0, <1>2, <1>8, Zenon DEF PortReady
<1>9. CASE _destroy_device
  BY <1>0, <1>1, <1>9, Zenon DEF _destroy_device, coreVars
<1>10. CASE HidStopped
  BY <1>0, <1>1, <1>10, Zenon DEF HidStopped
<1>11. CASE Plug \/ Unplug \/ EnableChange \/ usb_fs_request_role_switch
  <2>1. Elsewhere
    BY <1>11, Zenon DEF Plug, Unplug, EnableChange, usb_fs_request_role_switch
  <2> QED
    BY <2>1, StayKeeps, Zenon DEF Elsewhere, threadVars
<1> QED
  BY <1>3, <1>4, <1>5, <1>6, <1>7, <1>8, <1>9, <1>10, <1>11, Zenon

\* A channel is closed while no thread moves: the interrupt does that.
LEMMA CloseAsideKeeps ==
  ASSUME UsbInv, NEW c \in Channel, NEW u, Settle(c, u, TRUE, "off"), ch[c].ep # nullptr,
         UNCHANGED <<free, _root_control_ep, Endpoint, pc, local, stopping>>
  PROVE  UsbInv'
<1>1. CoreTypes /\ CallTypes /\ Linked /\ StopInv
  BY Zenon DEF UsbInv
<1>2. Closes(c) /\ CoreTypes'
  BY <1>1, SettleClose, Zenon DEF CoreTypes
<1>3. /\ Linked' /\ Pooled'
      /\ \A e \in Ep, place \in StopPlace, d \in Channel \cup {nullptr} :
           StopsAt(place, e, d) => StopsAt(place, e, d)'
  BY <1>2, CloseKeeps, Zenon
<1>4. CallTypes'
  BY <1>1, Zenon DEF CallTypes
<1>5. StopInv'
  <2> SUFFICES ASSUME pc["context"] \in StopPlace
               PROVE  stopping \in Pipe /\ StopsAt(pc["context"], Endpoint[stopping], local["context"].ch)'
    BY Zenon DEF StopInv
  <2>1. stopping \in Pipe /\ StopsAt(pc["context"], Endpoint[stopping], local["context"].ch)
    BY <1>1, Zenon DEF StopInv
  <2>2. Endpoint[stopping] \in Ep
    BY <2>1, Zenon DEF StopsAt
  <2>3. local["context"].ch \in Channel \cup {nullptr}
    BY <1>1, Numbers, Zenon DEF CallTypes
  <2> DEFINE place == pc["context"]
             e == Endpoint[stopping]
             d == local["context"].ch
  <2>4. place' = place /\ e' = e /\ d' = d
    BY Zenon
  <2>5. StopsAt(place, e, d)
    BY <2>1, Zenon
  <2> HIDE DEF place, e, d
  <2>6. place \in StopPlace /\ e \in Ep /\ d \in Channel \cup {nullptr}
    BY <2>2, <2>3, Zenon DEF place, e, d
  <2>7. StopsAt(place, e, d)'
    BY <1>3, <2>4, <2>5, <2>6, Zenon DEF StopsAt
  <2> QED
    BY <2>1, <2>7, Zenon DEF place, e, d
<1> QED
  BY <1>2, <1>3, <1>4, <1>5, Zenon DEF UsbInv

\* The channel interrupt: it closes the channel, or no link changes.
LEMMA InterruptKeeps ==
  ASSUME UsbInv, NEW c \in Channel, hcint(c), UNCHANGED threadVars
  PROVE  UsbInv'
<1>1. CoreTypes /\ CallTypes
  BY Zenon DEF UsbInv
<1>2. UNCHANGED <<free, _root_control_ep, Endpoint, pc, local, stopping>>
  BY Zenon DEF hcint, threadVars
<1>3. CallTypes' /\ PlaceKept
  BY <1>1, <1>2, Zenon DEF CallTypes, PlaceKept
<1>4. CASE Settle(c, Ending(c), FALSE, "off")
  <2>1. LinksKept /\ CoreTypes'
    BY <1>1, <1>2, <1>4, SettleOpen, Zenon DEF CoreTypes
  <2> QED
    BY <1>2, <1>3, <2>1, PlaceKeeps, Zenon
<1>5. CASE Settle(c, Ending(c), TRUE, "off") /\ ch[c].ep # nullptr
  BY <1>2, <1>5, CloseAsideKeeps, Zenon
<1>6. CASE ep' = ep /\ \E hc \in {"halt", "on", "off"} : ch' = [ch EXCEPT ![c].hc = hc]
  <2>1. LinksKept /\ ch' \in [Channel -> ChannelRecord]
    BY <1>1, <1>6, SMTT(40) DEF LinksKept, CoreTypes, ChannelRecord
  <2>2. CoreTypes'
    BY <1>1, <1>2, <1>6, <2>1, Zenon DEF CoreTypes
  <2> QED
    BY <1>2, <1>3, <2>1, <2>2, PlaceKeeps, Zenon
<1>7. CASE UNCHANGED <<ch, ep>>
  BY <1>2, <1>7, StayKeeps, Zenon
<1>8. ASSUME Halted(c) PROVE UsbInv'
  <2>1. CASE ch[c].ep # nullptr /\ ep[ch[c].ep].Status = "STOPPING"
    BY <1>5, <1>8, <2>1, Zenon DEF Halted, _xfer_complete
  <2>2. CASE ~(ch[c].ep # nullptr /\ ep[ch[c].ep].Status = "STOPPING")
    <3>1. "IDLE" # "STOPPING"
      BY Zenon
    <3> QED
      BY <1>6, <1>8, <2>2, <3>1, Zenon DEF Halted
  <2> QED
    BY <2>1, <2>2, Zenon
<1>9. ASSUME _disable_channel(c) PROVE UsbInv'
  BY <1>5, <1>6, <1>7, <1>9, Zenon DEF _disable_channel, _xfer_complete
<1> QED
  BY <1>4, <1>7, <1>8, <1>9, Zenon DEF hcint, _xfer_complete

\* Stopping a pipe.
LEMMA StopKeeps ==
  ASSUME UsbInv, NEW p \in Pipe, usb_fs_host_stop_pipe(p)
  PROVE  UsbInv'
<1>1. CoreTypes /\ CallTypes
  BY Zenon DEF UsbInv
<1>2. CASE \E assertion : Fails(assertion)
  BY <1>2, FailsKeeps, Zenon
<1>3. CASE /\ Endpoint[p] # nullptr
           /\ ep' = [ep EXCEPT ![Endpoint[p]].Status = "STOPPING"]
           /\ stopping' = p /\ Goto("context", "Tx")
           /\ UNCHANGED <<ch, free, _root_control_ep, Endpoint, local>>
  <2>1. "Tx" \in Place /\ ~("Tx" \in {"close Tx", "close Rx"}) /\ ~("Tx" \in {"Rx", "close Rx", "pool"})
    BY Zenon DEF Place, StopPlace
  <2>2. pc' \in [Thread -> Place] /\ pc'["context"] = "Tx"
    BY <1>1, <1>3, <2>1, GotoMoves, Numbers, Zenon DEF CallTypes
  <2>3. CallTypes'
    BY <1>1, <1>3, <2>2, Zenon DEF CallTypes
  <2>4. Endpoint[p] \in Ep
    BY <1>1, <1>3, Zenon DEF CallTypes
  <2>5. LinksKept /\ ep' \in [Ep -> EpRecord]
    BY <1>1, <1>3, <2>4, Zenon DEF CoreTypes, EpRecord, LinksKept
  <2>6. CoreTypes'
    BY <1>1, <1>3, <2>5, Zenon DEF CoreTypes
  <2>7. stopping' \in Pipe /\ StopsAt(pc'["context"], Endpoint'[stopping'], local'["context"].ch)
    BY <1>3, <2>1, <2>2, <2>4, Zenon DEF StopsAt
  <2> QED
    BY <1>3, <2>3, <2>5, <2>6, <2>7, KeepsLinks, ZenonT(40)
<1> QED
  BY <1>2, <1>3, Zenon DEF usb_fs_host_stop_pipe

\* The places of StopPlace in their order.
LEMMA StopOrder ==
  /\ {"Tx", "close Tx", "Rx", "close Rx", "pool"} \subseteq Place \cap StopPlace
  /\ "Tx" \notin {"close Tx", "Rx", "close Rx", "pool"}
  /\ "close Tx" \notin {"Tx", "Rx", "close Rx", "pool"}
  /\ "Rx" \notin {"Tx", "close Tx", "close Rx", "pool"}
  /\ "close Rx" \notin {"Tx", "close Tx", "Rx", "pool"}
  /\ "pool" \notin {"Tx", "close Tx", "Rx", "close Rx"}
BY Zenon DEF Place, StopPlace

\* The context thread goes from one place of StopPlace to another.
LEMMA StopMoves ==
  ASSUME UsbInv, NEW place \in StopPlace, Goto("context", place),
         NEW d \in Channel \cup {nullptr}, local' = [local EXCEPT !["context"].ch = d],
         UNCHANGED <<_root_control_ep, Endpoint>>
  PROVE  CallTypes' /\ pc'["context"] = place /\ local'["context"].ch = d
<1>1. CallTypes
  BY Zenon DEF UsbInv
<1>2. place \in Place
  BY Zenon DEF Place
<1>3. pc' \in [Thread -> Place] /\ pc'["context"] = place
  BY <1>1, <1>2, GotoMoves, Numbers, Zenon DEF CallTypes
<1>4. local' \in [Thread -> [ep : Ep \cup {nullptr}, ch : Channel \cup {nullptr}]] /\ local'["context"].ch = d
  BY <1>1, Numbers, Zenon DEF CallTypes
<1> QED
  BY <1>1, <1>3, <1>4, Zenon DEF CallTypes

\* _disable_channel looks at a side of the endpoint.
LEMMA CancelKeeps ==
  ASSUME UsbInv, Cancel("Tx", "close Tx", "Rx") \/ Cancel("Rx", "close Rx", "pool")
  PROVE  UsbInv'
<1> DEFINE e == Endpoint[stopping]
<1>1. CoreTypes /\ CallTypes /\ StopInv
  BY Zenon DEF UsbInv
<1>2. ASSUME NEW side \in {"Tx", "Rx"}, NEW place \in StopPlace, NEW d \in Channel \cup {nullptr},
             pc["context"] = side, Goto("context", place),
             local' = [local EXCEPT !["context"].ch = d],
             UNCHANGED <<ch, ep, free, _root_control_ep, Endpoint, stopping>>,
             StopsAt(side, e, local["context"].ch) => StopsAt(place, e, d)
      PROVE  UsbInv'
  <2>1. side \in StopPlace
    BY <1>2, StopOrder, Zenon
  <2>2. stopping \in Pipe /\ StopsAt(side, e, local["context"].ch)
    BY <1>1, <1>2, <2>1, Zenon DEF StopInv
  <2>3. CallTypes' /\ pc'["context"] = place /\ local'["context"].ch = d
    BY <1>2, StopMoves, Zenon
  <2>4. stopping' \in Pipe /\ StopsAt(pc'["context"], Endpoint'[stopping'], local'["context"].ch)
    BY <1>2, <2>2, <2>3, Zenon
  <2>5. CoreTypes' /\ LinksKept /\ free' = free
    BY <1>1, <1>2, Zenon DEF CoreTypes, LinksKept
  <2> QED
    BY <2>3, <2>4, <2>5, KeepsLinks, Zenon
<1>3. CASE Cancel("Tx", "close Tx", "Rx")
  <2>1. pc["context"] = "Tx"
    BY <1>3, Zenon DEF Cancel, At
  <2>2. stopping \in Pipe /\ e \in Ep
    BY <1>1, <2>1, StopOrder, Zenon DEF StopInv, StopsAt
  <2> DEFINE d == ep[e].Tx
  <2>3. d \in Channel \cup {nullptr} /\ d = ep[e]["Tx"]
    BY <1>1, <2>2, Zenon DEF CoreTypes, EpRecord
  <2>4. /\ local' = [local EXCEPT !["context"].ch = d]
        /\ UNCHANGED <<ch, ep, free, _root_control_ep, Endpoint, stopping>>
        /\ IF d = nullptr THEN Goto("context", "Rx") ELSE Goto("context", "close Tx")
    BY <1>3, <2>3, Zenon DEF Cancel
  <2> HIDE DEF e
  <2>5. /\ d = nullptr => (StopsAt("Tx", e, local["context"].ch) => StopsAt("Rx", e, d))
        /\ d # nullptr => (StopsAt("Tx", e, local["context"].ch) => StopsAt("close Tx", e, d))
    BY <2>3, Zenon DEF StopsAt
  <2> QED
    BY <1>2, <2>1, <2>3, <2>4, <2>5, StopOrder, Zenon
<1>4. CASE Cancel("Rx", "close Rx", "pool")
  <2>1. pc["context"] = "Rx"
    BY <1>4, Zenon DEF Cancel, At
  <2>2. stopping \in Pipe /\ e \in Ep
    BY <1>1, <2>1, StopOrder, Zenon DEF StopInv, StopsAt
  <2> DEFINE d == ep[e].Rx
  <2>3. d \in Channel \cup {nullptr} /\ d = ep[e]["Rx"]
    BY <1>1, <2>2, Zenon DEF CoreTypes, EpRecord
  <2>4. /\ local' = [local EXCEPT !["context"].ch = d]
        /\ UNCHANGED <<ch, ep, free, _root_control_ep, Endpoint, stopping>>
        /\ IF d = nullptr THEN Goto("context", "pool") ELSE Goto("context", "close Rx")
    BY <1>4, <2>3, Zenon DEF Cancel
  <2> HIDE DEF e
  <2>5. /\ d = nullptr => (StopsAt("Rx", e, local["context"].ch) => StopsAt("pool", e, d))
        /\ d # nullptr => (StopsAt("Rx", e, local["context"].ch) => StopsAt("close Rx", e, d))
    BY <2>3, Zenon DEF StopsAt
  <2> QED
    BY <1>2, <2>1, <2>3, <2>4, <2>5, StopOrder, ZenonT(40)
<1> QED
  BY <1>3, <1>4, Zenon

\* The channel it found is closed, if the interrupt has not done so before.
LEMMA CancelledKeeps ==
  ASSUME UsbInv, Cancelled("close Tx", "Rx") \/ Cancelled("close Rx", "pool")
  PROVE  UsbInv'
<1> DEFINE e == Endpoint[stopping]
           c == local["context"].ch
<1>1. CoreTypes /\ CallTypes /\ Linked /\ StopInv
  BY Zenon DEF UsbInv
<1>2. CASE \E assertion : Fails(assertion)
  BY <1>2, FailsKeeps, Zenon
<1>3. ASSUME NEW close \in {"close Tx", "close Rx"}, NEW place \in {"Rx", "pool"},
             pc["context"] = close, Goto("context", place), ch[c].ep # nullptr,
             Settle(c, Ending(c), TRUE, "off"), local' = [local EXCEPT !["context"].ch = nullptr],
             UNCHANGED <<free, _root_control_ep, Endpoint, stopping>>,
             \/ close = "close Tx" /\ place = "Rx"
             \/ close = "close Rx" /\ place = "pool"
      PROVE  UsbInv'
  <2>1. close \in StopPlace /\ place \in StopPlace
    BY <1>3, StopOrder, Zenon
  <2>2. stopping \in Pipe /\ StopsAt(close, e, c)
    BY <1>1, <1>3, <2>1, Zenon DEF StopInv
  <2>3. e \in Ep /\ c \in Channel
    BY <1>3, <2>2, Zenon DEF StopsAt
  <2>4. Closes(c) /\ CoreTypes'
    BY <1>1, <1>3, <2>3, SettleClose, Zenon DEF CoreTypes
  <2>5. Linked' /\ Pooled'
    BY <1>3, <2>3, <2>4, CloseKeeps, Zenon
  <2>6. CallTypes' /\ pc'["context"] = place /\ local'["context"].ch = nullptr
    BY <1>3, <2>1, StopMoves, Zenon
  <2>7. StopsAt(place, e, nullptr)'
    <3>1. e' = e
      BY <1>3, Zenon
    <3> HIDE DEF e, c
    <3>2. /\ ep'[e].Tx = IF ep[e].Tx = c THEN nullptr ELSE ep[e].Tx
          /\ ep'[e].Rx = IF ep[e].Rx = c THEN nullptr ELSE ep[e].Rx
      BY <2>3, <2>4, Zenon DEF Closes
    <3> QED
      BY <1>3, <2>2, <2>3, <3>1, <3>2, Zenon DEF StopsAt
  <2>8. StopInv'
    BY <1>3, <2>2, <2>6, <2>7, Zenon DEF StopInv
  <2> QED
    BY <2>4, <2>5, <2>6, <2>8, Zenon DEF UsbInv
<1>4. CASE Cancelled("close Tx", "Rx")
  BY <1>2, <1>3, <1>4, Zenon DEF Cancelled, At
<1>5. CASE Cancelled("close Rx", "pool")
  BY <1>2, <1>3, <1>5, Zenon DEF Cancelled, At
<1> QED
  BY <1>4, <1>5, Zenon

\* The endpoint that goes back to the pool has no channel left.
LEMMA StopDoneKeeps ==
  ASSUME UsbInv, StopDone
  PROVE  UsbInv'
<1> DEFINE e == Endpoint[stopping]
<1>1. CoreTypes /\ CallTypes /\ Linked /\ Pooled /\ StopInv
  BY Zenon DEF UsbInv
<1>2. CASE \E assertion : Fails(assertion)
  BY <1>2, FailsKeeps, Zenon
<1>3. CASE /\ pc["context"] = "pool" /\ e \notin {free[i] : i \in DOMAIN free}
           /\ ep' = [ep EXCEPT ![e].Status = "IDLE"] /\ free' = <<e>> \o free
           /\ \E place \in {"stopped", "idle"} : Goto("context", place)
           /\ UNCHANGED <<ch, _root_control_ep, Endpoint, local>>
  <2>1. e \in Ep /\ ep[e].Tx = nullptr /\ ep[e].Rx = nullptr
    BY <1>1, <1>3, StopOrder, Zenon DEF StopInv, StopsAt
  <2>2. PICK place \in OtherPlace : Goto("context", place)
    BY <1>3, Zenon DEF OtherPlace
  <2> HIDE DEF e
  <2>3. LinksKept /\ ep' \in [Ep -> EpRecord]
    BY <1>1, <1>3, <2>1, Zenon DEF CoreTypes, EpRecord, LinksKept
  <2>4. /\ free' \in Seq(Ep) /\ DOMAIN free' = 1..Len(free) + 1 /\ free'[1] = e
        /\ \A i \in 2..Len(free) + 1 : i - 1 \in DOMAIN free /\ free'[i] = free[i - 1] /\ free[i - 1] \in Ep
    BY <1>1, <1>3, <2>1, SMTT(40) DEF CoreTypes
  <2>5. CoreTypes'
    BY <1>1, <1>3, <2>3, <2>4, Zenon DEF CoreTypes
  <2>6. Linked'
    <3>1. \A c \in Channel, f \in Ep : ch'[c].ep = f <=> c \in {ep'[f].Tx, ep'[f].Rx}
      BY <1>1, <2>3, SMTT(40) DEF Linked, LinksKept
    <3>2. \A f \in Ep : ep'[f].Tx # nullptr => ep'[f].Tx # ep'[f].Rx
      BY <1>1, <2>3, Zenon DEF Linked, LinksKept
    <3> QED
      BY <3>1, <3>2, ZenonT(40) DEF Linked
  <2>7. Pooled'
    <3> SUFFICES ASSUME NEW i \in DOMAIN free'
                 PROVE  /\ ep'[free'[i]].Tx = nullptr /\ ep'[free'[i]].Rx = nullptr
                        /\ \A j \in DOMAIN free' : free'[i] = free'[j] => i = j
      BY Zenon DEF Pooled
    <3>1. Len(free) \in Nat
      BY <1>1 DEF CoreTypes
    <3>2. \A j \in DOMAIN free' : j = 1 \/ j \in 2..Len(free) + 1
      BY <2>4, <3>1
    <3>3. \A j \in 2..Len(free) + 1 : free'[j] # e
      BY <1>3, <2>4, Zenon
    <3>4. ep'[free'[i]].Tx = nullptr /\ ep'[free'[i]].Rx = nullptr
      <4>1. free'[i] \in Ep /\ ep[free'[i]].Tx = nullptr /\ ep[free'[i]].Rx = nullptr
        <5>1. CASE i = 1
          BY <2>1, <2>4, <5>1, Zenon
        <5>2. CASE i \in 2..Len(free) + 1
          <6>1. i - 1 \in DOMAIN free /\ free'[i] = free[i - 1] /\ free[i - 1] \in Ep
            BY <2>4, <5>2, Zenon
          <6>2. ep[free[i - 1]].Tx = nullptr /\ ep[free[i - 1]].Rx = nullptr
            BY <1>1, <6>1, Zenon DEF Pooled
          <6> QED
            BY <6>1, <6>2, Zenon
        <5> QED
          BY <3>2, <5>1, <5>2, Zenon
      <4> QED
        BY <2>3, <4>1, Zenon DEF LinksKept
    <3>5. ASSUME NEW j \in DOMAIN free', free'[i] = free'[j] PROVE i = j
      <4>1. CASE i = 1 \/ j = 1
        BY <2>4, <3>2, <3>3, <3>5, <4>1, Zenon
      <4>2. CASE i \in 2..Len(free) + 1 /\ j \in 2..Len(free) + 1
        <5>1. i - 1 = j - 1
          BY <1>1, <2>4, <3>5, <4>2, ZenonT(40) DEF Pooled
        <5> QED
          BY <4>2, <5>1
      <4> QED
        BY <3>2, <4>1, <4>2, Zenon
    <3> QED
      BY <3>4, <3>5, Zenon
  <2> QED
    BY <1>1, <1>3, <2>2, <2>5, <2>6, <2>7, ContextKeeps, Zenon DEF CallTypes
<1> QED
  BY <1>2, <1>3, Zenon DEF StopDone, At, pool_free

\* A pool made anew, when every channel is free.
LEMMA NewPool ==
  ASSUME CoreTypes, Linked, \A c \in Channel : ch[c].ep = nullptr
  PROVE  /\ [i \in Ep |-> i] \in Seq(Ep)
         /\ \A e \in Ep : ep[e].Tx = nullptr /\ ep[e].Rx = nullptr
<1>1. [i \in Ep |-> i] \in Seq(Ep)
  BY UsbAssumption DEF Ep
<1>2. \A e \in Ep : ep[e].Tx \in Channel \cup {nullptr} /\ ep[e].Rx \in Channel \cup {nullptr}
  BY Zenon DEF CoreTypes, EpRecord
<1>3. \A c \in Channel, e \in Ep : c \notin {ep[e].Tx, ep[e].Rx}
  <2> TAKE c \in Channel, e \in Ep
  <2>1. ch[c].ep # e
    BY Numbers, Zenon
  <2> QED
    BY <2>1, Zenon DEF Linked
<1> QED
  BY <1>1, <1>2, <1>3, Zenon

LEMMA ResetKeeps ==
  ASSUME UsbInv, _host_reset
  PROVE  UsbInv'
<1>1. CASE \E assertion : Fails(assertion)
  BY <1>1, FailsKeeps, Zenon
<1>2. CASE /\ FreeChannels = Channel /\ free' = [i \in Ep |-> i] /\ _root_control_ep' = nullptr
           /\ pc["context"] = "idle"
           /\ UNCHANGED <<ch, ep, Endpoint, pc, local, stopping>>
  <2>1. CoreTypes /\ CallTypes /\ Linked
    BY Zenon DEF UsbInv
  <2>2. \A c \in Channel : ch[c].ep = nullptr
    BY <1>2, Zenon DEF FreeChannels
  <2>3. free' \in Seq(Ep) /\ \A e \in Ep : ep[e].Tx = nullptr /\ ep[e].Rx = nullptr
    BY <1>2, <2>1, <2>2, NewPool, Zenon
  <2>4. CoreTypes' /\ CallTypes' /\ Linked'
    BY <1>2, <2>1, <2>3, ZenonT(40) DEF CoreTypes, CallTypes, Linked
  <2>5. Pooled'
    BY <1>2, <2>3, Zenon DEF Pooled
  <2>6. "idle" \notin StopPlace
    BY Zenon DEF StopPlace
  <2> QED
    BY <1>2, <2>4, <2>5, <2>6, Zenon DEF UsbInv, StopInv
<1> QED
  BY <1>1, <1>2, Zenon DEF _host_reset, At, threadVars

LEMMA HostKeeps ==
  ASSUME UsbInv, [HostNext]_usbVars
  PROVE  UsbInv'
<1>1. CASE UNCHANGED usbVars
  BY <1>1, StayKeeps, Zenon DEF usbVars, coreVars, threadVars
<1>2. CASE HostNext
  BY <1>2, ControlKeeps, EnumerationKeeps, DispatcherKeeps, PortKeeps, StopKeeps, CancelKeeps,
     CancelledKeeps, StopDoneKeeps, ResetKeeps, InterruptKeeps, Zenon DEF HostNext
<1> QED
  BY <1>1, <1>2, Zenon

LEMMA UsbInitInv == UsbInit => UsbInv
<1> SUFFICES ASSUME UsbInit PROVE UsbInv
  BY Zenon
<1>1. ch \in [Channel -> ChannelRecord] /\ \A c \in Channel : ch[c].ep = nullptr
  BY Zenon DEF UsbInit, CoreInit, NoChannel, ChannelRecord
<1>2. ep \in [Ep -> EpRecord] /\ \A e \in Ep : ep[e].Tx = nullptr /\ ep[e].Rx = nullptr
  BY Zenon DEF UsbInit, CoreInit, EpRecord
<1>3. Linked
  BY <1>1, <1>2, Numbers, Zenon DEF Linked
<1>4. free \in Seq(Ep) /\ free = [i \in Ep |-> i]
  <2>1. [i \in Ep |-> i] \in Seq(Ep)
    BY UsbAssumption DEF Ep
  <2> QED
    BY <2>1, Zenon DEF UsbInit, CoreInit
<1>5. Pooled
  BY <1>2, <1>4, Zenon DEF Pooled
<1>6. CallTypes /\ pc["context"] = "idle"
  <2>1. pc \in [Thread -> Place] /\ pc["context"] = "idle"
    BY Zenon DEF UsbInit, Place, OtherPlace, Thread
  <2>2. local \in [Thread -> [ep : Ep \cup {nullptr}, ch : Channel \cup {nullptr}]]
    BY Zenon DEF UsbInit
  <2>3. _root_control_ep \in Ep \cup {nullptr} /\ Endpoint \in [Pipe -> Ep \cup {nullptr}]
    BY Zenon DEF UsbInit, CoreInit
  <2> QED
    BY <2>1, <2>2, <2>3, Zenon DEF CallTypes
<1>7. StopInv
  BY <1>6, Zenon DEF StopInv, StopPlace
<1> QED
  BY <1>1, <1>2, <1>3, <1>4, <1>5, <1>6, <1>7, Zenon DEF UsbInv, CoreTypes

\* However interrupts, errors and stopped pipes close channels (_free_channel)
\* and pipes open them (_alloc_channel): _ch2ep and the endpoints name each
\* other, and an endpoint in _ep_pool has no channel.
THEOREM ChannelsAgreeAlways == UsbSpec => []ChannelsAgree
<1>1. UsbInv => ChannelsAgree
  BY Zenon DEF UsbInv, Linked, Pooled, ChannelsAgree
<1> QED
  BY <1>1, UsbInitInv, HostKeeps, PTL DEF UsbSpec
=============================================================================

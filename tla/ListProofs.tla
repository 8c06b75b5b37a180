----------------------------- MODULE ListProofs -----------------------------
(***************************************************************************)
(* What list_enqueue and list_remove do to a list of distinct nodes.       *)
(***************************************************************************)
EXTENDS List, WellFoundedInduction, TLAPS

\* The nodes of a list are pairwise different.
Distinct(list) == \A i, j \in DOMAIN list : list[i] = list[j] => i = j

\* The order list_enqueue keeps.
Ordered(list, Priority) ==
  \A i, j \in DOMAIN list : i < j => Priority[list[i]] >= Priority[list[j]]

\* "list" with "node" put in at position p.
IsInsertion(new, list, p, node) ==
  /\ Len(new) = Len(list) + 1
  /\ p \in 1..Len(new)
  /\ \A i \in 1..Len(new) :
       new[i] = IF i < p THEN list[i] ELSE IF i = p THEN node ELSE list[i - 1]


----------------------------------------------------------------------------
(* Sequences *)

LEMMA LenProperties ==
  ASSUME NEW S, NEW seq \in Seq(S)
  PROVE  Len(seq) \in Nat /\ seq \in [1..Len(seq) -> S] /\ DOMAIN seq = 1..Len(seq)
OBVIOUS

LEMMA ElementOfSeq ==
  ASSUME NEW S, NEW seq \in Seq(S), NEW n \in 1..Len(seq)
  PROVE  seq[n] \in S
OBVIOUS

LEMMA EmptySeq ==
  ASSUME NEW S
  PROVE  /\ <<>> \in Seq(S) /\ Len(<<>>) = 0
         /\ \A seq \in Seq(S) : seq # <<>> => Len(seq) \in Nat \ {0}
OBVIOUS

LEMMA AppendProperties ==
  ASSUME NEW S, NEW seq \in Seq(S), NEW elt \in S
  PROVE  /\ Append(seq, elt) \in Seq(S) /\ Append(seq, elt) # <<>>
         /\ Len(Append(seq, elt)) = Len(seq) + 1
         /\ \A i \in 1..Len(seq) : Append(seq, elt)[i] = seq[i]
         /\ Append(seq, elt)[Len(seq) + 1] = elt
OBVIOUS

LEMMA ConcatProperties ==
  ASSUME NEW S, NEW s1 \in Seq(S), NEW s2 \in Seq(S)
  PROVE  /\ s1 \o s2 \in Seq(S) /\ Len(s1 \o s2) = Len(s1) + Len(s2)
         /\ \A i \in 1..(Len(s1) + Len(s2)) :
              (s1 \o s2)[i] = IF i <= Len(s1) THEN s1[i] ELSE s2[i - Len(s1)]
OBVIOUS

LEMMA HeadTailProperties ==
  ASSUME NEW S, NEW s \in Seq(S), s # <<>>
  PROVE  /\ Head(s) \in S /\ Tail(s) \in Seq(S) /\ Len(Tail(s)) = Len(s) - 1
         /\ \A i \in 1..Len(Tail(s)) : Tail(s)[i] = s[i + 1]
OBVIOUS

LEMMA SubSeqProperties ==
  ASSUME NEW S, NEW s, NEW m \in Int, NEW n \in Int, \A i \in m..n : s[i] \in S
  PROVE  /\ SubSeq(s, m, n) \in Seq(S)
         /\ Len(SubSeq(s, m, n)) = IF m <= n THEN n - m + 1 ELSE 0
         /\ \A i \in 1..(n - m + 1) : SubSeq(s, m, n)[i] = s[m + i - 1]
OBVIOUS

\* A non-empty set of naturals has a least element.
LEMMA LeastNatural ==
  ASSUME NEW N, N \subseteq Nat, N # {}
  PROVE  Min(N) \in N /\ \A m \in N : Min(N) <= m
<1>1. PICK n \in N : \A m \in N : ~ (<<m, n>> \in OpToRel(<, Nat))
  BY NatLessThanWellFounded, WFMin
<1>2. \A m \in N : n <= m
  <2>1. ASSUME NEW m \in N, m < n PROVE FALSE
    <3>1. m \in Nat /\ n \in Nat
      OBVIOUS
    <3>2. <<m, n>> \in OpToRel(<, Nat)
      BY <3>1, <2>1 DEF OpToRel
    <3> QED
      BY <1>1, <3>2
  <2> QED
    BY <2>1
<1> QED
  BY <1>2 DEF Min

\* LinkAt is an insertion.
LEMMA LinkAtIsInsertion ==
  ASSUME NEW S, NEW list \in Seq(S), NEW p \in 1..Len(list) + 1, NEW node \in S
  PROVE  /\ LinkAt(list, p, node) \in Seq(S)
         /\ IsInsertion(LinkAt(list, p, node), list, p, node)
<1> DEFINE front == SubSeq(list, 1, p - 1)
           back == SubSeq(list, p, Len(list))
           left == front \o <<node>>
           new == left \o back
<1>0. Len(list) \in Nat /\ p \in Nat /\ \A i \in 1..Len(list) : list[i] \in S
  BY LenProperties, ElementOfSeq
<1>1. /\ front \in Seq(S)
      /\ Len(front) = p - 1
      /\ \A i \in 1..p - 1 : front[i] = list[i]
  <2>1. \A i \in 1..p - 1 : list[i] \in S
    BY <1>0
  <2> QED
    BY <1>0, <2>1, SubSeqProperties, Z3
<1>2. /\ back \in Seq(S)
      /\ Len(back) = Len(list) - p + 1
      /\ \A i \in 1..Len(list) - p + 1 : back[i] = list[p + i - 1]
  <2>1. \A i \in p..Len(list) : list[i] \in S
    BY <1>0
  <2> QED
    BY <1>0, <2>1, SubSeqProperties, Z3
<1>3. <<node>> \in Seq(S) /\ Len(<<node>>) = 1 /\ <<node>>[1] = node
  OBVIOUS
<1> HIDE DEF front, back
<1>4. /\ left \in Seq(S)
      /\ Len(left) = p
      /\ \A i \in 1..p : left[i] = IF i < p THEN list[i] ELSE node
  <2>1. /\ left \in Seq(S)
        /\ Len(left) = Len(front) + Len(<<node>>)
        /\ \A i \in 1..Len(front) + Len(<<node>>) : left[i] =
             IF i <= Len(front) THEN front[i] ELSE <<node>>[i - Len(front)]
    BY <1>1, <1>3, ConcatProperties
  <2> HIDE DEF left
  <2> QED
    BY <1>0, <1>1, <1>3, <2>1
<1> HIDE DEF left
<1>5. /\ new \in Seq(S)
      /\ Len(new) = Len(left) + Len(back)
      /\ \A i \in 1..Len(left) + Len(back) : new[i] =
           IF i <= Len(left) THEN left[i] ELSE back[i - Len(left)]
  BY <1>2, <1>4, ConcatProperties
<1> HIDE DEF new
<1>6. new \in Seq(S) /\ IsInsertion(new, list, p, node)
  <2>1. Len(new) = Len(list) + 1 /\ p \in 1..Len(new)
    BY <1>0, <1>2, <1>4, <1>5
  <2>2. ASSUME NEW i \in 1..Len(new)
        PROVE  new[i] = IF i < p THEN list[i] ELSE IF i = p THEN node ELSE list[i - 1]
    <3>1. CASE i <= p
      BY <3>1, <2>1, <1>0, <1>4, <1>5
    <3>2. CASE i > p
      <4>1. i - p \in 1..Len(list) - p + 1 /\ p + (i - p) - 1 = i - 1
        BY <3>2, <2>1, <1>0
      <4>2. new[i] = back[i - p]
        BY <3>2, <2>1, <1>0, <1>2, <1>4, <1>5
      <4> QED
        BY <3>2, <4>1, <4>2, <1>2, <1>0
    <3> QED
      BY <3>1, <3>2, <1>0, <2>1
  <2> QED
    BY <1>5, <2>1, <2>2 DEF IsInsertion
<1> QED
  BY <1>6 DEF LinkAt, new, left, front, back

\* Position p is where list_enqueue puts the node: behind the nodes of the
\* same or a higher priority, in front of a lower one.
EnqueuedAt(new, list, p, node, Priority) ==
  /\ IsInsertion(new, list, p, node)
  /\ p <= Len(list) => Priority[list[p]] < Priority[node]
  /\ \A i \in 1..p - 1 : Priority[list[i]] >= Priority[node]

\* list_enqueue inserts the node once, in such a place.
LEMMA EnqueueIsInsertion ==
  ASSUME NEW S, NEW list \in Seq(S), NEW node \in S, NEW Priority \in [S -> Int],
         NEW new, new = list_enqueue(list, node, Priority)
  PROVE  /\ new \in Seq(S)
         /\ \E p \in 1..Len(list) + 1 : EnqueuedAt(new, list, p, node, Priority)
<1> DEFINE lower == {i \in DOMAIN list : Priority[list[i]] < Priority[node]}
<1>0. /\ Len(list) \in Nat /\ DOMAIN list = 1..Len(list)
      /\ \A i \in 1..Len(list) : list[i] \in S /\ Priority[list[i]] \in Int
      /\ Priority[node] \in Int
  BY LenProperties, ElementOfSeq
<1>1. CASE lower = {}
  <2>1. new = Append(list, node)
    BY <1>1 DEF list_enqueue, list_add_tail
  <2>2. new \in Seq(S) /\ IsInsertion(new, list, Len(list) + 1, node)
    <3>1. /\ new \in Seq(S) /\ Len(new) = Len(list) + 1
          /\ \A i \in 1..Len(list) : new[i] = list[i]
          /\ new[Len(list) + 1] = node
      BY <2>1, AppendProperties
    <3> QED
      BY <1>0, <3>1 DEF IsInsertion
  <2>3. \A i \in 1..Len(list) : Priority[list[i]] >= Priority[node]
    BY <1>0, <1>1
  <2>4. EnqueuedAt(new, list, Len(list) + 1, node, Priority)
    BY <2>2, <2>3, <1>0 DEF EnqueuedAt
  <2> QED
    BY <2>2, <2>4, <1>0
<1>2. CASE lower # {}
  <2>1. PICK p \in lower : p = Min(lower) /\ \A y \in lower : p <= y
    <3>1. lower \subseteq Nat
      BY <1>0
    <3> HIDE DEF lower
    <3> QED
      BY <1>2, <3>1, LeastNatural
  <2>2. p \in 1..Len(list) + 1 /\ p <= Len(list) /\ Priority[list[p]] < Priority[node]
    BY <1>0
  <2>3. \A i \in 1..p - 1 : Priority[list[i]] >= Priority[node]
    <3>1. ASSUME NEW i \in 1..p - 1 PROVE Priority[list[i]] >= Priority[node]
      <4>1. i \in 1..Len(list) /\ ~ (p <= i)
        BY <1>0, <2>2
      <4>2. i \notin lower
        BY <4>1, <2>1
      <4> QED
        BY <4>1, <4>2, <1>0
    <3> QED
      BY <3>1
  <2>4. new = LinkAt(list, p, node)
    BY <1>2, <2>1 DEF list_enqueue
  <2>5. new \in Seq(S) /\ IsInsertion(new, list, p, node)
    BY <2>2, <2>4, LinkAtIsInsertion
  <2>6. EnqueuedAt(new, list, p, node, Priority)
    BY <2>2, <2>3, <2>5 DEF EnqueuedAt
  <2> QED
    BY <2>2, <2>5, <2>6
<1> QED
  BY <1>1, <1>2

\* What the callers of list_enqueue use: the nodes of the list are the old
\* ones and the new one, still distinct, still ordered, and the old ones
\* follow each other as before.
LEMMA EnqueueFacts ==
  ASSUME NEW S, NEW list \in Seq(S), NEW node \in S, NEW Priority \in [S -> Int],
         node \notin Range(list), Distinct(list), Ordered(list, Priority),
         NEW new, new = list_enqueue(list, node, Priority)
  PROVE  /\ new \in Seq(S)
         /\ Range(new) = Range(list) \cup {node}
         /\ Distinct(new)
         /\ Ordered(new, Priority)
         /\ \A i, j \in DOMAIN list : i < j =>
              \E m, n \in DOMAIN new : m < n /\ new[m] = list[i] /\ new[n] = list[j]
<1>1. new \in Seq(S) /\ \E p \in 1..Len(list) + 1 : EnqueuedAt(new, list, p, node, Priority)
  BY EnqueueIsInsertion
<1>2. PICK p \in 1..Len(list) + 1 : EnqueuedAt(new, list, p, node, Priority)
  BY <1>1
<1> DEFINE old(i) == IF i < p THEN i ELSE i - 1
           moved(i) == IF i < p THEN i ELSE i + 1
<1>3. /\ Len(list) \in Nat /\ p \in Nat
      /\ DOMAIN list = 1..Len(list) /\ DOMAIN new = 1..Len(list) + 1
      /\ Len(new) = Len(list) + 1
      /\ \A i \in 1..Len(list) : list[i] \in S /\ Priority[list[i]] \in Int
      /\ Priority[node] \in Int
  BY <1>1, <1>2, LenProperties, ElementOfSeq DEF EnqueuedAt, IsInsertion
<1>4. new[p] = node /\ p \in DOMAIN new
  BY <1>2, <1>3 DEF EnqueuedAt, IsInsertion
<1>5. \A i \in DOMAIN new : i # p => old(i) \in DOMAIN list /\ new[i] = list[old(i)]
  BY <1>2, <1>3, SMTT(40) DEF EnqueuedAt, IsInsertion
<1>6. \A i \in DOMAIN list : moved(i) \in DOMAIN new /\ new[moved(i)] = list[i]
  <2>1. ASSUME NEW i \in DOMAIN list PROVE moved(i) \in DOMAIN new /\ new[moved(i)] = list[i]
    <3>1. moved(i) \in DOMAIN new /\ moved(i) # p /\ old(moved(i)) = i
      BY <1>3
    <3> QED
      BY <3>1, <1>5
  <2> QED
    BY <2>1
<1>7. Range(new) = Range(list) \cup {node}
  <2> HIDE DEF old, moved
  <2> QED
    BY <1>4, <1>5, <1>6 DEF Range
<1>8. \A i \in DOMAIN list : list[i] # node
  BY DEF Range
<1>9. Distinct(new)
  <2>1. ASSUME NEW i \in DOMAIN new, NEW j \in DOMAIN new, new[i] = new[j]
        PROVE  i = j
    <3>1. CASE i = p \/ j = p
      BY <3>1, <2>1, <1>4, <1>5, <1>8, SMTT(40)
    <3>2. CASE i # p /\ j # p
      <4>1. old(i) = old(j)
        BY <3>2, <2>1, <1>5 DEF Distinct
      <4> QED
        BY <4>1, <3>2, <1>3
    <3> QED
      BY <3>1, <3>2
  <2> QED
    BY <2>1 DEF Distinct
<1>10. Ordered(new, Priority)
  <2>1. ASSUME NEW i \in DOMAIN new, NEW j \in DOMAIN new, i < j
        PROVE  Priority[new[i]] >= Priority[new[j]]
    <3>1. CASE i # p /\ j # p
      <4>1. old(i) \in DOMAIN list /\ old(j) \in DOMAIN list /\ old(i) < old(j)
        BY <3>1, <2>1, <1>3, <1>5, SMTT(40)
      <4> QED
        BY <4>1, <3>1, <1>5 DEF Ordered
    <3>2. CASE j = p
      <4>1. i \in 1..p - 1 /\ new[i] = list[i]
        BY <3>2, <2>1, <1>3, <1>5
      <4> QED
        BY <4>1, <3>2, <1>2, <1>4 DEF EnqueuedAt
    <3>3. CASE i = p
      <4>1. p <= Len(list) /\ j - 1 \in DOMAIN list /\ p \in DOMAIN list /\ new[j] = list[j - 1]
        BY <3>3, <2>1, <1>3, <1>5, SMTT(60)
      <4>2. Priority[list[p]] < Priority[node]
        BY <4>1, <1>2 DEF EnqueuedAt
      <4>3. Priority[list[p]] >= Priority[list[j - 1]]
        <5>1. CASE j - 1 = p
          BY <5>1, <4>1, <1>3
        <5>2. CASE p < j - 1
          BY <5>2, <4>1 DEF Ordered
        <5> QED
          BY <5>1, <5>2, <2>1, <3>3, <1>3
      <4> QED
        BY <4>1, <4>2, <4>3, <3>3, <1>3, <1>4
    <3> QED
      BY <3>1, <3>2, <3>3
  <2> QED
    BY <2>1 DEF Ordered
<1>11. ASSUME NEW i \in DOMAIN list, NEW j \in DOMAIN list, i < j
       PROVE  \E m, n \in DOMAIN new : m < n /\ new[m] = list[i] /\ new[n] = list[j]
  <2>1. moved(i) < moved(j)
    BY <1>11, <1>3
  <2> QED
    BY <2>1, <1>6
<1> QED
  BY <1>1, <1>7, <1>9, <1>10, <1>11

\* UnlinkAt takes out one position.
LEMMA UnlinkAtFacts ==
  ASSUME NEW S, NEW list \in Seq(S), NEW p \in 1..Len(list),
         NEW new, new = UnlinkAt(list, p)
  PROVE  /\ new \in Seq(S)
         /\ Len(new) = Len(list) - 1
         /\ \A i \in 1..Len(list) - 1 : new[i] = IF i < p THEN list[i] ELSE list[i + 1]
<1> DEFINE front == SubSeq(list, 1, p - 1)
           back == SubSeq(list, p + 1, Len(list))
           cat == front \o back
<1>0. Len(list) \in Nat /\ p \in Nat /\ \A i \in 1..Len(list) : list[i] \in S
  BY LenProperties, ElementOfSeq
<1>1. /\ front \in Seq(S)
      /\ Len(front) = p - 1
      /\ \A i \in 1..p - 1 : front[i] = list[i]
  <2>1. \A i \in 1..p - 1 : list[i] \in S
    BY <1>0
  <2> QED
    BY <1>0, <2>1, SubSeqProperties, Z3
<1>2. /\ back \in Seq(S)
      /\ Len(back) = Len(list) - p
      /\ \A i \in 1..Len(list) - p : back[i] = list[p + i]
  <2>1. \A i \in p + 1..Len(list) : list[i] \in S
    BY <1>0
  <2>2. /\ back \in Seq(S)
        /\ Len(back) = IF p + 1 <= Len(list) THEN Len(list) - (p + 1) + 1 ELSE 0
        /\ \A i \in 1..Len(list) - (p + 1) + 1 : back[i] = list[(p + 1) + i - 1]
    BY <1>0, <2>1, SubSeqProperties, Z3
  <2> HIDE DEF back
  <2>3. ASSUME NEW i \in 1..Len(list) - p PROVE back[i] = list[p + i]
    <3>1. i \in 1..Len(list) - (p + 1) + 1 /\ (p + 1) + i - 1 = p + i
      BY <1>0
    <3> QED
      BY <3>1, <2>2
  <2> QED
    BY <1>0, <2>2, <2>3
<1>3. new = cat
  BY DEF UnlinkAt
<1> HIDE DEF front, back
<1>4. /\ cat \in Seq(S)
      /\ Len(cat) = Len(front) + Len(back)
      /\ \A i \in 1..Len(front) + Len(back) : cat[i] =
           IF i <= Len(front) THEN front[i] ELSE back[i - Len(front)]
  BY <1>1, <1>2, ConcatProperties
<1> HIDE DEF cat
<1>5. ASSUME NEW i \in 1..Len(list) - 1
      PROVE  new[i] = IF i < p THEN list[i] ELSE list[i + 1]
  <2>1. CASE i < p
    <3>1. i \in 1..p - 1 /\ i \in 1..Len(front) + Len(back) /\ i <= Len(front)
      BY <2>1, <1>0, <1>1, <1>2
    <3>2. new[i] = front[i]
      BY <3>1, <1>3, <1>4
    <3> QED
      BY <2>1, <3>1, <3>2, <1>1
  <2>2. CASE i >= p
    <3>1. i - (p - 1) \in 1..Len(list) - p /\ p + (i - (p - 1)) = i + 1 /\ ~ (i <= p - 1)
      BY <2>2, <1>0
    <3>2. new[i] = back[i - (p - 1)]
      <4>1. i \in 1..Len(front) + Len(back) /\ ~ (i <= Len(front))
        BY <2>2, <1>0, <1>1, <1>2
      <4>2. cat[i] = back[i - Len(front)]
        BY ONLY <4>1, <1>4
      <4> QED
        BY ONLY <4>2, <1>1, <1>3
    <3>3. new[i] = list[i + 1]
      BY <3>1, <3>2, <1>2
    <3>4. ~ (i < p)
      BY <2>2
    <3> QED
      BY <3>3, <3>4
  <2> QED
    BY <2>1, <2>2, <1>0
<1> QED
  BY <1>0, <1>1, <1>2, <1>3, <1>4, <1>5

\* What the callers of list_remove use: the node is gone, the others are
\* still distinct and ordered and follow each other as before.  A list that
\* does not hold the node is unchanged.
LEMMA RemoveFacts ==
  ASSUME NEW S, NEW list \in Seq(S), NEW node, Distinct(list),
         NEW new, new = list_remove(list, node)
  PROVE  /\ new \in Seq(S)
         /\ Range(new) = Range(list) \ {node}
         /\ Distinct(new)
         /\ node \notin Range(list) => new = list
         /\ \A i, j \in DOMAIN new : i < j =>
              \E m, n \in DOMAIN list : m < n /\ new[i] = list[m] /\ new[j] = list[n]
         /\ \A m, n \in DOMAIN list : m < n /\ list[m] # node /\ list[n] # node =>
              \E i, j \in DOMAIN new : i < j /\ new[i] = list[m] /\ new[j] = list[n]
<1>0. Len(list) \in Nat /\ DOMAIN list = 1..Len(list)
  BY LenProperties
<1>1. CASE node \notin Range(list)
  <2>1. new = list
    BY <1>0, <1>1 DEF list_remove, Range
  <2> QED
    BY <1>1, <2>1
<1>2. CASE node \in Range(list)
  <2> DEFINE I == {i \in 1..Len(list) : list[i] = node}
  <2>1. I # {} /\ I \subseteq Nat
    BY <1>0, <1>2 DEF Range
  <2>2. PICK p \in I : p = Min(I)
    <3> HIDE DEF I
    <3> QED
      BY <2>1, LeastNatural
  <2>3. p \in 1..Len(list) /\ list[p] = node
    BY <2>2
  <2>4. new = UnlinkAt(list, p)
    BY <1>0, <2>1, <2>2, <2>3 DEF list_remove
  <2>5. /\ new \in Seq(S)
        /\ Len(new) = Len(list) - 1
        /\ \A i \in 1..Len(list) - 1 : new[i] = IF i < p THEN list[i] ELSE list[i + 1]
    BY ONLY list \in Seq(S), <2>3, <2>4, UnlinkAtFacts, ZenonT(60)
  <2> DEFINE old(i) == IF i < p THEN i ELSE i + 1
             moved(i) == IF i < p THEN i ELSE i - 1
  <2> HIDE DEF I
  <2>6. DOMAIN new = 1..Len(list) - 1 /\ p \in Nat
    BY <2>3, <2>5, <1>0, LenProperties
  <2>7. \A i \in DOMAIN new : old(i) \in DOMAIN list /\ old(i) # p /\ new[i] = list[old(i)]
    BY <1>0, <2>3, <2>5, <2>6
  <2>8. \A i \in DOMAIN list : i # p => moved(i) \in DOMAIN new /\ new[moved(i)] = list[i]
    <3>1. ASSUME NEW i \in DOMAIN list, i # p
          PROVE  moved(i) \in DOMAIN new /\ new[moved(i)] = list[i]
      <4>1. moved(i) \in DOMAIN new /\ old(moved(i)) = i
        BY <3>1, <1>0, <2>3, <2>6
      <4> QED
        BY <4>1, <2>7
    <3> QED
      BY <3>1
  <2>9. \A i \in DOMAIN list : list[i] = node <=> i = p
    BY <2>3, <1>0 DEF Distinct
  <2>10. Range(new) = Range(list) \ {node}
    <3> HIDE DEF old, moved
    <3> QED
      BY <2>7, <2>8, <2>9 DEF Range
  <2>11. Distinct(new)
    <3>1. ASSUME NEW i \in DOMAIN new, NEW j \in DOMAIN new, new[i] = new[j]
          PROVE  i = j
      <4>1. old(i) = old(j)
        BY <3>1, <2>7 DEF Distinct
      <4> QED
        BY <4>1, <2>6, <1>0
    <3> QED
      BY <3>1 DEF Distinct
  <2>12. ASSUME NEW i \in DOMAIN new, NEW j \in DOMAIN new, i < j
         PROVE  \E m, n \in DOMAIN list : m < n /\ new[i] = list[m] /\ new[j] = list[n]
    <3>1. old(i) < old(j)
      BY <2>12, <2>6, <1>0
    <3> QED
      BY <3>1, <2>7
  <2>13. ASSUME NEW m \in DOMAIN list, NEW n \in DOMAIN list,
                m < n, list[m] # node, list[n] # node
         PROVE  \E i, j \in DOMAIN new : i < j /\ new[i] = list[m] /\ new[j] = list[n]
    <3>1. m # p /\ n # p
      BY <2>13, <2>9
    <3>2. moved(m) < moved(n)
      BY <3>1, <2>13, <2>6, <1>0
    <3> QED
      BY <3>1, <3>2, <2>8
  <2> QED
    BY <1>2, <2>5, <2>10, <2>11, <2>12, <2>13
<1> QED
  BY <1>1, <1>2

\* list_add_tail of a node that is not in the list.
LEMMA AddTailFacts ==
  ASSUME NEW S, NEW list \in Seq(S), NEW node \in S, node \notin Range(list), Distinct(list),
         NEW new, new = list_add_tail(list, node)
  PROVE  new \in Seq(S) /\ Range(new) = Range(list) \cup {node} /\ Distinct(new)
<1>1. /\ new \in Seq(S) /\ Len(new) = Len(list) + 1
      /\ \A i \in 1..Len(list) : new[i] = list[i]
      /\ new[Len(list) + 1] = node
  BY AppendProperties DEF list_add_tail
<1>2. Len(list) \in Nat /\ DOMAIN list = 1..Len(list) /\ DOMAIN new = 1..Len(list) + 1
  BY <1>1, LenProperties
<1>3. Range(new) = Range(list) \cup {node}
  BY <1>1, <1>2 DEF Range
<1>4. Distinct(new)
  BY <1>1, <1>2 DEF Distinct, Range
<1> QED
  BY <1>1, <1>3, <1>4

\* A node that takes another's place.
LEMMA ReplaceFacts ==
  ASSUME NEW S, NEW list \in Seq(S), Distinct(list), NEW i \in DOMAIN list,
         NEW x \in S, x \notin Range(list),
         NEW new \in [DOMAIN list -> S], new[i] = x, \A j \in DOMAIN list : j # i => new[j] = list[j]
  PROVE  new \in Seq(S) /\ Range(new) = (Range(list) \ {list[i]}) \cup {x} /\ Distinct(new)
<1>1. DOMAIN list = 1..Len(list) /\ Len(list) \in Nat /\ \A j \in DOMAIN list : list[j] \in S
  OBVIOUS
<1>2. DOMAIN new = DOMAIN list /\ new[i] = x /\ \A j \in DOMAIN list : j # i => new[j] = list[j]
  OBVIOUS
<1>3. new \in Seq(S)
  <2>1. new \in [1..Len(list) -> S]
    BY <1>1
  <2> QED
    BY <1>1, <2>1
<1>4. \A g : g \in Range(new) <=> g = x \/ (g \in Range(list) /\ g # list[i])
  BY <1>2, Zenon DEF Range, Distinct
<1>5. Distinct(new)
  BY <1>2 DEF Range, Distinct
<1> QED
  BY <1>3, <1>4, <1>5

\* A node that goes first.
LEMMA PrependFacts ==
  ASSUME NEW S, NEW list \in Seq(S), Distinct(list), NEW x \in S, x \notin Range(list)
  PROVE  /\ <<x>> \o list \in Seq(S) /\ Distinct(<<x>> \o list)
         /\ Range(<<x>> \o list) = Range(list) \cup {x}
<1> DEFINE new == <<x>> \o list
<1>1. /\ new \in Seq(S) /\ Len(new) = Len(list) + 1 /\ Len(list) \in Nat
      /\ new[1] = x /\ \A i \in 1..Len(list) : new[i + 1] = list[i]
  <2>1. <<x>> \in Seq(S) /\ Len(<<x>>) = 1 /\ <<x>>[1] = x
    OBVIOUS
  <2> QED
    BY <2>1, ConcatProperties
<1> HIDE DEF new
<1>2. DOMAIN list = 1..Len(list) /\ DOMAIN new = 1..Len(list) + 1
  BY <1>1
<1>3. \A i \in 1..Len(list) + 1 : i # 1 => i - 1 \in 1..Len(list) /\ new[i] = list[i - 1]
  <2>1. \A i \in 1..Len(list) + 1 : i # 1 => i - 1 \in 1..Len(list) /\ (i - 1) + 1 = i
    BY <1>1
  <2> QED
    BY <1>1, <2>1
<1>4. \A g : g \in Range(new) <=> g = x \/ g \in Range(list)
  <2>1. ASSUME NEW g \in Range(new) PROVE g = x \/ g \in Range(list)
    <3>1. PICK i \in 1..Len(list) + 1 : g = new[i]
      BY <1>2 DEF Range
    <3> QED
      BY <1>1, <1>2, <1>3, <3>1, Zenon DEF Range
  <2>2. ASSUME NEW g \in Range(list) PROVE g \in Range(new)
    <3>1. PICK i \in 1..Len(list) : g = list[i]
      BY <1>2 DEF Range
    <3>2. i + 1 \in 1..Len(list) + 1 /\ g = new[i + 1]
      BY <1>1, <3>1
    <3> QED
      BY <1>2, <3>2 DEF Range
  <2>3. x \in Range(new)
    <3>1. 1 \in 1..Len(list) + 1
      BY <1>1
    <3> QED
      BY <1>1, <1>2, <3>1 DEF Range
  <2> QED
    BY <2>1, <2>2, <2>3
<1>5. Distinct(new)
  <2>1. ASSUME NEW i \in DOMAIN new, NEW j \in DOMAIN new, new[i] = new[j] PROVE i = j
    <3>1. \A k \in 1..Len(list) : list[k] # x
      BY <1>2 DEF Range
    <3>2. \A k, l \in 1..Len(list) : list[k] = list[l] => k = l
      BY <1>2 DEF Distinct
    <3> QED
      BY ONLY <1>1, <1>2, <1>3, <2>1, <3>1, <3>2, SMTT(30)
  <2> QED
    BY <2>1 DEF Distinct
<1>6. Range(new) = Range(list) \cup {x}
  BY <1>4
<1> QED
  BY <1>1, <1>5, <1>6 DEF new

\* A list of one node.
LEMMA OneNode ==
  ASSUME NEW S, NEW list \in Seq(S), Distinct(list), NEW x, Range(list) = {x}
  PROVE  list = <<x>>
<1>1. DOMAIN list = 1..Len(list) /\ Len(list) \in Nat
  OBVIOUS
<1>2. \A i \in 1..Len(list) : list[i] = x
  BY <1>1, Zenon DEF Range
<1>3. Len(list) # 0
  <2>1. x \in Range(list)
    OBVIOUS
  <2>2. PICK i \in DOMAIN list : x = list[i]
    BY <2>1, Zenon DEF Range
  <2> QED
    BY ONLY <1>1, <2>2
<1>4. Len(list) = 1
  <2>1. Len(list) > 1 => 1 \in DOMAIN list /\ 2 \in DOMAIN list /\ list[1] = list[2]
    BY <1>1, <1>2
  <2> QED
    BY <1>1, <1>3, <2>1 DEF Distinct
<1> QED
  BY <1>1, <1>2, <1>4
=============================================================================

---------------------------- MODULE StorageProofs ----------------------------
(***************************************************************************)
(* The heap and the ring buffer, for any sizes.                            *)
(*                                                                         *)
(* Tiling says of a region what the allocator relies on, as a predicate of *)
(* its blocks and of the words of the tags.  What a call does to memory is *)
(* local: it changes words between two block boundaries, and what is made  *)
(* of the blocks there tiles the region with the others.                   *)
(*                                                                         *)
(* RingInv says the same of the bytes of the ring between its two indexes, *)
(* at every point of the writer's and of the reader's loop.                *)
(***************************************************************************)
EXTENDS Memory, IoBuffer, ListProofs

\* The boundary behind block h.
Behind(size, h) == h + HeaderSize + size[h] + FooterSize

\* Blocks "used" and "free" tile region r, with these tags; no two free ones
\* are neighbours.  A boundary is also reached from the block in front of it:
\* what exos_mem_free needs of the footer it finds there.
Tiling(r, used, free, size, tag) ==
  /\ First(r) \in used \cup free
  /\ \A h \in used \cup free :
       /\ h \in Int /\ size[h] \in Int
       /\ First(r) <= h /\ Behind(size, h) <= Tail_(r)
       /\ Behind(size, h) \in used \cup free \cup {Tail_(r)}
       /\ size[h] >= NodeSize
       /\ tag[Behind(size, h) - FooterSize] = IF h \in free THEN size[h] ELSE 0
  /\ \A h \in used \cup free \cup {Tail_(r)} :
       h = First(r) \/ \E p \in used \cup free : Behind(size, p) = h
  /\ \A g, h \in used \cup free : g < h => Behind(size, g) <= h
  /\ used \cap free = {}
  /\ \A h \in free : Behind(size, h) \notin free
  /\ tag[Start[r]] = 0 /\ size[Tail_(r)] = 0

----------------------------------------------------------------------------
(* Sizes and places *)

LEMMA Sizes ==
  /\ HeaderSize \in Int /\ HeaderSize > 0 /\ FooterSize \in Int /\ FooterSize > 0
  /\ NodeSize \in Int /\ NodeSize > 0 /\ Align \in Int /\ Align > 0 /\ NodeSize <= Align
  /\ Junk \in Nat /\ \A size \in Request : size \in Int /\ size > 0
<1>1. {HeaderSize, FooterSize, NodeSize, Align} \subseteq Nat \ {0}
  BY MemoryAssumption, Zenon
<1> QED
  BY <1>1, MemoryAssumption

LEMMA Bounds ==
  ASSUME NEW r \in Region
  PROVE  /\ Start[r] \in Int /\ End[r] \in Int /\ First(r) \in Int /\ Tail_(r) \in Int
         /\ First(r) = Start[r] + FooterSize /\ Tail_(r) = End[r] - HeaderSize
         /\ First(r) + HeaderSize + NodeSize + FooterSize <= Tail_(r)
<1>1. Start[r] \in Nat /\ End[r] \in Nat /\ End[r] - Start[r] >= 2 * (HeaderSize + FooterSize) + NodeSize
  BY MemoryAssumption, Zenon
<1> QED
  BY <1>1, Sizes DEF First, Tail_

\* The words of a region are memory.
LEMMA Words == ASSUME NEW r \in Region PROVE \A a \in Start[r]..End[r] : a \in Addr
BY Zenon DEF Addr

\* The region of a header is the one it lies in.
LEMMA RegionOfBlock ==
  ASSUME NEW r \in Region, NEW h \in Int, First(r) <= h, h < Tail_(r)
  PROVE  RegionOf(h) = r
<1>1. h \in Start[r]..End[r] /\ Start[r] < h /\ h < End[r]
  BY Bounds, Sizes
<1>2. ASSUME NEW s \in Region, h \in Start[s]..End[s] PROVE s = r
  <2>1. Start[s] \in Int /\ End[s] \in Int /\ Start[r] \in Int /\ End[r] \in Int
    BY Bounds, Zenon
  <2>2. s # r => End[r] <= Start[s] \/ End[s] <= Start[r]
    BY MemoryAssumption, Zenon
  <2> QED
    BY <1>1, <1>2, <2>1, <2>2
<1> QED
  BY <1>1, <1>2, Zenon DEF RegionOf

\* Rounding up a size gives room for it and for a list node.
LEMMA AlignedFacts ==
  ASSUME NEW size \in Request
  PROVE  Aligned(size) \in Int /\ Aligned(size) >= size /\ Aligned(size) >= NodeSize
<1>1. ASSUME NEW v \in Nat, v > 0, NEW s \in Nat, s > 0
      PROVE  /\ ((s + v - 1) \div v) * v \in Int
             /\ ((s + v - 1) \div v) * v >= s /\ ((s + v - 1) \div v) * v >= v
  BY ONLY <1>1
<1>2. Aligned(size) \in Int /\ Aligned(size) >= size /\ Aligned(size) >= Align
  BY <1>1, Sizes DEF Aligned
<1> QED
  BY <1>2, Sizes

\* What tiling says of a block.
LEMMA BlockFacts ==
  ASSUME NEW r \in Region, NEW used, NEW free, NEW size, NEW tag, Tiling(r, used, free, size, tag),
         NEW h \in used \cup free
  PROVE  /\ h \in Int /\ size[h] \in Int /\ size[h] >= NodeSize
         /\ Behind(size, h) \in Int /\ h + HeaderSize + NodeSize + FooterSize <= Behind(size, h)
         /\ First(r) <= h /\ Behind(size, h) <= Tail_(r) /\ h < Tail_(r)
         /\ Behind(size, h) \in used \cup free \cup {Tail_(r)}
         /\ tag[Behind(size, h) - FooterSize] = IF h \in free THEN size[h] ELSE 0
<1>1. /\ h \in Int /\ size[h] \in Int
      /\ First(r) <= h /\ Behind(size, h) <= Tail_(r)
      /\ Behind(size, h) \in used \cup free \cup {Tail_(r)}
      /\ size[h] >= NodeSize
      /\ tag[Behind(size, h) - FooterSize] = IF h \in free THEN size[h] ELSE 0
  BY Zenon DEF Tiling
<1>2. Behind(size, h) \in Int /\ h + HeaderSize + NodeSize + FooterSize <= Behind(size, h)
  BY <1>1, Sizes DEF Behind
<1> QED
  BY <1>1, <1>2, Sizes, Bounds

\* Between two boundaries there are whole blocks.
LEMMA Outside ==
  ASSUME NEW r \in Region, NEW used, NEW free, NEW size, NEW tag, Tiling(r, used, free, size, tag),
         NEW s \in used \cup free, NEW e \in used \cup free \cup {Tail_(r)}, s < e,
         NEW g \in used \cup free
  PROVE  \/ g < s /\ Behind(size, g) <= s
         \/ s <= g /\ g < e /\ Behind(size, g) <= e
         \/ e <= g
<1>1. \A x, y \in used \cup free : x < y => Behind(size, x) <= y
  BY Zenon DEF Tiling
<1>2. g \in Int /\ s \in Int /\ Behind(size, g) <= Tail_(r)
  BY BlockFacts, Zenon
<1>3. e \in Int
  BY BlockFacts, Bounds
<1>4. g < e => Behind(size, g) <= e
  BY <1>1, <1>2, Zenon
<1> QED
  BY <1>1, <1>2, <1>3, <1>4

----------------------------------------------------------------------------
(* What the calls do to a region *)

\* The words of the region agree outside of two boundaries.
Agree(r, s, e, old, new) == \A a \in Start[r]..End[r] - 1 : a < s \/ e <= a => new[a] = old[a]

\* Memory outside of a region does not concern it.
LEMMA FrameTiling ==
  ASSUME NEW r \in Region, NEW used, NEW free, NEW size, NEW tag, NEW size2, NEW tag2,
         Tiling(r, used, free, size, tag),
         \A a \in Start[r]..End[r] - 1 : size2[a] = size[a] /\ tag2[a] = tag[a]
  PROVE  Tiling(r, used, free, size2, tag2)
<1>1. \A h \in used \cup free : size2[h] = size[h] /\ Behind(size2, h) = Behind(size, h)
  BY BlockFacts, Bounds, Sizes DEF Behind
<1>2. \A h \in used \cup free : tag2[Behind(size, h) - FooterSize] = tag[Behind(size, h) - FooterSize]
  BY BlockFacts, Bounds, Sizes
<1>3. tag2[Start[r]] = tag[Start[r]] /\ size2[Tail_(r)] = size[Tail_(r)]
  BY Bounds, Sizes
<1> QED
  BY <1>1, <1>2, <1>3 DEF Tiling

\* exos_mem_add_region: one free block from end to end.
LEMMA FreshTiling ==
  ASSUME NEW r \in Region, NEW size, NEW tag,
         size[First(r)] = Tail_(r) - First(r) - (HeaderSize + FooterSize),
         tag[Tail_(r) - FooterSize] = size[First(r)],
         tag[Start[r]] = 0, size[Tail_(r)] = 0
  PROVE  Tiling(r, {}, {First(r)}, size, tag)
<1>1. First(r) \in Int /\ Tail_(r) \in Int /\ size[First(r)] \in Int /\ size[First(r)] >= NodeSize /\ size[First(r)] # 0
  BY Bounds, Sizes
<1>2. Behind(size, First(r)) = Tail_(r) /\ First(r) # Tail_(r)
  BY <1>1, Bounds, Sizes DEF Behind
<1> QED
  BY <1>1, <1>2 DEF Tiling

\* What lies outside of two boundaries keeps its tags.
LEMMA OutsideKept ==
  ASSUME NEW r \in Region, NEW used, NEW free, NEW size, NEW tag, NEW size2, NEW tag2,
         Tiling(r, used, free, size, tag),
         NEW s \in used \cup free, NEW e \in used \cup free \cup {Tail_(r)}, s < e,
         Agree(r, s, e, size, size2), Agree(r, s, e, tag, tag2)
  PROVE  /\ \A g \in used \cup free : g < s \/ e <= g =>
              /\ size2[g] = size[g] /\ Behind(size2, g) = Behind(size, g)
              /\ tag2[Behind(size, g) - FooterSize] = tag[Behind(size, g) - FooterSize]
         /\ tag2[Start[r]] = tag[Start[r]] /\ size2[Tail_(r)] = size[Tail_(r)]
<1>0. /\ s \in Int /\ e \in Int /\ First(r) <= s /\ e <= Tail_(r)
  BY BlockFacts, Bounds
<1>1. \A a \in Start[r]..End[r] - 1 : a < s \/ e <= a => size2[a] = size[a] /\ tag2[a] = tag[a]
  BY Zenon DEF Agree
<1>2. ASSUME NEW g \in used \cup free, g < s \/ e <= g
      PROVE  /\ size2[g] = size[g] /\ Behind(size2, g) = Behind(size, g)
             /\ tag2[Behind(size, g) - FooterSize] = tag[Behind(size, g) - FooterSize]
  <2>1. g \in Int /\ First(r) <= g /\ g < Tail_(r) /\ Behind(size, g) \in Int /\ Behind(size, g) <= Tail_(r)
        /\ g + HeaderSize + NodeSize + FooterSize <= Behind(size, g)
    BY BlockFacts
  <2>2. g < s => Behind(size, g) <= s
    BY Outside, <1>0, <2>1
  <2>3. g \in Start[r]..End[r] - 1 /\ Behind(size, g) - FooterSize \in Start[r]..End[r] - 1
    BY <2>1, Bounds, Sizes
  <2>4. size2[g] = size[g]
    BY <1>1, <1>2, <2>3, Zenon
  <2>5. tag2[Behind(size, g) - FooterSize] = tag[Behind(size, g) - FooterSize]
    <3>1. Behind(size, g) - FooterSize < s \/ e <= Behind(size, g) - FooterSize
      BY ONLY <1>0, <1>2, <2>1, <2>2, Sizes
    <3> QED
      BY <1>1, <2>3, <3>1, Zenon
  <2> QED
    BY <2>4, <2>5, Zenon DEF Behind
<1>3. tag2[Start[r]] = tag[Start[r]] /\ size2[Tail_(r)] = size[Tail_(r)]
  BY <1>0, <1>1, Bounds, Sizes, SMTT(40)
<1> QED
  BY <1>2, <1>3, Zenon

\* exos_mem_alloc, a free block is taken as it is.
LEMMA WholeTiling ==
  ASSUME NEW r \in Region, NEW used, NEW free, NEW size, NEW tag, NEW size2, NEW tag2,
         Tiling(r, used, free, size, tag), NEW h \in free,
         Agree(r, h, Behind(size, h), size, size2), Agree(r, h, Behind(size, h), tag, tag2),
         size2[h] = size[h], tag2[Behind(size, h) - FooterSize] = 0
  PROVE  Tiling(r, used \cup {h}, free \ {h}, size2, tag2)
<1> DEFINE B == used \cup free
           e == Behind(size, h)
<1>0. (used \cup {h}) \cup (free \ {h}) = B /\ h \in B
  BY Zenon
<1>1. h \in Int /\ e \in Int /\ h < e /\ e \in B \cup {Tail_(r)}
  BY BlockFacts, Sizes
<1>2. ASSUME NEW g \in B, g # h PROVE g < h \/ e <= g
  <2>1. g \in Int
    BY BlockFacts, Zenon
  <2>2. h < g => e <= g
    BY <1>0, Zenon DEF Tiling
  <2> QED
    BY ONLY <1>1, <1>2, <2>1, <2>2
<1>3. /\ \A g \in B : g # h => /\ size2[g] = size[g] /\ Behind(size2, g) = Behind(size, g)
                               /\ tag2[Behind(size, g) - FooterSize] = tag[Behind(size, g) - FooterSize]
      /\ tag2[Start[r]] = tag[Start[r]] /\ size2[Tail_(r)] = size[Tail_(r)]
  BY <1>1, <1>2, OutsideKept
<1>4. \A g \in B : size2[g] = size[g] /\ Behind(size2, g) = Behind(size, g)
  BY <1>3, Zenon DEF Behind
<1>5. \A g \in B : tag2[Behind(size, g) - FooterSize] = IF g \in free \ {h} THEN size[g] ELSE 0
  BY <1>3, BlockFacts
<1>6. (used \cup {h}) \cap (free \ {h}) = {}
  BY Zenon DEF Tiling
<1>7. \A g \in free \ {h} : Behind(size2, g) \notin free \ {h}
  BY <1>4, Zenon DEF Tiling
<1> HIDE DEF B, e
<1>8. Tiling(r, used, free, size, tag) /\ B = used \cup free
  BY Zenon DEF B
<1> QED
  BY ONLY <1>0, <1>3, <1>4, <1>5, <1>6, <1>7, <1>8 DEF Tiling

\* exos_mem_alloc, the front of a free block is taken, with n words.
LEMMA SplitTiling ==
  ASSUME NEW r \in Region, NEW used, NEW free, NEW size, NEW tag, NEW size2, NEW tag2,
         Tiling(r, used, free, size, tag), NEW h \in free,
         Agree(r, h, Behind(size, h), size, size2), Agree(r, h, Behind(size, h), tag, tag2),
         NEW n \in Int, n >= NodeSize, size[h] - n >= HeaderSize + NodeSize + FooterSize,
         NEW k, k = h + HeaderSize + n + FooterSize,
         size2[h] = n, tag2[k - FooterSize] = 0,
         size2[k] = Behind(size, h) - k - (HeaderSize + FooterSize),
         tag2[Behind(size, h) - FooterSize] = size2[k]
  PROVE  /\ Tiling(r, used \cup {h}, (free \ {h}) \cup {k}, size2, tag2)
         /\ k \notin used \cup free /\ h < k /\ k < Behind(size, h)
<1> DEFINE B == used \cup free
           e == Behind(size, h)
           U == used \cup {h}
           F == (free \ {h}) \cup {k}
<1>0. U \cup F = B \cup {k} /\ h \in B
  BY Zenon
<1>1. /\ h \in Int /\ e \in Int /\ e \in B \cup {Tail_(r)} /\ size[h] \in Int
      /\ First(r) <= h /\ e <= Tail_(r) /\ e = h + HeaderSize + size[h] + FooterSize
  BY BlockFacts DEF Behind
<1>2. /\ k \in Int /\ h < k /\ k < e /\ size2[k] \in Int /\ size2[k] >= NodeSize
      /\ Behind(size2, h) = k /\ Behind(size2, k) = e
  BY <1>1, Sizes DEF Behind
<1>3. ASSUME NEW g \in B, g # h PROVE g \in Int /\ (g < h \/ e <= g)
  <2>1. g \in Int
    BY BlockFacts, Zenon
  <2>2. h < g => e <= g
    BY <1>0, Zenon DEF Tiling
  <2> QED
    BY ONLY <1>1, <1>3, <2>1, <2>2
<1>4. k \notin B
  BY <1>1, <1>2, <1>3, SMTT(40)
<1>5. /\ \A g \in B : g # h => /\ size2[g] = size[g] /\ Behind(size2, g) = Behind(size, g)
                               /\ tag2[Behind(size, g) - FooterSize] = tag[Behind(size, g) - FooterSize]
      /\ tag2[Start[r]] = tag[Start[r]] /\ size2[Tail_(r)] = size[Tail_(r)]
  BY <1>1, <1>2, <1>3, OutsideKept
<1>6. \A g \in B : /\ g \in Int /\ size[g] \in Int /\ size[g] >= NodeSize /\ First(r) <= g /\ Behind(size, g) <= Tail_(r)
                   /\ Behind(size, g) \in B \cup {Tail_(r)} /\ Behind(size, g) \in Int /\ g < Behind(size, g)
                   /\ tag[Behind(size, g) - FooterSize] = IF g \in free THEN size[g] ELSE 0
  BY BlockFacts, Sizes
<1>7. /\ First(r) \in B /\ used \cap free = {} /\ tag[Start[r]] = 0 /\ size[Tail_(r)] = 0
      /\ \A x, y \in B : x < y => Behind(size, x) <= y
      /\ \A x \in B \cup {Tail_(r)} : x = First(r) \/ \E p \in B : Behind(size, p) = x
      /\ \A x \in free : Behind(size, x) \notin free
  BY Zenon DEF Tiling
<1>f. h \in free /\ \A g : g \in free => g \in B
  BY Zenon
<1>t. Tail_(r) \in Int /\ First(r) \in Int
  BY Bounds, Zenon
<1> HIDE DEF B, e
<1>8. ASSUME NEW g \in B \cup {k}
      PROVE  /\ g \in Int /\ size2[g] \in Int /\ First(r) <= g /\ Behind(size2, g) <= Tail_(r)
             /\ Behind(size2, g) \in (B \cup {k}) \cup {Tail_(r)} /\ size2[g] >= NodeSize
             /\ tag2[Behind(size2, g) - FooterSize] = IF g \in F THEN size2[g] ELSE 0
  <2>1. CASE g = k
    <3>1. tag2[e - FooterSize] = size2[k]
      BY Zenon DEF e
    <3> QED
      BY ONLY <2>1, <3>1, <1>1, <1>2, <1>t DEF F
  <2>2. CASE g = h
    BY ONLY <2>2, <1>0, <1>1, <1>2, <1>t, Sizes, n \in Int, n >= NodeSize, size2[h] = n, tag2[k - FooterSize] = 0, SMTT(30) DEF F
  <2>3. CASE g \in B /\ g # h
    <3>1. g # k
      BY <1>4, <2>3, Zenon
    <3> QED
      BY ONLY <2>3, <3>1, <1>5, <1>6 DEF F
  <2> QED
    BY <2>1, <2>2, <2>3, Zenon
<1>9. ASSUME NEW x \in (B \cup {k}) \cup {Tail_(r)}
      PROVE  x = First(r) \/ \E p \in B \cup {k} : Behind(size2, p) = x
  <2>1. CASE x = k
    BY ONLY <2>1, <1>0, <1>2, Zenon
  <2>2. CASE x # k /\ x # First(r)
    <3>1. PICK p \in B : Behind(size, p) = x
      BY <1>7, <1>9, <2>2, Zenon
    <3>2. CASE p = h
      <4>1. x = e
        BY <3>1, <3>2, Zenon DEF e
      <4> QED
        BY ONLY <4>1, <1>2, Zenon
    <3>3. CASE p # h
      BY ONLY <3>1, <3>3, <1>5, Zenon
    <3> QED
      BY <3>2, <3>3, Zenon
  <2> QED
    BY <2>1, <2>2, Zenon
<1>10. ASSUME NEW x \in B \cup {k}, NEW y \in B \cup {k}, x < y PROVE Behind(size2, x) <= y
  <2>1. CASE x = h
    BY ONLY <2>1, <1>10, <1>1, <1>2, <1>3
  <2>2. CASE x = k
    BY ONLY <2>2, <1>10, <1>1, <1>2, <1>3
  <2>3. CASE x # h /\ x # k
    <3>1. x \in B /\ x \in Int /\ (x < h \/ e <= x) /\ Behind(size2, x) = Behind(size, x) /\ Behind(size, x) \in Int
      BY ONLY <2>3, <1>3, <1>5, <1>6, <1>10, Zenon
    <3>2. y \in B => Behind(size, x) <= y
      BY ONLY <3>1, <1>7, <1>10, Zenon
    <3>3. y = k => Behind(size, x) <= h
      BY ONLY <3>1, <1>0, <1>1, <1>2, <1>7, <1>10, SMTT(30)
    <3> QED
      BY ONLY <3>1, <3>2, <3>3, <1>1, <1>2, <1>10, SMTT(30)
  <2> QED
    BY <2>1, <2>2, <2>3, Zenon
<1>11. U \cap F = {}
  BY ONLY <1>0, <1>4, <1>7, B = used \cup free, Zenon DEF U, F, B
<1>12. ASSUME NEW x \in F PROVE Behind(size2, x) \notin F
  <2>1. CASE x = k
    <3>1. e \notin free
      BY <1>7, <1>f, Zenon DEF e
    <3> QED
      BY ONLY <2>1, <3>1, <1>1, <1>2 DEF F
  <2>2. CASE x # k
    <3>1. x \in free /\ x # h /\ x \in B
      BY <1>12, <2>2, <1>f, Zenon
    <3>2. Behind(size2, x) = Behind(size, x) /\ Behind(size, x) \notin free
      BY <3>1, <1>5, <1>7, Zenon
    <3>3. Behind(size, x) # k
      BY ONLY <3>1, <1>1, <1>2, <1>4, <1>6, SMTT(40)
    <3> QED
      BY ONLY <3>2, <3>3, Zenon DEF F
  <2> QED
    BY <2>1, <2>2, Zenon
<1>13. B \cup {k} = U \cup F
  BY <1>0, Zenon
<1> HIDE DEF U, F
<1>14. Tiling(r, U, F, size2, tag2)
  <2>1. First(r) \in U \cup F /\ tag2[Start[r]] = 0 /\ size2[Tail_(r)] = 0
    BY ONLY <1>5, <1>7, <1>13, Zenon
  <2> QED
    BY ONLY <2>1, <1>8, <1>9, <1>10, <1>11, <1>12, <1>13, Zenon DEF Tiling
<1> QED
  BY <1>2, <1>4, <1>14, Zenon DEF U, F, B, e

\* exos_mem_free: the blocks between two boundaries become one free block.
LEMMA MergeTiling ==
  ASSUME NEW r \in Region, NEW used, NEW free, NEW size, NEW tag, NEW size2, NEW tag2,
         Tiling(r, used, free, size, tag),
         NEW s \in used \cup free, NEW e \in (used \cup free) \cup {Tail_(r)}, s < e,
         e \notin free, \A p \in free : Behind(size, p) # s,
         Agree(r, s, e, size, size2), Agree(r, s, e, tag, tag2),
         size2[s] = e - s - (HeaderSize + FooterSize), tag2[e - FooterSize] = size2[s],
         NEW U, NEW F,
         \A g : g \in U <=> g \in used /\ (g < s \/ e <= g),
         \A g : g \in F <=> g = s \/ (g \in free /\ (g < s \/ e <= g))
  PROVE  Tiling(r, U, F, size2, tag2)
<1> DEFINE B == used \cup free
           C == U \cup F
<1>0. \A g : g \in C <=> g = s \/ (g \in B /\ (g < s \/ e <= g))
  BY Zenon
<1>1. /\ s \in B /\ s \in Int /\ e \in Int /\ First(r) <= s /\ e <= Tail_(r) /\ size[s] \in Int /\ size[s] >= NodeSize
      /\ Tail_(r) \in Int /\ First(r) \in Int /\ e \in B \cup {Tail_(r)}
  BY BlockFacts, Bounds
<1>2. s + HeaderSize + size[s] + FooterSize <= e
  <2>1. Behind(size, s) <= e
    BY <1>1, Outside
  <2> QED
    BY <2>1, Zenon DEF Behind
<1>3. size2[s] \in Int /\ size2[s] >= NodeSize /\ Behind(size2, s) = e
  BY ONLY <1>1, <1>2, Sizes, size2[s] = e - s - (HeaderSize + FooterSize), SMTT(30) DEF Behind
<1>4. \A g \in B : /\ g \in Int /\ size[g] \in Int /\ size[g] >= NodeSize /\ First(r) <= g /\ Behind(size, g) <= Tail_(r)
                   /\ Behind(size, g) \in B \cup {Tail_(r)} /\ Behind(size, g) \in Int /\ g < Behind(size, g)
                   /\ tag[Behind(size, g) - FooterSize] = IF g \in free THEN size[g] ELSE 0
  BY BlockFacts, Sizes, SMTT(30)
<1>5. /\ \A g \in B : g < s \/ e <= g =>
           /\ size2[g] = size[g] /\ Behind(size2, g) = Behind(size, g)
           /\ tag2[Behind(size, g) - FooterSize] = tag[Behind(size, g) - FooterSize]
      /\ tag2[Start[r]] = tag[Start[r]] /\ size2[Tail_(r)] = size[Tail_(r)]
  BY OutsideKept
<1>6. /\ First(r) \in B /\ used \cap free = {} /\ tag[Start[r]] = 0 /\ size[Tail_(r)] = 0
      /\ \A x, y \in B : x < y => Behind(size, x) <= y
      /\ \A x \in B \cup {Tail_(r)} : x = First(r) \/ \E p \in B : Behind(size, p) = x
      /\ \A x \in free : Behind(size, x) \notin free
  BY Zenon DEF Tiling
<1>7. \A g \in B : /\ g < s => Behind(size, g) <= s
                   /\ s <= g /\ g < e => Behind(size, g) <= e
  <2>1. \A g \in B : \/ g < s /\ Behind(size, g) <= s
                     \/ s <= g /\ g < e /\ Behind(size, g) <= e
                     \/ e <= g
    BY Outside, Zenon
  <2> QED
    BY ONLY <2>1, <1>1, <1>4, s < e, SMTT(30)
<1>s. s < e /\ e \notin free /\ (\A p \in free : Behind(size, p) # s) /\ tag2[e - FooterSize] = size2[s]
  BY Zenon
<1>f. /\ \A g : g \in U <=> g \in used /\ (g < s \/ e <= g)
      /\ \A g : g \in F <=> g = s \/ (g \in free /\ (g < s \/ e <= g))
      /\ \A g : g \in B <=> g \in used \/ g \in free
  BY Zenon
<1> HIDE DEF B, C
<1>8. ASSUME NEW g \in C
      PROVE  /\ g \in Int /\ size2[g] \in Int /\ First(r) <= g /\ Behind(size2, g) <= Tail_(r)
             /\ Behind(size2, g) \in C \cup {Tail_(r)} /\ size2[g] >= NodeSize
             /\ tag2[Behind(size2, g) - FooterSize] = IF g \in F THEN size2[g] ELSE 0
  <2>1. CASE g = s
    <3>1. e \in C \cup {Tail_(r)}
      BY ONLY <1>0, <1>1
    <3> QED
      BY ONLY <2>1, <3>1, <1>1, <1>3, <1>s, <1>f, Zenon
  <2>2. CASE g # s
    <3>1. g \in B /\ (g < s \/ e <= g)
      BY <1>0, <1>8, <2>2, Zenon
    <3>2. Behind(size2, g) = Behind(size, g) /\ size2[g] = size[g]
          /\ tag2[Behind(size, g) - FooterSize] = tag[Behind(size, g) - FooterSize]
      BY <3>1, <1>5, Zenon
    <3>3. Behind(size, g) \in C \cup {Tail_(r)}
      BY ONLY <3>1, <1>0, <1>1, <1>4, <1>7
    <3>4. g \in F <=> g \in free
      BY ONLY <3>1, <2>2, <1>f, Zenon
    <3> QED
      BY ONLY <3>1, <3>2, <3>3, <3>4, <1>4, Zenon
  <2> QED
    BY <2>1, <2>2, Zenon
<1>9. ASSUME NEW x \in C \cup {Tail_(r)}, x # First(r)
      PROVE  \E p \in C : Behind(size2, p) = x
  <2>1. CASE x = e
    BY ONLY <2>1, <1>0, <1>3, Zenon
  <2>2. CASE x # e
    <3>1. x \in B \cup {Tail_(r)} /\ x \in Int /\ (x <= s \/ e < x)
      <4>1. CASE x = Tail_(r)
        BY ONLY <4>1, <2>2, <1>1
      <4>2. CASE x \in C
        <5>1. x = s \/ (x \in B /\ (x < s \/ e <= x))
          BY <4>2, <1>0, Zenon
        <5>2. x \in B /\ x \in Int
          BY <5>1, <1>1, <1>4, ZenonT(40)
        <5> QED
          BY ONLY <5>1, <5>2, <2>2, <1>1, SMTT(30)
      <4> QED
        BY <4>1, <4>2, <1>9, Zenon
    <3>2. PICK p \in B : Behind(size, p) = x
      BY <3>1, <1>6, <1>9, Zenon
    <3>3. p < s \/ e <= p
      BY ONLY <3>1, <3>2, <1>1, <1>4, <1>7, <1>s, SMTT(30)
    <3> QED
      BY ONLY <3>2, <3>3, <1>0, <1>5, Zenon
  <2> QED
    BY <2>1, <2>2, Zenon
<1>10. ASSUME NEW x \in C, NEW y \in C, x < y PROVE Behind(size2, x) <= y
  <2>0. x \in Int /\ y \in Int /\ (y < s \/ y = s \/ e <= y) /\ (y # s => y \in B)
    BY ONLY <1>0, <1>1, <1>8, <1>10, Zenon
  <2>1. CASE x = s
    BY ONLY <2>0, <2>1, <1>1, <1>3, <1>10, SMTT(30)
  <2>2. CASE x # s
    <3>1. x \in B /\ (x < s \/ e <= x) /\ Behind(size2, x) = Behind(size, x)
      BY ONLY <2>2, <1>0, <1>5, <1>10, Zenon
    <3> QED
      BY ONLY <3>1, <2>0, <1>1, <1>6, <1>10, Zenon
  <2> QED
    BY <2>1, <2>2, Zenon
<1>11. U \cap F = {}
  BY ONLY <1>f, <1>1, <1>6, <1>s, SMTT(30)
<1>12. ASSUME NEW x \in F PROVE Behind(size2, x) \notin F
  <2>1. CASE x = s
    BY ONLY <2>1, <1>f, <1>1, <1>3, <1>s, SMTT(40)
  <2>2. CASE x # s
    <3>1. x \in free /\ x \in B /\ (x < s \/ e <= x)
      BY <1>12, <2>2, <1>f, Zenon
    <3>2. Behind(size2, x) = Behind(size, x) /\ Behind(size, x) \notin free /\ Behind(size, x) # s
      BY <3>1, <1>5, <1>6, <1>s, Zenon
    <3> QED
      BY ONLY <3>2, <1>f, Zenon
  <2> QED
    BY <2>1, <2>2, Zenon
<1>13. First(r) \in C /\ tag2[Start[r]] = 0 /\ size2[Tail_(r)] = 0
  BY ONLY <1>0, <1>1, <1>5, <1>6, SMTT(30)
<1>14. C = U \cup F
  BY Zenon DEF C
<1> QED
  BY ONLY <1>8, <1>9, <1>10, <1>11, <1>12, <1>13, <1>14, Zenon DEF Tiling

\* What exos_mem_free learns from the header behind a block, and from the
\* footer in front of it.
LEMMA TagsTell ==
  ASSUME NEW r \in Region, NEW used, NEW free, Tiling(r, used, free, Size, FreeSize),
         NEW h \in used \cup free
  PROVE  /\ NextFree(h) <=> Next_(h) \in free
         /\ PrevFree(h) <=> \E p \in free : Behind(Size, p) = h
         /\ PrevFree(h) => Prev(h) \in free /\ Behind(Size, Prev(h)) = h
         /\ Next_(h) = Behind(Size, h)
<1> DEFINE B == used \cup free
           n == Behind(Size, h)
<1>1. Next_(h) = n
  BY Zenon DEF Next_, Behind, Contents
<1>2. n \in B \cup {Tail_(r)} /\ n \in Int /\ h \in Int /\ First(r) <= h
  BY BlockFacts, Zenon
<1>3. ASSUME NEW g \in B
      PROVE  /\ g \in Int /\ Size[g] \in Int /\ Size[g] > 0
             /\ Behind(Size, g) - FooterSize = Contents(g) + Size[g]
             /\ Behind(Size, g) = g + HeaderSize + Size[g] + FooterSize
             /\ FreeSize[Behind(Size, g) - FooterSize] = IF g \in free THEN Size[g] ELSE 0
  <2>1. g \in Int /\ Size[g] \in Int /\ Size[g] >= NodeSize
        /\ FreeSize[Behind(Size, g) - FooterSize] = IF g \in free THEN Size[g] ELSE 0
    BY BlockFacts
  <2> QED
    BY ONLY <2>1, Sizes DEF Behind, Contents
<1>4. Size[Tail_(r)] = 0 /\ FreeSize[Start[r]] = 0
  BY Zenon DEF Tiling
<1>5. NextFree(h) <=> n \in free
  <2>1. CASE n \in B
    BY <1>1, <1>3, <2>1 DEF NextFree
  <2>2. CASE n \notin B
    BY <1>1, <1>2, <1>4, <2>2, Zenon DEF NextFree
  <2> QED
    BY <2>1, <2>2, Zenon
<1>6. CASE h = First(r)
  <2>1. h - FooterSize = Start[r]
    BY <1>6, Bounds, Sizes
  <2>2. ~ PrevFree(h)
    BY <1>4, <2>1, Zenon DEF PrevFree
  <2>3. \A p \in free : Behind(Size, p) # h
    <3>1. \A p \in B : First(r) <= p /\ p \in Int /\ Behind(Size, p) \in Int /\ p < Behind(Size, p)
      BY BlockFacts, Sizes
    <3>2. ASSUME NEW p \in free, Behind(Size, p) = h PROVE FALSE
      <4>1. p \in B
        BY Zenon
      <4>2. First(r) <= p /\ p \in Int /\ Behind(Size, p) \in Int /\ p < Behind(Size, p)
        BY <3>1, <4>1, Zenon
      <4> QED
        BY ONLY <1>6, <1>2, <3>2, <4>2
    <3> QED
      BY <3>2, Zenon
  <2> QED
    BY <1>1, <1>5, <2>2, <2>3, Zenon
<1>7. CASE h # First(r)
  <2>1. PICK p \in B : Behind(Size, p) = h
    BY <1>7, Zenon DEF Tiling
  <2>2. \A q \in B : Behind(Size, q) = h => q = p
    <3>1. \A x, y \in B : x < y => Behind(Size, x) <= y
      BY Zenon DEF Tiling
    <3>2. \A q \in B : q \in Int /\ q < Behind(Size, q)
      BY BlockFacts, Sizes
    <3> QED
      BY ONLY <3>1, <3>2, <2>1
  <2>3. /\ p \in Int /\ Size[p] \in Int /\ Size[p] > 0
        /\ h = p + HeaderSize + Size[p] + FooterSize
        /\ FreeSize[h - FooterSize] = IF p \in free THEN Size[p] ELSE 0
    BY <1>3, <2>1, Zenon
  <2>4. PrevFree(h) <=> p \in free
    BY ONLY <2>3 DEF PrevFree
  <2>5. p \in free => Prev(h) = p
    BY ONLY <2>3, Sizes DEF Prev
  <2> QED
    BY <1>1, <1>5, <2>1, <2>2, <2>4, <2>5, Zenon
<1> QED
  BY <1>6, <1>7, Zenon

----------------------------------------------------------------------------
(* The invariant of the heap *)

\* The inductive invariant.
MemoryInv ==
  /\ MemoryTypeOK
  /\ Distinct(mem_list) /\ Ordered(mem_list, Priority)
  /\ \A b \in live : RegionOf(b[1]) \in Range(mem_list) /\ Size[b[1]] >= b[2]
  /\ \A r \in Range(mem_list) :
       Tiling(r, Used(r), Free(r), Size, FreeSize) /\ Distinct(FreeList[r])

----------------------------------------------------------------------------
(* The invariant holds at first *)

LEMMA InitInv == MemoryInit => MemoryInv
<1> SUFFICES ASSUME MemoryInit PROVE MemoryInv
  BY Zenon
<1>1. mem_list = <<>> /\ live = {} /\ DOMAIN mem_list = {}
  BY DEF MemoryInit
<1>2. MemoryTypeOK
  BY Sizes DEF MemoryInit, MemoryTypeOK
<1>3. Range(mem_list) = {}
  BY <1>1, Zenon DEF Range
<1> QED
  BY <1>1, <1>2, <1>3, Zenon DEF MemoryInv, Distinct, Ordered

\* What the invariant says of the regions in use.
LEMMA InvFacts ==
  ASSUME MemoryInv
  PROVE  /\ \A r \in Range(mem_list) :
              r \in Region /\ Tiling(r, Used(r), Free(r), Size, FreeSize) /\ Distinct(FreeList[r])
         /\ \A r \in Region : FreeList[r] \in Seq(Addr)
<1>1. mem_list \in Seq(Region) /\ FreeList \in [Region -> Seq(Addr)]
  BY Zenon DEF MemoryInv, MemoryTypeOK
<1>2. \A r \in Range(mem_list) : r \in Region
  <2>1. \A i \in DOMAIN mem_list : mem_list[i] \in Region
    BY <1>1
  <2> QED
    BY <2>1, Zenon DEF Range
<1> QED
  BY <1>1, <1>2, Zenon DEF MemoryInv

\* What is left to show of a call that changes the words and the blocks of
\* one region.
LEMMA RegionChange ==
  ASSUME MemoryInv, NEW r \in Region, MemoryTypeOK',
         Range(mem_list)' = Range(mem_list) \cup {r},
         Distinct(mem_list'), Ordered(mem_list', Priority),
         \A s \in Region : s # r => FreeList'[s] = FreeList[s],
         \A a \in Addr : a < Start[r] \/ End[r] <= a => Size'[a] = Size[a] /\ FreeSize'[a] = FreeSize[a],
         \A b : RegionOf(b[1]) # r => (b \in live' <=> b \in live),
         \A b \in live' : RegionOf(b[1]) = r => Size'[b[1]] >= b[2],
         Tiling(r, Used(r)', Free(r)', Size', FreeSize'), Distinct(FreeList'[r])
  PROVE  MemoryInv'
<1>1. ASSUME NEW s \in Region, s # r, NEW a \in Start[s]..End[s] - 1
      PROVE  a \in Addr /\ Size'[a] = Size[a] /\ FreeSize'[a] = FreeSize[a]
  <2>1. Start[s] \in Int /\ End[s] \in Int /\ Start[r] \in Int /\ End[r] \in Int
    BY Bounds, Zenon
  <2>2. End[r] <= Start[s] \/ End[s] <= Start[r]
    BY <1>1, MemoryAssumption, Zenon
  <2>3. a \in Addr
    BY <2>1, Words
  <2>4. a < Start[r] \/ End[r] <= a
    BY ONLY <1>1, <2>1, <2>2
  <2> QED
    BY <2>3, <2>4, Zenon
<1>2. \A s \in Range(mem_list) : s \in Region /\ Tiling(s, Used(s), Free(s), Size, FreeSize) /\ Distinct(FreeList[s])
  BY InvFacts, Zenon
<1>3. ASSUME NEW s \in Region, s # r PROVE Used(s)' = Used(s) /\ Free(s)' = Free(s)
  <2>1. {c \in live' : RegionOf(c[1]) = s} = {c \in live : RegionOf(c[1]) = s}
    BY <1>3, Zenon
  <2> QED
    BY <2>1, <1>3, Zenon DEF Used, Free, RegionOf
<1>4. ASSUME NEW s \in Range(mem_list)', s # r
      PROVE  Tiling(s, Used(s)', Free(s)', Size', FreeSize') /\ Distinct(FreeList'[s])
  <2>1. s \in Range(mem_list) /\ s \in Region
    BY <1>2, <1>4, Zenon
  <2>2. Tiling(s, Used(s), Free(s), Size', FreeSize')
    BY <1>1, <1>2, <1>4, <2>1, FrameTiling, Zenon
  <2> QED
    BY <2>1, <2>2, <1>2, <1>3, <1>4, Zenon
<1>5. ASSUME NEW b \in live', RegionOf(b[1]) # r
      PROVE  RegionOf(b[1]) \in Range(mem_list) /\ Size'[b[1]] >= b[2]
  <2> DEFINE s == RegionOf(b[1])
  <2>1. b \in live /\ s \in Range(mem_list) /\ s \in Region /\ s # r /\ Size[b[1]] >= b[2]
    BY <1>2, <1>5, Zenon DEF MemoryInv
  <2>2. b[1] \in Used(s)
    BY <2>1, Zenon DEF Used
  <2> HIDE DEF s
  <2>3. b[1] \in Int /\ First(s) <= b[1] /\ b[1] < Tail_(s)
    BY <1>2, <2>1, <2>2, BlockFacts, SMTT(40)
  <2>4. b[1] \in Start[s]..End[s] - 1
    BY <2>1, <2>3, Bounds, Sizes
  <2>5. Size'[b[1]] = Size[b[1]]
    BY ONLY <1>1, <2>1, <2>4, Zenon
  <2> QED
    BY <2>1, <2>5, Zenon DEF s
<1>6. \A b \in live' : RegionOf(b[1]) \in Range(mem_list)' /\ Size'[b[1]] >= b[2]
  BY <1>5, Zenon
<1>7. \A s \in Range(mem_list)' : Tiling(s, Used(s)', Free(s)', Size', FreeSize') /\ Distinct(FreeList'[s])
  BY <1>4, Zenon
<1>8. (\A b \in live : RegionOf(b[1]) \in Range(mem_list) /\ Size[b[1]] >= b[2])'
  BY <1>6, Zenon DEF RegionOf
<1>9. (\A s \in Range(mem_list) : Tiling(s, Used(s), Free(s), Size, FreeSize) /\ Distinct(FreeList[s]))'
  BY <1>7, Zenon DEF Tiling, First, Tail_, Behind, Distinct
<1>10. (Distinct(mem_list) /\ Ordered(mem_list, Priority))'
  BY Zenon DEF Distinct, Ordered
<1> QED
  BY <1>8, <1>9, <1>10, Zenon DEF MemoryInv

----------------------------------------------------------------------------
(* The calls *)

LEMMA AddRegionInv ==
  ASSUME MemoryInv, NEW r \in Region, exos_mem_add_region(r)
  PROVE  MemoryInv'
<1> DEFINE n == Tail_(r) - First(r) - (HeaderSize + FooterSize)
           f == First(r)
           t == Tail_(r)
<1>0. /\ r \notin Range(mem_list) /\ mem_list' = list_enqueue(mem_list, r, Priority)
      /\ Size' = [[Size EXCEPT ![t] = 0] EXCEPT ![f] = n]
      /\ FreeSize' = [[FreeSize EXCEPT ![Start[r]] = 0] EXCEPT ![t - FooterSize] = n]
      /\ FreeList' = [FreeList EXCEPT ![r] = list_add_tail(<<>>, f)] /\ live' = live
  BY Zenon DEF exos_mem_add_region, _init_block
<1>1. /\ mem_list \in Seq(Region) /\ FreeList \in [Region -> Seq(Addr)] /\ Size \in [Addr -> Nat]
      /\ FreeSize \in [Addr -> Nat] /\ live \subseteq Addr \X Request
      /\ Distinct(mem_list) /\ Ordered(mem_list, Priority)
  BY Zenon DEF MemoryInv, MemoryTypeOK
<1>2. /\ mem_list' \in Seq(Region) /\ Range(mem_list)' = Range(mem_list) \cup {r}
      /\ Distinct(mem_list') /\ Ordered(mem_list', Priority)
  <2>1. Priority \in [Region -> Int]
    BY MemoryAssumption, Zenon
  <2>2. Range(mem_list') = Range(mem_list)'
    BY Zenon DEF Range
  <2> QED
    BY <1>0, <1>1, <2>1, <2>2, EnqueueFacts
<1>3. /\ Start[r] \in Int /\ End[r] \in Int /\ f \in Int /\ t \in Int /\ f = Start[r] + FooterSize
      /\ t = End[r] - HeaderSize /\ f + HeaderSize + NodeSize + FooterSize <= t
  BY Bounds, Zenon
<1>4. /\ n \in Nat /\ Start[r] \in Start[r]..End[r] - 1 /\ f \in Start[r]..End[r] - 1
      /\ t \in Start[r]..End[r] - 1 /\ t - FooterSize \in Start[r]..End[r] - 1
      /\ f # t /\ Start[r] # t - FooterSize
  BY ONLY <1>3, Sizes
<1>5. Start[r] \in Addr /\ f \in Addr /\ t \in Addr /\ t - FooterSize \in Addr
  <2>1. \A a \in Start[r]..End[r] - 1 : a \in Addr
    BY <1>3, Words
  <2> QED
    BY <1>4, <2>1, Zenon
<1> HIDE DEF f, t, n
<1>6. /\ Size' \in [Addr -> Nat] /\ Size'[t] = 0 /\ Size'[f] = n
      /\ \A a \in Addr : a # t /\ a # f => Size'[a] = Size[a]
  BY ONLY <1>0, <1>1, <1>4, <1>5, Zenon
<1>7. /\ FreeSize' \in [Addr -> Nat] /\ FreeSize'[Start[r]] = 0 /\ FreeSize'[t - FooterSize] = n
      /\ \A a \in Addr : a # Start[r] /\ a # t - FooterSize => FreeSize'[a] = FreeSize[a]
  BY ONLY <1>0, <1>1, <1>4, <1>5, Zenon
<1>8. \A a \in Addr : a < Start[r] \/ End[r] <= a => Size'[a] = Size[a] /\ FreeSize'[a] = FreeSize[a]
  <2>1. ASSUME NEW a \in Addr, a < Start[r] \/ End[r] <= a
        PROVE  a # t /\ a # f /\ a # Start[r] /\ a # t - FooterSize
    BY ONLY <1>3, <1>4, <2>1
  <2> QED
    BY <1>6, <1>7, <2>1, Zenon
<1>9. /\ FreeList' \in [Region -> Seq(Addr)] /\ FreeList'[r] = <<f>>
      /\ \A s \in Region : s # r => FreeList'[s] = FreeList[s]
  <2>1. list_add_tail(<<>>, f) = <<f>> /\ <<f>> \in Seq(Addr)
    BY <1>5 DEF list_add_tail
  <2> QED
    BY <1>0, <1>1, <2>1, Zenon
<1>10. Distinct(FreeList'[r]) /\ Free(r)' = {f}
  <2>1. DOMAIN <<f>> = {1} /\ <<f>>[1] = f
    OBVIOUS
  <2> QED
    BY <1>9, <2>1 DEF Free, Range, Distinct
<1>11. Used(r)' = {}
  <2>1. \A b \in live : RegionOf(b[1]) # r
    BY <1>0, Zenon DEF MemoryInv
  <2> QED
    BY <1>0, <2>1, Zenon DEF Used, RegionOf
<1>12. Tiling(r, Used(r)', Free(r)', Size', FreeSize')
  <2>1. Tiling(r, {}, {f}, Size', FreeSize')
    BY <1>6, <1>7, FreshTiling, Zenon DEF f, t, n
  <2> QED
    BY <1>10, <1>11, <2>1, Zenon
<1>13. MemoryTypeOK'
  BY <1>0, <1>1, <1>2, <1>6, <1>7, <1>9, Zenon DEF MemoryTypeOK
<1>14. \A b \in live' : RegionOf(b[1]) # r
  BY <1>0, Zenon DEF MemoryInv
<1>15. \A b : b \in live' <=> b \in live
  BY <1>0, Zenon
<1> QED
  BY <1>2, <1>8, <1>9, <1>10, <1>12, <1>13, <1>14, <1>15, RegionChange, ZenonT(40)

\* A block keeps its size when another one is taken.
LEMMA OtherKept ==
  ASSUME NEW r \in Region, NEW used, NEW free, NEW size, NEW tag, NEW size2,
         Tiling(r, used, free, size, tag), NEW h \in used \cup free,
         Agree(r, h, Behind(size, h), size, size2), NEW g \in used \cup free, g # h
  PROVE  size2[g] = size[g]
<1>1. g \in Int /\ First(r) <= g /\ g < Tail_(r) /\ h \in Int
  BY BlockFacts, Zenon
<1>2. h < g => Behind(size, h) <= g
  BY Zenon DEF Tiling
<1>3. g \in Start[r]..End[r] - 1
  BY <1>1, Bounds, Sizes
<1>4. g < h \/ Behind(size, h) <= g
  BY ONLY <1>1, <1>2, g # h
<1> QED
  BY <1>3, <1>4, Zenon DEF Agree

\* What is left to show of taking block h of region r: that the blocks, with h
\* used and "free" on the FreeList, tile it again.
LEMMA TakenInv ==
  ASSUME MemoryInv, NEW r \in Range(mem_list), NEW h \in Free(r), NEW size \in Request,
         Size' \in [Addr -> Nat], FreeSize' \in [Addr -> Nat],
         \A a \in Addr : a < h \/ Behind(Size, h) <= a => Size'[a] = Size[a] /\ FreeSize'[a] = FreeSize[a],
         Size'[h] >= size,
         NEW list \in Seq(Addr), Distinct(list), FreeList' = [FreeList EXCEPT ![r] = list],
         Tiling(r, Used(r) \cup {h}, Range(list), Size', FreeSize'),
         live' = live \cup {<<h, size>>}, mem_list' = mem_list
  PROVE  MemoryInv'
<1>0. /\ mem_list \in Seq(Region) /\ FreeList \in [Region -> Seq(Addr)] /\ live \subseteq Addr \X Request
      /\ Distinct(mem_list) /\ Ordered(mem_list, Priority)
  BY Zenon DEF MemoryInv, MemoryTypeOK
<1>1. r \in Region /\ Tiling(r, Used(r), Free(r), Size, FreeSize) /\ Distinct(FreeList[r])
  BY InvFacts, Zenon
<1>2. /\ h \in Int /\ First(r) <= h /\ h < Tail_(r) /\ Behind(Size, h) \in Int /\ Behind(Size, h) <= Tail_(r)
  BY <1>1, BlockFacts
<1>b. /\ Start[r] \in Int /\ End[r] \in Int /\ First(r) = Start[r] + FooterSize /\ Tail_(r) = End[r] - HeaderSize
  BY <1>1, Bounds, Zenon
<1>3. h \in Addr /\ RegionOf(h) = r
  <2>1. h \in Start[r]..End[r]
    BY ONLY <1>2, <1>b, Sizes, SMTT(30)
  <2> QED
    BY <1>1, <1>2, <2>1, Words, RegionOfBlock, Zenon
<1>4. /\ FreeList' \in [Region -> Seq(Addr)] /\ FreeList'[r] = list
      /\ \A s \in Region : s # r => FreeList'[s] = FreeList[s]
  BY <1>0, <1>1, Zenon
<1>5. \A a \in Addr : a < Start[r] \/ End[r] <= a => Size'[a] = Size[a] /\ FreeSize'[a] = FreeSize[a]
  <2>1. ASSUME NEW a \in Addr, a < Start[r] \/ End[r] <= a PROVE a < h \/ Behind(Size, h) <= a
    <3>1. a \in Int
      <4>1. PICK s \in Region : a \in Start[s]..End[s]
        BY Zenon DEF Addr
      <4> QED
        BY <4>1
    <3> QED
      BY ONLY <1>2, <1>b, <2>1, <3>1, Sizes, SMTT(30)
  <2> QED
    BY <2>1, Zenon
<1>6. \A b : b \in live' <=> b \in live \/ b = <<h, size>>
  BY Zenon
<1>7. <<h, size>>[1] = h /\ <<h, size>>[2] = size /\ <<h, size>> \in Addr \X Request
  BY <1>3, Zenon
<1>8. Used(r)' = Used(r) \cup {h}
  <2>1. \A g : g \in Used(r) <=> \E b \in live : RegionOf(b[1]) = r /\ b[1] = g
    BY Zenon DEF Used
  <2>2. \A g : g \in Used(r)' <=> \E b \in live' : RegionOf(b[1]) = r /\ b[1] = g
    BY Zenon DEF Used, RegionOf
  <2>3. \A g : (\E b \in live' : RegionOf(b[1]) = r /\ b[1] = g)
                 <=> (\E b \in live : RegionOf(b[1]) = r /\ b[1] = g) \/ g = h
    BY ONLY <1>3, <1>6, <1>7, Zenon
  <2> QED
    BY <2>1, <2>2, <2>3, Zenon
<1>9. Free(r)' = Range(list)
  BY <1>4 DEF Free, Range
<1>10. \A b \in live' : RegionOf(b[1]) = r => Size'[b[1]] >= b[2]
  <2>1. ASSUME NEW b \in live, RegionOf(b[1]) = r PROVE Size'[b[1]] >= b[2]
    <3>1. b[1] \in Used(r) /\ Size[b[1]] >= b[2]
      BY <2>1, Zenon DEF Used, MemoryInv
    <3>2. b[1] # h
      BY <1>1, <3>1 DEF Tiling
    <3>3. Agree(r, h, Behind(Size, h), Size, Size')
      BY <1>1, Words, Bounds, SMTT(40) DEF Agree
    <3>4. Size'[b[1]] = Size[b[1]]
      BY <1>1, <3>1, <3>2, <3>3, OtherKept
    <3> QED
      BY <3>1, <3>4, Zenon
  <2> QED
    BY <2>1, <1>6, <1>7
<1>11. MemoryTypeOK'
  <2>1. live' \subseteq Addr \X Request
    BY <1>0, <1>6, <1>7, Zenon
  <2> QED
    BY <1>0, <1>4, <2>1, Zenon DEF MemoryTypeOK
<1>12. Range(mem_list)' = Range(mem_list) \cup {r} /\ Distinct(mem_list') /\ Ordered(mem_list', Priority)
  <2>1. Range(mem_list)' = Range(mem_list)
    BY Zenon DEF Range
  <2> QED
    BY <1>0, <2>1, Zenon
<1>13. \A b : RegionOf(b[1]) # r => (b \in live' <=> b \in live)
  BY <1>3, <1>6, <1>7, Zenon
<1>14. Tiling(r, Used(r)', Free(r)', Size', FreeSize') /\ Distinct(FreeList'[r])
  BY <1>4, <1>8, <1>9, Zenon
<1> QED
  BY ONLY <1>1, <1>4, <1>5, <1>10, <1>11, <1>12, <1>13, <1>14, MemoryInv, RegionChange, Zenon

LEMMA TakeInv ==
  ASSUME MemoryInv, NEW r \in Range(mem_list), NEW size \in Request, NEW n, n = Aligned(size),
         NEW i \in Room(r, n), Take(r, i, n),
         live' = live \cup {<<FreeList[r][i], size>>}, mem_list' = mem_list
  PROVE  MemoryInv'
<1> DEFINE h == FreeList[r][i]
           e == Behind(Size, h)
           k == h + HeaderSize + n + FooterSize
<1>0. Size \in [Addr -> Nat] /\ FreeSize \in [Addr -> Nat]
  BY Zenon DEF MemoryInv, MemoryTypeOK
<1>1. /\ r \in Region /\ Tiling(r, Used(r), Free(r), Size, FreeSize) /\ Distinct(FreeList[r])
      /\ FreeList[r] \in Seq(Addr)
  BY InvFacts, Zenon
<1>2. i \in DOMAIN FreeList[r] /\ Size[h] >= n /\ h \in Free(r)
  BY Zenon DEF Room, Free, Range
<1>3. n \in Int /\ n >= size /\ n >= NodeSize /\ size \in Int
  BY AlignedFacts, Sizes, Zenon
<1>4. /\ h \in Int /\ First(r) <= h /\ e \in Int /\ e <= Tail_(r) /\ Size[h] \in Int /\ Size[h] >= NodeSize
      /\ e = h + HeaderSize + Size[h] + FooterSize
  <2>0. h \in Used(r) \cup Free(r)
    BY ONLY <1>2, Zenon
  <2>1. h \in Int /\ First(r) <= h /\ e \in Int /\ e <= Tail_(r) /\ Size[h] \in Int /\ Size[h] >= NodeSize
    BY ONLY <1>1, <2>0, BlockFacts
  <2> QED
    BY <2>1, Zenon DEF Behind
<1>5. \A a \in Int : h <= a /\ a < e => a \in Addr
  <2>0. /\ Start[r] \in Int /\ End[r] \in Int /\ First(r) = Start[r] + FooterSize /\ Tail_(r) = End[r] - HeaderSize
    BY <1>1, Bounds, ZenonT(40)
  <2>1. ASSUME NEW a \in Int, h <= a, a < e PROVE a \in Start[r]..End[r]
    BY ONLY <1>4, <2>0, <2>1, Sizes, SMTT(30)
  <2>2. \A a \in Start[r]..End[r] : a \in Addr
    BY ONLY <1>1, Words, Zenon
  <2> QED
    BY ONLY <2>1, <2>2, Zenon
<1>6. Contents(h) = h + HeaderSize /\ Contents(h) + n + FooterSize = k /\ Contents(h) + Size[h] + FooterSize = e
  BY Zenon DEF Contents, Behind
<1>7. \A a \in Addr : a \in Int
  <2>1. ASSUME NEW a \in Addr PROVE a \in Int
    <3>1. PICK s \in Region : a \in Start[s]..End[s]
      BY Zenon DEF Addr
    <3> QED
      BY <3>1
  <2> QED
    BY <2>1, Zenon
<1>w. \A a \in Start[r]..End[r] - 1 : a \in Addr
  <2>1. Start[r] \in Int /\ End[r] \in Int
    BY ONLY <1>1, Bounds, Zenon
  <2>2. \A a \in Start[r]..End[r] : a \in Addr
    BY ONLY <1>1, Words, Zenon
  <2> QED
    BY ONLY <2>1, <2>2
<1>h. h = FreeList[r][i] /\ k = h + HeaderSize + n + FooterSize /\ e = Behind(Size, h)
  BY Zenon
<1>t. Take(r, i, n) /\ live' = live \cup {<<h, size>>} /\ mem_list' = mem_list
  BY Zenon
<1> HIDE DEF h, e, k
<1>8. CASE ~ Splits(h, n)
  <2> DEFINE inner(a) == a \in h + HeaderSize..h + HeaderSize + Size[h] - 1
  <2>1. /\ Size' = [a \in Addr |-> IF inner(a) THEN Junk ELSE Size[a]]
        /\ FreeSize' = [[a \in Addr |-> IF inner(a) THEN Junk ELSE FreeSize[a]] EXCEPT ![e - FooterSize] = 0]
        /\ FreeList' = [FreeList EXCEPT ![r] = list_remove(FreeList[r], h)]
    <3>1. Take(r, i, n) /\ FreeList[r][i] = h
      BY ONLY <1>h, <1>t, Zenon
    <3>2. Size' = [a \in Addr |-> IF inner(a) THEN Junk ELSE Size[a]]
      BY ONLY <1>6, <1>8, <3>1, Zenon DEF Take, Written
    <3>3. FreeSize' = [[a \in Addr |-> IF inner(a) THEN Junk ELSE FreeSize[a]] EXCEPT ![e - FooterSize] = 0]
      BY ONLY <1>6, <1>8, <3>1, Zenon DEF Take, Written
    <3>4. FreeList' = [FreeList EXCEPT ![r] = list_remove(FreeList[r], h)]
      BY ONLY <1>8, <3>1, Zenon DEF Take
    <3> QED
      BY ONLY <3>2, <3>3, <3>4, Zenon
  <2>2. h \in Addr /\ e - FooterSize \in Addr /\ ~ inner(h)
    BY ONLY <1>4, <1>5, Sizes
  <2>3. \A a \in Addr : a < h \/ e <= a => ~ inner(a) /\ a # e - FooterSize
    BY ONLY <1>4, <1>7, Sizes
  <2> HIDE DEF inner
  <2>4. Size' \in [Addr -> Nat] /\ Size'[h] = Size[h] /\ \A a \in Addr : a < h \/ e <= a => Size'[a] = Size[a]
    BY ONLY <1>0, <2>1, <2>2, <2>3, Sizes, Zenon
  <2>5. /\ FreeSize' \in [Addr -> Nat] /\ FreeSize'[e - FooterSize] = 0
        /\ \A a \in Addr : a < h \/ e <= a => FreeSize'[a] = FreeSize[a]
    BY ONLY <1>0, <2>1, <2>2, <2>3, Sizes, ZenonT(40)
  <2> DEFINE list == list_remove(FreeList[r], h)
  <2>6. list \in Seq(Addr) /\ Range(list) = Free(r) \ {h} /\ Distinct(list)
    BY ONLY <1>1, RemoveFacts DEF Free
  <2>7. Agree(r, h, e, Size, Size') /\ Agree(r, h, e, FreeSize, FreeSize')
    BY ONLY <2>4, <2>5, <1>w, Zenon DEF Agree
  <2>8. Tiling(r, Used(r) \cup {h}, Range(list), Size', FreeSize')
    <3>1. /\ Agree(r, h, Behind(Size, h), Size, Size') /\ Agree(r, h, Behind(Size, h), FreeSize, FreeSize')
          /\ FreeSize'[Behind(Size, h) - FooterSize] = 0
      BY <2>5, <2>7, Zenon DEF e
    <3>2. Tiling(r, Used(r) \cup {h}, Free(r) \ {h}, Size', FreeSize')
      BY ONLY <1>1, <1>2, <2>4, <3>1, WholeTiling, Zenon
    <3> QED
      BY <2>6, <3>2, Zenon
  <2>9. Size'[h] >= size
    BY <1>2, <1>3, <1>4, <2>4
  <2>10. FreeList' = [FreeList EXCEPT ![r] = list] /\ live' = live \cup {<<h, size>>} /\ mem_list' = mem_list
    BY <2>1, Zenon DEF h
  <2>11. \A a \in Addr : a < h \/ Behind(Size, h) <= a => Size'[a] = Size[a] /\ FreeSize'[a] = FreeSize[a]
    BY <2>4, <2>5, Zenon DEF e
  <2> HIDE DEF list
  <2> QED
    BY ONLY <1>2, <2>4, <2>5, <2>6, <2>8, <2>9, <2>10, <2>11, TakenInv, MemoryInv, r \in Range(mem_list), size \in Request, ZenonT(40)
<1>9. CASE Splits(h, n)
  <2> DEFINE inner(a) == a \in h + HeaderSize..h + HeaderSize + n - 1
             m == e - k - (HeaderSize + FooterSize)
  <2>1. /\ Size' = [[a \in Addr |-> IF inner(a) THEN Junk ELSE [Size EXCEPT ![h] = n][a]] EXCEPT ![k] = m]
        /\ FreeSize' = [[[a \in Addr |-> IF inner(a) THEN Junk ELSE FreeSize[a]] EXCEPT ![k - FooterSize] = 0]
                          EXCEPT ![e - FooterSize] = m]
        /\ FreeList' = [FreeList EXCEPT ![r][i] = k]
    <3>1. Take(r, i, n) /\ FreeList[r][i] = h
      BY ONLY <1>h, <1>t, Zenon
    <3>2. Size' = [[a \in Addr |-> IF inner(a) THEN Junk ELSE [Size EXCEPT ![h] = n][a]] EXCEPT ![k] = m]
      BY ONLY <1>6, <1>9, <3>1, SMTT(30) DEF Take, Written, _init_block
    <3>3. FreeSize' = [[[a \in Addr |-> IF inner(a) THEN Junk ELSE FreeSize[a]] EXCEPT ![k - FooterSize] = 0]
                          EXCEPT ![e - FooterSize] = m]
      BY ONLY <1>6, <1>9, <3>1, Zenon DEF Take, Written, _init_block
    <3>4. FreeList' = [FreeList EXCEPT ![r][i] = k]
      BY ONLY <1>6, <1>9, <3>1, Zenon DEF Take
    <3> QED
      BY ONLY <3>2, <3>3, <3>4, ZenonT(40)
  <2>2. Size[h] - n >= HeaderSize + NodeSize + FooterSize
    BY ONLY <1>9, Zenon DEF Splits
  <2>3. /\ k \in Int /\ h < k /\ k < e /\ m \in Nat /\ h \in Addr /\ k \in Addr /\ e - FooterSize \in Addr
        /\ k - FooterSize \in Addr /\ ~ inner(h) /\ h # k /\ k - FooterSize # e - FooterSize
    <3>1. /\ k \in Int /\ h < k /\ k < e /\ m \in Nat /\ h <= k - FooterSize /\ k < e - FooterSize
          /\ h < e - FooterSize
      BY ONLY <1>3, <1>4, <1>h, <2>2, Sizes, SMTT(40)
    <3>2. h \in Addr /\ k \in Addr /\ e - FooterSize \in Addr /\ k - FooterSize \in Addr
      BY ONLY <3>1, <1>4, <1>5, Sizes, SMTT(40)
    <3>3. ~ inner(h) /\ h # k /\ k - FooterSize # e - FooterSize
      BY ONLY <3>1, <1>3, <1>4, Sizes, SMTT(40)
    <3> QED
      BY ONLY <3>1, <3>2, <3>3, ZenonT(40)
  <2>4. \A a \in Addr : a < h \/ e <= a =>
          ~ inner(a) /\ a # h /\ a # k /\ a # e - FooterSize /\ a # k - FooterSize
    BY ONLY <1>3, <1>4, <1>7, <1>h, <2>2, Sizes, SMTT(40)
  <2>5. n \in Nat
    BY <1>3, Sizes
  <2>6. k = h + HeaderSize + n + FooterSize /\ m = e - k - (HeaderSize + FooterSize) /\ h = FreeList[r][i]
    BY <1>h, Zenon
  <2> HIDE DEF m, inner
  <2>7. /\ Size' \in [Addr -> Nat] /\ Size'[h] = n /\ Size'[k] = m
        /\ \A a \in Addr : a < h \/ e <= a => Size'[a] = Size[a]
    BY ONLY <1>0, <2>1, <2>3, <2>4, <2>5, Sizes, Zenon
  <2>8. /\ FreeSize' \in [Addr -> Nat] /\ FreeSize'[e - FooterSize] = m /\ FreeSize'[k - FooterSize] = 0
        /\ \A a \in Addr : a < h \/ e <= a => FreeSize'[a] = FreeSize[a]
    BY ONLY <1>0, <2>1, <2>3, <2>4, Sizes, ZenonT(40)
  <2>9. Agree(r, h, e, Size, Size') /\ Agree(r, h, e, FreeSize, FreeSize')
    BY ONLY <2>7, <2>8, <1>w, Zenon DEF Agree
  <2>10. Tiling(r, Used(r) \cup {h}, (Free(r) \ {h}) \cup {k}, Size', FreeSize') /\ k \notin Free(r)
    <3>1. /\ Agree(r, h, Behind(Size, h), Size, Size') /\ Agree(r, h, Behind(Size, h), FreeSize, FreeSize')
      BY <2>9, Zenon DEF e
    <3>2. /\ Size'[k] = Behind(Size, h) - k - (HeaderSize + FooterSize)
          /\ FreeSize'[Behind(Size, h) - FooterSize] = Size'[k]
      BY <2>6, <2>7, <2>8, Zenon DEF e
    <3>3. /\ k = h + HeaderSize + n + FooterSize /\ Size'[h] = n /\ FreeSize'[k - FooterSize] = 0
          /\ n \in Int /\ n >= NodeSize /\ Size[h] - n >= HeaderSize + NodeSize + FooterSize
      BY <1>3, <2>2, <2>6, <2>7, <2>8, ZenonT(40)
    <3>4. Tiling(r, Used(r) \cup {h}, (Free(r) \ {h}) \cup {k}, Size', FreeSize') /\ k \notin Used(r) \cup Free(r)
      BY ONLY <1>1, <1>2, <3>1, <3>2, <3>3, SplitTiling, SMTT(30)
    <3> QED
      BY <3>4, Zenon
  <2> DEFINE list == [j \in DOMAIN FreeList[r] |-> IF j = i THEN k ELSE FreeList[r][j]]
  <2>11. list \in Seq(Addr) /\ Range(list) = (Free(r) \ {h}) \cup {k} /\ Distinct(list)
    <3> DEFINE old == FreeList[r]
    <3>1. /\ old \in Seq(Addr) /\ Distinct(old) /\ i \in DOMAIN old /\ k \in Addr
          /\ list = [j \in DOMAIN old |-> IF j = i THEN k ELSE old[j]]
      BY ONLY <1>1, <1>2, <2>3, Zenon
    <3>2. k \notin Range(old)
      <4>1. k \notin Free(r)
        BY ONLY <2>10, Zenon
      <4> QED
        BY ONLY <4>1, Zenon DEF Free
    <3> HIDE DEF list, old
    <3>3. \A j \in DOMAIN old : old[j] \in Addr
      BY ONLY <3>1
    <3>4. /\ list \in [DOMAIN old -> Addr] /\ list[i] = k
          /\ \A j \in DOMAIN old : j # i => list[j] = old[j]
      BY ONLY <3>1, <3>3, Zenon
    <3>5. list \in Seq(Addr) /\ Range(list) = (Range(old) \ {old[i]}) \cup {k} /\ Distinct(list)
      BY ONLY <3>1, <3>2, <3>4, ReplaceFacts, SMTT(30)
    <3>6. Range(old) = Free(r) /\ old[i] = h
      BY ONLY <2>6, Zenon DEF old, Free
    <3> QED
      BY ONLY <3>5, <3>6, Zenon
  <2>12. FreeList' = [FreeList EXCEPT ![r] = list] /\ live' = live \cup {<<h, size>>} /\ mem_list' = mem_list
    <3>1. [FreeList[r] EXCEPT ![i] = k] = list
      BY <1>1, Zenon
    <3> QED
      BY <2>1, <2>6, <3>1, ZenonT(40)
  <2>13. \A a \in Addr : a < h \/ Behind(Size, h) <= a => Size'[a] = Size[a] /\ FreeSize'[a] = FreeSize[a]
    BY <2>7, <2>8, Zenon DEF e
  <2>14. Size'[h] >= size
    BY <1>3, <2>7, Zenon
  <2>15. Tiling(r, Used(r) \cup {h}, Range(list), Size', FreeSize')
    BY <2>10, <2>11, Zenon
  <2> HIDE DEF list
  <2> QED
    BY ONLY <1>2, <2>7, <2>8, <2>11, <2>12, <2>13, <2>14, <2>15, TakenInv, MemoryInv, r \in Range(mem_list), size \in Request, ZenonT(40)
<1> QED
  BY <1>8, <1>9, Zenon

LEMMA AllocInv ==
  ASSUME MemoryInv, NEW size \in Request, NEW flags, exos_mem_alloc(size, flags)
  PROVE  MemoryInv' \/ UNCHANGED memoryVars
<1> DEFINE n == Aligned(size)
           fits == {i \in DOMAIN mem_list : flags \subseteq Flags[mem_list[i]] /\ Room(mem_list[i], n) # {}}
           r == mem_list[Min(fits)]
           i == Min(Room(r, n))
<1>1. CASE fits = {}
  BY <1>1, Zenon DEF exos_mem_alloc
<1>2. CASE fits # {}
  <2>0. mem_list \in Seq(Region)
    BY Zenon DEF MemoryInv, MemoryTypeOK
  <2>1. Min(fits) \in fits
    <3>1. fits \subseteq Nat
      BY <2>0
    <3> HIDE DEF fits
    <3> QED
      BY ONLY <1>2, <3>1, LeastNatural, Zenon
  <2>2. r \in Range(mem_list) /\ Room(r, n) # {}
    <3>1. \A j \in fits : j \in DOMAIN mem_list /\ Room(mem_list[j], n) # {}
      BY Zenon
    <3> HIDE DEF fits
    <3> QED
      BY <2>1, <3>1, Zenon DEF Range
  <2>3. Take(r, i, n) /\ live' = live \cup {<<FreeList[r][i], size>>} /\ mem_list' = mem_list
    BY <1>2, Zenon DEF exos_mem_alloc
  <2> HIDE DEF fits, r
  <2>4. i \in Room(r, n)
    <3>1. FreeList[r] \in Seq(Addr)
      BY <2>2, InvFacts, Zenon
    <3>2. Room(r, n) \subseteq Nat
      BY <3>1 DEF Room
    <3> QED
      BY ONLY <2>2, <3>2, LeastNatural, Zenon
  <2>5. n = Aligned(size)
    BY Zenon
  <2> HIDE DEF i, n
  <2> QED
    BY ONLY <2>2, <2>3, <2>4, <2>5, MemoryInv, size \in Request, TakeInv, Zenon
<1> QED
  BY <1>1, <1>2, Zenon

\* Where the block that exos_mem_free makes begins and ends, and which blocks
\* it swallows.
LEMMA FreedBlock ==
  ASSUME NEW r \in Region, NEW used, NEW free, Tiling(r, used, free, Size, FreeSize),
         NEW h \in used,
         NEW s, s = IF PrevFree(h) THEN Prev(h) ELSE h,
         NEW n, n = Next_(h),
         NEW e, e = IF NextFree(h) THEN Next_(n) ELSE n
  PROVE  /\ s \in used \cup free /\ e \in (used \cup free) \cup {Tail_(r)} /\ e \notin free
         /\ s \in Int /\ n \in Int /\ e \in Int /\ First(r) <= s /\ e <= Tail_(r)
         /\ s + HeaderSize + NodeSize + FooterSize <= e
         /\ s <= h /\ h < n /\ n <= e
         /\ \A p \in free : Behind(Size, p) # s
         /\ s \in free <=> PrevFree(h)
         /\ NextFree(h) <=> n \in free
         /\ n \in free => n < e
         /\ s \notin free => s = h
         /\ \A g \in used \cup free : g < s \/ g = s \/ g = h \/ (g = n /\ n \in free) \/ e <= g
<1> DEFINE B == used \cup free
<1>0. h \in B /\ h \notin free
  BY Zenon DEF Tiling
<1>1. /\ NextFree(h) <=> n \in free
      /\ PrevFree(h) <=> \E p \in free : Behind(Size, p) = h
      /\ PrevFree(h) => Prev(h) \in free /\ Behind(Size, Prev(h)) = h
      /\ n = Behind(Size, h)
  BY <1>0, TagsTell, Zenon
<1>2. \A g \in B : /\ g \in Int /\ Behind(Size, g) \in Int /\ g + HeaderSize + NodeSize + FooterSize <= Behind(Size, g)
                   /\ First(r) <= g /\ Behind(Size, g) <= Tail_(r)
                   /\ Behind(Size, g) \in B \cup {Tail_(r)}
  BY BlockFacts, SMTT(30)
<1>3. /\ \A x, y \in B : x < y => Behind(Size, x) <= y
      /\ \A x \in free : Behind(Size, x) \notin free
  BY Zenon DEF Tiling
<1>4. \A g \in free : g \in B
  BY Zenon
<1>5. NextFree(h) => e = Behind(Size, n)
  BY <1>1, Zenon DEF Next_, Behind, Contents
<1>6. ~ NextFree(h) => e = n
  BY Zenon
<1>7. (PrevFree(h) => s = Prev(h)) /\ (~ PrevFree(h) => s = h)
  BY Zenon
<1>8. (s \in free <=> PrevFree(h)) /\ s \in B /\ (s \in free => Behind(Size, s) = h)
  BY ONLY <1>0, <1>1, <1>4, <1>7, Zenon
<1> HIDE DEF B
<1>9. /\ s \in Int /\ First(r) <= s /\ s <= h /\ h \in Int /\ n \in Int
      /\ h + HeaderSize + NodeSize + FooterSize <= n /\ n <= Tail_(r) /\ n \in B \cup {Tail_(r)}
  <2>1. h \in Int /\ h + HeaderSize + NodeSize + FooterSize <= n /\ n \in Int /\ n <= Tail_(r) /\ n \in B \cup {Tail_(r)}
    BY ONLY <1>0, <1>1, <1>2, Zenon
  <2>2. s \in Int /\ First(r) <= s
    BY ONLY <1>2, <1>8, Zenon
  <2>3. s \in free => s <= h
    BY ONLY <1>2, <1>8, <2>1, <2>2, Sizes, SMTT(30)
  <2>4. s \notin free => s <= h
    BY ONLY <1>7, <1>8, <2>1
  <2> QED
    BY <2>1, <2>2, <2>3, <2>4, Zenon
<1>10. /\ e \in B \cup {Tail_(r)} /\ e \notin free /\ e \in Int /\ e <= Tail_(r) /\ n <= e /\ (n \in free => n < e)
  <2>1. CASE NextFree(h)
    <3>1. n \in free /\ n \in B /\ e = Behind(Size, n)
      BY <1>1, <1>4, <1>5, <2>1, Zenon
    <3> QED
      BY ONLY <3>1, <1>2, <1>3, <1>9, Sizes, SMTT(30)
  <2>2. CASE ~ NextFree(h)
    BY ONLY <2>2, <1>1, <1>6, <1>9, SMTT(30)
  <2> QED
    BY <2>1, <2>2, Zenon
<1>11. \A p \in free : Behind(Size, p) # s
  BY ONLY <1>1, <1>3, <1>7, <1>8, Zenon
<1>12. ASSUME NEW g \in B, ~ g < s, g # s, g # h, ~ (g = n /\ n \in free) PROVE e <= g
  <2>1. g \in Int /\ s < g
    BY ONLY <1>2, <1>9, <1>12
  <2>2. h < g
    <3>1. Behind(Size, s) <= g
      BY ONLY <1>3, <1>8, <1>12, <2>1, Zenon
    <3> QED
      BY ONLY <1>7, <1>8, <1>9, <1>12, <2>1, <3>1, SMTT(30)
  <2>3. n <= g
    BY ONLY <1>0, <1>1, <1>3, <1>12, <2>2, Zenon
  <2>4. CASE NextFree(h)
    <3>1. n \in free /\ n \in B /\ e = Behind(Size, n) /\ n < g
      BY ONLY <1>1, <1>4, <1>5, <1>9, <1>12, <2>1, <2>3, <2>4, SMTT(30)
    <3> QED
      BY ONLY <1>3, <1>12, <3>1, Zenon
  <2>5. CASE ~ NextFree(h)
    BY ONLY <1>6, <2>3, <2>5, Zenon
  <2> QED
    BY <2>4, <2>5, Zenon
<1>13. s + HeaderSize + NodeSize + FooterSize <= e /\ h < n
  BY ONLY <1>9, <1>10, Sizes
<1>14. s \notin free => s = h
  BY ONLY <1>7, <1>8, Zenon
<1> QED
  BY <1>1, <1>8, <1>9, <1>10, <1>11, <1>12, <1>13, <1>14, Zenon DEF B

\* The FreeList then has the blocks that are left, and the new one, once.
LEMMA RelinkedFacts ==
  ASSUME NEW S, NEW list \in Seq(S), Distinct(list), NEW h \in S, h \notin Range(list),
         NEW s \in Int, NEW n, n = Next_(h), NEW e \in Int, n \in Int, h \in Int,
         s <= h, h < n, n <= e, n \in Range(list) => n < e,
         s \in Range(list) <=> PrevFree(h), NextFree(h) <=> n \in Range(list),
         s \notin Range(list) => s = h,
         \A g \in Range(list) : g \in Int /\ (g < s \/ g = s \/ g = n \/ e <= g),
         NEW new, new = Relinked(list, h)
  PROVE  /\ new \in Seq(S) /\ Distinct(new)
         /\ \A g : g \in Range(new) <=> g = s \/ (g \in Range(list) /\ (g < s \/ e <= g))
<1>0. s < n /\ s < e
  OBVIOUS
<1>1. CASE PrevFree(h) /\ NextFree(h)
  <2>1. new = list_remove(list, n)
    BY <1>1, Zenon DEF Relinked
  <2>2. new \in Seq(S) /\ Distinct(new) /\ Range(new) = Range(list) \ {n}
    BY ONLY <2>1, list \in Seq(S), Distinct(list), RemoveFacts, ZenonT(40)
  <2> QED
    BY <1>0, <1>1, <2>2
<1>2. CASE PrevFree(h) /\ ~ NextFree(h)
  <2>1. new = list
    BY <1>2, Zenon DEF Relinked
  <2> QED
    BY <1>0, <1>2, <2>1, Zenon
<1>3. CASE ~ PrevFree(h) /\ NextFree(h)
  <2>1. new = [j \in DOMAIN list |-> IF list[j] = n THEN h ELSE list[j]]
    BY <1>3, Zenon DEF Relinked
  <2>2. PICK i \in DOMAIN list : list[i] = n
    BY <1>3, Zenon DEF Range
  <2>3. \A j \in DOMAIN list : list[j] \in S /\ (j # i => list[j] # n)
    BY <2>2 DEF Distinct
  <2>4. new \in [DOMAIN list -> S] /\ new[i] = h /\ \A j \in DOMAIN list : j # i => new[j] = list[j]
    BY <2>1, <2>2, <2>3, Zenon
  <2>5. new \in Seq(S) /\ Distinct(new) /\ Range(new) = (Range(list) \ {n}) \cup {h}
    BY ONLY <2>2, <2>4, list \in Seq(S), Distinct(list), h \in S, h \notin Range(list), ReplaceFacts, SMTT(30)
  <2> QED
    BY <1>0, <1>3, <2>5, SMTT(30)
<1>4. CASE ~ PrevFree(h) /\ ~ NextFree(h)
  <2>1. new = <<h>> \o list
    BY <1>4, Zenon DEF Relinked
  <2>2. new \in Seq(S) /\ Distinct(new) /\ Range(new) = Range(list) \cup {h}
    <3>1. /\ <<h>> \o list \in Seq(S) /\ Distinct(<<h>> \o list)
          /\ Range(<<h>> \o list) = Range(list) \cup {h}
      BY ONLY list \in Seq(S), Distinct(list), h \in S, h \notin Range(list), PrependFacts, ZenonT(40)
    <3> QED
      BY <2>1, <3>1, Zenon
  <2> QED
    BY <1>0, <1>4, <2>2, Zenon
<1> QED
  BY <1>1, <1>2, <1>3, <1>4, Zenon

LEMMA FreeInv ==
  ASSUME MemoryInv, NEW h \in Addr, exos_mem_free(h)
  PROVE  MemoryInv'
<1> DEFINE r == RegionOf(h)
           n == Next_(h)
           s == IF PrevFree(h) THEN Prev(h) ELSE h
           e == IF NextFree(h) THEN Next_(n) ELSE n
           m == e - s - (HeaderSize + FooterSize)
           list == Relinked(FreeList[r], h)
           used == Used(r)
           free == Free(r)
<1>0. /\ Size' = [Size EXCEPT ![s] = m] /\ FreeSize' = [FreeSize EXCEPT ![e - FooterSize] = m]
      /\ FreeList' = [FreeList EXCEPT ![r] = list] /\ live' = {b \in live : b[1] # h} /\ mem_list' = mem_list
  BY Zenon DEF exos_mem_free, _init_block
<1>1. /\ mem_list \in Seq(Region) /\ FreeList \in [Region -> Seq(Addr)] /\ Size \in [Addr -> Nat]
      /\ FreeSize \in [Addr -> Nat] /\ live \subseteq Addr \X Request
      /\ Distinct(mem_list) /\ Ordered(mem_list, Priority)
  BY Zenon DEF MemoryInv, MemoryTypeOK
<1>2. r \in Range(mem_list) /\ h \in used
  <2>1. PICK size \in Request : <<h, size>> \in live
    BY Zenon DEF exos_mem_free
  <2>2. <<h, size>>[1] = h
    BY Zenon
  <2>3. RegionOf(h) \in Range(mem_list)
    BY <2>1, <2>2, Zenon DEF MemoryInv
  <2> QED
    BY <2>1, <2>2, <2>3, Zenon DEF Used
<1>3. /\ r \in Region /\ Tiling(r, used, free, Size, FreeSize) /\ Distinct(FreeList[r])
      /\ FreeList[r] \in Seq(Addr) /\ free = Range(FreeList[r])
  BY <1>2, InvFacts, Zenon DEF Free
<1>4. /\ s = (IF PrevFree(h) THEN Prev(h) ELSE h) /\ n = Next_(h) /\ e = (IF NextFree(h) THEN Next_(n) ELSE n)
      /\ list = Relinked(FreeList[r], h) /\ m = e - s - (HeaderSize + FooterSize) /\ used = Used(r)
  BY Zenon
<1> HIDE DEF r, n, s, e, m, list, used, free
<1>5. /\ s \in used \cup free /\ e \in (used \cup free) \cup {Tail_(r)} /\ e \notin free
      /\ s \in Int /\ n \in Int /\ e \in Int /\ First(r) <= s /\ e <= Tail_(r)
      /\ s + HeaderSize + NodeSize + FooterSize <= e
      /\ s <= h /\ h < n /\ n <= e
      /\ \A p \in free : Behind(Size, p) # s
      /\ s \in free <=> PrevFree(h)
      /\ NextFree(h) <=> n \in free
      /\ n \in free => n < e
      /\ s \notin free => s = h
      /\ \A g \in used \cup free : g < s \/ g = s \/ g = h \/ (g = n /\ n \in free) \/ e <= g
  BY ONLY <1>2, <1>3, <1>4, FreedBlock, SMTT(30)
<1>6. /\ Start[r] \in Int /\ End[r] \in Int /\ First(r) = Start[r] + FooterSize /\ Tail_(r) = End[r] - HeaderSize
  BY <1>3, Bounds, ZenonT(40)
<1>7. /\ m \in Nat /\ s \in Start[r]..End[r] - 1 /\ e - FooterSize \in Start[r]..End[r] - 1 /\ s < e
      /\ s <= e - FooterSize
  BY ONLY <1>4, <1>5, <1>6, Sizes, SMTT(30)
<1>8. s \in Addr /\ e - FooterSize \in Addr /\ \A a \in Start[r]..End[r] - 1 : a \in Addr
  <2>1. \A a \in Start[r]..End[r] - 1 : a \in Addr
    <3>1. \A a \in Start[r]..End[r] : a \in Addr
      BY ONLY <1>3, Words, Zenon
    <3> QED
      BY ONLY <1>6, <3>1
  <2> QED
    BY ONLY <1>7, <2>1, Zenon
<1>9. /\ Size' \in [Addr -> Nat] /\ Size'[s] = m /\ \A a \in Addr : a # s => Size'[a] = Size[a]
      /\ FreeSize' \in [Addr -> Nat] /\ FreeSize'[e - FooterSize] = m
      /\ \A a \in Addr : a # e - FooterSize => FreeSize'[a] = FreeSize[a]
  <2> DEFINE f == e - FooterSize
  <2>1. m \in Nat /\ s \in Addr /\ f \in Addr
    BY ONLY <1>7, <1>8, Zenon
  <2>2. FreeSize' = [FreeSize EXCEPT ![f] = m]
    BY ONLY <1>0, Zenon
  <2> HIDE DEF f
  <2>3. Size' \in [Addr -> Nat] /\ Size'[s] = m /\ \A a \in Addr : a # s => Size'[a] = Size[a]
    BY ONLY <1>0, <1>1, <2>1, Zenon
  <2>4. FreeSize' \in [Addr -> Nat] /\ FreeSize'[f] = m /\ \A a \in Addr : a # f => FreeSize'[a] = FreeSize[a]
    BY ONLY <1>1, <2>1, <2>2, Zenon
  <2> QED
    BY ONLY <2>3, <2>4, Zenon DEF f
<1>10. Agree(r, s, e, Size, Size') /\ Agree(r, s, e, FreeSize, FreeSize')
  <2>1. \A a \in Start[r]..End[r] - 1 : a < s \/ e <= a => a \in Addr /\ a # s /\ a # e - FooterSize
    BY ONLY <1>5, <1>6, <1>7, <1>8, Sizes, SMTT(30)
  <2> QED
    BY ONLY <1>9, <2>1, ZenonT(40) DEF Agree
<1>11. h \notin free /\ used \cap free = {} /\ \A g \in used \cup free : g \in Int
  <2>1. used \cap free = {}
    BY <1>3, Zenon DEF Tiling
  <2>2. \A g \in used \cup free : g \in Int
    BY <1>3, BlockFacts, Zenon
  <2> QED
    BY <1>2, <2>1, <2>2, Zenon
<1>12. /\ list \in Seq(Addr) /\ Distinct(list)
       /\ \A g : g \in Range(list) <=> g = s \/ (g \in free /\ (g < s \/ e <= g))
  <2>1. \A g \in Range(FreeList[r]) : g \in Int /\ (g < s \/ g = s \/ g = n \/ e <= g)
    BY ONLY <1>3, <1>5, <1>11, ZenonT(40)
  <2>2. h \in Int /\ h \notin Range(FreeList[r])
    BY ONLY <1>2, <1>3, <1>11, Zenon
  <2>3. /\ n \in Range(FreeList[r]) => n < e
        /\ s \in Range(FreeList[r]) <=> PrevFree(h)
        /\ NextFree(h) <=> n \in Range(FreeList[r])
        /\ s \notin Range(FreeList[r]) => s = h
        /\ s \in Int /\ n \in Int /\ e \in Int /\ s <= h /\ h < n /\ n <= e
    BY ONLY <1>3, <1>5, Zenon
  <2>4. /\ list \in Seq(Addr) /\ Distinct(list)
        /\ \A g : g \in Range(list) <=> g = s \/ (g \in Range(FreeList[r]) /\ (g < s \/ e <= g))
    BY ONLY <1>3, <1>4, <2>1, <2>2, <2>3, h \in Addr, RelinkedFacts, SMTT(30)
  <2> QED
    BY <1>3, <2>4, Zenon
<1>13. /\ FreeList' \in [Region -> Seq(Addr)] /\ FreeList'[r] = list
       /\ \A q \in Region : q # r => FreeList'[q] = FreeList[q]
  <2>1. r \in Region /\ list \in Seq(Addr)
    BY <1>3, <1>12, Zenon
  <2>2. FreeList \in [Region -> Seq(Addr)] /\ FreeList' = [FreeList EXCEPT ![r] = list]
    BY <1>0, <1>1, Zenon
  <2> QED
    BY ONLY <2>1, <2>2, Zenon
<1>14. \A g : g \in Used(r)' <=> g \in used /\ (g < s \/ e <= g)
  <2>1. \A g : g \in used <=> \E b \in live : RegionOf(b[1]) = r /\ b[1] = g
    BY Zenon DEF Used, used
  <2>2. \A g : g \in Used(r)' <=> \E b \in live' : RegionOf(b[1]) = r /\ b[1] = g
    <3>1. Used(r)' = {b[1] : b \in {c \in live' : RegionOf(c[1]) = r}}
      BY Zenon DEF Used, RegionOf, r
    <3> QED
      BY <3>1, Zenon
  <2>3. \A b : b \in live' <=> b \in live /\ b[1] # h
    BY <1>0, Zenon
  <2>4. \A g : g \in Used(r)' <=> g \in used /\ g # h
    BY ONLY <2>1, <2>2, <2>3, ZenonT(40)
  <2>5. \A g \in used : g # h <=> g < s \/ e <= g
    BY ONLY <1>2, <1>5, <1>11, SMTT(40)
  <2> QED
    BY <2>4, <2>5, Zenon
<1>15. Free(r)' = Range(list)
  <2>1. r' = r
    BY Zenon DEF r, RegionOf
  <2> QED
    BY <1>13, <2>1, Zenon DEF Free, Range
<1>16. Tiling(r, Used(r)', Range(list), Size', FreeSize')
  <2>1. Size'[s] = e - s - (HeaderSize + FooterSize) /\ FreeSize'[e - FooterSize] = Size'[s]
    BY <1>4, <1>9, Zenon
  <2> QED
    BY ONLY <1>3, <1>5, <1>7, <1>10, <1>12, <1>14, <2>1, MergeTiling, ZenonT(40)
<1>17. \A b \in live' : RegionOf(b[1]) = r => Size'[b[1]] >= b[2]
  <2>1. ASSUME NEW b \in live', RegionOf(b[1]) = r PROVE Size'[b[1]] >= b[2]
    <3>1. b \in live /\ b[1] # h /\ b[1] \in Addr
      BY <1>0, <1>1, Zenon
    <3>2. b[1] \in used /\ Size[b[1]] >= b[2]
      <4>1. Size[b[1]] >= b[2]
        BY <3>1, Zenon DEF MemoryInv
      <4>2. b[1] \in Used(r)
        BY ONLY <2>1, <3>1, Zenon DEF Used
      <4> QED
        BY ONLY <4>1, <4>2, <1>4, Zenon
    <3>3. b[1] # s
      BY ONLY <1>5, <1>11, <3>1, <3>2, Zenon
    <3>4. Size'[b[1]] = Size[b[1]]
      BY ONLY <1>9, <3>1, <3>3, Zenon
    <3> QED
      BY <3>2, <3>4, Zenon
  <2> QED
    BY <2>1, Zenon
<1>18. \A a \in Addr : a < Start[r] \/ End[r] <= a => Size'[a] = Size[a] /\ FreeSize'[a] = FreeSize[a]
  <2>1. \A a \in Addr : a < Start[r] \/ End[r] <= a => a # s /\ a # e - FooterSize
    BY ONLY <1>6, <1>7
  <2> QED
    BY ONLY <1>9, <2>1, Zenon
<1>19. Range(mem_list)' = Range(mem_list) \cup {r} /\ Distinct(mem_list') /\ Ordered(mem_list', Priority)
  <2>1. Range(mem_list)' = Range(mem_list)
    BY <1>0, Zenon DEF Range
  <2> QED
    BY <1>0, <1>1, <1>2, <2>1, Zenon
<1>20. \A b : RegionOf(b[1]) # r => (b \in live' <=> b \in live)
  BY <1>0, Zenon DEF r
<1>21. MemoryTypeOK'
  <2>1. live' \subseteq Addr \X Request
    BY <1>0, <1>1, Zenon
  <2> QED
    BY <1>0, <1>1, <1>9, <1>13, <2>1, Zenon DEF MemoryTypeOK
<1>22. Tiling(r, Used(r)', Free(r)', Size', FreeSize') /\ Distinct(FreeList'[r])
  BY <1>12, <1>13, <1>15, <1>16, Zenon
<1> QED
  BY ONLY <1>3, <1>13, <1>17, <1>18, <1>19, <1>20, <1>21, <1>22, MemoryInv, RegionChange, Zenon

----------------------------------------------------------------------------
(* The theorems *)

\* Every call keeps the invariant: exos_mem_add_region, exos_mem_alloc with and
\* without a split, and exos_mem_free in all its four cases.
THEOREM MemoryInvariant == MemorySpec => []MemoryInv
<1>1. MemoryInv /\ [MemoryNext]_memoryVars => MemoryInv'
  <2> SUFFICES ASSUME MemoryInv, [MemoryNext]_memoryVars PROVE MemoryInv'
    BY Zenon
  <2>1. CASE UNCHANGED memoryVars
    <3>1. /\ mem_list' = mem_list /\ FreeList' = FreeList /\ Size' = Size /\ FreeSize' = FreeSize
          /\ live' = live
      BY <2>1, Zenon DEF memoryVars
    <3>2. Range(mem_list)' = Range(mem_list) /\ \A r : Used(r)' = Used(r) /\ Free(r)' = Free(r)
      BY <3>1, Zenon DEF Range, Used, Free, RegionOf
    <3>3. MemoryTypeOK'
      BY <3>1, Zenon DEF MemoryInv, MemoryTypeOK
    <3>4. (Distinct(mem_list) /\ Ordered(mem_list, Priority))'
      BY <3>1, Zenon DEF MemoryInv, Distinct, Ordered
    <3>5. (\A b \in live : RegionOf(b[1]) \in Range(mem_list) /\ Size[b[1]] >= b[2])'
      <4>1. \A b \in live : RegionOf(b[1]) \in Range(mem_list) /\ Size[b[1]] >= b[2]
        BY Zenon DEF MemoryInv
      <4> QED
        BY ONLY <3>1, <3>2, <4>1, Zenon DEF RegionOf
    <3>6. (\A r \in Range(mem_list) : Tiling(r, Used(r), Free(r), Size, FreeSize) /\ Distinct(FreeList[r]))'
      <4>1. \A r \in Range(mem_list)' : Tiling(r, Used(r)', Free(r)', Size', FreeSize') /\ Distinct(FreeList'[r])
        BY <3>1, <3>2, Zenon DEF MemoryInv
      <4> QED
        BY <4>1, Zenon DEF Tiling, First, Tail_, Behind, Distinct
    <3> QED
      BY ONLY <3>3, <3>4, <3>5, <3>6, Zenon DEF MemoryInv
  <2>2. ASSUME NEW r \in Region, exos_mem_add_region(r) PROVE MemoryInv'
    BY <2>2, AddRegionInv, Zenon
  <2>3. ASSUME NEW size \in Request, NEW flags \in Flag, exos_mem_alloc(size, flags) PROVE MemoryInv'
    BY <2>1, <2>3, AllocInv, Zenon
  <2>4. ASSUME NEW h \in Addr, exos_mem_free(h) PROVE MemoryInv'
    BY <2>4, FreeInv, Zenon
  <2> QED
    BY <2>1, <2>2, <2>3, <2>4, Zenon DEF MemoryNext
<1> QED
  BY <1>1, InitInv, PTL DEF MemorySpec

\* Whatever is allocated and released in whatever order, the blocks of every
\* region tile it, and its tags and its FreeList say which are free.
THEOREM HeapIsTiled == MemorySpec => []BlocksTile
<1>1. MemoryInv => BlocksTile
  <2> SUFFICES ASSUME MemoryInv PROVE BlocksTile
    BY Zenon
  <2>1. MemoryTypeOK /\ \A b \in live : Size[b[1]] >= b[2]
    BY Zenon DEF MemoryInv
  <2>2. ASSUME NEW r \in Range(mem_list)
        PROVE  /\ First(r) \in Used(r) \cup Free(r)
               /\ \A h \in Used(r) \cup Free(r) : Next_(h) \in Used(r) \cup Free(r) \cup {Tail_(r)}
               /\ \A g, h \in Used(r) \cup Free(r) : g < h => Next_(g) <= h
               /\ Used(r) \cap Free(r) = {}
               /\ IsInjective(FreeList[r])
               /\ \A h \in Used(r) \cup Free(r) :
                    /\ Size[h] >= NodeSize
                    /\ FreeSize[Contents(h) + Size[h]] = IF h \in Free(r) THEN Size[h] ELSE 0
               /\ FreeSize[Start[r]] = 0 /\ Size[Tail_(r)] = 0
    <3>1. /\ r \in Region /\ Tiling(r, Used(r), Free(r), Size, FreeSize) /\ Distinct(FreeList[r])
          /\ FreeList[r] \in Seq(Addr)
      BY InvFacts, Zenon
    <3>2. \A h : Next_(h) = Behind(Size, h)
      BY Zenon DEF Next_, Behind, Contents
    <3>3. IsInjective(FreeList[r])
      BY ONLY <3>1, Zenon DEF Distinct, IsInjective
    <3>4. ASSUME NEW h \in Used(r) \cup Free(r) PROVE Contents(h) + Size[h] = Behind(Size, h) - FooterSize
      <4>1. h \in Int /\ Size[h] \in Int
        BY <3>1, BlockFacts, SMTT(30)
      <4> QED
        BY ONLY <4>1, Sizes, SMTT(40) DEF Contents, Behind
    <3> QED
      BY ONLY <3>1, <3>2, <3>3, <3>4, ZenonT(40) DEF Tiling
  <2> QED
    BY <2>1, <2>2, Zenon DEF BlocksTile
<1> QED
  BY <1>1, MemoryInvariant, PTL

\* exos_mem_free leaves no two free neighbours, and a region with no block in
\* anybody's hands is the one block exos_mem_add_region made of it.
THEOREM HeapIsCoalesced == MemorySpec => []FullyCoalesced
<1>1. MemoryInv => FullyCoalesced
  <2> SUFFICES ASSUME MemoryInv, NEW r \in Range(mem_list)
               PROVE  /\ \A h \in Free(r) : Next_(h) \notin Free(r)
                      /\ Used(r) = {} =>
                           /\ FreeList[r] = <<First(r)>>
                           /\ Size[First(r)] = Tail_(r) - First(r) - HeaderSize - FooterSize
    BY Zenon DEF FullyCoalesced
  <2>1. /\ r \in Region /\ Tiling(r, Used(r), Free(r), Size, FreeSize) /\ Distinct(FreeList[r])
        /\ FreeList[r] \in Seq(Addr)
    BY InvFacts, Zenon
  <2>2. \A h : Next_(h) = Behind(Size, h)
    BY Zenon DEF Next_, Behind, Contents
  <2>3. \A h \in Free(r) : Behind(Size, h) \notin Free(r)
    BY ONLY <2>1, Zenon DEF Tiling
  <2>4. ASSUME Used(r) = {}
        PROVE  /\ FreeList[r] = <<First(r)>>
               /\ Size[First(r)] = Tail_(r) - First(r) - HeaderSize - FooterSize
    <3>1. Tiling(r, {}, Free(r), Size, FreeSize) /\ First(r) \in {} \cup Free(r) /\ First(r) \in Free(r)
      BY <2>1, <2>4, ZenonT(40) DEF Tiling
    <3>2. /\ First(r) \in Int /\ Size[First(r)] \in Int /\ Behind(Size, First(r)) \in {} \cup Free(r) \cup {Tail_(r)}
          /\ Tail_(r) \in Int
      <4>1. First(r) \in Int /\ Tail_(r) \in Int
        BY ONLY <2>1, Bounds, Zenon
      <4>2. Size[First(r)] \in Int /\ Behind(Size, First(r)) \in {} \cup Free(r) \cup {Tail_(r)}
        BY ONLY <2>1, <3>1, BlockFacts
      <4> QED
        BY <4>1, <4>2, Zenon
    <3>3. Behind(Size, First(r)) = Tail_(r)
      BY <2>3, <3>1, <3>2, Zenon
    <3>4. ASSUME NEW h \in Free(r) PROVE h = First(r)
      <4>1. h \in {} \cup Free(r) /\ h \in Int /\ First(r) <= h /\ h < Tail_(r)
        <5>1. h \in {} \cup Free(r)
          BY Zenon
        <5> QED
          BY ONLY <2>1, <3>1, <5>1, BlockFacts, Zenon
      <4>2. First(r) < h => Behind(Size, First(r)) <= h
        BY <3>1, <4>1, Zenon DEF Tiling
      <4> QED
        BY ONLY <3>2, <3>3, <4>1, <4>2, SMTT(30)
    <3>5. Range(FreeList[r]) = {First(r)}
      BY <3>1, <3>4, Zenon DEF Free
    <3>6. FreeList[r] = <<First(r)>>
      BY <2>1, <3>5, OneNode, Zenon
    <3>7. Size[First(r)] = Tail_(r) - First(r) - HeaderSize - FooterSize
      BY ONLY <3>2, <3>3, Sizes DEF Behind
    <3> QED
      BY <3>6, <3>7, Zenon
  <2>5. \A h \in Free(r) : Next_(h) \notin Free(r)
    BY ONLY <2>2, <2>3, Zenon
  <2> QED
    BY ONLY <2>4, <2>5, Zenon
<1> QED
  BY <1>1, MemoryInvariant, PTL

----------------------------------------------------------------------------
(* The ring buffer *)

\* Counting modulo Values, where no sum reaches twice that.
Wrapped(a) == IF a < Values THEN a ELSE a - Values

LEMMA Modulo ==
  ASSUME NEW a \in Nat, a < 2 * Values
  PROVE  a % Values = Wrapped(a)
<1> DEFINE q == a \div Values
           m == a % Values
<1>1. Values \in Int /\ Values > 0
  BY SizeAssumption
<1>2. a = Values * q + m /\ q \in Int /\ m \in Int /\ 0 <= m /\ m < Values
  BY <1>1
<1> HIDE DEF q, m
<1>3. ASSUME q >= 2 PROVE FALSE
  <2>1. Values * q >= Values * 2
    BY ONLY <1>1, <1>2, <1>3
  <2> QED
    BY <1>1, <1>2, <2>1
<1>4. ASSUME q <= -1 PROVE FALSE
  <2>1. Values * q <= Values * (-1)
    BY ONLY <1>1, <1>2, <1>4
  <2> QED
    BY <1>1, <1>2, <2>1
<1>5. q = 0 \/ q = 1
  BY ONLY <1>2, <1>3, <1>4
<1>6. m = Wrapped(a)
  BY <1>1, <1>2, <1>5 DEF Wrapped
<1> QED
  BY <1>6, Zenon DEF m

\* The inductive invariant: the bytes between the indexes; a byte the writer has
\* copied has a place that is not in use and is the one to come next; a byte the
\* reader has copied is still there.
RingInv ==
  /\ BufferTypeOK
  /\ written = (read + avail) % Values
  /\ \A k \in 0..(avail - 1) : Buffer[peekAt(k)] = (read + k) % Values
  /\ pc["writer"] = "copied" => ~Full /\ Buffer[ProduceIndex] = written
  /\ pc["reader"] = "copied" => ~Empty
  /\ \A s \in Side : pc[s] = "copied" => left[s] > 0

LEMMA RingSizes ==
  /\ BufferSize \in Int /\ BufferSize > 1 /\ Values \in Int /\ Values > BufferSize
  /\ MaxLength \in Nat
BY SizeAssumption, SMTT(40)

\* The indexes and what lies between them.
LEMMA Indexes ==
  ASSUME BufferTypeOK
  PROVE  /\ avail \in 0..(BufferSize - 1)
         /\ Full <=> avail = BufferSize - 1
         /\ Empty <=> avail = 0
         /\ ProduceIndex = peekAt(avail)
         /\ \A k \in 0..(BufferSize - 1) :
              peekAt(k) \in 0..(BufferSize - 1) /\ (k # avail => peekAt(k) # ProduceIndex)
BY RingSizes DEF BufferTypeOK, avail, Full, Empty, Succ, peekAt

\* A step that touches neither the ring nor a byte that is being copied.
LEMMA Quiet ==
  ASSUME RingInv, UNCHANGED ring, BufferTypeOK',
         \A s \in Side : pc'[s] = "copied" => pc[s] = "copied" /\ left'[s] = left[s]
  PROVE  RingInv'
<1>1. /\ avail' = avail /\ Full' = Full /\ Empty' = Empty /\ \A k : peekAt(k)' = peekAt(k)
      /\ Buffer' = Buffer /\ ProduceIndex' = ProduceIndex /\ written' = written /\ read' = read
  BY Zenon DEF ring, avail, Full, Empty, Succ, peekAt
<1>2. "writer" \in Side /\ "reader" \in Side
  BY Zenon DEF Side
<1> QED
  BY <1>1, <1>2, Zenon DEF RingInv

LEMMA RingNextTypeOK == RingInv /\ [BufferNext]_bufferVars => BufferTypeOK'
<1> SUFFICES ASSUME RingInv, [BufferNext]_bufferVars PROVE BufferTypeOK'
  BY Zenon
<1> USE RingSizes
<1>1. BufferTypeOK /\ \A s \in Side : pc[s] = "copied" => left[s] > 0
  BY Zenon DEF RingInv
<1>2. avail \in 0..(BufferSize - 1)
  BY <1>1, Indexes, Zenon
<1>3. \A n \in Nat : n % Values \in 0..(Values - 1)
  OBVIOUS
<1>4. ASSUME NEW s \in Side, NEW length \in 1..MaxLength, Begin(s, length) PROVE BufferTypeOK'
  BY <1>1, <1>4 DEF BufferTypeOK, Begin, Goto, ring, Place
<1>5. ASSUME NEW s \in Side, Check(s) PROVE BufferTypeOK'
  BY <1>1, <1>5, ZenonT(40) DEF BufferTypeOK, Check, Goto, Place, Side
<1>6. ASSUME NEW s \in Side, Advance(s) PROVE BufferTypeOK'
  <2>1. \A i \in 0..(BufferSize - 1) : Succ(i) \in 0..(BufferSize - 1)
    BY DEF Succ
  <2>2. ProduceIndex' \in 0..(BufferSize - 1) /\ ConsumeIndex' \in 0..(BufferSize - 1)
    BY <1>1, <1>6, <2>1, Zenon DEF BufferTypeOK, Advance
  <2>3. written' \in 0..(Values - 1) /\ read' \in 0..(Values - 1)
    <3>1. written \in 0..(Values - 1) /\ read \in 0..(Values - 1)
      BY <1>1, Zenon DEF BufferTypeOK
    <3>2. written' \in {written, (written + 1) % Values} /\ read' \in {read, (read + 1) % Values}
      BY <1>6, Zenon DEF Advance
    <3>3. (written + 1) % Values \in 0..(Values - 1) /\ (read + 1) % Values \in 0..(Values - 1)
      BY ONLY <1>3, <3>1, RingSizes
    <3> QED
      BY ONLY <3>1, <3>2, <3>3, Zenon
  <2>4. left' \in [Side -> 0..MaxLength] /\ any' \in [Side -> BOOLEAN] /\ pc' \in [Side -> Place]
    <3>1. /\ left' = [left EXCEPT ![s] = @ - 1] /\ any' = [any EXCEPT ![s] = TRUE]
          /\ pc' = [pc EXCEPT ![s] = "check"] /\ pc[s] = "copied"
      BY <1>6, Zenon DEF Advance, Goto
    <3>2. /\ left \in [Side -> 0..MaxLength] /\ any \in [Side -> BOOLEAN] /\ pc \in [Side -> Place]
          /\ "check" \in Place
      BY <1>1, Zenon DEF BufferTypeOK, Place
    <3>3. left[s] - 1 \in 0..MaxLength
      BY <1>1, <3>1, <3>2
    <3> QED
      BY ONLY <3>1, <3>2, <3>3, s \in Side, Zenon
  <2> QED
    BY <1>1, <1>6, <2>2, <2>3, <2>4, Zenon DEF BufferTypeOK, Advance
<1>7. ASSUME NEW s \in Side, Refuse(s) PROVE BufferTypeOK'
  BY <1>1, <1>7, Zenon DEF BufferTypeOK, Refuse, Goto, Place, ring
<1>8. CASE Recheck
  BY <1>1, <1>8, Zenon DEF BufferTypeOK, Recheck, Goto, Place, ring, Side
<1>9. ASSUME NEW s \in Side, After(s) PROVE BufferTypeOK'
  <2>1. PICK place \in {"user", "wait"} :
          IF any[s] THEN SetOther(s, place) ELSE Goto(s, place) /\ UNCHANGED Event
    BY <1>9, Zenon DEF After
  <2>2. Other(s) \in Side
    BY Zenon DEF Other, Side
  <2>3. Event' \in [Side -> BOOLEAN] /\ pc' \in [Side -> Place]
    BY <1>1, <2>1, <2>2, Zenon DEF BufferTypeOK, SetOther, Goto, Place
  <2>4. any' \in [Side -> BOOLEAN] /\ UNCHANGED <<ring, left>>
    BY <1>1, <1>9, Zenon DEF BufferTypeOK, After
  <2> QED
    BY <1>1, <2>3, <2>4, Zenon DEF BufferTypeOK, ring
<1>10. ASSUME NEW s \in Side, Wait(s) PROVE BufferTypeOK'
  BY <1>1, <1>10, Zenon DEF BufferTypeOK, Wait, Goto, Place, ring
<1>11. ASSUME NEW s \in Side, Timeout(s) PROVE BufferTypeOK'
  BY <1>1, <1>11, Zenon DEF BufferTypeOK, Timeout, Goto, Place, ring
<1>12. ASSUME NEW length \in 1..MaxLength, Discard(length) PROVE BufferTypeOK'
  <2> DEFINE n == IF length > avail THEN avail ELSE length
  <2>1. n \in Nat /\ n <= avail
    BY <1>2
  <2>2. /\ ConsumeIndex' = IF ConsumeIndex + n >= BufferSize THEN ConsumeIndex + n - BufferSize ELSE ConsumeIndex + n
        /\ read' = (read + n) % Values
        /\ SetOther("reader", "user") /\ UNCHANGED <<Buffer, ProduceIndex, written, left, any>>
    BY <1>12, Zenon DEF Discard
  <2> HIDE DEF n
  <2>3. ConsumeIndex' \in 0..(BufferSize - 1)
    BY <1>1, <1>2, <2>1, <2>2 DEF BufferTypeOK
  <2>4. read' \in 0..(Values - 1)
    <3>1. read + n \in Nat
      BY <1>1, <2>1 DEF BufferTypeOK
    <3> QED
      BY ONLY <1>3, <2>2, <3>1, Zenon
  <2>5. Event' \in [Side -> BOOLEAN] /\ pc' \in [Side -> Place]
    <3>1. Other("reader") \in Side /\ "reader" \in Side /\ "user" \in Place /\ "check" \in Place
      BY Zenon DEF Other, Side, Place
    <3> QED
      BY ONLY <1>1, <2>2, <3>1, Zenon DEF BufferTypeOK, SetOther
  <2> QED
    BY <1>1, <2>2, <2>3, <2>4, <2>5, Zenon DEF BufferTypeOK
<1>13. CASE UNCHANGED bufferVars
  BY <1>1, <1>13, Zenon DEF BufferTypeOK, bufferVars
<1> QED
  BY <1>4, <1>5, <1>6, <1>7, <1>8, <1>9, <1>10, <1>11, <1>12, <1>13, Zenon DEF BufferNext, Step

\* The writer copies a byte behind those in the ring.
LEMMA CopyIn == ASSUME RingInv, Check("writer"), BufferTypeOK' PROVE RingInv'
<1>1. BufferTypeOK /\ "writer" \in Side /\ "reader" \in Side /\ \A s \in Side : s = "writer" \/ s = "reader"
  BY Zenon DEF RingInv, Side
<1>2. UNCHANGED <<ProduceIndex, ConsumeIndex, written, read, left>> /\ pc'["reader"] = pc["reader"]
  BY <1>1, Zenon DEF Check, Goto, BufferTypeOK
<1>3. avail' = avail /\ Full' = Full /\ Empty' = Empty /\ \A k : peekAt(k)' = peekAt(k)
  BY <1>2, Zenon DEF avail, Full, Empty, Succ, peekAt
<1>4. CASE pc'["writer"] = "copied"
  <2>1. ~Full /\ left["writer"] > 0 /\ Buffer' = [Buffer EXCEPT ![ProduceIndex] = written]
    BY <1>1, <1>4, Zenon DEF Check, Goto, BufferTypeOK, Refused
  <2>2. /\ Buffer'[ProduceIndex] = written
        /\ \A i \in 0..(BufferSize - 1) : i # ProduceIndex => Buffer'[i] = Buffer[i]
    BY <1>1, <2>1, Zenon DEF BufferTypeOK
  <2>3. ASSUME NEW k \in 0..(avail - 1) PROVE Buffer'[peekAt(k)] = Buffer[peekAt(k)]
    BY <1>1, <2>2, Indexes, RingSizes
  <2> QED
    BY <1>1, <1>2, <1>3, <2>1, <2>2, <2>3, Zenon DEF RingInv
<1>5. CASE pc'["writer"] # "copied"
  <2>1. Buffer' = Buffer
    BY <1>1, <1>5, Zenon DEF Check, Goto, BufferTypeOK
  <2> QED
    BY <1>1, <1>2, <1>5, <2>1, Quiet, Zenon DEF ring
<1> QED
  BY <1>4, <1>5, Zenon

\* The index moves behind the byte that was copied, which is in the ring now.
LEMMA Produced == ASSUME RingInv, Advance("writer"), BufferTypeOK' PROVE RingInv'
<1>1. BufferTypeOK /\ "writer" \in Side /\ "reader" \in Side /\ \A s \in Side : s = "writer" \/ s = "reader"
  BY Zenon DEF RingInv, Side
<1>2. /\ ProduceIndex' = Succ(ProduceIndex) /\ written' = (written + 1) % Values
      /\ UNCHANGED <<ConsumeIndex, read, Buffer>>
      /\ pc["writer"] = "copied" /\ pc'["writer"] = "check" /\ pc'["reader"] = pc["reader"]
      /\ left'["reader"] = left["reader"]
  BY <1>1, Zenon DEF Advance, Goto, BufferTypeOK
<1>3. ~Full /\ Buffer[ProduceIndex] = written /\ (pc["reader"] = "copied" => left["reader"] > 0)
  BY <1>1, <1>2, Zenon DEF RingInv
<1>4. avail \in 0..(BufferSize - 2) /\ ProduceIndex = peekAt(avail)
  BY <1>1, <1>3, Indexes, RingSizes
<1>5. avail' = avail + 1 /\ (\A k : peekAt(k)' = peekAt(k))
  <2>1. avail' = avail + 1
    <3>1. ProduceIndex \in 0..(BufferSize - 1) /\ ConsumeIndex \in 0..(BufferSize - 1)
      BY <1>1, Zenon DEF BufferTypeOK
    <3>2. ProduceIndex' = Succ(ProduceIndex) /\ ConsumeIndex' = ConsumeIndex
      BY <1>2, Zenon
    <3> QED
      BY ONLY <1>3, <3>1, <3>2, RingSizes DEF avail, Full, Succ
  <2>2. \A k : peekAt(k)' = peekAt(k)
    BY <1>2, Zenon DEF peekAt
  <2> QED
    BY <2>1, <2>2, Zenon
<1>6. ~Empty'
  BY <1>1, <1>2, <1>3, RingSizes, Zenon DEF BufferTypeOK, Full, Empty, Succ
<1>7. written = (read + avail) % Values /\ read \in 0..(Values - 1) /\ \A k \in 0..(avail - 1) : Buffer[peekAt(k)] = (read + k) % Values
  BY <1>1, Zenon DEF RingInv, BufferTypeOK
<1>8. written' = (read + avail') % Values
  <2>0. read + avail \in Nat /\ read + avail + 1 \in Nat /\ read + avail + 1 < 2 * Values
    BY ONLY <1>4, <1>7, RingSizes, SMTT(40)
  <2>1. written = Wrapped(read + avail)
    BY <1>7, <2>0, Modulo, RingSizes, SMTT(40)
  <2>2. (written + 1) % Values = Wrapped(written + 1)
    <3>1. written + 1 \in Nat /\ written + 1 < 2 * Values
      BY ONLY <1>4, <1>7, <2>1, RingSizes, SMTT(40) DEF Wrapped
    <3> QED
      BY <3>1, Modulo, Zenon
  <2>3. (read + (avail + 1)) % Values = Wrapped(read + (avail + 1))
    <3>1. read + (avail + 1) \in Nat /\ read + (avail + 1) < 2 * Values
      BY ONLY <1>4, <1>7, RingSizes, SMTT(40)
    <3> QED
      BY <3>1, Modulo, Zenon
  <2> QED
    BY ONLY <1>2, <1>4, <1>5, <1>7, <2>1, <2>2, <2>3, RingSizes, SMTT(40) DEF Wrapped
<1>9. \A k \in 0..(avail' - 1) : Buffer'[peekAt(k)'] = (read' + k) % Values
  BY <1>2, <1>3, <1>4, <1>5, <1>7, SMTT(40)
<1> QED
  BY ONLY <1>1, <1>2, <1>3, <1>6, <1>8, <1>9, BufferTypeOK', Zenon DEF RingInv

\* The reader gives up the first n bytes of the ring.
LEMMA Consumed ==
  ASSUME RingInv, NEW n \in 0..avail, BufferTypeOK',
         ConsumeIndex' = peekAt(n), read' = (read + n) % Values,
         UNCHANGED <<Buffer, ProduceIndex, written>>,
         pc'["writer"] = "copied" => pc["writer"] = "copied" /\ left'["writer"] = left["writer"],
         pc'["reader"] # "copied"
  PROVE  RingInv'
<1>1. BufferTypeOK /\ "writer" \in Side /\ "reader" \in Side /\ \A s \in Side : s = "writer" \/ s = "reader"
  BY Zenon DEF RingInv, Side
<1>2. avail \in 0..(BufferSize - 1)
  BY <1>1, Indexes, ZenonT(40)
<1>3. avail' = avail - n /\ \A k \in 0..(avail - n - 1) : peekAt(k)' = peekAt(n + k)
  BY <1>1, <1>2, RingSizes, SMTT(40) DEF BufferTypeOK, avail, peekAt
<1>4. ~Full => ~Full'
  <2>1. Full' => avail' = BufferSize - 1
    BY RingSizes, SMTT(40) DEF BufferTypeOK, Full, Succ, avail
  <2> QED
    BY <1>1, <1>2, <1>3, <2>1, Indexes, RingSizes, SMTT(40)
<1>5. written = (read + avail) % Values /\ read \in 0..(Values - 1) /\ \A k \in 0..(avail - 1) : Buffer[peekAt(k)] = (read + k) % Values
  BY <1>1, Zenon DEF RingInv, BufferTypeOK
<1>6. \A k \in 0..(avail - n) : (read' + k) % Values = (read + (n + k)) % Values
  <2>1. ASSUME NEW k \in 0..(avail - n) PROVE (read' + k) % Values = (read + (n + k)) % Values
    <3>1. read' = Wrapped(read + n)
      <4>1. read + n \in Nat /\ read + n < 2 * Values
        BY ONLY <1>2, <1>5, RingSizes, n \in 0..avail
      <4> QED
        BY <4>1, Modulo, Zenon
    <3>2. (read' + k) % Values = Wrapped(read' + k)
      <4>1. read' + k \in Nat /\ read' + k < 2 * Values
        BY ONLY <1>2, <1>5, <2>1, <3>1, RingSizes, n \in 0..avail, SMTT(40) DEF Wrapped
      <4> QED
        BY <4>1, Modulo, Zenon
    <3>3. (read + (n + k)) % Values = Wrapped(read + (n + k))
      <4>1. read + (n + k) \in Nat /\ read + (n + k) < 2 * Values
        BY ONLY <1>2, <1>5, <2>1, RingSizes, n \in 0..avail, SMTT(40)
      <4> QED
        BY <4>1, Modulo, Zenon
    <3> QED
      BY ONLY <1>2, <1>5, <2>1, <3>1, <3>2, <3>3, RingSizes, n \in 0..avail, SMTT(40) DEF Wrapped
  <2> QED
    BY <2>1, Zenon
<1>7. written' = (read' + avail') % Values
  BY <1>2, <1>3, <1>5, <1>6
<1>8. \A k \in 0..(avail' - 1) : Buffer'[peekAt(k)'] = (read' + k) % Values
  <2>1. ASSUME NEW k \in 0..(avail - n - 1) PROVE Buffer[peekAt(n + k)] = (read' + k) % Values
    BY <1>2, <1>5, <1>6
  <2> QED
    BY <1>2, <1>3, <2>1, Zenon
<1> QED
  BY <1>1, <1>4, <1>7, <1>8, Zenon DEF RingInv

\* A reader that goes on to copy a byte has seen that the ring is not empty, and
\* a writer does not change that.
LEMMA CopyOut == ASSUME RingInv, Check("reader"), BufferTypeOK' PROVE RingInv'
<1>1. BufferTypeOK /\ "writer" \in Side /\ "reader" \in Side /\ \A s \in Side : s = "writer" \/ s = "reader"
  BY Zenon DEF RingInv, Side
<1>2. UNCHANGED <<Buffer, ProduceIndex, ConsumeIndex, written, read, left>>
  BY Zenon DEF Check, Goto
<1>3. pc'["writer"] = pc["writer"] /\ (pc'["reader"] = "copied" => left["reader"] > 0 /\ ~Empty)
  <2>1. ASSUME NEW place, pc' = [pc EXCEPT !["reader"] = place] PROVE pc'["writer"] = pc["writer"] /\ pc'["reader"] = place
    BY <1>1, <2>1, Zenon DEF BufferTypeOK
  <2> QED
    BY <2>1, Zenon DEF Check, Goto, Refused
<1>4. /\ avail' = avail /\ Full' = Full /\ Empty' = Empty /\ \A k : peekAt(k)' = peekAt(k)
  BY <1>2, Zenon DEF avail, Full, Empty, Succ, peekAt
<1> QED
  BY <1>1, <1>2, <1>3, <1>4, Zenon DEF RingInv

LEMMA AdvanceKeeps == ASSUME RingInv, NEW s \in Side, Advance(s), BufferTypeOK' PROVE RingInv'
<1>1. s = "writer" \/ s = "reader"
  BY Zenon DEF Side
<1>2. CASE s = "writer"
  BY <1>2, Produced, Zenon
<1>3. CASE s = "reader"
  <2>1. BufferTypeOK /\ "writer" \in Side /\ "reader" \in Side
    BY Zenon DEF RingInv, Side
  <2>2. pc["reader"] = "copied" /\ ~Empty
    BY <1>3, Zenon DEF RingInv, Advance
  <2>3. 1 \in 0..avail
    BY <2>1, <2>2, Indexes, RingSizes, SMTT(40)
  <2>4. ConsumeIndex' = peekAt(1) /\ read' = (read + 1) % Values /\ UNCHANGED <<Buffer, ProduceIndex, written>>
    BY <1>3, <2>1, RingSizes, SMTT(40) DEF Advance, Succ, peekAt, BufferTypeOK
  <2>5. pc'["writer"] = pc["writer"] /\ left'["writer"] = left["writer"] /\ pc'["reader"] # "copied"
    BY <1>3, <2>1, Zenon DEF Advance, Goto, BufferTypeOK
  <2> QED
    BY <2>3, <2>4, <2>5, Consumed, Zenon
<1> QED
  BY <1>1, <1>2, <1>3, Zenon

LEMMA DiscardKeeps == ASSUME RingInv, NEW length \in 1..MaxLength, Discard(length), BufferTypeOK' PROVE RingInv'
<1>1. BufferTypeOK /\ "writer" \in Side /\ "reader" \in Side
  BY Zenon DEF RingInv, Side
<1>2. avail \in 0..(BufferSize - 1)
  BY <1>1, Indexes, Zenon
<1>3. PICK n : n = IF length > avail THEN avail ELSE length
  BY Zenon
<1>4. n \in 0..avail
  BY <1>2, <1>3, RingSizes
<1>5. /\ ConsumeIndex' = IF ConsumeIndex + n >= BufferSize THEN ConsumeIndex + n - BufferSize ELSE ConsumeIndex + n
      /\ read' = (read + n) % Values /\ UNCHANGED <<Buffer, ProduceIndex, written, left>>
      /\ SetOther("reader", "user")
  BY <1>3, Zenon DEF Discard
<1>6. ConsumeIndex' = peekAt(n)
  <2>1. ConsumeIndex \in Int
    BY <1>1 DEF BufferTypeOK
  <2> QED
    BY <1>2, <1>4, <1>5, <2>1, RingSizes, SMTT(40) DEF peekAt
<1>7. pc' = [pc EXCEPT !["reader"] = "user", !["writer"] = IF @ = "asleep" THEN "check" ELSE @]
  BY <1>5, Zenon DEF SetOther, Other
<1>8. (pc'["writer"] = "copied" => pc["writer"] = "copied") /\ pc'["reader"] # "copied"
  BY <1>1, <1>7, Zenon DEF BufferTypeOK
<1> QED
  BY <1>4, <1>5, <1>6, <1>8, Consumed, Zenon

\* The steps that leave the ring alone start and end no copy.
LEMMA QuietSteps ==
  ASSUME RingInv, BufferTypeOK',
         \/ \E s \in Side : Refuse(s) \/ After(s) \/ Wait(s) \/ Timeout(s)
         \/ \E s \in Side, length \in 1..MaxLength : Begin(s, length)
         \/ Recheck
         \/ UNCHANGED bufferVars
  PROVE  RingInv'
<1>1. BufferTypeOK /\ "writer" \in Side /\ "reader" \in Side /\ pc \in [Side -> Place] /\ left \in [Side -> 0..MaxLength]
  BY Zenon DEF RingInv, Side, BufferTypeOK
<1>2. ASSUME NEW s \in Side, NEW place \in Place \ {"copied"}, pc' = [pc EXCEPT ![s] = place]
      PROVE  \A t \in Side : pc'[t] = "copied" => pc[t] = "copied" /\ t # s
  BY ONLY <1>1, <1>2, Zenon
<1>3. CASE \E s \in Side : Refuse(s) \/ Timeout(s)
  BY <1>2, <1>3, Quiet, Zenon DEF Refuse, Timeout, Goto, Place
<1>4. ASSUME NEW s \in Side, Wait(s) PROVE RingInv'
  BY <1>2, <1>4, Quiet, Zenon DEF Wait, Goto, Place
<1>5. ASSUME NEW s \in Side, After(s) PROVE RingInv'
  <2>1. UNCHANGED ring /\ left' = left
    BY <1>5, Zenon DEF After
  <2>2. PICK place \in {"user", "wait"} : SetOther(s, place) \/ Goto(s, place)
    BY <1>5, Zenon DEF After
  <2>3. CASE Goto(s, place)
    BY <1>2, <2>1, <2>3, Quiet, Zenon DEF Goto, Place
  <2>4. CASE SetOther(s, place)
    <3>1. PICK o \in Side : o # s /\ pc' = [pc EXCEPT ![s] = place, ![o] = IF @ = "asleep" THEN "check" ELSE @]
      BY <1>1, <2>4, Zenon DEF SetOther, Other
    <3>2. \A t \in Side : pc'[t] = "copied" => pc[t] = "copied"
      BY ONLY <1>1, <2>2, <3>1, Zenon
    <3> QED
      BY <2>1, <3>2, Quiet, Zenon
  <2> QED
    BY <2>2, <2>3, <2>4, Zenon
<1>6. ASSUME NEW s \in Side, NEW length \in 1..MaxLength, Begin(s, length) PROVE RingInv'
  <2>1. UNCHANGED ring /\ pc' = [pc EXCEPT ![s] = "check"] /\ left' = [left EXCEPT ![s] = length]
    BY <1>6, Zenon DEF Begin, Goto
  <2>2. \A t \in Side : pc'[t] = "copied" => pc[t] = "copied" /\ left'[t] = left[t]
    BY ONLY <1>1, <2>1, Zenon
  <2> QED
    BY <2>1, <2>2, Quiet, Zenon
<1>7. CASE Recheck
  BY <1>1, <1>2, <1>7, Quiet, Zenon DEF Recheck, Goto, Place
<1>8. CASE UNCHANGED bufferVars
  BY <1>8, Quiet, Zenon DEF bufferVars, ring
<1> QED
  BY <1>3, <1>4, <1>5, <1>6, <1>7, <1>8, Zenon

LEMMA RingInitInv == BufferInit => RingInv
<1> SUFFICES ASSUME BufferInit PROVE RingInv
  BY Zenon
<1>1. BufferTypeOK
  BY RingSizes DEF BufferInit, BufferTypeOK, Side, Place
<1>2. avail = 0 /\ read = 0 /\ written = 0 /\ \A s \in Side : pc[s] = "user"
  BY RingSizes DEF BufferInit, avail
<1>3. 0 % Values = 0
  BY Modulo, RingSizes DEF Wrapped
<1> QED
  BY <1>1, <1>2, <1>3, RingSizes, SMTT(40) DEF RingInv, Side

LEMMA RingNextKeeps == RingInv /\ [BufferNext]_bufferVars => RingInv'
<1> SUFFICES ASSUME RingInv, [BufferNext]_bufferVars PROVE RingInv'
  BY Zenon
<1>1. BufferTypeOK'
  BY RingNextTypeOK, Zenon
<1>2. ASSUME NEW s \in Side, Check(s) PROVE RingInv'
  BY <1>1, <1>2, CopyIn, CopyOut, Zenon DEF Side
<1>3. ASSUME NEW s \in Side, Advance(s) PROVE RingInv'
  BY <1>1, <1>3, AdvanceKeeps, Zenon
<1>4. ASSUME NEW length \in 1..MaxLength, Discard(length) PROVE RingInv'
  BY <1>1, <1>4, DiscardKeeps, Zenon
<1> QED
  BY <1>1, <1>2, <1>3, <1>4, QuietSteps, Zenon DEF BufferNext, Step

\* What exos_io_buffer_peek points to lies in the ring and does not wrap.
LEMMA PeekInRing ==
  ASSUME BufferTypeOK, NEW offset \in 0..(BufferSize - 1), NEW k \in 0..(peek(offset) - 1)
  PROVE  /\ offset + k \in 0..(avail - 1)
         /\ peekAt(offset) + k < BufferSize
         /\ peekAt(offset) + k = peekAt(offset + k)
<1>1. avail \in 0..(BufferSize - 1) /\ ConsumeIndex \in 0..(BufferSize - 1)
  BY Indexes, Zenon DEF BufferTypeOK
<1>2. offset < avail
  BY <1>1, RingSizes, SMTT(40) DEF peek
<1>3. CASE ConsumeIndex + offset < BufferSize
  <2>1. peek(offset) = IF ConsumeIndex + offset + avail - offset < BufferSize THEN avail - offset ELSE BufferSize - (ConsumeIndex + offset)
    BY ONLY <1>1, <1>2, <1>3, RingSizes, SMTT(40) DEF peek
  <2>2. k \in Nat /\ k < peek(offset)
    BY <1>1, <2>1, RingSizes, SMTT(40)
  <2> QED
    BY ONLY <1>1, <1>2, <1>3, <2>1, <2>2, RingSizes, offset \in 0..(BufferSize - 1), SMTT(40) DEF peekAt
<1>4. CASE ConsumeIndex + offset >= BufferSize
  <2>1. peek(offset) = avail - offset
    BY ONLY <1>1, <1>2, <1>4, RingSizes, SMTT(40) DEF peek
  <2>2. k \in Nat /\ k < peek(offset)
    BY <1>1, <2>1, RingSizes
  <2> QED
    BY ONLY <1>1, <1>2, <1>4, <2>1, <2>2, RingSizes, offset \in 0..(BufferSize - 1), SMTT(40) DEF peekAt
<1> QED
  BY <1>1, <1>3, <1>4, RingSizes

LEMMA RingInvInOrder == RingInv => BytesInOrder
<1> SUFFICES ASSUME RingInv PROVE BytesInOrder
  BY Zenon
<1>1. BufferTypeOK /\ read \in Int
  BY DEF RingInv, BufferTypeOK
<1>2. ASSUME NEW offset \in 0..(BufferSize - 1), NEW k \in 0..(peek(offset) - 1)
      PROVE  /\ peekAt(offset) + k < BufferSize
             /\ Buffer[peekAt(offset) + k] = (read + offset + k) % Values
  <2>1. offset + k \in 0..(avail - 1) /\ peekAt(offset) + k < BufferSize /\ peekAt(offset) + k = peekAt(offset + k)
    BY <1>1, PeekInRing, Zenon
  <2>2. Buffer[peekAt(offset + k)] = (read + (offset + k)) % Values
    BY <2>1, Zenon DEF RingInv
  <2>3. k \in Int
    OBVIOUS
  <2>4. read + (offset + k) = read + offset + k
    BY <1>1, <2>3
  <2> QED
    BY ONLY <2>1, <2>2, <2>4, Zenon
<1> QED
  BY <1>1, <1>2, Zenon DEF BytesInOrder, RingInv

\* The bytes between the indexes are those written and not read, at every point
\* of both loops of kernel/iobuffer.c, although nothing locks the ring.
THEOREM RingInvariant == BufferSpec => []RingInv
<1>1. BufferInit => RingInv
  BY RingInitInv, Zenon
<1>2. RingInv /\ [BufferNext]_bufferVars => RingInv'
  BY RingNextKeeps, Zenon
<1> QED
  BY <1>1, <1>2, PTL DEF BufferSpec

\* What exos_io_buffer_read copies and exos_io_buffer_peek points to is what was
\* written and not read yet, in order and in one piece, for a ring of any size
\* and calls of any length.
THEOREM RingInOrder == BufferSpec => []BytesInOrder
BY RingInvariant, RingInvInOrder, PTL
=============================================================================

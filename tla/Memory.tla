------------------------------- MODULE Memory -------------------------------
(***************************************************************************)
(* The heap of kernel/memory.c: regions cut into blocks that carry their   *)
(* size in a header in front and, when free, in a footer behind; a list of *)
(* the free blocks of each region; first fit; and coalescence of a freed   *)
(* block with its two neighbours, which the boundary tags find.            *)
(*                                                                         *)
(* Addresses and sizes are in words.  Size and FreeSize are the memory: a  *)
(* header at a keeps its Size at Size[a], a footer at a its FreeSize at    *)
(* FreeSize[a].  What callers write into a block overwrites any old tag in *)
(* it, and old tags inside free blocks stay as they are.  Each call holds  *)
(* the mutex of the region it changes, so it is one step.                  *)
(***************************************************************************)
EXTENDS List

CONSTANTS Region,                           \* the EXOS_MEM_REGION objects
          Start, End,                       \* region -> its bounds
          Priority,                         \* region -> Node.Priority
          Flags,                            \* region -> EXOS_MEMF_DMA, _SHARED
          HeaderSize, FooterSize, NodeSize, \* sizeof
          Align,                            \* sizes are multiples of it
          Request,                          \* the sizes asked for
          Flag,                             \* the flags asked for
          Junk                              \* what a caller writes

Addr == UNION {Start[r]..End[r] : r \in Region}

\* exos_mem_add_region only asks for more than two headers and a footer; a
\* region the allocator can use has room for a node in its first block.  A
\* node is two pointers: on the 32-bit targets they fit in one unit of Align.
ASSUME MemoryAssumption ==
  /\ Start \in [Region -> Nat] /\ End \in [Region -> Nat] /\ Priority \in [Region -> Int]
  /\ {HeaderSize, FooterSize, NodeSize, Align} \subseteq Nat \ {0}
  /\ Request \subseteq Nat /\ Junk \in Nat
  /\ \A r \in Region :
       End[r] - Start[r] >= 2 * (HeaderSize + FooterSize) + NodeSize
  /\ \A r, s \in Region : r # s => End[r] <= Start[s] \/ End[s] <= Start[r]
  /\ NodeSize <= Align /\ 0 \notin Request

VARIABLES mem_list,   \* the list _mem_list
          FreeList,   \* region -> the headers on its FreeList
          Size,       \* address -> header->Size
          FreeSize,   \* address -> footer->FreeSize
          live        \* the blocks callers have: <<header, size asked for>>

memoryVars == <<mem_list, FreeList, Size, FreeSize, live>>

MemoryTypeOK ==
  /\ mem_list \in Seq(Region)
  /\ FreeList \in [Region -> Seq(Addr)]
  /\ Size \in [Addr -> Nat]
  /\ FreeSize \in [Addr -> Nat]
  /\ live \subseteq Addr \X Request

MemoryInit ==
  /\ mem_list = <<>>
  /\ FreeList = [r \in Region |-> <<>>]
  /\ Size = [a \in Addr |-> Junk]
  /\ FreeSize = [a \in Addr |-> Junk]
  /\ live = {}

Contents(h) == h + HeaderSize
Tail_(r) == End[r] - HeaderSize
First(r) == Start[r] + FooterSize

\* The region of a block, header->Region.
RegionOf(h) == CHOOSE r \in Region : h \in Start[r]..End[r]

\* _init_block: the tags of a free block from start to end.
_init_block(size, free, start, end) ==
  LET n == end - start - (HeaderSize + FooterSize)
  IN  /\ Size' = [size EXCEPT ![start] = n]
      /\ FreeSize' = [free EXCEPT ![end - FooterSize] = n]

exos_mem_add_region(r) ==
  /\ r \notin Range(mem_list)
  /\ mem_list' = list_enqueue(mem_list, r, Priority)
  /\ _init_block([Size EXCEPT ![Tail_(r)] = 0], [FreeSize EXCEPT ![Start[r]] = 0],
                 First(r), Tail_(r))
  /\ FreeList' = [FreeList EXCEPT ![r] = list_add_tail(<<>>, First(r))]
  /\ UNCHANGED live

----------------------------------------------------------------------------
(* Allocation *)

\* _find_room: where in the FreeList the first block that is large enough is.
Room(r, size) == {i \in DOMAIN FreeList[r] : Size[FreeList[r][i]] >= size}

Aligned(size) == ((size + Align - 1) \div Align) * Align

\* The rest is worth a block of its own.
Splits(h, size) == Size[h] - size >= HeaderSize + NodeSize + FooterSize

\* The caller fills the n words of a block.
Written(tags, h, n) ==
  [a \in Addr |-> IF a \in Contents(h)..(Contents(h) + n - 1) THEN Junk ELSE tags[a]]

\* The block is cut off its front part, or taken as it is.
Take(r, i, size) ==
  LET h == FreeList[r][i]
      split == Contents(h) + size + FooterSize
      end == Contents(h) + Size[h] + FooterSize
  IN  IF Splits(h, size)
      THEN /\ _init_block(Written([Size EXCEPT ![h] = size], h, size),
                          [Written(FreeSize, h, size) EXCEPT ![split - FooterSize] = 0],
                          split, end)
           /\ FreeList' = [FreeList EXCEPT ![r][i] = split]
      ELSE /\ Size' = Written(Size, h, Size[h])
           /\ FreeSize' = [Written(FreeSize, h, Size[h]) EXCEPT ![end - FooterSize] = 0]
           /\ FreeList' = [FreeList EXCEPT ![r] = list_remove(@, h)]

\* The first region with these flags and with room serves the request.
exos_mem_alloc(size, flags) ==
  LET fits == {i \in DOMAIN mem_list :
                 flags \subseteq Flags[mem_list[i]] /\ Room(mem_list[i], Aligned(size)) # {}}
      r == mem_list[Min(fits)]
      i == Min(Room(r, Aligned(size)))
  IN  IF fits = {} THEN UNCHANGED memoryVars
      ELSE /\ Take(r, i, Aligned(size))
           /\ live' = live \cup {<<FreeList[r][i], size>>}
           /\ UNCHANGED mem_list

----------------------------------------------------------------------------
(* Release *)

\* The header behind block h, and whether its tags say it is free.
Next_(h) == Contents(h) + Size[h] + FooterSize
NextFree(h) ==
  /\ Size[Next_(h)] # 0
  /\ FreeSize[Contents(Next_(h)) + Size[Next_(h)]] = Size[Next_(h)]

\* Faulty variant: a block is never joined to the one in front.
PrevFree_never(h) == FALSE

\* The footer in front of block h, and the header it leads to.
PrevFree(h) == FreeSize[h - FooterSize] # 0
Prev(h) == h - FooterSize - FreeSize[h - FooterSize] - HeaderSize

\* Faulty variant: the successor stays on the list.
Relinked_twice(list, h) == IF PrevFree(h) THEN list ELSE <<h>> \o list

\* The joined block takes the place of the predecessor on the list, or else
\* of the successor, or else goes first.
Relinked(list, h) ==
  IF PrevFree(h)
  THEN IF NextFree(h) THEN list_remove(list, Next_(h)) ELSE list
  ELSE IF NextFree(h) THEN [i \in DOMAIN list |-> IF list[i] = Next_(h) THEN h ELSE list[i]]
       ELSE <<h>> \o list

exos_mem_free(h) ==
  /\ \E size \in Request : <<h, size>> \in live
  /\ _init_block(Size, FreeSize,
                 IF PrevFree(h) THEN Prev(h) ELSE h,
                 IF NextFree(h) THEN Next_(Next_(h)) ELSE Next_(h))
  /\ FreeList' = [FreeList EXCEPT ![RegionOf(h)] = Relinked(@, h)]
  /\ live' = {b \in live : b[1] # h}
  /\ UNCHANGED mem_list

MemoryNext ==
  \/ \E r \in Region : exos_mem_add_region(r)
  \/ \E size \in Request, flags \in Flag : exos_mem_alloc(size, flags)
  \/ \E h \in Addr : exos_mem_free(h)

MemorySpec == MemoryInit /\ [][MemoryNext]_memoryVars

----------------------------------------------------------------------------
(* Properties *)

Used(r) == {b[1] : b \in {c \in live : RegionOf(c[1]) = r}}
Free(r) == Range(FreeList[r])

\* The blocks of a region, used and free, tile it: none overlaps another, none
\* is lost, a block on the FreeList is there once and in nobody's hands, and
\* a caller's block has the room it asked for.  The boundary tags say of each
\* block whether it is free, and each has room for a list node: what the
\* panics of _find_room, exos_mem_free and exos_mem_stats check.
BlocksTile ==
  /\ MemoryTypeOK
  /\ \A r \in Range(mem_list) :
    LET blocks == Used(r) \cup Free(r)
    IN  /\ First(r) \in blocks
        /\ \A h \in blocks : Next_(h) \in blocks \cup {Tail_(r)}
        /\ \A g, h \in blocks : g < h => Next_(g) <= h
        /\ Used(r) \cap Free(r) = {}
        /\ IsInjective(FreeList[r])
        /\ \A b \in live : Size[b[1]] >= b[2]
        /\ \A h \in blocks : /\ Size[h] >= NodeSize
                             /\ FreeSize[Contents(h) + Size[h]] = IF h \in Free(r) THEN Size[h] ELSE 0
        /\ FreeSize[Start[r]] = 0 /\ Size[Tail_(r)] = 0

\* Free blocks are never neighbours, so a region whose blocks have all been
\* given back is one block again, however the calls were ordered.
FullyCoalesced ==
  \A r \in Range(mem_list) :
    /\ \A h \in Free(r) : Next_(h) \notin Free(r)
    /\ Used(r) = {} =>
         /\ FreeList[r] = <<First(r)>>
         /\ Size[First(r)] = Tail_(r) - First(r) - HeaderSize - FooterSize
=============================================================================

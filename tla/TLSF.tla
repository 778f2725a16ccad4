-------------------------------- MODULE TLSF --------------------------------
(***************************************************************************)
(* BlockMetadata_TLSF: the two-level segregated-fit metadata that carves   *)
(* one heap (or one virtual block) into allocations                        *)
(* (rhi_allocator.cpp).                                                    *)
(*                                                                         *)
(* The linked list of physical blocks is the domain of m.size, ordered by  *)
(* offset: a block is known by its offset, which never changes while the   *)
(* block is taken or is on a free list.  A free list is the sequence of    *)
(* its blocks, head first.  Every private helper of the class is an        *)
(* operator from one metadata record to the next, in the order the code    *)
(* calls it.                                                               *)
(***************************************************************************)
EXTENDS Integers, Sequences, FiniteSets, SequencesExt

CONSTANTS
  Size,          \* GetSize(): bytes managed by this block
  IsVirtual,     \* virtual blocks have finer small lists and no margin
  DebugMargin,   \* GetDebugMargin()
  AllocSizes,    \* sizes the callers ask for
  Alignments     \* alignments the callers ask for

VARIABLES
  m,      \* the fields of the class, see Init
  live    \* what the callers hold: [offset -> [size, alignment]]

vars == <<m, live>>

SECOND_LEVEL_INDEX == 5
SMALL_BUFFER_SIZE == 256
MEMORY_CLASS_SHIFT == 7
SmallSizeStep == IF IsVirtual THEN 8 ELSE 64
SmallLists == IF IsVirtual THEN 32 ELSE 4

(* Strategies, in the order the code tests the flags. *)
Strategies == {"MinTime", "MinMemory", "MinOffset", "Default"}

NoBlock == -1   \* a NULL Block*
-----------------------------------------------------------------------------
(* Size classes. *)

BitScanMSB(n) == CHOOSE k \in 0..62 : 2^k <= n /\ n < 2^(k + 1)

AlignUp(n, a) == ((n + a - 1) \div a) * a

SizeToMemoryClass(n) ==
  IF n > SMALL_BUFFER_SIZE THEN BitScanMSB(n) - MEMORY_CLASS_SHIFT ELSE 0

(* Clearing the leading bit (the code's xor) leaves the offset of n within *)
(* its class.                                                              *)
SizeToSecondIndex(n, c) ==
  IF c = 0 THEN (n - 1) \div SmallSizeStep
           ELSE n \div 2^(c + MEMORY_CLASS_SHIFT - SECOND_LEVEL_INDEX)
                  - 2^SECOND_LEVEL_INDEX

ListOf(c, s) ==
  IF c = 0 THEN s ELSE (c - 1) * 2^SECOND_LEVEL_INDEX + s + SmallLists

GetListIndex(n) ==
  LET c == SizeToMemoryClass(n) IN ListOf(c, SizeToSecondIndex(n, c))

(* m_ListsCount as Init computes it; lists are 0 .. ListsCount - 1 *)
ListsCount ==
  LET c == SizeToMemoryClass(Size)
      s == SizeToSecondIndex(Size, c)
  IN (IF c = 0 THEN 0 ELSE (c - 1) * 2^SECOND_LEVEL_INDEX + s) + 1 + SmallLists

MemoryClasses == SizeToMemoryClass(Size) + 2
Lists == 0 .. ListsCount - 1

(* allocSize rounded up so that every block of the list it maps to fits *)
SizeForNextList(n) ==
  IF n > SMALL_BUFFER_SIZE THEN n + 2^(BitScanMSB(n) - SECOND_LEVEL_INDEX)
  ELSE IF n > SMALL_BUFFER_SIZE - SmallSizeStep THEN SMALL_BUFFER_SIZE + 1
  ELSE n + SmallSizeStep
-----------------------------------------------------------------------------
(* Physical blocks. *)

Blocks(mm) == DOMAIN mm.size
IsFree(mm, b) == b \notin mm.taken
NextPhysical(mm, b) == Min({c \in Blocks(mm) : c > b})
HasPrev(mm, b) == \E c \in Blocks(mm) : c < b
PrevPhysical(mm, b) == Max({c \in Blocks(mm) : c < b})
IsEmpty(mm) == mm.null = 0
GetSumFreeSize(mm) == mm.blocksFreeSize + mm.size[mm.null]

InitialMetadata ==
  [ size |-> [b \in {0} |-> Size],
    null |-> 0,
    taken |-> {},
    freeList |-> [i \in Lists |-> <<>>],
    innerIsFree |-> [c \in 0 .. MemoryClasses - 1 |-> {}],
    isFree |-> {},
    blocksFreeCount |-> 0,
    blocksFreeSize |-> 0,
    allocCount |-> 0 ]

(* Fault: the bit of an emptied list stays set. *)
RemoveFreeBlock_StaleBit(mm, b) ==
  [mm EXCEPT
     !.freeList[GetListIndex(mm.size[b])] = RemoveFirst(@, b),
     !.taken = @ \cup {b},
     !.blocksFreeCount = @ - 1,
     !.blocksFreeSize = @ - mm.size[b]]

RemoveFreeBlock(mm, b) ==
  LET c == SizeToMemoryClass(mm.size[b])
      s == SizeToSecondIndex(mm.size[b], c)
      i == ListOf(c, s)
      rest == RemoveFirst(mm.freeList[i], b)
      inner == mm.innerIsFree[c] \ {s}
  IN [mm EXCEPT
        !.freeList[i] = rest,
        !.innerIsFree[c] = IF rest = <<>> THEN inner ELSE @,
        !.isFree = IF rest = <<>> /\ inner = {} THEN @ \ {c} ELSE @,
        !.taken = @ \cup {b},
        !.blocksFreeCount = @ - 1,
        !.blocksFreeSize = @ - mm.size[b]]

InsertFreeBlock(mm, b) ==
  LET c == SizeToMemoryClass(mm.size[b])
      s == SizeToSecondIndex(mm.size[b], c)
      i == ListOf(c, s)
  IN [mm EXCEPT
        !.freeList[i] = <<b>> \o @,
        !.innerIsFree[c] = @ \cup {s},
        !.isFree = @ \cup {c},
        !.taken = @ \ {b},
        !.blocksFreeCount = @ + 1,
        !.blocksFreeSize = @ + mm.size[b]]

(* MergeBlock(block, prev): block, the physical successor of prev, takes   *)
(* over prev's offset; whether the result is taken, and whether it is the  *)
(* null block, is block's.                                                 *)
MergeBlock(mm, block, prev) ==
  LET rest == Blocks(mm) \ {block}
  IN [mm EXCEPT
        !.size = [b \in rest |-> IF b = prev THEN @[prev] + @[block] ELSE @[b]],
        !.null = IF block = @ THEN prev ELSE @,
        !.taken = IF block \in @ THEN (@ \ {block}) \cup {prev}
                                 ELSE @ \ {block, prev}]

(* Cut block b after its first n bytes.  Cutting the null block makes the  *)
(* rest the null block and the front a taken one.                          *)
CutBlock(mm, b, n) ==
  LET rest == b + n
  IN [mm EXCEPT
        !.size = [x \in Blocks(mm) \cup {rest} |->
                    IF x = b THEN n ELSE IF x = rest THEN @[b] - n ELSE @[x]],
        !.null = IF b = @ THEN rest ELSE @,
        !.taken = (@ \cup {b}) \cup (IF b = mm.null THEN {} ELSE {rest})]

(* Move the boundary between prev and its successor b up by n bytes. *)
MoveBoundary(mm, prev, b, n) ==
  [mm EXCEPT
     !.size = [x \in (Blocks(mm) \ {b}) \cup {b + n} |->
                 IF x = prev THEN @[prev] + n
                 ELSE IF x = b + n THEN @[b] - n ELSE @[x]],
     !.null = IF b = @ THEN b + n ELSE @,
     !.taken = IF b \in @ THEN (@ \ {b}) \cup {b + n} ELSE @]
-----------------------------------------------------------------------------
(* CreateAllocationRequest.  n already includes the margin. *)

(* Fault: the bytes lost to alignment are forgotten. *)
Fits_NoPadding(mm, b, n, a) == mm.size[b] >= n

Fits(mm, b, n, a) == mm.size[b] >= n + AlignUp(b, a) - b

FirstFit(mm, s, n, a) ==
  LET fit == {k \in DOMAIN s : Fits(mm, s[k], n, a)}
  IN IF fit = {} THEN NoBlock ELSE s[Min(fit)]

NoList == -1

(* The first non-empty list holding blocks of at least n's size class. *)
FindFreeList(mm, n) ==
  LET c == SizeToMemoryClass(n)
      inner == {s \in mm.innerIsFree[c] : s >= SizeToSecondIndex(n, c)}
      higher == {d \in mm.isFree : d > c}
  IN IF inner # {} THEN ListOf(c, Min(inner))
     ELSE IF higher = {} THEN NoList
     ELSE ListOf(Min(higher), Min(mm.innerIsFree[Min(higher)]))

Bucket(mm, i) == IF i = NoList THEN <<>> ELSE mm.freeList[i]

(* Fault: the full search starts one list too far. *)
FullSearch_SkipsOne(mm, i, n, a) ==
  LET above == {l \in DOMAIN mm.freeList : /\ l > (IF i = NoList THEN 0 ELSE i) + 1
                                                /\ FirstFit(mm, mm.freeList[l], n, a) # NoBlock}
  IN IF above = {} THEN NoBlock ELSE FirstFit(mm, mm.freeList[Min(above)], n, a)

(* "Worst case, full search has to be done": every list above index i. *)
FullSearch(mm, i, n, a) ==
  LET above == {l \in DOMAIN mm.freeList : /\ l > (IF i = NoList THEN 0 ELSE i)
                                                /\ FirstFit(mm, mm.freeList[l], n, a) # NoBlock}
  IN IF above = {} THEN NoBlock ELSE FirstFit(mm, mm.freeList[Min(above)], n, a)

(* The blocks the strategy looks at before the full search, in its order. *)
SearchOrder(mm, prev, next, strategy) ==
  LET null == <<mm.null>>
  IN CASE strategy = "MinTime" -> SubSeq(next, 1, IF next = <<>> THEN 0 ELSE 1)
                                    \o null \o next \o prev
       [] strategy = "MinMemory" -> prev \o null \o next
       [] strategy = "Default" -> next \o null \o prev

MinOffsetBlock(mm, n, a) ==
  LET fit == {b \in Blocks(mm) : IsFree(mm, b) /\ b # mm.null /\ Fits(mm, b, n, a)}
  IN IF fit # {} THEN Min(fit)
     ELSE IF Fits(mm, mm.null, n, a) THEN mm.null ELSE NoBlock

(* The block a request for size bytes (plus the margin) is given. *)
FindBlock(mm, size, a, strategy) ==
  LET n == size + DebugMargin
      nextList == FindFreeList(mm, SizeForNextList(n))
      found == FirstFit(mm, SearchOrder(mm, Bucket(mm, FindFreeList(mm, n)),
                                        Bucket(mm, nextList), strategy), n, a)
  IN IF n > GetSumFreeSize(mm) THEN NoBlock
     ELSE IF mm.blocksFreeCount = 0 THEN FirstFit(mm, <<mm.null>>, n, a)
     ELSE IF strategy = "MinOffset" THEN MinOffsetBlock(mm, n, a)
     ELSE IF found # NoBlock THEN found
     ELSE FullSearch(mm, nextList, n, a)

(* CheckBlock's last step: the block found goes to the head of its list. *)
MoveToFront(mm, b) ==
  IF b = mm.null THEN mm
  ELSE [mm EXCEPT !.freeList[GetListIndex(mm.size[b])] = <<b>> \o RemoveFirst(@, b)]
-----------------------------------------------------------------------------
(* Alloc and Free. *)

(* "Append missing alignment to prev block or create new one" *)
PadFront(mm, b, missing) ==
  LET prev == PrevPhysical(mm, b)
      sameList == GetListIndex(mm.size[prev]) = GetListIndex(mm.size[prev] + missing)
  IN IF missing = 0 THEN mm
     ELSE IF ~ (IsFree(mm, prev) /\ mm.size[prev] # DebugMargin)
       THEN InsertFreeBlock(CutBlock(mm, b, missing), b)
     ELSE IF sameList
       THEN [MoveBoundary(mm, prev, b, missing) EXCEPT !.blocksFreeSize = @ + missing]
     ELSE InsertFreeBlock(MoveBoundary(RemoveFreeBlock(mm, prev), prev, b, missing), prev)

(* Take n bytes at the start of block b, giving the rest back. *)
TakeFront(mm, b, n) ==
  IF b = mm.null THEN CutBlock(mm, b, n)
  ELSE IF mm.size[b] = n THEN mm
  ELSE InsertFreeBlock(CutBlock(mm, b, n), b + n)

Alloc(mm, b, offset, size) ==
  LET popped == IF b = mm.null THEN mm ELSE RemoveFreeBlock(mm, b)
      padded == PadFront(popped, b, offset - b)
      cut == TakeFront(padded, offset, size + DebugMargin)
      margined == IF DebugMargin = 0 THEN cut
                  ELSE InsertFreeBlock(CutBlock(cut, offset, size), offset + size)
  IN [margined EXCEPT !.allocCount = @ + 1]

(* Merge the taken block b with its free predecessor. *)
MergePrev(mm, b) ==
  IF HasPrev(mm, b) /\ IsFree(mm, PrevPhysical(mm, b))
                    /\ mm.size[PrevPhysical(mm, b)] # DebugMargin
  THEN LET prev == PrevPhysical(mm, b) IN MergeBlock(RemoveFreeBlock(mm, prev), b, prev)
  ELSE mm

(* Merge the taken block b with its free successor, and give it back. *)
MergeNext(mm, b) ==
  LET next == NextPhysical(mm, b)
  IN IF ~ IsFree(mm, next) THEN InsertFreeBlock(mm, b)
     ELSE IF next = mm.null THEN MergeBlock(mm, next, b)
     ELSE InsertFreeBlock(MergeBlock(RemoveFreeBlock(mm, next), next, b), b)


Free(mm, b) ==
  LET next == NextPhysical(mm, b)
      whole == IF DebugMargin = 0 THEN mm
               ELSE MergeBlock(RemoveFreeBlock(mm, next), next, b)
      merged == MergePrev(whole, b)
      start == IF b \in Blocks(merged) THEN b ELSE PrevPhysical(whole, b)
  IN MergeNext([merged EXCEPT !.allocCount = @ - 1], start)
-----------------------------------------------------------------------------
(* The operations of the class. *)

Init == m = InitialMetadata /\ live = [o \in {} |-> 0]

(* CreateAllocationRequest succeeds and Alloc commits it. *)
Allocate(size, a, strategy) ==
  LET b == FindBlock(m, size, a, strategy)
      offset == AlignUp(b, a)
  IN /\ b # NoBlock
     /\ m' = Alloc(MoveToFront(m, b), b, offset, size)
     /\ live' = [o \in DOMAIN live \cup {offset} |->
                   IF o = offset THEN [size |-> size, alignment |-> a] ELSE live[o]]

(* CreateAllocationRequest succeeds and its caller drops the request: a    *)
(* defragmentation pass does, when the block found is not a lower one.     *)
Probe(size, a, strategy) ==
  LET b == FindBlock(m, size, a, strategy)
  IN /\ b # NoBlock
     /\ m' = MoveToFront(m, b)
     /\ UNCHANGED live

FreeAllocation(o) ==
  /\ m' = Free(m, o)
  /\ live' = [p \in DOMAIN live \ {o} |-> live[p]]

Clear ==
  /\ m' = InitialMetadata
  /\ live' = [o \in {} |-> 0]

Next ==
  \/ \E n \in AllocSizes, a \in Alignments, s \in Strategies :
       Allocate(n, a, s) \/ Probe(n, a, s)
  \/ \E o \in DOMAIN live : FreeAllocation(o)
  \/ Clear

Spec == Init /\ [][Next]_vars
-----------------------------------------------------------------------------
(* Properties. *)

(* Types of the fields. *)
TypeOK ==
  /\ Blocks(m) \subseteq 0 .. Size
  /\ m.size \in [Blocks(m) -> 0 .. Size]
  /\ m.null \in Blocks(m)
  /\ m.taken \subseteq Blocks(m) \ {m.null}
  /\ m.freeList \in [Lists -> Seq(Blocks(m))]
  /\ m.innerIsFree \in [0 .. MemoryClasses - 1 -> SUBSET (0 .. 31)]
  /\ m.isFree \subseteq 0 .. MemoryClasses - 1
  /\ m.blocksFreeCount \in Nat /\ m.blocksFreeSize \in 0 .. Size
  /\ m.allocCount \in Nat
  /\ DOMAIN live \subseteq 0 .. Size
  /\ live \in [DOMAIN live -> [size : AllocSizes, alignment : Alignments]]

FreeBlocks == Blocks(m) \ (m.taken \cup {m.null})

(* The blocks tile the heap: each ends where its successor starts, the     *)
(* null block ends at Size (Validate's walk over prevPhysical).            *)
Tiled ==
  /\ 0 \in Blocks(m)
  /\ \A b \in Blocks(m) \ {m.null} :
       /\ b < m.null
       /\ m.size[b] > 0
       /\ NextPhysical(m, b) = b + m.size[b]
  /\ m.null + m.size[m.null] = Size

(* Every free block but the null block is on the list of its size, exactly *)
(* once, and nothing else is on a list; the two bitmaps say which lists    *)
(* have a block, and FindFreeBlock trusts them to take the head of one.    *)
FreeListsExact ==
  /\ \A b \in FreeBlocks : \E k \in DOMAIN m.freeList[GetListIndex(m.size[b])] :
       m.freeList[GetListIndex(m.size[b])][k] = b
  /\ FoldSet(LAMBDA i, n : n + Len(m.freeList[i]), 0, DOMAIN m.freeList) = Cardinality(FreeBlocks)
  /\ \A c \in DOMAIN m.innerIsFree :
       /\ c \in m.isFree <=> m.innerIsFree[c] # {}
       /\ \A s \in 0 .. 31 : ListOf(c, s) \in DOMAIN m.freeList /\ (c = 0 => s < SmallLists)
             => (s \in m.innerIsFree[c] <=> m.freeList[ListOf(c, s)] # <<>>)

(* m_AllocCount, m_BlocksFreeCount and m_BlocksFreeSize are what a walk    *)
(* over the blocks would count (Validate), and the allocations counted are *)
(* the callers': the handle one holds names a taken block of the size it   *)
(* asked for, whatever is allocated and freed around it.                   *)
CountersExact ==
  /\ m.blocksFreeCount = Cardinality(FreeBlocks)
  /\ m.blocksFreeSize = FoldSet(LAMBDA b, n : n + m.size[b], 0, FreeBlocks)
  /\ m.allocCount = Cardinality(DOMAIN live)
  /\ \A o \in DOMAIN live : o \in m.taken /\ m.size[o] = live[o].size

(* Without a margin, freeing leaves no two free blocks side by side: the   *)
(* branch of Alloc that grows a free prevBlock is never needed, and a heap *)
(* whose allocations are all freed is seen to be empty and released        *)
(* (BlockVector::Free; ~NormalBlock asserts it).                           *)
Coalesced ==
  /\ \A b \in Blocks(m) \ {m.null} :
       ~ (IsFree(m, b) /\ IsFree(m, NextPhysical(m, b)))
  /\ DOMAIN live = {} => IsEmpty(m)

(* A request fails only if no free block can hold it: the search by size   *)
(* class skips no list that matters, for any strategy.                     *)
RequestComplete ==
  \A n \in AllocSizes, a \in Alignments, s \in Strategies :
    FindBlock(m, n, a, s) = NoBlock =>
      \A b \in FreeBlocks \cup {m.null} : ~ Fits(m, b, n + DebugMargin, a)
=============================================================================

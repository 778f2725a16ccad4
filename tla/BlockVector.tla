----------------------------- MODULE BlockVector -----------------------------
(***************************************************************************)
(* BlockVector (rhi_allocator.cpp): the ordered vector of heaps behind one *)
(* pool.  AllocatePage searches the blocks in order and creates one more   *)
(* heap when none has room; Free gives the memory back and decides, with   *)
(* the hysteresis flag m_HasEmptyBlock, which empty heap to let go.        *)
(*                                                                         *)
(* Both run under m_Mutex and are one action each; what they do outside it *)
(* is not: the budget is read before the lock (any value may come back)    *)
(* and a heap that left the vector is destroyed after it (doomed).         *)
(*                                                                         *)
(* A block's metadata is abstracted to the set of allocations placed in it *)
(* (Heap): whether a request finds a hole in a block that is neither empty *)
(* nor too full depends on offsets, so either answer is possible.          *)
(***************************************************************************)
EXTENDS Integers, SequencesExt, FiniteSetsExt

CONSTANTS
  BlockIds,              \* heaps that may exist at once
  Allocations,           \* allocations that may be live at once
  Sizes,                 \* sizes requested
  PreferredBlockSize,    \* m_PreferredBlockSize
  MinBlockCount, MaxBlockCount,
  ExplicitBlockSize,     \* m_ExplicitBlockSize
  DebugMargin,           \* D3D12MA_DEBUG_MARGIN
  FreeMemory             \* budget.budgetBytes - budget.usageBytes, as read

ASSUME BlockVectorAssumption ==
  /\ IsFiniteSet(BlockIds)
  /\ Sizes \subseteq Nat \ {0}
  /\ FreeMemory \subseteq Nat
  /\ PreferredBlockSize \in Nat \ {0}
  /\ DebugMargin \in Nat
  /\ MinBlockCount \in Nat
  /\ MaxBlockCount \in Nat
  /\ MinBlockCount <= MaxBlockCount
  /\ ExplicitBlockSize \in BOOLEAN

VARIABLES
  blocks,           \* m_Blocks
  blockSize,        \* [heap -> its size], for every heap that exists
  placed,           \* [live allocation -> [block, size]]
  hasEmptyBlock,    \* m_HasEmptyBlock
  incrementalSort,  \* m_IncrementalSort
  doomed            \* heaps removed from m_Blocks and not yet destroyed

vars == <<blocks, blockSize, placed, hasEmptyBlock, incrementalSort, doomed>>

NEW_BLOCK_SIZE_SHIFT_MAX == 3

InVector == Range(blocks)
AllocationsIn(b) == {a \in DOMAIN placed : placed[a].block = b}
IsEmpty(b) == AllocationsIn(b) = {}
EmptyBlocks == {b \in InVector : IsEmpty(b)}

SumFreeSize(b) ==
  blockSize[b] - MapThenSumSet(LAMBDA a : placed[a].size, AllocationsIn(b))

(* CreateAllocationRequest on block b certainly succeeds, may succeed. *)
MustFit(b, n) == IsEmpty(b) /\ n + DebugMargin <= blockSize[b]

CanFit(b, n) == n + DebugMargin <= SumFreeSize(b)
-----------------------------------------------------------------------------
(* IncrementallySortBlocks on the vector s: one step of a bubble sort, the *)
(* first pair out of order is swapped.  free is the free size per block.   *)
SortedStep(s, free) ==
  LET unordered == {i \in 1 .. Len(s) - 1 : free[s[i]] > free[s[i + 1]]}
      i == Min(unordered)
  IN  IF incrementalSort /\ unordered # {}
        THEN [s EXCEPT ![i] = s[i + 1], ![i + 1] = s[i]]
        ELSE s

(* Every order of the blocks by free size, ascending. *)
FreeSizeOrders ==
  {s \in SetToSeqs(InVector) :
     \A i, j \in DOMAIN s : i < j => SumFreeSize(s[i]) <= SumFreeSize(s[j])}
-----------------------------------------------------------------------------
(* The sizes a new block may get: the preferred size, or its half, quarter *)
(* and eighth: first by the heuristic for small vectors, then because a    *)
(* larger heap could not be created.                                       *)
ShiftedSize(k) == PreferredBlockSize \div 2^k

MaxBlockSize == Max({0} \cup {blockSize[b] : b \in InVector})

FirstShift(n) ==
  Max({k \in 0 .. NEW_BLOCK_SIZE_SHIFT_MAX :
         \A i \in 1 .. k : ShiftedSize(i) > MaxBlockSize /\ ShiftedSize(i) >= 2 * n})

(* Fault: the retries go one size too far. *)
NewBlockSizes_TooSmall(n) ==
  IF ExplicitBlockSize
    THEN {PreferredBlockSize}
    ELSE {ShiftedSize(k) : k \in FirstShift(n) .. NEW_BLOCK_SIZE_SHIFT_MAX}

NewBlockSizes(n) ==
  IF ExplicitBlockSize
    THEN {PreferredBlockSize}
    ELSE {ShiftedSize(k) : k \in {j \in FirstShift(n) .. NEW_BLOCK_SIZE_SHIFT_MAX :
                                    j = FirstShift(n) \/ ShiftedSize(j) >= n}}
-----------------------------------------------------------------------------
(* CreateMinBlocks has run. *)
Init ==
  /\ \E S \in kSubset(MinBlockCount, BlockIds) : blocks \in SetToSeqs(S)
  /\ blockSize = [b \in InVector |-> PreferredBlockSize]
  /\ placed = [a \in {} |-> 0]
  /\ hasEmptyBlock = FALSE
  /\ incrementalSort = TRUE
  /\ doomed = {}

(* CommitAllocationRequest: n bytes of block b become allocation a. *)
Place(a, b, n) ==
  placed' = [x \in DOMAIN placed \cup {a} |->
               IF x = a THEN [block |-> b, size |-> n] ELSE placed[x]]

Reject(n) == n + DebugMargin > PreferredBlockSize

(* AllocatePage finds room in an existing block, the first that has a hole.*)
AllocateFromBlock(a, n) ==
  /\ ~ Reject(n)
  /\ \E i \in DOMAIN blocks :
       /\ CanFit(blocks[i], n)
       /\ \A j \in 1 .. i - 1 : ~ MustFit(blocks[j], n)
       /\ Place(a, blocks[i], n)
       /\ hasEmptyBlock' = (hasEmptyBlock /\ ~ IsEmpty(blocks[i]))
  /\ UNCHANGED <<blocks, blockSize, incrementalSort, doomed>>

CanCreateNewBlock(n, neverAllocate, canExceedFreeMemory, freeMemory) ==
  /\ ~ neverAllocate
  /\ Len(blocks) < MaxBlockCount
  /\ freeMemory >= n \/ canExceedFreeMemory

(* AllocatePage found no room and creates a block.  Any of the larger      *)
(* heaps tried first may have failed on the device.                        *)
AllocateInNewBlock(a, n, neverAllocate, canExceedFreeMemory, freeMemory) ==
  /\ ~ Reject(n)
  /\ \A i \in DOMAIN blocks : ~ MustFit(blocks[i], n)
  /\ CanCreateNewBlock(n, neverAllocate, canExceedFreeMemory, freeMemory)
  /\ \E size \in NewBlockSizes(n), b \in BlockIds \ DOMAIN blockSize :
       /\ size <= freeMemory \/ canExceedFreeMemory
       /\ blocks' = Append(blocks, b)
       /\ blockSize' = [c \in DOMAIN blockSize \cup {b} |->
                          IF c = b THEN size ELSE blockSize[c]]
       /\ IF n + DebugMargin <= size
            THEN Place(a, b, n) /\ hasEmptyBlock' = FALSE
            ELSE UNCHANGED <<placed, hasEmptyBlock>>
  /\ UNCHANGED <<incrementalSort, doomed>>

(* Which heap Free lets go once block b lost an allocation, the set of at  *)
(* most one.  emptied: b became empty; last: the last block, if empty.     *)
(* Fault: the last block is let go without looking whether it is empty.    *)
Retired_LastUnchecked(b, emptied, budgetExceeded) ==
  IF Len(blocks) <= MinBlockCount THEN {}
  ELSE IF emptied THEN IF hasEmptyBlock \/ budgetExceeded THEN {b} ELSE {}
  ELSE IF hasEmptyBlock THEN {Last(blocks)} ELSE {}

Retired(b, emptied, budgetExceeded) ==
  IF Len(blocks) <= MinBlockCount THEN {}
  ELSE IF emptied THEN IF hasEmptyBlock \/ budgetExceeded THEN {b} ELSE {}
  ELSE {c \in {Last(blocks)} : hasEmptyBlock /\ IsEmpty(c)}

(* Fault: letting the last empty block go leaves the flag set. *)
FlagAfterFree_KeepsFlag(emptied, retired) ==
  hasEmptyBlock \/ (emptied /\ retired = {})

FlagAfterFree(emptied, retired) ==
  IF emptied THEN hasEmptyBlock \/ retired = {}
             ELSE hasEmptyBlock /\ retired = {}

Free(a, budgetExceeded) ==
  /\ a \in DOMAIN placed
  /\ LET b == placed[a].block
         emptied == AllocationsIn(b) = {a}
         retired == Retired(b, emptied, budgetExceeded)
         free == [c \in InVector |->
                    SumFreeSize(c) + IF c = b THEN placed[a].size ELSE 0]
         kept == IF retired = {} THEN blocks
                 ELSE RemoveFirst(blocks, CHOOSE c \in retired : TRUE)
     IN  /\ blocks' = SortedStep(kept, free)
         /\ hasEmptyBlock' = FlagAfterFree(emptied, retired)
         /\ doomed' = doomed \cup retired
  /\ placed' = [x \in DOMAIN placed \ {a} |-> placed[x]]
  /\ UNCHANGED <<blockSize, incrementalSort>>

(* The rest of Free, outside the lock: the heap is destroyed. *)
DestroyBlock(b) ==
  /\ b \in doomed
  /\ doomed' = doomed \ {b}
  /\ blockSize' = [c \in DOMAIN blockSize \ {b} |-> blockSize[c]]
  /\ UNCHANGED <<blocks, placed, hasEmptyBlock, incrementalSort>>

(* A defragmentation context orders the blocks once and suspends the       *)
(* incremental sort for as long as it lives.                               *)
BeginDefragmentation ==
  /\ incrementalSort' = FALSE
  /\ blocks' \in FreeSizeOrders
  /\ UNCHANGED <<blockSize, placed, hasEmptyBlock, doomed>>

EndDefragmentation ==
  /\ incrementalSort' = TRUE
  /\ UNCHANGED <<blocks, blockSize, placed, hasEmptyBlock, doomed>>

Next ==
  \/ \E a \in Allocations \ DOMAIN placed, n \in Sizes :
       \/ AllocateFromBlock(a, n)
       \/ \E neverAllocate, canExceedFreeMemory \in BOOLEAN, f \in FreeMemory :
            AllocateInNewBlock(a, n, neverAllocate, canExceedFreeMemory, f)
  \/ \E a \in Allocations, budgetExceeded \in BOOLEAN : Free(a, budgetExceeded)
  \/ \E b \in BlockIds : DestroyBlock(b)
  \/ BeginDefragmentation
  \/ EndDefragmentation

Spec == Init /\ [][Next]_vars
-----------------------------------------------------------------------------
TypeOK ==
  /\ blocks \in Seq(BlockIds)
  /\ \A i, j \in DOMAIN blocks : i # j => blocks[i] # blocks[j]
  /\ DOMAIN blockSize = InVector \cup doomed
  /\ DOMAIN placed \subseteq Allocations
  /\ \A a \in DOMAIN placed : placed[a].size \in Sizes
  /\ hasEmptyBlock \in BOOLEAN
  /\ incrementalSort \in BOOLEAN

(* "THE MOST IMPORTANT ASSERT IN THE ENTIRE LIBRARY": a heap is destroyed  *)
(* only when nothing is placed in it, although it is destroyed after the   *)
(* lock is released and other threads allocate in between.                 *)
DestroyedWhenEmpty ==
  \A a \in DOMAIN placed : placed[a].block \in InVector \ doomed

(* When m_HasEmptyBlock is set there is an empty block: Free may give one  *)
(* away without leaving the vector with none in reserve.                   *)
EmptyFlagHonest == hasEmptyBlock => EmptyBlocks # {}

(* The vector never shrinks below MinBlockCount nor grows past             *)
(* MaxBlockCount.                                                          *)
CountWithinLimits ==
  MinBlockCount <= Len(blocks) /\ Len(blocks) <= MaxBlockCount

(* "There can be at most one allocation that is completely empty": besides *)
(* the blocks that MinBlockCount reserves, at most one heap is retained    *)
(* empty.                                                                  *)
AtMostOneEmpty == Cardinality(EmptyBlocks) <= Max({1, MinBlockCount})

(* What is placed in a block fits in it. *)
BlocksNotOverfull == \A b \in InVector : SumFreeSize(b) >= 0

(* A heap is never created in vain: the smaller sizes tried when a larger  *)
(* heap cannot be had still hold the allocation the block is created for   *)
(* (without a debug margin).                                               *)
NoHeapInVain ==
  [][DOMAIN blockSize' \ DOMAIN blockSize # {}
       => DOMAIN placed' \ DOMAIN placed # {}]_vars

Symmetry == Permutations(BlockIds) \cup Permutations(Allocations)
=============================================================================

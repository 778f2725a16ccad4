------------------------------- MODULE Defrag -------------------------------
(***************************************************************************)
(* DefragmentationContextPimpl (rhi_allocator.cpp) on the block vector of  *)
(* one pool, while other threads allocate and free.                        *)
(*                                                                         *)
(* A pass begins under the vector's lock: allocations of the last blocks   *)
(* are given a second place, a temporary allocation, further forward.  The *)
(* user copies what is in them, and the end of the pass, move by move and  *)
(* without the lock between, lets the allocation and its temporary change  *)
(* places and frees the temporary, or gives up the move, or both.          *)
(*                                                                         *)
(* Meanwhile the user does not free an allocation that is being moved.     *)
(* Offsets are not modelled (BlockVector), so whether an allocation finds  *)
(* a lower place in its own block is open; the balanced algorithm, which   *)
(* tries less often, then does nothing that the full one does not.  The    *)
(* counts of heaps and bytes freed are left out.                           *)
(***************************************************************************)
EXTENDS BlockVector

CONSTANTS
  Temps,               \* temporary allocations
  Algorithm,           \* "fast", "balanced" or "full"
  MaxPassBytes, MaxPassAllocations,
  MaxAllocsToIgnore,   \* MAX_ALLOCS_TO_IGNORE
  IgnoredBits          \* width of m_IgnoredAllocs

ASSUME DefragAssumption ==
  /\ Temps \subseteq Allocations /\ IsFiniteSet(Temps)
  /\ MaxPassAllocations \in Nat \ {0} /\ Cardinality(Temps) >= MaxPassAllocations
  /\ MaxPassBytes \in Nat \ {0}
  /\ MaxAllocsToIgnore \in Nat /\ IgnoredBits \in Nat
  /\ 2^IgnoredBits \in Nat \ {0}   \* for the provers, which know no powers

VARIABLE ctx   \* the context, see NewContext

allVars == <<vars, ctx>>

NoContext == [step |-> "none"]

(* moves: [src, dst]; allocationsMoved and bytesMoved as in m_PassStats;   *)
(* at, todo: the block PassBegin has come to, and what is left of it.      *)
(* Only for the properties: skipped, what this pass has ignored; ended,    *)
(* whether too many were.                                                  *)
NewContext ==
  [step |-> "idle", moves |-> <<>>, ignored |-> 0, immovable |-> 0, immovableBlocks |-> <<>>,
   allocationsMoved |-> 0, bytesMoved |-> 0, at |-> 0, todo |-> {},
   skipped |-> 0, ended |-> FALSE]

Step(s) == ctx.step = s
Locked == Step("computing")
Sources == IF Step("none") THEN {} ELSE {ctx.moves[i].src : i \in DOMAIN ctx.moves}

DefragInit == Init /\ ctx = NoContext
-----------------------------------------------------------------------------
(* Fault: the incremental sort goes on while the context lives. *)
Begin_KeepsSort ==
  /\ Step("none") /\ ctx' = NewContext
  /\ blocks' \in FreeSizeOrders
  /\ UNCHANGED <<blockSize, placed, hasEmptyBlock, incrementalSort, doomed>>

Begin == Step("none") /\ BeginDefragmentation /\ ctx' = NewContext

End == Step("idle") /\ EndDefragmentation /\ ctx' = NoContext
-----------------------------------------------------------------------------
(* DefragmentPassBegin *)

(* The allocations of a block, without those the pass has put there.       *)
Movable(b) == AllocationsIn(b) \ Temps

(* The pass turns to block i, or is over. *)
Turned(c, i) ==
  IF i <= c.immovable + 1 THEN [c EXCEPT !.step = "begun", !.at = 0, !.todo = {}]
  ELSE [c EXCEPT !.at = i, !.todo = Movable(blocks[i])]

(* A vector of one block is only moved within it.                          *)
PassBegin ==
  /\ Step("idle")
  /\ LET c == [ctx EXCEPT !.step = "computing", !.skipped = 0, !.ended = FALSE]
     IN ctx' = IF Len(blocks) = 1
               THEN [c EXCEPT !.at = 1, !.todo = Movable(blocks[1])]
               ELSE Turned(c, Len(blocks))
  /\ UNCHANGED vars

NextBlock ==
  /\ Locked /\ ctx.todo = {}
  /\ ctx' = Turned(ctx, ctx.at - 1)
  /\ UNCHANGED vars

(* CheckCounters *)
Exceeds(n) == ctx.bytesMoved + n > MaxPassBytes

(* ++m_IgnoredAllocs *)
Counted(n) == (n + 1) % 2^IgnoredBits

(* The allocation is too large for what is left of the pass, and ignored;  *)
(* too many of them end the pass.                                          *)
Ignore(a) ==
  /\ Locked /\ a \in ctx.todo /\ Exceeds(placed[a].size)
  /\ LET ignored == Counted(ctx.ignored)
         c == [ctx EXCEPT !.ignored = ignored, !.skipped = @ + 1, !.todo = @ \ {a}]
     IN ctx' = IF ignored < MaxAllocsToIgnore THEN c
               ELSE [c EXCEPT !.step = "begun", !.at = 0, !.todo = {}, !.ended = TRUE]
  /\ UNCHANGED vars

(* IncrementCounters: the pass ends when it has reached a limit. *)
Moved(a, t) ==
  LET n == placed[a].size
      c == [ctx EXCEPT !.moves = Append(@, [src |-> a, dst |-> t]), !.todo = @ \ {a},
                       !.allocationsMoved = @ + 1, !.bytesMoved = @ + n]
  IN IF c.allocationsMoved >= MaxPassAllocations \/ c.bytesMoved >= MaxPassBytes
     THEN [c EXCEPT !.step = "begun", !.at = 0, !.todo = {}] ELSE c

Considered(a) == Locked /\ a \in ctx.todo /\ ~ Exceeds(placed[a].size)

(* Blocks before the at-th that may, and that must, have room.             *)
Room(n) == {j \in 1 .. ctx.at - 1 : CanFit(blocks[j], n)}
SureRoom(n) == {j \in 1 .. ctx.at - 1 : MustFit(blocks[j], n)}

(* AllocInOtherBlock: the first block further forward that has room.       *)
MoveForward(a, t) ==
  /\ Considered(a)
  /\ Len(blocks) > 1
  /\ LET n == placed[a].size
     IN \E j \in Room(n) :
          /\ \A k \in SureRoom(n) : j <= k
          /\ Place(t, blocks[j], n)
          /\ hasEmptyBlock' = (hasEmptyBlock /\ ~ IsEmpty(blocks[j]))
  /\ ctx' = Moved(a, t)
  /\ UNCHANGED <<blocks, blockSize, incrementalSort, doomed>>

Within(a, t) ==
  /\ LET b == blocks[ctx.at]
     IN CanFit(b, placed[a].size) /\ Place(t, b, placed[a].size)
  /\ ctx' = Moved(a, t)
  /\ UNCHANGED <<blocks, blockSize, hasEmptyBlock, incrementalSort, doomed>>

(* A lower offset in the only block there is. *)
ReallocWithinBlock(a, t) == Considered(a) /\ Len(blocks) = 1 /\ Within(a, t)

(* ... or in its own, when no other block had room.                        *)
MoveWithin(a, t) ==
  /\ Considered(a) /\ Len(blocks) > 1 /\ Algorithm # "fast"
  /\ SureRoom(placed[a].size) = {}
  /\ Within(a, t)

NoMove(a) ==
  /\ Considered(a)
  /\ SureRoom(placed[a].size) = {}
  /\ ctx' = [ctx EXCEPT !.todo = @ \ {a}]
  /\ UNCHANGED vars

(* There is nothing to move, and EndPass is not called.                    *)
NothingToMove ==
  /\ Step("begun") /\ ctx.moves = <<>>
  /\ ctx' = [ctx EXCEPT !.step = "idle"]
  /\ UNCHANGED vars
-----------------------------------------------------------------------------
(* DefragmentPassEnd, for the first move left. *)
Move == Head(ctx.moves)
Pop(c) == [c EXCEPT !.moves = Tail(@)]

(* SwapBlockAllocation *)
Swapped(a, t) == [placed EXCEPT ![a].block = placed[t].block, ![t].block = placed[a].block]

Copy ==
  /\ Step("begun") /\ ctx.moves # <<>>
  /\ placed' = Swapped(Move.src, Move.dst)
  /\ ctx' = [ctx EXCEPT !.step = "release"]
  /\ UNCHANGED <<blocks, blockSize, hasEmptyBlock, incrementalSort, doomed>>

(* Fault: the bytes of a move given up stay counted. *)
Uncounted_KeepsBytes(c) == [c EXCEPT !.allocationsMoved = @ - 1]

(* m_PassStats forgets a move given up. *)
Uncounted(c) ==
  [c EXCEPT !.allocationsMoved = @ - 1, !.bytesMoved = @ - placed[Move.src].size]

(* The block of an allocation that cannot be moved is immovable.           *)
GiveUp ==
  /\ Step("begun") /\ ctx.moves # <<>>
  /\ LET b == placed[Move.src].block
     IN ctx' = [Uncounted(ctx) EXCEPT
                  !.step = "release",
                  !.immovableBlocks = IF b \in Range(@) THEN @ ELSE Append(@, b)]
  /\ UNCHANGED vars

(* The user wants the allocation no longer: both go, the source first.     *)
Destroy(budgetExceeded) ==
  /\ Step("begun") /\ ctx.moves # <<>>
  /\ Free(Move.src, budgetExceeded)
  /\ ctx' = [Uncounted(ctx) EXCEPT !.step = "release"]

(* Fault: the temporary of a move given up stays. *)
Release_Forgotten(budgetExceeded) ==
  /\ Step("release")
  /\ UNCHANGED vars
  /\ ctx' = [Pop(ctx) EXCEPT !.step = IF Len(ctx.moves) = 1 THEN "ended" ELSE "begun"]

(* The temporary is freed. *)
Release(budgetExceeded) ==
  /\ Step("release")
  /\ Free(Move.dst, budgetExceeded)
  /\ ctx' = [Pop(ctx) EXCEPT !.step = IF Len(ctx.moves) = 1 THEN "ended" ELSE "begun"]

(* The statistics of the pass are added up and reset; immovable blocks go  *)
(* to the front, behind those that went there before.                      *)
PassEnd ==
  /\ Step("ended")
  /\ IF ctx.immovableBlocks = <<>>
     THEN /\ ctx' = [ctx EXCEPT !.step = "idle", !.allocationsMoved = 0, !.bytesMoved = 0]
          /\ UNCHANGED blocks
     ELSE LET b == Head(ctx.immovableBlocks)
              front == ctx.immovable + 1
              found == {i \in front .. Len(blocks) : blocks[i] = b}
              i == Min(found)
              rest == [ctx EXCEPT !.immovableBlocks = Tail(@)]
          IN IF found = {} THEN ctx' = rest /\ UNCHANGED blocks
             ELSE /\ blocks' = [blocks EXCEPT ![i] = blocks[front], ![front] = b]
                  /\ ctx' = [rest EXCEPT !.immovable = front]
  /\ UNCHANGED <<blockSize, placed, hasEmptyBlock, incrementalSort, doomed>>
-----------------------------------------------------------------------------
(* What other threads do, outside PassBegin. *)
Others ==
  /\ ~ Locked
  /\ \/ \E a \in Allocations \ (Temps \cup DOMAIN placed), n \in Sizes :
          \/ AllocateFromBlock(a, n)
          \/ \E neverAllocate, canExceedFreeMemory \in BOOLEAN, f \in FreeMemory :
               AllocateInNewBlock(a, n, neverAllocate, canExceedFreeMemory, f)
     \/ \E a \in Allocations \ (Temps \cup Sources), budgetExceeded \in BOOLEAN :
          Free(a, budgetExceeded)
  /\ UNCHANGED ctx

DefragNext ==
  \/ Begin \/ End
  \/ PassBegin \/ NextBlock \/ NothingToMove \/ Copy \/ GiveUp \/ PassEnd
  \/ \E a \in Allocations \ Temps : Ignore(a) \/ NoMove(a)
  \/ \E a \in Allocations \ Temps, t \in Temps \ DOMAIN placed :
       MoveForward(a, t) \/ ReallocWithinBlock(a, t) \/ MoveWithin(a, t)
  \/ \E budgetExceeded \in BOOLEAN : Destroy(budgetExceeded) \/ Release(budgetExceeded)
  \/ Others
  \/ \E b \in BlockIds : DestroyBlock(b) /\ UNCHANGED ctx

DefragSpec == DefragInit /\ [][DefragNext]_allVars

DefragSymmetry ==
  Permutations(BlockIds) \cup Permutations(Allocations \ Temps) \cup Permutations(Temps)
-----------------------------------------------------------------------------
(* Types of the variables; TempsAccounted includes them.                 *)
DefragTypeOK ==
  /\ TypeOK
  /\ ctx.step \in {"none", "idle", "computing", "begun", "release", "ended"}
  /\ ~ Step("none") =>
       /\ \A i \in DOMAIN ctx.moves : ctx.moves[i] \in [src : Allocations \ Temps, dst : Temps]
       /\ ctx.ignored \in 0 .. 2^IgnoredBits - 1
       /\ ctx.todo \subseteq Allocations \ Temps

MovedSizes == MapThenSumSet(LAMBDA a : placed[a].size, Sources)

(* A pass keeps to its limits ("Exceeded maximal pass threshold!") and its *)
(* counters, which are unsigned, to the moves: what is given up is         *)
(* subtracted, however the user answers.                                   *)
PassWithinLimits ==
  ~ Step("none") =>
    /\ ctx.allocationsMoved \in 0 .. MaxPassAllocations
    /\ ctx.bytesMoved \in 0 .. MaxPassBytes
    /\ Step("begun") /\ ctx.allocationsMoved = Len(ctx.moves) => ctx.bytesMoved = MovedSizes
    /\ ctx.allocationsMoved = 0 => ctx.bytesMoved = 0

(* No temporary outlives its pass, and while it lives it is the second     *)
(* place of one allocation, of the same size.                              *)
TempsAccounted ==
  LET temps == DOMAIN placed \cap Temps
  IN IF Step("none") THEN TypeOK /\ temps = {}
     ELSE /\ DefragTypeOK
          /\ temps = {ctx.moves[i].dst : i \in DOMAIN ctx.moves}
          /\ Cardinality(temps) = Len(ctx.moves)
          /\ \A i \in DOMAIN ctx.moves :
               \/ i = 1 /\ Step("release")
               \/ /\ ctx.moves[i].src \in DOMAIN placed
                  /\ placed[ctx.moves[i].src].size = placed[ctx.moves[i].dst].size

Position(b) == CHOOSE i \in DOMAIN blocks : blocks[i] = b

(* What is left to move goes towards the front, whatever other threads do  *)
(* to the vector between the beginning and the end of the pass: or passes  *)
(* could go on for ever.                                                   *)
MovesForward ==
  Step("begun") =>
    \A i \in DOMAIN ctx.moves :
      Position(placed[ctx.moves[i].dst].block) <= Position(placed[ctx.moves[i].src].block)

(* "Max number of allocations to ignore due to size constraints before     *)
(* ending single pass": no pass ends for the allocations that earlier      *)
(* passes ignored.                                                         *)
IgnoredPerPass == ~ Step("none") /\ ctx.ended => ctx.skipped >= MaxAllocsToIgnore
=============================================================================

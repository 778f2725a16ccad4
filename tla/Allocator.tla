------------------------------ MODULE Allocator ------------------------------
(***************************************************************************)
(* AllocatorPimpl (rhi_allocator.cpp): how one call to CreateResource or   *)
(* AllocateMemory tries committed memory and the block vector in turn,     *)
(* what a failing device leaves behind, and how the budget's counters      *)
(* follow, with several threads calling at once.                           *)
(*                                                                         *)
(* Every thread owns one AllocationPtr, out[t]: the calls write it through *)
(* Put() and Reset releases it.  Put() resets first, so a call starts from *)
(* an empty pointer.                                                       *)
(*                                                                         *)
(* The counters of CurrentBudgetData are atomic and under no lock: an      *)
(* operation lists the updates it makes, in its order, and they happen one *)
(* at a time.  The blocks are those of BlockVector, all of the preferred   *)
(* size; which one is taken, and whether an emptied one is destroyed, is   *)
(* that module's business and any choice here.                             *)
(***************************************************************************)
EXTENDS Integers, Sequences, FiniteSets, FiniteSetsExt

CONSTANTS
  Threads,
  Objects,              \* Allocation objects that may exist at once
  BlockIds,             \* heaps of the block vector that may exist at once
  PreferredBlockSize,
  MaxBlockCount,
  Requests,             \* the calls made, see RequestType
  NoObject, NoThread    \* nullptr, and nobody

ASSUME AllocatorAssumption ==
  /\ PreferredBlockSize \in Nat \ {0}
  /\ MaxBlockCount \in Nat
  /\ NoObject \notin Objects \cup BlockIds
  /\ NoThread \notin Threads
  /\ IsFiniteSet(Threads) /\ IsFiniteSet(Objects) /\ IsFiniteSet(BlockIds)

VARIABLES
  call,       \* [thread -> what it is doing, see Idle]
  out,        \* [thread -> *ppAllocation, the caller's AllocationPtr]
  object,     \* [existing Allocation -> [type, size, block]]
  registered, \* objects in a CommittedAllocationList
  blocks,     \* m_Blocks of the block vector
  lock,       \* who holds the block vector's m_Mutex
  counting,   \* [thread -> budget updates it still has to make]
  budget      \* m_BlockBytes and m_AllocationBytes

vars == <<call, out, object, registered, blocks, lock, counting, budget>>

RequestType ==
  [kind : {"resource", "memory"}, size : Nat \ {0},
   pool : {"default", "custom", "explicit"},  \* explicit: with a block size
   committed : BOOLEAN,      \* the flag, or a multisampled texture
   neverAllocate : BOOLEAN, canAlias : BOOLEAN,
   smallBuffer : BOOLEAN]    \* PrefersCommittedAllocation

ASSUME RequestsAssumption == Requests \subseteq RequestType

Idle == [step |-> "idle"]
-----------------------------------------------------------------------------
(* CalcAllocationParams: which kinds of memory the request may use, and    *)
(* CreateResource's or AllocateMemory's order of trying them.              *)
UsesBlockVector(r) ==
  ~ r.committed /\ (r.pool # "default" \/ r.size <= PreferredBlockSize)

PrefersCommitted(r) ==
  \/ r.smallBuffer
  \/ r.pool = "default" /\ r.size > PreferredBlockSize \div 2

(* Fault: NeverAllocate is left to the block vector. *)
UsesCommitted_Always(r) == r.pool # "explicit"

UsesCommitted(r) == r.pool # "explicit" /\ ~ r.neverAllocate

(* Fault: preferred committed memory is tried again after the block vector.*)
Attempts_TriesAgain(r) ==
  LET committed == IF UsesCommitted(r) THEN <<"committed">> ELSE <<>>
      placed == IF UsesBlockVector(r) THEN <<"placed">> ELSE <<>>
  IN (IF PrefersCommitted(r) THEN committed ELSE <<>>) \o placed \o committed

Attempts(r) ==
  LET committed == IF UsesCommitted(r) THEN <<"committed">> ELSE <<>>
      placed == IF UsesBlockVector(r) THEN <<"placed">> ELSE <<>>
  IN IF PrefersCommitted(r) THEN committed \o placed ELSE placed \o committed

-----------------------------------------------------------------------------
(* CurrentBudgetData *)
AddBlock(n) == [counter |-> "blockBytes", delta |-> n]
RemoveBlock(n) == [counter |-> "blockBytes", delta |-> - n]
AddAllocation(n) == [counter |-> "allocationBytes", delta |-> n]
RemoveAllocation(n) == [counter |-> "allocationBytes", delta |-> - n]

(* Fault: the allocation is counted before its heap. *)
CountCommitted_AllocationFirst(n) == <<AddAllocation(n), AddBlock(n)>>

(* The heap of a committed allocation is the allocation's own. *)
CountCommitted(n) == <<AddBlock(n), AddAllocation(n)>>

UncountCommitted(n) == <<RemoveAllocation(n), RemoveBlock(n)>>

(* Thread t makes its next update; AllocatePage has made all of its when   *)
(* it gives the lock back.                                                 *)
Count(t) ==
  /\ counting[t] # <<>>
  /\ LET update == Head(counting[t])
     IN budget' = [budget EXCEPT ![update.counter] = @ + update.delta]
  /\ counting' = [counting EXCEPT ![t] = Tail(@)]
  /\ lock' = IF lock = t /\ Tail(counting[t]) = <<>> THEN NoThread ELSE lock
  /\ UNCHANGED <<call, out, object, registered, blocks>>

At(t, step) == call[t].step = step /\ counting[t] = <<>>
Trying(t, kind) == At(t, "trying") /\ Head(call[t].attempts) = kind

(* The attempt failed: the next one is tried, or the call returns.         *)
AttemptFailed(t) ==
  LET left == call[t].attempts
  IN call' = [call EXCEPT ![t] =
                IF Len(left) = 1 THEN Idle
                ELSE [call[t] EXCEPT !.step = "trying", !.attempts = Tail(left)]]

NewObject(o, t, type, block) ==
  /\ object' = [p \in DOMAIN object \cup {o} |->
                  IF p = o THEN [type |-> type, size |-> call[t].size, block |-> block]
                           ELSE object[p]]
  /\ out' = [out EXCEPT ![t] = o]

(* The memory is there; a resource may still have to be created in it.     *)
MemoryAllocated(t, type) ==
  call' = [call EXCEPT ![t] =
             IF @.kind = "resource" /\ type # "COMMITTED"
               THEN [@ EXCEPT !.step = "creating"] ELSE Idle]
-----------------------------------------------------------------------------
Init ==
  /\ call = [t \in Threads |-> Idle]
  /\ out = [t \in Threads |-> NoObject]
  /\ object = [o \in {} |-> 0]
  /\ registered = {}
  /\ blocks = {}
  /\ lock = NoThread
  /\ counting = [t \in Threads |-> <<>>]
  /\ budget = [blockBytes |-> 0, allocationBytes |-> 0]

(* CreateResource or AllocateMemory up to its first attempt.               *)
Call(t, r) ==
  /\ At(t, "idle") /\ out[t] = NoObject
  /\ Attempts(r) # <<>>
  /\ call' = [call EXCEPT ![t] =
                [step |-> "trying", attempts |-> Attempts(r), kind |-> r.kind,
                 size |-> r.size, neverAllocate |-> r.neverAllocate,
                 canAlias |-> r.canAlias]]
  /\ UNCHANGED <<out, object, registered, blocks, lock, counting, budget>>

(* AllocateHeap for plain or aliasable memory, AllocateCommittedResource   *)
(* otherwise.                                                              *)
CommittedType(t) ==
  IF call[t].kind = "memory" \/ call[t].canAlias THEN "HEAP" ELSE "COMMITTED"

AllocateCommitted(t) ==
  /\ Trying(t, "committed")
  /\ \E o \in Objects \ DOMAIN object : NewObject(o, t, CommittedType(t), NoObject)
  /\ registered' = registered \cup {out'[t]}
  /\ counting' = [counting EXCEPT ![t] = CountCommitted(call[t].size)]
  /\ MemoryAllocated(t, CommittedType(t))
  /\ UNCHANGED <<blocks, lock, budget>>

(* Out of the budget or of memory.  AllocateHeap has cleared the pointer.  *)
AllocateCommittedFails(t) ==
  /\ Trying(t, "committed")
  /\ AttemptFailed(t)
  /\ out' = IF CommittedType(t) = "HEAP" THEN [out EXCEPT ![t] = NoObject] ELSE out
  /\ UNCHANGED <<object, registered, blocks, lock, counting, budget>>

PlacedIn(b) == {o \in DOMAIN object : object[o].type = "PLACED" /\ object[o].block = b}
Used(b) == MapThenSumSet(LAMBDA o : object[o].size, PlacedIn(b))

(* An empty block takes any request up to its size; in another one the     *)
(* free bytes need not be in one piece.                                    *)
MustFindRoom(n) ==
  n <= PreferredBlockSize /\ \E b \in blocks : PlacedIn(b) = {}

(* AllocatePage in a block that has room.                                  *)
AllocateFromBlock(t) ==
  /\ Trying(t, "placed") /\ lock = NoThread
  /\ \E b \in blocks, o \in Objects \ DOMAIN object :
       /\ Used(b) + call[t].size <= PreferredBlockSize
       /\ NewObject(o, t, "PLACED", b)
  /\ counting' = [counting EXCEPT ![t] = <<AddAllocation(call[t].size)>>]
  /\ lock' = t
  /\ MemoryAllocated(t, "PLACED")
  /\ UNCHANGED <<registered, blocks, budget>>

(* AllocatePage in a new block.                                            *)
AllocateInNewBlock(t) ==
  /\ Trying(t, "placed") /\ lock = NoThread
  /\ call[t].size <= PreferredBlockSize /\ ~ MustFindRoom(call[t].size)
  /\ ~ call[t].neverAllocate
  /\ Cardinality(blocks) < MaxBlockCount
  /\ \E b \in BlockIds \ (blocks \cup {object[o].block : o \in DOMAIN object}),
        o \in Objects \ DOMAIN object :
       blocks' = blocks \cup {b} /\ NewObject(o, t, "PLACED", b)
  /\ counting' = [counting EXCEPT ![t] =
                    <<AddBlock(PreferredBlockSize), AddAllocation(call[t].size)>>]
  /\ lock' = t
  /\ MemoryAllocated(t, "PLACED")
  /\ UNCHANGED <<registered, budget>>

(* AllocatePage finds no room and can create no block: BlockVector::       *)
(* Allocate clears the pointer.                                            *)
AllocatePageFails(t) ==
  /\ Trying(t, "placed") /\ lock = NoThread
  /\ ~ MustFindRoom(call[t].size)
  /\ AttemptFailed(t)
  /\ out' = [out EXCEPT ![t] = NoObject]
  /\ UNCHANGED <<object, registered, blocks, lock, counting, budget>>

(* CreatePlacedResource in the block, or in the aliasable heap.            *)
CreatePlacedResource(t) ==
  /\ At(t, "creating")
  /\ call' = [call EXCEPT ![t] = Idle]
  /\ UNCHANGED <<out, object, registered, blocks, lock, counting, budget>>

(* The device fails.  AllocateCommittedResource frees the heap's memory,   *)
(* but not the Allocation object that *ppAllocation points to; the block   *)
(* vector's CreateResource leaves everything in place.                     *)
CreatePlacedResourceFails(t) ==
  /\ At(t, "creating")
  /\ IF object[out[t]].type = "HEAP"
       THEN /\ registered' = registered \ {out[t]}
            /\ counting' = [counting EXCEPT ![t] = UncountCommitted(call[t].size)]
       ELSE UNCHANGED <<registered, counting>>
  /\ AttemptFailed(t)
  /\ UNCHANGED <<out, object, blocks, lock, budget>>

(* AllocationPtr::Reset, down to the deletion of the object: first         *)
(* FreeCommittedMemory or FreeHeapMemory, or the first line of             *)
(* FreePlacedMemory.                                                       *)
Release(t) ==
  /\ At(t, "idle") /\ out[t] # NoObject
  /\ LET o == out[t]
     IN IF object[o].type = "PLACED"
          THEN /\ counting' = [counting EXCEPT ![t] = <<RemoveAllocation(object[o].size)>>]
               /\ call' = [call EXCEPT ![t] = [step |-> "freeing"]]
               /\ UNCHANGED registered
          ELSE /\ registered' = registered \ {o}
               /\ counting' = [counting EXCEPT ![t] = UncountCommitted(object[o].size)]
               /\ call' = [call EXCEPT ![t] = [step |-> "deleting"]]
  /\ UNCHANGED <<out, object, blocks, lock, budget>>

(* Fault: a block that still has allocations may be let go. *)
MayRetire_Used(o, b) == TRUE

(* BlockVector::Free lets an empty block go: o's, or another one that was  *)
(* kept in reserve.                                                        *)
MayRetire(o, b) == PlacedIn(b) \ {o} = {}

(* BlockVector::Free of the placed allocation.  The block that leaves the  *)
(* vector is destroyed, and counted out, after the lock is given back.     *)
FreePlaced(t) ==
  /\ At(t, "freeing") /\ lock = NoThread
  /\ \E retired \in {{}} \cup {{b} : b \in blocks} :
       /\ \A b \in retired : MayRetire(out[t], b)
       /\ blocks' = blocks \ retired
       /\ counting' = [counting EXCEPT ![t] =
                         IF retired = {} THEN <<>> ELSE <<RemoveBlock(PreferredBlockSize)>>]
  /\ object' = [object EXCEPT ![out[t]].block = NoObject]
  /\ call' = [call EXCEPT ![t] = [step |-> "deleting"]]
  /\ UNCHANGED <<out, registered, lock, budget>>

(* The Allocation object is deleted. *)
DeleteObject(t) ==
  /\ At(t, "deleting")
  /\ object' = [o \in DOMAIN object \ {out[t]} |-> object[o]]
  /\ out' = [out EXCEPT ![t] = NoObject]
  /\ call' = [call EXCEPT ![t] = Idle]
  /\ UNCHANGED <<registered, blocks, lock, counting, budget>>

Next ==
  \E t \in Threads :
    \/ Count(t)
    \/ \E r \in Requests : Call(t, r)
    \/ AllocateCommitted(t) \/ AllocateCommittedFails(t)
    \/ AllocateFromBlock(t) \/ AllocateInNewBlock(t) \/ AllocatePageFails(t)
    \/ CreatePlacedResource(t) \/ CreatePlacedResourceFails(t)
    \/ Release(t) \/ FreePlaced(t) \/ DeleteObject(t)

Spec == Init /\ [][Next]_vars
-----------------------------------------------------------------------------
AllIdle == \A t \in Threads : call[t] = Idle /\ counting[t] = <<>>

OwnHeap == {o \in DOMAIN object : object[o].type # "PLACED"}

(* Types of the variables; ReleasedOnce includes them.                   *)
TypeOK ==
  /\ \A t \in Threads :
       \/ call[t] \in [step : {"idle", "freeing", "deleting"}]
       \/ /\ call[t].step \in {"trying", "creating"}
          /\ call[t].attempts \in Seq({"committed", "placed"}) \ {<<>>}
          /\ call[t].size \in Nat
  /\ out \in [Threads -> DOMAIN object \cup {NoObject}]
  /\ DOMAIN object \subseteq Objects
  /\ registered \subseteq OwnHeap
  /\ blocks \subseteq BlockIds
  /\ lock \in Threads \cup {NoThread}

(* No allocation is ever lost: whatever failed on the way, each Allocation *)
(* object is reachable through its caller's pointer and can be released.   *)
NothingLost == \A o \in DOMAIN object : \E t \in Threads : out[t] = o

(* "Some allocations were not freed before destruction of this memory      *)
(* block!": a block is never let go while an allocation is placed in it.   *)
PlacedInLiveBlocks ==
  \A o \in DOMAIN object :
    object[o].type = "PLACED" /\ object[o].block # NoObject
      => object[o].block \in blocks

(* An allocation is released once: what an idle thread's pointer refers to *)
(* has its own heap registered and counted, or its place in a block that   *)
(* is still there.                                                         *)
ReleasedOnce ==
  /\ TypeOK
  /\ PlacedInLiveBlocks
  /\ \A t \in Threads : At(t, "idle") /\ out[t] # NoObject =>
       \/ out[t] \in registered
       \/ object[out[t]].type = "PLACED" /\ object[out[t]].block \in blocks

(* Although nothing locks the two counters together, the bytes counted as  *)
(* allocated never exceed the bytes counted as heaps, in no interleaving   *)
(* of calls: the asserts of RemoveAllocation and RemoveBlock cannot fail.  *)
AllocationsWithinBlocks ==
  0 <= budget.allocationBytes /\ budget.allocationBytes <= budget.blockBytes

(* ... and whenever no call is in progress, they are the bytes of the      *)
(* allocations held and of the heaps there are, whatever failed before.    *)
BudgetExact ==
  /\ AllocationsWithinBlocks
  /\ AllIdle =>
       /\ budget.allocationBytes =
            MapThenSumSet(LAMBDA o : object[o].size, DOMAIN object)
       /\ budget.blockBytes =
            Cardinality(blocks) * PreferredBlockSize
              + MapThenSumSet(LAMBDA o : object[o].size, OwnHeap)

(* A NeverAllocate call creates no heap, in the block vector or of its own.*)
NeverAllocateRespected ==
  [][\A t \in Threads :
       call[t].step = "trying" /\ call[t].neverAllocate /\ call'[t] # call[t]
         => blocks' \subseteq blocks /\ OwnHeap' \subseteq OwnHeap]_vars
=============================================================================

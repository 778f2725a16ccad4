---------------------------- MODULE BlockMetadata ----------------------------
(***************************************************************************)
(* One block's metadata behind the interface BlockMetadata                 *)
(* (rhi_allocator.cpp).  VirtualBlockPimpl's constructor and               *)
(* NormalBlock::Init choose the class by an algorithm flag, once; every    *)
(* later call goes to that class.  Whichever it is, its callers are given  *)
(* the abstract heap of module Heap.                                       *)
(***************************************************************************)
EXTENDS Integers

CONSTANTS
  TlsfSize, LinearSize,   \* bytes of the block, by its algorithm
  IsVirtual, DebugMargin,
  CompactAbove,
  AllocSizes, Alignments

ASSUME SizeAssumption == TlsfSize \in Nat \ {0} /\ LinearSize \in Nat \ {0}
ASSUME MarginAssumption ==
  IsVirtual \in BOOLEAN /\ DebugMargin \in Nat /\ (IsVirtual => DebugMargin = 0)
ASSUME CompactAssumption == CompactAbove \in Nat
ASSUME InputAssumption == AllocSizes \subseteq Nat \ {0} /\ Alignments \subseteq Nat \ {0}

VARIABLES
  algorithm,   \* "TLSF" or "LINEAR"
  m,           \* the fields of BlockMetadata_TLSF, if that is the class
  v,           \* the fields of BlockMetadata_Linear, if that is the class
  live         \* what the callers hold: [offset -> [size, alignment]]

vars == <<algorithm, m, v, live>>

Tlsf == INSTANCE TLSF WITH Size <- TlsfSize
Line == INSTANCE Linear WITH Size <- LinearSize

Init ==
  /\ algorithm \in {"TLSF", "LINEAR"}
  /\ Tlsf!Init
  /\ Line!Init

(* CreateAllocationRequest succeeds and Alloc commits it; only the linear  *)
(* class takes requests from the upper end.                                *)
Allocate(n, a) ==
  /\ \/ /\ algorithm = "TLSF"
        /\ \E s \in Tlsf!Strategies : Tlsf!Allocate(n, a, s)
        /\ UNCHANGED v
     \/ /\ algorithm = "LINEAR"
        /\ Line!AllocateLower(n, a) \/ Line!AllocateUpper(n, a)
        /\ UNCHANGED m
  /\ UNCHANGED algorithm

(* ... or succeeds and its caller drops the request.                       *)
DropRequest(n, a) ==
  /\ algorithm = "TLSF"
  /\ \E s \in Tlsf!Strategies : Tlsf!Probe(n, a, s)
  /\ UNCHANGED <<algorithm, v>>

FreeAllocation(o) ==
  /\ \/ algorithm = "TLSF" /\ Tlsf!FreeAllocation(o) /\ UNCHANGED v
     \/ algorithm = "LINEAR" /\ Line!FreeAllocation(o) /\ UNCHANGED m
  /\ UNCHANGED algorithm

Clear ==
  /\ \/ algorithm = "TLSF" /\ Tlsf!Clear /\ UNCHANGED v
     \/ algorithm = "LINEAR" /\ Line!Clear /\ UNCHANGED m
  /\ UNCHANGED algorithm

Next ==
  \/ \E n \in AllocSizes, a \in Alignments : Allocate(n, a) \/ DropRequest(n, a)
  \/ \E o \in DOMAIN live : FreeAllocation(o)
  \/ Clear

Spec == Init /\ [][Next]_vars
-----------------------------------------------------------------------------
(* BlockMetadata_TLSF::Validate and more: after any mix of allocations,    *)
(* dropped requests, frees and clears the blocks tile the heap, the free   *)
(* lists and both bitmaps name exactly the free blocks, the counters are   *)
(* what a walk would count, and no two free blocks stay side by side.      *)
TlsfValid ==
  algorithm = "TLSF" =>
    /\ Tlsf!TypeOK
    /\ Tlsf!Tiled
    /\ Tlsf!FreeListsExact
    /\ Tlsf!CountersExact
    /\ Tlsf!Coalesced

(* BlockMetadata_Linear::Validate and more: both vectors stay sorted, null *)
(* items are counted exactly, through the change of places of the vectors  *)
(* and compaction, every allocation held is found again by its offset, and *)
(* an empty block is as good as new.                                       *)
LinearValid ==
  algorithm = "LINEAR" =>
    /\ Line!TypeOK
    /\ Line!Sorted
    /\ Line!NullItemsCounted
    /\ Line!AllocationsFound
    /\ Line!ReusableWhenEmpty

(* CreateAllocationRequest of BlockMetadata_TLSF fails only if no free     *)
(* block can hold the request, for any strategy.                           *)
RequestComplete == algorithm = "TLSF" => Tlsf!RequestComplete

(* The heap a client sees, of either algorithm: empty if it is the other.  *)
LiveIf(a) == IF algorithm = a THEN live ELSE [o \in {} |-> 0]
TlsfHeap == INSTANCE Heap WITH Size <- TlsfSize, live <- LiveIf("TLSF")
LinearHeap == INSTANCE Heap WITH Size <- LinearSize, live <- LiveIf("LINEAR")

(* Either class implements the abstract heap: the live allocations stay    *)
(* apart by the margin, inside and aligned, from the request that is       *)
(* granted to the call that frees them.                                    *)
ImplementsHeap == TlsfHeap!Spec /\ LinearHeap!Spec
=============================================================================

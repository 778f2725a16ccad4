-------------------------------- MODULE Heap --------------------------------
(***************************************************************************)
(* What BlockMetadata promises to its callers (class BlockMetadata in      *)
(* rhi_allocator.cpp): the live allocations of one block lie inside it, at *)
(* aligned offsets, at least DebugMargin bytes apart, and exist from the   *)
(* request that is granted to the call that frees them.  TLSF and Linear   *)
(* implement it; how an offset is chosen is theirs.                        *)
(***************************************************************************)
EXTENDS Integers

CONSTANTS Size, DebugMargin, AllocSizes, Alignments

(* What the constants are; a module that instantiates this one assumes it. *)
HeapAssumption == /\ Size \in Nat
                  /\ DebugMargin \in Nat
                  /\ AllocSizes \subseteq Nat \ {0}
                  /\ Alignments \subseteq Nat \ {0}

VARIABLE live   \* [offset -> [size, alignment]]

(* [o, o + n) and, past its end, the margin touch no live allocation. *)
Vacant(o, n) ==
  \A p \in DOMAIN live : \/ o + n + DebugMargin <= p
                         \/ p + live[p].size + DebugMargin <= o

Init == live = [o \in {} |-> 0]

Allocate(o, n, a) ==
  /\ o % a = 0
  /\ o + n + DebugMargin <= Size
  /\ Vacant(o, n)
  /\ live' = [p \in DOMAIN live \cup {o} |->
                IF p = o THEN [size |-> n, alignment |-> a] ELSE live[p]]

FreeAllocation(o) ==
  /\ o \in DOMAIN live
  /\ live' = [p \in DOMAIN live \ {o} |-> live[p]]

Clear == live' = [o \in {} |-> 0]

Next ==
  \/ \E n \in AllocSizes, a \in Alignments :
       \E k \in 0 .. Size \div a : Allocate(k * a, n, a)
  \/ \E o \in DOMAIN live : FreeAllocation(o)
  \/ Clear

Spec == Init /\ [][Next]_live
-----------------------------------------------------------------------------
(* Types of the fields. *)
TypeOK ==
  /\ DOMAIN live \subseteq 0 .. Size
  /\ live \in [DOMAIN live -> [size : AllocSizes, alignment : Alignments]]

(* No byte belongs to two live allocations, and the margin lies between    *)
(* any two of them.                                                        *)
Disjoint ==
  \A o, p \in DOMAIN live : o < p => o + live[o].size + DebugMargin <= p

(* Every live allocation lies inside the block, at an offset its alignment *)
(* allows.                                                                 *)
Inside ==
  \A o \in DOMAIN live : /\ o + live[o].size + DebugMargin <= Size
                         /\ o % live[o].alignment = 0
=============================================================================

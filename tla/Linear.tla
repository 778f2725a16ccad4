------------------------------- MODULE Linear -------------------------------
(***************************************************************************)
(* BlockMetadata_Linear: the metadata of linear pools and linear virtual   *)
(* blocks (rhi_allocator.cpp).  Two vectors of suballocations, used as a   *)
(* stack, as the two parts of a ring buffer, or as the two sides of a      *)
(* double stack.  Freed items stay in the vectors as null items until      *)
(* CleanupAfterFree trims or compacts them.                                *)
(*                                                                         *)
(* The ping-pong index m_1stVectorIndex is abstracted: v.first is always   *)
(* the vector called 1st, v.second the one called 2nd.                     *)
(***************************************************************************)
EXTENDS Integers, Sequences, FiniteSets, SequencesExt

CONSTANTS
  Size,
  DebugMargin,
  CompactAbove,    \* ShouldCompact1st looks at longer vectors only (32)
  AllocSizes,
  Alignments

VARIABLES
  v,      \* the fields of the class, see Init
  live    \* what the callers hold: [offset -> [size, alignment]]

vars == <<v, live>>

Modes == {"EMPTY", "RING_BUFFER", "DOUBLE_STACK"}

NoOffset == -1   \* the request failed

AlignUp(n, a) == ((n + a - 1) \div a) * a
AlignDown(n, a) == (n \div a) * a
Lower(a, b) == IF a <= b THEN a ELSE b
-----------------------------------------------------------------------------
Suballocation(o, n) == [offset |-> o, size |-> n, free |-> FALSE]

End(s) == Last(s).offset + Last(s).size
AfterEnd(s) == IF s = <<>> THEN 0 ELSE End(s) + DebugMargin

LeadingFree(s) == Min({i \in DOMAIN s : ~ s[i].free} \cup {Len(s) + 1}) - 1
TrailingFree(s) == Len(s) - Max({i \in DOMAIN s : ~ s[i].free} \cup {0})
DropLast(s, n) == SubSeq(s, 1, Len(s) - n)

GetAllocationCount(w) ==
  Len(w.first) - w.beginNull - w.middleNull + Len(w.second) - w.secondNull

InitialMetadata ==
  [ first |-> <<>>, second |-> <<>>, mode |-> "EMPTY",
    beginNull |-> 0, middleNull |-> 0, secondNull |-> 0, sumFree |-> Size ]
-----------------------------------------------------------------------------
(* CreateAllocationRequest *)

EndOf1st(w, n, a) ==
  LET o == AlignUp(AfterEnd(w.first), a)
      limit == IF w.mode = "DOUBLE_STACK" THEN Last(w.second).offset ELSE Size
  IN IF w.mode # "RING_BUFFER" /\ o + n + DebugMargin <= limit THEN o ELSE NoOffset

EndOf2nd(w, n, a) ==
  LET o == AlignUp(AfterEnd(w.second), a)
      limit == IF w.beginNull = Len(w.first) THEN Size
               ELSE w.first[w.beginNull + 1].offset
  IN IF w.mode # "DOUBLE_STACK" /\ o + n + DebugMargin <= limit THEN o ELSE NoOffset

UpperAddress(w, n, a) ==
  LET top == IF w.second = <<>> THEN Size ELSE Last(w.second).offset
      o == AlignDown(top - n - DebugMargin, a)
      bottom == IF w.first = <<>> THEN 0 ELSE End(w.first)
  IN IF w.mode # "RING_BUFFER" /\ top - n - DebugMargin >= 0 /\ bottom + DebugMargin <= o
     THEN o ELSE NoOffset
-----------------------------------------------------------------------------
(* Alloc, one operator per kind of request. *)

PushFirst(w, o, n) ==
  [w EXCEPT !.first = Append(@, Suballocation(o, n)), !.sumFree = @ - n]

PushRing(w, o, n) ==
  [w EXCEPT !.second = Append(@, Suballocation(o, n)),
            !.mode = "RING_BUFFER", !.sumFree = @ - n]

PushUpper(w, o, n) ==
  [w EXCEPT !.second = Append(@, Suballocation(o, n)),
            !.mode = "DOUBLE_STACK", !.sumFree = @ - n]
-----------------------------------------------------------------------------
(* CleanupAfterFree *)

TrimFirst(w) ==
  LET begin == LeadingFree(w.first)
      middle == w.middleNull - (begin - w.beginNull)
      drop == Lower(middle, TrailingFree(w.first))
  IN [w EXCEPT !.beginNull = begin,
               !.middleNull = middle - drop,
               !.first = DropLast(@, drop)]

(* Fault: the null items dropped from the 2nd vector stay counted. *)
TrimSecond_StaleCount(w) ==
  LET back == Lower(w.secondNull, TrailingFree(w.second))
  IN [w EXCEPT !.second = DropLast(@, back)]

TrimSecond(w) ==
  LET back == Lower(w.secondNull, TrailingFree(w.second))
      front == Lower(w.secondNull - back, LeadingFree(DropLast(w.second, back)))
  IN [w EXCEPT !.second = SubSeq(@, front + 1, Len(@) - back),
               !.secondNull = @ - back - front]

ShouldCompact1st(w) ==
  LET nulls == w.beginNull + w.middleNull
  IN Len(w.first) > CompactAbove /\ nulls * 2 >= (Len(w.first) - nulls) * 3

Compact(w) ==
  IF ShouldCompact1st(w)
  THEN [w EXCEPT !.first = SelectSeq(@, LAMBDA s : ~ s.free),
                 !.beginNull = 0, !.middleNull = 0]
  ELSE w

(* Modes are reset when a vector runs out; an exhausted 1st vector of a    *)
(* ring buffer changes places with the 2nd.                                *)
Settle(w) ==
  LET mode == IF w.second = <<>> THEN "EMPTY" ELSE w.mode
      lead == LeadingFree(w.second)
  IN IF w.beginNull < Len(w.first) THEN [w EXCEPT !.mode = mode]
     ELSE IF mode # "RING_BUFFER"
       THEN [w EXCEPT !.mode = mode, !.first = <<>>, !.beginNull = 0]
     ELSE [w EXCEPT !.mode = "EMPTY", !.first = w.second, !.second = <<>>,
                    !.beginNull = lead, !.middleNull = w.secondNull - lead,
                    !.secondNull = 0]

CleanupAfterFree(w) ==
  IF GetAllocationCount(w) = 0
  THEN [InitialMetadata EXCEPT !.sumFree = w.sumFree]
  ELSE Settle(Compact(TrimSecond(TrimFirst(w))))
-----------------------------------------------------------------------------
(* Free.  The cases are tried in the code's order. *)

IsFirst(w, o) == w.first # <<>> /\ w.first[w.beginNull + 1].offset = o

FreeFirst(w) ==
  LET i == w.beginNull + 1
  IN [w EXCEPT !.first[i].free = TRUE, !.beginNull = @ + 1,
               !.sumFree = @ + w.first[i].size]

IsTopOf2nd(w, o) == w.mode # "EMPTY" /\ Last(w.second).offset = o

PopSecond(w) ==
  [w EXCEPT !.second = DropLast(@, 1), !.sumFree = @ + Last(w.second).size]

IsLastOf1st(w, o) == w.mode = "EMPTY" /\ Last(w.first).offset = o

PopFirst(w) ==
  [w EXCEPT !.first = DropLast(@, 1), !.sumFree = @ + Last(w.first).size]

(* BinaryFindSorted in the part of 1st that starts after the leading null  *)
(* items, and in 2nd.                                                      *)
Middle1st(w, o) == {i \in w.beginNull + 1 .. Len(w.first) : w.first[i].offset = o}
Middle2nd(w, o) == {i \in DOMAIN w.second : w.second[i].offset = o}

FreeMiddle1st(w, i) ==
  [w EXCEPT !.first[i].free = TRUE, !.middleNull = @ + 1,
            !.sumFree = @ + w.first[i].size]

FreeMiddle2nd(w, i) ==
  [w EXCEPT !.second[i].free = TRUE, !.secondNull = @ + 1,
            !.sumFree = @ + w.second[i].size]

Free(w, o) ==
  CleanupAfterFree(
    IF IsFirst(w, o) THEN FreeFirst(w)
    ELSE IF IsTopOf2nd(w, o) THEN PopSecond(w)
    ELSE IF IsLastOf1st(w, o) THEN PopFirst(w)
    ELSE IF Middle1st(w, o) # {} THEN FreeMiddle1st(w, Min(Middle1st(w, o)))
    ELSE FreeMiddle2nd(w, Min(Middle2nd(w, o))))
-----------------------------------------------------------------------------
(* The operations of the class. *)

Init == v = InitialMetadata /\ live = [o \in {} |-> 0]

Hold(o, n, a) ==
  live' = [p \in DOMAIN live \cup {o} |->
             IF p = o THEN [size |-> n, alignment |-> a] ELSE live[p]]

AllocateLower(n, a) ==
  /\ n <= Size
  /\ LET o1 == EndOf1st(v, n, a)
         o2 == EndOf2nd(v, n, a)
     IN \/ o1 # NoOffset /\ v' = PushFirst(v, o1, n) /\ Hold(o1, n, a)
        \/ o1 = NoOffset /\ o2 # NoOffset /\ v' = PushRing(v, o2, n) /\ Hold(o2, n, a)

AllocateUpper(n, a) ==
  LET o == UpperAddress(v, n, a)
  IN n <= Size /\ o # NoOffset /\ v' = PushUpper(v, o, n) /\ Hold(o, n, a)

FreeAllocation(o) ==
  /\ v' = Free(v, o)
  /\ live' = [p \in DOMAIN live \ {o} |-> live[p]]

Clear ==
  /\ v' = InitialMetadata
  /\ live' = [o \in {} |-> 0]

Next ==
  \/ \E n \in AllocSizes, a \in Alignments : AllocateLower(n, a) \/ AllocateUpper(n, a)
  \/ \E o \in DOMAIN live : FreeAllocation(o)
  \/ Clear

Spec == Init /\ [][Next]_vars
-----------------------------------------------------------------------------
(* Properties. *)

Item == [offset : 0 .. Size, size : AllocSizes, free : BOOLEAN]

(* Types of the fields. *)
TypeOK ==
  /\ v.first \in Seq(Item) /\ v.second \in Seq(Item)
  /\ v.mode \in Modes
  /\ v.beginNull \in 0 .. Len(v.first)
  /\ v.middleNull \in 0 .. Len(v.first)
  /\ v.secondNull \in 0 .. Len(v.second)
  /\ v.sumFree \in 0 .. Size
  /\ DOMAIN live \subseteq 0 .. Size
  /\ live \in [DOMAIN live -> [size : AllocSizes, alignment : Alignments]]

(* Every item in address order, without the leading null items of 1st. *)
InAddressOrder ==
  LET first == SubSeq(v.first, v.beginNull + 1, Len(v.first))
  IN CASE v.mode = "RING_BUFFER" -> v.second \o first
       [] v.mode = "DOUBLE_STACK" -> first \o Reverse(v.second)
       [] v.mode = "EMPTY" -> first

(* Null items included, the items of both vectors follow one another in    *)
(* address order, a margin apart: the offsets Free searches by bisection   *)
(* are sorted (Validate).                                                  *)
Sorted ==
  LET s == InAddressOrder
  IN \A i \in 1 .. Len(s) - 1 : s[i].offset + s[i].size + DebugMargin <= s[i + 1].offset

(* The three counters of null items are exact, no vector ends in a null    *)
(* item, and the mode says whether 2nd is in use (Validate).               *)
NullItemsCounted ==
  /\ v.beginNull = LeadingFree(v.first)
  /\ v.beginNull + v.middleNull = Cardinality({i \in DOMAIN v.first : v.first[i].free})
  /\ v.secondNull = Cardinality({i \in DOMAIN v.second : v.second[i].free})
  /\ TrailingFree(v.first) = 0 /\ TrailingFree(v.second) = 0
  /\ v.second = <<>> <=> v.mode = "EMPTY"
  /\ v.mode = "RING_BUFFER" => v.first # <<>>

(* What the callers hold is what the vectors say is allocated, so Free     *)
(* never reaches "Allocation to free not found in linear allocator!", and  *)
(* m_SumFreeSize is the rest.                                              *)
AllocationsFound ==
  LET s == InAddressOrder
      taken == {i \in DOMAIN s : ~ s[i].free}
  IN /\ DOMAIN live = {s[i].offset : i \in taken}
     /\ \A i \in taken : live[s[i].offset].size = s[i].size
     /\ v.sumFree = Size - FoldSet(LAMBDA o, n : n + live[o].size, 0, DOMAIN live)

(* A block with no allocation is as good as new: the whole of it can be    *)
(* allocated again, in either direction.                                   *)
ReusableWhenEmpty == DOMAIN live = {} => v = InitialMetadata
=============================================================================

------------------------------- MODULE Lowering -------------------------------
(***************************************************************************)
(* The descriptor-buffer model's shader lowering                           *)
(* (rhi_vulkan_spirv_lowering.cpp): each resource variable of a stage is   *)
(* rewritten to read, through push constants, the spilled rest of the push *)
(* data and the two heaps, what the layout's binding plan says.            *)
(*                                                                         *)
(* A shader is its resource variables, each with the index chains of its   *)
(* uses; an index is a number or Dynamic.  What the rewritten code reads   *)
(* is a term: an address is two push constant dwords, an address plus a    *)
(* constant, or what is loaded from an address.  Types are built from      *)
(* scalars as SPIR-V does, the matrix layout with the matrix.  Ids, names, *)
(* decorations, capabilities and the passes around this one are left out.  *)
(***************************************************************************)
EXTENDS BindingPlan, FiniteSets, TLC

CONSTANTS
  Layouts,       \* [name -> a layout the device accepted, with "elements",
                 \* the heap elements its static samplers got]
  Variables,     \* [name -> a resource variable]
  Declared,      \* [layout -> the variables that shaders for it declare]
  MaxVariables,
  UniformAlignment, SpillAlignment,  \* LoweringTarget
  None, Dynamic

VARIABLES
  input,           \* names of the layout and of a shader's variables
  modern,          \* whether the module is SPIR-V 1.5 or newer
  step,            \* how far Lower has come
  refused,         \* why the lowering failed, or None
  mapping,         \* of the variables in use
  clones,          \* [resource, offset, extent, padding] of pushed blocks
  dwords,          \* [push data byte -> clone, path] of address halves
  block,           \* the push block's members, in order
  records,         \* recordValues
  code             \* [variable -> what its uses read]

vars == <<input, modern, step, refused, mapping, clones, dwords, block, records, code>>

layout == Layouts[input.layout]
shader == [i \in DOMAIN input.variables |-> Variables[input.variables[i]]]

Stage == "pixel"
RecordAlignment == 8
Pushed == PushedBytes(layout)
Spill == SpillAddress(layout)

Init ==
  /\ \E l \in DOMAIN Layouts, n \in 0 .. MaxVariables :
       \E variables \in [1 .. n -> Declared[l]] :
         /\ IsInjective(variables)
         /\ input = [layout |-> l, variables |-> variables]
  /\ modern \in BOOLEAN
  /\ step = "collect" /\ refused = None /\ mapping = <<>>
  /\ clones = <<>> /\ block = <<>>
  /\ dwords = [o \in {} |-> 0] /\ records = [k \in {} |-> 0] /\ code = [i \in {} |-> 0]

Used == {i \in DOMAIN shader : shader[i].uses # {}}
-----------------------------------------------------------------------------
(* Block layout. *)
Uint == [op |-> "scalar", bytes |-> 4]

RECURSIVE Extent(_)
Extent(t) ==
  CASE t.op = "scalar" -> t.bytes
    [] t.op = "vector" -> t.n * t.bytes
    [] t.op = "matrix" ->
         IF t.rowMajor THEN (t.rows - 1) * t.stride + t.columns * t.bytes
                       ELSE (t.columns - 1) * t.stride + t.rows * t.bytes
    [] t.op = "array" -> IF t.length = 0 THEN 0 ELSE (t.length - 1) * t.stride + Extent(t.of)
    [] OTHER -> Max({0} \cup {m.offset + Extent(m.type) : m \in Range(t.members)})

(* The access path to the 32-bit scalar that starts at byte o, if any.     *)
RECURSIVE DwordPath(_, _)
DwordPath(t, o) ==
  CASE t.op = "scalar" -> IF o = 0 /\ t.bytes = 4 THEN {<<>>} ELSE {}
    [] t.op = "vector" -> IF t.bytes = 4 /\ o % 4 = 0 /\ o \div 4 < t.n THEN {<<o \div 4>>} ELSE {}
    [] t.op = "matrix" ->
         LET major == o \div t.stride
             within == (o % t.stride) \div 4
             path == IF t.rowMajor THEN <<within, major>> ELSE <<major, within>>
         IN IF t.bytes = 4 /\ (o % t.stride) % 4 = 0 /\ path[1] < t.columns /\ path[2] < t.rows
            THEN {path} ELSE {}
    [] t.op = "array" ->
         IF o \div t.stride >= t.length THEN {}
         ELSE {<<o \div t.stride>> \o p : p \in DwordPath(t.of, o % t.stride)}
    [] OTHER ->
         LET inside == {m \in DOMAIN t.members :
                          o \in t.members[m].offset .. t.members[m].offset + Extent(t.members[m].type) - 1}
         IN IF inside = {} THEN {}
            ELSE LET m == Min(inside)
                 IN {<<m - 1>> \o p : p \in DwordPath(t.members[m].type, o - t.members[m].offset)}

TopLevelPadding(t, o) ==
  \A m \in Range(t.members) : m.offset + Extent(m.type) <= o \/ o + 4 <= m.offset
-----------------------------------------------------------------------------
(* CheckModule and CollectResources: used variables only. *)
TargetWrong ==
  \/ Pushed % 4 # 0 \/ Pushed > PushConstantBytes
  \/ Spill # NoSpill /\ (Spill % 4 # 0 \/ Spill + 8 > PushConstantBytes)

Covers(m, v) ==
  v.set = m.set /\ v.binding \in m.first .. m.first + m.count - 1 /\ v.kind \in m.kinds

MappingsFor(v) ==
  LET plan == Plan(layout, Stage) IN {j \in DOMAIN plan : Covers(plan[j], v)}

Index(i) == shader[i].binding - mapping[i].first

(* m is the first mapping for v, or None. *)
RefusalOf(v, m) ==
  CASE v.kind = "combined" -> "combined"
    [] m = None -> "unmapped"
    [] m.source \in {"BufferIndirectAddress", "BufferPushAddress", "PushData"}
         /\ (v.kind # "uniform" \/ v.arrayed) -> "block"
    [] m.source = "StaticSampler" /\ m.sampler \notin DOMAIN layout.elements -> "element"
    [] OTHER -> None

CollectResources ==
  LET found == [i \in Used |-> IF MappingsFor(shader[i]) = {} THEN None
                               ELSE Plan(layout, Stage)[Min(MappingsFor(shader[i]))]]
      wrong == {i \in Used : RefusalOf(shader[i], found[i]) # None}
      first == Min(wrong)
  IN /\ step = "collect"
     /\ refused' = IF TargetWrong THEN "target"
                   ELSE IF wrong # {} THEN RefusalOf(shader[first], found[first]) ELSE None
     /\ mapping' = found
     /\ step' = IF refused' = None THEN "plan" ELSE "failed"
     /\ UNCHANGED <<input, modern, clones, dwords, block, records, code>>
-----------------------------------------------------------------------------
(* PlanPushData: p holds the clones, the dwords needed and the refusal.    *)
Refuse(p, why) == [p EXCEPT !.refused = why]

NeedDwords(p, o) ==
  IF o % 4 # 0 \/ o + 8 > PushConstantBytes THEN Refuse(p, "dword")
  ELSE [p EXCEPT !.needed = @ \cup {o, o + 4}]

NeedSpillAddress(p) == IF Spill = NoSpill THEN Refuse(p, "no spill") ELSE NeedDwords(p, Spill)

NeedPushAddress(p, o) ==
  CASE o + 8 > TotalPushDataBytes(layout) -> Refuse(p, "past the image")
    [] o + 8 <= Pushed -> NeedDwords(p, o)
    [] o >= Pushed -> NeedSpillAddress(p)
    [] OTHER -> Refuse(p, "straddles")

NeedBlock(p, i) ==
  LET m == mapping[i]
      extent == Extent(shader[i].type)
  IN CASE extent > m.bytes -> Refuse(p, "extent")
       [] m.push % 4 # 0 -> Refuse(p, "dword")
       [] m.push + extent <= Pushed ->
            [p EXCEPT !.clones = Append(@, [resource |-> i, offset |-> m.push,
                                            extent |-> extent, padding |-> <<>>])]
       [] m.push >= Pushed -> NeedSpillAddress(p)
       [] OTHER -> Refuse(p, "straddles")

Need(p, i) ==
  LET m == mapping[i]
  IN CASE p.refused # None -> p
       [] m.source \in {"HeapIndirect", "BufferIndirectAddress"} -> NeedPushAddress(p, m.push)
       [] m.source = "BufferPushAddress" -> NeedPushAddress(p, m.push + 8 * Index(i))
       [] m.source = "PushData" -> NeedBlock(p, i)
       [] OTHER -> p

InOrder(S) == SetToSortSeq(S, <)

(* A dword inside a clone is read through it: the scalar there, or a       *)
(* member added in its top-level padding.  p gets dwords, too.             *)
Source(p, o) ==
  LET inside == {c \in DOMAIN p.clones :
                   o \in p.clones[c].offset .. p.clones[c].offset + p.clones[c].extent - 1}
      c == Min(inside)
      t == shader[p.clones[c].resource].type
      within == o - p.clones[c].offset
      Found(clone, path) == [p EXCEPT !.dwords = (o :> [clone |-> clone, path |-> path]) @@ @]
  IN CASE p.refused # None -> p
       [] inside = {} -> Found(0, <<>>)
       [] inside # {} /\ DwordPath(t, within) # {} ->
            Found(c, CHOOSE path \in DwordPath(t, within) : TRUE)
       [] inside # {} /\ DwordPath(t, within) = {} /\ TopLevelPadding(t, within) ->
            [Found(c, <<Len(t.members) + Len(p.clones[c].padding)>>)
               EXCEPT !.clones[c].padding = Append(@, within)]
       [] OTHER -> Refuse(p, "half of an address")

PlanPushData ==
  LET none == [clones |-> <<>>, needed |-> {}, refused |-> None, dwords |-> dwords]
      needs == FoldLeft(Need, none, InOrder(Used))
      p == FoldLeft(Source, needs, InOrder(needs.needed))
  IN /\ step = "plan"
     /\ clones' = p.clones /\ dwords' = p.dwords /\ refused' = p.refused
     /\ step' = IF refused' = None THEN "block" ELSE "failed"
     /\ UNCHANGED <<input, modern, mapping, block, records, code>>

(* BuildPushBlock: the clones and the dwords no clone covers, in order.    *)
Entries ==
  {[offset |-> clones[c].offset, extent |-> clones[c].extent, clone |-> c] : c \in DOMAIN clones}
  \cup {[offset |-> o, extent |-> 4, clone |-> 0] : o \in {x \in DOMAIN dwords : dwords[x].clone = 0}}

BuildPushBlock ==
  LET sorted == SetToSortSeq(Entries, LAMBDA a, b : a.offset < b.offset)
      End(k) == sorted[k].offset + sorted[k].extent
      overlap == \E k \in DOMAIN sorted : k + 1 \in DOMAIN sorted /\ End(k) > sorted[k + 1].offset
      past == \E k \in DOMAIN sorted : End(k) > PushConstantBytes
  IN /\ step = "block"
     /\ block' = sorted
     /\ refused' = IF overlap THEN "overlap" ELSE IF past THEN "past" ELSE None
     /\ step' = IF refused' = None THEN "rewrite" ELSE "failed"
     /\ UNCHANGED <<input, modern, mapping, clones, dwords, records, code>>
-----------------------------------------------------------------------------
(* The rewritten code. *)
LowBit(n) == Max({2^k : k \in {j \in 0 .. 12 : n % 2^j = 0}})

(* Fault: the offset lowers no alignment. *)
AlignmentAt_Base(base, offset) == base

(* The alignment a byte offset from an address so aligned keeps. *)
AlignmentAt(base, offset) == IF offset = 0 THEN base ELSE Min({base, LowBit(offset)})

PushedAddress(o) == [op |-> "pushed", low |-> o, high |-> o + 4]
AddressPlus(a, n) == IF n = 0 THEN a ELSE [op |-> "plus", of |-> a, n |-> n]
LoadPhysical(a, align) == [op |-> "load", of |-> a, align |-> align]

(* Where the spill image has byte o of the push data. *)
Spilled(o) == o - Pushed

ReadPushAddress(o) ==
  IF o + 8 <= Pushed THEN PushedAddress(o)
  ELSE LoadPhysical(AddressPlus(PushedAddress(Spill), Spilled(o)),
                    AlignmentAt(SpillAlignment, Spilled(o)))

(* RecordValue, loaded once in the entry block. *)
RecordKey(type, push, offset) == <<type, push, offset>>
RecordValue(type, push, offset) ==
  IF RecordKey(type, push, offset) \in DOMAIN records THEN records[RecordKey(type, push, offset)]
  ELSE LoadPhysical(AddressPlus(ReadPushAddress(push), offset),
                    AlignmentAt(RecordAlignment, offset))

(* Step and WalkIndices: the constant offset of a chain of indices, and    *)
(* the alignment its dynamic ones leave; w.step is componentStride.        *)
Step(w, index, stride) ==
  IF index = Dynamic THEN [w EXCEPT !.align = Min({@, LowBit(stride)})]
  ELSE [w EXCEPT !.offset = @ + index * stride]

RECURSIVE WalkIndices(_, _, _)
WalkIndices(w, t, chain) ==
  IF chain = <<>> THEN w
  ELSE LET index == Head(chain)
       IN CASE t.op = "struct" ->
                 WalkIndices([w EXCEPT !.offset = @ + t.members[index + 1].offset, !.step = 0],
                             t.members[index + 1].type, Tail(chain))
            [] t.op = "array" -> WalkIndices(Step(w, index, t.stride), t.of, Tail(chain))
            [] t.op = "matrix" ->
                 WalkIndices([Step(w, index, IF t.rowMajor THEN t.bytes ELSE t.stride)
                                EXCEPT !.step = IF t.rowMajor THEN t.stride ELSE t.bytes],
                             [op |-> "vector", n |-> t.rows, bytes |-> t.bytes], Tail(chain))
            [] OTHER -> WalkIndices(Step(w, index, IF w.step # 0 THEN w.step ELSE t.bytes),
                                    [op |-> "scalar", bytes |-> t.bytes], Tail(chain))

(* FinishLoad: what each use of a block in memory says of its address.     *)
Aligned(i, align) ==
  [chain \in shader[i].uses |->
     LET w == WalkIndices([align |-> align, offset |-> 0, step |-> 0], shader[i].type, chain)
     IN AlignmentAt(w.align, w.offset)]

InHeap(i, element) ==
  [op |-> "descriptor", heap |-> IF shader[i].kind = "sampler" THEN "sampler" ELSE "resource",
   element |-> element]
InMemory(i, address, align) ==
  [op |-> "memory", address |-> address, aligned |-> Aligned(i, align)]
Constant(n) == [op |-> "constant", n |-> n]

Member(entry) == CHOOSE k \in DOMAIN block : block[k] = entry
MemberOfClone(c) ==
  Member([offset |-> clones[c].offset, extent |-> clones[c].extent, clone |-> c])
CloneOf(i) == {c \in DOMAIN clones : clones[c].resource = i}

(* Rewrite: RewriteDescriptor, RewritePushed and RewritePhysical. *)
Rewritten(i) ==
  LET m == mapping[i]
  IN CASE m.source = "Heap" -> InHeap(i, Constant(m.element + Index(i)))
       [] m.source = "StaticSampler" -> InHeap(i, Constant(layout.elements[m.sampler] + Index(i)))
       [] m.source = "HeapIndirect" ->
            InHeap(i, RecordValue("uint", m.push, m.record + 4 * Index(i)))
       [] m.source = "BufferIndirectAddress" ->
            InMemory(i, RecordValue("uvec2", m.push, m.record + 8 * Index(i)), UniformAlignment)
       [] m.source = "BufferPushAddress" ->
            InMemory(i, ReadPushAddress(m.push + 8 * Index(i)), UniformAlignment)
       [] m.source = "PushData" /\ CloneOf(i) # {} ->
            [op |-> "pushed", member |-> MemberOfClone(Min(CloneOf(i)))]
       [] OTHER ->
            InMemory(i, AddressPlus(PushedAddress(Spill), Spilled(m.push)),
                     AlignmentAt(SpillAlignment, Spilled(m.push)))

NewRecords(i) ==
  LET m == mapping[i]
      Key(type, size) == {RecordKey(type, m.push, m.record + size * Index(i))}
  IN CASE m.source = "HeapIndirect" -> Key("uint", 4)
       [] m.source = "BufferIndirectAddress" -> Key("uvec2", 8)
       [] OTHER -> {}

Rewrite ==
  /\ step = "rewrite" /\ DOMAIN code # Used
  /\ LET i == Min(Used \ DOMAIN code)
         value == Rewritten(i)
     IN /\ code' = (i :> value) @@ code
        /\ records' = [k \in NewRecords(i) |->
                         IF value.op = "descriptor" THEN value.element ELSE value.address] @@ records
  /\ UNCHANGED <<input, modern, mapping, step, refused, clones, dwords, block>>

ReadsMemory(c) == c.op = "memory" \/ (c.op = "descriptor" /\ c.element.op # "constant")

Finish ==
  /\ step = "rewrite" /\ DOMAIN code = Used
  /\ refused' = IF ~ modern /\ \E i \in Used : ReadsMemory(code[i]) THEN "version" ELSE None
  /\ step' = IF refused' = None THEN "done" ELSE "failed"
  /\ UNCHANGED <<input, modern, mapping, clones, dwords, block, records, code>>

(* The shader module is made, or the pipeline is refused. *)
Lowered == step \in {"done", "failed"} /\ UNCHANGED vars

Next == CollectResources \/ PlanPushData \/ BuildPushBlock \/ Rewrite \/ Finish \/ Lowered

Spec == Init /\ [][Next]_vars
-----------------------------------------------------------------------------
(* What SPIR-V means by a chain of indices: the bytes it may lead to.      *)
RECURSIVE Places(_, _)
Places(t, chain) ==
  IF chain = <<>> THEN {0}
  ELSE LET Steps(n) == IF Head(chain) = Dynamic THEN 0 .. n - 1 ELSE {Head(chain)}
           Further(at, of) == {at + n : n \in Places(of, Tail(chain))}
       IN CASE t.op = "struct" ->
                 Further(t.members[Head(chain) + 1].offset, t.members[Head(chain) + 1].type)
            [] t.op = "array" -> UNION {Further(k * t.stride, t.of) : k \in Steps(t.length)}
            [] t.op = "vector" -> {k * t.bytes : k \in Steps(t.n)}
            [] OTHER ->
                 LET Row(r) == IF t.rowMajor THEN r * t.stride ELSE r * t.bytes
                     Column(c) == IF t.rowMajor THEN c * t.bytes ELSE c * t.stride
                     rows == IF Len(chain) = 1 THEN {0}
                             ELSE IF chain[2] = Dynamic THEN 0 .. t.rows - 1 ELSE {chain[2]}
                 IN {Column(c) + Row(r) : c \in Steps(t.columns), r \in rows}

(* CloneStruct: the block's struct with a member for each dword read in    *)
(* its padding.                                                            *)
CloneType(c) ==
  LET t == shader[clones[c].resource].type
  IN [t EXCEPT !.members = @ \o [n \in DOMAIN clones[c].padding |->
                                   [offset |-> clones[c].padding[n], type |-> Uint]]]

(* The push constant byte that the code reads for dword o. *)
ByteOf(o) ==
  LET d == dwords[o]
  IN IF d.clone = 0 THEN block[Member([offset |-> o, extent |-> 4, clone |-> 0])].offset
     ELSE block[MemberOfClone(d.clone)].offset
          + (CHOOSE n \in Places(CloneType(d.clone), d.path) : TRUE)

(* Address terms mean a base, the address in some dwords of the push data, *)
(* in memory or that of the spill, and an offset.                          *)
RECURSIVE Meaning(_)
Meaning(a) ==
  CASE a.op = "pushed" ->
         LET low == ByteOf(a.low) IN
         IF ByteOf(a.high) # low + 4 THEN [base |-> <<"torn">>, plus |-> 0]
         ELSE IF low = Spill THEN [base |-> <<"spill">>, plus |-> 0]
         ELSE IF low + 8 <= Pushed THEN [base |-> <<"image", low>>, plus |-> 0]
         ELSE [base |-> <<"unwritten">>, plus |-> 0]
    [] a.op = "plus" -> [Meaning(a.of) EXCEPT !.plus = @ + a.n]
    [] OTHER ->
         LET from == Meaning(a.of)
         IN [base |-> IF from.base = <<"spill">> THEN <<"image", Pushed + from.plus>>
                      ELSE <<"memory", from.base, from.plus>>,
             plus |-> 0]

At(base) == [base |-> base, plus |-> 0]

(* What a variable reads: an element of a heap, a block, push data.        *)
Reads(i) ==
  LET c == code[i]
  IN CASE c.op = "pushed" -> <<"push data", block[c.member].offset>>
       [] c.op = "memory" ->
            LET from == Meaning(c.address)
            IN IF from.base = <<"spill">> THEN <<"push data", Pushed + from.plus>>
               ELSE <<"block", from>>
       [] c.element.op = "constant" -> <<c.heap, c.element.n>>
       [] OTHER -> <<c.heap, Meaning(c.element)>>

(* What the plan's mapping says, as VK_EXT_descriptor_heap does it.        *)
Meant(i) ==
  LET m == mapping[i]
      heap == IF shader[i].kind = "sampler" THEN "sampler" ELSE "resource"
      record == <<"image", m.push>>
  IN CASE m.source = "Heap" -> <<heap, m.element + shader[i].binding - m.first>>
       [] m.source = "StaticSampler" ->
            <<heap, layout.elements[m.sampler] + shader[i].binding - m.first>>
       [] m.source = "HeapIndirect" ->
            <<heap, At(<<"memory", record, m.record + 4 * (shader[i].binding - m.first)>>)>>
       [] m.source = "BufferIndirectAddress" ->
            <<"block", At(<<"memory", record, m.record + 8 * (shader[i].binding - m.first)>>)>>
       [] m.source = "BufferPushAddress" ->
            <<"block", At(<<"image", m.push + 8 * (shader[i].binding - m.first)>>)>>
       [] OTHER -> <<"push data", m.push>>

(* The lowered shader reads what the heap model would: each variable the   *)
(* descriptor, the block or the push data its mapping names.               *)
ReadsAsPlanned == step = "done" => \A i \in Used : Reads(i) = Meant(i)

Divides(align, n) == n % align = 0

RECURSIVE LoadsAligned(_)
LoadsAligned(a) ==
  CASE a.op = "pushed" -> TRUE
    [] a.op = "plus" -> LoadsAligned(a.of)
    [] OTHER ->
         LET from == Meaning(a.of)
         IN /\ LoadsAligned(a.of)
            /\ Divides(a.align, from.plus)
            /\ Divides(a.align, IF from.base = <<"spill">> THEN SpillAlignment ELSE RecordAlignment)

(* Every alignment the code claims holds of the address it loads from,     *)
(* whatever the dynamic indices are: a wrong one is undefined behaviour    *)
(* that few GPUs show.                                                     *)
AlignmentsTrue ==
  step = "done" => \A i \in Used :
    LET c == code[i]
    IN /\ c.op = "memory" =>
            LET from == Meaning(c.address)
            IN /\ LoadsAligned(c.address)
               /\ \A chain \in shader[i].uses :
                    /\ \A n \in Places(shader[i].type, chain) : Divides(c.aligned[chain], from.plus + n)
                    /\ Divides(c.aligned[chain],
                         IF from.base = <<"spill">> THEN SpillAlignment ELSE UniformAlignment)
       /\ (c.op = "descriptor" /\ c.element.op # "constant") => LoadsAligned(c.element)

(* "Overlapping members are invalid": neither two members of the block nor *)
(* a clone's own with those added to it share a byte.                      *)
Bytes(m) == m.offset .. m.offset + Extent(m.type) - 1
MembersApart ==
  step \in {"rewrite", "done"} =>
    /\ \A j, k \in DOMAIN block : j < k => block[j].offset + block[j].extent <= block[k].offset
    /\ \A c \in DOMAIN clones :
         LET members == CloneType(c).members
         IN \A j, k \in DOMAIN members : j # k => Bytes(members[j]) \cap Bytes(members[k]) = {}

(* A layout that was accepted pushes or spills what a binding reads whole: *)
(* no shader is refused for how the layout divided its push data.          *)
NeverDivided ==
  refused \notin {"target", "straddles", "no spill", "past the image", "dword", "past", "element"}

LoweringFaithful ==
  ReadsAsPlanned /\ AlignmentsTrue /\ MembersApart /\ NeverDivided
=============================================================================

----------------------------- MODULE BindingPlan -----------------------------
(***************************************************************************)
(* The push data of a Vulkan pipeline layout and the binding plan that     *)
(* says where each set and binding of a shader reads its descriptor or     *)
(* data (rhi_vulkan.cpp, rhi_vulkan_binding_plan.h).                       *)
(*                                                                         *)
(* A layout description has "ranges" (push constant ranges: words, or the  *)
(* address of emulated constants), "addresses" (binding ranges: a record   *)
(* address or addresses inside a push constant range, or "slot", a place   *)
(* in the heap) and "samplers" (static samplers).                          *)
(***************************************************************************)
EXTENDS Integers, SequencesExt

PushConstantBytes == 128
PushedPrefixBytes == 120
SpillAddressOffset == 120
NoSpill == -1

StorageBytes(r) == IF r.emulated THEN 8 ELSE 4 * r.words

ByteOffset(d, i) ==
  FoldSeq(LAMBDA r, n : n + StorageBytes(r), 0, SubSeq(d.ranges, 1, i - 1))

TotalPushDataBytes(d) == ByteOffset(d, Len(d.ranges) + 1)

(* What is pushed: everything, or the leading ranges that leave room for   *)
(* the address of the rest.                                                *)
PushedBytes(d) ==
  IF TotalPushDataBytes(d) <= PushConstantBytes THEN TotalPushDataBytes(d)
  ELSE Max({ByteOffset(d, i) : i \in 1 .. Len(d.ranges) + 1} \cap 0 .. PushedPrefixBytes)

SpillAddress(d) ==
  IF TotalPushDataBytes(d) <= PushConstantBytes THEN NoSpill ELSE SpillAddressOffset

(* An indirect range reads one record address, or one address per binding, *)
(* from inside a root-constant range.                                      *)
AddressBytes(a) == IF a.source = "push" THEN 8 * a.count ELSE 8
AddressOffset(d, a) == ByteOffset(d, a.root) + 4 * a.word

ValidAddress(d, a) ==
  \/ a.source = "slot"
  \/ /\ a.root \in DOMAIN d.ranges /\ a.count > 0
     /\ ~ d.ranges[a.root].emulated
     /\ 4 * a.word + AddressBytes(a) <= StorageBytes(d.ranges[a.root])
     /\ a.source = "push" => AddressOffset(d, a) % 8 = 0
     /\ a.samplers => a.source = "heap"

(* What the shaders' bindings read from push data, as <<range, first byte, *)
(* bytes>>.                                                                *)
PlannedReads(d) ==
  {<<d.addresses[i].root, AddressOffset(d, d.addresses[i]), AddressBytes(d.addresses[i])>> :
     i \in {j \in DOMAIN d.addresses : d.addresses[j].source # "slot"}}
  \cup {<<i, ByteOffset(d, i), StorageBytes(d.ranges[i])>> : i \in DOMAIN d.ranges}
-----------------------------------------------------------------------------
(* VkBuildBindingPlan.  Kinds of variables: "image" stands for all that    *)
(* are neither samplers nor uniform blocks.                                *)
ResourceKinds == {"image", "uniform"}
SamplerKinds == {"sampler", "combined"}

HeapSet == 0
ResourceHeapBinding == 1000000
SamplerHeapBinding == 1000001
CounterHeapBinding == 1000002

Mapping(set, first, count, kinds, source) ==
  [set |-> set, first |-> first, count |-> IF count = 0 THEN 1 ELSE count, kinds |-> kinds,
   source |-> source, element |-> 0, push |-> 0, record |-> 0, bytes |-> 0, sampler |-> 0]

HeapMappings ==
  <<Mapping(HeapSet, ResourceHeapBinding, 1, ResourceKinds, "Heap"),
    Mapping(HeapSet, SamplerHeapBinding, 1, SamplerKinds, "Heap"),
    Mapping(HeapSet, CounterHeapBinding, 1, ResourceKinds, "Heap")>>

AddressMapping(d, a) ==
  LET Of(kinds, source) == [Mapping(a.set, a.binding, a.count, kinds, source) EXCEPT
                              !.push = AddressOffset(d, a), !.record = a.record]
  IN CASE a.source = "slot" ->
            [Mapping(a.set, a.binding, a.count, ResourceKinds \cup SamplerKinds, "Heap")
               EXCEPT !.element = a.binding]
       [] a.source = "indirect" -> Of({"uniform"}, "BufferIndirectAddress")
       [] a.source = "push" -> Of({"uniform"}, "BufferPushAddress")
       [] OTHER -> Of(IF a.samplers THEN SamplerKinds ELSE ResourceKinds, "HeapIndirect")

RangeMapping(d, i) ==
  LET r == d.ranges[i]
  IN [Mapping(r.set, r.binding, 1, {"uniform"}, IF r.emulated THEN "BufferPushAddress" ELSE "PushData")
        EXCEPT !.push = ByteOffset(d, i), !.bytes = IF r.emulated THEN 0 ELSE StorageBytes(r)]

SamplerMapping(d, i) ==
  LET s == d.samplers[i]
  IN [Mapping(s.set, s.binding, s.count, SamplerKinds, "StaticSampler") EXCEPT !.sampler = i]

Plan(d, stage) ==
  LET visible == SelectSeq(d.addresses, LAMBDA a : stage \in a.visible)
  IN HeapMappings
     \o [i \in DOMAIN visible |-> AddressMapping(d, visible[i])]
     \o [i \in DOMAIN d.ranges |-> RangeMapping(d, i)]
     \o [i \in DOMAIN d.samplers |-> SamplerMapping(d, i)]
=============================================================================

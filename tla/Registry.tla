------------------------------ MODULE Registry ------------------------------
(***************************************************************************)
(* VulkanRegistry<T> (rhi_vulkan.h): the objects of one kind that a Vulkan *)
(* device holds, and the handles its callers name them by.  An index is    *)
(* used again for another object, with the next generation; a handle       *)
(* resolves as long as its object lives.  Each operation holds the         *)
(* registry's lock from beginning to end.                                  *)
(***************************************************************************)
EXTENDS Integers, Sequences

NoObject == "none"

EmptyRegistry == [slots |-> <<>>, freelist |-> <<>>]

Handle(index, generation) == [index |-> index, generation |-> generation]

(* get() of the handle finds an object. *)
Resolves(r, h) ==
  /\ h.index \in DOMAIN r.slots
  /\ r.slots[h.index].alive
  /\ r.slots[h.index].generation = h.generation

Object(r, h) == r.slots[h.index].obj

(* The handle the next alloc() returns. *)
NextHandle(r) ==
  IF r.freelist = <<>> THEN Handle(Len(r.slots) + 1, 1)
  ELSE LET index == r.freelist[Len(r.freelist)]
       IN Handle(index, r.slots[index].generation + 1)

(* The registry after alloc(obj): the index freed last is used again.      *)
Alloc(r, obj) ==
  LET h == NextHandle(r)
      slot == [obj |-> obj, generation |-> h.generation, alive |-> TRUE]
  IN IF r.freelist = <<>>
       THEN [r EXCEPT !.slots = Append(@, slot)]
       ELSE [slots |-> [r.slots EXCEPT ![h.index] = slot],
             freelist |-> SubSeq(r.freelist, 1, Len(r.freelist) - 1)]

(* free(handle) *)
Free(r, h) ==
  IF Resolves(r, h)
    THEN [slots |-> [r.slots EXCEPT ![h.index].alive = FALSE, ![h.index].obj = NoObject],
          freelist |-> Append(r.freelist, h.index)]
    ELSE r
=============================================================================

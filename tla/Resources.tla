----------------------------- MODULE Resources -----------------------------
(***************************************************************************)
(* Memory of a Vulkan device (rhi_vulkan.cpp): heaps, buffers and textures *)
(* with memory of their own or placed in a heap, those imported from the   *)
(* host or from D3D12, and the mappings of memory that placed buffers      *)
(* share.                                                                  *)
(*                                                                         *)
(* deviceMemoryMutex is held over each call that maps, unmaps or frees, so *)
(* a call is one action.  The driver may fail at each step of a creation.  *)
(* What Vulkan asks of the calls it gets is recorded in "misuse".          *)
(*                                                                         *)
(* What the callers keep to: a heap is destroyed after what is placed in   *)
(* it, and two threads do not call on one resource while it is destroyed.  *)
(* They may unmap more often than they mapped, and use stale handles.      *)
(***************************************************************************)
EXTENDS Naturals, FiniteSets, FiniteSetsExt, Functions, TLC

CONSTANTS
  Handles, Heaps,          \* handles of resources and of heaps
  Objects, HostObjects,    \* VkBuffers and VkImages; those the host of the device made
  Memories,                \* the VkDeviceMemory handles the driver has
  Types, Visible,          \* memory types, and those that are HOST_VISIBLE
  BufferTypes, ImageTypes, \* the memory types the driver lets each kind have
  Sizes, HeapSizes, Offsets, Alignment,
  MaxMaps,                 \* bounds a resource's mapRefCount
  None,
  Adopted,                 \* whether the device is the host's, who may destroy it first
  DestroyedBeforeShutdown  \* whether callers go on destroying objects of such a device

ResourcesAssumption ==
  /\ HostObjects \subseteq Objects /\ IsFiniteSet(HostObjects) /\ Visible \subseteq Types
  /\ BufferTypes \subseteq Types /\ ImageTypes \subseteq Types
  /\ Sizes \subseteq Nat \ {0} /\ HeapSizes \subseteq Nat \ {0} /\ Offsets \subseteq Nat
  /\ Alignment \in Nat \ {0} /\ MaxMaps \in Nat
  /\ None \notin Objects \cup Memories
  /\ Adopted \in BOOLEAN /\ DestroyedBeforeShutdown \in BOOLEAN

VARIABLES
  resources,  \* [live handle -> VulkanResource]
  heaps,      \* [live heap -> its memory]
  objects,    \* the VkBuffers and VkImages that exist
  memory,     \* [allocated memory -> [size, type]]
  mapped,     \* memory the driver has mapped
  mappings,   \* hostMemoryMappings: [memory -> refCount]
  device,     \* "live", "lost" (the host destroyed it) or "down"
  misuse      \* what calls have done that Vulkan does not allow

driver == <<objects, memory, mapped, mappings, misuse>>
vars == <<resources, heaps, objects, memory, mapped, mappings, device, misuse>>

Drop(f, x) == [y \in DOMAIN f \ {x} |-> f[y]]
Set(f, x, value) == [y \in DOMAIN f \cup {x} |-> IF y = x THEN value ELSE f[y]]
(* A handle that the driver gives is one it has taken back, if there is    *)
(* any: it gives the first that is unused.                                 *)
First(s) == {x \in s : x = CHOOSE y \in s : TRUE}
Free == First(Objects \ objects)
Unused == First(Memories \ DOMAIN memory)

TypesOf(kind) == IF kind = "buffer" THEN BufferTypes ELSE ImageTypes

(* What is wrong with a call: any call is, on a device its host destroyed. *)
Wrong(dead, allowed, what) ==
  IF dead THEN {"dead device"} ELSE IF allowed THEN {} ELSE {what}
Dead == device = "lost"
-----------------------------------------------------------------------------
Init ==
  /\ resources = <<>> /\ heaps = <<>>
  /\ objects = HostObjects
  /\ memory = <<>> /\ mapped = {} /\ mappings = <<>>
  /\ device = "live"
  /\ misuse = {}

(* VkFindMemoryTypeIndex: a type among "bits" with the required property;  *)
(* there may be none.                                                      *)
TypesFound(bits, hostVisible) ==
  {t \in bits : hostVisible => t \in Visible}

(* The objects a creation has made when its call at "step" fails... *)
Made(step, o, m) ==
  [objects |-> IF step = "create" THEN {} ELSE {o},
   memory |-> IF step = "bind" THEN {m} ELSE {}]

(* ... and those its error path destroys. *)
Undone(step, o, m) ==
  [objects |-> IF step = "create" THEN {} ELSE {o},
   memory |-> IF step = "bind" THEN {m} ELSE {}]

CreationFails(steps, size, type) ==
  \E step \in steps, o \in Free, m \in Unused :
    LET made == Made(step, o, m)
        undone == Undone(step, o, m)
    IN /\ objects' = objects \cup (made.objects \ undone.objects)
       /\ memory' = [n \in DOMAIN memory \cup (made.memory \ undone.memory) |->
                       IF n \in DOMAIN memory THEN memory[n] ELSE [size |-> size, type |-> type]]
       /\ UNCHANGED <<resources, heaps, mapped, mappings, device, misuse>>

Resource(o, m, offset, size, visible, ownsObject, ownsMemory) ==
  [object |-> o, memory |-> m, offset |-> offset, size |-> size, visible |-> visible,
   ownsObject |-> ownsObject, ownsMemory |-> ownsMemory, maps |-> 0]

(* d_createCommittedBuffer and d_createCommittedTexture, and the imports   *)
(* of D3D12 resources, whose memory is dedicated and never mapped.         *)
CreateCommitted(r) ==
  /\ device = "live" /\ r \notin DOMAIN resources
  /\ \E kind \in {"buffer", "image"}, size \in Sizes, upload \in BOOLEAN, imported \in BOOLEAN :
       \E t \in Types :
         /\ upload => kind = "buffer" /\ ~ imported
         /\ \/ /\ t \in TypesFound(TypesOf(kind), upload)
               /\ \E o \in Free, m \in Unused :
                    /\ objects' = objects \cup {o}
                    /\ memory' = Set(memory, m, [size |-> size, type |-> t])
                    /\ resources' = Set(resources, r, Resource(o, m, 0, size,
                         kind = "buffer" /\ ~ imported /\ t \in Visible, TRUE, TRUE))
                    /\ UNCHANGED <<heaps, mapped, mappings, device, misuse>>
            \/ /\ TypesFound(TypesOf(kind), upload) # {}
               /\ CreationFails({"create", "allocate", "bind"}, size, t)
            \/ /\ TypesFound(TypesOf(kind), upload) = {}
               /\ CreationFails({"create", "type"}, size, t)

(* d_createHeap and import_d3d12_heap. *)
CreateHeap(h) ==
  /\ device = "live" /\ h \notin DOMAIN heaps
  /\ \E m \in Unused, size \in HeapSizes, upload \in BOOLEAN :
       \E t \in TypesFound(Types, upload) :
         /\ memory' = Set(memory, m, [size |-> size, type |-> t])
         /\ heaps' = Set(heaps, h, m)
  /\ UNCHANGED <<resources, objects, mapped, mappings, device, misuse>>

(* The checks against the requirements of the new object. *)
Fits(m, kind, offset, size) ==
  /\ memory[m].type \in TypesOf(kind)
  /\ offset % Alignment = 0
  /\ offset + size <= memory[m].size

(* vkBindBufferMemory and vkBindImageMemory ask for the same themselves. *)
Binds(m, kind, offset, size) ==
  /\ memory[m].type \in TypesOf(kind)
  /\ offset % Alignment = 0
  /\ offset + size <= memory[m].size

(* d_createPlacedTexture and d_createPlacedBuffer, in the heap h. *)
CreatePlaced(r, h) ==
  /\ device = "live" /\ r \notin DOMAIN resources /\ h \in DOMAIN heaps
  /\ \E kind \in {"buffer", "image"}, offset \in Offsets, size \in Sizes :
       LET m == heaps[h]
       IN \/ /\ Fits(m, kind, offset, size)
             /\ \E o \in Free :
                  /\ objects' = objects \cup {o}
                  /\ resources' = Set(resources, r, Resource(o, m, offset, size,
                       kind = "buffer" /\ memory[m].type \in Visible, TRUE, FALSE))
                  /\ misuse' = misuse \cup Wrong(Dead, Binds(m, kind, offset, size), "bound outside its memory")
             /\ UNCHANGED <<heaps, memory, mapped, mappings, device>>
          \/ /\ ~ Fits(m, kind, offset, size)
             /\ CreationFails({"type"}, size, memory[m].type)

(* import_image and import_buffer: the host keeps the object. *)
Import(r) ==
  /\ device = "live" /\ r \notin DOMAIN resources
  /\ \E o \in HostObjects :
       resources' = Set(resources, r, Resource(o, None, 0, 1, FALSE, FALSE, FALSE))
  /\ UNCHANGED <<heaps, device>> /\ UNCHANGED driver
-----------------------------------------------------------------------------
(* Whether Map must have the driver map the memory: no entry was there. *)
NeedsMapping(m) == m \notin DOMAIN mappings

(* buf_map of a buffer's bytes from "offset" on. *)
Map(r, offset, size) ==
  /\ device = "live" /\ r \in DOMAIN resources
  /\ LET s == resources[r] m == s.memory
     IN /\ m # None /\ s.visible
        /\ offset <= s.size /\ size <= s.size - offset
        /\ s.maps < MaxMaps
        /\ IF NeedsMapping(m)
             THEN /\ mapped' = mapped \cup {m}
                  /\ misuse' = misuse \cup Wrong(Dead, m \notin mapped, "mapped twice")
             ELSE UNCHANGED <<mapped, misuse>>
        /\ mappings' = Set(mappings, m, 1 + IF m \in DOMAIN mappings THEN mappings[m] ELSE 0)
        /\ resources' = [resources EXCEPT ![r].maps = @ + 1]
  /\ UNCHANGED <<heaps, objects, memory, device>>

(* Whether callers still call: they may not stop when the host's device is *)
(* gone.                                                                   *)
CallsGoOn == device = "live" \/ (device = "lost" /\ DestroyedBeforeShutdown)

(* What the early returns of buf_unmap leave. *)
MayUnmap(s) == s.memory # None /\ s.maps > 0

Unmap(r) ==
  /\ r \in DOMAIN resources /\ CallsGoOn
  /\ LET s == resources[r] m == s.memory
     IN /\ MayUnmap(s)
        /\ IF m \notin DOMAIN mappings
             THEN /\ resources' = [resources EXCEPT ![r].maps = 0]
                  /\ UNCHANGED <<mapped, mappings, misuse>>
             ELSE /\ resources' = [resources EXCEPT ![r].maps = IF @ = 0 THEN 0 ELSE @ - 1]
                  /\ IF mappings[m] = 1
                       THEN /\ mappings' = Drop(mappings, m)
                            /\ mapped' = mapped \ {m}
                            /\ misuse' = misuse \cup Wrong(Dead, m \in mapped, "unmapped twice")
                       ELSE /\ mappings' = [mappings EXCEPT ![m] = @ - 1]
                            /\ UNCHANGED <<mapped, misuse>>
  /\ UNCHANGED <<heaps, objects, memory, device>>
-----------------------------------------------------------------------------
Now ==
  [objects |-> objects, memory |-> memory, mapped |-> mapped, mappings |-> mappings, misuse |-> misuse,
   dead |-> Dead]
Becomes(v) ==
  /\ objects' = v.objects /\ memory' = v.memory
  /\ mapped' = v.mapped /\ mappings' = v.mappings /\ misuse' = v.misuse

(* Fault: a destroyed resource gives back one of its mappings. *)
Released_One(v, s) == IF v.mappings[s.memory] > 1 THEN 1 ELSE v.mappings[s.memory]

(* The mappings of its memory that a destroyed resource gives back. *)
Released(v, s) == IF s.maps < v.mappings[s.memory] THEN s.maps ELSE v.mappings[s.memory]

Unmapped(v, s) ==
  LET m == s.memory
      left == v.mappings[m] - Released(v, s)
  IN IF m = None \/ s.maps = 0 \/ m \notin DOMAIN v.mappings THEN v
     ELSE IF left > 0 THEN [v EXCEPT !.mappings[m] = left]
     ELSE [v EXCEPT !.mappings = Drop(@, m), !.mapped = @ \ {m},
                    !.misuse = @ \cup Wrong(v.dead, m \in v.mapped, "unmapped twice")]

(* Memory that is freed is no longer mapped. *)
MemoryFreed(v, m) ==
  [v EXCEPT !.memory = Drop(@, m), !.mapped = @ \ {m},
            !.misuse = @ \cup Wrong(v.dead, m \in DOMAIN v.memory, "freed twice")]

ObjectDestroyed(v, o) ==
  [v EXCEPT !.objects = @ \ {o},
            !.misuse = @ \cup Wrong(v.dead, o \in v.objects, "destroyed twice")]

(* VkDestroyResource. *)
Destroyed(v, s) ==
  LET unmapped == Unmapped(v, s)
      gone == IF s.ownsObject THEN ObjectDestroyed(unmapped, s.object) ELSE unmapped
  IN IF s.ownsMemory THEN MemoryFreed(gone, s.memory) ELSE gone

(* d_destroyBuffer and d_destroyTexture; Descriptors has the views. *)
DestroyResource(r) ==
  /\ r \in DOMAIN resources /\ CallsGoOn
  /\ Becomes(Destroyed(Now, resources[r]))
  /\ resources' = Drop(resources, r)
  /\ UNCHANGED <<heaps, device>>

DestroyHeap(h) ==
  /\ h \in DOMAIN heaps /\ CallsGoOn
  /\ \A r \in DOMAIN resources : resources[r].memory # heaps[h]
  /\ Becomes(MemoryFreed(Now, heaps[h]))
  /\ heaps' = Drop(heaps, h)
  /\ UNCHANGED <<resources, device>>

(* The host destroys its device and says so: abandon_device.  What it had  *)
(* allocated is gone with it.                                              *)
Abandon ==
  /\ Adopted /\ device = "live"
  /\ device' = "lost"
  /\ objects' = {} /\ memory' = <<>> /\ mapped' = {}
  /\ UNCHANGED <<resources, heaps, mappings, misuse>>

(* VulkanDevice::Shutdown: resources first, then heaps; on a lost device   *)
(* only the registries are cleared.                                        *)
Shutdown ==
  /\ device # "down"
  /\ device' = "down"
  /\ IF device = "lost" THEN UNCHANGED driver
     ELSE LET free(m, v) == MemoryFreed(v, m)
              destroy(s, v) == Destroyed(v, s)
          IN Becomes(FoldSet(free, FoldSet(destroy, Now, Range(resources)), Range(heaps)))
  /\ resources' = <<>> /\ heaps' = <<>>

Done == device = "down" /\ UNCHANGED vars

Next ==
  \/ \E r \in Handles :
       \/ CreateCommitted(r)
       \/ \E h \in Heaps : CreatePlaced(r, h)
       \/ Import(r)
       \/ \E offset \in {0, 1}, size \in {0, 1} : Map(r, offset, size)
       \/ Unmap(r)
       \/ DestroyResource(r)
  \/ \E h \in Heaps : CreateHeap(h) \/ DestroyHeap(h)
  \/ Abandon
  \/ Shutdown
  \/ Done

Spec == Init /\ [][Next]_vars

Symmetry ==
  UNION {Permutations(s) : s \in {Handles, Heaps, Objects \ HostObjects, Memories}}
-----------------------------------------------------------------------------
(* What a resource holds is in range, and no action reaches a state the    *)
(* records of the code could not represent; MappingsExact includes this.   *)
TypeOK ==
  /\ DOMAIN resources \subseteq Handles /\ DOMAIN heaps \subseteq Heaps
  /\ \A r \in DOMAIN resources :
       resources[r] \in
         [object : Objects, memory : Memories \cup {None}, offset : Nat, size : Nat, visible : BOOLEAN,
          ownsObject : BOOLEAN, ownsMemory : BOOLEAN, maps : 0 .. MaxMaps]
  /\ objects \subseteq Objects /\ mapped \subseteq DOMAIN memory
  /\ \A m \in DOMAIN memory : memory[m] \in [size : Nat, type : Types]
  /\ \A m \in DOMAIN mappings : mappings[m] \in Nat \ {0}
  /\ device \in {"live", "lost", "down"}

On(m) == {r \in DOMAIN resources : resources[r].memory = m}

(* The count of a memory's mappings is what its live resources hold, and   *)
(* the driver has it mapped exactly while there is one: no pointer that    *)
(* buf_map handed out for one placed buffer dies because another buffer on *)
(* the memory was unmapped, unmapped too often or destroyed.               *)
MappingsExact ==
  /\ TypeOK
  /\ device = "live" =>
       \A m \in DOMAIN memory :
         LET held == MapThenSumSet(LAMBDA r : resources[r].maps, On(m))
         IN /\ (m \in DOMAIN mappings) = (held > 0)
            /\ m \in DOMAIN mappings => mappings[m] = held
            /\ (m \in mapped) = (held > 0)

(* Every object and every memory that exists belongs to one live handle,   *)
(* after any sequence of failed creations, and after Shutdown there are    *)
(* none but the host's, which only the host destroys.                      *)
NothingLeaked ==
  LET ownedObjects == {r \in DOMAIN resources : resources[r].ownsObject}
      ownedMemory == {r \in DOMAIN resources : resources[r].ownsMemory}
  IN CASE device = "live" ->
            /\ objects = HostObjects \cup {resources[r].object : r \in ownedObjects}
            /\ Cardinality(objects) = Cardinality(HostObjects) + Cardinality(ownedObjects)
            /\ DOMAIN memory = {resources[r].memory : r \in ownedMemory} \cup Range(heaps)
            /\ Cardinality(DOMAIN memory) = Cardinality(ownedMemory) + Cardinality(DOMAIN heaps)
       [] device = "down" -> objects \subseteq HostObjects /\ memory = <<>> /\ mapped = {}
       [] OTHER -> TRUE

(* No call of the backend's asks the driver for what Vulkan forbids: map   *)
(* what is mapped, unmap what is not, destroy or free twice, or bind where *)
(* the memory does not reach, on a device that exists.                     *)
CallsValid == misuse \subseteq {"dead device"}

(* Once the host has destroyed an adopted device and called                *)
(* abandon_device, no Vulkan handle is touched any more.                   *)
AbandonedUntouched == "dead device" \notin misuse
=============================================================================

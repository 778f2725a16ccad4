---------------------------- MODULE Descriptors ----------------------------
(***************************************************************************)
(* Descriptor slots of a Vulkan device (rhi_vulkan.cpp): which views hang  *)
(* on which resource, through views written and rewritten, resources,      *)
(* heaps and the swapchain created, destroyed and resized, and the sampler *)
(* cache of the descriptor-buffer model.                                   *)
(*                                                                         *)
(* descriptorViewsMutex is held within single actions.  Destroying a       *)
(* resource takes it twice and the registry's lock once, so other threads  *)
(* come in between: those are the steps of a call.                         *)
(*                                                                         *)
(* What the callers keep to: nobody makes a view of a resource being       *)
(* destroyed, and one call at a time works on the swapchain.  A handle of  *)
(* a resource long destroyed may be passed to any of them.                 *)
(***************************************************************************)
EXTENDS Registry, FiniteSets, FiniteSetsExt, Functions, TLC

CONSTANTS
  Threads,
  Heaps, Slots, HeapOf,     \* heaps of view descriptors; [slot -> its heap]
  SamplerSlots,             \* the slots of the one sampler heap
  Descriptions,             \* distinct sampler descriptions
  SamplerBudget,            \* samplerBudget: VkSamplers the cache may hold
  ImageCount,               \* images of a swapchain
  NoSlot, NoSampler,
  ViewsKeptAcrossResize,    \* whether views of its images exist when it is resized
  MaxResources, MaxGeneration, MaxHandles
    \* bound the registry, the reuse of an index and the handles given out

ASSUME DescriptorsAssumption ==
  /\ HeapOf \in [Slots -> Heaps] /\ IsFiniteSet(Slots)
  /\ IsFiniteSet(SamplerSlots) /\ IsFiniteSet(Descriptions)
  /\ NoSlot \notin Slots /\ NoSampler \notin Descriptions
  /\ ImageCount \in Nat \ {0}
  /\ SamplerBudget \in Nat
  /\ MaxResources \in Nat /\ MaxGeneration \in Nat
  /\ ViewsKeptAcrossResize \in BOOLEAN

VARIABLES
  resources,  \* the registry of resources; an object is its firstDescriptorView
  slot,       \* [slot -> [resource, previous, next]], resource empty: not linked
  heaps,      \* the heaps that exist
  sampler,    \* [sampler slot -> description of its sampler]
  cache,      \* [description -> references to its VkSampler, 0: there is none]
  owned,      \* handles of the callers' buffers and textures
  images,     \* imageHandles of the swapchain, empty: there is none
  call        \* [thread -> the destruction or resize it is in]

views == <<resources, slot>>
samplers == <<sampler, cache>>
vars == <<resources, slot, heaps, sampler, cache, owned, images, call>>

NoResource == Handle(0, 0)
EmptySlot == [resource |-> NoResource, previous |-> NoSlot, next |-> NoSlot]
Idle == [step |-> "idle"]
At(t, step) == call[t].step = step
Linked(s) == slot[s].resource # NoResource

(* Handles that callers have been given, resolving or not, and that are    *)
(* not being destroyed.                                                    *)
InUse == UNION {Range(call[t].todo) \cup Range(call[t].restore) : t \in {u \in Threads : ~ At(u, "idle")}}
OnSwapchain == {t \in Threads : ~ At(t, "idle") /\ call[t].swapchain}
Usable ==
  {Handle(i, g) : i \in DOMAIN resources.slots, g \in 1 .. MaxGeneration}
    \ (InUse \cup IF OnSwapchain = {} THEN {} ELSE Range(images))
-----------------------------------------------------------------------------
(* Fault: the head of the list is not moved on. *)
Reset_KeepsHead(v, s) ==
  LET d == v.slot[s]
      linked == d.resource # NoResource
  IN [resources |-> v.resources,
      slot |-> [t \in Slots |->
        IF t = s THEN EmptySlot
        ELSE [v.slot[t] EXCEPT
                !.next = IF linked /\ t = d.previous THEN d.next ELSE @,
                !.previous = IF linked /\ t = d.next THEN d.previous ELSE @]]]

(* VkResetDescriptorSlot.  A slot that is first on its list writes to the  *)
(* registry's slot it points to, whatever object lives there by now.       *)
Reset(v, s) ==
  LET d == v.slot[s]
      linked == d.resource # NoResource
  IN [resources |->
        IF linked /\ d.previous = NoSlot
          THEN [v.resources EXCEPT !.slots[d.resource.index].obj = d.next]
          ELSE v.resources,
      slot |-> [t \in Slots |->
        IF t = s THEN EmptySlot
        ELSE [v.slot[t] EXCEPT
                !.next = IF linked /\ t = d.previous THEN d.next ELSE @,
                !.previous = IF linked /\ t = d.next THEN d.previous ELSE @]]]

(* VkLinkDescriptorSlot, of a slot that was reset. *)
Link(v, s, h) ==
  LET first == Object(v.resources, h)
  IN [resources |-> [v.resources EXCEPT !.slots[h.index].obj = s],
      slot |-> [t \in Slots |->
        IF t = s THEN [resource |-> h, previous |-> NoSlot, next |-> first]
        ELSE IF t = first THEN [v.slot[t] EXCEPT !.previous = s]
        ELSE v.slot[t]]]

Now == [resources |-> resources, slot |-> slot]
Becomes(v) == resources' = v.resources /\ slot' = v.slot

(* Fault: only the first view is released. *)
Released_First(h) ==
  LET first == Object(resources, h)
  IN IF Resolves(resources, h) /\ first # NoSlot THEN Reset(Now, first) ELSE Now

(* VkReleaseViewsForResource: slots are reset while there is a first one.  *)
Released(h) ==
  LET reset[n \in 0 .. Cardinality(Slots)] ==
        IF n = 0 THEN Now
        ELSE LET v == reset[n - 1]
             IN IF Object(v.resources, h) = NoSlot THEN v ELSE Reset(v, Object(v.resources, h))
  IN IF Resolves(resources, h) THEN reset[Cardinality(Slots)] ELSE Now
-----------------------------------------------------------------------------
Init ==
  /\ resources = EmptyRegistry
  /\ slot = [s \in Slots |-> EmptySlot]
  /\ heaps = Heaps
  /\ sampler = [s \in SamplerSlots |-> NoSampler]
  /\ cache = [d \in Descriptions |-> 0]
  /\ owned = {}
  /\ images = <<>>
  /\ call = [t \in Threads |-> Idle]

HasRoom ==
  LET h == NextHandle(resources)
  IN /\ h.index <= MaxResources /\ h.generation <= MaxGeneration
     /\ FoldFunction(LAMBDA r, n : r.generation + n, 0, resources.slots) < MaxHandles

CreateResource ==
  /\ HasRoom
  /\ resources' = Alloc(resources, NoSlot)
  /\ owned' = owned \cup {NextHandle(resources)}
  /\ UNCHANGED <<slot, heaps, samplers, images, call>>

(* A view of h is written to slot s, and may fail once the slot is reset.  *)
(* Calls that fail earlier change nothing, as do stale handles.            *)
CreateView(s, h) ==
  /\ HeapOf[s] \in heaps /\ Resolves(resources, h)
  /\ \/ Becomes(Reset(Now, s))
     \/ Becomes(Link(Reset(Now, s), s, h))
  /\ UNCHANGED <<heaps, samplers, owned, images, call>>

(* A null view or an acceleration structure, which hangs on no resource.   *)
CreateNullView(s) ==
  /\ HeapOf[s] \in heaps
  /\ Becomes(Reset(Now, s))
  /\ UNCHANGED <<heaps, samplers, owned, images, call>>

CreateDescriptorHeap(g) ==
  /\ g \notin heaps
  /\ heaps' = heaps \cup {g}
  /\ UNCHANGED <<views, samplers, owned, images, call>>

DestroyDescriptorHeap(g) ==
  /\ g \in heaps
  /\ Becomes(FoldSet(LAMBDA s, v : Reset(v, s), Now,
                     {s \in Slots : HeapOf[s] = g}))
  /\ heaps' = heaps \ {g}
  /\ UNCHANGED <<samplers, owned, images, call>>
-----------------------------------------------------------------------------
(* VkReleaseCachedSampler of the sampler in slot s, if it has one. *)
ReleasedCache(s) ==
  [d \in Descriptions |-> IF d = sampler[s] THEN cache[d] - 1 ELSE cache[d]]

Distinct(c) == Cardinality({d \in DOMAIN c : c[d] > 0})

(* Fault: the budget counts references, not samplers. *)
CanAcquire_AnyReference(c, d) == c[d] > 0 \/ Distinct(c) <= SamplerBudget

CanAcquire(c, d) == c[d] > 0 \/ Distinct(c) < SamplerBudget

(* d_createSampler in the descriptor-buffer model: the slot is reset, the  *)
(* cache's sampler taken or created, and released again if the descriptor  *)
(* cannot be written.                                                      *)
CreateSampler(s, d) ==
  LET reset == ReleasedCache(s)
  IN \/ /\ CanAcquire(reset, d)
        /\ cache' = [reset EXCEPT ![d] = @ + 1]
        /\ sampler' = [sampler EXCEPT ![s] = d]
     \/ /\ cache' = reset
        /\ sampler' = [sampler EXCEPT ![s] = NoSampler]

(* The sampler heap is destroyed, and created again. *)
DestroySamplerHeap ==
  /\ sampler' = [s \in SamplerSlots |-> NoSampler]
  /\ cache' = [d \in Descriptions |->
                 cache[d] - Cardinality({s \in SamplerSlots : sampler[s] = d})]

WriteSamplers ==
  /\ \/ \E s \in SamplerSlots, d \in Descriptions : CreateSampler(s, d)
     \/ DestroySamplerHeap
  /\ UNCHANGED <<views, heaps, owned, images, call>>
-----------------------------------------------------------------------------
(* A call that destroys the resources of todo one by one, and leaves the   *)
(* swapchain the images restore if it is one that works on it.             *)
Destroying(step, todo, swapchain, restore) ==
  IF todo = <<>> THEN Idle
  ELSE [step |-> step, releases |-> step = "releasing",
        todo |-> todo, swapchain |-> swapchain, restore |-> restore]

(* d_destroyBuffer, d_destroyTexture *)
DestroyBuffer(t) ==
  /\ At(t, "idle")
  /\ \E h \in owned :
       /\ owned' = owned \ {h}
       /\ call' = [call EXCEPT ![t] = Destroying("releasing", <<h>>, FALSE, <<>>)]
  /\ UNCHANGED <<views, heaps, samplers, images>>

DestroySwapchain(t) ==
  /\ At(t, "idle") /\ OnSwapchain = {} /\ images # <<>>
  /\ call' = [call EXCEPT ![t] = Destroying("releasing", images, TRUE, <<>>)]
  /\ UNCHANGED <<views, heaps, samplers, owned, images>>

ReleaseViews(t) ==
  /\ At(t, "releasing")
  /\ Becomes(Released(Head(call[t].todo)))
  /\ call' = [call EXCEPT ![t].step = "destroying"]
  /\ UNCHANGED <<heaps, samplers, owned, images>>

(* VkDestroyResource: the object is as new, its list of views included.    *)
DestroyResource(t) ==
  /\ At(t, "destroying")
  /\ LET h == Head(call[t].todo)
     IN resources' = IF Resolves(resources, h)
                       THEN [resources EXCEPT !.slots[h.index].obj = NoSlot]
                       ELSE resources
  /\ call' = [call EXCEPT ![t].step = "freeing"]
  /\ UNCHANGED <<slot, heaps, samplers, owned, images>>

(* The handle is freed, and the next resource is next. *)
FreeHandle(t) ==
  LET rest == Tail(call[t].todo)
  IN /\ At(t, "freeing")
     /\ resources' = Free(resources, Head(call[t].todo))
     /\ call' = [call EXCEPT ![t] =
                   IF rest = <<>> THEN Idle
                   ELSE [@ EXCEPT !.todo = rest,
                                  !.step = IF call[t].releases THEN "releasing" ELSE "destroying"]]
     /\ images' = IF rest = <<>> /\ call[t].swapchain THEN call[t].restore ELSE images
     /\ UNCHANGED <<slot, heaps, samplers, owned>>

(* VkCreateOrResizeSwapchain, once the old handles are put aside. *)
ResizeSwapchain(t) ==
  /\ At(t, "idle") /\ OnSwapchain = {}
  /\ ViewsKeptAcrossResize \/ \A s \in Slots : slot[s].resource \notin Range(images)
  /\ call' = [call EXCEPT ![t] = [step |-> "populating", todo |-> <<>>, swapchain |-> TRUE,
                                  restore |-> images]]
  /\ images' = <<>>
  /\ UNCHANGED <<views, heaps, samplers, owned>>

PopulateImage(t) ==
  /\ At(t, "populating") /\ Len(images) < ImageCount /\ HasRoom
  /\ resources' = Alloc(resources, NoSlot)
  /\ images' = Append(images, NextHandle(resources))
  /\ UNCHANGED <<slot, heaps, samplers, owned, call>>

(* The images are there, and the old ones are destroyed. *)
ResizeSucceeds(t) ==
  /\ At(t, "populating") /\ Len(images) = ImageCount
  /\ call' = [call EXCEPT ![t] = Destroying("destroying", @.restore, TRUE, images)]
  /\ UNCHANGED <<views, heaps, samplers, owned, images>>

(* The new swapchain or something it needs cannot be had: the images it    *)
(* has are released, and the old ones put back.                            *)
ResizeFails(t) ==
  /\ At(t, "populating") /\ Len(images) \in {0, ImageCount}
  /\ call' = [call EXCEPT ![t] = Destroying("releasing", images, TRUE, @.restore)]
  /\ images' = IF images = <<>> THEN call[t].restore ELSE images
  /\ UNCHANGED <<views, heaps, samplers, owned>>
-----------------------------------------------------------------------------
Next ==
  \/ CreateResource
  \/ \E s \in Slots : CreateNullView(s) \/ \E h \in Usable : CreateView(s, h)
  \/ \E g \in Heaps : CreateDescriptorHeap(g) \/ DestroyDescriptorHeap(g)
  \/ WriteSamplers
  \/ \E t \in Threads :
       \/ DestroyBuffer(t) \/ DestroySwapchain(t)
       \/ ReleaseViews(t) \/ DestroyResource(t) \/ FreeHandle(t)
       \/ ResizeSwapchain(t) \/ PopulateImage(t) \/ ResizeSucceeds(t) \/ ResizeFails(t)

Spec == Init /\ [][Next]_vars
-----------------------------------------------------------------------------
Handles == [index : 0 .. MaxResources, generation : 0 .. MaxGeneration]

(* Types of the variables; ListsExact includes them.                     *)
TypeOK ==
  /\ Len(resources.slots) <= MaxResources
  /\ \A i \in DOMAIN resources.slots :
       LET r == resources.slots[i]
       IN /\ r.generation \in 1 .. MaxGeneration /\ r.alive \in BOOLEAN
          /\ r.obj \in IF r.alive THEN Slots \cup {NoSlot} ELSE {NoObject}
  /\ slot \in [Slots -> [resource : Handles,
                         previous : Slots \cup {NoSlot}, next : Slots \cup {NoSlot}]]
  /\ heaps \subseteq Heaps
  /\ sampler \in [SamplerSlots -> Descriptions \cup {NoSampler}]
  /\ cache \in [Descriptions -> 0 .. Cardinality(SamplerSlots)]
  /\ owned \subseteq Handles
  /\ images \in [1 .. Len(images) -> Handles]

(* The slots that following nextResourceView from i's first view comes by. *)
ListOf(i) ==
  LET walk[n \in 0 .. Cardinality(Slots)] ==
        IF n = 0 THEN resources.slots[i].obj
        ELSE IF walk[n - 1] = NoSlot THEN NoSlot ELSE slot[walk[n - 1]].next
  IN {walk[n] : n \in DOMAIN walk} \ {NoSlot}

(* Every resource lists exactly the slots with a view of it, linked both   *)
(* ways: destroying it resets those, and only those.                       *)
ListsExact ==
  /\ TypeOK
  /\ \A i \in {j \in DOMAIN resources.slots : resources.slots[j].alive} :
       LET listed == ListOf(i)
       IN /\ listed = {s \in Slots : slot[s].resource.index = i}
          /\ \A s \in listed :
               IF slot[s].previous = NoSlot THEN resources.slots[i].obj = s
               ELSE slot[slot[s].previous].next = s

(* "a slot is reset when it is rewritten, when its resource is destroyed   *)
(* and when its heap is": no slot points to a resource that is gone, or to *)
(* the one that took its place, and no heap that is gone holds a view.     *)
ViewsOfLiveResources ==
  \A s \in Slots : Linked(s) => Resolves(resources, slot[s].resource) /\ HeapOf[s] \in heaps

(* The cache counts the slots with each sampler; it holds no VkSampler     *)
(* that none has, and no more of them than the device may have.            *)
SamplersExact ==
  /\ \A d \in Descriptions : cache[d] = Cardinality({s \in SamplerSlots : sampler[s] = d})
  /\ Distinct(cache) <= SamplerBudget

(* The images of the swapchain, save while a call destroys images: then    *)
(* the call knows which ones are left.                                     *)
Shown == IF \A t \in OnSwapchain : At(t, "populating") THEN Range(images) ELSE {}

(* Every resource alive belongs to someone: to a caller, to the swapchain  *)
(* or to a call that is to free it; and what belongs to someone is alive,  *)
(* across resizes that succeed and that fail.                              *)
ResourcesAccounted ==
  /\ \A i \in DOMAIN resources.slots :
       resources.slots[i].alive =>
         Handle(i, resources.slots[i].generation) \in owned \cup Shown \cup InUse
  /\ \A h \in owned \cup Shown \cup InUse : Resolves(resources, h)

(* Resources and their lists of views are exact: as above, together.       *)
ResourcesExact == ListsExact /\ ResourcesAccounted
=============================================================================

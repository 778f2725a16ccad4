---------------------------- MODULE Dx12Objects ----------------------------
(***************************************************************************)
(* The device of the D3D12 backend (rhi_dx12.cpp), its registries of       *)
(* resources, heaps, pipelines and other objects, the swapchain, whose     *)
(* back buffers are resources of the registry, and the views, from the     *)
(* creation of the device to Shutdown.  An object that D3D12 fails to make *)
(* is not registered; three failures that the code does not look at are    *)
(* the members of Unhandled.                                               *)
(*                                                                         *)
(* What the callers keep to: views fit their resources, heaps outlive what *)
(* is placed in them and buffers the acceleration structures they store,   *)
(* nothing is made after Shutdown, and offset and size of an acceleration  *)
(* structure do not overflow together.                                     *)
(***************************************************************************)
EXTENDS Naturals, Sequences, FiniteSets, SequencesExt

CONSTANTS
  None,
  Handles,          \* of all registries, numbers; one that was freed may come back
  Windows, Counts,  \* a swapchain is made for a window, of so many back buffers
  Sizes,            \* of buffers
  StreamDescs, RayTracingDescs, WorkGraphDescs, Geometries,
  Unhandled,        \* subset of {"queue", "back buffer", "placed buffer"}
  MaxObjects        \* bounds what callers own at once

VARIABLES
  phase,      \* of the device: "none", "up", "down"
  primary,    \* kinds whose queue was made with the device
  registry,   \* [live handle -> object]
  owned,      \* handles that callers have to destroy
  chains,     \* [window -> Dx12Swapchain], of those that are live
  misuse      \* calls of D3D12 and DXGI that are not legal

vars == <<phase, primary, registry, owned, chains, misuse>>

Kinds == {"graphics", "compute", "copy"}

Init ==
  /\ phase = "none" /\ primary = {}
  /\ registry = [h \in {} |-> None]
  /\ owned = {}
  /\ chains = [w \in {} |-> None]
  /\ misuse = {}

Set(f, x, y) == [z \in DOMAIN f \cup {x} |-> IF z = x THEN y ELSE f[z]]
Without(f, xs) == [z \in DOMAIN f \ xs |-> f[z]]
Live(h, kind) == h \in DOMAIN registry /\ registry[h].kind = kind
-----------------------------------------------------------------------------
(* The device.                                                             *)
(* CreateD3D12Device, without Streamline and GPU-Reshape.  A queue that    *)
(* cannot be made leaves an invalid handle.                                *)
CreateDevice ==
  /\ phase = "none"
  /\ primary' \in IF "queue" \in Unhandled THEN SUBSET Kinds ELSE {Kinds}
  /\ phase' = "up"
  /\ UNCHANGED <<registry, owned, chains, misuse>>

(* Shutdown drains the queues and clears the registries, all but that of   *)
(* the work graphs.                                                        *)
Shutdown ==
  /\ phase = "up"
  /\ misuse' = IF primary = Kinds THEN misuse ELSE misuse \cup {"drain"}
  /\ registry' = [h \in {g \in DOMAIN registry : registry[g].kind = "workGraph"} |-> registry[h]]
  /\ chains' = [w \in {} |-> None]
  /\ primary' = {} /\ phase' = "down"
  /\ UNCHANGED owned
-----------------------------------------------------------------------------
(* Objects.  alloc gives the first free handle; those that callers still   *)
(* have are not given again.                                               *)
Free(live) == Handles \ (live \cup owned)
Fresh(live, i) == CHOOSE h \in Free(live) : Cardinality({g \in Free(live) : g <= h}) = i

Creates(object) ==
  /\ phase = "up" /\ Cardinality(owned) < MaxObjects
  /\ Free(DOMAIN registry) # {}
  /\ LET h == Fresh(DOMAIN registry, 1)
     IN registry' = Set(registry, h, object) /\ owned' = owned \cup {h}
  /\ UNCHANGED <<phase, primary, chains, misuse>>

(* d_destroyBuffer, d_destroyPipeline and so on free the handle, which     *)
(* does nothing once Shutdown has cleared the registry.                    *)
Destroy ==
  /\ \E h \in owned :
       /\ \A g \in DOMAIN registry :
            /\ registry[g].kind = "resource" => registry[g].heap # h
            /\ registry[g].kind = "accelerationStructure" => registry[g].storage # h
       /\ registry' = Without(registry, {h})
       /\ owned' = owned \ {h}
  /\ UNCHANGED <<phase, primary, chains, misuse>>

(* Dx12Resource; res is its ID3D12Resource: its own, a back buffer of a    *)
(* window's swapchain, or none.                                            *)
Own == <<None, 0>>
NoRes == <<>>
Resource(buffer, size, uav, heap) ==
  [kind |-> "resource", buffer |-> buffer, size |-> size, uav |-> uav, heap |-> heap, res |-> Own]

CreateCommittedBuffer ==
  \E size \in Sizes, uav \in BOOLEAN : Creates(Resource(TRUE, size, uav, None))
CreateCommittedTexture == \E uav \in BOOLEAN : Creates(Resource(FALSE, 0, uav, None))

CreateHeap == Creates([kind |-> "heap"])

(* d_createPlacedBuffer registers a buffer that could not be made.         *)
CreatePlacedBuffer ==
  \E g \in Handles, size \in Sizes, res \in {Own} \cup (IF "placed buffer" \in Unhandled THEN {NoRes} ELSE {}) :
    Live(g, "heap") /\ Creates([Resource(TRUE, size, FALSE, g) EXCEPT !.res = res])
CreatePlacedTexture ==
  \E g \in Handles : Live(g, "heap") /\ Creates(Resource(FALSE, 0, FALSE, g))

(* dx12::import_resource *)
ImportResource == \E buffer \in BOOLEAN : Creates(Resource(buffer, IF buffer THEN Min(Sizes) ELSE 0, FALSE, None))

CreateTimeline == Creates([kind |-> "timeline"])

(* d_createQueryPool: statistics of mesh shaders where the device has them.*)
CreateQueryPool ==
  \E mesh, canMesh, all \in BOOLEAN :
    /\ ~ (mesh /\ ~ canMesh /\ all)
    /\ Creates([kind |-> "queryPool", statistics1 |-> mesh /\ canMesh])

CreateDescriptorHeap ==
  \E type \in {"resources", "samplers", "rtv", "dsv"} : Creates([kind |-> "descriptorHeap", type |-> type])

(* d_createPipelineLayout, see Dx12Commands.                               *)
CreatePipelineLayout == Creates([kind |-> "layout"])

(* d_getAccelerationStructurePrebuildInfo, when Dx12FillBuildInputs fills  *)
(* all geometries of s.                                                    *)
BufferAddress(h) == Live(h, "resource") /\ registry[h].res # NoRes /\ registry[h].buffer

Gives(call, legal) ==
  /\ phase = "up"
  /\ misuse' = IF legal THEN misuse ELSE misuse \cup {call}
  /\ UNCHANGED <<phase, primary, registry, owned, chains>>

BuildInputsFilled(s, buffer) ==
  /\ s.top => Len(s.geometries) = 1
  /\ s.geometries # <<>>
  /\ \A i \in DOMAIN s.geometries :
       LET g == s.geometries[i]
       IN /\ g.type \in (IF s.top THEN {"instances"} ELSE {"triangles", "aabbs"})
          /\ BufferAddress(buffer) /\ g.count # 0
          /\ g.indexed => g.indexBits \in {16, 32}

PrebuildInfo ==
  \E s \in Geometries, h \in Handles :
    /\ BuildInputsFilled(s, h)
    /\ Gives("prebuild", Live(h, "resource") /\ (s.top => s.geometries[1].type = "instances"))

CreateAccelerationStructure ==
  \E h \in Handles, offset \in {0} \cup Sizes, size \in Sizes :
    /\ BufferAddress(h) /\ offset + size <= registry[h].size
    /\ Creates([kind |-> "accelerationStructure", storage |-> h, offset |-> offset, size |-> size])

(* Dx12AccelerationStructureAddress # 0 *)
Located(h) == Live(h, "accelerationStructure") /\ BufferAddress(registry[h].storage)
-----------------------------------------------------------------------------
(* Pipelines and work graphs.                                              *)
RayTracingStages == {"raygen", "miss", "closesthit", "anyhit", "intersection", "callable"}
Pipeline == [kind |-> "pipeline", compute |-> FALSE, rayTracing |-> FALSE, library |-> FALSE, exports |-> <<>>]

LayoutLive(given) == given => \E y \in DOMAIN registry : registry[y].kind = "layout"

(* What d_createPipelineFromStream accepts. *)
StreamValid(d) ==
  LET stages == {d.shaders[i] : i \in DOMAIN d.shaders}
  IN /\ stages # {} /\ stages \cap (RayTracingStages \cup {"all", "allGraphics"}) = {}
     /\ "compute" \in stages => stages = {"compute"}

CreatePipelineFromStream ==
  \E d \in StreamDescs :
    /\ StreamValid(d) /\ LayoutLive(d.layout)
    /\ Creates([Pipeline EXCEPT !.compute = \E i \in DOMAIN d.shaders : d.shaders[i] = "compute"])

Export(group) == IF group.type = "general" /\ group.general # None THEN group.general ELSE group.name

RayTracingValid(d) ==
  /\ d.shaders # <<>> /\ d.groups # <<>>
  /\ \A i \in DOMAIN d.shaders : d.shaders[i] \in RayTracingStages
  /\ \A i \in DOMAIN d.groups : Export(d.groups[i]) # None

(* Dx12CreateRayTracingPipeline *)
CreateRayTracingPipeline ==
  \E d \in RayTracingDescs, l \in Handles \cup {None} :
    /\ RayTracingValid(d) /\ LayoutLive(d.layout)
    /\ IF d.linked THEN l # None /\ Live(l, "pipeline") /\ registry[l].library ELSE l = None
    /\ Creates([Pipeline EXCEPT !.rayTracing = TRUE, !.library = d.library,
                                !.exports = [i \in DOMAIN d.groups |-> Export(d.groups[i])]])

(* d_getRayTracingShaderGroupHandles: the groups asked for are looked up by*)
(* the names kept.                                                         *)
GroupHandles ==
  \E h \in DOMAIN registry, first, count \in 0 .. 2 :
    LET p == registry[h]
    IN /\ p.kind = "pipeline" /\ p.rayTracing
       /\ ~ (first > Len(p.exports) \/ count > Len(p.exports) - first)
       /\ Gives("group handles", \A i \in first + 1 .. first + count : p.exports[i] # None)

(* d_createWorkGraph; without an entry point it is dropped again.          *)
CreateWorkGraph ==
  \E d \in WorkGraphDescs :
    /\ d.libraries # <<>> /\ ~ d.rasterizesInOrder /\ LayoutLive(d.layout) /\ d.entries # 0
    /\ Creates([kind |-> "workGraph"])
-----------------------------------------------------------------------------
(* Views.  HasHeap is DxGetDstCpu.                                         *)
HasHeap(type) == \E h \in DOMAIN registry : registry[h] = [kind |-> "descriptorHeap", type |-> type]
HasResource(h) == Live(h, "resource") /\ registry[h].res # NoRes

(* d_createShaderResourceView: of nothing, a buffer or texture, or an      *)
(* acceleration structure.                                                 *)
ShaderResourceView ==
  /\ HasHeap("resources")
  /\ \/ \E buffer, format \in BOOLEAN : (buffer \/ format) /\ Gives("srv", buffer \/ format)
     \/ \E h \in Handles : HasResource(h) /\ Gives("srv", HasResource(h))
     \/ \E h \in Handles : Located(h) /\ Gives("srv", Live(registry[h].storage, "resource"))

UnorderedAccessView ==
  /\ HasHeap("resources")
  /\ \E h \in Handles, multisampled \in BOOLEAN :
       /\ HasResource(h) /\ registry[h].uav /\ ~ multisampled
       /\ Gives("uav", registry[h].uav)

(* d_createConstantBufferView does not look whether there is a resource.   *)
ConstantBufferView ==
  /\ HasHeap("resources")
  /\ \E h \in Handles : Live(h, "resource") /\ registry[h].buffer /\ Gives("cbv", HasResource(h))

Anisotropy(n) == IF n > 1 THEN Min({n, 16}) ELSE 1
CreateSampler ==
  /\ HasHeap("samplers") /\ \E n \in 0 .. 17 : Gives("sampler", Anisotropy(n) \in 1 .. 16)

RenderTargetView ==
  /\ HasHeap("rtv")
  /\ \E h \in Handles : HasResource(h) /\ ~ registry[h].buffer /\ Gives("rtv", registry[h].res # NoRes)

(* A texture whose resource is gone makes a null view.                     *)
DepthStencilView ==
  /\ HasHeap("dsv") /\ \E h \in Handles : Live(h, "resource") /\ ~ registry[h].buffer /\ Gives("dsv", TRUE)
-----------------------------------------------------------------------------
(* The swapchain.  images are the back buffers it holds, handles those of  *)
(* its resources, None where no back buffer was registered.                *)
BackBuffer(w, i) == [Resource(FALSE, 0, FALSE, None) EXCEPT !.res = <<w, i>>]
Held(w, reg, images) ==
  {i \in DOMAIN images : images[i]} \cup {h \in DOMAIN reg : reg[h].kind = "resource" /\ reg[h].res # NoRes /\ reg[h].res[1] = w}

(* The back buffers of w under the handles hs.                             *)
Registered(w, reg, hs) ==
  [h \in DOMAIN reg \cup {hs[i] : i \in DOMAIN hs} |->
     IF \E i \in DOMAIN hs : hs[i] = h THEN BackBuffer(w, CHOOSE i \in DOMAIN hs : hs[i] = h) ELSE reg[h]]

(* d_createSwapchain.  A window takes another swapchain once the last is   *)
(* gone, which its back buffers keep.  When one cannot be had, those       *)
(* before it stay registered.                                              *)
CreateSwapchain ==
  /\ phase = "up"
  /\ \E w \in Windows \ DOMAIN chains, n \in Counts :
       /\ Held(w, registry, <<>>) = {}
       /\ \E k \in IF "back buffer" \in Unhandled THEN 0 .. n ELSE {n} :
            LET hs == [i \in 1 .. k |-> Fresh(DOMAIN registry, i)]
            IN /\ k <= Cardinality(Free(DOMAIN registry))
               /\ registry' = Registered(w, registry, hs)
               /\ chains' = IF k < n THEN chains
                            ELSE Set(chains, w, [handles |-> hs, images |-> [i \in 1 .. n |-> TRUE]])
  /\ UNCHANGED <<phase, primary, owned, misuse>>

HandlesOf(c) == {c.handles[i] : i \in DOMAIN c.handles} \ {None}

DestroySwapchain ==
  /\ \E w \in DOMAIN chains :
       /\ registry' = Without(registry, HandlesOf(chains[w]))
       /\ chains' = Without(chains, {w})
  /\ UNCHANGED <<phase, primary, owned, misuse>>

(* Fault: only the swapchain's own references to its back buffers go. *)
Released_Images(w) == registry

(* The resources of the back buffers let go of them; the handles stay.     *)
Released(w) ==
  [h \in DOMAIN registry |->
     IF h \in HandlesOf(chains[w]) THEN [registry[h] EXCEPT !.res = NoRes] ELSE registry[h]]

(* The handles that n back buffers keep, and those freed.                  *)
Kept(c, n) == [i \in 1 .. n |-> IF i \in DOMAIN c.handles THEN c.handles[i] ELSE None]
Excess(c, n) == {c.handles[i] : i \in {j \in DOMAIN c.handles : j > n}} \ {None}

(* Where an image keeps no handle, a new one.                              *)
Filled(kept, reg) ==
  [i \in DOMAIN kept |->
     IF kept[i] # None THEN kept[i]
     ELSE Fresh(DOMAIN reg, Cardinality({j \in 1 .. i : kept[j] = None}))]

(* sc_resizeBuffers.  It may end where ResizeBuffers fails, and where the  *)
(* k+1st back buffer cannot be had.                                        *)
ResizeBuffers ==
  /\ phase = "up"
  /\ \E w \in DOMAIN chains, n \in Counts :
       LET c == chains[w]
           nothing == [i \in DOMAIN c.images |-> FALSE]
           kept == Kept(c, n)
           reg == Without(Released(w), Excess(c, n))
       IN /\ misuse' = IF Held(w, Released(w), nothing) = {} THEN misuse ELSE misuse \cup {"resize"}
          /\ \/ /\ registry' = Released(w)
                /\ chains' = [chains EXCEPT ![w].images = nothing]
             \/ \E k \in 0 .. n :
                  /\ Cardinality({i \in 1 .. k : kept[i] = None}) <= Cardinality(Free(DOMAIN reg))
                  /\ LET hs == Filled(SubSeq(kept, 1, k), reg)
                     IN /\ registry' = Registered(w, reg, hs)
                        /\ chains' = [chains EXCEPT ![w] = [handles |-> hs \o SubSeq(kept, k + 1, n),
                                                            images |-> [i \in 1 .. n |-> i <= k]]]
  /\ UNCHANGED <<phase, primary, owned>>
-----------------------------------------------------------------------------
Next ==
  \/ CreateDevice \/ Shutdown \/ Destroy
  \/ CreateCommittedBuffer \/ CreateCommittedTexture \/ CreatePlacedBuffer \/ CreatePlacedTexture
  \/ ImportResource \/ CreateHeap \/ CreateTimeline \/ CreateQueryPool \/ CreateDescriptorHeap
  \/ CreatePipelineLayout \/ PrebuildInfo \/ CreateAccelerationStructure
  \/ CreatePipelineFromStream \/ CreateRayTracingPipeline \/ GroupHandles \/ CreateWorkGraph
  \/ ShaderResourceView \/ UnorderedAccessView \/ ConstantBufferView \/ CreateSampler
  \/ RenderTargetView \/ DepthStencilView
  \/ CreateSwapchain \/ DestroySwapchain \/ ResizeBuffers

Spec == Init /\ [][Next]_vars
-----------------------------------------------------------------------------
(* Every registered object has one owner, a caller or a swapchain, however *)
(* swapchains are made, resized and destroyed and whichever step fails; of *)
(* what is left after Shutdown, callers own all, and it is work graphs.    *)
OwnersExact ==
  /\ DOMAIN registry \subseteq owned \cup UNION {HandlesOf(chains[w]) : w \in DOMAIN chains}
  /\ \A w \in DOMAIN chains : /\ HandlesOf(chains[w]) \subseteq DOMAIN registry \ owned
                              /\ \A v \in DOMAIN chains \ {w} : HandlesOf(chains[v]) \cap HandlesOf(chains[w]) = {}
  /\ phase = "up" => owned \subseteq DOMAIN registry
  /\ phase = "down" => \A h \in DOMAIN registry : registry[h].kind = "workGraph"

(* The i-th image a swapchain has is its i-th back buffer, under a handle  *)
(* of its own; windows without a swapchain can have one.                   *)
ImagesInPlace ==
  /\ \A w \in DOMAIN chains :
       LET c == chains[w]
       IN \A i \in DOMAIN c.images : c.images[i] => registry[c.handles[i]].res = <<w, i>>
  /\ \A w \in Windows \ DOMAIN chains : Held(w, registry, <<>>) = {}

(* D3D12 and DXGI are never called in a way they forbid: no back buffer is *)
(* held when they are resized, no view has a resource that is gone.        *)
ObjectsExact == OwnersExact /\ ImagesInPlace /\ misuse = {}

=============================================================================

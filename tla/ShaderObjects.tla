--------------------------- MODULE ShaderObjects ---------------------------
(***************************************************************************)
(* What a Vulkan device makes for shaders and for recording, and destroys  *)
(* (rhi_vulkan.cpp): pipeline layouts with their push data and static      *)
(* samplers, descriptor heaps, pipelines, indirect pipeline sets, command  *)
(* signatures, command allocators and lists, and the order of Shutdown.    *)
(*                                                                         *)
(* A creation is one action: descriptorViewsMutex is held over those that  *)
(* touch static samplers, and the others share nothing but registries.     *)
(* The driver may fail at each step.  A native object is a pair of its     *)
(* kind and what it belongs to.  Handles that resolve to nothing are       *)
(* "Stale": module Registry shows that they do.                            *)
(***************************************************************************)
EXTENDS BindingPlan, FiniteSets

CONSTANTS
  Handles, None, Stale,
  Features,               \* what the device has enabled
  LayoutDescs, PipelineDescs, SignatureDescs,  \* what callers ask for
  SamplerCapacity,        \* samplers of callers in a shader-visible heap
  StaticSamplerCapacity,  \* elements behind them
  SamplerBudget,          \* VkSamplers the device may have
  MaxPushDataSize, MaxTokens, SetSize,
  ResetsFirst,            \* callers destroy no list whose recording made query pools
  DestroysSets            \* and destroy pipeline sets before Shutdown

VARIABLES
  model,           \* "buffer" or "heap": the device's VulkanBindingModel
  objects,         \* [Handles -> what the handle resolves to, or None]
  native,          \* the Vulkan objects that exist
  staticSamplers,  \* the registered static samplers, in their order
  samplersUsed,    \* staticSamplersUsed
  phase            \* 0, or the step that Shutdown is at

vars == <<model, objects, native, staticSamplers, samplersUsed, phase>>

Object(kind, refs, data) == [kind |-> kind, refs |-> refs, data |-> data]
Live(h, kind) == h \in Handles /\ objects[h] # None /\ objects[h].kind = kind
Running == phase = 0
With(h, o) == objects' = [objects EXCEPT ![h] = o]
-----------------------------------------------------------------------------
(* Static samplers live behind the callers' samplers of every              *)
(* shader-visible sampler heap.                                            *)
Elements(s) == s.element .. s.element + s.count - 1

WriteStaticSampler(contents, s) ==
  [e \in DOMAIN contents |-> IF e \in Elements(s) THEN s.key ELSE contents[e]]

(* VkRegisterStaticSamplers, sampler by sampler: one that is registered is *)
(* shared; a new one needs room in the tail and a VkSampler, which one of  *)
(* the same description has already.  When it fails, what was registered   *)
(* before stays.                                                           *)
RegisterOne(r, s, driverFails) ==
  LET same == {x \in Range(r.registered) : x.key = s.key /\ x.count = s.count}
      keys == {x.key : x \in Range(r.registered)}
  IN IF ~ r.ok THEN r
     ELSE IF same # {}
          THEN [r EXCEPT !.elements = Append(@, (CHOOSE x \in same : TRUE).element)]
     ELSE IF \/ s.count > StaticSamplerCapacity - r.used
             \/ s.key \notin keys /\ (driverFails \/ Cardinality(keys) >= SamplerBudget)
          THEN [r EXCEPT !.ok = FALSE]
     ELSE [r EXCEPT !.elements = Append(@, SamplerCapacity + r.used),
                    !.registered = Append(@, [key |-> s.key, count |-> s.count,
                                              element |-> SamplerCapacity + r.used]),
                    !.used = @ + s.count]

Registered(samplers, failing) ==
  FoldLeftDomain(LAMBDA r, i : RegisterOne(r, samplers[i], i = failing),
    [ok |-> TRUE, registered |-> staticSamplers, used |-> samplersUsed, elements |-> <<>>],
    samplers)

TailHeap(o) == o # None /\ o.kind = "heap" /\ o.data.tail # None

HeapsWritten(new) ==
  [h \in Handles |->
     IF TailHeap(objects[h])
     THEN [objects[h] EXCEPT !.data.tail =
             FoldLeft(LAMBDA c, s : WriteStaticSampler(c, s), @, new)]
     ELSE objects[h]]

(* d_createPipelineLayout. *)
CreatePipelineLayout(h) ==
  /\ Running /\ objects[h] = None
  /\ \E d \in LayoutDescs :
       /\ \A i \in DOMAIN d.addresses : ValidAddress(d, d.addresses[i])
       /\ \/ /\ model = "heap" /\ TotalPushDataBytes(d) <= MaxPushDataSize
             /\ With(h, Object("layout", <<>>, [desc |-> d, elements |-> <<>>]))
             /\ UNCHANGED <<native, staticSamplers, samplersUsed>>
          \/ /\ model = "buffer"
             /\ \E failing \in 0 .. Len(d.samplers) :
                  LET r == Registered(d.samplers, failing)
                      new == SubSeq(r.registered, Len(staticSamplers) + 1, Len(r.registered))
                      written == HeapsWritten(new)
                  IN /\ staticSamplers' = r.registered
                     /\ samplersUsed' = r.used
                     /\ native' = native \cup {<<"sampler", s.key>> : s \in Range(new)}
                     /\ objects' = IF ~ r.ok THEN written
                          ELSE [written EXCEPT ![h] =
                                  Object("layout", <<>>, [desc |-> d, elements |-> r.elements])]
  /\ UNCHANGED <<model, phase>>

(* The tail of a new sampler heap of the descriptor-buffer model. *)
NewTail ==
  FoldLeft(LAMBDA c, s : WriteStaticSampler(c, s),
    [e \in SamplerCapacity .. SamplerCapacity + StaticSamplerCapacity - 1 |-> None],
    staticSamplers)

HeapParts(h, step) ==
  IF step = "create" THEN {}
  ELSE IF step \in {"type", "allocate"} THEN {<<"heapBuffer", h>>}
  ELSE {<<"heapBuffer", h>>, <<"heapMemory", h>>}

(* What the error path of the step destroys. *)
HeapUndone(h, step) == HeapParts(h, step)

(* d_createDescriptorHeap: a heap for shaders, or one for the host alone,  *)
(* which the descriptor-buffer model keeps in host memory.                 *)
CreateDescriptorHeap(h) ==
  /\ Running /\ objects[h] = None
  /\ \E sampler, shaderVisible \in BOOLEAN :
       LET backed == model = "heap" \/ shaderVisible
           tail == IF model = "buffer" /\ sampler /\ shaderVisible THEN NewTail ELSE None
       IN \/ /\ native' = native \cup (IF backed THEN HeapParts(h, "done") ELSE {})
             /\ With(h, Object("heap", <<>>, [backed |-> backed, tail |-> tail]))
          \/ /\ backed
             /\ \E step \in {"create", "type", "allocate", "bind", "map", "align"} :
                  native' = native \cup (HeapParts(h, step) \ HeapUndone(h, step))
             /\ UNCHANGED objects
  /\ UNCHANGED <<model, staticSamplers, samplersUsed, phase>>
-----------------------------------------------------------------------------
(* Pipelines (d_createPipelineFromStream). *)
RayStages == {"raygen", "miss", "closesthit", "anyhit", "intersection", "callable"}
Given(d) == {d.shaders[i].stage : i \in DOMAIN d.shaders}
Raster(d) == d.graphics \/ Given(d) \cap {"vertex", "pixel", "task", "mesh"} # {}

Point(d) ==
  IF d.rayTracing THEN "raytracing" ELSE IF Raster(d) THEN "graphics" ELSE "compute"

(* The checks before the first shader module is made. *)
Acceptable(d, library) ==
  CASE Point(d) = "raytracing" ->
         /\ "rayTracing" \in Features
         /\ ~ d.graphics
         /\ d.groups # <<>> \/ library # None
         /\ d.groups # <<>> => d.shaders # <<>>
         /\ d.library \/ library # None => "rayTracingLibrary" \in Features
    [] Point(d) = "graphics" ->
         /\ "compute" \notin Given(d)
         /\ IF "mesh" \in Given(d)
            THEN /\ "mesh" \in Features /\ "vertex" \notin Given(d)
                 /\ "task" \in Given(d) => "task" \in Features
            ELSE "vertex" \in Given(d) /\ "task" \notin Given(d)
         /\ "dynamicRendering" \in Features
         /\ \A i \in DOMAIN d.shaders : d.shaders[i].spirv
    [] OTHER -> "compute" \in Given(d) /\ d.shaders[1].spirv

(* Ray tracing checks each shader when its turn comes. *)
RefusedShaders(d) ==
  IF Point(d) # "raytracing" THEN {}
  ELSE {i \in DOMAIN d.shaders : d.shaders[i].stage \notin RayStages \/ ~ d.shaders[i].spirv}

(* findShader: the first shader of the name in an allowed stage. *)
FindShader(d, name, allowed) ==
  LET found == {i \in DOMAIN d.shaders :
                  d.shaders[i].name = name /\ d.shaders[i].stage \in allowed}
  IN IF name = None \/ found = {} THEN 0 ELSE Min(found)

Group(d, g) ==
  [type |-> g.type,
   general |-> IF g.type # "general" THEN 0
               ELSE FindShader(d, g.general, {"raygen", "miss", "callable"}),
   closestHit |-> IF g.type = "general" THEN 0 ELSE FindShader(d, g.closestHit, {"closesthit"}),
   anyHit |-> IF g.type = "general" THEN 0 ELSE FindShader(d, g.anyHit, {"anyhit"}),
   intersection |-> IF g.type # "procedural" THEN 0
                    ELSE FindShader(d, g.intersection, {"intersection"})]

Groups(d) == [i \in DOMAIN d.groups |-> Group(d, d.groups[i])]

Complete(g) ==
  CASE g.type = "general" -> g.general # 0
    [] g.type = "triangles" -> g.closestHit # 0 \/ g.anyHit # 0
    [] OTHER -> g.intersection # 0

(* The checks made when all modules exist. *)
Refusals(d, library) ==
  IF Point(d) = "raytracing"
  THEN {w \in {"groups", "libraries", "clustered"} :
          \/ w = "groups" /\ \E i \in DOMAIN d.groups : ~ Complete(Groups(d)[i])
          \/ w = "libraries" /\ library # None
               /\ ~ (Live(library, "pipeline") /\ objects[library].data.library)
          \/ w = "clustered" /\ d.clustered /\ "clustered" \notin Features}
  ELSE {w \in {"attributes", "bindable"} :
          \/ w = "attributes" /\ Point(d) = "graphics" /\ ~ d.formatsKnown
          \/ w = "bindable" /\ d.bindable /\ "generatedCommands" \notin Features}

Modules(n) == {<<"module", i>> : i \in 1 .. n}

(* How a creation may stop: how many modules it has made, and why.         *)
Stops(d, library) ==
  LET refused == RefusedShaders(d)
      all == Len(d.shaders)
      why == Refusals(d, library)
  IN {[made |-> i - 1, why |-> "module"] :
        i \in IF refused = {} THEN 1 .. all ELSE 1 .. Min(refused)}
     \cup IF refused # {} THEN {}
          ELSE {[made |-> all, why |-> w] : w \in why \cup IF why = {} THEN {"create"} ELSE {}}

(* Fault: a library that is none is refused without cleaning up. *)
ModulesDestroyed_NotForLibraries(s) ==
  IF s.why = "libraries" THEN {} ELSE Modules(s.made)

(* Each early return destroys the modules made so far. *)
ModulesDestroyed(s) == Modules(s.made)

CreatePipeline(h) ==
  /\ Running /\ objects[h] = None
  /\ \E l \in Handles : Live(l, "layout")
  /\ \E d \in PipelineDescs :
       \E library \in IF d.linked THEN Handles ELSE {None} :
         /\ Acceptable(d, library)
         /\ \/ /\ \E s \in Stops(d, library) :
                    native' = native \cup (Modules(s.made) \ ModulesDestroyed(s))
               /\ UNCHANGED objects
            \/ /\ RefusedShaders(d) = {} /\ Refusals(d, library) = {}
               /\ native' = native \cup {<<"pipeline", h>>}
               /\ With(h, Object("pipeline", <<>>,
                    [point |-> Point(d), stages |-> Given(d), library |-> d.library,
                     bindable |-> d.bindable /\ ~ d.rayTracing,
                     shaders |-> d.shaders, groups |-> Groups(d)]))
  /\ UNCHANGED <<model, staticSamplers, samplersUsed, phase>>
-----------------------------------------------------------------------------
(* Indirect pipeline sets. *)
Bindable(p) == Live(p, "pipeline") /\ objects[p].data.bindable

(* vkCreateIndirectExecutionSetEXT fills the set with the initial pipeline.*)
CreateIndirectPipelineSet(h) ==
  /\ Running /\ objects[h] = None
  /\ "generatedCommands" \in Features
  /\ \E p \in Handles :
       /\ Bindable(p)
       /\ native' = native \cup {<<"executionSet", h>>}
       /\ With(h, Object("set", [i \in 1 .. SetSize |-> p],
            [point |-> objects[p].data.point, stages |-> objects[p].data.stages]))
  /\ UNCHANGED <<model, staticSamplers, samplersUsed, phase>>

Matches(p, set) ==
  /\ Bindable(p)
  /\ objects[p].data.point = set.point /\ objects[p].data.stages = set.stages

(* d_updateIndirectPipelineSet: all of the pipelines match, or none is     *)
(* written.                                                                *)
UpdateIndirectPipelineSet(h) ==
  /\ Running /\ Live(h, "set")
  /\ \E first \in 1 .. SetSize :
       \E ps \in [1 .. SetSize - first + 1 -> Handles] :
         /\ \A i \in DOMAIN ps : Matches(ps[i], objects[h].data)
         /\ objects' = [objects EXCEPT ![h].refs =
              [i \in DOMAIN @ |-> IF i >= first THEN ps[i - first + 1] ELSE @[i]]]
  /\ UNCHANGED <<model, native, staticSamplers, samplersUsed, phase>>
-----------------------------------------------------------------------------
(* Command signatures. *)
MaxPushDataTokenBytes == 16

ArgumentBytes(a) ==
  CASE a.kind = "constant" -> 4 * a.words
    [] a.kind \in {"draw", "indexBuffer", "vertexBuffer"} -> 16
    [] a.kind = "drawIndexed" -> 20
    [] a.kind \in {"dispatch", "dispatchMesh"} -> 12
    [] OTHER -> 4

DomainStages(kind) ==
  CASE kind = "dispatch" -> {"compute"}
    [] kind = "dispatchMesh" -> {"task", "mesh", "pixel"}
    [] OTHER -> {"vertex", "pixel", "task", "mesh"}

Executable(a) == a.kind \in {"draw", "drawIndexed", "dispatch", "dispatchMesh"}

StreamOffset(d, i) ==
  FoldSeq(LAMBDA a, n : n + ArgumentBytes(a), 0, SubSeq(d.args, 1, i - 1))

Domains(d) == {DomainStages(d.args[i].kind) : i \in {j \in DOMAIN d.args : Executable(d.args[j])}}
Generated(d) == Len(d.args) # 1 \/ ~ Executable(d.args[1])

(* The checks of every signature: what fits the stride, and the execution  *)
(* set, which comes first and needs the set it indexes.                    *)
WellFormed(d, set) ==
  /\ StreamOffset(d, Len(d.args) + 1) <= d.stride
  /\ \A i \in DOMAIN d.args : d.args[i].kind = "pipelineIndex" => i = 1 /\ set # None
  /\ set # None => Live(set, "set") /\ d.args[1].kind = "pipelineIndex"
  /\ Domains(d) # {}

(* Fault: the end is compared with the whole of the push data. *)
Writable_All(l, a, domain) ==
  /\ a.root \in DOMAIN l.ranges /\ ~ l.ranges[a.root].emulated
  /\ l.ranges[a.root].stages \cap domain # {}
  /\ ByteOffset(l, a.root) + 4 * (a.word + a.words) <= TotalPushDataBytes(l)

(* A Constant argument writes inside a range of root constants, and where  *)
(* the commands can write: not into what is spilled.                       *)
Writable(l, a, domain) ==
  /\ a.root \in DOMAIN l.ranges /\ ~ l.ranges[a.root].emulated
  /\ l.ranges[a.root].stages \cap domain # {}
  /\ 4 * (a.word + a.words) <= StorageBytes(l.ranges[a.root])
  /\ model = "buffer" => ByteOffset(l, a.root) + 4 * (a.word + a.words) <= PushedBytes(l)

(* A Constant argument becomes tokens of at most 16 bytes. *)
Chunks(l, a, offset) ==
  LET bytes == 4 * a.words
      n == (bytes + MaxPushDataTokenBytes - 1) \div MaxPushDataTokenBytes
  IN [c \in 1 .. n |->
        [type |-> "push", offset |-> offset + (c - 1) * MaxPushDataTokenBytes,
         to |-> ByteOffset(l, a.root) + 4 * a.word + (c - 1) * MaxPushDataTokenBytes,
         size |-> Min({MaxPushDataTokenBytes, bytes - (c - 1) * MaxPushDataTokenBytes})]]

Tokens(d, l) ==
  FoldLeftDomain(LAMBDA t, i :
      t \o IF d.args[i].kind = "constant" THEN Chunks(l, d.args[i], StreamOffset(d, i))
           ELSE <<[type |-> d.args[i].kind, offset |-> StreamOffset(d, i), to |-> 0,
                   size |-> ArgumentBytes(d.args[i])]>>,
    <<>>, d.args)

(* d_createCommandSignature. *)
CreateCommandSignature(h) ==
  /\ Running /\ objects[h] = None
  /\ \E d \in SignatureDescs, set \in Handles \cup {None} :
       /\ WellFormed(d, set)
       /\ \/ /\ ~ Generated(d)
             /\ With(h, Object("signature", <<set>>, [desc |-> d, layout |-> None, tokens |-> <<>>]))
             /\ UNCHANGED native
          \/ \E layout \in Handles :
               /\ Generated(d) /\ Live(layout, "layout") /\ "generatedCommands" \in Features
               /\ Cardinality(Domains(d)) = 1
               /\ LET l == objects[layout].data.desc
                      tokens == Tokens(d, l)
                  IN /\ \A i \in DOMAIN d.args : d.args[i].kind = "constant" =>
                          Writable(l, d.args[i], UNION Domains(d))
                     /\ model = "buffer" => Len(tokens) <= MaxTokens
                     /\ native' = native \cup {<<"indirectLayout", h>>}
                     /\ With(h, Object("signature", <<set>>,
                          [desc |-> d, layout |-> l, tokens |-> tokens]))
  /\ UNCHANGED <<model, staticSamplers, samplersUsed, phase>>
-----------------------------------------------------------------------------
(* Command allocators and lists. *)
CreateCommandAllocator(h) ==
  /\ Running /\ objects[h] = None
  /\ native' = native \cup {<<"commandPool", h>>}
  /\ With(h, Object("allocator", <<>>, <<>>))
  /\ UNCHANGED <<model, staticSamplers, samplersUsed, phase>>

(* d_createCommandList and d_createSecondaryCommandList: the buffer of a   *)
(* list that cannot begin is given back.                                   *)
CreateCommandList(h) ==
  /\ Running /\ objects[h] = None
  /\ \E a \in Handles :
       /\ Live(a, "allocator")
       /\ native' = native \cup {<<"commandBuffer", h>>}
       /\ With(h, Object("list", <<a>>, [buffer |-> TRUE, queries |-> FALSE, adopted |-> FALSE]))
  /\ UNCHANGED <<model, staticSamplers, samplersUsed, phase>>

(* AdoptCommandBuffer: the buffer is the host's, from no allocator here. *)
AdoptCommandBuffer(h) ==
  /\ Running /\ objects[h] = None
  /\ With(h, Object("list", <<Stale>>, [buffer |-> TRUE, queries |-> FALSE, adopted |-> TRUE]))
  /\ UNCHANGED <<model, native, staticSamplers, samplersUsed, phase>>

(* cl_writeAccelerationStructureProperties makes a query pool that the     *)
(* list keeps. *)
WriteProperties(h) ==
  /\ Running /\ Live(h, "list") /\ objects[h].data.buffer
  /\ objects[h].refs[1] # Stale \/ objects[h].data.adopted
  /\ "accelerationStructure" \in Features
  /\ native' = native \cup {<<"queryPool", h>>}
  /\ objects' = [objects EXCEPT ![h].data.queries = TRUE]
  /\ UNCHANGED <<model, staticSamplers, samplersUsed, phase>>

(* The buffer goes back to its own allocator, if that still exists. *)
BuffersFreed(h, a) ==
  IF objects[h].data.buffer /\ objects[h].refs[1] \notin {a, Stale}
  THEN {<<"commandBuffer", h>>} ELSE {}

(* cl_reset, which leaves an adopted list alone: transient query pools go; *)
(* with another allocator the list gets another buffer, or none when that  *)
(* fails.                                                                  *)
Reset(h) ==
  /\ Running /\ Live(h, "list") /\ ~ objects[h].data.adopted
  /\ \E a \in Handles, fails \in BOOLEAN :
       LET moves == objects[h].refs[1] # a \/ ~ objects[h].data.buffer
           kept == native \ (BuffersFreed(h, a) \cup {<<"queryPool", h>>})
       IN /\ Live(a, "allocator")
          /\ fails => moves
          /\ native' = IF fails THEN kept ELSE kept \cup {<<"commandBuffer", h>>}
          /\ With(h, Object("list", IF fails THEN objects[h].refs ELSE <<a>>,
                            [buffer |-> ~ fails, queries |-> FALSE, adopted |-> FALSE]))
  /\ UNCHANGED <<model, staticSamplers, samplersUsed, phase>>
-----------------------------------------------------------------------------
(* The native objects that go with an object; a command pool takes the     *)
(* buffers with it that are allocated from it.                             *)
BuffersOf(a) ==
  {<<"commandBuffer", h>> : h \in {x \in Handles : Live(x, "list") /\ objects[x].refs[1] = a}}

DestroyedWith(h) ==
  LET o == objects[h]
  IN CASE o.kind = "layout" -> {}
       [] o.kind = "heap" -> HeapParts(h, "done")
       [] o.kind = "pipeline" -> {<<"pipeline", h>>}
       [] o.kind = "set" -> {<<"executionSet", h>>}
       [] o.kind = "signature" -> {<<"indirectLayout", h>>}
       [] o.kind = "allocator" -> {<<"commandPool", h>>} \cup BuffersOf(h)
       [] OTHER -> IF o.refs[1] = Stale THEN {} ELSE {<<"commandBuffer", h>>}

(* Everyone who holds the handles is left with stale ones. *)
Forget(hs) ==
  [x \in Handles |->
     IF x \in hs \/ objects[x] = None THEN None
     ELSE [objects[x] EXCEPT !.refs =
             [i \in DOMAIN @ |-> IF @[i] \in hs THEN Stale ELSE @[i]]]]

(* d_destroyPipelineLayout, d_destroyDescriptorHeap, d_destroyPipeline,    *)
(* d_destroyIndirectPipelineSet, d_destroyCommandSignature,                *)
(* d_destroyCommandAllocator and d_destroyCommandList.                     *)
Destroy(h) ==
  /\ Running /\ objects[h] # None
  /\ (Live(h, "list") /\ ResetsFirst) => ~ objects[h].data.queries
  /\ native' = native \ DestroyedWith(h)
  /\ objects' = Forget({h})
  /\ UNCHANGED <<model, staticSamplers, samplersUsed, phase>>

(* The order of VulkanDevice::Shutdown; it has no step for pipeline sets.  *)
ShutdownOrder ==
  <<"list", "heap", "signature", "pipeline", "layout", "model", "allocator", "device">>

ModelObjects ==
  {<<"universalLayout", model>>} \cup {<<"sampler", s.key>> : s \in Range(staticSamplers)}

Shutdown ==
  /\ phase < Len(ShutdownOrder)
  /\ (Running /\ DestroysSets) => \A h \in Handles : ~ Live(h, "set")
  /\ phase' = phase + 1
  /\ LET step == ShutdownOrder[phase + 1]
         hs == {h \in Handles : Live(h, step)}
     IN /\ objects' = Forget(hs)
        /\ native' = native \ (CASE step = "model" -> ModelObjects
                                 [] step = "device" -> {<<"device", model>>}
                                 [] OTHER -> UNION {DestroyedWith(h) : h \in hs}
                                               \cup {<<"queryPool", h>> : h \in hs})
        /\ staticSamplers' = IF step = "model" THEN <<>> ELSE staticSamplers
        /\ samplersUsed' = IF step = "model" THEN 0 ELSE samplersUsed
  /\ UNCHANGED model
Done == phase = Len(ShutdownOrder) /\ UNCHANGED vars
-----------------------------------------------------------------------------
Init ==
  /\ model \in {"buffer", "heap"}
  /\ objects = [h \in Handles |-> None]
  /\ native = {<<"device", model>>}
       \cup IF model = "buffer" THEN {<<"universalLayout", model>>} ELSE {}
  /\ staticSamplers = <<>> /\ samplersUsed = 0
  /\ phase = 0

Next ==
  \/ \E h \in Handles :
       \/ CreatePipelineLayout(h) \/ CreateDescriptorHeap(h) \/ CreatePipeline(h)
       \/ CreateIndirectPipelineSet(h) \/ UpdateIndirectPipelineSet(h)
       \/ CreateCommandSignature(h)
       \/ CreateCommandAllocator(h) \/ CreateCommandList(h) \/ AdoptCommandBuffer(h)
       \/ WriteProperties(h) \/ Reset(h)
       \/ Destroy(h)
  \/ Shutdown
  \/ Done

Spec == Init /\ [][Next]_vars

Symmetry == Permutations(Handles)
-----------------------------------------------------------------------------
(* What a live object owns of the driver's. *)
Owned(h) ==
  LET o == objects[h]
  IN IF o = None THEN {}
     ELSE CASE o.kind = "heap" -> IF o.data.backed THEN HeapParts(h, "done") ELSE {}
            [] o.kind = "signature" ->
                 IF o.data.layout = None THEN {} ELSE {<<"indirectLayout", h>>}
            [] o.kind = "allocator" -> {<<"commandPool", h>>}
            [] o.kind = "list" ->
                 (IF o.data.buffer /\ o.refs[1] # Stale THEN {<<"commandBuffer", h>>} ELSE {})
                   \cup (IF o.data.queries THEN {<<"queryPool", h>>} ELSE {})
            [] OTHER -> DestroyedWith(h)

(* Whichever step of whichever creation fails, and however lists move      *)
(* between allocators that come and go, the native objects are those the   *)
(* live objects own, and the device's own; Shutdown leaves none.           *)
NothingLeaked ==
  native = UNION {Owned(h) : h \in Handles}
    \cup (IF phase < 6 THEN ModelObjects \ {<<"universalLayout", "heap">>} ELSE {})
    \cup (IF phase < Len(ShutdownOrder) THEN {<<"device", model>>} ELSE {})

(* Every native object's parent is there: a command buffer's pool, the     *)
(* universal layout that pipelines and generated commands name in the      *)
(* descriptor-buffer model, the samplers written to heaps' tails, and the  *)
(* device.                                                                 *)
DependentsFirst ==
  /\ \A n \in native : n[1] = "commandBuffer" =>
       Live(n[2], "list") /\ <<"commandPool", objects[n[2]].refs[1]>> \in native
  /\ (model = "buffer" /\ \E n \in native : n[1] \in {"pipeline", "indirectLayout"}) =>
       <<"universalLayout", model>> \in native
  /\ \A h \in Handles : TailHeap(objects[h]) =>
       \A key \in Range(objects[h].data.tail) \ {None} : <<"sampler", key>> \in native
  /\ native # {} => <<"device", model>> \in native

(* A shader that reads the static samplers of its layout finds them in     *)
(* whichever sampler heap is bound, made before the layout or after it:    *)
(* registered samplers have elements of their own in the tail, every heap  *)
(* holds them there, and every layout names those that it asked for.       *)
SamplersInPlace ==
  LET samplers == Range(staticSamplers)
  IN /\ \A s, t \in samplers : s # t => Elements(s) \cap Elements(t) = {}
     /\ Len(staticSamplers) = Cardinality(samplers)
     /\ UNION {Elements(s) : s \in samplers} =
          SamplerCapacity .. SamplerCapacity + samplersUsed - 1
     /\ samplersUsed <= StaticSamplerCapacity
     /\ \A h \in Handles : TailHeap(objects[h]) =>
          \A s \in samplers : \A e \in Elements(s) : objects[h].data.tail[e] = s.key
     /\ (model = "buffer" /\ phase < 6) =>
          \A h \in {x \in Handles : Live(x, "layout")} :
            LET l == objects[h].data
            IN /\ Len(l.elements) = Len(l.desc.samplers)
               /\ \A i \in DOMAIN l.elements :
                    [key |-> l.desc.samplers[i].key, count |-> l.desc.samplers[i].count,
                     element |-> l.elements[i]] \in samplers

(* Whole ranges are pushed or spilled, never over the spill address; what  *)
(* a binding reads lies within its range and on one side.                  *)
LayoutSound(d) ==
  /\ SpillAddress(d) # NoSpill => PushedBytes(d) <= SpillAddress(d)
  /\ PushedBytes(d) <= PushConstantBytes
  /\ \A r \in PlannedReads(d) :
       /\ ByteOffset(d, r[1]) <= r[2]
       /\ r[2] + r[3] <= ByteOffset(d, r[1]) + StorageBytes(d.ranges[r[1]])
       /\ r[2] + r[3] <= PushedBytes(d) \/ r[2] >= PushedBytes(d)

(* The tokens read the whole stream of a record in order, and write pushed *)
(* root constants, each inside one range.                                  *)
SignatureSound(s) ==
  LET t == s.tokens l == s.layout
  IN /\ \A i \in DOMAIN t : t[i].offset = IF i = 1 THEN 0 ELSE t[i - 1].offset + t[i - 1].size
     /\ Last(t).offset + Last(t).size = StreamOffset(s.desc, Len(s.desc.args) + 1)
     /\ Last(t).offset + Last(t).size <= s.desc.stride
     /\ \A i \in {j \in DOMAIN t : t[j].type = "push"} :
          /\ t[i].size \in 1 .. MaxPushDataTokenBytes
          /\ model = "buffer" => t[i].to + t[i].size <= PushedBytes(l)
          /\ \E r \in DOMAIN l.ranges :
               /\ ~ l.ranges[r].emulated
               /\ ByteOffset(l, r) <= t[i].to
               /\ t[i].to + t[i].size <= ByteOffset(l, r) + StorageBytes(l.ranges[r])

(* The groups of a ray tracing pipeline name shaders of the right stages.  *)
GroupsSound(p) ==
  \A i \in DOMAIN p.groups :
    LET stage(s) == IF s = 0 THEN "none" ELSE p.shaders[s].stage
        g == p.groups[i]
    IN /\ stage(g.general) \in {"none", "raygen", "miss", "callable"}
       /\ stage(g.closestHit) \in {"none", "closesthit"}
       /\ stage(g.anyHit) \in {"none", "anyhit"}
       /\ stage(g.intersection) \in {"none", "intersection"}

(* What GPU-driven work combines fits together, checked when it was made:  *)
(* push data, spilled or not, against the bindings that read it and the    *)
(* indirect arguments that write it; the pipelines of a set against each   *)
(* other; the shaders of hit groups against their stages.                  *)
InterfacesMatch ==
  \A h \in Handles :
    /\ Live(h, "layout") => LayoutSound(objects[h].data.desc)
    /\ (Live(h, "signature") /\ objects[h].data.tokens # <<>>) => SignatureSound(objects[h].data)
    /\ Live(h, "pipeline") => GroupsSound(objects[h].data)
    /\ Live(h, "set") =>
         \A i \in DOMAIN objects[h].refs :
           LET p == objects[h].refs[i]
           IN p # Stale => /\ objects[p].kind = "pipeline" /\ objects[p].data.bindable
                           /\ objects[p].data.point = objects[h].data.point
                           /\ objects[p].data.stages = objects[h].data.stages

(* rhi_interop_vulkan.h: the scratch a recording allocates lives with the  *)
(* wrapper of its command list, transient query pools among it.            *)
ScratchWithWrapper ==
  \A n \in native : n[1] = "queryPool" => Live(n[2], "list")
=============================================================================

--------------------------- MODULE MCDeviceObjects ---------------------------
(* Three handles.  Queues: four on a family that two kinds share, the one  *)
(* of the copies' family, which its kind has taken, and two spare queues   *)
(* of which one supports copies alone.  Layouts that fit the push          *)
(* constants and two that do not, one of them up to the last byte before   *)
(* the spill address; samplers that share a description or an element.     *)
EXTENDS DeviceObjects, TLC

MCKinds == {"graphics", "compute", "copy"}
MCFamilies == {"universal", "transfer"}
MCFamilyOf == [k \in MCKinds |-> IF k = "copy" THEN "transfer" ELSE "universal"]
MCQueueCount == [f \in MCFamilies |-> IF f = "universal" THEN 4 ELSE 1]
MCSpareQueues == <<<<"transfer", 0>>, <<"universal", 1>>>>
MCSupports == [f \in MCFamilies |-> IF f = "universal" THEN MCKinds ELSE {"copy"}]

Words(n) == [words |-> n, emulated |-> FALSE, stages |-> {"vertex", "pixel", "compute"}]
Emulated == [words |-> 64, emulated |-> TRUE, stages |-> {"compute"}]
Address(source, root, word, count) ==
  [source |-> source, root |-> root, word |-> word, count |-> count, samplers |-> FALSE]
Sampler(key, count) == [key |-> key, count |-> count]

MCLayoutDescs ==
  {[ranges |-> <<Words(28), Words(3), Words(2)>>,
    addresses |-> <<Address("push", 3, 1, 1), Address("heap", 2, 1, 4)>>, samplers |-> <<>>],
   [ranges |-> <<Words(28), Words(3), Words(2)>>,
    addresses |-> <<Address("push", 1, 24, 2), Address("indirect", 3, 0, 1)>>, samplers |-> <<>>],
   [ranges |-> <<Words(30), Emulated, Words(1)>>, addresses |-> <<>>, samplers |-> <<>>],
   [ranges |-> <<Words(6)>>, addresses |-> <<>>, samplers |-> <<Sampler("linear", 1)>>],
   [ranges |-> <<>>, addresses |-> <<>>, samplers |-> <<Sampler("linear", 1), Sampler("point", 2)>>],
   [ranges |-> <<>>, addresses |-> <<>>, samplers |-> <<Sampler("point", 1), Sampler("shadow", 1)>>]}

Shader(name, stage) == [name |-> name, stage |-> stage, spirv |-> TRUE]
Groups(type, general, closestHit, anyHit, intersection) ==
  <<[type |-> type, general |-> general, closestHit |-> closestHit, anyHit |-> anyHit,
     intersection |-> intersection]>>

Pipeline(shaders, graphics, bindable) ==
  [shaders |-> shaders, graphics |-> graphics, rayTracing |-> FALSE, groups |-> <<>>,
   linked |-> FALSE, library |-> FALSE, clustered |-> FALSE, formatsKnown |-> TRUE,
   bindable |-> bindable]
RayPipeline(shaders, groups, linked, library, clustered) ==
  [Pipeline(shaders, FALSE, TRUE) EXCEPT !.rayTracing = TRUE, !.groups = groups,
     !.linked = linked, !.library = library, !.clustered = clustered]

MCPipelineDescs ==
  {Pipeline(<<Shader("c", "compute")>>, FALSE, TRUE),
   Pipeline(<<Shader("v", "vertex"), Shader("p", "pixel")>>, TRUE, TRUE),
   Pipeline(<<Shader("v", "vertex")>>, TRUE, TRUE),
   [Pipeline(<<Shader("m", "mesh"), Shader("p", "pixel")>>, FALSE, FALSE) EXCEPT !.formatsKnown = FALSE],
   RayPipeline(<<Shader("x", "anyhit"), Shader("x", "closesthit")>>,
     Groups("triangles", None, "x", "x", None), FALSE, TRUE, FALSE),
   RayPipeline(<<Shader("g", "raygen"), Shader("v", "vertex")>>,
     Groups("general", "g", None, None, None), FALSE, FALSE, FALSE),
   RayPipeline(<<Shader("i", "intersection")>>,
     Groups("procedural", None, None, None, "h"), FALSE, FALSE, TRUE),
   RayPipeline(<<Shader("g", "raygen")>>, Groups("general", "g", None, None, None), TRUE, FALSE, FALSE),
   RayPipeline(<<>>, <<>>, TRUE, FALSE, FALSE)}

Command(kind) == [kind |-> kind, root |-> 0, word |-> 0, words |-> 0]
Constant(root, word, words) == [kind |-> "constant", root |-> root, word |-> word, words |-> words]
Signature(args, stride) == [args |-> args, stride |-> stride]

MCSignatureDescs ==
  {Signature(<<Command("dispatch")>>, 12),
   Signature(<<Constant(1, 1, 5), Command("dispatch")>>, 40),
   Signature(<<Command("pipelineIndex"), Constant(2, 0, 3), Command("draw")>>, 32),
   Signature(<<Command("pipelineIndex"), Constant(1, 0, 8), Command("dispatch")>>, 48),
   Signature(<<Constant(3, 0, 2), Command("indexBuffer"), Command("drawIndexed")>>, 44)}

MCFeatures ==
  {"rayTracing", "rayTracingLibrary", "mesh", "dynamicRendering", "generatedCommands",
   "accelerationStructure"}

Inputs == INSTANCE LoweringInputs
MCLayouts == Inputs!LayoutsToLower
MCVariables == Inputs!ShaderVariables
MCDeclared == Inputs!DeclaredBy

Symmetry == Permutations(Handles)
=============================================================================

---------------------------- MODULE MCDx12Device ----------------------------
(* Layout A has two words that are emulated, B one for compute, and C is   *)
(* not supported.  Two of the signatures are refused.  Pipelines of every  *)
(* kind, some of them mixed or incomplete.                                 *)
EXTENDS Dx12Device

PushRange(emulated, words, stages) == [emulated |-> emulated, words |-> words, stages |-> stages]
MCRanges ==
  [A |-> <<PushRange(TRUE, 2, {"graphics", "compute"}), PushRange(FALSE, 2, {"graphics"})>>,
   B |-> <<PushRange(TRUE, 1, {"compute"})>>,
   C |-> <<>>]
MCRootSources == [A |-> {"HeapSlot"}, B |-> {"HeapSlot"}, C |-> {"HeapSlot", "PushAddress"}]

Argument(kind, root) == [kind |-> kind, root |-> root]
Signature(args, layout, stride, pipelineSet) ==
  [args |-> args, layout |-> layout, stride |-> stride, pipelineSet |-> pipelineSet]
MCSignatures ==
  {Signature(<<Argument("constant", 2), Argument("draw", 0)>>, "A", 2, FALSE),
   Signature(<<Argument("constant", 1), Argument("draw", 0)>>, "A", 2, FALSE),
   Signature(<<Argument("dispatch", 0)>>, None, 1, TRUE)}

Stream(shaders, layout) == [shaders |-> shaders, layout |-> layout]
MCStreamDescs ==
  {Stream(<<"vertex", "pixel">>, TRUE), Stream(<<"compute">>, FALSE),
   Stream(<<"compute", "pixel">>, FALSE), Stream(<<"raygen">>, FALSE)}

Group(type, name, general) == [type |-> type, name |-> name, general |-> general]
RayTracing(shaders, groups, layout, linked, library) ==
  [shaders |-> shaders, groups |-> groups, layout |-> layout, linked |-> linked, library |-> library]
MCRayTracingDescs ==
  {RayTracing(<<"raygen", "closesthit">>,
     <<Group("general", "a", "r"), Group("triangles", "h", None)>>, TRUE, FALSE, FALSE),
   RayTracing(<<"closesthit">>, <<Group("triangles", "h", None)>>, FALSE, FALSE, TRUE),
   RayTracing(<<"raygen">>, <<Group("general", "a", None)>>, FALSE, TRUE, FALSE),
   RayTracing(<<"miss">>, <<Group("procedural", None, None)>>, FALSE, FALSE, FALSE)}

WorkGraph(rasterizesInOrder, layout, entries) ==
  [libraries |-> <<"nodes">>, rasterizesInOrder |-> rasterizesInOrder, layout |-> layout, entries |-> entries]
MCWorkGraphDescs == {WorkGraph(FALSE, TRUE, 1), WorkGraph(FALSE, FALSE, 0), WorkGraph(TRUE, FALSE, 1)}

Geometry(type, indexed, indexBits) ==
  [type |-> type, count |-> 1, indexed |-> indexed, indexBits |-> indexBits]
BuildInputs(top, geometries) == [top |-> top, geometries |-> geometries]
MCGeometries ==
  {BuildInputs(TRUE, <<Geometry("instances", FALSE, 0)>>),
   BuildInputs(FALSE, <<Geometry("triangles", TRUE, 16), Geometry("aabbs", FALSE, 0)>>),
   BuildInputs(FALSE, <<Geometry("instances", FALSE, 0)>>),
   BuildInputs(FALSE, <<Geometry("triangles", TRUE, 8)>>)}
=============================================================================

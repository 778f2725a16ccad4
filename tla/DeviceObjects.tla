---------------------------- MODULE DeviceObjects ----------------------------
(***************************************************************************)
(* The objects of a Vulkan device, and the lowering of a pipeline's        *)
(* shaders to the layouts made (rhi_vulkan_spirv_lowering.cpp), which      *)
(* shares no state with them: a part of its own.                           *)
(***************************************************************************)
EXTENDS VulkanObjects

CONSTANTS Layouts, Variables, Declared, MaxVariables, UniformAlignment, SpillAlignment, Dynamic

ASSUME LoweringAssumption ==
  /\ {UniformAlignment, SpillAlignment} \subseteq {2^n : n \in 2 .. 12}
  /\ DOMAIN Declared = DOMAIN Layouts /\ MaxVariables \in Nat

VARIABLES input, modern, step, refused, mapping, clones, dwords, block, records, code

Pass == INSTANCE Lowering

passVars == <<input, modern, step, refused, mapping, clones, dwords, block, records, code>>
vars == <<objectVars, passVars>>

Init ==
  /\ part \in {"resources", "presentation", "shaders", "lowering"}
  /\ ObjectsInit
  /\ IF part = "lowering" THEN Pass!Init
     ELSE /\ input = None /\ modern = TRUE /\ step = None /\ refused = None
          /\ mapping = <<>> /\ clones = <<>> /\ dwords = <<>>
          /\ block = <<>> /\ records = <<>> /\ code = <<>>

Next ==
  \/ ObjectsNext /\ UNCHANGED passVars
  \/ part = "lowering" /\ Pass!Next /\ UNCHANGED objectVars

Spec == Init /\ [][Next]_vars
-----------------------------------------------------------------------------
(* A lowered shader reads, for each of its resources, what the layout's    *)
(* plan says, through loads aligned as they claim; no accepted layout      *)
(* divides what a binding reads.                                           *)
LoweringFaithful == part = "lowering" => Pass!LoweringFaithful
=============================================================================

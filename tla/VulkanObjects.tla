---------------------------- MODULE VulkanObjects ----------------------------
(***************************************************************************)
(* The objects of a Vulkan device (rhi_vulkan.cpp, rhi_vulkan.h): memory   *)
(* and resources, queues and the swapchain, what shaders and recording     *)
(* need.  The three parts share no state but the driver's device, so that  *)
(* their steps commute: a behaviour here is one part's, chosen at first.   *)
(***************************************************************************)
EXTENDS Naturals, FiniteSets, Functions

CONSTANTS
  None, Handles,
  \* Resources
  Heaps, Objects, HostObjects, Memories, Types, Visible, BufferTypes, ImageTypes,
  Sizes, HeapSizes, Offsets, Alignment, MaxMaps, Adopted, DestroyedBeforeShutdown,
  \* Presentation
  Kinds, Families, FamilyOf, QueueCount, SpareQueues, Supports, MaxQueues,
  Chains, Counts, MinImages, TrustsIsOk,
  \* ShaderObjects
  Stale, Features, LayoutDescs, PipelineDescs, SignatureDescs,
  SamplerCapacity, StaticSamplerCapacity, SamplerBudget,
  MaxPushDataSize, MaxTokens, SetSize, ResetsFirst, DestroysSets

ASSUME ResourcesAssumption ==
  /\ HostObjects \subseteq Objects /\ IsFiniteSet(HostObjects) /\ Visible \subseteq Types
  /\ BufferTypes \subseteq Types /\ ImageTypes \subseteq Types
  /\ Sizes \subseteq Nat \ {0} /\ HeapSizes \subseteq Nat \ {0} /\ Offsets \subseteq Nat
  /\ Alignment \in Nat \ {0} /\ MaxMaps \in Nat
  /\ None \notin Objects \cup Memories
  /\ Adopted \in BOOLEAN /\ DestroyedBeforeShutdown \in BOOLEAN

ASSUME PresentationAssumption ==
  /\ FamilyOf \in [Kinds -> Families] /\ QueueCount \in [Families -> Nat \ {0}]
  /\ \A i \in DOMAIN SpareQueues : SpareQueues[i] \in Families \X Nat
  /\ IsInjective(SpareQueues)
  /\ MaxQueues \in Nat /\ None \notin Chains
  /\ MinImages \in Nat \ {0} /\ \A n \in Counts : n \in Nat /\ n >= MinImages
  /\ TrustsIsOk \in BOOLEAN

ASSUME ShaderObjectsAssumption ==
  /\ {None, Stale} \cap Handles = {} /\ None # Stale
  /\ {SamplerCapacity, StaticSamplerCapacity, SamplerBudget, MaxPushDataSize, MaxTokens} \subseteq Nat
  /\ SetSize \in Nat \ {0}
  /\ ResetsFirst \in BOOLEAN /\ DestroysSets \in BOOLEAN

VARIABLES
  part,  \* whose behaviour this is: "resources", "presentation", "shaders" or another's
  resources, heaps, resourceObjects, memory, mapped, mappings, device, memoryMisuse,
  ownsDevice, queues, next, free, spare, swapchain, caller, chains, handles, semaphores,
  signalled, fence, surface, lost, presentMisuse, submitFailed,
  model, objects, native, staticSamplers, samplersUsed, phase

Memory == INSTANCE Resources WITH objects <- resourceObjects, misuse <- memoryMisuse
Display == INSTANCE Presentation WITH misuse <- presentMisuse
Shaders == INSTANCE ShaderObjects

memoryVars == <<resources, heaps, resourceObjects, memory, mapped, mappings, device, memoryMisuse>>
displayVars ==
  <<ownsDevice, queues, next, free, spare, swapchain, caller, chains, handles, semaphores,
    signalled, fence, surface, lost, presentMisuse, submitFailed>>
shaderVars == <<model, objects, native, staticSamplers, samplersUsed, phase>>
objectVars == <<part, memoryVars, displayVars, shaderVars>>

(* A part that does not act is a device's that BasicRHI owns, with the     *)
(* descriptor-buffer model.                                                *)
ObjectsInit ==
  /\ Memory!Init
  /\ Display!Init /\ (part # "presentation" => ownsDevice)
  /\ Shaders!Init /\ (part # "shaders" => model = "buffer")

ObjectsNext ==
  \/ part = "resources" /\ Memory!Next /\ UNCHANGED <<part, displayVars, shaderVars>>
  \/ part = "presentation" /\ Display!Next /\ UNCHANGED <<part, memoryVars, shaderVars>>
  \/ part = "shaders" /\ Shaders!Next /\ UNCHANGED <<part, memoryVars, displayVars>>

ObjectsSpec == ObjectsInit /\ [][ObjectsNext]_objectVars
-----------------------------------------------------------------------------
(* Mappings of memory that placed buffers share are counted exactly: no    *)
(* pointer from buf_map dies because of another buffer.                    *)
MappingsExact == Memory!MappingsExact

(* Everything native belongs to one live object, whichever step of         *)
(* whichever creation, resize or reset fails, and Shutdown leaves nothing. *)
(* Every queue handed out is a VkQueue of its own, and none is forgotten.  *)
NothingLeaked ==
  /\ Memory!NothingLeaked
  /\ Display!NothingLeaked /\ Display!QueuesDistinct
  /\ Shaders!NothingLeaked

(* Vulkan is never asked for what it forbids: mapping twice, binding out   *)
(* of range, presenting an image that is not acquired (while callers may   *)
(* present, the current image is the one acquired), destroying an object   *)
(* before those made from it.                                              *)
CallsValid ==
  Memory!CallsValid /\ Display!CallsValid /\ Display!CurrentHeld /\ Shaders!DependentsFirst

(* Push data, indirect arguments, pipeline sets and hit groups fit         *)
(* together, and static samplers are where layouts say in every heap.      *)
InterfacesMatch == Shaders!InterfacesMatch /\ Shaders!SamplersInPlace

(* rhi_interop_vulkan.h: transient query pools live with the wrapper of    *)
(* their command list.                                                     *)
ScratchWithWrapper == Shaders!ScratchWithWrapper
=============================================================================

----------------------------- MODULE Dx12Device -----------------------------
(***************************************************************************)
(* A D3D12 device (rhi_dx12.cpp): its queues and waits, the recording of   *)
(* command lists, and its objects.  The three parts share nothing but the  *)
(* native device and read each other's objects only through handles, so    *)
(* that their steps commute: a behaviour here is one part's, chosen at     *)
(* first.                                                                  *)
(***************************************************************************)
EXTENDS Dx12, TLC

CONSTANTS
  \* Dx12Commands
  Allocators, QueueKinds, Lists, Drawing, RootLayouts, Ranges, RootSources, Signatures,
  PageSize, Placement, MaxWords, MaxPushes,
  \* Dx12Objects
  Handles, Windows, Counts, Sizes, StreamDescs, RayTracingDescs, WorkGraphDescs, Geometries,
  Unhandled, MaxObjects

ASSUME Dx12CommandsAssumption ==
  /\ None \notin Allocators \cup Lists \cup RootLayouts
  /\ QueueKinds \subseteq {"direct", "compute", "copy"} /\ Drawing \subseteq Lists
  /\ DOMAIN Ranges = RootLayouts /\ DOMAIN RootSources = RootLayouts
  /\ \A y \in RootLayouts : \A i \in DOMAIN Ranges[y] :
       Ranges[y][i] \in [emulated : BOOLEAN, words : Nat, stages : SUBSET {"graphics", "compute"}]
  /\ \A s \in Signatures : s.stride \in Nat
  /\ None \notin Seq(Nat)
  /\ {PageSize, Placement} \subseteq Nat \ {0} /\ {MaxWords, MaxPushes} \subseteq Nat

ASSUME Dx12ObjectsAssumption ==
  /\ Handles \subseteq Nat /\ IsFiniteSet(Handles) /\ None \notin Handles /\ None \notin Windows
  /\ Counts \subseteq Nat \ {0} /\ Sizes \subseteq Nat \ {0} /\ MaxObjects \in Nat
  /\ \A d \in RayTracingDescs : Len(d.groups) \in Nat /\ DOMAIN d.groups = 1 .. Len(d.groups)
  /\ \A s \in Geometries :
       s.geometries \in Seq([type : STRING, count : Nat, indexed : BOOLEAN, indexBits : Nat])
  /\ Unhandled \subseteq {"queue", "back buffer", "placed buffer"}

VARIABLES
  part,  \* whose behaviour this is: "queues", "commands" or "objects"
  allocators, lists, layouts, signatures, illegal,
  phase, primary, registry, owned, chains, misuse

Commands == INSTANCE Dx12Commands
Objects == INSTANCE Dx12Objects

commandVars == <<allocators, lists, layouts, signatures, illegal>>
objectVars == <<phase, primary, registry, owned, chains, misuse>>
deviceVars == <<part, vars, commandVars, objectVars>>

DeviceInit ==
  /\ part \in {"queues", "commands", "objects"}
  /\ Init /\ Commands!Init /\ Objects!Init

DeviceNext ==
  \/ part = "queues" /\ Next /\ UNCHANGED <<part, commandVars, objectVars>>
  \/ part = "commands" /\ Commands!Next /\ UNCHANGED <<part, vars, objectVars>>
  \/ part = "objects" /\ Objects!Next /\ UNCHANGED <<part, vars, commandVars>>

DeviceSpec == DeviceInit /\ [][DeviceNext]_deviceVars

Symmetry == Permutations(Timelines)
-----------------------------------------------------------------------------
(* Draws read the push data given last before them, for every range,       *)
(* whatever is pushed, bound and executed in between.                      *)
PushDataRight == part = "commands" => Commands!PushDataRight

(* Bundles, lists and signatures are given only what D3D12 allows them,    *)
(* and no list that was refused something is accepted or executed.         *)
CommandsLegal == part = "commands" => Commands!CommandsLegal

(* Every object has one owner, every image of a swapchain its own back     *)
(* buffer, and D3D12 is called as it allows, up to and after Shutdown.     *)
ObjectsExact == part = "objects" => Objects!ObjectsExact
=============================================================================

---------------------------- MODULE Presentation ----------------------------
(***************************************************************************)
(* The queues of a Vulkan device (rhi_vulkan.cpp), which it hands out and  *)
(* takes back, and its swapchain: images acquired and presented, resized,  *)
(* with every call to the driver failing.                                  *)
(*                                                                         *)
(* A call is one action: Present holds timelinesMutex from its first check *)
(* to the next image's acquisition, and callers neither present nor submit *)
(* while they create, resize or destroy a swapchain, nor create queues on  *)
(* two threads of a device BasicRHI owns.  After a call on the swapchain   *)
(* that did not succeed they resize or destroy it.                         *)
(*                                                                         *)
(* What Vulkan asks of the calls it gets is recorded in "misuse".          *)
(***************************************************************************)
EXTENDS Naturals, FiniteSets, FiniteSetsExt, Sequences, SequencesExt, TLC

CONSTANTS
  Kinds, Families, FamilyOf,  \* queue kinds, queue families, each kind's primary family
  QueueCount,                 \* [family -> number of its queues]
  SpareQueues,                \* spareQueues an adopting host offers, a sequence
  Supports,                   \* [family -> kinds its flags allow]
  MaxQueues,                  \* bounds the queues callers hold
  Chains, None,               \* VkSwapchainKHRs, VK_NULL_HANDLE
  Counts, MinImages,          \* images a swapchain may get, minImageCount
  TrustsIsOk                  \* whether callers go on after any result that IsOk accepts

PresentationAssumption ==
  /\ FamilyOf \in [Kinds -> Families] /\ QueueCount \in [Families -> Nat \ {0}]
  /\ \A i \in DOMAIN SpareQueues : SpareQueues[i] \in Families \X Nat
  /\ IsInjective(SpareQueues)
  /\ MaxQueues \in Nat /\ None \notin Chains
  /\ MinImages \in Nat \ {0} /\ \A n \in Counts : n \in Nat /\ n >= MinImages
  /\ TrustsIsOk \in BOOLEAN

VARIABLES
  ownsDevice,   \* whether BasicRHI made the device; else a host did
  queues,       \* VkQueues of the queues callers hold, a bag as a sequence
  next, free,   \* queueFamilyNextQueueIndex, queueFamilyFreeQueueIndices
  spare,        \* spareQueues that were not handed out
  swapchain,    \* VulkanSwapchain, or None
  caller,       \* "free", or "refused": the last call did not succeed
  chains,       \* the driver's: [VkSwapchainKHR -> [count, retired, acquired]]
  handles,      \* registered resources of swapchain images
  semaphores,   \* VkSemaphores that exist...
  signalled,    \* ... and those that are signalled
  fence,        \* acquireFence: "none", "idle" or "pending"
  surface,      \* whether the window's VkSurfaceKHR exists
  lost,         \* chains whose creation failed after their images were registered
  misuse, submitFailed

queueVars == <<queues, next, free, spare>>
driver == <<chains, handles, semaphores, signalled, fence, misuse, submitFailed>>
vars == <<ownsDevice, queueVars, swapchain, caller, driver, surface, lost>>
-----------------------------------------------------------------------------
(* The kinds before k in the order Graphics, Compute, Copy that share its  *)
(* family take the indices before its own, as far as they reach.           *)
Rank(k) == CASE k = "graphics" -> 0 [] k = "compute" -> 1 [] k = "copy" -> 2

PrimaryIndex(k) ==
  LET earlier == Cardinality({j \in Kinds : FamilyOf[j] = FamilyOf[k] /\ Rank(j) < Rank(k)})
  IN IF earlier < QueueCount[FamilyOf[k]] THEN earlier ELSE 0

Primaries == {<<FamilyOf[k], PrimaryIndex(k)>> : k \in Kinds}

Init ==
  /\ ownsDevice \in BOOLEAN
  /\ queues = <<>>
  /\ next = [f \in Families |->
       IF ownsDevice THEN Max({0} \cup {q[2] + 1 : q \in {p \in Primaries : p[1] = f}}) ELSE 0]
  /\ free = [f \in Families |-> <<>>]
  /\ spare = IF ownsDevice THEN <<>> ELSE SpareQueues
  /\ swapchain = None /\ caller = "free"
  /\ chains = <<>> /\ handles = {} /\ semaphores = {} /\ signalled = {}
  /\ fence = "none" /\ surface = FALSE /\ lost = {}
  /\ misuse = {} /\ submitFailed = FALSE

(* d_createQueue on an adopted device: the first spare queue whose family  *)
(* supports the kind.                                                      *)
TakeSpare(k) ==
  /\ ~ ownsDevice
  /\ \E i \in DOMAIN spare :
       /\ k \in Supports[spare[i][1]]
       /\ \A j \in 1 .. i - 1 : k \notin Supports[spare[j][1]]
       /\ queues' = Append(queues, spare[i])
       /\ spare' = RemoveAt(spare, i)
  /\ UNCHANGED <<next, free>>

(* d_createQueue on a device of BasicRHI's own: an index freed, else the   *)
(* next one.                                                               *)
CreateQueue(k) ==
  LET f == FamilyOf[k]
      reuse == free[f] # <<>>
      index == IF reuse THEN Last(free[f]) ELSE next[f]
  IN /\ ownsDevice /\ index < QueueCount[f]
     /\ queues' = Append(queues, <<f, index>>)
     /\ free' = [free EXCEPT ![f] = IF reuse THEN Front(@) ELSE @]
     /\ next' = [next EXCEPT ![f] = IF index = @ THEN @ + 1 ELSE @]
     /\ UNCHANGED spare

(* d_destroyQueue of the i-th queue that callers hold. *)
DestroyQueue(i) ==
  /\ queues' = RemoveAt(queues, i)
  /\ IF ownsDevice
       THEN free' = [free EXCEPT ![queues[i][1]] = Append(@, queues[i][2])] /\ UNCHANGED <<next, spare>>
       ELSE spare' = Append(spare, queues[i]) /\ UNCHANGED <<next, free>>
-----------------------------------------------------------------------------
(* The swapchain and the driver as one record, for calls in a row.         *)
Now ==
  [s |-> swapchain, chains |-> chains, handles |-> handles, semaphores |-> semaphores, signalled |-> signalled,
   fence |-> fence, misuse |-> misuse, submitFailed |-> submitFailed, result |-> "Ok"]

Becomes(v) ==
  /\ chains' = v.chains /\ handles' = v.handles /\ semaphores' = v.semaphores /\ signalled' = v.signalled
  /\ fence' = v.fence /\ misuse' = v.misuse /\ submitFailed' = v.submitFailed

Result(v, r) == [v EXCEPT !.result = r]
Check(v, allowed, what) == IF allowed THEN v ELSE [v EXCEPT !.misuse = @ \cup {what}]
AcquireSemaphore == <<None, 0>>
Images(chain, count) == {chain} \X (0 .. count - 1)

(* VkAcquireNextSwapchainImage: what may become of v. *)
Acquired(v) ==
  LET c == v.s.chain
      d == v.chains[c]
      called == Check(Check(Check(v, v.fence = "idle", "fence in use"),
                            v.s.acquire \notin v.signalled, "acquire semaphore busy"),
                      Cardinality(d.acquired) <= d.count - MinImages /\ ~ d.retired, "acquire blocks")
      held(i) == [called EXCEPT !.chains[c].acquired = @ \cup {i}]
  IN {Result(v, "error"), Result(called, "error"), Result(called, "ModeChanged")} \cup
     UNION {{Result([held(i) EXCEPT !.signalled = @ \cup {v.s.acquire}, !.submitFailed = TRUE], "error"),
             Result([held(i) EXCEPT !.fence = "pending"], "error"),
             Result([held(i) EXCEPT !.s.current = i], "ModeChanged"),
             Result([held(i) EXCEPT !.s.current = i], "Ok")} :
            i \in (0 .. d.count - 1) \ d.acquired}

(* The queue signals the image's semaphore, on which its presentation      *)
(* waits; a presentation that is out of date is made all the same.         *)
Signal(v) ==
  LET semaphore == v.s.present[v.s.current + 1]
  IN [Check(v, semaphore \notin v.signalled, "present semaphore busy") EXCEPT !.signalled = @ \cup {semaphore}]

Presented(v) ==
  LET c == v.s.chain
  IN [Check(v, v.s.current \in v.chains[c].acquired, "image not acquired") EXCEPT
        !.chains[c].acquired = @ \ {v.s.current},
        !.signalled = @ \ {v.s.present[v.s.current + 1]}]

(* Fault: the next image is acquired before this one is presented. *)
PresentCalls_AcquireFirst(v) ==
  {Presented(Signal(a)) : a \in Acquired(v)} \cup {Result(v, "error")}

(* What may become of v in sc_present. *)
PresentCalls(v) ==
  LET signal == Signal(v)
      presented == Presented(signal)
  IN {Result(v, "error"), Result(signal, "error"), Result(presented, "ModeChanged")}
     \cup Acquired(presented)
     \cup {IF a.result = "Ok" THEN Result(a, "ModeChanged") ELSE a : a \in Acquired(presented)}

Accepted(result) == result = "Ok" \/ (TrustsIsOk /\ result = "ModeChanged")

Present ==
  /\ swapchain # None /\ swapchain.chain # None /\ caller = "free"
  /\ swapchain.current < Len(swapchain.present)
  /\ \E v \in PresentCalls(Now) :
       /\ Becomes(v) /\ swapchain' = v.s
       /\ caller' = IF Accepted(v.result) THEN "free" ELSE "refused"
  /\ UNCHANGED <<ownsDevice, queueVars, surface, lost>>
-----------------------------------------------------------------------------
Retired(v) ==
  IF v.s.chain = None THEN v
  ELSE [Check(v, ~ v.chains[v.s.chain].retired, "retired again") EXCEPT !.chains[v.s.chain].retired = TRUE]

ChainMade(v, c, n) ==
  [Retired(v) EXCEPT !.chains = (c :> [count |-> n, retired |-> FALSE, acquired |-> {}]) @@ @]

WithFence(v) == IF v.fence = "none" THEN [v EXCEPT !.fence = "idle"] ELSE v
WithAcquire(v) ==
  IF v.s.acquire # None THEN v
  ELSE [v EXCEPT !.s.acquire = AcquireSemaphore, !.semaphores = @ \cup {AcquireSemaphore}]

ChainGone(v, c) ==
  IF c = None THEN v
  ELSE [v EXCEPT !.chains = [d \in DOMAIN @ \ {c} |-> @[d]]]

(* What a resize that succeeds destroys of the swapchain it replaces. *)
OldGone(v, old) ==
  ChainGone([v EXCEPT !.handles = @ \ old.images, !.semaphores = @ \ Range(old.present),
                      !.signalled = @ \ Range(old.present)], old.chain)

(* VkCreateOrResizeSwapchain: a swapchain of n images takes the old one's  *)
(* place, or one of the steps fails: then what was new is destroyed again  *)
(* and the old one put back.  With no surface format, or no present mode,  *)
(* it succeeds and has made nothing.                                       *)
CreatedOrResized(v, c, n) ==
  LET old == v.s
      made == ChainMade(v, c, n)
      fenced == WithFence(made)
      ready == WithAcquire(fenced)
      semaphore == [i \in 1 .. n |-> <<c, i - 1>>]
      fresh == [ready EXCEPT !.s.chain = c, !.s.images = Images(c, n), !.s.present = semaphore,
                             !.handles = @ \cup Images(c, n), !.semaphores = @ \cup Range(semaphore)]
  IN {Result(v, "error"), v}
     \cup {Result(w, "error") : w \in {Retired(v), ChainGone(made, c), ChainGone(fenced, c), ChainGone(ready, c)}}
     \cup Acquired(OldGone(fresh, old))

(* All work is done: what waits in a queue has happened. *)
WaitIdle(v) == IF v.fence = "pending" THEN [v EXCEPT !.fence = "idle"] ELSE v

NewSwapchain == [chain |-> None, images |-> {}, present |-> <<>>, acquire |-> None, current |-> 0]

(* What a creation that failed destroys: not its swapchain and its images. *)
Undone(v) ==
  [v EXCEPT !.semaphores = @ \ (Range(v.s.present) \cup {v.s.acquire}),
            !.signalled = @ \ (Range(v.s.present) \cup {v.s.acquire}), !.fence = "none"]

CreateSwapchain ==
  /\ ownsDevice /\ swapchain = None
  /\ \E c \in Chains \ DOMAIN chains, n \in Counts :
       \E v \in CreatedOrResized([Now EXCEPT !.s = NewSwapchain], c, n) :
         IF v.result = "Ok"
           THEN Becomes(v) /\ swapchain' = v.s /\ surface' = TRUE /\ UNCHANGED lost
           ELSE /\ Becomes(Undone(v))
                /\ lost' = lost \cup (DOMAIN v.chains \ DOMAIN chains)
                /\ UNCHANGED <<swapchain, surface>>
  /\ caller' = "free"
  /\ UNCHANGED <<ownsDevice, queueVars>>

(* sc_resizeBuffers.  A success that has made nothing mends nothing. *)
ResizeBuffers ==
  /\ swapchain # None
  /\ \E c \in Chains \ DOMAIN chains, n \in Counts :
       \E v \in CreatedOrResized(WaitIdle(Now), c, n) :
         /\ Becomes(v) /\ swapchain' = v.s
         /\ caller' = IF ~ Accepted(v.result) THEN "refused" ELSE IF v.s.chain = c THEN "free" ELSE caller
  /\ UNCHANGED <<ownsDevice, queueVars, surface, lost>>

DestroySwapchain ==
  /\ swapchain # None
  /\ LET gone == OldGone(WaitIdle(Now), swapchain)
     IN Becomes([gone EXCEPT !.semaphores = @ \ {swapchain.acquire}, !.signalled = @ \ {swapchain.acquire},
                             !.fence = "none"])
  /\ swapchain' = None /\ surface' = FALSE /\ caller' = "free"
  /\ UNCHANGED <<ownsDevice, queueVars, lost>>

Next ==
  \/ /\ \/ \E k \in Kinds : (TakeSpare(k) \/ CreateQueue(k)) /\ Len(queues) < MaxQueues
        \/ \E i \in DOMAIN queues : DestroyQueue(i)
     /\ UNCHANGED <<ownsDevice, swapchain, caller, driver, surface, lost>>
  \/ Present
  \/ CreateSwapchain
  \/ ResizeBuffers
  \/ DestroySwapchain

Spec == Init /\ [][Next]_vars

Symmetry == Permutations(Chains)
-----------------------------------------------------------------------------
(* Records are in range: a swapchain's chain, images and semaphores are    *)
(* the driver's, so that no action reads what it has destroyed.            *)
(* NothingLeaked includes this.                                            *)
TypeOK ==
  /\ \A i \in DOMAIN queues : queues[i] \in Families \X Nat
  /\ swapchain # None =>
       /\ swapchain.chain \in DOMAIN chains \cup {None}
       /\ swapchain.images \subseteq handles
       /\ Range(swapchain.present) \subseteq semaphores
       /\ swapchain.acquire \in semaphores \cup {None}
  /\ \A c \in DOMAIN chains : chains[c].acquired \subseteq 0 .. chains[c].count - 1
  /\ signalled \subseteq semaphores /\ handles \subseteq Chains \X Nat
  /\ fence \in {"none", "idle", "pending"}

(* Every queue that CreateQueue handed out is a VkQueue of its own, not a  *)
(* primary one and no other caller's, however queues are destroyed and     *)
(* created; and no queue is forgotten: each index that was ever handed out *)
(* is a primary's, held or free, once, and each spare queue held or spare. *)
QueuesDistinct ==
  /\ IsInjective(queues)
  /\ ownsDevice =>
       /\ Range(queues) \cap Primaries = {}
       /\ \A f \in Families :
            /\ IsInjective(free[f])
            /\ Range(free[f]) \cap {q[2] : q \in {p \in Range(queues) \cup Primaries : p[1] = f}} = {}
            /\ 0 .. next[f] - 1 =
                 Range(free[f]) \cup {q[2] : q \in {p \in Range(queues) \cup Primaries : p[1] = f}}
  /\ ~ ownsDevice =>
       /\ Range(queues) \cup Range(spare) = Range(SpareQueues)
       /\ Len(queues) + Len(spare) = Len(SpareQueues)

(* While callers may present, the image that CurrentImageIndex names is    *)
(* the one image acquired, its semaphores are unsignalled and its          *)
(* swapchain is not retired: whatever failed before was undone.            *)
CurrentHeld ==
  swapchain # None /\ swapchain.chain # None /\ caller = "free" =>
    /\ chains[swapchain.chain].acquired = {swapchain.current}
    /\ ~ chains[swapchain.chain].retired
    /\ Len(swapchain.present) = chains[swapchain.chain].count
    /\ signalled \subseteq {swapchain.acquire} /\ fence = "idle"

(* No call asks Vulkan for what it forbids: present an image that is not   *)
(* acquired, signal a signalled semaphore, acquire with a semaphore or a   *)
(* fence in use, acquire so many that it may block for ever.  Two are left *)
(* out: a resize after a failed one retires a swapchain again, and a       *)
(* submission that fails after an acquisition leaves its semaphore         *)
(* signalled, which the next resize acquires with.                         *)
CallsValid ==
  misuse \subseteq {"retired again"} \cup (IF submitFailed THEN {"acquire semaphore busy"} ELSE {})

(* Presenting goes on after every result that counts as success.           *)
PresentsAcquired == "image not acquired" \notin misuse

(* Swapchains, images, semaphores, the fence and the surface that exist    *)
(* are the live swapchain's, whichever step failed, but for the swapchain  *)
(* of a creation that failed at its first image, which stays.              *)
NothingLeaked ==
  LET s == swapchain
  IN /\ TypeOK
     /\ DOMAIN chains = lost \cup (IF s = None THEN {} ELSE {s.chain} \ {None})
     /\ handles = UNION {Images(c, chains[c].count) : c \in lost} \cup (IF s = None THEN {} ELSE s.images)
     /\ semaphores = IF s = None THEN {} ELSE Range(s.present) \cup ({s.acquire} \ {None})
     /\ surface = (s # None)
     /\ s = None => fence = "none"
=============================================================================

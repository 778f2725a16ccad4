# BasicRHI: TLA+ models, model checks and proofs

BasicRHI (`src/README.md`) is the rendering hardware abstraction under OpenRenderGraph and BasicRenderer:
one C++ interface (`rhi.h`), a Vulkan backend (`rhi_vulkan.*`), a D3D12 backend (`rhi_dx12.*`), and a
suballocator of device memory (`rhi_allocator.*`, derived from D3D12MA) that runs over either backend.
This directory holds TLA+ models of the parts whose state is hard to get right, TLC configurations that
check them on small instances, and TLAPS proofs of what matters most for every instance.

`PROJECT.json` lists components, runs, findings, hazards and theorems, and maps every definition to the
source lines it stands for. In the modules, a definition marked `Fault:` is not used by the model: it is a
plausible bug in the code of the definition that follows it, and a property must catch it when it takes
that definition's place.

## 1. Inventory

| Part | State | Operations | What is hard | What makes it correct |
|---|---|---|---|---|
| `BlockMetadata_TLSF` (also virtual blocks) | physical blocks, free lists by size class, two bitmaps, null block, counters | CreateAllocationRequest (4 strategies), Alloc, Free, Clear | splits, alignment padding and merges around the null block; three-stage search through bitmaps | blocks tile the heap; lists, bitmaps and counters describe exactly the free blocks; a request fails only if nothing fits |
| `BlockMetadata_Linear` | two vectors of suballocations, mode (stack, ring, double stack), null-item counters | the same | the vectors swap roles, wrap and are compacted while freed items stay behind | order by address, exact counters, every held allocation found again |
| `BlockVector`, `NormalBlock` | ordered vector of heaps, `m_HasEmptyBlock`, sort flag, limits | AllocatePage, CreateBlock, Free, incremental sort, CreateMinBlocks | budget read before the lock, heap destroyed after it, heaps that fail on the device | only empty heaps are destroyed; the flag is honest; limits hold; no heap is created in vain |
| `DefragmentationContextPimpl` | cursor, moves of the pass, immovable blocks, statistics | BeginPass, EndPass | other threads allocate and free between and during passes; unsigned statistics go up and down | passes within their limits; temporaries freed; moves go forward |
| `AllocatorPimpl`, `Allocation` | budget counters, committed lists, the callers' pointers | CreateResource, AllocateMemory, Release | fallback from one kind of memory to another after a step failed; counters under no lock | nothing lost, nothing released twice, counters exact when idle |
| `CurrentBudgetData` fetching, `PoolPimpl` | cached usage and budget; a pool's block vector and committed list | UpdateBudget, GetBudget; CreatePool, release | counters change during the fetch; creation that fails after construction | the estimate follows the counters; registered pools are the live ones |
| `VulkanRegistry` | slots with generations, free list | alloc, free, get | an index is reused while old handles are kept | a handle resolves to its own object or to nothing |
| Descriptor slots, sampler cache, swapchain images (Vulkan) | list of views through slots and resources, cache of samplers with counts, image handles | Create...View, CreateSampler, heaps, DestroyBuffer/Texture, resize and destroy of the swapchain | destruction in three critical sections, raw pointers into reused registry slots, resize that fails half-way | every resource lists exactly its views; no view outlives its resource; the cache counts exactly |
| Memory, buffers and textures, mapped memory (Vulkan) | heaps, resources committed, placed, imported; mappings counted per memory | create, import, map, unmap, destroy | memory shared by placed resources may be mapped once; every creation may fail half-way | mapped while anyone uses it; nothing leaked |
| Queues and swapchain (Vulkan) | queue indices in use, free and spare; images, semaphores, the current image | create/destroy queue; create, acquire, present, resize, destroy | indices reused; a present that fails before or after acquiring | no queue with two owners; the current image is the acquired one |
| Layouts, static samplers, descriptor heaps, pipelines, indirect sets, command signatures, command allocators (Vulkan) | registries of objects that refer to each other; sampler heap tails; push data split at 128 bytes | creations, updates, destructions, Shutdown | creation stops at a dozen returns; samplers and heaps made in any order; dependents destroyed first | nothing leaked; samplers in place; interfaces of layouts, signatures and hit groups match |
| Command lists (Vulkan) | pass, bound heaps, push data and its spill, preprocess pages, error | record, End, Reset, ExecuteCommands, ExecuteIndirect | what the list remembers against what the buffer holds after secondaries and generated commands | what a submitted list reads is what it was given |
| Barriers (Vulkan) | recorded batches, submitted states | Barrier, Submit | states advanced by lists recorded in any order, before the submission that may fail | what validation accepts starts from the layouts the GPU left |
| Timelines, CompletionWait (Vulkan) | semaphore, last submitted value, count of host waits; version and control semaphore | Create/DestroyTimeline, Submit, HostWait, WaitIdle, Present, Notify, Wait | semaphores destroyed under waiting threads, timeouts, lost wake-ups, a submission that fails | no wait on a destroyed semaphore, no lost notification, WaitIdle covers what was submitted, calls return |
| Queues, timelines, CompletionWait (D3D12) | fences, one event per registered timeline | Submit, WaitIdle, HostWait, CompletionWait | registrations cannot be taken back; device removal sets every fence to the greatest value | no lost wake, no event closed that the runtime is still to set |
| Command lists, bundles, layouts, signatures (D3D12) | layout bound, shadows of emulated push data, scratch pages, error of a bundle | record, End, reset, ExecuteCommands, ExecuteIndirect | a push uploads words pushed before, to memory that earlier draws read; bundles refuse what they cannot hold | draws read what was pushed; nothing illegal is given or accepted |
| Objects, views, swapchain, device (D3D12) | registries, the swapchain's images and handles | create, destroy, resize, views, Shutdown | back buffers have references in the registry and in the swapchain; a resize may stop at any image | every object has one owner, every image its back buffer |
| Binding plan and SPIR-V lowering (Vulkan, descriptor-buffer model) | the plan of a layout; per shader: mappings, clones of pushed blocks, address dwords | one lowering per stage | halves of addresses inside pushed blocks, spilled push data, matrices and dynamic indices under claimed alignments | the lowered shader reads what the plan says, aligned as it claims |
| Statistics, debug layer, widgets, vendored editor | little or none between calls | translations | data, not control | see section 6 |

The allocator calls down: `AllocatorPimpl` picks a `BlockVector` or committed memory, `BlockVector` asks the
metadata of each heap, all of them update the budget's counters. Callers hold `Allocation` pointers and give
them back from any thread. In the Vulkan backend every object lives in a registry; resources and descriptor
slots point at each other directly, under `descriptorViewsMutex`; submission, host waits, present and
timeline destruction share `timelinesMutex`; memory is mapped and freed under `deviceMemoryMutex`.
Destruction of anything the GPU uses arrives late, through deferred deletion, from whichever thread retires
the work.

## 2. Modules

### Heap, BlockMetadata, TLSF, Linear

`Heap` is the abstract specification of a block's metadata: `live`, the set of granted ranges, with three
steps (grant, free, clear). A grant needs an offset at a multiple of the alignment, apart from every live range
by `DebugMargin`, inside the block; which offset is not said.

`TLSF` and `Linear` are the two classes. In `TLSF`, `m` holds the fields of `BlockMetadata_TLSF`; a physical
block is known by its offset, so the linked list is the domain of `m.size`; `freeList`, `isFree` and
`innerIsFree` are the code's lists and bitmaps. Each private helper is an operator on the record, and
`FindBlock` follows `CreateAllocationRequest` strategy by strategy, in the code's order of lists. `Linear`'s `v`
has the two vectors with null items, the mode and the three counters; the ping-pong index is abstracted by
naming the vectors first and second; `CompactAbove` is the constant 32 of `ShouldCompact1st`.

`BlockMetadata` is the virtual interface over both: the algorithm is chosen at Init, as the constructors do
once, and every operation goes to an instance of its class. `ImplementsHeap` is the refinement: the abstract
`live` is what callers hold.

### BlockVector and Defrag

One action for each way `AllocatePage` can go (from an existing block, in a new block), `Free`, and
the sorts. Actions that run under `m_Mutex` are atomic; the budget, read before the lock, is any value, and
the heap that left the vector is destroyed by a later step (`doomed`). The metadata of a block is the set of
allocations in it: a request certainly succeeds on an empty block with room, certainly fails on a block with
too little free space, and either happens in between, which is what `Heap` allows.

`Defrag` extends it with a defragmentation context of one pool: `PassBegin` under the lock, one step for each
block it visits; the user's answer to each move; `PassEnd`, move by move and without the lock between, while
the other threads' actions of `BlockVector` go on.

### Allocator

Every thread makes calls: `Call` computes the order in which `CreateResource` or `AllocateMemory` tries
committed memory and the block vector; steps then succeed or fail on the device; `CreatePlacedResource`
follows a successful allocation and may fail too. A thread owns one `AllocationPtr`, whose `Put()`
releases first. The budget's atomics are updated one at a time, in the code's order, between other
threads' updates (`counting`). `MCAllocator` enumerates the requests.

### Registry and Descriptors

`Registry` is `VulkanRegistry<T>` as operators on a value: `Alloc` reuses the index freed last with the next
generation, `Resolves` is `get`. `Descriptors` keeps one registry of resources, an object of it being the
head of the resource's list of views, and the slots with their raw pointer, next and previous. A pointer to
a resource is a pointer into the registry's slot, so a stale one reaches whatever lives there: the model
keeps the handle for the property and follows the index for the effect. Writing a view, a sampler or
a whole heap is atomic (`descriptorViewsMutex`); destroying a resource is three steps, as in `d_destroyBuffer`;
a resize allocates image by image and fails at each point the code can.

### DeviceObjects: Resources, Presentation, ShaderObjects, Lowering

`VulkanObjects` composes three modules that share nothing but the driver's device, and `DeviceObjects` adds
`Lowering` to them (apart, as its recursive operators would keep the provers away); `part` says whose behaviour
is followed, since the steps of different parts commute. In each, an action is a call, the driver may fail at
each of its steps, and native objects are reused lowest unused first, so that stale handles meet new objects.

- `Resources`: heaps, buffers and textures with memory of their own, placed or imported, mapping counts per
  memory, destruction and Shutdown of devices owned or adopted.
- `Presentation`: queue indices handed out and taken back, the swapchain's images, semaphores and fence,
  acquisition, presentation and resize.
- `ShaderObjects`: layouts with their push data, spilling and static samplers, heaps with sampler tails,
  pipelines and ray tracing groups, indirect sets, command signatures and their tokens, allocators and lists
  with their scratch, and the thirteen steps of Shutdown. Layouts' push data and `VkBuildBindingPlan` are in
  `BindingPlan`, which `Lowering` extends, too.
- `Lowering`: the passes of `DescriptorBufferLoweringPass` over a shader given as its resource variables and the
  index chains of their uses. What the code reads becomes a term of pushed dwords, sums and loads, whose meaning is
  compared with what the plan's mapping says (`Meant`), and whose claimed alignments with the places the indices
  may lead to (`Places`). `LoweringInputs` has the layouts and shaders.

### CommandList, Barriers, Timelines

`CommandList` sets what a list remembers (`list`) against what its buffer holds (`gpu`). A push data block is
three cells, one pushed, one at the place of the spill's address, one spilled; a secondary, generated commands
or a preprocess undo what was bound. `Barriers` sets the states `q_submit` keeps (`submitted`) against the states
the barriers leave (`actual`). In `Timelines`, `timelinesMutex` is held within actions, except by `Present`,
which keeps it while it waits (`mutex`). `HostWait` counts its wait, blocks, and gives the count up after any
end; `DestroyTimeline` sleeps until the count is zero. `Wait` and `Notify` are the `CompletionWait`, whose
waiter may be anywhere between reading the version and blocking.

### Dx12Device: Dx12, Dx12Commands, Dx12Objects

`Dx12Device` extends `Dx12`, whose properties it keeps, and instantiates the other two; `part` says which of the three
a behaviour exercises, as in `DeviceObjects`.

- `Dx12`: the promises of `Timelines` from the other backend: fences, events and the `CompletionWait` that registers
  one event per timeline, is notified by a control event, and tears registrations down without closing an event the
  runtime is still to set. The removal of the device sets every fence to `Removed`. As in `Timelines`, callers order
  the signals of a timeline themselves (`Follows`), on one queue or by waiting.
- `Dx12Commands`: a list has the arguments its native list holds, the shadows of its emulated ranges, its scratch
  pages and what was pushed last (`wanted`). A draw notes which words of scratch memory it will read and
  what they should be, so that a later push over memory still needed shows. A bundle is a list whose commands go
  through `Rejected`; commands given to D3D12 are judged by what it allows (`illegal`).
- `Dx12Objects`: one registry for all kinds of objects, whose handles are numbers reused lowest first; resources
  name the back buffer they hold, a swapchain its images and handles. A creation that the driver fails changes
  nothing, which is why it is no step, save for the three of `Unhandled`.

## 3. Runs

| Run | Module, configuration | What it shows | Properties |
|---|---|---|---|
| `allocator` | `MCAllocator`, `MCAllocator.cfg` | Three threads allocate and release at once through committed memory and a block vector that shares one lock, while heaps and resources may fail: nothing is lost or released twice, and the unlocked budget counters are right whenever nothing runs. | `NothingLost`, `ReleasedOnce`, `BudgetExact`, `NeverAllocateRespected` |
| `barriers` | `Barriers`, `Barriers.cfg` | Two lists, primaries or secondaries, record barriers of a texture and a buffer with right and wrong before-states and are submitted alone and together: what the validation lets through starts from the layouts the GPU left, and the states it keeps are the GPU's. | `TransitionsSound`, `StatesExact` |
| `blockvector` | `BlockVector`, `BlockVector.cfg` | A block vector with one reserved block, heaps that fail on the device and any budget: heaps are destroyed only empty, the empty flag is honest, no heap is created in vain. | `DestroyedWhenEmpty`, `EmptyFlagHonest`, `NoHeapInVain` |
| `commandlist` | `CommandList`, `CommandList.cfg` | Two lists of any kind record passes, push data, heaps, generated commands and secondaries in any order, with every failure: what a list that can be submitted recorded is right, and preprocess memory is never shared. | `PushDataCurrent`, `RenderingTracked`, `BindingsHonest`, `RangesUnique`, `SubmittedSound` |
| `defrag` | `Defrag`, `Defrag.cfg` | A pool is defragmented pass by pass, every answer to every move, while other threads allocate and free: passes keep to their limits, temporaries are all freed, and what is still to move goes forward. | `PassWithinLimits`, `TempsAccounted`, `MovesForward` |
| `descriptors` | `MCDescriptors`, `MCDescriptors.cfg` | Two threads destroy and resize while views and samplers are written and rewritten and heaps come and go: every resource lists exactly its views, no view outlives its resource or hangs on the one that reuses its index, the sampler cache counts exactly, and a failed resize leaves the old images as they were. | `ResourcesExact`, `ViewsOfLiveResources`, `SamplersExact` |
| `descriptors_resize` | `MCDescriptors`, `MCDescriptors_resize.cfg` | **Violation.** A swapchain is resized while slots hold views of its images: the old images are destroyed without releasing their views, and the slots go on pointing into the registry slot the next resource takes. | `ViewsOfLiveResources` |
| `dx12` | `MCDx12Device`, `MCDx12Device.cfg` | A D3D12 device. Its queues are submitted to and drained while the CompletionWait sleeps, is notified and torn down and the device may be removed: idle means done, no wake is lost, no event closed too soon. Lists and bundles record: draws read the push data given last, nothing illegal is given or accepted. Objects and swapchains are made, resized and destroyed, with failures, up to Shutdown: each has one owner and each image its back buffer. | `IdleMeansDone`, `NoLostWake`, `PushDataRight`, `CommandsLegal`, `ObjectsExact`, `ClosedWhenSettled` |
| `metadata` | `BlockMetadata`, `BlockMetadata.cfg` | One block of either algorithm under every sequence of allocations, dropped requests, frees and clears: its lists, bitmaps, vectors and counters stay exact, a TLSF request fails only when no hole is large enough, and both classes implement the abstract heap. | `TlsfValid`, `LinearValid`, `RequestComplete`, `ImplementsHeap` |
| `deviceobjects` | `MCDeviceObjects`, `MCDeviceObjects.cfg` | The objects of a device are created with every driver call failing, used, resized, reset, destroyed in any order and shut down: nothing leaks, Vulkan is asked for nothing it forbids, mappings are counted, queues are distinct, static samplers are in place, layouts, sets, signatures and hit groups match, and shaders are lowered to what their layout says. | `MappingsExact`, `NothingLeaked`, `CallsValid`, `InterfacesMatch`, `LoweringFaithful` |
| `deviceobjects_scratch` | `MCDeviceObjects`, `MCDeviceObjects_scratch.cfg` | **Violation.** A command list that is destroyed without a reset keeps its transient query pools from ever being destroyed. | `ScratchWithWrapper` |
| `timelines` | `Timelines`, `Timelines.cfg` | Submissions that may fail, waits with and without timeouts, presents, notifications and destructions by three threads: no semaphore is destroyed under a counted wait, no notification is lost, WaitIdle covers what was submitted, and every call whose condition is met returns. | `CountersExact`, `WaitsOnLiveSemaphores`, `NoLostWake`, `IdleMeansDone`, `AllReturn` |

**Bounds.** Heap sizes are the least that hold a full cycle of split, padding and merge with a free block
on either side, and that cross memory classes (TLSF) or wrap and compact (linear). Three heaps are
what it takes to sort, to have one empty and one more emptied, and to be at the limit. Three allocator threads
put one counter update of one call between two of another while a third sees both. Four handles are the two
images of a swapchain and two more, for its next images or for buffers; two generations make one reuse. One image is not
enough: only with two does a call leave the second where it was while it destroys the first. Three slots
give a list a head, a middle and an end. Two timelines let one wait cover two semaphores with one of them
destroyed; two queues let a timeline be signalled by both; four calls between three threads are a wait, a
submission, a destruction and one more to race them. A D3D12 CompletionWait of two registrations meets a third timeline only by taking one over, which is
what sixty-three do with a sixty-fourth. Two command lists are a list and the secondary, or the preprocess
target, it works with; one of them adopted; of its two layouts
one pushes the cell where the other spills, and either order of them is a change that undoes push constants. Three handles of shader objects are a layout, what was made with it
and something that reuses a handle; layouts cross 128 bytes at each place a range can. Three variables of a lowered
shader are a pushed block and two addresses that lie in it. The bounds named
`Max...` limit what the program does not. Deadlock is checked except in `Timelines` and `MCDx12Device`, where all
calls may be spent, or a thread may wait for a value nobody submits, in `CommandList` and `Barriers`, where
lists may all have been submitted or have failed. Which of these ends are legitimate in `Timelines` is what
`AllReturn` says.

**What callers keep to** is stated at the head of each module: it is what the interface asks (nobody makes a view
of a resource being destroyed, a timeline is destroyed once no batch uses it, what is placed in a heap
goes before it), and what section 5 found not to work. Everything else stays in: failures, timeouts, stale
handles, any order of frees.

**Fairness.** Only `Timelines` has liveness properties. Weak fairness is assumed of the GPU (a queue executes the
batches it can) and of threads inside a call (they continue; a wait that is answered returns, as
`vkWaitSemaphores` does). No thread is made to begin a call, and a timeout may, but need not, happen. Since
the calls are bounded, an endless series of host waits that starves DestroyTimeline is outside the model.
The other modules make safety claims only and assume no fairness.

## 4. Proofs

| Theorem | What it establishes |
|---|---|
| `Allocator_proofs!NothingEverLost` | For any number of threads, objects and heaps, and any calls that have no second kind of memory to fall back to after a resource could not be created in the first: every Allocation object is the one some caller's pointer refers to. |
| `Allocator_proofs!AlwaysReleasedOnce` | For the same calls: what an idle caller holds has its own heap registered, or its place in a block that is still there; no block goes while an allocation is placed in it, though it is emptied and retired by other threads. |
| `Allocator_proofs!BudgetAlwaysExact` | For the same calls, in every interleaving of the single updates of the budget's counters: the bytes allocated never exceed the bytes of the heaps, and between calls both are the sums of what there is. |
| `Allocator_proofs!NeverAllocateAlwaysRespected` | For any calls at all: one with NeverAllocate neither adds a block to the vector nor allocates a heap of its own. |
| `Barriers_proofs!TransitionsAlwaysSound` | For any number of lists, textures, buffers and barriers: what the validation lets through starts from the layout its texture is in, until a submission fails late or runs barriers that were not checked. |
| `Barriers_proofs!StatesAlwaysExact` | For any number of lists, textures, buffers and barriers: the states Submit keeps are those the barriers left, in whatever order lists are recorded and submitted and however many submissions are rejected. |
| `BlockVector_proofs!BlockVectorSafe` | For any number of heaps, allocations, sizes and limits: heaps destroyed outside the lock are empty, and the vector stays between its minimum and maximum length. The inductive invariant adds that a heap waiting to be destroyed is no longer in the vector. |
| `BlockVector_proofs!EmptyFlagAlwaysHonest` | m_HasEmptyBlock never claims an empty block that is gone, after any mix of allocations, frees, new blocks and sorting steps. |
| `BlockVector_proofs!HeapsNeverInVain` | Without a debug margin, every heap the retry loop of halved sizes creates holds the allocation it was created for, whatever the sizes. |
| `CommandList_proofs!RangesAlwaysUnique` | For any number of lists and preprocess pages, whichever calls to Vulkan fail: every page is one list's or the pool's, no range is handed out while recorded commands use it, and their pages stay their list's. |
| `CommandList_proofs!PushDataAlwaysCurrent` | For any number of lists, heaps and preprocess pages, if no reset of a list that still records fails half-way: a command reads the push data last given, through every change of layout, spill, secondary, generated command and preprocess, or its list has failed. |
| `CommandList_proofs!RenderingAlwaysTracked` | For any number of lists, heaps and preprocess pages, if no reset of a list that still records fails half-way: a list believes in a pass exactly while its buffer is inside a rendering it began, nothing invalid there is recorded inside one, and an ended list has none open. |
| `CommandList_proofs!BindingsAlwaysHonest` | For any number of lists, heaps and preprocess pages, if no reset of a list that still records fails half-way: the heap whose repeated bind a list drops is the one its buffer has. |
| `CommandList_proofs!SubmittedAlwaysSound` | For any number of lists, heaps and preprocess pages, if no reset of a list that still records fails half-way: a list Submit accepts of a caller who looks at what End returned is ended and recorded without fault, and so are the secondaries it executes. |
| `BlockVector_proofs!PassAlwaysWithinLimits` | For any vector, limits and width of the ignored counter: no pass moves more than it may, and the unsigned statistics never wrap, since at every moment they cover the moves still to be answered. What is summed are the sizes of allocations that may change places meanwhile. |
| `BlockVector_proofs!TempsAlwaysAccounted` | Whichever way each move ends, and whatever other threads allocate and free between, each temporary is the second place of exactly one live allocation of its size, and none outlives its pass. |
| `BlockVector_proofs!MovesAlwaysForward` | From the beginning to the end of a pass every move left leads to a block that is not behind the one it leaves, although heaps are created and let go meanwhile: the suspended sort is what keeps the order. |
| `Descriptors_proofs!AllocIsFresh` | alloc() returns a handle that never resolved before and was never retired, and that resolves to the object from then on. |
| `Descriptors_proofs!AllocKeepsOthers` | alloc() leaves every resolving handle its object and brings no retired handle back. |
| `Descriptors_proofs!FreeRetires` | free() retires its handle for good and touches no other object. |
| `Descriptors_proofs!StaysWellFormed` | From the empty registry on, alloc() and free() of any handle, stale or not, keep the free list exactly the indices without an object, which the other theorems assume. |
| `Descriptors_proofs!SamplersAlwaysExact` | The sampler cache always counts, for each description, exactly the slots that have it, and holds no more samplers than its budget. |
| `Descriptors_proofs!ResourcesAlwaysExact` | Every resource always lists exactly the slots with views of it, once and linked both ways, and every handle that resolves belongs to one caller, to the swapchain or to a call that frees it. Assumes that no views of old images are kept when a swapchain is resized, as finding rhi_vulkan.cpp:3924 makes them dangle. |
| `Descriptors_proofs!ViewsAlwaysOfLive` | A slot's raw pointer never leads into a registry slot whose resource is gone or has been replaced, under the same assumption. |
| `Dx12_proofs!IdleAlwaysDone` | For any number of threads, queues and timelines, unless the device is removed: once WaitIdle or DestroyQueue has done with a queue, the queue has executed all it had been given before the call, whatever is submitted meanwhile. |
| `Dx12_proofs!NothingSleptThrough` | For any number of waits, notifications and registrations taken over: a CompletionWait asleep without its event set has neither missed a Notify nor a point that was reached. |
| `Dx12_proofs!ClosedAlwaysSettled` | For any number of waits and teardowns in any order: an event the runtime has still to set is never closed, neither when a registration changes hands nor when the CompletionWait is destroyed. |
| `Dx12_proofs!CommandsAlwaysLegal` | For any number of lists, bundles, allocators and signatures: D3D12 is given no command it does not allow, a list that was refused one is never accepted by End, and no list that another one executes was refused one, however they are recycled and destroyed. |
| `Dx12_proofs!PushDataAlwaysRight` | For any layouts, ranges, page sizes and order of pushes, draws, bundles and indirect commands: while scratch memory can be had, each draw reads, in each stage, the words pushed last, and no later push writes over scratch memory a recorded draw reads. |
| `Dx12_proofs!ObjectsAlwaysExact` | For any handles, windows, back buffer counts and descriptions, if none of the three failures of Unhandled happens: every registered object has one owner, every image its back buffer, through resizes that stop anywhere, and Shutdown leaves nothing registered but work graphs, which it forgets. |
| `BlockVector_proofs!HeapSafe` | Live allocations of a heap never overlap, keep the margin, lie inside and are aligned, for every size, margin and set of requests; either metadata class implements this heap (run metadata). |
| `VulkanObjects_proofs!MappingsAlwaysExact` | Each memory is mapped while a resource on it is, and counts exactly their mappings, whatever is created, mapped, unmapped, destroyed or shut down, in any order and number. |
| `VulkanObjects_proofs!MemoryNeverLeaked` | The memory's part of NothingLeaked: buffers, images and memory each belong to one live handle however a creation fails, and Shutdown leaves the host's objects only. |
| `VulkanObjects_proofs!MemoryCallsAlwaysValid` | The memory's part of CallsValid: no memory is mapped, unmapped or freed twice, and nothing is bound outside its memory, at a wrong alignment or in a wrong type. |
| `Timelines_proofs!CountersAlwaysExact` | For any number of threads, timelines and queues: the count of host waits of a timeline is the number of threads that counted themselves in and are not out yet, in every interleaving of waits, timeouts, failures, submissions and destructions. |
| `Timelines_proofs!WaitsAlwaysOnLiveSemaphores` | No thread waits on a destroyed semaphore, as long as WaitIdle of an adopted device does not overlap a deferred destruction (DestroyDuringIdle). |
| `Timelines_proofs!NoWakeIsLost` | A CompletionWait whose caller has something to see is awake or has its control semaphore signalled: the version keeps a notification that finds nobody waiting. |
| `Timelines_proofs!IdleAlwaysMeansDone` | A WaitIdle that returns success has seen every batch submitted before it began done, for any number of queues that share timelines as callers may. |

- **Heap.** The conjunction is inductive as it stands: a grant's guard keeps the new range away from every
  other, and the margin makes ranges of positive size distinct. With the refinement that TLC checks, this
  is the safety of both metadata structures.
- **BlockVector.** `IInv` adds to the properties that a heap waiting to be destroyed has left the vector
  (`InVector \cap doomed = {}`): without it nothing would forbid placing an allocation in a doomed heap.
  The lemmas give, for vectors without repetitions, what removal, one step of the incremental sort, any
  complete sort and appending do to their length and elements (`VectorOf`). The proof has one lemma per action.
  It rests on `BlockVectorAssumption` alone, which says that the limits and sizes are natural numbers in order.
  `HeapsNeverInVain` needs `NewBlockHolds` besides: the sizes the retry loop halves stay at least that of the
  allocation, and one that fits an empty heap is granted. It assumes `DebugMargin = 0`, as the code is built; with a
  margin a heap of exactly the request's size cannot hold it.
- **Defrag.** The proofs are in `BlockVector_proofs`, whose `IInv` they use. `DInv` adds what a context knows of its pass.
  `MovesFit`: the moves left have different sources and temporaries, the temporaries are all there are, and each
  is as large as its source and not behind it (`Before`). It is stated from the first move that is not done on: between
  the answer to a move and the release of its temporary, the source may be gone already. `Covered`: the counters are within
  the limits and at least what the moves left add up to, and exactly that when as many are counted as are left;
  this is why subtracting a move given up cannot wrap. `VisitFits`, in the course of `PassBegin`: what the pass
  has taken lies in the block it visits or behind, which is why a source is never taken twice and a later move never leads
  backwards. Other threads keep all of it because, the sort being suspended, removing a block and appending one leave the order of the
  others as it was (`OrderKept`, from the lemmas on `VectorOf`), and a heap that is let go has nothing in it. The sums of sizes are those of
  the Allocator below, with the same lemmas. The assumption that `2^IgnoredBits` is a positive number is there for the
  provers, which know no powers.
- **Descriptors.** Of the registry, `WellFormed` says that the free list holds exactly the indices without an object, each
  once. It holds of the empty registry and is kept by both operations (`StaysWellFormed`), with stale
  handles too. From it: `alloc` returns a handle nobody has had; a retired handle, one whose
  index has moved on or is free, stays retired under `alloc` and under `free` of any other handle. The
  generation is unbounded here; in the code it wraps after 2^32 reuses of one index.
  `IInv` has four parts. `ViewsFit`: the slots that point to a resource are, once each, the elements of a sequence whose
  neighbours are the links the slots hold and whose first is the head the registry has (`Listed`), and whatever a slot
  points to resolves. Linking, unlinking from any place and releasing a whole list are lemmas about such sequences.
  `OwnersFit`: what callers own, what the swapchain shows and what each call holds are apart, and are exactly the
  handles that resolve; so nothing is freed twice, and an index is reused only when nobody has it. `StripFits`: what a
  call is about to destroy has no views, from its `ReleaseViews` on: destruction clears the head under one lock and the handle is freed
  under another, and this is why no slot can be left pointing there. It is the part that needs
  `~ ViewsKeptAcrossResize`. `HeapsFit`: a slot with a view is in a heap that exists. The samplers need nothing else:
  `SamplersFit` counts the slots of each description, a slot at a time. The attempt to prove `OwnersFit` showed two mistakes of the
  model that the run, then of one image, had not met: the handles a caller of DestroySwapchain has put aside counted as
  the swapchain's while it freed them one by one, and a call that frees several handles was left in a wrong step.
- **Timelines.** `IInv` adds to the three invariants: the signal of a batch is the next of its timeline,
  or follows the one before it in its queue or by waiting for it (`SignalsRise`); a destroyed timeline is destroyed by one thread (`DestroyedOnce`); what a
  WaitIdle owes is among the points it waits for or done (`IdleCovers`); a present holds the mutex while it waits
  (`PresentHolds`); the control semaphore never overtakes the version (`VersionsMatch`). A semaphore is then safe
  because its count is the number of threads pinned to it, and destruction needs zero. The attempt to prove
  `SignalsRise` showed that callers who signal one timeline from two queues must order the signals themselves:
  nothing in `q_submit` does, and without that a later value may be reached first. The guard of `Submit` says so,
  and the run has two queues.
- **Allocator.** `IInv` gives every object one owner (`Owned`) and every thread one of six stages, each with the
  updates of the budget that may be pending in it (`Stages`); the counters are then exactly the sums over what they
  include, from the update made on arrival to the one made on departure (`Sums`). An allocation is counted only while
  its heap is: the thread that adds a block holds the lock until it has made both updates, so nobody else's allocation
  can be in a block that is not yet counted, and the bytes of the allocations stay within those of the heaps. The
  theorems assume `NoFallback`, the condition under which finding `rhi_allocator.cpp:7884` / `:7084` below does not
  arise; `NeverAllocateAlwaysRespected` assumes nothing of the calls. The sums are `MapThenSumSet` of the community
  modules, which chooses a recursive function; what it sums is proved by a smallest counterexample
  (`BytesRecursion` and the six lemmas after it) in place of the induction the provers cannot do.
- **CommandList.** `IInv` says of the pages that each belongs to one list or to the pool, and that what recorded commands use
  lies in their list's pages below the cursors (`PagesInv`), from which no range is handed out twice. Of a list and its
  buffer it says that they are `Fine`: what is bound and pushed is what the list believes, or is marked to be pushed
  again (`Known`), and a list that ended or failed remembers nothing (`Blank`); of secondaries, that what a buffer
  executes stays ended (`Executions`). A command is shown to leave its list `Almost` right, that is, with a wrong read
  of push data only if the list fails in the same call; what follows is common to all commands. The first part
  holds whatever fails. The second needs `~ OpenResetMayFail`, as finding `rhi_vulkan.cpp:4991` below shows. The
  attempt to prove `PushDataCurrent` found `rhi_vulkan.cpp:5611`: the change of layout with two layouts that differ
  in what they push was missing from the run and broke the property.
- **Barriers.** `IInv` says that submitted and actual states agree, and nothing was misread, while `lost` is "no", and
  that every state is one of its resource's. The argument is that of `ValidatedRuns`: batches that all match start, one
  after the other, from the states the GPU is in, so the states advanced by them are the GPU's. States after a sequence
  of batches are given in closed form (`Advanced`: what the last batch that names the resource makes of it), which
  needs no induction.
- **Dx12.** `IInv` has a part for queues and one for the `CompletionWait`. `QueueInv` says that the signals a timeline
  or a queue's own fence will get rise along each queue and across queues (`SignalsRise`), that one thread drains at a time, and
  that what a queue still owes a drain lies `Behind` the signal the drain waits for: a signal whose value is above all
  those of the fence before it is reached only after what was given before it. Without `Follows`, two queues may take the
  completed value of a timeline backwards. `WaitInv` says that every fence and every event has one registration and that what the
  runtime has been told is what registrations wait for (`RegistrationsFit`); and that each point the waiter has
  served is `Covered`: if its timeline still has its registration, the event is among those waited for, and set no
  later than the point is reached. An event is closed only with its registration, and a registration changes hands only
  when its point is reached. `Dx12Assumption` gives more handles for events than registrations, as a handle must be
  free when a registration is made.

  `LegalInv`, of command lists: a list is `Honest` when a command it was refused left it with an error, which End does not
  accept, and what any list executes stays closed and without a refusal, since an allocator is reset and a list begun or
  destroyed only when no live list executes it. Every command is one of a few kinds of change
  (refused, given, given only to primary lists), each of which is shown to keep it once.
  `DataInv`, of push data: for each stage and range, the words wanted are where a draw looks for them (`Carries`), in the root
  constants or, for an emulated range, in the shadow and in the memory the argument points to; what recorded draws read is in
  memory still (`Drawn`), because all memory lies `Below` the cursors and an upload begins past them. The shadow has to
  be part of it: an upload takes the words that are not pushed from there.
  `ObjectsInv`, of objects: each handle has one owner (`OwnersInv`), what callers own holds no back buffer (`Fit`), and each
  chain is `InPlace`: its handles are of different resources, the i-th of which holds the i-th back buffer or, for an image the
  swapchain does not have, may hold none. A resize is followed
  through its three parts, letting go, freeing or making handles, and taking the new buffers up to the one that fails.
  It assumes `Unhandled = {}`: each of the three failures the code does not handle breaks it (section 5). The other
  assumptions give constants their types: handles are finitely many numbers, since one is chosen by its rank.
- **VulkanObjects.** `MemoryInv` says of a live device that the driver's objects are `Exact`: those of the host and those
  that resources own (`Belongs`), each resource being committed, placed in a heap, or the host's (`Sorted`); and
  that a memory has a mapping, and a count, when the maps of the resources on it, in all, are more than none, and then just as
  many (`Counted`). `Exact` speaks of the resources and heaps that *remain*, not of those registered, so that
  what is proved of one destruction serves Shutdown, which destroys all of them in an order the folds of the
  library choose: a smallest set that Shutdown would leave wrong has no first element. After the host has destroyed the device
  only counts may be left (`Gone`).

Only model-checked: the refinement of `Heap`, TLSF's and Linear's invariants (`BlockMetadata`: their operators iterate
over sequences in ways that need induction over data, which the installed provers cannot instantiate), four of the
five invariants of `DeviceObjects`, and all liveness (fairness and ENABLED are out of the prover's reach). Of the
four, `NothingLeaked` and `CallsValid` are conjunctions whose conjuncts on memory are proved, and those on the swapchain and
on shaders wait for the same work; `InterfacesMatch` and `LoweringFaithful` compare values that are computed by
recursion over argument lists and index chains.

## 5. Findings

1. `rhi_vulkan.cpp:3924`: a successful resize destroys the old images without releasing their views
   (run `descriptors_resize`).
2. `rhi_vulkan.cpp:8280`: destroying a command list keeps the query pools its recording made for ever
   (run `deviceobjects_scratch`).

The following were met as well. The modules leave each out by a stated assumption or a named constant, or a
definition marked below violates it; each shows up in TLC when the constant or formula is changed as said.

- `rhi_allocator.cpp:8173`: creating a block clears `m_HasEmptyBlock` while another block is empty, so two empty
  heaps are kept where the comment allows one (`BlockVector`).
- `rhi_allocator.cpp:7884` and `:7084`: a placed resource that cannot be created keeps its memory, and the committed
  fallback overwrites the only pointer to it; a failed aliasable committed resource frees its heap but leaves the
  caller's pointer (`MCAllocator`, all requests instead of `WithoutFallback`).
- `rhi_allocator.cpp:8523`: `m_IgnoredAllocs` is meant for one pass and never reset (`Defrag`).
- `rhi_dx12.cpp:9621`: a registration that completed may be taken over by a later point of the same Wait, whose
  handle list then holds the old event (`Dx12`: a wake may come from a point that is not reached).
- `rhi_vulkan.cpp:4442`: WaitIdle of an adopted device waits on semaphores it does not keep alive (`Timelines`,
  `DestroyDuringIdle = TRUE`).
- `rhi_vulkan.cpp:3560`: objects an adopting host has already destroyed are destroyed again when callers
  destroy them before Shutdown (`Resources`, `DestroyedBeforeShutdown = TRUE`).
- `rhi_vulkan.cpp:664`: IsOk accepts results after which no image was acquired (`Presentation`, `TrustsIsOk = TRUE`).
- `rhi_vulkan.cpp:5611`: on a change of layout the code relies on push constants that "persist across layouts", but the
  ones under the address of a spill (`:5551`), or undone by a secondary or generated command while a layout
  that pushes less is bound, are not pushed again; callers have to give them again (`CommandList`, `BindLayout` keeping the
  whole image breaks `PushDataCurrent`).
- `rhi_vulkan.cpp:4991`: a reset that fails half-way on a list that still records leaves it with the pass and bindings of
  the old recording over an empty buffer (`CommandList`, `OpenResetMayFail = TRUE` breaks `RenderingTracked`).
- `rhi_vulkan.cpp:4614`: a list that is submitted again has lost the batches its first submission applied
  (`Barriers`).
- `rhi_vulkan.cpp:11426`: Shutdown never destroys pipeline sets (`ShaderObjects`, `DestroysSets = FALSE`).
- `rhi_dx12.cpp:1739`: a swapchain whose back buffer cannot be had leaves those before it registered, and its window
  unusable; `:4014`: the failure of a placed buffer is not returned and an empty buffer registered; `:10323`: the
  failure to make a queue leaves an invalid handle that Shutdown dereferences (`Dx12Objects`, the three members of
  `Unhandled`, each of which breaks `ObjectsExact`).
- `rhi_dx12.cpp:9811`: Shutdown clears neither the registry of work graphs nor the cached signature of indirect ray
  dispatches; `:7815`: EndPass in a bundle does nothing, where `rhi.h:2820` says it fails the bundle; `:7619`: a failed
  Reset of a list is only logged, and so is scratch memory that cannot be had (`:8850`), after which draws read old
  push data; `:8836`: one shadow serves all stages of an emulated range; `:3849`: naming a texture whose resize failed
  dereferences null; `:4275`: offset and size of an acceleration structure are added without regard to overflow
  (`Dx12Commands`, `Dx12Objects`: what callers keep to).
- Ray tracing pipelines linked from libraries count no shader groups of their libraries (7884, 11127), and
  addresses of emulated root constants are not checked for alignment (8650): read, not modelled.

## 6. Not modelled

`PROJECT.json` has the reason for each component. Data without control (statistics, JSON, widgets,
instrumentation, format tables) and third-party code stay out. Abstracted within modelled components: descriptor
bytes and what distinguishes the binding models, submission hooks, timelines imported from other interfaces,
memory types and resource categories (one block vector stands for each), corruption detection.

## 7. Plan

Modules were written in this order: the metadata with its abstract specification, the block vector over
it, the allocator over that; then the Vulkan backend's registry, descriptors and timelines; then
defragmentation, the D3D12 waits, command lists and barriers, the device's objects, and the rest of D3D12. What
comes next:

1. **Budget fetching** and **pools**: the cached usage against the counters that change during a fetch.
2. **Proofs**: `Presentation`, then the destruction of `ShaderObjects`, to complete `NothingLeaked` and `CallsValid`.

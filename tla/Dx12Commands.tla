---------------------------- MODULE Dx12Commands ----------------------------
(***************************************************************************)
(* Command lists, bundles, layouts and command signatures of the D3D12     *)
(* backend (rhi_dx12.cpp).  A range of push data is root constants, or is  *)
(* emulated: the list keeps a shadow of its words, and each push uploads   *)
(* the whole shadow to scratch memory of the list, for a constant buffer.  *)
(*                                                                         *)
(* What the callers keep to: a range is pushed for the same stages each    *)
(* time, an allocator records one list and one bundle at a time, lists and *)
(* allocators are reset when neither the GPU nor a list that executes them *)
(* needs them, lists are submitted or executed only once End accepted      *)
(* them, layouts live as long as lists and signatures use them, and after  *)
(* ExecuteCommands push data is given again.                               *)
(***************************************************************************)
EXTENDS Naturals, Sequences, FiniteSets, SequencesExt, FiniteSetsExt

CONSTANTS
  None,
  Allocators, QueueKinds,     \* QueueKinds: subset of {"direct", "compute", "copy"}
  Lists, Drawing,             \* Drawing: the lists whose push data is followed
  RootLayouts, Ranges,        \* [layout -> its push constants: emulated, words, stages]
  RootSources,                \* [layout -> sources of its descriptor ranges]
  Signatures,                 \* descriptions of command signatures
  PageSize, Placement,        \* of scratch pages; in words
  MaxWords,                   \* of a range, at most
  MaxPushes                   \* bounds what a list records

VARIABLES
  allocators,     \* [live allocator -> [type, bundles: whether it has a bundle allocator]]
  lists,          \* [live list -> Dx12CommandList and what was recorded]
  layouts,        \* live pipeline layouts
  signatures,     \* live command signatures
  illegal         \* commands given to D3D12 that are not legal

vars == <<allocators, lists, layouts, signatures, illegal>>

Init ==
  /\ allocators = [a \in {} |-> None]
  /\ lists = [l \in {} |-> None]
  /\ layouts = {} /\ signatures = {}
  /\ illegal = {}

Set(f, x, y) == [z \in DOMAIN f \cup {x} |-> IF z = x THEN y ELSE f[z]]
Drop(f, x) == [z \in DOMAIN f \ {x} |-> f[z]]
Stages == {"graphics", "compute"}
-----------------------------------------------------------------------------
(* Layouts and signatures.                                                 *)
(* d_createPipelineLayout: root parameter i is range i.  A root signature  *)
(* that version 1.1 does not make is tried as version 1.0.                 *)
CreatePipelineLayout ==
  /\ \E y \in RootLayouts \ layouts :
       /\ RootSources[y] \subseteq {"HeapSlot"}
       /\ layouts' = layouts \cup {y}
  /\ UNCHANGED <<allocators, lists, signatures, illegal>>

DestroyPipelineLayout ==
  /\ \E y \in layouts :
       /\ \A l \in DOMAIN lists : lists[l].layout # y
       /\ \A s \in signatures : s.layout # y
       /\ layouts' = layouts \ {y}
  /\ UNCHANGED <<allocators, lists, signatures, illegal>>

Constants(s) == {i \in DOMAIN s.args : s.args[i].kind = "constant"}

(* FillDx12Arg and the checks of the constants. *)
ArgsValid(s) ==
  /\ \A i \in DOMAIN s.args : s.args[i].kind \notin {"pipelineIndex", "unknown"}
  /\ Constants(s) # {} => s.layout \in layouts
  /\ \A i \in Constants(s) : /\ s.args[i].root \in DOMAIN Ranges[s.layout]
                             /\ ~ Ranges[s.layout][s.args[i].root].emulated

(* d_createCommandSignature.  Meshes may lack the tier.                    *)
CreateCommandSignature ==
  /\ \E s \in Signatures \ signatures :
       /\ ~ s.pipelineSet /\ ArgsValid(s)
       /\ illegal' = IF \E i \in Constants(s) :
                          \/ s.args[i].root \notin DOMAIN Ranges[s.layout]
                          \/ Ranges[s.layout][s.args[i].root].emulated
                       THEN illegal \cup {"signature"} ELSE illegal
       /\ signatures' = signatures \cup {s}
  /\ UNCHANGED <<allocators, lists, layouts>>

DestroyCommandSignature ==
  /\ \E s \in signatures : signatures' = signatures \ {s}
  /\ UNCHANGED <<allocators, lists, layouts, illegal>>
-----------------------------------------------------------------------------
(* Allocators and lists.  pages are the scratch pages [capacity, cursor];  *)
(* arguments what the native list has for each root parameter: its words,  *)
(* or where its buffer starts; memory the words uploaded.  wanted, what    *)
(* was pushed last, and draws, the words of memory that draws read and     *)
(* should read, are for the properties.  A word never given is 0.  What a  *)
(* list that ended no longer uses is left out.                             *)
Zeros(i, y) == [w \in 1 .. Ranges[y][i].words |-> 0]
NoArguments == [s \in Stages |-> <<>>]
Blank(a, bundle, pages) ==
  [from |-> a, bundle |-> bundle, pages |-> pages, open |-> FALSE, begun |-> FALSE, accepted |-> FALSE,
   layout |-> None, pendingError |-> FALSE, shadows |-> <<>>, arguments |-> NoArguments,
   wanted |-> NoArguments, memory |-> [c \in {} |-> 0], pushes |-> 0, draws |-> {}, executed |-> {},
   refused |-> FALSE, wrong |-> FALSE, starved |-> FALSE]

AlignUp(n, a) == ((n + a - 1) \div a) * a
NewPage(size) == [capacity |-> IF AlignUp(size, Placement) > PageSize THEN AlignUp(size, Placement)
                                                                     ELSE PageSize,
                  cursor |-> 0]
NewList(a, bundle) == Blank(a, bundle, <<NewPage(Placement)>>)

OpenOn(a, bundle) ==
  {l \in DOMAIN lists : lists[l].open /\ lists[l].from = a /\ lists[l].bundle = bundle}
Holders(l) == {k \in DOMAIN lists : l \in lists[k].executed}
Type(l) == IF lists[l].bundle THEN "bundle" ELSE allocators[lists[l].from].type

CreateCommandAllocator ==
  /\ \E a \in Allocators \ DOMAIN allocators, type \in QueueKinds :
       allocators' = Set(allocators, a, [type |-> type, bundles |-> FALSE])
  /\ UNCHANGED <<lists, layouts, signatures, illegal>>

(* ca_reset: what was recorded from it is gone. *)
ResetAllocator ==
  /\ \E a \in DOMAIN allocators :
       /\ OpenOn(a, TRUE) \cup OpenOn(a, FALSE) = {}
       /\ \A l \in DOMAIN lists : lists[l].from = a => Holders(l) = {}
       /\ lists' = [l \in DOMAIN lists |->
                      IF lists[l].from = a
                        THEN [lists[l] EXCEPT !.accepted = FALSE, !.draws = {}, !.executed = {}]
                        ELSE lists[l]]
  /\ UNCHANGED <<allocators, layouts, signatures, illegal>>

DestroyCommandAllocator ==
  /\ \E a \in DOMAIN allocators :
       /\ \A l \in DOMAIN lists : lists[l].from # a
       /\ allocators' = Drop(allocators, a)
  /\ UNCHANGED <<lists, layouts, signatures, illegal>>

(* d_createCommandList makes a list that records.                          *)
CreateCommandList ==
  /\ \E l \in Lists \ DOMAIN lists, a \in DOMAIN allocators :
       /\ OpenOn(a, FALSE) = {}
       /\ lists' = Set(lists, l, [NewList(a, FALSE) EXCEPT !.open = TRUE])
  /\ UNCHANGED <<allocators, layouts, signatures, illegal>>

(* d_createSecondaryCommandList.  The bundle allocator stays when what     *)
(* follows its creation fails.                                             *)
CreateSecondaryCommandList ==
  /\ \E l \in Lists \ DOMAIN lists, a \in DOMAIN allocators :
       /\ allocators[a].type = "direct"
       /\ allocators' = [allocators EXCEPT ![a].bundles = TRUE]
       /\ OpenOn(a, TRUE) = {}
       /\ \/ lists' = Set(lists, l, NewList(a, TRUE))
          \/ UNCHANGED lists
  /\ UNCHANGED <<layouts, signatures, illegal>>

DestroyCommandList ==
  /\ \E l \in DOMAIN lists : Holders(l) = {} /\ lists' = Drop(lists, l)
  /\ UNCHANGED <<allocators, layouts, signatures, illegal>>

Becomes(l, s) ==
  /\ lists' = [lists EXCEPT ![l] = s]
  /\ UNCHANGED <<allocators, layouts, signatures>>

Rewound(l, a) ==
  Blank(a, lists[l].bundle,
        [p \in DOMAIN lists[l].pages |-> [lists[l].pages[p] EXCEPT !.cursor = 0]])

(* cl_reset.  The native list records nothing if the bundle has no bundle  *)
(* allocator, which is an error of the list, or if Reset fails, which is   *)
(* none; what such a list is given then runs nowhere, and is left out.     *)
Recycle(l) ==
  /\ ~ lists[l].open /\ Holders(l) = {} /\ UNCHANGED illegal
  /\ \E a \in DOMAIN allocators :
       /\ allocators[a].type = allocators[lists[l].from].type /\ OpenOn(a, lists[l].bundle) = {}
       /\ LET missing == lists[l].bundle /\ ~ allocators[a].bundles
          IN \/ ~ missing /\ Becomes(l, [Rewound(l, a) EXCEPT !.open = TRUE])
             \/ Becomes(l, [Rewound(l, lists[l].from) EXCEPT !.pendingError = missing])

(* cl_beginSecondary, of a bundle for a pass.                              *)
BeginSecondary(l) ==
  /\ lists[l].open /\ lists[l].bundle /\ ~ lists[l].begun
  /\ ~ lists[l].pendingError
  /\ Becomes(l, [lists[l] EXCEPT !.begun = TRUE]) /\ UNCHANGED illegal

Recording(l) == lists[l].open /\ (lists[l].bundle => lists[l].begun)

(* cl_endChecked.  Close of a list that is not open fails, and may anyway. *)
End(l) ==
  /\ Recording(l) /\ UNCHANGED illegal
  /\ \E closes \in BOOLEAN :
       LET s == lists[l]
       IN Becomes(l, [Rewound(l, s.from) EXCEPT
                        !.accepted = closes /\ ~ s.pendingError, !.pendingError = s.pendingError,
                        !.memory = s.memory, !.draws = s.draws, !.executed = s.executed,
                        !.refused = s.refused])
-----------------------------------------------------------------------------
(* Commands.                                                               *)
(* DxRejectInBundle *)
Rejected(l) == lists[l].bundle
Reject(l) == Becomes(l, [lists[l] EXCEPT !.pendingError = TRUE, !.refused = TRUE])

Gives(l, command, legal) ==
  /\ illegal' = IF legal THEN illegal ELSE illegal \cup {command}
  /\ UNCHANGED <<allocators, lists, layouts, signatures>>

(* Fault: a command's guard for bundles is forgotten. *)
PrimaryOnly_Unguarded(l, command) == Gives(l, command, ~ lists[l].bundle)

(* The commands that bundles cannot hold: passes, operations on            *)
(* acceleration structures, clears, copies, work graphs.  One whose        *)
(* objects are gone is left out.                                           *)
PrimaryOnly(l, command) ==
  IF Rejected(l) THEN Reject(l) /\ UNCHANGED illegal ELSE Gives(l, command, ~ lists[l].bundle)

Pass(l) == Recording(l) /\ Type(l) \in {"direct", "bundle"} /\ PrimaryOnly(l, "pass")
Clear(l) == Recording(l) /\ Type(l) # "copy" /\ PrimaryOnly(l, "clear")
Copy(l) == Recording(l) /\ PrimaryOnly(l, "copy")
WorkGraph(l) == Recording(l) /\ Type(l) # "copy" /\ PrimaryOnly(l, "work graph")
AccelerationStructure(l) == Recording(l) /\ Type(l) # "copy" /\ PrimaryOnly(l, "acceleration structure")

(* cl_writeTimestamp, cl_beginQuery, cl_endQuery and cl_resolveQueryData   *)
(* give D3D12 only what the pool's type has: timestamps have no beginning. *)
Queries(op, type) ==
  CASE op = "timestamp" -> type = "timestamp"
    [] op \in {"begin", "end"} -> type \in {"occlusion", "statistics"}
    [] OTHER -> TRUE

Query(l) ==
  /\ Recording(l)
  /\ \E op \in {"timestamp", "begin", "end", "resolve"},
        type \in {"timestamp", "occlusion", "statistics"} :
       IF Rejected(l) THEN Reject(l) /\ UNCHANGED illegal
       ELSE /\ Queries(op, type)
            /\ Gives(l, "query", ~ lists[l].bundle /\ (type = "timestamp" => op # "begin"))

(* cl_barrier: which barriers D3D12 is given, and as what.                 *)
TextureLayout(l, y) ==
  IF Type(l) = "copy" /\ y \in {"copySource", "copyDest"} THEN "common" ELSE y
NativeDiscard(t) == t.discard /\ t.before = "undefined"
BufferSkipped(b) == b.ownership \/ b.heap \in {"upload", "readback"}

TextureBarrierLegal(l, t) ==
  /\ Type(l) = "copy" => {TextureLayout(l, t.before), TextureLayout(l, t.after)}
                            \subseteq {"common", "undefined"}
  /\ t.before = "undefined" => NativeDiscard(t)
  /\ NativeDiscard(t) => TextureLayout(l, t.before) = "undefined"

TextureBarrier(l) ==
  /\ Recording(l)
  /\ \E before \in {"undefined", "common", "copySource"}, discard \in BOOLEAN :
       /\ before = "undefined" => discard   \* what callers say of lost contents
       /\ IF Rejected(l) THEN Reject(l) /\ UNCHANGED illegal
          ELSE Gives(l, "texture barrier",
                 TextureBarrierLegal(l, [before |-> before, after |-> "copyDest", discard |-> discard]))

BufferBarrier(l) ==
  /\ Recording(l)
  /\ \E b \in [ownership : BOOLEAN, heap : {"default", "upload", "readback"}] :
       IF Rejected(l) THEN Reject(l) /\ UNCHANGED illegal
       ELSE ~ BufferSkipped(b) /\ Gives(l, "buffer barrier", b.heap = "default")
-----------------------------------------------------------------------------
(* Push data.                                                              *)
OldArguments(l, y) == IF lists[l].layout = y THEN lists[l].arguments
                      ELSE [s \in Stages |-> [i \in DOMAIN Ranges[y] |-> None]]
NothingPushed(y) == [s \in Stages |-> [i \in DOMAIN Ranges[y] |-> Zeros(i, y)]]

(* cl_bindLayout.  D3D12 keeps the arguments of a root signature that is   *)
(* set again.  The caller may not rely on push data across layouts.        *)
BindLayout(l) ==
  /\ Recording(l) /\ l \in Drawing /\ Type(l) # "copy" /\ UNCHANGED illegal
  /\ \E y \in layouts :
       Becomes(l, [lists[l] EXCEPT !.layout = y, !.arguments = OldArguments(l, y),
                     !.shadows = IF lists[l].layout = y THEN @ ELSE <<>>,
                     !.wanted = IF lists[l].layout = y THEN @ ELSE NothingPushed(y)])

(* Dx12AllocateRootCbvScratch: the first page with room, or a new one.     *)
FirstPage(pages, size) ==
  LET room == {p \in DOMAIN pages : AlignUp(pages[p].cursor, Placement) + size <= pages[p].capacity}
  IN IF room = {} THEN Len(pages) + 1 ELSE Min(room)

WithPage(pages, size) ==
  IF FirstPage(pages, size) > Len(pages) THEN Append(pages, NewPage(size)) ELSE pages

Merge(old, offset, words, value) ==
  [w \in DOMAIN old |-> IF w \in offset + 1 .. offset + words THEN value ELSE old[w]]

(* Dx12GetRootCbvShadowState *)
Shadow(l, i) == IF i \in DOMAIN lists[l].shadows THEN lists[l].shadows[i] ELSE Zeros(i, lists[l].layout)

(* Fault: only the words just given are uploaded, not the shadow. *)
Uploaded_PartOnly(l, i, offset, words, value) == Merge(Zeros(i, lists[l].layout), offset, words, value)

Uploaded(l, i, offset, words, value) == Merge(Shadow(l, i), offset, words, value)

Written(memory, page, start, image) ==
  [c \in DOMAIN memory \cup {<<page, start + w>> : w \in DOMAIN image} |->
     IF c[1] = page /\ c[2] - start \in DOMAIN image THEN image[c[2] - start] ELSE memory[c]]

PushStages(l, i) ==
  LET stages == Ranges[lists[l].layout][i].stages
  IN IF Type(l) = "compute" THEN stages \cap {"compute"} ELSE stages

(* A push of words words of range i from offset on is wanted in its stages.*)
Pushed(l, i, offset, words) ==
  [lists[l] EXCEPT !.pushes = @ + 1,
     !.wanted = [g \in Stages |->
        IF g \in PushStages(l, i)
          THEN [lists[l].wanted[g] EXCEPT ![i] = Merge(@, offset, words, lists[l].pushes + 1)]
          ELSE lists[l].wanted[g]]]

(* Root constants *)
Rooted(l, i, offset, words) ==
  [Pushed(l, i, offset, words) EXCEPT !.arguments = [g \in Stages |->
     IF g \in PushStages(l, i)
       THEN [lists[l].arguments[g] EXCEPT
               ![i] = Merge(IF @ = None THEN Zeros(i, lists[l].layout) ELSE @, offset, words, lists[l].pushes + 1)]
       ELSE lists[l].arguments[g]]]

(* Without scratch memory only the shadow changes. *)
Starved(l, i, offset, words) ==
  [Pushed(l, i, offset, words) EXCEPT
     !.shadows = Set(@, i, Uploaded(l, i, offset, words, lists[l].pushes + 1)), !.starved = TRUE]

Stored(l, i, offset, words) ==
  LET image == Uploaded(l, i, offset, words, lists[l].pushes + 1)
      size == Ranges[lists[l].layout][i].words
      pages == WithPage(lists[l].pages, size)
      page == FirstPage(lists[l].pages, size)
      start == AlignUp(pages[page].cursor, Placement)
  IN [Pushed(l, i, offset, words) EXCEPT
        !.arguments = [g \in Stages |->
           IF g \in PushStages(l, i) THEN [lists[l].arguments[g] EXCEPT ![i] = <<page, start>>]
                                     ELSE lists[l].arguments[g]],
        !.shadows = Set(@, i, image),
        !.pages = [pages EXCEPT ![page].cursor = start + size],
        !.memory = Written(@, page, start, image)]

Push(l, i, offset, words) ==
  LET range == Ranges[lists[l].layout][i]
  IN \/ ~ range.emulated /\ Becomes(l, Rooted(l, i, offset, words))
     \/ range.emulated /\ Becomes(l, Stored(l, i, offset, words))
     \/ /\ range.emulated /\ FirstPage(lists[l].pages, range.words) > Len(lists[l].pages)
        /\ Becomes(l, Starved(l, i, offset, words))

(* cl_pushConstants of range i, beyond whose end nothing is pushed.        *)
PushConstants(l) ==
  /\ Recording(l) /\ l \in Drawing /\ lists[l].layout # None /\ lists[l].pushes < MaxPushes /\ UNCHANGED illegal
  /\ \E i \in DOMAIN Ranges[lists[l].layout] :
       LET n == Ranges[lists[l].layout][i].words
       IN \E offset \in 0 .. n - 1, given \in 1 .. n + 1 :
            Push(l, i, offset, IF offset + given > n THEN n - offset ELSE given)
-----------------------------------------------------------------------------
(* Draws and dispatches: the words they read in place of those they should *)
(* read.  A list without the scratch memory it needed draws stale words.   *)
Wanted(wanted) ==
  {c \in (DOMAIN wanted) \X (1 .. MaxWords) : c[2] \in DOMAIN wanted[c[1]] /\ wanted[c[1]][c[2]] # 0}

Draws(l, stage, wanted) ==
  LET s == lists[l]
      given == {c \in Wanted(wanted) : s.arguments[stage][c[1]] # None}
      uploaded == {c \in given : Ranges[s.layout][c[1]].emulated}
      right == /\ given = Wanted(wanted)
               /\ \A c \in given \ uploaded : s.arguments[stage][c[1]][c[2]] = wanted[c[1]][c[2]]
  IN IF s.starved THEN s
     ELSE [s EXCEPT !.wrong = @ \/ ~ right,
                    !.draws = @ \cup {<<s.arguments[stage][c[1]][1], s.arguments[stage][c[1]][2] + c[2],
                                        wanted[c[1]][c[2]]>> : c \in uploaded}]

DrawStages(l) == IF Type(l) = "compute" THEN {"compute"} ELSE Stages
Drawable(l) ==
  /\ Recording(l) /\ l \in Drawing /\ Type(l) # "copy" /\ lists[l].layout # None

(* cl_draw, cl_drawIndexed, cl_dispatch, cl_dispatchMesh, cl_traceRays and  *)
(* cl_traceRaysIndirect.                                                   *)
Draw(l) ==
  /\ Drawable(l) /\ UNCHANGED illegal
  /\ \E stage \in DrawStages(l) : Becomes(l, Draws(l, stage, lists[l].wanted[stage]))

(* The words that an execution of s sets itself, and leaves undefined.     *)
Overwritten(s, wanted) ==
  [i \in DOMAIN wanted |->
     IF \E c \in Constants(s) : s.args[c].root = i THEN [w \in DOMAIN wanted[i] |-> 0] ELSE wanted[i]]

(* What an execution of s leaves behind. *)
Indirect(l, s, stage) ==
  [Draws(l, stage, Overwritten(s, lists[l].wanted[stage])) EXCEPT !.wanted[stage] = Overwritten(s, @)]

(* cl_executeIndirect, skipped if the arguments are not all in the buffer. *)
ExecuteIndirect(l) ==
  /\ Drawable(l)
  /\ \E s \in signatures, stage \in DrawStages(l), size \in {0, 2}, offset \in 0 .. 1, count \in 0 .. 1 :
       /\ Constants(s) # {} => s.layout = lists[l].layout
       /\ ~ (offset > size \/ s.stride * count > size - offset)
       /\ illegal' = IF offset + s.stride * count <= size THEN illegal ELSE illegal \cup {"indirect"}
       /\ Becomes(l, Indirect(l, s, stage))

(* cl_executeCommands: it stops at a list that is not a valid secondary.   *)
(* Push data of the executing list is undefined afterwards.                *)
Valid(b) == lists[b].bundle /\ ~ lists[b].pendingError

ExecuteCommands(l) ==
  /\ Recording(l) /\ Type(l) \in {"direct", "bundle"}
  /\ IF Rejected(l) THEN Reject(l) /\ UNCHANGED illegal
     ELSE \E bs \in SeqOf({b \in DOMAIN lists : ~ lists[b].open /\ (lists[b].accepted \/ lists[b].refused)}, 2) :
            LET invalid == {i \in DOMAIN bs : ~ Valid(bs[i])}
                run == {bs[i] : i \in {j \in DOMAIN bs : \A k \in invalid : j < k}}
            IN /\ illegal' = IF \A b \in run : lists[b].accepted THEN illegal ELSE illegal \cup {"bundle"}
               /\ Becomes(l, [lists[l] EXCEPT !.executed = @ \cup run,
                    !.wanted = IF lists[l].layout = None THEN @ ELSE NothingPushed(lists[l].layout)])
-----------------------------------------------------------------------------
Next ==
  \/ CreatePipelineLayout \/ DestroyPipelineLayout
  \/ CreateCommandSignature \/ DestroyCommandSignature
  \/ CreateCommandAllocator \/ ResetAllocator \/ DestroyCommandAllocator
  \/ CreateCommandList \/ CreateSecondaryCommandList \/ DestroyCommandList
  \/ \E l \in DOMAIN lists :
       \/ Recycle(l) \/ BeginSecondary(l) \/ End(l)
       \/ Pass(l) \/ Clear(l) \/ Copy(l) \/ WorkGraph(l) \/ AccelerationStructure(l) \/ Query(l)
       \/ TextureBarrier(l) \/ BufferBarrier(l)
       \/ BindLayout(l) \/ PushConstants(l) \/ Draw(l) \/ ExecuteIndirect(l) \/ ExecuteCommands(l)

Spec == Init /\ [][Next]_vars
-----------------------------------------------------------------------------
(* Whatever else the list pushes, for other ranges, stages and layouts, a  *)
(* draw reads the words pushed last before it: scratch memory that a draw  *)
(* of the list reads is not written again.                                 *)
PushDataRight ==
  \A l \in DOMAIN lists : lists[l].open \/ lists[l].accepted =>
    /\ ~ lists[l].wrong
    /\ \A d \in lists[l].draws : lists[l].memory[<<d[1], d[2]>>] = d[3]

(* D3D12 is given nothing that fails the list, and a bundle that was given *)
(* a command it cannot hold is neither accepted by End nor executed.       *)
CommandsLegal ==
  /\ illegal = {}
  /\ \A l \in DOMAIN lists : lists[l].accepted => ~ lists[l].refused
  /\ \A l \in DOMAIN lists : \A b \in lists[l].executed : b \in DOMAIN lists /\ ~ lists[b].refused

=============================================================================

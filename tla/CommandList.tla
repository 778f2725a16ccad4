----------------------------- MODULE CommandList -----------------------------
(***************************************************************************)
(* Vulkan command lists (rhi_vulkan.cpp): what a list remembers while it   *)
(* records (pass, bound heaps, push data, preprocesses, its error) against *)
(* what the command buffer holds after the commands recorded so far.       *)
(*                                                                         *)
(* Push data is a row of cells.  A layout pushes a prefix of its cells as  *)
(* push constants; a layout with more cells than push constants spills the *)
(* rest to scratch memory, whose address takes the place of SpillCell.     *)
(* Values are abstracted to whether the words a command reads are the ones *)
(* last given to PushConstants: image is the cells ever given, gpu.push    *)
(* the push constants that hold them, gpu.spill the list whose scratch an  *)
(* up-to-date spill is in.                                                 *)
(*                                                                         *)
(* What the callers keep to: slots name live views; draws come inside a    *)
(* pass and copies outside, and the pipeline a command needs is bound;     *)
(* after a change of layout they push what BindLayout says; a list is      *)
(* reset or destroyed when neither the GPU nor a list that executes it     *)
(* needs it, a secondary is reset before it is begun again, and only lists *)
(* whose End succeeded are submitted.                                      *)
(***************************************************************************)
EXTENDS Integers, Sequences, FiniteSets, SequencesExt

CONSTANTS
  Lists,
  Drawing,      \* the lists whose passes, heaps, layouts, push data and
                \* generated commands are followed
  Adopting,    \* the primaries that are a host's command buffers
  Heaps,
  Layouts,      \* of {"small", "full", "spilling"}
  None,
  Pages,        \* preprocess pages that may exist at a time
  RangeSizes,   \* of preprocess ranges
  MinimumPage,  \* minimumPageSize
  IdleResets,   \* kPreprocessPoolIdleResets
  MaxRecords,   \* bounds the preprocesses a list waits to execute
  OpenResetMayFail  \* whether resetting a list that still records may fail

ASSUME CommandListAssumption ==
  /\ Drawing \subseteq Lists /\ Adopting \subseteq Lists
  /\ None \notin Lists \cup Heaps \cup {"small", "full", "spilling"}
  /\ Layouts \subseteq {"small", "full", "spilling"}
  /\ RangeSizes \subseteq Nat \ {0} /\ MinimumPage \in Nat \ {0}
  /\ IdleResets \in Nat /\ MaxRecords \in Nat /\ OpenResetMayFail \in BOOLEAN

VARIABLES
  bufferModel,  \* VkDescriptorBufferModel; otherwise the descriptor-heap model
  list,         \* [list -> VulkanCommandList]
  gpu,          \* [list -> what its command buffer holds]
  page,         \* [preprocess page -> capacity, cursor]
  pool          \* preprocessPool: [page -> resets since it came back]

vars == <<bufferModel, list, gpu, page, pool>>

SpillCell == 2
CellsOf(layout) ==
  CASE layout = "small" -> {1} [] layout = "full" -> {1, 2} [] layout = "spilling" -> {1, 3}
    [] OTHER -> {}
Spills(layout) == bufferModel /\ layout = "spilling"
(* pushedBytes *)
PushedOf(layout) == IF Spills(layout) THEN {1} ELSE CellsOf(layout)

(* A list that records.  What a failed list still records is not followed: *)
(* it never runs.                                                          *)
Recording(l) ==
  l \in DOMAIN list /\ list[l].isRecording /\ ~ list[l].error /\ gpu[l].state # "invalid"
Open(l) == gpu[l].rendering # "none"

NewList(kind) ==
  [kind |-> kind, isRecording |-> kind # "secondary", error |-> FALSE, passActive |-> FALSE,
   continues |-> FALSE, layout |-> None, heap |-> None, emitted |-> None,
   image |-> {}, pushedDirty |-> FALSE, spilledDirty |-> FALSE,
   pages |-> {}, preprocessed |-> <<>>, barrierPending |-> FALSE,
   ended |-> FALSE]
Empty(state) ==
  [state |-> state, rendering |-> "none", heap |-> None,
   push |-> {}, spill |-> None, units |-> {}, unflushed |-> FALSE,
   executed |-> {}, wrong |-> {}]

Init ==
  /\ bufferModel \in BOOLEAN
  /\ list = [l \in {} |-> 0] /\ gpu = [l \in {} |-> 0]
  /\ page = [p \in {} |-> 0] /\ pool = [p \in {} |-> 0]

(* d_createCommandList, d_createSecondaryCommandList, AdoptCommandBuffer.  *)
CreateCommandList(l) ==
  /\ l \notin DOMAIN list
  /\ \E kind \in {"secondary", IF l \in Adopting THEN "adopted" ELSE "primary"} :
       /\ list' = [k \in DOMAIN list \cup {l} |-> IF k = l THEN NewList(kind) ELSE list[k]]
       /\ gpu' = [k \in DOMAIN list \cup {l} |->
                    IF k = l THEN Empty(IF kind = "secondary" THEN "initial" ELSE "recording")
                             ELSE gpu[k]]
  /\ UNCHANGED <<bufferModel, page, pool>>

(* A list that failed or ended uses nothing it had bound or pushed any     *)
(* more, and push constants that were not given hold nothing that was;     *)
(* both are left out.                                                      *)
Recorded(s, g) == s.error \/ ~ s.isRecording \/ g.state = "invalid"
Settled(s, g) ==
  IF ~ Recorded(s, g) THEN s
  ELSE [NewList(s.kind) EXCEPT !.isRecording = s.isRecording, !.error = s.error,
          !.continues = s.continues /\ ~ s.error, !.pages = s.pages, !.ended = s.ended]
Left(s, g) ==
  IF ~ Recorded(s, g) THEN [g EXCEPT !.push = @ \cap s.image]
  ELSE [Empty(g.state) EXCEPT !.units = g.units,
          !.executed = IF s.error THEN {} ELSE g.executed,
          !.wrong = IF s.error THEN g.wrong \ {"push"} ELSE g.wrong]

(* The lists become new[l] = <<the list, what its buffer holds>>.          *)
Become(new) ==
  /\ list' = [l \in DOMAIN list |-> IF l \in DOMAIN new THEN Settled(new[l][1], new[l][2]) ELSE list[l]]
  /\ gpu' = [l \in DOMAIN list |-> IF l \in DOMAIN new THEN Left(new[l][1], new[l][2]) ELSE gpu[l]]
After(l, s, g) == Become([k \in {l} |-> <<s, g>>])
PagesStay == UNCHANGED <<bufferModel, page, pool>>
Failed(s) == [s EXCEPT !.error = TRUE]
Fails(l) == After(l, Failed(list[l]), gpu[l])
Wrong(g, what, is) == IF is THEN [g EXCEPT !.wrong = @ \cup {what}] ELSE g
-----------------------------------------------------------------------------
(* Passes.  Each operator gives a list and its buffer after the call.      *)
Ended(s) == [s EXCEPT !.passActive = FALSE]
Outside(g) == [g EXCEPT !.rendering = "none"]

(* Fault: the pass stays open below a command that must be outside one. *)
Leaves_PassStays(l) ==
  IF ~ list[l].passActive \/ ~ list[l].continues THEN <<list[l], gpu[l]>>
  ELSE <<Failed(list[l]), gpu[l]>>

(* VkLeavePass, VkRejectInSecondary *)
Leaves(l) ==
  IF ~ list[l].passActive THEN <<list[l], gpu[l]>>
  ELSE IF list[l].continues THEN <<Failed(list[l]), gpu[l]>>
  ELSE <<Ended(list[l]), Outside(gpu[l])>>

(* VkFlushPreprocessBarrier *)
Flushed(s) == [s EXCEPT !.barrierPending = FALSE]
Visible(s, g) == IF s.barrierPending THEN [g EXCEPT !.unflushed = FALSE] ELSE g

(* Fault: BeginPass leaves the barrier to the executions. *)
BeginPass_NoBarrier(l) ==
  /\ Recording(l) /\ l \in Drawing /\ PagesStay
  /\ \E contents \in {"inline", "secondaries"} :
       IF list[l].continues THEN Fails(l)
       ELSE After(l, [Leaves(l)[1] EXCEPT !.passActive = TRUE],
                     [gpu[l] EXCEPT !.rendering = contents])

BeginPass(l) ==
  /\ Recording(l) /\ l \in Drawing /\ PagesStay
  /\ \E contents \in {"inline", "secondaries"} :
       IF list[l].continues THEN Fails(l)
       ELSE After(l, [Flushed(Leaves(l)[1]) EXCEPT !.passActive = TRUE],
                     [Visible(list[l], Leaves(l)[2]) EXCEPT !.rendering = contents])

EndPass(l) ==
  /\ Recording(l) /\ l \in Drawing /\ list[l].passActive /\ PagesStay
  /\ IF list[l].continues THEN Fails(l)
     ELSE After(l, Ended(list[l]), Outside(gpu[l]))

(* The commands that leave the pass first: cl_clearUavUint,                *)
(* cl_clearUavFloat, cl_resolveQueryData, cl_resetQueries, and             *)
(* cl_clearRTV_slot and cl_clearDSV_slot of an image that is no attachment *)
(* of the pass (a clear of an attachment is recorded inside it).           *)
OutsidePass(l) ==
  /\ Recording(l) /\ l \in Drawing /\ PagesStay
  /\ After(l, Leaves(l)[1], Wrong(Leaves(l)[2], "rendering", ~ Leaves(l)[1].error /\ Leaves(l)[2].rendering # "none"))

(* The copies, which a secondary inside a rendering may not record.  A     *)
(* buffer copy out of range fails the list.                                *)
Copy(l) ==
  /\ Recording(l) /\ PagesStay
  /\ ~ Open(l)
  /\ \E inRange \in BOOLEAN :
       IF list[l].continues \/ ~ inRange THEN Fails(l) ELSE UNCHANGED <<list, gpu>>

(* cl_copyBufferRegion of a list that is not recording.                    *)
CopyLate(l) ==
  /\ l \in DOMAIN list /\ l \in Drawing /\ ~ list[l].isRecording /\ PagesStay
  /\ Fails(l)
-----------------------------------------------------------------------------
(* Push data.                                                              *)
(* What a command reads of list l is what was last given.                  *)
Right(l, s, g) ==
  /\ PushedOf(s.layout) \cap s.image \subseteq g.push
  /\ Spills(s.layout) /\ s.image \ PushedOf(s.layout) # {} => g.spill = l

(* cl_bindLayout.  In the descriptor-buffer model push constants persist   *)
(* across layouts, but what stood at SpillCell, or was undone under a      *)
(* layout that pushes less, is not pushed again: callers give again what   *)
(* the new layout pushes and the old one did not.  In the other model they *)
(* give everything again.                                                  *)
BindLayout(l) ==
  /\ Recording(l) /\ l \in Drawing /\ PagesStay
  /\ \E layout \in Layouts \ {list[l].layout} :
       After(l, [list[l] EXCEPT !.layout = layout,
                     !.image = IF bufferModel THEN @ \ (PushedOf(layout) \ PushedOf(list[l].layout)) ELSE {},
                     !.spilledDirty = IF bufferModel THEN Spills(layout) ELSE @], gpu[l])

(* cl_pushConstants of one cell of the bound layout.                       *)
PushConstants(l) ==
  /\ Recording(l) /\ PagesStay
  /\ \E c \in CellsOf(list[l].layout) :
       LET pushed == c \in PushedOf(list[l].layout) IN
       After(l, [list[l] EXCEPT !.image = @ \cup {c}, !.spilledDirty = @ \/ ~ pushed],
                [gpu[l] EXCEPT !.push = IF pushed THEN @ \cup {c} ELSE @ \ {c},
                               !.spill = IF ~ pushed \/ c = SpillCell THEN None ELSE @])

(* VkFlushPendingPushData: a list and its buffer afterwards.  Without      *)
(* scratch for the spill the list fails, and what reads it is recorded     *)
(* all the same.                                                           *)
Pushed(s, g) ==
  IF ~ s.pushedDirty THEN g
  ELSE [g EXCEPT !.push = @ \cup PushedOf(s.layout),
                 !.spill = IF SpillCell \in PushedOf(s.layout) THEN None ELSE @]
Uploaded(g, owner) == [g EXCEPT !.push = @ \ {SpillCell}, !.spill = owner]

Flush(l, scratch) ==
  LET s == list[l]
      g == Pushed(s, gpu[l])
  IN IF s.layout = None THEN <<IF bufferModel THEN s
                               ELSE [s EXCEPT !.pushedDirty = FALSE, !.spilledDirty = FALSE], gpu[l]>>
     ELSE IF s.spilledDirty /\ Spills(s.layout)
       THEN IF scratch
              THEN <<[s EXCEPT !.pushedDirty = FALSE, !.spilledDirty = FALSE], Uploaded(g, l)>>
              ELSE <<Failed([s EXCEPT !.pushedDirty = FALSE]), g>>
     ELSE <<[s EXCEPT !.pushedDirty = FALSE, !.spilledDirty = FALSE], g>>

(* A command that reads push data, recorded after the flush.               *)
ReadsPushData(l, scratch) ==
  LET s == Flush(l, scratch)[1]
      g == Flush(l, scratch)[2]
  IN After(l, s, Wrong(g, "push", ~ Right(l, s, g)))

(* In the descriptor-heap model, ExecuteCommands leaves the push data to   *)
(* the caller, who is taken to read none after it.                         *)
MayRead(l) == bufferModel \/ gpu[l].executed = {}

(* cl_draw, cl_drawIndexed, cl_dispatchMesh, cl_executeIndirect of one     *)
(* kind of draws.                                                          *)
Draw(l) ==
  /\ Recording(l) /\ MayRead(l) /\ PagesStay
  /\ list[l].passActive /\ gpu[l].rendering # "secondaries"
  /\ \E scratch \in BOOLEAN : ReadsPushData(l, scratch)

(* cl_dispatch; cl_traceRays has no check for a pass.                      *)
Dispatch(l) ==
  /\ Recording(l) /\ MayRead(l) /\ PagesStay
  /\ ~ list[l].passActive
  /\ \E scratch \in BOOLEAN : ReadsPushData(l, scratch)
-----------------------------------------------------------------------------
(* Heap binds: a list and its buffer after cl_setDescriptorHeaps.          *)
(* repeated binds are dropped (DiagnosticDedupeHeapBinds).                 *)
WithHeap(s, h) == [s EXCEPT !.heap = h, !.emitted = h]
Binds(s, g, h) == IF s.emitted = h THEN g ELSE [g EXCEPT !.heap = h]

SetDescriptorHeaps(l) ==
  /\ Recording(l) /\ l \in Drawing /\ PagesStay
  /\ \E h \in Heaps : After(l, WithHeap(list[l], h), Binds(list[l], gpu[l], h))
-----------------------------------------------------------------------------
(* Generated commands and their preprocess memory.                         *)
Fits(p, size) == page[p].cursor + size <= page[p].capacity
Smallest(ps) == {p \in ps : \A q \in ps : page[p].capacity <= page[q].capacity}

(* VkAllocateGeneratedCommandsPreprocessRange: the outcomes, each a page,  *)
(* where in it, and the pages and the pool afterwards.                     *)
Ranges(l, size) ==
  LET own == {p \in list[l].pages : Fits(p, size)}
      pooled == Smallest({p \in DOMAIN pool : page[p].capacity >= size})
      new == CHOOSE p \in Pages : p \notin DOMAIN page
  IN IF own # {} THEN {[page |-> p, from |-> page[p].cursor, capacity |-> page[p].capacity] : p \in own}
     ELSE IF pooled # {}
       THEN {[page |-> p, from |-> 0, capacity |-> page[p].capacity] : p \in pooled}
     ELSE IF DOMAIN page = Pages THEN {}
     ELSE {[page |-> new, from |-> 0,
            capacity |-> IF size > MinimumPage THEN size ELSE MinimumPage]}

PagesWith(r, size) ==
  [p \in DOMAIN page \cup {r.page} |->
     IF p = r.page THEN [capacity |-> r.capacity, cursor |-> r.from + size] ELSE page[p]]
PoolWithout(p) == [q \in DOMAIN pool \ {p} |-> pool[q]]
Units(r, size) == {r.page} \X (r.from .. r.from + size - 1)
Used == UNION {gpu[l].units : l \in DOMAIN gpu}

(* Fault: the list's own push data counts as recorded after it. *)
AfterGenerated_Clean(s) == [s EXCEPT !.emitted = None]

(* afterGeneratedCommands: what the list bound and pushed is undefined.    *)
AfterGenerated(s) ==
  [s EXCEPT !.emitted = None, !.pushedDirty = TRUE, !.spilledDirty = @ \/ bufferModel]
Undefined(g) == [g EXCEPT !.push = {}, !.spill = None, !.heap = None]

(* cl_executeIndirect of generated commands, preprocessed as they run.     *)
ExecuteIndirect(l) ==
  /\ Recording(l) /\ l \in Drawing /\ MayRead(l) /\ UNCHANGED bufferModel
  /\ gpu[l].rendering # "secondaries"
  /\ \E size \in RangeSizes :
       \/ \E r \in Ranges(l, size), scratch \in BOOLEAN :
            LET s == Flush(l, scratch)[1]
                g == Flush(l, scratch)[2]
                units == Units(r, size)
                read == Wrong(g, "push", ~ Right(l, s, g))
                ran == Wrong(Undefined(read), "shared", units \cap Used # {})
            IN /\ After(l, AfterGenerated([s EXCEPT !.pages = @ \cup {r.page}]),
                           [ran EXCEPT !.units = @ \cup units])
               /\ page' = PagesWith(r, size) /\ pool' = PoolWithout(r.page)
       \/ Fails(l) /\ UNCHANGED <<page, pool>>

(* VkBufferModelPreprocessPushConstants: the state list and its buffer     *)
(* after the whole push constant range was written from its image, the     *)
(* spill being in the scratch of the list that executes.                   *)
Imaged(s) == [s EXCEPT !.pushedDirty = FALSE, !.spilledDirty = Spills(s.layout)]
Whole(s, g, owner) ==
  [g EXCEPT !.push = PushedOf(s.layout), !.spill = IF Spills(s.layout) THEN owner ELSE None]

(* cl_preprocessIndirect into l, for an execution with the state of t.     *)
PreprocessIndirect(l, t) ==
  LET ready == Recording(l) /\ Recording(t) /\ ~ list[l].passActive
      takesHeap == list[t].heap = None /\ list[l].heap # None
      s == IF takesHeap THEN WithHeap(list[t], list[l].heap) ELSE list[t]
      g == IF takesHeap THEN Binds(list[t], gpu[t], list[l].heap) ELSE gpu[t]
      Both(sl, gl, st, gt) == Become([k \in {l, t} |-> IF k = l THEN <<sl, gl>> ELSE <<st, gt>>])
  IN /\ {l, t} \subseteq DOMAIN list /\ l # t /\ MayRead(t) /\ UNCHANGED bufferModel
     /\ Len(list[l].preprocessed) < MaxRecords
     /\ IF ~ ready
          THEN Fails(l) /\ UNCHANGED <<page, pool>>
        ELSE IF \A size \in RangeSizes : Ranges(l, size) = {}
          THEN Both(Failed(list[l]), gpu[l], s, g) /\ UNCHANGED <<page, pool>>
        ELSE \E size \in RangeSizes, scratch \in BOOLEAN : \E r \in Ranges(l, size) :
          LET recorded == bufferModel /\ s.layout # None
              taken == [list[l] EXCEPT !.pages = @ \cup {r.page}]
              units == Units(r, size)
              mine == Wrong([gpu[l] EXCEPT !.units = @ \cup units], "shared", units \cap Used # {})
              waiting == [taken EXCEPT !.barrierPending = TRUE,
                                       !.preprocessed = Append(@, recorded)]
              unseen == [mine EXCEPT !.unflushed = TRUE]
          IN /\ page' = PagesWith(r, size) /\ pool' = PoolWithout(r.page)
             /\ CASE recorded /\ Spills(s.layout) /\ ~ scratch -> Both(Failed(taken), mine, s, g)
                  [] recorded /\ (scratch \/ ~ Spills(s.layout)) ->
                       Both(waiting, unseen, Imaged(s), Whole(s, g, l))
                  [] ~ recorded /\ bufferModel -> Both(waiting, unseen, s, g)
                  [] OTHER -> Both(waiting, unseen,
                                   [s EXCEPT !.pushedDirty = FALSE, !.spilledDirty = FALSE],
                                   Wrong(Pushed(s, g), "push", ~ Right(t, s, Pushed(s, g))))

(* cl_executeIndirect of commands preprocessed before: with the push       *)
(* constants of the preprocess, or with the list's own.                    *)
ExecutePreprocessed(l) ==
  LET found == list[l].preprocessed # <<>>
      outside == ~ list[l].passActive
      b == IF outside THEN Flushed(list[l]) ELSE list[l]
      v == IF outside THEN Visible(list[l], gpu[l]) ELSE gpu[l]
  IN /\ Recording(l) /\ l \in Drawing /\ MayRead(l) /\ PagesStay
     /\ gpu[l].rendering # "secondaries"
     /\ IF ~ found
          THEN Fails(l)
          ELSE \E scratch \in BOOLEAN :
            LET own == ~ Head(list[l].preprocessed)
                s == IF own THEN Flush(l, scratch)[1] ELSE list[l]
                g == Flush(l, scratch)[2]
                seen == Wrong(Undefined(v), "unflushed", v.unflushed)
            IN After(l, AfterGenerated([s EXCEPT !.preprocessed = Tail(@),
                                                 !.barrierPending = b.barrierPending]),
                        Wrong(seen, "push", own /\ ~ Right(l, s, g)))
-----------------------------------------------------------------------------
(* Secondaries.                                                            *)
BeginSecondary(l) ==
  /\ l \in DOMAIN list /\ list[l].kind = "secondary" /\ ~ list[l].isRecording
  /\ gpu[l].state = "initial" /\ PagesStay
  /\ \E inside \in BOOLEAN :
       After(l, [list[l] EXCEPT !.isRecording = TRUE, !.continues = inside, !.passActive = inside],
                Empty("recording"))

(* Fault: what the list last bound counts as bound. *)
AfterSecondaries_Emitted(s) ==
  [s EXCEPT !.pushedDirty = bufferModel, !.spilledDirty = bufferModel]

AfterSecondaries(s) ==
  [s EXCEPT !.emitted = None,
            !.pushedDirty = bufferModel, !.spilledDirty = bufferModel]

Executable(l, s) ==
  /\ s \in DOMAIN list /\ list[s].kind = "secondary" /\ ~ list[s].isRecording
  /\ gpu[s].state # "none" /\ ~ list[s].error
  /\ list[l].kind = "adopted" \/ list[s].continues = list[l].passActive

(* cl_executeCommands of one list.  Callers give lists whose End succeeded *)
(* and draw only secondaries in a pass begun for them.                     *)
ExecuteCommands(l, s) ==
  /\ Recording(l) /\ l # s /\ PagesStay
  /\ s \in DOMAIN list /\ (list[s].isRecording \/ list[s].ended)
  /\ list[l].passActive => gpu[l].rendering # "inline"
  /\ IF list[l].kind = "secondary" \/ ~ Executable(l, s)
       THEN Fails(l)
       ELSE After(l, AfterSecondaries(list[l]),
                     [Undefined(gpu[l]) EXCEPT !.executed = @ \cup {s}])
-----------------------------------------------------------------------------
(* The life of a list.                                                     *)
InUse(l) == \E k \in DOMAIN gpu : l \in gpu[k].executed

(* cl_endChecked; vkEndCommandBuffer may fail.  A failed list stays as it  *)
(* is, and its caller is told.                                             *)
End(l) ==
  /\ Recording(l) /\ PagesStay
  /\ LET own == list[l].passActive /\ ~ list[l].continues
         closed == Ended(list[l])
         g == IF own THEN Outside(gpu[l]) ELSE gpu[l]
     IN IF list[l].kind = "adopted" THEN After(l, closed, g)
        ELSE \/ After(l, [closed EXCEPT !.isRecording = FALSE, !.ended = TRUE],
                         [g EXCEPT !.state = "executable"])
             \/ After(l, closed, [g EXCEPT !.state = "invalid"])

(* Fault: pages are pooled and stay the list's. *)
Kept_Pages(l) == list[l].pages

(* What a list keeps of its preprocess pages at its reset.                 *)
Kept(l) == {}

(* VkReturnGeneratedCommandsPreprocessPages: ages of the pool afterwards,  *)
(* pages held too long being freed.                                        *)
Aged(l) == [p \in DOMAIN pool \cup list[l].pages |-> IF p \in DOMAIN pool THEN pool[p] + 1 ELSE 0]
Idle(ages) == {p \in DOMAIN ages : ages[p] > IdleResets}

(* cl_reset.  Each call to Vulkan may fail, which leaves the list as far   *)
(* as it came and is only logged.                                          *)
Reset(l) ==
  LET s == list[l]
      dropped == [s EXCEPT !.ended = FALSE]
  IN /\ l \in DOMAIN list /\ s.kind # "adopted" /\ ~ InUse(l) /\ UNCHANGED bufferModel
     /\ \/ /\ OpenResetMayFail \/ ~ s.isRecording
           /\ \/ After(l, dropped, Empty("none"))
              \/ gpu[l].state # "none" /\ After(l, dropped, gpu[l])
              \/ s.kind = "primary" /\ After(l, dropped, Empty("initial"))
           /\ UNCHANGED <<page, pool>>
        \/ /\ After(l, [NewList(s.kind) EXCEPT !.pages = Kept(l)],
                        Empty(IF s.kind = "primary" THEN "recording" ELSE "initial"))
           /\ pool' = [p \in DOMAIN Aged(l) \ Idle(Aged(l)) |-> Aged(l)[p]]
           /\ page' = [p \in DOMAIN page \ Idle(Aged(l)) |->
                         IF p \in s.pages THEN [page[p] EXCEPT !.cursor = 0] ELSE page[p]]

(* ca_reset of the pool the list's buffer is from, which callers do while  *)
(* the list is not recording.                                              *)
ResetAllocator(l) ==
  /\ l \in DOMAIN list /\ list[l].kind # "adopted" /\ ~ list[l].isRecording
  /\ gpu[l].state = "executable" /\ ~ InUse(l) /\ PagesStay
  /\ After(l, [list[l] EXCEPT !.ended = FALSE], Empty("discarded"))

(* d_destroyCommandList *)
Destroy(l) ==
  /\ l \in DOMAIN list /\ ~ InUse(l) /\ UNCHANGED <<bufferModel, pool>>
  /\ list' = [k \in DOMAIN list \ {l} |-> list[k]]
  /\ gpu' = [k \in DOMAIN list \ {l} |-> gpu[k]]
  /\ page' = [p \in DOMAIN page \ list[l].pages |-> page[p]]

Next ==
  \E l \in Lists :
    \/ CreateCommandList(l) \/ BeginPass(l) \/ EndPass(l) \/ OutsidePass(l)
    \/ Copy(l) \/ CopyLate(l)
    \/ BindLayout(l) \/ PushConstants(l) \/ Draw(l) \/ Dispatch(l)
    \/ SetDescriptorHeaps(l)
    \/ ExecuteIndirect(l) \/ ExecutePreprocessed(l)
    \/ \E k \in Lists : PreprocessIndirect(l, k) \/ ExecuteCommands(l, k)
    \/ BeginSecondary(l) \/ End(l) \/ Reset(l) \/ ResetAllocator(l) \/ Destroy(l)

Spec == Init /\ [][Next]_vars
-----------------------------------------------------------------------------
(* Types of the variables; RenderingTracked includes them.               *)
TypeOK ==
  /\ DOMAIN list \subseteq Lists /\ DOMAIN gpu = DOMAIN list
  /\ \A l \in DOMAIN list :
       LET s == list[l] g == gpu[l] IN
       /\ s.kind \in {"primary", "secondary", "adopted"}
       /\ {s.isRecording, s.error, s.passActive, s.continues, s.pushedDirty, s.spilledDirty,
            s.barrierPending, s.ended} \subseteq BOOLEAN
       /\ s.layout \in Layouts \cup {None} /\ {s.heap, s.emitted} \subseteq Heaps \cup {None}
       /\ s.image \subseteq 1 .. 3 /\ Len(s.preprocessed) <= MaxRecords
       /\ g.state \in {"none", "initial", "recording", "executable", "invalid", "discarded"}
       /\ g.push \subseteq 1 .. 3 /\ g.spill \in Lists \cup {None}
  /\ DOMAIN page \subseteq Pages
  /\ \A p \in DOMAIN page : page[p].cursor \in 0 .. page[p].capacity

(* Every command that reads push data reads what PushConstants was last    *)
(* given, whatever undid it in between: secondaries, generated commands,   *)
(* a preprocess with the state of this list, another layout.  Only a list  *)
(* that failed, and so never runs, may read anything else                  *)
(* (VkFlushPendingPushData).                                               *)
PushDataCurrent == \A l \in DOMAIN list : "push" \notin gpu[l].wrong

(* A list knows whether its buffer is inside a rendering it began, a       *)
(* command that is invalid there is never recorded inside one, and no      *)
(* rendering is left open at the end (VkLeavePass, cl_endChecked).         *)
RenderingTracked ==
  /\ TypeOK
  /\ \A l \in DOMAIN list :
       /\ "rendering" \notin gpu[l].wrong
       /\ list[l].isRecording => (Open(l) <=> list[l].passActive /\ ~ list[l].continues)
       /\ gpu[l].state = "executable" => ~ Open(l)

(* What a list takes for bound is bound: a heap bind that is dropped as a  *)
(* repetition relies on it (emittedCbvSrvUavHeap).                         *)
BindingsHonest ==
  \A l \in DOMAIN list : list[l].isRecording /\ gpu[l].state = "recording" /\ list[l].emitted # None =>
    gpu[l].heap = list[l].emitted

(* Every preprocess page is one list's or the pool's, no range is handed   *)
(* out while recorded commands use it, and pages of recorded commands are  *)
(* still their list's (preprocessPool).                                    *)
RangesUnique ==
  /\ \A l \in DOMAIN list : "shared" \notin gpu[l].wrong
  /\ (UNION {list[l].pages : l \in DOMAIN list}) \cup DOMAIN pool = DOMAIN page
  /\ \A l \in DOMAIN list :
       /\ list[l].pages \cap DOMAIN pool = {}
       /\ \A k \in DOMAIN list \ {l} : list[l].pages \cap list[k].pages = {}
       /\ \A u \in gpu[l].units : u[1] \in list[l].pages

(* Runs without fault.                                                     *)
Sound(l) == gpu[l].state = "executable" /\ gpu[l].wrong = {}

(* q_submit's checks of a list, ended by its caller.                       *)
Submittable(l) ==
  /\ gpu[l].state # "none" /\ ~ list[l].error /\ list[l].kind = "primary"
  /\ ~ list[l].isRecording /\ list[l].ended

(* What Submit accepts of a caller who looks at what End returned can be   *)
(* run: the buffer was ended, none of its commands was recorded wrongly,   *)
(* its preprocesses are visible to its executions, and the same goes for   *)
(* the secondaries it executes.                                            *)
SubmittedSound ==
  \A l \in DOMAIN list : Submittable(l) => \A k \in {l} \cup gpu[l].executed : Sound(k)
=============================================================================

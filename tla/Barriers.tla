------------------------------- MODULE Barriers -------------------------------
(***************************************************************************)
(* Vulkan barriers with validateBarrierTransitions (rhi_vulkan.cpp): what  *)
(* Submit takes for the state of each resource (submittedAccess,           *)
(* submittedLayout), advanced by the barriers its lists recorded, against  *)
(* the state the barriers leave it in when they run.                       *)
(*                                                                         *)
(* A batch is one call of Barrier: it gives resources barriers.  A buffer  *)
(* has no layout: its layout stays Common.  Barriers cover whole resources *)
(* on one queue, or on queues ordered by timelines; masks, ownership and   *)
(* global barriers, which the validation does not look at, are left out.   *)
(***************************************************************************)
EXTENDS Integers, Sequences, FiniteSets, SequencesExt

CONSTANTS
  Lists, Textures, Buffers,
  MaxBatches   \* bounds the batches of a list

ASSUME BarriersAssumption == Textures \cap Buffers = {} /\ MaxBatches \in Nat

VARIABLES
  submitted,   \* [resource -> submittedAccess, submittedLayout]
  actual,      \* [resource -> its state after the barriers that ran]
  list,        \* [list -> secondary, phase, batches, commands, ran]
  misread,     \* a barrier started from another layout than its texture's
  lost         \* why submitted may differ from actual, "no" while it may not

vars == <<submitted, actual, list, misread, lost>>

Resources == Textures \cup Buffers
State(access, layout) == [access |-> access, layout |-> layout]
Unused == State("Common", "Undefined")
General == State("Common", "Common")
(* The states a barrier may begin from and lead to.  A caller may think a  *)
(* texture is read in a layout though its access is Common.                *)
After(r) == IF r \in Textures THEN {General, State("Read", "ShaderResource")}
            ELSE {General, State("Read", "Common")}
Before(r) == After(r) \cup IF r \in Textures THEN {Unused, State("Common", "ShaderResource")} ELSE {}
BarriersOf(r) == [before : Before(r), after : After(r), discard : {FALSE}]
  \cup IF r \in Textures THEN [before : {Unused}, after : After(r), discard : {TRUE}] ELSE {}
Single(q, b) == [r \in {q} |-> b]
Pair(t, u, b, c) == [r \in {t, u} |-> IF r = t THEN b ELSE c]
OfTextures == BarriersOf(CHOOSE t \in Textures : TRUE)
OfBuffers == BarriersOf(CHOOSE u \in Buffers : TRUE)
Batches ==
  (UNION {{Single(q, b) : b \in BarriersOf(q)} : q \in Resources})
  \cup {Pair(t, u, b, c) : t \in Textures, u \in Buffers, b \in OfTextures, c \in OfBuffers}

(* VkToImageLayout, of the layouts that occur *)
VkToImageLayout(layout) ==
  CASE layout = "Undefined" -> "UNDEFINED"
    [] layout = "Common" -> "GENERAL"
    [] layout = "ShaderResource" -> "SHADER_READ_ONLY"

Init ==
  /\ submitted = [r \in Resources |-> IF r \in Textures THEN Unused ELSE General]
  /\ actual = submitted
  /\ list \in [Lists -> [secondary : BOOLEAN, phase : {"recording"},
                         batches : {<<>>}, commands : {<<>>}, ran : {FALSE}]]
  /\ misread = FALSE /\ lost = "no"

(* cl_barrier: the commands and, with validation, the batch.               *)
Barrier(l) ==
  /\ list[l].phase = "recording" /\ Len(list[l].commands) < MaxBatches
  /\ \E batch \in Batches :
       list' = [list EXCEPT ![l].batches = Append(@, batch), ![l].commands = Append(@, batch)]
  /\ UNCHANGED <<submitted, actual, misread, lost>>

(* cl_executeCommands: the barriers of the secondary run with the list.    *)
ExecuteCommands(l, s) ==
  /\ list[l].phase = "recording" /\ ~ list[l].secondary
  /\ list[s].phase = "ended" /\ list[s].secondary
  /\ Len(list[l].commands) < MaxBatches
  /\ list' = [list EXCEPT ![l].commands = @ \o list[s].commands]
  /\ UNCHANGED <<submitted, actual, misread, lost>>

End(l) ==
  /\ list[l].phase = "recording"
  /\ list' = [list EXCEPT ![l].phase = "ended"]
  /\ UNCHANGED <<submitted, actual, misread, lost>>

(* cl_reset *)
Reset(l) ==
  /\ list[l].phase = "ended"
  /\ list' = [list EXCEPT ![l].phase = "recording", ![l].batches = <<>>, ![l].commands = <<>>,
                          ![l].ran = FALSE]
  /\ UNCHANGED <<submitted, actual, misread, lost>>
-----------------------------------------------------------------------------
(* Fault: the layout a barrier starts from is not compared. *)
Allowed_AnyLayout(state, b) == b.discard \/ state.access = b.before.access

(* What the validation accepts of a barrier, given the submitted state.  A *)
(* buffer's layout never differs.                                          *)
Allowed(state, b) ==
  b.discard \/ /\ state.layout \in {"Undefined", b.before.layout}
               /\ state.access = b.before.access

(* The states after the first n batches: what the last one that names a    *)
(* resource makes of it.                                                   *)
Advanced(states, batches, n) ==
  [r \in Resources |->
     LET i == Max({0} \cup {k \in 1 .. n : r \in DOMAIN batches[k]})
     IN IF i = 0 THEN states[r] ELSE batches[i][r].after]

(* VkValidateAndApplySubmittedBarriers: each batch is checked as a whole,  *)
(* against the states those before it left, and the first that does not    *)
(* match ends it.                                                          *)
Matches(batches, i) ==
  \A r \in DOMAIN batches[i] : Allowed(Advanced(submitted, batches, i - 1)[r], batches[i][r])
ValidateAndApply(batches) ==
  LET applied == Max({n \in 0 .. Len(batches) : \A i \in 1 .. n : Matches(batches, i)})
  IN [states |-> Advanced(submitted, batches, applied), ok |-> applied = Len(batches)]

(* The barriers run: the states they leave, and whether one of a used      *)
(* texture started from another layout than the texture's.                 *)
Starts(b) == IF b.discard THEN "UNDEFINED" ELSE VkToImageLayout(b.before.layout)
Misreads(states, batch) ==
  \E t \in DOMAIN batch \cap Textures :
    /\ states[t] # Unused
    /\ Starts(batch[t]) \notin {"UNDEFINED", VkToImageLayout(states[t].layout)}
Run(commands) ==
  [states |-> Advanced(actual, commands, Len(commands)),
   misread |-> misread \/ \E i \in 1 .. Len(commands) :
                            Misreads(Advanced(actual, commands, i - 1), commands[i])]

Orders == {<<l>> : l \in Lists} \cup {ls \in Lists \X Lists : ls[1] # ls[2]}
All(field, ls) ==
  IF Len(ls) = 1 THEN list[ls[1]][field] ELSE list[ls[1]][field] \o list[ls[2]][field]

(* Why the states may differ once ls have run.                             *)
Cause(ls) ==
  CASE \E i \in DOMAIN ls : list[ls[i]].ran /\ list[ls[i]].commands # <<>> -> "again"
    [] All("batches", ls) # All("commands", ls) -> "secondary"
    [] OTHER -> "no"

(* Fault: the batches of the last list advance the states first. *)
Submit_Reversed(ls) ==
  /\ \A i \in DOMAIN ls : list[ls[i]].phase = "ended" /\ ~ list[ls[i]].secondary
  /\ LET v == ValidateAndApply(All("batches", Reverse(ls)))
         ran == Run(All("commands", ls))
     IN /\ v.ok /\ submitted' = v.states
        /\ actual' = ran.states /\ misread' = ran.misread /\ lost' = Cause(ls)
        /\ list' = [l \in Lists |-> IF l \in {ls[i] : i \in DOMAIN ls}
                      THEN [list[l] EXCEPT !.batches = <<>>, !.ran = TRUE] ELSE list[l]]

(* q_submit.  A list that cannot be submitted, a batch that does not match *)
(* and, after the states have advanced, its waits, its signals or Vulkan   *)
(* make it fail.                                                           *)
Submit(ls) ==
  LET v == ValidateAndApply(All("batches", ls))
      ran == Run(All("commands", ls))
  IN /\ \A i \in DOMAIN ls : list[ls[i]].phase = "ended" /\ ~ list[ls[i]].secondary
     /\ submitted' = v.states
     /\ \/ /\ v.states # submitted \/ ~ v.ok
           /\ lost' = IF v.states # submitted THEN "failed" ELSE "no"
           /\ UNCHANGED <<actual, list, misread>>
        \/ /\ v.ok
           /\ actual' = ran.states /\ misread' = ran.misread /\ lost' = Cause(ls)
           /\ list' = [l \in Lists |-> IF l \in {ls[i] : i \in DOMAIN ls}
                         THEN [list[l] EXCEPT !.batches = <<>>, !.ran = TRUE] ELSE list[l]]

(* Once the states may differ nothing more is followed.                    *)
Next ==
  /\ lost = "no"
  /\ \/ \E l \in Lists : Barrier(l) \/ End(l) \/ Reset(l)
     \/ \E l, s \in Lists : ExecuteCommands(l, s)
     \/ \E ls \in Orders : Submit(ls)

Spec == Init /\ [][Next]_vars
-----------------------------------------------------------------------------
(* Types of the variables; StatesExact includes them.                    *)
TypeOK ==
  /\ \A r \in Resources : {submitted[r], actual[r]} \subseteq Before(r)
  /\ \A l \in Lists :
       /\ list[l].phase \in {"recording", "ended"}
       /\ {list[l].secondary, list[l].ran} \subseteq BOOLEAN
       /\ Len(list[l].batches) <= MaxBatches
  /\ misread \in BOOLEAN /\ lost \in {"no", "failed", "again", "secondary"}

(* No submission that the validation lets through runs a barrier of a      *)
(* texture in use from another layout than the texture's, as long as all   *)
(* barriers were validated and no submission failed late.                  *)
TransitionsSound == lost = "no" => ~ misread

(* What Submit takes for the states is what the barriers left, whatever    *)
(* order lists were recorded and submitted in and however many were        *)
(* rejected (VkValidateAndApplySubmittedBarriers).                         *)
StatesExact == TypeOK /\ (lost = "no" => submitted = actual)

(* "A recorded list may be submitted again once its previous submission    *)
(* has completed" (VkBeginCommandRecording): its barriers advance the      *)
(* states each time.                                                       *)
ResubmissionsTracked == lost = "again" => submitted = actual
=============================================================================

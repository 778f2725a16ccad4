--------------------------- MODULE Barriers_proofs ---------------------------
(***************************************************************************)
(* Proofs about Barriers, for any lists, textures, buffers and bound on    *)
(* their batches: what Submit takes for the states of resources is what    *)
(* the barriers leave, and no barrier starts from another layout than its  *)
(* texture's, until a submission fails late or runs what was not checked.  *)
(***************************************************************************)
EXTENDS Barriers, SequenceTheorems, WellFoundedInduction, TLAPS

(* What a list and the states may be. *)
ListSet ==
  [secondary : BOOLEAN, phase : {"recording", "ended"}, batches : Seq(Batches),
   commands : Seq(Batches), ran : BOOLEAN]
Typed(states) == states \in [Resources -> UNION {Before(r) : r \in Resources}]
                   /\ \A r \in Resources : states[r] \in Before(r)

IInv ==
  /\ Typed(submitted) /\ Typed(actual)
  /\ list \in [Lists -> ListSet]
  /\ \A l \in Lists : Len(list[l].batches) <= MaxBatches
                      /\ Len(list[l].batches) <= Len(list[l].commands)
  /\ misread \in BOOLEAN /\ lost \in {"no", "failed", "again", "secondary"}
  /\ lost = "no" => ~ misread /\ submitted = actual
-----------------------------------------------------------------------------
(* A bounded set of numbers has a largest.                                 *)
LEMMA MaxExists ==
  ASSUME NEW n \in Nat, NEW S \in SUBSET (0 .. n), S # {}
  PROVE  Max(S) \in S /\ \A x \in S : x <= Max(S)
  <1> DEFINE R == OpToRel(<, Nat)
             T == {m \in Nat : \A x \in S : x <= m}
  <1>1. IsWellFoundedOn(R, Nat)
    BY NatLessThanWellFounded
  <1>2. \A x, y \in Nat : y < x => <<y, x>> \in R
    BY DEF OpToRel
  <1> HIDE DEF R
  <1>3. n \in T
    OBVIOUS
  <1>4. PICK m \in T : \A y \in T : ~ (<<y, m>> \in R)
    <2>1. T \in SUBSET Nat /\ T # {}
      BY <1>3
    <2> HIDE DEF T
    <2>2. QED
      BY <1>1, <2>1, WFMin
  <1>5. \A y \in T : ~ (y < m)
    BY <1>2, <1>4
  <1>6. m \in S
    <2>1. SUFFICES ASSUME m \notin S PROVE FALSE
      OBVIOUS
    <2>2. PICK x \in S : TRUE
      OBVIOUS
    <2>3. m \in Nat /\ \A y \in S : y \in Nat /\ y < m
      BY <2>1
    <2>4. m - 1 \in T
      BY <2>2, <2>3
    <2>5. QED
      BY <1>5, <2>3, <2>4
  <1>7. QED
    BY <1>6 DEF Max

(* What a batch gives its resources.                                       *)
LEMMA BatchIs ==
  ASSUME NEW batch \in Batches
  PROVE  /\ DOMAIN batch \subseteq Resources
         /\ \A r \in DOMAIN batch : batch[r] \in BarriersOf(r)
  <1>1. ASSUME NEW q \in Resources, NEW b \in BarriersOf(q), batch = Single(q, b)
        PROVE  /\ DOMAIN batch \subseteq Resources
               /\ \A r \in DOMAIN batch : batch[r] \in BarriersOf(r)
    BY <1>1 DEF Single
  <1>2. ASSUME NEW t \in Textures, NEW u \in Buffers, NEW b \in OfTextures, NEW c \in OfBuffers,
               batch = Pair(t, u, b, c)
        PROVE  /\ DOMAIN batch \subseteq Resources
               /\ \A r \in DOMAIN batch : batch[r] \in BarriersOf(r)
    <2> DEFINE t0 == CHOOSE x \in Textures : TRUE
               u0 == CHOOSE x \in Buffers : TRUE
    <2>1. t0 \in Textures /\ u0 \in Buffers /\ t # u
      BY BarriersAssumption
    <2>2. OfTextures = BarriersOf(t0) /\ OfBuffers = BarriersOf(u0)
      BY DEF OfTextures, OfBuffers
    <2> HIDE DEF t0, u0
    <2>3. BarriersOf(t) = BarriersOf(t0)
      BY <2>1 DEF BarriersOf, Before, After
    <2>4. BarriersOf(u) = BarriersOf(u0)
      BY <2>1, BarriersAssumption DEF BarriersOf, Before, After
    <2>5. QED
      BY <1>2, <2>1, <2>2, <2>3, <2>4 DEF Resources, Pair
  <1>3. \/ \E q \in Resources : \E b \in BarriersOf(q) : batch = Single(q, b)
        \/ \E t \in Textures, u \in Buffers, b \in OfTextures, c \in OfBuffers :
             batch = Pair(t, u, b, c)
    BY DEF Batches
  <1>4. CASE \E q \in Resources : \E b \in BarriersOf(q) : batch = Single(q, b)
    BY <1>1, <1>4
  <1>5. CASE \E t \in Textures, u \in Buffers, b \in OfTextures, c \in OfBuffers :
               batch = Pair(t, u, b, c)
    BY <1>2, <1>5
  <1>6. QED
    BY <1>3, <1>4, <1>5

(* What a barrier leads to is a state it may begin from.                   *)
LEMMA BarrierIs ==
  ASSUME NEW r, NEW b \in BarriersOf(r)
  PROVE  /\ b.after \in Before(r) /\ b.before \in Before(r) \cup {Unused}
         /\ b.discard \in BOOLEAN
  BY DEF BarriersOf, Before, After

(* The states after any number of batches are states of their resources.   *)
LEMMA AdvancedTyped ==
  ASSUME NEW states, Typed(states), NEW batches \in Seq(Batches), NEW n \in 0 .. Len(batches)
  PROVE  Typed(Advanced(states, batches, n))
  <1>1. Len(batches) \in Nat /\ n \in Nat /\ \A i \in 1 .. n : batches[i] \in Batches
    BY LenProperties, ElementOfSeq
  <1> DEFINE I(r) == {0} \cup {k \in 1 .. n : r \in DOMAIN batches[k]}
             i(r) == Max(I(r))
             A == Advanced(states, batches, n)
  <1>2. A = [r \in Resources |-> IF i(r) = 0 THEN states[r] ELSE batches[i(r)][r].after]
    BY DEF Advanced
  <1>3. ASSUME NEW r \in Resources
        PROVE  A[r] \in Before(r)
    <2>1. I(r) \in SUBSET (0 .. n) /\ I(r) # {}
      BY <1>1
    <2>2. i(r) \in I(r)
      <3> HIDE DEF I
      <3>1. QED
        BY <1>1, <2>1, MaxExists
    <2>3. CASE i(r) = 0
      BY <1>2, <1>3, <2>3 DEF Typed
    <2>4. CASE i(r) # 0
      <3>1. i(r) \in 1 .. n /\ r \in DOMAIN batches[i(r)]
        BY <2>2, <2>4
      <3> HIDE DEF i
      <3>2. batches[i(r)][r] \in BarriersOf(r)
        BY <1>1, <3>1, BatchIs
      <3>3. batches[i(r)][r].after \in Before(r)
        BY <3>2, BarrierIs
      <3>4. QED
        BY <1>2, <1>3, <2>4, <3>3
    <2>5. QED
      BY <2>3, <2>4
  <1> HIDE DEF A
  <1>4. A = [r \in Resources |-> A[r]]
    BY <1>2
  <1>5. QED
    BY <1>3, <1>4 DEF Typed, A

(* A barrier that the validation lets through starts from the layout its   *)
(* texture is in.                                                          *)
LEMMA AllowedStarts ==
  ASSUME NEW t \in Textures, NEW b \in BarriersOf(t), NEW state \in Before(t),
         Allowed(state, b), state # Unused
  PROVE  Starts(b) \in {"UNDEFINED", VkToImageLayout(state.layout)}
  <1>1. CASE b.discard
    BY <1>1 DEF Starts
  <1>2. CASE ~ b.discard
    <2>1. state.layout # "Undefined"
      BY DEF Before, After, Unused, General, State
    <2>2. state.layout = b.before.layout
      BY <1>2, <2>1 DEF Allowed
    <2>3. QED
      BY <1>2, <2>2 DEF Starts
  <1>3. QED
    BY <1>1, <1>2

(* Batches that the validation lets through are run without misreading.    *)
LEMMA ValidatedRuns ==
  ASSUME Typed(submitted), submitted = actual, misread \in BOOLEAN,
         NEW batches \in Seq(Batches),
         ValidateAndApply(batches).ok
  PROVE  /\ ValidateAndApply(batches).states = Run(batches).states
         /\ Run(batches).misread = misread
  <1> DEFINE N == {n \in 0 .. Len(batches) : \A i \in 1 .. n : Matches(batches, i)}
             applied == Max(N)
  <1>1. Len(batches) \in Nat /\ \A i \in 1 .. Len(batches) : batches[i] \in Batches
    BY LenProperties, ElementOfSeq
  <1>2. 0 \in N
    BY <1>1
  <1>3. applied \in N
    <2>1. N \in SUBSET (0 .. Len(batches)) /\ N # {}
      BY <1>2
    <2> HIDE DEF N
    <2>2. QED
      BY <1>1, <2>1, MaxExists
  <1>4. /\ ValidateAndApply(batches).ok = (applied = Len(batches))
        /\ ValidateAndApply(batches).states = Advanced(submitted, batches, applied)
    BY DEF ValidateAndApply
  <1>5. applied = Len(batches)
    BY <1>4
  <1>6. ASSUME NEW i \in 1 .. Len(batches)
        PROVE  ~ Misreads(Advanced(actual, batches, i - 1), batches[i])
    <2> DEFINE states == Advanced(actual, batches, i - 1)
    <2>1. Matches(batches, i)
      BY <1>3, <1>5, <1>6
    <2>2. \A r \in DOMAIN batches[i] : Allowed(states[r], batches[i][r])
      BY <2>1 DEF Matches
    <2>3. Typed(states)
      <3>1. i - 1 \in 0 .. Len(batches)
        BY <1>1
      <3>2. QED
        BY <3>1, AdvancedTyped
    <2> HIDE DEF states
    <2>4. ASSUME NEW t \in DOMAIN batches[i] \cap Textures, states[t] # Unused
          PROVE  Starts(batches[i][t]) \in {"UNDEFINED", VkToImageLayout(states[t].layout)}
      <3>1. batches[i][t] \in BarriersOf(t)
        BY <1>1, <1>6, BatchIs
      <3>2. states[t] \in Before(t)
        BY <2>3 DEF Typed, Resources
      <3>3. QED
        BY <2>2, <2>4, <3>1, <3>2, AllowedStarts
    <2>5. ~ Misreads(states, batches[i])
      BY <2>4 DEF Misreads
    <2>6. QED
      BY <2>5 DEF states
  <1>7. /\ Run(batches).states = Advanced(actual, batches, Len(batches))
        /\ Run(batches).misread = (misread \/ \E i \in 1 .. Len(batches) :
                                     Misreads(Advanced(actual, batches, i - 1), batches[i]))
    BY DEF Run
  <1>8. QED
    BY <1>4, <1>5, <1>6, <1>7

(* What Submit takes for the states stays a state of each resource, matched *)
(* or not.                                                                 *)
LEMMA ValidatedTyped ==
  ASSUME Typed(submitted), NEW batches \in Seq(Batches)
  PROVE  Typed(ValidateAndApply(batches).states)
  <1> DEFINE N == {n \in 0 .. Len(batches) : \A i \in 1 .. n : Matches(batches, i)}
             applied == Max(N)
  <1>1. Len(batches) \in Nat
    BY LenProperties
  <1>2. N \in SUBSET (0 .. Len(batches)) /\ N # {}
    <2>1. 0 \in N
      BY <1>1
    <2>2. QED
      BY <2>1
  <1>3. applied \in 0 .. Len(batches)
    <2> HIDE DEF N
    <2>1. QED
      BY <1>1, <1>2, MaxExists
  <1>4. ValidateAndApply(batches).states = Advanced(submitted, batches, applied)
    BY DEF ValidateAndApply
  <1> HIDE DEF applied
  <1>5. QED
    BY <1>3, <1>4, AdvancedTyped

(* What the lists of a submission recorded, one after the other.           *)
LEMMA AllTyped ==
  ASSUME list \in [Lists -> ListSet], NEW ls \in Orders
  PROVE  /\ All("batches", ls) \in Seq(Batches)
         /\ All("commands", ls) \in Seq(Batches)
  <1>1. \A l \in Lists : list[l].batches \in Seq(Batches) /\ list[l].commands \in Seq(Batches)
    BY DEF ListSet
  <1>2. CASE ls \in {<<l>> : l \in Lists}
    BY <1>1, <1>2 DEF All
  <1>3. CASE ls \in Lists \X Lists
    <2>1. PICK a \in Lists, b \in Lists : ls = <<a, b>>
      BY <1>3
    <2>2. Len(ls) = 2 /\ ls[1] = a /\ ls[2] = b
      BY <2>1
    <2>3. /\ list[a].batches \o list[b].batches \in Seq(Batches)
          /\ list[a].commands \o list[b].commands \in Seq(Batches)
      BY <1>1, ConcatProperties
    <2>4. QED
      BY <2>2, <2>3 DEF All
  <1>4. QED
    BY <1>2, <1>3 DEF Orders
-----------------------------------------------------------------------------
(* Initially submitted and actual states agree.                            *)
LEMMA InitIInv == Init => IInv
  <1> SUFFICES ASSUME Init PROVE IInv
    OBVIOUS
  <1>1. \A r \in Resources : submitted[r] \in Before(r)
    BY DEF Init, Before, After, General, Unused, Resources
  <1>2. Typed(submitted)
    <2>1. submitted = [r \in Resources |-> submitted[r]]
      BY DEF Init
    <2>2. QED
      BY <1>1, <2>1 DEF Typed
  <1>3. list \in [Lists -> ListSet]
    <2>1. <<>> \in Seq(Batches)
      BY EmptySeq
    <2>2. QED
      BY <2>1 DEF Init, ListSet
  <1>4. \A l \in Lists : Len(list[l].batches) = 0 /\ Len(list[l].commands) = 0
    <2>1. \A l \in Lists : list[l].batches = <<>> /\ list[l].commands = <<>>
      BY DEF Init
    <2>2. QED
      BY <2>1, EmptySeq
  <1>5. \A l \in Lists : Len(list[l].batches) <= MaxBatches
                        /\ Len(list[l].batches) <= Len(list[l].commands)
    BY <1>4, BarriersAssumption
  <1>6. actual = submitted /\ misread = FALSE /\ lost = "no"
    BY DEF Init
  <1>7. QED
    BY <1>2, <1>3, <1>5, <1>6 DEF IInv

(* A list becomes r while the states are left alone.                       *)
LEMMA OneList ==
  ASSUME IInv, NEW l \in Lists, NEW r \in ListSet,
         Len(r.batches) <= MaxBatches, Len(r.batches) <= Len(r.commands),
         list' = [list EXCEPT ![l] = r], UNCHANGED <<submitted, actual, misread, lost>>
  PROVE  IInv'
  <1>1. list' \in [Lists -> ListSet]
    BY DEF IInv
  <1>2. \A k \in Lists : Len(list'[k].batches) <= MaxBatches
                        /\ Len(list'[k].batches) <= Len(list'[k].commands)
    BY DEF IInv
  <1>3. Typed(submitted)' /\ Typed(actual)'
    BY DEF IInv, Typed
  <1>4. QED
    BY <1>1, <1>2, <1>3 DEF IInv

(* Recording a barrier keeps the invariant.                                *)
LEMMA BarrierStep == IInv /\ (\E l \in Lists : Barrier(l)) => IInv'
  <1> SUFFICES ASSUME IInv, NEW l \in Lists, Barrier(l) PROVE IInv'
    OBVIOUS
  <1>1. list[l] \in ListSet
    BY DEF IInv
  <1>2. PICK batch \in Batches :
          list' = [list EXCEPT ![l].batches = Append(@, batch), ![l].commands = Append(@, batch)]
    BY DEF Barrier
  <1> DEFINE bs == Append(list[l].batches, batch)
             cs == Append(list[l].commands, batch)
             r == [list[l] EXCEPT !.batches = bs, !.commands = cs]
  <1>3. list' = [list EXCEPT ![l] = r]
    BY <1>2 DEF IInv
  <1>4. /\ bs \in Seq(Batches) /\ Len(bs) = Len(list[l].batches) + 1
        /\ cs \in Seq(Batches) /\ Len(cs) = Len(list[l].commands) + 1
    BY <1>1, AppendProperties DEF ListSet
  <1> HIDE DEF bs, cs
  <1>5. r \in ListSet /\ r.batches = bs /\ r.commands = cs
    BY <1>1, <1>4 DEF ListSet
  <1>6. /\ Len(list[l].batches) \in Nat /\ Len(list[l].commands) \in Nat /\ MaxBatches \in Nat
        /\ Len(list[l].batches) <= Len(list[l].commands)
        /\ Len(list[l].commands) < MaxBatches
    BY <1>1, LenProperties, BarriersAssumption DEF IInv, Barrier, ListSet
  <1>7. Len(bs) <= MaxBatches /\ Len(bs) <= Len(cs)
    BY <1>4, <1>6
  <1>8. UNCHANGED <<submitted, actual, misread, lost>>
    BY DEF Barrier
  <1> HIDE DEF r
  <1>9. QED
    BY <1>3, <1>5, <1>7, <1>8, OneList

(* Executing a secondary keeps the invariant: it only adds commands.       *)
LEMMA ExecuteStep == IInv /\ (\E l, s \in Lists : ExecuteCommands(l, s)) => IInv'
  <1> SUFFICES ASSUME IInv, NEW l \in Lists, NEW s \in Lists, ExecuteCommands(l, s)
               PROVE  IInv'
    OBVIOUS
  <1>1. list[l] \in ListSet /\ list[s] \in ListSet
    BY DEF IInv
  <1> DEFINE cs == list[l].commands \o list[s].commands
             r == [list[l] EXCEPT !.commands = cs]
  <1>2. list' = [list EXCEPT ![l] = r]
    BY DEF IInv, ExecuteCommands
  <1>3. /\ cs \in Seq(Batches)
        /\ Len(cs) = Len(list[l].commands) + Len(list[s].commands)
        /\ Len(list[l].commands) \in Nat /\ Len(list[s].commands) \in Nat
        /\ Len(list[l].batches) \in Nat
    BY <1>1, ConcatProperties, LenProperties DEF ListSet
  <1> HIDE DEF cs
  <1>4. r \in ListSet /\ r.batches = list[l].batches /\ r.commands = cs
    BY <1>1, <1>3 DEF ListSet
  <1>5. Len(list[l].batches) <= MaxBatches /\ Len(list[l].batches) <= Len(cs)
    <2>1. /\ Len(list[l].batches) <= MaxBatches
          /\ Len(list[l].batches) <= Len(list[l].commands)
      BY DEF IInv
    <2> DEFINE a == Len(list[l].batches)
               b == Len(list[l].commands)
               c == Len(list[s].commands)
    <2>2. Len(cs) = b + c /\ a \in Nat /\ b \in Nat /\ c \in Nat
      BY <1>3
    <2>3. a <= MaxBatches /\ a <= b
      BY <2>1
    <2> HIDE DEF a, b, c
    <2>4. a <= b + c
      BY <2>2, <2>3
    <2>5. a <= MaxBatches /\ a <= Len(cs)
      BY <2>2, <2>3, <2>4
    <2>6. QED
      BY <2>5 DEF a
  <1>6. UNCHANGED <<submitted, actual, misread, lost>>
    BY DEF ExecuteCommands
  <1> HIDE DEF r
  <1>7. QED
    BY <1>2, <1>4, <1>5, <1>6, OneList

(* Ending a list keeps the invariant.                                      *)
LEMMA EndStep == IInv /\ (\E l \in Lists : End(l)) => IInv'
  <1> SUFFICES ASSUME IInv, NEW l \in Lists, End(l) PROVE IInv'
    OBVIOUS
  <1>1. list[l] \in ListSet
    BY DEF IInv
  <1> DEFINE r == [list[l] EXCEPT !.phase = "ended"]
  <1>2. list' = [list EXCEPT ![l] = r]
    BY DEF IInv, End
  <1>3. r \in ListSet /\ r.batches = list[l].batches /\ r.commands = list[l].commands
    BY <1>1 DEF ListSet
  <1>4. Len(list[l].batches) <= MaxBatches /\ Len(list[l].batches) <= Len(list[l].commands)
    BY DEF IInv
  <1>5. UNCHANGED <<submitted, actual, misread, lost>>
    BY DEF End
  <1> HIDE DEF r
  <1>6. QED
    BY <1>2, <1>3, <1>4, <1>5, OneList

(* Resetting a list keeps the invariant.                                   *)
LEMMA ResetStep == IInv /\ (\E l \in Lists : Reset(l)) => IInv'
  <1> SUFFICES ASSUME IInv, NEW l \in Lists, Reset(l) PROVE IInv'
    OBVIOUS
  <1>1. list[l] \in ListSet
    BY DEF IInv
  <1> DEFINE r == [list[l] EXCEPT !.phase = "recording", !.batches = <<>>, !.commands = <<>>,
                                  !.ran = FALSE]
  <1>2. list' = [list EXCEPT ![l] = r]
    BY DEF IInv, Reset
  <1>3. r \in ListSet /\ r.batches = <<>> /\ r.commands = <<>>
    BY <1>1, EmptySeq DEF ListSet
  <1>4. Len(r.batches) <= MaxBatches /\ Len(r.batches) <= Len(r.commands)
    <2>1. Len(r.batches) = 0 /\ Len(r.commands) = 0 /\ MaxBatches \in Nat
      BY <1>3, EmptySeq, BarriersAssumption
    <2>2. QED
      BY <2>1
  <1>5. UNCHANGED <<submitted, actual, misread, lost>>
    BY DEF Reset
  <1> HIDE DEF r
  <1>6. QED
    BY <1>2, <1>3, <1>4, <1>5, OneList

(* Submitting keeps the invariant: a submission that fails after its       *)
(* barriers advanced the states, or that runs barriers that were not       *)
(* checked, leaves "no".                                                   *)
LEMMA SubmitStep == IInv /\ lost = "no" /\ (\E ls \in Orders : Submit(ls)) => IInv'
  <1> SUFFICES ASSUME IInv, lost = "no", NEW ls \in Orders, Submit(ls) PROVE IInv'
    OBVIOUS
  <1> DEFINE bs == All("batches", ls)
             cs == All("commands", ls)
             v == ValidateAndApply(bs)
             ran == Run(cs)
  <1>1. bs \in Seq(Batches) /\ cs \in Seq(Batches)
    BY AllTyped DEF IInv
  <1>2. Typed(submitted) /\ Typed(actual) /\ misread \in BOOLEAN /\ ~ misread
        /\ submitted = actual
    BY DEF IInv
  <1>3. submitted' = v.states
    BY DEF Submit
  <1>4. Typed(submitted')
    BY <1>1, <1>2, <1>3, ValidatedTyped
  <1>5. CASE /\ lost' = IF v.states # submitted THEN "failed" ELSE "no"
             /\ UNCHANGED <<actual, list, misread>>
    <2>1. lost' \in {"no", "failed"} /\ (lost' = "no" => submitted' = submitted)
      BY <1>3, <1>5
    <2>2. QED
      BY <1>2, <1>4, <1>5, <2>1 DEF IInv, Typed
  <1>6. CASE /\ v.ok
             /\ actual' = ran.states /\ misread' = ran.misread /\ lost' = Cause(ls)
             /\ list' = [l \in Lists |-> IF l \in {ls[i] : i \in DOMAIN ls}
                           THEN [list[l] EXCEPT !.batches = <<>>, !.ran = TRUE] ELSE list[l]]
    <2>1. Typed(actual') /\ misread' \in BOOLEAN
      <3>1. Len(cs) \in 0 .. Len(cs)
        BY <1>1, LenProperties
      <3>2. ran.states = Advanced(actual, cs, Len(cs)) /\ ran.misread \in BOOLEAN
        BY <1>2 DEF Run
      <3> HIDE DEF cs, ran
      <3>3. QED
        BY <1>1, <1>2, <1>6, <3>1, <3>2, AdvancedTyped
    <2>2. lost' \in {"no", "again", "secondary"} /\ (lost' = "no" => bs = cs)
      BY <1>6 DEF Cause
    <2>3. lost' = "no" => ~ misread' /\ submitted' = actual'
      <3>1. SUFFICES ASSUME lost' = "no" PROVE ~ misread' /\ submitted' = actual'
        OBVIOUS
      <3>2. bs = cs
        BY <2>2, <3>1
      <3> HIDE DEF bs, cs
      <3>3. v.states = ran.states /\ ran.misread = misread
        BY <1>1, <1>2, <1>6, <3>2, ValidatedRuns
      <3>4. QED
        BY <1>2, <1>3, <1>6, <3>3
    <2>4. \A l \in Lists : /\ list'[l] \in ListSet
                           /\ Len(list'[l].batches) <= MaxBatches
                           /\ Len(list'[l].batches) <= Len(list'[l].commands)
      <3> SUFFICES ASSUME NEW l \in Lists
                   PROVE  /\ list'[l] \in ListSet
                          /\ Len(list'[l].batches) <= MaxBatches
                          /\ Len(list'[l].batches) <= Len(list'[l].commands)
        OBVIOUS
      <3>1. list[l] \in ListSet
        BY DEF IInv
      <3>2. \/ list'[l] = list[l]
            \/ list'[l] = [list[l] EXCEPT !.batches = <<>>, !.ran = TRUE]
        BY <1>6
      <3>3. CASE list'[l] = list[l]
        BY <3>1, <3>3 DEF IInv
      <3>4. CASE list'[l] = [list[l] EXCEPT !.batches = <<>>, !.ran = TRUE]
        <4>1. /\ list'[l] \in ListSet
              /\ list'[l].batches = <<>> /\ list'[l].commands = list[l].commands
          <5>1. <<>> \in Seq(Batches)
            BY EmptySeq
          <5>2. QED
            BY <3>1, <3>4, <5>1 DEF ListSet
        <4>2. Len(<<>>) = 0 /\ MaxBatches \in Nat /\ Len(list[l].commands) \in Nat
          BY <3>1, BarriersAssumption, LenProperties DEF ListSet
        <4>3. QED
          BY <4>1, <4>2
      <3>5. QED
        BY <3>2, <3>3, <3>4
    <2>5. list' \in [Lists -> ListSet]
      <3>1. list' = [l \in Lists |-> list'[l]]
        BY <1>6
      <3>2. QED
        BY <2>4, <3>1
    <2>6. QED
      BY <1>4, <2>1, <2>2, <2>3, <2>4, <2>5 DEF IInv, Typed
  <1>7. QED
    BY <1>5, <1>6 DEF Submit
-----------------------------------------------------------------------------
(* The inductive invariant.                                                *)
THEOREM Invariant == Spec => []IInv
  <1>1. IInv /\ [Next]_vars => IInv'
    <2> SUFFICES ASSUME IInv, [Next]_vars PROVE IInv'
      OBVIOUS
    <2>1. CASE Next
      BY <2>1, BarrierStep, ExecuteStep, EndStep, ResetStep, SubmitStep DEF Next
    <2>2. CASE UNCHANGED vars
      BY <2>2 DEF IInv, vars, Typed
    <2>3. QED
      BY <2>1, <2>2
  <1>2. QED
    BY <1>1, InitIInv, PTL DEF Spec

(* No submission that the validation lets through runs a barrier of a      *)
(* texture in use from another layout than the texture's, as long as all   *)
(* barriers were validated and no submission failed late.                  *)
THEOREM TransitionsAlwaysSound == Spec => []TransitionsSound
  <1>1. IInv => TransitionsSound
    BY DEF IInv, TransitionsSound
  <1>2. QED
    BY <1>1, Invariant, PTL

(* What Submit takes for the states is what the barriers left, whatever    *)
(* order lists were recorded and submitted in and however many were        *)
(* rejected.                                                               *)
THEOREM StatesAlwaysExact == Spec => []StatesExact
  <1>1. IInv => StatesExact
    <2> SUFFICES ASSUME IInv PROVE StatesExact
      OBVIOUS
    <2>1. \A r \in Resources : {submitted[r], actual[r]} \subseteq Before(r)
      BY DEF IInv, Typed
    <2>2. \A l \in Lists : /\ list[l].phase \in {"recording", "ended"}
                           /\ {list[l].secondary, list[l].ran} \subseteq BOOLEAN
                           /\ Len(list[l].batches) <= MaxBatches
      BY DEF IInv, ListSet
    <2>3. QED
      BY <2>1, <2>2 DEF IInv, StatesExact, TypeOK
  <1>2. QED
    BY <1>1, Invariant, PTL
=============================================================================

-------------------------- MODULE Timelines_proofs --------------------------
(***************************************************************************)
(* Timelines of an adopted Vulkan device: both counters of every timeline  *)
(* are exact, no wait is on a destroyed semaphore, WaitIdle covers what    *)
(* was submitted and no notification is lost, whatever the number of       *)
(* threads, timelines, queues and calls.                                   *)
(***************************************************************************)
EXTENDS Timelines, FiniteSetTheorems, SequenceTheorems, TLAPS

(* What a thread may be doing: some calls are the waiter's, some the others'. *)
PointSets == UNION {[hs -> 1 .. MaxValue] : hs \in SUBSET Handles}

WaiterCalls ==
  [step : {"observed"}, observed : Nat]
  \cup [step : {"arming", "waiting", "disarming", "unpin"}, kind : {"completion"},
        observed : Nat, points : PointSets]

OtherCalls ==
  [step : {"waiting", "unpin"}, kind : {"host"}, points : PointSets, timed : BOOLEAN]
  \cup [step : {"waiting"}, kind : {"idle"}, points : PointSets, owed : SUBSET (Handles \X Nat)]
  \cup [step : {"waiting"}, kind : {"present"}, points : PointSets]
  \cup [step : {"destroying", "asleep"}, handle : Handles]

CallsOf(t) ==
  [step : {"idle", "notifying"}] \cup IF t = Waiter THEN WaiterCalls ELSE OtherCalls

Batches == [wait : Handles \X Nat, signal : Handles \X (1 .. MaxValue)]

Types ==
  /\ TypeOK
  /\ DOMAIN value \subseteq Handles
  /\ queue \in [Queues -> Seq(Batches)]
  /\ DOMAIN call = Threads
  /\ \A t \in Threads : call[t] \in CallsOf(t)

(* The signal of a batch is the next of its timeline, or comes after the   *)
(* next: behind it in the same queue, or by waiting for it.                *)
InTurn(q, i) ==
  LET b == queue[q][i]
      h == b.signal[1]
      v == b.signal[2]
  IN /\ h \in DOMAIN timeline /\ ~ Destroying(h)
     /\ value[h] < v
     /\ \/ value[h] = v - 1
        \/ b.wait = <<h, v - 1>>
        \/ \E k \in 1 .. i - 1 : queue[q][k].signal = <<h, v - 1>>

SignalsRise ==
  /\ \A q \in Queues : \A i \in DOMAIN queue[q] : InTurn(q, i)
  /\ \A q, p \in Queues : \A i \in DOMAIN queue[q], j \in DOMAIN queue[p] :
       queue[q][i].signal = queue[p][j].signal => q = p /\ i = j

IsDestroying(t) == call[t].step \in {"destroying", "asleep"}

(* A timeline is destroyed by one thread, and lives until then. *)
DestroyedOnce ==
  \A t \in Threads : IsDestroying(t) =>
    /\ call[t].handle \in DOMAIN timeline
    /\ \A u \in Threads \ {t} : IsDestroying(u) => call[u].handle # call[t].handle

IsWaiting(t, kind) == At(t, "waiting") /\ call[t].kind = kind

(* WaitIdle waits for all it owes, on live semaphores unless the caller    *)
(* destroys timelines meanwhile.                                           *)
IdleCovers ==
  \A t \in Threads : IsWaiting(t, "idle") =>
    /\ \A s \in call[t].owed :
         s[1] \in DOMAIN call[t].points /\ s[2] <= call[t].points[s[1]]
    /\ DOMAIN call[t].points \subseteq DOMAIN value
    /\ ~ DestroyDuringIdle =>
         /\ DOMAIN call[t].points \subseteq DOMAIN timeline
         /\ \A u \in Threads : ~ IsDestroying(u)

(* Present waits under the mutex, on a timeline that lives.                *)
PresentHolds ==
  \A t \in Threads : IsWaiting(t, "present") =>
    mutex = t /\ DOMAIN call[t].points \subseteq DOMAIN timeline

(* The control semaphore is not ahead of the version, and is told of every *)
(* notification made while the waiter waits.                               *)
VersionsMatch ==
  /\ completion.control <= completion.version
  /\ call[Waiter].step \in {"observed", "arming", "waiting"} =>
       call[Waiter].observed <= completion.version
  /\ At(Waiter, "waiting") =>
       /\ completion.waiting
       /\ \/ call[Waiter].observed = completion.version
          \/ completion.control = completion.version

IInv ==
  /\ Types /\ PinsExact /\ LastSubmittedIsPending /\ SignalsRise
  /\ DestroyedOnce /\ IdleCovers /\ PresentHolds /\ VersionsMatch
-----------------------------------------------------------------------------
(* What the constants are, for the provers.                                *)
LEMMA Assumed ==
  /\ Waiter \in Threads /\ NoThread \notin Threads /\ IsFiniteSet(Threads)
  /\ MaxValue \in Nat /\ MaxCalls \in Nat
  BY TimelinesAssumption

(* There are no timelines, batches or waits to begin with. *)
LEMMA InitIInv == Init => IInv
  <1>1. SUFFICES ASSUME Init PROVE IInv
    OBVIOUS
  <1>2. \A h : Pinning(h) = {}
    BY <1>1 DEF Init, Pinning, At, Idle
  <1>3. TypeOK
    BY <1>1, Assumed DEF Init, TypeOK, Idle
  <1>4. Types
    BY <1>1, <1>3 DEF Init, Types, Idle, CallsOf
  <1>5. PinsExact /\ LastSubmittedIsPending /\ SignalsRise
    BY <1>1, <1>2 DEF Init, PinsExact, LastSubmittedIsPending, SignalsRise
  <1>6. DestroyedOnce /\ IdleCovers /\ PresentHolds /\ VersionsMatch
    BY <1>1, Assumed DEF Init, Idle, DestroyedOnce, IsDestroying, IdleCovers,
       PresentHolds, IsWaiting, At, VersionsMatch
  <1>7. QED
    BY <1>4, <1>5, <1>6 DEF IInv

(* A step of thread t that leaves queues and values alone, takes no        *)
(* timeline away and begins no destruction keeps what holds of signals and *)
(* destructions, and what holds of the waits of other threads.             *)
LEMMA CallStep ==
  ASSUME IInv, NEW t \in Threads,
         \A u \in Threads : u # t => call'[u] = call[u],
         UNCHANGED <<value, queue>>, DOMAIN timeline' = DOMAIN timeline,
         \A h \in DOMAIN timeline : timeline'[h].lastSubmittedSignalValue
                                      = timeline[h].lastSubmittedSignalValue,
         mutex \notin {t, NoThread} => mutex' = mutex,
         ~ IsDestroying(t)'
  PROVE  /\ LastSubmittedIsPending' /\ SignalsRise' /\ DestroyedOnce'
         /\ ~ IsWaiting(t, "idle")' => IdleCovers'
         /\ ~ IsWaiting(t, "present")' => PresentHolds'
  <1>1. LastSubmittedIsPending'
    <2>1. Pending' = Pending
      BY DEF Pending, Signals
    <2>2. QED
      BY <2>1 DEF IInv, LastSubmittedIsPending
  <1>2. \A u \in Threads : IsDestroying(u)' => IsDestroying(u) /\ call'[u] = call[u]
    BY DEF IsDestroying
  <1>3. SignalsRise'
    <2>1. \A h : Destroying(h)' => Destroying(h)
      BY <1>2 DEF Destroying, IsDestroying
    <2>2. \A q \in Queues : \A i \in DOMAIN queue[q] : InTurn(q, i)'
      <3>1. TAKE q \in Queues
      <3> TAKE i \in DOMAIN queue[q]
      <3>2. InTurn(q, i)
        BY DEF IInv, SignalsRise
      <3>3. QED
        BY <2>1, <3>2 DEF InTurn
    <2>3. QED
      BY <2>2 DEF IInv, SignalsRise
  <1>4. DestroyedOnce'
    BY <1>2 DEF IInv, DestroyedOnce
  <1>5. \A kind : \A u \in Threads : u # t /\ IsWaiting(u, kind)' =>
          IsWaiting(u, kind) /\ call'[u] = call[u]
    BY DEF IsWaiting, At
  <1>6. ASSUME ~ IsWaiting(t, "idle")' PROVE IdleCovers'
    BY <1>2, <1>5, <1>6 DEF IInv, IdleCovers
  <1>7. ASSUME ~ IsWaiting(t, "present")' PROVE PresentHolds'
    BY <1>5, <1>7, Assumed DEF IInv, PresentHolds
  <1>8. QED
    BY <1>1, <1>3, <1>4, <1>6, <1>7

(* A call that goes on without touching a timeline leaves the pins alone.  *)
LEMMA SamePins ==
  ASSUME IInv, UNCHANGED timeline, \A h : Pinning(h)' = Pinning(h)
  PROVE  PinsExact'
  BY DEF IInv, PinsExact

(* There are never more pins than threads. *)
LEMMA PinningFinite ==
  ASSUME NEW h
  PROVE  /\ IsFiniteSet(Pinning(h))
         /\ Cardinality(Pinning(h)) \in 0 .. Cardinality(Threads)
  <1>1. Pinning(h) \in SUBSET Threads
    BY DEF Pinning
  <1>2. QED
    BY <1>1, Assumed, FS_Subset, FS_CardinalityType

(* What is known of a live timeline, and of one that is gone. *)
LEMMA TypesTimeline ==
  ASSUME IInv
  PROVE  /\ DOMAIN timeline \subseteq DOMAIN value /\ DOMAIN value \subseteq Handles
         /\ \A h \in DOMAIN timeline :
              /\ timeline[h] = [lastSubmittedSignalValue |-> timeline[h].lastSubmittedSignalValue,
                                activeHostWaits |-> timeline[h].activeHostWaits]
              /\ timeline[h].lastSubmittedSignalValue \in 0 .. MaxValue
              /\ timeline[h].activeHostWaits = Cardinality(Pinning(h))
         /\ \A h \in Handles : h \notin DOMAIN timeline => Pinning(h) = {}
  BY DEF IInv, Types, TypeOK, PinsExact

(* Thread t pins the timelines of hs. *)
LEMMA PinStep ==
  ASSUME IInv, NEW t \in Threads, NEW hs \in SUBSET DOMAIN timeline,
         timeline' = Pinned(hs),
         \A h : t \notin Pinning(h),
         \A h : Pinning(h)' = IF h \in hs THEN Pinning(h) \cup {t} ELSE Pinning(h)
  PROVE  /\ PinsExact'
         /\ DOMAIN timeline' = DOMAIN timeline
         /\ \A h \in DOMAIN timeline : timeline'[h].lastSubmittedSignalValue
                                         = timeline[h].lastSubmittedSignalValue
         /\ timeline' \in [DOMAIN timeline' ->
              [lastSubmittedSignalValue : 0 .. MaxValue,
               activeHostWaits : 0 .. Cardinality(Threads)]]
  <1>1. \A h \in DOMAIN timeline : timeline'[h] =
          [lastSubmittedSignalValue |-> timeline[h].lastSubmittedSignalValue,
           activeHostWaits |-> timeline[h].activeHostWaits + IF h \in hs THEN 1 ELSE 0]
    BY TypesTimeline, PinningFinite DEF Pinned
  <1>2. DOMAIN timeline' = DOMAIN timeline
    BY DEF Pinned
  <1>3. \A h : Cardinality(Pinning(h)') = Cardinality(Pinning(h)) + IF h \in hs THEN 1 ELSE 0
    <2>1. TAKE h
    <2>2. CASE h \in hs
      BY <2>2, PinningFinite, FS_AddElement
    <2>3. CASE h \notin hs
      BY <2>3, PinningFinite
    <2>4. QED
      BY <2>2, <2>3
  <1>4. \A h \in DOMAIN timeline : timeline'[h] =
          [lastSubmittedSignalValue |-> timeline[h].lastSubmittedSignalValue,
           activeHostWaits |-> Cardinality(Pinning(h)')]
    BY <1>1, <1>3, TypesTimeline
  <1>5. PinsExact'
    BY <1>2, <1>4, TypesTimeline DEF PinsExact
  <1>6. \A h : Cardinality(Pinning(h)') \in 0 .. Cardinality(Threads)
    <2>1. TAKE h
    <2>2. Pinning(h)' \in SUBSET Threads
      BY DEF Pinning
    <2>3. QED
      BY <2>2, Assumed, FS_Subset, FS_CardinalityType
  <1>7. timeline' = [h \in DOMAIN timeline |-> timeline'[h]]
    BY DEF Pinned
  <1>8. QED
    BY <1>2, <1>4, <1>5, <1>6, <1>7, TypesTimeline

(* Thread t gives up its pins. *)
LEMMA UnpinStep ==
  ASSUME IInv, NEW t \in Threads, NEW hs,
         timeline' = Unpinned(hs),
         \A h : t \in Pinning(h) <=> h \in hs,
         \A h : Pinning(h)' = Pinning(h) \ {t}
  PROVE  /\ PinsExact'
         /\ DOMAIN timeline' = DOMAIN timeline
         /\ \A h \in DOMAIN timeline : timeline'[h].lastSubmittedSignalValue
                                         = timeline[h].lastSubmittedSignalValue
         /\ timeline' \in [DOMAIN timeline' ->
              [lastSubmittedSignalValue : 0 .. MaxValue,
               activeHostWaits : 0 .. Cardinality(Threads)]]
  <1>1. \A h \in DOMAIN timeline : timeline'[h] =
          [lastSubmittedSignalValue |-> timeline[h].lastSubmittedSignalValue,
           activeHostWaits |-> timeline[h].activeHostWaits - IF h \in hs THEN 1 ELSE 0]
    BY TypesTimeline, PinningFinite DEF Unpinned
  <1>2. DOMAIN timeline' = DOMAIN timeline
    BY DEF Unpinned
  <1>3. \A h : Cardinality(Pinning(h)') = Cardinality(Pinning(h)) - IF h \in hs THEN 1 ELSE 0
    <2>1. TAKE h
    <2>2. CASE h \in hs
      BY <2>2, PinningFinite, FS_RemoveElement
    <2>3. CASE h \notin hs
      BY <2>3, PinningFinite, FS_RemoveElement
    <2>4. QED
      BY <2>2, <2>3
  <1>4. \A h \in DOMAIN timeline : timeline'[h] =
          [lastSubmittedSignalValue |-> timeline[h].lastSubmittedSignalValue,
           activeHostWaits |-> Cardinality(Pinning(h)')]
    BY <1>1, <1>3, TypesTimeline
  <1>5. PinsExact'
    BY <1>2, <1>4, TypesTimeline DEF PinsExact
  <1>6. \A h : Cardinality(Pinning(h)') \in 0 .. Cardinality(Threads)
    <2>1. TAKE h
    <2>2. Pinning(h)' \in SUBSET Threads
      BY DEF Pinning
    <2>3. QED
      BY <2>2, Assumed, FS_Subset, FS_CardinalityType
  <1>7. timeline' = [h \in DOMAIN timeline |-> timeline'[h]]
    BY DEF Unpinned
  <1>8. QED
    BY <1>2, <1>4, <1>5, <1>6, <1>7, TypesTimeline

(* A step of thread t that leaves the device's own values in their range. *)
LEMMA TypesStep ==
  ASSUME IInv, NEW t \in Threads,
         \A u \in Threads : u # t => call'[u] = call[u],
         DOMAIN call' = Threads, call'[t] \in CallsOf(t),
         UNCHANGED <<value, queue>>, DOMAIN timeline' \subseteq DOMAIN timeline,
         timeline' \in [DOMAIN timeline' ->
           [lastSubmittedSignalValue : 0 .. MaxValue,
            activeHostWaits : 0 .. Cardinality(Threads)]],
         mutex' \in Threads \cup {NoThread}, calls' \in 0 .. MaxCalls,
         completion' \in [version : Nat, waiting : BOOLEAN, control : Nat]
  PROVE  Types'
  <1>1. \A u \in Threads : call'[u] \in CallsOf(u)
    BY DEF IInv, Types
  <1>2. \A u \in Threads : call'[u].step \in {"idle", "waiting", "unpin", "notifying",
          "destroying", "asleep", "observed", "arming", "disarming"}
    BY <1>1 DEF CallsOf, WaiterCalls, OtherCalls
  <1>3. QED
    BY <1>1, <1>2 DEF IInv, Types, TypeOK

(* The step of a thread that is not the waiter. *)
LEMMA VersionsStep ==
  ASSUME IInv, NEW t \in Threads, t # Waiter,
         \A u \in Threads : u # t => call'[u] = call[u],
         UNCHANGED completion
  PROVE  VersionsMatch'
  BY Assumed DEF IInv, VersionsMatch, At

(* A call begins in an idle thread and is counted. *)
LEMMA Begun ==
  ASSUME IInv, NEW t \in Threads, Begins(t)
  PROVE  At(t, "idle") /\ calls' \in 0 .. MaxCalls
  BY Assumed DEF Begins, IInv, Types, TypeOK

(* The points of a wait that has one value for all its timelines. *)
LEMMA PointsFacts ==
  ASSUME NEW hs \in SUBSET Handles, NEW v \in 1 .. MaxValue
  PROVE  DOMAIN Points(hs, v) = hs /\ Points(hs, v) \in PointSets
  <1>1. Points(hs, v) \in [hs -> 1 .. MaxValue]
    BY DEF Points
  <1>2. QED
    BY <1>1 DEF Points, PointSets

(* A step of thread t that touches neither timelines nor their pins and    *)
(* begins no destruction.                                                  *)
LEMMA QuietStep ==
  ASSUME IInv, NEW t \in Threads,
         \A u \in Threads : u # t => call'[u] = call[u],
         DOMAIN call' = Threads, call'[t] \in CallsOf(t),
         UNCHANGED <<timeline, value, queue>>,
         mutex \notin {t, NoThread} => mutex' = mutex,
         mutex' \in Threads \cup {NoThread}, calls' \in 0 .. MaxCalls,
         completion' \in [version : Nat, waiting : BOOLEAN, control : Nat],
         ~ IsDestroying(t)',
         \A h : t \in Pinning(h)' <=> t \in Pinning(h)
  PROVE  /\ Types' /\ PinsExact' /\ LastSubmittedIsPending' /\ SignalsRise'
         /\ DestroyedOnce'
         /\ ~ IsWaiting(t, "idle")' => IdleCovers'
         /\ ~ IsWaiting(t, "present")' => PresentHolds'
  <1>1. timeline' \in [DOMAIN timeline' ->
          [lastSubmittedSignalValue : 0 .. MaxValue,
           activeHostWaits : 0 .. Cardinality(Threads)]]
    BY DEF IInv, Types, TypeOK
  <1>2. Types'
    BY <1>1, TypesStep
  <1>3. \A h : Pinning(h)' = Pinning(h)
    <2>1. TAKE h
    <2>2. \A u \in Threads : u \in Pinning(h)' <=> u \in Pinning(h)
      BY DEF Pinning, At
    <2>3. QED
      BY <2>2 DEF Pinning
  <1>4. PinsExact'
    BY <1>3, SamePins
  <1>5. QED
    BY <1>2, <1>4, CallStep

(* A queue is a sequence of batches. *)
LEMMA BatchFacts ==
  ASSUME IInv, NEW q \in Queues
  PROVE  /\ queue[q] \in Seq(Batches)
         /\ Len(queue[q]) \in Nat /\ DOMAIN queue[q] = 1 .. Len(queue[q])
         /\ \A i \in DOMAIN queue[q] : queue[q][i] \in Batches
  <1>1. queue[q] \in Seq(Batches)
    BY DEF IInv, Types
  <1>2. QED
    BY <1>1, ElementOfSeq, LenProperties

(* Where a thread is, and what it then holds. *)
LEMMA Shape ==
  ASSUME IInv, NEW t \in Threads
  PROVE  /\ call[t] \in CallsOf(t) /\ DOMAIN call = Threads
         /\ mutex \in Threads \cup {NoThread} /\ calls \in 0 .. MaxCalls
         /\ completion \in [version : Nat, waiting : BOOLEAN, control : Nat]
         /\ \A r : \A u \in Threads : u # t => [call EXCEPT ![t] = r][u] = call[u]
         /\ \A r : [call EXCEPT ![t] = r][t] = r /\ DOMAIN [call EXCEPT ![t] = r] = Threads
  BY DEF IInv, Types, TypeOK

-----------------------------------------------------------------------------
(* HostWait pins its timeline before it waits. *)
LEMMA HostWaitIInv ==
  ASSUME IInv, NEW t \in Threads, HostWait(t)
  PROVE  IInv'
  <1>1. PICK h \in DOMAIN timeline, v \in 1 .. MaxValue, timed \in BOOLEAN :
          /\ timeline' = Pinned({h})
          /\ call' = [call EXCEPT ![t] = [step |-> "waiting", kind |-> "host",
                                          points |-> Points({h}, v), timed |-> timed]]
    BY DEF HostWait
  <1>2. /\ At(t, "idle") /\ calls' \in 0 .. MaxCalls /\ t # Waiter
        /\ UNCHANGED <<value, queue, mutex, completion>>
    BY Begun DEF HostWait
  <1> DEFINE r == [step |-> "waiting", kind |-> "host", points |-> Points({h}, v), timed |-> timed]
  <1>3. /\ call'[t] = r /\ DOMAIN call' = Threads
        /\ \A u \in Threads : u # t => call'[u] = call[u]
    BY <1>1 DEF IInv, Types
  <1>4. DOMAIN r.points = {h} /\ r.points \in PointSets
    BY TypesTimeline, PointsFacts
  <1>5. r \in CallsOf(t)
    BY <1>2, <1>4 DEF CallsOf, OtherCalls
  <1>6. /\ r.step = "waiting" /\ r.kind = "host"
    OBVIOUS
  <1> HIDE DEF r
  <1>7. \A k : /\ t \notin Pinning(k)
               /\ Pinning(k)' = IF k \in {h} THEN Pinning(k) \cup {t} ELSE Pinning(k)
    BY <1>2, <1>3, <1>4, <1>6 DEF Pinning, At
  <1>8. /\ PinsExact'
        /\ DOMAIN timeline' = DOMAIN timeline
        /\ \A k \in DOMAIN timeline : timeline'[k].lastSubmittedSignalValue
                                        = timeline[k].lastSubmittedSignalValue
        /\ timeline' \in [DOMAIN timeline' ->
              [lastSubmittedSignalValue : 0 .. MaxValue,
               activeHostWaits : 0 .. Cardinality(Threads)]]
    BY <1>1, <1>7, PinStep
  <1>9. Types'
    BY <1>2, <1>3, <1>5, <1>8, TypesStep DEF IInv, Types, TypeOK
  <1>10. ~ IsDestroying(t)' /\ ~ IsWaiting(t, "idle")' /\ ~ IsWaiting(t, "present")'
    BY <1>3, <1>6 DEF IsDestroying, IsWaiting
  <1>11. QED
    BY <1>2, <1>3, <1>8, <1>9, <1>10, CallStep, VersionsStep DEF IInv

(* Answered or timed out, HostWait still holds its pin. *)
LEMMA HostWaitEndsIInv ==
  ASSUME IInv, NEW t \in Threads, HostWaitEnds(t)
  PROVE  IInv'
  <1> DEFINE r == [call[t] EXCEPT !.step = "unpin"]
  <1>1. /\ call[t] \in [step : {"waiting", "unpin"}, kind : {"host"},
                       points : PointSets, timed : BOOLEAN]
        /\ t # Waiter /\ At(t, "waiting")
    BY Shape DEF HostWaitEnds, At, CallsOf, WaiterCalls, OtherCalls
  <1>2. call' = [call EXCEPT ![t] = r]
        /\ UNCHANGED <<timeline, value, queue, mutex, calls, completion>>
    BY DEF HostWaitEnds, Goes
  <1>3. /\ r \in [step : {"unpin"}, kind : {"host"}, points : PointSets, timed : BOOLEAN]
        /\ r.points = call[t].points
    BY <1>1
  <1> HIDE DEF r
  <1>4. r \in CallsOf(t) /\ r.step = "unpin"
    BY <1>1, <1>3 DEF CallsOf, OtherCalls
  <1>5. call'[t] = r /\ DOMAIN call' = Threads /\ \A u \in Threads : u # t => call'[u] = call[u]
    BY <1>2, Shape
  <1>6. \A h : t \in Pinning(h)' <=> t \in Pinning(h)
    BY <1>1, <1>3, <1>4, <1>5 DEF Pinning, At
  <1>7. ~ IsDestroying(t)' /\ ~ At(t, "waiting")'
    BY <1>4, <1>5 DEF IsDestroying, At
  <1>8. VersionsMatch'
    BY <1>1, <1>2, <1>5, VersionsStep
  <1>9. QED
    BY <1>2, <1>4, <1>5, <1>6, <1>7, <1>8, Shape, QuietStep DEF IInv, IsWaiting

(* Every wait gives up exactly the pins it took. *)
LEMMA UnpinIInv ==
  ASSUME IInv, NEW t \in Threads, Unpin(t)
  PROVE  IInv'
  <1> DEFINE hs == DOMAIN call[t].points
             r == [step |-> "notifying"]
  <1>1. /\ timeline' = Unpinned(hs) /\ call' = [call EXCEPT ![t] = r]
        /\ UNCHANGED <<value, queue, mutex, calls, completion>>
        /\ At(t, "unpin")
    BY DEF Unpin
  <1>2. r \in CallsOf(t) /\ r.step = "notifying"
    BY DEF CallsOf
  <1> HIDE DEF r
  <1>3. call'[t] = r /\ DOMAIN call' = Threads /\ \A u \in Threads : u # t => call'[u] = call[u]
    BY <1>1, Shape
  <1>4. \A h : t \in Pinning(h) <=> h \in hs
    BY <1>1 DEF Pinning, At
  <1> HIDE DEF hs
  <1>5. \A h : Pinning(h)' = Pinning(h) \ {t}
    <2>1. TAKE h
    <2>2. t \notin Pinning(h)'
      BY <1>2, <1>3 DEF Pinning, At
    <2>3. \A u \in Threads : u # t => (u \in Pinning(h)' <=> u \in Pinning(h))
      BY <1>3 DEF Pinning, At
    <2>4. QED
      BY <2>2, <2>3 DEF Pinning
  <1>6. /\ PinsExact'
        /\ DOMAIN timeline' = DOMAIN timeline
        /\ \A h \in DOMAIN timeline : timeline'[h].lastSubmittedSignalValue
                                        = timeline[h].lastSubmittedSignalValue
        /\ timeline' \in [DOMAIN timeline' ->
              [lastSubmittedSignalValue : 0 .. MaxValue,
               activeHostWaits : 0 .. Cardinality(Threads)]]
    BY <1>1, <1>4, <1>5, UnpinStep
  <1>7. Types'
    BY <1>1, <1>2, <1>3, <1>6, TypesStep, Shape
  <1>8. ~ IsDestroying(t)' /\ ~ At(t, "waiting")' /\ ~ At(t, "observed")' /\ ~ At(t, "arming")'
    BY <1>2, <1>3 DEF IsDestroying, At
  <1>9. VersionsMatch'
    BY <1>1, <1>3, <1>8, VersionsStep DEF IInv, VersionsMatch, At
  <1>10. QED
    BY <1>1, <1>3, <1>6, <1>7, <1>8, <1>9, CallStep DEF IInv, IsWaiting

(* Who sleeps in DestroyTimeline looks at the count again. *)
LEMMA NotifyAllIInv ==
  ASSUME IInv, NEW t \in Threads, NotifyAll(t)
  PROVE  IInv'
  <1>1. /\ At(t, "notifying")
        /\ call' = [u \in Threads |->
                      IF u = t THEN Idle
                      ELSE IF At(u, "asleep") THEN [call[u] EXCEPT !.step = "destroying"]
                      ELSE call[u]]
        /\ UNCHANGED <<timeline, value, queue, mutex, calls, completion>>
    BY DEF NotifyAll
  <1>2. call'[t] = Idle /\ DOMAIN call' = Threads
    BY <1>1
  <1>3. \A u \in Threads : u # t /\ ~ At(u, "asleep") => call'[u] = call[u]
    BY <1>1
  <1>4. \A u \in Threads : At(u, "asleep") =>
          /\ u # t /\ u # Waiter
          /\ call[u].handle \in Handles
          /\ call'[u] = [step |-> "destroying", handle |-> call[u].handle]
    <2>1. SUFFICES ASSUME NEW u \in Threads, At(u, "asleep")
                   PROVE  /\ u # t /\ u # Waiter
                          /\ call[u].handle \in Handles
                          /\ call'[u] = [step |-> "destroying", handle |-> call[u].handle]
      OBVIOUS
    <2>2. call[u] \in [step : {"destroying", "asleep"}, handle : Handles] /\ u # Waiter /\ u # t
      BY <1>1, <2>1, Shape DEF At, CallsOf, WaiterCalls, OtherCalls
    <2>3. call'[u] = [call[u] EXCEPT !.step = "destroying"]
      BY <1>1, <2>1, <2>2
    <2>4. QED
      BY <2>2, <2>3
  <1>5. \A u \in Threads : call'[u] \in CallsOf(u)
    <2>1. TAKE u \in Threads
    <2>2. CASE u = t
      BY <1>2, <2>2 DEF Idle, CallsOf
    <2>3. CASE At(u, "asleep")
      <3>1. /\ u # Waiter /\ call[u].handle \in Handles
            /\ call'[u] = [step |-> "destroying", handle |-> call[u].handle]
        BY <1>4, <2>3
      <3>2. call'[u] \in [step : {"destroying", "asleep"}, handle : Handles]
        BY <3>1
      <3>3. QED
        BY <3>1, <3>2 DEF CallsOf, OtherCalls
    <2>4. QED
      BY <1>3, <2>2, <2>3, Shape
  <1>6. \A u \in Threads : call'[u].step \in {"idle", "waiting", "unpin", "notifying",
          "destroying", "asleep", "observed", "arming", "disarming"}
    BY <1>5 DEF CallsOf, WaiterCalls, OtherCalls
  <1>7. Types'
    BY <1>1, <1>2, <1>5, <1>6 DEF IInv, Types, TypeOK
  <1>8. \A u \in Threads : \A step \in {"observed", "waiting", "arming", "disarming", "unpin"} :
          /\ At(u, step)' <=> At(u, step)
          /\ At(u, step) => call'[u] = call[u]
    BY <1>1, <1>2, <1>3, <1>4 DEF At, Idle
  <1>9. \A u \in Threads : /\ IsDestroying(u)' <=> IsDestroying(u)
                           /\ IsDestroying(u) => call'[u].handle = call[u].handle
    BY <1>1, <1>2, <1>3, <1>4 DEF IsDestroying, At, Idle
  <1>10. \A h : Pinning(h)' = Pinning(h)
    <2>1. TAKE h
    <2>2. \A u \in Threads : u \in Pinning(h)' <=> u \in Pinning(h)
      BY <1>8 DEF Pinning, At
    <2>3. QED
      BY <2>2 DEF Pinning
  <1>11. PinsExact'
    BY <1>1, <1>10, SamePins
  <1>12. LastSubmittedIsPending'
    <2>1. Pending' = Pending
      BY <1>1 DEF Pending, Signals
    <2>2. QED
      BY <1>1, <2>1 DEF IInv, LastSubmittedIsPending
  <1>13. SignalsRise'
    <2>1. \A h : Destroying(h)' => Destroying(h)
      BY <1>9 DEF Destroying, IsDestroying
    <2>2. \A q \in Queues : \A i \in DOMAIN queue[q] : InTurn(q, i)'
      <3>1. TAKE q \in Queues
      <3> TAKE i \in DOMAIN queue[q]
      <3>2. InTurn(q, i)
        BY DEF IInv, SignalsRise
      <3>3. QED
        BY <1>1, <2>1, <3>2 DEF InTurn
    <2>3. QED
      BY <1>1, <2>2 DEF IInv, SignalsRise
  <1>14. DestroyedOnce'
    BY <1>1, <1>9 DEF IInv, DestroyedOnce
  <1>15. IdleCovers' /\ PresentHolds'
    BY <1>1, <1>8, <1>9 DEF IInv, IdleCovers, PresentHolds, IsWaiting
  <1>16. VersionsMatch'
    BY <1>1, <1>8, Assumed DEF IInv, VersionsMatch, At
  <1>17. QED
    BY <1>7, <1>11, <1>12, <1>13, <1>14, <1>15, <1>16 DEF IInv

(* The thread that begins to destroy h: nobody else does, and no batch     *)
(* names h.                                                                *)
LEMMA DestroyIInv ==
  ASSUME IInv, NEW t \in Threads, Destroy(t)
  PROVE  IInv'
  <1>1. PICK h \in DOMAIN timeline :
          /\ ~ Destroying(h)
          /\ \A s \in Pending : s[1] # h
          /\ DestroyDuringIdle \/ \A u \in Threads : ~ IsWaiting(u, "idle")
          /\ call' = [call EXCEPT ![t] = [step |-> "destroying", handle |-> h]]
    BY DEF Destroy, IsWaiting
  <1>2. /\ At(t, "idle") /\ calls' \in 0 .. MaxCalls /\ t # Waiter
        /\ UNCHANGED <<timeline, value, queue, mutex, completion>>
    BY Begun DEF Destroy
  <1> DEFINE r == [step |-> "destroying", handle |-> h]
  <1>3. r \in CallsOf(t) /\ r.step = "destroying" /\ r.handle = h
    BY <1>2, TypesTimeline DEF CallsOf, OtherCalls
  <1>4. call'[t] = r /\ DOMAIN call' = Threads /\ \A u \in Threads : u # t => call'[u] = call[u]
    BY <1>1, Shape
  <1> HIDE DEF r
  <1>5. timeline' \in [DOMAIN timeline' ->
          [lastSubmittedSignalValue : 0 .. MaxValue,
           activeHostWaits : 0 .. Cardinality(Threads)]]
    BY <1>2 DEF IInv, Types, TypeOK
  <1>6. Types'
    BY <1>2, <1>3, <1>4, <1>5, TypesStep, Shape
  <1>7. \A k : Pinning(k)' = Pinning(k)
    <2>1. TAKE k
    <2>2. \A u \in Threads : u \in Pinning(k)' <=> u \in Pinning(k)
      BY <1>2, <1>3, <1>4 DEF Pinning, At
    <2>3. QED
      BY <2>2 DEF Pinning
  <1>8. PinsExact'
    BY <1>2, <1>7, SamePins
  <1>9. LastSubmittedIsPending'
    <2>1. Pending' = Pending
      BY <1>2 DEF Pending, Signals
    <2>2. QED
      BY <1>2, <2>1 DEF IInv, LastSubmittedIsPending
  <1>10. \A k : Destroying(k)' => Destroying(k) \/ k = h
    BY <1>3, <1>4 DEF Destroying
  <1>11. SignalsRise'
    <2>1. \A q \in Queues : \A i \in DOMAIN queue[q] : InTurn(q, i)'
      <3>1. TAKE q \in Queues
      <3> TAKE i \in DOMAIN queue[q]
      <3>2. InTurn(q, i)
        BY DEF IInv, SignalsRise
      <3>3. queue[q][i].signal[1] # h
        BY <1>1 DEF Pending, Signals
      <3>4. QED
        BY <1>2, <1>10, <3>2, <3>3 DEF InTurn
    <2>2. QED
      BY <1>2, <2>1 DEF IInv, SignalsRise
  <1>12. DestroyedOnce'
    <2>1. \A u \in Threads : u # t => (IsDestroying(u)' <=> IsDestroying(u))
      BY <1>4 DEF IsDestroying
    <2>2. \A u \in Threads : u # t /\ IsDestroying(u) => call[u].handle # h
      BY <1>1 DEF Destroying, IsDestroying
    <2>3. QED
      BY <1>2, <1>3, <1>4, <2>1, <2>2 DEF IInv, DestroyedOnce
  <1>13. \A u \in Threads : \A kind : IsWaiting(u, kind)' =>
           IsWaiting(u, kind) /\ call'[u] = call[u]
    BY <1>3, <1>4 DEF IsWaiting, At
  <1>14. IdleCovers' /\ PresentHolds'
    BY <1>1, <1>2, <1>13 DEF IInv, IdleCovers, PresentHolds
  <1>15. QED
    BY <1>2, <1>4, <1>6, <1>8, <1>9, <1>11, <1>12, <1>14, VersionsStep DEF IInv

(* A timeline goes when no wait is left on it. *)
LEMMA DestroyChecksIInv ==
  ASSUME IInv, NEW t \in Threads, DestroyChecks(t)
  PROVE  IInv'
  <1> DEFINE h == call[t].handle
  <1>1. /\ At(t, "destroying") /\ Free
        /\ UNCHANGED <<value, queue, mutex, calls, completion>>
    BY DEF DestroyChecks
  <1>2. call[t] \in [step : {"destroying", "asleep"}, handle : Handles] /\ t # Waiter
    BY <1>1, Shape DEF At, CallsOf, WaiterCalls, OtherCalls
  <1>3. IsDestroying(t) /\ h \in DOMAIN timeline
    BY <1>1 DEF IsDestroying, At, IInv, DestroyedOnce
  <1>4. CASE timeline[h].activeHostWaits = 0
    <2>1. /\ timeline' = [k \in DOMAIN timeline \ {h} |-> timeline[k]]
          /\ call' = [call EXCEPT ![t] = Idle]
      BY <1>4 DEF DestroyChecks, Returns
    <2>2. /\ call'[t] = Idle /\ DOMAIN call' = Threads
          /\ \A u \in Threads : u # t => call'[u] = call[u]
      BY <2>1, Shape
    <2>3. Idle \in CallsOf(t) /\ Idle.step = "idle"
      BY DEF Idle, CallsOf
    <2> HIDE DEF h
    <2>4. timeline' \in [DOMAIN timeline' ->
            [lastSubmittedSignalValue : 0 .. MaxValue,
             activeHostWaits : 0 .. Cardinality(Threads)]]
          /\ DOMAIN timeline' = DOMAIN timeline \ {h}
          /\ \A k \in DOMAIN timeline' : timeline'[k] = timeline[k]
      <3>1. timeline \in [DOMAIN timeline ->
              [lastSubmittedSignalValue : 0 .. MaxValue,
               activeHostWaits : 0 .. Cardinality(Threads)]]
        BY DEF IInv, Types, TypeOK
      <3>2. QED
        BY <2>1, <3>1
    <2>5. Types'
      BY <1>1, <2>2, <2>3, <2>4, TypesStep, Shape
    <2>6. \A k : Pinning(k)' = Pinning(k)
      <3>1. TAKE k
      <3>2. \A u \in Threads : u \in Pinning(k)' <=> u \in Pinning(k)
        BY <1>1, <2>2, <2>3 DEF Pinning, At
      <3>3. QED
        BY <3>2 DEF Pinning
    <2>7. Pinning(h) = {}
      BY <1>3, <1>4, TypesTimeline, PinningFinite, FS_EmptySet DEF h
    <2>8. PinsExact'
      BY <2>4, <2>6, <2>7 DEF IInv, PinsExact
    <2>9. LastSubmittedIsPending'
      <3>1. Pending' = Pending
        BY <1>1 DEF Pending, Signals
      <3>2. QED
        BY <1>1, <2>4, <3>1 DEF IInv, LastSubmittedIsPending
    <2>10. \A u \in Threads : IsDestroying(u)' =>
             IsDestroying(u) /\ u # t /\ call'[u] = call[u]
      BY <2>2, <2>3 DEF IsDestroying
    <2>11. SignalsRise'
      <3>1. \A k : Destroying(k)' => Destroying(k)
        BY <2>10 DEF Destroying, IsDestroying
      <3>2. \A q \in Queues : \A i \in DOMAIN queue[q] : InTurn(q, i)'
        <4>1. TAKE q \in Queues
        <4> TAKE i \in DOMAIN queue[q]
        <4>2. InTurn(q, i)
          BY DEF IInv, SignalsRise
        <4>3. queue[q][i].signal[1] # h
          BY <1>3, <4>2 DEF InTurn, Destroying, IsDestroying, h
        <4>4. QED
          BY <1>1, <2>4, <3>1, <4>2, <4>3 DEF InTurn
      <3>3. QED
        BY <1>1, <3>2 DEF IInv, SignalsRise
    <2>12. DestroyedOnce'
      BY <1>3, <2>4, <2>10 DEF IInv, DestroyedOnce, h
    <2>13. \A u \in Threads : \A kind : IsWaiting(u, kind)' =>
             IsWaiting(u, kind) /\ call'[u] = call[u]
      BY <2>2, <2>3 DEF IsWaiting, At
    <2>14. IdleCovers'
      <3>1. \A u \in Threads : IsWaiting(u, "idle") => DestroyDuringIdle
        BY <1>3, TimelinesAssumption DEF IInv, IdleCovers
      <3>2. QED
        BY <1>1, <2>13, <3>1, TimelinesAssumption DEF IInv, IdleCovers
    <2>15. PresentHolds'
      <3>1. \A u \in Threads : ~ IsWaiting(u, "present")
        BY <1>1, Assumed DEF IInv, PresentHolds, Free
      <3>2. QED
        BY <2>13, <3>1 DEF PresentHolds
    <2>16. QED
      BY <1>1, <1>2, <2>2, <2>5, <2>8, <2>9, <2>11, <2>12, <2>14, <2>15, VersionsStep DEF IInv
  <1>5. CASE timeline[h].activeHostWaits # 0
    <2> DEFINE r == [call[t] EXCEPT !.step = "asleep"]
    <2>1. call' = [call EXCEPT ![t] = r] /\ UNCHANGED timeline
      BY <1>5 DEF DestroyChecks, Goes
    <2>2. r \in [step : {"asleep"}, handle : Handles] /\ r.handle = h
      BY <1>2
    <2> HIDE DEF r
    <2>3. r \in CallsOf(t) /\ r.step = "asleep"
      BY <1>2, <2>2 DEF CallsOf, OtherCalls
    <2>4. /\ call'[t] = r /\ DOMAIN call' = Threads
          /\ \A u \in Threads : u # t => call'[u] = call[u]
      BY <2>1, Shape
    <2>5. timeline' \in [DOMAIN timeline' ->
            [lastSubmittedSignalValue : 0 .. MaxValue,
             activeHostWaits : 0 .. Cardinality(Threads)]]
      BY <2>1 DEF IInv, Types, TypeOK
    <2>6. Types'
      BY <1>1, <2>1, <2>3, <2>4, <2>5, TypesStep, Shape
    <2>7. \A k : Pinning(k)' = Pinning(k)
      <3>1. TAKE k
      <3>2. \A u \in Threads : u \in Pinning(k)' <=> u \in Pinning(k)
        BY <1>1, <2>3, <2>4 DEF Pinning, At
      <3>3. QED
        BY <3>2 DEF Pinning
    <2>8. PinsExact'
      BY <2>1, <2>7, SamePins
    <2>9. LastSubmittedIsPending'
      <3>1. Pending' = Pending
        BY <1>1 DEF Pending, Signals
      <3>2. QED
        BY <1>1, <2>1, <3>1 DEF IInv, LastSubmittedIsPending
    <2>10. \A u \in Threads : /\ IsDestroying(u)' <=> IsDestroying(u)
                              /\ IsDestroying(u) => call'[u].handle = call[u].handle
      BY <1>3, <2>2, <2>3, <2>4 DEF IsDestroying, h
    <2>11. SignalsRise'
      <3>1. \A k : Destroying(k)' => Destroying(k)
        BY <2>10 DEF Destroying, IsDestroying
      <3>2. \A q \in Queues : \A i \in DOMAIN queue[q] : InTurn(q, i)'
        <4>1. TAKE q \in Queues
        <4> TAKE i \in DOMAIN queue[q]
        <4>2. InTurn(q, i)
          BY DEF IInv, SignalsRise
        <4>3. QED
          BY <1>1, <2>1, <3>1, <4>2 DEF InTurn
      <3>3. QED
        BY <1>1, <3>2 DEF IInv, SignalsRise
    <2>12. DestroyedOnce'
      BY <2>1, <2>10 DEF IInv, DestroyedOnce
    <2>13. \A u \in Threads : \A kind : IsWaiting(u, kind)' =>
             IsWaiting(u, kind) /\ call'[u] = call[u]
      BY <2>3, <2>4 DEF IsWaiting, At
    <2>14. IdleCovers' /\ PresentHolds'
      BY <1>1, <2>1, <2>10, <2>13 DEF IInv, IdleCovers, PresentHolds
    <2>15. QED
      BY <1>1, <1>2, <2>4, <2>6, <2>8, <2>9, <2>11, <2>12, <2>14, VersionsStep DEF IInv
  <1>6. QED
    BY <1>4, <1>5

(* WaitIdle waits for the last submitted value of every timeline. *)
LEMMA WaitIdleIInv ==
  ASSUME IInv, NEW t \in Threads, WaitIdle(t)
  PROVE  IInv'
  <1> DEFINE r == [step |-> "waiting", kind |-> "idle",
                   points |-> SubmittedPoints, owed |-> Pending]
  <1>1. /\ DestroyDuringIdle \/ \A h \in DOMAIN timeline : ~ Destroying(h)
        /\ call' = [call EXCEPT ![t] = r]
    BY DEF WaitIdle
  <1>2. /\ At(t, "idle") /\ calls' \in 0 .. MaxCalls /\ t # Waiter
        /\ UNCHANGED <<timeline, value, queue, mutex, completion>>
    BY Begun DEF WaitIdle
  <1>3. /\ SubmittedPoints \in PointSets
        /\ DOMAIN SubmittedPoints \subseteq DOMAIN timeline
    <2> DEFINE hs == DOMAIN SubmittedPoints
    <2>1. hs \subseteq DOMAIN timeline /\ hs \in SUBSET Handles
      BY TypesTimeline DEF SubmittedPoints
    <2>2. SubmittedPoints \in [hs -> 1 .. MaxValue]
      BY TypesTimeline, Assumed DEF SubmittedPoints
    <2>3. QED
      BY <2>1, <2>2 DEF PointSets
  <1>4. \A s \in Pending : /\ s \in Handles \X (1 .. MaxValue)
                           /\ s[1] \in DOMAIN SubmittedPoints
                           /\ s[2] <= SubmittedPoints[s[1]]
    <2>1. SUFFICES ASSUME NEW q \in Queues, NEW i \in DOMAIN queue[q]
                   PROVE  LET s == queue[q][i].signal
                          IN /\ s \in Handles \X (1 .. MaxValue)
                             /\ s[1] \in DOMAIN SubmittedPoints
                             /\ s[2] <= SubmittedPoints[s[1]]
      BY DEF Pending, Signals
    <2> DEFINE s == queue[q][i].signal
    <2>2. s \in Handles \X (1 .. MaxValue)
      BY BatchFacts DEF Batches
    <2>3. s[1] \in DOMAIN timeline
      BY DEF IInv, SignalsRise, InTurn
    <2>4. s \in Pending
      BY DEF Pending, Signals
    <2> HIDE DEF s
    <2>5. s[2] <= timeline[s[1]].lastSubmittedSignalValue
      BY <2>3, <2>4 DEF IInv, LastSubmittedIsPending
    <2>6. timeline[s[1]].lastSubmittedSignalValue # 0
      BY <2>2, <2>3, <2>5, TypesTimeline, Assumed
    <2>7. s[1] \in DOMAIN SubmittedPoints /\ s[2] <= SubmittedPoints[s[1]]
      BY <2>3, <2>5, <2>6 DEF SubmittedPoints
    <2>8. QED
      BY <2>2, <2>7 DEF s
  <1>5. r \in CallsOf(t)
    <2>1. Pending \in SUBSET (Handles \X Nat)
      BY <1>4, Assumed
    <2>2. r \in OtherCalls
      BY <1>3, <2>1 DEF OtherCalls
    <2>3. QED
      BY <1>2, <2>2 DEF CallsOf
  <1>6. /\ r.step = "waiting" /\ r.kind = "idle"
        /\ r.points = SubmittedPoints /\ r.owed = Pending
    OBVIOUS
  <1> HIDE DEF r
  <1>7. call'[t] = r /\ DOMAIN call' = Threads /\ \A u \in Threads : u # t => call'[u] = call[u]
    BY <1>1, Shape
  <1>8. ~ IsDestroying(t)' /\ ~ IsWaiting(t, "present")' /\ \A h : t \in Pinning(h)' <=> t \in Pinning(h)
    BY <1>2, <1>6, <1>7 DEF IsDestroying, IsWaiting, At, Pinning
  <1>9. /\ Types' /\ PinsExact' /\ LastSubmittedIsPending' /\ SignalsRise'
        /\ DestroyedOnce' /\ PresentHolds'
    BY <1>2, <1>5, <1>7, <1>8, Shape, QuietStep
  <1>10. IdleCovers'
    <2>1. SUFFICES ASSUME NEW u \in Threads, IsWaiting(u, "idle")'
                   PROVE  /\ \A s \in call'[u].owed :
                               s[1] \in DOMAIN call'[u].points /\ s[2] <= call'[u].points[s[1]]
                          /\ DOMAIN call'[u].points \subseteq DOMAIN value'
                          /\ ~ DestroyDuringIdle =>
                               /\ DOMAIN call'[u].points \subseteq DOMAIN timeline'
                               /\ \A w \in Threads : ~ IsDestroying(w)'
      BY DEF IdleCovers
    <2>2. \A w \in Threads : IsDestroying(w)' => IsDestroying(w) /\ w # t
      BY <1>7, <1>8 DEF IsDestroying
    <2>3. CASE u = t
      <3>1. ~ DestroyDuringIdle => \A w \in Threads : ~ IsDestroying(w)
        BY <1>1 DEF Destroying, IsDestroying, IInv, DestroyedOnce
      <3>2. QED
        BY <1>2, <1>3, <1>4, <1>6, <1>7, <2>2, <2>3, <3>1, TypesTimeline
    <2>4. CASE u # t
      BY <1>2, <1>7, <2>1, <2>2, <2>4 DEF IInv, IdleCovers, IsWaiting, At
    <2>5. QED
      BY <2>3, <2>4
  <1>11. QED
    BY <1>2, <1>7, <1>9, <1>10, VersionsStep DEF IInv

(* WaitIdle holds nothing that its end would have to give up. *)
LEMMA WaitIdleEndsIInv ==
  ASSUME IInv, NEW t \in Threads, WaitIdleEnds(t)
  PROVE  IInv'
  <1>1. /\ IsWaiting(t, "idle") /\ call' = [call EXCEPT ![t] = Idle]
        /\ UNCHANGED <<timeline, value, queue, mutex, calls, completion>>
    BY DEF WaitIdleEnds, IsWaiting, Returns
  <1>2. t # Waiter
    BY <1>1, Shape DEF IsWaiting, At, CallsOf, WaiterCalls, OtherCalls
  <1>3. Idle \in CallsOf(t) /\ Idle.step = "idle"
    BY DEF Idle, CallsOf
  <1>4. call'[t] = Idle /\ DOMAIN call' = Threads /\ \A u \in Threads : u # t => call'[u] = call[u]
    BY <1>1, Shape
  <1>5. ~ IsDestroying(t)' /\ ~ At(t, "waiting")' /\ \A h : t \in Pinning(h)' <=> t \in Pinning(h)
    BY <1>1, <1>3, <1>4 DEF IsDestroying, IsWaiting, At, Pinning
  <1>6. QED
    BY <1>1, <1>2, <1>3, <1>4, <1>5, Shape, QuietStep, VersionsStep DEF IInv, IsWaiting

(* Present takes the mutex and waits for a submitted value. *)
LEMMA PresentIInv ==
  ASSUME IInv, NEW t \in Threads, Present(t)
  PROVE  IInv'
  <1>1. PICK h \in DOMAIN timeline, v \in 1 .. MaxValue :
          call' = [call EXCEPT ![t] = [step |-> "waiting", kind |-> "present",
                                       points |-> Points({h}, v)]]
    <2>1. PICK h \in DOMAIN timeline :
            \E v \in 1 .. timeline[h].lastSubmittedSignalValue :
              call' = [call EXCEPT ![t] = [step |-> "waiting", kind |-> "present",
                                           points |-> Points({h}, v)]]
      BY DEF Present
    <2>2. timeline[h].lastSubmittedSignalValue \in 0 .. MaxValue
      BY TypesTimeline
    <2>3. \A v \in 1 .. timeline[h].lastSubmittedSignalValue : v \in 1 .. MaxValue
      BY <2>2, Assumed
    <2>4. QED
      BY <2>1, <2>3
  <1>2. /\ At(t, "idle") /\ calls' \in 0 .. MaxCalls /\ t # Waiter
        /\ Free /\ mutex' = t
        /\ UNCHANGED <<timeline, value, queue, completion>>
    BY Begun DEF Present
  <1> DEFINE r == [step |-> "waiting", kind |-> "present", points |-> Points({h}, v)]
  <1>3. DOMAIN r.points = {h} /\ r.points \in PointSets
    BY TypesTimeline, PointsFacts
  <1>4. r \in CallsOf(t)
    BY <1>2, <1>3 DEF CallsOf, OtherCalls
  <1>5. r.step = "waiting" /\ r.kind = "present"
    OBVIOUS
  <1> HIDE DEF r
  <1>6. call'[t] = r /\ DOMAIN call' = Threads /\ \A u \in Threads : u # t => call'[u] = call[u]
    BY <1>1, Shape DEF r
  <1>7. ~ IsDestroying(t)' /\ ~ IsWaiting(t, "idle")' /\ \A k : t \in Pinning(k)' <=> t \in Pinning(k)
    BY <1>2, <1>5, <1>6 DEF IsDestroying, IsWaiting, At, Pinning
  <1>8. /\ Types' /\ PinsExact' /\ LastSubmittedIsPending' /\ SignalsRise'
        /\ DestroyedOnce' /\ IdleCovers'
    BY <1>2, <1>4, <1>6, <1>7, Shape, QuietStep DEF Free
  <1>9. PresentHolds'
    <2>1. \A u \in Threads : u # t => ~ IsWaiting(u, "present")'
      BY <1>2, <1>6, Assumed DEF IInv, PresentHolds, Free, IsWaiting, At
    <2>2. QED
      BY <1>2, <1>3, <1>6, <2>1 DEF PresentHolds
  <1>10. QED
    BY <1>2, <1>6, <1>8, <1>9, VersionsStep DEF IInv

(* Present gives the mutex back. *)
LEMMA PresentEndsIInv ==
  ASSUME IInv, NEW t \in Threads, PresentEnds(t)
  PROVE  IInv'
  <1>1. /\ IsWaiting(t, "present") /\ call' = [call EXCEPT ![t] = Idle]
        /\ mutex' = NoThread
        /\ UNCHANGED <<timeline, value, queue, calls, completion>>
    BY DEF PresentEnds, IsWaiting, Returns
  <1>2. t # Waiter /\ mutex = t
    BY <1>1, Shape DEF IsWaiting, At, CallsOf, WaiterCalls, OtherCalls, IInv, PresentHolds
  <1>3. Idle \in CallsOf(t) /\ Idle.step = "idle"
    BY DEF Idle, CallsOf
  <1>4. call'[t] = Idle /\ DOMAIN call' = Threads /\ \A u \in Threads : u # t => call'[u] = call[u]
    BY <1>1, Shape
  <1>5. ~ IsDestroying(t)' /\ ~ At(t, "waiting")' /\ \A h : t \in Pinning(h)' <=> t \in Pinning(h)
    BY <1>1, <1>3, <1>4 DEF IsDestroying, IsWaiting, At, Pinning
  <1>6. QED
    BY <1>1, <1>2, <1>3, <1>4, <1>5, Shape, QuietStep, VersionsStep DEF IInv, IsWaiting
-----------------------------------------------------------------------------
(* The waiter. *)
LEMMA WakeVersionIInv ==
  ASSUME IInv, NEW t \in Threads, WakeVersion(t)
  PROVE  IInv'
  <1> DEFINE r == [step |-> "observed", observed |-> completion.version]
  <1>1. /\ t = Waiter /\ At(t, "idle") /\ calls' \in 0 .. MaxCalls
        /\ call' = [call EXCEPT ![t] = r]
        /\ UNCHANGED <<timeline, value, queue, mutex, completion>>
    BY Begun DEF WakeVersion
  <1>2. r \in CallsOf(t) /\ r.step = "observed" /\ r.observed = completion.version
    BY <1>1, Shape DEF CallsOf, WaiterCalls
  <1> HIDE DEF r
  <1>3. call'[t] = r /\ DOMAIN call' = Threads /\ \A u \in Threads : u # t => call'[u] = call[u]
    BY <1>1, Shape
  <1>4. ~ IsDestroying(t)' /\ ~ At(t, "waiting")' /\ \A h : t \in Pinning(h)' <=> t \in Pinning(h)
    BY <1>1, <1>2, <1>3 DEF IsDestroying, At, Pinning
  <1>5. VersionsMatch'
    BY <1>1, <1>2, <1>3, Shape DEF IInv, VersionsMatch, At
  <1>6. QED
    BY <1>1, <1>2, <1>3, <1>4, <1>5, Shape, QuietStep DEF IInv, IsWaiting

(* CompletionWait::Wait pins the timelines of its points. *)
LEMMA WaitIInv ==
  ASSUME IInv, NEW t \in Threads, Wait(t)
  PROVE  IInv'
  <1>1. PICK hs \in SUBSET DOMAIN timeline, v \in 1 .. MaxValue :
          /\ timeline' = Pinned(hs)
          /\ call' = [call EXCEPT ![t] = [step |-> "arming", kind |-> "completion",
                                          observed |-> @.observed, points |-> Points(hs, v)]]
    BY DEF Wait
  <1>2. /\ At(t, "observed")
        /\ UNCHANGED <<value, queue, mutex, calls, completion>>
    BY DEF Wait
  <1>3. t = Waiter /\ call[t].observed \in Nat
    BY <1>2, Shape DEF At, CallsOf, WaiterCalls, OtherCalls
  <1> DEFINE r == [step |-> "arming", kind |-> "completion",
                   observed |-> call[t].observed, points |-> Points(hs, v)]
  <1>4. call'[t] = r /\ DOMAIN call' = Threads /\ \A u \in Threads : u # t => call'[u] = call[u]
    BY <1>1, Shape
  <1>5. DOMAIN r.points = hs /\ r.points \in PointSets
    BY TypesTimeline, PointsFacts
  <1>6. r \in CallsOf(t)
    BY <1>3, <1>5 DEF CallsOf, WaiterCalls
  <1>7. r.step = "arming" /\ r.observed = call[t].observed
    OBVIOUS
  <1> HIDE DEF r
  <1>8. \A h : /\ t \notin Pinning(h)
               /\ Pinning(h)' = IF h \in hs THEN Pinning(h) \cup {t} ELSE Pinning(h)
    BY <1>2, <1>4, <1>5, <1>7 DEF Pinning, At
  <1>9. /\ PinsExact'
        /\ DOMAIN timeline' = DOMAIN timeline
        /\ \A h \in DOMAIN timeline : timeline'[h].lastSubmittedSignalValue
                                        = timeline[h].lastSubmittedSignalValue
        /\ timeline' \in [DOMAIN timeline' ->
              [lastSubmittedSignalValue : 0 .. MaxValue,
               activeHostWaits : 0 .. Cardinality(Threads)]]
    BY <1>1, <1>8, PinStep
  <1>10. Types'
    BY <1>2, <1>4, <1>6, <1>9, TypesStep, Shape
  <1>11. ~ IsDestroying(t)' /\ ~ At(t, "waiting")'
    BY <1>4, <1>7 DEF IsDestroying, At
  <1>12. VersionsMatch'
    BY <1>2, <1>3, <1>4, <1>7 DEF IInv, VersionsMatch, At
  <1>13. QED
    BY <1>2, <1>4, <1>9, <1>10, <1>11, <1>12, CallStep DEF IInv, IsWaiting

(* The waiter's steps within a wait: what changes is where it is, and      *)
(* m_waiting.                                                              *)
LEMMA WaiterStep ==
  ASSUME IInv, NEW t \in Threads, t = Waiter, call[t].step \in {"arming", "waiting", "disarming"},
         NEW step \in {"waiting", "disarming", "unpin"}, Goes(t, step),
         UNCHANGED <<timeline, value, queue, mutex, calls>>,
         completion' \in [version : Nat, waiting : BOOLEAN, control : Nat]
  PROVE  /\ Types' /\ PinsExact' /\ LastSubmittedIsPending' /\ SignalsRise'
         /\ DestroyedOnce' /\ IdleCovers' /\ PresentHolds'
         /\ call'[t].step = step /\ call'[t].observed = call[t].observed
         /\ call[t].observed \in Nat
  <1> DEFINE r == [call[t] EXCEPT !.step = step]
  <1>1. call[t] \in [step : {"arming", "waiting", "disarming", "unpin"}, kind : {"completion"},
                     observed : Nat, points : PointSets]
    BY Shape DEF CallsOf, WaiterCalls, OtherCalls
  <1>2. /\ r \in [step : {"arming", "waiting", "disarming", "unpin"}, kind : {"completion"},
                  observed : Nat, points : PointSets]
        /\ r.step = step /\ r.observed = call[t].observed /\ r.points = call[t].points
        /\ r.kind = "completion"
    BY <1>1
  <1>3. call' = [call EXCEPT ![t] = r]
    BY DEF Goes
  <1> HIDE DEF r
  <1>4. r \in CallsOf(t)
    BY <1>2 DEF CallsOf, WaiterCalls
  <1>5. call'[t] = r /\ DOMAIN call' = Threads /\ \A u \in Threads : u # t => call'[u] = call[u]
    BY <1>3, Shape
  <1>6. /\ ~ IsDestroying(t)' /\ ~ IsWaiting(t, "idle")' /\ ~ IsWaiting(t, "present")'
        /\ \A h : t \in Pinning(h)' <=> t \in Pinning(h)
    BY <1>1, <1>2, <1>5 DEF IsDestroying, IsWaiting, At, Pinning
  <1>7. QED
    BY <1>1, <1>2, <1>4, <1>5, <1>6, Shape, QuietStep

(* m_waiting is set together with the look at the version. *)
LEMMA ArmIInv ==
  ASSUME IInv, NEW t \in Threads, Arm(t)
  PROVE  IInv'
  <1> DEFINE wait == call[t].observed = completion.version
  <1>1. /\ At(t, "arming")
        /\ completion' = [completion EXCEPT !.waiting = wait]
        /\ Goes(t, IF wait THEN "waiting" ELSE "unpin")
        /\ UNCHANGED <<timeline, value, queue, mutex, calls>>
    BY DEF Arm
  <1>2. t = Waiter
    BY <1>1, Shape DEF At, CallsOf, WaiterCalls, OtherCalls
  <1>3. /\ completion' \in [version : Nat, waiting : BOOLEAN, control : Nat]
        /\ completion'.version = completion.version
        /\ completion'.control = completion.control
        /\ completion'.waiting = wait
    BY <1>1, Shape
  <1>4. PICK step \in {"waiting", "unpin"} : Goes(t, step) /\ (step = "waiting" => wait)
    BY <1>1
  <1>5. /\ Types' /\ PinsExact' /\ LastSubmittedIsPending' /\ SignalsRise'
        /\ DestroyedOnce' /\ IdleCovers' /\ PresentHolds'
        /\ call'[t].step = step /\ call'[t].observed = call[t].observed
    BY <1>1, <1>2, <1>3, <1>4, WaiterStep DEF At
  <1>6. VersionsMatch'
    BY <1>1, <1>2, <1>3, <1>4, <1>5 DEF IInv, VersionsMatch, At
  <1>7. QED
    BY <1>5, <1>6 DEF IInv

(* The completion wait has an answer and still holds its pins. *)
LEMMA WaitEndsIInv ==
  ASSUME IInv, NEW t \in Threads, WaitEnds(t)
  PROVE  IInv'
  <1>1. /\ At(t, "waiting") /\ call[t].kind = "completion" /\ Goes(t, "disarming")
        /\ UNCHANGED <<timeline, value, queue, mutex, calls, completion>>
    BY DEF WaitEnds
  <1>2. t = Waiter
    BY <1>1, Shape DEF At, CallsOf, WaiterCalls, OtherCalls
  <1>3. /\ Types' /\ PinsExact' /\ LastSubmittedIsPending' /\ SignalsRise'
        /\ DestroyedOnce' /\ IdleCovers' /\ PresentHolds'
        /\ call'[t].step = "disarming"
    BY <1>1, <1>2, WaiterStep, Shape DEF At
  <1>4. VersionsMatch'
    BY <1>1, <1>2, <1>3 DEF IInv, VersionsMatch, At
  <1>5. QED
    BY <1>3, <1>4 DEF IInv

(* m_waiting is reset once the wait is over. *)
LEMMA DisarmIInv ==
  ASSUME IInv, NEW t \in Threads, Disarm(t)
  PROVE  IInv'
  <1>1. /\ At(t, "disarming") /\ Goes(t, "unpin")
        /\ completion' = [completion EXCEPT !.waiting = FALSE]
        /\ UNCHANGED <<timeline, value, queue, mutex, calls>>
    BY DEF Disarm
  <1>2. t = Waiter
    BY <1>1, Shape DEF At, CallsOf, WaiterCalls, OtherCalls
  <1>3. /\ completion' \in [version : Nat, waiting : BOOLEAN, control : Nat]
        /\ completion'.version = completion.version
        /\ completion'.control = completion.control
    BY <1>1, Shape
  <1>4. /\ Types' /\ PinsExact' /\ LastSubmittedIsPending' /\ SignalsRise'
        /\ DestroyedOnce' /\ IdleCovers' /\ PresentHolds'
        /\ call'[t].step = "unpin"
    BY <1>1, <1>2, <1>3, WaiterStep DEF At
  <1>5. VersionsMatch'
    BY <1>1, <1>2, <1>3, <1>4 DEF IInv, VersionsMatch, At
  <1>6. QED
    BY <1>4, <1>5 DEF IInv

(* The version rises, and the control semaphore with it if somebody waits. *)
LEMMA NotifyIInv ==
  ASSUME IInv, NEW t \in Threads, Notify(t)
  PROVE  IInv'
  <1> DEFINE version == completion.version + 1
  <1>1. /\ t # Waiter /\ At(t, "idle") /\ calls' \in 0 .. MaxCalls
        /\ completion' = [completion EXCEPT
                            !.version = version,
                            !.control = IF completion.waiting THEN version ELSE @]
        /\ UNCHANGED <<timeline, value, queue, mutex, call>>
    BY Begun DEF Notify
  <1>2. /\ completion' \in [version : Nat, waiting : BOOLEAN, control : Nat]
        /\ completion'.version = version
        /\ completion'.control = IF completion.waiting THEN version ELSE completion.control
        /\ completion'.waiting = completion.waiting
    <2>1. completion \in [version : Nat, waiting : BOOLEAN, control : Nat]
      BY Shape
    <2> DEFINE control == IF completion.waiting THEN version ELSE completion.control
    <2>2. control \in Nat /\ version \in Nat
      BY <2>1
    <2>3. completion' = [completion EXCEPT !.version = version, !.control = control]
      BY <1>1
    <2> HIDE DEF control, version
    <2>4. completion' = [version |-> version, waiting |-> completion.waiting,
                         control |-> control]
      BY <2>1, <2>3
    <2>5. /\ completion'.version = version /\ completion'.control = control
          /\ completion'.waiting = completion.waiting
          /\ completion' \in [version : Nat, waiting : BOOLEAN, control : Nat]
      BY <2>1, <2>2, <2>4
    <2>6. QED
      BY <2>5 DEF control
  <1>3. /\ ~ IsDestroying(t)' /\ ~ At(t, "waiting")' /\ \A h : t \in Pinning(h)' <=> t \in Pinning(h)
    BY <1>1 DEF IsDestroying, At, Pinning
  <1>4. /\ Types' /\ PinsExact' /\ LastSubmittedIsPending' /\ SignalsRise'
        /\ DestroyedOnce' /\ IdleCovers' /\ PresentHolds'
    BY <1>1, <1>2, <1>3, Shape, QuietStep DEF IsWaiting
  <1>5. VersionsMatch'
    <2>1. call[Waiter].step \in {"observed", "arming", "waiting"} => call[Waiter].observed \in Nat
      BY Assumed, Shape DEF CallsOf, WaiterCalls, OtherCalls
    <2>2. completion.version \in Nat /\ completion.control \in Nat
      BY Shape
    <2>3. QED
      BY <1>1, <1>2, <2>1, <2>2 DEF IInv, VersionsMatch, At
  <1>6. QED
    BY <1>4, <1>5 DEF IInv
-----------------------------------------------------------------------------
(* Timelines and queues. *)
LEMMA CreateTimelineIInv ==
  ASSUME IInv, NEW h \in Handles, CreateTimeline(h)
  PROVE  IInv'
  <1>1. /\ h \notin DOMAIN value
        /\ timeline' = [k \in DOMAIN timeline \cup {h} |->
                          IF k = h THEN [lastSubmittedSignalValue |-> 0, activeHostWaits |-> 0]
                                   ELSE timeline[k]]
        /\ value' = [k \in DOMAIN value \cup {h} |-> IF k = h THEN 0 ELSE value[k]]
        /\ UNCHANGED <<queue, mutex, call, calls, completion>>
    BY DEF CreateTimeline
  <1>2. /\ h \notin DOMAIN timeline
        /\ DOMAIN timeline' = DOMAIN timeline \cup {h} /\ DOMAIN value' = DOMAIN value \cup {h}
        /\ timeline'[h] = [lastSubmittedSignalValue |-> 0, activeHostWaits |-> 0]
        /\ value'[h] = 0
        /\ \A k \in DOMAIN timeline : timeline'[k] = timeline[k]
        /\ \A k \in DOMAIN value : value'[k] = value[k]
    BY <1>1, TypesTimeline
  <1>3. TypeOK'
    <2>1. Cardinality(Threads) \in Nat
      BY Assumed, FS_CardinalityType
    <2>2. timeline' \in [DOMAIN timeline' ->
            [lastSubmittedSignalValue : 0 .. MaxValue, activeHostWaits : 0 .. Cardinality(Threads)]]
      BY <1>1, <2>1, Assumed DEF IInv, Types, TypeOK
    <2>3. value' \in [DOMAIN value' -> 0 .. MaxValue]
      BY <1>1, Assumed DEF IInv, Types, TypeOK
    <2>4. QED
      BY <1>1, <1>2, <2>2, <2>3 DEF IInv, Types, TypeOK
  <1>4. Types'
    BY <1>1, <1>2, <1>3 DEF IInv, Types, CallsOf, WaiterCalls, OtherCalls
  <1>5. PinsExact'
    <2>1. \A k : Pinning(k)' = Pinning(k)
      BY <1>1 DEF Pinning, At
    <2>2. Pinning(h) = {}
      BY <1>2, TypesTimeline
    <2>3. timeline'[h].activeHostWaits = Cardinality(Pinning(h))
      BY <1>2, <2>2, FS_EmptySet
    <2>4. \A k \in Handles \ {h} : (k \in DOMAIN timeline' <=> k \in DOMAIN timeline)
                                 /\ (k \in DOMAIN timeline => timeline'[k] = timeline[k])
      BY <1>2
    <2>5. QED
      BY <1>2, <2>1, <2>3, <2>4 DEF IInv, PinsExact
  <1>6. Pending' = Pending /\ \A s \in Pending : s[1] \in DOMAIN timeline
    BY <1>1 DEF Pending, Signals, IInv, SignalsRise, InTurn
  <1>7. LastSubmittedIsPending'
    BY <1>2, <1>6, TypesTimeline DEF IInv, LastSubmittedIsPending
  <1>8. SignalsRise'
    <2>1. \A k : Destroying(k)' => Destroying(k)
      BY <1>1 DEF Destroying
    <2>2. \A q \in Queues : \A i \in DOMAIN queue[q] : InTurn(q, i)'
      <3>1. TAKE q \in Queues
      <3> TAKE i \in DOMAIN queue[q]
      <3>2. InTurn(q, i)
        BY DEF IInv, SignalsRise
      <3>3. QED
        BY <1>1, <1>2, <2>1, <3>2, TypesTimeline DEF InTurn
    <2>3. QED
      BY <1>1, <2>2 DEF IInv, SignalsRise
  <1>9. DestroyedOnce' /\ IdleCovers' /\ PresentHolds' /\ VersionsMatch'
    BY <1>1, <1>2 DEF IInv, DestroyedOnce, IsDestroying, IdleCovers, PresentHolds,
       IsWaiting, At, VersionsMatch
  <1>10. QED
    BY <1>4, <1>5, <1>7, <1>8, <1>9 DEF IInv

(* A batch is appended: its signal is the next of its timeline, and new.   *)
LEMMA SubmitIInv ==
  ASSUME IInv, NEW t \in Threads, NEW q \in Queues, Submit(t, q)
  PROVE  IInv'
  <1>1. PICK h \in DOMAIN timeline, w \in DOMAIN timeline, accepted \in BOOLEAN :
          LET last == timeline[h].lastSubmittedSignalValue
          IN /\ ~ Destroying(h) /\ ~ Destroying(w) /\ last < MaxValue
             /\ w = h \/ \A p \in Queues \ {q} : <<h, last>> \notin Signals(queue[p])
             /\ IF accepted
                  THEN /\ queue' = [queue EXCEPT ![q] = Append(@,
                                     [wait |-> <<w, timeline[w].lastSubmittedSignalValue>>,
                                      signal |-> <<h, last + 1>>])]
                       /\ timeline' = [timeline EXCEPT ![h].lastSubmittedSignalValue = last + 1]
                  ELSE UNCHANGED <<queue, timeline>>
    BY DEF Submit
  <1>2. /\ calls' \in 0 .. MaxCalls
        /\ UNCHANGED <<value, mutex, call, completion>>
    BY Begun DEF Submit
  <1>3. \A k : Pinning(k)' = Pinning(k)
    BY <1>2 DEF Pinning, At
  <1>4. \A k : Destroying(k)' = Destroying(k)
    BY <1>2 DEF Destroying
  <1> DEFINE last == timeline[h].lastSubmittedSignalValue
             b == [wait |-> <<w, timeline[w].lastSubmittedSignalValue>>, signal |-> <<h, last + 1>>]
  <1>5. CASE accepted
    <2> DEFINE new == last + 1
    <2>1. /\ last < MaxValue
          /\ ~ Destroying(h)
          /\ w = h \/ \A p \in Queues \ {q} : <<h, last>> \notin Signals(queue[p])
      BY <1>1
    <2>a. queue' = [queue EXCEPT ![q] = Append(queue[q], b)]
      BY <1>1, <1>5
    <2>t. timeline' = [timeline EXCEPT ![h] = [timeline[h] EXCEPT !.lastSubmittedSignalValue = new]]
      BY <1>1, <1>5
    <2>2. /\ h \in Handles /\ last \in 0 .. MaxValue /\ last + 1 \in 1 .. MaxValue
          /\ w \in Handles /\ timeline[w].lastSubmittedSignalValue \in Nat
      <3>1. h \in Handles /\ w \in Handles /\ last \in 0 .. MaxValue
            /\ timeline[w].lastSubmittedSignalValue \in 0 .. MaxValue
        BY TypesTimeline
      <3> HIDE DEF last
      <3>2. last < MaxValue
        BY <2>1
      <3>3. QED
        BY <3>1, <3>2, Assumed
    <2>3. b \in Batches /\ b.signal = <<h, last + 1>>
          /\ (w = h => b.wait = <<h, last>>)
      BY <2>2 DEF Batches
    <2>4. /\ timeline'[h] = [lastSubmittedSignalValue |-> last + 1,
                             activeHostWaits |-> timeline[h].activeHostWaits]
          /\ DOMAIN timeline' = DOMAIN timeline
          /\ \A k \in DOMAIN timeline : k # h => timeline'[k] = timeline[k]
      <3>1. timeline \in [DOMAIN timeline ->
              [lastSubmittedSignalValue : 0 .. MaxValue, activeHostWaits : 0 .. Cardinality(Threads)]]
        BY DEF IInv, Types, TypeOK
      <3>2. timeline[h] \in
              [lastSubmittedSignalValue : 0 .. MaxValue, activeHostWaits : 0 .. Cardinality(Threads)]
        BY <3>1
      <3> HIDE DEF last, new
      <3>4. timeline'[h] = [timeline[h] EXCEPT !.lastSubmittedSignalValue = new]
            /\ DOMAIN timeline' = DOMAIN timeline
            /\ \A k \in DOMAIN timeline : k # h => timeline'[k] = timeline[k]
        BY <3>1, <2>t
      <3>5. QED
        BY <3>2, <3>4 DEF new
    <2>5. last = timeline[h].lastSubmittedSignalValue
      OBVIOUS
    <2> HIDE DEF b, last, new
    <2>6. PICK n \in Nat : n = Len(queue[q]) + 1
      BY BatchFacts
    <2>b. queue[q] \in Seq(Batches) /\ Len(queue[q]) \in Nat /\ DOMAIN queue[q] = 1 .. Len(queue[q])
          /\ queue \in [Queues -> Seq(Batches)]
      BY BatchFacts DEF IInv, Types
    <2>7. /\ queue' \in [Queues -> Seq(Batches)]
          /\ n \in Nat /\ n \notin DOMAIN queue[q]
          /\ DOMAIN queue'[q] = 1 .. n
          /\ queue'[q][n] = b
          /\ \A i \in DOMAIN queue[q] : i \in DOMAIN queue'[q] /\ queue'[q][i] = queue[q][i]
          /\ \A i \in DOMAIN queue'[q] : i = n \/ i \in DOMAIN queue[q]
          /\ \A p \in Queues : p # q => queue'[p] = queue[p]
      <3>1. queue'[q] = Append(queue[q], b) /\ queue' \in [Queues -> Seq(Batches)]
            /\ \A p \in Queues : p # q => queue'[p] = queue[p]
        <4>1. Append(queue[q], b) \in Seq(Batches)
          BY <2>3, <2>b, AppendProperties
        <4> DEFINE a == Append(queue[q], b)
        <4> HIDE DEF a
        <4>2. queue' = [queue EXCEPT ![q] = a] /\ a \in Seq(Batches)
          BY <2>a, <4>1 DEF a
        <4>3. QED
          BY <2>b, <4>2 DEF a
      <3>2. QED
        BY <2>3, <2>6, <2>b, <3>1, AppendProperties
    <2>8. \A s : s \in Pending' <=> s \in Pending \/ s = <<h, last + 1>>
      <3>1. \A s : s \in Pending <=> \E p \in Queues : \E i \in DOMAIN queue[p] : s = queue[p][i].signal
        BY DEF Pending, Signals
      <3>2. \A s : s \in Pending' <=> \E p \in Queues : \E i \in DOMAIN queue'[p] : s = queue'[p][i].signal
        BY DEF Pending, Signals
      <3>3. ASSUME NEW s, s \in Pending' PROVE s \in Pending \/ s = <<h, last + 1>>
        <4>0. PICK p \in Queues : \E i \in DOMAIN queue'[p] : s = queue'[p][i].signal
          BY <3>2, <3>3
        <4>1. PICK i \in DOMAIN queue'[p] : s = queue'[p][i].signal
          BY <4>0
        <4>2. CASE p = q
          BY <2>3, <2>7, <3>1, <4>1, <4>2
        <4>3. CASE p # q
          BY <2>7, <3>1, <4>1, <4>3
        <4>4. QED
          BY <4>2, <4>3
      <3>4. ASSUME NEW s, s \in Pending \/ s = <<h, last + 1>> PROVE s \in Pending'
        <4>1. CASE s \in Pending
          <5>0. PICK p \in Queues : \E i \in DOMAIN queue[p] : s = queue[p][i].signal
            BY <3>1, <4>1
          <5>1. PICK i \in DOMAIN queue[p] : s = queue[p][i].signal
            BY <5>0
          <5>2. i \in DOMAIN queue'[p] /\ queue'[p][i] = queue[p][i]
            BY <2>7
          <5>3. QED
            BY <3>2, <5>1, <5>2
        <4>2. CASE s = <<h, last + 1>>
          <5>1. n \in DOMAIN queue'[q] /\ queue'[q][n].signal = s
            BY <2>3, <2>6, <2>b, <2>7, <4>2
          <5>2. QED
            BY <3>2, <5>1
        <4>3. QED
          BY <3>4, <4>1, <4>2
      <3>5. QED
        BY <3>3, <3>4
    <2>9. Types'
      <3>1. timeline' \in [DOMAIN timeline' ->
              [lastSubmittedSignalValue : 0 .. MaxValue, activeHostWaits : 0 .. Cardinality(Threads)]]
        <4>1. timeline \in [DOMAIN timeline ->
                [lastSubmittedSignalValue : 0 .. MaxValue, activeHostWaits : 0 .. Cardinality(Threads)]]
          BY DEF IInv, Types, TypeOK
        <4>2. last + 1 \in 0 .. MaxValue
          BY <2>2, Assumed
        <4>3. \A k \in DOMAIN timeline' : timeline'[k] \in
                [lastSubmittedSignalValue : 0 .. MaxValue, activeHostWaits : 0 .. Cardinality(Threads)]
          BY <2>4, <4>1, <4>2
        <4>4. timeline' = [k \in DOMAIN timeline' |-> timeline'[k]]
          BY <2>t, <4>1
        <4>5. QED
          BY <4>3, <4>4
      <3>2. QED
        BY <1>2, <2>4, <2>7, <3>1 DEF IInv, Types, TypeOK, CallsOf, WaiterCalls, OtherCalls
    <2>10. PinsExact'
      BY <1>3, <2>4 DEF IInv, PinsExact
    <2>11. /\ last \in Nat /\ value[h] \in Nat /\ value[h] <= last
           /\ \A s \in Pending : s[1] = h => s[2] <= last
           /\ last = value[h] \/ <<h, last>> \in Pending
      <3>1. value[h] \in Nat
        BY TypesTimeline, Assumed DEF IInv, Types, TypeOK
      <3>2. LET submitted == {value[h]} \cup {s[2] : s \in {p \in Pending : p[1] = h}}
            IN last \in submitted /\ \A v \in submitted : v <= last
        BY <2>5 DEF IInv, LastSubmittedIsPending
      <3>3. \A s \in Pending : s \in Handles \X (1 .. MaxValue)
        BY BatchFacts DEF Pending, Signals, Batches
      <3>4. QED
        BY <2>2, <3>1, <3>2, <3>3
    <2>c. last = value[h] \/ <<h, last>> \in Pending
      BY <2>11
    <2>12. LastSubmittedIsPending'
      <3>1. SUFFICES ASSUME NEW k \in DOMAIN timeline'
                     PROVE  LET submitted == {value'[k]} \cup {s[2] : s \in {p \in Pending' : p[1] = k}}
                            IN /\ timeline'[k].lastSubmittedSignalValue \in submitted
                               /\ \A v \in submitted : v <= timeline'[k].lastSubmittedSignalValue
        BY DEF LastSubmittedIsPending
      <3>2. CASE k = h
        <4>1. <<h, last + 1>> \in Pending' /\ value'[h] = value[h]
              /\ timeline'[h].lastSubmittedSignalValue = last + 1
          BY <1>2, <2>4, <2>8
        <4>2. \A s \in Pending' : s[1] = h => s[2] <= last \/ s[2] = last + 1
          BY <2>8, <2>11
        <4>3. \A s \in Pending' : s[1] = h => s[2] <= last + 1
          <5>1. \A s \in Pending : s[1] = h => s[2] \in Nat
            BY BatchFacts, Assumed DEF Pending, Signals, Batches
          <5>2. QED
            BY <2>8, <2>11, <5>1
        <4>4. QED
          BY <2>11, <3>2, <4>1, <4>3
      <3>3. CASE k # h
        <4>1. {p \in Pending' : p[1] = k} = {p \in Pending : p[1] = k}
          BY <2>8, <3>3
        <4>2. QED
          BY <1>2, <2>4, <3>1, <3>3, <4>1 DEF IInv, LastSubmittedIsPending
      <3>4. QED
        BY <3>2, <3>3
    <2>13. \A p \in Queues : \A i \in DOMAIN queue'[p] : InTurn(p, i)'
      <3>1. ASSUME NEW p \in Queues, NEW i \in DOMAIN queue[p]
            PROVE  InTurn(p, i)'
        <4>1. InTurn(p, i)
          BY DEF IInv, SignalsRise
        <4>2. queue'[p][i] = queue[p][i]
              /\ \A k \in 1 .. i - 1 : queue'[p][k] = queue[p][k]
          <5>1. 1 .. i - 1 \subseteq DOMAIN queue[p]
            BY BatchFacts
          <5>2. QED
            BY <2>7, <5>1
        <4>3. QED
          BY <1>2, <1>4, <2>4, <4>1, <4>2 DEF InTurn
      <3>2. InTurn(q, n)'
        <4>1. value[h] < last + 1
          BY <2>11
        <4>2. \/ value[h] = last
              \/ b.wait = <<h, last>>
              \/ \E k \in 1 .. n - 1 : queue'[q][k].signal = <<h, last>>
          <5>1. CASE <<h, last>> \in Pending /\ w # h
            <6>0. PICK p \in Queues : <<h, last>> \in Signals(queue[p])
              BY <5>1 DEF Pending
            <6>1. PICK k \in DOMAIN queue[p] : queue[p][k].signal = <<h, last>>
              BY <6>0 DEF Signals
            <6>2. p = q
              BY <2>1, <5>1, <6>0
            <6>3. k \in 1 .. n - 1
              BY <2>6, <2>b, <6>1, <6>2
            <6>4. queue'[q][k].signal = <<h, last>>
              BY <2>7, <6>1, <6>2
            <6>5. QED
              BY <6>3, <6>4
          <5>2. CASE w = h
            BY <2>3, <5>2
          <5>3. CASE <<h, last>> \notin Pending
            BY <2>c, <5>3
          <5>4. QED
            BY <5>1, <5>2, <5>3
        <4>4. queue'[q][n].signal[1] = h /\ queue'[q][n].signal[2] = last + 1
              /\ queue'[q][n].wait = b.wait
          BY <2>3, <2>7
        <4>5. h \in DOMAIN timeline' /\ value'[h] = value[h]
          BY <1>2, <2>4
        <4>6. ~ \E u \in Threads : call'[u].step \in {"destroying", "asleep"} /\ call'[u].handle = h
          BY <1>2, <2>1 DEF Destroying
            <4>8. value'[h] < last + 1
          BY <4>1, <4>5
        <4>9. QED
          <5>2. PICK v \in Nat : v = last + 1 /\ v - 1 = last
            BY <2>11
          <5>3. queue'[q][n].signal[1] = h /\ queue'[q][n].signal[2] = v /\ value'[h] < v
            BY <4>4, <4>8, <5>2
          <5>4. value'[h] = v - 1 \/ queue'[q][n].wait = <<h, v - 1>>
                \/ \E k \in 1 .. n - 1 : queue'[q][k].signal = <<h, v - 1>>
            BY <4>2, <4>4, <4>5, <5>2
          <5> DEFINE m == queue'[q][n]
          <5>5. m.signal[1] \in DOMAIN timeline' /\ value'[m.signal[1]] < m.signal[2]
            BY <4>5, <5>3
          <5>6. ~ \E u \in Threads : call'[u].step \in {"destroying", "asleep"} /\ call'[u].handle = m.signal[1]
            BY <4>6, <5>3
          <5>7. value'[m.signal[1]] = m.signal[2] - 1 \/ m.wait = <<m.signal[1], m.signal[2] - 1>>
                \/ \E k \in 1 .. n - 1 : queue'[q][k].signal = <<m.signal[1], m.signal[2] - 1>>
            BY <5>3, <5>4
          <5>8. QED
            BY <5>5, <5>6, <5>7 DEF InTurn, Destroying
      <3>3. \A p \in Queues : \A i \in DOMAIN queue'[p] :
              (p = q /\ i = n) \/ i \in DOMAIN queue[p]
        BY <2>7
      <3>4. QED
        BY <3>1, <3>2, <3>3
    <2>14. \A p \in Queues : \A i \in DOMAIN queue[p] : queue[p][i].signal # <<h, last + 1>>
      <3>1. TAKE p \in Queues
      <3> TAKE i \in DOMAIN queue[p]
      <3>2. queue[p][i].signal \in Pending
        BY DEF Pending, Signals
      <3>3. QED
        BY <2>11, <3>2
    <2>15. SignalsRise'
      <3>1. SUFFICES ASSUME NEW p \in Queues, NEW r \in Queues,
                            NEW i \in DOMAIN queue'[p], NEW j \in DOMAIN queue'[r],
                            queue'[p][i].signal = queue'[r][j].signal
                     PROVE  p = r /\ i = j
        BY <2>13 DEF SignalsRise
      <3>2. \A x \in Queues : \A k \in DOMAIN queue'[x] :
              \/ x = q /\ k = n /\ queue'[x][k].signal = <<h, last + 1>>
              \/ k \in DOMAIN queue[x] /\ queue'[x][k] = queue[x][k]
        BY <2>3, <2>7
      <3>3. QED
        BY <2>14, <3>1, <3>2 DEF IInv, SignalsRise
    <2>16. DestroyedOnce' /\ IdleCovers' /\ PresentHolds' /\ VersionsMatch'
      BY <1>2, <2>4 DEF IInv, DestroyedOnce, IsDestroying, IdleCovers, PresentHolds,
         IsWaiting, At, VersionsMatch
    <2>17. QED
      BY <2>9, <2>10, <2>12, <2>15, <2>16 DEF IInv
  <1>6. CASE ~ accepted
    <2>1. UNCHANGED <<queue, timeline>>
      BY <1>1, <1>6
    <2>2. Types'
      BY <1>2, <2>1 DEF IInv, Types, TypeOK, CallsOf, WaiterCalls, OtherCalls
    <2>3. PinsExact' /\ LastSubmittedIsPending'
      BY <1>2, <1>3, <2>1 DEF IInv, PinsExact, LastSubmittedIsPending, Pending, Signals
    <2>4. SignalsRise'
      <3>1. \A p \in Queues : \A i \in DOMAIN queue[p] : InTurn(p, i) => InTurn(p, i)'
        BY <1>2, <1>4, <2>1, SMTT(30) DEF InTurn
      <3>2. QED
        BY <2>1, <3>1 DEF IInv, SignalsRise
    <2>5. DestroyedOnce' /\ IdleCovers' /\ PresentHolds' /\ VersionsMatch'
      BY <1>2, <2>1 DEF IInv, DestroyedOnce, IsDestroying, IdleCovers, PresentHolds,
         IsWaiting, At, VersionsMatch
    <2>6. QED
      BY <2>2, <2>3, <2>4, <2>5 DEF IInv
  <1>7. QED
    BY <1>5, <1>6

(* The batch at the head of a queue signals the next value of its timeline. *)
LEMMA HeadInTurn ==
  ASSUME IInv, NEW q \in Queues, Execute(q)
  PROVE  \E h \in DOMAIN timeline, v \in 1 .. MaxValue :
           /\ queue[q] # <<>> /\ queue[q][1].signal = <<h, v>>
           /\ value[h] = v - 1
           /\ value' = [value EXCEPT ![h] = v]
           /\ queue' = [queue EXCEPT ![q] = Tail(queue[q])]
  <1>1. 1 \in DOMAIN queue[q] /\ queue[q] # <<>> /\ Head(queue[q]) = queue[q][1]
    BY BatchFacts, EmptySeq DEF Execute
  <1>2. queue[q][1] \in Batches
    BY <1>1, BatchFacts
  <1>3. PICK h, v, k, u : h \in Handles /\ v \in 1 .. MaxValue /\ k \in Handles /\ u \in Nat
          /\ queue[q][1].wait = <<k, u>> /\ queue[q][1].signal = <<h, v>>
    <2>1. /\ queue[q][1].wait \in Handles \X Nat
          /\ queue[q][1].signal \in Handles \X (1 .. MaxValue)
      BY <1>2 DEF Batches
    <2>2. PICK k \in Handles, u \in Nat : queue[q][1].wait = <<k, u>>
      BY <2>1
    <2>3. PICK h \in Handles, v \in 1 .. MaxValue : queue[q][1].signal = <<h, v>>
      BY <2>1
    <2>4. QED
      BY <2>2, <2>3
  <1>4. queue[q][1].signal = <<h, v>> /\ queue[q][1].wait = <<k, u>>
    BY <1>3
  <1>5. /\ value[k] >= u
        /\ value' = [value EXCEPT ![h] = v]
        /\ queue' = [queue EXCEPT ![q] = Tail(queue[q])]
    <2> DEFINE b == queue[q][1]
    <2>1. b.wait[1] = k /\ b.wait[2] = u /\ b.signal[1] = h /\ b.signal[2] = v
      BY <1>4
    <2>2. /\ value[b.wait[1]] >= b.wait[2]
          /\ value' = [value EXCEPT ![b.signal[1]] = b.signal[2]]
          /\ queue' = [queue EXCEPT ![q] = Tail(queue[q])]
      BY <1>1 DEF Execute
    <2> HIDE DEF b
    <2>3. QED
      BY <2>1, <2>2
  <1>6. /\ h \in DOMAIN timeline /\ value[h] < v
        /\ value[h] = v - 1 \/ queue[q][1].wait = <<h, v - 1>>
    <2>1. InTurn(q, 1)
      BY <1>1 DEF IInv, SignalsRise
    <2>2. ~ \E j \in 1 .. 1 - 1 : queue[q][j].signal = <<h, v - 1>>
      OBVIOUS
    <2>3. QED
      BY <1>4, <2>1, <2>2 DEF InTurn
  <1>7. value[h] \in Nat /\ v \in Nat
    BY <1>3, <1>6, TypesTimeline, Assumed DEF IInv, Types, TypeOK
  <1>8. value[h] = v - 1
    <2>1. CASE queue[q][1].wait = <<h, v - 1>>
      <3>1. k = h /\ u = v - 1
        BY <1>4, <2>1
      <3>2. QED
        BY <1>5, <1>6, <1>7, <3>1
    <2>2. QED
      BY <1>6, <2>1
  <1>9. QED
    BY <1>1, <1>3, <1>4, <1>5, <1>6, <1>8

(* The GPU signals: the value of one timeline rises by one. *)
LEMMA ExecuteIInv ==
  ASSUME IInv, NEW q \in Queues, Execute(q)
  PROVE  IInv'
  <1>1. PICK h \in DOMAIN timeline, v \in 1 .. MaxValue :
          /\ queue[q] # <<>> /\ queue[q][1].signal = <<h, v>>
          /\ value[h] = v - 1
          /\ value' = [value EXCEPT ![h] = v]
          /\ queue' = [queue EXCEPT ![q] = Tail(queue[q])]
    BY HeadInTurn
  <1>2. UNCHANGED <<timeline, mutex, call, calls, completion>>
    BY DEF Execute
  <1>3. /\ \A k : Pinning(k)' = Pinning(k)
        /\ \A k : Destroying(k)' = Destroying(k)
    BY <1>2 DEF Pinning, At, Destroying
  <1>4. /\ v \in Nat /\ h \in Handles /\ h \in DOMAIN value
        /\ DOMAIN value' = DOMAIN value /\ value' \in [DOMAIN value -> 0 .. MaxValue]
        /\ value'[h] = v /\ \A k \in DOMAIN value : k # h => value'[k] = value[k]
    <2>1. v \in Nat /\ v \in 0 .. MaxValue
      BY Assumed
    <2>2. h \in Handles /\ h \in DOMAIN value
      BY TypesTimeline
    <2>3. value \in [DOMAIN value -> 0 .. MaxValue]
      BY DEF IInv, Types, TypeOK
    <2>4. value' = [value EXCEPT ![h] = v]
      BY <1>1
    <2>5. QED
      BY <2>1, <2>2, <2>3, <2>4
  <1>5. PICK n \in Nat : Len(queue[q]) = n + 1
    <2>1. queue[q] \in Seq(Batches) /\ Len(queue[q]) \in Nat /\ Len(queue[q]) # 0
      BY <1>1, BatchFacts, EmptySeq
    <2>2. Len(queue[q]) - 1 \in Nat /\ Len(queue[q]) = (Len(queue[q]) - 1) + 1
      BY <2>1
    <2>3. QED
      BY <2>2
  <1>6. /\ queue' \in [Queues -> Seq(Batches)]
        /\ \A p \in Queues : p # q => queue'[p] = queue[p]
        /\ DOMAIN queue[q] = 1 .. n + 1 /\ DOMAIN queue'[q] = 1 .. n
        /\ \A i \in 1 .. n : queue'[q][i] = queue[q][i + 1]
    <2> DEFINE a == Tail(queue[q])
    <2>1. queue[q] \in Seq(Batches) /\ DOMAIN queue[q] = 1 .. n + 1
      BY <1>5, BatchFacts
    <2>2. a \in Seq(Batches) /\ Len(a) = n /\ \A i \in 1 .. Len(a) : a[i] = queue[q][i + 1]
      BY <1>1, <1>5, <2>1, HeadTailProperties
    <2>3. DOMAIN a = 1 .. n
      BY <2>2, LenProperties
    <2>4. queue' = [queue EXCEPT ![q] = a]
      BY <1>1
    <2>5. queue \in [Queues -> Seq(Batches)]
      BY DEF IInv, Types
    <2> HIDE DEF a
    <2>6. queue'[q] = a /\ queue' \in [Queues -> Seq(Batches)]
          /\ \A p \in Queues : p # q => queue'[p] = queue[p]
      BY <2>2, <2>4, <2>5
    <2>7. QED
      BY <2>1, <2>2, <2>3, <2>6
  (* Every batch left was there before, and signals something else. *)
  <1>7. \A p \in Queues : \A i \in DOMAIN queue'[p] :
          LET j == IF p = q THEN i + 1 ELSE i
          IN /\ j \in DOMAIN queue[p] /\ queue'[p][i] = queue[p][j]
             /\ queue[p][j].signal # <<h, v>>
    <2>1. TAKE p \in Queues
    <2> TAKE i \in DOMAIN queue'[p]
    <2>2. 1 \in DOMAIN queue[q] /\ queue[q][1].signal = <<h, v>>
      BY <1>1, <1>6
    <2>3. \A j \in DOMAIN queue[p] : queue[p][j].signal = <<h, v>> => p = q /\ j = 1
      BY <2>2 DEF IInv, SignalsRise
    <2>4. CASE p = q
      <3>1. i \in 1 .. n /\ i + 1 \in 1 .. n + 1 /\ i + 1 # 1
        BY <1>6, <2>4
      <3>2. QED
        BY <1>6, <2>3, <2>4, <3>1
    <2>5. CASE p # q
      BY <1>6, <2>3, <2>5
    <2>6. QED
      BY <2>4, <2>5
  <1>8. \A s : s \in Pending' <=> s \in Pending /\ s # <<h, v>>
    <2>1. \A s : s \in Pending <=> \E p \in Queues : \E i \in DOMAIN queue[p] : s = queue[p][i].signal
      BY DEF Pending, Signals
    <2>2. \A s : s \in Pending' <=> \E p \in Queues : \E i \in DOMAIN queue'[p] : s = queue'[p][i].signal
      BY DEF Pending, Signals
    <2>3. ASSUME NEW s, s \in Pending' PROVE s \in Pending /\ s # <<h, v>>
      <3>1. PICK p \in Queues : \E i \in DOMAIN queue'[p] : s = queue'[p][i].signal
        BY <2>2, <2>3
      <3>2. PICK i \in DOMAIN queue'[p] : s = queue'[p][i].signal
        BY <3>1
      <3>3. QED
        BY <1>7, <2>1, <3>2
    <2>4. ASSUME NEW s, s \in Pending, s # <<h, v>> PROVE s \in Pending'
      <3>1. PICK p \in Queues : \E i \in DOMAIN queue[p] : s = queue[p][i].signal
        BY <2>1, <2>4
      <3>2. PICK i \in DOMAIN queue[p] : s = queue[p][i].signal
        BY <3>1
      <3>3. CASE p # q
        BY <1>6, <2>2, <3>2, <3>3
      <3>4. CASE p = q
        <4>1. i # 1
          BY <1>1, <2>4, <3>2, <3>4
        <4>2. i \in 1 .. n + 1
          BY <1>6, <3>4
        <4>3. PICK j \in 1 .. n : j + 1 = i
          <5>1. i - 1 \in 1 .. n /\ (i - 1) + 1 = i
            BY <4>1, <4>2
          <5>2. QED
            BY <5>1
        <4>4. QED
          BY <1>6, <2>2, <3>2, <3>4, <4>3
      <3>5. QED
        BY <3>3, <3>4
    <2>5. QED
      BY <2>3, <2>4
  <1>9. Types'
    BY <1>2, <1>4, <1>6 DEF IInv, Types, TypeOK, CallsOf, WaiterCalls, OtherCalls
  <1>10. PinsExact'
    BY <1>2, <1>3 DEF IInv, PinsExact
  <1>11. LastSubmittedIsPending'
    <2>1. SUFFICES ASSUME NEW k \in DOMAIN timeline
                   PROVE  LET submitted == {value'[k]} \cup {s[2] : s \in {p \in Pending' : p[1] = k}}
                          IN /\ timeline[k].lastSubmittedSignalValue \in submitted
                             /\ \A u \in submitted : u <= timeline[k].lastSubmittedSignalValue
      BY <1>2 DEF LastSubmittedIsPending
    <2>2. LET submitted == {value[k]} \cup {s[2] : s \in {p \in Pending : p[1] = k}}
          IN /\ timeline[k].lastSubmittedSignalValue \in submitted
             /\ \A u \in submitted : u <= timeline[k].lastSubmittedSignalValue
      BY DEF IInv, LastSubmittedIsPending
    <2>3. CASE k # h
      <3>1. {p \in Pending' : p[1] = k} = {p \in Pending : p[1] = k}
        BY <1>8, <2>3
      <3>2. value'[k] = value[k]
        BY <1>4, <2>3, TypesTimeline
      <3>3. QED
        BY <2>2, <3>1, <3>2
    <2>4. CASE k = h
      <3> DEFINE last == timeline[h].lastSubmittedSignalValue
      <3>1. <<h, v>> \in Pending
        BY <1>1, <1>6 DEF Pending, Signals
      <3>2. last \in Nat
        BY TypesTimeline, Assumed
      <3>3. last = value[h] \/ \E s \in Pending : s[1] = h /\ s[2] = last
        BY <2>2, <2>4
      <3>4. \A s \in Pending : s[1] = h => s[2] <= last
        BY <2>2, <2>4
      <3> HIDE DEF last
      <3>5. v <= last
        BY <3>1, <3>4
      <3>6. PICK s \in Pending : s[1] = h /\ s[2] = last
        BY <1>1, <1>4, <3>2, <3>3, <3>5
      <3>7. last = v \/ s \in Pending'
        BY <1>8, <3>6
      <3>8. \A r \in Pending' : r[1] = h => r[2] <= last
        BY <1>8, <3>4
      <3>9. QED
        BY <1>4, <2>4, <3>5, <3>6, <3>7, <3>8 DEF last
    <2>5. QED
      BY <2>3, <2>4
  <1>12. \A p \in Queues : \A i \in DOMAIN queue'[p] : InTurn(p, i)'
    <2>1. TAKE p \in Queues
    <2> TAKE i \in DOMAIN queue'[p]
    <2> DEFINE c == queue'[p][i]
    <2>2. PICK j \in DOMAIN queue[p] :
            j = (IF p = q THEN i + 1 ELSE i) /\ c = queue[p][j] /\ c.signal # <<h, v>>
      BY <1>7
    <2>3. InTurn(p, j)
      BY DEF IInv, SignalsRise
    <2>4. queue[p][j] \in Batches
      BY BatchFacts
    <2>5. PICK k, u : k \in Handles /\ u \in 1 .. MaxValue /\ c.signal = <<k, u>>
      BY <2>2, <2>4 DEF Batches
    <2>6. /\ k \in DOMAIN timeline /\ ~ Destroying(k)
          /\ value[k] < u
          /\ \/ value[k] = u - 1
             \/ c.wait = <<k, u - 1>>
             \/ \E x \in 1 .. j - 1 : queue[p][x].signal = <<k, u - 1>>
      BY <2>2, <2>3, <2>5 DEF InTurn
    <2>7. u \in Nat /\ value[k] \in Nat /\ k \in DOMAIN value
      BY <2>5, <2>6, TypesTimeline, Assumed DEF IInv, Types, TypeOK
    <2>8. value'[k] < u /\ (k = h => v # u)
      <3>1. CASE k = h
        <4>1. v # u
          BY <2>2, <2>5, <3>1
        <4>2. QED
          BY <1>1, <1>4, <2>6, <2>7, <3>1, <4>1
      <3>2. CASE k # h
        BY <1>4, <2>6, <2>7, <3>2
      <3>3. QED
        BY <3>1, <3>2
    <2>9. value'[k] = u - 1 \/ c.wait = <<k, u - 1>>
          \/ \E x \in 1 .. i - 1 : queue'[p][x].signal = <<k, u - 1>>
      <3>1. CASE value[k] = u - 1
        <4>1. k # h
          BY <1>1, <1>4, <2>7, <2>8, <3>1
        <4>2. QED
          BY <1>4, <2>7, <3>1, <4>1
      <3>2. ASSUME NEW x \in 1 .. j - 1, queue[p][x].signal = <<k, u - 1>>
            PROVE  value'[k] = u - 1 \/ \E y \in 1 .. i - 1 : queue'[p][y].signal = <<k, u - 1>>
        <4>1. CASE p # q
          BY <1>6, <2>2, <3>2, <4>1
        <4>2. CASE p = q
          <5>1. j = i + 1 /\ i \in 1 .. n
            BY <1>6, <2>2, <4>2
          <5>2. CASE x = 1
            <6>1. k = h /\ u - 1 = v
              BY <1>1, <3>2, <4>2, <5>2
            <6>2. QED
              BY <1>4, <6>1
          <5>3. CASE x # 1
            <6>1. x - 1 \in 1 .. i - 1 /\ x - 1 \in 1 .. n /\ (x - 1) + 1 = x
              BY <5>1, <5>3
            <6>2. queue'[p][x - 1] = queue[p][x]
              BY <1>6, <4>2, <6>1
            <6>3. QED
              BY <3>2, <6>1, <6>2
          <5>4. QED
            BY <5>2, <5>3
        <4>3. QED
          BY <4>1, <4>2
      <3>3. QED
        BY <2>6, <3>1, <3>2
    <2>10. ~ \E t \in Threads : call'[t].step \in {"destroying", "asleep"} /\ call'[t].handle = k
      BY <1>2, <2>6 DEF Destroying
    <2>11. c.signal[1] = k /\ c.signal[2] = u /\ k \in DOMAIN timeline'
      BY <1>2, <2>5, <2>6
    <2>12. c.signal[1] \in DOMAIN timeline' /\ value'[c.signal[1]] < c.signal[2]
      BY <2>8, <2>11
    <2>13. ~ \E t \in Threads : call'[t].step \in {"destroying", "asleep"} /\ call'[t].handle = c.signal[1]
      BY <2>10, <2>11
    <2>14. value'[c.signal[1]] = c.signal[2] - 1 \/ c.wait = <<c.signal[1], c.signal[2] - 1>>
           \/ \E x \in 1 .. i - 1 : queue'[p][x].signal = <<c.signal[1], c.signal[2] - 1>>
      BY <2>9, <2>11
    <2>15. QED
      BY <2>12, <2>13, <2>14 DEF InTurn, Destroying
  <1>13. SignalsRise'
    <2>1. SUFFICES ASSUME NEW p \in Queues, NEW r \in Queues,
                          NEW i \in DOMAIN queue'[p], NEW j \in DOMAIN queue'[r],
                          queue'[p][i].signal = queue'[r][j].signal
                   PROVE  p = r /\ i = j
      BY <1>12 DEF SignalsRise
    <2>2. PICK x \in DOMAIN queue[p], y \in DOMAIN queue[r] :
            /\ x = (IF p = q THEN i + 1 ELSE i) /\ y = (IF r = q THEN j + 1 ELSE j)
            /\ queue[p][x].signal = queue[r][y].signal
      BY <1>7, <2>1
    <2>3. p = r /\ x = y
      BY <2>2 DEF IInv, SignalsRise
    <2>4. CASE p = q
      BY <1>6, <2>2, <2>3, <2>4
    <2>5. CASE p # q
      BY <2>2, <2>3, <2>5
    <2>6. QED
      BY <2>3, <2>4, <2>5
  <1>14. DestroyedOnce' /\ IdleCovers' /\ PresentHolds' /\ VersionsMatch'
    BY <1>2, <1>4 DEF IInv, DestroyedOnce, IsDestroying, IdleCovers, PresentHolds,
       IsWaiting, At, VersionsMatch
  <1>15. QED
    BY <1>9, <1>10, <1>11, <1>13, <1>14 DEF IInv

(* A step that changes nothing keeps the invariant. *)
LEMMA StutterIInv ==
  ASSUME IInv, UNCHANGED vars
  PROVE  IInv'
  <1>1. \A h : Pinning(h)' = Pinning(h)
    BY DEF vars, Pinning, At
  <1>2. Types' /\ PinsExact'
    BY <1>1 DEF vars, IInv, Types, TypeOK, PinsExact, CallsOf, WaiterCalls, OtherCalls
  <1>3. LastSubmittedIsPending'
    BY DEF vars, IInv, LastSubmittedIsPending, Pending, Signals
  <1>4. SignalsRise'
    <2>1. \A q \in Queues : \A i \in DOMAIN queue[q] : InTurn(q, i) => InTurn(q, i)'
      BY SMTT(30) DEF vars, InTurn, Destroying
    <2>2. QED
      BY <2>1 DEF vars, IInv, SignalsRise
  <1>5. DestroyedOnce' /\ IdleCovers' /\ PresentHolds' /\ VersionsMatch'
    BY DEF vars, IInv, DestroyedOnce, IsDestroying, IdleCovers, PresentHolds,
       IsWaiting, At, VersionsMatch
  <1>6. QED
    BY <1>2, <1>3, <1>4, <1>5 DEF IInv

(* Every step keeps the invariant. *)
LEMMA NextIInv == IInv /\ [Next]_vars => IInv'
  <1>1. SUFFICES ASSUME IInv, [Next]_vars PROVE IInv'
    OBVIOUS
  <1>2. ASSUME NEW h \in Handles, CreateTimeline(h) PROVE IInv'
    BY <1>1, <1>2, CreateTimelineIInv
  <1>3. ASSUME NEW q \in Queues, Execute(q) PROVE IInv'
    BY <1>1, <1>3, ExecuteIInv
  <1>4. ASSUME NEW t \in Threads, Call(t) PROVE IInv'
    <2>1. ASSUME NEW q \in Queues, Submit(t, q) PROVE IInv'
      BY <1>1, <2>1, SubmitIInv
    <2>2. CASE HostWait(t)
      BY <1>1, <2>2, HostWaitIInv
    <2>3. CASE Destroy(t)
      BY <1>1, <2>3, DestroyIInv
    <2>4. CASE WaitIdle(t)
      BY <1>1, <2>4, WaitIdleIInv
    <2>5. CASE Present(t)
      BY <1>1, <2>5, PresentIInv
    <2>6. CASE WakeVersion(t)
      BY <1>1, <2>6, WakeVersionIInv
    <2>7. CASE Notify(t)
      BY <1>1, <2>7, NotifyIInv
    <2>8. QED
      BY <1>4, <2>1, <2>2, <2>3, <2>4, <2>5, <2>6, <2>7 DEF Call
  <1>5. ASSUME NEW t \in Threads, Continue(t) PROVE IInv'
    <2>1. CASE HostWaitEnds(t)
      BY <1>1, <2>1, HostWaitEndsIInv
    <2>2. CASE Unpin(t)
      BY <1>1, <2>2, UnpinIInv
    <2>3. CASE NotifyAll(t)
      BY <1>1, <2>3, NotifyAllIInv
    <2>4. CASE DestroyChecks(t)
      BY <1>1, <2>4, DestroyChecksIInv
    <2>5. CASE WaitIdleEnds(t)
      BY <1>1, <2>5, WaitIdleEndsIInv
    <2>6. CASE PresentEnds(t)
      BY <1>1, <2>6, PresentEndsIInv
    <2>7. CASE Wait(t)
      BY <1>1, <2>7, WaitIInv
    <2>8. CASE Arm(t)
      BY <1>1, <2>8, ArmIInv
    <2>9. CASE WaitEnds(t)
      BY <1>1, <2>9, WaitEndsIInv
    <2>10. CASE Disarm(t)
      BY <1>1, <2>10, DisarmIInv
    <2>11. QED
      BY <1>5, <2>1, <2>2, <2>3, <2>4, <2>5, <2>6, <2>7, <2>8, <2>9, <2>10 DEF Continue
  <1>6. CASE UNCHANGED vars
    BY <1>1, <1>6, StutterIInv
  <1>7. QED
    BY <1>1, <1>2, <1>3, <1>4, <1>5, <1>6 DEF Next
-----------------------------------------------------------------------------
(* Both counters of every timeline, the waiters DestroyTimeline waits for  *)
(* and the value WaitIdle waits for, are exact at every step, whatever the *)
(* interleaving of threads and queues.                                     *)
THEOREM CountersAlwaysExact == Spec => []CountersExact
  <1>1. IInv => CountersExact
    BY DEF IInv, Types, CountersExact
  <1>2. QED
    BY <1>1, InitIInv, NextIInv, PTL DEF Spec

(* What a thread that waits for the GPU holds.                             *)
LEMMA WaitShape ==
  ASSUME IInv, NEW t \in Threads, At(t, "waiting")
  PROVE  /\ call[t].kind \in {"host", "completion", "idle", "present"}
         /\ call[t].points \in PointSets /\ DOMAIN call[t].points \subseteq Handles
         /\ \A h \in DOMAIN call[t].points : call[t].points[h] \in 1 .. MaxValue
         /\ call[t].kind = "idle" => t # Waiter /\ call[t].owed \subseteq Handles \X Nat
  <1>1. /\ call[t].kind \in {"host", "completion", "idle", "present"}
        /\ call[t].points \in PointSets
        /\ call[t].kind = "idle" => t # Waiter /\ call[t].owed \subseteq Handles \X Nat
    BY Shape DEF At, CallsOf, WaiterCalls, OtherCalls
  <1>2. PICK hs \in SUBSET Handles : call[t].points \in [hs -> 1 .. MaxValue]
    BY <1>1 DEF PointSets
  <1>3. QED
    BY <1>1, <1>2

(* Only WaitIdle itself ends the wait of WaitIdle.                         *)
LEMMA IdleReturns ==
  ASSUME IInv, Next, NEW t \in Threads, IsWaiting(t, "idle"), call'[t] = Idle
  PROVE  WaitIdleEnds(t)
  <1>1. call'[t] # call[t]
    BY DEF IsWaiting, At, Idle
  <1>2. DOMAIN call = Threads
    BY Shape
  <1>3. ~ \E h \in Handles : CreateTimeline(h)
    BY <1>1 DEF CreateTimeline
  <1>4. ~ \E q \in Queues : Execute(q)
    BY <1>1 DEF Execute
  <1>5. ASSUME NEW u \in Threads, Call(u) PROVE FALSE
    <2>1. At(u, "idle") /\ u # t
      BY <1>5 DEF Call, Submit, HostWait, Destroy, WaitIdle, Present, WakeVersion, Notify,
         Begins, IsWaiting, At
    <2>2. call'[t] = call[t]
      BY <1>2, <1>5, <2>1 DEF Call, Submit, HostWait, Destroy, WaitIdle, Present, WakeVersion, Notify
    <2>3. QED
      BY <1>1, <2>2
  <1>6. ASSUME NEW u \in Threads, Continue(u) PROVE WaitIdleEnds(t)
    <2>1. CASE NotifyAll(u)
      BY <1>1, <2>1 DEF NotifyAll, IsWaiting, At
    <2>2. CASE ~ NotifyAll(u) /\ u # t
      BY <1>1, <1>2, <1>6, <2>2 DEF Continue, HostWaitEnds, Unpin, DestroyChecks, WaitIdleEnds,
         PresentEnds, Wait, Arm, WaitEnds, Disarm, Goes, Returns
    <2>3. CASE ~ NotifyAll(u) /\ u = t
      BY <1>6, <2>3 DEF Continue, HostWaitEnds, Unpin, DestroyChecks,
         PresentEnds, Wait, Arm, WaitEnds, Disarm, IsWaiting, At
    <2>4. QED
      BY <2>1, <2>2, <2>3
  <1>7. QED
    BY <1>3, <1>4, <1>5, <1>6 DEF Next

(* A thread that waits for the GPU outside the mutex waits on a semaphore  *)
(* that is alive, unless timelines are destroyed while WaitIdle runs.      *)
THEOREM WaitsAlwaysOnLiveSemaphores ==
  ASSUME ~ DestroyDuringIdle
  PROVE  Spec => []WaitsOnLiveSemaphores
  <1>1. ASSUME IInv PROVE WaitsOnLiveSemaphores
    <2>1. SUFFICES ASSUME NEW t \in Threads, At(t, "waiting"), NEW h \in DOMAIN call[t].points
                   PROVE  h \in DOMAIN timeline
      BY DEF WaitsOnLiveSemaphores
    <2>2. CASE call[t].kind \in {"host", "completion"}
      <3>1. h \in Handles
        BY <1>1, <2>1, <2>2, WaitShape
      <3>2. t \in Pinning(h)
        BY <2>1, <2>2 DEF Pinning
      <3>3. QED
        BY <1>1, <3>1, <3>2, TypesTimeline
    <2>3. CASE call[t].kind \in {"idle", "present"}
      BY <1>1, <2>1, <2>3 DEF IInv, IdleCovers, PresentHolds, IsWaiting
    <2>4. call[t].kind \in {"host", "completion", "idle", "present"}
      BY <1>1, <2>1, WaitShape
    <2>5. QED
      BY <2>2, <2>3, <2>4
  <1>2. QED
    BY <1>1, InitIInv, NextIInv, PTL DEF Spec

(* No notification is lost between reading the version and blocking.       *)
THEOREM NoWakeIsLost == Spec => []NoLostWake
  <1>1. ASSUME IInv, At(Waiter, "waiting"), completion.version # call[Waiter].observed
        PROVE  completion.control > call[Waiter].observed
    <2>1. completion.version \in Nat /\ completion.control = completion.version
      BY <1>1 DEF IInv, Types, TypeOK, VersionsMatch
    <2>2. call[Waiter].observed \in Nat
      BY <1>1, Assumed, Shape DEF At, CallsOf, WaiterCalls
    <2>3. call[Waiter].observed <= completion.version
      BY <1>1 DEF IInv, VersionsMatch, At
    <2>4. QED
      BY <1>1, <2>1, <2>2, <2>3
  <1>2. IInv => NoLostWake
    BY <1>1 DEF NoLostWake
  <1>3. QED
    BY <1>2, InitIInv, NextIInv, PTL DEF Spec

(* When WaitIdle returns, what was submitted before it has signalled.      *)
THEOREM IdleAlwaysMeansDone == Spec => IdleMeansDone
  <1> DEFINE Done ==
        \A t \in Threads :
          At(t, "waiting") /\ call[t].kind = "idle" /\ call'[t] = Idle
            => \A s \in call[t].owed : value[s[1]] >= s[2]
  <1>1. ASSUME IInv, Next, NEW t \in Threads, IsWaiting(t, "idle"), call'[t] = Idle,
               NEW s \in call[t].owed
        PROVE  value[s[1]] >= s[2]
    <2> DEFINE h == s[1]
    <2>1. \A k \in DOMAIN call[t].points : value[k] >= call[t].points[k]
      BY <1>1, IdleReturns, WaitShape DEF IsWaiting, WaitIdleEnds, Answered, Reached
    <2>2. h \in DOMAIN call[t].points /\ s[2] <= call[t].points[h] /\ h \in DOMAIN value
      BY <1>1 DEF IInv, IdleCovers
    <2>3. call[t].points[h] \in Nat /\ s[2] \in Nat
      BY <1>1, <2>2, WaitShape, Assumed DEF IsWaiting
    <2>4. value[h] \in Nat
      BY <1>1, <2>2, Assumed DEF IInv, Types, TypeOK
    <2>5. value[h] >= call[t].points[h]
      BY <2>1, <2>2
    <2> HIDE DEF h
    <2>6. value[h] >= s[2]
      BY <2>2, <2>3, <2>4, <2>5
    <2>7. QED
      BY <2>6 DEF h
  <1>2. IInv /\ [Next]_vars => [Done]_vars
    BY <1>1 DEF IsWaiting
  <1>3. QED
    BY <1>2, InitIInv, NextIInv, PTL DEF Spec, IdleMeansDone
=============================================================================

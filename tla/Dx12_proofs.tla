----------------------------- MODULE Dx12_proofs -----------------------------
(***************************************************************************)
(* Proofs about Dx12Device, for any threads, timelines, queues and events, *)
(* command lists, layouts and pages, handles and windows: a drained queue  *)
(* is done, no wake is lost, and no event is closed that the runtime has   *)
(* still to set; command lists are given what D3D12 allows, and draws read *)
(* what was pushed last; every object has one owner and every image its    *)
(* back buffer.                                                            *)
(***************************************************************************)
EXTENDS Dx12Device, SequenceTheorems, FiniteSetTheorems, WellFoundedInduction, TLAPS

(* What the GPU may be told to do.                                         *)
WorkSteps ==
  [op : {"wait"}, fence : Timelines, value : 0 .. MaxValue]
  \cup [op : {"signal"}, fence : Timelines \cup Queues, value : Nat]
  \cup {Run}
QueueSet == [value : Nat, work : Seq(WorkSteps)]

Points == [fence : Timelines, value : 1 .. MaxValue]
Waitings ==
  [step : {"registering", "waiting"}, observed : Nat, points : Seq(Points), left : Seq(Points),
   events : SUBSET Events]
WaiterCalls ==
  [step : {"idle", "closing"}] \cup [step : {"observed"}, observed : Nat] \cup Waitings
Drainings ==
  [step : {"draining"}, left : SUBSET Queues, at : Queues \cup {None}, value : Nat,
   destroys : Queues \cup {None}, owed : UNION {[qs -> Nat] : qs \in SUBSET Queues}]
HostWaits == [step : {"hostWait"}, fence : Timelines, value : 1 .. MaxValue, timed : BOOLEAN]
OtherCalls == [step : {"idle"}] \cup Drainings \cup HostWaits
CallsOf(t) == IF t = Waiter THEN WaiterCalls ELSE OtherCalls

Registrations ==
  [fence : Timelines \cup {None}, event : Events \cup {None}, value : 0 .. MaxValue]
WaitSet ==
  [registration : [1 .. MaxTimelines -> Registrations], version : Nat, control : BOOLEAN,
   armed : SUBSET (Events \X Timelines \X (1 .. MaxValue))]

Types ==
  /\ DOMAIN queue \subseteq Queues
  /\ \A q \in DOMAIN queue : queue[q] \in QueueSet
  /\ completed \in [Timelines \cup Queues -> 0 .. Removed]
  /\ submitted \in [Timelines -> 0 .. MaxValue]
  /\ DOMAIN call = Threads
  /\ \A t \in Threads : call[t] \in CallsOf(t)
  /\ calls \in 0 .. MaxCalls
  /\ wait \in WaitSet

(* Which signals a queue may have been given: of timelines, what was       *)
(* submitted, and of its own fence, what it was drained with.              *)
SignalsKnown ==
  \A q \in DOMAIN queue : \A i \in DOMAIN queue[q].work :
    LET w == queue[q].work[i]
    IN w.op = "signal" =>
         IF w.fence \in Timelines THEN w.value \in 1 .. submitted[w.fence]
                                  ELSE w.fence = q /\ w.value \in 1 .. queue[q].value

(* The signal of a timeline is its next, or comes after the one before it. *)
InTurn(q, i) ==
  LET w == queue[q].work[i]
      v == w.value
  IN w.op = "signal" /\ w.fence \in Timelines =>
       /\ completed[w.fence] < v
       /\ \/ completed[w.fence] = v - 1
          \/ \E k \in 1 .. i - 1 :
               queue[q].work[k] \in {WaitStep(w.fence, v - 1), SignalStep(w.fence, v - 1)}

SignalsOnce ==
  \A q, p \in DOMAIN queue : \A i \in DOMAIN queue[q].work, j \in DOMAIN queue[p].work :
    /\ queue[q].work[i] = queue[p].work[j]
    /\ queue[q].work[i].op = "signal" /\ queue[q].work[i].fence \in Timelines
    => q = p /\ i = j

CompletedKnown ==
  /\ \A h \in Timelines : completed[h] <= submitted[h]
  /\ \A q \in DOMAIN queue : completed[q] <= queue[q].value

SignalsRise ==
  ~ DeviceRemoved =>
    /\ \A q \in DOMAIN queue : \A i \in DOMAIN queue[q].work : InTurn(q, i)
    /\ SignalsOnce /\ CompletedKnown

(* One thread drains at a time, and each queue once.                       *)
OneDrains == \A t, u \in Threads : At(t, "draining") /\ At(u, "draining") => t = u
ValuesCounted == \A q \in DOMAIN queue : queue[q].value <= calls

(* What a queue owes lies before the signal that is waited for.            *)
Behind(c, q) ==
  /\ q = c.at /\ completed[q] < c.value
  /\ \A i \in 1 .. c.owed[q] :
       LET w == queue[q].work[i]
       IN w.op = "signal" /\ w.fence = q => w.value < c.value

DrainFits(c) ==
  /\ DOMAIN c.owed \subseteq DOMAIN queue /\ c.left \subseteq DOMAIN c.owed
  /\ c.at \in (DOMAIN c.owed \ c.left) \cup {None}
  /\ \A q \in DOMAIN c.owed : c.owed[q] <= Len(queue[q].work)
  /\ \A q \in c.left : queue[q].value < calls
  /\ ~ DeviceRemoved => \A q \in DOMAIN c.owed \ c.left : c.owed[q] = 0 \/ Behind(c, q)
Drains1 == \A t \in Threads : At(t, "draining") => DrainFits(call[t])

(* Every fence has one registration, every event too, and what a           *)
(* registration still waits for is all that the runtime has been told.     *)
Registered(i) ==
  LET r == wait.registration[i]
  IN /\ r.fence = None => r.event = None
     /\ r.event = None => r.value = 0
     /\ r.event # None /\ completed[r.fence] < r.value =>
          <<r.event, r.fence, r.value>> \in wait.armed
RegistrationsApart ==
  \A i, j \in 1 .. MaxTimelines :
    LET r == wait.registration[i]
        s == wait.registration[j]
    IN \/ r.fence = s.fence /\ r.fence # None
       \/ r.event = s.event /\ r.event # None
       => i = j
ArmedRegistered ==
  \A a \in wait.armed : \E i \in 1 .. MaxTimelines :
    LET r == wait.registration[i] IN a = <<r.event, r.fence, r.value>>
RegistrationsFit ==
  /\ \A i \in 1 .. MaxTimelines : Registered(i)
  /\ RegistrationsApart /\ ArmedRegistered

(* The event of a point's registration is waited for, and set in time.     *)
Covered(p, events) ==
  \A i \in 1 .. MaxTimelines :
    LET r == wait.registration[i]
    IN r.fence = p.fence =>
         r.event \in events /\ r.value <= p.value /\ <<r.event, r.fence, r.value>> \in wait.armed

WaiterFits ==
  LET c == call[Waiter]
  IN /\ c.step \in {"registering", "waiting"} =>
          /\ \A i, j \in DOMAIN c.points : c.points[i].fence = c.points[j].fence => i = j
          /\ \A k \in DOMAIN c.left : \E i \in DOMAIN c.points : c.left[k] = c.points[i]
          /\ \A i \in DOMAIN c.points :
               (\E k \in DOMAIN c.left : c.left[k] = c.points[i]) \/ Covered(c.points[i], c.events)
     /\ c.step = "waiting" => /\ c.left = <<>>
                              /\ wait.version # c.observed => wait.control

QueueInv == SignalsKnown /\ SignalsRise /\ OneDrains /\ ValuesCounted /\ Drains1
WaitInv == RegistrationsFit /\ WaiterFits
IInv == Types /\ QueueInv /\ WaitInv
-----------------------------------------------------------------------------
(* What the constants are, for the provers.                                *)
LEMMA Assumed ==
  /\ Waiter \in Threads /\ Primary \subseteq Queues /\ Timelines \cap Queues = {}
  /\ None \notin Timelines /\ None \notin Queues /\ None \notin Events
  /\ MaxTimelines \in Nat /\ MaxPoints \in Nat /\ MaxValue \in Nat /\ MaxCalls \in Nat
  /\ Removed \in Nat /\ MaxValue < Removed /\ MaxCalls < Removed
  BY Dx12Assumption DEF Removed

(* A set of numbers that is not empty has a smallest.                      *)
LEMMA MinIn ==
  ASSUME NEW S \in SUBSET Nat, S # {}
  PROVE  Min(S) \in S /\ \A x \in S : Min(S) <= x
  <1> DEFINE R == OpToRel(<, Nat)
  <1>1. IsWellFoundedOn(R, Nat)
    BY NatLessThanWellFounded
  <1>2. \A x, y \in Nat : y < x => <<y, x>> \in R
    BY DEF OpToRel
  <1> HIDE DEF R
  <1>3. PICK m \in S : \A y \in S : ~ (<<y, m>> \in R)
    BY <1>1, WFMin
  <1>4. \A y \in S : m <= y
    <2>1. SUFFICES ASSUME NEW y \in S PROVE m <= y
      OBVIOUS
    <2>2. m \in Nat /\ y \in Nat /\ ~ (<<y, m>> \in R)
      BY <1>3
    <2>3. ~ (y < m)
      BY <1>2, <2>2
    <2>4. QED
      BY <2>2, <2>3
  <1>5. QED
    BY <1>4 DEF Min

(* Who does what.                                                          *)
LEMMA CallIs ==
  ASSUME Types, NEW t \in Threads
  PROVE  /\ At(t, "draining") => call[t] \in Drainings /\ t # Waiter
         /\ At(t, "hostWait") => call[t] \in HostWaits /\ t # Waiter
         /\ At(t, "observed") => call[t].observed \in Nat /\ t = Waiter
         /\ At(t, "registering") \/ At(t, "waiting") => call[t] \in Waitings /\ t = Waiter
         /\ At(t, "closing") => t = Waiter
  <1>1. call[t] \in CallsOf(t)
    BY DEF Types
  <1>2. CASE t = Waiter
    BY <1>1, <1>2 DEF CallsOf, WaiterCalls, Waitings, At
  <1>3. CASE t # Waiter
    BY <1>1, <1>3 DEF CallsOf, OtherCalls, Drainings, HostWaits, At
  <1>4. QED
    BY <1>2, <1>3

(* A thread's call becomes c.                                              *)
LEMMA CallTyped ==
  ASSUME Types, NEW t \in Threads, NEW c \in CallsOf(t), call' = [call EXCEPT ![t] = c]
  PROVE  /\ DOMAIN call' = Threads /\ \A u \in Threads : call'[u] \in CallsOf(u)
         /\ call'[t] = c /\ \A u \in Threads \ {t} : call'[u] = call[u]
  BY DEF Types

(* A step that leaves queues and fences alone keeps what holds of them.    *)
LEMMA QueueSame ==
  ASSUME IInv, UNCHANGED <<queue, completed, submitted>>, calls' \in Nat, calls <= calls'
  PROVE  SignalsKnown' /\ SignalsRise' /\ ValuesCounted' /\ DeviceRemoved' = DeviceRemoved
  <1>1. DeviceRemoved' = DeviceRemoved
    BY DEF DeviceRemoved
  <1>2. SignalsKnown'
    BY DEF IInv, QueueInv, SignalsKnown
  <1>3. SignalsRise'
    <2>1. \A q \in DOMAIN queue : \A i \in DOMAIN queue[q].work : InTurn(q, i) => InTurn(q, i)'
      BY DEF InTurn
    <2>2. SignalsOnce => SignalsOnce'
      BY DEF SignalsOnce
    <2>3. CompletedKnown => CompletedKnown'
      BY DEF CompletedKnown
    <2>4. QED
      BY <1>1, <2>1, <2>2, <2>3 DEF IInv, QueueInv, SignalsRise
  <1>4. calls \in Nat /\ \A q \in DOMAIN queue : queue[q].value \in Nat
    BY DEF IInv, Types, QueueSet
  <1>5. ValuesCounted'
    BY <1>4 DEF IInv, QueueInv, ValuesCounted
  <1>6. QED
    BY <1>1, <1>2, <1>3, <1>5

(* The same of a step that leaves drains alone as well.                    *)
LEMMA QueueKept ==
  ASSUME IInv, UNCHANGED <<queue, completed, submitted>>,
         calls' \in Nat, calls <= calls',
         \A u \in Threads : At(u, "draining")' => At(u, "draining") /\ call'[u] = call[u]
  PROVE  QueueInv'
  <1>1. SignalsKnown' /\ SignalsRise' /\ ValuesCounted' /\ DeviceRemoved' = DeviceRemoved
    BY QueueSame
  <1>2. OneDrains'
    BY DEF IInv, QueueInv, OneDrains
  <1>3. calls \in Nat /\ \A q \in DOMAIN queue : queue[q].value \in Nat
    BY DEF IInv, Types, QueueSet
  <1>4. Drains1'
    <2>1. SUFFICES ASSUME NEW u \in Threads, At(u, "draining")'
                   PROVE  DrainFits(call[u])'
      BY DEF Drains1
    <2>2. At(u, "draining") /\ call'[u] = call[u]
      BY <2>1
    <2> DEFINE c == call[u]
    <2>3. DrainFits(c) /\ c \in Drainings
      BY <2>2, CallIs DEF IInv, QueueInv, Drains1
    <2>4. call'[u] = c
      BY <2>2
    <2> HIDE DEF c
    <2>5. \A q : Behind(c, q) => /\ q = c.at /\ completed'[q] < c.value
                                /\ \A i \in 1 .. c.owed[q] :
                                     LET w == queue'[q].work[i]
                                     IN w.op = "signal" /\ w.fence = q => w.value < c.value
      BY DEF Behind
    <2>6. \A q \in c.left : q \in DOMAIN queue /\ queue[q].value < calls
      BY <2>3 DEF DrainFits
    <2>7. \A q \in c.left : queue'[q].value < calls'
      BY <1>3, <2>6
    <2>8. QED
      BY <1>1, <2>3, <2>4, <2>5, <2>7 DEF DrainFits, Behind
  <1>5. QED
    BY <1>1, <1>2, <1>4 DEF QueueInv

(* A step that leaves the wait alone and lowers no timeline keeps what     *)
(* holds of it.                                                            *)
LEMMA WaitKept ==
  ASSUME IInv, UNCHANGED wait, call'[Waiter] = call[Waiter],
         completed' \in [Timelines \cup Queues -> 0 .. Removed],
         \A f \in Timelines : completed[f] <= completed'[f]
  PROVE  WaitInv'
  <1>1. \A i \in 1 .. MaxTimelines : Registered(i)'
    <2>1. SUFFICES ASSUME NEW i \in 1 .. MaxTimelines PROVE Registered(i)'
      OBVIOUS
    <2> DEFINE r == wait.registration[i]
    <2>2. Registered(i) /\ r \in Registrations
      BY DEF IInv, Types, WaitSet, WaitInv, RegistrationsFit
    <2>3. r.event # None => r.fence \in Timelines
      BY <2>2 DEF Registered, Registrations
    <2>4. \A f \in Timelines : completed[f] \in Nat /\ completed'[f] \in Nat
      BY Assumed DEF IInv, Types
    <2>5. r.event # None /\ completed'[r.fence] < r.value => completed[r.fence] < r.value
      BY <2>2, <2>3, <2>4, Assumed DEF Registrations
    <2>6. QED
      BY <2>2, <2>5 DEF Registered
  <1>2. RegistrationsApart' /\ ArmedRegistered'
    BY DEF IInv, WaitInv, RegistrationsFit, RegistrationsApart, ArmedRegistered
  <1>3. \A p, events : Covered(p, events) => Covered(p, events)'
    BY DEF Covered
  <1>4. WaiterFits'
    BY <1>3 DEF IInv, WaitInv, WaiterFits
  <1>5. QED
    BY <1>1, <1>2, <1>4 DEF WaitInv, RegistrationsFit

(* Everything is idle to begin with.                                       *)
LEMMA InitIInv == Init => IInv
  <1> SUFFICES ASSUME Init PROVE IInv
    OBVIOUS
  <1>1. /\ queue = [q \in Primary |-> NewQueue] /\ NewQueue \in QueueSet
        /\ \A q \in Primary : queue[q].work = <<>> /\ queue[q].value = 0
    BY EmptySeq DEF Init, NewQueue, QueueSet
  <1>2. /\ completed \in [Timelines \cup Queues -> 0 .. Removed]
        /\ submitted \in [Timelines -> 0 .. MaxValue]
        /\ \A f \in Timelines \cup Queues : completed[f] = 0
        /\ \A f \in Timelines : submitted[f] = 0
    BY Assumed DEF Init
  <1>3. \A t \in Threads : call[t] = [step |-> "idle"] /\ ~ At(t, "draining")
    BY DEF Init, Idle, At
  <1>4. wait \in WaitSet /\ wait.armed = {}
        /\ \A i \in 1 .. MaxTimelines : wait.registration[i] = NoRegistration
    <2>1. NoRegistration \in Registrations
      BY Assumed DEF NoRegistration, Registrations
    <2>2. QED
      BY <2>1 DEF Init, NewWait, WaitSet
  <1>5. Types
    <2>1. \A t \in Threads : call[t] \in CallsOf(t)
      BY <1>3 DEF CallsOf, WaiterCalls, OtherCalls
    <2>2. DOMAIN call = Threads /\ calls \in 0 .. MaxCalls
      BY Assumed DEF Init
    <2>3. DOMAIN queue \subseteq Queues /\ \A q \in DOMAIN queue : queue[q] \in QueueSet
      BY <1>1, Assumed
    <2>4. QED
      BY <1>2, <1>4, <2>1, <2>2, <2>3 DEF Types
  <1>6. QueueInv
    <2>1. \A q \in DOMAIN queue : q \in Queues /\ DOMAIN queue[q].work = {} /\ queue[q].value = 0
      BY <1>1, Assumed
    <2>2. SignalsKnown /\ SignalsOnce
      BY <2>1 DEF SignalsKnown, SignalsOnce
    <2>3. CompletedKnown
      BY <1>2, <2>1 DEF CompletedKnown
    <2>4. SignalsRise
      BY <2>1, <2>2, <2>3 DEF SignalsRise
    <2>5. OneDrains /\ Drains1
      BY <1>3 DEF OneDrains, Drains1
    <2>6. ValuesCounted
      BY <2>1 DEF ValuesCounted, Init
    <2>7. QED
      BY <2>2, <2>4, <2>5, <2>6 DEF QueueInv
  <1>7. WaitInv
    <2>1. NoRegistration.fence = None /\ NoRegistration.event = None /\ NoRegistration.value = 0
      BY DEF NoRegistration
    <2>2. RegistrationsFit
      BY <1>4, <2>1 DEF RegistrationsFit, Registered, RegistrationsApart, ArmedRegistered
    <2>3. WaiterFits
      BY <1>3, Assumed DEF WaiterFits
    <2>4. QED
      BY <2>2, <2>3 DEF WaitInv
  <1>8. QED
    BY <1>5, <1>6, <1>7 DEF IInv
-----------------------------------------------------------------------------
(* What is put into a queue: at most one signal, the last of what is put,  *)
(* which is the next of its timeline and comes after the one before it.    *)
LEMMA PutKept ==
  ASSUME IInv, ~ DeviceRemoved, NEW q \in DOMAIN queue, NEW w \in Seq(WorkSteps), Put(q, w),
         submitted' \in [Timelines -> 0 .. MaxValue],
         \A k \in Timelines : submitted[k] <= submitted'[k],
         \A i \in 1 .. Len(w) : w[i].op = "signal" =>
           \E h \in Timelines :
             /\ i = Len(w) /\ w[i] = SignalStep(h, submitted[h] + 1)
             /\ submitted'[h] = submitted[h] + 1
             /\ \/ completed[h] = submitted[h]
                \/ \E k \in 1 .. Len(queue[q].work) :
                     queue[q].work[k] \in {WaitStep(h, submitted[h]), SignalStep(h, submitted[h])}
                \/ \E k \in 1 .. Len(w) - 1 : w[k] = WaitStep(h, submitted[h]),
         UNCHANGED <<completed, call, wait>>, calls' = calls + 1, calls < MaxCalls
  PROVE  IInv'
  <1> DEFINE s == queue[q].work
             s2 == s \o w
             n == Len(s)
  <1>1. q \in Queues /\ queue[q] \in QueueSet /\ s \in Seq(WorkSteps) /\ queue[q].value \in Nat
    BY DEF IInv, Types, QueueSet
  <1>2. /\ s2 \in Seq(WorkSteps) /\ Len(s2) = n + Len(w) /\ n \in Nat /\ Len(w) \in Nat
        /\ \A i \in 1 .. n : s2[i] = s[i]
        /\ \A i \in 1 .. Len(w) : s2[n + i] = w[i]
    BY <1>1, ConcatProperties, LenProperties
  <1>3. /\ DOMAIN queue' = DOMAIN queue /\ \A p \in DOMAIN queue \ {q} : queue'[p] = queue[p]
        /\ queue'[q] = [queue[q] EXCEPT !.work = s2]
    BY DEF Put
  <1> HIDE DEF s, s2, n
  <1>4. queue'[q] \in QueueSet /\ queue'[q].work = s2 /\ queue'[q].value = queue[q].value
    BY <1>1, <1>2, <1>3 DEF QueueSet
  <1>5. Types'
    <2>1. \A p \in DOMAIN queue : queue'[p] \in QueueSet
      BY <1>3, <1>4 DEF IInv, Types
    <2>2. calls' \in 0 .. MaxCalls
      BY Assumed DEF IInv, Types
    <2>3. \A t \in Threads : call'[t] \in CallsOf(t)
      BY DEF IInv, Types
    <2>4. QED
      BY <1>3, <2>1, <2>2, <2>3 DEF IInv, Types
  <1>6. WaitInv'
    <2>1. \A f \in Timelines : completed[f] <= completed'[f]
      BY Assumed DEF IInv, Types
    <2>2. QED
      BY <2>1, WaitKept DEF IInv, Types
  <1>7. \A p \in DOMAIN queue :
          /\ queue[p].work \in Seq(WorkSteps) /\ queue[p].value \in Nat
          /\ queue'[p].work \in Seq(WorkSteps) /\ queue'[p].value = queue[p].value
          /\ Len(queue[p].work) \in Nat /\ Len(queue'[p].work) \in Nat
          /\ Len(queue[p].work) <= Len(queue'[p].work)
          /\ DOMAIN queue[p].work = 1 .. Len(queue[p].work)
          /\ DOMAIN queue'[p].work = 1 .. Len(queue'[p].work)
          /\ \A i \in 1 .. Len(queue[p].work) : queue'[p].work[i] = queue[p].work[i]
    <2>1. SUFFICES ASSUME NEW p \in DOMAIN queue
                   PROVE  /\ queue[p].work \in Seq(WorkSteps) /\ queue[p].value \in Nat
                          /\ queue'[p].work \in Seq(WorkSteps) /\ queue'[p].value = queue[p].value
                          /\ Len(queue[p].work) <= Len(queue'[p].work)
                          /\ \A i \in 1 .. Len(queue[p].work) : queue'[p].work[i] = queue[p].work[i]
      BY LenProperties
    <2>2. queue[p].work \in Seq(WorkSteps) /\ queue[p].value \in Nat
      BY DEF IInv, Types, QueueSet
    <2>3. CASE p = q
      BY <1>2, <1>4, <2>2, <2>3 DEF s, n
    <2>4. CASE p # q
      BY <1>3, <2>2, <2>4, LenProperties
    <2>5. QED
      BY <2>3, <2>4
  <1>8. \A p \in DOMAIN queue : \A i \in DOMAIN queue'[p].work :
          \/ i \in DOMAIN queue[p].work
          \/ p = q /\ \E k \in 1 .. Len(w) : i = n + k /\ queue'[p].work[i] = w[k]
    <2>1. SUFFICES ASSUME NEW p \in DOMAIN queue, NEW i \in DOMAIN queue'[p].work,
                          i \notin DOMAIN queue[p].work
                   PROVE  p = q /\ \E k \in 1 .. Len(w) : i = n + k /\ queue'[p].work[i] = w[k]
      OBVIOUS
    <2>2. p = q
      BY <1>3, <2>1
    <2>3. i \in 1 .. n + Len(w) /\ i \notin 1 .. n
      BY <1>2, <1>4, <1>7, <2>1, <2>2 DEF n, s
    <2>4. i - n \in 1 .. Len(w) /\ i = n + (i - n)
      BY <1>2, <2>3
    <2>5. queue'[p].work[i] = w[i - n]
      BY <1>2, <1>4, <2>2, <2>4
    <2>6. QED
      BY <2>2, <2>4, <2>5
  (* What holds of the new signal.                                         *)
  <1>9. \A p \in DOMAIN queue : \A i \in DOMAIN queue'[p].work :
          queue'[p].work[i].op = "signal" =>
            \/ i \in DOMAIN queue[p].work /\ queue'[p].work[i] = queue[p].work[i]
            \/ \E h \in Timelines :
                 /\ p = q /\ i = n + Len(w)
                 /\ queue'[p].work[i] = SignalStep(h, submitted[h] + 1)
                 /\ submitted'[h] = submitted[h] + 1
                 /\ \/ completed[h] = submitted[h]
                    \/ \E k \in 1 .. i - 1 :
                         queue'[p].work[k] \in {WaitStep(h, submitted[h]), SignalStep(h, submitted[h])}
    <2>1. SUFFICES ASSUME NEW p \in DOMAIN queue, NEW i \in DOMAIN queue'[p].work,
                          queue'[p].work[i].op = "signal", i \notin DOMAIN queue[p].work
                   PROVE  \E h \in Timelines :
                            /\ p = q /\ i = n + Len(w)
                            /\ queue'[p].work[i] = SignalStep(h, submitted[h] + 1)
                            /\ submitted'[h] = submitted[h] + 1
                            /\ \/ completed[h] = submitted[h]
                               \/ \E k \in 1 .. i - 1 : queue'[p].work[k] \in
                                    {WaitStep(h, submitted[h]), SignalStep(h, submitted[h])}
      <3>1. \A p \in DOMAIN queue : \A i \in DOMAIN queue[p].work :
              queue'[p].work[i] = queue[p].work[i]
        BY <1>7
      <3>2. QED
        BY <3>1
    <2>2. PICK j \in 1 .. Len(w) : p = q /\ i = n + j /\ queue'[p].work[i] = w[j]
      BY <1>8, <2>1
    <2>3. PICK h \in Timelines :
             /\ j = Len(w) /\ w[j] = SignalStep(h, submitted[h] + 1)
             /\ submitted'[h] = submitted[h] + 1
             /\ \/ completed[h] = submitted[h]
                \/ \E k \in 1 .. Len(queue[q].work) :
                     queue[q].work[k] \in {WaitStep(h, submitted[h]), SignalStep(h, submitted[h])}
                \/ \E k \in 1 .. Len(w) - 1 : w[k] = WaitStep(h, submitted[h])
      BY <2>1, <2>2
    <2>4. i = n + Len(w) /\ n \in Nat /\ Len(w) \in Nat /\ Len(w) >= 1 /\ n = Len(queue[q].work)
      BY <1>2, <2>2, <2>3 DEF n, s
    <2>5. ASSUME NEW k \in 1 .. Len(queue[q].work),
                 queue[q].work[k] \in {WaitStep(h, submitted[h]), SignalStep(h, submitted[h])}
          PROVE  \E l \in 1 .. i - 1 :
                   queue'[q].work[l] \in {WaitStep(h, submitted[h]), SignalStep(h, submitted[h])}
      <3>1. k \in 1 .. i - 1
        BY <2>4
      <3>2. queue'[q].work[k] = queue[q].work[k]
        BY <1>7
      <3>3. QED
        BY <2>5, <3>1, <3>2
    <2>6. ASSUME NEW k \in 1 .. Len(w) - 1, w[k] = WaitStep(h, submitted[h])
          PROVE  \E l \in 1 .. i - 1 :
                   queue'[q].work[l] \in {WaitStep(h, submitted[h]), SignalStep(h, submitted[h])}
      <3>1. n + k \in 1 .. i - 1 /\ k \in 1 .. Len(w)
        BY <2>4
      <3>2. queue'[q].work[n + k] = w[k]
        BY <1>2, <1>4, <3>1
      <3>3. QED
        BY <2>6, <3>1, <3>2
    <2>7. \/ completed[h] = submitted[h]
          \/ \E k \in 1 .. i - 1 :
               queue'[q].work[k] \in {WaitStep(h, submitted[h]), SignalStep(h, submitted[h])}
      BY <2>3, <2>5, <2>6
    <2>8. QED
      BY <2>2, <2>3, <2>4, <2>7
  <1>10. /\ submitted \in [Timelines -> 0 .. MaxValue] /\ MaxValue \in Nat
         /\ \A h \in Timelines : submitted[h] \in Nat /\ submitted'[h] \in Nat /\ completed[h] \in Nat
    BY Assumed DEF IInv, Types
  <1>11. \A h, v : /\ SignalStep(h, v).op = "signal" /\ SignalStep(h, v).fence = h
                   /\ SignalStep(h, v).value = v
    BY DEF SignalStep
  <1>12. SignalsKnown /\ SignalsOnce /\ CompletedKnown
         /\ \A p \in DOMAIN queue : \A i \in DOMAIN queue[p].work : InTurn(p, i)
    BY DEF IInv, QueueInv, SignalsRise
  <1>13. SignalsKnown'
    <2>1. SUFFICES ASSUME NEW p \in DOMAIN queue, NEW i \in DOMAIN queue'[p].work,
                          queue'[p].work[i].op = "signal"
                   PROVE  LET x == queue'[p].work[i]
                          IN IF x.fence \in Timelines THEN x.value \in 1 .. submitted'[x.fence]
                             ELSE x.fence = p /\ x.value \in 1 .. queue'[p].value
      BY <1>3 DEF SignalsKnown
    <2>2. CASE i \in DOMAIN queue[p].work /\ queue'[p].work[i] = queue[p].work[i]
      <3> DEFINE x == queue[p].work[i]
      <3>1. IF x.fence \in Timelines THEN x.value \in 1 .. submitted[x.fence]
            ELSE x.fence = p /\ x.value \in 1 .. queue[p].value
        BY <1>12, <2>1, <2>2 DEF SignalsKnown
      <3>2. queue'[p].work[i] = x /\ queue'[p].value = queue[p].value
        BY <1>7, <2>2
      <3> HIDE DEF x
      <3>3. QED
        BY <1>10, <3>1, <3>2
    <2>3. CASE \E h \in Timelines : /\ queue'[p].work[i] = SignalStep(h, submitted[h] + 1)
                                    /\ submitted'[h] = submitted[h] + 1
      BY <1>10, <1>11, <2>3
    <2>4. QED
      BY <1>9, <2>1, <2>2, <2>3
  <1>14. \A p \in DOMAIN queue : \A i \in DOMAIN queue'[p].work : InTurn(p, i)'
    <2>1. SUFFICES ASSUME NEW p \in DOMAIN queue, NEW i \in DOMAIN queue'[p].work,
                          queue'[p].work[i].op = "signal"
                   PROVE  InTurn(p, i)'
      BY DEF InTurn
    <2>2. CASE i \in DOMAIN queue[p].work /\ queue'[p].work[i] = queue[p].work[i]
      <3>1. InTurn(p, i)
        BY <1>12, <2>2
      <3>2. \A k \in 1 .. i - 1 : queue'[p].work[k] = queue[p].work[k]
        BY <1>7, <2>2
      <3>3. QED
        BY <2>2, <3>1, <3>2 DEF InTurn
    <2>3. CASE \E h \in Timelines :
                 /\ queue'[p].work[i] = SignalStep(h, submitted[h] + 1)
                 /\ \/ completed[h] = submitted[h]
                    \/ \E k \in 1 .. i - 1 : queue'[p].work[k] \in
                         {WaitStep(h, submitted[h]), SignalStep(h, submitted[h])}
      <3>1. PICK h \in Timelines :
                 /\ queue'[p].work[i] = SignalStep(h, submitted[h] + 1)
                 /\ \/ completed[h] = submitted[h]
                    \/ \E k \in 1 .. i - 1 : queue'[p].work[k] \in
                         {WaitStep(h, submitted[h]), SignalStep(h, submitted[h])}
        BY <2>3
      <3>2. completed[h] <= submitted[h]
        BY <1>12 DEF CompletedKnown
      <3> DEFINE v == submitted[h] + 1
      <3>3. v - 1 = submitted[h] /\ completed[h] < v
        BY <1>10, <3>2
      <3> HIDE DEF v
      <3>4. queue'[p].work[i] = SignalStep(h, v)
        BY <3>1 DEF v
      <3>5. \/ completed[h] = v - 1
            \/ \E k \in 1 .. i - 1 :
                 queue'[p].work[k] \in {WaitStep(h, v - 1), SignalStep(h, v - 1)}
        BY <3>1, <3>3
      <3>6. QED
        BY <1>11, <3>3, <3>4, <3>5 DEF InTurn
    <2>4. QED
      BY <1>9, <2>1, <2>2, <2>3
  <1>15. SignalsOnce'
    <2>1. SUFFICES ASSUME NEW x \in DOMAIN queue, NEW y \in DOMAIN queue,
                          NEW i \in DOMAIN queue'[x].work, NEW j \in DOMAIN queue'[y].work,
                          queue'[x].work[i] = queue'[y].work[j],
                          queue'[x].work[i].op = "signal", queue'[x].work[i].fence \in Timelines
                   PROVE  x = y /\ i = j
      BY <1>3 DEF SignalsOnce
    <2> DEFINE Old(p, k) == k \in DOMAIN queue[p].work /\ queue'[p].work[k] = queue[p].work[k]
               Added(p, k) == p = q /\ k = n + Len(w) /\ \E h \in Timelines :
                                queue'[p].work[k] = SignalStep(h, submitted[h] + 1)
    <2>2. Old(x, i) \/ Added(x, i)
      BY <1>9, <2>1
    <2>3. Old(y, j) \/ Added(y, j)
      BY <1>9, <2>1
    <2>4. ASSUME NEW p \in DOMAIN queue, NEW k, Old(p, k), NEW r, NEW l, Added(r, l)
          PROVE  queue'[p].work[k] # queue'[r].work[l]
      <3>1. PICK h \in Timelines : queue'[r].work[l] = SignalStep(h, submitted[h] + 1)
        BY <2>4
      <3>2. SUFFICES ASSUME queue[p].work[k] = SignalStep(h, submitted[h] + 1) PROVE FALSE
        BY <2>4, <3>1
      <3>3. submitted[h] + 1 \in 1 .. submitted[h]
        BY <1>11, <1>12, <2>4, <3>2 DEF SignalsKnown
      <3>4. QED
        BY <1>10, <3>3
    <2>5. CASE Old(x, i) /\ Old(y, j)
      <3>1. /\ i \in DOMAIN queue[x].work /\ j \in DOMAIN queue[y].work
            /\ queue[x].work[i] = queue[y].work[j]
            /\ queue[x].work[i].op = "signal" /\ queue[x].work[i].fence \in Timelines
        BY <2>1, <2>5
      <3>2. SignalsOnce
        BY <1>12
      <3> HIDE DEF Old, Added
      <3>3. QED
        BY <3>1, <3>2 DEF SignalsOnce
    <2>6. CASE Added(x, i) /\ Added(y, j)
      BY <2>6
    <2> HIDE DEF Old, Added
    <2>7. QED
      BY <2>1, <2>2, <2>3, <2>4, <2>5, <2>6
  <1>16. CompletedKnown'
    <2>1. \A h \in Timelines : completed'[h] <= submitted'[h]
      <3>1. SUFFICES ASSUME NEW h \in Timelines PROVE completed[h] <= submitted'[h]
        OBVIOUS
      <3>2. completed[h] <= submitted[h] /\ submitted[h] <= submitted'[h]
        BY <1>12 DEF CompletedKnown
      <3>3. QED
        BY <1>10, <3>2
    <2>2. \A p \in DOMAIN queue' : completed'[p] <= queue'[p].value
      BY <1>3, <1>7, <1>12 DEF CompletedKnown
    <2>3. QED
      BY <2>1, <2>2 DEF CompletedKnown
  <1>17. ValuesCounted'
    <2>1. \A p \in DOMAIN queue : queue[p].value <= calls /\ calls \in Nat
      BY DEF IInv, QueueInv, ValuesCounted, Types
    <2>2. QED
      BY <1>3, <1>7, <2>1 DEF ValuesCounted
  <1>18. OneDrains'
    BY DEF IInv, QueueInv, OneDrains, At
  <1>19. Drains1'
    <2>1. SUFFICES ASSUME NEW t \in Threads, At(t, "draining") PROVE DrainFits(call[t])'
      BY DEF Drains1, At
    <2> DEFINE c == call[t]
    <2>2. DrainFits(c) /\ c \in Drainings /\ c' = c
      BY <2>1, CallIs DEF IInv, QueueInv, Drains1
    <2> HIDE DEF c
    <2>3. \A p \in DOMAIN c.owed : p \in DOMAIN queue /\ c.owed[p] \in Nat
      BY <2>2 DEF DrainFits, Drainings
    <2>4. \A p \in DOMAIN c.owed : c.owed[p] <= Len(queue'[p].work)
      BY <1>7, <2>2, <2>3 DEF DrainFits
    <2>5. \A p \in c.left : queue'[p].value < calls'
      <3>1. SUFFICES ASSUME NEW p \in c.left PROVE queue'[p].value < calls'
        OBVIOUS
      <3>2. p \in DOMAIN queue /\ queue[p].value < calls
        BY <2>2 DEF DrainFits
      <3>3. QED
        BY <1>7, <3>2 DEF IInv, Types
    <2>6. \A p \in DOMAIN c.owed : Behind(c, p) =>
            /\ p = c.at /\ completed'[p] < c.value
            /\ \A i \in 1 .. c.owed[p] :
                 LET x == queue'[p].work[i]
                 IN x.op = "signal" /\ x.fence = p => x.value < c.value
      <3>1. SUFFICES ASSUME NEW p \in DOMAIN c.owed, Behind(c, p), NEW i \in 1 .. c.owed[p]
                     PROVE  queue'[p].work[i] = queue[p].work[i]
        BY DEF Behind
      <3>2. c.owed[p] <= Len(queue[p].work)
        BY <2>2 DEF DrainFits
      <3>3. i \in 1 .. Len(queue[p].work)
        BY <1>7, <2>3, <3>2
      <3>4. QED
        BY <1>7, <2>3, <3>3
    <2>7. QED
      BY <1>3, <2>2, <2>4, <2>5, <2>6 DEF DrainFits, Behind, c
  <1>20. SignalsRise'
    BY <1>3, <1>14, <1>15, <1>16 DEF SignalsRise
  <1>21. QED
    BY <1>5, <1>6, <1>13, <1>17, <1>18, <1>19, <1>20 DEF IInv, QueueInv

(* The steps that wait for what is submitted.                              *)
LEMMA WaitForIs ==
  ASSUME Types, NEW ws \in {<<>>} \cup {<<h>> : h \in Timelines}
  PROVE  /\ WaitFor(ws) \in Seq(WorkSteps) /\ Len(WaitFor(ws)) \in Nat /\ DOMAIN ws \subseteq Nat
         /\ DOMAIN ws = 1 .. Len(WaitFor(ws))
         /\ \A i \in 1 .. Len(WaitFor(ws)) : /\ WaitFor(ws)[i] = WaitStep(ws[i], submitted[ws[i]])
                                             /\ WaitFor(ws)[i].op = "wait"
  <1>1. CASE ws = <<>>
    <2>1. WaitFor(ws) = <<>>
      BY <1>1 DEF WaitFor
    <2>2. <<>> \in Seq(WorkSteps) /\ Len(<<>>) = 0 /\ DOMAIN <<>> = {} /\ 1 .. 0 = {}
      BY EmptySeq
    <2>3. QED
      BY <1>1, <2>1, <2>2
  <1>2. CASE \E h \in Timelines : ws = <<h>>
    <2>1. PICK h \in Timelines : ws = <<h>>
      BY <1>2
    <2>2. /\ WaitStep(h, submitted[h]) \in WorkSteps /\ WaitStep(h, submitted[h]).op = "wait"
      BY DEF WaitStep, WorkSteps, Types
    <2>3. WaitFor(ws) = <<WaitStep(h, submitted[h])>>
      BY <2>1 DEF WaitFor
    <2> DEFINE x == WaitStep(h, submitted[h])
    <2> HIDE DEF x
    <2>4. WaitFor(ws) = <<x>> /\ x \in WorkSteps /\ x.op = "wait"
      BY <2>2, <2>3 DEF x
    <2>5. /\ WaitFor(ws) \in Seq(WorkSteps) /\ Len(WaitFor(ws)) = 1 /\ WaitFor(ws)[1] = x
          /\ DOMAIN ws = 1 .. 1 /\ ws[1] = h
      <3>1. <<x>> \in Seq(WorkSteps)
        BY <2>4
      <3>2. Len(<<x>>) = 1 /\ <<x>>[1] = x /\ DOMAIN <<h>> = 1 .. 1 /\ <<h>>[1] = h
        OBVIOUS
      <3>3. QED
        BY <2>1, <2>4, <3>1, <3>2
    <2>6. \A i \in 1 .. 1 : i = 1
      OBVIOUS
    <2>7. QED
      BY <2>4, <2>5, <2>6 DEF x
  <1>3. QED
    BY <1>1, <1>2

(* Submitting and queueing signals and waits keep the invariant.           *)
LEMMA SubmitStep ==
  ASSUME IInv, NEW t \in Threads, NEW q \in DOMAIN queue, Submit(t, q)
  PROVE  IInv'
  <1>1. Types /\ Run \in WorkSteps /\ Run.op = "run" /\ MaxValue \in Nat
    BY Assumed DEF IInv, WorkSteps, Run
  <1>2. ~ DeviceRemoved /\ UNCHANGED <<completed, call, wait>> /\ calls' = calls + 1 /\ calls < MaxCalls
    BY DEF Submit, Begins
  <1>3. /\ submitted \in [Timelines -> 0 .. MaxValue]
        /\ \A k \in Timelines : submitted[k] \in Nat /\ submitted[k] <= submitted[k]
    BY <1>1 DEF Types
  <1>4. PICK ws \in {<<>>} \cup {<<h>> : h \in Timelines}, h \in Timelines :
       \/ /\ submitted[h] < MaxValue /\ Follows(q, h, ws)
          /\ Put(q, WaitFor(ws) \o <<Run, SignalStep(h, submitted[h] + 1)>>)
          /\ submitted' = [submitted EXCEPT ![h] = @ + 1]
       \/ Put(q, WaitFor(ws) \o <<Run>>) /\ UNCHANGED submitted
       \/ Put(q, WaitFor(ws)) /\ UNCHANGED submitted
    BY DEF Submit
  <1> DEFINE u == WaitFor(ws)
             n == Len(u)
             v == submitted[h] + 1
  <1>5. /\ u \in Seq(WorkSteps) /\ n \in Nat /\ DOMAIN ws = 1 .. n
        /\ \A i \in 1 .. n : u[i] = WaitStep(ws[i], submitted[ws[i]]) /\ u[i].op = "wait"
    BY <1>1, WaitForIs
  <1> HIDE DEF u, n
  <1>6. CASE Put(q, u) /\ UNCHANGED submitted
    <2>1. \A i \in 1 .. Len(u) : u[i].op # "signal"
      BY <1>5 DEF n
    <2>2. QED
      BY <1>2, <1>3, <1>5, <1>6, <2>1, PutKept
  <1>7. CASE Put(q, u \o <<Run>>) /\ UNCHANGED submitted
    <2> DEFINE w == u \o <<Run>>
    <2>1. <<Run>> \in Seq(WorkSteps) /\ Len(<<Run>>) = 1 /\ <<Run>>[1] = Run
      BY <1>1
    <2>2. /\ w \in Seq(WorkSteps) /\ Len(w) = n + 1 /\ \A i \in 1 .. n : w[i] = u[i]
          /\ w[n + 1] = Run
      <3>1. \A i \in 1 .. Len(<<Run>>) : w[Len(u) + i] = <<Run>>[i]
        BY <1>5, <2>1, ConcatProperties
      <3>2. /\ w \in Seq(WorkSteps) /\ Len(w) = Len(u) + Len(<<Run>>)
            /\ \A i \in 1 .. Len(u) : w[i] = u[i]
        BY <1>5, <2>1, ConcatProperties
      <3> HIDE DEF w
      <3>3. QED
        BY <1>5, <2>1, <3>1, <3>2 DEF n
    <2> HIDE DEF w
    <2>3. \A i \in 1 .. Len(w) : w[i].op # "signal"
      <3>1. \A i \in 1 .. Len(w) : i \in 1 .. n \/ i = n + 1
        BY <1>5, <2>2
      <3>2. QED
        BY <1>1, <1>5, <2>2, <3>1
    <2>4. Put(q, w)
      BY <1>7 DEF w
    <2>5. QED
      BY <1>2, <1>3, <1>7, <2>2, <2>3, <2>4, PutKept
  <1>8. CASE /\ submitted[h] < MaxValue /\ Follows(q, h, ws)
             /\ Put(q, u \o <<Run, SignalStep(h, v)>>)
             /\ submitted' = [submitted EXCEPT ![h] = @ + 1]
    <2> DEFINE S == SignalStep(h, v)
               e == <<Run, S>>
               w == u \o e
    <2>1. /\ submitted' \in [Timelines -> 0 .. MaxValue] /\ submitted'[h] = v
          /\ \A k \in Timelines : submitted[k] <= submitted'[k]
      BY <1>1, <1>3, <1>8
    <2>2. S \in WorkSteps
      BY <1>3 DEF SignalStep, WorkSteps
    <2> HIDE DEF S
    <2>3. e \in Seq(WorkSteps) /\ Len(e) = 2 /\ e[1] = Run /\ e[2] = S
      BY <1>1, <2>2
    <2> HIDE DEF e
    <2>4. /\ w \in Seq(WorkSteps) /\ Len(w) = n + 2 /\ \A i \in 1 .. n : w[i] = u[i]
          /\ w[n + 1] = Run /\ w[n + 2] = S
      <3>1. u \in Seq(WorkSteps) /\ e \in Seq(WorkSteps)
        BY <1>5, <2>3
      <3>2. \A i \in 1 .. Len(e) : w[Len(u) + i] = e[i]
        BY <3>1, ConcatProperties
      <3>3. /\ w \in Seq(WorkSteps) /\ Len(w) = Len(u) + Len(e)
            /\ \A i \in 1 .. Len(u) : w[i] = u[i]
        BY <3>1, ConcatProperties
      <3> HIDE DEF w
      <3>4. QED
        BY <1>5, <2>3, <3>2, <3>3 DEF n
    <2> HIDE DEF w
    <2>5. \A i \in 1 .. Len(w) : w[i].op = "signal" => i = Len(w) /\ w[i] = S
      <3>1. \A i \in 1 .. Len(w) : i \in 1 .. n \/ i = n + 1 \/ i = n + 2
        BY <1>5, <2>4
      <3>2. QED
        BY <1>1, <1>5, <2>4, <3>1
    <2>6. \/ completed[h] = submitted[h]
          \/ \E k \in 1 .. Len(queue[q].work) :
               queue[q].work[k] \in {WaitStep(h, submitted[h]), SignalStep(h, submitted[h])}
          \/ \E k \in 1 .. Len(w) - 1 : w[k] = WaitStep(h, submitted[h])
      <3>1. DOMAIN queue[q].work = 1 .. Len(queue[q].work)
        BY <1>1, LenProperties DEF Types, QueueSet
      <3>2. ASSUME NEW i \in DOMAIN ws, ws[i] = h
            PROVE  \E k \in 1 .. Len(w) - 1 : w[k] = WaitStep(h, submitted[h])
        <4>1. i \in 1 .. n /\ i \in 1 .. Len(w) - 1
          BY <1>5, <2>4
        <4>2. w[i] = WaitStep(h, submitted[h])
          BY <1>5, <2>4, <3>2, <4>1
        <4>3. QED
          BY <4>1, <4>2
      <3>3. QED
        BY <1>8, <3>1, <3>2 DEF Follows
    <2>7. Put(q, w)
      BY <1>8 DEF w, e, S
    <2>8. \A i \in 1 .. Len(w) : w[i].op = "signal" =>
           \E k \in Timelines :
             /\ i = Len(w) /\ w[i] = SignalStep(k, submitted[k] + 1)
             /\ submitted'[k] = submitted[k] + 1
             /\ \/ completed[k] = submitted[k]
                \/ \E l \in 1 .. Len(queue[q].work) :
                     queue[q].work[l] \in {WaitStep(k, submitted[k]), SignalStep(k, submitted[k])}
                \/ \E l \in 1 .. Len(w) - 1 : w[l] = WaitStep(k, submitted[k])
      BY <2>1, <2>5, <2>6 DEF S
    <2>9. QED
      BY <1>2, <2>1, <2>4, <2>7, <2>8, PutKept
  <1>9. QED
    BY <1>4, <1>6, <1>7, <1>8 DEF u

(* A signal of its own keeps the invariant.                                *)
LEMMA QueueSignalStep ==
  ASSUME IInv, NEW t \in Threads, NEW q \in DOMAIN queue, QueueSignal(t, q)
  PROVE  IInv'
  <1>1. Types /\ MaxValue \in Nat
    BY Assumed DEF IInv
  <1>2. ~ DeviceRemoved /\ UNCHANGED <<completed, call, wait>> /\ calls' = calls + 1 /\ calls < MaxCalls
    BY DEF QueueSignal, Begins
  <1>3. /\ submitted \in [Timelines -> 0 .. MaxValue]
        /\ \A k \in Timelines : submitted[k] \in Nat /\ submitted[k] <= submitted[k]
    BY <1>1 DEF Types
  <1>4. PICK h \in Timelines :
          /\ submitted[h] < MaxValue /\ Follows(q, h, <<>>)
          /\ Put(q, <<SignalStep(h, submitted[h] + 1)>>)
          /\ submitted' = [submitted EXCEPT ![h] = @ + 1]
    BY DEF QueueSignal
  <1> DEFINE v == submitted[h] + 1
             S == SignalStep(h, v)
             w == <<S>>
  <1>5. /\ submitted' \in [Timelines -> 0 .. MaxValue] /\ submitted'[h] = v
        /\ \A k \in Timelines : submitted[k] <= submitted'[k]
    BY <1>1, <1>3, <1>4
  <1>6. S \in WorkSteps
    BY <1>3 DEF SignalStep, WorkSteps
  <1> HIDE DEF S
  <1>7. w \in Seq(WorkSteps) /\ Len(w) = 1 /\ w[1] = S /\ \A i \in 1 .. Len(w) : i = 1
    BY <1>6
  <1> HIDE DEF w
  <1>8. \/ completed[h] = submitted[h]
        \/ \E k \in 1 .. Len(queue[q].work) :
             queue[q].work[k] \in {WaitStep(h, submitted[h]), SignalStep(h, submitted[h])}
    <2>1. DOMAIN queue[q].work = 1 .. Len(queue[q].work)
      BY <1>1, LenProperties DEF Types, QueueSet
    <2>2. QED
      BY <1>4, <2>1 DEF Follows
  <1>9. \A i \in 1 .. Len(w) : w[i].op = "signal" =>
         \E k \in Timelines :
           /\ i = Len(w) /\ w[i] = SignalStep(k, submitted[k] + 1)
           /\ submitted'[k] = submitted[k] + 1
           /\ \/ completed[k] = submitted[k]
              \/ \E l \in 1 .. Len(queue[q].work) :
                   queue[q].work[l] \in {WaitStep(k, submitted[k]), SignalStep(k, submitted[k])}
              \/ \E l \in 1 .. Len(w) - 1 : w[l] = WaitStep(k, submitted[k])
    BY <1>5, <1>7, <1>8 DEF S
  <1>10. Put(q, w)
    BY <1>4 DEF w, S
  <1>11. QED
    BY <1>2, <1>5, <1>7, <1>9, <1>10, PutKept

(* So does a wait of its own.                                              *)
LEMMA QueueWaitStep ==
  ASSUME IInv, NEW t \in Threads, NEW q \in DOMAIN queue, QueueWait(t, q)
  PROVE  IInv'
  <1>1. Types
    BY DEF IInv
  <1>2. /\ ~ DeviceRemoved /\ UNCHANGED <<completed, submitted, call, wait>>
        /\ calls' = calls + 1 /\ calls < MaxCalls
    BY DEF QueueWait, Begins
  <1>3. /\ submitted \in [Timelines -> 0 .. MaxValue]
        /\ \A k \in Timelines : submitted[k] <= submitted[k]
    BY <1>1, Assumed DEF Types
  <1>4. PICK h \in Timelines : Put(q, WaitFor(<<h>>))
    BY DEF QueueWait
  <1> DEFINE u == WaitFor(<<h>>)
  <1>5. u \in Seq(WorkSteps) /\ \A i \in 1 .. Len(u) : u[i].op # "signal"
    BY <1>1, WaitForIs
  <1> HIDE DEF u
  <1>6. Put(q, u)
    BY <1>4 DEF u
  <1>7. QED
    BY <1>2, <1>3, <1>5, <1>6, PutKept
-----------------------------------------------------------------------------
(* What a step of a queue does to what is queued and reached.              *)
LEMMA Executed ==
  ASSUME IInv, NEW q \in DOMAIN queue, Execute(q)
  PROVE  LET w == queue[q].work[1] IN
         /\ w \in WorkSteps /\ 1 \in DOMAIN queue[q].work
         /\ w.op = "wait" => completed[w.fence] >= w.value
         /\ w.op = "signal" => completed' = [completed EXCEPT ![w.fence] = w.value]
         /\ w.op # "signal" => completed' = completed
         /\ DOMAIN queue' = DOMAIN queue
         /\ \A p \in DOMAIN queue :
              /\ queue'[p] \in QueueSet /\ queue'[p].value = queue[p].value
              /\ Len(queue[p].work) \in Nat /\ Len(queue'[p].work) \in Nat
              /\ Len(queue'[p].work) = Len(queue[p].work) - (IF p = q THEN 1 ELSE 0)
              /\ DOMAIN queue[p].work = 1 .. Len(queue[p].work)
              /\ DOMAIN queue'[p].work = 1 .. Len(queue'[p].work)
              /\ \A i \in DOMAIN queue'[p].work :
                   /\ p # q => i \in DOMAIN queue[p].work /\ queue'[p].work[i] = queue[p].work[i]
                   /\ p = q => i + 1 \in DOMAIN queue[p].work
                               /\ queue'[p].work[i] = queue[p].work[i + 1]
  <1> DEFINE s == queue[q].work
             w == s[1]
  <1>1. queue[q] \in QueueSet /\ s \in Seq(WorkSteps) /\ s # <<>> /\ w = Head(s)
    BY DEF IInv, Types, QueueSet, Execute
  <1>2. /\ w \in WorkSteps /\ Len(s) \in Nat /\ 1 \in 1 .. Len(s) /\ DOMAIN s = 1 .. Len(s)
        /\ Tail(s) \in Seq(WorkSteps) /\ Len(Tail(s)) = Len(s) - 1
        /\ \A i \in 1 .. Len(Tail(s)) : Tail(s)[i] = s[i + 1]
    <2>1. s \in Seq(WorkSteps) /\ s # <<>>
      BY <1>1
    <2> HIDE DEF s
    <2>2. /\ Head(s) \in WorkSteps /\ Tail(s) \in Seq(WorkSteps) /\ Len(Tail(s)) = Len(s) - 1
          /\ \A i \in 1 .. Len(Tail(s)) : Tail(s)[i] = s[i + 1]
      BY <2>1, HeadTailProperties
    <2>3. Len(s) \in Nat /\ Len(s) # 0 /\ DOMAIN s = 1 .. Len(s)
      BY <2>1, LenProperties, EmptySeq
    <2>4. QED
      BY <1>1, <2>2, <2>3
  <1>3. /\ w.op = "wait" => completed[w.fence] >= w.value
        /\ completed' = IF w.op = "signal" THEN [completed EXCEPT ![w.fence] = w.value] ELSE completed
    BY <1>1 DEF Execute
  <1>4. /\ DOMAIN queue' = DOMAIN queue /\ \A p \in DOMAIN queue \ {q} : queue'[p] = queue[p]
        /\ queue'[q] = [queue[q] EXCEPT !.work = Tail(s)]
    BY DEF Execute
  <1> HIDE DEF s
  <1>5. queue'[q] \in QueueSet /\ queue'[q].work = Tail(s) /\ queue'[q].value = queue[q].value
    BY <1>1, <1>2, <1>4 DEF QueueSet
  <1>6. ASSUME NEW p \in DOMAIN queue
        PROVE  /\ queue'[p] \in QueueSet /\ queue'[p].value = queue[p].value
               /\ Len(queue[p].work) \in Nat /\ Len(queue'[p].work) \in Nat
               /\ Len(queue'[p].work) = Len(queue[p].work) - (IF p = q THEN 1 ELSE 0)
               /\ DOMAIN queue[p].work = 1 .. Len(queue[p].work)
               /\ DOMAIN queue'[p].work = 1 .. Len(queue'[p].work)
               /\ \A i \in DOMAIN queue'[p].work :
                    /\ p # q => i \in DOMAIN queue[p].work /\ queue'[p].work[i] = queue[p].work[i]
                    /\ p = q => i + 1 \in DOMAIN queue[p].work
                                /\ queue'[p].work[i] = queue[p].work[i + 1]
    <2>1. queue[p].work \in Seq(WorkSteps) /\ queue[p] \in QueueSet
      BY DEF IInv, Types, QueueSet
    <2>2. Len(queue[p].work) \in Nat /\ DOMAIN queue[p].work = 1 .. Len(queue[p].work)
      BY <2>1, LenProperties
    <2>3. CASE p = q
      <3>1. queue'[p].work = Tail(s) /\ s = queue[p].work /\ Len(Tail(s)) \in Nat
            /\ DOMAIN Tail(s) = 1 .. Len(Tail(s))
        BY <1>2, <1>5, <2>3, LenProperties DEF s
      <3>2. \A i \in 1 .. Len(Tail(s)) : i + 1 \in 1 .. Len(s)
        BY <1>2
      <3>3. QED
        BY <1>2, <1>5, <2>2, <2>3, <3>1, <3>2
    <2>4. CASE p # q
      BY <1>4, <2>1, <2>2, <2>4
    <2>5. QED
      BY <2>3, <2>4
  <1>7. QED
    BY <1>2, <1>3, <1>4, <1>6 DEF s

(* A queue's next step reaches its fences in turn.                         *)
LEMMA ExecutedInTurn ==
  ASSUME IInv, NEW q \in DOMAIN queue, Execute(q), UNCHANGED submitted
  PROVE  /\ completed' \in [Timelines \cup Queues -> 0 .. Removed]
         /\ \A f \in Timelines : completed[f] <= completed'[f]
         /\ SignalsKnown' /\ SignalsRise'
         /\ \A p \in DOMAIN queue :
              \/ completed'[p] = completed[p]
              \/ /\ p = q /\ queue[q].work[1].op = "signal" /\ queue[q].work[1].fence = q
                 /\ completed'[p] = queue[q].work[1].value
  <1> DEFINE w == queue[q].work[1]
  <1>1. ~ DeviceRemoved
    BY DEF Execute
  <1>2. SignalsKnown /\ SignalsOnce /\ CompletedKnown
         /\ \A p \in DOMAIN queue : \A i \in DOMAIN queue[p].work : InTurn(p, i)
    BY <1>1 DEF IInv, QueueInv, SignalsRise
  <1>3. /\ completed \in [Timelines \cup Queues -> 0 .. Removed]
        /\ submitted \in [Timelines -> 0 .. MaxValue] /\ MaxValue \in Nat /\ Removed \in Nat
        /\ MaxValue < Removed /\ MaxCalls < Removed /\ calls \in 0 .. MaxCalls /\ MaxCalls \in Nat
        /\ \A p \in DOMAIN queue : /\ p \in Queues /\ p \notin Timelines
                                   /\ queue[p].value \in Nat /\ queue[p].value <= calls
    BY Assumed DEF IInv, Types, QueueSet, QueueInv, ValuesCounted
  <1>4. /\ w \in WorkSteps /\ 1 \in DOMAIN queue[q].work
        /\ w.op = "wait" => completed[w.fence] >= w.value
        /\ w.op = "signal" => completed' = [completed EXCEPT ![w.fence] = w.value]
        /\ w.op # "signal" => completed' = completed
        /\ DOMAIN queue' = DOMAIN queue
    BY Executed
  <1>5. w.op = "signal" =>
          IF w.fence \in Timelines THEN w.value \in 1 .. submitted[w.fence]
                                   ELSE w.fence = q /\ w.value \in 1 .. queue[q].value
    BY <1>2, <1>4 DEF SignalsKnown
  <1>6. w.op = "signal" /\ w.fence \in Timelines => completed[w.fence] + 1 = w.value
    <2>1. SUFFICES ASSUME w.op = "signal", w.fence \in Timelines
                   PROVE  completed[w.fence] + 1 = w.value
      OBVIOUS
    <2>2. InTurn(q, 1)
      BY <1>2, <1>4
    <2>3. completed[w.fence] = w.value - 1
      BY <2>1, <2>2 DEF InTurn
    <2>4. w.value \in Nat /\ completed[w.fence] \in Nat
      BY <1>3, <1>5, <2>1
    <2>5. QED
      BY <2>3, <2>4
  <1> HIDE DEF w
  <1>7. completed' \in [Timelines \cup Queues -> 0 .. Removed]
    <2>1. CASE w.op = "signal"
      <3>1. w.value \in 0 .. Removed
        <4>1. CASE w.fence \in Timelines
          <5>1. w.value \in 1 .. submitted[w.fence] /\ submitted[w.fence] \in 0 .. MaxValue
            BY <1>3, <1>5, <2>1, <4>1
          <5>2. QED
            BY <1>3, <5>1
        <4>2. CASE w.fence \notin Timelines
          <5>1. w.value \in 1 .. queue[q].value /\ queue[q].value <= calls /\ queue[q].value \in Nat
            BY <1>3, <1>5, <2>1, <4>2
          <5>2. QED
            BY <1>3, <5>1
        <4>3. QED
          BY <4>1, <4>2
      <3>2. QED
        BY <1>3, <1>4, <2>1, <3>1
    <2>2. CASE w.op # "signal"
      BY <1>3, <1>4, <2>2
    <2>3. QED
      BY <2>1, <2>2
  <1>8. \A f \in Timelines \cup Queues :
          \/ completed'[f] = completed[f]
          \/ w.op = "signal" /\ w.fence = f /\ completed'[f] = w.value
    BY <1>3, <1>4
  <1>9. \A f \in Timelines : /\ completed[f] \in Nat /\ completed'[f] \in Nat
                             /\ completed[f] <= completed'[f]
    <2>1. SUFFICES ASSUME NEW f \in Timelines
                   PROVE  /\ completed[f] \in Nat /\ completed'[f] \in Nat
                          /\ completed[f] <= completed'[f]
      OBVIOUS
    <2>2. completed[f] \in Nat /\ completed'[f] \in Nat
      BY <1>3, <1>7
    <2>3. completed'[f] = completed[f] \/ completed'[f] = completed[f] + 1
      BY <1>6, <1>8
    <2>4. QED
      BY <2>2, <2>3
  <1>10. \A p \in DOMAIN queue :
           \/ completed'[p] = completed[p]
           \/ p = q /\ w.op = "signal" /\ w.fence = q /\ completed'[p] = w.value
    BY <1>3, <1>5, <1>8
  <1>11. \A p \in DOMAIN queue :
              /\ queue'[p].value = queue[p].value
              /\ Len(queue'[p].work) \in Nat /\ DOMAIN queue'[p].work = 1 .. Len(queue'[p].work)
              /\ \A i \in DOMAIN queue'[p].work :
                   /\ p # q => i \in DOMAIN queue[p].work /\ queue'[p].work[i] = queue[p].work[i]
                   /\ p = q => i + 1 \in DOMAIN queue[p].work
                               /\ queue'[p].work[i] = queue[p].work[i + 1]
    BY Executed
  <1>12. SignalsKnown'
    <2>1. SUFFICES ASSUME NEW p \in DOMAIN queue, NEW i \in DOMAIN queue'[p].work,
                          queue'[p].work[i].op = "signal"
                   PROVE  LET x == queue'[p].work[i]
                          IN IF x.fence \in Timelines THEN x.value \in 1 .. submitted[x.fence]
                             ELSE x.fence = p /\ x.value \in 1 .. queue[p].value
      BY <1>4, <1>11 DEF SignalsKnown
    <2>2. PICK j \in DOMAIN queue[p].work : queue'[p].work[i] = queue[p].work[j]
      BY <1>11
    <2>3. QED
      BY <1>2, <2>1, <2>2 DEF SignalsKnown
  <1>13. SignalsOnce'
    <2>1. SUFFICES ASSUME NEW x \in DOMAIN queue, NEW y \in DOMAIN queue,
                          NEW i \in DOMAIN queue'[x].work, NEW j \in DOMAIN queue'[y].work,
                          queue'[x].work[i] = queue'[y].work[j],
                          queue'[x].work[i].op = "signal", queue'[x].work[i].fence \in Timelines
                   PROVE  x = y /\ i = j
      BY <1>4 DEF SignalsOnce
    <2>2. PICK k \in DOMAIN queue[x].work : /\ queue'[x].work[i] = queue[x].work[k]
                                            /\ k = IF x = q THEN i + 1 ELSE i
      BY <1>11
    <2>3. PICK l \in DOMAIN queue[y].work : /\ queue'[y].work[j] = queue[y].work[l]
                                            /\ l = IF y = q THEN j + 1 ELSE j
      BY <1>11
    <2>4. x = y /\ k = l
      <3>1. /\ queue[x].work[k] = queue[y].work[l]
            /\ queue[x].work[k].op = "signal" /\ queue[x].work[k].fence \in Timelines
        BY <2>1, <2>2, <2>3
      <3>2. SignalsOnce
        BY <1>2
      <3>3. QED
        BY <3>1, <3>2 DEF SignalsOnce
    <2>5. i \in Nat /\ j \in Nat
      BY <1>11
    <2>6. QED
      BY <2>2, <2>3, <2>4, <2>5
  <1>14. CompletedKnown'
    <2>1. \A h \in Timelines : completed'[h] <= submitted[h]
      BY <1>2, <1>5, <1>8 DEF CompletedKnown
    <2>2. \A p \in DOMAIN queue : completed'[p] <= queue[p].value
      BY <1>2, <1>3, <1>5, <1>10 DEF CompletedKnown
    <2>3. QED
      BY <1>4, <1>11, <2>1, <2>2 DEF CompletedKnown
  <1>15. ASSUME NEW p \in DOMAIN queue, NEW i \in DOMAIN queue'[p].work
         PROVE  InTurn(p, i)'
    <2> DEFINE x == queue'[p].work[i]
               h == x.fence
               v == x.value
               j == IF p = q THEN i + 1 ELSE i
    <2>1. SUFFICES ASSUME x.op = "signal", h \in Timelines
                   PROVE  /\ completed'[h] < v
                          /\ \/ completed'[h] = v - 1
                             \/ \E k \in 1 .. i - 1 : queue'[p].work[k] \in
                                  {WaitStep(h, v - 1), SignalStep(h, v - 1)}
      BY DEF InTurn
    <2>2. j \in DOMAIN queue[p].work /\ x = queue[p].work[j] /\ i \in Nat /\ i >= 1
      BY <1>11, <1>15
    <2> HIDE DEF x
    <2>3. /\ completed[h] < v
          /\ \/ completed[h] = v - 1
             \/ \E k \in 1 .. j - 1 : queue[p].work[k] \in {WaitStep(h, v - 1), SignalStep(h, v - 1)}
      <3>1. InTurn(p, j)
        BY <1>2, <2>2
      <3> HIDE DEF j
      <3>2. QED
        BY <2>1, <2>2, <3>1 DEF InTurn
    <2>4. v \in Nat /\ completed[h] \in Nat /\ completed'[h] \in Nat
      <3>1. v \in 1 .. submitted[h]
        BY <1>2, <2>1, <2>2 DEF SignalsKnown
      <3>2. QED
        BY <1>9, <2>1, <3>1
    <2>5. ASSUME NEW k \in 1 .. j - 1, p # q \/ k # 1,
                 queue[p].work[k] \in {WaitStep(h, v - 1), SignalStep(h, v - 1)}
          PROVE  \E l \in 1 .. i - 1 : queue'[p].work[l] \in
                                  {WaitStep(h, v - 1), SignalStep(h, v - 1)}
      <3> DEFINE l == IF p = q THEN k - 1 ELSE k
      <3>1. l \in 1 .. i - 1 /\ l \in DOMAIN queue'[p].work
        BY <1>11, <1>15, <2>2, <2>5
      <3>2. queue'[p].work[l] = queue[p].work[k]
        BY <1>11, <2>5, <3>1
      <3> HIDE DEF l
      <3>3. QED
        BY <2>5, <3>1, <3>2
    <2>6. p = q => queue[p].work[1] = w /\ j # 1
      BY <2>2 DEF w
    <2>7. CASE w.op = "signal" /\ w.fence = h
      <3>1. completed'[h] = w.value /\ completed[h] + 1 = w.value
        BY <1>3, <1>4, <1>6, <2>1, <2>7
      <3>2. v # w.value
        <4>1. SUFFICES ASSUME v = w.value PROVE FALSE
          OBVIOUS
        <4>2. x \in WorkSteps
          BY <2>2, Executed, ElementOfSeq DEF IInv, Types, QueueSet
        <4>3. x = w
          BY <1>4, <2>1, <2>7, <4>1, <4>2 DEF WorkSteps, Run
        <4>4. queue[p].work[j] = queue[q].work[1] /\ queue[p].work[j].op = "signal"
              /\ queue[p].work[j].fence \in Timelines
          BY <2>1, <2>2, <4>3 DEF w
        <4>5. p = q /\ j = 1
          <5>1. SignalsOnce /\ 1 \in DOMAIN queue[q].work /\ j \in DOMAIN queue[p].work
            BY <1>2, <1>4, <2>2
          <5> HIDE DEF j
          <5>2. QED
            BY <4>4, <5>1 DEF SignalsOnce
        <4>6. QED
          BY <2>6, <4>5
      <3>3. completed'[h] < v /\ completed[h] # v - 1
        BY <2>3, <2>4, <3>1, <3>2
      <3>4. PICK k \in 1 .. j - 1 :
              queue[p].work[k] \in {WaitStep(h, v - 1), SignalStep(h, v - 1)}
        BY <2>3, <3>3
      <3>5. CASE p = q /\ k = 1
        <4>1. w.value = v - 1
          BY <2>6, <2>7, <3>4, <3>5 DEF WaitStep, SignalStep
        <4>2. QED
          BY <3>1, <3>3, <4>1
      <3>6. CASE p # q \/ k # 1
        BY <2>5, <3>3, <3>4, <3>6
      <3>7. QED
        BY <3>5, <3>6
    <2>8. CASE ~ (w.op = "signal" /\ w.fence = h)
      <3>1. completed'[h] = completed[h]
        BY <1>8, <2>1, <2>8
      <3>2. CASE completed[h] = v - 1
        BY <2>3, <3>1, <3>2
      <3>3. CASE completed[h] # v - 1
        <4>1. PICK k \in 1 .. j - 1 :
                queue[p].work[k] \in {WaitStep(h, v - 1), SignalStep(h, v - 1)}
          BY <2>3, <3>3
        <4>2. CASE p = q /\ k = 1
          <5>1. w.op = "wait" /\ w.fence = h /\ w.value = v - 1
            BY <2>6, <2>8, <4>1, <4>2 DEF WaitStep, SignalStep
          <5>2. completed[h] >= v - 1
            BY <1>4, <5>1
          <5>3. QED
            BY <2>3, <2>4, <3>3, <5>2
        <4>3. CASE p # q \/ k # 1
          BY <2>3, <2>5, <3>1, <4>1, <4>3
        <4>4. QED
          BY <4>2, <4>3
      <3>4. QED
        BY <3>2, <3>3
    <2>9. QED
      BY <2>7, <2>8
  <1>16. SignalsRise'
    BY <1>4, <1>13, <1>14, <1>15 DEF SignalsRise
  <1>17. QED
    BY <1>7, <1>9, <1>10, <1>12, <1>16 DEF w

(* A step of a queue keeps the invariant: what a drain is still owed gets  *)
(* less with the work before its signal.                                   *)
LEMMA ExecuteStep ==
  ASSUME IInv, NEW q \in DOMAIN queue, Execute(q)
  PROVE  IInv'
  <1> DEFINE w == queue[q].work[1]
  <1>1. /\ UNCHANGED <<submitted, calls, wait>>
        /\ call' = [t \in Threads |-> IF At(t, "draining") /\ q \in DOMAIN call[t].owed
                                      THEN [call[t] EXCEPT !.owed[q] = IF @ = 0 THEN 0 ELSE @ - 1]
                                      ELSE call[t]]
    BY DEF Execute
  <1>2. /\ completed' \in [Timelines \cup Queues -> 0 .. Removed]
        /\ \A f \in Timelines : completed[f] <= completed'[f]
        /\ SignalsKnown' /\ SignalsRise'
        /\ \A p \in DOMAIN queue :
              \/ completed'[p] = completed[p]
              \/ p = q /\ w.op = "signal" /\ w.fence = q /\ completed'[p] = w.value
    BY <1>1, ExecutedInTurn
  <1>3. /\ DOMAIN queue' = DOMAIN queue /\ 1 \in DOMAIN queue[q].work
        /\ \A p \in DOMAIN queue :
             /\ queue'[p] \in QueueSet /\ queue'[p].value = queue[p].value
             /\ Len(queue[p].work) \in Nat /\ Len(queue'[p].work) \in Nat
             /\ Len(queue'[p].work) = Len(queue[p].work) - (IF p = q THEN 1 ELSE 0)
             /\ DOMAIN queue[p].work = 1 .. Len(queue[p].work)
             /\ DOMAIN queue'[p].work = 1 .. Len(queue'[p].work)
             /\ \A i \in DOMAIN queue'[p].work :
                  /\ p # q => i \in DOMAIN queue[p].work /\ queue'[p].work[i] = queue[p].work[i]
                  /\ p = q => i + 1 \in DOMAIN queue[p].work
                              /\ queue'[p].work[i] = queue[p].work[i + 1]
    BY Executed
  <1> HIDE DEF w
  <1>4. ASSUME NEW t \in Threads, At(t, "draining")
        PROVE  LET c == call[t]
                   d == call'[t]
               IN /\ t # Waiter /\ c \in Drainings /\ d \in Drainings
                  /\ d.left = c.left /\ d.at = c.at /\ d.value = c.value
                  /\ DOMAIN d.owed = DOMAIN c.owed
                  /\ \A p \in DOMAIN c.owed :
                       /\ c.owed[p] \in Nat
                       /\ d.owed[p] = IF p = q /\ c.owed[p] # 0 THEN c.owed[p] - 1 ELSE c.owed[p]
    <2> DEFINE c == call[t]
               d == call'[t]
    <2>1. t # Waiter /\ c \in Drainings
      BY <1>4, CallIs DEF IInv
    <2>2. d = IF q \in DOMAIN c.owed THEN [c EXCEPT !.owed[q] = IF @ = 0 THEN 0 ELSE @ - 1] ELSE c
      BY <1>1, <1>4
    <2> HIDE DEF c, d
    <2>3. PICK qs \in SUBSET Queues : c.owed \in [qs -> Nat]
      BY <2>1 DEF Drainings
    <2>4. CASE q \in DOMAIN c.owed
      <3> DEFINE o == [c.owed EXCEPT ![q] = IF @ = 0 THEN 0 ELSE @ - 1]
      <3>1. d = [c EXCEPT !.owed = o]
        BY <2>2, <2>4
      <3>2. /\ o \in [qs -> Nat]
            /\ \A p \in qs : o[p] = IF p = q /\ c.owed[p] # 0 THEN c.owed[p] - 1 ELSE c.owed[p]
        BY <2>3, <2>4
      <3> HIDE DEF o
      <3>3. /\ d \in Drainings /\ d.left = c.left /\ d.at = c.at /\ d.value = c.value
            /\ d.owed = o
        BY <2>1, <3>1, <3>2 DEF Drainings
      <3>4. QED
        BY <2>1, <2>3, <3>2, <3>3 DEF c, d
    <2>5. CASE q \notin DOMAIN c.owed
      BY <2>1, <2>2, <2>3, <2>5 DEF c, d
    <2>6. QED
      BY <2>4, <2>5
  <1>5. \A t \in Threads : /\ call'[t].step = call[t].step
                           /\ ~ At(t, "draining") => call'[t] = call[t]
    <2>1. SUFFICES ASSUME NEW t \in Threads
                   PROVE  /\ call'[t].step = call[t].step
                          /\ ~ At(t, "draining") => call'[t] = call[t]
      OBVIOUS
    <2>2. CASE At(t, "draining")
      <3>1. call[t] \in Drainings /\ call'[t] \in Drainings
        BY <1>4, <2>2
      <3>2. QED
        BY <2>2, <3>1 DEF Drainings
    <2>3. CASE ~ At(t, "draining")
      BY <1>1, <2>3
    <2>4. QED
      BY <2>2, <2>3
  <1>6. Types'
    <2>1. \A t \in Threads : call'[t] \in CallsOf(t)
      <3>1. SUFFICES ASSUME NEW t \in Threads PROVE call'[t] \in CallsOf(t)
        OBVIOUS
      <3>2. CASE At(t, "draining")
        BY <1>4, <3>2 DEF CallsOf, OtherCalls
      <3>3. CASE ~ At(t, "draining")
        BY <1>5, <3>3 DEF IInv, Types
      <3>4. QED
        BY <3>2, <3>3
    <2>2. DOMAIN call' = Threads
      BY <1>1
    <2>3. DOMAIN queue' \subseteq Queues /\ \A p \in DOMAIN queue' : queue'[p] \in QueueSet
      BY <1>3 DEF IInv, Types
    <2>4. QED
      BY <1>1, <1>2, <2>1, <2>2, <2>3 DEF IInv, Types
  <1>7. WaitInv'
    <2>1. call'[Waiter] = call[Waiter]
      BY <1>4, <1>5, Assumed
    <2>2. QED
      BY <1>1, <1>2, <2>1, WaitKept
  <1>8. OneDrains'
    BY <1>5 DEF IInv, QueueInv, OneDrains, At
  <1>9. ValuesCounted'
    BY <1>1, <1>3 DEF IInv, QueueInv, ValuesCounted
  <1>10. Drains1'
    <2>1. SUFFICES ASSUME NEW t \in Threads, At(t, "draining") PROVE DrainFits(call[t])'
      BY <1>5 DEF Drains1, At
    <2> DEFINE c == call[t]
               d == call'[t]
    <2>2. /\ DrainFits(c) /\ c \in Drainings
          /\ d.left = c.left /\ d.at = c.at /\ d.value = c.value
          /\ DOMAIN d.owed = DOMAIN c.owed
          /\ \A p \in DOMAIN c.owed :
               /\ c.owed[p] \in Nat
               /\ d.owed[p] = IF p = q /\ c.owed[p] # 0 THEN c.owed[p] - 1 ELSE c.owed[p]
      BY <1>4, <2>1 DEF IInv, QueueInv, Drains1
    <2> HIDE DEF c, d
    <2>3. /\ DOMAIN c.owed \subseteq DOMAIN queue /\ c.left \subseteq DOMAIN c.owed
          /\ c.at \in (DOMAIN c.owed \ c.left) \cup {None}
          /\ \A p \in DOMAIN c.owed : c.owed[p] <= Len(queue[p].work)
          /\ \A p \in c.left : queue[p].value < calls
          /\ \A p \in DOMAIN c.owed \ c.left : c.owed[p] = 0 \/ Behind(c, p)
      <3>1. ~ DeviceRemoved
        BY DEF Execute
      <3>2. QED
        BY <2>2, <3>1 DEF DrainFits
    <2>4. \A p \in DOMAIN d.owed : d.owed[p] <= Len(queue'[p].work)
      <3>1. SUFFICES ASSUME NEW p \in DOMAIN c.owed PROVE d.owed[p] <= Len(queue'[p].work)
        BY <2>2
      <3>2. /\ p \in DOMAIN queue /\ c.owed[p] <= Len(queue[p].work) /\ c.owed[p] \in Nat
            /\ d.owed[p] = IF p = q /\ c.owed[p] # 0 THEN c.owed[p] - 1 ELSE c.owed[p]
        BY <2>2, <2>3
      <3> DEFINE m == Len(queue[p].work)
                 n == Len(queue'[p].work)
      <3>3. m \in Nat /\ n \in Nat /\ n = m - (IF p = q THEN 1 ELSE 0)
        BY <1>3, <3>2
      <3>4. c.owed[p] <= m
        BY <3>2
      <3> HIDE DEF m, n
      <3>5. d.owed[p] <= n
        BY <3>2, <3>3, <3>4
      <3>6. QED
        BY <3>5 DEF n
    <2>5. ASSUME NEW p \in DOMAIN c.owed \ c.left
          PROVE  \/ d.owed[p] = 0
                 \/ /\ p = d.at /\ completed'[p] < d.value
                    /\ \A i \in 1 .. d.owed[p] :
                         LET x == queue'[p].work[i]
                         IN x.op = "signal" /\ x.fence = p => x.value < d.value
      <3>1. /\ p \in DOMAIN queue /\ c.owed[p] \in Nat /\ c.owed[p] <= Len(queue[p].work)
            /\ d.owed[p] = IF p = q /\ c.owed[p] # 0 THEN c.owed[p] - 1 ELSE c.owed[p]
        BY <2>2, <2>3
      <3>2. CASE c.owed[p] = 0
        BY <3>1, <3>2
      <3>3. CASE c.owed[p] # 0
        <4>1. /\ p = c.at /\ completed[p] < c.value
              /\ \A i \in 1 .. c.owed[p] :
                   LET x == queue[p].work[i]
                   IN x.op = "signal" /\ x.fence = p => x.value < c.value
          BY <2>3, <3>3 DEF Behind
        <4>2. completed'[p] < c.value
          <5>1. CASE completed'[p] = completed[p]
            BY <4>1, <5>1
          <5>2. CASE p = q /\ w.op = "signal" /\ w.fence = q /\ completed'[p] = w.value
            <6>1. 1 \in 1 .. c.owed[p] /\ queue[p].work[1] = w
              BY <3>1, <3>3, <5>2 DEF w
            <6>2. QED
              BY <4>1, <5>2, <6>1
          <5>3. QED
            BY <1>2, <3>1, <5>1, <5>2
        <4>3. ASSUME NEW i \in 1 .. d.owed[p],
                     queue'[p].work[i].op = "signal", queue'[p].work[i].fence = p
              PROVE  queue'[p].work[i].value < c.value
          <5>1. /\ Len(queue[p].work) \in Nat /\ Len(queue'[p].work) \in Nat
                /\ Len(queue'[p].work) = Len(queue[p].work) - (IF p = q THEN 1 ELSE 0)
                /\ DOMAIN queue'[p].work = 1 .. Len(queue'[p].work)
            BY <1>3, <3>1
          <5>2. i \in DOMAIN queue'[p].work
            <6> DEFINE m == Len(queue[p].work)
                       n == Len(queue'[p].work)
            <6>1. m \in Nat /\ n \in Nat /\ n = m - (IF p = q THEN 1 ELSE 0)
              BY <5>1
            <6>2. c.owed[p] <= m /\ c.owed[p] \in Nat
              BY <3>1
            <6> HIDE DEF m, n
            <6>3. i \in 1 .. n
              BY <3>1, <3>3, <6>1, <6>2
            <6>4. QED
              BY <5>1, <6>3 DEF n
          <5>3. CASE p = q
            <6>1. i + 1 \in 1 .. c.owed[p]
              BY <3>1, <3>3, <5>3
            <6>2. queue'[p].work[i] = queue[p].work[i + 1]
              BY <1>3, <3>1, <5>2, <5>3
            <6>3. QED
              BY <4>1, <4>3, <6>1, <6>2
          <5>4. CASE p # q
            <6>1. i \in 1 .. c.owed[p]
              BY <3>1, <5>4
            <6>2. queue'[p].work[i] = queue[p].work[i]
              BY <1>3, <3>1, <5>2, <5>4
            <6>3. QED
              BY <4>1, <4>3, <6>1, <6>2
          <5>5. QED
            BY <5>3, <5>4
        <4>4. QED
          BY <2>2, <4>1, <4>2, <4>3
      <3>4. QED
        BY <3>2, <3>3
    <2>6. \A p \in d.left : queue'[p].value < calls'
      BY <1>1, <1>3, <2>2, <2>3
    <2>7. /\ DOMAIN d.owed \subseteq DOMAIN queue' /\ d.left \subseteq DOMAIN d.owed
          /\ d.at \in (DOMAIN d.owed \ d.left) \cup {None}
          /\ DOMAIN d.owed \ d.left = DOMAIN c.owed \ c.left
      BY <1>3, <2>2, <2>3
    <2>8. QED
      BY <2>4, <2>5, <2>6, <2>7 DEF DrainFits, Behind, d
  <1>11. QED
    BY <1>2, <1>6, <1>7, <1>8, <1>9, <1>10 DEF IInv, QueueInv

(* The removal of the device takes every fence to its last value.          *)
LEMMA RemoveDeviceStep ==
  ASSUME IInv, RemoveDevice
  PROVE  IInv'
  <1>1. /\ UNCHANGED <<queue, submitted, call, calls, wait>> /\ ~ DeviceRemoved
        /\ completed' = [f \in DOMAIN completed |-> Removed]
    BY DEF RemoveDevice
  <1>2. completed \in [Timelines \cup Queues -> 0 .. Removed] /\ Removed \in Nat
    BY Assumed DEF IInv, Types
  <1>3. completed' \in [Timelines \cup Queues -> 0 .. Removed]
    BY <1>1, <1>2
  <1>4. Types'
    BY <1>1, <1>3 DEF IInv, Types, CallsOf
  <1>5. WaitInv'
    <2>1. \A f \in Timelines : completed[f] <= completed'[f]
      BY <1>1, <1>2
    <2>2. QED
      BY <1>1, <1>3, <2>1, WaitKept
  <1>6. calls \in Nat
    BY DEF IInv, Types
  <1>7. CASE Timelines \cup Queues = {}
    <2>1. completed' = completed
      BY <1>1, <1>2, <1>7
    <2>2. QueueInv'
      BY <1>1, <1>6, <2>1, QueueKept DEF At
    <2>3. QED
      BY <1>4, <1>5, <2>2 DEF IInv
  <1>8. CASE Timelines \cup Queues # {}
    <2>1. DeviceRemoved'
      BY <1>1, <1>2, <1>8 DEF DeviceRemoved
    <2>2. SignalsKnown' /\ OneDrains' /\ ValuesCounted'
      BY <1>1 DEF IInv, QueueInv, SignalsKnown, OneDrains, ValuesCounted, At
    <2>3. SignalsRise'
      BY <2>1 DEF SignalsRise
    <2>4. Drains1'
      BY <1>1, <2>1 DEF IInv, QueueInv, Drains1, DrainFits, At
    <2>5. QED
      BY <1>4, <1>5, <2>2, <2>3, <2>4 DEF IInv, QueueInv
  <1>9. QED
    BY <1>7, <1>8

(* A new queue has nothing to do.                                          *)
LEMMA CreateQueueStep ==
  ASSUME IInv, NEW t \in Threads, NEW q \in Queues, CreateQueue(t, q)
  PROVE  IInv'
  <1>1. /\ UNCHANGED <<completed, submitted, call, wait>> /\ calls' = calls + 1 /\ calls < MaxCalls
        /\ queue' = [p \in DOMAIN queue \cup {q} |-> IF p = q THEN NewQueue ELSE queue[p]]
        /\ q \notin DOMAIN queue /\ completed[q] = 0 /\ ~ DeviceRemoved
        /\ \A u \in Threads : ~ At(u, "draining")
    BY DEF CreateQueue, Begins
  <1>2. NewQueue \in QueueSet /\ DOMAIN NewQueue.work = {} /\ NewQueue.value = 0
    <2>1. <<>> \in Seq(WorkSteps) /\ DOMAIN <<>> = {}
      BY EmptySeq
    <2>2. QED
      BY <2>1 DEF NewQueue, QueueSet
  <1>3. /\ DOMAIN queue' = DOMAIN queue \cup {q} /\ queue'[q] = NewQueue
        /\ \A p \in DOMAIN queue : p # q /\ queue'[p] = queue[p]
    BY <1>1
  <1>4. calls \in Nat /\ calls' \in 0 .. MaxCalls /\ calls' \in Nat
    BY <1>1, Assumed DEF IInv, Types
  <1>5. Types'
    <2>1. DOMAIN queue' \subseteq Queues /\ \A p \in DOMAIN queue' : queue'[p] \in QueueSet
      BY <1>2, <1>3 DEF IInv, Types
    <2>2. \A u \in Threads : call'[u] \in CallsOf(u)
      BY <1>1 DEF IInv, Types
    <2>3. QED
      BY <1>1, <1>4, <2>1, <2>2 DEF IInv, Types
  <1>6. WaitInv'
    <2>1. \A f \in Timelines : completed[f] <= completed'[f]
      BY <1>1, Assumed DEF IInv, Types
    <2>2. QED
      BY <1>1, <2>1, WaitKept DEF IInv, Types
  <1>7. \A p \in DOMAIN queue' : DOMAIN queue'[p].work # {} => p \in DOMAIN queue /\ queue'[p] = queue[p]
    BY <1>2, <1>3
  <1>8. SignalsKnown'
    <2>1. SignalsKnown
      BY DEF IInv, QueueInv
    <2>2. SUFFICES ASSUME NEW p \in DOMAIN queue', NEW i \in DOMAIN queue'[p].work,
                          queue'[p].work[i].op = "signal"
                   PROVE  LET x == queue'[p].work[i]
                          IN IF x.fence \in Timelines THEN x.value \in 1 .. submitted[x.fence]
                             ELSE x.fence = p /\ x.value \in 1 .. queue'[p].value
      <3>1. submitted' = submitted
        BY <1>1
      <3>2. QED
        BY <3>1 DEF SignalsKnown
    <2>3. p \in DOMAIN queue /\ queue'[p] = queue[p]
      BY <1>7, <2>2
    <2>4. QED
      BY <2>1, <2>2, <2>3 DEF SignalsKnown
  <1>9. ~ DeviceRemoved'
    BY <1>1 DEF DeviceRemoved
  <1>10. SignalsRise'
    <2>1. SignalsOnce /\ CompletedKnown
          /\ \A p \in DOMAIN queue : \A i \in DOMAIN queue[p].work : InTurn(p, i)
      BY <1>1 DEF IInv, QueueInv, SignalsRise
    <2>2. SignalsOnce'
      <3>1. SUFFICES ASSUME NEW x \in DOMAIN queue', NEW y \in DOMAIN queue',
                            NEW i \in DOMAIN queue'[x].work, NEW j \in DOMAIN queue'[y].work,
                            queue'[x].work[i] = queue'[y].work[j],
                            queue'[x].work[i].op = "signal", queue'[x].work[i].fence \in Timelines
                     PROVE  x = y /\ i = j
        BY DEF SignalsOnce
      <3>2. /\ x \in DOMAIN queue /\ queue'[x] = queue[x]
            /\ y \in DOMAIN queue /\ queue'[y] = queue[y]
        BY <1>7, <3>1
      <3>3. QED
        BY <2>1, <3>1, <3>2 DEF SignalsOnce
    <2>3. CompletedKnown'
      <3>1. completed[q] <= NewQueue.value
        BY <1>1, <1>2
      <3>2. QED
        BY <1>1, <1>3, <2>1, <3>1 DEF CompletedKnown
    <2>4. ASSUME NEW p \in DOMAIN queue', NEW i \in DOMAIN queue'[p].work
          PROVE  InTurn(p, i)'
      <3>1. p \in DOMAIN queue /\ queue'[p] = queue[p]
        BY <1>7, <2>4
      <3>2. InTurn(p, i)
        BY <2>1, <2>4, <3>1
      <3>3. QED
        BY <1>1, <3>1, <3>2 DEF InTurn
    <2>5. QED
      BY <2>2, <2>3, <2>4 DEF SignalsRise
  <1>11. ValuesCounted'
    <2>1. \A p \in DOMAIN queue : queue[p].value \in Nat /\ queue[p].value <= calls
      BY DEF IInv, Types, QueueSet, QueueInv, ValuesCounted
    <2>2. \A p \in DOMAIN queue' : queue'[p].value <= calls'
      BY <1>1, <1>2, <1>3, <1>4, <2>1
    <2>3. QED
      BY <2>2 DEF ValuesCounted
  <1>12. OneDrains' /\ Drains1'
    BY <1>1 DEF OneDrains, Drains1, At
  <1>13. QED
    BY <1>5, <1>6, <1>8, <1>10, <1>11, <1>12 DEF IInv, QueueInv

(* A drain begins: it owes all that is in its queues.                      *)
LEMMA DrainsStep ==
  ASSUME IInv, NEW t \in Threads, NEW qs \in SUBSET DOMAIN queue, NEW x \in Queues \cup {None},
         Drains(t, qs, x)
  PROVE  IInv'
  <1> DEFINE o == [q \in qs |-> Len(queue[q].work)]
             d == [step |-> "draining", left |-> qs, at |-> None, value |-> 0, destroys |-> x,
                   owed |-> o]
  <1>1. /\ UNCHANGED <<queue, completed, submitted, wait>> /\ calls' = calls + 1 /\ calls < MaxCalls
        /\ t # Waiter /\ call' = [call EXCEPT ![t] = d]
        /\ \A u \in Threads : ~ At(u, "draining")
    BY DEF Drains, Begins
  <1>2. \A q \in DOMAIN queue : /\ q \in Queues /\ queue[q].value \in Nat /\ queue[q].value <= calls
                                /\ Len(queue[q].work) \in Nat
    BY LenProperties DEF IInv, Types, QueueSet, QueueInv, ValuesCounted
  <1>3. calls \in Nat /\ calls' \in 0 .. MaxCalls /\ calls' \in Nat
    BY <1>1, Assumed DEF IInv, Types
  <1>4. qs \in SUBSET Queues /\ o \in [qs -> Nat] /\ \A q \in qs : o[q] = Len(queue[q].work)
    BY <1>2
  <1> HIDE DEF o
  <1>5. /\ d \in Drainings /\ d.left = qs /\ d.at = None /\ d.owed = o /\ d.step = "draining"
    BY <1>4 DEF Drainings
  <1> HIDE DEF d
  <1>6. d \in CallsOf(t)
    BY <1>1, <1>5 DEF CallsOf, OtherCalls
  <1>7. /\ DOMAIN call' = Threads /\ \A u \in Threads : call'[u] \in CallsOf(u)
        /\ call'[t] = d /\ \A u \in Threads \ {t} : call'[u] = call[u]
    BY <1>1, <1>6, CallTyped DEF IInv
  <1>8. Types'
    BY <1>1, <1>3, <1>7 DEF IInv, Types
  <1>9. WaitInv'
    <2>1. \A f \in Timelines : completed[f] <= completed'[f]
      BY <1>1, Assumed DEF IInv, Types
    <2>2. call'[Waiter] = call[Waiter]
      BY <1>1, <1>7, Assumed
    <2>3. QED
      BY <1>1, <2>1, <2>2, WaitKept DEF IInv, Types
  <1>10. SignalsKnown' /\ SignalsRise' /\ ValuesCounted'
    BY <1>1, <1>3, QueueSame
  <1>11. \A u \in Threads : At(u, "draining")' => u = t
    BY <1>1, <1>7 DEF At
  <1>12. DrainFits(call[t])'
    <2>1. \A q \in qs : queue[q].value < calls'
      BY <1>1, <1>2, <1>3
    <2>2. \A q \in qs : o[q] <= Len(queue[q].work)
      BY <1>2, <1>4
    <2>3. DOMAIN o = qs
      BY <1>4
    <2>4. QED
      BY <1>1, <1>5, <1>7, <2>1, <2>2, <2>3 DEF DrainFits
  <1>13. OneDrains' /\ Drains1'
    BY <1>11, <1>12 DEF OneDrains, Drains1
  <1>14. QED
    BY <1>8, <1>9, <1>10, <1>13 DEF IInv, QueueInv

(* The wait for one queue of the drain is over: nothing is owed there.     *)
LEMMA DrainedStep ==
  ASSUME IInv, NEW t \in Threads, Drained(t)
  PROVE  IInv'
  <1> DEFINE c == call[t]
             d == [c EXCEPT !.at = None]
  <1>1. /\ UNCHANGED <<queue, completed, submitted, calls, wait>>
        /\ call' = [call EXCEPT ![t] = d]
        /\ At(t, "draining") /\ c.at # None /\ completed[c.at] >= c.value
    BY DEF Drained
  <1>2. c \in Drainings /\ t # Waiter /\ DrainFits(c)
    BY <1>1, CallIs DEF IInv, QueueInv, Drains1
  <1> HIDE DEF c
  <1>3. /\ d \in Drainings /\ d.left = c.left /\ d.owed = c.owed /\ d.at = None
    BY <1>2 DEF Drainings
  <1> HIDE DEF d
  <1>4. d \in CallsOf(t)
    BY <1>2, <1>3 DEF CallsOf, OtherCalls
  <1>5. /\ DOMAIN call' = Threads /\ \A u \in Threads : call'[u] \in CallsOf(u)
        /\ call'[t] = d /\ \A u \in Threads \ {t} : call'[u] = call[u]
    BY <1>1, <1>4, CallTyped DEF IInv
  <1>6. Types'
    BY <1>1, <1>5 DEF IInv, Types
  <1>7. WaitInv'
    <2>1. \A f \in Timelines : completed[f] <= completed'[f]
      BY <1>1, Assumed DEF IInv, Types
    <2>2. call'[Waiter] = call[Waiter]
      BY <1>2, <1>5, Assumed
    <2>3. QED
      BY <1>1, <2>1, <2>2, WaitKept DEF IInv, Types
  <1>8. calls \in Nat
    BY DEF IInv, Types
  <1>9. SignalsKnown' /\ SignalsRise' /\ ValuesCounted' /\ DeviceRemoved' = DeviceRemoved
    BY <1>1, <1>8, QueueSame
  <1>10. \A u \in Threads : At(u, "draining")' => u = t
    BY <1>1, <1>5 DEF IInv, QueueInv, OneDrains, At
  <1>11. ~ DeviceRemoved => \A q \in DOMAIN c.owed \ c.left : c.owed[q] = 0
    <2>1. SUFFICES ASSUME ~ DeviceRemoved, NEW q \in DOMAIN c.owed \ c.left, Behind(c, q)
                   PROVE  FALSE
      BY <1>2 DEF DrainFits
    <2>2. q = c.at /\ completed[q] < c.value
      BY <2>1 DEF Behind
    <2>3. q \in Queues /\ completed[q] \in Nat /\ c.value \in Nat
      <3>1. q \in Queues
        BY <1>2 DEF DrainFits, IInv, Types
      <3>2. QED
        BY <1>2, <3>1, Assumed DEF IInv, Types, Drainings
    <2>4. QED
      BY <1>1, <2>2, <2>3
  <1>12. DrainFits(call[t])'
    BY <1>1, <1>2, <1>3, <1>5, <1>9, <1>11 DEF DrainFits
  <1>13. OneDrains' /\ Drains1'
    BY <1>10, <1>12 DEF OneDrains, Drains1
  <1>14. QED
    BY <1>6, <1>7, <1>9, <1>13 DEF IInv, QueueInv

(* The drain of the next queue: its signal comes after all that is owed.   *)
LEMMA DrainNextStep ==
  ASSUME IInv, NEW t \in Threads, DrainNext(t)
  PROVE  IInv'
  <1> DEFINE c == call[t]
  <1>1. PICK q \in c.left :
          /\ queue' = [queue EXCEPT ![q].value = queue[q].value + 1,
                                    ![q].work = IF DeviceRemoved THEN @
                                                ELSE Append(@, SignalStep(q, queue[q].value + 1))]
          /\ call' = [call EXCEPT ![t].left = @ \ {q},
                                  ![t].at = IF DeviceRemoved THEN None ELSE q,
                                  ![t].value = queue[q].value + 1]
    BY DEF DrainNext
  <1>2. /\ UNCHANGED <<completed, submitted, calls, wait>>
        /\ At(t, "draining") /\ c.at = None
    BY DEF DrainNext
  <1>3. c \in Drainings /\ t # Waiter /\ DrainFits(c)
    BY <1>2, CallIs DEF IInv, QueueInv, Drains1
  <1>4. q \in DOMAIN queue /\ q \in Queues /\ queue[q] \in QueueSet /\ queue[q].value < calls
        /\ c.left \subseteq DOMAIN c.owed /\ DOMAIN c.owed \subseteq DOMAIN queue
    BY <1>1, <1>3 DEF DrainFits, IInv, Types
  <1> DEFINE v == queue[q].value + 1
             s == queue[q].work
             s2 == IF DeviceRemoved THEN s ELSE Append(s, SignalStep(q, v))
             n == Len(s)
             d == [c EXCEPT !.left = c.left \ {q}, !.at = IF DeviceRemoved THEN None ELSE q,
                            !.value = v]
  <1>5. /\ queue[q].value \in Nat /\ v \in Nat /\ calls \in Nat /\ v <= calls
        /\ s \in Seq(WorkSteps) /\ n \in Nat /\ DOMAIN s = 1 .. n
    BY <1>4, LenProperties DEF IInv, Types, QueueSet
  <1>6. /\ SignalStep(q, v) \in WorkSteps /\ SignalStep(q, v).op = "signal"
        /\ SignalStep(q, v).fence = q /\ SignalStep(q, v).value = v
    BY <1>4, <1>5 DEF SignalStep, WorkSteps
  <1>7. /\ s2 \in Seq(WorkSteps) /\ \A i \in 1 .. n : s2[i] = s[i]
        /\ DeviceRemoved => s2 = s
        /\ ~ DeviceRemoved => Len(s2) = n + 1 /\ s2[n + 1] = SignalStep(q, v)
    BY <1>5, <1>6, AppendProperties
  <1>8. call' = [call EXCEPT ![t] = d]
    BY <1>1, <1>3 DEF IInv, Types
  <1>9. /\ DOMAIN queue' = DOMAIN queue /\ \A p \in DOMAIN queue \ {q} : queue'[p] = queue[p]
        /\ queue'[q] = [queue[q] EXCEPT !.value = v, !.work = s2]
    BY <1>1, <1>4
  <1> HIDE DEF s, s2, n, v, c
  <1>10. queue'[q] \in QueueSet /\ queue'[q].value = v /\ queue'[q].work = s2
    BY <1>4, <1>5, <1>7, <1>9 DEF QueueSet
  <1>11. /\ d \in Drainings /\ d.left = c.left \ {q} /\ d.owed = c.owed /\ d.value = v
         /\ d.at = IF DeviceRemoved THEN None ELSE q
    BY <1>3, <1>4, <1>5 DEF Drainings
  <1> HIDE DEF d
  <1>12. d \in CallsOf(t)
    BY <1>3, <1>11 DEF CallsOf, OtherCalls
  <1>13. /\ DOMAIN call' = Threads /\ \A u \in Threads : call'[u] \in CallsOf(u)
         /\ call'[t] = d /\ \A u \in Threads \ {t} : call'[u] = call[u]
    BY <1>8, <1>12, CallTyped DEF IInv
  <1>14. Types'
    <2>1. \A p \in DOMAIN queue' : queue'[p] \in QueueSet
      BY <1>9, <1>10 DEF IInv, Types
    <2>2. QED
      BY <1>2, <1>9, <1>13, <2>1 DEF IInv, Types
  <1>15. WaitInv'
    <2>1. \A f \in Timelines : completed[f] <= completed'[f]
      BY <1>2, Assumed DEF IInv, Types
    <2>2. call'[Waiter] = call[Waiter]
      BY <1>3, <1>13, Assumed
    <2>3. QED
      BY <1>2, <2>1, <2>2, WaitKept DEF IInv, Types
  <1>16. DeviceRemoved' = DeviceRemoved
    BY <1>2 DEF DeviceRemoved
  <1>17. ASSUME NEW p \in DOMAIN queue
         PROVE  /\ queue[p].work \in Seq(WorkSteps) /\ queue[p].value \in Nat
                /\ queue[p].value <= queue'[p].value /\ queue'[p].value \in Nat
                /\ Len(queue[p].work) \in Nat /\ Len(queue'[p].work) \in Nat
                /\ Len(queue[p].work) <= Len(queue'[p].work)
                /\ DOMAIN queue[p].work = 1 .. Len(queue[p].work)
                /\ DOMAIN queue'[p].work = 1 .. Len(queue'[p].work)
                /\ \A i \in 1 .. Len(queue[p].work) : queue'[p].work[i] = queue[p].work[i]
    <2>1. queue[p].work \in Seq(WorkSteps) /\ queue[p].value \in Nat
      BY DEF IInv, Types, QueueSet
    <2>2. CASE p = q
      <3>1. queue[p].work = s /\ Len(s) = n /\ n \in Nat /\ queue'[p].work = s2
            /\ queue'[p].value = v /\ v = queue[p].value + 1
        BY <1>5, <1>10, <2>2 DEF s, n, v
      <3>2. n <= Len(s2) /\ Len(s2) \in Nat /\ DOMAIN s2 = 1 .. Len(s2)
        BY <1>5, <1>7, <3>1, LenProperties
      <3>3. \A i \in 1 .. n : queue'[p].work[i] = queue[p].work[i]
        BY <1>7, <3>1
      <3>4. queue[p].value <= queue'[p].value /\ queue'[p].value \in Nat
        BY <2>1, <3>1
      <3>5. DOMAIN queue[p].work = 1 .. n
        BY <1>5, <3>1
      <3>6. QED
        BY <2>1, <3>1, <3>2, <3>3, <3>4, <3>5
    <2>3. CASE p # q
      BY <1>9, <2>1, <2>3, LenProperties
    <2>4. QED
      BY <2>2, <2>3
  (* Only the signal of the drain is new.                                  *)
  <1>18. ASSUME NEW p \in DOMAIN queue, NEW i \in DOMAIN queue'[p].work
         PROVE  \/ i \in DOMAIN queue[p].work /\ queue'[p].work[i] = queue[p].work[i]
                \/ ~ DeviceRemoved /\ p = q /\ i = n + 1 /\ queue'[p].work[i] = SignalStep(q, v)
    <2>1. CASE i \in DOMAIN queue[p].work
      BY <1>17, <2>1
    <2>2. CASE i \notin DOMAIN queue[p].work
      <3>1. p = q
        BY <1>9, <1>18, <2>2
      <3>2. queue'[p].work = s2 /\ queue[p].work = s
        BY <1>10, <3>1 DEF s
      <3>3. ~ DeviceRemoved
        BY <1>7, <1>18, <2>2, <3>2
      <3>4. i \in 1 .. n + 1 /\ i \notin 1 .. n
        BY <1>5, <1>7, <1>17, <1>18, <2>2, <3>2, <3>3
      <3>5. i = n + 1
        BY <1>5, <3>4
      <3>6. QED
        BY <1>7, <3>1, <3>2, <3>3, <3>5
    <2>3. QED
      BY <2>1, <2>2
  <1>19. q \notin Timelines
    BY <1>4, Assumed
  <1>20. SignalsKnown'
    <2>1. SignalsKnown
      BY DEF IInv, QueueInv
    <2>2. SUFFICES ASSUME NEW p \in DOMAIN queue, NEW i \in DOMAIN queue'[p].work,
                          queue'[p].work[i].op = "signal"
                   PROVE  LET x == queue'[p].work[i]
                          IN IF x.fence \in Timelines THEN x.value \in 1 .. submitted[x.fence]
                             ELSE x.fence = p /\ x.value \in 1 .. queue'[p].value
      BY <1>2, <1>9 DEF SignalsKnown
    <2>3. CASE i \in DOMAIN queue[p].work /\ queue'[p].work[i] = queue[p].work[i]
      <3> DEFINE x == queue[p].work[i]
      <3>1. IF x.fence \in Timelines THEN x.value \in 1 .. submitted[x.fence]
            ELSE x.fence = p /\ x.value \in 1 .. queue[p].value
        BY <2>1, <2>2, <2>3 DEF SignalsKnown
      <3>2. x = queue'[p].work[i]
        BY <2>3
      <3> HIDE DEF x
      <3>3. QED
        BY <1>17, <3>1, <3>2
    <2>4. CASE p = q /\ queue'[p].work[i] = SignalStep(q, v)
      <3>1. v \in 1 .. v
        BY <1>5 DEF v
      <3>2. QED
        BY <1>6, <1>10, <1>19, <2>4, <3>1
    <2>5. QED
      BY <1>18, <2>3, <2>4
  <1>21. SignalsRise'
    <2>1. CASE DeviceRemoved
      BY <1>16, <2>1 DEF SignalsRise
    <2>2. CASE ~ DeviceRemoved
      <3>1. SignalsOnce /\ CompletedKnown
            /\ \A p \in DOMAIN queue : \A i \in DOMAIN queue[p].work : InTurn(p, i)
        BY <2>2 DEF IInv, QueueInv, SignalsRise
      <3>2. \A p \in DOMAIN queue : \A i \in DOMAIN queue'[p].work :
              queue'[p].work[i].fence \in Timelines /\ queue'[p].work[i].op = "signal" =>
                i \in DOMAIN queue[p].work /\ queue'[p].work[i] = queue[p].work[i]
        BY <1>6, <1>18, <1>19
      <3>3. SignalsOnce'
        <4>1. SUFFICES ASSUME NEW x \in DOMAIN queue, NEW y \in DOMAIN queue,
                              NEW i \in DOMAIN queue'[x].work, NEW j \in DOMAIN queue'[y].work,
                              queue'[x].work[i] = queue'[y].work[j],
                              queue'[x].work[i].op = "signal", queue'[x].work[i].fence \in Timelines
                       PROVE  x = y /\ i = j
          BY <1>9 DEF SignalsOnce
        <4>2. /\ i \in DOMAIN queue[x].work /\ queue'[x].work[i] = queue[x].work[i]
              /\ j \in DOMAIN queue[y].work /\ queue'[y].work[j] = queue[y].work[j]
          BY <3>2, <4>1
        <4>3. QED
          BY <3>1, <4>1, <4>2 DEF SignalsOnce
      <3>4. CompletedKnown'
        <4>1. \A p \in DOMAIN queue : completed[p] \in Nat
          BY Assumed DEF IInv, Types
        <4>2. \A p \in DOMAIN queue : completed[p] <= queue'[p].value
          BY <1>17, <3>1, <4>1 DEF CompletedKnown
        <4>3. QED
          BY <1>2, <1>9, <3>1, <4>2 DEF CompletedKnown
      <3>5. ASSUME NEW p \in DOMAIN queue, NEW i \in DOMAIN queue'[p].work
            PROVE  InTurn(p, i)'
        <4> DEFINE x == queue'[p].work[i]
                   h == x.fence
                   u == x.value
        <4>1. SUFFICES ASSUME x.op = "signal", h \in Timelines
                       PROVE  /\ completed[h] < u
                              /\ \/ completed[h] = u - 1
                                 \/ \E k \in 1 .. i - 1 : queue'[p].work[k] \in
                                      {WaitStep(h, u - 1), SignalStep(h, u - 1)}
          BY <1>2 DEF InTurn
        <4>2. i \in DOMAIN queue[p].work /\ x = queue[p].work[i]
          BY <3>2, <4>1
        <4> HIDE DEF x
        <4>3. /\ completed[h] < u
              /\ \/ completed[h] = u - 1
                 \/ \E k \in 1 .. i - 1 : queue[p].work[k] \in
                      {WaitStep(h, u - 1), SignalStep(h, u - 1)}
          BY <3>1, <4>1, <4>2 DEF InTurn
        <4>4. \A k \in 1 .. i - 1 : queue'[p].work[k] = queue[p].work[k]
          BY <1>17, <4>2
        <4>5. QED
          BY <4>3, <4>4
      <3>6. QED
        BY <1>9, <3>3, <3>4, <3>5 DEF SignalsRise
    <2>3. QED
      BY <2>1, <2>2
  <1>22. ValuesCounted'
    <2>1. \A p \in DOMAIN queue : queue[p].value <= calls
      BY DEF IInv, QueueInv, ValuesCounted
    <2>2. \A p \in DOMAIN queue : queue'[p].value <= calls
      BY <1>5, <1>9, <1>10, <2>1
    <2>3. QED
      BY <1>2, <1>9, <2>2 DEF ValuesCounted
  <1>23. \A u \in Threads : At(u, "draining")' => u = t
    BY <1>2, <1>13 DEF IInv, QueueInv, OneDrains, At
  <1>24. DrainFits(call[t])'
    <2>1. /\ DOMAIN d.owed \subseteq DOMAIN queue' /\ d.left \subseteq DOMAIN d.owed
          /\ d.at \in (DOMAIN d.owed \ d.left) \cup {None}
      BY <1>1, <1>4, <1>9, <1>11 DEF c
    <2>2. \A p \in DOMAIN d.owed : d.owed[p] <= Len(queue'[p].work)
      <3>1. SUFFICES ASSUME NEW p \in DOMAIN c.owed PROVE c.owed[p] <= Len(queue'[p].work)
        BY <1>11
      <3>2. c.owed[p] <= Len(queue[p].work) /\ c.owed[p] \in Nat /\ p \in DOMAIN queue
        BY <1>3, <1>4 DEF DrainFits, Drainings
      <3> DEFINE a == Len(queue[p].work)
                 b == Len(queue'[p].work)
      <3>3. a \in Nat /\ b \in Nat /\ a <= b
        BY <1>17, <3>2
      <3> HIDE DEF a, b
      <3>4. c.owed[p] <= a => c.owed[p] <= b
        BY <3>2, <3>3
      <3>5. QED
        BY <3>2, <3>4 DEF a, b
    <2>3. \A p \in d.left : queue'[p].value < calls
      <3>1. SUFFICES ASSUME NEW p \in c.left \ {q} PROVE queue'[p].value < calls
        BY <1>11
      <3>2. p \in DOMAIN queue /\ queue[p].value < calls
        BY <1>3, <1>4 DEF DrainFits
      <3>3. QED
        BY <1>9, <3>1, <3>2
    <2>4. ASSUME ~ DeviceRemoved, NEW p \in DOMAIN d.owed \ d.left
          PROVE  \/ d.owed[p] = 0
                 \/ /\ p = d.at /\ completed[p] < d.value
                    /\ \A i \in 1 .. d.owed[p] :
                         LET w == queue'[p].work[i]
                         IN w.op = "signal" /\ w.fence = p => w.value < d.value
      <3>1. CASE p # q
        <4>1. p \in DOMAIN c.owed \ c.left /\ p # None
          BY <1>4, <1>11, <2>4, <3>1, Assumed DEF IInv, Types
        <4>2. ~ Behind(c, p)
          BY <1>2, <4>1 DEF Behind, c
        <4>3. QED
          BY <1>3, <1>11, <2>4, <4>1, <4>2 DEF DrainFits
      <3>2. CASE p = q
        <4>1. SignalsKnown /\ CompletedKnown
          BY <2>4 DEF IInv, QueueInv, SignalsRise
        <4>2. completed[q] <= queue[q].value /\ completed[q] \in Nat
          BY <1>4, <4>1, Assumed DEF CompletedKnown, IInv, Types
        <4>3. completed[q] < v
          BY <1>5, <4>2 DEF v
        <4>4. ASSUME NEW i \in 1 .. c.owed[q],
                     queue'[q].work[i].op = "signal", queue'[q].work[i].fence = q
              PROVE  queue'[q].work[i].value < v
          <5>1. c.owed[q] <= n /\ c.owed[q] \in Nat
            BY <1>1, <1>3, <1>4 DEF DrainFits, Drainings, n, s, c
          <5>2. i \in 1 .. n
            BY <1>5, <5>1
          <5>3. i \in DOMAIN queue[q].work /\ queue'[q].work[i] = queue[q].work[i]
            BY <1>4, <1>5, <1>17, <5>2 DEF s, n
          <5>4. queue[q].work[i].value \in 1 .. queue[q].value
            BY <1>4, <1>19, <4>1, <4>4, <5>3 DEF SignalsKnown
          <5>5. QED
            BY <1>5, <5>3, <5>4 DEF v
        <4>5. QED
          BY <1>11, <2>4, <3>2, <4>3, <4>4
      <3>3. QED
        BY <3>1, <3>2
    <2>5. QED
      BY <1>2, <1>13, <1>16, <2>1, <2>2, <2>3, <2>4 DEF DrainFits, Behind
  <1>25. OneDrains' /\ Drains1'
    BY <1>23, <1>24 DEF OneDrains, Drains1
  <1>26. QED
    BY <1>14, <1>15, <1>20, <1>21, <1>22, <1>25 DEF IInv, QueueInv

(* The end of a drain: the queue destroyed is gone.                        *)
LEMMA DrainEndsStep ==
  ASSUME IInv, NEW t \in Threads, DrainEnds(t)
  PROVE  IInv'
  <1>1. /\ UNCHANGED <<completed, submitted, calls, wait>>
        /\ At(t, "draining") /\ call' = [call EXCEPT ![t] = Idle]
        /\ queue' = [q \in DOMAIN queue \ {call[t].destroys} |-> queue[q]]
    BY DEF DrainEnds, Returns
  <1>2. t # Waiter
    BY <1>1, CallIs DEF IInv
  <1>3. Idle \in CallsOf(t) /\ Idle.step = "idle"
    BY <1>2 DEF Idle, CallsOf, OtherCalls
  <1>4. /\ DOMAIN call' = Threads /\ \A u \in Threads : call'[u] \in CallsOf(u)
        /\ call'[t] = Idle /\ \A u \in Threads \ {t} : call'[u] = call[u]
    BY <1>1, <1>3, CallTyped DEF IInv
  <1>5. \A p \in DOMAIN queue' : p \in DOMAIN queue /\ queue'[p] = queue[p]
    BY <1>1
  <1>6. Types'
    BY <1>1, <1>4, <1>5 DEF IInv, Types
  <1>7. WaitInv'
    <2>1. \A f \in Timelines : completed[f] <= completed'[f]
      BY <1>1, Assumed DEF IInv, Types
    <2>2. call'[Waiter] = call[Waiter]
      BY <1>2, <1>4, Assumed
    <2>3. QED
      BY <1>1, <2>1, <2>2, WaitKept DEF IInv, Types
  <1>8. DeviceRemoved' = DeviceRemoved
    BY <1>1 DEF DeviceRemoved
  <1>9. SignalsKnown'
    BY <1>1, <1>5 DEF IInv, QueueInv, SignalsKnown
  <1>10. SignalsRise'
    <2>1. CASE DeviceRemoved
      BY <1>8, <2>1 DEF SignalsRise
    <2>2. CASE ~ DeviceRemoved
      <3>1. SignalsOnce /\ CompletedKnown
            /\ \A p \in DOMAIN queue : \A i \in DOMAIN queue[p].work : InTurn(p, i)
        BY <2>2 DEF IInv, QueueInv, SignalsRise
      <3>2. SignalsOnce'
        <4>1. SUFFICES ASSUME NEW x \in DOMAIN queue', NEW y \in DOMAIN queue',
                              NEW i \in DOMAIN queue'[x].work, NEW j \in DOMAIN queue'[y].work,
                              queue'[x].work[i] = queue'[y].work[j],
                              queue'[x].work[i].op = "signal", queue'[x].work[i].fence \in Timelines
                       PROVE  x = y /\ i = j
          BY DEF SignalsOnce
        <4>2. /\ x \in DOMAIN queue /\ queue'[x] = queue[x]
              /\ y \in DOMAIN queue /\ queue'[y] = queue[y]
          BY <1>5, <4>1
        <4>3. QED
          BY <3>1, <4>1, <4>2 DEF SignalsOnce
      <3>3. CompletedKnown'
        BY <1>1, <1>5, <3>1 DEF CompletedKnown
      <3>4. ASSUME NEW p \in DOMAIN queue', NEW i \in DOMAIN queue'[p].work
            PROVE  InTurn(p, i)'
        <4>1. p \in DOMAIN queue /\ queue'[p] = queue[p]
          BY <1>5, <3>4
        <4>2. InTurn(p, i)
          BY <3>1, <3>4, <4>1
        <4>3. QED
          BY <1>1, <4>1, <4>2 DEF InTurn
      <3>5. QED
        BY <3>2, <3>3, <3>4 DEF SignalsRise
    <2>3. QED
      BY <2>1, <2>2
  <1>11. ValuesCounted'
    BY <1>1, <1>5 DEF IInv, QueueInv, ValuesCounted
  <1>12. \A u \in Threads : ~ At(u, "draining")'
    BY <1>1, <1>3, <1>4 DEF IInv, QueueInv, OneDrains, At
  <1>13. OneDrains' /\ Drains1'
    BY <1>12 DEF OneDrains, Drains1
  <1>14. QED
    BY <1>6, <1>7, <1>9, <1>10, <1>11, <1>13 DEF IInv, QueueInv
-----------------------------------------------------------------------------
(* A call that leaves queues and fences alone and begins no drain keeps    *)
(* what holds of the queues, and the types.                                *)
LEMMA TakesCall ==
  ASSUME IInv, NEW t \in Threads, NEW c \in CallsOf(t), c.step # "draining",
         call' = [call EXCEPT ![t] = c], UNCHANGED <<queue, completed, submitted>>,
         wait' \in WaitSet, calls' \in 0 .. MaxCalls, calls <= calls'
  PROVE  Types' /\ QueueInv'
  <1>1. /\ DOMAIN call' = Threads /\ \A u \in Threads : call'[u] \in CallsOf(u)
        /\ call'[t] = c /\ \A u \in Threads \ {t} : call'[u] = call[u]
    BY CallTyped DEF IInv
  <1>2. Types'
    BY <1>1 DEF IInv, Types
  <1>3. \A u \in Threads : At(u, "draining")' => At(u, "draining") /\ call'[u] = call[u]
    BY <1>1 DEF At
  <1>4. QueueInv'
    BY <1>3, Assumed, QueueKept
  <1>5. QED
    BY <1>2, <1>4

(* The same when the wait is left alone too, by any thread but the waiter. *)
LEMMA OtherCall ==
  ASSUME IInv, NEW t \in Threads, t # Waiter, NEW c \in OtherCalls, c.step # "draining",
         call' = [call EXCEPT ![t] = c], UNCHANGED <<queue, completed, submitted, wait>>,
         calls' \in 0 .. MaxCalls, calls <= calls'
  PROVE  IInv'
  <1>1. c \in CallsOf(t)
    BY DEF CallsOf
  <1>2. Types' /\ QueueInv'
    BY <1>1, TakesCall DEF IInv, Types
  <1>3. call'[Waiter] = call[Waiter]
    BY <1>1, CallTyped, Assumed DEF IInv
  <1>4. \A f \in Timelines : completed[f] <= completed'[f]
    BY Assumed DEF IInv, Types
  <1>5. WaitInv'
    BY <1>3, <1>4, WaitKept DEF IInv, Types
  <1>6. QED
    BY <1>2, <1>5 DEF IInv

(* The same when it is the waiter's.                                       *)
LEMMA WaiterCall ==
  ASSUME IInv, NEW c \in WaiterCalls, call' = [call EXCEPT ![Waiter] = c],
         UNCHANGED <<queue, completed, submitted>>,
         wait' \in WaitSet, RegistrationsFit', c.step \in {"registering", "waiting"} => WaiterFits',
         calls' \in 0 .. MaxCalls, calls <= calls'
  PROVE  IInv'
  <1>1. c \in CallsOf(Waiter) /\ c.step # "draining"
    BY DEF CallsOf, WaiterCalls, Waitings
  <1>2. Types' /\ QueueInv'
    BY <1>1, TakesCall, Assumed
  <1>3. call'[Waiter] = c
    BY <1>1, CallTyped, Assumed DEF IInv
  <1>4. WaiterFits'
    BY <1>3 DEF WaiterFits
  <1>5. QED
    BY <1>2, <1>4 DEF IInv, WaitInv

(* What the runtime and the registrations agree on stays while both do.    *)
LEMMA RegistrationsSame ==
  ASSUME IInv, UNCHANGED completed, wait'.registration = wait.registration,
         wait'.armed = wait.armed
  PROVE  /\ RegistrationsFit'
         /\ \A p, events : Covered(p, events) => Covered(p, events)'
  <1>1. \A i \in 1 .. MaxTimelines : Registered(i)'
    BY DEF IInv, WaitInv, RegistrationsFit, Registered
  <1>2. RegistrationsApart' /\ ArmedRegistered'
    BY DEF IInv, WaitInv, RegistrationsFit, RegistrationsApart, ArmedRegistered
  <1>3. \A p, events : Covered(p, events) => Covered(p, events)'
    BY DEF Covered
  <1>4. QED
    BY <1>1, <1>2, <1>3 DEF RegistrationsFit

(* What calls count.                                                       *)
LEMMA Counted ==
  ASSUME IInv
  PROVE  /\ calls \in 0 .. MaxCalls /\ calls <= calls
         /\ calls < MaxCalls => calls + 1 \in 0 .. MaxCalls /\ calls <= calls + 1
  BY Assumed DEF IInv, Types

(* A wait of the host for one timeline, and its end.                       *)
LEMMA HostWaitStep ==
  ASSUME IInv, NEW t \in Threads, HostWait(t) \/ HostWaitEnds(t)
  PROVE  IInv'
  <1>1. CASE HostWait(t)
    <2>1. /\ UNCHANGED <<queue, completed, submitted, wait>> /\ t # Waiter
          /\ calls' = calls + 1 /\ calls < MaxCalls
      BY <1>1 DEF HostWait, Begins
    <2>2. PICK c \in HostWaits : call' = [call EXCEPT ![t] = c]
      BY <1>1 DEF HostWait, HostWaits
    <2>3. c \in OtherCalls /\ c.step # "draining"
      BY <2>2 DEF HostWaits, OtherCalls
    <2>4. QED
      BY <2>1, <2>2, <2>3, Counted, OtherCall
  <1>2. CASE HostWaitEnds(t)
    <2>1. /\ UNCHANGED <<queue, completed, submitted, calls, wait>>
          /\ call' = [call EXCEPT ![t] = Idle] /\ At(t, "hostWait")
      BY <1>2 DEF HostWaitEnds, Returns
    <2>2. t # Waiter
      BY <2>1, CallIs DEF IInv
    <2>3. Idle \in OtherCalls /\ Idle.step # "draining"
      BY DEF Idle, OtherCalls
    <2>4. QED
      BY <2>1, <2>2, <2>3, Counted, OtherCall
  <1>3. QED
    BY <1>1, <1>2

(* The waiter returns, or leaves off waiting to destroy what it waits on.  *)
LEMMA WaiterLeaves ==
  ASSUME IInv, NEW c \in {[step |-> "idle"], [step |-> "closing"]},
         call' = [call EXCEPT ![Waiter] = c], UNCHANGED <<queue, completed, submitted>>,
         wait' \in WaitSet, RegistrationsFit', calls' \in 0 .. MaxCalls, calls <= calls'
  PROVE  IInv'
  <1>1. c \in WaiterCalls /\ c.step \notin {"registering", "waiting"}
    BY DEF WaiterCalls
  <1>2. QED
    BY <1>1, WaiterCall

(* What the waiter does before it registers anything.                      *)
LEMMA WakeVersionStep ==
  ASSUME IInv, NEW t \in Threads, WakeVersion(t)
  PROVE  IInv'
  <1> DEFINE c == [step |-> "observed", observed |-> wait.version]
  <1>1. /\ UNCHANGED <<queue, completed, submitted, wait>> /\ t = Waiter
        /\ calls' = calls + 1 /\ calls < MaxCalls /\ call' = [call EXCEPT ![Waiter] = c]
    BY DEF WakeVersion, Begins
  <1>2. wait \in WaitSet
    BY DEF IInv, Types
  <1>3. c \in WaiterCalls /\ c.step \notin {"registering", "waiting"}
    BY <1>2 DEF WaitSet, WaiterCalls
  <1> HIDE DEF c
  <1>4. RegistrationsFit'
    BY <1>1, RegistrationsSame
  <1>5. QED
    BY <1>1, <1>2, <1>3, <1>4, Counted, WaiterCall

(* The points that a wait names, none of them registered yet.              *)
LEMMA WaitStep1 ==
  ASSUME IInv, NEW t \in Threads, Wait(t)
  PROVE  IInv'
  <1>1. /\ UNCHANGED <<queue, completed, submitted, calls, wait>> /\ At(t, "observed")
    BY DEF Wait
  <1>2. t = Waiter /\ call[Waiter].observed \in Nat /\ DOMAIN call = Threads
    BY <1>1, CallIs DEF IInv, Types
  <1>3. PICK fs \in UNION {[1 .. n -> Timelines] : n \in 0 .. MaxPoints} :
          /\ IsInjective(fs)
          /\ \E vs \in [DOMAIN fs -> 1 .. MaxValue] :
               LET points == [i \in DOMAIN fs |-> [fence |-> fs[i], value |-> vs[i]]]
               IN call' = [call EXCEPT ![t] = [step |-> "registering", observed |-> @.observed,
                                               points |-> points, left |-> points, events |-> {}]]
    BY DEF Wait
  <1>4. PICK n \in 0 .. MaxPoints : fs \in [1 .. n -> Timelines]
    BY <1>3
  <1>5. PICK vs \in [1 .. n -> 1 .. MaxValue] :
          call' = [call EXCEPT ![t] =
            [step |-> "registering", observed |-> @.observed,
             points |-> [i \in 1 .. n |-> [fence |-> fs[i], value |-> vs[i]]],
             left |-> [i \in 1 .. n |-> [fence |-> fs[i], value |-> vs[i]]],
             events |-> {}]]
    <2>1. DOMAIN fs = 1 .. n
      BY <1>4
    <2>2. QED
      BY <1>3, <2>1
  <1> DEFINE s == [i \in 1 .. n |-> [fence |-> fs[i], value |-> vs[i]]]
             c == [step |-> "registering", observed |-> call[Waiter].observed, points |-> s,
                   left |-> s, events |-> {}]
  <1>6. call' = [call EXCEPT ![Waiter] = c]
    BY <1>2, <1>5
  <1>7. /\ s \in [1 .. n -> Points] /\ DOMAIN s = 1 .. n
        /\ \A i \in 1 .. n : s[i].fence = fs[i]
    <2>1. /\ \A i \in 1 .. n : fs[i] \in Timelines
          /\ \A i \in 1 .. n : vs[i] \in 1 .. MaxValue
      BY <1>4, <1>5
    <2>2. QED
      BY <2>1 DEF Points
  <1> HIDE DEF s
  <1>8. s \in Seq(Points)
    <2>1. n \in Nat
      BY <1>4, Assumed
    <2>2. QED
      BY <1>7, <2>1, SeqDef
  <1>9. c \in WaiterCalls /\ c.step = "registering" /\ c.points = s /\ c.left = s
    BY <1>2, <1>8 DEF WaiterCalls, Waitings
  <1> HIDE DEF c
  <1>10. \A i, j \in DOMAIN s : s[i].fence = s[j].fence => i = j
    BY <1>3, <1>4, <1>7 DEF IsInjective
  <1>11. c \in CallsOf(Waiter)
    BY <1>9 DEF CallsOf
  <1>12. call'[Waiter] = c
    BY <1>6, <1>11, CallTyped, Assumed DEF IInv
  <1>13. WaiterFits'
    BY <1>9, <1>10, <1>12 DEF WaiterFits
  <1>14. RegistrationsFit'
    BY <1>1, RegistrationsSame
  <1>15. QED
    BY <1>1, <1>6, <1>9, <1>13, <1>14, Counted, WaiterCall DEF IInv, Types

(* The wait goes to sleep only on the version it has read.                 *)
LEMMA SleepStep ==
  ASSUME IInv, NEW t \in Threads, Sleep(t)
  PROVE  IInv'
  <1>1. /\ UNCHANGED <<queue, completed, submitted, calls>> /\ At(t, "registering")
        /\ call[t].left = <<>>
    BY DEF Sleep
  <1>2. t = Waiter /\ call[Waiter] \in Waitings
    BY <1>1, CallIs DEF IInv
  <1>3. wait \in WaitSet /\ DOMAIN call = Threads
    BY DEF IInv, Types
  <1>4. CASE call[t].observed # wait.version
    <2>1. UNCHANGED wait /\ call' = [call EXCEPT ![Waiter] = [step |-> "idle"]]
      BY <1>2, <1>4 DEF Sleep, Returns, Idle
    <2>2. RegistrationsFit'
      BY <1>1, <2>1, RegistrationsSame
    <2>3. QED
      BY <1>1, <1>3, <2>1, <2>2, Counted, WaiterLeaves
  <1>5. CASE call[t].observed = wait.version
    <2> DEFINE b == call[Waiter]
               c == [b EXCEPT !.step = "waiting"]
    <2>1. wait' = [wait EXCEPT !.control = FALSE] /\ call' = [call EXCEPT ![Waiter].step = "waiting"]
      BY <1>2, <1>5 DEF Sleep, Goes
    <2>2. call' = [call EXCEPT ![Waiter] = c]
      BY <1>2, <1>3, <2>1
    <2>3. b \in Waitings /\ b.left = <<>> /\ b.step = "registering" /\ b.observed = wait.version
      BY <1>1, <1>2, <1>5 DEF At
    <2> HIDE DEF b
    <2>4. /\ c \in Waitings /\ c.step = "waiting" /\ c.left = b.left /\ c.points = b.points
          /\ c.observed = b.observed /\ c.events = b.events
      BY <2>3 DEF Waitings
    <2> HIDE DEF c
    <2>5. /\ wait' \in WaitSet /\ wait'.registration = wait.registration
          /\ wait'.armed = wait.armed /\ wait'.version = wait.version
      BY <1>3, <2>1 DEF WaitSet
    <2>6. RegistrationsFit' /\ \A p, events : Covered(p, events) => Covered(p, events)'
      BY <1>1, <2>5, RegistrationsSame
    <2>7. c \in WaiterCalls /\ c \in CallsOf(Waiter)
      BY <2>4 DEF WaiterCalls, CallsOf
    <2>8. call'[Waiter] = c
      BY <2>2, <2>7, CallTyped, Assumed DEF IInv
    <2>9. /\ \A i, j \in DOMAIN b.points : b.points[i].fence = b.points[j].fence => i = j
          /\ \A k \in DOMAIN b.left : \E i \in DOMAIN b.points : b.left[k] = b.points[i]
          /\ \A i \in DOMAIN b.points :
               (\E k \in DOMAIN b.left : b.left[k] = b.points[i]) \/ Covered(b.points[i], b.events)
      BY <2>3 DEF IInv, WaitInv, WaiterFits, b
    <2>10. WaiterFits'
      BY <2>3, <2>4, <2>5, <2>6, <2>8, <2>9 DEF WaiterFits
    <2>11. QED
      BY <1>1, <2>2, <2>5, <2>6, <2>7, <2>10, Counted, WaiterCall
  <1>6. QED
    BY <1>4, <1>5

(* A wait that is woken returns.                                           *)
LEMMA WaitEndsStep ==
  ASSUME IInv, NEW t \in Threads, WaitEnds(t)
  PROVE  IInv'
  <1>1. /\ UNCHANGED <<queue, completed, submitted, calls, wait>> /\ At(t, "waiting")
        /\ call' = [call EXCEPT ![t] = [step |-> "idle"]]
    BY DEF WaitEnds, Returns, Idle
  <1>2. t = Waiter
    BY <1>1, CallIs DEF IInv
  <1>3. RegistrationsFit'
    BY <1>1, RegistrationsSame
  <1>4. QED
    BY <1>1, <1>2, <1>3, Counted, WaiterLeaves DEF IInv, Types

(* A notification sets the control event with the version.                 *)
LEMMA NotifyStep ==
  ASSUME IInv, NEW t \in Threads, Notify(t)
  PROVE  IInv'
  <1>1. /\ UNCHANGED <<queue, completed, submitted, call>>
        /\ calls' = calls + 1 /\ calls < MaxCalls
        /\ wait' = [wait EXCEPT !.version = @ + 1, !.control = TRUE]
    BY DEF Notify, Begins
  <1>2. wait \in WaitSet
    BY DEF IInv, Types
  <1>3. /\ wait' \in WaitSet /\ wait'.registration = wait.registration
        /\ wait'.armed = wait.armed /\ wait'.control
    <2> DEFINE v == wait.version + 1
    <2>1. v \in Nat
      BY <1>2 DEF WaitSet
    <2>2. wait' = [wait EXCEPT !.version = v, !.control = TRUE]
      BY <1>1, <1>2
    <2> HIDE DEF v
    <2>3. QED
      BY <1>2, <2>1, <2>2 DEF WaitSet
  <1>4. RegistrationsFit' /\ \A p, events : Covered(p, events) => Covered(p, events)'
    BY <1>1, <1>3, RegistrationsSame
  <1>5. WaiterFits'
    BY <1>1, <1>3, <1>4 DEF IInv, WaitInv, WaiterFits
  <1>6. calls' \in 0 .. MaxCalls /\ calls' \in Nat /\ calls <= calls'
    BY <1>1, Counted, Assumed
  <1>7. Types'
    BY <1>1, <1>3, <1>6 DEF IInv, Types, CallsOf
  <1>8. QueueInv'
    BY <1>1, <1>6, QueueKept DEF At
  <1>9. QED
    BY <1>4, <1>5, <1>7, <1>8 DEF IInv, WaitInv

(* The waiter destroys what it waited on.                                  *)
LEMMA DestroyStep ==
  ASSUME IInv, NEW t \in Threads, Destroy(t)
  PROVE  IInv'
  <1>1. /\ UNCHANGED <<queue, completed, submitted, wait>> /\ t = Waiter
        /\ calls' = calls + 1 /\ calls < MaxCalls
        /\ At(t, "idle") /\ call' = [call EXCEPT ![t].step = "closing"]
    BY DEF Destroy, Begins, Goes
  <1> DEFINE b == call[Waiter]
  <1>2. b = [step |-> "idle"] /\ DOMAIN call = Threads
    <2>1. call[Waiter] \in WaiterCalls
      BY Assumed DEF IInv, Types, CallsOf
    <2>2. QED
      BY <1>1, <2>1 DEF WaiterCalls, Waitings, At, IInv, Types
  <1>3. call' = [call EXCEPT ![Waiter] = [b EXCEPT !.step = "closing"]]
    BY <1>1, <1>2
  <1> HIDE DEF b
  <1>4. [b EXCEPT !.step = "closing"] = [step |-> "closing"]
    BY <1>2
  <1>5. RegistrationsFit'
    BY <1>1, RegistrationsSame
  <1>6. QED
    BY <1>1, <1>3, <1>4, <1>5, Counted, WaiterLeaves DEF IInv, Types
-----------------------------------------------------------------------------
(* There is always a handle for one event more than there are              *)
(* registrations.                                                          *)
LEMMA EventsLeft ==
  ASSUME IInv, MaxTimelines > 0
  PROVE  Min(Events \ Open) \in Events \ Open
  <1>1. DOMAIN wait.registration = 1 .. MaxTimelines
    BY DEF IInv, Types, WaitSet
  <1>2. Cardinality(Events) \in Nat /\ Cardinality(Events) > MaxTimelines
    BY FS_CardinalityType, Dx12Assumption
  <1>3. Events \ Open # {}
    <2>1. SUFFICES ASSUME Events \subseteq Open PROVE FALSE
      OBVIOUS
    <2>2. Events # {}
      BY <1>2, FS_EmptySet, Assumed
    <2>3. PICK e \in Events : TRUE
      BY <2>2
    <2> DEFINE f == [i \in 1 .. MaxTimelines |->
                       IF wait.registration[i].event \in Events THEN wait.registration[i].event
                       ELSE e]
    <2>4. f \in [1 .. MaxTimelines -> Events]
      BY <2>3
    <2>5. \A x \in Events : \E i \in 1 .. MaxTimelines : f[i] = x
      BY <1>1, <2>1 DEF Open
    <2> HIDE DEF f
    <2>6. ExistsSurjection(1 .. MaxTimelines, Events)
      BY <2>4, <2>5 DEF ExistsSurjection, Surjection
    <2>7. Cardinality(Events) <= MaxTimelines
      BY <2>6, FS_SurjCardinalityBound, Assumed
    <2>8. QED
      BY <1>2, <2>7, Assumed
  <1>4. Events \ Open \in SUBSET Nat
    BY Dx12Assumption
  <1>5. QED
    BY <1>3, <1>4, MinIn

(* The registration found for a fence: its own, or one that is free, and   *)
(* no other has the fence.                                                 *)
LEMMA EntryIs ==
  ASSUME IInv, NEW f \in Timelines, EntryFor(f) # None
  PROVE  LET i == EntryFor(f)
             r == Entry(i, f)
         IN /\ i \in 1 .. MaxTimelines /\ r \in Registrations /\ r.fence = f
            /\ \A j \in (1 .. MaxTimelines) \ {i} : wait.registration[j].fence # f
            /\ \/ r = wait.registration[i]
               \/ /\ wait.registration[i].fence # f /\ Free(i)
                  /\ r.event = None /\ r.value = 0
  <1>1. DOMAIN wait.registration = 1 .. MaxTimelines
        /\ \A j \in 1 .. MaxTimelines : wait.registration[j] \in Registrations
    BY DEF IInv, Types, WaitSet
  <1>2. f # None
    BY Assumed
  <1> DEFINE own == {j \in 1 .. MaxTimelines : wait.registration[j].fence = f}
             free == {j \in 1 .. MaxTimelines : Free(j)}
  <1>3. own \in SUBSET Nat /\ free \in SUBSET Nat
    BY Assumed
  <1>4. EntryFor(f) = IF own # {} THEN Min(own) ELSE IF free # {} THEN Min(free) ELSE None
    BY <1>1 DEF EntryFor
  <1> DEFINE n == [NoRegistration EXCEPT !.fence = f]
  <1>5. n \in Registrations /\ n.fence = f /\ n.event = None /\ n.value = 0
    BY Assumed DEF NoRegistration, Registrations
  <1> HIDE DEF own, free, n
  <1>6. CASE own # {}
    <2>1. EntryFor(f) \in own
      BY <1>3, <1>4, <1>6, MinIn
    <2> DEFINE i == EntryFor(f)
    <2> HIDE DEF i
    <2>2. i \in 1 .. MaxTimelines /\ wait.registration[i].fence = f
      BY <2>1 DEF own, i
    <2>3. Entry(i, f) = wait.registration[i]
      BY <2>2 DEF Entry
    <2>4. \A j \in (1 .. MaxTimelines) \ {i} : wait.registration[j].fence # f
      BY <1>2, <2>2 DEF IInv, WaitInv, RegistrationsFit, RegistrationsApart
    <2>5. QED
      BY <1>1, <2>2, <2>3, <2>4 DEF i
  <1>7. CASE own = {}
    <2>1. EntryFor(f) \in free
      <3>1. free # {}
        BY <1>4, <1>7
      <3>2. EntryFor(f) = Min(free)
        BY <1>4, <1>7, <3>1
      <3>3. QED
        BY <1>3, <3>1, <3>2, MinIn
    <2> DEFINE i == EntryFor(f)
    <2> HIDE DEF i
    <2>2. i \in 1 .. MaxTimelines /\ Free(i)
      BY <2>1 DEF free, i
    <2>3. \A j \in 1 .. MaxTimelines : wait.registration[j].fence # f
      BY <1>7 DEF own
    <2>4. Entry(i, f) = n
      BY <2>2, <2>3 DEF Entry, n
    <2>5. QED
      BY <1>5, <2>2, <2>3, <2>4 DEF i
  <1>8. QED
    BY <1>6, <1>7

(* Registration i changes hands or is set again, and becomes n: what it    *)
(* had the runtime wait for is settled, no other has its fence or event,   *)
(* and of what the runtime was told only that of these events is gone.     *)
Taken(i, n, A) ==
  LET r == wait.registration[i]
  IN /\ wait' = [wait EXCEPT !.registration[i] = n, !.armed = A]
     /\ r.event # None => completed[r.fence] >= r.value
     /\ n.fence = None => n.event = None
     /\ n.event = None => n.value = 0
     /\ n.event # None /\ completed[n.fence] < n.value => <<n.event, n.fence, n.value>> \in A
     /\ \A j \in (1 .. MaxTimelines) \ {i} :
          /\ n.fence # None => wait.registration[j].fence # n.fence
          /\ n.event # None => wait.registration[j].event # n.event
     /\ \A a \in A : \/ a = <<n.event, n.fence, n.value>>
                     \/ a \in wait.armed /\ a # <<r.event, r.fence, r.value>>
     /\ \A a \in wait.armed \ A : a[1] \in {r.event, n.event}

ArmedSet == SUBSET (Events \X Timelines \X (1 .. MaxValue))

(* Registrations and runtime go on agreeing.                               *)
LEMMA TakenKept ==
  ASSUME IInv, UNCHANGED completed, NEW i \in 1 .. MaxTimelines, NEW n \in Registrations,
         NEW A \in ArmedSet, Taken(i, n, A)
  PROVE  /\ wait' \in WaitSet /\ RegistrationsFit'
         /\ wait'.registration[i] = n /\ wait'.armed = A
         /\ \A j \in (1 .. MaxTimelines) \ {i} :
              LET s == wait.registration[j]
              IN /\ wait'.registration[j] = s
                 /\ <<s.event, s.fence, s.value>> \in wait.armed =>
                      <<s.event, s.fence, s.value>> \in A
  <1>1. wait \in WaitSet
    BY DEF IInv, Types
  <1> DEFINE R == [wait.registration EXCEPT ![i] = n]
  <1>2. wait' = [wait EXCEPT !.registration = R, !.armed = A]
    BY <1>1 DEF Taken, WaitSet
  <1>3. /\ R \in [1 .. MaxTimelines -> Registrations] /\ R[i] = n
        /\ \A j \in (1 .. MaxTimelines) \ {i} : R[j] = wait.registration[j]
    BY <1>1 DEF WaitSet
  <1> HIDE DEF R
  <1>4. wait' \in WaitSet /\ wait'.registration = R /\ wait'.armed = A
    BY <1>1, <1>2, <1>3 DEF WaitSet, ArmedSet
  <1>5. \A j \in 1 .. MaxTimelines : Registered(j) /\ wait.registration[j] \in Registrations
    BY <1>1 DEF IInv, WaitInv, RegistrationsFit, WaitSet
  <1>6. RegistrationsApart /\ ArmedRegistered /\ \A a \in wait.armed : a[1] \in Events
    BY <1>1 DEF IInv, WaitInv, RegistrationsFit, WaitSet
  <1>7. ASSUME NEW j \in (1 .. MaxTimelines) \ {i},
               <<wait.registration[j].event, wait.registration[j].fence,
                 wait.registration[j].value>> \in wait.armed
        PROVE  <<wait.registration[j].event, wait.registration[j].fence,
                 wait.registration[j].value>> \in A
    <2> DEFINE s == wait.registration[j]
               a == <<s.event, s.fence, s.value>>
    <2>1. a[1] = s.event /\ s.event # None
      BY <1>6, <1>7, Assumed
    <2>2. s.event # wait.registration[i].event
      BY <1>6, <1>7, <2>1 DEF RegistrationsApart
    <2>3. s.event # n.event
      BY <1>7, <2>1 DEF Taken
    <2>4. a \in wait.armed
      BY <1>7
    <2> HIDE DEF a
    <2>5. a \in A
      BY <2>1, <2>2, <2>3, <2>4 DEF Taken
    <2>6. QED
      BY <2>5 DEF a
  <1>8. ASSUME NEW j \in 1 .. MaxTimelines
        PROVE  Registered(j)'
    <2>1. CASE j = i
      <3>1. wait'.registration[j] = n
        BY <1>3, <1>4, <2>1
      <3>2. QED
        BY <1>4, <3>1 DEF Registered, Taken
    <2>2. CASE j # i
      <3>1. wait'.registration[j] = wait.registration[j]
        BY <1>3, <1>4, <2>2
      <3>2. QED
        BY <1>4, <1>5, <1>7, <2>2, <3>1 DEF Registered
    <2>3. QED
      BY <2>1, <2>2
  <1>9. RegistrationsApart'
    <2>1. SUFFICES ASSUME NEW j \in 1 .. MaxTimelines, NEW k \in 1 .. MaxTimelines,
                          \/ R[j].fence = R[k].fence /\ R[j].fence # None
                          \/ R[j].event = R[k].event /\ R[j].event # None
                   PROVE  j = k
      BY <1>4 DEF RegistrationsApart
    <2>2. CASE j # i /\ k # i
      BY <1>3, <1>6, <2>1, <2>2 DEF RegistrationsApart
    <2>3. CASE j = i /\ k # i
      BY <1>3, <2>1, <2>3 DEF Taken
    <2>4. CASE j # i /\ k = i
      BY <1>3, <2>1, <2>4 DEF Taken
    <2>5. QED
      BY <2>2, <2>3, <2>4
  <1>10. ArmedRegistered'
    <2>1. SUFFICES ASSUME NEW a \in A
                   PROVE  \E k \in 1 .. MaxTimelines : a = <<R[k].event, R[k].fence, R[k].value>>
      BY <1>4 DEF ArmedRegistered
    <2>2. CASE a = <<n.event, n.fence, n.value>>
      BY <1>3, <2>2
    <2>3. CASE a # <<n.event, n.fence, n.value>>
      <3>1. /\ a \in wait.armed
            /\ a # <<wait.registration[i].event, wait.registration[i].fence,
                     wait.registration[i].value>>
        BY <2>1, <2>3 DEF Taken
      <3>2. PICK k \in 1 .. MaxTimelines :
              a = <<wait.registration[k].event, wait.registration[k].fence,
                    wait.registration[k].value>>
        BY <1>6, <3>1 DEF ArmedRegistered
      <3>3. k # i
        BY <3>1, <3>2
      <3>4. QED
        BY <1>3, <3>2, <3>3
    <2>4. QED
      BY <2>2, <2>3
  <1>11. RegistrationsFit'
    BY <1>8, <1>9, <1>10 DEF RegistrationsFit
  <1>12. QED
    BY <1>3, <1>4, <1>7, <1>11

(* An event is closed by ~Dx12CompletionWait once it is settled.           *)
LEMMA CloseNextIs ==
  ASSUME IInv, NEW t \in Threads, CloseNext(t)
  PROVE  \E i \in 1 .. MaxTimelines, A \in ArmedSet : Taken(i, NoRegistration, A)
  <1>1. wait \in WaitSet
    BY DEF IInv, Types
  <1>2. PICK i \in 1 .. MaxTimelines :
          LET r == wait.registration[i]
          IN /\ r.event # None
             /\ completed[r.fence] >= r.value \/ IsSet(r.event)
             /\ wait' = [wait EXCEPT !.registration[i] = NoRegistration,
                                     !.armed = CloseHandle(@, r.event)]
    BY <1>1 DEF CloseNext, WaitSet
  <1> DEFINE r == wait.registration[i]
             A == CloseHandle(wait.armed, r.event)
  <1>3. A \in ArmedSet /\ A \subseteq wait.armed
        /\ (\A a \in A : a[1] # r.event) /\ (\A a \in wait.armed \ A : a[1] = r.event)
    BY <1>1 DEF CloseHandle, WaitSet, ArmedSet
  <1>4. wait' = [wait EXCEPT !.registration[i] = NoRegistration, !.armed = A]
    BY <1>1, <1>2 DEF WaitSet
  <1>5. completed[r.fence] >= r.value
    <2>1. SUFFICES ASSUME IsSet(r.event) PROVE completed[r.fence] >= r.value
      BY <1>2
    <2>2. PICK a \in wait.armed : a[1] = r.event /\ Reached(a)
      BY <2>1 DEF IsSet
    <2>3. PICK k \in 1 .. MaxTimelines :
            a = <<wait.registration[k].event, wait.registration[k].fence,
                  wait.registration[k].value>>
      BY DEF IInv, WaitInv, RegistrationsFit, ArmedRegistered
    <2>4. k = i
      BY <1>2, <2>2, <2>3 DEF IInv, WaitInv, RegistrationsFit, RegistrationsApart
    <2>5. QED
      BY <2>2, <2>3, <2>4 DEF Reached
  <1>6. NoRegistration.fence = None /\ NoRegistration.event = None /\ NoRegistration.value = 0
    BY DEF NoRegistration
  <1>7. Taken(i, NoRegistration, A)
    <2> HIDE DEF A
    <2>1. \A a \in A : a \in wait.armed /\ a # <<r.event, r.fence, r.value>>
      BY <1>3
    <2>2. QED
      BY <1>3, <1>4, <1>5, <1>6, <2>1 DEF Taken
  <1> HIDE DEF A
  <1>8. QED
    BY <1>3, <1>7

(* One registration of the destroyed wait is given up.                     *)
LEMMA CloseNextStep ==
  ASSUME IInv, NEW t \in Threads, CloseNext(t)
  PROVE  IInv'
  <1>1. UNCHANGED <<queue, completed, submitted, call, calls>> /\ At(t, "closing")
    BY DEF CloseNext
  <1>2. t = Waiter
    BY <1>1, CallIs DEF IInv
  <1>3. PICK i \in 1 .. MaxTimelines, A \in ArmedSet : Taken(i, NoRegistration, A)
    BY CloseNextIs
  <1>4. NoRegistration \in Registrations
    BY Assumed DEF NoRegistration, Registrations
  <1>5. wait' \in WaitSet /\ RegistrationsFit'
    BY <1>1, <1>3, <1>4, TakenKept
  <1>6. WaiterFits'
    BY <1>1, <1>2 DEF WaiterFits, At
  <1>7. Types'
    BY <1>1, <1>5 DEF IInv, Types, CallsOf
  <1>8. QueueInv'
    BY <1>1, Counted, Assumed, QueueKept DEF At
  <1>9. QED
    BY <1>5, <1>6, <1>7, <1>8 DEF IInv, WaitInv

(* The next CompletionWait starts afresh.                                  *)
LEMMA ClosedStep ==
  ASSUME IInv, NEW t \in Threads, Closed(t)
  PROVE  IInv'
  <1>1. /\ UNCHANGED <<queue, completed, submitted, calls>> /\ At(t, "closing")
        /\ call' = [call EXCEPT ![t] = [step |-> "idle"]] /\ wait' = NewWait
    BY DEF Closed, Returns, Idle
  <1>2. t = Waiter
    BY <1>1, CallIs DEF IInv
  <1>3. NoRegistration \in Registrations /\ NoRegistration.fence = None
        /\ NoRegistration.event = None /\ NoRegistration.value = 0
    BY Assumed DEF NoRegistration, Registrations
  <1>4. wait' \in WaitSet /\ wait'.armed = {}
        /\ \A i \in 1 .. MaxTimelines : wait'.registration[i] = NoRegistration
    BY <1>1, <1>3 DEF NewWait, WaitSet
  <1>5. RegistrationsFit'
    BY <1>3, <1>4 DEF RegistrationsFit, Registered, RegistrationsApart, ArmedRegistered
  <1>6. QED
    BY <1>1, <1>2, <1>4, <1>5, Counted, WaiterLeaves

(* The next point is served by registration r, A being what the runtime    *)
(* has been told.                                                          *)
Served(t, r, A) ==
  LET p == Head(call[t].left)
  IN /\ r.event \in Events /\ r.fence = p.fence /\ r.value <= p.value
     /\ <<r.event, r.fence, r.value>> \in A
     /\ call' = [call EXCEPT ![t].left = Tail(@), ![t].events = @ \cup {r.event}]

(* The event that a registration is armed with is its own, or nobody's.    *)
LEMMA EventIs ==
  ASSUME IInv, NEW i \in 1 .. MaxTimelines, NEW r \in Registrations, NEW e \in EventFor(i, r),
         r.event # None => r = wait.registration[i]
  PROVE  /\ e \in Events
         /\ r.event # None => e = r.event
         /\ \A j \in (1 .. MaxTimelines) \ {i} : wait.registration[j].event # e
  <1>1. DOMAIN wait.registration = 1 .. MaxTimelines
        /\ \A j \in 1 .. MaxTimelines : wait.registration[j].event \in Events \cup {None}
    BY DEF IInv, Types, WaitSet, Registrations
  <1>2. RegistrationsApart
    BY DEF IInv, WaitInv, RegistrationsFit
  <1>3. CASE r.event # None
    <2>1. e = r.event /\ r = wait.registration[i]
      BY <1>3 DEF EventFor
    <2>2. QED
      BY <1>1, <1>2, <1>3, <2>1 DEF RegistrationsApart
  <1>4. CASE r.event = None /\ e = Min(Events \ Open)
    <2>1. e \in Events \ Open
      BY <1>4, EventsLeft, Assumed
    <2>2. \A j \in 1 .. MaxTimelines : wait.registration[j].event # e
      BY <1>1, <2>1, Assumed DEF Open
    <2>3. QED
      BY <1>4, <2>1, <2>2
  <1>5. CASE r.event = None /\ e = wait.registration[i].event /\ e # None
    BY <1>1, <1>2, <1>5 DEF RegistrationsApart
  <1>6. QED
    BY <1>3, <1>4, <1>5 DEF EventFor

(* One round of the wait's loop: it returns, finds the point's fence       *)
(* registered, or takes a registration for it.                             *)
LEMMA RegisterIs ==
  ASSUME IInv, NEW t \in Threads, Register(t)
  PROVE  \/ Returns(t) /\ UNCHANGED wait
         \/ UNCHANGED wait /\ \E i \in 1 .. MaxTimelines : Served(t, wait.registration[i], wait.armed)
         \/ \E i \in 1 .. MaxTimelines, n \in Registrations, A \in ArmedSet :
              Taken(i, n, A) /\ (Returns(t) \/ Served(t, n, A))
  <1> DEFINE p == Head(call[t].left)
             f == p.fence
             i == EntryFor(f)
             r == Entry(i, f)
             B == ArmedFor(i, f)
             Next1(e) == call' = [call EXCEPT ![t].left = Tail(@), ![t].events = @ \cup {e}]
  <1>1. /\ At(t, "registering") /\ call[t].left # <<>>
        /\ \/ /\ completed[f] >= p.value \/ i = None
              /\ Returns(t) /\ UNCHANGED wait
           \/ /\ completed[f] < p.value /\ i # None /\ ~ MustArm(r)
              /\ IF p.value < r.value THEN Returns(t) ELSE Next1(r.event)
              /\ UNCHANGED wait
           \/ /\ completed[f] < p.value /\ i # None /\ MustArm(r)
              /\ \/ /\ r.event = None
                    /\ wait' = [wait EXCEPT !.registration[i] = r, !.armed = B]
                    /\ Returns(t)
                 \/ \E e \in EventFor(i, r) :
                      \/ /\ wait' = [wait EXCEPT !.registration[i] = [r EXCEPT !.event = e],
                                                 !.armed = ResetEvent(B, e)]
                         /\ Returns(t)
                      \/ /\ wait' = [wait EXCEPT
                                       !.registration[i] = [r EXCEPT !.event = e, !.value = p.value],
                                       !.armed = ResetEvent(B, e) \cup {<<e, f, p.value>>}]
                         /\ Next1(e)
    BY DEF Register
  <1>2. p \in Points
    <2>1. call[t].left \in Seq(Points)
      BY <1>1, CallIs DEF IInv, Waitings
    <2>2. QED
      BY <1>1, <2>1, HeadTailProperties
  <1> HIDE DEF p
  <1>3. f \in Timelines /\ f # None /\ p.value \in 1 .. MaxValue /\ p.value \in Nat
    BY <1>2, Assumed DEF Points
  <1>4. CASE (completed[f] >= p.value \/ i = None) /\ Returns(t) /\ UNCHANGED wait
    BY <1>4
  <1>5. ASSUME i # None
        PROVE  /\ i \in 1 .. MaxTimelines /\ r \in Registrations /\ r.fence = f
               /\ \A j \in (1 .. MaxTimelines) \ {i} : wait.registration[j].fence # f
               /\ \/ r = wait.registration[i]
                  \/ /\ wait.registration[i].fence # f /\ Free(i)
                     /\ r.event = None /\ r.value = 0
    BY <1>3, <1>5, EntryIs
  <1>6. wait \in WaitSet /\ \A j \in 1 .. MaxTimelines : Registered(j)
    BY DEF IInv, Types, WaitInv, RegistrationsFit
  <1> HIDE DEF f, i, r, B, Next1
  <1>7. CASE /\ completed[f] < p.value /\ i # None /\ ~ MustArm(r)
             /\ IF p.value < r.value THEN Returns(t) ELSE Next1(r.event)
             /\ UNCHANGED wait
    <2>1. r.event # None /\ ~ (completed[f] >= r.value)
      BY <1>5, <1>7 DEF MustArm
    <2>2. i \in 1 .. MaxTimelines /\ r = wait.registration[i] /\ r \in Registrations /\ r.fence = f
      BY <1>5, <1>7, <2>1
    <2>3. completed[f] < r.value /\ r.value \in Nat
      BY <1>3, <2>1, <2>2, Assumed DEF IInv, Types, Registrations
    <2>4. <<r.event, r.fence, r.value>> \in wait.armed
      BY <1>6, <2>1, <2>2, <2>3 DEF Registered
    <2>5. CASE p.value < r.value
      BY <1>7, <2>5
    <2>6. CASE ~ (p.value < r.value)
      <3>1. r.event \in Events /\ r.value <= p.value
        BY <1>3, <2>1, <2>2, <2>3, <2>6 DEF Registrations
      <3>2. Next1(r.event)
        BY <1>7, <2>6
      <3>3. Served(t, r, wait.armed)
        BY <2>2, <2>4, <3>1, <3>2 DEF Served, Next1, f, p
      <3>4. QED
        BY <1>7, <2>2, <3>3
    <2>7. QED
      BY <2>5, <2>6
  <1>8. ASSUME completed[f] < p.value, i # None, MustArm(r)
        PROVE  LET o == wait.registration[i]
               IN /\ o.event # None => completed[o.fence] >= o.value
                  /\ B \subseteq wait.armed /\ \A a \in wait.armed \ B : a[1] = o.event
                  /\ \A a \in B : a = <<o.event, o.fence, o.value>> =>
                       r = o /\ o.event # None
    <2> DEFINE o == wait.registration[i]
    <2>1. i \in 1 .. MaxTimelines /\ r.fence = f
          /\ (r = o \/ (o.fence # f /\ Free(i) /\ r.event = None))
      BY <1>5, <1>8
    <2>2. o \in Registrations /\ (o.fence = None => o.event = None)
      BY <1>6, <2>1 DEF WaitSet, Registered
    <2>3. o.event # None => completed[o.fence] >= o.value
      BY <1>8, <2>1, <2>2 DEF MustArm, Free
    <2>4. B = IF o.fence = f THEN wait.armed ELSE CloseHandle(wait.armed, o.event)
      BY DEF B, ArmedFor
    <2>5. B \subseteq wait.armed /\ \A a \in wait.armed \ B : a[1] = o.event
      BY <2>4 DEF CloseHandle
    <2>6. ASSUME NEW a \in B, a = <<o.event, o.fence, o.value>>
          PROVE  r = o /\ o.event # None
      <3>1. a[1] = o.event /\ a \in wait.armed /\ a[1] \in Events
        BY <1>6, <2>5, <2>6 DEF WaitSet
      <3>2. o.fence = f
        BY <2>4, <2>6, <3>1 DEF CloseHandle
      <3>3. QED
        BY <2>1, <3>1, <3>2, Assumed
    <2> HIDE DEF o
    <2>7. QED
      BY <2>3, <2>5, <2>6 DEF o
  <1>9. CASE /\ completed[f] < p.value /\ i # None /\ MustArm(r) /\ r.event = None
             /\ wait' = [wait EXCEPT !.registration[i] = r, !.armed = B]
             /\ Returns(t)
    <2>1. B \in ArmedSet /\ \A a \in B : a[1] \in Events
      BY <1>6, <1>8, <1>9 DEF WaitSet, ArmedSet
    <2>2. r.value = 0
      BY <1>5, <1>6, <1>9 DEF Registered
    <2>3. Taken(i, r, B)
      BY <1>3, <1>5, <1>8, <1>9, <2>1, <2>2, Assumed DEF Taken
    <2>4. QED
      BY <1>5, <1>9, <2>1, <2>3
  (* An event that is set again was set before.                            *)
  <1>10. ASSUME completed[f] < p.value, i # None, MustArm(r), NEW e \in EventFor(i, r)
         PROVE  LET o == wait.registration[i]
                IN /\ e \in Events /\ ResetEvent(B, e) \in ArmedSet
                   /\ \A j \in (1 .. MaxTimelines) \ {i} : wait.registration[j].event # e
                   /\ \A a \in ResetEvent(B, e) : a \in wait.armed /\ a # <<o.event, o.fence, o.value>>
                   /\ \A a \in wait.armed \ ResetEvent(B, e) : a[1] \in {o.event, e}
    <2> DEFINE o == wait.registration[i]
    <2>1. /\ e \in Events
          /\ r.event # None => e = r.event
          /\ \A j \in (1 .. MaxTimelines) \ {i} : wait.registration[j].event # e
      BY <1>5, <1>10, EventIs
    <2>2. e \in Events
      BY <2>1
    <2>3. ResetEvent(B, e) \in ArmedSet
      BY <1>6, <1>8, <1>10 DEF ResetEvent, ArmedSet, WaitSet
    <2>4. ASSUME NEW a \in ResetEvent(B, e)
          PROVE  a \in wait.armed /\ a # <<o.event, o.fence, o.value>>
      <3>1. a \in B /\ a \in wait.armed /\ (a[1] = e => ~ Reached(a))
        BY <1>8, <1>10 DEF ResetEvent
      <3>2. SUFFICES ASSUME a = <<o.event, o.fence, o.value>> PROVE FALSE
        BY <3>1
      <3>3. r = o /\ o.event # None /\ completed[o.fence] >= o.value
        BY <1>8, <1>10, <3>1, <3>2
      <3>4. a[1] = e
        BY <2>1, <2>2, <3>2, <3>3
      <3>5. Reached(a)
        BY <3>2, <3>3 DEF Reached
      <3>6. QED
        BY <3>1, <3>4, <3>5
    <2>5. \A a \in wait.armed \ ResetEvent(B, e) : a[1] \in {o.event, e}
      BY <1>8, <1>10 DEF ResetEvent
    <2>6. QED
      BY <2>1, <2>2, <2>3, <2>4, <2>5
  <1>11. ASSUME completed[f] < p.value, i # None, MustArm(r), NEW e \in EventFor(i, r),
                wait' = [wait EXCEPT !.registration[i] = [r EXCEPT !.event = e],
                                     !.armed = ResetEvent(B, e)],
                Returns(t)
         PROVE  \E j \in 1 .. MaxTimelines, n \in Registrations, A \in ArmedSet :
                  Taken(j, n, A) /\ (Returns(t) \/ Served(t, n, A))
    <2> DEFINE n == [r EXCEPT !.event = e]
               A == ResetEvent(B, e)
    <2>1. /\ e \in Events /\ A \in ArmedSet
          /\ \A j \in (1 .. MaxTimelines) \ {i} : wait.registration[j].event # e
          /\ \A a \in A : /\ a \in wait.armed
                          /\ a # <<wait.registration[i].event, wait.registration[i].fence,
                                   wait.registration[i].value>>
          /\ \A a \in wait.armed \ A : a[1] \in {wait.registration[i].event, e}
      BY <1>10, <1>11
    <2>2. n \in Registrations /\ n.event = e /\ n.fence = f /\ n.value = r.value /\ e # None
      BY <1>5, <1>11, <2>1, Assumed DEF Registrations
    <2>3. wait' = [wait EXCEPT !.registration[i] = n, !.armed = A]
      BY <1>11
    <2>4. ~ (completed[f] < n.value)
      <3>1. r.event = None => r.value = 0
        BY <1>5, <1>6, <1>11 DEF Registered
      <3>2. completed[f] \in Nat /\ r.value \in Nat
        BY <1>3, <1>5, <1>11, Assumed DEF IInv, Types, Registrations
      <3>3. r.fence = f
        BY <1>5, <1>11
      <3>4. completed[f] >= r.value
        BY <1>11, <3>1, <3>2, <3>3 DEF MustArm
      <3>5. QED
        BY <2>2, <3>2, <3>4
    <2> HIDE DEF n, A
    <2>5. Taken(i, n, A)
      BY <1>3, <1>5, <1>8, <1>11, <2>1, <2>2, <2>3, <2>4 DEF Taken
    <2>6. QED
      BY <1>5, <1>11, <2>1, <2>2, <2>5
  <1>12. ASSUME completed[f] < p.value, i # None, MustArm(r), NEW e \in EventFor(i, r),
                wait' = [wait EXCEPT
                           !.registration[i] = [r EXCEPT !.event = e, !.value = p.value],
                           !.armed = ResetEvent(B, e) \cup {<<e, f, p.value>>}],
                Next1(e)
         PROVE  \E j \in 1 .. MaxTimelines, n \in Registrations, A \in ArmedSet :
                  Taken(j, n, A) /\ (Returns(t) \/ Served(t, n, A))
    <2> DEFINE n == [r EXCEPT !.event = e, !.value = p.value]
               D == ResetEvent(B, e)
               A == D \cup {<<e, f, p.value>>}
    <2>1. /\ e \in Events /\ D \in ArmedSet
          /\ \A j \in (1 .. MaxTimelines) \ {i} : wait.registration[j].event # e
          /\ \A a \in D : /\ a \in wait.armed
                          /\ a # <<wait.registration[i].event, wait.registration[i].fence,
                                   wait.registration[i].value>>
          /\ \A a \in wait.armed \ D : a[1] \in {wait.registration[i].event, e}
      BY <1>10, <1>12
    <2>2. n \in Registrations /\ n.event = e /\ n.fence = f /\ n.value = p.value /\ e # None
      <3> DEFINE v == p.value
      <3>1. v \in 0 .. MaxValue /\ e \in Events /\ r \in Registrations /\ r.fence = f
        BY <1>3, <1>5, <1>12, <2>1
      <3> HIDE DEF v
      <3>2. n = [r EXCEPT !.event = e, !.value = v]
        BY DEF v
      <3> HIDE DEF n
      <3>3. n \in Registrations /\ n.event = e /\ n.fence = f /\ n.value = v
        BY <3>1, <3>2 DEF Registrations
      <3>4. QED
        BY <3>1, <3>3, Assumed DEF v
    <2>3. wait' = [wait EXCEPT !.registration[i] = n, !.armed = A]
      BY <1>12
    <2> HIDE DEF n, D
    <2>4. A \in ArmedSet
      BY <1>3, <2>1 DEF ArmedSet
    <2>5. Taken(i, n, A)
      BY <1>3, <1>5, <1>8, <1>12, <2>1, <2>2, <2>3 DEF Taken
    <2>6. Served(t, n, A)
      <3>1. n.value <= p.value
        BY <1>3, <2>2
      <3>2. QED
        BY <1>12, <2>1, <2>2, <3>1 DEF Served, Next1, f, p
    <2>7. QED
      BY <1>5, <1>12, <2>2, <2>4, <2>5, <2>6
  <1>13. QED
    BY <1>1, <1>4, <1>5, <1>7, <1>9, <1>11, <1>12

(* A point that is served is covered, and those before it stay so.         *)
LEMMA ServedKept ==
  ASSUME IInv, NEW t \in Threads, At(t, "registering"), call[t].left # <<>>,
         UNCHANGED <<queue, completed, submitted, calls>>, wait' \in WaitSet, RegistrationsFit',
         NEW i \in 1 .. MaxTimelines, Served(t, wait'.registration[i], wait'.armed),
         \A j \in (1 .. MaxTimelines) \ {i} :
           LET s == wait.registration[j]
           IN /\ wait'.registration[j] = s
              /\ <<s.event, s.fence, s.value>> \in wait.armed =>
                   <<s.event, s.fence, s.value>> \in wait'.armed
  PROVE  IInv'
  <1> DEFINE b == call[Waiter]
             r == wait'.registration[i]
             p == Head(b.left)
             c == [b EXCEPT !.left = Tail(b.left), !.events = b.events \cup {r.event}]
  <1>1. t = Waiter /\ b \in Waitings /\ b.left \in Seq(Points) /\ b.left # <<>>
        /\ b.step = "registering" /\ DOMAIN call = Threads
    BY CallIs DEF IInv, Types, Waitings, At
  <1>2. /\ r.event \in Events /\ r.fence = p.fence /\ r.value <= p.value
        /\ <<r.event, r.fence, r.value>> \in wait'.armed
    BY <1>1 DEF Served
  <1>3. call' = [call EXCEPT ![Waiter] = c]
    BY <1>1 DEF Served
  <1>4. /\ p \in Points /\ Tail(b.left) \in Seq(Points) /\ p = b.left[1]
        /\ Len(Tail(b.left)) = Len(b.left) - 1 /\ Len(b.left) \in Nat /\ 1 \in DOMAIN b.left
        /\ DOMAIN b.left = 1 .. Len(b.left) /\ DOMAIN Tail(b.left) = 1 .. Len(Tail(b.left))
        /\ \A k \in 1 .. Len(Tail(b.left)) : Tail(b.left)[k] = b.left[k + 1]
    <2>1. /\ p \in Points /\ Tail(b.left) \in Seq(Points) /\ Len(Tail(b.left)) = Len(b.left) - 1
          /\ \A k \in 1 .. Len(Tail(b.left)) : Tail(b.left)[k] = b.left[k + 1]
      BY <1>1, HeadTailProperties
    <2>2. Len(b.left) \in Nat /\ Len(b.left) # 0 /\ DOMAIN b.left = 1 .. Len(b.left)
      BY <1>1, LenProperties, EmptySeq
    <2>3. DOMAIN Tail(b.left) = 1 .. Len(Tail(b.left))
      BY <2>1, LenProperties
    <2>4. p = b.left[1]
      OBVIOUS
    <2>5. 1 \in 1 .. Len(b.left)
      BY <2>2
    <2>6. QED
      BY <2>1, <2>2, <2>3, <2>4, <2>5
  <1>5. /\ \A x, y \in DOMAIN b.points : b.points[x].fence = b.points[y].fence => x = y
        /\ \A k \in DOMAIN b.left : \E x \in DOMAIN b.points : b.left[k] = b.points[x]
        /\ \A x \in DOMAIN b.points :
             (\E k \in DOMAIN b.left : b.left[k] = b.points[x]) \/ Covered(b.points[x], b.events)
    BY <1>1 DEF IInv, WaitInv, WaiterFits
  <1> HIDE DEF b, r, p
  <1>6. /\ c \in Waitings /\ c.step = "registering" /\ c.left = Tail(b.left)
        /\ c.points = b.points /\ c.events = b.events \cup {r.event}
    BY <1>1, <1>2, <1>4 DEF Waitings
  <1> HIDE DEF c
  <1>7. c \in WaiterCalls /\ c \in CallsOf(Waiter)
    BY <1>6 DEF WaiterCalls, CallsOf
  <1>8. call'[Waiter] = c
    BY <1>3, <1>7, CallTyped, Assumed DEF IInv
  <1>9. p.fence \in Timelines /\ p.fence # None
    BY <1>4, Assumed DEF Points
  (* The new point's registration is r ...                                 *)
  <1>10. ASSUME NEW k \in 1 .. MaxTimelines, wait'.registration[k].fence = p.fence
         PROVE  LET s == wait'.registration[k]
                IN /\ s.event \in c.events /\ s.value <= p.value
                   /\ <<s.event, s.fence, s.value>> \in wait'.armed
    <2>1. k = i
      BY <1>2, <1>9, <1>10 DEF RegistrationsFit, RegistrationsApart, r
    <2>2. wait'.registration[k] = r
      BY <2>1 DEF r
    <2>3. QED
      BY <1>2, <1>6, <2>2
  (* ... and that of another point is as it was.                           *)
  <1>11. ASSUME NEW q, q.fence # p.fence, Covered(q, b.events),
                NEW k \in 1 .. MaxTimelines, wait'.registration[k].fence = q.fence
         PROVE  LET s == wait'.registration[k]
                IN /\ s.event \in c.events /\ s.value <= q.value
                   /\ <<s.event, s.fence, s.value>> \in wait'.armed
    <2>1. k # i
      BY <1>2, <1>11 DEF r
    <2> DEFINE s == wait.registration[k]
    <2>2. /\ wait'.registration[k] = s
          /\ <<s.event, s.fence, s.value>> \in wait.armed =>
               <<s.event, s.fence, s.value>> \in wait'.armed
      BY <2>1
    <2>3. s.event \in b.events /\ s.value <= q.value /\ <<s.event, s.fence, s.value>> \in wait.armed
      BY <1>11, <2>2 DEF Covered
    <2> HIDE DEF s
    <2>4. QED
      BY <1>6, <2>2, <2>3
  <1>12. ASSUME NEW x \in DOMAIN c.points
         PROVE  \/ \E k \in DOMAIN c.left : c.left[k] = c.points[x]
                \/ \A k \in 1 .. MaxTimelines :
                     LET s == wait'.registration[k]
                     IN s.fence = c.points[x].fence =>
                          /\ s.event \in c.events /\ s.value <= c.points[x].value
                          /\ <<s.event, s.fence, s.value>> \in wait'.armed
    <2> DEFINE q == b.points[x]
    <2>1. x \in DOMAIN b.points /\ c.points[x] = q
      BY <1>6, <1>12
    <2>2. CASE q = p
      BY <1>10, <2>1, <2>2
    <2>3. CASE q # p
      <3>1. CASE \E k \in DOMAIN b.left : b.left[k] = q
        <4>1. PICK k \in DOMAIN b.left : b.left[k] = q
          BY <3>1
        <4>2. k # 1
          BY <1>4, <2>3, <4>1
        <4>3. k - 1 \in 1 .. Len(Tail(b.left)) /\ (k - 1) + 1 = k
          BY <1>4, <4>1, <4>2
        <4>4. Tail(b.left)[k - 1] = q
          BY <1>4, <4>1, <4>3
        <4>5. QED
          BY <1>4, <1>6, <2>1, <4>3, <4>4
      <3>2. CASE Covered(q, b.events)
        <4>1. PICK y \in DOMAIN b.points : p = b.points[y]
          BY <1>4, <1>5
        <4>2. q.fence # p.fence
          BY <1>5, <2>1, <2>3, <4>1
        <4> HIDE DEF q
        <4>3. QED
          BY <1>11, <2>1, <3>2, <4>2
      <3>3. QED
        BY <1>5, <2>1, <3>1, <3>2
    <2>4. QED
      BY <2>2, <2>3
  <1>13. \A k \in DOMAIN c.left : \E x \in DOMAIN c.points : c.left[k] = c.points[x]
    <2>1. SUFFICES ASSUME NEW k \in DOMAIN c.left PROVE \E x \in DOMAIN c.points : c.left[k] = c.points[x]
      OBVIOUS
    <2>2. c.left[k] = b.left[k + 1] /\ k + 1 \in DOMAIN b.left
      BY <1>4, <1>6, <2>1
    <2>3. QED
      BY <1>5, <1>6, <2>2
  <1>14. WaiterFits'
    <2>1. \A x, y \in DOMAIN c.points : c.points[x].fence = c.points[y].fence => x = y
      BY <1>5, <1>6
    <2>2. c.step = "registering"
      BY <1>6
    <2>3. QED
      BY <1>8, <1>12, <1>13, <2>1, <2>2 DEF WaiterFits, Covered
  <1>15. QED
    BY <1>3, <1>7, <1>14, Counted, WaiterCall

(* A round of the wait's loop keeps the invariant.                         *)
LEMMA RegisterStep ==
  ASSUME IInv, NEW t \in Threads, Register(t)
  PROVE  IInv'
  <1>1. /\ UNCHANGED <<queue, completed, submitted, calls>> /\ At(t, "registering")
        /\ call[t].left # <<>>
    BY DEF Register
  <1>2. t = Waiter
    BY <1>1, CallIs DEF IInv
  <1>3. wait \in WaitSet
    BY DEF IInv, Types
  <1>4. ASSUME Returns(t), wait' \in WaitSet, RegistrationsFit'
        PROVE  IInv'
    <2>1. call' = [call EXCEPT ![Waiter] = [step |-> "idle"]]
      BY <1>2, <1>4 DEF Returns, Idle
    <2>2. QED
      BY <1>1, <1>4, <2>1, Counted, WaiterLeaves
  <1>5. ASSUME UNCHANGED wait
        PROVE  wait' \in WaitSet /\ RegistrationsFit'
    BY <1>1, <1>3, <1>5, RegistrationsSame
  <1>6. CASE Returns(t) /\ UNCHANGED wait
    BY <1>4, <1>5, <1>6
  <1>7. ASSUME UNCHANGED wait, NEW i \in 1 .. MaxTimelines,
               Served(t, wait.registration[i], wait.armed)
        PROVE  IInv'
    <2>1. Served(t, wait'.registration[i], wait'.armed)
      BY <1>7
    <2>2. QED
      BY <1>1, <1>5, <1>7, <2>1, ServedKept
  <1>8. ASSUME NEW i \in 1 .. MaxTimelines, NEW n \in Registrations, NEW A \in ArmedSet,
               Taken(i, n, A), Returns(t) \/ Served(t, n, A)
        PROVE  IInv'
    <2>1. /\ wait' \in WaitSet /\ RegistrationsFit'
          /\ wait'.registration[i] = n /\ wait'.armed = A
          /\ \A j \in (1 .. MaxTimelines) \ {i} :
               LET s == wait.registration[j]
               IN /\ wait'.registration[j] = s
                  /\ <<s.event, s.fence, s.value>> \in wait.armed =>
                       <<s.event, s.fence, s.value>> \in A
      BY <1>1, <1>8, TakenKept
    <2>2. CASE Returns(t)
      BY <1>4, <2>1, <2>2
    <2>3. CASE Served(t, n, A)
      <3>1. Served(t, wait'.registration[i], wait'.armed)
        BY <2>1, <2>3
      <3>2. QED
        BY <1>1, <2>1, <3>1, ServedKept
    <2>4. QED
      BY <1>8, <2>2, <2>3
  <1>9. QED
    BY <1>6, <1>7, <1>8, RegisterIs
-----------------------------------------------------------------------------
(* Every step keeps the invariant.                                         *)
LEMMA StepKeeps == IInv /\ [Next]_vars => IInv'
  <1> SUFFICES ASSUME IInv, [Next]_vars PROVE IInv'
    OBVIOUS
  <1>1. CASE UNCHANGED vars
    <2>1. UNCHANGED <<queue, completed, submitted, call, calls, wait>>
      BY <1>1 DEF vars
    <2>2. Types'
      BY <2>1 DEF IInv, Types, CallsOf
    <2>3. QueueInv'
      BY <2>1, Counted, Assumed, QueueKept DEF At
    <2>4. WaitInv'
      <3>1. \A f \in Timelines : completed[f] <= completed'[f]
        BY <2>1, Assumed DEF IInv, Types
      <3>2. QED
        BY <2>1, <3>1, WaitKept DEF IInv, Types
    <2>5. QED
      BY <2>2, <2>3, <2>4 DEF IInv
  <1>2. CASE \E q \in DOMAIN queue : Execute(q)
    BY <1>2, ExecuteStep
  <1>3. CASE RemoveDevice
    BY <1>3, RemoveDeviceStep
  <1>4. ASSUME NEW t \in Threads, Call(t)
        PROVE  IInv'
    <2>1. ASSUME NEW q \in DOMAIN queue, Submit(t, q) \/ QueueSignal(t, q) \/ QueueWait(t, q)
          PROVE  IInv'
      BY <2>1, SubmitStep, QueueSignalStep, QueueWaitStep
    <2>2. ASSUME NEW q \in Queues, CreateQueue(t, q)
          PROVE  IInv'
      BY <2>2, CreateQueueStep
    <2>3. CASE WaitIdle(t)
      <3>1. Drains(t, DOMAIN queue, None)
        BY <2>3 DEF WaitIdle
      <3>2. QED
        BY <3>1, DrainsStep
    <2>4. CASE DestroyQueue(t)
      <3>1. PICK q \in DOMAIN queue : Drains(t, {q}, q)
        BY <2>4 DEF DestroyQueue
      <3>2. {q} \in SUBSET DOMAIN queue /\ q \in Queues \cup {None}
        BY DEF IInv, Types
      <3>3. QED
        BY <3>1, <3>2, DrainsStep
    <2>5. CASE HostWait(t) \/ WakeVersion(t) \/ Notify(t) \/ Destroy(t)
      BY <2>5, HostWaitStep, WakeVersionStep, NotifyStep, DestroyStep
    <2>6. QED
      BY <1>4, <2>1, <2>2, <2>3, <2>4, <2>5 DEF Call
  <1>5. ASSUME NEW t \in Threads, Continue(t)
        PROVE  IInv'
    <2>1. CASE DrainNext(t) \/ Drained(t) \/ DrainEnds(t) \/ HostWaitEnds(t)
      BY <2>1, DrainNextStep, DrainedStep, DrainEndsStep, HostWaitStep
    <2>2. CASE Wait(t) \/ Register(t) \/ Sleep(t) \/ WaitEnds(t)
      BY <2>2, WaitStep1, RegisterStep, SleepStep, WaitEndsStep
    <2>3. CASE CloseNext(t) \/ Closed(t)
      BY <2>3, CloseNextStep, ClosedStep
    <2>4. QED
      BY <1>5, <2>1, <2>2, <2>3 DEF Continue
  <1>6. QED
    BY <1>1, <1>2, <1>3, <1>4, <1>5 DEF Next

(* What lies behind the three properties of the run.                       *)
THEOREM Invariant == Spec => []IInv
  <1>1. Init => IInv
    BY InitIInv
  <1>2. IInv /\ [Next]_vars => IInv'
    BY StepKeeps
  <1>3. QED
    BY <1>1, <1>2, PTL DEF Spec

(* A queue that WaitIdle or DestroyQueue has done with owes nothing of     *)
(* what it had been given before, whoever submits meanwhile.               *)
THEOREM IdleAlwaysDone == Spec => []IdleMeansDone
  <1>1. IInv => IdleMeansDone
    <2> SUFFICES ASSUME IInv, NEW t \in Threads, At(t, "draining"), call[t].at = None,
                          ~ DeviceRemoved, NEW q \in DOMAIN call[t].owed \ call[t].left
                   PROVE  call[t].owed[q] = 0
      BY DEF IdleMeansDone
    <2>1. DrainFits(call[t])
      BY DEF IInv, QueueInv, Drains1
    <2>2. q \in Queues /\ q # None
      BY <2>1, Assumed DEF DrainFits, IInv, Types
    <2>3. ~ Behind(call[t], q)
      BY <2>2 DEF Behind
    <2>4. QED
      BY <2>1, <2>3 DEF DrainFits
  <1>2. QED
    BY <1>1, Invariant, PTL

(* The types the run checks.                                               *)
LEMMA TypesOK ==
  ASSUME IInv
  PROVE  TypeOK
  <1>1. Types /\ ValuesCounted
    BY DEF IInv, QueueInv
  <1>2. ASSUME NEW q \in DOMAIN queue
        PROVE  /\ queue[q].value \in 0 .. MaxCalls
               /\ \A i \in DOMAIN queue[q].work : queue[q].work[i].op \in {"wait", "signal", "run"}
    <2>1. queue[q].value \in Nat /\ queue[q].work \in Seq(WorkSteps)
      BY <1>1 DEF Types, QueueSet
    <2>2. queue[q].value <= calls /\ calls \in 0 .. MaxCalls
      BY <1>1 DEF ValuesCounted, Types
    <2>3. \A i \in DOMAIN queue[q].work : queue[q].work[i] \in WorkSteps
      BY <2>1, LenProperties, ElementOfSeq
    <2>4. \A w \in WorkSteps : w.op \in {"wait", "signal", "run"}
      BY DEF WorkSteps, Run
    <2>5. QED
      BY <2>1, <2>2, <2>3, <2>4, Assumed
  <1>3. ASSUME NEW t \in Threads
        PROVE  call[t].step \in {"idle", "draining", "hostWait", "observed", "registering",
                                 "waiting", "closing"}
    <2>1. call[t] \in CallsOf(t)
      BY <1>1 DEF Types
    <2>2. CASE t = Waiter
      BY <2>1, <2>2 DEF CallsOf, WaiterCalls, Waitings
    <2>3. CASE t # Waiter
      BY <2>1, <2>3 DEF CallsOf, OtherCalls, Drainings, HostWaits
    <2>4. QED
      BY <2>2, <2>3
  <1>4. /\ \A i \in DOMAIN wait.registration : wait.registration[i] \in Registrations
        /\ wait.armed \subseteq Events \X Timelines \X (1 .. MaxValue)
    BY <1>1 DEF Types, WaitSet
  <1>5. QED
    BY <1>1, <1>2, <1>3, <1>4 DEF TypeOK, Types, Registrations

(* The waiting thread wakes for what it asked for: a notification since it *)
(* read the version, and a point reached whose timeline is registered.     *)
THEOREM NothingSleptThrough == Spec => []NoLostWake
  <1>1. IInv => NoLostWake
    <2> SUFFICES ASSUME IInv, At(Waiter, "waiting")
                   PROVE  /\ wait.version # call[Waiter].observed => wait.control
                          /\ \A i \in DOMAIN call[Waiter].points :
                               LET p == call[Waiter].points[i]
                               IN /\ completed[p.fence] >= p.value
                                  /\ \E j \in DOMAIN wait.registration :
                                       wait.registration[j].fence = p.fence
                                  => Wakes(Waiter)
      BY TypesOK DEF NoLostWake
    <2> DEFINE c == call[Waiter]
    <2>1. c.step = "waiting" /\ c \in Waitings
      BY CallIs, Assumed DEF At, IInv
    <2>2. /\ wait.version # c.observed => wait.control
          /\ c.left = <<>>
          /\ \A x \in DOMAIN c.points :
               (\E k \in DOMAIN c.left : c.left[k] = c.points[x]) \/ Covered(c.points[x], c.events)
      BY <2>1 DEF IInv, WaitInv, WaiterFits
    <2>3. ASSUME NEW x \in DOMAIN c.points, completed[c.points[x].fence] >= c.points[x].value,
                 NEW j \in DOMAIN wait.registration,
                 wait.registration[j].fence = c.points[x].fence
          PROVE  Wakes(Waiter)
      <3> DEFINE p == c.points[x]
                 r == wait.registration[j]
                 a == <<r.event, r.fence, r.value>>
      <3>1. wait \in WaitSet /\ j \in 1 .. MaxTimelines
        BY <2>3 DEF IInv, Types, WaitSet
      <3>2. p \in Points
        <4>1. c.points \in Seq(Points)
          BY <2>1 DEF Waitings
        <4> HIDE DEF c
        <4>2. QED
          BY <4>1, LenProperties, ElementOfSeq
      <3>3. Covered(p, c.events)
        <4>1. DOMAIN c.left = {}
          BY <2>2
        <4> HIDE DEF c
        <4>2. QED
          BY <2>2, <4>1
      <3>4. r.event \in c.events /\ r.value <= p.value /\ a \in wait.armed
        BY <2>3, <3>1, <3>3 DEF Covered
      <3>5. completed[r.fence] >= r.value
        <4>1. completed[p.fence] \in Nat /\ p.value \in Nat /\ r.value \in Nat
          BY <3>1, <3>2, Assumed DEF IInv, Types, Points, WaitSet, Registrations
        <4>2. completed[p.fence] >= p.value /\ r.fence = p.fence
          BY <2>3
        <4> HIDE DEF p, r
        <4>3. QED
          BY <3>4, <4>1, <4>2
      <3>6. Reached(a) /\ a[1] = r.event
        BY <3>5 DEF Reached
      <3> HIDE DEF a
      <3>7. IsSet(r.event)
        BY <3>4, <3>6 DEF IsSet
      <3>8. QED
        BY <3>4, <3>7 DEF Wakes
    <2>4. QED
      BY <2>2, <2>3
  <1>2. QED
    BY <1>1, Invariant, PTL

(* No event is closed that the runtime has still to set: neither when a    *)
(* registration changes hands nor when the CompletionWait is destroyed.    *)
THEOREM ClosedAlwaysSettled == Spec => ClosedWhenSettled
  <1> DEFINE A == \A a \in wait.armed : ~ Reached(a) =>
                    \E i \in DOMAIN wait'.registration : wait'.registration[i].event = a[1]
  <1>1. IInv /\ Next => A
    <2> SUFFICES ASSUME IInv, Next, NEW a \in wait.armed, ~ Reached(a)
                   PROVE  \E i \in DOMAIN wait'.registration : wait'.registration[i].event = a[1]
      OBVIOUS
    <2>1. PICK k \in 1 .. MaxTimelines :
            a = <<wait.registration[k].event, wait.registration[k].fence,
                  wait.registration[k].value>>
      BY DEF IInv, WaitInv, RegistrationsFit, ArmedRegistered
    <2>2. IInv' /\ wait \in WaitSet
      BY StepKeeps DEF IInv, Types
    <2>3. DOMAIN wait'.registration = 1 .. MaxTimelines
      BY <2>2 DEF IInv, Types, WaitSet
    <2>4. a[1] = wait.registration[k].event /\ wait.registration[k].event # None
      BY <2>1, <2>2, Assumed DEF WaitSet
    <2>5. CASE wait'.registration = wait.registration
      BY <2>1, <2>3, <2>4, <2>5
    <2>6. ASSUME NEW i \in 1 .. MaxTimelines, NEW n \in Registrations, NEW B \in ArmedSet,
                 Taken(i, n, B), UNCHANGED completed
          PROVE  \E j \in DOMAIN wait'.registration : wait'.registration[j].event = a[1]
      <3>1. k # i
        BY <2>1, <2>4, <2>6 DEF Taken, Reached
      <3>2. wait'.registration[k] = wait.registration[k]
        BY <2>6, <3>1, TakenKept
      <3>3. QED
        BY <2>3, <2>4, <3>2
    <2>7. ASSUME NEW t \in Threads, Continue(t)
          PROVE  \E i \in DOMAIN wait'.registration : wait'.registration[i].event = a[1]
      <3>1. CASE UNCHANGED wait
        BY <2>5, <3>1
      <3>2. CASE Register(t)
        BY <2>6, <3>1, <3>2, RegisterIs DEF Register
      <3>3. CASE CloseNext(t)
        <4>1. NoRegistration \in Registrations
          BY Assumed DEF NoRegistration, Registrations
        <4>2. QED
          BY <2>6, <3>3, <4>1, CloseNextIs DEF CloseNext
      <3>4. CASE Closed(t)
        <4>1. wait.registration[k].event \in Open
          BY <2>2, <2>4 DEF Open, WaitSet
        <4>2. QED
          BY <3>4, <4>1 DEF Closed
      <3>5. CASE Sleep(t)
        <4>1. wait'.registration = wait.registration
          BY <2>2, <3>5 DEF Sleep, WaitSet
        <4>2. QED
          BY <2>5, <4>1
      <3>6. QED
        BY <2>7, <3>1, <3>2, <3>3, <3>4, <3>5
           DEF Continue, DrainNext, Drained, DrainEnds, HostWaitEnds, Wait, WaitEnds
    <2>8. CASE \E t \in Threads : Continue(t)
      BY <2>7, <2>8
    <2>9. CASE \E t \in Threads : Notify(t)
      <3>1. wait'.registration = wait.registration
        BY <2>2, <2>9 DEF Notify, WaitSet
      <3>2. QED
        BY <2>5, <3>1
    <2>10. CASE UNCHANGED wait
      BY <2>5, <2>10
    <2>11. UNCHANGED wait \/ (\E t \in Threads : Notify(t)) \/ (\E t \in Threads : Continue(t))
      BY DEF Next, Call, Execute, RemoveDevice, Submit, QueueSignal, QueueWait, CreateQueue,
                  WaitIdle, DestroyQueue, Drains, HostWait, WakeVersion, Destroy
    <2>12. QED
      BY <2>8, <2>9, <2>10, <2>11
  <1>2. IInv /\ [Next]_vars => [A]_vars
    BY <1>1
  <1>3. Spec => [][A]_vars
    BY <1>2, Invariant, PTL DEF Spec
  <1>4. QED
    BY <1>3 DEF ClosedWhenSettled
-----------------------------------------------------------------------------
(* Command lists.                                                          *)

ListFields ==
  {"from", "bundle", "pages", "open", "begun", "accepted", "layout", "pendingError", "shadows", "arguments",
   "wanted", "memory", "pushes", "draws", "executed", "refused", "wrong", "starved"}

(* A list that was refused a command has an error, and is not accepted.    *)
Honest(s) ==
  /\ DOMAIN s = ListFields
  /\ {s.bundle, s.open, s.accepted, s.pendingError, s.refused} \subseteq BOOLEAN
  /\ s.refused => s.pendingError
  /\ s.accepted => ~ s.pendingError /\ ~ s.open

(* What a list executes stays as it was accepted.                          *)
Executable == {b \in DOMAIN lists : ~ lists[b].open /\ ~ lists[b].refused}
LegalInv ==
  /\ illegal = {} /\ signatures \subseteq Signatures
  /\ \A l \in DOMAIN lists : Honest(lists[l])
  /\ \A l \in DOMAIN lists : lists[l].executed \subseteq Executable

(* A list that nobody executes may become any honest one.                  *)
LEMMA BecomesLegal ==
  ASSUME LegalInv, NEW l \in DOMAIN lists, NEW s, Commands!Becomes(l, s), Honest(s), illegal' = illegal,
         Commands!Holders(l) = {}, s.executed \subseteq Executable \ {l}
  PROVE  LegalInv'
  <1>1. /\ DOMAIN lists' = DOMAIN lists /\ signatures' = signatures
        /\ lists'[l] = s
        /\ \A k \in DOMAIN lists : k # l => lists'[k] = lists[k]
    BY DEF Commands!Becomes
  <1>2. \A k \in DOMAIN lists : l \notin lists[k].executed
    BY DEF Commands!Holders
  <1>3. Executable \ {l} \subseteq Executable'
    BY <1>1 DEF Executable
  <1>4. ASSUME NEW k \in DOMAIN lists PROVE lists'[k].executed \subseteq Executable'
    BY <1>1, <1>2, <1>3 DEF LegalInv
  <1> QED
    BY <1>1, <1>4 DEF LegalInv

(* What records may be refused or go on.                                   *)
LEMMA OpenNotHeld ==
  ASSUME LegalInv, NEW l \in DOMAIN lists, lists[l].open
  PROVE  Commands!Holders(l) = {} /\ lists[l].executed \subseteq Executable \ {l}
  BY DEF LegalInv, Executable, Commands!Holders

(* Nor is what is executed disturbed by what an open list records.         *)
LEMMA RecordsLegal ==
  ASSUME LegalInv, NEW l \in DOMAIN lists, lists[l].open, NEW s, Commands!Becomes(l, s), illegal' = illegal,
         Honest(s), s.executed = lists[l].executed
  PROVE  LegalInv'
  BY OpenNotHeld, BecomesLegal

(* A blank list is refused nothing and accepted nowhere.                   *)
LEMMA BlankHonest ==
  ASSUME NEW a, NEW bundle \in BOOLEAN, NEW pages
  PROVE  /\ Honest(Commands!Blank(a, bundle, pages))
         /\ Commands!Blank(a, bundle, pages).executed = {}
         /\ ~ Commands!Blank(a, bundle, pages).refused
         /\ ~ Commands!Blank(a, bundle, pages).open
         /\ ~ Commands!Blank(a, bundle, pages).accepted
  BY DEF Honest, ListFields, Commands!Blank

(* The same of one that starts anew.                                       *)
LEMMA RewoundHonest ==
  ASSUME LegalInv, NEW l \in DOMAIN lists, NEW a
  PROVE  /\ Honest(Commands!Rewound(l, a))
         /\ Commands!Rewound(l, a).executed = {}
         /\ ~ Commands!Rewound(l, a).refused
         /\ ~ Commands!Rewound(l, a).open
         /\ ~ Commands!Rewound(l, a).accepted
  <1>1. lists[l].bundle \in BOOLEAN
    BY DEF LegalInv, Honest
  <1> QED
    BY <1>1, BlankHonest DEF Commands!Rewound

(* A refused command leaves the list with an error.                        *)
LEMMA RejectLegal ==
  ASSUME LegalInv, NEW l \in DOMAIN lists, lists[l].open, Commands!Reject(l), illegal' = illegal
  PROVE  LegalInv'
  <1> DEFINE s == [lists[l] EXCEPT !.pendingError = TRUE, !.refused = TRUE]
  <1>1. Commands!Becomes(l, s)
    BY DEF Commands!Reject
  <1>2. Honest(s) /\ s.executed = lists[l].executed
    BY DEF LegalInv, Honest, ListFields
  <1> QED
    BY <1>1, <1>2, RecordsLegal

(* A legal command is only given.                                          *)
LEMMA GivesLegal ==
  ASSUME LegalInv, NEW l \in DOMAIN lists, NEW command, NEW legal, legal, Commands!Gives(l, command, legal)
  PROVE  LegalInv'
  BY DEF Commands!Gives, LegalInv, Executable

(* What only primary lists may record, bundles refuse.                     *)
LEMMA PrimaryLegal ==
  ASSUME LegalInv, NEW l \in DOMAIN lists, lists[l].open, NEW command,
         Commands!PrimaryOnly(l, command)
  PROVE  LegalInv'
  <1>1. CASE Commands!Rejected(l)
    BY <1>1, RejectLegal DEF Commands!PrimaryOnly
  <1>2. CASE ~ Commands!Rejected(l)
    BY <1>2, GivesLegal DEF Commands!PrimaryOnly, Commands!Rejected
  <1> QED
    BY <1>1, <1>2

(* Queries, of which bundles record none.                                  *)
LEMMA QueryLegal ==
  ASSUME LegalInv, NEW l \in DOMAIN lists, Commands!Query(l)
  PROVE  LegalInv'
  <1>1. lists[l].open
    BY DEF Commands!Query, Commands!Recording
  <1>2. CASE Commands!Rejected(l)
    BY <1>1, <1>2, RejectLegal DEF Commands!Query
  <1>3. CASE ~ Commands!Rejected(l)
    <2>1. PICK op \in {"timestamp", "begin", "end", "resolve"},
               type \in {"timestamp", "occlusion", "statistics"} :
            /\ Commands!Queries(op, type)
            /\ Commands!Gives(l, "query", ~ lists[l].bundle /\ (type = "timestamp" => op # "begin"))
      BY <1>3 DEF Commands!Query
    <2>2. ~ lists[l].bundle /\ (type = "timestamp" => op # "begin")
      BY <1>3, <2>1 DEF Commands!Queries, Commands!Rejected
    <2> QED
      BY <2>1, <2>2, GivesLegal
  <1> QED
    BY <1>2, <1>3

(* A texture barrier discards only what was undefined.                     *)
LEMMA TextureBarrierLegal ==
  ASSUME LegalInv, NEW l \in DOMAIN lists, Commands!TextureBarrier(l)
  PROVE  LegalInv'
  <1>1. lists[l].open
    BY DEF Commands!TextureBarrier, Commands!Recording
  <1>2. CASE Commands!Rejected(l)
    BY <1>1, <1>2, RejectLegal DEF Commands!TextureBarrier
  <1>3. CASE ~ Commands!Rejected(l)
    <2>1. PICK before \in {"undefined", "common", "copySource"}, discard \in BOOLEAN :
            /\ before = "undefined" => discard
            /\ Commands!Gives(l, "texture barrier", Commands!TextureBarrierLegal(l,
                 [before |-> before, after |-> "copyDest", discard |-> discard]))
      BY <1>3 DEF Commands!TextureBarrier
    <2>2. Commands!TextureBarrierLegal(l, [before |-> before, after |-> "copyDest", discard |-> discard])
      BY <2>1 DEF Commands!TextureBarrierLegal, Commands!TextureLayout, Commands!NativeDiscard
    <2> QED
      BY <2>1, <2>2, GivesLegal
  <1> QED
    BY <1>2, <1>3

(* A buffer barrier.                                                       *)
LEMMA BufferBarrierLegal ==
  ASSUME LegalInv, NEW l \in DOMAIN lists, Commands!BufferBarrier(l)
  PROVE  LegalInv'
  <1>1. lists[l].open
    BY DEF Commands!BufferBarrier, Commands!Recording
  <1>2. CASE Commands!Rejected(l)
    BY <1>1, <1>2, RejectLegal DEF Commands!BufferBarrier
  <1>3. CASE ~ Commands!Rejected(l)
    <2>1. PICK b \in [ownership : BOOLEAN, heap : {"default", "upload", "readback"}] :
            ~ Commands!BufferSkipped(b) /\ Commands!Gives(l, "buffer barrier", b.heap = "default")
      BY <1>3 DEF Commands!BufferBarrier
    <2>2. b.heap = "default"
      BY <2>1 DEF Commands!BufferSkipped
    <2> QED
      BY <2>1, <2>2, GivesLegal
  <1> QED
    BY <1>2, <1>3

(* Push data and draws change nothing of whether a list is legal.          *)
LEMMA SameLegal ==
  ASSUME LegalInv, NEW l \in DOMAIN lists, lists[l].open, NEW s, Commands!Becomes(l, s), illegal' = illegal,
         DOMAIN s = DOMAIN lists[l],
         s.bundle = lists[l].bundle, s.open = lists[l].open, s.accepted = lists[l].accepted,
         s.pendingError = lists[l].pendingError, s.refused = lists[l].refused, s.executed = lists[l].executed
  PROVE  LegalInv'
  <1>1. Honest(s)
    BY DEF LegalInv, Honest
  <1> QED
    BY <1>1, RecordsLegal

(* cl_bindLayout records what the list is open for.                        *)
LEMMA BindLegal ==
  ASSUME LegalInv, NEW l \in DOMAIN lists, Commands!BindLayout(l)
  PROVE  LegalInv'
  <1>1. lists[l].open /\ illegal' = illegal /\ DOMAIN lists[l] = ListFields
    BY DEF LegalInv, Honest, Commands!BindLayout, Commands!Recording
  <1>2. PICK y \in layouts :
          Commands!Becomes(l, [lists[l] EXCEPT !.layout = y, !.arguments = Commands!OldArguments(l, y),
                       !.shadows = IF lists[l].layout = y THEN @ ELSE <<>>,
                       !.wanted = IF lists[l].layout = y THEN @ ELSE Commands!NothingPushed(y)])
    BY DEF Commands!BindLayout
  <1> QED
    BY <1>1, <1>2, SameLegal DEF ListFields

(* A draw changes only what draws found.                                   *)
LEMMA DrawsSame ==
  ASSUME NEW l \in DOMAIN lists, DOMAIN lists[l] = ListFields, NEW stage, NEW wanted,
         NEW s, s = Commands!Draws(l, stage, wanted)
  PROVE  DOMAIN s = ListFields /\ \A f \in ListFields \ {"wrong", "draws"} : s[f] = lists[l][f]
  <1>1. CASE lists[l].starved
    BY <1>1 DEF Commands!Draws
  <1>2. CASE ~ lists[l].starved
    BY <1>2 DEF Commands!Draws, ListFields
  <1> QED
    BY <1>1, <1>2

(* Draws and dispatches.                                                   *)
LEMMA DrawLegal ==
  ASSUME LegalInv, NEW l \in DOMAIN lists, Commands!Draw(l)
  PROVE  LegalInv'
  <1>1. lists[l].open /\ illegal' = illegal /\ DOMAIN lists[l] = ListFields
    BY DEF LegalInv, Honest, Commands!Draw, Commands!Drawable, Commands!Recording
  <1>2. PICK stage \in Commands!DrawStages(l) :
          Commands!Becomes(l, Commands!Draws(l, stage, lists[l].wanted[stage]))
    BY DEF Commands!Draw
  <1>3. PICK d : d = Commands!Draws(l, stage, lists[l].wanted[stage])
    OBVIOUS
  <1>4. DOMAIN d = ListFields /\ \A f \in ListFields \ {"wrong", "draws"} : d[f] = lists[l][f]
    BY <1>1, <1>3, DrawsSame
  <1> QED
    BY <1>1, <1>2, <1>3, <1>4, SameLegal DEF ListFields

(* Indirect draws.                                                         *)
LEMMA IndirectLegal ==
  ASSUME LegalInv, NEW l \in DOMAIN lists, Commands!ExecuteIndirect(l)
  PROVE  LegalInv'
  <1>1. lists[l].open /\ DOMAIN lists[l] = ListFields
    BY DEF LegalInv, Honest, Commands!ExecuteIndirect, Commands!Drawable, Commands!Recording
  <1>2. PICK s \in signatures, stage \in Commands!DrawStages(l), size \in {0, 2}, offset \in 0 .. 1,
             count \in 0 .. 1 :
          /\ ~ (offset > size \/ s.stride * count > size - offset)
          /\ illegal' = IF offset + s.stride * count <= size THEN illegal ELSE illegal \cup {"indirect"}
          /\ Commands!Becomes(l, Commands!Indirect(l, s, stage))
    BY DEF Commands!ExecuteIndirect
  <1>3. s.stride \in Nat
    BY Dx12CommandsAssumption DEF LegalInv
  <1>4. illegal' = illegal
    BY <1>2, <1>3
  <1>5. PICK d : d = Commands!Draws(l, stage, Commands!Overwritten(s, lists[l].wanted[stage]))
    OBVIOUS
  <1>6. DOMAIN d = ListFields /\ \A f \in ListFields \ {"wrong", "draws"} : d[f] = lists[l][f]
    BY <1>1, <1>5, DrawsSame
  <1> QED
    BY <1>1, <1>2, <1>4, <1>5, <1>6, SameLegal DEF ListFields, Commands!Indirect

(* cl_pushConstants.                                                       *)
LEMMA PushLegal ==
  ASSUME LegalInv, NEW l \in DOMAIN lists, Commands!PushConstants(l)
  PROVE  LegalInv'
  <1>1. lists[l].open /\ illegal' = illegal /\ DOMAIN lists[l] = ListFields
    BY DEF LegalInv, Honest, Commands!PushConstants, Commands!Recording
  <1>2. ASSUME NEW i, NEW offset, NEW words, NEW s,
               \/ s = Commands!Rooted(l, i, offset, words)
               \/ s = Commands!Stored(l, i, offset, words)
               \/ s = Commands!Starved(l, i, offset, words)
        PROVE  /\ DOMAIN s = ListFields
               /\ \A f \in ListFields \ {"pushes", "wanted", "arguments", "shadows", "pages", "memory", "starved"} :
                    s[f] = lists[l][f]
    <2>1. PICK p : p = Commands!Pushed(l, i, offset, words)
      OBVIOUS
    <2>2. /\ DOMAIN p = ListFields
          /\ \A f \in ListFields \ {"pushes", "wanted"} : p[f] = lists[l][f]
      BY <1>1, <2>1 DEF Commands!Pushed, ListFields
    <2>3. CASE s = Commands!Rooted(l, i, offset, words)
      BY <2>1, <2>2, <2>3 DEF Commands!Rooted, ListFields
    <2>4. CASE s = Commands!Stored(l, i, offset, words)
      BY <2>1, <2>2, <2>4 DEF Commands!Stored, ListFields
    <2>5. CASE s = Commands!Starved(l, i, offset, words)
      BY <2>1, <2>2, <2>5 DEF Commands!Starved, ListFields
    <2> QED
      BY <1>2, <2>3, <2>4, <2>5
  <1>3. PICK s : /\ Commands!Becomes(l, s)
                 /\ \E i, offset, words : \/ s = Commands!Rooted(l, i, offset, words)
                                          \/ s = Commands!Stored(l, i, offset, words)
                                          \/ s = Commands!Starved(l, i, offset, words)
    <2>1. PICK i, offset, words : Commands!Push(l, i, offset, words)
      BY DEF Commands!PushConstants
    <2> QED
      BY <2>1 DEF Commands!Push
  <1>4. /\ DOMAIN s = ListFields
        /\ \A f \in ListFields \ {"pushes", "wanted", "arguments", "shadows", "pages", "memory", "starved"} :
             s[f] = lists[l][f]
    BY <1>2, <1>3
  <1> QED
    BY <1>1, <1>3, <1>4, SameLegal DEF ListFields

(* cl_executeCommands takes bundles that are accepted, and so not refused. *)
LEMMA ExecuteLegal ==
  ASSUME LegalInv, NEW l \in DOMAIN lists, Commands!ExecuteCommands(l)
  PROVE  LegalInv'
  <1>1. lists[l].open /\ DOMAIN lists[l] = ListFields
    BY DEF LegalInv, Honest, Commands!ExecuteCommands, Commands!Recording
  <1>2. CASE Commands!Rejected(l)
    BY <1>1, <1>2, RejectLegal DEF Commands!ExecuteCommands
  <1>3. CASE ~ Commands!Rejected(l)
    <2> DEFINE Ended == {b \in DOMAIN lists : ~ lists[b].open /\ (lists[b].accepted \/ lists[b].refused)}
               Invalid(bs) == {i \in DOMAIN bs : ~ Commands!Valid(bs[i])}
               Executes(bs) == {bs[i] : i \in {j \in DOMAIN bs : \A k \in Invalid(bs) : j < k}}
    <2>1. PICK bs \in Commands!SeqOf(Ended, 2) :
            /\ illegal' = IF \A b \in Executes(bs) : lists[b].accepted THEN illegal ELSE illegal \cup {"bundle"}
            /\ Commands!Becomes(l, [lists[l] EXCEPT !.executed = @ \cup Executes(bs),
                      !.wanted = IF lists[l].layout = None THEN @ ELSE Commands!NothingPushed(lists[l].layout)])
      BY <1>3 DEF Commands!ExecuteCommands
    <2>2. \A i \in DOMAIN bs : bs[i] \in Ended /\ i \in Nat
      BY DEF Commands!SeqOf
    <2>3. ASSUME NEW b \in Executes(bs)
          PROVE  b \in Executable /\ lists[b].accepted
      <3>1. PICK i \in DOMAIN bs : b = bs[i] /\ \A k \in Invalid(bs) : i < k
        OBVIOUS
      <3>2. Commands!Valid(b)
        BY <2>2, <3>1
      <3> QED
        BY <2>2, <3>1, <3>2 DEF Commands!Valid, LegalInv, Honest, Executable
    <2>4. illegal' = illegal
      BY <2>1, <2>3
    <2> DEFINE s == [lists[l] EXCEPT !.executed = @ \cup Executes(bs),
                      !.wanted = IF lists[l].layout = None THEN @ ELSE Commands!NothingPushed(lists[l].layout)]
    <2>5. Honest(s)
      BY DEF LegalInv, Honest, ListFields
    <2>6. s.executed = lists[l].executed \cup Executes(bs)
      BY <1>1 DEF ListFields
    <2>7. s.executed \subseteq Executable \ {l}
      BY <1>1, <2>3, <2>6, OpenNotHeld DEF Executable
    <2>8. Commands!Becomes(l, s)
      BY <2>1
    <2> QED
      BY <1>1, <2>4, <2>5, <2>7, <2>8, OpenNotHeld, BecomesLegal
  <1> QED
    BY <1>2, <1>3

(* A list that a live one executes is not recycled.                        *)
LEMMA RecycleLegal ==
  ASSUME LegalInv, NEW l \in DOMAIN lists, Commands!Recycle(l)
  PROVE  LegalInv'
  <1>1. Commands!Holders(l) = {} /\ illegal' = illegal
    BY DEF Commands!Recycle
  <1>2. PICK a, s : /\ Commands!Becomes(l, s)
                    /\ \/ s = [Commands!Rewound(l, a) EXCEPT !.open = TRUE]
                       \/ s = [Commands!Rewound(l, a) EXCEPT !.pendingError =
                                 lists[l].bundle /\ ~ allocators[lists[l].from].bundles]
                       \/ \E missing \in BOOLEAN : s = [Commands!Rewound(l, a) EXCEPT !.pendingError = missing]
    BY DEF Commands!Recycle
  <1>3. PICK r : r = Commands!Rewound(l, a)
    OBVIOUS
  <1>4. Honest(r) /\ r.executed = {} /\ ~ r.refused /\ ~ r.open /\ ~ r.accepted
    BY <1>3, RewoundHonest
  <1>5. Honest(s) /\ s.executed = {}
    BY <1>2, <1>3, <1>4 DEF Honest, ListFields
  <1> QED
    BY <1>1, <1>2, <1>5, BecomesLegal

(* Nor begun again.                                                        *)
LEMMA BeginLegal ==
  ASSUME LegalInv, NEW l \in DOMAIN lists, Commands!BeginSecondary(l)
  PROVE  LegalInv'
  <1>1. lists[l].open /\ illegal' = illegal /\ DOMAIN lists[l] = ListFields
    BY DEF LegalInv, Honest, Commands!BeginSecondary
  <1>2. Commands!Becomes(l, [lists[l] EXCEPT !.begun = TRUE])
    BY DEF Commands!BeginSecondary
  <1> QED
    BY <1>1, <1>2, SameLegal DEF ListFields

(* cl_end accepts what no command was refused of.                          *)
LEMMA EndLegal ==
  ASSUME LegalInv, NEW l \in DOMAIN lists, Commands!End(l)
  PROVE  LegalInv'
  <1>1. lists[l].open /\ illegal' = illegal /\ Honest(lists[l])
    BY DEF LegalInv, Commands!End, Commands!Recording
  <1>2. PICK r : r = Commands!Rewound(l, lists[l].from)
    OBVIOUS
  <1>3. Honest(r) /\ ~ r.open
    BY <1>2, RewoundHonest
  <1>4. PICK closes \in BOOLEAN :
          Commands!Becomes(l, [r EXCEPT
            !.accepted = closes /\ ~ lists[l].pendingError, !.pendingError = lists[l].pendingError,
            !.memory = lists[l].memory, !.draws = lists[l].draws, !.executed = lists[l].executed,
            !.refused = lists[l].refused])
    BY <1>2 DEF Commands!End
  <1>5. PICK s : /\ Commands!Becomes(l, s)
                 /\ s = [r EXCEPT
                      !.accepted = closes /\ ~ lists[l].pendingError, !.pendingError = lists[l].pendingError,
                      !.memory = lists[l].memory, !.draws = lists[l].draws, !.executed = lists[l].executed,
                      !.refused = lists[l].refused]
    BY <1>4
  <1>6. Honest(s) /\ s.executed = lists[l].executed
    BY <1>1, <1>3, <1>5 DEF Honest, ListFields
  <1> QED
    BY <1>1, <1>5, <1>6, RecordsLegal

(* A new list executes nothing.                                            *)
LEMMA NewLegal ==
  ASSUME LegalInv, NEW l, l \notin DOMAIN lists, NEW s, Honest(s), s.executed = {},
         lists' = Commands!Set(lists, l, s), illegal' = illegal, signatures' = signatures
  PROVE  LegalInv'
  <1>1. /\ DOMAIN lists' = DOMAIN lists \cup {l}
        /\ lists'[l] = s
        /\ \A k \in DOMAIN lists : lists'[k] = lists[k]
    BY DEF Commands!Set
  <1>2. Executable \subseteq Executable'
    BY <1>1 DEF Executable
  <1> QED
    BY <1>1, <1>2 DEF LegalInv

(* What a destroyed list executed may go too.                              *)
LEMMA DestroyLegal ==
  ASSUME LegalInv, Commands!DestroyCommandList
  PROVE  LegalInv'
  <1>1. PICK l \in DOMAIN lists : Commands!Holders(l) = {} /\ lists' = Commands!Drop(lists, l)
    BY DEF Commands!DestroyCommandList
  <1>2. /\ DOMAIN lists' = DOMAIN lists \ {l}
        /\ \A k \in DOMAIN lists \ {l} : lists'[k] = lists[k] /\ l \notin lists[k].executed
    BY <1>1 DEF Commands!Drop, Commands!Holders
  <1>3. Executable \ {l} \subseteq Executable'
    BY <1>2 DEF Executable
  <1>4. illegal' = illegal /\ signatures' = signatures
    BY DEF Commands!DestroyCommandList
  <1> QED
    BY <1>2, <1>3, <1>4 DEF LegalInv

(* An allocator is reset once its lists are at rest.                       *)
LEMMA ResetLegal ==
  ASSUME LegalInv, Commands!ResetAllocator
  PROVE  LegalInv'
  <1>1. PICK a \in DOMAIN allocators :
          lists' = [l \in DOMAIN lists |->
                        IF lists[l].from = a
                          THEN [lists[l] EXCEPT !.accepted = FALSE, !.draws = {}, !.executed = {}]
                          ELSE lists[l]]
    BY DEF Commands!ResetAllocator
  <1>2. DOMAIN lists' = DOMAIN lists /\ illegal' = illegal /\ signatures' = signatures
    BY <1>1 DEF Commands!ResetAllocator
  <1>3. ASSUME NEW l \in DOMAIN lists
        PROVE  /\ Honest(lists'[l])
               /\ lists'[l].open = lists[l].open /\ lists'[l].refused = lists[l].refused
               /\ lists'[l].executed \subseteq lists[l].executed
    BY <1>1 DEF LegalInv, Honest, ListFields
  <1>4. Executable \subseteq Executable'
    BY <1>2, <1>3 DEF Executable
  <1> QED
    BY <1>2, <1>3, <1>4 DEF LegalInv

(* d_createCommandList.                                                    *)
LEMMA CreateLegal ==
  ASSUME LegalInv, Commands!CreateCommandList
  PROVE  LegalInv'
  <1>1. PICK l \in Lists \ DOMAIN lists, a \in DOMAIN allocators :
          lists' = Commands!Set(lists, l, [Commands!NewList(a, FALSE) EXCEPT !.open = TRUE])
    BY DEF Commands!CreateCommandList
  <1>2. PICK r : r = Commands!NewList(a, FALSE)
    OBVIOUS
  <1>3. Honest(r) /\ r.executed = {} /\ ~ r.refused /\ ~ r.accepted
    BY <1>2, BlankHonest DEF Commands!NewList
  <1>4. PICK s : s = [r EXCEPT !.open = TRUE]
    OBVIOUS
  <1>5. Honest(s) /\ s.executed = {}
    BY <1>3, <1>4 DEF Honest, ListFields
  <1> QED
    BY <1>1, <1>2, <1>4, <1>5, NewLegal DEF Commands!CreateCommandList

(* d_createSecondaryCommandList.                                           *)
LEMMA CreateSecondaryLegal ==
  ASSUME LegalInv, Commands!CreateSecondaryCommandList
  PROVE  LegalInv'
  <1>1. PICK l \in Lists \ DOMAIN lists, a \in DOMAIN allocators :
          lists' = Commands!Set(lists, l, Commands!NewList(a, TRUE)) \/ lists' = lists
    BY DEF Commands!CreateSecondaryCommandList
  <1>2. illegal' = illegal /\ signatures' = signatures
    BY DEF Commands!CreateSecondaryCommandList
  <1>3. PICK r : r = Commands!NewList(a, TRUE)
    OBVIOUS
  <1>4. Honest(r) /\ r.executed = {}
    BY <1>3, BlankHonest DEF Commands!NewList
  <1>5. CASE lists' = lists
    BY <1>2, <1>5 DEF LegalInv, Executable
  <1> QED
    BY <1>1, <1>2, <1>3, <1>4, <1>5, NewLegal

(* d_createCommandSignature refuses what D3D12 does.                       *)
LEMMA SignatureLegal ==
  ASSUME LegalInv, Commands!CreateCommandSignature
  PROVE  LegalInv'
  <1>1. PICK s \in Signatures \ signatures :
         /\ Commands!ArgsValid(s)
         /\ illegal' = IF \E i \in Commands!Constants(s) :
                            \/ s.args[i].root \notin DOMAIN Ranges[s.layout]
                            \/ Ranges[s.layout][s.args[i].root].emulated
                         THEN illegal \cup {"signature"} ELSE illegal
         /\ signatures' = signatures \cup {s}
    BY DEF Commands!CreateCommandSignature
  <1>2. illegal' = illegal /\ signatures' \subseteq Signatures
    BY <1>1 DEF Commands!ArgsValid, LegalInv
  <1>3. lists' = lists
    BY DEF Commands!CreateCommandSignature
  <1> QED
    BY <1>2, <1>3 DEF LegalInv, Executable

(* Every step of a list.                                                   *)
LEMMA ListStepLegal ==
  ASSUME LegalInv, NEW l \in DOMAIN lists,
         \/ Commands!Recycle(l) \/ Commands!BeginSecondary(l) \/ Commands!End(l)
         \/ Commands!Pass(l) \/ Commands!Clear(l) \/ Commands!Copy(l) \/ Commands!WorkGraph(l)
         \/ Commands!AccelerationStructure(l) \/ Commands!Query(l)
         \/ Commands!TextureBarrier(l) \/ Commands!BufferBarrier(l)
         \/ Commands!BindLayout(l) \/ Commands!PushConstants(l) \/ Commands!Draw(l)
         \/ Commands!ExecuteIndirect(l) \/ Commands!ExecuteCommands(l)
  PROVE  LegalInv'
  <1>1. CASE \/ Commands!Pass(l) \/ Commands!Clear(l) \/ Commands!Copy(l) \/ Commands!WorkGraph(l)
             \/ Commands!AccelerationStructure(l)
    <2>1. lists[l].open /\ \E command : Commands!PrimaryOnly(l, command)
      BY <1>1 DEF Commands!Pass, Commands!Clear, Commands!Copy, Commands!WorkGraph,
                  Commands!AccelerationStructure, Commands!Recording
    <2> QED
      BY <2>1, PrimaryLegal
  <1> QED
    BY <1>1, RecycleLegal, BeginLegal, EndLegal, QueryLegal, TextureBarrierLegal, BufferBarrierLegal,
       BindLegal, PushLegal, DrawLegal, IndirectLegal, ExecuteLegal

(* Every step of the device.                                               *)
LEMMA LegalStep == LegalInv /\ [DeviceNext]_deviceVars => LegalInv'
  <1> SUFFICES ASSUME LegalInv, [DeviceNext]_deviceVars PROVE LegalInv'
    OBVIOUS
  <1>1. CASE UNCHANGED commandVars
    BY <1>1 DEF commandVars, LegalInv, Executable
  <1>2. CASE Commands!Next
    <2>1. CASE Commands!CreatePipelineLayout \/ Commands!DestroyPipelineLayout
               \/ Commands!CreateCommandAllocator \/ Commands!DestroyCommandAllocator
      BY <2>1 DEF Commands!CreatePipelineLayout, Commands!DestroyPipelineLayout,
                  Commands!CreateCommandAllocator, Commands!DestroyCommandAllocator, LegalInv, Executable
    <2>2. CASE Commands!DestroyCommandSignature
      BY <2>2 DEF Commands!DestroyCommandSignature, LegalInv, Executable
    <2>3. CASE \E l \in DOMAIN lists :
           \/ Commands!Recycle(l) \/ Commands!BeginSecondary(l) \/ Commands!End(l)
           \/ Commands!Pass(l) \/ Commands!Clear(l) \/ Commands!Copy(l) \/ Commands!WorkGraph(l)
           \/ Commands!AccelerationStructure(l) \/ Commands!Query(l)
           \/ Commands!TextureBarrier(l) \/ Commands!BufferBarrier(l)
           \/ Commands!BindLayout(l) \/ Commands!PushConstants(l) \/ Commands!Draw(l)
           \/ Commands!ExecuteIndirect(l) \/ Commands!ExecuteCommands(l)
      BY <2>3, ListStepLegal
    <2> QED
      BY <1>2, <2>1, <2>2, <2>3, SignatureLegal, ResetLegal, CreateLegal, CreateSecondaryLegal, DestroyLegal
         DEF Commands!Next
  <1> QED
    BY <1>1, <1>2 DEF DeviceNext, deviceVars

(* Bundles, lists and signatures are given only what D3D12 allows them,    *)
(* and what was refused a command is neither accepted nor executed         *)
(* (Dx12CommandList of rhi_dx12.cpp), for any allocators, lists, layouts   *)
(* and signatures, however they are recorded, recycled and executed.       *)
THEOREM CommandsAlwaysLegal == DeviceSpec => []CommandsLegal
  <1>1. DeviceInit => LegalInv
    BY DEF DeviceInit, Commands!Init, LegalInv
  <1>2. LegalInv => CommandsLegal
    BY DEF LegalInv, CommandsLegal, Commands!CommandsLegal, Honest, Executable
  <1> QED
    BY <1>1, <1>2, LegalStep, PTL DEF DeviceSpec
-----------------------------------------------------------------------------
(* Push data.                                                              *)

PageSet == [capacity : Nat, cursor : Nat]
Images(y, i) == [1 .. Ranges[y][i].words -> Nat]

(* The stages that a push of range i is for, on a list of that type.       *)
Reaches(type, y, i, g) == g \in Ranges[y][i].stages /\ (type = "compute" => g = "compute")

ShadowOf(s, y, i) == IF i \in DOMAIN s.shadows THEN s.shadows[i] ELSE Commands!Zeros(i, y)

(* What stage g was pushed last of range i is where a draw looks for it,   *)
(* and as long as scratch memory was had, in memory as well.               *)
Carries(s, type, y, g, i) ==
  /\ s.wanted[g][i] \in Images(y, i)
  /\ \A w \in 1 .. Ranges[y][i].words : s.wanted[g][i][w] # 0 => Reaches(type, y, i, g)
  /\ Ranges[y][i].emulated =>
       \A w \in 1 .. Ranges[y][i].words : s.wanted[g][i][w] # 0 =>
         /\ ShadowOf(s, y, i)[w] = s.wanted[g][i][w]
         /\ ~ s.starved =>
              /\ s.arguments[g][i] # None
              /\ <<s.arguments[g][i][1], s.arguments[g][i][2] + w>> \in DOMAIN s.memory
              /\ s.memory[<<s.arguments[g][i][1], s.arguments[g][i][2] + w>>] = s.wanted[g][i][w]
  /\ ~ Ranges[y][i].emulated =>
       /\ s.arguments[g][i] \in {None} \cup Images(y, i)
       /\ \A w \in 1 .. Ranges[y][i].words : s.wanted[g][i][w] # 0 =>
            s.arguments[g][i] # None /\ s.arguments[g][i][w] = s.wanted[g][i][w]

Bound(s, type, y) ==
  /\ DOMAIN s.arguments = Commands!Stages /\ DOMAIN s.wanted = Commands!Stages
  /\ \A i \in DOMAIN Ranges[y] : ShadowOf(s, y, i) \in Images(y, i)
  /\ \A g \in Commands!Stages :
       /\ DOMAIN s.arguments[g] = DOMAIN Ranges[y] /\ DOMAIN s.wanted[g] = DOMAIN Ranges[y]
       /\ \A i \in DOMAIN Ranges[y] : Carries(s, type, y, g, i)

(* Draws found what they should read, and it is still there.               *)
Drawn(s) ==
  /\ ~ s.wrong
  /\ \A d \in s.draws : <<d[1], d[2]>> \in DOMAIN s.memory /\ s.memory[<<d[1], d[2]>>] = d[3]

(* Nothing was uploaded beyond a page's cursor.                            *)
Below(s) ==
  \A c \in DOMAIN s.memory :
    c \in Nat \X Nat /\ c[1] \in DOMAIN s.pages /\ c[2] <= s.pages[c[1]].cursor

Recorded(s, type) ==
  /\ s.pages \in Seq(PageSet) /\ s.pushes \in Nat
  /\ s.layout \in RootLayouts \cup {None}
  /\ s.layout # None => Bound(s, type, s.layout)
  /\ Drawn(s)
  /\ s.open => Below(s)

DataInv ==
  /\ LegalInv
  /\ layouts \subseteq RootLayouts
  /\ \A a \in DOMAIN allocators : DOMAIN allocators[a] = {"type", "bundles"}
  /\ \A l \in DOMAIN lists : /\ lists[l].from \in DOMAIN allocators
                             /\ Recorded(lists[l], Commands!Type(l))

(* What a range of push data is.                                           *)
LEMMA StrideOf ==
  ASSUME NEW y \in RootLayouts, NEW i \in DOMAIN Ranges[y]
  PROVE  /\ Ranges[y][i].words \in Nat /\ Ranges[y][i].emulated \in BOOLEAN
         /\ Ranges[y][i].stages \subseteq Commands!Stages
         /\ None \notin Images(y, i)
         /\ Commands!Zeros(i, y) \in Images(y, i)
         /\ \A w \in 1 .. Ranges[y][i].words : Commands!Zeros(i, y)[w] = 0
  <1>1. Ranges[y][i] \in [emulated : BOOLEAN, words : Nat, stages : SUBSET {"graphics", "compute"}]
    BY Dx12CommandsAssumption
  <1>2. \A n \in Nat : [1 .. n -> Nat] \subseteq Seq(Nat)
    OBVIOUS
  <1> QED
    BY <1>1, <1>2, Dx12CommandsAssumption DEF Images, Commands!Zeros, Commands!Stages

(* Recorded is of these fields only.                                       *)
LEMMA SameRecorded ==
  ASSUME NEW type, NEW s, Recorded(s, type), NEW t,
         t.pages = s.pages, t.pushes = s.pushes, t.layout = s.layout, t.shadows = s.shadows,
         t.arguments = s.arguments, t.wanted = s.wanted, t.memory = s.memory, t.draws = s.draws,
         t.wrong = s.wrong, t.starved = s.starved, t.open = s.open
  PROVE  Recorded(t, type)
  BY DEF Recorded, Bound, Carries, ShadowOf, Drawn, Below

(* AlignUp rounds up.                                                      *)
LEMMA AlignUpIs ==
  ASSUME NEW n \in Nat, NEW a \in Nat \ {0}
  PROVE  Commands!AlignUp(n, a) \in Nat /\ Commands!AlignUp(n, a) >= n
  <1> DEFINE m == n + a - 1
             k == m \div a
             r == m % a
  <1>1. m \in Nat /\ k \in Int /\ r \in 0 .. a - 1
    OBVIOUS
  <1>2. m = a * k + r
    OBVIOUS
  <1>3. k >= 0
    OBVIOUS
  <1>4. k * a >= n
    BY <1>1, <1>2
  <1>5. k * a \in Nat
    BY <1>1, <1>3
  <1> QED
    BY <1>4, <1>5 DEF Commands!AlignUp

(* A new page of scratch memory.                                           *)
LEMMA NewPageIs ==
  ASSUME NEW size \in Nat
  PROVE  Commands!NewPage(size) \in PageSet
  <1>1. PageSize \in Nat /\ Commands!AlignUp(size, Placement) \in Nat
    BY AlignUpIs, Dx12CommandsAssumption
  <1> QED
    BY <1>1 DEF Commands!NewPage, PageSet

(* A blank list found nothing, and nothing wrong.                          *)
LEMMA BlankRecorded ==
  ASSUME NEW a, NEW bundle, NEW pages \in Seq(PageSet), NEW type
  PROVE  /\ Recorded(Commands!Blank(a, bundle, pages), type)
         /\ Recorded([Commands!Blank(a, bundle, pages) EXCEPT !.open = TRUE], type)
  BY DEF Recorded, Commands!Blank, Drawn, Below

(* The same of one that starts anew, on the pages it has.                  *)
LEMMA RewoundRecorded ==
  ASSUME NEW l \in DOMAIN lists, lists[l].pages \in Seq(PageSet), NEW a, NEW type
  PROVE  /\ Recorded(Commands!Rewound(l, a), type)
         /\ Recorded([Commands!Rewound(l, a) EXCEPT !.open = TRUE], type)
  <1> DEFINE pages == [p \in DOMAIN lists[l].pages |-> [lists[l].pages[p] EXCEPT !.cursor = 0]]
  <1>1. PICK n \in Nat : DOMAIN lists[l].pages = 1 .. n
    OBVIOUS
  <1>2. ASSUME NEW p \in 1 .. n PROVE [lists[l].pages[p] EXCEPT !.cursor = 0] \in PageSet
    <2>1. lists[l].pages[p] \in PageSet
      BY <1>1
    <2> QED
      BY <2>1 DEF PageSet
  <1>3. pages \in [1 .. n -> PageSet]
    BY <1>1, <1>2
  <1>4. [1 .. n -> PageSet] \subseteq Seq(PageSet)
    OBVIOUS
  <1> QED
    BY <1>3, <1>4, BlankRecorded DEF Commands!Rewound

(* A list that ends forgets what is bound and keeps what draws read.       *)
LEMMA EndRecorded ==
  ASSUME NEW s, NEW r, NEW t, NEW type, Recorded(s, type), Recorded(r, type), r.layout = None, ~ r.open, ~ r.wrong,
         t.pages = r.pages, t.pushes = r.pushes, t.layout = r.layout, t.wrong = r.wrong, t.open = r.open,
         t.memory = s.memory, t.draws = s.draws
  PROVE  Recorded(t, type)
  BY DEF Recorded, Drawn, Below

(* No more than was pushed is wanted.                                    *)
Among(wanted, s, y, g) ==
  /\ DOMAIN wanted = DOMAIN Ranges[y]
  /\ \A i \in DOMAIN Ranges[y] :
       /\ wanted[i] \in Images(y, i)
       /\ \A w \in 1 .. Ranges[y][i].words : wanted[i][w] # 0 => wanted[i][w] = s.wanted[g][i][w]

(* Less may be wanted: what is given again, or left undefined.             *)
LEMMA WantsLess ==
  ASSUME NEW type, NEW s, Recorded(s, type), s.layout # None, NEW t,
         t.pages = s.pages, t.pushes = s.pushes, t.layout = s.layout, t.shadows = s.shadows,
         t.arguments = s.arguments, t.memory = s.memory, t.draws = s.draws,
         t.wrong = s.wrong, t.starved = s.starved, t.open = s.open,
         DOMAIN t.wanted = Commands!Stages,
         \A g \in Commands!Stages : Among(t.wanted[g], s, s.layout, g)
  PROVE  Recorded(t, type)
  <1> DEFINE y == s.layout
  <1>1. Bound(s, type, y)
    BY DEF Recorded
  <1>2. ASSUME NEW g \in Commands!Stages, NEW i \in DOMAIN Ranges[y]
        PROVE  Carries(t, type, y, g, i)
    <2>1. Carries(s, type, y, g, i)
      BY <1>1 DEF Bound
    <2>2. /\ t.wanted[g][i] \in Images(y, i)
          /\ \A w \in 1 .. Ranges[y][i].words : t.wanted[g][i][w] # 0 => t.wanted[g][i][w] = s.wanted[g][i][w]
      BY DEF Among
    <2> HIDE DEF y
    <2> QED
      BY <2>1, <2>2 DEF Carries, ShadowOf
  <1>3. Bound(t, type, y)
    BY <1>1, <1>2 DEF Bound, ShadowOf, Among
  <1> QED
    BY <1>3 DEF Recorded, Drawn, Below

(* At first nothing is wanted.                                             *)
LEMMA NothingIs ==
  ASSUME NEW y \in RootLayouts
  PROVE  /\ DOMAIN Commands!NothingPushed(y) = Commands!Stages
         /\ \A g \in Commands!Stages :
              /\ DOMAIN Commands!NothingPushed(y)[g] = DOMAIN Ranges[y]
              /\ \A i \in DOMAIN Ranges[y] :
                   /\ Commands!NothingPushed(y)[g][i] \in Images(y, i)
                   /\ \A w \in 1 .. Ranges[y][i].words : Commands!NothingPushed(y)[g][i][w] = 0
  BY StrideOf DEF Commands!NothingPushed

(* A layout that is bound anew has no push data.                           *)
LEMMA BoundAnew ==
  ASSUME NEW type, NEW s, Recorded(s, type), NEW y \in RootLayouts, NEW t,
         t.pages = s.pages, t.pushes = s.pushes, t.layout = y, t.shadows = <<>>,
         t.arguments = [g \in Commands!Stages |-> [i \in DOMAIN Ranges[y] |-> None]],
         t.wanted = Commands!NothingPushed(y),
         t.memory = s.memory, t.draws = s.draws, t.wrong = s.wrong, t.open = s.open
  PROVE  Recorded(t, type)
  <1>1. \A i \in DOMAIN Ranges[y] : ShadowOf(t, y, i) \in Images(y, i)
    BY StrideOf DEF ShadowOf
  <1>2. ASSUME NEW g \in Commands!Stages, NEW i \in DOMAIN Ranges[y]
        PROVE  Carries(t, type, y, g, i)
    <2>1. t.arguments[g][i] = None
      OBVIOUS
    <2>2. /\ t.wanted[g][i] \in Images(y, i)
          /\ \A w \in 1 .. Ranges[y][i].words : t.wanted[g][i][w] = 0
      BY NothingIs
    <2> QED
      BY <2>1, <2>2 DEF Carries
  <1>3. Bound(t, type, y)
    BY <1>1, <1>2, NothingIs DEF Bound
  <1> QED
    BY <1>3 DEF Recorded, Drawn, Below

(* Binding the layout that is bound keeps what was pushed, another one nothing. *)
LEMMA BindRecorded ==
  ASSUME NEW l \in DOMAIN lists, DOMAIN lists[l] = ListFields, NEW type, Recorded(lists[l], type),
         NEW y \in RootLayouts, NEW t,
         t = [lists[l] EXCEPT !.layout = y, !.arguments = Commands!OldArguments(l, y),
                     !.shadows = IF lists[l].layout = y THEN @ ELSE <<>>,
                     !.wanted = IF lists[l].layout = y THEN @ ELSE Commands!NothingPushed(y)]
  PROVE  Recorded(t, type)
  <1>1. CASE lists[l].layout = y
    BY <1>1, SameRecorded DEF ListFields, Commands!OldArguments
  <1>2. CASE lists[l].layout # y
    BY <1>2, BoundAnew DEF ListFields, Commands!OldArguments
  <1> QED
    BY <1>1, <1>2
-----------------------------------------------------------------------------
(* Pushes.                                                                 *)
Merged(r, n, old, offset, words, value) ==
  /\ r \in [1 .. n -> Nat]
  /\ \A w \in 1 .. n : r[w] = IF w \in offset + 1 .. offset + words THEN value ELSE old[w]

(* Merge lays words over an image.                                         *)
LEMMA MergeIs ==
  ASSUME NEW n \in Nat, NEW old \in [1 .. n -> Nat], NEW offset \in Nat, NEW words \in Nat, NEW value \in Nat
  PROVE  Merged(Commands!Merge(old, offset, words, value), n, old, offset, words, value)
  BY DEF Merged, Commands!Merge

(* The first page that has room, which may be a new one.                   *)
LEMMA FirstPageIs ==
  ASSUME NEW pages \in Seq(PageSet), NEW size \in Nat,
         NEW page, page = Commands!FirstPage(pages, size), NEW given, given = Commands!WithPage(pages, size)
  PROVE  /\ given \in Seq(PageSet) /\ page \in DOMAIN given
         /\ DOMAIN pages \subseteq DOMAIN given
         /\ \A p \in DOMAIN pages : given[p] = pages[p]
  <1> DEFINE room == {p \in DOMAIN pages : Commands!AlignUp(pages[p].cursor, Placement) + size <= pages[p].capacity}
  <1>1. CASE room = {}
    <2>1. page = Len(pages) + 1
      BY <1>1 DEF Commands!FirstPage
    <2>2. given = Append(pages, Commands!NewPage(size))
      BY <2>1 DEF Commands!WithPage
    <2>3. Commands!NewPage(size) \in PageSet
      BY NewPageIs
    <2> QED
      BY <2>1, <2>2, <2>3
  <1>2. CASE room # {}
    <2>1. Commands!Min(room) = Min(room)
      BY DEF Commands!Min, Min
    <2>2. room \in SUBSET Nat
      OBVIOUS
    <2>3. Min(room) \in room
      BY <1>2, <2>2, MinIn
    <2>4. page = Min(room)
      BY <1>2, <2>1 DEF Commands!FirstPage
    <2>5. page \in DOMAIN pages
      BY <2>3, <2>4
    <2>6. given = pages
      BY <2>5 DEF Commands!WithPage
    <2> QED
      BY <2>5, <2>6
  <1> QED
    BY <1>1, <1>2

(* What a push wants, of the range in the stages that it is for.           *)
Wants(l, s, y, i, offset, words, p) ==
  /\ DOMAIN p = ListFields
  /\ \A f \in ListFields \ {"pushes", "wanted"} : p[f] = s[f]
  /\ p.pushes \in Nat
  /\ DOMAIN p.wanted = Commands!Stages
  /\ \A g \in Commands!Stages :
       /\ DOMAIN p.wanted[g] = DOMAIN Ranges[y]
       /\ \A j \in DOMAIN Ranges[y] : p.wanted[g][j] =
            IF g \in Commands!PushStages(l, i) /\ j = i
              THEN Commands!Merge(s.wanted[g][i], offset, words, s.pushes + 1) ELSE s.wanted[g][j]

(* A push is wanted in its stages.                                         *)
LEMMA PushedIs ==
  ASSUME NEW l \in DOMAIN lists, DOMAIN lists[l] = ListFields, NEW type, NEW y \in RootLayouts, lists[l].layout = y,
         lists[l].pushes \in Nat, Bound(lists[l], type, y),
         NEW i \in DOMAIN Ranges[y], NEW offset, NEW words,
         NEW p, p = Commands!Pushed(l, i, offset, words)
  PROVE  Wants(l, lists[l], y, i, offset, words, p)
  <1>1. /\ DOMAIN p = ListFields
        /\ \A f \in ListFields \ {"pushes", "wanted"} : p[f] = lists[l][f]
        /\ p.pushes = lists[l].pushes + 1
    BY DEF Commands!Pushed, ListFields
  <1>2. /\ DOMAIN p.wanted = Commands!Stages
        /\ \A g \in Commands!Stages : p.wanted[g] =
             IF g \in Commands!PushStages(l, i)
               THEN [lists[l].wanted[g] EXCEPT ![i] = Commands!Merge(@, offset, words, lists[l].pushes + 1)]
               ELSE lists[l].wanted[g]
    BY DEF Commands!Pushed, ListFields
  <1>3. \A g \in Commands!Stages : DOMAIN lists[l].wanted[g] = DOMAIN Ranges[y]
    BY DEF Bound
  <1>4. ASSUME NEW g \in Commands!Stages
        PROVE  /\ DOMAIN p.wanted[g] = DOMAIN Ranges[y]
               /\ \A j \in DOMAIN Ranges[y] : p.wanted[g][j] =
                    IF g \in Commands!PushStages(l, i) /\ j = i
                      THEN Commands!Merge(lists[l].wanted[g][i], offset, words, lists[l].pushes + 1)
                      ELSE lists[l].wanted[g][j]
    <2>1. PICK f, v : f = lists[l].wanted[g] /\ v = Commands!Merge(f[i], offset, words, lists[l].pushes + 1)
      OBVIOUS
    <2>2. p.wanted[g] = IF g \in Commands!PushStages(l, i) THEN [f EXCEPT ![i] = v] ELSE f
      BY <1>2, <2>1
    <2>3. DOMAIN f = DOMAIN Ranges[y]
      BY <1>3, <2>1
    <2>4. v = Commands!Merge(lists[l].wanted[g][i], offset, words, lists[l].pushes + 1)
      BY <2>1
    <2> QED
      BY <2>1, <2>2, <2>3, <2>4
  <1> QED
    BY <1>1, <1>2, <1>4 DEF Wants

(* A range that is not the one pushed keeps what it has.                   *)
LEMMA CarriesOn ==
  ASSUME NEW type, NEW s, NEW t, NEW y, NEW g, NEW j, Carries(s, type, y, g, j),
         t.wanted[g][j] = s.wanted[g][j], t.arguments[g][j] = s.arguments[g][j],
         ShadowOf(t, y, j) = ShadowOf(s, y, j),
         ~ t.starved => ~ s.starved,
         \A c \in DOMAIN s.memory : c \in DOMAIN t.memory /\ t.memory[c] = s.memory[c]
  PROVE  Carries(t, type, y, g, j)
  BY DEF Carries

(* The stages cl_pushConstants sets are those the push is for.             *)
LEMMA StagesAre ==
  ASSUME NEW l \in DOMAIN lists, NEW y \in RootLayouts, lists[l].layout = y, NEW i \in DOMAIN Ranges[y], NEW g
  PROVE  g \in Commands!PushStages(l, i) <=> Reaches(Commands!Type(l), y, i, g)
  BY DEF Commands!PushStages, Reaches

(* A push of root constants.                                               *)
LEMMA RootedRecorded ==
  ASSUME NEW l \in DOMAIN lists, DOMAIN lists[l] = ListFields, Recorded(lists[l], Commands!Type(l)),
         NEW y \in RootLayouts, lists[l].layout = y, NEW i \in DOMAIN Ranges[y], ~ Ranges[y][i].emulated,
         NEW offset \in Nat, NEW words \in Nat, NEW t, t = Commands!Rooted(l, i, offset, words)
  PROVE  Recorded(t, Commands!Type(l))
  <1> DEFINE s == lists[l]
             type == Commands!Type(l)
             stages == Commands!PushStages(l, i)
             n == Ranges[y][i].words
  <1>1. Bound(s, type, y) /\ s.pushes \in Nat /\ s.pages \in Seq(PageSet) /\ Drawn(s)
    BY Dx12CommandsAssumption DEF Recorded
  <1>2. PICK p : p = Commands!Pushed(l, i, offset, words)
    OBVIOUS
  <1>3. Wants(l, s, y, i, offset, words, p)
    BY <1>1, <1>2, PushedIs
  <1>4. /\ DOMAIN t = ListFields
        /\ \A f \in ListFields \ {"arguments"} : t[f] = p[f]
        /\ DOMAIN t.arguments = Commands!Stages
        /\ \A g \in Commands!Stages : t.arguments[g] =
             IF g \in stages
               THEN [s.arguments[g] EXCEPT ![i] = Commands!Merge(IF @ = None THEN Commands!Zeros(i, y) ELSE @,
                                                                offset, words, s.pushes + 1)]
               ELSE s.arguments[g]
    BY <1>2, <1>3 DEF Wants, Commands!Rooted, ListFields
  <1>5. \A f \in ListFields \ {"arguments", "pushes", "wanted"} : t[f] = s[f]
    BY <1>3, <1>4 DEF Wants
  <1>6. \A j : ShadowOf(t, y, j) = ShadowOf(s, y, j)
    BY <1>5 DEF ShadowOf, ListFields
  <1> DEFINE old(g) == IF s.arguments[g][i] = None THEN Commands!Zeros(i, y) ELSE s.arguments[g][i]
  <1>a. ASSUME NEW g \in Commands!Stages
        PROVE  /\ DOMAIN t.arguments[g] = DOMAIN Ranges[y]
               /\ \A j \in DOMAIN Ranges[y] : t.arguments[g][j] =
                    IF g \in stages /\ j = i
                      THEN Commands!Merge(old(g), offset, words, s.pushes + 1) ELSE s.arguments[g][j]
    <2>1. PICK f, v : f = s.arguments[g] /\ v = Commands!Merge(old(g), offset, words, s.pushes + 1)
      OBVIOUS
    <2>2. t.arguments[g] = IF g \in stages THEN [f EXCEPT ![i] = v] ELSE f
      BY <1>4, <2>1
    <2>3. DOMAIN f = DOMAIN Ranges[y]
      BY <1>1, <2>1 DEF Bound
    <2> QED
      BY <2>1, <2>2, <2>3
  <1>7. DOMAIN t.arguments = Commands!Stages /\ DOMAIN t.wanted = Commands!Stages /\ t.wanted = p.wanted
    BY <1>3, <1>4 DEF Wants, ListFields
  <1>8. ASSUME NEW g \in Commands!Stages, NEW j \in DOMAIN Ranges[y]
        PROVE  Carries(t, type, y, g, j)
    <2>1. Carries(s, type, y, g, j)
      BY <1>1 DEF Bound
    <2>2. t.starved = s.starved /\ t.memory = s.memory
      BY <1>5 DEF ListFields
    <2>3. CASE ~ (g \in stages /\ j = i)
      <3>1. t.wanted[g][j] = s.wanted[g][j] /\ t.arguments[g][j] = s.arguments[g][j]
        BY <1>3, <1>7, <1>a, <2>3 DEF Wants
      <3> QED
        BY <1>6, <2>1, <2>2, <3>1, CarriesOn
    <2>4. CASE g \in stages /\ j = i
      <3>1. /\ t.wanted[g][i] = Commands!Merge(s.wanted[g][i], offset, words, s.pushes + 1)
            /\ t.arguments[g][i] = Commands!Merge(old(g), offset, words, s.pushes + 1)
        BY <1>3, <1>7, <1>a, <2>4 DEF Wants
      <3>2. /\ s.wanted[g][i] \in Images(y, i) /\ old(g) \in Images(y, i)
            /\ \A w \in 1 .. n : s.wanted[g][i][w] # 0 => old(g)[w] = s.wanted[g][i][w]
        BY <2>1, <2>4, StrideOf DEF Carries
      <3>3. PICK m, f, a, v : m = n /\ f = s.wanted[g][i] /\ a = old(g) /\ v = s.pushes + 1
        OBVIOUS
      <3>4. m \in Nat /\ v \in Nat /\ f \in [1 .. m -> Nat] /\ a \in [1 .. m -> Nat]
        BY <1>1, <3>2, <3>3, StrideOf DEF Images
      <3>5. /\ Merged(Commands!Merge(f, offset, words, v), m, f, offset, words, v)
            /\ Merged(Commands!Merge(a, offset, words, v), m, a, offset, words, v)
        BY <3>4, MergeIs
      <3>8. t.wanted[g][i] \in Images(y, i) /\ t.arguments[g][i] \in Images(y, i)
        BY <3>1, <3>3, <3>5 DEF Images, Merged
      <3>9. \A w \in 1 .. n : t.wanted[g][i][w] # 0 => t.arguments[g][i][w] = t.wanted[g][i][w]
        BY <3>1, <3>2, <3>3, <3>5 DEF Merged
      <3>6. t.arguments[g][i] # None
        BY <3>8, StrideOf
      <3>7. Reaches(type, y, i, g)
        BY <2>4, StagesAre
      <3> QED
        BY <2>4, <3>8, <3>9, <3>6, <3>7 DEF Carries
    <2> QED
      BY <2>3, <2>4
  <1>9. Bound(t, type, y)
    BY <1>1, <1>3, <1>6, <1>7, <1>8, <1>a DEF Bound, Wants
  <1> QED
    BY <1>1, <1>3, <1>4, <1>5, <1>9 DEF Recorded, Drawn, Below, Wants, ListFields

(* What is uploaded of a range: its shadow, with the words just given.     *)
LEMMA UploadedIs ==
  ASSUME NEW l \in DOMAIN lists, NEW type, NEW y \in RootLayouts, lists[l].layout = y, lists[l].pushes \in Nat,
         Bound(lists[l], type, y),
         NEW i \in DOMAIN Ranges[y], NEW offset \in Nat, NEW words \in Nat,
         NEW image, image = Commands!Uploaded(l, i, offset, words, lists[l].pushes + 1)
  PROVE  Merged(image, Ranges[y][i].words, ShadowOf(lists[l], y, i), offset, words, lists[l].pushes + 1)
  <1>1. PICK n, old, v : n = Ranges[y][i].words /\ old = ShadowOf(lists[l], y, i) /\ v = lists[l].pushes + 1
    OBVIOUS
  <1>2. n \in Nat /\ v \in Nat /\ old \in [1 .. n -> Nat]
    BY <1>1, StrideOf DEF Bound, Images
  <1>3. image = Commands!Merge(old, offset, words, v)
    BY <1>1 DEF Commands!Uploaded, Commands!Shadow, ShadowOf
  <1>4. Merged(image, n, old, offset, words, v)
    BY <1>2, <1>3, MergeIs
  <1> QED
    BY <1>1, <1>4

Finds(image, p, type, y, g, i) ==
  /\ p.wanted[g][i] \in Images(y, i)
  /\ \A w \in 1 .. Ranges[y][i].words :
       p.wanted[g][i][w] # 0 => Reaches(type, y, i, g) /\ image[w] = p.wanted[g][i][w]

(* The range pushed finds in its shadow what is wanted of it.              *)
LEMMA ShadowFollows ==
  ASSUME NEW l \in DOMAIN lists, NEW type, NEW y \in RootLayouts, lists[l].layout = y, lists[l].pushes \in Nat,
         Bound(lists[l], type, y), type = Commands!Type(l),
         NEW i \in DOMAIN Ranges[y], Ranges[y][i].emulated, NEW offset \in Nat, NEW words \in Nat,
         NEW image, image = Commands!Uploaded(l, i, offset, words, lists[l].pushes + 1),
         NEW p, Wants(l, lists[l], y, i, offset, words, p), NEW g \in Commands!Stages
  PROVE  Finds(image, p, type, y, g, i)
  <1>1. Carries(lists[l], type, y, g, i)
    BY DEF Bound
  <1>2. CASE g \notin Commands!PushStages(l, i)
    <2>1. p.wanted[g][i] = lists[l].wanted[g][i]
      BY <1>2 DEF Wants
    <2>2. ~ Reaches(type, y, i, g)
      BY <1>2, StagesAre
    <2> QED
      BY <1>1, <2>1, <2>2 DEF Carries, Finds
  <1>3. CASE g \in Commands!PushStages(l, i)
    <2>1. p.wanted[g][i] = Commands!Merge(lists[l].wanted[g][i], offset, words, lists[l].pushes + 1)
      BY <1>3 DEF Wants
    <2>2. PICK n, f, v : n = Ranges[y][i].words /\ f = lists[l].wanted[g][i] /\ v = lists[l].pushes + 1
      OBVIOUS
    <2>3. n \in Nat /\ v \in Nat /\ f \in [1 .. n -> Nat]
      BY <1>1, <2>2, StrideOf DEF Carries, Images
    <2>4. Merged(Commands!Merge(f, offset, words, v), n, f, offset, words, v)
      BY <2>3, MergeIs
    <2>5. Reaches(type, y, i, g)
      BY <1>3, StagesAre
    <2>6. Merged(image, n, ShadowOf(lists[l], y, i), offset, words, v)
      BY <2>2, UploadedIs
    <2>7. \A w \in 1 .. n : f[w] # 0 => ShadowOf(lists[l], y, i)[w] = f[w]
      BY <1>1, <2>2 DEF Carries
    <2> QED
      BY <1>3, <2>1, <2>2, <2>4, <2>5, <2>6, <2>7 DEF Images, Merged, Finds
  <1> QED
    BY <1>2, <1>3

(* A push without scratch memory, after which the list is starved.         *)
LEMMA StarvedRecorded ==
  ASSUME NEW l \in DOMAIN lists, DOMAIN lists[l] = ListFields, Recorded(lists[l], Commands!Type(l)),
         NEW y \in RootLayouts, lists[l].layout = y, NEW i \in DOMAIN Ranges[y], Ranges[y][i].emulated,
         NEW offset \in Nat, NEW words \in Nat, NEW t, t = Commands!Starved(l, i, offset, words)
  PROVE  Recorded(t, Commands!Type(l))
  <1> DEFINE s == lists[l]
             type == Commands!Type(l)
  <1>1. Bound(s, type, y) /\ s.pushes \in Nat /\ s.pages \in Seq(PageSet) /\ Drawn(s)
    BY Dx12CommandsAssumption DEF Recorded
  <1>2. PICK p, image : /\ p = Commands!Pushed(l, i, offset, words)
                        /\ image = Commands!Uploaded(l, i, offset, words, s.pushes + 1)
    OBVIOUS
  <1>3. Wants(l, s, y, i, offset, words, p)
    BY <1>1, <1>2, PushedIs
  <1>4. /\ DOMAIN t = ListFields
        /\ \A f \in ListFields \ {"shadows", "starved"} : t[f] = p[f]
        /\ t.shadows = Commands!Set(s.shadows, i, image)
        /\ t.starved
    BY <1>2, <1>3 DEF Wants, Commands!Starved, ListFields
  <1>5. \A f \in ListFields \ {"shadows", "starved", "pushes", "wanted"} : t[f] = s[f]
    BY <1>3, <1>4 DEF Wants
  <1>6. ShadowOf(t, y, i) = image /\ \A j : j # i => ShadowOf(t, y, j) = ShadowOf(s, y, j)
    BY <1>4 DEF ShadowOf, Commands!Set
  <1>7. \A j \in DOMAIN Ranges[y] : ShadowOf(t, y, j) \in Images(y, j)
    <2>1. image \in Images(y, i)
      BY <1>1, <1>2, UploadedIs DEF Merged, Images
    <2> QED
      BY <1>1, <1>6, <2>1 DEF Bound
  <1>8. ASSUME NEW g \in Commands!Stages, NEW j \in DOMAIN Ranges[y]
        PROVE  Carries(t, type, y, g, j)
    <2>1. Carries(s, type, y, g, j)
      BY <1>1 DEF Bound
    <2>2. t.starved /\ t.memory = s.memory /\ t.arguments = s.arguments /\ t.wanted = p.wanted
      BY <1>4, <1>5 DEF ListFields
    <2>3. CASE j # i
      <3>1. t.wanted[g][j] = s.wanted[g][j]
        BY <1>3, <2>2, <2>3 DEF Wants
      <3> QED
        BY <1>6, <2>1, <2>2, <2>3, <3>1, CarriesOn
    <2>4. CASE j = i
      <3>1. Finds(image, p, type, y, g, i)
        BY <1>1, <1>2, <1>3, ShadowFollows
      <3> QED
        BY <1>6, <2>2, <2>4, <3>1 DEF Carries, Finds
    <2> QED
      BY <2>3, <2>4
  <1>9. Bound(t, type, y)
    BY <1>1, <1>3, <1>4, <1>5, <1>7, <1>8 DEF Bound, Wants, ListFields
  <1> QED
    BY <1>1, <1>3, <1>4, <1>5, <1>9 DEF Recorded, Drawn, Below, Wants, ListFields

Extended(memory, m, page, start, n, image) ==
  /\ DOMAIN m = DOMAIN memory \cup {<<page, start + w>> : w \in 1 .. n}
  /\ \A c \in DOMAIN memory : m[c] = memory[c]
  /\ \A w \in 1 .. n : m[<<page, start + w>>] = image[w]

(* Where an image is written: past what was uploaded before.               *)
LEMMA WrittenIs ==
  ASSUME NEW memory, NEW page \in Nat, NEW start \in Nat, NEW n \in Nat, NEW image, DOMAIN image = 1 .. n,
         \A c \in DOMAIN memory : c \in Nat \X Nat /\ (c[1] = page => c[2] <= start),
         NEW m, m = Commands!Written(memory, page, start, image)
  PROVE  Extended(memory, m, page, start, n, image)
  <1>1. DOMAIN m = DOMAIN memory \cup {<<page, start + w>> : w \in 1 .. n}
    BY DEF Commands!Written
  <1>2. \A c \in DOMAIN m :
          m[c] = IF c[1] = page /\ c[2] - start \in 1 .. n THEN image[c[2] - start] ELSE memory[c]
    BY DEF Commands!Written
  <1>3. ASSUME NEW c \in DOMAIN memory PROVE m[c] = memory[c]
    BY <1>1, <1>2
  <1>4. ASSUME NEW w \in 1 .. n PROVE m[<<page, start + w>>] = image[w]
    <2>1. PICK c : c = <<page, start + w>>
      OBVIOUS
    <2>2. c \in DOMAIN m /\ c[1] = page /\ c[2] = start + w
      BY <1>1, <2>1
    <2>3. c[2] - start = w
      BY <2>2
    <2> QED
      BY <1>2, <2>1, <2>2, <2>3
  <1> QED
    BY <1>1, <1>3, <1>4 DEF Extended

(* The pages once n words were put in.                                     *)
Filled(s, pages, page, end, filled) ==
  /\ filled \in Seq(PageSet) /\ DOMAIN filled = DOMAIN pages
  /\ filled[page].cursor = end
  /\ \A p \in DOMAIN s.pages : p \in DOMAIN filled /\ s.pages[p].cursor <= filled[p].cursor

(* A page that was given room, and what is below it.                       *)
Room(s, pages, page, start) ==
  /\ pages \in Seq(PageSet) /\ page \in DOMAIN pages /\ page \in Nat
  /\ DOMAIN s.pages \subseteq DOMAIN pages /\ \A p \in DOMAIN s.pages : pages[p] = s.pages[p]
  /\ start \in Nat /\ pages[page].cursor <= start

(* Where an upload begins, nothing lies yet.                               *)
LEMMA RoomFor ==
  ASSUME NEW s, s.pages \in Seq(PageSet), NEW size \in Nat,
         NEW page, page = Commands!FirstPage(s.pages, size), NEW pages, pages = Commands!WithPage(s.pages, size),
         NEW start, start = Commands!AlignUp(pages[page].cursor, Placement)
  PROVE  Room(s, pages, page, start)
  <1>1. PICK old : old = s.pages
    OBVIOUS
  <1>2. old \in Seq(PageSet) /\ page = Commands!FirstPage(old, size) /\ pages = Commands!WithPage(old, size)
    BY <1>1
  <1>3. /\ pages \in Seq(PageSet) /\ page \in DOMAIN pages
        /\ DOMAIN old \subseteq DOMAIN pages /\ \A p \in DOMAIN old : pages[p] = old[p]
    BY <1>2, FirstPageIs
  <1>4. pages[page] \in PageSet /\ page \in Nat
    BY <1>3
  <1>5. pages[page].cursor \in Nat
    BY <1>4 DEF PageSet
  <1>6. start \in Nat /\ start >= pages[page].cursor
    BY <1>5, AlignUpIs, Dx12CommandsAssumption
  <1> QED
    BY <1>1, <1>3, <1>4, <1>5, <1>6 DEF Room

(* The cursor moves to the end of the upload.                              *)
LEMMA PagesFilled ==
  ASSUME NEW s, NEW pages, NEW page, NEW start, Room(s, pages, page, start), NEW n \in Nat,
         NEW filled, filled = [pages EXCEPT ![page].cursor = start + n]
  PROVE  Filled(s, pages, page, start + n, filled)
  <1>1. PICK k \in Nat : DOMAIN pages = 1 .. k
    BY DEF Room
  <1>2. pages[page] \in PageSet
    BY DEF Room
  <1>3. [pages[page] EXCEPT !.cursor = start + n] \in PageSet
    <2>1. PICK q, m : q = pages[page] /\ m = start + n
      OBVIOUS
    <2>2. q \in PageSet /\ m \in Nat
      BY <1>2, <2>1 DEF Room
    <2>3. [q EXCEPT !.cursor = m] \in PageSet
      BY <2>2 DEF PageSet
    <2> QED
      BY <2>1, <2>3
  <1>4. filled = [pages EXCEPT ![page] = [pages[page] EXCEPT !.cursor = start + n]]
    OBVIOUS
  <1>5. filled \in Seq(PageSet)
    BY <1>3, <1>4 DEF Room
  <1>6. DOMAIN filled = DOMAIN pages /\ filled[page].cursor = start + n
    BY <1>2, <1>4 DEF Room, PageSet
  <1>7. ASSUME NEW p \in DOMAIN s.pages PROVE p \in DOMAIN filled /\ s.pages[p].cursor <= filled[p].cursor
    <2>1. p \in DOMAIN pages /\ pages[p] = s.pages[p]
      BY DEF Room
    <2>2. pages[p] \in PageSet
      BY <2>1 DEF Room
    <2>3. CASE p = page
      BY <1>6, <2>1, <2>2, <2>3 DEF Room, PageSet
    <2>4. CASE p # page
      BY <1>4, <1>6, <2>1, <2>2, <2>4 DEF PageSet
    <2> QED
      BY <2>3, <2>4
  <1> QED
    BY <1>5, <1>6, <1>7 DEF Filled

(* A push through scratch memory: what was uploaded before stays.          *)
LEMMA StoredRecorded ==
  ASSUME NEW l \in DOMAIN lists, DOMAIN lists[l] = ListFields, Recorded(lists[l], Commands!Type(l)), lists[l].open,
         NEW y \in RootLayouts, lists[l].layout = y, NEW i \in DOMAIN Ranges[y], Ranges[y][i].emulated,
         NEW offset \in Nat, NEW words \in Nat, NEW t, t = Commands!Stored(l, i, offset, words)
  PROVE  Recorded(t, Commands!Type(l))
  <1> DEFINE s == lists[l]
             type == Commands!Type(l)
             n == Ranges[y][i].words
  <1>1. Bound(s, type, y) /\ s.pushes \in Nat /\ s.pages \in Seq(PageSet) /\ Drawn(s) /\ Below(s) /\ n \in Nat
    BY Dx12CommandsAssumption, StrideOf DEF Recorded
  <1>2. PICK p, image, pages, page, start :
          /\ p = Commands!Pushed(l, i, offset, words)
          /\ image = Commands!Uploaded(l, i, offset, words, s.pushes + 1)
          /\ pages = Commands!WithPage(s.pages, n)
          /\ page = Commands!FirstPage(s.pages, n)
          /\ start = Commands!AlignUp(pages[page].cursor, Placement)
    OBVIOUS
  <1>3. Wants(l, s, y, i, offset, words, p)
    BY <1>1, <1>2, PushedIs
  <1>4. Room(s, pages, page, start)
    BY <1>1, <1>2, RoomFor
  <1>5. PICK filled : filled = [pages EXCEPT ![page].cursor = start + n]
    OBVIOUS
  <1>6. /\ DOMAIN t = ListFields
        /\ \A f \in ListFields \ {"arguments", "shadows", "pages", "memory"} : t[f] = p[f]
        /\ t.arguments = [g \in Commands!Stages |->
             IF g \in Commands!PushStages(l, i) THEN [s.arguments[g] EXCEPT ![i] = <<page, start>>]
                                                ELSE s.arguments[g]]
        /\ t.shadows = Commands!Set(s.shadows, i, image)
        /\ t.pages = filled
        /\ t.memory = Commands!Written(s.memory, page, start, image)
    BY <1>2, <1>3, <1>5 DEF Wants, Commands!Stored, ListFields
  <1>7. \A f \in ListFields \ {"arguments", "shadows", "pages", "memory", "pushes", "wanted"} : t[f] = s[f]
    BY <1>3, <1>6 DEF Wants
  <1>8. ShadowOf(t, y, i) = image /\ \A j : j # i => ShadowOf(t, y, j) = ShadowOf(s, y, j)
    BY <1>6 DEF ShadowOf, Commands!Set
  <1>9. image \in Images(y, i) /\ DOMAIN image = 1 .. n
    <2>1. image \in Images(y, i)
      BY <1>1, <1>2, UploadedIs DEF Merged, Images
    <2> QED
      BY <2>1 DEF Images
  <1>10. Filled(s, pages, page, start + n, filled)
    BY <1>1, <1>4, <1>5, PagesFilled
  <1>11. ASSUME NEW c \in DOMAIN s.memory
         PROVE  c \in Nat \X Nat /\ (c[1] = page => c[2] <= start)
    <2>1. c \in Nat \X Nat /\ c[1] \in DOMAIN s.pages /\ c[2] <= s.pages[c[1]].cursor
      BY <1>1 DEF Below
    <2>2. pages[c[1]] = s.pages[c[1]] /\ s.pages[c[1]] \in PageSet
      BY <1>1, <1>4, <2>1 DEF Room
    <2> QED
      BY <1>4, <2>1, <2>2 DEF Room, PageSet
  <1>12. Extended(s.memory, t.memory, page, start, n, image)
    <2>1. page \in Nat /\ start \in Nat
      BY <1>4 DEF Room
    <2> QED
      BY <1>1, <1>6, <1>9, <1>11, <2>1, WrittenIs
  <1>13. ASSUME NEW g \in Commands!Stages
         PROVE  /\ DOMAIN t.arguments[g] = DOMAIN Ranges[y]
                /\ \A j \in DOMAIN Ranges[y] : t.arguments[g][j] =
                     IF g \in Commands!PushStages(l, i) /\ j = i THEN <<page, start>> ELSE s.arguments[g][j]
    <2>1. PICK f : f = s.arguments[g]
      OBVIOUS
    <2>2. t.arguments[g] = IF g \in Commands!PushStages(l, i) THEN [f EXCEPT ![i] = <<page, start>>] ELSE f
      BY <1>6, <2>1
    <2>3. DOMAIN f = DOMAIN Ranges[y]
      BY <1>1, <2>1 DEF Bound
    <2> QED
      BY <2>1, <2>2, <2>3
  <1>14. DOMAIN t.arguments = Commands!Stages /\ DOMAIN t.wanted = Commands!Stages /\ t.wanted = p.wanted
    BY <1>3, <1>6 DEF Wants, ListFields
  <1>15. ASSUME NEW g \in Commands!Stages, NEW j \in DOMAIN Ranges[y]
         PROVE  Carries(t, type, y, g, j)
    <2>1. Carries(s, type, y, g, j)
      BY <1>1 DEF Bound
    <2>2. t.starved = s.starved
      BY <1>7 DEF ListFields
    <2>3. CASE j # i
      <3>1. t.wanted[g][j] = s.wanted[g][j] /\ t.arguments[g][j] = s.arguments[g][j]
        BY <1>3, <1>13, <1>14, <2>3 DEF Wants
      <3>2. ShadowOf(t, y, j) = ShadowOf(s, y, j)
        BY <1>8, <2>3
      <3> QED
        BY <1>12, <2>1, <2>2, <3>1, <3>2, CarriesOn DEF Extended
    <2>4. CASE j = i /\ g \notin Commands!PushStages(l, i)
      <3>1. t.wanted[g][i] = s.wanted[g][i]
        BY <1>3, <1>14, <2>4 DEF Wants
      <3>2. ~ Reaches(type, y, i, g)
        BY <2>4, StagesAre
      <3> QED
        BY <2>1, <2>4, <3>1, <3>2 DEF Carries
    <2>5. CASE j = i /\ g \in Commands!PushStages(l, i)
      <3>1. Finds(image, p, type, y, g, i)
        BY <1>1, <1>2, <1>3, ShadowFollows
      <3>2. t.arguments[g][i] = <<page, start>>
        BY <1>13, <2>5
      <3>3. <<page, start>> \in Seq(Nat)
        BY <1>4 DEF Room
      <3>4. t.arguments[g][i] # None
        BY <3>2, <3>3, Dx12CommandsAssumption
      <3>5. t.arguments[g][i][1] = page /\ t.arguments[g][i][2] = start
        BY <3>2
      <3> QED
        BY <1>8, <1>12, <1>14, <2>5, <3>1, <3>4, <3>5 DEF Carries, Finds, Extended
    <2> QED
      BY <2>3, <2>4, <2>5
  <1>16. \A j \in DOMAIN Ranges[y] : ShadowOf(t, y, j) \in Images(y, j)
    BY <1>1, <1>8, <1>9 DEF Bound
  <1>17. Bound(t, type, y)
    BY <1>3, <1>13, <1>14, <1>15, <1>16 DEF Bound, Wants
  <1>18. Drawn(t)
    BY <1>1, <1>7, <1>12 DEF Drawn, Extended, ListFields
  <1>19. ASSUME NEW c \in DOMAIN t.memory
         PROVE  c \in Nat \X Nat /\ c[1] \in DOMAIN filled /\ c[2] <= filled[c[1]].cursor
    <2>1. CASE c \in DOMAIN s.memory
      <3>1. c \in Nat \X Nat /\ c[1] \in DOMAIN s.pages /\ c[2] <= s.pages[c[1]].cursor
        BY <1>1, <2>1 DEF Below
      <3>2. s.pages[c[1]].cursor <= filled[c[1]].cursor /\ c[1] \in DOMAIN filled
        BY <1>10, <3>1 DEF Filled
      <3>3. s.pages[c[1]] \in PageSet /\ filled[c[1]] \in PageSet
        BY <1>1, <1>10, <3>1, <3>2 DEF Filled
      <3> QED
        BY <3>1, <3>2, <3>3 DEF PageSet
    <2>2. CASE c \notin DOMAIN s.memory
      <3>1. PICK w \in 1 .. n : c = <<page, start + w>>
        BY <1>12, <2>2 DEF Extended
      <3> QED
        BY <1>1, <1>4, <1>10, <3>1 DEF Room, Filled
    <2> QED
      BY <2>1, <2>2
  <1>20. Below(t)
    BY <1>6, <1>19 DEF Below
  <1>21. t.layout = y /\ t.pages = filled /\ t.pushes \in Nat
    BY <1>3, <1>6, <1>7 DEF Wants, ListFields
  <1> QED
    BY <1>10, <1>17, <1>18, <1>20, <1>21 DEF Recorded, Filled
-----------------------------------------------------------------------------
(* Draws.                                                                  *)
LEMMA DrawsRecorded ==
  ASSUME NEW l \in DOMAIN lists, DOMAIN lists[l] = ListFields, NEW type, Recorded(lists[l], type),
         NEW y \in RootLayouts, lists[l].layout = y, NEW g \in Commands!Stages,
         NEW wanted, Among(wanted, lists[l], y, g),
         NEW t, t = Commands!Draws(l, g, wanted)
  PROVE  Recorded(t, type)
  <1> DEFINE s == lists[l]
             given == {c \in Commands!Wanted(wanted) : s.arguments[g][c[1]] # None}
             uploaded == {c \in given : Ranges[y][c[1]].emulated}
             right == /\ given = Commands!Wanted(wanted)
                      /\ \A c \in given \ uploaded : s.arguments[g][c[1]][c[2]] = wanted[c[1]][c[2]]
             seen == {<<s.arguments[g][c[1]][1], s.arguments[g][c[1]][2] + c[2], wanted[c[1]][c[2]]>> :
                        c \in uploaded}
  <1>1. CASE s.starved
    BY <1>1 DEF Commands!Draws
  <1>2. CASE ~ s.starved
    <2>1. Bound(s, type, y) /\ Drawn(s)
      BY Dx12CommandsAssumption DEF Recorded
    <2>2. ASSUME NEW c \in Commands!Wanted(wanted)
          PROVE  /\ c[1] \in DOMAIN Ranges[y] /\ c[2] \in 1 .. Ranges[y][c[1]].words
                 /\ s.wanted[g][c[1]][c[2]] # 0
                 /\ wanted[c[1]][c[2]] = s.wanted[g][c[1]][c[2]]
      <3>1. c[1] \in DOMAIN Ranges[y] /\ c[2] \in DOMAIN wanted[c[1]] /\ wanted[c[1]][c[2]] # 0
        BY DEF Commands!Wanted, Among
      <3> QED
        BY <3>1 DEF Among, Images
    <2>3. ASSUME NEW c \in Commands!Wanted(wanted)
          PROVE  s.arguments[g][c[1]] # None
      <3>1. PICK i, w : i = c[1] /\ w = c[2]
        OBVIOUS
      <3>2. /\ i \in DOMAIN Ranges[y] /\ w \in 1 .. Ranges[y][i].words
            /\ s.wanted[g][i][w] # 0
        BY <2>2, <3>1
      <3>3. Carries(s, type, y, g, i)
        BY <2>1, <3>2 DEF Bound
      <3> QED
        BY <1>2, <3>1, <3>2, <3>3 DEF Carries
    <2>4. ASSUME NEW c \in Commands!Wanted(wanted), ~ Ranges[y][c[1]].emulated
          PROVE  s.arguments[g][c[1]][c[2]] = wanted[c[1]][c[2]]
      BY <2>1, <2>2, <2>4 DEF Bound, Carries
    <2>5. right
      BY <2>3, <2>4
    <2>6. ASSUME NEW c \in uploaded
          PROVE  /\ <<s.arguments[g][c[1]][1], s.arguments[g][c[1]][2] + c[2]>> \in DOMAIN s.memory
                 /\ s.memory[<<s.arguments[g][c[1]][1], s.arguments[g][c[1]][2] + c[2]>>] = wanted[c[1]][c[2]]
      BY <1>2, <2>1, <2>2 DEF Bound, Carries
    <2>7. \A d \in seen : <<d[1], d[2]>> \in DOMAIN s.memory /\ s.memory[<<d[1], d[2]>>] = d[3]
      BY <2>6
    <2>8. t = [s EXCEPT !.wrong = @ \/ ~ right, !.draws = @ \cup seen]
      BY <1>2 DEF Commands!Draws
    <2> HIDE DEF right, seen
    <2>9. /\ \A f \in ListFields \ {"wrong", "draws"} : t[f] = s[f]
          /\ ~ t.wrong
          /\ t.draws = s.draws \cup seen
      BY <2>1, <2>5, <2>8 DEF ListFields, Drawn
    <2>10. Drawn(t)
      BY <2>1, <2>7, <2>9 DEF Drawn, ListFields
    <2> QED
      BY <2>9, <2>10 DEF Recorded, Bound, Carries, ShadowOf, Below, ListFields
  <1> QED
    BY <1>1, <1>2

(* A stage's own wants are among its wants.                                *)
LEMMA WantedAmong ==
  ASSUME NEW s, NEW type, NEW y, Bound(s, type, y), NEW g \in Commands!Stages
  PROVE  Among(s.wanted[g], s, y, g)
  BY DEF Bound, Carries, Among

(* So are those that an indirect draw does not overwrite.                  *)
LEMMA OverwrittenAmong ==
  ASSUME NEW s, NEW type, NEW y \in RootLayouts, Bound(s, type, y), NEW g \in Commands!Stages, NEW signature
  PROVE  Among(Commands!Overwritten(signature, s.wanted[g]), s, y, g)
  <1>1. DOMAIN s.wanted[g] = DOMAIN Ranges[y]
    BY DEF Bound
  <1>2. ASSUME NEW i \in DOMAIN Ranges[y]
        PROVE  /\ s.wanted[g][i] \in Images(y, i)
               /\ [w \in DOMAIN s.wanted[g][i] |-> 0] \in Images(y, i)
               /\ \A w \in 1 .. Ranges[y][i].words : [v \in DOMAIN s.wanted[g][i] |-> 0][w] = 0
    BY DEF Bound, Carries, Images
  <1> QED
    BY <1>1, <1>2 DEF Among, Commands!Overwritten

(* An indirect draw, which leaves behind what its commands wrote.          *)
LEMMA IndirectRecorded ==
  ASSUME NEW l \in DOMAIN lists, DOMAIN lists[l] = ListFields, NEW type, Recorded(lists[l], type),
         NEW y \in RootLayouts, lists[l].layout = y, NEW g \in Commands!Stages, NEW signature,
         NEW t, t = Commands!Indirect(l, signature, g)
  PROVE  Recorded(t, type)
  <1>1. Bound(lists[l], type, y)
    BY Dx12CommandsAssumption DEF Recorded
  <1>2. PICK d, wanted : /\ wanted = Commands!Overwritten(signature, lists[l].wanted[g])
                         /\ d = Commands!Draws(l, g, wanted)
    OBVIOUS
  <1>3. Among(wanted, lists[l], y, g)
    BY <1>1, <1>2, OverwrittenAmong
  <1>4. Recorded(d, type)
    BY <1>2, <1>3, DrawsRecorded
  <1>5. DOMAIN d = ListFields /\ \A f \in ListFields \ {"wrong", "draws"} : d[f] = lists[l][f]
    BY <1>2, DrawsSame
  <1>6. d.wanted = lists[l].wanted /\ d.layout = y
    BY <1>5 DEF ListFields
  <1>7. t = [d EXCEPT !.wanted = [d.wanted EXCEPT ![g] = wanted]]
    BY <1>2, <1>6 DEF Commands!Indirect
  <1>8. /\ \A f \in ListFields \ {"wanted"} : t[f] = d[f]
        /\ t.wanted = [d.wanted EXCEPT ![g] = wanted]
    BY <1>5, <1>7 DEF ListFields
  <1>9. DOMAIN d.wanted = Commands!Stages
    BY <1>1, <1>6 DEF Bound
  <1>10. ASSUME NEW h \in Commands!Stages PROVE Among(t.wanted[h], d, y, h)
    <2>1. CASE h = g
      <3>1. t.wanted[h] = wanted
        BY <1>8, <1>9, <2>1
      <3> QED
        BY <1>3, <1>6, <2>1, <3>1 DEF Among
    <2>2. CASE h # g
      <3>1. t.wanted[h] = d.wanted[h]
        BY <1>8, <1>9, <2>2
      <3>2. Bound(d, type, y)
        BY <1>4, <1>6, Dx12CommandsAssumption DEF Recorded
      <3> QED
        BY <3>1, <3>2, WantedAmong
    <2> QED
      BY <2>1, <2>2
  <1>11. DOMAIN t.wanted = Commands!Stages
    BY <1>8, <1>9
  <1> QED
    <2>1. d.layout # None
      BY <1>6, Dx12CommandsAssumption
    <2>2. \A h \in Commands!Stages : Among(t.wanted[h], d, d.layout, h)
      BY <1>6, <1>10
    <2>3. /\ t.pages = d.pages /\ t.pushes = d.pushes /\ t.layout = d.layout /\ t.shadows = d.shadows
          /\ t.arguments = d.arguments /\ t.memory = d.memory /\ t.draws = d.draws
          /\ t.wrong = d.wrong /\ t.starved = d.starved /\ t.open = d.open
      BY <1>8 DEF ListFields
    <2> QED
      BY <1>4, <1>11, <2>1, <2>2, <2>3, WantsLess
-----------------------------------------------------------------------------
(* Steps.                                                                  *)
LEMMA BecomesData ==
  ASSUME DataInv, LegalInv', NEW l \in DOMAIN lists, NEW s, Commands!Becomes(l, s), s.from \in DOMAIN allocators,
         Recorded(s, IF s.bundle THEN "bundle" ELSE allocators[s.from].type)
  PROVE  DataInv'
  <1>1. /\ DOMAIN lists' = DOMAIN lists /\ lists'[l] = s
        /\ \A k \in DOMAIN lists \ {l} : lists'[k] = lists[k]
        /\ allocators' = allocators /\ layouts' = layouts
    BY DEF Commands!Becomes
  <1>2. ASSUME NEW k \in DOMAIN lists
        PROVE  /\ lists'[k].from \in DOMAIN allocators
               /\ Recorded(lists'[k], Commands!Type(k)')
    <2>1. CASE k = l
      BY <1>1, <2>1 DEF Commands!Type
    <2>2. CASE k # l
      <3>1. Commands!Type(k)' = Commands!Type(k) /\ lists'[k] = lists[k]
        BY <1>1, <2>2 DEF Commands!Type
      <3> QED
        BY <3>1 DEF DataInv
    <2> QED
      BY <2>1, <2>2
  <1> QED
    BY <1>1, <1>2 DEF DataInv

(* What a list records on.                                                 *)
LEMMA RecordsData ==
  ASSUME DataInv, LegalInv', NEW l \in DOMAIN lists, NEW s, Commands!Becomes(l, s), s.from = lists[l].from,
         s.bundle = lists[l].bundle, Recorded(s, Commands!Type(l))
  PROVE  DataInv'
  BY BecomesData DEF DataInv, Commands!Type

(* DataInv, of a list.                                                     *)
LEMMA OfList ==
  ASSUME DataInv, NEW l \in DOMAIN lists
  PROVE  /\ DOMAIN lists[l] = ListFields /\ Recorded(lists[l], Commands!Type(l))
         /\ lists[l].from \in DOMAIN allocators /\ lists[l].pages \in Seq(PageSet)
         /\ lists[l].bundle \in BOOLEAN
  BY DEF DataInv, LegalInv, Honest, Recorded

(* A refused command disturbs no push data.                                *)
LEMMA RejectData ==
  ASSUME DataInv, LegalInv', NEW l \in DOMAIN lists, Commands!Reject(l)
  PROVE  DataInv'
  <1>1. PICK s : s = [lists[l] EXCEPT !.pendingError = TRUE, !.refused = TRUE]
    OBVIOUS
  <1>2. \A f \in ListFields \ {"pendingError", "refused"} : s[f] = lists[l][f]
    BY <1>1, OfList DEF ListFields
  <1>3. Recorded(s, Commands!Type(l))
    BY <1>2, OfList, SameRecorded DEF ListFields
  <1> QED
    BY <1>1, <1>2, <1>3, RecordsData DEF Commands!Reject, ListFields

(* A secondary list begins with nothing pushed.                            *)
LEMMA BeginData ==
  ASSUME DataInv, LegalInv', NEW l \in DOMAIN lists, Commands!BeginSecondary(l)
  PROVE  DataInv'
  <1>1. PICK s : s = [lists[l] EXCEPT !.begun = TRUE]
    OBVIOUS
  <1>2. \A f \in ListFields \ {"begun"} : s[f] = lists[l][f]
    BY <1>1, OfList DEF ListFields
  <1>3. Recorded(s, Commands!Type(l))
    BY <1>2, OfList, SameRecorded DEF ListFields
  <1> QED
    BY <1>1, <1>2, <1>3, RecordsData DEF Commands!BeginSecondary, ListFields

(* What a list is when it starts anew.                                     *)
LEMMA RewoundIs ==
  ASSUME NEW l, NEW a, NEW r, r = Commands!Rewound(l, a)
  PROVE  /\ DOMAIN r = ListFields /\ r.from = a /\ r.bundle = lists[l].bundle
         /\ r.layout = None /\ ~ r.open /\ ~ r.wrong
  BY DEF Commands!Rewound, Commands!Blank, ListFields

(* A recycled list begins with nothing pushed, on its own pages.           *)
LEMMA RecycleData ==
  ASSUME DataInv, LegalInv', NEW l \in DOMAIN lists, Commands!Recycle(l)
  PROVE  DataInv'
  <1>1. PICK a, missing, s :
          /\ a \in DOMAIN allocators /\ missing \in BOOLEAN
          /\ Commands!Becomes(l, s)
          /\ \/ s = [Commands!Rewound(l, a) EXCEPT !.open = TRUE]
             \/ s = [Commands!Rewound(l, lists[l].from) EXCEPT !.pendingError = missing]
    <2>1. PICK a, missing :
            /\ a \in DOMAIN allocators /\ missing = (lists[l].bundle /\ ~ allocators[a].bundles)
            /\ \/ Commands!Becomes(l, [Commands!Rewound(l, a) EXCEPT !.open = TRUE])
               \/ Commands!Becomes(l, [Commands!Rewound(l, lists[l].from) EXCEPT !.pendingError = missing])
      BY DEF Commands!Recycle
    <2>2. missing \in BOOLEAN
      BY <2>1
    <2> QED
      BY <2>1, <2>2
  <1>2. CASE s = [Commands!Rewound(l, a) EXCEPT !.open = TRUE]
    <2>1. Recorded(s, IF s.bundle THEN "bundle" ELSE allocators[s.from].type)
      BY <1>2, OfList, RewoundRecorded
    <2>2. s.from = a
      BY <1>2, RewoundIs DEF ListFields
    <2> QED
      BY <1>1, <2>1, <2>2, BecomesData
  <1>3. CASE s = [Commands!Rewound(l, lists[l].from) EXCEPT !.pendingError = missing]
    <2>1. PICK r : r = Commands!Rewound(l, lists[l].from)
      OBVIOUS
    <2>2. DOMAIN r = ListFields /\ r.from = lists[l].from /\ r.bundle = lists[l].bundle
      BY <2>1, RewoundIs
    <2>3. Recorded(r, Commands!Type(l))
      BY <2>1, OfList, RewoundRecorded
    <2>4. \A f \in ListFields \ {"pendingError"} : s[f] = r[f]
      BY <1>3, <2>1, <2>2
    <2>5. Recorded(s, Commands!Type(l))
      BY <2>3, <2>4, SameRecorded DEF ListFields
    <2> QED
      BY <1>1, <2>2, <2>4, <2>5, RecordsData DEF ListFields
  <1> QED
    BY <1>1, <1>2, <1>3

(* cl_end.                                                                 *)
LEMMA EndData ==
  ASSUME DataInv, LegalInv', NEW l \in DOMAIN lists, Commands!End(l)
  PROVE  DataInv'
  <1>1. PICK r : r = Commands!Rewound(l, lists[l].from)
    OBVIOUS
  <1>2. PICK closes \in BOOLEAN :
          Commands!Becomes(l, [r EXCEPT
                   !.accepted = closes /\ ~ lists[l].pendingError, !.pendingError = lists[l].pendingError,
                   !.memory = lists[l].memory, !.draws = lists[l].draws, !.executed = lists[l].executed,
                   !.refused = lists[l].refused])
    BY <1>1 DEF Commands!End
  <1> DEFINE s == [r EXCEPT
                   !.accepted = closes /\ ~ lists[l].pendingError, !.pendingError = lists[l].pendingError,
                   !.memory = lists[l].memory, !.draws = lists[l].draws, !.executed = lists[l].executed,
                   !.refused = lists[l].refused]
  <1>3. /\ DOMAIN r = ListFields /\ r.from = lists[l].from /\ r.bundle = lists[l].bundle
        /\ r.layout = None /\ ~ r.open /\ ~ r.wrong
    BY <1>1, RewoundIs
  <1>4. /\ \A f \in {"from", "bundle", "pages", "pushes", "layout", "wrong", "open"} : s[f] = r[f]
        /\ s.memory = lists[l].memory /\ s.draws = lists[l].draws
    BY <1>2, <1>3 DEF ListFields
  <1>5. Recorded(r, Commands!Type(l)) /\ Recorded(lists[l], Commands!Type(l))
    BY <1>1, OfList, RewoundRecorded
  <1>6. Recorded(s, Commands!Type(l))
    BY <1>3, <1>4, <1>5, EndRecorded
  <1> QED
    BY <1>2, <1>3, <1>4, <1>6, RecordsData

(* Steps of allocators change no list's type.                              *)
LEMMA TypesSame ==
  ASSUME DataInv, LegalInv', UNCHANGED <<lists, layouts>>,
         \A a \in DOMAIN allocators' : DOMAIN allocators'[a] = {"type", "bundles"},
         \A l \in DOMAIN lists : LET a == lists[l].from
                                 IN a \in DOMAIN allocators' /\ allocators'[a].type = allocators[a].type
  PROVE  DataInv'
  <1>1. \A l \in DOMAIN lists : Commands!Type(l)' = Commands!Type(l)
    BY DEF Commands!Type
  <1> QED
    BY <1>1 DEF DataInv

(* Commands that push nothing.                                             *)
LEMMA GivesData ==
  ASSUME DataInv, LegalInv', NEW l, NEW command, NEW legal, Commands!Gives(l, command, legal)
  PROVE  DataInv'
  BY TypesSame DEF Commands!Gives, DataInv

(* cl_bindLayout.                                                          *)
LEMMA BindData ==
  ASSUME DataInv, LegalInv', NEW l \in DOMAIN lists, Commands!BindLayout(l)
  PROVE  DataInv'
  <1>1. PICK y, s :
          /\ y \in layouts
          /\ Commands!Becomes(l, s)
          /\ s = [lists[l] EXCEPT !.layout = y, !.arguments = Commands!OldArguments(l, y),
                       !.shadows = IF lists[l].layout = y THEN @ ELSE <<>>,
                       !.wanted = IF lists[l].layout = y THEN @ ELSE Commands!NothingPushed(y)]
    BY DEF Commands!BindLayout
  <1>2. y \in RootLayouts
    BY <1>1 DEF DataInv
  <1>3. Recorded(s, Commands!Type(l))
    BY <1>1, <1>2, OfList, BindRecorded
  <1>4. s.from = lists[l].from /\ s.bundle = lists[l].bundle
    BY <1>1, OfList DEF ListFields
  <1> QED
    BY <1>1, <1>3, <1>4, RecordsData

(* A push keeps the list's allocator and type.                             *)
LEMMA PushKeepsList ==
  ASSUME NEW l \in DOMAIN lists, DOMAIN lists[l] = ListFields, NEW i, NEW offset, NEW words, NEW s,
         \/ s = Commands!Rooted(l, i, offset, words)
         \/ s = Commands!Stored(l, i, offset, words)
         \/ s = Commands!Starved(l, i, offset, words)
  PROVE  s.from = lists[l].from /\ s.bundle = lists[l].bundle
  <1>1. PICK p : p = Commands!Pushed(l, i, offset, words)
    OBVIOUS
  <1>2. DOMAIN p = ListFields /\ p.from = lists[l].from /\ p.bundle = lists[l].bundle
    BY <1>1 DEF Commands!Pushed, ListFields
  <1>3. CASE s = Commands!Rooted(l, i, offset, words)
    BY <1>1, <1>2, <1>3 DEF Commands!Rooted, ListFields
  <1>4. CASE s = Commands!Stored(l, i, offset, words)
    BY <1>1, <1>2, <1>4 DEF Commands!Stored, ListFields
  <1>5. CASE s = Commands!Starved(l, i, offset, words)
    BY <1>1, <1>2, <1>5 DEF Commands!Starved, ListFields
  <1> QED
    BY <1>3, <1>4, <1>5

(* cl_pushConstants.                                                       *)
LEMMA PushData ==
  ASSUME DataInv, LegalInv', NEW l \in DOMAIN lists, Commands!PushConstants(l)
  PROVE  DataInv'
  <1>1. lists[l].open /\ lists[l].layout # None
    BY DEF Commands!PushConstants, Commands!Recording
  <1>2. PICK y \in RootLayouts : lists[l].layout = y
    BY <1>1, OfList DEF Recorded
  <1>3. PICK i \in DOMAIN Ranges[y] :
          \E offset \in 0 .. Ranges[y][i].words - 1, given \in 1 .. Ranges[y][i].words + 1 :
            Commands!Push(l, i, offset, IF offset + given > Ranges[y][i].words THEN Ranges[y][i].words - offset
                                                                              ELSE given)
    BY <1>2 DEF Commands!PushConstants
  <1>4. PICK offset \in Nat, words \in Nat : Commands!Push(l, i, offset, words)
    <2>1. PICK n : n = Ranges[y][i].words
      OBVIOUS
    <2>2. PICK offset \in 0 .. n - 1, given \in 1 .. n + 1 :
            Commands!Push(l, i, offset, IF offset + given > n THEN n - offset ELSE given)
      BY <1>3, <2>1
    <2>3. n \in Nat
      BY <2>1, StrideOf
    <2>4. offset \in Nat /\ (IF offset + given > n THEN n - offset ELSE given) \in Nat
      BY <2>2, <2>3
    <2> QED
      BY <2>2, <2>4
  <1>5. PICK s :
          /\ Commands!Becomes(l, s)
          /\ \/ ~ Ranges[y][i].emulated /\ s = Commands!Rooted(l, i, offset, words)
             \/ Ranges[y][i].emulated /\ s = Commands!Stored(l, i, offset, words)
             \/ Ranges[y][i].emulated /\ s = Commands!Starved(l, i, offset, words)
    BY <1>2, <1>4 DEF Commands!Push
  <1>6. Recorded(s, Commands!Type(l))
    BY <1>1, <1>2, <1>5, OfList, RootedRecorded, StoredRecorded, StarvedRecorded
  <1>7. s.from = lists[l].from /\ s.bundle = lists[l].bundle
    <2>1. \/ s = Commands!Rooted(l, i, offset, words)
          \/ s = Commands!Stored(l, i, offset, words)
          \/ s = Commands!Starved(l, i, offset, words)
      BY <1>5
    <2>2. DOMAIN lists[l] = ListFields
      BY OfList
    <2> QED
      BY <2>1, <2>2, PushKeepsList
  <1> QED
    BY <1>5, <1>6, <1>7, RecordsData

(* Draws and dispatches.                                                   *)
LEMMA DrawData ==
  ASSUME DataInv, LegalInv', NEW l \in DOMAIN lists, Commands!Draw(l)
  PROVE  DataInv'
  <1>1. PICK g, s :
          /\ g \in Commands!DrawStages(l)
          /\ Commands!Becomes(l, s) /\ s = Commands!Draws(l, g, lists[l].wanted[g])
    BY DEF Commands!Draw
  <1>2. g \in Commands!Stages
    BY <1>1 DEF Commands!DrawStages, Commands!Stages
  <1>3. PICK y \in RootLayouts : lists[l].layout = y
    BY OfList DEF Recorded, Commands!Draw, Commands!Drawable
  <1>4. Bound(lists[l], Commands!Type(l), y)
    BY <1>3, OfList, Dx12CommandsAssumption DEF Recorded
  <1>5. PICK wanted : wanted = lists[l].wanted[g]
    OBVIOUS
  <1>6. Among(wanted, lists[l], y, g)
    BY <1>2, <1>4, <1>5, WantedAmong
  <1>7. Recorded(s, Commands!Type(l))
    BY <1>1, <1>2, <1>3, <1>5, <1>6, OfList, DrawsRecorded
  <1>8. \A f \in ListFields \ {"wrong", "draws"} : s[f] = lists[l][f]
    BY <1>1, <1>5, OfList, DrawsSame
  <1> QED
    BY <1>1, <1>7, <1>8, RecordsData DEF ListFields

(* Indirect draws.                                                         *)
LEMMA IndirectData ==
  ASSUME DataInv, LegalInv', NEW l \in DOMAIN lists, Commands!ExecuteIndirect(l)
  PROVE  DataInv'
  <1>1. PICK signature, g, s :
          /\ signature \in signatures /\ g \in Commands!DrawStages(l)
          /\ Commands!Becomes(l, s)
          /\ s = Commands!Indirect(l, signature, g)
    BY DEF Commands!ExecuteIndirect
  <1>2. g \in Commands!Stages
    BY <1>1 DEF Commands!DrawStages, Commands!Stages
  <1>3. PICK y \in RootLayouts : lists[l].layout = y
    BY OfList DEF Recorded, Commands!ExecuteIndirect, Commands!Drawable
  <1>4. Recorded(s, Commands!Type(l))
    BY <1>1, <1>2, <1>3, OfList, IndirectRecorded
  <1>5. PICK d : d = Commands!Draws(l, g, Commands!Overwritten(signature, lists[l].wanted[g]))
    OBVIOUS
  <1>6. DOMAIN d = ListFields /\ \A f \in ListFields \ {"wrong", "draws"} : d[f] = lists[l][f]
    BY <1>5, OfList, DrawsSame
  <1>7. s.from = lists[l].from /\ s.bundle = lists[l].bundle
    BY <1>1, <1>5, <1>6 DEF ListFields, Commands!Indirect
  <1> QED
    BY <1>1, <1>4, <1>7, RecordsData

(* Executed bundles: what is bound after them is not trusted.              *)
LEMMA ExecuteData ==
  ASSUME DataInv, LegalInv', NEW l \in DOMAIN lists, Commands!ExecuteCommands(l)
  PROVE  DataInv'
  <1>1. CASE Commands!Rejected(l)
    BY <1>1, RejectData DEF Commands!ExecuteCommands
  <1>2. CASE ~ Commands!Rejected(l)
    <2>1. PICK run, s :
            /\ Commands!Becomes(l, s)
            /\ s = [lists[l] EXCEPT !.executed = @ \cup run,
                      !.wanted = IF lists[l].layout = None THEN @ ELSE Commands!NothingPushed(lists[l].layout)]
      BY <1>2 DEF Commands!ExecuteCommands
    <2>2. \A f \in ListFields \ {"executed", "wanted"} : s[f] = lists[l][f]
      BY <2>1, OfList DEF ListFields
    <2>3. s.wanted = IF lists[l].layout = None THEN lists[l].wanted ELSE Commands!NothingPushed(lists[l].layout)
      BY <2>1, OfList DEF ListFields
    <2>4. Recorded(s, Commands!Type(l))
      <3>1. CASE lists[l].layout = None
        BY <2>2, <2>3, <3>1, OfList, SameRecorded DEF ListFields
      <3>2. CASE lists[l].layout # None
        <4>1. lists[l].layout \in RootLayouts
          BY <3>2, OfList DEF Recorded
        <4>2. DOMAIN s.wanted = Commands!Stages
          BY <2>3, <3>2, <4>1, NothingIs
        <4>3. \A g \in Commands!Stages : Among(s.wanted[g], lists[l], lists[l].layout, g)
          BY <2>3, <3>2, <4>1, NothingIs DEF Among
        <4> QED
          BY <2>2, <3>2, <4>2, <4>3, OfList, WantsLess DEF ListFields
      <3> QED
        BY <3>1, <3>2
    <2> QED
      BY <2>1, <2>2, <2>4, RecordsData DEF ListFields
  <1> QED
    BY <1>1, <1>2

(* Queries and barriers.                                                   *)
LEMMA BarrierData ==
  ASSUME DataInv, LegalInv', NEW l \in DOMAIN lists,
         \/ Commands!Query(l) \/ Commands!TextureBarrier(l) \/ Commands!BufferBarrier(l)
  PROVE  DataInv'
  <1>1. Commands!Reject(l) \/ \E command, legal : Commands!Gives(l, command, legal)
    <2>1. CASE Commands!Query(l)
      BY <2>1 DEF Commands!Query
    <2>2. CASE Commands!TextureBarrier(l)
      BY <2>2 DEF Commands!TextureBarrier
    <2>3. CASE Commands!BufferBarrier(l)
      BY <2>3 DEF Commands!BufferBarrier
    <2> QED
      BY <2>1, <2>2, <2>3
  <1> QED
    BY <1>1, RejectData, GivesData

(* Commands of primary lists.                                              *)
LEMMA PrimaryData ==
  ASSUME DataInv, LegalInv', NEW l \in DOMAIN lists, NEW command, Commands!PrimaryOnly(l, command)
  PROVE  DataInv'
  BY RejectData, GivesData DEF Commands!PrimaryOnly

(* Every step of a list.                                                   *)
LEMMA ListStepData ==
  ASSUME DataInv, LegalInv', NEW l \in DOMAIN lists,
         \/ Commands!Recycle(l) \/ Commands!BeginSecondary(l) \/ Commands!End(l)
         \/ Commands!Pass(l) \/ Commands!Clear(l) \/ Commands!Copy(l) \/ Commands!WorkGraph(l)
         \/ Commands!AccelerationStructure(l) \/ Commands!Query(l)
         \/ Commands!TextureBarrier(l) \/ Commands!BufferBarrier(l)
         \/ Commands!BindLayout(l) \/ Commands!PushConstants(l) \/ Commands!Draw(l)
         \/ Commands!ExecuteIndirect(l) \/ Commands!ExecuteCommands(l)
  PROVE  DataInv'
  <1>1. CASE \/ Commands!Pass(l) \/ Commands!Clear(l) \/ Commands!Copy(l) \/ Commands!WorkGraph(l)
             \/ Commands!AccelerationStructure(l)
    <2>1. \E command : Commands!PrimaryOnly(l, command)
      BY <1>1 DEF Commands!Pass, Commands!Clear, Commands!Copy, Commands!WorkGraph,
                  Commands!AccelerationStructure
    <2> QED
      BY <2>1, PrimaryData
  <1> QED
    BY <1>1, RecycleData, BeginData, EndData, BarrierData, BindData, PushData, DrawData, IndirectData, ExecuteData

(* Allocators come, and go when no list is of them.                        *)
LEMMA AllocatorData ==
  ASSUME DataInv, LegalInv',
         \/ Commands!CreateCommandAllocator \/ Commands!DestroyCommandAllocator
  PROVE  DataInv'
  <1>1. \A l \in DOMAIN lists : lists[l].from \in DOMAIN allocators
    BY DEF DataInv
  <1>2. CASE Commands!CreateCommandAllocator
    <2>1. PICK a \in Allocators \ DOMAIN allocators, type \in QueueKinds :
            allocators' = Commands!Set(allocators, a, [type |-> type, bundles |-> FALSE])
      BY <1>2 DEF Commands!CreateCommandAllocator
    <2>2. /\ DOMAIN allocators' = DOMAIN allocators \cup {a}
          /\ allocators'[a] = [type |-> type, bundles |-> FALSE]
          /\ \A b \in DOMAIN allocators : allocators'[b] = allocators[b]
      BY <2>1 DEF Commands!Set
    <2>3. \A b \in DOMAIN allocators' : DOMAIN allocators'[b] = {"type", "bundles"}
      BY <2>2 DEF DataInv
    <2> QED
      BY <1>1, <1>2, <2>2, <2>3, TypesSame DEF Commands!CreateCommandAllocator
  <1>3. CASE Commands!DestroyCommandAllocator
    <2>1. PICK a \in DOMAIN allocators :
            (\A l \in DOMAIN lists : lists[l].from # a) /\ allocators' = Commands!Drop(allocators, a)
      BY <1>3 DEF Commands!DestroyCommandAllocator
    <2>2. /\ DOMAIN allocators' = DOMAIN allocators \ {a}
          /\ \A b \in DOMAIN allocators \ {a} : allocators'[b] = allocators[b]
      BY <2>1 DEF Commands!Drop
    <2>3. \A b \in DOMAIN allocators' : DOMAIN allocators'[b] = {"type", "bundles"}
      BY <2>2 DEF DataInv
    <2> QED
      BY <1>1, <1>3, <2>1, <2>2, <2>3, TypesSame DEF Commands!DestroyCommandAllocator
  <1> QED
    BY <1>2, <1>3

(* Layouts and signatures come and go.                                     *)
LEMMA LayoutData ==
  ASSUME DataInv, LegalInv', layouts' \subseteq RootLayouts, UNCHANGED <<allocators, lists>>
  PROVE  DataInv'
  BY DEF DataInv, Commands!Type

(* Lists go.                                                               *)
LEMMA DestroyData ==
  ASSUME DataInv, LegalInv', Commands!DestroyCommandList
  PROVE  DataInv'
  <1>1. PICK l \in DOMAIN lists : lists' = Commands!Drop(lists, l)
    BY DEF Commands!DestroyCommandList
  <1>2. /\ DOMAIN lists' = DOMAIN lists \ {l}
        /\ \A k \in DOMAIN lists \ {l} : lists'[k] = lists[k]
        /\ allocators' = allocators /\ layouts' = layouts
    BY <1>1 DEF Commands!Drop, Commands!DestroyCommandList
  <1>3. \A k \in DOMAIN lists \ {l} : Commands!Type(k)' = Commands!Type(k)
    BY <1>2 DEF Commands!Type
  <1> QED
    BY <1>2, <1>3 DEF DataInv

(* A reset allocator gives its lists back their scratch memory.            *)
LEMMA ResetData ==
  ASSUME DataInv, LegalInv', Commands!ResetAllocator
  PROVE  DataInv'
  <1>1. PICK a \in DOMAIN allocators :
          lists' = [l \in DOMAIN lists |->
                        IF lists[l].from = a
                          THEN [lists[l] EXCEPT !.accepted = FALSE, !.draws = {}, !.executed = {}]
                          ELSE lists[l]]
    BY DEF Commands!ResetAllocator
  <1>2. DOMAIN lists' = DOMAIN lists /\ allocators' = allocators /\ layouts' = layouts
    BY <1>1 DEF Commands!ResetAllocator
  <1>3. ASSUME NEW l \in DOMAIN lists
        PROVE  /\ lists'[l].from = lists[l].from /\ lists'[l].bundle = lists[l].bundle
               /\ Recorded(lists'[l], Commands!Type(l))
    <2>1. CASE lists[l].from # a
      BY <1>1, <2>1, OfList
    <2>2. CASE lists[l].from = a
      <3>1. PICK s, t, type : s = lists[l] /\ t = lists'[l] /\ type = Commands!Type(l)
        OBVIOUS
      <3>2. DOMAIN s = ListFields /\ Recorded(s, type)
        BY <3>1, OfList
      <3>3. t = [s EXCEPT !.accepted = FALSE, !.draws = {}, !.executed = {}]
        BY <1>1, <2>2, <3>1
      <3>4. (\A f \in ListFields \ {"accepted", "draws", "executed"} : t[f] = s[f]) /\ t.draws = {}
        BY <3>2, <3>3 DEF ListFields
      <3>5. Recorded(t, type)
        BY <3>2, <3>4 DEF Recorded, Bound, Carries, ShadowOf, Drawn, Below, ListFields
      <3> QED
        BY <3>1, <3>4, <3>5 DEF ListFields
    <2> QED
      BY <2>1, <2>2
  <1>4. \A l \in DOMAIN lists : Commands!Type(l)' = Commands!Type(l)
    BY <1>2, <1>3 DEF Commands!Type
  <1> QED
    BY <1>2, <1>3, <1>4 DEF DataInv

(* A new list has nothing pushed.                                          *)
LEMMA NewData ==
  ASSUME DataInv, LegalInv', NEW l, l \notin DOMAIN lists, NEW s, lists' = Commands!Set(lists, l, s),
         s.from \in DOMAIN allocators, layouts' = layouts, DOMAIN allocators' = DOMAIN allocators,
         \A a \in DOMAIN allocators : /\ DOMAIN allocators'[a] = {"type", "bundles"}
                                      /\ allocators'[a].type = allocators[a].type,
         \A type : Recorded(s, type)
  PROVE  DataInv'
  <1>1. /\ DOMAIN lists' = DOMAIN lists \cup {l} /\ lists'[l] = s
        /\ \A k \in DOMAIN lists : lists'[k] = lists[k]
    BY DEF Commands!Set
  <1>2. \A k \in DOMAIN lists : Commands!Type(k)' = Commands!Type(k)
    BY <1>1 DEF Commands!Type, DataInv
  <1> QED
    BY <1>1, <1>2 DEF DataInv

(* Lists come.                                                             *)
LEMMA CreateData ==
  ASSUME DataInv, LegalInv', Commands!CreateCommandList \/ Commands!CreateSecondaryCommandList
  PROVE  DataInv'
  <1>1. <<Commands!NewPage(Placement)>> \in Seq(PageSet)
    BY NewPageIs, Dx12CommandsAssumption
  <1>2. ASSUME NEW a, NEW bundle
        PROVE  /\ \A type : Recorded(Commands!NewList(a, bundle), type)
               /\ \A type : Recorded([Commands!NewList(a, bundle) EXCEPT !.open = TRUE], type)
               /\ DOMAIN Commands!NewList(a, bundle) = ListFields /\ Commands!NewList(a, bundle).from = a
    <2>1. /\ \A type : Recorded(Commands!NewList(a, bundle), type)
          /\ \A type : Recorded([Commands!NewList(a, bundle) EXCEPT !.open = TRUE], type)
      BY <1>1, BlankRecorded DEF Commands!NewList
    <2> QED
      BY <2>1 DEF Commands!NewList, Commands!Blank, ListFields
  <1>3. CASE Commands!CreateCommandList
    <2>1. PICK l, a, r, s :
            /\ l \in Lists \ DOMAIN lists /\ a \in DOMAIN allocators
            /\ lists' = Commands!Set(lists, l, s) /\ s = [r EXCEPT !.open = TRUE]
            /\ r = Commands!NewList(a, FALSE)
      BY <1>3 DEF Commands!CreateCommandList
    <2>2. s.from = a /\ \A type : Recorded(s, type)
      BY <1>2, <2>1 DEF ListFields
    <2> QED
      BY <1>3, <2>1, <2>2, NewData DEF Commands!CreateCommandList, DataInv
  <1>4. CASE Commands!CreateSecondaryCommandList
    <2>1. PICK l \in Lists \ DOMAIN lists, a \in DOMAIN allocators :
            /\ allocators' = [allocators EXCEPT ![a].bundles = TRUE]
            /\ lists' = Commands!Set(lists, l, Commands!NewList(a, TRUE)) \/ lists' = lists
            /\ layouts' = layouts
      BY <1>4 DEF Commands!CreateSecondaryCommandList
    <2>2. /\ DOMAIN allocators' = DOMAIN allocators
          /\ \A b \in DOMAIN allocators : /\ DOMAIN allocators'[b] = {"type", "bundles"}
                                          /\ allocators'[b].type = allocators[b].type
      BY <2>1 DEF DataInv
    <2>3. CASE lists' = lists
      BY <2>1, <2>2, <2>3, TypesSame DEF DataInv
    <2>4. CASE lists' = Commands!Set(lists, l, Commands!NewList(a, TRUE))
      <3>1. PICK r : r = Commands!NewList(a, TRUE)
        OBVIOUS
      <3>2. r.from = a /\ \A type : Recorded(r, type)
        BY <1>2, <3>1
      <3> QED
        BY <2>1, <2>2, <2>4, <3>1, <3>2, NewData
    <2> QED
      BY <2>1, <2>3, <2>4
  <1> QED
    BY <1>3, <1>4

(* Every step of the device.                                               *)
LEMMA DataStep == DataInv /\ [DeviceNext]_deviceVars => DataInv'
  <1> SUFFICES ASSUME DataInv, [DeviceNext]_deviceVars PROVE DataInv'
    OBVIOUS
  <1>1. LegalInv'
    BY LegalStep DEF DataInv
  <1>2. CASE UNCHANGED commandVars
    BY <1>1, <1>2, LayoutData DEF commandVars, DataInv
  <1>3. CASE Commands!Next
    <2>1. CASE \/ Commands!CreatePipelineLayout \/ Commands!DestroyPipelineLayout
               \/ Commands!CreateCommandSignature \/ Commands!DestroyCommandSignature
      BY <1>1, <2>1, LayoutData DEF Commands!CreatePipelineLayout, Commands!DestroyPipelineLayout,
         Commands!CreateCommandSignature, Commands!DestroyCommandSignature, DataInv
    <2>2. CASE \E l \in DOMAIN lists :
           \/ Commands!Recycle(l) \/ Commands!BeginSecondary(l) \/ Commands!End(l)
           \/ Commands!Pass(l) \/ Commands!Clear(l) \/ Commands!Copy(l) \/ Commands!WorkGraph(l)
           \/ Commands!AccelerationStructure(l) \/ Commands!Query(l)
           \/ Commands!TextureBarrier(l) \/ Commands!BufferBarrier(l)
           \/ Commands!BindLayout(l) \/ Commands!PushConstants(l) \/ Commands!Draw(l)
           \/ Commands!ExecuteIndirect(l) \/ Commands!ExecuteCommands(l)
      BY <1>1, <2>2, ListStepData
    <2> QED
      BY <1>1, <1>3, <2>1, <2>2, AllocatorData, ResetData, CreateData, DestroyData DEF Commands!Next
  <1> QED
    BY <1>2, <1>3 DEF DeviceNext, deviceVars

(* Draws read, for every range and stage, the push data given last before  *)
(* them (cl_pushConstants), whatever is pushed, bound and executed in      *)
(* between, for any layouts, ranges and page size.                         *)
THEOREM PushDataAlwaysRight == DeviceSpec => []PushDataRight
  <1>1. DeviceInit => DataInv
    BY DEF DeviceInit, Commands!Init, LegalInv, DataInv
  <1>2. DataInv => PushDataRight
    BY DEF DataInv, Recorded, Drawn, PushDataRight, Commands!PushDataRight
  <1> QED
    BY <1>1, <1>2, DataStep, PTL DEF DeviceSpec
-----------------------------------------------------------------------------
(* Device objects: handles.                                                *)

UpTo(S, h) == {g \in S : g <= h}

(* The numbers of a finite set up to one of them.                          *)
LEMMA UpToIs ==
  ASSUME NEW S \in SUBSET Nat, IsFiniteSet(S), NEW h
  PROVE  /\ IsFiniteSet(UpTo(S, h)) /\ Cardinality(UpTo(S, h)) \in Nat
         /\ Cardinality(UpTo(S, h)) <= Cardinality(S)
         /\ Cardinality(UpTo(S, h)) = Cardinality(S) => UpTo(S, h) = S
  BY FS_Subset, FS_CardinalityType DEF UpTo

(* The next number of S after h, or the first.                             *)
LEMMA NextUp ==
  ASSUME NEW S \in SUBSET Nat, IsFiniteSet(S), NEW T, T \subseteq S, T # {},
         NEW before, before = S \ T, \A g \in before, t \in T : g < t
  PROVE  \E m \in S : Cardinality(UpTo(S, m)) = Cardinality(before) + 1
  <1>1. PICK m : m = Min(T)
    OBVIOUS
  <1>2. m \in T /\ \A t \in T : m <= t
    BY <1>1, MinIn
  <1>3. m \in Nat /\ m \in S /\ m \notin before
    BY <1>2
  <1>4. UpTo(S, m) = before \cup {m}
    <2>1. ASSUME NEW g \in UpTo(S, m) PROVE g \in before \cup {m}
      BY <1>2, <1>3 DEF UpTo
    <2>2. ASSUME NEW g \in before \cup {m} PROVE g \in UpTo(S, m)
      BY <1>2, <1>3 DEF UpTo
    <2> QED
      BY <2>1, <2>2
  <1>5. IsFiniteSet(before)
    BY FS_Subset
  <1>6. Cardinality(before \cup {m}) = Cardinality(before) + 1
    BY <1>3, <1>5, FS_AddElement
  <1> QED
    BY <1>3, <1>4, <1>6

(* A finite set has an i-th smallest number.                               *)
LEMMA RankedIn ==
  ASSUME NEW S \in SUBSET Nat, IsFiniteSet(S), NEW i \in 1 .. Cardinality(S)
  PROVE  \E h \in S : Cardinality(UpTo(S, h)) = i
  <1> DEFINE Bad == {j \in 1 .. Cardinality(S) : ~ \E h \in S : Cardinality(UpTo(S, h)) = j}
  <1>1. Cardinality(S) \in Nat
    BY FS_CardinalityType
  <1>2. ASSUME Bad # {} PROVE FALSE
    <2>1. PICK j : j = Min(Bad)
      OBVIOUS
    <2>2. j \in Bad /\ \A k \in Bad : j <= k
      BY <1>1, <1>2, <2>1, MinIn
    <2>3. j \in 1 .. Cardinality(S) /\ ~ \E h \in S : Cardinality(UpTo(S, h)) = j
      BY <2>2
    <2>4. CASE j = 1
      <3>1. S # {}
        BY <1>1, <2>3, FS_EmptySet
      <3>2. PICK before : before = S \ S
        OBVIOUS
      <3>3. before = {} /\ Cardinality(before) = 0
        BY <3>2, FS_EmptySet
      <3>4. \E m \in S : Cardinality(UpTo(S, m)) = Cardinality(before) + 1
        BY <3>1, <3>2, <3>3, NextUp
      <3> QED
        BY <2>3, <2>4, <3>3, <3>4
    <2>5. CASE j # 1
      <3>1. j - 1 \in 1 .. Cardinality(S) /\ j - 1 \notin Bad
        BY <1>1, <2>2, <2>3, <2>5
      <3>2. PICK h \in S : Cardinality(UpTo(S, h)) = j - 1
        BY <3>1
      <3>3. PICK T, before : T = S \ UpTo(S, h) /\ before = UpTo(S, h)
        OBVIOUS
      <3>4. T \subseteq S /\ before = S \ T
        BY <3>3 DEF UpTo
      <3>5. T # {}
        <4>1. T = {} => UpTo(S, h) = S
          BY <3>3 DEF UpTo
        <4> QED
          BY <1>1, <2>3, <3>2, <4>1
      <3>6. \A g \in before, t \in T : g < t
        BY <3>3 DEF UpTo
      <3>7. \E m \in S : Cardinality(UpTo(S, m)) = Cardinality(before) + 1
        BY <3>4, <3>5, <3>6, NextUp
      <3> QED
        BY <1>1, <2>3, <3>2, <3>3, <3>7
    <2> QED
      BY <2>4, <2>5
  <1> QED
    BY <1>2

(* The Cardinality of Dx12Objects is the one the theorems are about.       *)
LEMMA SameCardinality ==
  ASSUME NEW S
  PROVE  Objects!Cardinality(S) = Cardinality(S)
  BY DEF Objects!Cardinality, Cardinality

(* The i-th free handle is free, and one of its own.                       *)
LEMMA FreshIs ==
  ASSUME NEW live, NEW i \in 1 .. Cardinality(Objects!Free(live)), NEW h, h = Objects!Fresh(live, i)
  PROVE  h \in Handles /\ h \notin live /\ h \notin owned /\ Cardinality(UpTo(Objects!Free(live), h)) = i
  <1> DEFINE S == Objects!Free(live)
  <1>1. S \subseteq Handles
    BY DEF Objects!Free
  <1>2. S \in SUBSET Nat /\ IsFiniteSet(S)
    BY <1>1, FS_Subset, Dx12ObjectsAssumption
  <1>3. \E h2 \in S : Cardinality({g \in S : g <= h2}) = i
    BY <1>2, RankedIn DEF UpTo
  <1>4. h \in S /\ Cardinality({g \in S : g <= h}) = i
    BY <1>3, SameCardinality DEF Objects!Fresh
  <1> QED
    BY <1>4 DEF Objects!Free, UpTo
-----------------------------------------------------------------------------
(* Device objects: owners and chains.                                      *)

(* What a back buffer's resource is when it has let go of the buffer.      *)
Emptied(w, i) == [Objects!BackBuffer(w, i) EXCEPT !.res = Objects!NoRes]

(* The chain of w, whose resources are in reg: its i-th handle, if there is*)
(* one, is of its i-th back buffer, which the resource has as long as the  *)
(* swapchain does.                                                         *)
InPlace(w, c, reg) ==
  /\ DOMAIN c = {"handles", "images"}
  /\ \E n \in Nat : DOMAIN c.handles = 1 .. n /\ DOMAIN c.images = 1 .. n
  /\ \A i \in DOMAIN c.handles :
       /\ c.handles[i] # None =>
            /\ c.handles[i] \in DOMAIN reg
            /\ reg[c.handles[i]] \in {Objects!BackBuffer(w, i), Emptied(w, i)}
       /\ c.images[i] \in BOOLEAN
       /\ c.images[i] => c.handles[i] # None /\ reg[c.handles[i]] = Objects!BackBuffer(w, i)
  /\ \A i, j \in DOMAIN c.handles : c.handles[i] # None /\ c.handles[i] = c.handles[j] => i = j

(* What callers own holds no back buffer, and a pipeline knows its exports.*)
Fit(object) ==
  /\ object.kind = "resource" => object.res = Objects!Own
  /\ object.kind = "pipeline" /\ object.rayTracing =>
       /\ DOMAIN object.exports = 1 .. Len(object.exports) /\ Len(object.exports) \in Nat
       /\ \A i \in DOMAIN object.exports : object.exports[i] # None

(* Owners of what is registered.                                           *)
OwnersInv ==
  /\ DOMAIN registry \subseteq owned \cup UNION {Objects!HandlesOf(chains[w]) : w \in DOMAIN chains}
  /\ \A w \in DOMAIN chains : /\ Objects!HandlesOf(chains[w]) \cap owned = {}
                              /\ \A v \in DOMAIN chains \ {w} :
                                   Objects!HandlesOf(chains[v]) \cap Objects!HandlesOf(chains[w]) = {}
  /\ phase = "up" => owned \subseteq DOMAIN registry
  /\ phase = "down" => \A h \in DOMAIN registry : registry[h].kind = "workGraph"
  /\ phase # "up" => DOMAIN chains = {}
  /\ phase = "none" => owned = {}

ObjectsInv ==
  /\ Unhandled = {} /\ misuse = {}
  /\ phase \in {"none", "up", "down"} /\ (phase = "up" => primary = Objects!Kinds)
  /\ DOMAIN registry \cup owned \subseteq Handles /\ DOMAIN chains \subseteq Windows
  /\ OwnersInv
  /\ \A h \in DOMAIN registry \cap owned : Fit(registry[h])
  /\ \A w \in DOMAIN chains : InPlace(w, chains[w], registry)

(* What the resource of a back buffer is.                                  *)
LEMMA BackBufferIs ==
  ASSUME NEW w \in Windows, NEW i
  PROVE  /\ Objects!BackBuffer(w, i).kind = "resource" /\ Emptied(w, i).kind = "resource"
         /\ Objects!BackBuffer(w, i).res = <<w, i>> /\ Emptied(w, i).res = Objects!NoRes
         /\ [Objects!BackBuffer(w, i) EXCEPT !.res = Objects!NoRes] = Emptied(w, i)
         /\ [Emptied(w, i) EXCEPT !.res = Objects!NoRes] = Emptied(w, i)
  BY DEF Emptied, Objects!BackBuffer, Objects!Resource

(* What a resource has: its own, a back buffer, or nothing.                *)
LEMMA ResAre ==
  ASSUME NEW w \in Windows, NEW i
  PROVE  /\ <<w, i>> # Objects!NoRes /\ <<w, i>> # Objects!Own /\ Objects!Own # Objects!NoRes
         /\ <<w, i>>[1] = w /\ Objects!Own[1] = None /\ w # None
  BY Dx12ObjectsAssumption DEF Objects!NoRes, Objects!Own

(* A chain stays in place where its resources stay.                        *)
LEMMA InPlaceKept ==
  ASSUME NEW w, NEW c, NEW reg, InPlace(w, c, reg), NEW reg2,
         \A g \in Objects!HandlesOf(c) : g \in DOMAIN reg2 /\ reg2[g] = reg[g]
  PROVE  InPlace(w, c, reg2)
  BY DEF InPlace, Objects!HandlesOf

(* What a registered object is.                                            *)
LEMMA RegisteredIs ==
  ASSUME ObjectsInv, NEW h \in DOMAIN registry
  PROVE  \/ h \in owned /\ Fit(registry[h])
         \/ \E w \in DOMAIN chains : \E i \in DOMAIN chains[w].handles :
              /\ h \in Objects!HandlesOf(chains[w]) /\ chains[w].handles[i] = h
              /\ w \in Windows
              /\ registry[h] \in {Objects!BackBuffer(w, i), Emptied(w, i)}
  <1>1. CASE h \in owned
    BY <1>1 DEF ObjectsInv
  <1>2. CASE h \notin owned
    <2>1. PICK w \in DOMAIN chains : h \in Objects!HandlesOf(chains[w])
      BY <1>2 DEF ObjectsInv, OwnersInv
    <2>2. PICK i \in DOMAIN chains[w].handles : chains[w].handles[i] = h /\ h # None
      BY <2>1 DEF Objects!HandlesOf
    <2>3. InPlace(w, chains[w], registry) /\ w \in Windows
      BY DEF ObjectsInv
    <2> QED
      BY <2>1, <2>2, <2>3 DEF InPlace
  <1> QED
    BY <1>1, <1>2

(* The invariant says more than what is to be shown.                       *)
LEMMA ExactOf == ObjectsInv => Objects!ObjectsExact
  <1> SUFFICES ASSUME ObjectsInv PROVE Objects!ObjectsExact
    OBVIOUS
  <1>1. Objects!OwnersExact
    <2>1. ASSUME NEW w \in DOMAIN chains PROVE Objects!HandlesOf(chains[w]) \subseteq DOMAIN registry
      BY DEF ObjectsInv, InPlace, Objects!HandlesOf
    <2> QED
      BY <2>1 DEF ObjectsInv, OwnersInv, Objects!OwnersExact
  <1>2. Objects!ImagesInPlace
    <2>1. ASSUME NEW w \in DOMAIN chains, NEW i \in DOMAIN chains[w].images, chains[w].images[i]
          PROVE  registry[chains[w].handles[i]].res = <<w, i>>
      <3>1. w \in Windows /\ InPlace(w, chains[w], registry)
        BY DEF ObjectsInv
      <3>2. i \in DOMAIN chains[w].handles
        BY <3>1 DEF InPlace
      <3> QED
        BY <2>1, <3>1, <3>2, BackBufferIs DEF InPlace
    <2>2. ASSUME NEW w \in Windows \ DOMAIN chains, NEW h \in DOMAIN registry, registry[h].kind = "resource",
                 registry[h].res # Objects!NoRes, registry[h].res[1] = w
          PROVE  FALSE
      <3>1. CASE h \in owned /\ Fit(registry[h])
        BY <2>2, <3>1, ResAre DEF Fit
      <3>2. CASE \E v \in DOMAIN chains : \E i \in DOMAIN chains[v].handles :
                    v \in Windows /\ registry[h] \in {Objects!BackBuffer(v, i), Emptied(v, i)}
        <4>1. PICK v, i :
              /\ v \in DOMAIN chains /\ v \in Windows
              /\ registry[h] \in {Objects!BackBuffer(v, i), Emptied(v, i)}
          BY <3>2
        <4> QED
          BY <2>2, <4>1, BackBufferIs, ResAre
      <3> QED
        BY <3>1, <3>2, RegisteredIs
    <2>3. ASSUME NEW w \in Windows \ DOMAIN chains PROVE Objects!Held(w, registry, <<>>) = {}
      <3>1. {i \in DOMAIN <<>> : <<>>[i]} = {}
        OBVIOUS
      <3> QED
        BY <2>2, <3>1 DEF Objects!Held
    <2> QED
      BY <2>1, <2>3 DEF Objects!ImagesInPlace
  <1> QED
    BY <1>1, <1>2 DEF Objects!ObjectsExact, ObjectsInv

(* CreateD3D12Device.                                                      *)
LEMMA CreateDeviceObj ==
  ASSUME ObjectsInv, Objects!CreateDevice
  PROVE  ObjectsInv'
  <1>1. chains' = chains /\ registry' = registry /\ owned' = owned /\ misuse' = misuse
    BY DEF Objects!CreateDevice
  <1>2. DOMAIN chains = {} /\ owned = {} /\ phase' = "up" /\ primary' = Objects!Kinds
    BY DEF Objects!CreateDevice, ObjectsInv, OwnersInv
  <1> QED
    BY <1>1, <1>2 DEF ObjectsInv, OwnersInv

(* Of what Shutdown leaves, callers own all.                               *)
LEMMA ShutdownObj ==
  ASSUME ObjectsInv, Objects!Shutdown
  PROVE  ObjectsInv'
  <1>1. /\ misuse' = {} /\ DOMAIN chains' = {} /\ phase' = "down" /\ owned' = owned
        /\ DOMAIN registry' \subseteq DOMAIN registry
        /\ \A h \in DOMAIN registry' : registry[h].kind = "workGraph" /\ registry'[h] = registry[h]
    BY DEF Objects!Shutdown, ObjectsInv
  <1>2. DOMAIN registry' \subseteq owned
    BY <1>1, RegisteredIs, BackBufferIs
  <1> QED
    BY <1>1, <1>2 DEF ObjectsInv, OwnersInv

(* What callers destroy is of no chain.                                    *)
LEMMA DestroyObj ==
  ASSUME ObjectsInv, Objects!Destroy
  PROVE  ObjectsInv'
  <1>1. PICK h \in owned :
          /\ DOMAIN registry' = DOMAIN registry \ {h} /\ owned' = owned \ {h}
          /\ \A g \in DOMAIN registry \ {h} : registry'[g] = registry[g]
    BY DEF Objects!Destroy, Objects!Without
  <1>2. phase' = phase /\ primary' = primary /\ chains' = chains /\ misuse' = misuse
    BY DEF Objects!Destroy
  <1>3. ASSUME NEW w \in DOMAIN chains PROVE InPlace(w, chains[w], registry')
    <2>1. InPlace(w, chains[w], registry) /\ Objects!HandlesOf(chains[w]) \cap owned = {}
      BY DEF ObjectsInv, OwnersInv
    <2>2. Objects!HandlesOf(chains[w]) \subseteq DOMAIN registry
      BY <2>1 DEF InPlace, Objects!HandlesOf
    <2> QED
      BY <1>1, <2>1, <2>2, InPlaceKept
  <1>4. OwnersInv'
    BY <1>1, <1>2 DEF ObjectsInv, OwnersInv
  <1> QED
    BY <1>1, <1>2, <1>3, <1>4 DEF ObjectsInv

(* A new object's handle is free.                                          *)
LEMMA FreshOne ==
  ASSUME ObjectsInv, Objects!Free(DOMAIN registry) # {}, NEW h, h = Objects!Fresh(DOMAIN registry, 1)
  PROVE  h \in Handles /\ h \notin DOMAIN registry /\ h \notin owned
  <1> DEFINE S == Objects!Free(DOMAIN registry)
  <1>1. S \subseteq Handles
    BY DEF Objects!Free
  <1>2. IsFiniteSet(S) /\ Cardinality(S) \in Nat /\ Cardinality(S) # 0
    BY <1>1, FS_Subset, FS_CardinalityType, FS_EmptySet, Dx12ObjectsAssumption
  <1>3. 1 \in 1 .. Cardinality(S)
    BY <1>2
  <1> QED
    BY <1>3, FreshIs

(* An object that fits is created under a handle of its own.               *)
LEMMA CreatesObj ==
  ASSUME ObjectsInv, NEW object, Fit(object), Objects!Creates(object)
  PROVE  ObjectsInv'
  <1>1. PICK h : h = Objects!Fresh(DOMAIN registry, 1)
    OBVIOUS
  <1>2. h \in Handles /\ h \notin DOMAIN registry /\ h \notin owned
    BY <1>1, FreshOne DEF Objects!Creates
  <1>3. /\ DOMAIN registry' = DOMAIN registry \cup {h} /\ owned' = owned \cup {h}
        /\ registry'[h] = object
        /\ \A g \in DOMAIN registry : registry'[g] = registry[g]
    BY <1>1, <1>2 DEF Objects!Creates, Objects!Set
  <1>4. phase' = phase /\ phase = "up" /\ primary' = primary /\ chains' = chains /\ misuse' = misuse
    BY DEF Objects!Creates
  <1>5. ASSUME NEW w \in DOMAIN chains
        PROVE  InPlace(w, chains[w], registry') /\ h \notin Objects!HandlesOf(chains[w])
    <2>1. InPlace(w, chains[w], registry)
      BY DEF ObjectsInv
    <2>2. Objects!HandlesOf(chains[w]) \subseteq DOMAIN registry
      BY <2>1 DEF InPlace, Objects!HandlesOf
    <2> QED
      BY <1>2, <1>3, <2>1, <2>2, InPlaceKept
  <1>6. OwnersInv'
    BY <1>3, <1>4, <1>5 DEF ObjectsInv, OwnersInv
  <1> QED
    BY <1>2, <1>3, <1>4, <1>5, <1>6 DEF ObjectsInv

(* A call of D3D12 that is legal.                                          *)
LEMMA GivesObj ==
  ASSUME ObjectsInv, NEW name, NEW legal, legal, Objects!Gives(name, legal)
  PROVE  ObjectsInv'
  BY DEF Objects!Gives, ObjectsInv, OwnersInv

(* d_destroySwapchain frees the handles of its own back buffers.           *)
LEMMA DestroySwapchainObj ==
  ASSUME ObjectsInv, Objects!DestroySwapchain
  PROVE  ObjectsInv'
  <1>1. PICK w \in DOMAIN chains :
          /\ DOMAIN registry' = DOMAIN registry \ Objects!HandlesOf(chains[w])
          /\ DOMAIN chains' = DOMAIN chains \ {w}
          /\ \A g \in DOMAIN registry \ Objects!HandlesOf(chains[w]) : registry'[g] = registry[g]
          /\ \A v \in DOMAIN chains \ {w} : chains'[v] = chains[v]
    BY DEF Objects!DestroySwapchain, Objects!Without
  <1>2. phase' = phase /\ primary' = primary /\ owned' = owned /\ misuse' = misuse
    BY DEF Objects!DestroySwapchain
  <1>3. ASSUME NEW v \in DOMAIN chains \ {w} PROVE InPlace(v, chains'[v], registry')
    <2>1. InPlace(v, chains[v], registry)
      BY DEF ObjectsInv
    <2>2. Objects!HandlesOf(chains[v]) \subseteq DOMAIN registry \ Objects!HandlesOf(chains[w])
      <3>1. Objects!HandlesOf(chains[v]) \subseteq DOMAIN registry
        BY <2>1 DEF InPlace, Objects!HandlesOf
      <3>2. Objects!HandlesOf(chains[v]) \cap Objects!HandlesOf(chains[w]) = {}
        BY DEF ObjectsInv, OwnersInv
      <3> QED
        BY <3>1, <3>2
    <2> QED
      BY <1>1, <2>1, <2>2, InPlaceKept
  <1>4. OwnersInv'
    BY <1>1, <1>2 DEF ObjectsInv, OwnersInv
  <1> QED
    BY <1>1, <1>2, <1>3, <1>4 DEF ObjectsInv

(* No handle twice.                                                        *)
Apart(hs) == \A i, j \in DOMAIN hs : hs[i] # None /\ hs[i] = hs[j] => i = j

(* What Registered makes of a swapchain c of n images, k of which are had. *)
Placing(w, reg, n, k, c, hs) ==
  /\ n \in Nat /\ k \in 0 .. n /\ DOMAIN hs = 1 .. k
  /\ DOMAIN c = {"handles", "images"} /\ DOMAIN c.handles = 1 .. n /\ DOMAIN c.images = 1 .. n
  /\ \A i \in 1 .. k : hs[i] = c.handles[i] /\ hs[i] # None
  /\ \A i \in 1 .. n : (i <= k => c.images[i] = TRUE) /\ (i > k => c.images[i] = FALSE)
  /\ Apart(c.handles)
  /\ \A i \in k + 1 .. n : c.handles[i] # None =>
       c.handles[i] \in DOMAIN reg /\ reg[c.handles[i]] = Emptied(w, i)

Placed(w, reg, c, new) ==
  /\ InPlace(w, c, new)
  /\ DOMAIN new = DOMAIN reg \cup Objects!HandlesOf(c)
  /\ \A g \in DOMAIN reg \ Objects!HandlesOf(c) : new[g] = reg[g]

(* The back buffers that were had are under the handles meant for them.    *)
LEMMA RegisteredInPlace ==
  ASSUME NEW w, NEW reg, NEW n, NEW k, NEW c, NEW hs, Placing(w, reg, n, k, c, hs),
         NEW new, new = Objects!Registered(w, reg, hs)
  PROVE  Placed(w, reg, c, new)
  <1> USE DEF Placing
  <1> DEFINE Named == {hs[i] : i \in DOMAIN hs}
  <1>1. /\ DOMAIN new = DOMAIN reg \cup Named
        /\ \A g \in DOMAIN reg \ Named : new[g] = reg[g]
    BY DEF Objects!Registered
  <1>2. \A i \in 1 .. k : i \in 1 .. n
    OBVIOUS
  <1>3. ASSUME NEW i \in 1 .. k PROVE new[hs[i]] = Objects!BackBuffer(w, i)
    <2>1. \A j \in 1 .. k : hs[j] = hs[i] => j = i
      BY <1>2 DEF Apart
    <2>2. (CHOOSE j \in DOMAIN hs : hs[j] = hs[i]) = i
      BY <2>1
    <2> QED
      BY <2>2 DEF Objects!Registered
  <1>4. Named \subseteq Objects!HandlesOf(c)
    BY <1>2 DEF Objects!HandlesOf
  <1>5. Objects!HandlesOf(c) \subseteq DOMAIN reg \cup Named
    BY DEF Objects!HandlesOf
  <1>6. ASSUME NEW i \in k + 1 .. n, c.handles[i] # None
        PROVE  c.handles[i] \in DOMAIN reg \ Named
    <2>1. c.handles[i] \in DOMAIN reg
      BY <1>6
    <2>2. ASSUME NEW j \in 1 .. k, hs[j] = c.handles[i] PROVE FALSE
      <3>1. i \in 1 .. n /\ j \in 1 .. n /\ c.handles[i] = c.handles[j] /\ i # j
        BY <2>2
      <3> QED
        BY <1>6, <3>1 DEF Apart
    <2> QED
      BY <2>1, <2>2
  <1>7. ASSUME NEW i \in 1 .. n, c.handles[i] # None
        PROVE  /\ c.handles[i] \in DOMAIN new
               /\ i <= k => new[c.handles[i]] = Objects!BackBuffer(w, i)
               /\ i > k => new[c.handles[i]] = Emptied(w, i)
    <2>1. CASE i <= k
      <3>1. i \in 1 .. k
        BY <2>1
      <3> QED
        BY <1>1, <1>3, <3>1
    <2>2. CASE i > k
      <3>1. i \in k + 1 .. n
        BY <2>2
      <3>2. c.handles[i] \in DOMAIN reg \ Named
        BY <1>6, <1>7, <3>1
      <3> QED
        BY <1>1, <1>7, <2>2, <3>1, <3>2
    <2> QED
      BY <2>1, <2>2
  <1>8. ASSUME NEW i \in 1 .. n
        PROVE  /\ c.images[i] \in BOOLEAN
               /\ c.images[i] => c.handles[i] # None /\ new[c.handles[i]] = Objects!BackBuffer(w, i)
    <2>2. CASE i <= k
      <3>1. i \in 1 .. k /\ c.images[i] = TRUE
        BY <2>2
      <3>2. c.handles[i] # None
        BY <3>1
      <3> QED
        BY <1>7, <2>2, <3>1, <3>2
    <2>3. CASE i > k
      BY <2>3
    <2> QED
      BY <2>2, <2>3
  <1>9. InPlace(w, c, new)
    <2>1. \A i \in 1 .. n : c.handles[i] # None => new[c.handles[i]] \in {Objects!BackBuffer(w, i), Emptied(w, i)}
      BY <1>7
    <2> QED
      BY <1>7, <1>8, <2>1 DEF InPlace, Apart
  <1> QED
    BY <1>1, <1>4, <1>5, <1>9 DEF Placed

(* Replacing, or making, the swapchain of w.                               *)
Old(w) == IF w \in DOMAIN chains THEN Objects!HandlesOf(chains[w]) ELSE {}

(* A swapchain may be replaced by one with handles that nobody else has.   *)
LEMMA ReplaceObj ==
  ASSUME ObjectsInv, phase = "up", UNCHANGED <<phase, primary, owned, misuse>>, NEW w \in Windows, NEW c,
         DOMAIN chains' = DOMAIN chains \cup {w}, chains'[w] = c,
         \A v \in DOMAIN chains \ {w} : chains'[v] = chains[v],
         InPlace(w, c, registry'),
         DOMAIN registry' = (DOMAIN registry \ Old(w)) \cup Objects!HandlesOf(c),
         Objects!HandlesOf(c) \subseteq Handles,
         Objects!HandlesOf(c) \cap (owned \cup (DOMAIN registry \ Old(w))) = {},
         \A g \in DOMAIN registry \ Old(w) : registry'[g] = registry[g]
  PROVE  ObjectsInv'
  <1>1. Old(w) \cap owned = {}
    BY DEF ObjectsInv, OwnersInv, Old
  <1>2. ASSUME NEW v \in DOMAIN chains \ {w}
        PROVE  /\ InPlace(v, chains[v], registry')
               /\ Objects!HandlesOf(chains[v]) \subseteq DOMAIN registry \ Old(w)
    <2>1. InPlace(v, chains[v], registry)
      BY DEF ObjectsInv
    <2>2. Objects!HandlesOf(chains[v]) \subseteq DOMAIN registry
      BY <2>1 DEF InPlace, Objects!HandlesOf
    <2>3. Objects!HandlesOf(chains[v]) \cap Old(w) = {}
      BY DEF ObjectsInv, OwnersInv, Old
    <2> QED
      BY <2>1, <2>2, <2>3, InPlaceKept
  <1>3. \A v \in DOMAIN chains' : InPlace(v, chains'[v], registry')
    BY <1>2
  <1>4. \A h \in DOMAIN registry' \cap owned : h \in DOMAIN registry \ Old(w) /\ Fit(registry'[h])
    BY <1>1 DEF ObjectsInv
  <1>5. DOMAIN registry' \subseteq owned \cup UNION {Objects!HandlesOf(chains'[v]) : v \in DOMAIN chains'}
    <2>1. ASSUME NEW g \in DOMAIN registry', g \notin owned
          PROVE  \E v \in DOMAIN chains' : g \in Objects!HandlesOf(chains'[v])
      <3>1. CASE g \in Objects!HandlesOf(c)
        BY <3>1
      <3>2. CASE g \in DOMAIN registry \ Old(w)
        <4>1. PICK v \in DOMAIN chains : g \in Objects!HandlesOf(chains[v])
          BY <2>1, <3>2 DEF ObjectsInv, OwnersInv
        <4>2. v # w
          BY <3>2, <4>1 DEF Old
        <4> QED
          BY <4>1, <4>2
      <3> QED
        BY <3>1, <3>2
    <2> QED
      BY <2>1
  <1>6. \A v \in DOMAIN chains' :
          /\ Objects!HandlesOf(chains'[v]) \cap owned = {}
          /\ \A u \in DOMAIN chains' \ {v} : Objects!HandlesOf(chains'[u]) \cap Objects!HandlesOf(chains'[v]) = {}
    BY <1>2 DEF ObjectsInv, OwnersInv
  <1>7. owned \subseteq DOMAIN registry'
    BY <1>1 DEF ObjectsInv, OwnersInv
  <1> QED
    BY <1>3, <1>4, <1>5, <1>6, <1>7 DEF ObjectsInv, OwnersInv

(* The images of s before and with i that keep no handle.                  *)
Missing(s, i) == {j \in 1 .. i : s[j] = None}

(* Images that keep no handle get new ones of different ranks.             *)
LEMMA MissingIs ==
  ASSUME NEW s, NEW k \in Nat, NEW i \in 1 .. k, s[i] = None
  PROVE  /\ IsFiniteSet(Missing(s, i))
         /\ Cardinality(Missing(s, i)) \in 1 .. Cardinality(Missing(s, k))
         /\ Cardinality(Missing(s, k)) \in Nat
         /\ \A j \in i + 1 .. k : s[j] = None => Cardinality(Missing(s, i)) # Cardinality(Missing(s, j))
  <1>1. \A j \in 1 .. k : IsFiniteSet(Missing(s, j)) /\ Cardinality(Missing(s, j)) \in Nat
    <2>1. \A j \in 1 .. k : IsFiniteSet(1 .. j)
      BY FS_Interval
    <2>2. \A j \in 1 .. k : Missing(s, j) \subseteq 1 .. j
      BY DEF Missing
    <2> QED
      BY <2>1, <2>2, FS_Subset, FS_CardinalityType
  <1>2. ASSUME NEW j \in i .. k
        PROVE  Missing(s, i) \subseteq Missing(s, j) /\ Cardinality(Missing(s, i)) <= Cardinality(Missing(s, j))
    <2>1. Missing(s, i) \subseteq Missing(s, j)
      BY DEF Missing
    <2> QED
      BY <1>1, <2>1, FS_Subset
  <1>3. Cardinality(Missing(s, i)) # 0
    <2>1. i \in Missing(s, i)
      BY DEF Missing
    <2> QED
      BY <1>1, <2>1, FS_EmptySet
  <1>4. ASSUME NEW j \in i + 1 .. k, s[j] = None
        PROVE  Cardinality(Missing(s, i)) # Cardinality(Missing(s, j))
    <2>1. j \in Missing(s, j) /\ j \notin Missing(s, i)
      BY <1>4 DEF Missing
    <2>2. Missing(s, i) \subseteq Missing(s, j) /\ IsFiniteSet(Missing(s, j))
      BY <1>1, <1>2
    <2> QED
      BY <2>1, <2>2, FS_Subset
  <1> QED
    BY <1>1, <1>2, <1>3, <1>4

Fillable(s, k, reg) ==
  /\ k \in Nat /\ DOMAIN s = 1 .. k /\ Apart(s)
  /\ \A i \in 1 .. k : s[i] # None => s[i] \in DOMAIN reg
  /\ Cardinality(Missing(s, k)) <= Cardinality(Objects!Free(DOMAIN reg))
  /\ DOMAIN reg \subseteq Handles

FilledWell(s, k, reg, hs) ==
  /\ hs \in [1 .. k -> Handles] /\ Apart(hs)
  /\ \A i \in 1 .. k : s[i] # None => hs[i] = s[i]
  /\ \A i \in 1 .. k : s[i] = None => hs[i] \in Handles \ (DOMAIN reg \cup owned)
  /\ \A i \in 1 .. k : hs[i] # None

(* Filled gives each image a handle of its own.                            *)
LEMMA FilledIs ==
  ASSUME NEW reg, NEW k, NEW s, Fillable(s, k, reg), NEW hs, hs = Objects!Filled(s, reg)
  PROVE  FilledWell(s, k, reg, hs)
  <1> USE DEF Fillable
  <1> DEFINE Rank(i) == Cardinality(Missing(s, i))
             F == Objects!Free(DOMAIN reg)
  <1>1. Cardinality(F) \in Nat
    <2>1. F \subseteq Handles
      BY DEF Objects!Free
    <2> QED
      BY <2>1, FS_Subset, FS_CardinalityType, Dx12ObjectsAssumption
  <1>2. DOMAIN hs = 1 .. k
    BY DEF Objects!Filled
  <1>3. ASSUME NEW i \in 1 .. k, s[i] # None PROVE hs[i] = s[i]
    BY <1>3 DEF Objects!Filled
  <1>4. ASSUME NEW i \in 1 .. k, s[i] = None
        PROVE  hs[i] \in Handles \ (DOMAIN reg \cup owned) /\ Cardinality(UpTo(F, hs[i])) = Rank(i)
    <2>1. Rank(i) \in 1 .. Cardinality(F)
      BY <1>1, <1>4, MissingIs
    <2>2. hs[i] = Objects!Fresh(DOMAIN reg, Objects!Cardinality(Missing(s, i)))
      BY <1>4 DEF Objects!Filled, Missing
    <2>3. hs[i] = Objects!Fresh(DOMAIN reg, Rank(i))
      BY <2>2, SameCardinality
    <2>4. PICK live, r, h : live = DOMAIN reg /\ r = Rank(i) /\ h = hs[i]
      OBVIOUS
    <2> QED
      BY <2>1, <2>3, <2>4, FreshIs
  <1>5. \A i \in 1 .. k : hs[i] # None
    BY <1>3, <1>4, Dx12ObjectsAssumption
  <1>6. ASSUME NEW i \in 1 .. k, NEW j \in 1 .. k, i < j, hs[i] = hs[j] PROVE FALSE
    <2>1. CASE s[i] # None /\ s[j] # None
      BY <1>3, <1>6, <2>1 DEF Apart
    <2>2. CASE s[i] # None /\ s[j] = None
      BY <1>3, <1>4, <1>6, <2>2
    <2>3. CASE s[i] = None /\ s[j] # None
      BY <1>3, <1>4, <1>6, <2>3
    <2>4. CASE s[i] = None /\ s[j] = None
      <3>1. Rank(i) = Rank(j)
        BY <1>4, <1>6, <2>4
      <3>2. j \in i + 1 .. k
        BY <1>6
      <3> QED
        BY <2>4, <3>1, <3>2, MissingIs
    <2> QED
      BY <2>1, <2>2, <2>3, <2>4
  <1>7. Apart(hs)
    <2>1. ASSUME NEW i \in 1 .. k, NEW j \in 1 .. k, hs[i] = hs[j] PROVE i = j
      <3>1. i < j \/ j < i \/ i = j
        OBVIOUS
      <3> QED
        BY <1>6, <2>1, <3>1
    <2> QED
      BY <1>2, <2>1 DEF Apart
  <1>8. hs \in [1 .. k -> Handles]
    <2>1. \A i \in 1 .. k : hs[i] \in Handles
      BY <1>3, <1>4
    <2>2. hs = [i \in 1 .. k |-> hs[i]]
      BY DEF Objects!Filled
    <2> QED
      BY <2>1, <2>2
  <1> QED
    BY <1>3, <1>4, <1>5, <1>7, <1>8 DEF FilledWell

(* d_createSwapchain, whose back buffers are all had.                      *)
LEMMA CreateSwapchainObj ==
  ASSUME ObjectsInv, Objects!CreateSwapchain
  PROVE  ObjectsInv'
  <1> DEFINE Hs(n) == [i \in 1 .. n |-> Objects!Fresh(DOMAIN registry, i)]
  <1>1. PICK w \in Windows \ DOMAIN chains, n \in Counts :
          /\ n <= Objects!Cardinality(Objects!Free(DOMAIN registry))
          /\ registry' = Objects!Registered(w, registry, Hs(n))
          /\ chains' = Objects!Set(chains, w, [handles |-> Hs(n), images |-> [i \in 1 .. n |-> TRUE]])
    <2>1. PICK w \in Windows \ DOMAIN chains, n \in Counts :
            \E k \in IF "back buffer" \in Unhandled THEN 0 .. n ELSE {n} :
               /\ k <= Objects!Cardinality(Objects!Free(DOMAIN registry))
               /\ registry' = Objects!Registered(w, registry, Hs(k))
               /\ chains' = IF k < n THEN chains
                            ELSE Objects!Set(chains, w, [handles |-> Hs(k), images |-> [i \in 1 .. n |-> TRUE]])
      BY DEF Objects!CreateSwapchain
    <2>2. n \in Nat
      BY Dx12ObjectsAssumption
    <2>3. (IF "back buffer" \in Unhandled THEN 0 .. n ELSE {n}) = {n}
      BY DEF ObjectsInv
    <2>4. ~ (n < n)
      BY <2>2
    <2> HIDE DEF Hs
    <2> QED
      BY <2>1, <2>3, <2>4
  <1>2. n \in Nat /\ n \in 0 .. n
    <2>1. n \in Nat
      BY Dx12ObjectsAssumption
    <2> QED
      BY <2>1
  <1>3. PICK hs, c : hs = Hs(n) /\ c = [handles |-> hs, images |-> [i \in 1 .. n |-> TRUE]]
    OBVIOUS
  <1>4. /\ DOMAIN hs = 1 .. n /\ DOMAIN c = {"handles", "images"} /\ c.handles = hs
        /\ DOMAIN c.images = 1 .. n /\ \A i \in 1 .. n : c.images[i] = TRUE
    BY <1>3
  <1> DEFINE F == Objects!Free(DOMAIN registry)
  <1>5. Cardinality(F) \in Nat /\ n <= Cardinality(F)
    <2>1. F \subseteq Handles
      BY DEF Objects!Free
    <2> QED
      BY <1>1, <2>1, SameCardinality, FS_Subset, FS_CardinalityType, Dx12ObjectsAssumption
  <1>6. ASSUME NEW i \in 1 .. n
        PROVE  hs[i] \in Handles \ (DOMAIN registry \cup owned) /\ Cardinality(UpTo(F, hs[i])) = i
    <2>1. i \in 1 .. Cardinality(F)
      BY <1>2, <1>5
    <2>2. hs[i] = Objects!Fresh(DOMAIN registry, i)
      BY <1>3
    <2>3. PICK live, h : live = DOMAIN registry /\ h = hs[i]
      OBVIOUS
    <2> QED
      BY <2>1, <2>2, <2>3, FreshIs
  <1>7. Apart(hs) /\ \A i \in 1 .. n : hs[i] # None
    <2>1. \A i \in 1 .. n : hs[i] # None
      BY <1>6, Dx12ObjectsAssumption
    <2>2. \A i, j \in 1 .. n : hs[i] = hs[j] => i = j
      BY <1>6
    <2> QED
      BY <1>4, <2>1, <2>2 DEF Apart
  <1>8. PICK reg, new : reg = registry /\ new = registry'
    OBVIOUS
  <1>9. /\ InPlace(w, c, new) /\ DOMAIN new = DOMAIN reg \cup Objects!HandlesOf(c)
        /\ \A g \in DOMAIN reg \ Objects!HandlesOf(c) : new[g] = reg[g]
    <2>1. new = Objects!Registered(w, reg, hs)
      BY <1>1, <1>3, <1>8
    <2>2. \A i \in 1 .. n : (i <= n => c.images[i] = TRUE) /\ (i > n => c.images[i] = FALSE)
      BY <1>2, <1>4
    <2>3. \A i \in 1 .. n : hs[i] = c.handles[i] /\ hs[i] # None
      BY <1>4, <1>7
    <2>4. Apart(c.handles) /\ DOMAIN c.handles = 1 .. n
      BY <1>4, <1>7
    <2>5. \A i \in n + 1 .. n : c.handles[i] # None =>
            c.handles[i] \in DOMAIN reg /\ reg[c.handles[i]] = Emptied(w, i)
      BY <1>2
    <2>6. n \in 0 .. n /\ DOMAIN hs = 1 .. n /\ DOMAIN c = {"handles", "images"} /\ DOMAIN c.images = 1 .. n
      BY <1>2, <1>4
    <2>7. Placing(w, reg, n, n, c, hs)
      BY <1>2, <2>2, <2>3, <2>4, <2>5, <2>6 DEF Placing
    <2>8. Placed(w, reg, c, new)
      BY <2>1, <2>7, RegisteredInPlace
    <2> QED
      BY <2>8 DEF Placed
  <1>10. Objects!HandlesOf(c) \subseteq Handles \ (DOMAIN registry \cup owned)
    BY <1>4, <1>6 DEF Objects!HandlesOf
  <1>11. /\ DOMAIN chains' = DOMAIN chains \cup {w} /\ chains'[w] = c
         /\ \A v \in DOMAIN chains \ {w} : chains'[v] = chains[v]
    BY <1>1, <1>3 DEF Objects!Set
  <1>12. phase = "up" /\ UNCHANGED <<phase, primary, owned, misuse>> /\ Old(w) = {}
    BY DEF Objects!CreateSwapchain, Old
  <1> QED
    BY <1>8, <1>9, <1>10, <1>11, <1>12, ReplaceObj

(* What Released leaves: no back buffer of w is held.                      *)
LEMMA ReleasedIs ==
  ASSUME ObjectsInv, NEW w \in DOMAIN chains, NEW c, c = chains[w], NEW reg, reg = Objects!Released(w)
  PROVE  /\ DOMAIN reg = DOMAIN registry
         /\ \A i \in DOMAIN c.handles : c.handles[i] # None => reg[c.handles[i]] = Emptied(w, i)
         /\ \A g \in DOMAIN registry \ Objects!HandlesOf(c) : reg[g] = registry[g]
  <1>1. w \in Windows /\ InPlace(w, c, registry)
    BY DEF ObjectsInv
  <1>2. ASSUME NEW i \in DOMAIN c.handles, c.handles[i] # None
        PROVE  reg[c.handles[i]] = Emptied(w, i)
    <2>1. c.handles[i] \in Objects!HandlesOf(chains[w]) /\ c.handles[i] \in DOMAIN registry
      BY <1>1, <1>2 DEF InPlace, Objects!HandlesOf
    <2>2. reg[c.handles[i]] = [registry[c.handles[i]] EXCEPT !.res = Objects!NoRes]
      BY <2>1 DEF Objects!Released
    <2>3. registry[c.handles[i]] \in {Objects!BackBuffer(w, i), Emptied(w, i)}
      BY <1>1, <1>2 DEF InPlace
    <2> QED
      BY <1>1, <2>2, <2>3, BackBufferIs
  <1> QED
    BY <1>2 DEF Objects!Released

(* Nor does anything else hold one: the buffers may be resized.            *)
LEMMA NoneHeld ==
  ASSUME ObjectsInv, NEW w \in DOMAIN chains, NEW nothing, \A i \in DOMAIN nothing : nothing[i] = FALSE
  PROVE  Objects!Held(w, Objects!Released(w), nothing) = {}
  <1>1. PICK reg, c : reg = Objects!Released(w) /\ c = chains[w]
    OBVIOUS
  <1>2. w \in Windows
    BY DEF ObjectsInv
  <1>3. ASSUME NEW h \in DOMAIN reg, reg[h].kind = "resource", reg[h].res # Objects!NoRes, reg[h].res[1] = w
        PROVE  FALSE
    <2>1. CASE h \in Objects!HandlesOf(c)
      <3>1. PICK i \in DOMAIN c.handles : c.handles[i] = h /\ h # None
        BY <2>1 DEF Objects!HandlesOf
      <3>2. reg[h] = Emptied(w, i)
        BY <1>1, <3>1, ReleasedIs
      <3> QED
        BY <1>2, <1>3, <3>2, BackBufferIs
    <2>2. CASE h \notin Objects!HandlesOf(c)
      <3>1. h \in DOMAIN registry /\ reg[h] = registry[h]
        BY <1>1, <2>2, ReleasedIs
      <3>2. CASE h \in owned /\ Fit(registry[h])
        BY <1>2, <1>3, <3>1, <3>2, ResAre DEF Fit
      <3>3. CASE \E v \in DOMAIN chains : \E i \in DOMAIN chains[v].handles :
                   /\ h \in Objects!HandlesOf(chains[v]) /\ v \in Windows
                   /\ registry[h] \in {Objects!BackBuffer(v, i), Emptied(v, i)}
        <4>1. PICK v, i :
                /\ h \in Objects!HandlesOf(chains[v]) /\ v \in Windows
                /\ registry[h] \in {Objects!BackBuffer(v, i), Emptied(v, i)}
          BY <3>3
        <4>2. v # w
          BY <1>1, <2>2, <4>1
        <4> QED
          BY <1>3, <3>1, <4>1, <4>2, BackBufferIs, ResAre
      <3> QED
        BY <3>1, <3>2, <3>3, RegisteredIs
    <2> QED
      BY <2>1, <2>2
  <1> QED
    BY <1>1, <1>3 DEF Objects!Held

(* The first k handles.                                                    *)
LEMMA FirstIs ==
  ASSUME NEW S, NEW n \in Nat, NEW k \in 0 .. n, NEW kept, \A i \in 1 .. n : kept[i] \in S,
         NEW first, first = SubSeq(kept, 1, k)
  PROVE  DOMAIN first = 1 .. k /\ \A i \in 1 .. k : first[i] = kept[i]
  <1>1. \A i \in 1 .. k : kept[i] \in S
    OBVIOUS
  <1>2. /\ first \in Seq(S) /\ Len(first) = IF 1 <= k THEN k - 1 + 1 ELSE 0
        /\ \A i \in 1 .. k - 1 + 1 : first[i] = kept[1 + i - 1]
    BY <1>1, SubSeqProperties
  <1>3. Len(first) = k
    BY <1>2
  <1> QED
    BY <1>2, <1>3

Spliced(all, n, k, hs, kept) ==
  /\ DOMAIN all = 1 .. n
  /\ \A i \in 1 .. k : all[i] = hs[i]
  /\ \A i \in k + 1 .. n : all[i] = kept[i]

(* Those of the others after them.                                         *)
LEMMA SpliceIs ==
  ASSUME NEW S, NEW n \in Nat, NEW k \in 0 .. n, NEW kept, \A i \in 1 .. n : kept[i] \in S,
         NEW hs \in [1 .. k -> S], NEW all, all = hs \o SubSeq(kept, k + 1, n)
  PROVE  Spliced(all, n, k, hs, kept)
  <1>1. \A i \in k + 1 .. n : kept[i] \in S
    OBVIOUS
  <1>2. PICK rest : rest = SubSeq(kept, k + 1, n)
    OBVIOUS
  <1>3. /\ rest \in Seq(S) /\ Len(rest) = IF k + 1 <= n THEN n - (k + 1) + 1 ELSE 0
        /\ \A i \in 1 .. n - (k + 1) + 1 : rest[i] = kept[k + 1 + i - 1]
    BY <1>1, <1>2, SubSeqProperties
  <1>4. Len(rest) = n - k
    BY <1>3
  <1>5. hs \in Seq(S) /\ Len(hs) = k
    OBVIOUS
  <1>6. /\ all \in Seq(S) /\ Len(all) = n
        /\ \A i \in 1 .. n : all[i] = IF i <= k THEN hs[i] ELSE rest[i - k]
    <2>1. all = hs \o rest /\ rest \in Seq(S)
      BY <1>2, <1>3
    <2>2. PICK one, two : one = hs /\ two = rest /\ one \in Seq(S) /\ two \in Seq(S)
      BY <1>5, <2>1
    <2>4. /\ one \o two \in Seq(S) /\ Len(one \o two) = Len(one) + Len(two)
          /\ \A i \in 1 .. Len(one) + Len(two) : (one \o two)[i] = IF i <= Len(one) THEN one[i] ELSE two[i - Len(one)]
      BY <2>2, ConcatProperties
    <2>3. Len(hs) + Len(rest) = n
      BY <1>4, <1>5
    <2> QED
      BY <1>5, <2>1, <2>2, <2>3, <2>4
  <1>7. ASSUME NEW i \in k + 1 .. n PROVE all[i] = kept[i]
    <2>1. i \in 1 .. n /\ ~ (i <= k) /\ i - k \in 1 .. n - (k + 1) + 1 /\ k + 1 + (i - k) - 1 = i
      OBVIOUS
    <2> QED
      BY <1>3, <1>6, <2>1
  <1>8. \A i \in 1 .. k : i \in 1 .. n /\ i <= k
    OBVIOUS
  <1> QED
    BY <1>6, <1>7, <1>8 DEF Spliced

(* What a resize of w to n back buffers keeps of the chain c, and where.   *)
KeepsWell(w, c, n, kept, reg) ==
  /\ DOMAIN kept = 1 .. n /\ Apart(kept) /\ \A i \in 1 .. n : kept[i] \in Handles \cup {None}
  /\ \A i \in 1 .. n : kept[i] # None =>
       kept[i] \in DOMAIN reg \cap Objects!HandlesOf(c) /\ reg[kept[i]] = Emptied(w, i)
  /\ DOMAIN registry \ Objects!HandlesOf(c) \subseteq DOMAIN reg /\ DOMAIN reg \subseteq DOMAIN registry
  /\ \A g \in DOMAIN reg \cap Objects!HandlesOf(c) : \E i \in 1 .. n : kept[i] = g
  /\ \A g \in DOMAIN registry \ Objects!HandlesOf(c) : reg[g] = registry[g]

(* Handles that are kept are of emptied resources, the others are freed.   *)
LEMMA KeptIs ==
  ASSUME ObjectsInv, NEW w \in DOMAIN chains, NEW c, c = chains[w], NEW n \in Nat,
         NEW kept, kept = Objects!Kept(c, n),
         NEW reg, reg = Objects!Without(Objects!Released(w), Objects!Excess(c, n))
  PROVE  KeepsWell(w, c, n, kept, reg)
  <1>1. PICK rel : rel = Objects!Released(w)
    OBVIOUS
  <1>2. /\ DOMAIN rel = DOMAIN registry
        /\ \A i \in DOMAIN c.handles : c.handles[i] # None => rel[c.handles[i]] = Emptied(w, i)
        /\ \A g \in DOMAIN registry \ Objects!HandlesOf(c) : rel[g] = registry[g]
    BY <1>1, ReleasedIs
  <1>3. PICK excess : excess = Objects!Excess(c, n)
    OBVIOUS
  <1>4. /\ excess \subseteq Objects!HandlesOf(c)
        /\ DOMAIN reg = DOMAIN rel \ excess /\ \A g \in DOMAIN reg : reg[g] = rel[g]
    BY <1>1, <1>3 DEF Objects!Without, Objects!Excess, Objects!HandlesOf
  <1>5. PICK m \in Nat : DOMAIN c.handles = 1 .. m
    BY DEF ObjectsInv, InPlace
  <1>6. /\ \A i \in DOMAIN c.handles : c.handles[i] # None => c.handles[i] \in DOMAIN registry
        /\ Apart(c.handles)
    BY DEF ObjectsInv, InPlace, Apart
  <1>7. DOMAIN kept = 1 .. n /\ \A i \in 1 .. n : kept[i] = IF i \in DOMAIN c.handles THEN c.handles[i] ELSE None
    BY DEF Objects!Kept
  <1>8. ASSUME NEW i \in 1 .. n, kept[i] # None
        PROVE  /\ i \in DOMAIN c.handles /\ kept[i] = c.handles[i]
               /\ kept[i] \in DOMAIN reg \cap Objects!HandlesOf(c) /\ reg[kept[i]] = Emptied(w, i)
    <2>1. i \in DOMAIN c.handles /\ kept[i] = c.handles[i]
      BY <1>7, <1>8
    <2>2. kept[i] \in DOMAIN registry /\ kept[i] \in Objects!HandlesOf(c)
      BY <1>6, <1>8, <2>1 DEF Objects!HandlesOf
    <2>3. kept[i] \notin excess
      <3>1. ASSUME NEW j \in DOMAIN c.handles, j > n, c.handles[j] = kept[i] PROVE FALSE
        <4>1. i = j
          BY <1>6, <1>8, <2>1, <3>1 DEF Apart
        <4> QED
          BY <1>5, <3>1, <4>1
      <3> QED
        BY <1>3, <3>1 DEF Objects!Excess
    <2> QED
      BY <1>2, <1>4, <1>8, <2>1, <2>2, <2>3
  <1>9. Apart(kept)
    BY <1>6, <1>7, <1>8 DEF Apart
  <1>10. ASSUME NEW g \in DOMAIN reg \cap Objects!HandlesOf(c) PROVE \E i \in 1 .. n : kept[i] = g
    <2>1. PICK i \in DOMAIN c.handles : c.handles[i] = g /\ g # None
      BY DEF Objects!HandlesOf
    <2>2. ~ (i > n)
      BY <1>3, <1>4, <2>1 DEF Objects!Excess
    <2>3. i \in 1 .. n
      BY <1>5, <2>2
    <2> QED
      BY <1>7, <2>1, <2>3
  <1>11. \A i \in 1 .. n : kept[i] \in Handles \cup {None}
    BY <1>2, <1>4, <1>8 DEF ObjectsInv
  <1> QED
    BY <1>2, <1>4, <1>7, <1>8, <1>9, <1>10, <1>11 DEF KeepsWell

(* The resize that goes on as far as back buffers can be had.              *)
LEMMA ResizedObj ==
  ASSUME ObjectsInv, phase = "up", UNCHANGED <<phase, primary, owned, misuse>>, NEW w \in DOMAIN chains,
         NEW n \in Nat, NEW k \in 0 .. n, NEW c, c = chains[w],
         NEW kept, NEW reg, KeepsWell(w, c, n, kept, reg),
         Cardinality(Missing(kept, k)) <= Cardinality(Objects!Free(DOMAIN reg)),
         NEW hs, hs = Objects!Filled(SubSeq(kept, 1, k), reg),
         registry' = Objects!Registered(w, reg, hs),
         chains' = [chains EXCEPT ![w] = [handles |-> hs \o SubSeq(kept, k + 1, n),
                                          images |-> [i \in 1 .. n |-> i <= k]]]
  PROVE  ObjectsInv'
  <1>1. w \in Windows /\ InPlace(w, c, registry) /\ DOMAIN registry \subseteq Handles
    BY DEF ObjectsInv
  <1>2. DOMAIN reg \subseteq Handles
    BY <1>1 DEF KeepsWell
  <1>3. PICK first : first = SubSeq(kept, 1, k)
    OBVIOUS
  <1>4. DOMAIN first = 1 .. k /\ \A i \in 1 .. k : first[i] = kept[i]
    <2>1. \A i \in 1 .. n : kept[i] \in Handles \cup {None}
      BY DEF KeepsWell
    <2> QED
      BY <1>3, <2>1, FirstIs
  <1>5. \A i \in 1 .. k : i \in 1 .. n
    OBVIOUS
  <1>6. /\ hs \in [1 .. k -> Handles] /\ Apart(hs)
        /\ \A i \in 1 .. k : first[i] # None => hs[i] = first[i]
        /\ \A i \in 1 .. k : first[i] = None => hs[i] \in Handles \ (DOMAIN reg \cup owned)
        /\ \A i \in 1 .. k : hs[i] # None
    <2>1. Apart(first) /\ \A i \in 1 .. k : first[i] # None => first[i] \in DOMAIN reg
      BY <1>4, <1>5 DEF KeepsWell, Apart
    <2>2. Missing(first, k) = Missing(kept, k)
      BY <1>4 DEF Missing
    <2>3. Cardinality(Missing(first, k)) <= Cardinality(Objects!Free(DOMAIN reg))
      BY <2>2
    <2>4. hs = Objects!Filled(first, reg)
      BY <1>3
    <2>5. Fillable(first, k, reg)
      BY <1>2, <1>4, <2>1, <2>3 DEF Fillable
    <2>6. FilledWell(first, k, reg, hs)
      BY <2>4, <2>5, FilledIs
    <2> QED
      BY <2>6 DEF FilledWell
  <1>7. PICK all : all = hs \o SubSeq(kept, k + 1, n)
    OBVIOUS
  <1>8. /\ DOMAIN all = 1 .. n
        /\ \A i \in 1 .. k : all[i] = hs[i]
        /\ \A i \in k + 1 .. n : all[i] = kept[i]
    <2>1. \A i \in 1 .. n : kept[i] \in Handles \cup {None}
      BY DEF KeepsWell
    <2>2. hs \in [1 .. k -> Handles \cup {None}]
      BY <1>6
    <2>3. Spliced(all, n, k, hs, kept)
      BY <1>7, <2>1, <2>2, SpliceIs
    <2> QED
      BY <2>3 DEF Spliced
  <1>9. PICK d : d = [handles |-> all, images |-> [i \in 1 .. n |-> i <= k]]
    OBVIOUS
  <1>10. ASSUME NEW i \in 1 .. n
         PROVE  /\ all[i] # None =>
                     \/ all[i] \in Handles \ (DOMAIN reg \cup owned) /\ i <= k
                     \/ all[i] = kept[i]
                /\ kept[i] # None => all[i] = kept[i]
    <2>1. CASE i <= k
      <3>1. i \in 1 .. k
        BY <2>1
      <3> QED
        BY <1>4, <1>6, <1>8, <2>1, <3>1
    <2>2. CASE i > k
      <3>1. i \in k + 1 .. n
        BY <2>2
      <3> QED
        BY <1>8, <3>1
    <2> QED
      BY <2>1, <2>2
  <1>11. Apart(all)
    <2>1. ASSUME NEW i \in 1 .. n, NEW j \in 1 .. n, i < j, all[i] # None, all[i] = all[j] PROVE FALSE
      <3>1. CASE j <= k
        <4>1. i \in 1 .. k /\ j \in 1 .. k
          BY <2>1, <3>1
        <4>2. hs[i] = hs[j] /\ hs[i] # None /\ i # j /\ DOMAIN hs = 1 .. k
          BY <1>6, <1>8, <2>1, <4>1
        <4>3. Apart(hs)
          BY <1>6
        <4> QED
          BY <4>1, <4>2, <4>3 DEF Apart
      <3>2. CASE j > k
        <4>1. j \in k + 1 .. n
          BY <3>2
        <4>2. all[j] = kept[j] /\ kept[j] # None
          BY <1>8, <2>1, <4>1
        <4>3. kept[j] \in DOMAIN reg
          BY <4>2 DEF KeepsWell
        <4>4. all[i] = kept[i]
          BY <1>10, <2>1, <4>2, <4>3
        <4> QED
          BY <2>1, <4>2, <4>4 DEF KeepsWell, Apart
      <3> QED
        BY <3>1, <3>2
    <2>2. ASSUME NEW i \in 1 .. n, NEW j \in 1 .. n, all[i] # None, all[i] = all[j] PROVE i = j
      <3>1. i < j \/ j < i \/ i = j
        OBVIOUS
      <3> QED
        BY <2>1, <2>2, <3>1
    <2> QED
      BY <1>8, <2>2 DEF Apart
  <1>12. Placing(w, reg, n, k, d, hs)
    <2>1. /\ DOMAIN d = {"handles", "images"} /\ d.handles = all /\ DOMAIN d.images = 1 .. n
          /\ \A i \in 1 .. n : d.images[i] = (i <= k)
      BY <1>9
    <2>2. ASSUME NEW i \in 1 .. n
          PROVE  (i <= k => d.images[i] = TRUE) /\ (i > k => d.images[i] = FALSE)
      <3>1. d.images[i] = (i <= k)
        BY <2>1
      <3>2. i > k => ~ (i <= k)
        OBVIOUS
      <3>3. (i <= k) \in BOOLEAN
        OBVIOUS
      <3> QED
        BY ONLY <3>1, <3>2, <3>3, Zenon
    <2>3. DOMAIN hs = 1 .. k
      BY <1>6
    <2>4. ASSUME NEW i \in k + 1 .. n, all[i] # None
          PROVE  all[i] \in DOMAIN reg /\ reg[all[i]] = Emptied(w, i)
      <3>1. i \in 1 .. n
        OBVIOUS
      <3> QED
        BY <1>8, <2>4, <3>1 DEF KeepsWell
    <2> QED
      BY <1>6, <1>8, <1>11, <2>1, <2>2, <2>3, <2>4 DEF Placing
  <1>13. PICK new : new = registry'
    OBVIOUS
  <1>14. Placed(w, reg, d, new)
    BY <1>12, <1>13, RegisteredInPlace
  <1>15. ASSUME NEW g \in Objects!HandlesOf(d)
         PROVE  g \in Handles /\ g \notin owned /\ g \notin DOMAIN registry \ Objects!HandlesOf(c)
    <2>1. PICK i \in 1 .. n : all[i] = g /\ g # None
      BY <1>8, <1>9 DEF Objects!HandlesOf
    <2>2. CASE g \in Handles \ (DOMAIN reg \cup owned)
      BY <2>2 DEF KeepsWell
    <2>3. CASE g = kept[i]
      <3>1. g \in DOMAIN reg /\ g \in Objects!HandlesOf(c)
        BY <2>1, <2>3 DEF KeepsWell
      <3>2. Objects!HandlesOf(c) \cap owned = {}
        BY DEF ObjectsInv, OwnersInv
      <3> QED
        BY <1>2, <3>1, <3>2
    <2> QED
      BY <1>10, <2>1, <2>2, <2>3
  <1>16. DOMAIN reg \cup Objects!HandlesOf(d) = (DOMAIN registry \ Objects!HandlesOf(c)) \cup Objects!HandlesOf(d)
    <2>1. ASSUME NEW g \in DOMAIN reg, g \in Objects!HandlesOf(c) PROVE g \in Objects!HandlesOf(d)
      <3>1. PICK i \in 1 .. n : kept[i] = g
        BY <2>1 DEF KeepsWell
      <3>2. g # None
        BY <1>2, Dx12ObjectsAssumption
      <3>3. all[i] = g
        BY <1>10, <3>1, <3>2
      <3> QED
        BY <1>8, <1>9, <3>2, <3>3 DEF Objects!HandlesOf
    <2>2. DOMAIN registry \ Objects!HandlesOf(c) \subseteq DOMAIN reg /\ DOMAIN reg \subseteq DOMAIN registry
      BY DEF KeepsWell
    <2> QED
      BY <2>1, <2>2
  <1>17. ASSUME NEW g \in DOMAIN registry \ Objects!HandlesOf(c) PROVE new[g] = registry[g]
    <2>1. g \notin Objects!HandlesOf(d)
      BY <1>15
    <2>2. g \in DOMAIN reg /\ reg[g] = registry[g]
      BY DEF KeepsWell
    <2> QED
      BY <1>14, <2>1, <2>2 DEF Placed
  <1>18. Old(w) = Objects!HandlesOf(c)
    BY DEF Old
  <1>19. /\ DOMAIN chains' = DOMAIN chains \cup {w} /\ chains'[w] = d
         /\ \A v \in DOMAIN chains \ {w} : chains'[v] = chains[v]
    BY <1>7, <1>9
  <1>20. InPlace(w, d, new) /\ DOMAIN new = DOMAIN reg \cup Objects!HandlesOf(d)
    BY <1>14 DEF Placed
  <1> QED
    BY <1>1, <1>13, <1>15, <1>16, <1>17, <1>18, <1>19, <1>20, ReplaceObj

(* sc_resizeBuffers, whichever step fails.                                 *)
LEMMA ResizeObj ==
  ASSUME ObjectsInv, Objects!ResizeBuffers
  PROVE  ObjectsInv'
  <1> DEFINE Nothing(c) == [i \in DOMAIN c.images |-> FALSE]
             Reg(w, n) == Objects!Without(Objects!Released(w), Objects!Excess(chains[w], n))
  <1>1. phase = "up" /\ UNCHANGED <<phase, primary, owned>>
    BY DEF Objects!ResizeBuffers
  <1>2. PICK w \in DOMAIN chains, n \in Counts :
          /\ misuse' = IF Objects!Held(w, Objects!Released(w), Nothing(chains[w])) = {} THEN misuse
                       ELSE misuse \cup {"resize"}
          /\ \/ /\ registry' = Objects!Released(w)
                /\ chains' = [chains EXCEPT ![w].images = Nothing(chains[w])]
             \/ \E k \in 0 .. n :
                  /\ Objects!Cardinality({i \in 1 .. k : Objects!Kept(chains[w], n)[i] = None})
                       <= Objects!Cardinality(Objects!Free(DOMAIN Reg(w, n)))
                  /\ registry' = Objects!Registered(w, Reg(w, n),
                                   Objects!Filled(SubSeq(Objects!Kept(chains[w], n), 1, k), Reg(w, n)))
                  /\ chains' = [chains EXCEPT ![w] =
                       [handles |-> Objects!Filled(SubSeq(Objects!Kept(chains[w], n), 1, k), Reg(w, n))
                                      \o SubSeq(Objects!Kept(chains[w], n), k + 1, n),
                        images |-> [i \in 1 .. n |-> i <= k]]]
    BY DEF Objects!ResizeBuffers
  <1>3. PICK c, reg, kept, nothing :
          c = chains[w] /\ reg = Reg(w, n) /\ kept = Objects!Kept(c, n) /\ nothing = Nothing(c)
    OBVIOUS
  <1>4. w \in Windows /\ InPlace(w, c, registry) /\ n \in Nat
    BY <1>3, Dx12ObjectsAssumption DEF ObjectsInv
  <1>5. misuse' = misuse
    <2>1. \A i \in DOMAIN nothing : nothing[i] = FALSE
      BY <1>3
    <2>2. Objects!Held(w, Objects!Released(w), nothing) = {}
      BY <2>1, NoneHeld
    <2> QED
      BY <1>2, <1>3, <2>2
  <1> HIDE DEF Nothing, Reg
  <1>6. CASE registry' = Objects!Released(w) /\ chains' = [chains EXCEPT ![w].images = nothing]
    <2>1. PICK d, new : d = [c EXCEPT !.images = nothing] /\ new = registry'
      OBVIOUS
    <2>2. /\ DOMAIN d = {"handles", "images"} /\ d.handles = c.handles /\ d.images = nothing
          /\ DOMAIN nothing = DOMAIN c.handles /\ \A i \in DOMAIN c.handles : nothing[i] = FALSE
      BY <1>3, <1>4, <2>1 DEF InPlace, Nothing
    <2>3. /\ DOMAIN new = DOMAIN registry
          /\ \A i \in DOMAIN c.handles : c.handles[i] # None => new[c.handles[i]] = Emptied(w, i)
          /\ \A g \in DOMAIN registry \ Objects!HandlesOf(c) : new[g] = registry[g]
      BY <1>3, <1>6, <2>1, ReleasedIs
    <2>4. InPlace(w, d, new)
      BY <1>4, <2>2, <2>3 DEF InPlace
    <2>5. Objects!HandlesOf(d) = Objects!HandlesOf(c) /\ Old(w) = Objects!HandlesOf(c)
      BY <1>3, <2>2 DEF Objects!HandlesOf, Old
    <2>6. Objects!HandlesOf(c) \subseteq DOMAIN registry
      BY <1>4 DEF InPlace, Objects!HandlesOf
    <2>7. Objects!HandlesOf(c) \cap owned = {} /\ DOMAIN registry \subseteq Handles
      BY <1>3 DEF ObjectsInv, OwnersInv
    <2>8. /\ DOMAIN chains' = DOMAIN chains \cup {w} /\ chains'[w] = d
          /\ \A v \in DOMAIN chains \ {w} : chains'[v] = chains[v]
      BY <1>3, <1>6, <2>1
    <2>9. /\ DOMAIN new = (DOMAIN registry \ Old(w)) \cup Objects!HandlesOf(d)
          /\ Objects!HandlesOf(d) \subseteq Handles
          /\ Objects!HandlesOf(d) \cap (owned \cup (DOMAIN registry \ Old(w))) = {}
          /\ \A g \in DOMAIN registry \ Old(w) : new[g] = registry[g]
      BY <2>3, <2>5, <2>6, <2>7
    <2> QED
      BY <1>1, <1>4, <1>5, <2>1, <2>4, <2>8, <2>9, ReplaceObj
  <1>7. ASSUME NEW k \in 0 .. n,
               Objects!Cardinality({i \in 1 .. k : kept[i] = None}) <= Objects!Cardinality(Objects!Free(DOMAIN reg)),
               registry' = Objects!Registered(w, reg, Objects!Filled(SubSeq(kept, 1, k), reg)),
               chains' = [chains EXCEPT ![w] =
                 [handles |-> Objects!Filled(SubSeq(kept, 1, k), reg) \o SubSeq(kept, k + 1, n),
                  images |-> [i \in 1 .. n |-> i <= k]]]
        PROVE  ObjectsInv'
    <2>1. PICK hs : hs = Objects!Filled(SubSeq(kept, 1, k), reg)
      OBVIOUS
    <2>2. KeepsWell(w, c, n, kept, reg)
      BY <1>3, <1>4, KeptIs DEF Reg
    <2>3. Cardinality(Missing(kept, k)) <= Cardinality(Objects!Free(DOMAIN reg))
      BY <1>7, SameCardinality DEF Missing
    <2> QED
      BY <1>1, <1>3, <1>4, <1>5, <1>7, <2>1, <2>2, <2>3, ResizedObj
  <1> QED
    BY <1>2, <1>3, <1>6, <1>7

(* What is created fits.                                                   *)
LEMMA ResourceFits ==
  ASSUME NEW buffer, NEW size, NEW uav, NEW heap
  PROVE  Fit(Objects!Resource(buffer, size, uav, heap))
  BY DEF Fit, Objects!Resource

(* What is neither a resource nor a pipeline fits.                         *)
LEMMA OtherFits ==
  ASSUME NEW object, object.kind \notin {"resource", "pipeline"}
  PROVE  Fit(object)
  BY DEF Fit

(* Resources.                                                              *)
LEMMA ResourceObj ==
  ASSUME ObjectsInv,
         \/ Objects!CreateCommittedBuffer \/ Objects!CreateCommittedTexture
         \/ Objects!CreatePlacedBuffer \/ Objects!CreatePlacedTexture \/ Objects!ImportResource
  PROVE  ObjectsInv'
  <1>1. CASE \/ Objects!CreateCommittedBuffer \/ Objects!CreateCommittedTexture
             \/ Objects!CreatePlacedTexture \/ Objects!ImportResource
    <2>1. PICK object : Fit(object) /\ Objects!Creates(object)
      BY <1>1, ResourceFits DEF Objects!CreateCommittedBuffer, Objects!CreateCommittedTexture,
         Objects!CreatePlacedTexture, Objects!ImportResource
    <2> QED
      BY <2>1, CreatesObj
  <1>2. CASE Objects!CreatePlacedBuffer
    <2>1. PICK g, size, res :
            /\ res \in {Objects!Own} \cup (IF "placed buffer" \in Unhandled THEN {Objects!NoRes} ELSE {})
            /\ Objects!Creates([Objects!Resource(TRUE, size, FALSE, g) EXCEPT !.res = res])
      BY <1>2 DEF Objects!CreatePlacedBuffer
    <2>2. res = Objects!Own
      BY <2>1 DEF ObjectsInv
    <2>3. PICK object : object = [Objects!Resource(TRUE, size, FALSE, g) EXCEPT !.res = res]
      OBVIOUS
    <2>4. Fit(object)
      BY <2>2, <2>3 DEF Fit, Objects!Resource
    <2> QED
      BY <2>1, <2>3, <2>4, CreatesObj
  <1> QED
    BY <1>1, <1>2

(* Heaps, timelines, query pools, layouts and so on.                       *)
LEMMA PlainObj ==
  ASSUME ObjectsInv,
         \/ Objects!CreateHeap \/ Objects!CreateTimeline \/ Objects!CreateQueryPool
         \/ Objects!CreateDescriptorHeap \/ Objects!CreatePipelineLayout
         \/ Objects!CreateAccelerationStructure \/ Objects!CreateWorkGraph
  PROVE  ObjectsInv'
  <1>1. PICK object : object.kind \notin {"resource", "pipeline"} /\ Objects!Creates(object)
    <2>1. CASE Objects!CreateHeap
      BY <2>1 DEF Objects!CreateHeap
    <2>2. CASE Objects!CreateTimeline
      BY <2>2 DEF Objects!CreateTimeline
    <2>3. CASE Objects!CreateQueryPool
      BY <2>3 DEF Objects!CreateQueryPool
    <2>4. CASE Objects!CreateDescriptorHeap
      BY <2>4 DEF Objects!CreateDescriptorHeap
    <2>5. CASE Objects!CreatePipelineLayout
      BY <2>5 DEF Objects!CreatePipelineLayout
    <2>6. CASE Objects!CreateAccelerationStructure
      BY <2>6 DEF Objects!CreateAccelerationStructure
    <2>7. CASE Objects!CreateWorkGraph
      BY <2>7 DEF Objects!CreateWorkGraph
    <2> QED
      BY <2>1, <2>2, <2>3, <2>4, <2>5, <2>6, <2>7
  <1> QED
    BY <1>1, OtherFits, CreatesObj

(* d_createPipelineFromStream.                                             *)
LEMMA PipelineObj ==
  ASSUME ObjectsInv, Objects!CreatePipelineFromStream
  PROVE  ObjectsInv'
  <1>1. PICK compute : Objects!Creates([Objects!Pipeline EXCEPT !.compute = compute])
    BY DEF Objects!CreatePipelineFromStream
  <1>2. PICK object : object = [Objects!Pipeline EXCEPT !.compute = compute]
    OBVIOUS
  <1>3. Fit(object)
    BY <1>2 DEF Fit, Objects!Pipeline
  <1> QED
    BY <1>1, <1>2, <1>3, CreatesObj

(* A ray tracing pipeline has an export for every group.                   *)
LEMMA RayTracingObj ==
  ASSUME ObjectsInv, Objects!CreateRayTracingPipeline
  PROVE  ObjectsInv'
  <1>1. PICK d \in RayTracingDescs :
          /\ Objects!RayTracingValid(d)
          /\ Objects!Creates([Objects!Pipeline EXCEPT !.rayTracing = TRUE, !.library = d.library,
                                !.exports = [i \in DOMAIN d.groups |-> Objects!Export(d.groups[i])]])
    BY DEF Objects!CreateRayTracingPipeline
  <1>2. PICK object, exports :
          /\ exports = [i \in DOMAIN d.groups |-> Objects!Export(d.groups[i])]
          /\ object = [Objects!Pipeline EXCEPT !.rayTracing = TRUE, !.library = d.library, !.exports = exports]
    OBVIOUS
  <1>3. PICK n \in Nat : DOMAIN exports = 1 .. n
    BY <1>2, Dx12ObjectsAssumption
  <1>4. DOMAIN exports = 1 .. Len(exports) /\ Len(exports) \in Nat
    <2>1. PICK S : S = {exports[i] : i \in 1 .. n}
      OBVIOUS
    <2>2. exports \in [1 .. n -> S]
      BY <1>2, <1>3, <2>1
    <2>3. exports \in Seq(S)
      BY <2>2
    <2> QED
      BY <2>3
  <1>5. \A i \in DOMAIN exports : exports[i] # None
    BY <1>1, <1>2 DEF Objects!RayTracingValid
  <1>6. Fit(object)
    <2>1. object.kind = "pipeline" /\ object.exports = exports
      BY <1>2 DEF Objects!Pipeline
    <2> QED
      BY <1>4, <1>5, <2>1 DEF Fit
  <1> QED
    BY <1>1, <1>2, <1>6, CreatesObj

(* Build inputs that are filled have a buffer, and instances on top.       *)
LEMMA PrebuildObj ==
  ASSUME ObjectsInv, Objects!PrebuildInfo
  PROVE  ObjectsInv'
  <1>1. PICK s, h :
          /\ s \in Geometries /\ Objects!BuildInputsFilled(s, h)
          /\ Objects!Gives("prebuild", Objects!Live(h, "resource") /\ (s.top => s.geometries[1].type = "instances"))
    BY DEF Objects!PrebuildInfo
  <1>2. /\ s.geometries # <<>>
        /\ \A i \in DOMAIN s.geometries :
             /\ s.geometries[i].type \in (IF s.top THEN {"instances"} ELSE {"triangles", "aabbs"})
             /\ Objects!BufferAddress(h)
    BY <1>1 DEF Objects!BuildInputsFilled
  <1>3. 1 \in DOMAIN s.geometries
    <2>1. PICK T, g : g = s.geometries /\ g \in Seq(T)
      BY <1>1, Dx12ObjectsAssumption
    <2>2. g # <<>> => 1 \in DOMAIN g
      BY <2>1
    <2> QED
      BY <1>2, <2>1, <2>2
  <1>4. Objects!Live(h, "resource") /\ (s.top => s.geometries[1].type = "instances")
    BY <1>2, <1>3 DEF Objects!BufferAddress
  <1> QED
    BY <1>1, <1>4, GivesObj

(* The names that handles are asked for are known.                         *)
LEMMA GroupHandlesObj ==
  ASSUME ObjectsInv, Objects!GroupHandles
  PROVE  ObjectsInv'
  <1>1. PICK h \in DOMAIN registry, first \in 0 .. 2, count \in 0 .. 2 :
          /\ registry[h].kind = "pipeline" /\ registry[h].rayTracing
          /\ ~ (first > Len(registry[h].exports) \/ count > Len(registry[h].exports) - first)
          /\ Objects!Gives("group handles", \A i \in first + 1 .. first + count : registry[h].exports[i] # None)
    BY DEF Objects!GroupHandles
  <1>2. Fit(registry[h])
    <2>1. \A w \in Windows : \A i : registry[h] \notin {Objects!BackBuffer(w, i), Emptied(w, i)}
      BY <1>1, BackBufferIs
    <2> QED
      BY <2>1, RegisteredIs
  <1>3. PICK exports : exports = registry[h].exports
    OBVIOUS
  <1>4. /\ DOMAIN exports = 1 .. Len(exports) /\ Len(exports) \in Nat
        /\ \A i \in DOMAIN exports : exports[i] # None
        /\ ~ (first > Len(exports) \/ count > Len(exports) - first)
    BY <1>1, <1>2, <1>3 DEF Fit
  <1>5. \A i \in first + 1 .. first + count : i \in DOMAIN exports
    BY <1>4
  <1>6. \A i \in first + 1 .. first + count : registry[h].exports[i] # None
    BY <1>3, <1>4, <1>5
  <1> QED
    BY <1>1, <1>6, GivesObj

(* Views of resources that are there.                                      *)
LEMMA ViewObj ==
  ASSUME ObjectsInv,
         \/ Objects!ShaderResourceView \/ Objects!UnorderedAccessView \/ Objects!ConstantBufferView
         \/ Objects!RenderTargetView \/ Objects!DepthStencilView
  PROVE  ObjectsInv'
  <1>1. PICK name, legal : legal /\ Objects!Gives(name, legal)
    <2>1. CASE Objects!ShaderResourceView
      BY <2>1 DEF Objects!ShaderResourceView, Objects!Located, Objects!BufferAddress
    <2>2. CASE Objects!UnorderedAccessView
      BY <2>2 DEF Objects!UnorderedAccessView
    <2>3. CASE Objects!ConstantBufferView
      <3>1. PICK h \in Handles :
              Objects!Live(h, "resource") /\ registry[h].buffer /\ Objects!Gives("cbv", Objects!HasResource(h))
        BY <2>3 DEF Objects!ConstantBufferView
      <3>2. h \in DOMAIN registry /\ registry[h].kind = "resource"
        BY <3>1 DEF Objects!Live
      <3>3. \A w \in Windows : \A i : registry[h] \notin {Objects!BackBuffer(w, i), Emptied(w, i)}
        BY <3>1 DEF Emptied, Objects!BackBuffer, Objects!Resource
      <3>4. Fit(registry[h])
        BY <3>2, <3>3, RegisteredIs
      <3>5. registry[h].res # Objects!NoRes
        <4>1. Objects!Own # Objects!NoRes
          BY DEF Objects!Own, Objects!NoRes
        <4> QED
          BY <3>2, <3>4, <4>1 DEF Fit
      <3>6. Objects!HasResource(h)
        BY <3>1, <3>5 DEF Objects!HasResource
      <3> QED
        BY <3>1, <3>6
    <2>4. CASE Objects!RenderTargetView
      BY <2>4 DEF Objects!RenderTargetView, Objects!HasResource
    <2>5. CASE Objects!DepthStencilView
      BY <2>5 DEF Objects!DepthStencilView
    <2> QED
      BY <2>1, <2>2, <2>3, <2>4, <2>5
  <1> QED
    BY <1>1, GivesObj

(* Anisotropy is clamped to what D3D12 takes.                              *)
LEMMA SamplerObj ==
  ASSUME ObjectsInv, Objects!CreateSampler
  PROVE  ObjectsInv'
  <1>1. PICK n \in 0 .. 17 : Objects!Gives("sampler", Objects!Anisotropy(n) \in 1 .. 16)
    BY DEF Objects!CreateSampler
  <1>2. Objects!Anisotropy(n) \in 1 .. 16
    <2>1. CASE n > 1
      <3>1. Objects!Min({n, 16}) = Min({n, 16})
        BY DEF Objects!Min, Min
      <3>2. PICK S : S = {n, 16}
        OBVIOUS
      <3>3. S \in SUBSET Nat /\ S # {}
        BY <3>2
      <3>4. Min(S) \in S /\ \A x \in S : Min(S) <= x
        BY <3>3, MinIn
      <3>5. Min({n, 16}) \in {n, 16} /\ Min({n, 16}) <= 16
        BY <3>2, <3>4
      <3> QED
        BY <2>1, <3>1, <3>5 DEF Objects!Anisotropy
    <2>2. CASE ~ (n > 1)
      BY <2>2 DEF Objects!Anisotropy
    <2> QED
      BY <2>1, <2>2
  <1> QED
    BY <1>1, <1>2, GivesObj

(* Every step of the device.                                               *)
LEMMA ObjectStep == ObjectsInv /\ [DeviceNext]_deviceVars => ObjectsInv'
  <1> SUFFICES ASSUME ObjectsInv, [DeviceNext]_deviceVars PROVE ObjectsInv'
    OBVIOUS
  <1>1. CASE UNCHANGED objectVars
    BY <1>1 DEF objectVars, ObjectsInv, OwnersInv
  <1>2. CASE Objects!Next
    BY <1>2, CreateDeviceObj, ShutdownObj, DestroyObj, ResourceObj, PlainObj, PipelineObj, RayTracingObj,
       PrebuildObj, GroupHandlesObj, ViewObj, SamplerObj, CreateSwapchainObj, DestroySwapchainObj, ResizeObj
       DEF Objects!Next
  <1> QED
    BY <1>1, <1>2 DEF DeviceNext, deviceVars

(* Every object has one owner, every image of a swapchain its back buffer, *)
(* and D3D12 and DXGI are called as they allow (Dx12Device's registries and*)
(* Dx12Swapchain of rhi_dx12.cpp), for any handles, windows and counts of  *)
(* back buffers, when none of the unhandled failures happens.              *)
THEOREM ObjectsAlwaysExact == Unhandled = {} /\ DeviceSpec => []ObjectsExact
  <1>1. Unhandled = {} /\ DeviceInit => ObjectsInv
    BY DEF DeviceInit, Objects!Init, ObjectsInv, OwnersInv
  <1>2. ObjectsInv => ObjectsExact
    BY ExactOf DEF ObjectsExact
  <1> QED
    BY <1>1, <1>2, ObjectStep, PTL DEF DeviceSpec
=============================================================================

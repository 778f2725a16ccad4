-------------------------------- MODULE Dx12 --------------------------------
(***************************************************************************)
(* Queues, timelines and waits of the D3D12 backend (rhi_dx12.cpp, release *)
(* build): submission, HostWait, WaitIdle, DestroyQueue and the            *)
(* CompletionWait, against the GPU, a Notify from any thread and the       *)
(* removal of the device, which sets every fence to UINT64_MAX (here       *)
(* Removed).                                                               *)
(*                                                                         *)
(* What the callers keep to: a timeline is signalled with rising values    *)
(* that it also reaches in that order, from whatever queues (Follows),     *)
(* the GPU waits only for values already submitted, one thread at a time   *)
(* waits for idle or destroys a queue (++q.value is not synchronised), no  *)
(* queue is created or submitted to meanwhile that is being destroyed, and *)
(* timelines outlive the CompletionWait.                                   *)
(*                                                                         *)
(* An event that a fence has been told to set counts as set as soon as the *)
(* fence gets there; that the runtime sets it a little later only delays a *)
(* wake, or causes one too many, which Wait allows.                        *)
(***************************************************************************)
EXTENDS Integers, Sequences, FiniteSets, SequencesExt

CONSTANTS
  Threads, Waiter,     \* Waiter: the one thread that waits on the CompletionWait
  Timelines,
  Queues, Primary,     \* Primary: the queues made with the device
  Events,              \* handles CreateEvent may return: numbers
  None,
  MaxTimelines,        \* registrations (63)
  MaxPoints,           \* timelines one Wait names, at most
  MaxValue,            \* bounds the values of a timeline
  MaxCalls             \* bounds the calls made

ASSUME Dx12Assumption ==
  /\ Waiter \in Threads /\ Primary \subseteq Queues
  /\ None \notin Timelines \cup Queues \cup Events /\ Timelines \cap Queues = {}
  /\ {MaxTimelines, MaxPoints, MaxValue, MaxCalls} \subseteq Nat
  /\ Events \subseteq Nat /\ IsFiniteSet(Events) /\ Cardinality(Events) > MaxTimelines
  /\ MaxPoints <= MaxTimelines

VARIABLES
  queue,      \* [live queue -> [value, work not executed yet]]
  completed,  \* [fence -> GetCompletedValue]; a queue's own fence is named by the queue
  submitted,  \* [timeline -> highest value a queue has been told to signal]
  call,       \* [thread -> what it is doing, see Idle]
  calls,      \* calls made so far
  wait        \* the CompletionWait, see NewWait

vars == <<queue, completed, submitted, call, calls, wait>>

Removed == MaxValue + MaxCalls + 1   \* UINT64_MAX
DeviceRemoved == \E f \in DOMAIN completed : completed[f] = Removed

Idle == [step |-> "idle"]
At(t, step) == call[t].step = step
Begins(t) == At(t, "idle") /\ calls < MaxCalls /\ calls' = calls + 1
Goes(t, step) == call' = [call EXCEPT ![t].step = step]
Returns(t) == call' = [call EXCEPT ![t] = Idle]

NewQueue == [value |-> 0, work |-> <<>>]
NoRegistration == [fence |-> None, event |-> None, value |-> 0]

(* m_registrations, m_version, whether m_control is set, and what the      *)
(* runtime has been told: <<event, fence, value>>.                         *)
NewWait ==
  [registration |-> [i \in 1 .. MaxTimelines |-> NoRegistration],
   version |-> 0, control |-> FALSE, armed |-> {}]

Init ==
  /\ queue = [q \in Primary |-> NewQueue]
  /\ completed = [f \in Timelines \cup Queues |-> 0]
  /\ submitted = [f \in Timelines |-> 0]
  /\ call = [t \in Threads |-> Idle]
  /\ calls = 0
  /\ wait = NewWait
-----------------------------------------------------------------------------
(* Submission.  A fence is signalled and waited for in the queue's order.  *)
WaitStep(f, v) == [op |-> "wait", fence |-> f, value |-> v]
SignalStep(f, v) == [op |-> "signal", fence |-> f, value |-> v]
Run == [op |-> "run"]

Put(q, work) == queue' = [queue EXCEPT ![q].work = @ \o work]

Draining(q) == \E t \in Threads : At(t, "draining") /\ call[t].destroys = q

WaitFor(ws) == [i \in DOMAIN ws |-> WaitStep(ws[i], submitted[ws[i]])]

(* The next signal of h comes after the last: that is reached, or q has    *)
(* been given it or a wait for it before.                                  *)
Follows(q, h, ws) ==
  \/ completed[h] = submitted[h]
  \/ \E w \in {WaitStep(h, submitted[h]), SignalStep(h, submitted[h])} :
       \E i \in DOMAIN queue[q].work : queue[q].work[i] = w
  \/ \E i \in DOMAIN ws : ws[i] = h

(* q_submit.  Its waits are queued one by one, then the lists, then the    *)
(* signals; a point with a stale handle, 0 or UINT64_MAX ends the call at  *)
(* its place, and what is queued already stays.                            *)
Submit(t, q) ==
  /\ Begins(t) /\ ~ DeviceRemoved /\ ~ Draining(q)
  /\ \E ws \in {<<>>} \cup {<<w>> : w \in Timelines}, h \in Timelines :
       \/ /\ submitted[h] < MaxValue /\ Follows(q, h, ws)
          /\ Put(q, WaitFor(ws) \o <<Run, SignalStep(h, submitted[h] + 1)>>)
          /\ submitted' = [submitted EXCEPT ![h] = @ + 1]
       \/ Put(q, WaitFor(ws) \o <<Run>>) /\ UNCHANGED submitted
       \/ Put(q, WaitFor(ws)) /\ UNCHANGED submitted
  /\ UNCHANGED <<completed, call, wait>>

(* q_signal *)
QueueSignal(t, q) ==
  /\ Begins(t) /\ ~ DeviceRemoved /\ ~ Draining(q)
  /\ \E h \in Timelines :
       /\ submitted[h] < MaxValue /\ Follows(q, h, <<>>)
       /\ Put(q, <<SignalStep(h, submitted[h] + 1)>>)
       /\ submitted' = [submitted EXCEPT ![h] = @ + 1]
  /\ UNCHANGED <<completed, call, wait>>

(* q_wait *)
QueueWait(t, q) ==
  /\ Begins(t) /\ ~ DeviceRemoved /\ ~ Draining(q)
  /\ \E w \in Timelines : Put(q, WaitFor(<<w>>))
  /\ UNCHANGED <<completed, submitted, call, wait>>

(* The GPU does a queue's next step.                                       *)
Execute(q) ==
  /\ ~ DeviceRemoved /\ queue[q].work # <<>>
  /\ LET w == Head(queue[q].work)
     IN /\ w.op = "wait" => completed[w.fence] >= w.value
        /\ completed' = IF w.op = "signal" THEN [completed EXCEPT ![w.fence] = w.value]
                                           ELSE completed
  /\ queue' = [queue EXCEPT ![q].work = Tail(@)]
  /\ call' = [t \in Threads |-> IF At(t, "draining") /\ q \in DOMAIN call[t].owed
                                  THEN [call[t] EXCEPT !.owed[q] = IF @ = 0 THEN 0 ELSE @ - 1]
                                  ELSE call[t]]
  /\ UNCHANGED <<submitted, calls, wait>>

RemoveDevice ==
  /\ ~ DeviceRemoved
  /\ completed' = [f \in DOMAIN completed |-> Removed]
  /\ UNCHANGED <<queue, submitted, call, calls, wait>>
-----------------------------------------------------------------------------
(* d_createQueue *)
CreateQueue(t, q) ==
  /\ q \notin DOMAIN queue /\ Begins(t) /\ ~ DeviceRemoved
  /\ completed[q] = 0   \* a handle is never given out again
  /\ \A u \in Threads : ~ At(u, "draining")
  /\ queue' = [p \in DOMAIN queue \cup {q} |-> IF p = q THEN NewQueue ELSE queue[p]]
  /\ UNCHANGED <<completed, submitted, call, wait>>

(* d_waitIdle, and d_destroyQueue, which drains one queue.  owed, what   *)
(* each queue had still to execute, is only for the properties.            *)
Drains(t, qs, destroys) ==
  /\ Begins(t) /\ t # Waiter
  /\ \A u \in Threads : ~ At(u, "draining")
  /\ call' = [call EXCEPT ![t] = [step |-> "draining", left |-> qs, at |-> None, value |-> 0,
                                  destroys |-> destroys, owed |-> [q \in qs |-> Len(queue[q].work)]]]
  /\ UNCHANGED <<queue, completed, submitted, wait>>

WaitIdle(t) == Drains(t, DOMAIN queue, None)

DestroyQueue(t) == \E q \in DOMAIN queue \ Primary : Drains(t, {q}, q)

(* Fault: the value of the last drain is signalled and waited for again. *)
DrainNext_SameValue(t) ==
  /\ At(t, "draining") /\ call[t].at = None
  /\ \E q \in call[t].left :
       LET v == IF queue[q].value = 0 THEN 1 ELSE queue[q].value
       IN /\ queue' = [queue EXCEPT ![q].value = v,
                                    ![q].work = IF DeviceRemoved THEN @
                                                ELSE Append(@, SignalStep(q, v))]
          /\ call' = [call EXCEPT ![t].left = @ \ {q},
                                  ![t].at = IF DeviceRemoved THEN None ELSE q,
                                  ![t].value = v]
  /\ UNCHANGED <<completed, submitted, calls, wait>>

(* Dx12WaitQueueIdle: raise value and signal it.  When Signal fails, which *)
(* it does on a removed device, nothing is waited for.                     *)
DrainNext(t) ==
  /\ At(t, "draining") /\ call[t].at = None
  /\ \E q \in call[t].left :
       LET v == queue[q].value + 1
       IN /\ queue' = [queue EXCEPT ![q].value = v,
                                    ![q].work = IF DeviceRemoved THEN @
                                                ELSE Append(@, SignalStep(q, v))]
          /\ call' = [call EXCEPT ![t].left = @ \ {q},
                                  ![t].at = IF DeviceRemoved THEN None ELSE q,
                                  ![t].value = v]
  /\ UNCHANGED <<completed, submitted, calls, wait>>

(* ... and wait for it. *)
Drained(t) ==
  /\ At(t, "draining") /\ call[t].at # None
  /\ completed[call[t].at] >= call[t].value
  /\ call' = [call EXCEPT ![t].at = None]
  /\ UNCHANGED <<queue, completed, submitted, calls, wait>>

DrainEnds(t) ==
  /\ At(t, "draining") /\ call[t].at = None /\ call[t].left = {}
  /\ queue' = [q \in DOMAIN queue \ {call[t].destroys} |-> queue[q]]
  /\ Returns(t)
  /\ UNCHANGED <<completed, submitted, calls, wait>>

(* tl_timelineHostWait, for any value and with or without a timeout.       *)
HostWait(t) ==
  /\ Begins(t) /\ t # Waiter
  /\ \E f \in Timelines, v \in 1 .. MaxValue, timed \in BOOLEAN :
       call' = [call EXCEPT ![t] = [step |-> "hostWait", fence |-> f, value |-> v, timed |-> timed]]
  /\ UNCHANGED <<queue, completed, submitted, wait>>

HostWaitEnds(t) ==
  /\ At(t, "hostWait")
  /\ completed[call[t].fence] >= call[t].value \/ call[t].timed
  /\ Returns(t)
  /\ UNCHANGED <<queue, completed, submitted, calls, wait>>
-----------------------------------------------------------------------------
(* CompletionWait.  Its user reads WakeVersion, looks whether there is     *)
(* anything to do, and calls Wait with the version it read.                *)
WakeVersion(t) ==
  /\ t = Waiter /\ Begins(t)
  /\ call' = [call EXCEPT ![t] = [step |-> "observed", observed |-> wait.version]]
  /\ UNCHANGED <<queue, completed, submitted, wait>>

Wait(t) ==
  /\ At(t, "observed")
  /\ \E fs \in UNION {[1 .. n -> Timelines] : n \in 0 .. MaxPoints} :
       /\ IsInjective(fs)
       /\ \E vs \in [DOMAIN fs -> 1 .. MaxValue] :
            LET points == [i \in DOMAIN fs |-> [fence |-> fs[i], value |-> vs[i]]]
            IN call' = [call EXCEPT ![t] = [step |-> "registering", observed |-> @.observed,
                                            points |-> points, left |-> points, events |-> {}]]
  /\ UNCHANGED <<queue, completed, submitted, calls, wait>>

Open == {wait.registration[i].event : i \in DOMAIN wait.registration} \ {None}
Reached(a) == completed[a[2]] >= a[3]
IsSet(e) == \E a \in wait.armed : a[1] = e /\ Reached(a)

ResetEvent(armed, e) == {a \in armed : a[1] = e => ~ Reached(a)}
CloseHandle(armed, e) == {a \in armed : a[1] # e}

(* Fault: whatever the first registration waits for, it is taken. *)
Free_First(i) == i = 1 \/ wait.registration[i].fence = None

Free(i) ==
  LET r == wait.registration[i]
  IN r.fence = None \/ completed[r.fence] >= r.value

(* The registration of a fence, or the first that is free. *)
EntryFor(f) ==
  LET own == {i \in DOMAIN wait.registration : wait.registration[i].fence = f}
      free == {i \in DOMAIN wait.registration : Free(i)}
  IN IF own # {} THEN Min(own) ELSE IF free # {} THEN Min(free) ELSE None

(* Registration i as the loop finds it: taken over, its old event closed.  *)
Entry(i, f) ==
  IF wait.registration[i].fence = f THEN wait.registration[i]
                                    ELSE [NoRegistration EXCEPT !.fence = f]

ArmedFor(i, f) ==
  IF wait.registration[i].fence = f THEN wait.armed
                                    ELSE CloseHandle(wait.armed, wait.registration[i].event)

(* The registration's event, or a new one: CreateEvent may return the      *)
(* handle that has just been closed.                                       *)
EventFor(i, r) ==
  IF r.event # None THEN {r.event}
  ELSE {Min(Events \ Open)} \cup ({wait.registration[i].event} \ {None})

MustArm(r) == r.event = None \/ completed[r.fence] >= r.value

(* One round of the loop over the points: Wait returns, or the point's     *)
(* event joins those to wait for.                                          *)
Register(t) ==
  /\ At(t, "registering") /\ call[t].left # <<>>
  /\ LET p == Head(call[t].left)
         i == EntryFor(p.fence)
         r == Entry(i, p.fence)
         armed == ArmedFor(i, p.fence)
         Next1(e) == call' = [call EXCEPT ![t].left = Tail(@), ![t].events = @ \cup {e}]
     IN \/ /\ completed[p.fence] >= p.value \/ i = None
           /\ Returns(t) /\ UNCHANGED wait
        \/ /\ completed[p.fence] < p.value /\ i # None /\ ~ MustArm(r)
           /\ IF p.value < r.value THEN Returns(t) ELSE Next1(r.event)
           /\ UNCHANGED wait
        \/ /\ completed[p.fence] < p.value /\ i # None /\ MustArm(r)
           /\ \/ /\ r.event = None   \* CreateEvent fails
                 /\ wait' = [wait EXCEPT !.registration[i] = r, !.armed = armed]
                 /\ Returns(t)
              \/ \E e \in EventFor(i, r) :
                   \/ /\ wait' = [wait EXCEPT   \* SetEventOnCompletion fails
                                    !.registration[i] = [r EXCEPT !.event = e],
                                    !.armed = ResetEvent(armed, e)]
                      /\ Returns(t)
                   \/ /\ wait' = [wait EXCEPT
                                    !.registration[i] = [r EXCEPT !.event = e, !.value = p.value],
                                    !.armed = ResetEvent(armed, e) \cup {<<e, p.fence, p.value>>}]
                      /\ Next1(e)
  /\ UNCHANGED <<queue, completed, submitted, calls>>

(* Fault: whether there was a notification is not looked at under m_mutex. *)
Sleep_Unchecked(t) ==
  /\ At(t, "registering") /\ call[t].left = <<>>
  /\ wait' = [wait EXCEPT !.control = FALSE] /\ Goes(t, "waiting")
  /\ UNCHANGED <<queue, completed, submitted, calls>>

(* m_mutex: wait only if nobody has notified since the version was read.   *)
Sleep(t) ==
  /\ At(t, "registering") /\ call[t].left = <<>>
  /\ IF call[t].observed # wait.version THEN Returns(t) /\ UNCHANGED wait
     ELSE wait' = [wait EXCEPT !.control = FALSE] /\ Goes(t, "waiting")
  /\ UNCHANGED <<queue, completed, submitted, calls>>

(* WaitForMultipleObjects: one of the events is set, or a handle is not    *)
(* valid.                                                                  *)
Wakes(t) == \/ wait.control
            \/ \E e \in call[t].events : IsSet(e) \/ e \notin Open

WaitEnds(t) ==
  /\ At(t, "waiting") /\ Wakes(t)
  /\ Returns(t)
  /\ UNCHANGED <<queue, completed, submitted, calls, wait>>

(* Notify, from any other thread. *)
Notify(t) ==
  /\ t # Waiter /\ Begins(t) /\ ~ At(Waiter, "closing")
  /\ wait' = [wait EXCEPT !.version = @ + 1, !.control = TRUE]
  /\ UNCHANGED <<queue, completed, submitted, call>>

(* ~Dx12CompletionWait: registrations cannot be taken back.                *)
Destroy(t) ==
  /\ t = Waiter /\ Begins(t)
  /\ Goes(t, "closing")
  /\ UNCHANGED <<queue, completed, submitted, wait>>

(* One registration after the other: its event is closed once its fence    *)
(* got there.                                                              *)
CloseNext(t) ==
  /\ At(t, "closing")
  /\ \E i \in DOMAIN wait.registration :
       LET r == wait.registration[i]
       IN /\ r.event # None
          /\ \A j \in 1 .. i - 1 : wait.registration[j].event = None
          /\ completed[r.fence] >= r.value \/ IsSet(r.event)
          /\ wait' = [wait EXCEPT !.registration[i] = NoRegistration,
                                  !.armed = CloseHandle(@, r.event)]
  /\ UNCHANGED <<queue, completed, submitted, call, calls>>

(* The last event is closed; the next CompletionWait starts afresh         *)
(* (d_createCompletionWait).                                               *)
Closed(t) ==
  /\ At(t, "closing") /\ Open = {}
  /\ wait' = NewWait /\ Returns(t)
  /\ UNCHANGED <<queue, completed, submitted, calls>>
-----------------------------------------------------------------------------
Call(t) ==
  \/ \E q \in DOMAIN queue : Submit(t, q) \/ QueueSignal(t, q) \/ QueueWait(t, q)
  \/ \E q \in Queues : CreateQueue(t, q)
  \/ WaitIdle(t) \/ DestroyQueue(t) \/ HostWait(t)
  \/ WakeVersion(t) \/ Notify(t) \/ Destroy(t)

Continue(t) ==
  \/ DrainNext(t) \/ Drained(t) \/ DrainEnds(t) \/ HostWaitEnds(t)
  \/ Wait(t) \/ Register(t) \/ Sleep(t) \/ WaitEnds(t) \/ CloseNext(t) \/ Closed(t)

Next ==
  \/ \E q \in DOMAIN queue : Execute(q)
  \/ RemoveDevice
  \/ \E t \in Threads : Call(t) \/ Continue(t)

Spec == Init /\ [][Next]_vars

-----------------------------------------------------------------------------
(* Types of the variables; NoLostWake includes them.                     *)
TypeOK ==
  /\ DOMAIN queue \subseteq Queues
  /\ \A q \in DOMAIN queue : /\ queue[q].value \in 0 .. MaxCalls
                             /\ \A i \in DOMAIN queue[q].work :
                                  queue[q].work[i].op \in {"wait", "signal", "run"}
  /\ completed \in [Timelines \cup Queues -> 0 .. Removed]
  /\ submitted \in [Timelines -> 0 .. MaxValue]
  /\ \A t \in Threads : call[t].step \in {"idle", "draining", "hostWait", "observed",
                                          "registering", "waiting", "closing"}
  /\ calls \in 0 .. MaxCalls
  /\ \A i \in DOMAIN wait.registration :
       wait.registration[i] \in [fence : Timelines \cup {None}, event : Events \cup {None},
                                 value : 0 .. MaxValue]
  /\ wait.armed \subseteq Events \X Timelines \X (1 .. MaxValue)

(* Once WaitIdle or DestroyQueue has done with a queue, what the queue had *)
(* been given before the call has been executed (unless the device is      *)
(* gone), whatever other threads submit meanwhile.                         *)
IdleMeansDone ==
  \A t \in Threads :
    At(t, "draining") /\ call[t].at = None /\ ~ DeviceRemoved =>
      \A q \in DOMAIN call[t].owed \ call[t].left : call[t].owed[q] = 0

(* The waiting thread sleeps through nothing it asked for: a notification  *)
(* since it read the version has set the control event, and a point that   *)
(* is reached has set an event it waits for, if the point's timeline still *)
(* has its registration.                                                   *)
NoLostWake ==
  /\ TypeOK
  /\ At(Waiter, "waiting") =>
       /\ wait.version # call[Waiter].observed => wait.control
       /\ \A i \in DOMAIN call[Waiter].points :
            LET p == call[Waiter].points[i]
            IN /\ completed[p.fence] >= p.value
               /\ \E j \in DOMAIN wait.registration : wait.registration[j].fence = p.fence
               => Wakes(Waiter)

(* Events that the runtime has still to set are never closed: neither when *)
(* a registration changes hands nor when the CompletionWait is destroyed.  *)
ClosedWhenSettled ==
  [][\A a \in wait.armed : ~ Reached(a) =>
       \E i \in DOMAIN wait'.registration : wait'.registration[i].event = a[1]]_vars

(* What ends a wait is "control wake or GPU progress" (rhi.h:2934): a      *)
(* waiting thread whose timeline got there wakes.                          *)
WakesOnProgress ==
  At(Waiter, "waiting")
    /\ (\E i \in DOMAIN call[Waiter].points :
          completed[call[Waiter].points[i].fence] >= call[Waiter].points[i].value)
  => /\ Wakes(Waiter)
     /\ call[Waiter].events \subseteq Open

=============================================================================

------------------------------ MODULE Timelines ------------------------------
(***************************************************************************)
(* Timelines of an adopted Vulkan device (rhi_vulkan.cpp): timeline        *)
(* semaphores that queues signal and threads wait for, HostWait, WaitIdle, *)
(* Present's wait and the CompletionWait object, against DestroyTimeline.  *)
(*                                                                         *)
(* A TimelineHandle names one VkSemaphore for good (Registry), so a handle *)
(* stands for its semaphore too.  timelinesMutex is held within single     *)
(* actions, except by Present, which keeps it while it waits.              *)
(*                                                                         *)
(* What the callers keep to: a timeline is signalled with rising values,   *)
(* also when several queues signal it, the GPU waits only for values       *)
(* already submitted, and a timeline is destroyed once (deferred deletion) *)
(* when no submitted batch uses it and nobody is to submit it again.       *)
(***************************************************************************)
EXTENDS Integers, Sequences, FiniteSets

CONSTANTS
  Threads, Waiter,     \* Waiter: the one thread that waits on the CompletionWait
  Handles, Queues,
  NoThread,
  MaxValue,            \* bounds the values of a timeline
  MaxCalls,            \* bounds the calls made
  DestroyDuringIdle    \* whether timelines are destroyed while WaitIdle runs

ASSUME TimelinesAssumption ==
  /\ Waiter \in Threads /\ NoThread \notin Threads /\ IsFiniteSet(Threads)
  /\ MaxValue \in Nat /\ MaxCalls \in Nat
  /\ DestroyDuringIdle \in BOOLEAN

VARIABLES
  timeline,   \* [live handle -> [lastSubmittedSignalValue, activeHostWaits]]
  value,      \* [handle ever created -> counter of its semaphore]
  queue,      \* [queue -> batches not executed yet]
  mutex,      \* who keeps timelinesMutex across steps
  call,       \* [thread -> what it is doing, see Idle]
  calls,      \* calls made so far
  completion  \* the CompletionWait: m_version, m_waiting, and m_control's value

vars == <<timeline, value, queue, mutex, call, calls, completion>>

Idle == [step |-> "idle"]
Free == mutex = NoThread
At(t, step) == call[t].step = step
Begins(t) == At(t, "idle") /\ calls < MaxCalls /\ calls' = calls + 1
Goes(t, step) == call' = [call EXCEPT ![t].step = step]
Returns(t) == call' = [call EXCEPT ![t] = Idle]

Destroying(h) == \E t \in Threads : call[t].step \in {"destroying", "asleep"} /\ call[t].handle = h

(* Signals that batches have still to make, of a queue and of all of them. *)
Signals(batches) == {batches[i].signal : i \in DOMAIN batches}
Pending == UNION {Signals(queue[q]) : q \in Queues}
-----------------------------------------------------------------------------
Init ==
  /\ timeline = [h \in {} |-> 0]
  /\ value = [h \in {} |-> 0]
  /\ queue = [q \in Queues |-> <<>>]
  /\ mutex = NoThread
  /\ call = [t \in Threads |-> Idle]
  /\ calls = 0
  /\ completion = [version |-> 0, waiting |-> FALSE, control |-> 0]

CreateTimeline(h) ==
  /\ Free /\ h \notin DOMAIN value
  /\ timeline' = [k \in DOMAIN timeline \cup {h} |->
                    IF k = h THEN [lastSubmittedSignalValue |-> 0, activeHostWaits |-> 0]
                             ELSE timeline[k]]
  /\ value' = [k \in DOMAIN value \cup {h} |-> IF k = h THEN 0 ELSE value[k]]
  /\ UNCHANGED <<queue, mutex, call, calls, completion>>

(* q_submit of one batch (q_wait and q_signal are batches, too): the GPU   *)
(* waits for what is submitted of w and signals h: behind the signal of h  *)
(* before, in the same queue or because it waits for it.  vkQueueSubmit    *)
(* may fail.                                                               *)
Submit(t, q) ==
  /\ Free /\ Begins(t)
  /\ \E h \in DOMAIN timeline, w \in DOMAIN timeline, accepted \in BOOLEAN :
       LET last == timeline[h].lastSubmittedSignalValue
       IN /\ ~ Destroying(h) /\ ~ Destroying(w) /\ last < MaxValue
          /\ w = h \/ \A p \in Queues \ {q} : <<h, last>> \notin Signals(queue[p])
          /\ IF accepted
               THEN /\ queue' = [queue EXCEPT ![q] = Append(@,
                                  [wait |-> <<w, timeline[w].lastSubmittedSignalValue>>,
                                   signal |-> <<h, last + 1>>])]
                    /\ timeline' = [timeline EXCEPT ![h].lastSubmittedSignalValue = last + 1]
               ELSE UNCHANGED <<queue, timeline>>
  /\ UNCHANGED <<value, mutex, call, completion>>

(* The GPU executes a queue's next batch.                                  *)
Execute(q) ==
  /\ queue[q] # <<>>
  /\ LET b == Head(queue[q])
     IN /\ value[b.wait[1]] >= b.wait[2]
        /\ value' = [value EXCEPT ![b.signal[1]] = b.signal[2]]
  /\ queue' = [queue EXCEPT ![q] = Tail(@)]
  /\ UNCHANGED <<timeline, mutex, call, calls, completion>>
-----------------------------------------------------------------------------
Points(hs, v) == [h \in hs |-> v]

(* activeHostWaits of the timelines a wait is for. *)
Pinned(hs) ==
  [h \in DOMAIN timeline |-> IF h \in hs THEN [timeline[h] EXCEPT !.activeHostWaits = @ + 1]
                                         ELSE timeline[h]]

(* Fault: a wait that ends gives up the waits of others, too. *)
Unpinned_All(hs) ==
  [h \in DOMAIN timeline |-> IF h \in hs THEN [timeline[h] EXCEPT !.activeHostWaits = 0]
                                         ELSE timeline[h]]

Unpinned(hs) ==
  [h \in DOMAIN timeline |-> IF h \in hs THEN [timeline[h] EXCEPT !.activeHostWaits = @ - 1]
                                         ELSE timeline[h]]

Reached(points, h) == value[h] >= points[h]

(* vkWaitSemaphores has its answer: one point for the CompletionWait, all  *)
(* points for everyone else.                                               *)
Answered(t) ==
  IF t = Waiter THEN \/ completion.control > call[t].observed
                     \/ \E h \in DOMAIN call[t].points : Reached(call[t].points, h)
  ELSE \A h \in DOMAIN call[t].points : Reached(call[t].points, h)

(* tl_timelineHostWait, for any value and with or without a timeout.       *)
HostWait(t) ==
  /\ Free /\ Begins(t) /\ t # Waiter
  /\ \E h \in DOMAIN timeline, v \in 1 .. MaxValue, timed \in BOOLEAN :
       /\ timeline' = Pinned({h})
       /\ call' = [call EXCEPT ![t] = [step |-> "waiting", kind |-> "host",
                                       points |-> Points({h}, v), timed |-> timed]]
  /\ UNCHANGED <<value, queue, mutex, completion>>

HostWaitEnds(t) ==
  /\ At(t, "waiting") /\ call[t].kind = "host"
  /\ Answered(t) \/ call[t].timed
  /\ Goes(t, "unpin")
  /\ UNCHANGED <<timeline, value, queue, mutex, calls, completion>>

(* The end of HostWait and of CompletionWait::Wait.                        *)
Unpin(t) ==
  /\ At(t, "unpin") /\ Free
  /\ timeline' = Unpinned(DOMAIN call[t].points)
  /\ call' = [call EXCEPT ![t] = [step |-> "notifying"]]
  /\ UNCHANGED <<value, queue, mutex, calls, completion>>

(* Fault: nobody is told. *)
NotifyAll_Forgotten(t) ==
  /\ At(t, "notifying") /\ Returns(t)
  /\ UNCHANGED <<timeline, value, queue, mutex, calls, completion>>

(* timelinesCondition.notify_all() *)
NotifyAll(t) ==
  /\ At(t, "notifying")
  /\ call' = [u \in Threads |->
                IF u = t THEN Idle
                ELSE IF At(u, "asleep") THEN [call[u] EXCEPT !.step = "destroying"]
                ELSE call[u]]
  /\ UNCHANGED <<timeline, value, queue, mutex, calls, completion>>
-----------------------------------------------------------------------------
(* d_destroyTimeline, up to its wait on the condition. *)
Destroy(t) ==
  /\ Free /\ Begins(t) /\ t # Waiter
  /\ \E h \in DOMAIN timeline :
       /\ ~ Destroying(h)
       /\ \A s \in Pending : s[1] # h
       /\ \A q \in Queues : \A i \in DOMAIN queue[q] : queue[q][i].wait[1] # h
       /\ DestroyDuringIdle \/ \A u \in Threads : ~ (At(u, "waiting") /\ call[u].kind = "idle")
       /\ call' = [call EXCEPT ![t] = [step |-> "destroying", handle |-> h]]
  /\ UNCHANGED <<timeline, value, queue, mutex, completion>>

(* Fault: the last wait is not waited for. *)
DestroyChecks_OneLeft(t) ==
  /\ At(t, "destroying") /\ Free
  /\ IF timeline[call[t].handle].activeHostWaits <= 1
       THEN /\ timeline' = [h \in DOMAIN timeline \ {call[t].handle} |-> timeline[h]]
            /\ Returns(t)
       ELSE Goes(t, "asleep") /\ UNCHANGED timeline
  /\ UNCHANGED <<value, queue, mutex, calls, completion>>

(* The predicate of the wait, under the mutex: the semaphore is destroyed  *)
(* and the handle freed, or the thread sleeps on.                          *)
DestroyChecks(t) ==
  /\ At(t, "destroying") /\ Free
  /\ IF timeline[call[t].handle].activeHostWaits = 0
       THEN /\ timeline' = [h \in DOMAIN timeline \ {call[t].handle} |-> timeline[h]]
            /\ Returns(t)
       ELSE Goes(t, "asleep") /\ UNCHANGED timeline
  /\ UNCHANGED <<value, queue, mutex, calls, completion>>

(* Fault: what is complete is waited for. *)
SubmittedPoints_Complete ==
  [h \in {k \in DOMAIN timeline : timeline[k].lastSubmittedSignalValue # 0} |-> value[h]]

SubmittedPoints ==
  [h \in {k \in DOMAIN timeline : timeline[k].lastSubmittedSignalValue # 0} |->
     timeline[h].lastSubmittedSignalValue]

(* d_waitIdle of a device whose queues are the host's.  owed is only for   *)
(* the properties.                                                         *)
WaitIdle(t) ==
  /\ Free /\ Begins(t) /\ t # Waiter
  /\ DestroyDuringIdle \/ \A h \in DOMAIN timeline : ~ Destroying(h)
  /\ call' = [call EXCEPT ![t] = [step |-> "waiting", kind |-> "idle",
                                  points |-> SubmittedPoints, owed |-> Pending]]
  /\ UNCHANGED <<timeline, value, queue, mutex, completion>>

WaitIdleEnds(t) ==
  /\ At(t, "waiting") /\ call[t].kind = "idle" /\ Answered(t)
  /\ Returns(t)
  /\ UNCHANGED <<timeline, value, queue, mutex, calls, completion>>

(* sc_present with a point to wait for.  The relay to the binary semaphore *)
(* has nothing left to wait for and is not modelled.                       *)
Present(t) ==
  /\ Free /\ Begins(t) /\ t # Waiter
  /\ \E h \in DOMAIN timeline :
       \E v \in 1 .. timeline[h].lastSubmittedSignalValue :
         /\ ~ Destroying(h)
         /\ call' = [call EXCEPT ![t] = [step |-> "waiting", kind |-> "present",
                                         points |-> Points({h}, v)]]
  /\ mutex' = t
  /\ UNCHANGED <<timeline, value, queue, completion>>

PresentEnds(t) ==
  /\ At(t, "waiting") /\ call[t].kind = "present" /\ Answered(t)
  /\ mutex' = NoThread
  /\ Returns(t)
  /\ UNCHANGED <<timeline, value, queue, calls, completion>>
-----------------------------------------------------------------------------
(* CompletionWait.  Its user reads WakeVersion, looks whether there is     *)
(* anything to do, and calls Wait with the version it read.                *)
WakeVersion(t) ==
  /\ t = Waiter /\ Begins(t)
  /\ call' = [call EXCEPT ![t] = [step |-> "observed", observed |-> completion.version]]
  /\ UNCHANGED <<timeline, value, queue, mutex, completion>>

Wait(t) ==
  /\ At(t, "observed") /\ Free
  /\ \E hs \in SUBSET DOMAIN timeline, v \in 1 .. MaxValue :
       /\ \A h \in hs : ~ Destroying(h)
       /\ timeline' = Pinned(hs)
       /\ call' = [call EXCEPT ![t] = [step |-> "arming", kind |-> "completion",
                                       observed |-> @.observed, points |-> Points(hs, v)]]
  /\ UNCHANGED <<value, queue, mutex, calls, completion>>

(* Fault: whether there was a notification is decided before m_mutex. *)
Arm_Unchecked(t) ==
  /\ At(t, "arming")
  /\ completion' = [completion EXCEPT !.waiting = TRUE]
  /\ Goes(t, "waiting")
  /\ UNCHANGED <<timeline, value, queue, mutex, calls>>

(* m_mutex: wait only if nobody has notified since the version was read.   *)
Arm(t) ==
  /\ At(t, "arming")
  /\ LET wait == call[t].observed = completion.version
     IN /\ completion' = [completion EXCEPT !.waiting = wait]
        /\ Goes(t, IF wait THEN "waiting" ELSE "unpin")
  /\ UNCHANGED <<timeline, value, queue, mutex, calls>>

WaitEnds(t) ==
  /\ At(t, "waiting") /\ call[t].kind = "completion" /\ Answered(t)
  /\ Goes(t, "disarming")
  /\ UNCHANGED <<timeline, value, queue, mutex, calls, completion>>

Disarm(t) ==
  /\ At(t, "disarming")
  /\ completion' = [completion EXCEPT !.waiting = FALSE]
  /\ Goes(t, "unpin")
  /\ UNCHANGED <<timeline, value, queue, mutex, calls>>

(* Notify, from any other thread.  The control semaphore only takes values *)
(* above its own.                                                          *)
Notify(t) ==
  /\ t # Waiter /\ Begins(t)
  /\ LET version == completion.version + 1
     IN completion' = [completion EXCEPT
                         !.version = version,
                         !.control = IF completion.waiting THEN version ELSE @]
  /\ UNCHANGED <<timeline, value, queue, mutex, call>>
-----------------------------------------------------------------------------
Call(t) ==
  \/ \E q \in Queues : Submit(t, q)
  \/ HostWait(t) \/ Destroy(t) \/ WaitIdle(t) \/ Present(t) \/ WakeVersion(t) \/ Notify(t)

Continue(t) ==
  \/ HostWaitEnds(t) \/ Unpin(t) \/ NotifyAll(t)
  \/ DestroyChecks(t) \/ WaitIdleEnds(t) \/ PresentEnds(t)
  \/ Wait(t) \/ Arm(t) \/ WaitEnds(t) \/ Disarm(t)

Next ==
  \/ \E h \in Handles : CreateTimeline(h)
  \/ \E q \in Queues : Execute(q)
  \/ \E t \in Threads : Call(t) \/ Continue(t)

(* The GPU executes what it can, and a call under way goes on.             *)
Fairness ==
  /\ \A q \in Queues : WF_vars(Execute(q))
  /\ \A t \in Threads : WF_vars(Continue(t))

Spec == Init /\ [][Next]_vars /\ Fairness
-----------------------------------------------------------------------------
(* Types of the variables; CountersExact includes them.                  *)
TypeOK ==
  /\ timeline \in [DOMAIN timeline ->
       [lastSubmittedSignalValue : 0 .. MaxValue, activeHostWaits : 0 .. Cardinality(Threads)]]
  /\ DOMAIN timeline \subseteq DOMAIN value
  /\ value \in [DOMAIN value -> 0 .. MaxValue]
  /\ mutex \in Threads \cup {NoThread}
  /\ \A t \in Threads : call[t].step \in {"idle", "waiting", "unpin", "notifying",
       "destroying", "asleep", "observed", "arming", "disarming"}
  /\ calls \in 0 .. MaxCalls
  /\ completion \in [version : Nat, waiting : BOOLEAN, control : Nat]

(* Threads whose wait keeps timeline h alive. *)
Pinning(h) ==
  {t \in Threads :
     /\ \/ At(t, "waiting") /\ call[t].kind \in {"host", "completion"}
        \/ call[t].step \in {"arming", "disarming", "unpin"}
     /\ h \in DOMAIN call[t].points}

(* activeHostWaits counts the waits under way, through timeouts, wake-ups  *)
(* and waits that never blocked: DestroyTimeline neither runs ahead of one *)
(* nor waits for one that is gone.                                         *)
PinsExact ==
  \A h \in Handles :
    IF h \in DOMAIN timeline THEN timeline[h].activeHostWaits = Cardinality(Pinning(h))
    ELSE Pinning(h) = {}

(* "... so a slot cannot be destroyed or reused underneath it": no thread  *)
(* is in vkWaitSemaphores on a semaphore that is destroyed.                *)
WaitsOnLiveSemaphores ==
  \A t \in Threads : At(t, "waiting") => DOMAIN call[t].points \subseteq DOMAIN timeline

(* lastSubmittedSignalValue is a value the semaphore reaches, and covers   *)
(* every signal submitted: a wait for it ends, and misses nothing.         *)
LastSubmittedIsPending ==
  \A h \in DOMAIN timeline :
    LET submitted == {value[h]} \cup {s[2] : s \in {p \in Pending : p[1] = h}}
    IN /\ timeline[h].lastSubmittedSignalValue \in submitted
       /\ \A v \in submitted : v <= timeline[h].lastSubmittedSignalValue

(* Both counters of every timeline are exact at every step.                *)
CountersExact == TypeOK /\ PinsExact /\ LastSubmittedIsPending

(* "Host-waits for everything BasicRHI submitted": when WaitIdle returns,  *)
(* the batches that were submitted when it was called have signalled.      *)
IdleMeansDone ==
  [][\A t \in Threads :
       At(t, "waiting") /\ call[t].kind = "idle" /\ call'[t] = Idle
         => \A s \in call[t].owed : value[s[1]] >= s[2]]_vars

(* A notification is never lost, wherever the waiter is between reading    *)
(* the version and blocking: whoever blocks on an old version is woken.    *)
NoLostWake ==
  At(Waiter, "waiting") /\ completion.version # call[Waiter].observed
    => completion.control > call[Waiter].observed

(* Values that will be reached, or a notification that has been made.      *)
Answerable(t) ==
  \/ call[t].step \notin {"idle", "waiting"}
  \/ At(t, "waiting") /\ call[t].kind \in {"present", "idle"}
  \/ /\ At(t, "waiting") /\ call[t].kind = "host"
     /\ \A h \in DOMAIN call[t].points :
          h \in DOMAIN timeline
            /\ timeline[h].lastSubmittedSignalValue >= call[t].points[h]
  \/ t = Waiter /\ At(t, "waiting") /\ completion.version # call[t].observed

Blocked(t) == At(t, "waiting") /\ ~ Answerable(t)

(* Every call returns, or comes to wait for a value nobody has submitted;  *)
(* DestroyTimeline, too, sleeps only as long as such a wait lasts.         *)
AllReturn ==
  \A t \in Threads :
    Answerable(t) ~> \/ At(t, "idle") \/ Blocked(t)
                     \/ At(t, "asleep") /\ \E u \in Pinning(call[t].handle) : Blocked(u)
=============================================================================

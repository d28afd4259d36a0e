---------------------------- MODULE HeartbeatWake ----------------------------
(***************************************************************************)
(* The wake layer of the heartbeat, src/src/infra/heartbeat-wake.ts:       *)
(* requests to wake an agent are merged per target, one timer coalesces    *)
(* them into a batch, and the handler a heartbeat runner registered is     *)
(* called for each wake of the batch in turn.  A wake whose target is busy *)
(* is put back and retried after a cooldown.  A restart in the process     *)
(* registers a new runner while a batch of the old one may be waiting for  *)
(* its handler.                                                            *)
(*                                                                         *)
(* One action is one synchronous stretch of JavaScript.  Time passes in    *)
(* ticks; a timer may fire late.  A wake is its priority and, for the      *)
(* properties, the requests that were merged into it: a runner sees one    *)
(* source, reason and heartbeat override for all of them.  The wakes of a  *)
(* batch are taken in any order (the code takes them in order of arrival). *)
(***************************************************************************)
EXTENDS Integers, FiniteSets

CONSTANTS
    Requests,   \* requests for a heartbeat
    Target,     \* request -> its agent and session
    Priority,   \* request -> resolveWakePriority of its source and intent
    Delays,     \* coalescing delays callers use, in ticks
    Coalesce,   \* DEFAULT_COALESCE_MS, in ticks
    RetryDelay, \* DEFAULT_RETRY_MS, in ticks
    MaxRunners, \* bound: how many runners register a handler
    MaxBatches  \* bound: batches under way at the same time

ASSUME RequestAttributes ==
    DOMAIN Target = Requests /\ Priority \in [Requests -> 0..3]
ASSUME DelaysAssumption ==
    Delays \subseteq Nat /\ Coalesce \in Nat /\ RetryDelay \in Nat
ASSUME BoundsAssumption ==
    MaxRunners \in Nat /\ MaxBatches \in Nat \ {0} /\ IsFiniteSet(Requests)

Targets == {Target[r] : r \in Requests}
Runners == 1..MaxRunners
Batches == 1..MaxBatches

VARIABLES
    handler,    \* runner whose handler is registered, or 0
    registered, \* number of runners that have registered one
    stopped,    \* runners that have disposed of their registration
    pending,    \* target -> pendingWakes entry
    timer,      \* the timer, with timerDueAt as ticks left, and timerKind
    scheduled,
    running,
    batch,      \* a batch under way: pendingBatch and its loop
    issued, answered,   \* history: requests made, and handled by a runner
    interrupted \* history: a runner registered while a batch was under way

vars == <<handler, registered, stopped, pending, timer, scheduled, running,
          batch, issued, answered, interrupted>>

NoWake == [priority |-> -1, covers |-> {}]
NoWakes == [t \in Targets |-> NoWake]
Off == [armed |-> FALSE, kind |-> "normal", left |-> 0, delay |-> 0]
NoBatch == [wakes |-> NoWakes, todo |-> {}, at |-> {}, delay |-> 0]

\* The targets that have a wake in w.
Waking(w) == {t \in Targets : w[t] # NoWake}

Wake == [priority : -1..3, covers : SUBSET Requests]

\* Type correctness of the pending wakes, the timer and the batches, which the
\* timer callback, the requests and the registrations share.
TypeOK ==
    /\ handler \in 0..registered /\ registered \in 0..MaxRunners
    /\ stopped \subseteq 1..registered
    /\ pending \in [Targets -> Wake]
    /\ timer \in [armed : BOOLEAN, kind : {"normal", "retry"}, left : Nat,
                  delay : Nat]
    /\ scheduled \in BOOLEAN /\ running \in BOOLEAN /\ interrupted \in BOOLEAN
    /\ batch \in [Batches -> [wakes : [Targets -> Wake], todo : SUBSET Targets,
                              at : SUBSET Targets, delay : Nat]]
    /\ \A b \in Batches : Cardinality(batch[b].at) <= 1
    /\ answered \subseteq issued /\ issued \subseteq Requests

Init ==
    /\ handler = 0 /\ registered = 0 /\ stopped = {}
    /\ pending = NoWakes
    /\ timer = Off
    /\ scheduled = FALSE /\ running = FALSE /\ interrupted = FALSE
    /\ batch = [b \in Batches |-> NoBatch]
    /\ issued = {} /\ answered = {}

-----------------------------------------------------------------------------
(* Merging and scheduling.                                                 *)

\* Mutant: the newest wake wins whatever its priority.
MergeNewest(old, new) ==
    [priority |-> new.priority, covers |-> old.covers \cup new.covers]

\* queuePendingWakeReason keeps the wake of the higher priority.
Merge(old, new) ==
    [priority |-> IF new.priority >= old.priority THEN new.priority
                                                  ELSE old.priority,
     covers |-> old.covers \cup new.covers]

\* The wakes pend once those of w have been queued again.
Requeue(pend, w) ==
    [t \in Targets |-> IF w[t] = NoWake THEN pend[t] ELSE Merge(pend[t], w[t])]

\* Mutant: the due time is a tick too early.
ScheduleEarly(tm, delay, kind) ==
    [armed |-> TRUE, kind |-> kind, left |-> delay - 1, delay |-> delay]

\* schedule: what becomes of the timer tm.
Schedule(tm, delay, kind) ==
    IF tm.armed /\ (tm.kind = "retry" \/ tm.left <= delay) THEN tm
    ELSE [armed |-> TRUE, kind |-> kind, left |-> delay, delay |-> delay]

\* requestHeartbeat
RequestHeartbeat(r, coalesceMs) ==
    /\ r \notin issued
    /\ issued' = issued \cup {r}
    /\ pending' = [pending EXCEPT ![Target[r]] =
           Merge(@, [priority |-> Priority[r], covers |-> {r}])]
    /\ timer' = Schedule(timer, coalesceMs, "normal")
    /\ UNCHANGED <<handler, registered, stopped, scheduled, running, batch,
                   answered, interrupted>>

-----------------------------------------------------------------------------
(* The timer callback.                                                     *)

\* Mutant: a batch starts although another one is under way.
NeverBusy == FALSE

\* The flag the callback looks at before it starts a batch.
Busy == running

\* It fires without a handler: the wakes wait for one to be registered.
FiresUnhandled ==
    /\ timer.armed /\ timer.left = 0
    /\ handler = 0
    /\ timer' = Off
    /\ scheduled' = FALSE
    /\ UNCHANGED <<handler, registered, stopped, pending, running, batch,
                   issued, answered, interrupted>>

\* It fires while a batch is under way, and is set again.
FiresWhileRunning ==
    /\ timer.armed /\ timer.left = 0
    /\ handler # 0 /\ Busy
    /\ scheduled' = TRUE
    /\ timer' = Schedule(Off, timer.delay, timer.kind)
    /\ UNCHANGED <<handler, registered, stopped, pending, running, batch,
                   issued, answered, interrupted>>

\* It fires and takes all pending wakes; the handler is called for the first.
StartBatch(b) ==
    /\ timer.armed /\ timer.left = 0
    /\ handler # 0 /\ ~Busy
    /\ batch[b] = NoBatch /\ \A c \in 1..(b - 1) : batch[c] # NoBatch
    /\ scheduled' = FALSE
    /\ timer' = Off
    /\ pending' = NoWakes
    /\ \/ /\ Waking(pending) = {}
          /\ UNCHANGED <<batch, running>>
       \/ \E t \in Waking(pending) :
              /\ batch' = [batch EXCEPT ![b] =
                     [wakes |-> pending, at |-> {t},
                      todo |-> Waking(pending) \ {t}, delay |-> timer.delay]]
              /\ running' = TRUE
    /\ UNCHANGED <<handler, registered, stopped, issued, answered, interrupted>>

\* The finally block: wakes that were queued meanwhile need a timer.
TimerAfterBatch(tm, delay, pend) ==
    IF Waking(pend) # {} \/ scheduled THEN Schedule(tm, delay, "normal") ELSE tm

\* The loop of batch b goes on with its next wake or reaches the finally block;
\* tm is the timer and pend the pending wakes by then.
Continue(b, tm, pend) ==
    \/ /\ batch[b].todo # {}
       /\ \E t \in batch[b].todo :
              batch' = [batch EXCEPT ![b].todo = @ \ {t}, ![b].at = {t}]
       /\ timer' = tm
       /\ UNCHANGED running
    \/ /\ batch[b].todo = {}
       /\ batch' = [batch EXCEPT ![b] = NoBatch]
       /\ timer' = TimerAfterBatch(tm, batch[b].delay, pend)
       /\ running' = FALSE

\* The handler answers: the heartbeat ran, failed, or was skipped for good (as
\* a runner does once it was stopped).
HandlerAnswers(b, t) ==
    /\ batch[b].at = {t}
    /\ answered' = answered \cup batch[b].wakes[t].covers
    /\ Continue(b, timer, pending)
    /\ UNCHANGED <<handler, registered, stopped, pending, scheduled, issued,
                   interrupted>>

\* What a busy target leaves pending.
BusyAgain(pend, t, wake) == [pend EXCEPT ![t] = Merge(@, wake)]

\* The handler finds the target busy: the wake is queued again and retried.
HandlerFindsBusy(b, t) ==
    LET pend == BusyAgain(pending, t, batch[b].wakes[t])
    IN  /\ batch[b].at = {t}
        /\ pending' = pend
        /\ Continue(b, Schedule(timer, RetryDelay, "retry"), pend)
        /\ UNCHANGED <<handler, registered, stopped, scheduled, issued,
                       answered, interrupted>>

\* The handler throws: the whole batch is queued again, what was answered
\* included, and the loop is left.
HandlerThrows(b) ==
    LET pend == Requeue(pending, batch[b].wakes)
        tm == Schedule(timer, RetryDelay, "retry")
    IN  /\ batch[b].at # {}
        /\ pending' = pend
        /\ batch' = [batch EXCEPT ![b] = NoBatch]
        /\ timer' = TimerAfterBatch(tm, batch[b].delay, pend)
        /\ running' = FALSE
        /\ UNCHANGED <<handler, registered, stopped, scheduled, issued,
                       answered, interrupted>>

-----------------------------------------------------------------------------
(* Registrations and time.                                                 *)

\* setHeartbeatWakeHandler forgets the timer of the previous lifecycle.
TimerOfNewHandler ==
    IF Waking(pending) # {} THEN Schedule(Off, Coalesce, "normal") ELSE Off

SetHeartbeatWakeHandler ==
    /\ registered < MaxRunners
    /\ registered' = registered + 1
    /\ handler' = registered + 1
    /\ running' = FALSE
    /\ scheduled' = FALSE
    /\ timer' = TimerOfNewHandler
    /\ interrupted' = (interrupted \/ \E b \in Batches : batch[b] # NoBatch)
    /\ UNCHANGED <<stopped, pending, batch, issued, answered>>

\* Mutant: the disposer clears whatever handler is registered.
HandlerAfterAnyDispose(h) == 0

\* The generation check of the disposer of runner h.
HandlerAfterDispose(h) == IF handler = h THEN 0 ELSE handler

\* The cleanup of runner h.
Stop(h) ==
    /\ h <= registered /\ h \notin stopped
    /\ stopped' = stopped \cup {h}
    /\ handler' = HandlerAfterDispose(h)
    /\ UNCHANGED <<registered, pending, timer, scheduled, running, batch,
                   issued, answered, interrupted>>

\* Time passes.
Tick ==
    /\ timer.left > 0
    /\ timer' = [timer EXCEPT !.left = @ - 1]
    /\ UNCHANGED <<handler, registered, stopped, pending, scheduled, running,
                   batch, issued, answered, interrupted>>

Next ==
    \/ \E r \in Requests, d \in Delays : RequestHeartbeat(r, d)
    \/ FiresUnhandled
    \/ FiresWhileRunning
    \/ \E b \in Batches :
        \/ StartBatch(b)
        \/ \E t \in Targets : HandlerAnswers(b, t) \/ HandlerFindsBusy(b, t)
        \/ HandlerThrows(b)
    \/ SetHeartbeatWakeHandler
    \/ \E h \in Runners : Stop(h)
    \/ Tick

Spec == Init /\ [][Next]_vars

-----------------------------------------------------------------------------
(* Safety.                                                                 *)

\* The wakes of batch b that are queued again if the handler of b throws now,
\* or still have to be handled.
Ahead(b) == batch[b].todo \cup batch[b].at

\* A request that no runner has answered is merged into a pending wake or into
\* one of a batch, which is at least as urgent: merging, retries, errors and
\* restarts drop none and downgrade none to an interval wake.
Carries(wake, r) == r \in wake.covers /\ wake.priority >= Priority[r]
NoRequestIsLost ==
    \A r \in issued \ answered :
        \/ Carries(pending[Target[r]], r)
        \/ \E b \in Batches : Target[r] \in Ahead(b) /\ Carries(batch[b].wakes[Target[r]], r)

\* Heartbeats do not overlap: one batch at a time, unless a new runner was
\* registered while a batch of an old one was under way (the end of the old
\* batch then clears the flag of the new one).
OneBatchAtATime ==
    ~interrupted => Cardinality({b \in Batches : batch[b] # NoBatch}) <= 1

-----------------------------------------------------------------------------
(* What a comment says, and the code does not do.                           *)

\* "Keep retry cooldown as a hard minimum delay": after a busy attempt no timer
\* is due before the cooldown is over.
RetryWaitsForCooldown ==
    [][(\E b \in Batches, t \in Targets : HandlerFindsBusy(b, t))
           => timer'.kind = "retry" \/ timer'.left >= RetryDelay]_vars

-----------------------------------------------------------------------------
(* Liveness.  Timers fire, time passes, and a handler that is asked about a *)
(* target again and again answers at some point.                            *)

LiveSpec ==
    /\ Spec
    /\ WF_vars(Tick)
    /\ \A b \in Batches : /\ WF_vars(StartBatch(b))
                          /\ \A t \in Targets : SF_vars(HandlerAnswers(b, t))

\* Every request is answered, unless the newest runner stops: also when the
\* disposer of an older runner is called late ("preventing a race where an old
\* runner's cleanup clears a newer runner's handler").
RunnerLeft == registered > 0 /\ registered \notin stopped
EveryRequestIsAnswered ==
    \A r \in Requests :
        r \in issued /\ RunnerLeft ~> r \in answered \/ ~RunnerLeft
=============================================================================

---------------------------- MODULE CommandQueue ----------------------------
(***************************************************************************)
(* The in-process command queue of src/src/process/command-queue.ts: FIFO  *)
(* lanes with a concurrency cap, one promise per queued command, a timeout *)
(* that releases the lane while the command still unwinds, lane resets     *)
(* that bump a generation so stale completions are ignored, the gateway's  *)
(* draining flag, and the waiters of waitForActiveTasks.                   *)
(*                                                                         *)
(* JavaScript runs each handler to completion, so one action is one        *)
(* synchronous stretch of code, the pump loop it ends in included.  The    *)
(* `draining' flag of a lane is true only inside such a stretch and is     *)
(* FALSE in every state of this model.  A queue entry and the numeric task *)
(* id it is given when it starts are one value here: ids come from a       *)
(* counter that is never reset, so both are unique.                        *)
(***************************************************************************)
EXTENDS Naturals, Sequences, FiniteSets

CONSTANTS
    Lanes,          \* names of command lanes
    ProbeLanes,     \* the lanes named auth-probe:... or session:probe-...
    Tasks,          \* the commands callers may enqueue, each at most once
    Waiters,        \* the callers of waitForActiveTasks
    MaxConcurrency, \* bound: largest concurrency a caller configures
    MaxGeneration   \* bound: how often one lane is reset

ASSUME LanesAssumption == ProbeLanes \subseteq Lanes
ASSUME TasksAssumption == IsFiniteSet(Tasks)
ASSUME BoundsAssumption == MaxConcurrency \in Nat /\ MaxGeneration \in Nat

VARIABLES
    gatewayDraining, \* new commands are refused
    lanes,           \* keys of the lane map: the lanes created so far
    queue,           \* lane -> entries not started yet, oldest first
    activeTaskIds,   \* lane -> entries holding a slot of the lane
    maxConcurrent,   \* lane -> number of slots
    generation,      \* lane -> number of resets
    laneOf,          \* entry -> the lane it was enqueued in
    hasTimeout,      \* the entries enqueued with a taskTimeoutMs
    taskGeneration,  \* entry -> generation of its lane when it started
    body,            \* entry -> what the caller's task function is doing
    promise,         \* entry -> what the caller's promise is
    waiter           \* waiter -> the active set it captured, and its result

vars == <<gatewayDraining, lanes, queue, activeTaskIds, maxConcurrent,
          generation, laneOf, hasTimeout, taskGeneration, body, promise,
          waiter>>

Settled == {"fulfilled", "rejected", "timed-out", "lane-cleared",
            "gateway-draining"}
WaiterStatus == {"idle", "waiting", "drained", "gave-up"}

\* Type correctness of the lane map, the entries and the waiters that the
\* functions of command-queue.ts share.
TypeOK ==
    /\ gatewayDraining \in BOOLEAN
    /\ lanes \subseteq Lanes
    /\ queue \in [Lanes -> Seq(Tasks)]
    /\ activeTaskIds \in [Lanes -> SUBSET Tasks]
    /\ maxConcurrent \in [Lanes -> Nat]
    /\ generation \in [Lanes -> Nat]
    /\ laneOf \in [Tasks -> Lanes]
    /\ hasTimeout \subseteq Tasks
    /\ taskGeneration \in [Tasks -> Nat]
    /\ body \in [Tasks -> {"not-started", "running", "ended"}]
    /\ promise \in [Tasks -> {"none", "pending"} \cup Settled]
    /\ waiter \in [Waiters -> [status : WaiterStatus, taskIds : SUBSET Tasks,
                               budget : BOOLEAN]]

(***************************************************************************)
(* A lane is created on first use with concurrency 1 and generation 0      *)
(* (getLaneState).  The values of a lane that is not in `lanes' yet are    *)
(* the ones it will be created with.  An entry's lane is arbitrary until   *)
(* the entry is enqueued.                                                  *)
(***************************************************************************)
Init ==
    /\ gatewayDraining = FALSE
    /\ lanes = {}
    /\ queue = [l \in Lanes |-> <<>>]
    /\ activeTaskIds = [l \in Lanes |-> {}]
    /\ maxConcurrent = [l \in Lanes |-> 1]
    /\ generation = [l \in Lanes |-> 0]
    /\ \E l \in Lanes : laneOf = [t \in Tasks |-> l]
    /\ hasTimeout = {}
    /\ taskGeneration = [t \in Tasks |-> 0]
    /\ body = [t \in Tasks |-> "not-started"]
    /\ promise = [t \in Tasks |-> "none"]
    /\ waiter = [w \in Waiters |->
                    [status |-> "idle", taskIds |-> {}, budget |-> FALSE]]

-----------------------------------------------------------------------------
(* The pump loop and the waiters.                                          *)

\* Mutants: the loop compares with <= (over the cap) or stops one early, or the
\* waiters are not told.
PumpCountOverCap(q, active, max) ==
    IF max + 1 > Cardinality(active) /\ Len(q) > 0 THEN 1 ELSE 0
PumpCountOneShort(q, active, max) ==
    IF max > Cardinality(active) + 1 /\ Len(q) > 0 THEN 1 ELSE 0
NotifyNobody == UNCHANGED waiter

\* How many entries the pump loop shifts from queue q when the tasks in
\* active hold slots and the lane has max slots.
PumpCount(q, active, max) ==
    LET free == IF max > Cardinality(active) THEN max - Cardinality(active)
                                             ELSE 0
    IN  IF Len(q) < free THEN Len(q) ELSE free

\* drainLane on every lane of D, from queues q, active sets act, generations
\* gen and task bodies bod: the head of each queue starts, in order, until
\* the lane is full or the queue is empty.
Drain(D, q, act, gen, bod) ==
    LET count(l)   == IF l \in D
                      THEN PumpCount(q[l], act[l], maxConcurrent'[l]) ELSE 0
        started(l) == {q[l][i] : i \in 1..count(l)}
        starts(t)  == \E l \in D : t \in started(l)
    IN  /\ queue' = [l \in Lanes |-> SubSeq(q[l], count(l) + 1, Len(q[l]))]
        /\ activeTaskIds' = [l \in Lanes |-> act[l] \cup started(l)]
        /\ taskGeneration' = [t \in Tasks |->
               IF starts(t) THEN gen[laneOf'[t]] ELSE taskGeneration[t]]
        /\ body' = [t \in Tasks |-> IF starts(t) THEN "running" ELSE bod[t]]

\* hasPendingActiveTasks, evaluated on the active sets act.
HasPending(taskIds, act) == \E l \in lanes : act[l] \cap taskIds # {}

\* notifyActiveTaskWaiters: a waiter none of whose tasks holds a slot any
\* more resolves with drained: true.
NotifyActiveTaskWaiters ==
    waiter' = [w \in Waiters |->
        IF waiter[w].status = "waiting"
           /\ ~HasPending(waiter[w].taskIds, activeTaskIds')
        THEN [waiter[w] EXCEPT !.status = "drained"]
        ELSE waiter[w]]

-----------------------------------------------------------------------------
(* Calls made on the queue.                                                *)

\* Mutant: a new command jumps the queue.
PushFront(q, t) == <<t>> \o q

\* queue.push(entry)
Push(q, t) == Append(q, t)

\* enqueueCommandInLane while the gateway accepts work.
Enqueue(l, t, timed) ==
    /\ promise[t] = "none"
    /\ ~gatewayDraining
    /\ lanes' = lanes \cup {l}
    /\ laneOf' = [laneOf EXCEPT ![t] = l]
    /\ hasTimeout' = IF timed THEN hasTimeout \cup {t} ELSE hasTimeout
    /\ promise' = [promise EXCEPT ![t] = "pending"]
    /\ UNCHANGED <<gatewayDraining, maxConcurrent, generation, waiter>>
    /\ Drain({l}, [queue EXCEPT ![l] = Push(@, t)], activeTaskIds,
             generation, body)

\* enqueueCommandInLane while the gateway drains for a restart.
EnqueueRefused(t) ==
    /\ promise[t] = "none"
    /\ gatewayDraining
    /\ promise' = [promise EXCEPT ![t] = "gateway-draining"]
    /\ UNCHANGED <<gatewayDraining, lanes, queue, activeTaskIds, maxConcurrent,
                   generation, laneOf, hasTimeout, taskGeneration, body, waiter>>

\* setCommandLaneConcurrency: a probe lane keeps one slot at least.
SetCommandLaneConcurrency(l, n) ==
    /\ lanes' = lanes \cup {l}
    /\ maxConcurrent' = [maxConcurrent EXCEPT ![l] =
                            IF l \in ProbeLanes /\ n = 0 THEN 1 ELSE n]
    /\ UNCHANGED <<gatewayDraining, generation, laneOf, hasTimeout, promise,
                   waiter>>
    /\ Drain(IF maxConcurrent'[l] > 0 THEN {l} ELSE {}, queue, activeTaskIds,
             generation, body)

\* Mutant: the cleared entries are never rejected.
ClearForgetsToReject(l) ==
    /\ l \in lanes
    /\ queue' = [queue EXCEPT ![l] = <<>>]
    /\ UNCHANGED <<gatewayDraining, lanes, activeTaskIds, maxConcurrent,
                   generation, laneOf, hasTimeout, taskGeneration, body,
                   promise, waiter>>

\* clearCommandLane: queued entries are rejected, running ones stay.
ClearCommandLane(l) ==
    /\ l \in lanes
    /\ queue' = [queue EXCEPT ![l] = <<>>]
    /\ promise' = [t \in Tasks |->
           IF \E i \in 1..Len(queue[l]) : queue[l][i] = t
           THEN "lane-cleared" ELSE promise[t]]
    /\ UNCHANGED <<gatewayDraining, lanes, activeTaskIds, maxConcurrent,
                   generation, laneOf, hasTimeout, taskGeneration, body, waiter>>

\* Mutants: a reset forgets to bump the generation, or counts it down.
SameGeneration(D) == generation
GenerationCountsDown(D) ==
    [l \in Lanes |-> IF l \in D THEN generation[l] - 1 ELSE generation[l]]

\* The generations once the lanes of D are reset.
NextGeneration(D) ==
    [l \in Lanes |-> IF l \in D THEN generation[l] + 1 ELSE generation[l]]

\* resetCommandLane (D is one lane) and resetAllLanes (D is every lane of the
\* map, and the gateway accepts work again).
ResetLanes(D) ==
    LET gen == NextGeneration(D)
    IN  /\ \A l \in D : generation[l] < MaxGeneration
        /\ generation' = gen
        /\ UNCHANGED <<lanes, maxConcurrent, laneOf, hasTimeout, promise>>
        /\ Drain(D, queue,
                 [l \in Lanes |-> IF l \in D THEN {} ELSE activeTaskIds[l]],
                 gen, body)
        /\ NotifyActiveTaskWaiters

ResetCommandLane(l) ==
    /\ l \in lanes
    /\ ResetLanes({l})
    /\ UNCHANGED gatewayDraining

ResetAllLanes ==
    /\ ResetLanes(lanes)
    /\ gatewayDraining' = FALSE

MarkGatewayDraining ==
    /\ gatewayDraining' = TRUE
    /\ UNCHANGED <<lanes, queue, activeTaskIds, maxConcurrent, generation,
                   laneOf, hasTimeout, taskGeneration, body, promise, waiter>>

\* waitForActiveTasks: capture the entries holding a slot now, and wait for
\* them unless there are none (drained at once) or the caller's timeoutMs is
\* zero (gave up at once); a positive timeoutMs arms a timer.
WaitForActiveTasks(w, timeoutMs) ==
    LET activeAtStart == UNION {activeTaskIds[l] : l \in lanes}
    IN  /\ waiter[w].status = "idle"
        /\ waiter' = [waiter EXCEPT ![w] =
               [taskIds |-> activeAtStart,
                budget  |-> timeoutMs = "positive",
                status  |-> IF activeAtStart = {} THEN "drained"
                            ELSE IF timeoutMs = "zero" THEN "gave-up"
                            ELSE "waiting"]]
        /\ UNCHANGED <<gatewayDraining, lanes, queue, activeTaskIds,
                       maxConcurrent, generation, laneOf, hasTimeout,
                       taskGeneration, body, promise>>

-----------------------------------------------------------------------------
(* Callbacks.                                                              *)

\* Mutant: only a task function that ended gives its slot back.
FreesSlotWhenEnded(t, bod) == /\ taskGeneration[t] = generation[laneOf[t]]
                              /\ bod[t] = "ended"

\* completeTask frees the slot unless the lane was reset since entry t started
\* (bod: the task bodies as they are now).
FreesSlot(t, bod) == taskGeneration[t] = generation[laneOf[t]]

\* The continuation of a started entry: completeTask frees the slot, wakes
\* the waiters and pumps, unless the lane was reset since the entry started;
\* the caller's promise settles in either case.
CompleteTask(t, verdict, bod) ==
    LET l == laneOf[t]
    IN  /\ promise' = [promise EXCEPT ![t] = verdict]
        /\ UNCHANGED <<gatewayDraining, lanes, maxConcurrent, generation,
                       laneOf, hasTimeout>>
        /\ IF FreesSlot(t, bod)
           THEN /\ Drain({l}, queue, [activeTaskIds EXCEPT ![l] = @ \ {t}],
                         generation, bod)
                /\ NotifyActiveTaskWaiters
           ELSE /\ body' = bod
                /\ UNCHANGED <<queue, activeTaskIds, taskGeneration, waiter>>

\* The task function of a started entry returns or throws.
TaskSettles(t, verdict) ==
    /\ body[t] = "running"
    /\ promise[t] = "pending"
    /\ CompleteTask(t, verdict, [body EXCEPT ![t] = "ended"])

\* The lane timeout wins the race: the task function keeps running.
TaskTimesOut(t) ==
    /\ body[t] = "running"
    /\ promise[t] = "pending"
    /\ t \in hasTimeout
    /\ CompleteTask(t, "timed-out", body)

\* The task function of an entry that timed out ends: a late rejection is
\* logged, nothing else happens.
LateTaskSettles(t) ==
    /\ body[t] = "running"
    /\ promise[t] = "timed-out"
    /\ body' = [body EXCEPT ![t] = "ended"]
    /\ UNCHANGED <<gatewayDraining, lanes, queue, activeTaskIds, maxConcurrent,
                   generation, laneOf, hasTimeout, taskGeneration, promise,
                   waiter>>

\* The timer of a waiter that was given a budget fires.
WaiterTimesOut(w) ==
    /\ waiter[w].status = "waiting"
    /\ waiter[w].budget
    /\ waiter' = [waiter EXCEPT ![w].status = "gave-up"]
    /\ UNCHANGED <<gatewayDraining, lanes, queue, activeTaskIds, maxConcurrent,
                   generation, laneOf, hasTimeout, taskGeneration, body, promise>>

Next ==
    \/ \E l \in Lanes, t \in Tasks, timed \in BOOLEAN : Enqueue(l, t, timed)
    \/ \E t \in Tasks : EnqueueRefused(t)
    \/ \E l \in Lanes, n \in 0..MaxConcurrency : SetCommandLaneConcurrency(l, n)
    \/ \E l \in Lanes : ClearCommandLane(l)
    \/ \E l \in Lanes : ResetCommandLane(l)
    \/ ResetAllLanes
    \/ MarkGatewayDraining
    \/ \E w \in Waiters, timeoutMs \in {"none", "zero", "positive"} :
           WaitForActiveTasks(w, timeoutMs)
    \/ \E t \in Tasks, verdict \in {"fulfilled", "rejected"} :
           TaskSettles(t, verdict)
    \/ \E t \in Tasks : TaskTimesOut(t)
    \/ \E t \in Tasks : LateTaskSettles(t)
    \/ \E w \in Waiters : WaiterTimesOut(w)

Spec == Init /\ [][Next]_vars

-----------------------------------------------------------------------------
(* Safety.                                                                 *)

Queued(l) == {queue[l][i] : i \in 1..Len(queue[l])}

\* No lost wakeup: whenever control returns to the event loop, a lane with
\* waiting entries has no free slot.  Every path that frees a slot, raises the
\* cap or adds an entry has to pump (completeTask's callers, resetCommandLane,
\* resetAllLanes, setCommandLaneConcurrency, enqueueCommandInLane).
WorkConserving ==
    \A l \in Lanes :
        queue[l] # <<>> => Cardinality(activeTaskIds[l]) >= maxConcurrent[l]

\* No slot leak and no stale completion: an entry holds a slot of its lane
\* exactly while its promise is unsettled and the lane was not reset since it
\* started.  A timed-out body and a body of an earlier generation hold none.
SlotsMatchRunningEntries ==
    \A l \in Lanes, t \in Tasks :
        t \in activeTaskIds[l] <=> /\ laneOf[t] = l
                                  /\ body[t] = "running"
                                  /\ promise[t] = "pending"
                                  /\ taskGeneration[t] = generation[l]

\* An entry waits in the queue it was put in, once, and only while it has
\* neither started nor been rejected: clear, reset and pump never duplicate
\* or strand it.
EntryWaitsOnceOrNever ==
    \A l \in Lanes :
        /\ \A i, j \in 1..Len(queue[l]) : queue[l][i] = queue[l][j] => i = j
        /\ Queued(l) = {t \in Tasks : /\ laneOf[t] = l
                                      /\ body[t] = "not-started"
                                      /\ promise[t] = "pending"}

\* waitForActiveTasks never sleeps on tasks that are all gone: a waiter still
\* waiting has a captured task that holds a slot.
NoForgottenWaiter ==
    \A w \in Waiters :
        waiter[w].status = "waiting" =>
            \E l \in Lanes : activeTaskIds[l] \cap waiter[w].taskIds # {}

\* A step that starts entries in a lane leaves the lane within its cap, also
\* when the cap was lowered below the number of running tasks before.
StartsWithinCap ==
    [][\A l \in Lanes :
          ~(activeTaskIds'[l] \subseteq activeTaskIds[l])
              => Cardinality(activeTaskIds'[l]) <= maxConcurrent'[l]]_vars

\* Lanes are FIFO: entries leave a queue from its head only, to start or to be
\* rejected by a clear, and the ones behind keep their order; a new entry goes
\* behind all of them.
EntriesLeaveInOrder ==
    [][\A l \in Lanes : \E n \in 0..Len(queue[l]) :
          LET kept == SubSeq(queue[l], n + 1, Len(queue[l]))
          IN  /\ Len(kept) <= Len(queue'[l])
              /\ SubSeq(queue'[l], 1, Len(kept)) = kept
              /\ \A i \in 1..n : \/ body'[queue[l][i]] = "running"
                                \/ promise'[queue[l][i]] = "lane-cleared"]_vars

-----------------------------------------------------------------------------
(* Liveness.  Fairness is what the event loop gives: an armed timer fires.  *)
(* A task function owes nothing.  A lane held at concurrency 0 is resumed    *)
(* by the timer that scheduleLaneAutoResume (agents/session-suspension.ts)   *)
(* arms with every suspension.                                               *)

ResumeLane(l) ==
    /\ maxConcurrent[l] = 0
    /\ SetCommandLaneConcurrency(l, MaxConcurrency)

TimersFire ==
    /\ \A t \in Tasks : WF_vars(TaskTimesOut(t))
    /\ \A w \in Waiters : WF_vars(WaiterTimesOut(w))
    /\ \A l \in Lanes : WF_vars(ResumeLane(l))

LiveSpec == Spec /\ TimersFire

AllCommandsTimed ==
    \A t \in Tasks : promise[t] = "pending" => t \in hasTimeout

\* `the lane is released so queued work is not blocked forever'
\* (CommandLaneTaskTimeoutError): when every command has a timeout, every
\* promise settles although no task function ever returns.
HungTasksDoNotBlockLane ==
    []AllCommandsTimed =>
        \A t \in Tasks : promise[t] = "pending" ~> promise[t] \in Settled
=============================================================================

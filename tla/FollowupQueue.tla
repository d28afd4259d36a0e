---------------------------- MODULE FollowupQueue ----------------------------
(***************************************************************************)
(* The followup queue of one session key, src/src/auto-reply/reply/queue:  *)
(* messages that arrive while the session's agent is busy wait in a queue  *)
(* object, and an asynchronous drain feeds them to the agent one by one,   *)
(* or coalesced in collect mode, once the active run ends.  /stop replaces *)
(* the map entry of the key while a drain of the old queue object may      *)
(* still be in the middle of an await.                                     *)
(*                                                                         *)
(* One action is one synchronous stretch of JavaScript; every await of the *)
(* drain loop (the debounce, the call of the runner, the agent run) ends   *)
(* one.  A queue object's `draining' flag is TRUE exactly while its drain  *)
(* is not idle, so the drain's program counter stands for it.  `lastRun'   *)
(* is set by every enqueue and cleared by /stop together with the drops,   *)
(* so the tests on it after a drop never fail and are left out.  Every     *)
(* message has a message id; the id cache outlives the behaviours modelled.*)
(***************************************************************************)
EXTENDS Naturals, Sequences, FiniteSets

CONSTANTS
    Messages,   \* inbound messages, identified by their message id
    Route,      \* message -> its route key, "none" or "cross" (not routable)
    Auth,       \* message -> its authorization key
    Settings,   \* queue settings a message may bring: [mode, cap, drop]
    MaxQueues,  \* bound: queue objects of the key alive at the same time
    StopAllowed \* bound: whether /stop may be used

ASSUME MessageAttributes == DOMAIN Route = Messages /\ DOMAIN Auth = Messages
ASSUME SettingsAssumption ==
    /\ Settings # {}
    /\ Settings \subseteq [mode : {"followup", "collect"},
                           cap : Nat \ {0}, drop : {"summarize", "old", "new"}]
ASSUME QueuesAssumption == MaxQueues \in Nat \ {0} /\ StopAllowed \in BOOLEAN

Queues == 1..MaxQueues      \* queue objects; 0 stands for no entry in the map
NoRun == 0                  \* values of replyRun besides the queue objects:
MainRun == MaxQueues + 1    \* no run, and a run started by an inbound message

VARIABLES
    current,    \* FOLLOWUP_QUEUES.get(key), or 0
    queues,     \* queue object -> items, dropped messages, settings
    drain,      \* queue object -> where its drain is
    replyRun,   \* who holds the reply operation of the session
    accepted,   \* messages pushed to a queue, in order
    delivered,  \* messages in the prompts of successful runs, in order
    reported,   \* messages counted in an overflow summary that was delivered
    evicted,    \* messages dropped under "old"
    cleared,    \* messages cleared by /stop
    stoppedMidDrain \* /stop replaced the entry of a queue that was draining

vars == <<current, queues, drain, replyRun, accepted, delivered, reported,
          evicted, cleared, stoppedMidDrain>>
history == <<accepted, delivered, reported, evicted, cleared, stoppedMidDrain>>

Elems(s) == {s[i] : i \in 1..Len(s)}
DropFirst(n, s) == SubSeq(s, n + 1, Len(s))

\* Type correctness of the queue objects and of the drains that share them.
TypeOK ==
    /\ current \in 0..MaxQueues
    /\ \A q \in Queues :
        /\ Elems(queues[q].items) \subseteq Messages
        /\ queues[q].dropped \subseteq Messages
        /\ queues[q].settings \in Settings
        /\ drain[q].pc \in {"idle", "debounce", "starting", "running"}
        /\ Elems(drain[q].batch) \cup Elems(drain[q].rest) \subseteq Messages
        /\ drain[q].shift \in Nat
        /\ drain[q].report \subseteq Messages
        /\ drain[q].force \in BOOLEAN
        /\ drain[q].pc = "running" <=> replyRun = q
    /\ replyRun \in 0..MainRun

FreshQueue == [items |-> <<>>, dropped |-> {},
               settings |-> CHOOSE s \in Settings : TRUE]

\* A drain: the messages in the prompt of its next or current run, how many
\* items it takes off the queue when the run succeeds, the drops its prompt
\* reports, the collected messages left for further groups, and
\* collectState.forceIndividualCollect.
Idle == [pc |-> "idle", batch |-> <<>>, shift |-> 0, report |-> {},
         rest |-> <<>>, force |-> FALSE]

Init ==
    /\ current = 0
    /\ queues = [q \in Queues |-> FreshQueue]
    /\ drain = [q \in Queues |-> Idle]
    /\ replyRun = MainRun
    /\ accepted = <<>> /\ delivered = <<>>
    /\ reported = {} /\ evicted = {} /\ cleared = {}
    /\ stoppedMidDrain = FALSE

-----------------------------------------------------------------------------
(* The drain loop.                                                         *)

Spent(z) == z.items = <<>> /\ z.dropped = {}

\* Mutant: the finally block deletes the map entry whatever it points to.
EntryAfterDrainUnguarded(cur, q) == 0

\* The map entry after the finally block of a drain of q that left q spent:
\* deleted only if it still points to q.
EntryAfterDrain(cur, q) == IF cur = q THEN 0 ELSE cur

\* The head of the drain loop of q, with map entry cur, queue objects qs and
\* drains dr: go and wait for the debounce, or leave through the finally block.
LoopHead(cur, q, qs, dr, force) ==
    IF Spent(qs[q])
    THEN /\ current' = EntryAfterDrain(cur, q)
         /\ queues' = [qs EXCEPT ![q] = FreshQueue]
         /\ drain' = [dr EXCEPT ![q] = Idle]
    ELSE /\ current' = cur
         /\ queues' = qs
         /\ drain' = [dr EXCEPT ![q] = [Idle EXCEPT !.pc = "debounce",
                                                   !.force = force]]

\* scheduleFollowupDrain: beginQueueDrain on the key's map entry.
ScheduleFollowupDrain(cur, qs, dr) ==
    IF cur # 0 /\ dr[cur].pc = "idle"
    THEN LoopHead(cur, cur, qs, dr, FALSE)
    ELSE current' = cur /\ queues' = qs /\ drain' = dr

\* The drain of q leaves its loop by break or by an error that the catch block
\* swallows: the finally block deletes a spent queue and reschedules the key
\* otherwise.
LeaveLoop(q) ==
    IF Spent(queues[q])
    THEN LoopHead(current, q, queues, drain, FALSE)
    ELSE ScheduleFollowupDrain(current, queues, [drain EXCEPT ![q] = Idle])

\* hasCrossChannelItems
HasCrossChannelItems(items) ==
    LET routes == {Route[m] : m \in Elems(items)}
    IN  "cross" \in routes \/ Cardinality(routes) > 1

\* Mutant: collected messages are not split by authorization.
WholeBatch(items) == items

\* The first group of splitCollectItemsByAuthorization: the longest prefix
\* with one authorization key.
FirstGroup(items) ==
    LET same(n) == \A i \in 1..n : Auth[items[i]] = Auth[items[1]]
        n == CHOOSE n \in 1..Len(items) :
                 same(n) /\ (n = Len(items) \/ ~same(n + 1))
    IN  SubSeq(items, 1, n)

\* Mutant: building the summary clears the state it reads.
CallRunnerTakingDrops(q, batch, shift, report, rest, force) ==
    /\ drain' = [drain EXCEPT ![q] =
           [pc |-> "starting", batch |-> batch, shift |-> shift,
            report |-> report, rest |-> rest, force |-> force]]
    /\ queues' = [queues EXCEPT ![q].dropped = @ \ report]
    /\ UNCHANGED current

\* effectiveRunFollowup is called; q's messages stay queued until it returns.
CallRunner(q, batch, shift, report, rest, force) ==
    /\ drain' = [drain EXCEPT ![q] =
           [pc |-> "starting", batch |-> batch, shift |-> shift,
            report |-> report, rest |-> rest, force |-> force]]
    /\ UNCHANGED <<current, queues>>

\* drainCollectItemIfNeeded: the queue is mixed, or was before in this drain.
DrainsIndividually(q) ==
    drain[q].force \/ HasCrossChannelItems(queues[q].items)

\* previewQueueSummaryPrompt reads a copy of the summary state.
PendingSummary(z) == IF z.settings.drop = "summarize" THEN z.dropped ELSE {}

CollectStep(q) ==
    LET items == queues[q].items
        summary == PendingSummary(queues[q])
        force == drain[q].force \/ HasCrossChannelItems(items)
    IN  \/ /\ items # <<>> /\ DrainsIndividually(q)
           /\ CallRunner(q, <<Head(items)>>, 1, {}, <<>>, force)
        \/ /\ items # <<>> /\ ~DrainsIndividually(q)
           /\ LET group == FirstGroup(items)
              IN  CallRunner(q, group, Len(group), summary,
                             DropFirst(Len(group), items), force)
        \/ /\ items = <<>> /\ summary # {}
           /\ CallRunner(q, <<>>, 0, summary, <<>>, force)
        \/ /\ items = <<>> /\ summary = {}
           /\ LeaveLoop(q)

FollowupStep(q) ==
    LET items == queues[q].items
        summary == PendingSummary(queues[q])
    IN  \/ /\ items # <<>>
           /\ CallRunner(q, IF summary = {} THEN <<Head(items)>> ELSE <<>>, 1,
                         summary, <<>>, drain[q].force)
        \/ /\ items = <<>>
           /\ LeaveLoop(q)

\* The debounce is over: one pass through the loop body, to its next await.
DebounceElapsed(q) ==
    /\ drain[q].pc = "debounce"
    /\ IF queues[q].settings.mode = "collect" THEN CollectStep(q)
                                              ELSE FollowupStep(q)
    /\ UNCHANGED <<replyRun, history>>

\* Mutant: the runner takes over the reply operation of another run.
StartRunRegardless(q) ==
    /\ drain[q].pc = "starting"
    /\ replyRun' = q
    /\ drain' = [drain EXCEPT ![q].pc = "running"]
    /\ UNCHANGED <<current, queues, history>>

\* The runner creates the reply operation of the followup run, or throws
\* ReplyRunAlreadyActiveError.
StartRun(q) ==
    /\ drain[q].pc = "starting"
    /\ \/ /\ replyRun = NoRun
          /\ replyRun' = q
          /\ drain' = [drain EXCEPT ![q].pc = "running"]
          /\ UNCHANGED <<current, queues>>
       \/ /\ replyRun # NoRun
          /\ LeaveLoop(q)
          /\ UNCHANGED replyRun
    /\ UNCHANGED history

\* Mutants: a run of a single message leaves it queued; the whole collected
\* snapshot leaves with the first group.
ItemStays(z, d) ==
    [z EXCEPT !.items = IF Len(d.batch) > 1 THEN DropFirst(d.shift, @) ELSE @,
              !.dropped = IF d.report = {} THEN @ ELSE {}]
SnapshotLeaves(z, d) ==
    [z EXCEPT !.items = DropFirst(d.shift + Len(d.rest), @),
              !.dropped = IF d.report = {} THEN @ ELSE {}]

\* What a successful run takes off its queue: items.shift() or splice(0, n),
\* and clearQueueSummaryState when its prompt carried a summary.
AfterRun(z, d) ==
    [z EXCEPT !.items = DropFirst(d.shift, @),
              !.dropped = IF d.report = {} THEN @ ELSE {}]

\* The followup run of q returned; the next group is called or the loop goes on.
RunSucceeds(q) ==
    LET d == drain[q]
        qs == [queues EXCEPT ![q] = AfterRun(@, d)]
        group == FirstGroup(d.rest)
    IN  /\ d.pc = "running"
        /\ replyRun' = NoRun
        /\ delivered' = delivered \o d.batch
        /\ reported' = reported \cup d.report
        /\ UNCHANGED <<accepted, evicted, cleared, stoppedMidDrain>>
        /\ \/ /\ d.rest = <<>>
              /\ LoopHead(current, q, qs, drain, d.force)
           \/ /\ d.rest # <<>>
              /\ current' = current
              /\ queues' = qs
              /\ drain' = [drain EXCEPT ![q] =
                     [pc |-> "starting", batch |-> group, shift |-> Len(group),
                      report |-> {}, rest |-> DropFirst(Len(group), d.rest),
                      force |-> d.force]]

\* The followup run of q throws.
RunFails(q) ==
    /\ drain[q].pc = "running"
    /\ replyRun' = NoRun
    /\ LeaveLoop(q)
    /\ UNCHANGED history

-----------------------------------------------------------------------------
(* Inbound messages, the run they start, and /stop.                        *)

\* Mutant: a duplicate is not recognised.
NeverSeen(m) == TRUE

\* Neither the queue nor the cache of recent message ids knows the message.
NotSeen(m) == m \notin Elems(accepted)

\* How many entries applyQueueDropPolicy has to drop for one more to fit.
Overflow(z) ==
    IF Len(z.items) < z.settings.cap THEN 0
    ELSE Len(z.items) - z.settings.cap + 1

\* Mutant: after the enqueue nobody looks whether the active run is over.
ScheduleUnlessActiveForgotten(q, qs) ==
    current' = q /\ queues' = qs /\ UNCHANGED drain

\* The active run is checked again after the enqueue; its end drains the queue
\* if it is still there, and the queue is drained now if it is not.
ScheduleUnlessActive(q, qs) ==
    IF replyRun = NoRun THEN ScheduleFollowupDrain(q, qs, drain)
    ELSE current' = q /\ queues' = qs /\ UNCHANGED drain

\* A message whose turn saw an active run (a snapshot that may be stale by
\* now) is enqueued: enqueueFollowupRun and the code around its call.
Enqueue(m, s) ==
    LET alive == {q \in Queues : q = current \/ drain[q].pc # "idle"}
        q == IF current # 0 THEN current
             ELSE CHOOSE f \in Queues \ alive : \A g \in Queues \ alive : f <= g
        z == [queues[q] EXCEPT !.settings = s]
        n == Overflow(z)
        victims == Elems(SubSeq(z.items, 1, n))
        pushed == [z EXCEPT
            !.items = Append(DropFirst(n, @), m),
            !.dropped = IF s.drop = "summarize" THEN @ \cup victims ELSE @]
        accepts == NotSeen(m) /\ (n = 0 \/ s.drop # "new")
    IN  /\ current # 0 \/ alive # Queues
        /\ ScheduleUnlessActive(q,
               [queues EXCEPT ![q] = IF accepts THEN pushed ELSE z])
        /\ accepted' = IF accepts THEN Append(accepted, m) ELSE accepted
        /\ evicted' = IF accepts /\ s.drop = "old" THEN evicted \cup victims
                                                   ELSE evicted
        /\ UNCHANGED <<replyRun, delivered, reported, cleared, stoppedMidDrain>>

\* A message that finds no active run is run at once, not queued.
MainRunStarts ==
    /\ replyRun = NoRun
    /\ replyRun' = MainRun
    /\ UNCHANGED <<current, queues, drain, history>>

\* Mutant: the end of the run does not drain the queue.
CompleteOnly == UNCHANGED <<current, queues, drain>>

\* completeThen(drainQueuedFollowupsAfterClear)
DrainAfterClear == ScheduleFollowupDrain(current, queues, drain)

MainRunEnds ==
    /\ replyRun = MainRun
    /\ replyRun' = NoRun
    /\ DrainAfterClear
    /\ UNCHANGED history

\* clearSessionQueues, called by /stop, session resets and subagent kills: the
\* entry is deleted and the queue object a drain may be looking at is emptied.
ClearSessionQueues ==
    /\ StopAllowed
    /\ current # 0
    /\ queues' = [queues EXCEPT ![current] = FreshQueue]
    /\ cleared' = cleared \cup Elems(queues[current].items)
                          \cup queues[current].dropped
    /\ stoppedMidDrain' = (stoppedMidDrain \/ drain[current].pc # "idle")
    /\ current' = 0
    /\ UNCHANGED <<drain, replyRun, accepted, delivered, reported, evicted>>

Next ==
    \/ \E m \in Messages, s \in Settings : Enqueue(m, s)
    \/ MainRunStarts
    \/ MainRunEnds
    \/ ClearSessionQueues
    \/ \E q \in Queues : DebounceElapsed(q)
    \/ \E q \in Queues : StartRun(q)
    \/ \E q \in Queues : RunSucceeds(q)
    \/ \E q \in Queues : RunFails(q)

Spec == Init /\ [][Next]_vars

-----------------------------------------------------------------------------
(* Safety.                                                                 *)

\* A queue object that still holds something is the one the map points to, so
\* that later messages and drains find it (`deleting unconditionally would
\* orphan the replacement queue', drain.ts finally block).
NoOrphanedQueue == \A q \in Queues : ~Spent(queues[q]) => q = current

\* Every message that was accepted is still queued or was answered, reported
\* in an overflow summary, evicted under "old", or cleared by /stop.
NoMessageIsLost ==
    \A m \in Elems(accepted) :
        \/ m \in Elems(delivered) \cup reported \cup evicted \cup cleared
        \/ \E q \in Queues : m \in Elems(queues[q].items) \cup queues[q].dropped

\* No message is answered twice, and messages are answered in the order they
\* were accepted; a message that was cleared while its drain ran on may be late.
AnsweredOnceInOrder ==
    \A j \in 1..Len(delivered) : \A i \in 1..(j - 1) :
        /\ delivered[i] # delivered[j]
        /\ \/ delivered[j] \in cleared
           \/ \E k \in 1..Len(accepted) : \E l \in (k + 1)..Len(accepted) :
                  accepted[k] = delivered[i] /\ accepted[l] = delivered[j]

\* The messages of one prompt share one route and one authorization key: a
\* collected prompt never runs a message with the permissions, or sends its
\* answer to the chat, of another.
BatchIsHomogeneous ==
    \A q \in Queues : \A m, n \in Elems(drain[q].batch) :
        Auth[m] = Auth[n] /\ Route[m] = Route[n]

\* Drops leave the summary state only with a run whose prompt reported a
\* summary and succeeded, or by /stop: a failed summary run is retried with
\* the drops intact.
DropsSurviveFailures ==
    [][\A q \in Queues :
          ~(queues[q].dropped \subseteq queues'[q].dropped)
          => reported' # reported \/ cleared' # cleared]_vars

-----------------------------------------------------------------------------
(* What a comment says, and the code does not do.                          *)

\* "a stale active snapshot cannot leave the followup queue idle" (comment in
\* agent-runner.ts): also after /stop, a queue that holds messages while the
\* session runs nothing is being drained.
QueueIsNeverLeftIdle ==
    \A q \in Queues :
        ~Spent(queues[q]) /\ replyRun = NoRun => drain[q].pc # "idle"

-----------------------------------------------------------------------------
(* Liveness.  Timers fire, callbacks run, and the main run ends; a followup *)
(* run that is retried for ever succeeds at some point, and messages stop   *)
(* winning the race for the reply operation at some point.                  *)

LiveSpec ==
    /\ Spec
    /\ WF_vars(MainRunEnds)
    /\ \A q \in Queues : /\ WF_vars(DebounceElapsed(q))
                         /\ WF_vars(StartRun(q))
                         /\ SF_vars(RunSucceeds(q))

Settled(m) == m \in Elems(delivered) \cup reported \cup evicted \cup cleared

\* `Enqueue each message for a later agent turn after the current run ends':
\* unless /stop interrupts a drain, every accepted message is answered.
EveryMessageIsAnswered ==
    <>[][~MainRunStarts]_vars =>
        \A m \in Messages : m \in Elems(accepted) ~> Settled(m) \/ stoppedMidDrain
=============================================================================

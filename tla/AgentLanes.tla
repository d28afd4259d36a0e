------------------------------ MODULE AgentLanes ------------------------------
(***************************************************************************)
(* How agent runs use the command queue: runEmbeddedPiAgent enqueues every *)
(* run in the lane of its session, and from there in a global lane, so     *)
(* that a run holds a slot of both while its body executes.  A manual cron *)
(* run holds a slot of the lane "cron" around that.  On top of the lanes:  *)
(* run timeouts, /stop, interrupts that clear a session's lane, recovery   *)
(* of stuck sessions, quota suspension of a global lane with its timed     *)
(* resume, configuration reloads and in-process restarts.                  *)
(*                                                                         *)
(* The lanes are those of CommandQueue, with the synchronous cascade the   *)
(* nesting adds: a session entry that starts enqueues its global entry in  *)
(* the same stretch of code.  An entry of a lane is named by its run, as a *)
(* run has one entry per lane at most.  A slot that a reset took away is   *)
(* never given back again: that is what the lane generations are for.      *)
(***************************************************************************)
EXTENDS Naturals, Sequences, FiniteSets, SequencesExt

CONSTANTS
    Runs,         \* agent runs
    Sessions,     \* session keys
    SessionOf,    \* run -> its session
    Origin,       \* run -> "message", "cron" (a tick's run) or "manual" (cron.run)
    Caps,         \* bound: the versions of the configuration, each [main, cron]
    MaxFaults     \* bound: suspensions, restarts, recoveries of a session, changed caps

Versions == 1..Len(Caps)
GlobalLanes == {"main", "cron", "cron-nested"}
Lanes == GlobalLanes \cup Sessions

ASSUME RunsAssumption ==
    /\ SessionOf \in [Runs -> Sessions] /\ Sessions \cap GlobalLanes = {}
    /\ Origin \in [Runs -> {"message", "cron", "manual"}]
    /\ IsFiniteSet(Runs) /\ IsFiniteSet(Sessions)
ASSUME CapsAssumption ==
    /\ Caps \in Seq([main : Nat \ {0}, cron : Nat \ {0}]) /\ Caps # <<>>
    /\ MaxFaults \in Nat

VARIABLES
    queue,      \* lane -> runs waiting in it, oldest first
    active,     \* lane -> runs holding one of its slots
    stage,      \* run -> how far its entries have come
    bodies,     \* runs whose body executes
    cap,        \* global lane -> its maxConcurrent
    config,     \* the version of the configuration in force
    born,       \* run -> the version it was called with
    suspending, \* lanes whose suspension is being saved, with the run's version
    resume,     \* global lane -> the cap its resume timer restores, 0 without timer
    draining,   \* gatewayDraining
    aborted,    \* runs whose abort signal is set
    refused,    \* runs that an enqueue turned away while the gateway drained
    loose,      \* history: runs that lost a slot to a timeout, a reset or an abort
    kept,       \* history: runs waiting in a lane when the restart began
    faults      \* how many of those there were

vars == <<queue, active, stage, bodies, cap, config, born, suspending, resume, draining,
          aborted, refused, loose, kept, faults>>
laneVars == <<queue, active, stage, bodies, refused>>

Fault == faults < MaxFaults /\ faults' = faults + 1

Stages == {"new", "cron-queued", "cron-body", "session-queued", "lane-queued", "running",
           "unwinding", "cron-unwinding", "over"}
Under == Stages \ {"new", "over"}

\* Type correctness of the lanes, the runs in them and the suspensions.  The
\* lane of a session has one slot.
TypeOK ==
    /\ queue \in [Lanes -> Seq(Runs)] /\ active \in [Lanes -> SUBSET Runs]
    /\ \A s \in Sessions : Cardinality(active[s]) <= 1
    /\ stage \in [Runs -> Stages] /\ bodies \subseteq Runs
    /\ cap \in [GlobalLanes -> Nat] /\ config \in Versions /\ born \in [Runs -> Versions]
    /\ suspending \subseteq [lane : GlobalLanes, version : Versions]
    /\ resume \in [GlobalLanes -> Nat] /\ draining \in BOOLEAN
    /\ aborted \subseteq Runs /\ refused \subseteq Runs /\ loose \subseteq Runs /\ kept \subseteq Runs
    /\ faults \in 0..MaxFaults

-----------------------------------------------------------------------------
(* Lanes.                                                                  *)

\* The lane a caller asks for.
AskedLane(r) == IF Origin[r] = "message" THEN "main" ELSE "cron"

\* resolveGlobalLane and resolveCronAgentLane.
SameLane(lane) == lane
ResolveGlobalLane(lane) == IF lane = "cron" THEN "cron-nested" ELSE lane

GlobalLane(r) == ResolveGlobalLane(AskedLane(r))

\* applyGatewayLaneConcurrency and resolveLaneResumeConcurrency.
CapOf(v, l) == IF l = "main" THEN Caps[v].main ELSE Caps[v].cron

\* The queues as a value that the pump loops take and return.
Now == [queue |-> queue, active |-> active, stage |-> stage, bodies |-> bodies,
        refused |-> refused]
Becomes(q) == /\ queue' = q.queue /\ active' = q.active /\ stage' = q.stage
              /\ bodies' = q.bodies /\ refused' = q.refused

\* drainLane on a global lane: bodies start.
PumpGlobal(q, l, caps) ==
    LET free == IF caps[l] > Cardinality(q.active[l])
                THEN caps[l] - Cardinality(q.active[l]) ELSE 0
        n == IF Len(q.queue[l]) < free THEN Len(q.queue[l]) ELSE free
        started == {q.queue[l][i] : i \in 1..n}
    IN [q EXCEPT !.queue[l] = SubSeq(@, n + 1, Len(@)), !.active[l] = @ \cup started,
            !.stage = [r \in Runs |-> IF r \notin started THEN @[r]
                                      ELSE IF l = "cron" THEN "cron-body" ELSE "running"],
            !.bodies = IF l = "cron" THEN @ ELSE @ \cup started]

\* The lane of a session has a slot when no run holds it.
AlwaysFree(q, s) == TRUE
SlotFree(q, s) == q.active[s] = {}

\* drainLane on the lane of a session: its task enqueues the run in the global
\* lane, unless the run is aborted or the gateway refuses.
PumpSession(q, s, refuses, caps) ==
    IF q.queue[s] = <<>> \/ ~SlotFree(q, s) THEN q
    ELSE LET r == Head(q.queue[s])
             up == [q EXCEPT !.queue[s] = Tail(@), !.active[s] = @ \cup {r}]
             l == GlobalLane(r)
         IN CASE r \in aborted -> [up EXCEPT !.stage[r] = "unwinding"]
              [] r \notin aborted /\ refuses ->
                      [up EXCEPT !.stage[r] = "unwinding", !.refused = @ \cup {r}]
              [] OTHER ->
                      PumpGlobal([up EXCEPT !.queue[l] = Append(@, r), !.stage[r] = "lane-queued"],
                                 l, caps)

Pump(q, l, refuses, caps) ==
    IF l \in Sessions THEN PumpSession(q, l, refuses, caps) ELSE PumpGlobal(q, l, caps)

\* drainLane on one lane after the other.
PumpInTurn(q, order, refuses, caps) ==
    LET after[i \in 0..Len(order)] ==
            IF i = 0 THEN q ELSE Pump(after[i - 1], order[i], refuses, caps)
    IN after[Len(order)]

\* completeTask: give the slot back and pump, unless a reset took it.
CompleteByCount(q, l, r) ==
    IF q.active[l] = {} THEN q
    ELSE LET gone == IF r \in q.active[l] THEN r ELSE CHOOSE x \in q.active[l] : TRUE
         IN Pump([q EXCEPT !.active[l] = @ \ {gone}], l, draining, cap)
Complete(q, l, r) ==
    IF r \in q.active[l] THEN Pump([q EXCEPT !.active[l] = @ \ {r}], l, draining, cap) ELSE q

-----------------------------------------------------------------------------
(* Runs.                                                                   *)

\* enqueueCommandInLane of run r in lane l, which leaves it at stage at.
\* Turned away, it stays at stage otherwise.
Enqueue(r, l, at, otherwise) ==
    Becomes(IF draining
            THEN [Now EXCEPT !.stage[r] = otherwise, !.refused = @ \cup {r}]
            ELSE Pump([Now EXCEPT !.queue[l] = Append(@, r), !.stage[r] = at], l, FALSE, cap))

\* runEmbeddedPiAgent is called for a message or by a tick of the cron service.
Call(r) ==
    /\ stage[r] = "new" /\ Origin[r] # "manual"
    /\ Enqueue(r, SessionOf[r], "session-queued", "over")
    /\ born' = [born EXCEPT ![r] = config]
    /\ UNCHANGED <<cap, config, suspending, resume, draining, aborted, loose, kept, faults>>

\* enqueueRun of the cron service.
CallManual(r) ==
    /\ stage[r] = "new" /\ Origin[r] = "manual"
    /\ Enqueue(r, "cron", "cron-queued", "over")
    /\ UNCHANGED <<cap, config, born, suspending, resume, draining, aborted, loose, kept, faults>>

\* The manual run gets to its agent turn.
CronBodyCalls(r) ==
    /\ stage[r] = "cron-body"
    /\ Enqueue(r, SessionOf[r], "session-queued", "cron-unwinding")
    /\ born' = [born EXCEPT ![r] = config]
    /\ UNCHANGED <<cap, config, suspending, resume, draining, aborted, loose, kept, faults>>

\* The body ends; if its lane timeout has not fired, its global entry completes.
BodyEnds(r) ==
    /\ r \in bodies
    /\ LET q == [Now EXCEPT !.bodies = @ \ {r}]
       IN Becomes(IF stage[r] = "running"
                  THEN Complete([q EXCEPT !.stage[r] = "unwinding"], GlobalLane(r), r) ELSE q)
    /\ UNCHANGED <<cap, config, born, suspending, resume, draining, aborted, loose, kept, faults>>

\* The lane timeout of the global entry; the body goes on.
TimesOut(r) ==
    /\ stage[r] = "running"
    /\ Becomes(Complete([Now EXCEPT !.stage[r] = "unwinding"], GlobalLane(r), r))
    /\ loose' = loose \cup {r}
    /\ UNCHANGED <<cap, config, born, suspending, resume, draining, aborted, kept, faults>>

\* The session entry completes once its task's promise has settled.
SessionEnds(r) ==
    /\ stage[r] = "unwinding"
    /\ Becomes(Complete([Now EXCEPT !.stage[r] = IF Origin[r] = "manual" THEN "cron-unwinding"
                                                 ELSE "over"], SessionOf[r], r))
    /\ UNCHANGED <<cap, config, born, suspending, resume, draining, aborted, loose, kept, faults>>

CronEnds(r) ==
    /\ stage[r] = "cron-unwinding"
    /\ Becomes(Complete([Now EXCEPT !.stage[r] = "over"], "cron", r))
    /\ UNCHANGED <<cap, config, born, suspending, resume, draining, aborted, loose, kept, faults>>

\* /stop, or the job timeout of a cron run, before the session entry starts.
\* An abort that comes later only makes the body end, which it may anyway.
Abort(r) ==
    /\ stage[r] = "session-queued" /\ r \notin aborted
    /\ aborted' = aborted \cup {r}
    /\ UNCHANGED <<laneVars, cap, config, born, suspending, resume, draining, loose, kept, faults>>

\* The job timeout of a manual run: the cron slot is given back while the
\* agent run unwinds.
JobTimesOut(r) ==
    /\ r \in active["cron"] /\ stage[r] \in {"session-queued", "lane-queued", "running"}
    /\ Becomes(Complete(Now, "cron", r))
    /\ aborted' = aborted \cup {r}
    /\ UNCHANGED <<cap, config, born, suspending, resume, draining, loose, kept, faults>>

-----------------------------------------------------------------------------
(* Sessions: an interrupt, and recovery.                                   *)

\* A message in interrupt mode clears the lane of its session and aborts the
\* body that executes.
ClearSession(s) ==
    LET waiting == {r \in Runs : stage[r] = "session-queued"} \cap ToSet(queue[s])
    IN /\ waiting # {}
       /\ Becomes([Now EXCEPT !.queue[s] = <<>>,
                      !.stage = [r \in Runs |-> IF r \notin waiting THEN @[r]
                                                ELSE IF Origin[r] = "manual" THEN "cron-unwinding"
                                                ELSE "over"]])
       /\ UNCHANGED <<cap, config, born, suspending, resume, draining, aborted, loose, kept, faults>>

\* recoverStuckDiagnosticSession when the aborted run does not end in time.
Recover(s) ==
    /\ \E r \in bodies : SessionOf[r] = s
    /\ Fault
    /\ Becomes(PumpSession([Now EXCEPT !.active[s] = {}], s, draining, cap))
    /\ loose' = loose \cup active[s]
    /\ UNCHANGED <<cap, config, born, suspending, resume, draining, aborted, kept>>

-----------------------------------------------------------------------------
(* Suspension of a global lane.                                            *)

\* A run meets an exhausted quota: suspendSession starts to save that.
Suspend(r) ==
    /\ r \in bodies /\ Fault
    /\ suspending' = suspending \cup {[lane |-> GlobalLane(r), version |-> born[r]]}
    /\ UNCHANGED <<laneVars, cap, config, born, resume, draining, aborted, loose, kept>>

\* Saved: the lane gets no slots, and one timer to restore them.
SuspensionSaved(x) ==
    /\ x \in suspending /\ suspending' = suspending \ {x}
    /\ cap' = [cap EXCEPT ![x.lane] = 0]
    /\ resume' = [resume EXCEPT ![x.lane] = CapOf(x.version, x.lane)]
    /\ UNCHANGED <<laneVars, config, born, draining, aborted, loose, kept, faults>>

SuspensionFails(x) ==
    /\ x \in suspending /\ suspending' = suspending \ {x}
    /\ UNCHANGED <<laneVars, cap, config, born, resume, draining, aborted, loose, kept, faults>>

\* The resume timer: setCommandLaneConcurrency pumps the lane.
ResumeFires(l) ==
    /\ resume[l] > 0
    /\ resume' = [resume EXCEPT ![l] = 0] /\ cap' = [cap EXCEPT ![l] = resume[l]]
    /\ Becomes(PumpGlobal(Now, l, cap'))
    /\ UNCHANGED <<config, born, suspending, draining, aborted, loose, kept, faults>>

-----------------------------------------------------------------------------
(* The gateway.                                                            *)

\* applyGatewayLaneConcurrency, at start-up and on a reload.
ApplyConfig(v) ==
    /\ config' = v
    /\ \/ v = config /\ UNCHANGED faults
       \/ v = config + 1 /\ Fault
    /\ cap' = [l \in GlobalLanes |-> CapOf(v, l)]
    /\ Becomes(PumpInTurn(Now, <<"cron", "cron-nested", "main">>, draining, cap'))
    /\ UNCHANGED <<born, suspending, resume, draining, aborted, loose, kept>>

\* A restart begins: new work is refused.
MarkDraining ==
    /\ ~draining /\ Fault
    /\ draining' = TRUE
    /\ kept' = {r \in Runs : stage[r] \in {"cron-queued", "session-queued", "lane-queued"}}
    /\ UNCHANGED <<laneVars, cap, config, born, suspending, resume, aborted, loose>>

\* resetAllLanes in the next iteration of the run loop: lanes in the order
\* of their creation, those of the configuration first.
ResetAllLanes ==
    /\ draining /\ draining' = FALSE
    /\ \E order \in SetToSeqs(Sessions) :
        Becomes(PumpInTurn([Now EXCEPT !.active = [l \in Lanes |-> {}]],
                           <<"cron", "cron-nested", "main">> \o order, FALSE, cap))
    /\ loose' = loose \cup UNION {active[l] : l \in Lanes}
    /\ UNCHANGED <<cap, config, born, suspending, resume, aborted, kept, faults>>

-----------------------------------------------------------------------------

Init ==
    /\ queue = [l \in Lanes |-> <<>>] /\ active = [l \in Lanes |-> {}]
    /\ stage = [r \in Runs |-> "new"] /\ bodies = {}
    /\ config = 1 /\ born = [r \in Runs |-> 1] /\ cap = [l \in GlobalLanes |-> CapOf(1, l)]
    /\ suspending = {} /\ resume = [l \in GlobalLanes |-> 0] /\ draining = FALSE
    /\ aborted = {} /\ refused = {} /\ loose = {} /\ kept = {}
    /\ faults = 0

Suspensions == [lane : GlobalLanes, version : Versions]

Next ==
    \/ \E r \in Runs : \/ Call(r) \/ CallManual(r) \/ CronBodyCalls(r) \/ BodyEnds(r)
                       \/ TimesOut(r) \/ SessionEnds(r) \/ CronEnds(r) \/ Abort(r)
                       \/ JobTimesOut(r) \/ Suspend(r)
    \/ \E s \in Sessions : ClearSession(s) \/ Recover(s)
    \/ \E x \in Suspensions : SuspensionSaved(x) \/ SuspensionFails(x)
    \/ \E l \in GlobalLanes : ResumeFires(l)
    \/ \E v \in Versions : ApplyConfig(v)
    \/ MarkDraining \/ ResetAllLanes

\* Steps that cannot stay undone, each by what it changes: a run goes on in
\* the stages where a body, its timeout or a continuation is under way (by
\* CronBodyCalls, BodyEnds, TimesOut, SessionEnds or CronEnds), the resume
\* timer of a lane fires, a restart comes to its reset.
RunGoesOn(r) ==
    /\ stage[r] \in {"cron-body", "running", "unwinding", "cron-unwinding"}
    /\ stage' \in [Runs -> Stages] /\ stage'[r] # stage[r]
TimerIsUsed(l) == resume[l] > 0 /\ resume' = [resume EXCEPT ![l] = 0]
RestartGoesOn == draining /\ draining' = FALSE

Fairness ==
    /\ \A r \in Runs : WF_stage(RunGoesOn(r))
    /\ \A l \in GlobalLanes : WF_resume(TimerIsUsed(l))
    /\ WF_draining(RestartGoesOn)

Spec == Init /\ [][Next]_vars /\ Fairness

-----------------------------------------------------------------------------
(* Properties.                                                             *)

\* The levels agree: who waits for or holds a slot of a global lane holds the
\* slot of its session, and a manual run that of "cron" as well, unless a
\* timeout, a reset or a recovery took it away.  So two bodies of one session
\* execute at a time only after one of those.
InnerEntriesHoldOuterSlots ==
    \A r \in Runs \ loose :
        /\ stage[r] \in {"lane-queued", "running", "unwinding"} => active[SessionOf[r]] = {r}
        /\ Origin[r] = "manual" /\ stage[r] \in Under \ {"cron-queued"} /\ r \notin aborted
            => r \in active["cron"]

\* Whatever is suspended, stopped, reset or restarted, every run that was
\* called is settled: no run waits for a slot that itself or a settled run holds.
EveryRunSettles == \A r \in Runs : stage[r] # "new" ~> stage[r] = "over"

\* Work that waits in a lane when a restart begins is executed after it, as
\* the comment of resetAllLanes says: "Queued entries are intentionally
\* preserved".
QueuedWorkSurvivesRestart == kept \cap refused = {}
=============================================================================

----------------------------- MODULE CronService -----------------------------
(***************************************************************************)
(* The cron scheduler of the gateway, src/src/cron/service: jobs kept in   *)
(* memory and in two files (jobs.json holds what the user configured,      *)
(* jobs-state.json the runtime state), one timer whose tick runs the due   *)
(* jobs, manual runs, and a start-up that settles interrupted runs and     *)
(* catches up on missed ones.                                              *)
(*                                                                         *)
(* Every section that reads or writes the store runs under locked(), so    *)
(* one action is one locked section with its save, or one step outside the *)
(* lock: a job starting or ending, a timer firing.  A save may fail before *)
(* anything is written or between the two files.                           *)
(*                                                                         *)
(* Times are kept as far as the code compares them: nextRunAtMs is unset,  *)
(* in the future or due; a running marker is fresh or older than           *)
(* STUCK_RUN_MS; a one-shot's instants are numbered, and lastRunAtMs is    *)
(* the number of instants it is not before.                                *)
(***************************************************************************)
EXTENDS Naturals, FiniteSets

CONSTANTS
    OneShots,          \* jobs of schedule kind "at"
    Recurring,         \* jobs of schedule kind "every"
    DeleteAfterRun,    \* the one-shots deleted after a successful run
    AgentTurns,        \* jobs whose payload is an agent turn
    Calls,             \* manual runs: cron.run calls, and enqueueRun's
    MaxConcurrentRuns, \* cron.maxConcurrentRuns
    MaxMissedJobs,     \* maxMissedJobsPerRestart
    MaxRetries,        \* retry.maxAttempts
    Outcomes,          \* bound: the ways a run ends that the instance considers
    MaxSchedules,      \* bound: instants a one-shot is scheduled for
    MaxEdits,          \* bound: how often the user adds, edits or removes a job
    MaxFaults,         \* bound: how often a save fails
    MaxCrashes         \* bound: how often the process dies

Jobs == OneShots \cup Recurring

ASSUME JobsAssumption ==
    /\ OneShots \cap Recurring = {}
    /\ DeleteAfterRun \subseteq OneShots /\ AgentTurns \subseteq Jobs
    /\ Outcomes \subseteq {"ok", "skipped", "transient", "fatal"}
ASSUME BoundsAssumption ==
    /\ MaxConcurrentRuns \in Nat \ {0} /\ MaxMissedJobs \in Nat
    /\ MaxRetries \in Nat /\ MaxSchedules \in Nat \ {0}
    /\ MaxEdits \in Nat /\ MaxFaults \in Nat /\ MaxCrashes \in Nat

VARIABLES
    config,     \* job -> its entry of jobs.json
    states,     \* job -> its entry of jobs-state.json
    mem,        \* job -> the copy in state.store
    loaded,     \* whether state.store is there
    phase,      \* how far the process and start() have come
    timer,      \* whether state.timer is set
    tick,       \* the tick under way: its jobs to start and its runs
    catchup,    \* the start-up catch-up: the same, and the jobs put off
    calls,      \* manual run -> what it is doing
    passed,     \* one-shot -> how many of its instants have come
    added,      \* jobs whose id has been given out
    edits, faults, crashes,
    robbed,     \* history: jobs under way that were off, gone or declared
                \* interrupted meanwhile, so that their marker may be cleared
    settled     \* history: one-shots whose success is in both files, and
                \* that nobody has run by hand or edited since

vars == <<config, states, mem, loaded, phase, timer, tick, catchup, calls,
          passed, added, edits, faults, crashes, robbed, settled>>

NextRun == {"none", "future", "due"}
Marker == {"none", "fresh", "old"}
Status == {"none", "ok", "skipped", "error"}

NoJob == [there |-> FALSE, on |-> FALSE, sched |-> 0, next |-> "none",
          run |-> "none", last |-> "none", errs |-> 0, spent |-> 0]
NewJob == [NoJob EXCEPT !.there = TRUE, !.on = TRUE]
NoBatch == [pc |-> "idle", todo |-> {}, runs |-> {}, later |-> {}]
NoCall == [pc |-> "idle", job |-> "none", since |-> 0, out |-> "none"]

Run == [job : Jobs, since : 0..MaxSchedules, out : Outcomes \cup {"going"}]

\* Type correctness of both copies of the store and of everything under way.
TypeOK ==
    /\ \A r \in {states[j] : j \in Jobs} \cup {mem[j] : j \in Jobs} :
        /\ r.there \in BOOLEAN /\ r.on \in BOOLEAN
        /\ r.sched \in 0..(MaxSchedules - 1) /\ r.spent \in 0..MaxSchedules
        /\ r.next \in NextRun /\ r.run \in Marker /\ r.last \in Status
        /\ r.errs \in 0..(MaxRetries + 1)
    /\ config \in [Jobs -> [there : BOOLEAN, on : BOOLEAN, sched : 0..(MaxSchedules - 1)]]
    /\ loaded \in BOOLEAN /\ timer \in BOOLEAN
    /\ phase \in {"down", "boot", "plan", "catchup", "arm", "up", "failed"}
    /\ tick.pc \in {"idle", "collect", "run"} /\ catchup.pc \in {"idle", "run"}
    /\ \A b \in {tick, catchup} :
        b.todo \subseteq Jobs /\ b.later \subseteq Jobs /\ b.runs \subseteq Run
    /\ \A c \in Calls : calls[c].pc \in {"idle", "reserve", "exec", "finish", "done"}
    /\ passed \in [OneShots -> 0..MaxSchedules]
    /\ added \subseteq Jobs /\ robbed \subseteq Jobs /\ settled \subseteq OneShots
    /\ edits \in 0..MaxEdits /\ faults \in 0..MaxFaults /\ crashes \in 0..MaxCrashes

-----------------------------------------------------------------------------
(* Jobs, and the times computed for them.                                  *)

Going(b) == {r.job : r \in {q \in b.runs : q.out = "going"}}

\* The jobs being executed at this moment, once per execution.
Executions(j) ==
    Cardinality({r \in tick.runs : r.job = j /\ r.out = "going"})
    + Cardinality({r \in catchup.runs : r.job = j /\ r.out = "going"})
    + Cardinality({c \in Calls : calls[c].pc = "exec" /\ calls[c].job = j})

\* The jobs some activity has marked and runs, will run or has still to record.
Claimed == tick.todo \cup catchup.todo \cup {r.job : r \in tick.runs \cup catchup.runs}
           \cup {calls[c].job : c \in {d \in Calls : calls[d].pc \in {"exec", "finish"}}}

Instant(j, r) == IF r.sched < passed[j] THEN "due" ELSE "future"

\* computeJobNextRunAtMs
ComputeNext(j, r) ==
    CASE ~r.on -> "none"
      [] r.on /\ j \in Recurring -> "future"
      [] r.on /\ j \in OneShots /\ r.last = "ok" /\ r.sched < r.spent -> "none"
      [] OTHER -> Instant(j, r)

\* normalizeJobTickState, then Recompute for the jobs it does not skip.
Walk(j, r, Recompute(_)) ==
    CASE ~r.there -> r
      [] r.there /\ ~r.on -> [r EXCEPT !.next = "none", !.run = "none"]
      [] r.there /\ r.on /\ r.run = "old" -> [r EXCEPT !.run = "none"]
      [] OTHER -> Recompute(r)

\* recomputeNextRuns: sets every next run that is missing or past due.
RecomputeAll(m) ==
    [j \in Jobs |-> LET Fill(r) == IF r.next # "future"
                                   THEN [r EXCEPT !.next = ComputeNext(j, r)] ELSE r
                    IN Walk(j, m[j], Fill)]

\* Every marker is taken for a stale one.
MaintainDroppingMarkers(m) ==
    [j \in Jobs |-> LET Fill(r) == IF r.next = "none"
                                   THEN [r EXCEPT !.next = ComputeNext(j, r)] ELSE r
                    IN Walk(j, [m[j] EXCEPT !.run = "none"], Fill)]

\* recomputeNextRunsForMaintenance: fills in what is missing, and leaves what
\* is past due to the tick that will run it.  (What recomputeExpired adds moves
\* only a slot that a run has already taken: none of an "every" job, and for an
\* "at" job it finds the same instant again.)
Maintain(m) ==
    [j \in Jobs |-> LET Fill(r) == IF r.next = "none"
                                   THEN [r EXCEPT !.next = ComputeNext(j, r)] ELSE r
                    IN Walk(j, m[j], Fill)]

\* One-shots are treated like recurring jobs.
ReschedulesAll(j, r, out, since) ==
    [r EXCEPT !.run = "none", !.next = IF r.on THEN "future" ELSE "none"]

\* The outcome is stored unclassified.
StoresOutcome(j, r, out, since) == [r EXCEPT !.run = "none", !.last = out, !.next = "none"]

\* applyJobResult: what a run that began after `since` instants leaves behind.
\* A recurring job runs again later whatever became of the last run, so its
\* last status and its errors, which only stretch the delay, are not kept.
ApplyJobResult(j, r, out, since) ==
    LET success == out \in {"ok", "skipped"}
        errs == IF success THEN 0 ELSE IF r.errs > MaxRetries THEN r.errs ELSE r.errs + 1
        told == [r EXCEPT !.run = "none", !.spent = since, !.errs = errs,
                          !.last = IF success THEN out ELSE "error"]
    IN CASE j \in Recurring ->
                [r EXCEPT !.run = "none", !.next = IF r.on THEN "future" ELSE "none"]
         [] j \in DeleteAfterRun /\ out = "ok" -> NoJob
         [] j \in OneShots /\ out = "transient" /\ errs <= MaxRetries ->
                [told EXCEPT !.next = "future"]
         [] OTHER -> [told EXCEPT !.on = FALSE, !.next = "none"]

-----------------------------------------------------------------------------
(* The store: loadCronStore, ensureLoaded, persist.                        *)

Identity(r) == <<r.on, r.sched>>

\* mergeStateFileEntry, or backfillMissingRuntimeFields when there is no entry.
Merge(c, st) ==
    CASE ~c.there -> NoJob
      [] c.there /\ ~st.there -> [NewJob EXCEPT !.on = c.on, !.sched = c.sched]
      [] OTHER -> [st EXCEPT !.on = c.on, !.sched = c.sched,
                             !.next = IF Identity(st) = Identity(c) THEN @ ELSE "none"]

\* The files as ensureLoaded reads them, with the next run dropped of a job
\* whose schedule is not the one in memory.
Loaded ==
    [j \in Jobs |->
        LET r == Merge(config[j], states[j])
        IN IF r.there /\ mem[j].there /\ Identity(mem[j]) # Identity(r)
           THEN [r EXCEPT !.next = "none"] ELSE r]

\* What the sections see that do not force a reload.
Store == IF loaded THEN mem ELSE Loaded

ConfigOf(m) == [j \in Jobs |-> [there |-> m[j].there, on |-> m[j].on, sched |-> m[j].sched]]

Writes == {"both", "state", "nothing"}  \* how far saveCronStore gets

Save(m, saveState, saveConfig) ==
    /\ mem' = m /\ loaded' = TRUE
    /\ states' = IF saveState THEN m ELSE states
    /\ config' = IF saveConfig THEN ConfigOf(m) ELSE config

Fails(w) == /\ w # "both" => faults < MaxFaults
            /\ faults' = IF w = "both" THEN faults ELSE faults + 1

\* persist: jobs-state.json first, then jobs.json.
Persist(m, w) == Save(m, w # "nothing", w = "both") /\ Fails(w)

PersistChanges(old, m, w) ==
    IF m # old THEN Persist(m, w) ELSE w = "both" /\ Save(m, FALSE, FALSE) /\ Fails(w)

\* Only a time to come arms the timer.
ArmedForFuture(m) == \E j \in Jobs : m[j].there /\ m[j].on /\ m[j].next = "future"

\* armTimer: a job that is on has a wake or needs the minute's recheck.
Armed(m) == \E j \in Jobs : m[j].there /\ m[j].on

-----------------------------------------------------------------------------
(* start(): settle what a previous process left running, catch up, arm.    *)

Boot ==
    /\ phase = "down" /\ phase' = "boot"
    /\ UNCHANGED <<config, states, mem, loaded, timer, tick, catchup, calls, passed,
                   added, edits, faults, crashes, settled>>

\* markInterruptedStartupRun
Interrupted(j, r) ==
    CASE ~r.there \/ r.run = "none" -> r
      [] r.there /\ r.run # "none" /\ j \in Recurring ->
            [r EXCEPT !.run = "none", !.next = "none"]
      [] OTHER -> [r EXCEPT !.run = "none", !.next = "none", !.on = FALSE, !.last = "error",
                            !.errs = IF @ > MaxRetries THEN @ ELSE @ + 1]

\* The first section of start(): every marker it finds is a run that a
\* previous process did not finish.  The jobs skip this catch-up.  Without any,
\* only jobs-state.json is saved.
StartInterrupted(w) ==
    LET marked == {j \in Jobs : Store[j].run # "none"}
    IN /\ phase = "boot"
       /\ IF marked # {} THEN Persist([j \in Jobs |-> Interrupted(j, Store[j])], w)
          ELSE w # "state" /\ Save(Store, w = "both", FALSE) /\ Fails(w)
       /\ phase' = IF w = "both" THEN "plan" ELSE "failed"
       /\ catchup' = IF w = "both" THEN [NoBatch EXCEPT !.later = marked] ELSE NoBatch
       /\ UNCHANGED <<timer, tick, calls, passed, added, edits, crashes, settled>>

\* isRunnableJob with the options of planStartupCatchup.  Whether the next run
\* of a failed one-shot is a retry, after lastRunAtMs, is not told apart.
Missed(j, r, retries) ==
    /\ r.there /\ r.on /\ r.run = "none" /\ r.next = "due"
    /\ j \in OneShots /\ r.last # "none" => r.last = "error" /\ j \in retries

\* planStartupCatchup: mark what runs now, remember what is put off.
PlanCatchup(w) ==
    /\ phase = "plan"
    /\ \E retries \in SUBSET OneShots :
        LET missed == {j \in Jobs \ catchup.later : Missed(j, Store[j], retries)}
        IN \/ /\ missed = {} /\ w = "both"
              /\ mem' = Store /\ loaded' = TRUE /\ phase' = "arm"
              /\ catchup' = NoBatch
              /\ UNCHANGED <<config, states, faults>>
           \/ \E now \in SUBSET (missed \ AgentTurns) :
              /\ missed # {}
              /\ Cardinality(now) = IF Cardinality(missed \ AgentTurns) < MaxMissedJobs
                                    THEN Cardinality(missed \ AgentTurns) ELSE MaxMissedJobs
              /\ Persist([j \in Jobs |-> IF j \in now
                                         THEN [Store[j] EXCEPT !.run = "fresh"] ELSE Store[j]], w)
              /\ phase' = IF w = "both" THEN "catchup" ELSE "failed"
              /\ catchup' = IF w = "both"
                            THEN [pc |-> "run", todo |-> now, runs |-> {}, later |-> missed \ now]
                            ELSE NoBatch
    /\ UNCHANGED <<timer, tick, calls, passed, added, edits, crashes, settled>>

\* runStartupCatchupCandidate, one candidate after the other.
CatchupStart(j) ==
    /\ j \in catchup.todo /\ Going(catchup) = {}
    /\ catchup' = [catchup EXCEPT !.todo = @ \ {j},
                      !.runs = @ \cup {[job |-> j, out |-> "going",
                                       since |-> IF j \in OneShots THEN passed[j] ELSE 0]}]
    /\ UNCHANGED <<config, states, mem, loaded, phase, timer, tick, calls, passed,
                   added, edits, faults, crashes, settled>>

\* The runs of a batch once the execution of j ends with out.
Ended(b, j, out) ==
    {IF r.job = j /\ r.out = "going" THEN [r EXCEPT !.out = out] ELSE r : r \in b.runs}

CatchupEnd(j, out) ==
    /\ j \in Going(catchup)
    /\ catchup' = [catchup EXCEPT !.runs = Ended(catchup, j, out)]
    /\ UNCHANGED <<config, states, mem, loaded, phase, timer, tick, calls, passed,
                   added, edits, faults, crashes, settled>>

\* applyOutcomeToStoredJob for every result of a batch.
ApplyOutcomes(b, m) ==
    [j \in Jobs |-> IF m[j].there /\ \E r \in b.runs : r.job = j
                    THEN LET r == CHOOSE r \in b.runs : r.job = j
                         IN ApplyJobResult(j, m[j], r.out, r.since)
                    ELSE m[j]]

\* The one-shots of a batch whose run after their instant was a success.
Successes(b) == {r.job : r \in {q \in b.runs : /\ q.job \in OneShots /\ q.out = "ok"
                                               /\ mem[q.job].sched < q.since}}

\* applyStartupCatchupOutcomes: results, then later times for what was put off.
ApplyCatchup(w) ==
    LET applied == ApplyOutcomes(catchup, Store)
        put == [j \in Jobs |-> IF j \in catchup.later /\ applied[j].there /\ applied[j].on
                               THEN [applied[j] EXCEPT !.next = "future"] ELSE applied[j]]
    IN /\ phase = "catchup" /\ catchup.pc = "run"
       /\ catchup.todo = {} /\ Going(catchup) = {}
       /\ Persist(Maintain(put), w)
       /\ settled' = IF w = "both" THEN settled \cup Successes(catchup) ELSE settled
       /\ catchup' = NoBatch
       /\ phase' = IF w = "both" THEN "arm" ELSE "failed"
       /\ UNCHANGED <<timer, tick, calls, passed, added, edits, crashes>>

\* The last section of start(): fill in the next runs and arm the timer.
StartArm(w) ==
    /\ phase = "arm"
    /\ PersistChanges(Store, Maintain(Store), w)
    /\ phase' = IF w = "both" THEN "up" ELSE "failed"
    /\ timer' = IF w = "both" THEN Armed(mem') ELSE timer
    /\ UNCHANGED <<tick, catchup, calls, passed, added, edits, crashes, settled>>

-----------------------------------------------------------------------------
(* onTimer.                                                                *)

Rearmed == TRUE     \* armRunningRecheckTimer

\* The timer fires.  While a tick is under way it only looks again later.
Fire ==
    /\ timer
    /\ tick' = IF tick.pc = "idle" THEN [tick EXCEPT !.pc = "collect"] ELSE tick
    /\ timer' = Rearmed
    /\ UNCHANGED <<config, states, mem, loaded, phase, catchup, calls, passed,
                   added, edits, faults, crashes, settled>>

\* isRunnableJob
Due(r) == r.there /\ r.on /\ r.run = "none" /\ r.next = "due"

\* The first section of a tick: reload, and mark the due jobs before running
\* any of them.  A failed save ends the tick.
Collect(w) ==
    LET due == {j \in Jobs : Due(Loaded[j])}
        m == IF due = {} THEN Maintain(Loaded)
             ELSE [j \in Jobs |-> IF j \in due THEN [Loaded[j] EXCEPT !.run = "fresh"]
                                  ELSE Loaded[j]]
    IN /\ tick.pc = "collect"
       /\ PersistChanges(Loaded, m, w)
       /\ IF due = {} \/ w # "both"
          THEN tick' = NoBatch /\ timer' = Armed(m)
          ELSE tick' = [NoBatch EXCEPT !.pc = "run", !.todo = due] /\ UNCHANGED timer
       /\ UNCHANGED <<phase, catchup, calls, passed, added, edits, crashes, settled>>

\* A worker takes the next due job.
RunStart(j) ==
    /\ j \in tick.todo /\ Cardinality(Going(tick)) < MaxConcurrentRuns
    /\ tick' = [tick EXCEPT !.todo = @ \ {j},
                   !.runs = @ \cup {[job |-> j, out |-> "going",
                                    since |-> IF j \in OneShots THEN passed[j] ELSE 0]}]
    /\ UNCHANGED <<config, states, mem, loaded, phase, timer, catchup, calls, passed,
                   added, edits, faults, crashes, settled>>

RunEnd(j, out) ==
    /\ j \in Going(tick)
    /\ tick' = [tick EXCEPT !.runs = Ended(tick, j, out)]
    /\ UNCHANGED <<config, states, mem, loaded, phase, timer, catchup, calls, passed,
                   added, edits, faults, crashes, settled>>

\* The last section of a tick, when all its jobs have ended.
Apply(w) ==
    /\ tick.pc = "run" /\ tick.todo = {} /\ Going(tick) = {}
    /\ Persist(Maintain(ApplyOutcomes(tick, Loaded)), w)
    /\ settled' = IF w = "both" THEN settled \cup Successes(tick) ELSE settled
    /\ tick' = NoBatch /\ timer' = Armed(mem')
    /\ UNCHANGED <<phase, catchup, calls, passed, added, edits, crashes>>
-----------------------------------------------------------------------------
(* The service's operations.                                               *)

\* ensureLoadedForRead: status, list, listPage, readJob.
Read(w) ==
    /\ phase # "down"
    /\ PersistChanges(Store, Maintain(Store), w)
    /\ UNCHANGED <<phase, timer, tick, catchup, calls, passed, added, edits, crashes, settled>>

Edited == phase # "down" /\ edits < MaxEdits /\ edits' = edits + 1

\* add, of a job that is on.  A failed save leaves it in memory, unarmed.
Add(j, w) ==
    LET base == IF loaded THEN mem ELSE RecomputeAll(Loaded)
        job == [NewJob EXCEPT !.next = ComputeNext(j, NewJob)]
    IN /\ Edited /\ j \notin added /\ added' = added \cup {j}
       /\ Persist(RecomputeAll([base EXCEPT ![j] = job]), w)
       /\ timer' = IF w = "both" THEN Armed(mem') ELSE timer
       /\ UNCHANGED <<phase, tick, catchup, calls, passed, crashes, settled>>

Patches == {"enable", "disable", "reschedule"}

\* update: a patch of the schedule or of `enabled` sets the next run, and takes
\* the running marker of a job that is off.
Patched(j, r, patch) ==
    LET p == CASE patch = "enable" -> [r EXCEPT !.on = TRUE]
               [] patch = "disable" -> [r EXCEPT !.on = FALSE]
               [] patch = "reschedule" -> [r EXCEPT !.sched = @ + 1]
    IN IF p.on THEN [p EXCEPT !.next = ComputeNext(j, p)]
       ELSE [p EXCEPT !.next = "none", !.run = "none"]

Update(j, patch, w) ==
    /\ Edited /\ Store[j].there
    /\ patch = "reschedule" => j \in OneShots /\ Store[j].sched + 1 < MaxSchedules
    /\ Persist([Store EXCEPT ![j] = Patched(j, @, patch)], w)
    /\ timer' = IF w = "both" THEN Armed(mem') ELSE timer
    /\ settled' = settled \ {j}
    /\ UNCHANGED <<phase, tick, catchup, calls, passed, added, crashes>>

Remove(j, w) ==
    LET base == IF loaded THEN mem ELSE RecomputeAll(Loaded)
    IN /\ Edited /\ base[j].there
       /\ Persist([base EXCEPT ![j] = NoJob], w)
       /\ timer' = IF w = "both" THEN Armed(mem') ELSE timer
       /\ UNCHANGED <<phase, tick, catchup, calls, passed, added, crashes, settled>>

\* inspectManualRunPreflight: a run is refused while the job is marked, and
\* without force unless it is due.
Preflight(c, j, force) ==
    LET m == Maintain(Store)
    IN /\ phase # "down" /\ calls[c].pc = "idle" /\ m[j].there
       /\ mem' = m /\ loaded' = TRUE
       /\ IF m[j].run = "none" /\ (force \/ Due(m[j]))
          THEN calls' = [calls EXCEPT ![c] =
                            [NoCall EXCEPT !.pc = "reserve", !.job = j]]
          ELSE UNCHANGED calls
       /\ UNCHANGED <<config, states, phase, timer, tick, catchup, passed,
                      added, edits, faults, crashes, settled>>

RefusedWhenGone(r) == ~r.there
Refused(r) == ~r.there \/ r.run # "none"

\* The second section of prepareManualRun: look again, mark, save, then run.
Reserve(c, w) ==
    LET j == calls[c].job
    IN /\ calls[c].pc = "reserve"
       /\ IF Refused(mem[j])
          THEN /\ w = "both" /\ calls' = [calls EXCEPT ![c] = NoCall]
               /\ UNCHANGED <<config, states, mem, loaded, faults, settled>>
          ELSE /\ Persist([mem EXCEPT ![j].run = "fresh"], w)
               /\ calls' = [calls EXCEPT ![c] =
                    IF w = "both"
                    THEN [@ EXCEPT !.pc = "exec",
                                   !.since = IF j \in OneShots THEN passed[j] ELSE 0]
                    ELSE NoCall]
               /\ settled' = settled \ {j}
       /\ UNCHANGED <<phase, timer, tick, catchup, passed, added, edits, crashes>>

CallEnd(c, out) ==
    /\ calls[c].pc = "exec"
    /\ calls' = [calls EXCEPT ![c].pc = "finish", ![c].out = out]
    /\ UNCHANGED <<config, states, mem, loaded, phase, timer, tick, catchup, passed,
                   added, edits, faults, crashes, settled>>

\* mergeManualRunSnapshotAfterReload: the files, with this job's result.
Merged(j, result) ==
    [Loaded EXCEPT ![j] = CASE ~result.there -> NoJob
                            [] result.there /\ @.there ->
                                [result EXCEPT !.sched = Loaded[j].sched]
                            [] OTHER -> @]

\* The last section of finishPreparedManualRun.
Finish(c, w) ==
    LET j == calls[c].job
    IN /\ calls[c].pc = "finish"
       /\ calls' = [calls EXCEPT ![c] = NoCall]
       /\ IF ~Store[j].there
          THEN w = "both" /\ UNCHANGED <<config, states, mem, loaded, timer, faults, settled>>
          ELSE LET result == ApplyJobResult(j, Store[j], calls[c].out, calls[c].since)
               IN /\ Persist(Maintain(Merged(j, result)), w)
                  /\ timer' = IF w = "both" THEN Armed(mem') ELSE timer
                  /\ settled' = IF /\ w = "both" /\ j \in OneShots /\ calls[c].out = "ok"
                                  /\ Store[j].sched < calls[c].since
                                THEN settled \cup {j} ELSE settled
       /\ UNCHANGED <<phase, tick, catchup, passed, added, edits, crashes>>

-----------------------------------------------------------------------------
(* The clock and the process.                                              *)

Later(r) == [r EXCEPT !.next = IF @ = "future" THEN "due" ELSE @]

\* Every instant fixed so far for j is reached.
TimePasses(j) ==
    /\ phase # "down"
    /\ mem' = [mem EXCEPT ![j] = Later(@)]
    /\ states' = [states EXCEPT ![j] = Later(@)]
    /\ passed' = IF j \in OneShots
                 THEN [passed EXCEPT ![j] = IF mem[j].sched > config[j].sched
                                            THEN mem[j].sched + 1 ELSE config[j].sched + 1]
                 ELSE passed
    /\ UNCHANGED <<config, loaded, phase, timer, tick, catchup, calls,
                   added, edits, faults, crashes, settled>>

Older(r) == [r EXCEPT !.run = IF @ = "fresh" THEN "old" ELSE @]

\* A marker outlives STUCK_RUN_MS.  The run timeouts are shorter, so no job is
\* still at work behind it.
MarkerAges(j) ==
    /\ j \notin Claimed /\ phase # "down"
    /\ mem' = [mem EXCEPT ![j] = Older(@)]
    /\ states' = [states EXCEPT ![j] = Older(@)]
    /\ UNCHANGED <<config, loaded, phase, timer, tick, catchup, calls, passed,
                   added, edits, faults, crashes, settled>>

Crash ==
    /\ phase # "down" /\ crashes < MaxCrashes /\ crashes' = crashes + 1
    /\ phase' = "down" /\ timer' = FALSE /\ loaded' = FALSE
    /\ mem' = [j \in Jobs |-> NoJob]
    /\ tick' = NoBatch /\ catchup' = NoBatch /\ calls' = [c \in Calls |-> NoCall]
    /\ UNCHANGED <<config, states, passed, added, edits, faults, settled>>

-----------------------------------------------------------------------------

Init ==
    /\ \E js \in SUBSET Jobs :
        /\ added = js
        /\ states = [j \in Jobs |-> IF j \in js THEN NewJob ELSE NoJob]
        /\ config = ConfigOf(states)
    /\ mem = [j \in Jobs |-> NoJob] /\ loaded = FALSE
    /\ phase = "down" /\ timer = FALSE /\ tick = NoBatch /\ catchup = NoBatch
    /\ calls = [c \in Calls |-> NoCall] /\ passed = [j \in OneShots |-> 0]
    /\ edits = 0 /\ faults = 0 /\ crashes = 0 /\ robbed = {} /\ settled = {}

\* History: a job under way that is off or gone, or whose marker start() takes
\* for one of a previous process.
Remember ==
    robbed' = {j \in Claimed' : \/ j \in robbed \/ ~mem'[j].there \/ ~mem'[j].on
                                \/ phase = "boot" /\ phase' # "boot"}

Starting == Boot /\ Remember
Start == /\ \/ \E w \in Writes : \/ StartInterrupted(w) \/ PlanCatchup(w)
                                 \/ ApplyCatchup(w) \/ StartArm(w)
            \/ \E j \in Jobs : CatchupStart(j) \/ \E out \in Outcomes : CatchupEnd(j, out)
         /\ Remember
Tick == /\ \/ Fire
           \/ \E w \in Writes : Collect(w) \/ Apply(w)
           \/ \E j \in Jobs : RunStart(j) \/ \E out \in Outcomes : RunEnd(j, out)
        /\ Remember
ManualRun(c) == /\ \/ \E w \in Writes : Reserve(c, w) \/ Finish(c, w)
                   \/ \E out \in Outcomes : CallEnd(c, out)
                /\ Remember
Ask == /\ \/ \E w \in Writes : Read(w)
          \/ \E j \in Jobs, w \in Writes : \/ Add(j, w) \/ Remove(j, w)
                                          \/ \E p \in Patches : Update(j, p, w)
          \/ \E c \in Calls, j \in Jobs, force \in BOOLEAN : Preflight(c, j, force)
       /\ Remember
Passing == (\E j \in Jobs : TimePasses(j)) /\ Remember
Ageing(j) == MarkerAges(j) /\ Remember
Dying == Crash /\ Remember

Next == \/ Starting \/ Start \/ Tick \/ Ask \/ Passing \/ Dying
        \/ \E c \in Calls : ManualRun(c)
        \/ \E j \in Jobs : Ageing(j)

Fairness ==
    /\ WF_vars(Starting) /\ WF_vars(Start) /\ WF_vars(Tick)
    /\ \A c \in Calls : WF_vars(ManualRun(c))
    /\ \A j \in Jobs : WF_vars(Ageing(j))

Spec == Init /\ [][Next]_vars /\ Fairness

-----------------------------------------------------------------------------
(* Properties.                                                             *)

\* A job is executed once at a time, by ticks, the start-up catch-up and
\* manual runs together, unless it was switched off, removed or declared
\* interrupted under the run.
OneExecutionPerJob == \A j \in Jobs : Executions(j) > 1 => j \in robbed

\* Before a job runs, its marker is in the files: that is what tells the next
\* process that the run was cut short.
RunsAreMarkedOnDisk ==
    \A j \in Claimed \ robbed : config[j].there => states[j].there /\ states[j].run # "none"

\* An edit whose save fails may leave the timer unset.
EditMayHaveFailed == edits > 0 /\ faults > 0

\* A one-shot whose success reached both files is not started again, whatever
\* crashes and failed saves follow.
SettledStaysSettled ==
    [][\A j \in settled \ robbed : j \in Going(tick)' \cup Going(catchup)'
                             => j \in Going(tick) \cup Going(catchup)]_vars

KeepsDueTime(j) ==
    Due(mem[j]) /\ Due(Merge(config[j], states[j])) /\ j \notin Claimed
        => phase' = "down" \/ Due(mem'[j]) \/ j \in Claimed'

\* A due time that is saved is used: reads, ticks, manual runs and the end of
\* other jobs' runs do not advance it.  Its user may, and start() puts off what
\* its catch-up has no room for.
DueTimesAreKept ==
    [][edits' = edits /\ phase # "catchup" => \A j \in Jobs : KeepsDueTime(j)]_vars

\* The same when another job is added to a started scheduler: no recompute moves a past-due job on
\* without running it, as the comments of onTimer and of
\* recomputeNextRunsForMaintenance ask.
AddsSkipNothing ==
    [][phase = "up" /\ added' # added => \A j \in added : KeepsDueTime(j)]_vars

\* A due job of a started scheduler is executed, unless its user, the end of
\* another run or a crash takes it first.
DueJobsRun ==
    \A j \in Jobs : (phase = "up" /\ Due(mem[j]))
        ~> (Executions(j) > 0 \/ ~mem[j].there \/ mem[j].next # "due" \/ EditMayHaveFailed)
=============================================================================

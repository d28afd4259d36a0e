-------------------------- MODULE CronServiceProofs --------------------------
(***************************************************************************)
(* Proofs about CronService for any jobs, manual runs, limits and bounds,  *)
(* with failed saves and crashes: type correctness, one execution of a job *)
(* at a time, markers on disk before a run, no second run of a one-shot    *)
(* whose success is on disk, and, where no save fails, due times that stay *)
(* until they are used.                                                    *)
(*                                                                         *)
(* The argument follows the code's critical sections.  A step begins a     *)
(* batch, begins a manual run, lets what is under way go on while a section*)
(* saves the store, or leaves the store alone.  What a section does to the *)
(* store is put in a few relations (Stored, Upkeep, Takes, Brings), what a *)
(* step does to the work under way in two (Within, Follows); each kind of  *)
(* step keeps the invariant, and each action is shown to be of a kind.     *)
(***************************************************************************)
EXTENDS CronService, FiniteSetTheorems, TLAPS

Schedules == 0..(MaxSchedules - 1)
JobType == [there : BOOLEAN, on : BOOLEAN, sched : Schedules, next : NextRun, run : Marker,
            last : Status, errs : 0..(MaxRetries + 1), spent : 0..MaxSchedules]
ConfigType == [there : BOOLEAN, on : BOOLEAN, sched : Schedules]
BatchType == [pc : {"idle", "collect", "run"}, todo : SUBSET Jobs, runs : SUBSET Run,
              later : SUBSET Jobs]
CallType == [pc : {"idle", "reserve", "exec", "finish"}, job : Jobs \cup {"none"},
             since : 0..MaxSchedules, out : Outcomes \cup {"none"}]

TypeInv ==
    /\ config \in [Jobs -> ConfigType]
    /\ states \in [Jobs -> JobType] /\ mem \in [Jobs -> JobType]
    /\ loaded \in BOOLEAN /\ timer \in BOOLEAN
    /\ phase \in {"down", "boot", "plan", "catchup", "arm", "up", "failed"}
    /\ tick \in BatchType /\ catchup \in BatchType /\ catchup.pc # "collect"
    /\ calls \in [Calls -> CallType]
    /\ \A c \in Calls : /\ calls[c].pc # "idle" => calls[c].job \in Jobs
                        /\ calls[c].pc = "finish" => calls[c].out \in Outcomes
    /\ passed \in [OneShots -> 0..MaxSchedules]
    /\ added \subseteq Jobs /\ robbed \subseteq Jobs /\ settled \subseteq OneShots
    /\ edits \in 0..MaxEdits /\ faults \in 0..MaxFaults /\ crashes \in 0..MaxCrashes

-----------------------------------------------------------------------------
(* The operators that compute a job or the whole store.                    *)

LEMMA Numbers ==
    /\ MaxSchedules \in Nat /\ MaxRetries \in Nat /\ 0 \in Schedules /\ 0 \in 0..MaxSchedules
    /\ 0 \in 0..(MaxRetries + 1)
  BY BoundsAssumption DEF Schedules

LEMMA NewJobType ==
    /\ NoJob \in JobType /\ NewJob \in JobType
    /\ ~NoJob.there /\ NewJob.there /\ NewJob.on /\ NewJob.run = "none" /\ NoJob.run = "none"
  BY Numbers DEF JobType, NoJob, NewJob, NextRun, Marker, Status

\* A job whose marker tells that an execution goes on.
Marked(r) == r.there /\ r.on /\ r.run = "fresh"

\* The upkeep of a section: it may fill in the next run and take an old marker.
Upkeep(r, s) ==
    /\ s \in JobType
    /\ s.there = r.there /\ s.on = r.on /\ s.sched = r.sched
    /\ Marked(r) => s.run = "fresh"

LEMMA ComputeNextType ==
    ASSUME NEW j \in Jobs, NEW r \in JobType PROVE ComputeNext(j, r) \in NextRun
  BY DEF ComputeNext, Instant, NextRun, Jobs

LEMMA UpkeepKinds ==
    ASSUME NEW j \in Jobs, NEW r \in JobType, NEW s,
           \/ s = r
           \/ ~r.on /\ s = [r EXCEPT !.next = "none", !.run = "none"]
           \/ r.run = "old" /\ s = [r EXCEPT !.run = "none"]
           \/ r.next # "due" /\ s = [r EXCEPT !.next = ComputeNext(j, r)]
    PROVE  Upkeep(r, s) /\ (Due(r) => Due(s))
<1>1. CASE s = r
  BY <1>1 DEF Upkeep, Marked
<1>2. CASE ~r.on /\ s = [r EXCEPT !.next = "none", !.run = "none"]
  BY <1>2 DEF Upkeep, Marked, Due, JobType, NextRun, Marker
<1>3. CASE r.run = "old" /\ s = [r EXCEPT !.run = "none"]
  BY <1>3 DEF Upkeep, Marked, Due, JobType, Marker
<1>4. CASE r.next # "due" /\ s = [r EXCEPT !.next = ComputeNext(j, r)]
  <2>1. ComputeNext(j, r) \in NextRun
    BY ComputeNextType
  <2> QED
    BY <1>4, <2>1 DEF Upkeep, Marked, Due, JobType
<1> QED
  BY <1>1, <1>2, <1>3, <1>4

LEMMA MaintainProps ==
    ASSUME NEW m \in [Jobs -> JobType]
    PROVE  /\ Maintain(m) \in [Jobs -> JobType]
           /\ \A j \in Jobs : /\ Upkeep(m[j], Maintain(m)[j])
                              /\ Due(m[j]) => Due(Maintain(m)[j])
<1>1. ASSUME NEW j \in Jobs
      PROVE  Upkeep(m[j], Maintain(m)[j]) /\ (Due(m[j]) => Due(Maintain(m)[j]))
  <2>1. \/ Maintain(m)[j] = m[j]
        \/ ~m[j].on /\ Maintain(m)[j] = [m[j] EXCEPT !.next = "none", !.run = "none"]
        \/ m[j].run = "old" /\ Maintain(m)[j] = [m[j] EXCEPT !.run = "none"]
        \/ /\ m[j].next # "due"
           /\ Maintain(m)[j] = [m[j] EXCEPT !.next = ComputeNext(j, m[j])]
    BY DEF Maintain, Walk
  <2>2. m[j] \in JobType
    OBVIOUS
  <2> QED
    BY <2>1, <2>2, UpkeepKinds
<1>2. Maintain(m) \in [Jobs -> JobType]
  BY <1>1 DEF Upkeep, Maintain
<1> QED
  BY <1>1, <1>2

LEMMA RecomputeAllProps ==
    ASSUME NEW m \in [Jobs -> JobType]
    PROVE  /\ RecomputeAll(m) \in [Jobs -> JobType]
           /\ \A j \in Jobs : Upkeep(m[j], RecomputeAll(m)[j])
<1>1. ASSUME NEW j \in Jobs
      PROVE  Upkeep(m[j], RecomputeAll(m)[j])
  <2>1. \/ RecomputeAll(m)[j] = m[j]
        \/ RecomputeAll(m)[j] = [m[j] EXCEPT !.next = "none", !.run = "none"] /\ ~m[j].on
        \/ RecomputeAll(m)[j] = [m[j] EXCEPT !.run = "none"] /\ m[j].run = "old"
        \/ RecomputeAll(m)[j] = [m[j] EXCEPT !.next = ComputeNext(j, m[j])]
    BY DEF RecomputeAll, Walk
  <2>2. m[j] \in JobType /\ ComputeNext(j, m[j]) \in NextRun
    BY ComputeNextType
  <2>3. Upkeep(m[j], [m[j] EXCEPT !.next = ComputeNext(j, m[j])])
    BY <2>2 DEF Upkeep, Marked, JobType
  <2> QED
    BY <2>1, <2>2, <2>3, UpkeepKinds
<1>2. RecomputeAll(m) \in [Jobs -> JobType]
  BY <1>1 DEF Upkeep, RecomputeAll
<1> QED
  BY <1>1, <1>2

\* A job as the files have it, and as a section sees it that reloads them.
FromFiles(c, st, r) ==
    /\ r \in JobType
    /\ r.there = c.there
    /\ r.there => /\ r.on = c.on /\ r.sched = c.sched
                  /\ r.run = IF st.there THEN st.run ELSE "none"
    /\ ~r.there => r.run = "none"

LEMMA LoadedProps ==
    ASSUME TypeInv
    PROVE  /\ Loaded \in [Jobs -> JobType]
           /\ \A j \in Jobs : FromFiles(config[j], states[j], Loaded[j])
<1>1. ASSUME NEW j \in Jobs PROVE FromFiles(config[j], states[j], Loaded[j])
  <2>1. /\ config[j] \in ConfigType /\ states[j] \in JobType
    BY DEF TypeInv
  <2>2. FromFiles(config[j], states[j], Merge(config[j], states[j]))
    <3>1. CASE ~config[j].there
      <4>1. Merge(config[j], states[j]) = NoJob
        BY <3>1 DEF Merge
      <4>2. config[j].there = FALSE
        BY <2>1, <3>1 DEF ConfigType
      <4>3. NoJob.there = FALSE /\ NoJob.run = "none" /\ NoJob \in JobType
        BY NewJobType DEF NoJob
      <4>4. FromFiles(config[j], states[j], NoJob)
        BY <4>2, <4>3 DEF FromFiles
      <4> QED
        BY <4>1, <4>4
    <3>2. CASE config[j].there /\ ~states[j].there
      BY <2>1, <3>2, NewJobType DEF Merge, FromFiles, JobType, ConfigType
    <3>3. CASE config[j].there /\ states[j].there
      BY <2>1, <3>3 DEF Merge, FromFiles, JobType, ConfigType, NextRun
    <3> QED
      BY <2>1, <3>1, <3>2, <3>3 DEF ConfigType
  <2>3. \/ Loaded[j] = Merge(config[j], states[j])
        \/ Loaded[j] = [Merge(config[j], states[j]) EXCEPT !.next = "none"]
    BY DEF Loaded
  <2> HIDE DEF Loaded
  <2> QED
    BY <2>2, <2>3 DEF FromFiles, JobType, NextRun
<1>2. Loaded \in [Jobs -> JobType]
  BY <1>1 DEF FromFiles, Loaded
<1> QED
  BY <1>1, <1>2

LEMMA StoreProps == TypeInv => Store \in [Jobs -> JobType]
  BY LoadedProps DEF Store, TypeInv

\* What an outcome leaves of a job.
LEMMA ApplyJobResultProps ==
    ASSUME NEW j \in Jobs, NEW r \in JobType, NEW out \in Outcomes, NEW since \in 0..MaxSchedules
    PROVE  /\ ApplyJobResult(j, r, out, since) \in JobType
           /\ ~r.on => ~ApplyJobResult(j, r, out, since).on
           /\ j \in OneShots /\ out = "ok" => ~ApplyJobResult(j, r, out, since).on
           /\ ApplyJobResult(j, r, out, since).sched \in {0, r.sched}
           /\ ApplyJobResult(j, r, out, since).there => r.there
<1> DEFINE success == out \in {"ok", "skipped"}
           errs == IF success THEN 0 ELSE IF r.errs > MaxRetries THEN r.errs ELSE r.errs + 1
           told == [r EXCEPT !.run = "none", !.spent = since, !.errs = errs,
                             !.last = IF success THEN out ELSE "error"]
           s == ApplyJobResult(j, r, out, since)
<1>1. errs \in 0..(MaxRetries + 1)
  <2>1. r.errs \in 0..(MaxRetries + 1)
    BY DEF JobType
  <2> QED
    BY <2>1, Numbers
<1>2. told \in JobType /\ told.there = r.there /\ told.on = r.on /\ told.sched = r.sched
  <2> HIDE DEF errs
  <2> QED
    BY <1>1 DEF JobType, Marker, Status
<1>3. \/ s = [r EXCEPT !.run = "none", !.next = IF r.on THEN "future" ELSE "none"]
         /\ j \in Recurring
      \/ s = NoJob
      \/ s = [told EXCEPT !.next = "future"] /\ out = "transient"
      \/ s = [told EXCEPT !.on = FALSE, !.next = "none"]
  BY DEF ApplyJobResult
<1> HIDE DEF told, s
<1>4. CASE s = [r EXCEPT !.run = "none", !.next = IF r.on THEN "future" ELSE "none"]
           /\ j \in Recurring
  BY <1>4, JobsAssumption DEF JobType, Marker, NextRun, s
<1>5. CASE s = NoJob
  BY <1>5, NewJobType DEF s, NoJob
<1>6. CASE s = [told EXCEPT !.next = "future"] /\ out = "transient"
  BY <1>2, <1>6 DEF JobType, NextRun, s
<1>7. CASE s = [told EXCEPT !.on = FALSE, !.next = "none"]
  BY <1>2, <1>7 DEF JobType, NextRun, s
<1> QED
  BY <1>3, <1>4, <1>5, <1>6, <1>7

LEMMA InterruptedType ==
    ASSUME NEW j \in Jobs, NEW r \in JobType
    PROVE  /\ Interrupted(j, r) \in JobType
           /\ Interrupted(j, r).there = r.there /\ Interrupted(j, r).sched = r.sched
           /\ ~r.on => ~Interrupted(j, r).on
           /\ r.run = "none" => Interrupted(j, r) = r
<1> DEFINE e == IF r.errs > MaxRetries THEN r.errs ELSE r.errs + 1
           s == Interrupted(j, r)
<1>1. e \in 0..(MaxRetries + 1)
  <2>1. r.errs \in 0..(MaxRetries + 1)
    BY DEF JobType
  <2> QED
    BY <2>1, Numbers
<1>2. \/ s = r
      \/ s = [r EXCEPT !.run = "none", !.next = "none"] /\ r.run # "none"
      \/ /\ s = [r EXCEPT !.run = "none", !.next = "none", !.on = FALSE, !.last = "error",
                          !.errs = e]
         /\ r.run # "none"
  BY DEF Interrupted
<1>3. r.run = "none" => s = r
  BY DEF Interrupted
<1> HIDE DEF e, s
<1>4. CASE s = r
  BY <1>3, <1>4 DEF s
<1>5. CASE s = [r EXCEPT !.run = "none", !.next = "none"] /\ r.run # "none"
  BY <1>3, <1>5 DEF JobType, NextRun, Marker, s
<1>6. CASE s = [r EXCEPT !.run = "none", !.next = "none", !.on = FALSE, !.last = "error",
                         !.errs = e]
  BY <1>1, <1>3, <1>6 DEF JobType, NextRun, Marker, Status, s
<1> QED
  BY <1>2, <1>4, <1>5, <1>6

LEMMA EndedProps ==
    ASSUME NEW b \in BatchType, NEW j \in Jobs, NEW out \in Outcomes
    PROVE  /\ Ended(b, j, out) \subseteq Run
           /\ \A q \in Ended(b, j, out) : \E r \in b.runs :
                  /\ q.job = r.job /\ (q = r \/ q = [r EXCEPT !.out = out])
                  /\ q = IF r.job = j /\ r.out = "going" THEN [r EXCEPT !.out = out] ELSE r
  BY DEF BatchType, Ended, Run

\* What the results of a batch leave of the store: the jobs outside it as they
\* were, and a one-shot that succeeded off or gone.
LEMMA ApplyOutcomesProps ==
    ASSUME NEW b \in BatchType, Going(b) = {}, NEW m \in [Jobs -> JobType]
    PROVE  /\ ApplyOutcomes(b, m) \in [Jobs -> JobType]
           /\ \A j \in Jobs :
                /\ (\A r \in b.runs : r.job # j) => ApplyOutcomes(b, m)[j] = m[j]
                /\ ~m[j].there => ~ApplyOutcomes(b, m)[j].there
                /\ ~m[j].on => ~ApplyOutcomes(b, m)[j].on
                /\ (/\ j \in OneShots /\ m[j].there
                    /\ \E r \in b.runs : r.job = j
                    /\ \A r \in b.runs : r.job = j => r.out = "ok")
                   => ~ApplyOutcomes(b, m)[j].on
<1> DEFINE t == ApplyOutcomes(b, m)
<1>1. ASSUME NEW j \in Jobs, m[j].there, \E r \in b.runs : r.job = j
      PROVE  \E r \in b.runs : /\ r.job = j /\ r.out \in Outcomes /\ r.since \in 0..MaxSchedules
                               /\ t[j] = ApplyJobResult(j, m[j], r.out, r.since)
  <2> DEFINE r == CHOOSE r \in b.runs : r.job = j
  <2>1. r \in b.runs /\ r.job = j
    BY <1>1
  <2>2. t[j] = ApplyJobResult(j, m[j], r.out, r.since)
    BY <1>1 DEF ApplyOutcomes
  <2> HIDE DEF r, t
  <2>3. r \in Run /\ r.out # "going"
    BY <2>1 DEF Going, BatchType
  <2>4. r.out \in Outcomes /\ r.since \in 0..MaxSchedules
    BY <2>3 DEF Run
  <2> QED
    BY <2>1, <2>2, <2>4
<1>2. ASSUME NEW j \in Jobs, ~m[j].there \/ \A r \in b.runs : r.job # j PROVE t[j] = m[j]
  BY <1>2 DEF ApplyOutcomes
<1>3. t = [j \in Jobs |-> t[j]]
  BY DEF ApplyOutcomes
<1> HIDE DEF t
<1>4. ASSUME NEW j \in Jobs
      PROVE  /\ t[j] \in JobType
             /\ (\A r \in b.runs : r.job # j) => t[j] = m[j]
             /\ ~m[j].there => ~t[j].there
             /\ ~m[j].on => ~t[j].on
             /\ (/\ j \in OneShots /\ m[j].there
                 /\ \E r \in b.runs : r.job = j
                 /\ \A r \in b.runs : r.job = j => r.out = "ok") => ~t[j].on
  <2>1. CASE m[j].there /\ \E r \in b.runs : r.job = j
    <3>1. PICK r \in b.runs : /\ r.job = j /\ r.out \in Outcomes
                              /\ r.since \in 0..MaxSchedules
                              /\ t[j] = ApplyJobResult(j, m[j], r.out, r.since)
      BY <1>1, <2>1
    <3>2. m[j] \in JobType
      OBVIOUS
    <3> QED
      BY <2>1, <3>1, <3>2, ApplyJobResultProps
  <2>2. CASE ~m[j].there \/ \A r \in b.runs : r.job # j
    BY <1>2, <2>2
  <2> QED
    BY <2>1, <2>2
<1>5. t \in [Jobs -> JobType]
  BY <1>3, <1>4
<1> QED
  BY <1>4, <1>5 DEF t

LEMMA PatchedProps ==
    ASSUME NEW j \in Jobs, NEW r \in JobType, NEW patch \in Patches,
           patch = "reschedule" => r.sched + 1 < MaxSchedules
    PROVE  /\ Patched(j, r, patch) \in JobType /\ Patched(j, r, patch).there = r.there
           /\ Patched(j, r, patch).on => Patched(j, r, patch).run = r.run
<1> DEFINE p == CASE patch = "enable" -> [r EXCEPT !.on = TRUE]
                  [] patch = "disable" -> [r EXCEPT !.on = FALSE]
                  [] patch = "reschedule" -> [r EXCEPT !.sched = @ + 1]
<1>1. p \in JobType /\ p.there = r.there /\ p.run = r.run
  <2>1. CASE patch = "enable"
    <3>1. p = [r EXCEPT !.on = TRUE]
      BY <2>1
    <3> QED
      BY <3>1 DEF JobType
  <2>2. CASE patch = "disable"
    <3>1. p = [r EXCEPT !.on = FALSE]
      BY <2>2
    <3> QED
      BY <3>1 DEF JobType
  <2>3. CASE patch = "reschedule"
    <3>1. p = [r EXCEPT !.sched = r.sched + 1]
      BY <2>3
    <3>2. r.sched + 1 \in Schedules
      <4>1. r.sched \in Schedules
        BY DEF JobType
      <4> QED
        BY <2>3, <4>1, Numbers DEF Schedules
    <3> QED
      BY <3>1, <3>2 DEF JobType
  <2> QED
    BY <2>1, <2>2, <2>3 DEF Patches
<1>2. Patched(j, r, patch) = IF p.on THEN [p EXCEPT !.next = ComputeNext(j, p)]
                             ELSE [p EXCEPT !.next = "none", !.run = "none"]
  BY DEF Patched
<1> HIDE DEF p
<1>3. ComputeNext(j, p) \in NextRun
  BY <1>1, ComputeNextType
<1>4. CASE p.on
  BY <1>1, <1>2, <1>3, <1>4 DEF JobType
<1>5. CASE ~p.on
  BY <1>1, <1>2, <1>5 DEF JobType, NextRun, Marker
<1> QED
  BY <1>4, <1>5

LEMMA MergedProps ==
    ASSUME TypeInv, NEW j \in Jobs, NEW result \in JobType
    PROVE  /\ Merged(j, result) \in [Jobs -> JobType]
           /\ \A i \in Jobs : i # j => Merged(j, result)[i] = Loaded[i]
           /\ Merged(j, result)[j].there => result.there /\ config[j].there
           /\ Merged(j, result)[j].there => Merged(j, result)[j].on = result.on
<1> DEFINE t == Merged(j, result)
<1>1. Loaded \in [Jobs -> JobType] /\ Loaded[j].there = config[j].there
  BY LoadedProps DEF FromFiles
<1>2. /\ DOMAIN t = Jobs /\ \A i \in Jobs : i # j => t[i] = Loaded[i]
      /\ t[j] = CASE ~result.there -> NoJob
                  [] result.there /\ Loaded[j].there -> [result EXCEPT !.sched = Loaded[j].sched]
                  [] OTHER -> Loaded[j]
      /\ t = [i \in Jobs |-> t[i]]
  BY <1>1 DEF Merged
<1> HIDE DEF t
<1>3. CASE ~result.there
  BY <1>1, <1>2, <1>3, NewJobType DEF t
<1>4. CASE result.there /\ Loaded[j].there
  <2>1. t[j] = [result EXCEPT !.sched = Loaded[j].sched]
    BY <1>2, <1>4
  <2>2. Loaded[j].sched \in Schedules
    BY <1>1 DEF JobType
  <2>3. t[j] \in JobType /\ t[j].on = result.on
    BY <2>1, <2>2 DEF JobType
  <2> QED
    BY <1>1, <1>2, <1>4, <2>3 DEF t
<1>5. CASE result.there /\ ~Loaded[j].there
  <2>1. t[j] = Loaded[j]
    BY <1>2, <1>5
  <2> QED
    BY <1>1, <1>2, <1>5, <2>1 DEF t
<1> QED
  BY <1>3, <1>4, <1>5

-----------------------------------------------------------------------------
(* Saves.                                                                  *)

\* What a section does to the store and the files: it leaves m in memory, and
\* in each file m or what was there.
Stored(m) ==
    /\ mem' = m /\ loaded' = TRUE
    /\ states' \in {states, m} /\ config' \in {config, ConfigOf(m)}

StoreTypes ==
    /\ config \in [Jobs -> ConfigType] /\ states \in [Jobs -> JobType]
    /\ mem \in [Jobs -> JobType] /\ loaded \in BOOLEAN /\ faults \in 0..MaxFaults

LEMMA ConfigOfProps ==
    ASSUME NEW m \in [Jobs -> JobType]
    PROVE  /\ ConfigOf(m) \in [Jobs -> ConfigType]
           /\ \A j \in Jobs : /\ ConfigOf(m)[j].there = m[j].there
                              /\ ConfigOf(m)[j].on = m[j].on
                              /\ ConfigOf(m)[j].sched = m[j].sched
  BY DEF ConfigOf, JobType, ConfigType

LEMMA SaveStores ==
    ASSUME NEW m, NEW a \in BOOLEAN, NEW b \in BOOLEAN, Save(m, a, b)
    PROVE  /\ Stored(m)
           /\ a => states' = m
           /\ b => config' = ConfigOf(m)
           /\ ~b => config' = config
  BY DEF Save, Stored

LEMMA FailsProps ==
    ASSUME NEW w \in Writes, faults \in 0..MaxFaults, Fails(w)
    PROVE  faults' \in 0..MaxFaults /\ (MaxFaults = 0 => w = "both")
  BY BoundsAssumption DEF Fails, Writes

LEMMA PersistProps ==
    ASSUME NEW w \in Writes, NEW m, Persist(m, w)
    PROVE  /\ Stored(m) /\ Fails(w)
           /\ w = "both" => states' = m /\ config' = ConfigOf(m)
  BY SaveStores DEF Persist, Save, Stored

LEMMA PersistChangesProps ==
    ASSUME NEW w \in Writes, NEW old, NEW m, PersistChanges(old, m, w)
    PROVE  /\ Stored(m) /\ Fails(w)
           /\ w = "both" /\ m # old => states' = m /\ config' = ConfigOf(m)
           /\ m = old => config' = config
<1>1. CASE m # old
  BY <1>1, PersistProps DEF PersistChanges
<1>2. CASE m = old
  BY <1>2 DEF PersistChanges, Save, Stored
<1> QED
  BY <1>1, <1>2

LEMMA StoredTypes ==
    ASSUME TypeInv, NEW m \in [Jobs -> JobType], Stored(m)
    PROVE  /\ config' \in [Jobs -> ConfigType] /\ states' \in [Jobs -> JobType]
           /\ mem' \in [Jobs -> JobType] /\ loaded' \in BOOLEAN
  BY ConfigOfProps DEF Stored, TypeInv

-----------------------------------------------------------------------------
(* Type correctness.                                                       *)

\* The types of what is not the store.
RestTypes ==
    /\ timer \in BOOLEAN
    /\ phase \in {"down", "boot", "plan", "catchup", "arm", "up", "failed"}
    /\ tick \in BatchType /\ catchup \in BatchType /\ catchup.pc # "collect"
    /\ calls \in [Calls -> CallType]
    /\ \A c \in Calls : /\ calls[c].pc # "idle" => calls[c].job \in Jobs
                        /\ calls[c].pc = "finish" => calls[c].out \in Outcomes
    /\ passed \in [OneShots -> 0..MaxSchedules]
    /\ added \subseteq Jobs /\ settled \subseteq OneShots
    /\ edits \in 0..MaxEdits /\ crashes \in 0..MaxCrashes

LEMMA TypesCombine ==
    ASSUME TypeInv, StoreTypes', RestTypes', Remember
    PROVE  TypeInv'
<1>1. Claimed' \subseteq Jobs
  BY DEF RestTypes, Claimed, BatchType, Run
<1>2. robbed' \subseteq Jobs
  BY <1>1 DEF Remember
<1> QED
  BY <1>2 DEF TypeInv, StoreTypes, RestTypes

LEMMA NoBatchType == NoBatch \in BatchType /\ NoBatch.pc # "collect" /\ NoBatch.pc = "idle"
  BY DEF NoBatch, BatchType

LEMMA NoCallType == NoCall \in CallType /\ NoCall.pc = "idle"
  BY Numbers DEF NoCall, CallType

\* The first section of start().
LEMMA StartInterruptedStore ==
    ASSUME TypeInv, NEW w \in Writes, StartInterrupted(w)
    PROVE  \E m \in [Jobs -> JobType] :
               /\ Stored(m) /\ Fails(w)
               /\ \/ m = [j \in Jobs |-> Interrupted(j, Store[j])]
                     /\ (w = "both" => states' = m /\ config' = ConfigOf(m))
                  \/ m = Store /\ config' = config
<1> DEFINE n == [j \in Jobs |-> Interrupted(j, Store[j])]
<1>1. Store \in [Jobs -> JobType] /\ n \in [Jobs -> JobType]
  BY StoreProps, InterruptedType
<1> HIDE DEF n
<1>2. CASE Persist(n, w)
  BY <1>1, <1>2, PersistProps DEF n
<1>3. CASE Save(Store, w = "both", FALSE) /\ Fails(w)
  <2>1. Stored(Store) /\ config' = config
    BY <1>3, SaveStores
  <2> QED
    BY <1>1, <1>3, <2>1
<1> QED
  BY <1>2, <1>3 DEF StartInterrupted, n

LEMMA StartInterruptedTypes ==
    ASSUME TypeInv, NEW w \in Writes, StartInterrupted(w)
    PROVE  StoreTypes' /\ RestTypes'
<1>1. StoreTypes'
  BY StartInterruptedStore, StoredTypes, FailsProps DEF StoreTypes, TypeInv
<1>2. RestTypes'
  <2>1. [NoBatch EXCEPT !.later = {j \in Jobs : Store[j].run # "none"}] \in BatchType
    BY DEF NoBatch, BatchType
  <2>2. catchup' \in BatchType /\ catchup'.pc # "collect"
    BY <2>1, NoBatchType DEF StartInterrupted, NoBatch
  <2> QED
    BY <2>2 DEF StartInterrupted, RestTypes, TypeInv
<1> QED
  BY <1>1, <1>2

\* A section marks the jobs of now, which must be idle, and tends the others.
Takes(base, now, m) ==
    /\ m \in [Jobs -> JobType]
    /\ \A j \in now : /\ base[j].there /\ base[j].on /\ base[j].run = "none"
                      /\ Marked(m[j]) /\ m[j].sched = base[j].sched
    /\ \A j \in Jobs \ now : Upkeep(base[j], m[j]) /\ (Due(base[j]) => Due(m[j]))

\* A batch begins with them when the save succeeds.
Opens(b, now, w) ==
    /\ b \in BatchType /\ b.runs = {}
    /\ b.todo = IF w = "both" THEN now ELSE {}

MarkOf(m, now) == [j \in Jobs |-> IF j \in now THEN [m[j] EXCEPT !.run = "fresh"] ELSE m[j]]

LEMMA MarkOfTakes ==
    ASSUME NEW m \in [Jobs -> JobType], NEW now \in SUBSET Jobs,
           \A j \in now : m[j].there /\ m[j].on /\ m[j].run = "none"
    PROVE  Takes(m, now, MarkOf(m, now)) /\ (now # {} => MarkOf(m, now) # m)
<1> DEFINE t == MarkOf(m, now)
<1>1. \A j \in now : /\ t[j] = [m[j] EXCEPT !.run = "fresh"]
                     /\ t[j] \in JobType /\ Marked(t[j]) /\ t[j].sched = m[j].sched
  BY DEF MarkOf, JobType, Marker, Marked
<1>2. \A j \in Jobs \ now : t[j] = m[j]
  BY DEF MarkOf
<1>3. t = [j \in Jobs |-> t[j]]
  BY DEF MarkOf
<1> HIDE DEF t
<1>4. t \in [Jobs -> JobType]
  BY <1>1, <1>2, <1>3
<1>5. \A j \in Jobs \ now : Upkeep(m[j], t[j])
  BY <1>2 DEF Upkeep, Marked
<1>6. now # {} => t # m
  BY <1>1 DEF Marked
<1> QED
  BY <1>1, <1>2, <1>4, <1>5, <1>6 DEF Takes, t

\* How a section begins a batch: the start-up catch-up, and a tick.
Begins(base, b, w) ==
    \E m \in [Jobs -> JobType], now \in SUBSET Jobs :
        /\ Stored(m) /\ Fails(w)
        /\ Takes(base, now, m) /\ Opens(b, now, w)
        /\ w = "both" /\ now # {} => states' = m /\ config' = ConfigOf(m)
        /\ \A j \in Jobs : Due(base[j]) => j \in now \/ Due(m[j])

LEMMA PlanBegins ==
    ASSUME TypeInv, NEW w \in Writes, PlanCatchup(w)
    PROVE  Begins(Store, catchup', w) /\ catchup'.pc # "collect" /\ phase' # "plan"
           /\ phase' \in {"arm", "catchup", "failed"}
<1>1. Store \in [Jobs -> JobType]
  BY StoreProps
<1>2. PICK retries \in SUBSET OneShots :
        LET missed == {j \in Jobs \ catchup.later : Missed(j, Store[j], retries)}
        IN \/ /\ missed = {} /\ w = "both"
              /\ mem' = Store /\ loaded' = TRUE /\ phase' = "arm"
              /\ catchup' = NoBatch
              /\ UNCHANGED <<config, states, faults>>
           \/ \E now \in SUBSET (missed \ AgentTurns) :
              /\ missed # {}
              /\ Persist(MarkOf(Store, now), w)
              /\ phase' = IF w = "both" THEN "catchup" ELSE "failed"
              /\ catchup' = IF w = "both"
                            THEN [pc |-> "run", todo |-> now, runs |-> {}, later |-> missed \ now]
                            ELSE NoBatch
  BY DEF PlanCatchup, MarkOf
<1> DEFINE missed == {j \in Jobs \ catchup.later : Missed(j, Store[j], retries)}
<1>3. CASE /\ missed = {} /\ w = "both"
           /\ mem' = Store /\ loaded' = TRUE /\ phase' = "arm"
           /\ catchup' = NoBatch
           /\ UNCHANGED <<config, states, faults>>
  <2>1. Stored(Store) /\ Fails(w)
    BY <1>3 DEF Stored, Fails
  <2>2. Takes(Store, {}, Store)
    BY <1>1 DEF Takes, Upkeep, Marked
  <2>3. Opens(catchup', {}, w)
    BY <1>3, NoBatchType DEF Opens, NoBatch
  <2>4. Begins(Store, catchup', w)
    BY <1>1, <2>1, <2>2, <2>3 DEF Begins
  <2> QED
    BY <1>3, <2>4, NoBatchType
<1>4. ASSUME NEW now \in SUBSET (missed \ AgentTurns),
             Persist(MarkOf(Store, now), w),
             phase' = IF w = "both" THEN "catchup" ELSE "failed",
             catchup' = IF w = "both"
                        THEN [pc |-> "run", todo |-> now, runs |-> {}, later |-> missed \ now]
                        ELSE NoBatch
      PROVE  Begins(Store, catchup', w) /\ catchup'.pc # "collect" /\ phase' # "plan"
             /\ phase' \in {"arm", "catchup", "failed"}
  <2>1. now \in SUBSET Jobs /\ \A j \in now : Store[j].there /\ Store[j].on /\ Store[j].run = "none"
    BY DEF Missed
  <2>2. Takes(Store, now, MarkOf(Store, now))
    BY <1>1, <2>1, MarkOfTakes
  <2>3. /\ Stored(MarkOf(Store, now)) /\ Fails(w)
        /\ w = "both" => states' = MarkOf(Store, now) /\ config' = ConfigOf(MarkOf(Store, now))
    BY <1>4, PersistProps
  <2>4. missed \subseteq Jobs
    OBVIOUS
  <2> HIDE DEF missed
  <2>5. Opens(catchup', now, w) /\ catchup'.pc # "collect"
    <3>1. CASE w = "both"
      BY <1>4, <2>1, <2>4, <3>1 DEF Opens, BatchType
    <3>2. CASE w # "both"
      BY <1>4, <3>2, NoBatchType DEF Opens, NoBatch
    <3> QED
      BY <3>1, <3>2
  <2>6. Begins(Store, catchup', w)
    BY <2>1, <2>2, <2>3, <2>5 DEF Begins, Takes
  <2> QED
    BY <1>4, <2>5, <2>6
<1> QED
  BY <1>2, <1>3, <1>4

LEMMA CollectBegins ==
    ASSUME TypeInv, NEW w \in Writes, Collect(w)
    PROVE  Begins(Loaded, tick', w) /\ timer' \in BOOLEAN
<1> DEFINE due == {j \in Jobs : Due(Loaded[j])}
           m == IF due = {} THEN Maintain(Loaded) ELSE MarkOf(Loaded, due)
<1>1. /\ PersistChanges(Loaded, m, w)
      /\ IF due = {} \/ w # "both"
         THEN tick' = NoBatch /\ timer' = Armed(m)
         ELSE tick' = [NoBatch EXCEPT !.pc = "run", !.todo = due] /\ UNCHANGED timer
  BY DEF Collect, MarkOf
<1>2. Loaded \in [Jobs -> JobType]
  BY LoadedProps
<1>3. due \subseteq Jobs /\ \A j \in due : Loaded[j].there /\ Loaded[j].on /\ Loaded[j].run = "none"
  BY DEF Due
<1>4. Takes(Loaded, due, m) /\ (due # {} => m # Loaded)
  <2>1. CASE due = {}
    <3>1. m = Maintain(Loaded)
      BY <2>1
    <3> QED
      BY <1>2, <2>1, <3>1, MaintainProps DEF Takes
  <2>2. CASE due # {}
    BY <1>2, <1>3, <2>2, MarkOfTakes
  <2> QED
    BY <2>1, <2>2
<1>5. Opens(tick', due, w)
  <2>1. CASE due = {} \/ w # "both"
    BY <1>1, <2>1, NoBatchType DEF Opens, NoBatch
  <2>2. CASE due # {} /\ w = "both"
    <3>1. tick' = [NoBatch EXCEPT !.pc = "run", !.todo = due]
      BY <1>1, <2>2
    <3> QED
      BY <1>3, <2>2, <3>1 DEF Opens, NoBatch, BatchType
  <2> QED
    BY <2>1, <2>2
<1>6. timer' \in BOOLEAN
  BY <1>1 DEF Armed, TypeInv
<1> HIDE DEF m
<1>7. /\ Stored(m) /\ Fails(w)
      /\ w = "both" /\ m # Loaded => states' = m /\ config' = ConfigOf(m)
  BY <1>1, PersistChangesProps
<1>8. \A j \in Jobs : Due(Loaded[j]) => j \in due \/ Due(m[j])
  OBVIOUS
<1> HIDE DEF due
<1>9. Begins(Loaded, tick', w)
  BY <1>3, <1>4, <1>5, <1>7, <1>8 DEF Begins, Takes
<1> QED
  BY <1>6, <1>9

-----------------------------------------------------------------------------
(* What the other sections do to the store.                                *)

\* A job that cannot become due.
Off(r) == ~r.there \/ ~r.on

\* A section, whatever copy of the store it starts from, keeps the markers of
\* the jobs outside done and brings back none of those outside edited.
Brings(m, done, edited) ==
    /\ m \in [Jobs -> JobType]
    /\ \A j \in Jobs \ done : Marked(Store[j]) /\ Marked(Loaded[j]) /\ m[j].there /\ m[j].on
                              => m[j].run = "fresh"
    /\ \A j \in Jobs \ edited : /\ Off(Store[j]) /\ Off(Loaded[j]) => Off(m[j])
                                /\ ~Store[j].there /\ ~Loaded[j].there => ~m[j].there

LEMMA UpkeepBrings ==
    ASSUME NEW m \in [Jobs -> JobType], NEW base \in {Store, Loaded},
           \A j \in Jobs : Upkeep(base[j], m[j])
    PROVE  Brings(m, {}, {})
  BY DEF Brings, Upkeep, Off

LEMMA BringsUpkeep ==
    ASSUME NEW m \in [Jobs -> JobType], NEW done, NEW edited, Brings(m, done, edited)
    PROVE  Brings(Maintain(m), done, edited) /\ Brings(RecomputeAll(m), done, edited)
<1>1. ASSUME NEW n \in [Jobs -> JobType], \A j \in Jobs : Upkeep(m[j], n[j])
      PROVE  Brings(n, done, edited)
  <2>1. \A j \in Jobs \ done : /\ Marked(Store[j]) /\ Marked(Loaded[j]) /\ n[j].there /\ n[j].on
                               => n[j].run = "fresh"
    BY <1>1 DEF Brings, Upkeep, Marked
  <2>2. \A j \in Jobs \ edited : /\ Off(Store[j]) /\ Off(Loaded[j]) => Off(n[j])
                                 /\ ~Store[j].there /\ ~Loaded[j].there => ~n[j].there
    BY <1>1 DEF Brings, Upkeep, Off
  <2> QED
    BY <1>1, <2>1, <2>2 DEF Brings
<1>2. Brings(Maintain(m), done, edited)
  BY <1>1, MaintainProps
<1>3. Brings(RecomputeAll(m), done, edited)
  BY <1>1, RecomputeAllProps
<1> QED
  BY <1>2, <1>3

\* A section that only tends the store.
LEMMA TendingBrings ==
    ASSUME TypeInv
    PROVE  /\ Brings(Maintain(Store), {}, {}) /\ Brings(Store, {}, {})
           /\ Brings(RecomputeAll(Loaded), {}, {}) /\ Brings(Loaded, {}, {})
<1>1. /\ Store \in [Jobs -> JobType] /\ Loaded \in [Jobs -> JobType]
  BY StoreProps, LoadedProps
<1>2. Brings(Store, {}, {}) /\ Brings(Loaded, {}, {})
  BY <1>1, UpkeepBrings DEF Upkeep, Marked
<1> QED
  BY <1>1, <1>2, BringsUpkeep

LEMMA ReadStore ==
    ASSUME TypeInv, NEW w \in Writes, PersistChanges(Store, Maintain(Store), w)
    PROVE  Stored(Maintain(Store)) /\ Fails(w) /\ Brings(Maintain(Store), {}, {})
  BY PersistChangesProps, TendingBrings

LEMMA StartInterruptedBrings ==
    ASSUME TypeInv, NEW m \in [Jobs -> JobType],
           m = [j \in Jobs |-> Interrupted(j, Store[j])] \/ m = Store
    PROVE  Brings(m, Jobs, {})
<1>1. Store \in [Jobs -> JobType]
  BY StoreProps
<1>2. CASE m = Store
  BY <1>1, <1>2, TendingBrings DEF Brings
<1>3. CASE m = [j \in Jobs |-> Interrupted(j, Store[j])]
  BY <1>1, <1>3, InterruptedType DEF Brings, Off
<1> QED
  BY <1>2, <1>3

JobsOf(b) == {r.job : r \in b.runs}

\* The results of a batch, recorded in a copy of the store.
LEMMA OutcomesBring ==
    ASSUME TypeInv, NEW base \in {Store, Loaded}, NEW b \in BatchType, Going(b) = {}
    PROVE  Brings(ApplyOutcomes(b, base), JobsOf(b), {})
<1>1. base \in [Jobs -> JobType]
  BY StoreProps, LoadedProps
<1>2. \A j \in Jobs \ JobsOf(b) : \A r \in b.runs : r.job # j
  BY DEF JobsOf
<1>3. /\ ApplyOutcomes(b, base) \in [Jobs -> JobType]
      /\ \A j \in Jobs \ JobsOf(b) : ApplyOutcomes(b, base)[j] = base[j]
      /\ \A j \in Jobs : /\ ~base[j].there => ~ApplyOutcomes(b, base)[j].there
                         /\ ~base[j].on => ~ApplyOutcomes(b, base)[j].on
  BY <1>1, <1>2, ApplyOutcomesProps
<1> QED
  BY <1>3 DEF Brings, Off, Marked

\* The jobs that the catch-up puts off.
PutOff(applied) == [j \in Jobs |-> IF j \in catchup.later /\ applied[j].there /\ applied[j].on
                                   THEN [applied[j] EXCEPT !.next = "future"] ELSE applied[j]]

LEMMA PutOffBrings ==
    ASSUME NEW m \in [Jobs -> JobType], NEW done, Brings(m, done, {})
    PROVE  Brings(PutOff(m), done, {})
<1>1. \A j \in Jobs : /\ PutOff(m)[j] \in JobType /\ PutOff(m)[j].there = m[j].there
                      /\ PutOff(m)[j].on = m[j].on /\ PutOff(m)[j].run = m[j].run
  BY DEF PutOff, JobType, NextRun
<1>2. PutOff(m) \in [Jobs -> JobType]
  BY <1>1 DEF PutOff
<1> QED
  BY <1>1, <1>2 DEF Brings, Off

\* The copy that add and remove start from.
Base == IF loaded THEN mem ELSE RecomputeAll(Loaded)

LEMMA BaseBrings == TypeInv => Brings(Base, {}, {})
<1> SUFFICES ASSUME TypeInv PROVE Brings(Base, {}, {})
  OBVIOUS
<1>1. CASE loaded
  BY <1>1, TendingBrings DEF Base, Store
<1>2. CASE ~loaded
  BY <1>2, TendingBrings DEF Base
<1> QED
  BY <1>1, <1>2

\* Replacing the record of one job.
LEMMA ReplaceBrings ==
    ASSUME NEW m \in [Jobs -> JobType], Brings(m, {}, {}), NEW j \in Jobs, NEW r \in JobType
    PROVE  /\ Brings([m EXCEPT ![j] = r], {j}, {j})
           /\ (Marked(Store[j]) /\ Marked(Loaded[j]) /\ r.there /\ r.on => r.run = "fresh")
              => Brings([m EXCEPT ![j] = r], {}, {j})
           /\ (Off(m[j]) => Off(r)) /\ (~m[j].there => ~r.there)
              => Brings([m EXCEPT ![j] = r], {j}, {})
<1> DEFINE n == [m EXCEPT ![j] = r]
<1>1. n \in [Jobs -> JobType] /\ n[j] = r /\ \A i \in Jobs : i # j => n[i] = m[i]
  OBVIOUS
<1> HIDE DEF n
<1>2. Brings(n, {j}, {j})
  BY <1>1 DEF Brings
<1>3. (Marked(Store[j]) /\ Marked(Loaded[j]) /\ r.there /\ r.on => r.run = "fresh")
      => Brings(n, {}, {j})
  BY <1>1 DEF Brings
<1>4. (Off(m[j]) => Off(r)) /\ (~m[j].there => ~r.there) => Brings(n, {j}, {})
  BY <1>1 DEF Brings
<1> QED
  BY <1>2, <1>3, <1>4 DEF n

LEMMA BringsBoth ==
    ASSUME NEW m, NEW done, NEW edited, Brings(m, {}, edited), Brings(m, done, {})
    PROVE  Brings(m, {}, {})
  BY DEF Brings

LEMMA UpdateStore ==
    ASSUME TypeInv, NEW j \in Jobs, NEW patch \in Patches, NEW w \in Writes, Update(j, patch, w)
    PROVE  \E m \in [Jobs -> JobType] :
               /\ Stored(m) /\ Fails(w) /\ Brings(m, {}, {j})
               /\ Store[j].there /\ \A i \in Jobs : m[i].there = Store[i].there
<1>1. Store \in [Jobs -> JobType] /\ Store[j] \in JobType /\ Brings(Store, {}, {})
  BY StoreProps, TendingBrings
<1> DEFINE p == Patched(j, Store[j], patch)
           m == [Store EXCEPT ![j] = p]
<1>2. p \in JobType /\ p.there = Store[j].there /\ (p.on => p.run = Store[j].run)
  <2>1. patch = "reschedule" => Store[j].sched + 1 < MaxSchedules
    BY DEF Update
  <2> QED
    BY <1>1, <2>1, PatchedProps
<1>3. Persist(m, w) /\ Store[j].there
  BY DEF Update
<1> HIDE DEF p
<1>4. Brings(m, {}, {j})
  BY <1>1, <1>2, ReplaceBrings DEF Marked
<1>5. m \in [Jobs -> JobType] /\ \A i \in Jobs : m[i].there = Store[i].there
  BY <1>1, <1>2
<1> HIDE DEF m
<1> QED
  BY <1>3, <1>4, <1>5, PersistProps

LEMMA RemoveStore ==
    ASSUME TypeInv, NEW j \in Jobs, NEW w \in Writes, Remove(j, w)
    PROVE  \E m \in [Jobs -> JobType] : Stored(m) /\ Fails(w) /\ Brings(m, {}, {})
<1> DEFINE m == [Base EXCEPT ![j] = NoJob]
<1>1. Brings(Base, {}, {}) /\ Base \in [Jobs -> JobType]
  BY BaseBrings DEF Brings
<1>2. Brings(m, {}, {j}) /\ Brings(m, {j}, {})
  BY <1>1, ReplaceBrings, NewJobType DEF Off
<1>3. Brings(m, {}, {})
  BY <1>2, BringsBoth
<1>4. Persist(m, w)
  BY DEF Remove, Base
<1> HIDE DEF m
<1> QED
  BY <1>3, <1>4, PersistProps DEF Brings

LEMMA AddStore ==
    ASSUME TypeInv, NEW j \in Jobs, NEW w \in Writes, Add(j, w)
    PROVE  \E m \in [Jobs -> JobType] : Stored(m) /\ Fails(w) /\ Brings(m, {j}, {j})
<1> DEFINE job == [NewJob EXCEPT !.next = ComputeNext(j, NewJob)]
           n == [Base EXCEPT ![j] = job]
<1>1. Brings(Base, {}, {}) /\ Base \in [Jobs -> JobType]
  BY BaseBrings DEF Brings
<1>2. job \in JobType
  BY ComputeNextType, NewJobType DEF JobType
<1>3. Persist(RecomputeAll(n), w)
  BY DEF Add, Base
<1> HIDE DEF job
<1>4. n \in [Jobs -> JobType] /\ Brings(n, {j}, {j})
  BY <1>1, <1>2, ReplaceBrings
<1> HIDE DEF n
<1>5. Brings(RecomputeAll(n), {j}, {j})
  BY <1>4, BringsUpkeep
<1> QED
  BY <1>3, <1>5, PersistProps DEF Brings

\* A manual run marks its job, or fails to save the mark.
LEMMA ReserveStore ==
    ASSUME TypeInv, loaded, NEW c \in Calls, NEW w \in Writes, Reserve(c, w),
           ~Refused(mem[calls[c].job])
    PROVE  \E m \in [Jobs -> JobType] :
               /\ Stored(m) /\ Fails(w) /\ Brings(m, {}, {})
               /\ m[calls[c].job].there /\ m[calls[c].job].run = "fresh"
               /\ w = "both" => states' = m /\ config' = ConfigOf(m)
<1> DEFINE j == calls[c].job
           r == [mem[j] EXCEPT !.run = "fresh"]
           m == [mem EXCEPT ![j] = r]
<1>1. j \in Jobs /\ mem \in [Jobs -> JobType] /\ Store = mem
  BY DEF TypeInv, Reserve, Store
<1>2. mem[j] \in JobType
  BY <1>1
<1>3. r \in JobType /\ r.there = mem[j].there /\ r.on = mem[j].on /\ r.run = "fresh"
  BY <1>2 DEF JobType, Marker
<1>4. Persist(m, w) /\ mem[j].there
  <2>1. m = [mem EXCEPT ![j].run = "fresh"]
    OBVIOUS
  <2> QED
    BY <2>1 DEF Reserve, Refused
<1> HIDE DEF r, j
<1>5. Brings(mem, {}, {})
  BY <1>1, TendingBrings
<1>6. Brings(m, {}, {j}) /\ Brings(m, {j}, {})
  BY <1>1, <1>3, <1>5, ReplaceBrings DEF Off
<1>7. Brings(m, {}, {}) /\ m \in [Jobs -> JobType]
  BY <1>1, <1>3, <1>6, BringsBoth
<1>8. m[j] = r
  BY <1>1
<1> HIDE DEF m
<1> QED
  BY <1>3, <1>4, <1>7, <1>8, PersistProps DEF j

\* A manual run records its result in the files as they are now.
LEMMA FinishStore ==
    ASSUME TypeInv, NEW c \in Calls, NEW w \in Writes, Finish(c, w), Store[calls[c].job].there
    PROVE  \E m \in [Jobs -> JobType] :
               /\ Stored(m) /\ Fails(w) /\ Brings(m, {calls[c].job}, {})
               /\ w = "both" => states' = m /\ config' = ConfigOf(m)
               /\ calls[c].job \in OneShots /\ calls[c].out = "ok" => Off(m[calls[c].job])
               /\ \A i \in Jobs : i # calls[c].job => (Due(Loaded[i]) => Due(m[i]))
<1> DEFINE j == calls[c].job
           result == ApplyJobResult(j, Store[j], calls[c].out, calls[c].since)
           n == Merged(j, result)
<1>1. j \in Jobs /\ calls[c].out \in Outcomes /\ calls[c].since \in 0..MaxSchedules
  BY DEF TypeInv, Finish, CallType
<1>2. Store \in [Jobs -> JobType] /\ Store[j] \in JobType /\ Loaded \in [Jobs -> JobType]
      /\ Loaded[j].there = config[j].there
  BY <1>1, StoreProps, LoadedProps DEF FromFiles
<1>3. /\ result \in JobType /\ (~Store[j].on => ~result.on)
      /\ j \in OneShots /\ calls[c].out = "ok" => ~result.on
      /\ result.there => Store[j].there
  BY <1>1, <1>2, ApplyJobResultProps
<1>4. Persist(Maintain(n), w)
  BY DEF Finish
<1> HIDE DEF result
<1>5. /\ n \in [Jobs -> JobType] /\ \A i \in Jobs : i # j => n[i] = Loaded[i]
      /\ n[j].there => result.there /\ config[j].there
      /\ n[j].there => n[j].on = result.on
  BY <1>1, <1>3, MergedProps
<1> HIDE DEF n, j
<1>6. Brings(Loaded, {}, {})
  BY TendingBrings
<1>7. \A i \in Jobs \ {j} : /\ Marked(Store[i]) /\ Marked(Loaded[i]) /\ n[i].there /\ n[i].on
                               => n[i].run = "fresh"
                            /\ Off(Store[i]) /\ Off(Loaded[i]) => Off(n[i])
                            /\ ~Store[i].there /\ ~Loaded[i].there => ~n[i].there
  BY <1>5 DEF Marked
<1>8. /\ Off(Store[j]) /\ Off(Loaded[j]) => Off(n[j])
      /\ ~Store[j].there /\ ~Loaded[j].there => ~n[j].there
  BY <1>2, <1>3, <1>5 DEF Off, j
<1>9. Brings(n, {j}, {})
  BY <1>1, <1>5, <1>7, <1>8 DEF Brings
<1>10. /\ Maintain(n) \in [Jobs -> JobType] /\ Brings(Maintain(n), {j}, {})
       /\ \A i \in Jobs : Upkeep(n[i], Maintain(n)[i]) /\ (Due(n[i]) => Due(Maintain(n)[i]))
  BY <1>5, <1>9, BringsUpkeep, MaintainProps
<1>11. j \in OneShots /\ calls[c].out = "ok" => Off(Maintain(n)[j])
  BY <1>1, <1>3, <1>5, <1>10 DEF Off, Upkeep
<1> QED
  BY <1>4, <1>5, <1>10, <1>11, PersistProps DEF j

-----------------------------------------------------------------------------
(* Type correctness of each action.                                        *)

\* What happens between the sections: the store and the files stay.
StoreRests == UNCHANGED <<config, states, mem, loaded, faults>>

LEMMA FinishedStore ==
    ASSUME TypeInv, NEW m \in [Jobs -> JobType], NEW w \in Writes, Stored(m), Fails(w)
    PROVE  StoreTypes'
  BY StoredTypes, FailsProps DEF StoreTypes, TypeInv

LEMMA RestingStore == ASSUME TypeInv, StoreRests PROVE StoreTypes'
  BY DEF StoreTypes, TypeInv, StoreRests

LEMMA SinceType ==
    ASSUME TypeInv, NEW j \in Jobs
    PROVE  (IF j \in OneShots THEN passed[j] ELSE 0) \in 0..MaxSchedules
  BY Numbers DEF TypeInv

\* A job of a batch starts, or ends.
Begun(b, j) ==
    [b EXCEPT !.todo = @ \ {j},
              !.runs = @ \cup {[job |-> j, out |-> "going",
                                since |-> IF j \in OneShots THEN passed[j] ELSE 0]}]

LEMMA BegunProps ==
    ASSUME TypeInv, NEW b \in BatchType, NEW j \in Jobs
    PROVE  /\ Begun(b, j) \in BatchType
           /\ Begun(b, j).pc = b.pc /\ Begun(b, j).later = b.later
           /\ Begun(b, j).todo = b.todo \ {j}
           /\ \E r \in Run : r.job = j /\ Begun(b, j).runs = b.runs \cup {r}
<1> DEFINE r == [job |-> j, out |-> "going", since |-> IF j \in OneShots THEN passed[j] ELSE 0]
<1>1. r \in Run /\ r.job = j
  BY SinceType DEF Run
<1>2. Begun(b, j) = [b EXCEPT !.todo = b.todo \ {j}, !.runs = b.runs \cup {r}]
  BY DEF Begun, BatchType
<1> HIDE DEF r
<1>3. /\ Begun(b, j) \in BatchType
      /\ Begun(b, j).pc = b.pc /\ Begun(b, j).later = b.later
      /\ Begun(b, j).todo = b.todo \ {j} /\ Begun(b, j).runs = b.runs \cup {r}
  <2>1. /\ b.todo \ {j} \in SUBSET Jobs /\ b.runs \cup {r} \in SUBSET Run
        /\ b = [pc |-> b.pc, todo |-> b.todo, runs |-> b.runs, later |-> b.later]
        /\ b.pc \in {"idle", "collect", "run"} /\ b.later \in SUBSET Jobs
    BY <1>1 DEF BatchType
  <2>2. Begun(b, j) = [pc |-> b.pc, todo |-> b.todo \ {j}, runs |-> b.runs \cup {r},
                       later |-> b.later]
    BY <1>2, <2>1
  <2> QED
    BY <2>1, <2>2 DEF BatchType
<1> QED
  BY <1>1, <1>3

LEMMA EndsProps ==
    ASSUME NEW b \in BatchType, NEW j \in Jobs, NEW out \in Outcomes
    PROVE  LET e == [b EXCEPT !.runs = Ended(b, j, out)]
           IN  e \in BatchType /\ e.pc = b.pc /\ e.todo = b.todo /\ e.later = b.later
               /\ e.runs = Ended(b, j, out)
  BY EndedProps DEF BatchType

LEMMA StartTypes ==
    ASSUME TypeInv, NEW w \in Writes, PlanCatchup(w) \/ ApplyCatchup(w) \/ StartArm(w)
    PROVE  StoreTypes' /\ RestTypes'
<1>1. CASE PlanCatchup(w)
  <2>1. /\ Begins(Store, catchup', w) /\ catchup'.pc # "collect"
        /\ phase' \in {"arm", "catchup", "failed"}
    BY <1>1, PlanBegins
  <2>2. StoreTypes'
    BY <2>1, FinishedStore DEF Begins
  <2>3. catchup' \in BatchType
    BY <2>1 DEF Begins, Opens
  <2> QED
    BY <1>1, <2>1, <2>2, <2>3 DEF PlanCatchup, RestTypes, TypeInv
<1>2. CASE ApplyCatchup(w)
  <2>1. Going(catchup) = {} /\ catchup \in BatchType
    BY <1>2 DEF ApplyCatchup, TypeInv
  <2>2. Brings(PutOff(ApplyOutcomes(catchup, Store)), JobsOf(catchup), {})
    BY <2>1, OutcomesBring, PutOffBrings DEF Brings
  <2>3. Maintain(PutOff(ApplyOutcomes(catchup, Store))) \in [Jobs -> JobType]
    BY <2>2, MaintainProps DEF Brings
  <2>4. Persist(Maintain(PutOff(ApplyOutcomes(catchup, Store))), w)
    BY <1>2 DEF ApplyCatchup, PutOff
  <2>5. StoreTypes'
    BY <2>3, <2>4, PersistProps, FinishedStore
  <2>6. Successes(catchup) \subseteq OneShots
    BY DEF Successes
  <2>7. /\ catchup' = NoBatch /\ phase' \in {"arm", "failed"}
        /\ settled' \subseteq settled \cup Successes(catchup)
        /\ UNCHANGED <<timer, tick, calls, passed, added, edits, crashes>>
    BY <1>2 DEF ApplyCatchup
  <2> QED
    BY <2>5, <2>6, <2>7, NoBatchType DEF RestTypes, TypeInv
<1>3. CASE StartArm(w)
  <2>1. StoreTypes'
    BY <1>3, ReadStore, FinishedStore DEF StartArm, Brings
  <2>2. timer' \in BOOLEAN /\ phase' \in {"up", "failed"}
        /\ UNCHANGED <<tick, catchup, calls, passed, added, edits, crashes, settled>>
    BY <1>3 DEF StartArm, Armed, TypeInv
  <2> QED
    BY <2>1, <2>2 DEF RestTypes, TypeInv
<1> QED
  BY <1>1, <1>2, <1>3

LEMMA CatchupTypes ==
    ASSUME TypeInv, NEW j \in Jobs,
           CatchupStart(j) \/ \E out \in Outcomes : CatchupEnd(j, out)
    PROVE  StoreTypes' /\ RestTypes'
<1>1. StoreTypes'
  BY RestingStore DEF CatchupStart, CatchupEnd, StoreRests
<1>2. catchup' \in BatchType /\ catchup'.pc # "collect"
  <2>1. CASE CatchupStart(j)
    <3>1. catchup' = Begun(catchup, j)
      BY <2>1 DEF CatchupStart, Begun
    <3> QED
      BY <3>1, BegunProps DEF TypeInv
  <2>2. CASE \E out \in Outcomes : CatchupEnd(j, out)
    BY <2>2, EndsProps DEF CatchupEnd, TypeInv
  <2> QED
    BY <2>1, <2>2
<1> QED
  BY <1>1, <1>2 DEF CatchupStart, CatchupEnd, RestTypes, TypeInv

LEMMA TickTypes ==
    ASSUME TypeInv,
           \/ Fire \/ \E w \in Writes : Collect(w) \/ Apply(w)
           \/ \E j \in Jobs : RunStart(j) \/ \E out \in Outcomes : RunEnd(j, out)
    PROVE  StoreTypes' /\ RestTypes'
<1>1. CASE Fire
  <2>1. StoreTypes'
    BY <1>1, RestingStore DEF Fire, StoreRests
  <2>2. tick' \in BatchType /\ timer' \in BOOLEAN
    BY <1>1 DEF Fire, Rearmed, TypeInv, BatchType
  <2> QED
    BY <1>1, <2>1, <2>2 DEF Fire, RestTypes, TypeInv
<1>2. ASSUME NEW w \in Writes, Collect(w) PROVE StoreTypes' /\ RestTypes'
  <2>1. Begins(Loaded, tick', w) /\ timer' \in BOOLEAN
    BY <1>2, CollectBegins
  <2>2. StoreTypes'
    BY <2>1, FinishedStore DEF Begins
  <2>3. tick' \in BatchType
    BY <2>1 DEF Begins, Opens
  <2> QED
    BY <1>2, <2>1, <2>2, <2>3 DEF Collect, RestTypes, TypeInv
<1>3. ASSUME NEW w \in Writes, Apply(w) PROVE StoreTypes' /\ RestTypes'
  <2>1. Going(tick) = {} /\ tick \in BatchType
    BY <1>3 DEF Apply, TypeInv
  <2>2. Maintain(ApplyOutcomes(tick, Loaded)) \in [Jobs -> JobType]
    BY <2>1, OutcomesBring, MaintainProps DEF Brings
  <2>3. StoreTypes'
    BY <1>3, <2>2, PersistProps, FinishedStore DEF Apply
  <2>4. Successes(tick) \subseteq OneShots
    BY DEF Successes
  <2>5. /\ tick' = NoBatch /\ timer' \in BOOLEAN
        /\ settled' \subseteq settled \cup Successes(tick)
        /\ UNCHANGED <<phase, catchup, calls, passed, added, edits, crashes>>
    BY <1>3 DEF Apply, Armed
  <2> QED
    BY <2>3, <2>4, <2>5, NoBatchType DEF RestTypes, TypeInv
<1>4. ASSUME NEW j \in Jobs, RunStart(j) \/ \E out \in Outcomes : RunEnd(j, out)
      PROVE  StoreTypes' /\ RestTypes'
  <2>1. StoreTypes'
    BY <1>4, RestingStore DEF RunStart, RunEnd, StoreRests
  <2>2. tick' \in BatchType
    <3>1. CASE RunStart(j)
      <4>1. tick' = Begun(tick, j)
        BY <3>1 DEF RunStart, Begun
      <4> QED
        BY <4>1, BegunProps DEF TypeInv
    <3>2. CASE \E out \in Outcomes : RunEnd(j, out)
      BY <3>2, EndsProps DEF RunEnd, TypeInv
    <3> QED
      BY <1>4, <3>1, <3>2
  <2> QED
    BY <1>4, <2>1, <2>2 DEF RunStart, RunEnd, RestTypes, TypeInv
<1> QED
  BY <1>1, <1>2, <1>3, <1>4

LEMMA CallTypes ==
    ASSUME TypeInv, NEW c \in Calls,
           \/ \E w \in Writes : Reserve(c, w) \/ Finish(c, w)
           \/ \E out \in Outcomes : CallEnd(c, out)
    PROVE  (loaded \/ calls[c].pc # "reserve") => StoreTypes' /\ RestTypes'
<1> SUFFICES ASSUME loaded \/ calls[c].pc # "reserve" PROVE StoreTypes' /\ RestTypes'
  OBVIOUS
<1>0. calls[c] \in CallType /\ calls \in [Calls -> CallType]
  BY DEF TypeInv
<1>1. ASSUME NEW w \in Writes, Reserve(c, w) PROVE StoreTypes' /\ RestTypes'
  <2> DEFINE j == calls[c].job
             k == [calls[c] EXCEPT !.pc = "exec",
                                   !.since = IF j \in OneShots THEN passed[j] ELSE 0]
  <2>1. loaded /\ j \in Jobs
    BY <1>1 DEF Reserve, TypeInv
  <2>2. StoreTypes'
    <3>1. CASE Refused(mem[j])
      <4>1. UNCHANGED <<config, states, mem, loaded, faults>>
        BY <1>1, <3>1 DEF Reserve
      <4> QED
        BY <4>1, RestingStore DEF StoreRests
    <3>2. CASE ~Refused(mem[j])
      BY <1>1, <2>1, <3>2, ReserveStore, FinishedStore
    <3> QED
      BY <3>1, <3>2
  <2>3. k \in CallType /\ k.pc = "exec" /\ k.job = j
    BY <1>0, <2>1, SinceType DEF CallType
  <2>4. calls' = [calls EXCEPT ![c] = NoCall] \/ calls' = [calls EXCEPT ![c] = k]
    BY <1>1 DEF Reserve
  <2>5. settled' \subseteq OneShots
    BY <1>1 DEF Reserve, TypeInv
  <2> HIDE DEF k, j
  <2>6. /\ calls' \in [Calls -> CallType]
        /\ calls'[c] = NoCall \/ calls'[c] = k
        /\ \A d \in Calls : d # c => calls'[d] = calls[d]
    BY <1>0, <2>3, <2>4, NoCallType
  <2>7. \A d \in Calls : /\ calls'[d].pc # "idle" => calls'[d].job \in Jobs
                         /\ calls'[d].pc = "finish" => calls'[d].out \in Outcomes
    BY <2>1, <2>3, <2>6, NoCallType DEF TypeInv
  <2> QED
    BY <1>1, <2>2, <2>5, <2>6, <2>7 DEF Reserve, RestTypes, TypeInv
<1>2. ASSUME NEW w \in Writes, Finish(c, w) PROVE StoreTypes' /\ RestTypes'
  <2>1. StoreTypes'
    <3>1. CASE ~Store[calls[c].job].there
      <4>1. UNCHANGED <<config, states, mem, loaded, faults>>
        BY <1>2, <3>1 DEF Finish
      <4> QED
        BY <4>1, RestingStore DEF StoreRests
    <3>2. CASE Store[calls[c].job].there
      BY <1>2, <3>2, FinishStore, FinishedStore
    <3> QED
      BY <3>1, <3>2
  <2>2. settled' \subseteq OneShots /\ timer' \in BOOLEAN
    BY <1>2 DEF Finish, Armed, TypeInv
  <2>3. calls' = [calls EXCEPT ![c] = NoCall]
    BY <1>2 DEF Finish
  <2>4. /\ calls' \in [Calls -> CallType]
        /\ \A d \in Calls : calls'[d] = NoCall \/ calls'[d] = calls[d]
    BY <1>0, <2>3, NoCallType
  <2> QED
    BY <1>2, <2>1, <2>2, <2>4, NoCallType DEF Finish, RestTypes, TypeInv
<1>3. ASSUME NEW out \in Outcomes, CallEnd(c, out) PROVE StoreTypes' /\ RestTypes'
  <2> DEFINE k == [calls[c] EXCEPT !.pc = "finish", !.out = out]
  <2>1. StoreTypes'
    BY <1>3, RestingStore DEF CallEnd, StoreRests
  <2>2. k \in CallType /\ k.pc = "finish" /\ k.out = out /\ k.job = calls[c].job
    BY <1>0 DEF CallType
  <2>3. calls' = [calls EXCEPT ![c] = k]
    BY <1>0, <1>3 DEF CallEnd
  <2> HIDE DEF k
  <2>4. /\ calls' \in [Calls -> CallType] /\ calls'[c] = k
        /\ \A d \in Calls : d # c => calls'[d] = calls[d]
    BY <1>0, <2>2, <2>3
  <2>5. \A d \in Calls : /\ calls'[d].pc # "idle" => calls'[d].job \in Jobs
                         /\ calls'[d].pc = "finish" => calls'[d].out \in Outcomes
    BY <1>3, <2>2, <2>4 DEF TypeInv, CallEnd
  <2> QED
    BY <1>3, <2>1, <2>4, <2>5 DEF CallEnd, RestTypes, TypeInv
<1> QED
  BY <1>1, <1>2, <1>3

LEMMA PreflightEffect ==
    ASSUME TypeInv, NEW c \in Calls, NEW j \in Jobs, NEW force \in BOOLEAN, Preflight(c, j, force)
    PROVE  /\ Stored(Maintain(Store)) /\ Brings(Maintain(Store), {}, {})
           /\ StoreTypes' /\ RestTypes'
           /\ \A d \in Calls : \/ calls'[d] = calls[d]
                               \/ /\ calls'[d].pc = "reserve"
                                  /\ Maintain(Store)[calls'[d].job].there
<1> DEFINE k == [NoCall EXCEPT !.pc = "reserve", !.job = j]
           m == Maintain(Store)
<1>1. Brings(m, {}, {}) /\ Stored(m)
  BY TendingBrings DEF Preflight, Stored
<1>2. StoreTypes'
  BY <1>1, StoredTypes DEF StoreTypes, Preflight, Brings, TypeInv
<1>3. k \in CallType /\ k.pc = "reserve" /\ k.job = j
  BY NoCallType DEF CallType, NoCall
<1>4. calls' = [calls EXCEPT ![c] = k] \/ calls' = calls
  BY DEF Preflight
<1>5. m[j].there
  BY DEF Preflight
<1> HIDE DEF k, m
<1>6. /\ calls' \in [Calls -> CallType]
      /\ \A d \in Calls : calls'[d] = calls[d] \/ calls'[d] = k
  BY <1>3, <1>4 DEF TypeInv
<1>7. RestTypes'
  BY <1>3, <1>6 DEF Preflight, RestTypes, TypeInv
<1> QED
  BY <1>1, <1>2, <1>3, <1>5, <1>6, <1>7 DEF m

LEMMA AskTypes ==
    ASSUME TypeInv,
           \/ \E w \in Writes : Read(w)
           \/ \E j \in Jobs, w \in Writes : \/ Add(j, w) \/ Remove(j, w)
                                           \/ \E p \in Patches : Update(j, p, w)
           \/ \E c \in Calls, j \in Jobs, force \in BOOLEAN : Preflight(c, j, force)
    PROVE  StoreTypes' /\ RestTypes'
<1>1. ASSUME NEW w \in Writes, Read(w) PROVE StoreTypes' /\ RestTypes'
  <2>1. StoreTypes'
    BY <1>1, ReadStore, FinishedStore DEF Read, Brings
  <2> QED
    BY <1>1, <2>1 DEF Read, RestTypes, TypeInv
<1>2. ASSUME NEW j \in Jobs, NEW w \in Writes, NEW p \in Patches,
             Add(j, w) \/ Remove(j, w) \/ Update(j, p, w)
      PROVE  StoreTypes' /\ RestTypes'
  <2>1. StoreTypes'
    BY <1>2, AddStore, RemoveStore, UpdateStore, FinishedStore
  <2>2. /\ timer' \in BOOLEAN /\ edits' \in 0..MaxEdits
        /\ settled' \subseteq settled /\ added' \subseteq Jobs
        /\ UNCHANGED <<phase, tick, catchup, calls, passed, crashes>>
    <3>1. edits' = edits + 1 /\ edits < MaxEdits /\ edits \in 0..MaxEdits
      BY <1>2 DEF Add, Remove, Update, Edited, TypeInv
    <3>2. edits' \in 0..MaxEdits
      BY <3>1, BoundsAssumption
    <3>3. timer' \in BOOLEAN
      BY <1>2 DEF Add, Remove, Update, Armed, TypeInv
    <3> QED
      BY <1>2, <3>2, <3>3 DEF Add, Remove, Update, TypeInv
  <2> QED
    BY <2>1, <2>2 DEF RestTypes, TypeInv
<1>3. ASSUME NEW c \in Calls, NEW j \in Jobs, NEW force \in BOOLEAN, Preflight(c, j, force)
      PROVE  StoreTypes' /\ RestTypes'
  BY <1>3, PreflightEffect
<1>4. \E p \in Patches : TRUE
  BY DEF Patches
<1> QED
  BY <1>1, <1>2, <1>3, <1>4

LEMMA TimeTypes ==
    ASSUME TypeInv, NEW j \in Jobs, TimePasses(j) \/ MarkerAges(j)
    PROVE  /\ StoreTypes' /\ RestTypes'
           /\ UNCHANGED <<config, loaded, phase, tick, catchup, calls, added, settled>>
           /\ \A i \in Jobs : i # j => mem'[i] = mem[i] /\ states'[i] = states[i]
           /\ \A i \in Jobs : /\ mem'[i].there = mem[i].there /\ mem'[i].on = mem[i].on
                              /\ mem'[i].sched = mem[i].sched
                              /\ states'[i].there = states[i].there
           /\ TimePasses(j) => \A i \in Jobs : /\ mem'[i].run = mem[i].run
                                               /\ states'[i].run = states[i].run
<1>0. mem \in [Jobs -> JobType] /\ states \in [Jobs -> JobType] /\ config \in [Jobs -> ConfigType]
  BY DEF TypeInv
<1>1. CASE TimePasses(j)
  <2>1. /\ mem' = [mem EXCEPT ![j] = Later(mem[j])]
        /\ states' = [states EXCEPT ![j] = Later(states[j])]
    BY <1>0, <1>1 DEF TimePasses
  <2>2. \A r \in JobType : Later(r) \in JobType /\ Later(r).there = r.there /\ Later(r).on = r.on
                           /\ Later(r).sched = r.sched /\ Later(r).run = r.run
    BY DEF Later, JobType, NextRun
  <2>3. mem' \in [Jobs -> JobType] /\ states' \in [Jobs -> JobType]
        /\ mem'[j] = Later(mem[j]) /\ states'[j] = Later(states[j])
        /\ \A i \in Jobs : i # j => mem'[i] = mem[i] /\ states'[i] = states[i]
    BY <1>0, <2>1, <2>2
  <2>4. passed' \in [OneShots -> 0..MaxSchedules]
    <3>1. mem[j].sched + 1 \in 0..MaxSchedules /\ config[j].sched + 1 \in 0..MaxSchedules
      <4>1. mem[j].sched \in Schedules /\ config[j].sched \in Schedules
        BY <1>0 DEF JobType, ConfigType
      <4> QED
        BY <4>1, Numbers DEF Schedules
    <3> QED
      BY <1>1, <3>1 DEF TimePasses, TypeInv
  <2> QED
    BY <1>1, <2>2, <2>3, <2>4, <1>0 DEF TimePasses, StoreTypes, RestTypes, TypeInv
<1>2. CASE MarkerAges(j)
  <2>1. /\ mem' = [mem EXCEPT ![j] = Older(mem[j])]
        /\ states' = [states EXCEPT ![j] = Older(states[j])]
    BY <1>0, <1>2 DEF MarkerAges
  <2>2. \A r \in JobType : Older(r) \in JobType /\ Older(r).there = r.there /\ Older(r).on = r.on
                           /\ Older(r).sched = r.sched
    BY DEF Older, JobType, Marker
  <2>3. mem' \in [Jobs -> JobType] /\ states' \in [Jobs -> JobType]
        /\ mem'[j] = Older(mem[j]) /\ states'[j] = Older(states[j])
        /\ \A i \in Jobs : i # j => mem'[i] = mem[i] /\ states'[i] = states[i]
    BY <1>0, <2>1, <2>2
  <2>4. ~TimePasses(j) \/ \A i \in Jobs : mem'[i].run = mem[i].run /\ states'[i].run = states[i].run
    <3>1. ASSUME TimePasses(j)
          PROVE  \A i \in Jobs : mem'[i].run = mem[i].run /\ states'[i].run = states[i].run
      <4>1. \A r \in JobType : Later(r).run = r.run
        BY DEF Later, JobType
      <4>2. mem'[j] = Later(mem[j]) /\ states'[j] = Later(states[j])
        BY <1>0, <3>1 DEF TimePasses
      <4> QED
        BY <1>0, <2>3, <4>1, <4>2
    <3> QED
      BY <3>1
  <2> QED
    BY <1>2, <2>2, <2>3, <2>4, <1>0 DEF MarkerAges, StoreTypes, RestTypes, TypeInv
<1> QED
  BY <1>1, <1>2

LEMMA CrashTypes == ASSUME TypeInv, Crash PROVE StoreTypes' /\ RestTypes'
<1>1. /\ mem' \in [Jobs -> JobType] /\ calls' \in [Calls -> CallType]
      /\ \A c \in Calls : calls'[c].pc = "idle"
  BY NewJobType, NoCallType DEF Crash
<1>2. crashes' \in 0..MaxCrashes
  BY BoundsAssumption DEF Crash, TypeInv
<1>3. tick' \in BatchType /\ catchup' \in BatchType /\ catchup'.pc # "collect"
  BY NoBatchType DEF Crash
<1> QED
  BY <1>1, <1>2, <1>3 DEF Crash, StoreTypes, RestTypes, TypeInv

LEMMA BootTypes == ASSUME TypeInv, Boot PROVE StoreTypes' /\ RestTypes'
  BY DEF Boot, StoreTypes, RestTypes, TypeInv

-----------------------------------------------------------------------------
(* The inductive invariant.                                                *)

\* A batch has taken j, and has taken it once.
In(b, j) == j \in b.todo \/ \E r \in b.runs : r.job = j
OnceIn(b, j) ==
    /\ j \in b.todo => \A r \in b.runs : r.job # j
    /\ \A r, s \in b.runs : r.job = j /\ s.job = j => r = s

\* A manual run executes j or has its result.
Holds(c, j) == calls[c].pc \in {"exec", "finish"} /\ calls[c].job = j

\* One activity has j, once.
Sole(j) ==
    /\ OnceIn(tick, j) /\ OnceIn(catchup, j) /\ ~(In(tick, j) /\ In(catchup, j))
    /\ \A c \in Calls : Holds(c, j) => /\ ~In(tick, j) /\ ~In(catchup, j)
                                       /\ \A d \in Calls : Holds(d, j) => d = c

\* The marker of j is in memory and in the files, and j is on in both.
MarkedEverywhere(j) ==
    /\ loaded /\ Marked(mem[j])
    /\ states[j].there /\ states[j].run = "fresh"
    /\ config[j].there /\ config[j].on

\* Who is at work on a job is alone, and its marker keeps others away, unless
\* the job was robbed of it.
Guarded ==
    /\ robbed \subseteq Claimed
    /\ \A j \in Jobs : OnceIn(tick, j) /\ OnceIn(catchup, j)
    /\ ~loaded => Claimed = {} /\ \A c \in Calls : calls[c].pc # "reserve"
    /\ \A j \in Claimed \ robbed : Sole(j) /\ MarkedEverywhere(j)

\* A job whose id was not given out is nowhere.
Known ==
    /\ Claimed \subseteq added /\ settled \subseteq added
    /\ \A j \in Jobs \ added : ~mem[j].there /\ ~config[j].there

\* A settled one-shot is off or gone, in memory and in jobs.json, and nobody is
\* at work on it unless it was robbed.
Settles ==
    /\ \A j \in settled : Off(mem[j]) /\ Off(config[j])
    /\ settled \cap Claimed \subseteq robbed

Inv == TypeInv /\ Guarded /\ Known /\ Settles

-----------------------------------------------------------------------------
(* Lemmas about claims.                                                    *)

LEMMA ClaimedIs ==
    ASSUME NEW j
    PROVE  /\ j \in Claimed <=> In(tick, j) \/ In(catchup, j) \/ \E c \in Calls : Holds(c, j)
           /\ j \in Claimed' <=> \/ In(tick', j) \/ In(catchup', j)
                                 \/ \E c \in Calls : Holds(c, j)'
  BY DEF Claimed, In, Holds

\* What a batch does with j when it only goes on.
Within(b, b2, j) == /\ In(b2, j) => In(b, j)
                    /\ OnceIn(b, j) => OnceIn(b2, j)

Follows(j) == /\ Within(tick, tick', j) /\ Within(catchup, catchup', j)
              /\ \A c \in Calls : Holds(c, j)' => Holds(c, j)

LEMMA WithinSame ==
    ASSUME NEW b, NEW b2, NEW j, b2.todo = b.todo /\ b2.runs = b.runs PROVE Within(b, b2, j)
  BY DEF Within, In, OnceIn

LEMMA WithinEmpty ==
    ASSUME NEW b, NEW b2, NEW j, b2.todo = {}, b2.runs = {} PROVE Within(b, b2, j)
  BY DEF Within, In, OnceIn

LEMMA WithinBegun ==
    ASSUME TypeInv, NEW b \in BatchType, NEW i \in b.todo, NEW j \in Jobs
    PROVE  Within(b, Begun(b, i), j)
<1>1. i \in Jobs
  BY DEF BatchType
<1>2. PICK r \in Run : r.job = i /\ Begun(b, i).runs = b.runs \cup {r}
  BY <1>1, BegunProps
<1>3. Begun(b, i).todo = b.todo \ {i}
  BY <1>1, BegunProps
<1>4. In(Begun(b, i), j) => In(b, j)
  BY <1>2, <1>3 DEF In
<1>5. OnceIn(b, j) => OnceIn(Begun(b, i), j)
  BY <1>2, <1>3 DEF OnceIn
<1> QED
  BY <1>4, <1>5 DEF Within

LEMMA WithinEnds ==
    ASSUME NEW b \in BatchType, NEW i \in Jobs, NEW out \in Outcomes, NEW j \in Jobs
    PROVE  Within(b, [b EXCEPT !.runs = Ended(b, i, out)], j)
<1> DEFINE e == [b EXCEPT !.runs = Ended(b, i, out)]
           After(r) == IF r.job = i /\ r.out = "going" THEN [r EXCEPT !.out = out] ELSE r
<1>1. e.todo = b.todo /\ e.runs = Ended(b, i, out)
  BY EndsProps
<1> HIDE DEF e
<1>2. \A q \in e.runs : \E r \in b.runs : q.job = r.job /\ q = After(r)
  BY <1>1, EndedProps
<1> HIDE DEF After
<1>3. In(e, j) => In(b, j)
  BY <1>1, <1>2 DEF In
<1>4. OnceIn(b, j) => OnceIn(e, j)
  BY <1>1, <1>2 DEF OnceIn
<1> QED
  BY <1>3, <1>4 DEF Within, e

LEMMA FollowsClaimed == ASSUME NEW j, Follows(j), j \in Claimed' PROVE j \in Claimed
  BY ClaimedIs DEF Follows, Within

LEMMA OnceKept ==
    ASSUME \A j \in Jobs : OnceIn(tick, j) /\ OnceIn(catchup, j), \A j \in Jobs : Follows(j)
    PROVE  \A j \in Jobs : OnceIn(tick', j) /\ OnceIn(catchup', j)
  BY DEF Follows, Within

LEMMA SoleKept == ASSUME NEW j, Follows(j), Sole(j) PROVE Sole(j)'
<1>1. /\ OnceIn(tick', j) /\ OnceIn(catchup', j) /\ ~(In(tick', j) /\ In(catchup', j))
  BY DEF Follows, Within, Sole
<1>2. \A c \in Calls : Holds(c, j)' => /\ ~In(tick', j) /\ ~In(catchup', j)
                                       /\ \A d \in Calls : Holds(d, j)' => d = c
  BY DEF Follows, Within, Sole
<1> QED
  BY <1>1, <1>2 DEF Sole, OnceIn, In

\* A marked job is marked in every copy of the store.
LEMMA MarkedCopies ==
    ASSUME TypeInv, NEW j \in Jobs, MarkedEverywhere(j)
    PROVE  Marked(Store[j]) /\ Marked(Loaded[j])
  BY LoadedProps DEF MarkedEverywhere, Marked, Store, FromFiles

LEMMA OffCopies ==
    ASSUME TypeInv, NEW j \in Jobs
    PROVE  /\ Off(mem[j]) /\ Off(config[j]) => Off(Store[j]) /\ Off(Loaded[j])
           /\ ~mem[j].there /\ ~config[j].there => ~Store[j].there /\ ~Loaded[j].there
<1>1. Loaded[j].there = config[j].there /\ (Loaded[j].there => Loaded[j].on = config[j].on)
  BY LoadedProps DEF FromFiles
<1> QED
  BY <1>1 DEF Store, Off

\* A save leaves what it saves wherever it reaches.
LEMMA MarkedStays ==
    ASSUME TypeInv, NEW m \in [Jobs -> JobType], Stored(m), NEW j \in Jobs, Marked(m[j]),
           \/ MarkedEverywhere(j)
           \/ states' = m /\ config' = ConfigOf(m)
    PROVE  MarkedEverywhere(j)'
<1>1. ConfigOf(m)[j].there = m[j].there /\ ConfigOf(m)[j].on = m[j].on
  BY ConfigOfProps
<1> QED
  BY <1>1 DEF Stored, MarkedEverywhere, Marked

LEMMA OffStays ==
    ASSUME TypeInv, NEW m \in [Jobs -> JobType], Stored(m), NEW j \in Jobs
    PROVE  /\ Off(m[j]) /\ (Off(config[j]) \/ config' = ConfigOf(m))
              => Off(mem'[j]) /\ Off(config'[j])
           /\ ~m[j].there /\ ~config[j].there => ~mem'[j].there /\ ~config'[j].there
<1>1. ConfigOf(m)[j].there = m[j].there /\ ConfigOf(m)[j].on = m[j].on
  BY ConfigOfProps
<1> QED
  BY <1>1 DEF Stored, Off

-----------------------------------------------------------------------------
(* Steps, by what they do to the store and to who is at work.              *)

LEMMA Robbed ==
    ASSUME Remember, NEW j, j \in Claimed', j \notin robbed'
    PROVE  mem'[j].there /\ mem'[j].on /\ j \notin robbed
  BY DEF Remember

LEMMA RobbedClaimed == Remember => robbed' \subseteq Claimed'
  BY DEF Remember

LEMMA ClaimedJobs ==
    /\ TypeInv => Claimed \subseteq Jobs /\ settled \subseteq Jobs
    /\ TypeInv' => Claimed' \subseteq Jobs /\ settled' \subseteq Jobs
  BY DEF TypeInv, Claimed, BatchType, Run, Jobs

\* A section that only lets the activities go on.
LEMMA SectionKeeps ==
    ASSUME Inv, TypeInv', Remember, NEW m \in [Jobs -> JobType], NEW done \in SUBSET Jobs,
           NEW edited \in SUBSET Jobs, Stored(m), Brings(m, done, edited),
           \A j \in Jobs : Follows(j),
           \A j \in done : j \in Claimed' => j \in robbed',
           added \subseteq added', edited \subseteq added', settled' \cap edited = {},
           \A j \in settled' : \/ j \in settled
                               \/ /\ j \in Claimed /\ Off(m[j]) /\ config' = ConfigOf(m)
                                  /\ j \in Claimed' => j \in robbed'
    PROVE  Guarded' /\ Known' /\ Settles'
<1>1. /\ Claimed \subseteq Jobs /\ settled \subseteq Jobs
      /\ Claimed' \subseteq Jobs /\ settled' \subseteq Jobs
  BY ClaimedJobs DEF Inv
<1>2. Claimed' \subseteq Claimed
  BY <1>1, FollowsClaimed
<1>3. ASSUME NEW j \in Claimed', j \notin robbed' PROVE Sole(j)' /\ MarkedEverywhere(j)'
  <2>1. j \in Jobs /\ j \in Claimed /\ j \notin robbed /\ j \notin done
        /\ m[j].there /\ m[j].on
    BY <1>1, <1>2, <1>3, Robbed DEF Stored
  <2>2. Sole(j) /\ MarkedEverywhere(j)
    BY <2>1 DEF Inv, Guarded
  <2>3. Sole(j)'
    BY <2>1, <2>2, SoleKept
  <2>4. Marked(Store[j]) /\ Marked(Loaded[j])
    BY <2>1, <2>2, MarkedCopies DEF Inv
  <2>5. Marked(m[j])
    BY <2>1, <2>4 DEF Brings, Marked
  <2> QED
    BY <2>1, <2>2, <2>3, <2>5, MarkedStays DEF Inv
<1>4. Guarded'
  <2>1. \A j \in Jobs : OnceIn(tick', j) /\ OnceIn(catchup', j)
    BY OnceKept DEF Inv, Guarded
  <2> QED
    BY <1>3, <2>1, RobbedClaimed DEF Guarded, Stored, OnceIn
<1>5. ASSUME NEW j \in settled'
      PROVE  Off(mem'[j]) /\ Off(config'[j]) /\ (j \in Claimed' => j \in robbed')
  <2>1. CASE j \in settled
    <3>1. j \in Jobs /\ j \notin edited /\ Off(mem[j]) /\ Off(config[j])
      BY <1>1, <1>5, <2>1 DEF Inv, Settles
    <3>2. Off(m[j])
      BY <3>1, OffCopies DEF Inv, Brings
    <3>3. Off(mem'[j]) /\ Off(config'[j])
      BY <3>1, <3>2, OffStays DEF Inv
    <3>4. j \in Claimed' => j \in robbed'
      BY <1>2, <2>1 DEF Inv, Settles, Remember
    <3> QED
      BY <3>3, <3>4
  <2>2. CASE /\ j \in Claimed /\ Off(m[j]) /\ config' = ConfigOf(m)
             /\ j \in Claimed' => j \in robbed'
    BY <1>1, <2>2, OffStays DEF Inv
  <2> QED
    BY <1>5, <2>1, <2>2
<1>6. Settles'
  BY <1>5 DEF Settles
<1>7. ASSUME NEW j \in Jobs \ added' PROVE ~mem'[j].there /\ ~config'[j].there
  <2>1. j \in Jobs \ added /\ j \notin edited
    BY <1>7
  <2>2. ~mem[j].there /\ ~config[j].there
    BY <2>1 DEF Inv, Known
  <2>3. ~m[j].there
    BY <2>1, <2>2, OffCopies DEF Inv, Brings
  <2> QED
    BY <2>1, <2>2, <2>3, OffStays DEF Inv
<1>8. Claimed' \subseteq added' /\ settled' \subseteq added'
  BY <1>2 DEF Inv, Known
<1>9. Known'
  BY <1>7, <1>8 DEF Known
<1> QED
  BY <1>4, <1>6, <1>9

\* A step between the sections.
LEMMA RestKeeps ==
    ASSUME Inv, TypeInv', Remember, UNCHANGED <<config, states, mem, loaded, added, settled>>,
           \A j \in Jobs : Follows(j),
           \A c \in Calls : calls'[c].pc = "reserve" => calls[c].pc = "reserve"
    PROVE  Guarded' /\ Known' /\ Settles'
<1>1. Claimed' \subseteq Claimed /\ Claimed' \subseteq Jobs
  BY FollowsClaimed, ClaimedJobs
<1>2. ASSUME NEW j \in Claimed', j \notin robbed' PROVE Sole(j)' /\ MarkedEverywhere(j)'
  <2>1. Sole(j) /\ MarkedEverywhere(j)
    BY <1>1, <1>2, Robbed DEF Inv, Guarded
  <2>2. Sole(j)'
    BY <1>1, <2>1, SoleKept
  <2> QED
    BY <2>1, <2>2 DEF MarkedEverywhere
<1>3. Guarded'
  <2>1. \A j \in Jobs : OnceIn(tick', j) /\ OnceIn(catchup', j)
    BY OnceKept DEF Inv, Guarded
  <2>2. ~loaded' => Claimed' = {} /\ \A c \in Calls : calls'[c].pc # "reserve"
    BY <1>1 DEF Inv, Guarded
  <2> QED
    BY <1>2, <2>1, <2>2, RobbedClaimed DEF Guarded, OnceIn
<1>4. Known'
  BY <1>1 DEF Inv, Known
<1>5. Settles'
  BY <1>1 DEF Inv, Settles, Remember
<1> QED
  BY <1>3, <1>4, <1>5

\* A batch begins.
LEMMA BatchKeeps ==
    ASSUME Inv, TypeInv', Remember, NEW base \in {Store, Loaded}, NEW b, NEW w \in Writes,
           Begins(base, b, w), UNCHANGED <<calls, added, settled>>,
           (tick' = b /\ catchup' = catchup) \/ (catchup' = b /\ tick' = tick)
    PROVE  Guarded' /\ Known' /\ Settles'
<1>1. /\ Claimed \subseteq Jobs /\ settled \subseteq Jobs /\ Claimed' \subseteq Jobs
  BY ClaimedJobs DEF Inv
<1>2. PICK m \in [Jobs -> JobType], now \in SUBSET Jobs :
        /\ Stored(m) /\ Takes(base, now, m) /\ Opens(b, now, w)
        /\ w = "both" /\ now # {} => states' = m /\ config' = ConfigOf(m)
  BY DEF Begins
<1>3. \A j \in Jobs : In(b, j) => w = "both" /\ j \in now
  BY <1>2 DEF Opens, In
<1>4. ASSUME NEW j \in Jobs PROVE OnceIn(b, j)
  BY <1>2 DEF Opens, OnceIn
<1>5. ASSUME NEW j \in now PROVE j \in robbed \/ j \notin Claimed
  <2>1. j \in Jobs /\ ~Marked(base[j])
    BY <1>2, <1>5 DEF Takes, Marked
  <2>2. MarkedEverywhere(j) => FALSE
    BY <2>1, MarkedCopies DEF Inv
  <2> QED
    BY <2>1, <2>2 DEF Inv, Guarded
<1>6. ASSUME NEW j \in Jobs, ~In(b, j) PROVE Follows(j)
  <2>1. Within(tick, tick', j) /\ Within(catchup, catchup', j)
    BY <1>4, <1>6 DEF Within
  <2>2. \A c \in Calls : Holds(c, j)' => Holds(c, j)
    BY DEF Holds
  <2> QED
    BY <2>1, <2>2 DEF Follows
<1>7. ASSUME NEW j \in Claimed', j \notin robbed' PROVE Sole(j)' /\ MarkedEverywhere(j)'
  <2>0. j \in Jobs /\ j \notin robbed /\ m[j].there /\ m[j].on
    BY <1>1, <1>2, <1>7, Robbed DEF Stored
  <2>1. CASE In(b, j)
    <3>1. w = "both" /\ j \in now /\ j \notin Claimed
      BY <1>3, <1>5, <2>0, <2>1
    <3>2. /\ ~In(tick, j) /\ ~In(catchup, j) /\ \A c \in Calls : ~Holds(c, j)
          /\ OnceIn(tick, j) /\ OnceIn(catchup, j)
      <4>1. /\ ~In(tick, j) /\ ~In(catchup, j) /\ \A c \in Calls : ~Holds(c, j)
        BY <3>1, ClaimedIs
      <4> QED
        BY <4>1 DEF In, OnceIn
    <3>3. \A c \in Calls : ~Holds(c, j)'
      BY <3>2 DEF Holds
    <3>4. /\ OnceIn(tick', j) /\ OnceIn(catchup', j) /\ ~(In(tick', j) /\ In(catchup', j))
      BY <1>4, <2>0, <3>2
    <3>5. Sole(j)'
      BY <3>3, <3>4 DEF Sole, OnceIn, In
    <3>6. Marked(m[j]) /\ states' = m /\ config' = ConfigOf(m)
      BY <1>2, <3>1 DEF Takes
    <3> QED
      BY <1>2, <2>0, <3>5, <3>6, MarkedStays DEF Inv
  <2>2. CASE ~In(b, j)
    <3>1. Follows(j)
      BY <1>6, <2>0, <2>2
    <3>2. j \in Claimed
      BY <1>7, <3>1, FollowsClaimed
    <3>3. Sole(j) /\ MarkedEverywhere(j)
      BY <2>0, <3>2 DEF Inv, Guarded
    <3>4. Sole(j)'
      BY <3>1, <3>3, SoleKept
    <3>5. Marked(base[j])
      BY <2>0, <3>3, MarkedCopies DEF Inv
    <3>6. Marked(m[j])
      BY <1>2, <1>5, <2>0, <3>2, <3>5 DEF Takes, Upkeep, Marked
    <3> QED
      BY <1>2, <2>0, <3>3, <3>4, <3>6, MarkedStays DEF Inv
  <2> QED
    BY <2>1, <2>2
<1>8. Guarded'
  <2>1. \A j \in Jobs : OnceIn(tick', j) /\ OnceIn(catchup', j)
    BY <1>4 DEF Inv, Guarded
  <2> QED
    BY <1>2, <1>7, <2>1, RobbedClaimed DEF Guarded, Stored, OnceIn
<1>9. ASSUME NEW j \in settled
      PROVE  Off(mem'[j]) /\ Off(config'[j]) /\ (j \in Claimed' => j \in robbed')
  <2>1. j \in Jobs /\ Off(mem[j]) /\ Off(config[j])
    BY <1>1, <1>9 DEF Inv, Settles
  <2>2. Off(base[j])
    BY <2>1, OffCopies DEF Inv
  <2>3. j \notin now
    BY <1>2, <2>2 DEF Takes, Off
  <2>4. Off(m[j])
    BY <1>2, <2>1, <2>2, <2>3 DEF Takes, Upkeep, Off
  <2>5. Off(mem'[j]) /\ Off(config'[j])
    BY <1>2, <2>1, <2>4, OffStays DEF Inv
  <2>6. ASSUME j \in Claimed' PROVE j \in robbed'
    <3>1. j \in Claimed
      BY <1>3, <1>6, <2>1, <2>3, <2>6, FollowsClaimed
    <3> QED
      BY <1>9, <2>6, <3>1 DEF Inv, Settles, Remember
  <2> QED
    BY <2>5, <2>6
<1>10. Settles'
  BY <1>9 DEF Settles
<1>11. ASSUME NEW j \in Jobs \ added
       PROVE  ~mem'[j].there /\ ~config'[j].there /\ j \notin Claimed'
  <2>1. ~mem[j].there /\ ~config[j].there /\ j \notin Claimed
    BY <1>11 DEF Inv, Known
  <2>2. ~base[j].there
    BY <2>1, OffCopies DEF Inv
  <2>3. j \notin now
    BY <1>2, <2>2 DEF Takes
  <2>4. ~m[j].there
    BY <1>2, <2>2, <2>3 DEF Takes, Upkeep
  <2>5. j \notin Claimed'
    BY <1>3, <1>6, <2>1, <2>3, FollowsClaimed
  <2> QED
    BY <1>2, <2>1, <2>4, <2>5, OffStays DEF Inv
<1>12. Known'
  BY <1>1, <1>11 DEF Inv, Known
<1> QED
  BY <1>8, <1>10, <1>12

\* A manual run marks its job and begins.
LEMMA ReserveKeeps ==
    ASSUME Inv, TypeInv', Remember, NEW c \in Calls, NEW w \in Writes, Reserve(c, w)
    PROVE  Guarded' /\ Known' /\ Settles'
<1>0. PICK i \in Jobs : i = calls[c].job
  BY DEF Reserve, Inv, TypeInv
<1> DEFINE k == [calls[c] EXCEPT !.pc = "exec",
                                 !.since = IF i \in OneShots THEN passed[i] ELSE 0]
<1>1. loaded /\ calls[c].pc = "reserve"
  BY <1>0 DEF Reserve, Inv, Guarded
<1>2. calls \in [Calls -> CallType] /\ UNCHANGED <<tick, catchup, added>>
  BY DEF Reserve, Inv, TypeInv
<1>3. k.pc = "exec" /\ k.job = i
  BY <1>0, <1>2 DEF CallType
<1>4. \A j \in Jobs : Within(tick, tick', j) /\ Within(catchup, catchup', j)
  BY <1>2, WithinSame
<1>5. CASE calls' = [calls EXCEPT ![c] = NoCall]
  <2>1. \A d \in Calls : calls'[d] = calls[d] \/ calls'[d].pc = "idle"
    BY <1>2, <1>5, NoCallType
  <2>2. \A j \in Jobs : Follows(j)
    BY <1>4, <2>1 DEF Follows, Holds
  <2>3. CASE Refused(mem[i])
    <3>1. UNCHANGED <<config, states, mem, loaded, settled>>
      BY <1>0, <2>3 DEF Reserve
    <3>2. \A d \in Calls : calls'[d].pc = "reserve" => calls[d].pc = "reserve"
      BY <2>1
    <3> QED
      BY <1>2, <2>2, <3>1, <3>2, RestKeeps
  <2>4. CASE ~Refused(mem[i])
    <3>1. PICK m \in [Jobs -> JobType] : Stored(m) /\ Brings(m, {}, {})
      BY <1>0, <1>1, <2>4, ReserveStore DEF Inv
    <3>2. settled' = settled \ {i}
      BY <1>0, <2>4 DEF Reserve
    <3> QED
      BY <1>2, <2>2, <3>1, <3>2, SectionKeeps
  <2> QED
    BY <2>3, <2>4
<1>6. CASE w = "both" /\ ~Refused(mem[i])
  <2>1. PICK m \in [Jobs -> JobType] :
            /\ Stored(m) /\ Brings(m, {}, {}) /\ m[i].there /\ m[i].run = "fresh"
            /\ states' = m /\ config' = ConfigOf(m)
    BY <1>0, <1>1, <1>6, ReserveStore DEF Inv
  <2>2. calls' = [calls EXCEPT ![c] = k] /\ settled' = settled \ {i}
    BY <1>0, <1>6 DEF Reserve
  <2>3. mem[i].there /\ mem[i].run = "none"
    BY <1>6 DEF Refused
  <2> HIDE DEF k
  <2>4. calls'[c] = k /\ \A d \in Calls : d # c => calls'[d] = calls[d]
    BY <1>2, <2>2
  <2>5. i \notin Claimed \/ i \in robbed
    BY <2>3 DEF Inv, Guarded, MarkedEverywhere, Marked
  <2>6. Holds(c, i)' /\ \A j \in Jobs : Holds(c, j)' => j = i
    BY <1>3, <2>4 DEF Holds
  <2>7. \A j \in Jobs \ {i} : Follows(j)
    BY <1>4, <2>4, <2>6 DEF Follows, Holds
  <2>8. /\ Claimed \subseteq Jobs /\ settled \subseteq Jobs /\ Claimed' \subseteq Jobs
    BY ClaimedJobs DEF Inv
  <2>9. ASSUME NEW j \in Claimed', j \notin robbed' PROVE Sole(j)' /\ MarkedEverywhere(j)'
    <3>1. j \in Jobs /\ j \notin robbed /\ m[j].there /\ m[j].on
      BY <2>1, <2>8, <2>9, Robbed DEF Stored
    <3>2. CASE j = i
      <4>1. j \notin Claimed
        BY <2>5, <3>1, <3>2
      <4>2. ~In(tick, j) /\ ~In(catchup, j) /\ \A d \in Calls : ~Holds(d, j)
        BY <4>1, ClaimedIs
      <4>3. \A d \in Calls : d # c => ~Holds(d, j)'
        BY <2>4, <4>2 DEF Holds
      <4>4. Sole(j)'
        BY <1>2, <4>2, <4>3 DEF Sole, In, OnceIn
      <4> QED
        BY <2>1, <3>1, <3>2, <4>4, MarkedStays DEF Inv, Marked
    <3>3. CASE j # i
      <4>1. Follows(j) /\ j \in Claimed
        BY <2>7, <2>9, <3>1, <3>3, FollowsClaimed
      <4>2. Sole(j) /\ MarkedEverywhere(j)
        BY <3>1, <4>1 DEF Inv, Guarded
      <4>3. Sole(j)'
        BY <4>1, <4>2, SoleKept
      <4>4. Marked(m[j])
        BY <2>1, <3>1, <4>2, MarkedCopies DEF Inv, Brings, Marked
      <4> QED
        BY <2>1, <3>1, <4>3, <4>4, MarkedStays DEF Inv
    <3> QED
      BY <3>2, <3>3
  <2>10. Guarded'
    <3>1. \A j \in Jobs : OnceIn(tick', j) /\ OnceIn(catchup', j)
      BY <1>2 DEF Inv, Guarded
    <3> QED
      BY <2>1, <2>9, <3>1, RobbedClaimed DEF Guarded, Stored, OnceIn
  <2>11. ASSUME NEW j \in settled'
         PROVE  Off(mem'[j]) /\ Off(config'[j]) /\ (j \in Claimed' => j \in robbed')
    <3>1. j \in settled /\ j # i /\ j \in Jobs /\ Off(mem[j]) /\ Off(config[j])
      BY <2>2, <2>8, <2>11 DEF Inv, Settles
    <3>2. Off(m[j])
      BY <2>1, <3>1, OffCopies DEF Inv, Brings
    <3>3. Off(mem'[j]) /\ Off(config'[j])
      BY <2>1, <3>1, <3>2, OffStays DEF Inv
    <3>4. j \in Claimed' => j \in Claimed
      BY <2>7, <3>1, FollowsClaimed
    <3> QED
      BY <3>1, <3>3, <3>4 DEF Inv, Settles, Remember
  <2>12. Settles'
    BY <2>11 DEF Settles
  <2>13. i \in added
    BY <1>1, <2>3 DEF Inv, Known
  <2>14. ASSUME NEW j \in Jobs \ added
         PROVE  ~mem'[j].there /\ ~config'[j].there /\ j \notin Claimed'
    <3>1. ~mem[j].there /\ ~config[j].there /\ j \notin Claimed /\ j # i
      BY <2>13, <2>14 DEF Inv, Known
    <3>2. ~m[j].there
      BY <2>1, <2>14, <3>1, OffCopies DEF Inv, Brings
    <3>3. j \notin Claimed'
      BY <2>7, <2>14, <3>1, FollowsClaimed
    <3> QED
      BY <2>1, <2>14, <3>1, <3>2, <3>3, OffStays DEF Inv
  <2>15. Known'
    BY <1>2, <2>2, <2>8, <2>14 DEF Inv, Known
  <2> QED
    BY <2>10, <2>12, <2>15
<1> QED
  BY <1>0, <1>5, <1>6 DEF Reserve

LEMMA TimeKeeps ==
    ASSUME Inv, TypeInv', Remember, NEW i \in Jobs, TimePasses(i) \/ MarkerAges(i)
    PROVE  Guarded' /\ Known' /\ Settles'
<1>1. /\ UNCHANGED <<config, loaded, phase, tick, catchup, calls, added, settled>>
      /\ \A j \in Jobs : j # i => mem'[j] = mem[j] /\ states'[j] = states[j]
      /\ \A j \in Jobs : /\ mem'[j].there = mem[j].there /\ mem'[j].on = mem[j].on
                         /\ states'[j].there = states[j].there
      /\ TimePasses(i) => \A j \in Jobs : mem'[j].run = mem[j].run /\ states'[j].run = states[j].run
  BY TimeTypes DEF Inv
<1>2. Claimed' = Claimed /\ Claimed \subseteq Jobs /\ settled \subseteq Jobs
  BY <1>1, ClaimedJobs DEF Inv, Claimed
<1>3. ASSUME NEW j \in Claimed', j \notin robbed' PROVE Sole(j)' /\ MarkedEverywhere(j)'
  <2>1. j \in Jobs /\ j \in Claimed /\ Sole(j) /\ MarkedEverywhere(j)
    BY <1>2, <1>3, Robbed DEF Inv, Guarded
  <2>2. mem'[j].run = mem[j].run /\ states'[j].run = states[j].run
    BY <1>1, <2>1 DEF MarkerAges
  <2>3. MarkedEverywhere(j)'
    BY <1>1, <2>1, <2>2 DEF MarkedEverywhere, Marked
  <2>4. Sole(j)'
    BY <1>1, <2>1 DEF Sole, In, OnceIn, Holds
  <2> QED
    BY <2>3, <2>4
<1>4. Guarded'
  <2>1. \A j \in Jobs : OnceIn(tick', j) /\ OnceIn(catchup', j)
    BY <1>1 DEF Inv, Guarded
  <2> QED
    BY <1>1, <1>2, <1>3, <2>1, RobbedClaimed DEF Inv, Guarded, OnceIn
<1>5. Known'
  BY <1>1, <1>2 DEF Inv, Known
<1>6. Settles'
  BY <1>1, <1>2 DEF Inv, Settles, Off, Remember
<1> QED
  BY <1>4, <1>5, <1>6

LEMMA CrashKeeps ==
    ASSUME Inv, TypeInv', Remember, Crash
    PROVE  Guarded' /\ Known' /\ Settles'
<1>1. /\ tick' = NoBatch /\ catchup' = NoBatch /\ UNCHANGED <<config, added, settled>>
      /\ \A c \in Calls : calls'[c].pc = "idle"
      /\ \A j \in Jobs : ~mem'[j].there
  BY NoCallType, NewJobType DEF Crash
<1>2. Claimed' = {}
  BY <1>1 DEF Claimed, NoBatch
<1>3. settled \subseteq Jobs
  BY ClaimedJobs DEF Inv
<1>4. Guarded'
  <2>1. \A j \in Jobs : OnceIn(NoBatch, j)
    BY DEF OnceIn, NoBatch
  <2> QED
    BY <1>1, <1>2, <2>1, RobbedClaimed DEF Guarded, OnceIn
<1>5. Known'
  BY <1>1, <1>2 DEF Inv, Known
<1>6. Settles'
  BY <1>1, <1>2, <1>3 DEF Inv, Settles, Off
<1> QED
  BY <1>4, <1>5, <1>6

\* A batch ends and its outcomes are recorded.
LEMMA OutcomesKeep ==
    ASSUME Inv, TypeInv', Remember, NEW base \in {Store, Loaded}, NEW w \in Writes,
           NEW b \in BatchType, Going(b) = {}, NEW m \in [Jobs -> JobType], Stored(m),
           w = "both" => config' = ConfigOf(m), Brings(m, JobsOf(b), {}),
           \A j \in Jobs : Off(ApplyOutcomes(b, base)[j]) => Off(m[j]),
           settled' = IF w = "both" THEN settled \cup Successes(b) ELSE settled,
           UNCHANGED <<calls, added>>,
           \/ b = tick /\ tick' = NoBatch /\ catchup' = catchup
           \/ b = catchup /\ catchup' = NoBatch /\ tick' = tick
    PROVE  Guarded' /\ Known' /\ Settles'
<1>1. NoBatch.todo = {} /\ NoBatch.runs = {}
  BY DEF NoBatch
<1>2. \A j \in Jobs : Follows(j)
  BY <1>1, WithinSame, WithinEmpty DEF Follows, Holds
<1>3. JobsOf(b) \in SUBSET Jobs /\ \A j \in JobsOf(b) : In(b, j)
  BY DEF JobsOf, BatchType, Run, In
<1>4. ASSUME NEW j \in JobsOf(b), j \in Claimed' PROVE j \in robbed'
  <2>1. j \in Jobs /\ j \in Claimed /\ In(b, j)
    BY <1>2, <1>3, <1>4, FollowsClaimed
  <2>2. CASE j \in robbed
    BY <1>4, <2>2 DEF Remember
  <2>3. CASE j \notin robbed
    <3>1. Sole(j)
      BY <2>1, <2>3 DEF Inv, Guarded
    <3>2. ~In(NoBatch, j)
      BY <1>1 DEF In
    <3>3. ~In(tick', j) /\ ~In(catchup', j) /\ \A c \in Calls : ~Holds(c, j)'
      BY <2>1, <3>1, <3>2 DEF Sole, Holds
    <3> QED
      BY <1>4, <3>3, ClaimedIs
  <2> QED
    BY <2>2, <2>3
<1>5. ASSUME NEW j \in settled', j \notin settled
      PROVE  j \in Claimed /\ Off(m[j]) /\ config' = ConfigOf(m) /\ j \in JobsOf(b)
  <2>1. w = "both" /\ j \in Successes(b)
    BY <1>5
  <2>2. PICK r \in b.runs : r.job = j /\ r.job \in OneShots /\ r.out = "ok"
    BY <2>1 DEF Successes
  <2>3. j \in Jobs /\ j \in JobsOf(b) /\ In(b, j) /\ OnceIn(b, j)
    BY <2>2 DEF JobsOf, In, Jobs, Inv, Guarded
  <2>4. \A q \in b.runs : q.job = j => q.out = "ok"
    BY <2>2, <2>3 DEF OnceIn
  <2>5. base \in [Jobs -> JobType]
    BY StoreProps, LoadedProps DEF Inv
  <2>6. Off(ApplyOutcomes(b, base)[j])
    BY <2>2, <2>3, <2>4, <2>5, ApplyOutcomesProps DEF Off
  <2>7. j \in Claimed
    BY <2>3, ClaimedIs
  <2> QED
    BY <2>1, <2>3, <2>6, <2>7
<1> QED
  BY <1>2, <1>3, <1>4, <1>5, SectionKeeps

LEMMA StartKeeps ==
    ASSUME Inv, TypeInv', Remember, NEW w \in Writes,
           StartInterrupted(w) \/ PlanCatchup(w) \/ ApplyCatchup(w) \/ StartArm(w)
    PROVE  Guarded' /\ Known' /\ Settles'
<1>0. TypeInv
  BY DEF Inv
<1>1. CASE StartInterrupted(w)
  <2>1. PICK m \in [Jobs -> JobType] :
            /\ Stored(m)
            /\ m = [j \in Jobs |-> Interrupted(j, Store[j])] \/ m = Store
    BY <1>0, <1>1, StartInterruptedStore
  <2>2. Brings(m, Jobs, {})
    BY <1>0, <2>1, StartInterruptedBrings
  <2>3. /\ UNCHANGED <<tick, calls, added, settled>>
        /\ catchup'.todo = {} /\ catchup'.runs = {}
        /\ phase = "boot" /\ phase' # "boot"
    BY <1>1 DEF StartInterrupted, NoBatch
  <2>4. \A j \in Jobs : Follows(j)
    BY <2>3, WithinSame, WithinEmpty DEF Follows, Holds
  <2>5. \A j \in Jobs : j \in Claimed' => j \in robbed'
    BY <2>3 DEF Remember
  <2> QED
    BY <2>1, <2>2, <2>3, <2>4, <2>5, SectionKeeps
<1>2. CASE PlanCatchup(w)
  <2>1. Begins(Store, catchup', w)
    BY <1>0, <1>2, PlanBegins
  <2>2. UNCHANGED <<tick, calls, added, settled>>
    BY <1>2 DEF PlanCatchup
  <2> QED
    BY <2>1, <2>2, BatchKeeps
<1>3. CASE ApplyCatchup(w)
  <2> DEFINE t == ApplyOutcomes(catchup, Store)
             m == Maintain(PutOff(t))
  <2>1. /\ Going(catchup) = {} /\ catchup' = NoBatch /\ UNCHANGED <<tick, calls, added>>
        /\ settled' = IF w = "both" THEN settled \cup Successes(catchup) ELSE settled
    BY <1>3 DEF ApplyCatchup
  <2>2. catchup \in BatchType
    BY <1>0 DEF TypeInv
  <2>3. Persist(m, w)
    BY <1>3 DEF ApplyCatchup, PutOff
  <2>4. Brings(t, JobsOf(catchup), {})
    BY <1>0, <2>1, <2>2, OutcomesBring
  <2>5. Brings(PutOff(t), JobsOf(catchup), {}) /\ t \in [Jobs -> JobType]
    <3>1. t \in [Jobs -> JobType]
      BY <2>4 DEF Brings
    <3> HIDE DEF t
    <3> QED
      BY <2>4, <3>1, PutOffBrings
  <2>6. \A j \in Jobs : PutOff(t)[j].there = t[j].there /\ PutOff(t)[j].on = t[j].on
    <3> HIDE DEF t
    <3> QED
      BY <2>5 DEF PutOff, JobType
  <2>7. PutOff(t) \in [Jobs -> JobType]
    BY <2>5 DEF Brings
  <2>8. /\ m \in [Jobs -> JobType] /\ Brings(m, JobsOf(catchup), {})
        /\ \A j \in Jobs : Off(t[j]) => Off(m[j])
    <3> HIDE DEF t
    <3>1. m \in [Jobs -> JobType] /\ \A j \in Jobs : Upkeep(PutOff(t)[j], m[j])
      BY <2>7, MaintainProps
    <3> QED
      BY <2>5, <2>6, <2>7, <3>1, BringsUpkeep DEF Upkeep, Off
  <2>9. Stored(m) /\ (w = "both" => config' = ConfigOf(m))
    BY <2>3, PersistProps
  <2> HIDE DEF m
  <2> QED
    BY <2>1, <2>2, <2>8, <2>9, OutcomesKeep
<1>4. CASE StartArm(w)
  <2>1. Stored(Maintain(Store)) /\ Brings(Maintain(Store), {}, {})
    BY <1>0, <1>4, ReadStore DEF StartArm
  <2>2. UNCHANGED <<tick, catchup, calls, added, settled>>
    BY <1>4 DEF StartArm
  <2>3. \A j \in Jobs : Follows(j)
    BY <2>2, WithinSame DEF Follows, Holds
  <2>4. Maintain(Store) \in [Jobs -> JobType]
    BY <2>1 DEF Brings
  <2> QED
    BY <2>1, <2>2, <2>3, <2>4, SectionKeeps
<1> QED
  BY <1>1, <1>2, <1>3, <1>4

LEMMA CatchupKeeps ==
    ASSUME Inv, TypeInv', Remember, NEW i \in Jobs,
           CatchupStart(i) \/ \E out \in Outcomes : CatchupEnd(i, out)
    PROVE  Guarded' /\ Known' /\ Settles'
<1>0. TypeInv /\ catchup \in BatchType
  BY DEF Inv, TypeInv
<1>1. UNCHANGED <<config, states, mem, loaded, added, settled, tick, calls>>
  BY DEF CatchupStart, CatchupEnd
<1>2. \A j \in Jobs : Within(catchup, catchup', j)
  <2>1. CASE CatchupStart(i)
    <3>1. i \in catchup.todo /\ catchup' = Begun(catchup, i)
      BY <2>1 DEF CatchupStart, Begun
    <3> QED
      BY <1>0, <3>1, WithinBegun
  <2>2. CASE \E out \in Outcomes : CatchupEnd(i, out)
    BY <1>0, <2>2, WithinEnds DEF CatchupEnd
  <2> QED
    BY <2>1, <2>2
<1>3. \A j \in Jobs : Follows(j)
  BY <1>1, <1>2, WithinSame DEF Follows, Holds
<1> QED
  BY <1>1, <1>3, RestKeeps

LEMMA TickKeeps ==
    ASSUME Inv, TypeInv', Remember,
           \/ Fire \/ \E w \in Writes : Collect(w) \/ Apply(w)
           \/ \E j \in Jobs : RunStart(j) \/ \E out \in Outcomes : RunEnd(j, out)
    PROVE  Guarded' /\ Known' /\ Settles'
<1>0. TypeInv /\ tick \in BatchType
  BY DEF Inv, TypeInv
<1>1. CASE Fire
  <2>1. /\ UNCHANGED <<config, states, mem, loaded, added, settled, catchup, calls>>
        /\ tick'.todo = tick.todo /\ tick'.runs = tick.runs
    BY <1>0, <1>1 DEF Fire, BatchType
  <2>2. \A j \in Jobs : Follows(j)
    BY <2>1, WithinSame DEF Follows, Holds
  <2> QED
    BY <2>1, <2>2, RestKeeps
<1>2. ASSUME NEW w \in Writes, Collect(w) PROVE Guarded' /\ Known' /\ Settles'
  <2>1. Begins(Loaded, tick', w)
    BY <1>0, <1>2, CollectBegins
  <2>2. UNCHANGED <<catchup, calls, added, settled>>
    BY <1>2 DEF Collect
  <2> QED
    BY <2>1, <2>2, BatchKeeps
<1>3. ASSUME NEW w \in Writes, Apply(w) PROVE Guarded' /\ Known' /\ Settles'
  <2> DEFINE t == ApplyOutcomes(tick, Loaded)
             m == Maintain(t)
  <2>1. /\ Going(tick) = {} /\ tick' = NoBatch /\ UNCHANGED <<catchup, calls, added>>
        /\ settled' = IF w = "both" THEN settled \cup Successes(tick) ELSE settled
        /\ Persist(m, w)
    BY <1>3 DEF Apply
  <2>2. Brings(t, JobsOf(tick), {})
    BY <1>0, <2>1, OutcomesBring
  <2>3. t \in [Jobs -> JobType]
    BY <2>2 DEF Brings
  <2>4. /\ m \in [Jobs -> JobType] /\ Brings(m, JobsOf(tick), {})
        /\ \A j \in Jobs : Off(t[j]) => Off(m[j])
    <3> HIDE DEF t
    <3>1. m \in [Jobs -> JobType] /\ \A j \in Jobs : Upkeep(t[j], m[j])
      BY <2>3, MaintainProps
    <3> QED
      BY <2>2, <2>3, <3>1, BringsUpkeep DEF Upkeep, Off
  <2>5. Stored(m) /\ (w = "both" => config' = ConfigOf(m))
    BY <2>1, PersistProps
  <2> HIDE DEF m
  <2> QED
    BY <1>0, <2>1, <2>4, <2>5, OutcomesKeep
<1>4. ASSUME NEW i \in Jobs, RunStart(i) \/ \E out \in Outcomes : RunEnd(i, out)
      PROVE  Guarded' /\ Known' /\ Settles'
  <2>1. UNCHANGED <<config, states, mem, loaded, added, settled, catchup, calls>>
    BY <1>4 DEF RunStart, RunEnd
  <2>2. \A j \in Jobs : Within(tick, tick', j)
    <3>1. CASE RunStart(i)
      <4>1. i \in tick.todo /\ tick' = Begun(tick, i)
        BY <3>1 DEF RunStart, Begun
      <4> QED
        BY <1>0, <4>1, WithinBegun
    <3>2. CASE \E out \in Outcomes : RunEnd(i, out)
      BY <1>0, <3>2, WithinEnds DEF RunEnd
    <3> QED
      BY <1>4, <3>1, <3>2
  <2>3. \A j \in Jobs : Follows(j)
    BY <2>1, <2>2, WithinSame DEF Follows, Holds
  <2> QED
    BY <2>1, <2>3, RestKeeps
<1> QED
  BY <1>1, <1>2, <1>3, <1>4

LEMMA FinishKeeps ==
    ASSUME Inv, TypeInv', Remember, NEW c \in Calls, NEW w \in Writes, Finish(c, w)
    PROVE  Guarded' /\ Known' /\ Settles'
<1>0. PICK i \in Jobs : i = calls[c].job
  BY DEF Finish, Inv, TypeInv
<1>1. /\ calls[c].pc = "finish" /\ calls' = [calls EXCEPT ![c] = NoCall]
      /\ UNCHANGED <<tick, catchup, added>> /\ calls \in [Calls -> CallType]
  BY DEF Finish, Inv, TypeInv
<1>2. calls'[c].pc = "idle" /\ \A d \in Calls : d # c => calls'[d] = calls[d]
  BY <1>1, NoCallType
<1>3. \A j \in Jobs : Follows(j)
  BY <1>1, <1>2, WithinSame DEF Follows, Holds
<1>4. Holds(c, i)
  BY <1>0, <1>1 DEF Holds
<1>5. i \in Claimed
  BY <1>4, ClaimedIs
<1>6. i \in Claimed' => i \in robbed'
  <2> SUFFICES ASSUME i \in Claimed' PROVE i \in robbed'
    OBVIOUS
  <2>1. CASE i \in robbed
    BY <2>1 DEF Remember
  <2>2. CASE i \notin robbed
    <3>1. /\ ~In(tick, i) /\ ~In(catchup, i) /\ \A d \in Calls : Holds(d, i) => d = c
      BY <1>4, <1>5, <2>2 DEF Inv, Guarded, Sole
    <3>2. ~In(tick', i) /\ ~In(catchup', i) /\ \A d \in Calls : ~Holds(d, i)'
      BY <1>1, <1>2, <3>1 DEF Holds
    <3> QED
      BY <3>2, ClaimedIs
  <2> QED
    BY <2>1, <2>2
<1>7. CASE ~Store[i].there
  <2>1. UNCHANGED <<config, states, mem, loaded, settled>>
    BY <1>0, <1>7 DEF Finish
  <2> QED
    BY <1>1, <1>2, <1>3, <2>1, RestKeeps
<1>8. CASE Store[i].there
  <2>1. PICK m \in [Jobs -> JobType] :
            /\ Stored(m) /\ Brings(m, {i}, {})
            /\ w = "both" => config' = ConfigOf(m)
            /\ i \in OneShots /\ calls[c].out = "ok" => Off(m[i])
    BY <1>0, <1>8, FinishStore DEF Inv
  <2>2. settled' = IF /\ w = "both" /\ i \in OneShots /\ calls[c].out = "ok"
                      /\ Store[i].sched < calls[c].since
                   THEN settled \cup {i} ELSE settled
    BY <1>0, <1>8 DEF Finish
  <2> QED
    BY <1>1, <1>3, <1>5, <1>6, <2>1, <2>2, SectionKeeps
<1> QED
  BY <1>7, <1>8

LEMMA CallKeeps ==
    ASSUME Inv, TypeInv', Remember, NEW c \in Calls,
           \/ \E w \in Writes : Reserve(c, w) \/ Finish(c, w)
           \/ \E out \in Outcomes : CallEnd(c, out)
    PROVE  Guarded' /\ Known' /\ Settles'
<1>1. ASSUME NEW out \in Outcomes, CallEnd(c, out) PROVE Guarded' /\ Known' /\ Settles'
  <2>1. /\ UNCHANGED <<config, states, mem, loaded, added, settled, tick, catchup>>
        /\ calls[c].pc = "exec"
        /\ calls' = [calls EXCEPT ![c] = [calls[c] EXCEPT !.pc = "finish", !.out = out]]
        /\ calls \in [Calls -> CallType]
    BY <1>1 DEF CallEnd, Inv, TypeInv
  <2>2. \A d \in Calls : /\ calls'[d].job = calls[d].job
                         /\ calls'[d].pc = calls[d].pc \/ (d = c /\ calls'[d].pc = "finish")
    BY <2>1 DEF CallType
  <2>3. \A j \in Jobs : Follows(j)
    BY <2>1, <2>2, WithinSame DEF Follows, Holds
  <2> QED
    BY <2>1, <2>2, <2>3, RestKeeps
<1> QED
  BY <1>1, ReserveKeeps, FinishKeeps

LEMMA AskKeeps ==
    ASSUME Inv, TypeInv', Remember,
           \/ \E w \in Writes : Read(w)
           \/ \E j \in Jobs, w \in Writes : \/ Add(j, w) \/ Remove(j, w)
                                           \/ \E p \in Patches : Update(j, p, w)
           \/ \E c \in Calls, j \in Jobs, force \in BOOLEAN : Preflight(c, j, force)
    PROVE  Guarded' /\ Known' /\ Settles'
<1>0. TypeInv /\ settled \subseteq added
  BY DEF Inv, Known
<1>1. ASSUME UNCHANGED <<tick, catchup, calls>> PROVE \A j \in Jobs : Follows(j)
  BY <1>1, WithinSame DEF Follows, Holds
<1>2. ASSUME NEW w \in Writes, Read(w) PROVE Guarded' /\ Known' /\ Settles'
  <2>1. Stored(Maintain(Store)) /\ Brings(Maintain(Store), {}, {})
    BY <1>0, <1>2, ReadStore DEF Read
  <2>2. UNCHANGED <<tick, catchup, calls, added, settled>>
    BY <1>2 DEF Read
  <2>3. Maintain(Store) \in [Jobs -> JobType]
    BY <2>1 DEF Brings
  <2> QED
    BY <1>1, <2>1, <2>2, <2>3, SectionKeeps
<1>3. ASSUME NEW i \in Jobs, NEW w \in Writes, Add(i, w) PROVE Guarded' /\ Known' /\ Settles'
  <2>1. PICK m \in [Jobs -> JobType] : Stored(m) /\ Brings(m, {i}, {i})
    BY <1>0, <1>3, AddStore
  <2>2. /\ i \notin added /\ added' = added \cup {i}
        /\ UNCHANGED <<tick, catchup, calls, settled>>
    BY <1>3 DEF Add
  <2>3. \A j \in Jobs : Follows(j)
    BY <1>1, <2>2
  <2>4. i \notin Claimed'
    BY <2>2, <2>3, FollowsClaimed DEF Inv, Known
  <2> QED
    BY <1>0, <2>1, <2>2, <2>3, <2>4, SectionKeeps
<1>4. ASSUME NEW i \in Jobs, NEW w \in Writes, Remove(i, w)
      PROVE  Guarded' /\ Known' /\ Settles'
  <2>1. PICK m \in [Jobs -> JobType] : Stored(m) /\ Brings(m, {}, {})
    BY <1>0, <1>4, RemoveStore
  <2>2. UNCHANGED <<tick, catchup, calls, added, settled>>
    BY <1>4 DEF Remove
  <2> QED
    BY <1>1, <2>1, <2>2, SectionKeeps
<1>5. ASSUME NEW i \in Jobs, NEW w \in Writes, NEW p \in Patches, Update(i, p, w)
      PROVE  Guarded' /\ Known' /\ Settles'
  <2>1. PICK m \in [Jobs -> JobType] : Stored(m) /\ Brings(m, {}, {i}) /\ Store[i].there
    BY <1>0, <1>5, UpdateStore
  <2>2. settled' = settled \ {i} /\ UNCHANGED <<tick, catchup, calls, added>>
    BY <1>5 DEF Update
  <2>3. i \in added
    BY <1>0, <2>1, OffCopies DEF Inv, Known
  <2> QED
    BY <1>1, <2>1, <2>2, <2>3, SectionKeeps
<1>6. ASSUME NEW c \in Calls, NEW i \in Jobs, NEW force \in BOOLEAN, Preflight(c, i, force)
      PROVE  Guarded' /\ Known' /\ Settles'
  <2>1. /\ Stored(Maintain(Store)) /\ Brings(Maintain(Store), {}, {})
        /\ \A d \in Calls : calls'[d] = calls[d] \/ calls'[d].pc = "reserve"
    BY <1>0, <1>6, PreflightEffect
  <2>2. UNCHANGED <<tick, catchup, added, settled>>
    BY <1>6 DEF Preflight
  <2>3. \A j \in Jobs : Follows(j)
    BY <2>1, <2>2, WithinSame DEF Follows, Holds
  <2>4. Maintain(Store) \in [Jobs -> JobType]
    BY <2>1 DEF Brings
  <2> QED
    BY <2>1, <2>2, <2>3, <2>4, SectionKeeps
<1> QED
  BY <1>2, <1>3, <1>4, <1>5, <1>6

LEMMA InitInv == Init => Inv
<1> SUFFICES ASSUME Init PROVE Inv
  OBVIOUS
<1>1. /\ states \in [Jobs -> JobType] /\ \A j \in Jobs \ added : ~states[j].there
      /\ added \subseteq Jobs
  BY NewJobType DEF Init
<1>2. /\ config \in [Jobs -> ConfigType] /\ \A j \in Jobs : config[j].there = states[j].there
  BY <1>1, ConfigOfProps DEF Init
<1>3. mem \in [Jobs -> JobType] /\ \A j \in Jobs : ~mem[j].there
  BY NewJobType DEF Init
<1>4. calls \in [Calls -> CallType] /\ \A c \in Calls : calls[c].pc = "idle"
  BY NoCallType DEF Init
<1>5. passed \in [OneShots -> 0..MaxSchedules]
  BY Numbers DEF Init
<1>6. 0 \in 0..MaxEdits /\ 0 \in 0..MaxFaults /\ 0 \in 0..MaxCrashes
  BY BoundsAssumption
<1>7. TypeInv
  BY <1>1, <1>2, <1>3, <1>4, <1>5, <1>6, NoBatchType DEF Init, TypeInv
<1>8. Claimed = {} /\ settled = {} /\ robbed = {}
  BY <1>4 DEF Init, Claimed, NoBatch
<1>9. \A j \in Jobs : OnceIn(tick, j) /\ OnceIn(catchup, j)
  BY DEF Init, OnceIn, NoBatch
<1>10. Guarded /\ Settles
  BY <1>4, <1>8, <1>9 DEF Guarded, Settles
<1>11. Known
  BY <1>1, <1>2, <1>3, <1>8 DEF Known
<1> QED
  BY <1>7, <1>10, <1>11 DEF Inv

LEMMA NextInv == Inv /\ [Next]_vars => Inv'
<1> SUFFICES ASSUME Inv, [Next]_vars PROVE Inv'
  OBVIOUS
<1>0. TypeInv
  BY DEF Inv
<1>1. CASE Starting
  <2>1. Boot /\ Remember
    BY <1>1 DEF Starting
  <2>2. TypeInv'
    BY <1>0, <2>1, BootTypes, TypesCombine
  <2>3. /\ UNCHANGED <<config, states, mem, loaded, added, settled>>
        /\ UNCHANGED <<tick, catchup, calls>>
    BY <2>1 DEF Boot
  <2>4. \A j \in Jobs : Follows(j)
    BY <2>3, WithinSame DEF Follows, Holds
  <2> QED
    BY <2>1, <2>2, <2>3, <2>4, RestKeeps DEF Inv
<1>2. CASE Start
  <2>1. Remember
    BY <1>2 DEF Start
  <2>2. ASSUME NEW w \in Writes,
               StartInterrupted(w) \/ PlanCatchup(w) \/ ApplyCatchup(w) \/ StartArm(w)
        PROVE  Inv'
    <3>1. TypeInv'
      BY <1>0, <2>1, <2>2, StartInterruptedTypes, StartTypes, TypesCombine
    <3> QED
      BY <2>1, <2>2, <3>1, StartKeeps DEF Inv
  <2>3. ASSUME NEW j \in Jobs, CatchupStart(j) \/ \E out \in Outcomes : CatchupEnd(j, out)
        PROVE  Inv'
    <3>1. TypeInv'
      BY <1>0, <2>1, <2>3, CatchupTypes, TypesCombine
    <3> QED
      BY <2>1, <2>3, <3>1, CatchupKeeps DEF Inv
  <2> QED
    BY <1>2, <2>2, <2>3 DEF Start
<1>3. CASE Tick
  <2>1. TypeInv'
    BY <1>0, <1>3, TickTypes, TypesCombine DEF Tick
  <2> QED
    BY <1>3, <2>1, TickKeeps DEF Tick, Inv
<1>4. CASE Ask
  <2>1. TypeInv'
    BY <1>0, <1>4, AskTypes, TypesCombine DEF Ask
  <2> QED
    BY <1>4, <2>1, AskKeeps DEF Ask, Inv
<1>5. CASE Passing \/ \E j \in Jobs : Ageing(j)
  <2>1. PICK j \in Jobs : (TimePasses(j) \/ MarkerAges(j)) /\ Remember
    BY <1>5 DEF Passing, Ageing
  <2>2. TypeInv'
    BY <1>0, <2>1, TimeTypes, TypesCombine
  <2> QED
    BY <2>1, <2>2, TimeKeeps DEF Inv
<1>6. CASE Dying
  <2>1. TypeInv'
    BY <1>0, <1>6, CrashTypes, TypesCombine DEF Dying
  <2> QED
    BY <1>6, <2>1, CrashKeeps DEF Dying, Inv
<1>7. ASSUME NEW c \in Calls, ManualRun(c) PROVE Inv'
  <2>1. loaded \/ calls[c].pc # "reserve"
    BY DEF Inv, Guarded
  <2>2. TypeInv'
    BY <1>0, <1>7, <2>1, CallTypes, TypesCombine DEF ManualRun
  <2> QED
    BY <1>7, <2>2, CallKeeps DEF ManualRun, Inv
<1>8. CASE UNCHANGED vars
  <2>1. TypeInv'
    BY <1>0, <1>8 DEF vars, TypeInv
  <2>2. Claimed' = Claimed
    BY <1>8 DEF vars, Claimed
  <2>3. Guarded'
    BY <1>8, <2>2 DEF vars, Inv, Guarded, Sole, MarkedEverywhere, In, OnceIn, Holds
  <2>4. Known' /\ Settles'
    BY <1>8, <2>2 DEF vars, Inv, Known, Settles
  <2> QED
    BY <2>1, <2>3, <2>4 DEF Inv
<1> QED
  BY <1>1, <1>2, <1>3, <1>4, <1>5, <1>6, <1>7, <1>8 DEF Next

LEMMA InvAlways == Spec => []Inv
  BY InitInv, NextInv, PTL DEF Spec

-----------------------------------------------------------------------------
(* The theorems.                                                           *)

\* Both copies of the store, the batches and the manual runs keep their types,
\* whatever is added, edited or removed, and whatever saves fail and processes
\* die: the property TypeOK.
THEOREM TypeCorrect == Spec => []TypeOK
<1>1. ASSUME TypeInv PROVE TypeOK
  <2>1. \A r \in {states[j] : j \in Jobs} \cup {mem[j] : j \in Jobs} : r \in JobType
    BY <1>1 DEF TypeInv
  <2>2. \A r \in JobType :
            /\ r.there \in BOOLEAN /\ r.on \in BOOLEAN
            /\ r.sched \in 0..(MaxSchedules - 1) /\ r.spent \in 0..MaxSchedules
            /\ r.next \in NextRun /\ r.run \in Marker /\ r.last \in Status
            /\ r.errs \in 0..(MaxRetries + 1)
    BY DEF JobType, Schedules
  <2>3. \A b \in {tick, catchup} :
            b.todo \subseteq Jobs /\ b.later \subseteq Jobs /\ b.runs \subseteq Run
    BY <1>1 DEF TypeInv, BatchType
  <2>4. tick.pc \in {"idle", "collect", "run"} /\ catchup.pc \in {"idle", "run"}
    BY <1>1 DEF TypeInv, BatchType
  <2>5. \A c \in Calls : calls[c].pc \in {"idle", "reserve", "exec", "finish", "done"}
    BY <1>1 DEF TypeInv, CallType
  <2> QED
    BY <1>1, <2>1, <2>2, <2>3, <2>4, <2>5 DEF TypeOK, TypeInv, ConfigType, Schedules
<1> QED
  BY <1>1, InvAlways, PTL DEF Inv

LEMMA AtMostOne ==
    ASSUME NEW S, \A x, y \in S : x = y
    PROVE  (S = {} /\ Cardinality(S) = 0) \/ Cardinality(S) = 1
<1>1. CASE S = {}
  BY <1>1, FS_EmptySet
<1>2. ASSUME NEW x \in S PROVE Cardinality(S) = 1
  <2>1. S = {x}
    OBVIOUS
  <2> QED
    BY <2>1, FS_Singleton
<1> QED
  BY <1>1, <1>2

\* Ticks, the start-up catch-up and manual runs never execute a job twice at a
\* time, unless it was switched off, removed or taken for interrupted under the
\* run: the property OneExecutionPerJob, about the running marker that
\* isRunnableJob, inspectManualRunPreflight and prepareManualRun look at.
THEOREM JobsRunOnce == Spec => []OneExecutionPerJob
<1>1. ASSUME Inv, NEW j \in Jobs, j \notin robbed PROVE ~(Executions(j) > 1)
  <2> DEFINE T == {r \in tick.runs : r.job = j /\ r.out = "going"}
             U == {r \in catchup.runs : r.job = j /\ r.out = "going"}
             M == {c \in Calls : calls[c].pc = "exec" /\ calls[c].job = j}
  <2>1. /\ T # {} => In(tick, j) /\ j \in Claimed
        /\ U # {} => In(catchup, j) /\ j \in Claimed
        /\ \A c \in M : Holds(c, j) /\ j \in Claimed
    BY ClaimedIs DEF In, Holds
  <2>2. j \in Claimed => Sole(j)
    BY <1>1 DEF Inv, Guarded
  <2>3. OnceIn(tick, j) /\ OnceIn(catchup, j)
    BY <1>1 DEF Inv, Guarded
  <2>4. (\A x, y \in T : x = y) /\ (\A x, y \in U : x = y) /\ (\A x, y \in M : x = y)
    BY <2>1, <2>2, <2>3 DEF OnceIn, Sole
  <2>5. ~(T # {} /\ U # {}) /\ ~(T # {} /\ M # {}) /\ ~(U # {} /\ M # {})
    BY <2>1, <2>2 DEF Sole
  <2>6. Executions(j) = Cardinality(T) + Cardinality(U) + Cardinality(M)
    BY DEF Executions
  <2> HIDE DEF T, U, M
  <2>7. /\ (T = {} /\ Cardinality(T) = 0) \/ Cardinality(T) = 1
        /\ (U = {} /\ Cardinality(U) = 0) \/ Cardinality(U) = 1
        /\ (M = {} /\ Cardinality(M) = 0) \/ Cardinality(M) = 1
    BY <2>4, AtMostOne
  <2>8. Cardinality({}) = 0
    BY FS_EmptySet
  <2> QED
    BY <2>5, <2>6, <2>7, <2>8
<1>2. Inv => OneExecutionPerJob
  BY <1>1 DEF OneExecutionPerJob
<1> QED
  BY <1>2, InvAlways, PTL

\* A job that is under way and was not robbed of its marker has it in
\* jobs-state.json, so that the next process can tell that the run was cut
\* short: the property RunsAreMarkedOnDisk, about the saves that onTimer,
\* planStartupCatchup and prepareManualRun make before they run anything.
THEOREM RunsAreMarked == Spec => []RunsAreMarkedOnDisk
<1>1. Inv => RunsAreMarkedOnDisk
  BY DEF Inv, Guarded, MarkedEverywhere, RunsAreMarkedOnDisk
<1> QED
  BY <1>1, InvAlways, PTL

\* Only a job that a batch has taken is started by it.
LEMMA GoingOnesWereTaken ==
    ASSUME Inv, [Next]_vars, NEW j, j \in Going(tick)' \cup Going(catchup)'
    PROVE  j \in Claimed
<1>0. tick \in BatchType /\ catchup \in BatchType /\ TypeInv
  BY DEF Inv, TypeInv
<1>1. /\ j \in Going(tick)' => \E r \in tick'.runs : r.job = j
      /\ j \in Going(catchup)' => \E r \in catchup'.runs : r.job = j
  BY DEF Going
<1>2. (\E r \in tick.runs \cup catchup.runs : r.job = j) => j \in Claimed
  BY DEF Claimed
<1>3. (j \in tick.todo \/ j \in catchup.todo) => j \in Claimed
  BY DEF Claimed
<1>4. ASSUME NEW b \in BatchType, NEW i \in Jobs, i \in b.todo,
             \E r \in Begun(b, i).runs : r.job = j
      PROVE  j \in b.todo \/ \E r \in b.runs : r.job = j
  BY <1>0, <1>4, BegunProps
<1>5. ASSUME NEW b \in BatchType, NEW i \in Jobs, NEW out \in Outcomes,
             \E r \in [b EXCEPT !.runs = Ended(b, i, out)].runs : r.job = j
      PROVE  \E r \in b.runs : r.job = j
  BY <1>5, EndsProps, EndedProps
<1>6. CASE Start
  <2>1. ASSUME NEW i \in Jobs, CatchupStart(i) PROVE j \in Claimed
    <3>1. i \in catchup.todo /\ catchup' = Begun(catchup, i) /\ tick' = tick
      BY <2>1 DEF CatchupStart, Begun
    <3> QED
      BY <1>0, <1>1, <1>2, <1>3, <1>4, <3>1
  <2>2. ASSUME NEW i \in Jobs, NEW out \in Outcomes, CatchupEnd(i, out) PROVE j \in Claimed
    BY <1>0, <1>1, <1>2, <1>5, <2>2 DEF CatchupEnd
  <2>3. ASSUME NEW w \in Writes,
               StartInterrupted(w) \/ PlanCatchup(w) \/ ApplyCatchup(w) \/ StartArm(w)
        PROVE  tick' = tick /\ (catchup' = catchup \/ catchup'.runs = {})
    <3>1. CASE PlanCatchup(w)
      <4>1. Begins(Store, catchup', w)
        BY <1>0, <3>1, PlanBegins
      <4> QED
        BY <3>1, <4>1 DEF PlanCatchup, Begins, Opens
    <3>2. CASE StartInterrupted(w)
      BY <3>2 DEF StartInterrupted, NoBatch
    <3>3. CASE ApplyCatchup(w) \/ StartArm(w)
      BY <3>3 DEF ApplyCatchup, StartArm, NoBatch
    <3> QED
      BY <2>3, <3>1, <3>2, <3>3
  <2> QED
    BY <1>1, <1>2, <1>6, <2>1, <2>2, <2>3 DEF Start
<1>7. CASE Tick
  <2>1. ASSUME NEW i \in Jobs, RunStart(i) PROVE j \in Claimed
    <3>1. i \in tick.todo /\ tick' = Begun(tick, i) /\ catchup' = catchup
      BY <2>1 DEF RunStart, Begun
    <3> QED
      BY <1>0, <1>1, <1>2, <1>3, <1>4, <3>1
  <2>2. ASSUME NEW i \in Jobs, NEW out \in Outcomes, RunEnd(i, out) PROVE j \in Claimed
    BY <1>0, <1>1, <1>2, <1>5, <2>2 DEF RunEnd
  <2>3. ASSUME NEW w \in Writes, Collect(w) \/ Apply(w)
        PROVE  catchup' = catchup /\ tick'.runs = {}
    <3>1. CASE Collect(w)
      <4>1. Begins(Loaded, tick', w)
        BY <1>0, <3>1, CollectBegins
      <4> QED
        BY <3>1, <4>1 DEF Collect, Begins, Opens
    <3>2. CASE Apply(w)
      BY <3>2 DEF Apply, NoBatch
    <3> QED
      BY <2>3, <3>1, <3>2
  <2>4. ASSUME Fire PROVE catchup' = catchup /\ tick'.runs = tick.runs
    BY <1>0, <2>4 DEF Fire, BatchType
  <2> QED
    BY <1>1, <1>2, <1>7, <2>1, <2>2, <2>3, <2>4 DEF Tick
<1>8. CASE Dying
  BY <1>1, <1>8 DEF Dying, Crash, NoBatch
<1>9. CASE Ask
  <2>1. UNCHANGED <<tick, catchup>>
    BY <1>9 DEF Ask, Read, Add, Remove, Update, Preflight
  <2> QED
    BY <1>1, <1>2, <2>1
<1>10. CASE \E c \in Calls : ManualRun(c)
  <2>1. UNCHANGED <<tick, catchup>>
    BY <1>10 DEF ManualRun, Reserve, Finish, CallEnd
  <2> QED
    BY <1>1, <1>2, <2>1
<1>11. CASE Starting \/ Passing \/ (\E i \in Jobs : Ageing(i)) \/ UNCHANGED vars
  <2>1. UNCHANGED <<tick, catchup>>
    BY <1>11 DEF Starting, Boot, Passing, TimePasses, Ageing, MarkerAges, vars
  <2> QED
    BY <1>1, <1>2, <2>1
<1> QED
  BY <1>6, <1>7, <1>8, <1>9, <1>10, <1>11 DEF Next

\* A one-shot whose success is in both files is not started again by a tick or
\* by a catch-up, whatever crashes and failed saves follow: the property
\* SettledStaysSettled, about the two files that applyJobResult's result
\* reaches and computeJobNextRunAtMs and Merge read again.
THEOREM SettledStays == Spec => SettledStaysSettled
<1> DEFINE Stays == \A j \in settled \ robbed : j \in Going(tick)' \cup Going(catchup)'
                             => j \in Going(tick) \cup Going(catchup)
<1>1. ASSUME Inv, [Next]_vars PROVE Stays
  <2> SUFFICES ASSUME NEW j \in settled \ robbed, j \in Going(tick)' \cup Going(catchup)'
               PROVE  FALSE
    OBVIOUS
  <2>1. j \in Claimed
    BY <1>1, GoingOnesWereTaken
  <2> QED
    BY <1>1, <2>1 DEF Inv, Settles
<1>2. Inv /\ [Next]_vars => [Stays]_vars
  BY <1>1
<1> QED
  BY <1>2, InvAlways, PTL DEF Spec, SettledStaysSettled

-----------------------------------------------------------------------------
(* Due times, when no save fails.                                          *)

\* What memory has of the user's settings is in jobs.json.
Agrees(c, r) == r.there => c.there /\ r.on = c.on /\ r.sched = c.sched
Consistent == \A j \in Jobs : Agrees(config[j], mem[j])

\* A section saved what it leaves in memory, or found it in jobs.json.
SavedOrAgrees == \/ config' = ConfigOf(mem')
                 \/ config' = config /\ \A j \in Jobs : Agrees(config[j], mem'[j])

LEMMA AgreesKept == ASSUME TypeInv', SavedOrAgrees PROVE Consistent'
<1>1. CASE config' = ConfigOf(mem')
  <2>1. mem' \in [Jobs -> JobType]
    BY DEF TypeInv
  <2> QED
    BY <1>1, <2>1, ConfigOfProps DEF Consistent, Agrees
<1>2. CASE config' = config /\ \A j \in Jobs : Agrees(config[j], mem'[j])
  BY <1>2 DEF Consistent, Agrees
<1> QED
  BY <1>1, <1>2 DEF SavedOrAgrees

LEMMA CopiesAgree ==
    ASSUME TypeInv, Consistent, NEW j \in Jobs
    PROVE  Agrees(config[j], Store[j]) /\ Agrees(config[j], Loaded[j])
  BY LoadedProps DEF Consistent, Agrees, Store, FromFiles

LEMMA MaintainedAgrees ==
    ASSUME TypeInv, Consistent, NEW j \in Jobs
    PROVE  Agrees(config[j], Maintain(Store)[j])
<1>1. Upkeep(Store[j], Maintain(Store)[j])
  BY StoreProps, MaintainProps
<1> QED
  BY <1>1, CopiesAgree DEF Upkeep, Agrees

LEMMA SavesReachBothFiles ==
    ASSUME MaxFaults = 0, TypeInv, NEW w \in Writes
    PROVE  /\ Fails(w) => w = "both"
           /\ \A m : Persist(m, w) => w = "both" /\ config' = ConfigOf(mem')
<1>1. Fails(w) => w = "both"
  BY FailsProps DEF TypeInv
<1> QED
  BY <1>1, PersistProps DEF Stored

LEMMA ChangesAgree ==
    ASSUME MaxFaults = 0, TypeInv, NEW w \in Writes, NEW old, NEW m,
           PersistChanges(old, m, w), \A j \in Jobs : Agrees(config[j], old[j])
    PROVE  SavedOrAgrees
<1>1. CASE m = old
  BY <1>1, PersistChangesProps DEF SavedOrAgrees, Stored
<1>2. CASE m # old
  BY <1>2, SavesReachBothFiles DEF PersistChanges, SavedOrAgrees
<1> QED
  BY <1>1, <1>2

LEMMA NextAgrees ==
    ASSUME MaxFaults = 0, TypeInv, Consistent, Next
    PROVE  SavedOrAgrees
<1>0. \A j \in Jobs : /\ Agrees(config[j], Store[j]) /\ Agrees(config[j], Loaded[j])
                      /\ Agrees(config[j], Maintain(Store)[j])
  BY CopiesAgree, MaintainedAgrees
<1>1. ASSUME UNCHANGED <<config, mem>> PROVE SavedOrAgrees
  BY <1>1 DEF SavedOrAgrees, Consistent
<1>2. ASSUME NEW w \in Writes, NEW m, Persist(m, w) PROVE SavedOrAgrees
  BY <1>2, SavesReachBothFiles DEF SavedOrAgrees
<1>3. ASSUME NEW w \in Writes, PersistChanges(Store, Maintain(Store), w) PROVE SavedOrAgrees
  BY <1>0, <1>3, ChangesAgree
<1>4. CASE Starting
  BY <1>1, <1>4 DEF Starting, Boot
<1>5. CASE Start
  <2>1. ASSUME NEW w \in Writes, StartInterrupted(w) PROVE SavedOrAgrees
    <3>1. CASE Save(Store, w = "both", FALSE)
      BY <1>0, <3>1 DEF SavedOrAgrees, Save
    <3> QED
      BY <1>2, <2>1, <3>1 DEF StartInterrupted
  <2>2. ASSUME NEW w \in Writes, PlanCatchup(w) PROVE SavedOrAgrees
    <3>1. CASE mem' = Store /\ config' = config
      BY <1>0, <3>1 DEF SavedOrAgrees
    <3>2. CASE \E m : Persist(m, w)
      BY <1>2, <3>2
    <3>3. (mem' = Store /\ config' = config) \/ \E m : Persist(m, w)
      BY <2>2 DEF PlanCatchup
    <3> QED
      BY <3>1, <3>2, <3>3
  <2>3. ASSUME NEW w \in Writes, ApplyCatchup(w) PROVE SavedOrAgrees
    BY <1>2, <2>3 DEF ApplyCatchup
  <2>4. ASSUME NEW w \in Writes, StartArm(w) PROVE SavedOrAgrees
    BY <1>3, <2>4 DEF StartArm
  <2>5. ASSUME NEW j \in Jobs, CatchupStart(j) \/ \E out \in Outcomes : CatchupEnd(j, out)
        PROVE  SavedOrAgrees
    BY <1>1, <2>5 DEF CatchupStart, CatchupEnd
  <2> QED
    BY <1>5, <2>1, <2>2, <2>3, <2>4, <2>5 DEF Start
<1>6. CASE Tick
  <2>1. ASSUME NEW w \in Writes, Collect(w) PROVE SavedOrAgrees
    <3> DEFINE due == {j \in Jobs : Due(Loaded[j])}
               m == IF due = {} THEN Maintain(Loaded) ELSE MarkOf(Loaded, due)
    <3>1. PersistChanges(Loaded, m, w)
      BY <2>1 DEF Collect, MarkOf
    <3> HIDE DEF m
    <3> QED
      BY <1>0, <3>1, ChangesAgree
  <2>2. ASSUME NEW w \in Writes, Apply(w) PROVE SavedOrAgrees
    BY <1>2, <2>2 DEF Apply
  <2>3. CASE Fire
    BY <1>1, <2>3 DEF Fire
  <2>4. ASSUME NEW j \in Jobs, RunStart(j) \/ \E out \in Outcomes : RunEnd(j, out)
        PROVE  SavedOrAgrees
    BY <1>1, <2>4 DEF RunStart, RunEnd
  <2> QED
    BY <1>6, <2>1, <2>2, <2>3, <2>4 DEF Tick
<1>7. CASE Ask
  <2>1. ASSUME NEW w \in Writes, Read(w) PROVE SavedOrAgrees
    BY <1>3, <2>1 DEF Read
  <2>2. ASSUME NEW j \in Jobs, NEW w \in Writes,
               Add(j, w) \/ Remove(j, w) \/ \E p \in Patches : Update(j, p, w)
        PROVE  SavedOrAgrees
    BY <1>2, <2>2 DEF Add, Remove, Update
  <2>3. ASSUME NEW c \in Calls, NEW j \in Jobs, NEW force \in BOOLEAN, Preflight(c, j, force)
        PROVE  SavedOrAgrees
    BY <1>0, <2>3 DEF Preflight, SavedOrAgrees
  <2> QED
    BY <1>7, <2>1, <2>2, <2>3 DEF Ask
<1>8. CASE Passing \/ \E j \in Jobs : Ageing(j)
  <2>1. PICK j \in Jobs : TimePasses(j) \/ MarkerAges(j)
    BY <1>8 DEF Passing, Ageing
  <2>2. config' = config /\ \A i \in Jobs : /\ mem'[i].there = mem[i].there
                                            /\ mem'[i].on = mem[i].on
                                            /\ mem'[i].sched = mem[i].sched
    BY <2>1, TimeTypes
  <2> QED
    BY <2>2 DEF SavedOrAgrees, Consistent, Agrees
<1>9. CASE Dying
  BY <1>9, NewJobType DEF Dying, Crash, SavedOrAgrees, Agrees
<1>10. ASSUME NEW c \in Calls, ManualRun(c) PROVE SavedOrAgrees
  <2>1. ASSUME NEW w \in Writes, Reserve(c, w) \/ Finish(c, w) PROVE SavedOrAgrees
    <3>1. UNCHANGED <<config, mem>> \/ \E m : Persist(m, w)
      BY <2>1 DEF Reserve, Finish
    <3> QED
      BY <1>1, <1>2, <3>1
  <2>2. ASSUME NEW out \in Outcomes, CallEnd(c, out) PROVE SavedOrAgrees
    BY <1>1, <2>2 DEF CallEnd
  <2> QED
    BY <1>10, <2>1, <2>2 DEF ManualRun
<1> QED
  BY <1>4, <1>5, <1>6, <1>7, <1>8, <1>9, <1>10 DEF Next

LEMMA ConsistentAlways ==
    ASSUME MaxFaults = 0 PROVE Spec => []Consistent
<1>1. Init => Consistent
  BY NewJobType DEF Init, Consistent, Agrees
<1>2. Inv /\ Inv' /\ Consistent /\ [Next]_vars => Consistent'
  <2>1. ASSUME Inv, Inv', Consistent, Next PROVE Consistent'
    BY <2>1, NextAgrees, AgreesKept DEF Inv
  <2>2. Consistent /\ UNCHANGED vars => Consistent'
    BY DEF Consistent, vars
  <2> QED
    BY <2>1, <2>2
<1> QED
  BY <1>1, <1>2, InvAlways, PTL DEF Spec

LEMMA DueCopies ==
    ASSUME TypeInv, Consistent, NEW j \in Jobs, Due(mem[j]), Due(Merge(config[j], states[j]))
    PROVE  Due(Store[j]) /\ Due(Loaded[j])
<1> DEFINE r == Merge(config[j], states[j])
<1>1. config[j].there /\ r.on = config[j].on /\ r.sched = config[j].sched
  <2>1. CASE ~config[j].there
    BY <2>1, NewJobType DEF Merge, Due
  <2>2. CASE config[j].there /\ ~states[j].there
    BY <2>2, NewJobType DEF Merge, JobType
  <2>3. CASE config[j].there /\ states[j].there
    <3>1. states[j] \in JobType
      BY DEF TypeInv
    <3> QED
      BY <2>3, <3>1 DEF Merge, JobType
  <2> QED
    BY <2>1, <2>2, <2>3
<1>2. mem[j].there /\ mem[j].on = config[j].on /\ mem[j].sched = config[j].sched
  BY DEF Consistent, Agrees, Due
<1>3. Identity(mem[j]) = Identity(r)
  BY <1>1, <1>2 DEF Identity
<1>4. Loaded[j] = r
  BY <1>3 DEF Loaded
<1> QED
  BY <1>4 DEF Store

\* A section that tends a copy of the store in which j is due.
LEMMA MaintainedDue ==
    ASSUME NEW m \in [Jobs -> JobType], NEW j \in Jobs, Due(m[j])
    PROVE  Due(Maintain(m)[j])
  BY MaintainProps

LEMMA BegunDue ==
    ASSUME NEW base, NEW b, Begins(base, b, "both"), NEW j \in Jobs, Due(base[j])
    PROVE  Due(mem'[j]) \/ j \in b.todo
  BY DEF Begins, Opens, Stored

LEMMA NextKeepsDue ==
    ASSUME MaxFaults = 0, Inv, Consistent, Next, edits' = edits, phase # "catchup",
           NEW j \in Jobs
    PROVE  KeepsDueTime(j)
<1> SUFFICES ASSUME Due(mem[j]), Due(Merge(config[j], states[j])), j \notin Claimed
             PROVE  phase' = "down" \/ Due(mem'[j]) \/ j \in Claimed'
  BY DEF KeepsDueTime
<1>0. /\ TypeInv /\ Store \in [Jobs -> JobType] /\ Loaded \in [Jobs -> JobType]
      /\ mem \in [Jobs -> JobType] /\ faults \in 0..MaxFaults
  BY StoreProps, LoadedProps DEF Inv, TypeInv
<1>1. Due(Store[j]) /\ Due(Loaded[j]) /\ Due(Maintain(Store)[j])
  BY <1>0, DueCopies, MaintainedDue
<1>2. ASSUME mem' = mem PROVE Due(mem'[j])
  BY <1>2
<1>3. \A w \in Writes : Fails(w) => w = "both"
  BY <1>0, FailsProps
<1>4. ASSUME NEW w \in Writes, PersistChanges(Store, Maintain(Store), w) PROVE Due(mem'[j])
  BY <1>1, <1>4, PersistChangesProps DEF Stored
<1>5. CASE Starting
  BY <1>2, <1>5 DEF Starting, Boot
<1>6. CASE Start
  <2>1. ASSUME NEW w \in Writes, StartInterrupted(w) PROVE Due(mem'[j])
    <3>1. PICK m \in [Jobs -> JobType] :
              Stored(m) /\ (m = [i \in Jobs |-> Interrupted(i, Store[i])] \/ m = Store)
      BY <1>0, <2>1, StartInterruptedStore
    <3>2. Interrupted(j, Store[j]) = Store[j]
      BY <1>0, <1>1, InterruptedType DEF Due
    <3> QED
      BY <1>1, <3>1, <3>2 DEF Stored
  <2>2. ASSUME NEW w \in Writes, PlanCatchup(w) PROVE Due(mem'[j]) \/ j \in Claimed'
    <3>1. Begins(Store, catchup', w)
      BY <1>0, <2>2, PlanBegins
    <3>2. w = "both"
      BY <1>3, <3>1 DEF Begins
    <3>3. Due(mem'[j]) \/ j \in catchup'.todo
      BY <1>1, <3>1, <3>2, BegunDue
    <3> QED
      BY <3>3 DEF Claimed
  <2>3. ASSUME NEW w \in Writes, ApplyCatchup(w) PROVE FALSE
    BY <2>3 DEF ApplyCatchup
  <2>4. ASSUME NEW w \in Writes, StartArm(w) PROVE Due(mem'[j])
    BY <1>4, <2>4 DEF StartArm
  <2>5. ASSUME NEW i \in Jobs, CatchupStart(i) \/ \E out \in Outcomes : CatchupEnd(i, out)
        PROVE  Due(mem'[j])
    BY <1>2, <2>5 DEF CatchupStart, CatchupEnd
  <2> QED
    BY <1>6, <2>1, <2>2, <2>3, <2>4, <2>5 DEF Start
<1>7. CASE Tick
  <2>1. ASSUME NEW w \in Writes, Collect(w) PROVE Due(mem'[j]) \/ j \in Claimed'
    <3>1. Begins(Loaded, tick', w)
      BY <1>0, <2>1, CollectBegins
    <3>2. w = "both"
      BY <1>3, <3>1 DEF Begins
    <3>3. Due(mem'[j]) \/ j \in tick'.todo
      BY <1>1, <3>1, <3>2, BegunDue
    <3> QED
      BY <3>3 DEF Claimed
  <2>2. ASSUME NEW w \in Writes, Apply(w) PROVE Due(mem'[j])
    <3> DEFINE t == ApplyOutcomes(tick, Loaded)
    <3>1. Going(tick) = {} /\ tick \in BatchType /\ Persist(Maintain(t), w)
      BY <1>0, <2>2 DEF Apply, TypeInv
    <3>2. \A r \in tick.runs : r.job # j
      BY DEF Claimed
    <3>3. t \in [Jobs -> JobType] /\ t[j] = Loaded[j]
      BY <1>0, <3>1, <3>2, ApplyOutcomesProps
    <3> HIDE DEF t
    <3>4. Due(Maintain(t)[j])
      BY <1>1, <3>3, MaintainedDue
    <3> QED
      BY <3>1, <3>4, PersistProps DEF Stored
  <2>3. CASE Fire
    BY <1>2, <2>3 DEF Fire
  <2>4. ASSUME NEW i \in Jobs, RunStart(i) \/ \E out \in Outcomes : RunEnd(i, out)
        PROVE  Due(mem'[j])
    BY <1>2, <2>4 DEF RunStart, RunEnd
  <2> QED
    BY <1>7, <2>1, <2>2, <2>3, <2>4 DEF Tick
<1>8. CASE Ask
  <2>1. ASSUME NEW w \in Writes, Read(w) PROVE Due(mem'[j])
    BY <1>4, <2>1 DEF Read
  <2>2. ASSUME NEW i \in Jobs, NEW w \in Writes,
               Add(i, w) \/ Remove(i, w) \/ \E p \in Patches : Update(i, p, w)
        PROVE  FALSE
    <3>1. edits' = edits + 1
      BY <2>2 DEF Add, Remove, Update, Edited
    <3>2. edits \in 0..MaxEdits
      BY <1>0 DEF TypeInv
    <3> QED
      BY <3>1, <3>2, BoundsAssumption
  <2>3. ASSUME NEW c \in Calls, NEW i \in Jobs, NEW force \in BOOLEAN, Preflight(c, i, force)
        PROVE  Due(mem'[j])
    BY <1>1, <2>3 DEF Preflight
  <2> QED
    BY <1>8, <2>1, <2>2, <2>3 DEF Ask
<1>9. CASE Passing \/ \E i \in Jobs : Ageing(i)
  <2>1. PICK i \in Jobs : TimePasses(i) \/ MarkerAges(i)
    BY <1>9 DEF Passing, Ageing
  <2>2. mem'[j] \in {mem[j], Later(mem[j]), Older(mem[j])}
    BY <1>0, <2>1 DEF TimePasses, MarkerAges
  <2>3. mem[j] \in JobType
    BY <1>0
  <2> QED
    BY <2>2, <2>3 DEF Due, Later, Older, JobType
<1>10. CASE Dying
  BY <1>10 DEF Dying, Crash
<1>11. ASSUME NEW c \in Calls, ManualRun(c) PROVE Due(mem'[j]) \/ j \in Claimed'
  <2>1. ASSUME NEW w \in Writes, Reserve(c, w) PROVE Due(mem'[j]) \/ j \in Claimed'
    <3>1. PICK i \in Jobs : i = calls[c].job
      BY <1>0, <2>1 DEF Reserve, TypeInv
    <3>2. CASE Refused(mem[i])
      BY <1>2, <2>1, <3>1, <3>2 DEF Reserve
    <3>3. CASE ~Refused(mem[i]) /\ i # j
      <4>1. Persist([mem EXCEPT ![i].run = "fresh"], w)
        BY <2>1, <3>1, <3>3 DEF Reserve
      <4>2. mem'[j] = mem[j]
        BY <1>0, <3>3, <4>1 DEF Persist, Save
      <4> QED
        BY <4>2
    <3>4. CASE ~Refused(mem[i]) /\ i = j
      <4>1. Fails(w)
        BY <2>1, <3>1, <3>4 DEF Reserve, Persist
      <4>2. w = "both"
        BY <1>3, <4>1
      <4>3. calls \in [Calls -> CallType] /\ calls[c].job = j
        BY <1>0, <3>1, <3>4 DEF TypeInv
      <4>4. calls' = [calls EXCEPT ![c] =
                        [@ EXCEPT !.pc = "exec",
                                  !.since = IF j \in OneShots THEN passed[j] ELSE 0]]
        BY <2>1, <3>1, <3>4, <4>2 DEF Reserve
      <4>5. calls[c] \in CallType
        BY <4>3
      <4>6. calls'[c].pc = "exec" /\ calls'[c].job = j
        BY <4>3, <4>4, <4>5 DEF CallType
      <4> QED
        BY <4>6 DEF Claimed
    <3> QED
      BY <3>2, <3>3, <3>4
  <2>2. ASSUME NEW w \in Writes, Finish(c, w) PROVE Due(mem'[j])
    <3>1. calls[c].job # j
      BY <2>2 DEF Finish, Claimed
    <3>2. CASE ~Store[calls[c].job].there
      BY <1>2, <2>2, <3>2 DEF Finish
    <3>3. CASE Store[calls[c].job].there
      BY <1>0, <1>1, <2>2, <3>1, <3>3, FinishStore DEF Stored
    <3> QED
      BY <3>2, <3>3
  <2>3. ASSUME NEW out \in Outcomes, CallEnd(c, out) PROVE Due(mem'[j])
    BY <1>2, <2>3 DEF CallEnd
  <2> QED
    BY <1>11, <2>1, <2>2, <2>3 DEF ManualRun
<1> QED
  BY <1>5, <1>6, <1>7, <1>8, <1>9, <1>10, <1>11 DEF Next

\* While no save fails, a due time that is in memory and in the files stays
\* until its job is taken: reads, ticks, manual runs and the ends of other
\* jobs' runs do not advance it.  The property DueTimesAreKept, about
\* recomputeNextRunsForMaintenance and mergeStateFileEntry.  (A failed save
\* leaves a marker in memory that nobody works behind, until it ages.)
THEOREM DueTimesKept ==
    ASSUME MaxFaults = 0 PROVE Spec => DueTimesAreKept
<1> DEFINE Keeps == edits' = edits /\ phase # "catchup" => \A j \in Jobs : KeepsDueTime(j)
<1>1. ASSUME Inv, Consistent, Next PROVE Keeps
  BY <1>1, NextKeepsDue
<1>2. Inv /\ Consistent /\ [Next]_vars => [Keeps]_vars
  BY <1>1
<1> QED
  BY <1>2, InvAlways, ConsistentAlways, PTL DEF Spec, DueTimesAreKept
=============================================================================

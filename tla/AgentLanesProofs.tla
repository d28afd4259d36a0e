--------------------------- MODULE AgentLanesProofs ---------------------------
(***************************************************************************)
(* Proofs about AgentLanes, for any runs, sessions and configurations: the *)
(* types, and that inner entries hold the slots of the outer ones.         *)
(*                                                                         *)
(* Slots are handed out by the pump loops, which take what waits in a lane *)
(* as they find it.  So the invariant adds what waits where: a run waits   *)
(* in one lane at a time, once, at the stage that goes with this lane, and *)
(* in a lane of its own (Waiting).  It is stated of the value the loops    *)
(* take and return, as they call each other before a step is over.         *)
(***************************************************************************)
EXTENDS AgentLanes, SequenceTheorems, FiniteSetTheorems, WellFoundedInduction, TLAPS

\* The stage of a run that waits in lane l, and whether l is a lane of run r.
WaitStage(l) == CASE l = "cron" -> "cron-queued"
                  [] l \in Sessions -> "session-queued"
                  [] OTHER -> "lane-queued"
Home(r, l) == CASE l = "cron" -> Origin[r] = "manual"
                [] l \in Sessions -> SessionOf[r] = l
                [] OTHER -> GlobalLane(r) = l

\* What the pump loops work on.
QType == [queue : [Lanes -> Seq(Runs)], active : [Lanes -> SUBSET Runs],
          stage : [Runs -> Stages], bodies : SUBSET Runs, refused : SUBSET Runs]

Waiting(q) ==
    \A l \in Lanes :
        /\ \A i \in 1..Len(q.queue[l]) :
               q.stage[q.queue[l][i]] = WaitStage(l) /\ Home(q.queue[l][i], l)
        /\ \A i, j \in 1..Len(q.queue[l]) : q.queue[l][i] = q.queue[l][j] => i = j

Unqueued(q, r) == \A l \in Lanes : \A i \in 1..Len(q.queue[l]) : q.queue[l][i] # r

\* InnerEntriesHoldOuterSlots, with the runs that are aborted and loose.
HoldsSession(q, r) ==
    q.stage[r] \in {"lane-queued", "running", "unwinding"} => r \in q.active[SessionOf[r]]
HoldsCron(q, r) ==
    Origin[r] = "manual" /\ q.stage[r] \in Under \ {"cron-queued"} => r \in q.active["cron"]
Holding(q, ab, lo) ==
    /\ \A s \in Sessions : \A x, y \in q.active[s] : x = y
    /\ \A r \in Runs \ lo : HoldsSession(q, r) /\ (r \in ab \/ HoldsCron(q, r))

Ok(q, ab, lo) == q \in QType /\ Waiting(q) /\ Holding(q, ab, lo)

\* The other variables.
Rest ==
    /\ cap \in [GlobalLanes -> Nat] /\ config \in Versions /\ born \in [Runs -> Versions]
    /\ suspending \subseteq [lane : GlobalLanes, version : Versions]
    /\ resume \in [GlobalLanes -> Nat] /\ draining \in BOOLEAN
    /\ aborted \subseteq Runs /\ loose \subseteq Runs /\ kept \subseteq Runs
    /\ faults \in 0..MaxFaults

Inv == Ok(Now, aborted, loose) /\ Rest

-----------------------------------------------------------------------------
(* Waiting in lanes.                                                       *)

LEMMA LaneFacts ==
    /\ \A r \in Runs : /\ SessionOf[r] \in Sessions
                       /\ GlobalLane(r) \in {"main", "cron-nested"}
    /\ \A l \in Sessions : l \in Lanes /\ l \notin GlobalLanes
    /\ \A l \in GlobalLanes : l \in Lanes /\ l \notin Sessions
    /\ \A l \in Lanes : WaitStage(l) \in {"cron-queued", "session-queued", "lane-queued"}
<1>1. \A r \in Runs : SessionOf[r] \in Sessions
  BY RunsAssumption
<1>2. \A r \in Runs : GlobalLane(r) \in {"main", "cron-nested"}
  BY DEF GlobalLane, ResolveGlobalLane, AskedLane
<1>3. /\ \A l \in Sessions : l \in Lanes /\ l \notin GlobalLanes
      /\ \A l \in GlobalLanes : l \in Lanes /\ l \notin Sessions
  BY RunsAssumption DEF Lanes
<1>4. \A l \in Lanes : WaitStage(l) \in {"cron-queued", "session-queued", "lane-queued"}
  BY DEF WaitStage
<1> QED
  BY <1>1, <1>2, <1>3, <1>4

\* A run waits in one lane only.
LEMMA OneLane ==
    ASSUME NEW q \in QType, Waiting(q), NEW l \in Lanes, NEW m \in Lanes,
           NEW i \in 1..Len(q.queue[l]), NEW j \in 1..Len(q.queue[m]),
           q.queue[l][i] = q.queue[m][j]
    PROVE  l = m /\ i = j
<1> DEFINE r == q.queue[l][i]
<1>1. /\ q.stage[r] = WaitStage(l) /\ Home(r, l)
      /\ q.stage[r] = WaitStage(m) /\ Home(r, m)
  BY DEF Waiting
<1> HIDE DEF r
<1>2. WaitStage(l) = WaitStage(m)
  BY <1>1
<1>3. ASSUME l = "cron" PROVE l = m
  BY <1>2, <1>3, LaneFacts DEF WaitStage, GlobalLanes
<1>4. ASSUME l \in Sessions PROVE l = m
  <2>1. l \notin GlobalLanes
    BY <1>4, LaneFacts
  <2>2. m # "cron" /\ m \in Sessions
    BY <1>2, <1>4, <2>1, LaneFacts DEF WaitStage, GlobalLanes
  <2>3. m \notin GlobalLanes
    BY <2>2, LaneFacts
  <2>4. SessionOf[r] = l /\ SessionOf[r] = m
    BY <1>1, <1>4, <2>1, <2>2, <2>3 DEF Home, GlobalLanes
  <2> QED
    BY <2>4
<1>5. ASSUME l # "cron", l \notin Sessions PROVE l = m
  <2>1. m # "cron" /\ m \notin Sessions
    BY <1>2, <1>5, LaneFacts DEF WaitStage, GlobalLanes
  <2> QED
    BY <1>1, <1>5, <2>1 DEF Home
<1>6. l = m
  BY <1>3, <1>4, <1>5
<1>7. i = j
  BY <1>6 DEF Waiting
<1> QED
  BY <1>6, <1>7

\* A run at another stage waits nowhere.
LEMMA NotWaiting ==
    ASSUME NEW q \in QType, Waiting(q), NEW r \in Runs,
           q.stage[r] \notin {"cron-queued", "session-queued", "lane-queued"}
    PROVE  Unqueued(q, r)
  BY LaneFacts DEF Waiting, Unqueued

\* Runs that wait nowhere change their stage.
LEMMA Restaged ==
    ASSUME NEW q \in QType, Waiting(q), NEW q2 \in QType, q2.queue = q.queue,
           \A r \in Runs : q2.stage[r] = q.stage[r] \/ Unqueued(q, r)
    PROVE  Waiting(q2)
<1> SUFFICES ASSUME NEW l \in Lanes, NEW i \in 1..Len(q.queue[l])
             PROVE  q2.stage[q.queue[l][i]] = q.stage[q.queue[l][i]]
  BY DEF Waiting
<1>1. q.queue[l] \in Seq(Runs)
  BY DEF QType
<1>2. q.queue[l][i] \in Runs
  BY <1>1, ElementOfSeq
<1> QED
  BY <1>2 DEF Unqueued

\* The first n leave a lane and change their stage.
Takes(q, q2, l, n) ==
    /\ n \in 0..Len(q.queue[l])
    /\ q2.queue = [q.queue EXCEPT ![l] = SubSeq(@, n + 1, Len(@))]
    /\ \A r \in Runs : q2.stage[r] = q.stage[r] \/ \E i \in 1..n : r = q.queue[l][i]

Gone(q, q2, l, n) == \A i \in 1..n : Unqueued(q2, q.queue[l][i])

LEMMA TakesFirst ==
    ASSUME NEW q \in QType, Waiting(q), NEW q2 \in QType, NEW l \in Lanes, NEW n,
           Takes(q, q2, l, n)
    PROVE  Waiting(q2) /\ Gone(q, q2, l, n)
<1>0. /\ n \in 0..Len(q.queue[l])
      /\ q2.queue = [q.queue EXCEPT ![l] = SubSeq(@, n + 1, Len(@))]
      /\ \A r \in Runs : q2.stage[r] = q.stage[r] \/ \E i \in 1..n : r = q.queue[l][i]
  BY DEF Takes
<1> DEFINE s == q.queue[l]
           t == SubSeq(s, n + 1, Len(s))
<1>1. /\ s \in Seq(Runs) /\ q2.queue \in [Lanes -> Seq(Runs)]
      /\ q.queue \in [Lanes -> Seq(Runs)]
  BY DEF QType
<1>2. Len(s) \in Nat /\ n \in Nat /\ n <= Len(s) /\ \A i \in 1..Len(s) : s[i] \in Runs
  BY <1>0, <1>1, LenProperties, ElementOfSeq
<1>3. /\ Len(t) = IF n + 1 <= Len(s) THEN Len(s) - (n + 1) + 1 ELSE 0
      /\ \A i \in 1..(Len(s) - (n + 1) + 1) : t[i] = s[n + 1 + i - 1]
  BY <1>1, <1>2, SubSeqProperties
<1>4. q2.queue[l] = t /\ \A m \in Lanes : m # l => q2.queue[m] = q.queue[m]
  BY <1>0, <1>1
<1> HIDE DEF s, t
<1>5. Len(t) = Len(s) - n /\ \A i \in 1..Len(t) : i + n \in 1..Len(s) /\ t[i] = s[i + n]
  BY <1>2, <1>3
<1>6. ASSUME NEW m \in Lanes, NEW i \in 1..Len(q2.queue[m])
      PROVE  \E j \in 1..Len(q.queue[m]) : /\ q.queue[m][j] = q2.queue[m][i]
                                           /\ m = l => j = i + n
  BY <1>4, <1>5 DEF s
<1>7. ASSUME NEW m \in Lanes, NEW i \in 1..Len(q2.queue[m]), NEW k \in 1..n
      PROVE  q2.queue[m][i] # q.queue[l][k]
  <2>1. PICK j \in 1..Len(q.queue[m]) : q.queue[m][j] = q2.queue[m][i] /\ (m = l => j = i + n)
    BY <1>6
  <2>2. k \in 1..Len(q.queue[l])
    BY <1>2 DEF s
  <2>3. SUFFICES ASSUME q.queue[m][j] = q.queue[l][k] PROVE FALSE
    BY <2>1
  <2>4. m = l /\ j = k
    BY <2>2, <2>3, OneLane
  <2>5. j = i + n /\ i \in 1..Len(t)
    BY <2>1, <2>4, <1>4
  <2> QED
    BY <2>4, <2>5, <1>2, <1>5
<1>8. ASSUME NEW m \in Lanes, NEW i \in 1..Len(q2.queue[m])
      PROVE  q2.stage[q2.queue[m][i]] = WaitStage(m) /\ Home(q2.queue[m][i], m)
  <2>1. PICK j \in 1..Len(q.queue[m]) : q.queue[m][j] = q2.queue[m][i]
    BY <1>6
  <2>2. q.stage[q.queue[m][j]] = WaitStage(m) /\ Home(q.queue[m][j], m)
    BY DEF Waiting
  <2>3. q2.queue[m][i] \in Runs
    BY <1>1, ElementOfSeq
  <2>4. q2.stage[q2.queue[m][i]] = q.stage[q2.queue[m][i]]
    <3> DEFINE x == q2.queue[m][i]
    <3>1. x \in Runs /\ \A k \in 1..n : x # q.queue[l][k]
      BY <2>3, <1>7
    <3> HIDE DEF x
    <3>2. q2.stage[x] = q.stage[x]
      BY <1>0, <3>1
    <3> QED
      BY <3>2 DEF x
  <2> QED
    BY <2>1, <2>2, <2>4
<1>9. ASSUME NEW m \in Lanes, NEW i \in 1..Len(q2.queue[m]), NEW j \in 1..Len(q2.queue[m]),
             q2.queue[m][i] = q2.queue[m][j]
      PROVE  i = j
  <2>1. CASE m # l
    BY <2>1, <1>4, <1>9 DEF Waiting
  <2>2. CASE m = l
    <3>1. i \in 1..Len(t) /\ j \in 1..Len(t) /\ t[i] = t[j]
      BY <2>2, <1>4, <1>9
    <3>2. i + n \in 1..Len(s) /\ j + n \in 1..Len(s) /\ s[i + n] = s[j + n]
      BY <3>1, <1>5
    <3>3. i + n = j + n
      BY <3>2 DEF Waiting, s
    <3> QED
      BY <3>1, <3>3, <1>2, <1>5
  <2> QED
    BY <2>1, <2>2
<1>10. Waiting(q2)
  BY <1>8, <1>9 DEF Waiting
<1>11. Gone(q, q2, l, n)
  <2> SUFFICES ASSUME NEW k \in 1..n, NEW m \in Lanes, NEW i \in 1..Len(q2.queue[m])
               PROVE  q2.queue[m][i] # q.queue[l][k]
    BY DEF Gone, Unqueued
  <2> QED
    BY <1>7
<1> QED
  BY <1>10, <1>11

\* A run that waits nowhere joins a lane of its own.
LEMMA PutsLast ==
    ASSUME NEW q \in QType, Waiting(q), NEW q2 \in QType, NEW l \in Lanes,
           NEW r \in Runs, Unqueued(q, r), Home(r, l),
           q2.queue = [q.queue EXCEPT ![l] = Append(@, r)],
           q2.stage = [q.stage EXCEPT ![r] = WaitStage(l)]
    PROVE  Waiting(q2)
<1> DEFINE s == q.queue[l]
           t == Append(s, r)
<1>1. /\ s \in Seq(Runs) /\ q.queue \in [Lanes -> Seq(Runs)] /\ q.stage \in [Runs -> Stages]
      /\ \A m \in Lanes : \A i \in 1..Len(q.queue[m]) : q.queue[m][i] \in Runs
  BY ElementOfSeq DEF QType
<1>2. Len(s) \in Nat
  BY <1>1, LenProperties
<1>3. Len(t) = Len(s) + 1 /\ (\A i \in 1..Len(s) : t[i] = s[i]) /\ t[Len(s) + 1] = r
  BY <1>1, AppendProperties
<1>4. q2.queue[l] = t /\ \A m \in Lanes : m # l => q2.queue[m] = q.queue[m]
  BY <1>1
<1>5. q2.stage[r] = WaitStage(l) /\ \A x \in Runs : x # r => q2.stage[x] = q.stage[x]
  BY <1>1
<1>6. ASSUME NEW m \in Lanes, NEW i \in 1..Len(q.queue[m])
      PROVE  /\ q.queue[m][i] # r
             /\ q2.stage[q.queue[m][i]] = WaitStage(m) /\ Home(q.queue[m][i], m)
  BY <1>1, <1>5 DEF Waiting, Unqueued
<1> HIDE DEF t
<1>7. ASSUME NEW m \in Lanes, m # l
      PROVE  /\ \A i \in 1..Len(q2.queue[m]) :
                   q2.stage[q2.queue[m][i]] = WaitStage(m) /\ Home(q2.queue[m][i], m)
             /\ \A i, j \in 1..Len(q2.queue[m]) : q2.queue[m][i] = q2.queue[m][j] => i = j
  BY <1>4, <1>6, <1>7 DEF Waiting
<1>8. \A i \in 1..Len(t) : \/ i \in 1..Len(s) /\ t[i] = s[i] /\ t[i] # r
                           \/ i = Len(s) + 1 /\ t[i] = r
  BY <1>2, <1>3, <1>6
<1>9. \A i \in 1..Len(t) : q2.stage[t[i]] = WaitStage(l) /\ Home(t[i], l)
  BY <1>5, <1>6, <1>8
<1>10. \A i, j \in 1..Len(s) : s[i] = s[j] => i = j
  BY DEF Waiting
<1>11. \A i, j \in 1..Len(t) : t[i] = t[j] => i = j
  <2> HIDE DEF s
  <2> QED
    BY <1>8, <1>10
<1>12. /\ \A i \in 1..Len(q2.queue[l]) :
              q2.stage[q2.queue[l][i]] = WaitStage(l) /\ Home(q2.queue[l][i], l)
       /\ \A i, j \in 1..Len(q2.queue[l]) : q2.queue[l][i] = q2.queue[l][j] => i = j
  BY <1>4, <1>9, <1>11
<1> SUFFICES ASSUME NEW m \in Lanes
             PROVE  /\ \A i \in 1..Len(q2.queue[m]) :
                          q2.stage[q2.queue[m][i]] = WaitStage(m) /\ Home(q2.queue[m][i], m)
                    /\ \A i, j \in 1..Len(q2.queue[m]) : q2.queue[m][i] = q2.queue[m][j] => i = j
  BY DEF Waiting
<1> QED
  BY <1>7, <1>12


-----------------------------------------------------------------------------
(* The pump loops.                                                         *)

\* drainLane on a global lane keeps the invariant: who starts there holds the
\* slots it had while it waited, and in the lane "cron" the one it gets.
LEMMA PumpGlobalOk ==
    ASSUME NEW ab, NEW lo, NEW q, Ok(q, ab, lo), NEW l \in GlobalLanes,
           NEW caps \in [GlobalLanes -> Nat]
    PROVE  Ok(PumpGlobal(q, l, caps), ab, lo)
<1> DEFINE s == q.queue[l]
           free == IF caps[l] > Cardinality(q.active[l])
                   THEN caps[l] - Cardinality(q.active[l]) ELSE 0
           n == IF Len(s) < free THEN Len(s) ELSE free
           started == {s[i] : i \in 1..n}
           st == [r \in Runs |-> IF r \notin started THEN q.stage[r]
                                 ELSE IF l = "cron" THEN "cron-body" ELSE "running"]
           qu == [q.queue EXCEPT ![l] = SubSeq(s, n + 1, Len(s))]
           ac == [q.active EXCEPT ![l] = q.active[l] \cup started]
           bo == IF l = "cron" THEN q.bodies ELSE q.bodies \cup started
           p == PumpGlobal(q, l, caps)
<1>1. /\ q \in QType /\ Waiting(q) /\ Holding(q, ab, lo) /\ l \in Lanes
      /\ s \in Seq(Runs) /\ q.active[l] \subseteq Runs
      /\ q.queue \in [Lanes -> Seq(Runs)] /\ q.active \in [Lanes -> SUBSET Runs]
      /\ q.stage \in [Runs -> Stages]
  BY LaneFacts DEF Ok, QType
<1>2. p = [q EXCEPT !.queue = qu, !.active = ac, !.stage = st, !.bodies = bo]
  BY <1>1 DEF PumpGlobal, QType
<1>3. Cardinality(q.active[l]) \in Nat /\ caps[l] \in Nat
  BY <1>1, RunsAssumption, FS_Subset, FS_CardinalityType
<1>4. Len(s) \in Nat /\ \A i \in 1..Len(s) : s[i] \in Runs
  BY <1>1, LenProperties, ElementOfSeq
<1>5. free \in Nat
  BY <1>3
<1> HIDE DEF free
<1>6. n \in 0..Len(s) /\ n \in Nat
  BY <1>4, <1>5
<1> HIDE DEF n
<1>7. SubSeq(s, n + 1, Len(s)) \in Seq(Runs)
  <2>1. n + 1 \in Int /\ Len(s) \in Int /\ \A i \in (n + 1)..Len(s) : s[i] \in Runs
    BY <1>4, <1>6
  <2> QED
    BY <2>1, SubSeqProperties
<1>8. started \subseteq Runs
  BY <1>4, <1>6
<1>9. st \in [Runs -> Stages]
  BY <1>1 DEF Stages
<1>10. qu \in [Lanes -> Seq(Runs)]
  BY <1>1, <1>7
<1>11. ac \in [Lanes -> SUBSET Runs]
  BY <1>1, <1>8
<1>12. q.bodies \in SUBSET Runs /\ q.refused \in SUBSET Runs /\ bo \in SUBSET Runs
  BY <1>1, <1>8 DEF QType
<1> HIDE DEF p, qu, ac, st, bo
<1>13. p = [queue |-> qu, active |-> ac, stage |-> st, bodies |-> bo, refused |-> q.refused]
  BY <1>1, <1>2 DEF QType
<1>14. /\ p \in QType /\ p.queue = qu /\ p.active = ac /\ p.stage = st
  BY <1>9, <1>10, <1>11, <1>12, <1>13 DEF QType
<1>15. Waiting(p)
  <2>1. \A r \in Runs : p.stage[r] = q.stage[r] \/ \E i \in 1..n : r = q.queue[l][i]
    BY <1>14 DEF st
  <2>2. p.queue = [q.queue EXCEPT ![l] = SubSeq(@, n + 1, Len(@))]
    BY <1>14 DEF qu
  <2>3. Takes(q, p, l, n)
    BY <2>1, <2>2, <1>6 DEF Takes
  <2> QED
    BY <2>3, <1>1, <1>14, TakesFirst
<1>16. \A x \in Sessions : p.active[x] = q.active[x]
  BY <1>1, <1>14, LaneFacts DEF ac
<1>17. \A x \in Lanes : q.active[x] \subseteq p.active[x]
  BY <1>1, <1>14 DEF ac
<1>18. ASSUME NEW r \in started PROVE q.stage[r] = WaitStage(l)
  BY <1>1, <1>6 DEF Waiting
<1>19. ASSUME NEW r \in Runs \ lo
       PROVE  HoldsSession(p, r) /\ (r \in ab \/ HoldsCron(p, r))
  <2>1. HoldsSession(q, r) /\ (r \in ab \/ HoldsCron(q, r))
    BY <1>1 DEF Holding
  <2>2. CASE r \notin started
    <3>1. p.stage[r] = q.stage[r]
      BY <2>2, <1>14 DEF st
    <3>2. SessionOf[r] \in Lanes /\ "cron" \in Lanes
      BY LaneFacts DEF GlobalLanes
    <3> QED
      BY <2>1, <3>1, <3>2, <1>17 DEF HoldsSession, HoldsCron
  <2>3. CASE r \in started /\ l = "cron"
    <3>1. p.stage[r] = "cron-body" /\ r \in p.active["cron"]
      BY <2>3, <1>1, <1>14 DEF st, ac
    <3> QED
      BY <3>1 DEF HoldsSession, HoldsCron
  <2>4. CASE r \in started /\ l # "cron"
    <3>1. p.stage[r] = "running" /\ q.stage[r] = "lane-queued"
      BY <2>4, <1>14, <1>18, LaneFacts DEF st, WaitStage
    <3>2. SessionOf[r] \in Lanes /\ "cron" \in Lanes
      BY LaneFacts DEF GlobalLanes
    <3> QED
      BY <2>1, <3>1, <3>2, <1>17 DEF HoldsSession, HoldsCron, Under, Stages
  <2> QED
    BY <2>2, <2>3, <2>4
<1>20. Holding(p, ab, lo)
  BY <1>1, <1>16, <1>19 DEF Holding
<1> QED
  BY <1>14, <1>15, <1>20 DEF Ok, p

\* What is true of more aborted or loose runs.
LEMMA MoreRuns ==
    ASSUME NEW ab, NEW lo, NEW q, Ok(q, ab, lo), NEW ab2, NEW lo2, ab \subseteq ab2,
           lo \subseteq lo2
    PROVE  Ok(q, ab2, lo2)
  BY DEF Ok, Holding

\* A run that waits nowhere gets to another stage, or gives slots back.
LEMMA RunChanges ==
    ASSUME NEW ab, NEW lo, NEW q, Ok(q, ab, lo), NEW r \in Runs, NEW q2 \in QType,
           q2.queue = q.queue, q2.stage[r] = q.stage[r] \/ Unqueued(q, r),
           \A x \in Runs \ {r} : q2.stage[x] = q.stage[x],
           \A l \in Lanes : /\ q2.active[l] \subseteq q.active[l]
                            /\ q.active[l] \subseteq q2.active[l] \cup {r},
           r \in lo \/ (HoldsSession(q2, r) /\ (r \in ab \/ HoldsCron(q2, r)))
    PROVE  Ok(q2, ab, lo)
<1>1. q \in QType /\ Waiting(q) /\ Holding(q, ab, lo)
  BY DEF Ok
<1>2. \A x \in Runs : q2.stage[x] = q.stage[x] \/ Unqueued(q, x)
  OBVIOUS
<1>3. Waiting(q2)
  BY <1>1, <1>2, Restaged
<1>4. "cron" \in Lanes /\ \A x \in Runs : SessionOf[x] \in Lanes
  BY LaneFacts DEF GlobalLanes
<1>5. \A x \in Runs \ lo : x # r => HoldsSession(q2, x) /\ (x \in ab \/ HoldsCron(q2, x))
  BY <1>1, <1>4 DEF Holding, HoldsSession, HoldsCron
<1>6. \A s \in Sessions : \A x, y \in q2.active[s] : x = y
  BY <1>1, LaneFacts DEF Holding
<1> QED
  BY <1>1, <1>3, <1>5, <1>6 DEF Ok, Holding

\* A run that waits nowhere is put into a lane of its own.
LEMMA PutOk ==
    ASSUME NEW ab, NEW lo, NEW q, Ok(q, ab, lo), NEW r \in Runs, Unqueued(q, r),
           NEW l \in Lanes, Home(r, l),
           l = GlobalLane(r) => r \in q.active[SessionOf[r]],
           l # "cron" /\ Origin[r] = "manual" /\ r \notin ab /\ r \notin lo
             => r \in q.active["cron"]
    PROVE  Ok([q EXCEPT !.queue[l] = Append(@, r), !.stage[r] = WaitStage(l)], ab, lo)
<1> DEFINE qu == [q.queue EXCEPT ![l] = Append(q.queue[l], r)]
           st == [q.stage EXCEPT ![r] = WaitStage(l)]
           p == [q EXCEPT !.queue[l] = Append(@, r), !.stage[r] = WaitStage(l)]
<1>1. /\ q \in QType /\ Waiting(q) /\ Holding(q, ab, lo)
      /\ q.queue \in [Lanes -> Seq(Runs)] /\ q.stage \in [Runs -> Stages]
  BY DEF Ok, QType
<1>2. Append(q.queue[l], r) \in Seq(Runs)
  BY <1>1, AppendProperties
<1>3. WaitStage(l) \in Stages
  BY LaneFacts DEF Stages
<1>4. p = [q EXCEPT !.queue = qu, !.stage = st]
  BY <1>1 DEF QType
<1>5. qu \in [Lanes -> Seq(Runs)] /\ st \in [Runs -> Stages]
  BY <1>1, <1>2, <1>3
<1> HIDE DEF p, qu, st
<1>6. p = [queue |-> qu, active |-> q.active, stage |-> st, bodies |-> q.bodies,
           refused |-> q.refused]
  BY <1>1, <1>4 DEF QType
<1>7. p \in QType /\ p.queue = qu /\ p.stage = st /\ p.active = q.active
  BY <1>1, <1>5, <1>6 DEF QType
<1>8. Waiting(p)
  <2>1. /\ p.queue = [q.queue EXCEPT ![l] = Append(@, r)]
        /\ p.stage = [q.stage EXCEPT ![r] = WaitStage(l)]
    BY <1>7 DEF qu, st
  <2> QED
    BY <2>1, <1>1, <1>7, PutsLast
<1>9. \A x \in Runs : p.stage[x] = IF x = r THEN WaitStage(l) ELSE q.stage[x]
  BY <1>1, <1>7 DEF st
<1>10. WaitStage(l) = "lane-queued" => l = GlobalLane(r)
  <2>1. ASSUME WaitStage(l) = "lane-queued" PROVE l # "cron" /\ l \notin Sessions
    BY <2>1, LaneFacts DEF WaitStage, GlobalLanes
  <2> QED
    BY <2>1 DEF Home
<1>11. WaitStage(l) # "cron-queued" => l # "cron"
  BY LaneFacts DEF WaitStage, GlobalLanes
<1>12. HoldsSession(p, r)
  BY <1>7, <1>9, <1>10, LaneFacts DEF HoldsSession
<1>13. r \in ab \/ r \in lo \/ HoldsCron(p, r)
  BY <1>7, <1>9, <1>11 DEF HoldsCron
<1>14. \A x \in Runs \ lo : x # r => HoldsSession(p, x) /\ (x \in ab \/ HoldsCron(p, x))
  BY <1>1, <1>7, <1>9 DEF Holding, HoldsSession, HoldsCron
<1>15. Holding(p, ab, lo)
  BY <1>1, <1>7, <1>12, <1>13, <1>14 DEF Holding
<1> QED
  BY <1>7, <1>8, <1>15 DEF Ok, p

\* drainLane on the lane of a session keeps the invariant: its first run takes
\* the slot that nobody holds, and goes to a global lane with it.
LEMMA PumpSessionOk ==
    ASSUME NEW ab, NEW lo, NEW q, Ok(q, ab, lo), NEW s \in Sessions, NEW refuses \in BOOLEAN,
           NEW caps \in [GlobalLanes -> Nat]
    PROVE  Ok(PumpSession(q, s, refuses, caps), ab, lo)
<1>1. CASE q.queue[s] = <<>> \/ ~SlotFree(q, s)
  BY <1>1 DEF PumpSession
<1>2. CASE q.queue[s] # <<>> /\ SlotFree(q, s)
  <2> DEFINE r == Head(q.queue[s])
             qu == [q.queue EXCEPT ![s] = Tail(q.queue[s])]
             ac == [q.active EXCEPT ![s] = q.active[s] \cup {r}]
             st == [q.stage EXCEPT ![r] = "unwinding"]
             up == [q EXCEPT !.queue[s] = Tail(@), !.active[s] = @ \cup {r}]
             mid(R) == [queue |-> qu, active |-> ac, stage |-> st, bodies |-> q.bodies,
                        refused |-> R]
             l == GlobalLane(r)
  <2>1. /\ q \in QType /\ Waiting(q) /\ Holding(q, ab, lo) /\ s \in Lanes /\ s # "cron"
        /\ q.queue[s] \in Seq(Runs)
        /\ q.queue \in [Lanes -> Seq(Runs)] /\ q.active \in [Lanes -> SUBSET Runs]
        /\ q.stage \in [Runs -> Stages] /\ q.bodies \in SUBSET Runs /\ q.refused \in SUBSET Runs
    BY LaneFacts DEF Ok, QType, GlobalLanes
  <2>2. /\ r \in Runs /\ Tail(q.queue[s]) \in Seq(Runs) /\ r = q.queue[s][1]
        /\ Len(q.queue[s]) \in Nat \ {0}
        /\ Tail(q.queue[s]) = SubSeq(q.queue[s], 2, Len(q.queue[s]))
    BY <1>2, <2>1, HeadTailProperties, TailIsSubSeq, EmptySeq, LenProperties
  <2>3. q.active[s] = {}
    BY <1>2 DEF SlotFree
  <2>4. q.stage[r] = "session-queued" /\ SessionOf[r] = s
    <3>1. q.stage[r] = WaitStage(s) /\ Home(r, s)
      BY <2>1, <2>2 DEF Waiting
    <3> HIDE DEF r
    <3> QED
      BY <3>1, <2>1 DEF WaitStage, Home
  <2> HIDE DEF r
  <2>5. qu \in [Lanes -> Seq(Runs)] /\ ac \in [Lanes -> SUBSET Runs] /\ st \in [Runs -> Stages]
    BY <2>1, <2>2 DEF Stages
  <2>6. up = [queue |-> qu, active |-> ac, stage |-> q.stage, bodies |-> q.bodies,
              refused |-> q.refused]
    <3>1. up = [q EXCEPT !.queue = qu, !.active = ac]
      BY <2>1 DEF QType
    <3> HIDE DEF up, qu, ac
    <3> QED
      BY <3>1, <2>1 DEF QType
  <2>7. /\ ac[s] = {r} /\ \A x \in Lanes : q.active[x] \subseteq ac[x]
        /\ \A x \in Sessions : x # s => ac[x] = q.active[x]
    BY <2>1, <2>3, LaneFacts
  <2>8. \A x \in Runs : st[x] = IF x = r THEN "unwinding" ELSE q.stage[x]
    BY <2>1
  <2>9. qu = [q.queue EXCEPT ![s] = SubSeq(@, 1 + 1, Len(@))]
    <3>1. 1 + 1 = 2
      OBVIOUS
    <3>2. Tail(q.queue[s]) = SubSeq(q.queue[s], 1 + 1, Len(q.queue[s]))
      BY <2>2, <3>1
    <3> QED
      BY <3>2
  <2> HIDE DEF up, qu, ac, st, l
  <2>10. ASSUME NEW R \in SUBSET Runs
         PROVE  Ok(mid(R), ab, lo) /\ Unqueued(mid(R), r) /\ mid(R).active = ac
    <3> DEFINE p == mid(R)
    <3>1. p \in QType /\ p.queue = qu /\ p.active = ac /\ p.stage = st
      BY <2>1, <2>5 DEF QType
    <3> HIDE DEF p
    <3>2. Waiting(p) /\ \A i \in 1..1 : Unqueued(p, q.queue[s][i])
      <4>1. \A x \in Runs : p.stage[x] = q.stage[x] \/ \E i \in 1..1 : x = q.queue[s][i]
        BY <2>2, <2>8, <3>1
      <4>2. 1 \in 0..Len(q.queue[s])
        BY <2>2
      <4>3. Takes(q, p, s, 1)
        BY <4>1, <4>2, <2>9, <3>1 DEF Takes
      <4>4. Waiting(p) /\ Gone(q, p, s, 1)
        BY <4>3, <2>1, <3>1, TakesFirst
      <4> QED
        BY <4>4 DEF Gone
    <3>3. Unqueued(p, r)
      BY <2>2, <3>2
    <3>4. "cron" \in Lanes /\ \A x \in Runs : SessionOf[x] \in Lanes
      BY LaneFacts DEF GlobalLanes
    <3>5. \A x \in Runs \ lo : x # r => HoldsSession(p, x) /\ (x \in ab \/ HoldsCron(p, x))
      BY <2>1, <2>7, <2>8, <3>1, <3>4 DEF Holding, HoldsSession, HoldsCron
    <3>6. HoldsSession(p, r)
      BY <2>4, <2>7, <3>1 DEF HoldsSession
    <3>7. r \in lo \/ r \in ab \/ HoldsCron(p, r)
      BY <2>1, <2>2, <2>4, <2>7, <3>1, <3>4 DEF Holding, HoldsCron, Under, Stages
    <3>8. \A x \in Sessions : \A y, z \in p.active[x] : y = z
      <4>1. \A y, z \in p.active[s] : y = z
        BY <2>7, <3>1
      <4>2. \A x \in Sessions : x # s => p.active[x] = q.active[x]
        BY <2>7, <3>1
      <4> QED
        BY <2>1, <4>1, <4>2 DEF Holding
    <3>9. Holding(p, ab, lo)
      BY <3>5, <3>6, <3>7, <3>8 DEF Holding
    <3> QED
      BY <3>1, <3>2, <3>3, <3>9 DEF Ok, p
  <2>11. PumpSession(q, s, refuses, caps) =
           CASE r \in aborted -> [up EXCEPT !.stage[r] = "unwinding"]
             [] r \notin aborted /\ refuses ->
                    [up EXCEPT !.stage[r] = "unwinding", !.refused = @ \cup {r}]
             [] OTHER -> PumpGlobal([up EXCEPT !.queue[l] = Append(@, r),
                                               !.stage[r] = "lane-queued"], l, caps)
    BY <1>2 DEF PumpSession, r, up, l
  <2>12. CASE r \in aborted
    <3>1. [up EXCEPT !.stage[r] = "unwinding"] = mid(q.refused)
      BY <2>6 DEF st
    <3> QED
      BY <2>1, <2>10, <2>11, <2>12, <3>1
  <2>13. CASE r \notin aborted /\ refuses
    <3> DEFINE R == q.refused \cup {r}
               x == [up EXCEPT !.stage[r] = "unwinding", !.refused = @ \cup {r}]
    <3>1. x = mid(R)
      <4>1. x = [up EXCEPT !.stage = st, !.refused = R]
        BY <2>6 DEF st
      <4> HIDE DEF x, R
      <4> QED
        BY <2>6, <4>1
    <3>2. q.refused \cup {r} \in SUBSET Runs
      BY <2>1, <2>2
    <3> QED
      BY <2>10, <2>11, <2>13, <3>1, <3>2
  <2>14. CASE r \notin aborted /\ ~refuses
    <3> DEFINE p == mid(q.refused)
    <3>1. Ok(p, ab, lo) /\ Unqueued(p, r) /\ p.active = ac
      BY <2>1, <2>10
    <3>2. l \in {"main", "cron-nested"} /\ l \in GlobalLanes /\ l \in Lanes
      BY <2>2, LaneFacts DEF l, GlobalLanes
    <3>3. WaitStage(l) = "lane-queued" /\ Home(r, l)
      BY <3>2, LaneFacts DEF WaitStage, Home, l
    <3>4. [up EXCEPT !.queue[l] = Append(@, r), !.stage[r] = "lane-queued"]
            = [p EXCEPT !.queue[l] = Append(@, r), !.stage[r] = WaitStage(l)]
      <4>1. [st EXCEPT ![r] = "lane-queued"] = [q.stage EXCEPT ![r] = "lane-queued"]
        BY <2>1, <2>2 DEF st
      <4> DEFINE q2 == [qu EXCEPT ![l] = Append(qu[l], r)]
                 st2 == [q.stage EXCEPT ![r] = "lane-queued"]
      <4>2. [up EXCEPT !.queue[l] = Append(@, r), !.stage[r] = "lane-queued"]
              = [up EXCEPT !.queue = q2, !.stage = st2]
        BY <2>6
      <4>3. [p EXCEPT !.queue[l] = Append(@, r), !.stage[r] = WaitStage(l)]
              = [p EXCEPT !.queue = q2, !.stage = st2]
        BY <3>3, <4>1
      <4> HIDE DEF q2, st2
      <4> DEFINE x == [up EXCEPT !.queue = q2, !.stage = st2]
                 y == [p EXCEPT !.queue = q2, !.stage = st2]
      <4>4. x = [up EXCEPT !.queue = q2, !.stage = st2]
        OBVIOUS
      <4>5. y = [p EXCEPT !.queue = q2, !.stage = st2]
        OBVIOUS
      <4> HIDE DEF x, y
      <4>6. x = [queue |-> q2, active |-> ac, stage |-> st2, bodies |-> q.bodies,
                 refused |-> q.refused]
        BY <2>6, <4>4
      <4>7. y = [queue |-> q2, active |-> ac, stage |-> st2, bodies |-> q.bodies,
                 refused |-> q.refused]
        BY <4>5
      <4>8. x = y
        BY <4>6, <4>7
      <4> QED
        BY <4>2, <4>3, <4>4, <4>5, <4>8, Zenon
    <3> HIDE DEF p
    <3>5. r \in ac[SessionOf[r]]
      BY <2>4, <2>7
    <3>6. r \notin ab /\ r \notin lo /\ Origin[r] = "manual" => r \in ac["cron"]
      <4>1. "cron" \in Lanes
        BY LaneFacts DEF GlobalLanes
      <4> QED
        BY <4>1, <2>1, <2>2, <2>4, <2>7 DEF Holding, HoldsCron, Under, Stages
    <3>7. Ok([p EXCEPT !.queue[l] = Append(@, r), !.stage[r] = WaitStage(l)], ab, lo)
      BY <2>2, <3>1, <3>2, <3>3, <3>5, <3>6, PutOk
    <3>8. Ok(PumpGlobal([up EXCEPT !.queue[l] = Append(@, r), !.stage[r] = "lane-queued"],
                        l, caps), ab, lo)
      BY <3>2, <3>4, <3>7, PumpGlobalOk
    <3> QED
      BY <2>11, <2>14, <3>8
  <2> QED
    BY <2>12, <2>13, <2>14
<1> QED
  BY <1>1, <1>2

LEMMA PumpOk ==
    ASSUME NEW ab, NEW lo, NEW q, Ok(q, ab, lo), NEW l \in Lanes, NEW refuses \in BOOLEAN,
           NEW caps \in [GlobalLanes -> Nat]
    PROVE  Ok(Pump(q, l, refuses, caps), ab, lo)
  BY PumpGlobalOk, PumpSessionOk DEF Pump, Lanes

\* completeTask keeps the invariant when the slot may be given back.
LEMMA CompleteOk ==
    ASSUME NEW ab, NEW lo, NEW q \in QType, NEW l \in Lanes, NEW r \in Runs,
           Ok([q EXCEPT !.active[l] = @ \ {r}], ab, lo), draining \in BOOLEAN,
           cap \in [GlobalLanes -> Nat]
    PROVE  Ok(Complete(q, l, r), ab, lo)
<1>1. CASE r \in q.active[l]
  BY <1>1, PumpOk DEF Complete
<1>2. CASE r \notin q.active[l]
  <2>1. q.active[l] \ {r} = q.active[l]
    BY <1>2
  <2>2. [q EXCEPT !.active[l] = @ \ {r}] = q
    BY <2>1 DEF QType
  <2> QED
    BY <1>2, <2>2 DEF Complete
<1> QED
  BY <1>1, <1>2

-----------------------------------------------------------------------------
(* One lane after the other.                                               *)

\* Less-than on the naturals, and its least elements.
Less == {p \in Nat \X Nat : p[1] < p[2]}

LEMMA LeastNumber ==
    ASSUME NEW T \in SUBSET Nat, T # {}
    PROVE  \E n \in T : \A m \in T : n <= m
<1>1. IsWellFoundedOn(Less, Nat)
  BY NatLessThanWellFounded DEF OpToRel, Less
<1>2. PICK n \in T : \A m \in T : <<m, n>> \notin Less
  BY <1>1, WFMin
<1>3. \A m \in T : ~(m < n)
  BY <1>2 DEF Less
<1> QED
  BY <1>3

\* What the first n pumps of a turn leave behind, one after the other.
Turn(f, n, q, order, refuses, caps) ==
    f = [i \in 0..n |-> IF i = 0 THEN q ELSE Pump(f[i - 1], order[i], refuses, caps)]

LEMMA TurnExists ==
    ASSUME NEW q, NEW order \in Seq(Lanes), NEW refuses, NEW caps
    PROVE  \E f : Turn(f, Len(order), q, order, refuses, caps)
<1> DEFINE Does(n) == \E f : Turn(f, n, q, order, refuses, caps)
           T == {n \in Nat : ~Does(n)}
<1>1. SUFFICES ASSUME T # {} PROVE FALSE
  <2>1. Len(order) \in Nat
    BY LenProperties
  <2> QED
    BY <1>1, <2>1
<1>2. PICK n \in T : \A m \in T : n <= m
  <2>1. T \in SUBSET Nat
    OBVIOUS
  <2> HIDE DEF T
  <2> QED
    BY <1>1, <2>1, LeastNumber
<1>3. n \in Nat /\ ~Does(n)
  OBVIOUS
<1>4. CASE n = 0
  <2> DEFINE f == [i \in 0..0 |-> q]
  <2>1. f = [i \in 0..0 |-> IF i = 0 THEN q ELSE Pump(f[i - 1], order[i], refuses, caps)]
    <3>1. \A i \in 0..0 : i = 0
      OBVIOUS
    <3> QED
      BY <3>1
  <2>2. Turn(f, 0, q, order, refuses, caps)
    BY <2>1 DEF Turn
  <2> HIDE DEF f
  <2> QED
    BY <1>3, <1>4, <2>2
<1>5. CASE n # 0
  <2>1. n - 1 \in Nat /\ n - 1 \notin T
    BY <1>2, <1>3, <1>5
  <2>2. PICK f : Turn(f, n - 1, q, order, refuses, caps)
    BY <2>1
  <2> DEFINE g == [i \in 0..n |-> IF i = n THEN Pump(f[n - 1], order[n], refuses, caps) ELSE f[i]]
             h == [i \in 0..n |-> IF i = 0 THEN q ELSE Pump(g[i - 1], order[i], refuses, caps)]
  <2>3. ASSUME NEW i \in 0..n PROVE g[i] = h[i]
    <3>1. CASE i = n
      <4>1. n - 1 \in 0..n /\ n - 1 # n /\ i # 0
        BY <3>1, <1>3, <1>5, <2>1
      <4>2. g[n - 1] = f[n - 1]
        BY <4>1
      <4> QED
        BY <3>1, <4>1, <4>2
    <3>2. CASE i # n /\ i # 0
      <4>1. i - 1 \in 0..n /\ i - 1 # n /\ i \in 0..(n - 1)
        BY <3>2, <1>3, <1>5
      <4>2. g[i] = f[i] /\ g[i - 1] = f[i - 1]
        BY <3>2, <4>1
      <4>3. f[i] = Pump(f[i - 1], order[i], refuses, caps)
        BY <2>2, <3>2, <4>1 DEF Turn
      <4> QED
        BY <3>2, <4>2, <4>3
    <3>3. CASE i = 0
      <4>1. 0 \in 0..(n - 1) /\ 0 # n
        BY <1>3, <1>5
      <4>2. f[0] = q
        BY <2>2, <4>1 DEF Turn
      <4> QED
        BY <3>3, <4>1, <4>2
    <3> QED
      BY <3>1, <3>2, <3>3
  <2>4. g = h
    BY <2>3
  <2>5. Turn(g, n, q, order, refuses, caps)
    BY <2>4 DEF Turn
  <2> HIDE DEF g
  <2> QED
    BY <1>3, <2>5
<1> QED
  BY <1>4, <1>5

\* Pumping one lane after the other keeps the invariant.
LEMMA PumpInTurnOk ==
    ASSUME NEW ab, NEW lo, NEW q, Ok(q, ab, lo), NEW order \in Seq(Lanes),
           NEW refuses \in BOOLEAN, NEW caps \in [GlobalLanes -> Nat]
    PROVE  Ok(PumpInTurn(q, order, refuses, caps), ab, lo)
<1> DEFINE f == CHOOSE f : Turn(f, Len(order), q, order, refuses, caps)
<1>1. PumpInTurn(q, order, refuses, caps) = f[Len(order)]
  BY DEF PumpInTurn, Turn
<1>2. Turn(f, Len(order), q, order, refuses, caps)
  BY TurnExists
<1>3. Len(order) \in Nat /\ \A i \in 1..Len(order) : order[i] \in Lanes
  BY LenProperties, ElementOfSeq
<1> HIDE DEF f
<1> DEFINE T == {n \in 0..Len(order) : ~Ok(f[n], ab, lo)}
<1>4. SUFFICES ASSUME T # {} PROVE FALSE
  BY <1>1, <1>3
<1>5. PICK n \in T : \A m \in T : n <= m
  <2>1. T \in SUBSET Nat
    BY <1>3
  <2> HIDE DEF T
  <2> QED
    BY <1>4, <2>1, LeastNumber
<1>6. n \in 0..Len(order) /\ ~Ok(f[n], ab, lo)
  OBVIOUS
<1>7. CASE n = 0
  BY <1>2, <1>3, <1>6, <1>7 DEF Turn
<1>8. CASE n # 0
  <2>1. n - 1 \in 0..Len(order) /\ n \in 1..Len(order) /\ n - 1 \notin T
    BY <1>3, <1>5, <1>6, <1>8
  <2>2. Ok(f[n - 1], ab, lo) /\ order[n] \in Lanes
    BY <1>3, <2>1
  <2>3. f[n] = Pump(f[n - 1], order[n], refuses, caps)
    BY <1>2, <1>6, <1>8 DEF Turn
  <2> QED
    BY <1>6, <2>2, <2>3, PumpOk
<1> QED
  BY <1>7, <1>8

-----------------------------------------------------------------------------
(* The steps.                                                              *)

LEMMA NowFacts ==
    ASSUME Ok(Now, aborted, loose)
    PROVE  /\ Now \in QType /\ Waiting(Now) /\ Holding(Now, aborted, loose)
           /\ Now.queue = queue /\ Now.active = active /\ Now.stage = stage
           /\ Now.bodies = bodies /\ Now.refused = refused
           /\ queue \in [Lanes -> Seq(Runs)] /\ active \in [Lanes -> SUBSET Runs]
           /\ stage \in [Runs -> Stages] /\ bodies \in SUBSET Runs /\ refused \in SUBSET Runs
<1>1. Now \in QType /\ Waiting(Now) /\ Holding(Now, aborted, loose)
  BY DEF Ok
<1>2. /\ Now.queue = queue /\ Now.active = active /\ Now.stage = stage
      /\ Now.bodies = bodies /\ Now.refused = refused
  BY DEF Now
<1> QED
  BY <1>1, <1>2 DEF QType

LEMMA BecomesOk ==
    ASSUME NEW ab, NEW lo, NEW q, Ok(q, ab, lo), Becomes(q)
    PROVE  Ok(Now', ab, lo)
<1> DEFINE p == Now'
<1>1. q \in QType
  BY DEF Ok
<1>2. p = [queue |-> q.queue, active |-> q.active, stage |-> q.stage, bodies |-> q.bodies,
           refused |-> q.refused]
  BY DEF Becomes, Now
<1> HIDE DEF p
<1>3. p = q
  BY <1>1, <1>2 DEF QType
<1> QED
  BY <1>3 DEF p

\* An enqueue, which is accepted or turned away.
LEMMA EnqueueOk ==
    ASSUME Inv, NEW r \in Runs, NEW l \in Lanes, NEW otherwise \in {"cron-unwinding", "over"},
           Home(r, l), l # GlobalLane(r), Unqueued(Now, r),
           Enqueue(r, l, WaitStage(l), otherwise),
           \/ Origin[r] # "manual" \/ r \in aborted \cup loose \/ r \in active["cron"]
           \/ l = "cron" /\ otherwise = "over"
    PROVE  Ok(Now', aborted, loose)
<1>1. Ok(Now, aborted, loose) /\ draining \in BOOLEAN /\ cap \in [GlobalLanes -> Nat]
  BY DEF Inv, Rest
<1>2. /\ Now \in QType /\ Now.active = active /\ Now.stage = stage /\ Now.queue = queue
      /\ Now.bodies = bodies /\ Now.refused = refused
      /\ stage \in [Runs -> Stages] /\ refused \in SUBSET Runs
  BY <1>1, NowFacts
<1>3. CASE draining
  <2> DEFINE st == [stage EXCEPT ![r] = otherwise]
             x == [Now EXCEPT !.stage[r] = otherwise, !.refused = @ \cup {r}]
             R == refused \cup {r}
             p == [queue |-> queue, active |-> active, stage |-> st, bodies |-> bodies,
                   refused |-> R]
  <2>1. x = p
    <3>1. x = [Now EXCEPT !.stage = st, !.refused = R]
      BY <1>2
    <3> HIDE DEF x, st, R
    <3> QED
      BY <3>1 DEF Now
  <2>2. Becomes(p)
    BY <1>3, <2>1 DEF Enqueue
  <2>3. st \in [Runs -> Stages] /\ refused \cup {r} \in SUBSET Runs
    BY <1>2 DEF Stages
  <2>4. st[r] = otherwise /\ \A y \in Runs \ {r} : st[y] = stage[y]
    BY <1>2
  <2> HIDE DEF st
  <2>5. p \in QType /\ p.queue = queue /\ p.active = active /\ p.stage = st
    BY <1>2, <2>3 DEF QType
  <2> HIDE DEF p
  <2>6. HoldsSession(p, r)
    BY <2>4, <2>5 DEF HoldsSession
  <2>7. r \in loose \/ r \in aborted \/ HoldsCron(p, r)
    BY <2>4, <2>5 DEF HoldsCron, Under
  <2>8. Ok(p, aborted, loose)
    BY <1>1, <1>2, <2>4, <2>5, <2>6, <2>7, RunChanges
  <2> QED
    BY <2>2, <2>8, BecomesOk
<1>4. CASE ~draining
  <2> DEFINE p == [Now EXCEPT !.queue[l] = Append(@, r), !.stage[r] = WaitStage(l)]
  <2>1. r \notin aborted /\ r \notin loose /\ l # "cron" /\ Origin[r] = "manual"
          => r \in Now.active["cron"]
    BY <1>2
  <2>2. Ok(p, aborted, loose)
    BY <1>1, <2>1, PutOk
  <2>3. Becomes(Pump(p, l, FALSE, cap))
    BY <1>4 DEF Enqueue
  <2> HIDE DEF p
  <2>4. Ok(Pump(p, l, FALSE, cap), aborted, loose)
    BY <1>1, <2>2, PumpOk
  <2> QED
    BY <2>3, <2>4, BecomesOk
<1> QED
  BY <1>1, <1>3, <1>4

LEMMA CallOk ==
    ASSUME Inv, NEW r \in Runs, Call(r)
    PROVE  Ok(Now', aborted', loose')
<1>1. stage[r] = "new" /\ Origin[r] # "manual" /\ aborted' = aborted /\ loose' = loose
  BY DEF Call
<1>2. Unqueued(Now, r)
  BY <1>1, NowFacts, NotWaiting DEF Inv
<1>3. /\ SessionOf[r] \in Lanes /\ Home(r, SessionOf[r]) /\ SessionOf[r] # GlobalLane(r)
      /\ WaitStage(SessionOf[r]) = "session-queued"
  BY LaneFacts DEF Home, WaitStage, GlobalLanes
<1>4. Enqueue(r, SessionOf[r], WaitStage(SessionOf[r]), "over")
  BY <1>3 DEF Call
<1> QED
  BY <1>1, <1>2, <1>3, <1>4, EnqueueOk

LEMMA CallManualOk ==
    ASSUME Inv, NEW r \in Runs, CallManual(r)
    PROVE  Ok(Now', aborted', loose')
<1>1. stage[r] = "new" /\ Origin[r] = "manual" /\ aborted' = aborted /\ loose' = loose
  BY DEF CallManual
<1>2. Unqueued(Now, r)
  BY <1>1, NowFacts, NotWaiting DEF Inv
<1>3. /\ "cron" \in Lanes /\ Home(r, "cron") /\ "cron" # GlobalLane(r)
      /\ WaitStage("cron") = "cron-queued"
  BY <1>1, LaneFacts DEF Home, WaitStage, GlobalLanes
<1>4. Enqueue(r, "cron", WaitStage("cron"), "over")
  BY <1>3 DEF CallManual
<1> QED
  BY <1>1, <1>2, <1>3, <1>4, EnqueueOk

LEMMA CronBodyCallsOk ==
    ASSUME Inv, NEW r \in Runs, CronBodyCalls(r)
    PROVE  Ok(Now', aborted', loose')
<1>1. stage[r] = "cron-body" /\ aborted' = aborted /\ loose' = loose
  BY DEF CronBodyCalls
<1>2. Unqueued(Now, r)
  BY <1>1, NowFacts, NotWaiting DEF Inv
<1>3. /\ SessionOf[r] \in Lanes /\ Home(r, SessionOf[r]) /\ SessionOf[r] # GlobalLane(r)
      /\ WaitStage(SessionOf[r]) = "session-queued"
  BY LaneFacts DEF Home, WaitStage, GlobalLanes
<1>4. Enqueue(r, SessionOf[r], WaitStage(SessionOf[r]), "cron-unwinding")
  BY <1>3 DEF CronBodyCalls
<1>5. Origin[r] # "manual" \/ r \in aborted \cup loose \/ r \in active["cron"]
  BY <1>1, NowFacts DEF Inv, Holding, HoldsCron, Under, Stages
<1> QED
  BY <1>1, <1>2, <1>3, <1>4, <1>5, EnqueueOk

\* An entry of run r completes in lane l, and the run gets to stage st.
LEMMA EntryEnds ==
    ASSUME Inv, NEW r \in Runs, NEW l \in Lanes, NEW st \in Stages, NEW bo \in SUBSET Runs,
           NEW ab, aborted \subseteq ab, st = stage[r] \/ Unqueued(Now, r),
           st \in {"lane-queued", "running", "unwinding"}
             => l \notin Sessions /\ stage[r] \in {"lane-queued", "running", "unwinding"},
           r \in ab \/ st = "over" \/ (l # "cron" /\ stage[r] \in Under \ {"cron-queued"})
    PROVE  Ok(Complete([queue |-> queue, active |-> active, stage |-> [stage EXCEPT ![r] = st],
                        bodies |-> bo, refused |-> refused], l, r), ab, loose)
<1> DEFINE st2 == [stage EXCEPT ![r] = st]
           ac == [active EXCEPT ![l] = active[l] \ {r}]
           q == [queue |-> queue, active |-> active, stage |-> st2, bodies |-> bo,
                 refused |-> refused]
           p == [queue |-> queue, active |-> ac, stage |-> st2, bodies |-> bo,
                 refused |-> refused]
<1>1. Ok(Now, aborted, loose) /\ draining \in BOOLEAN /\ cap \in [GlobalLanes -> Nat]
  BY DEF Inv, Rest
<1>2. /\ Now \in QType /\ Now.active = active /\ Now.stage = stage /\ Now.queue = queue
      /\ queue \in [Lanes -> Seq(Runs)] /\ active \in [Lanes -> SUBSET Runs]
      /\ stage \in [Runs -> Stages] /\ refused \in SUBSET Runs
      /\ Holding(Now, aborted, loose)
  BY <1>1, NowFacts
<1>3. [q EXCEPT !.active[l] = @ \ {r}] = p
  <2> DEFINE x == [q EXCEPT !.active[l] = @ \ {r}]
  <2>1. x = [q EXCEPT !.active = ac]
    OBVIOUS
  <2> HIDE DEF x, ac, st2
  <2>2. x = p
    BY <2>1
  <2> QED
    BY <2>2 DEF x
<1>4. st2 \in [Runs -> Stages] /\ ac \in [Lanes -> SUBSET Runs]
  BY <1>2
<1>5. st2[r] = st /\ \A x \in Runs \ {r} : st2[x] = stage[x]
  BY <1>2
<1>6. /\ \A m \in Lanes : ac[m] \subseteq active[m] /\ active[m] \subseteq ac[m] \cup {r}
      /\ \A m \in Lanes \ {l} : ac[m] = active[m]
  BY <1>2
<1> HIDE DEF st2, ac
<1>7. q \in QType
  BY <1>2, <1>4 DEF QType
<1>8. p \in QType /\ p.queue = queue /\ p.active = ac /\ p.stage = st2
  BY <1>2, <1>4 DEF QType
<1> HIDE DEF p, q
<1>9. SessionOf[r] \in Sessions /\ SessionOf[r] \in Lanes /\ "cron" \in Lanes
  BY LaneFacts DEF GlobalLanes
<1>10. r \in loose \/ HoldsSession(p, r)
  BY <1>2, <1>5, <1>6, <1>8, <1>9 DEF Holding, HoldsSession
<1>11. r \in loose \/ r \in ab \/ HoldsCron(p, r)
  <2>1. CASE st = "over"
    BY <2>1, <1>5, <1>8 DEF HoldsCron, Under
  <2>2. CASE l # "cron" /\ stage[r] \in Under \ {"cron-queued"}
    BY <2>2, <1>2, <1>6, <1>8, <1>9 DEF Holding, HoldsCron
  <2> QED
    BY <2>1, <2>2
<1>12. Ok(Now, ab, loose)
  BY <1>1, MoreRuns
<1>13. Ok(p, ab, loose)
  <2>1. p.stage[r] = Now.stage[r] \/ Unqueued(Now, r)
    BY <1>2, <1>5, <1>8
  <2>2. \A x \in Runs \ {r} : p.stage[x] = Now.stage[x]
    BY <1>2, <1>5, <1>8
  <2>3. \A m \in Lanes : /\ p.active[m] \subseteq Now.active[m]
                         /\ Now.active[m] \subseteq p.active[m] \cup {r}
    BY <1>2, <1>6, <1>8
  <2>4. p \in QType /\ p.queue = Now.queue
    BY <1>2, <1>8
  <2> QED
    BY <2>1, <2>2, <2>3, <2>4, <1>10, <1>11, <1>12, RunChanges
<1>14. Ok(Complete(q, l, r), ab, loose)
  BY <1>1, <1>3, <1>7, <1>13, CompleteOk
<1> QED
  BY <1>14 DEF q, st2

\* The global entry of a run that executes completes.
LEMMA BodyLeaves ==
    ASSUME Inv, NEW r \in Runs, stage[r] = "running", NEW bo \in SUBSET Runs
    PROVE  Ok(Complete([queue |-> queue, active |-> active,
                        stage |-> [stage EXCEPT ![r] = "unwinding"],
                        bodies |-> bo, refused |-> refused], GlobalLane(r), r), aborted, loose)
<1>1. Unqueued(Now, r)
  BY NowFacts, NotWaiting DEF Inv
<1>2. /\ GlobalLane(r) \in Lanes /\ GlobalLane(r) \notin Sessions /\ GlobalLane(r) # "cron"
      /\ stage[r] \in Under \ {"cron-queued"} /\ "unwinding" \in Stages
  BY LaneFacts DEF GlobalLanes, Under, Stages
<1> QED
  BY <1>1, <1>2, EntryEnds

LEMMA BodyEndsOk ==
    ASSUME Inv, NEW r \in Runs, BodyEnds(r)
    PROVE  Ok(Now', aborted', loose')
<1> DEFINE bo == bodies \ {r}
           q == [Now EXCEPT !.bodies = @ \ {r}]
           p == [queue |-> queue, active |-> active, stage |-> stage, bodies |-> bo,
                 refused |-> refused]
<1>1. aborted' = aborted /\ loose' = loose
  BY DEF BodyEnds
<1>2. /\ Ok(Now, aborted, loose) /\ Now \in QType /\ Now.queue = queue /\ Now.active = active
      /\ Now.stage = stage /\ bo \in SUBSET Runs /\ stage \in [Runs -> Stages]
      /\ Holding(Now, aborted, loose)
  BY NowFacts DEF Inv
<1>3. q = p
  BY DEF Now
<1>4. CASE stage[r] = "running"
  <2>1. [p EXCEPT !.stage[r] = "unwinding"]
          = [queue |-> queue, active |-> active, stage |-> [stage EXCEPT ![r] = "unwinding"],
             bodies |-> bo, refused |-> refused]
    OBVIOUS
  <2>2. Becomes(Complete([p EXCEPT !.stage[r] = "unwinding"], GlobalLane(r), r))
    BY <1>3, <1>4 DEF BodyEnds
  <2> QED
    BY <1>1, <1>2, <1>4, <2>1, <2>2, BodyLeaves, BecomesOk
<1>5. CASE stage[r] # "running"
  <2>1. Becomes(p)
    BY <1>3, <1>5 DEF BodyEnds
  <2>2. p \in QType /\ p.queue = queue /\ p.active = active /\ p.stage = stage
    BY <1>2, NowFacts DEF QType
  <2> HIDE DEF p
  <2>3. r \in loose \/ (HoldsSession(p, r) /\ (r \in aborted \/ HoldsCron(p, r)))
    BY <1>2, <2>2 DEF Holding, HoldsSession, HoldsCron
  <2>4. Ok(p, aborted, loose)
    BY <1>2, <2>2, <2>3, RunChanges
  <2> QED
    BY <1>1, <2>1, <2>4, BecomesOk
<1> QED
  BY <1>4, <1>5

\* Now with run r at another stage.
LEMMA NowAt ==
    ASSUME NEW r \in Runs, NEW st
    PROVE  [Now EXCEPT !.stage[r] = st]
             = [queue |-> queue, active |-> active, stage |-> [stage EXCEPT ![r] = st],
                bodies |-> bodies, refused |-> refused]
  BY DEF Now

LEMMA TimesOutOk ==
    ASSUME Inv, NEW r \in Runs, TimesOut(r)
    PROVE  Ok(Now', aborted', loose')
<1>1. /\ stage[r] = "running" /\ aborted' = aborted /\ loose' = loose \cup {r}
      /\ Becomes(Complete([Now EXCEPT !.stage[r] = "unwinding"], GlobalLane(r), r))
  BY DEF TimesOut
<1>2. bodies \in SUBSET Runs
  BY NowFacts DEF Inv
<1>3. Ok(Complete([Now EXCEPT !.stage[r] = "unwinding"], GlobalLane(r), r), aborted, loose)
  BY <1>1, <1>2, BodyLeaves, NowAt
<1>4. Ok(Now', aborted, loose)
  BY <1>1, <1>3, BecomesOk
<1> QED
  BY <1>1, <1>4, MoreRuns

LEMMA SessionEndsOk ==
    ASSUME Inv, NEW r \in Runs, SessionEnds(r)
    PROVE  Ok(Now', aborted', loose')
<1> DEFINE st == IF Origin[r] = "manual" THEN "cron-unwinding" ELSE "over"
<1>1. /\ stage[r] = "unwinding" /\ aborted' = aborted /\ loose' = loose
      /\ Becomes(Complete([Now EXCEPT !.stage[r] = st], SessionOf[r], r))
  BY DEF SessionEnds
<1>2. bodies \in SUBSET Runs /\ Unqueued(Now, r)
  BY <1>1, NowFacts, NotWaiting DEF Inv
<1>3. /\ SessionOf[r] \in Lanes /\ SessionOf[r] # "cron" /\ stage[r] \in Under \ {"cron-queued"}
      /\ st \in Stages /\ st \notin {"lane-queued", "running", "unwinding"}
  BY <1>1, LaneFacts DEF GlobalLanes, Under, Stages
<1> HIDE DEF st
<1>4. Ok(Complete([queue |-> queue, active |-> active, stage |-> [stage EXCEPT ![r] = st],
                   bodies |-> bodies, refused |-> refused], SessionOf[r], r), aborted, loose)
  BY <1>2, <1>3, EntryEnds
<1>5. Ok(Complete([Now EXCEPT !.stage[r] = st], SessionOf[r], r), aborted, loose)
  BY <1>4, NowAt
<1> QED
  BY <1>1, <1>5, BecomesOk

LEMMA CronEndsOk ==
    ASSUME Inv, NEW r \in Runs, CronEnds(r)
    PROVE  Ok(Now', aborted', loose')
<1>1. /\ stage[r] = "cron-unwinding" /\ aborted' = aborted /\ loose' = loose
      /\ Becomes(Complete([Now EXCEPT !.stage[r] = "over"], "cron", r))
  BY DEF CronEnds
<1>2. bodies \in SUBSET Runs /\ Unqueued(Now, r)
  BY <1>1, NowFacts, NotWaiting DEF Inv
<1>3. "cron" \in Lanes /\ "over" \in Stages
  BY LaneFacts DEF GlobalLanes, Stages
<1>4. Ok(Complete([queue |-> queue, active |-> active, stage |-> [stage EXCEPT ![r] = "over"],
                   bodies |-> bodies, refused |-> refused], "cron", r), aborted, loose)
  BY <1>2, <1>3, EntryEnds
<1>5. Ok(Complete([Now EXCEPT !.stage[r] = "over"], "cron", r), aborted, loose)
  BY <1>4, NowAt
<1> QED
  BY <1>1, <1>5, BecomesOk

LEMMA JobTimesOutOk ==
    ASSUME Inv, NEW r \in Runs, JobTimesOut(r)
    PROVE  Ok(Now', aborted', loose')
<1>1. /\ aborted' = aborted \cup {r} /\ loose' = loose /\ Becomes(Complete(Now, "cron", r))
  BY DEF JobTimesOut
<1>2. bodies \in SUBSET Runs /\ stage \in [Runs -> Stages]
  BY NowFacts DEF Inv
<1>3. "cron" \in Lanes /\ "cron" \notin Sessions /\ stage[r] \in Stages
  BY <1>2, LaneFacts DEF GlobalLanes
<1>4. [stage EXCEPT ![r] = stage[r]] = stage
  BY <1>2
<1>5. [queue |-> queue, active |-> active, stage |-> [stage EXCEPT ![r] = stage[r]],
       bodies |-> bodies, refused |-> refused] = Now
  BY <1>4 DEF Now
<1>6. Ok(Complete(Now, "cron", r), aborted \cup {r}, loose)
  BY <1>2, <1>3, <1>5, EntryEnds
<1> QED
  BY <1>1, <1>6, BecomesOk

\* The lane variables and the history are left alone.
LEMMA LanesStay ==
    ASSUME Inv, UNCHANGED laneVars, aborted \subseteq aborted', loose' = loose
    PROVE  Ok(Now', aborted', loose')
<1>1. Ok(Now, aborted, loose)
  BY DEF Inv
<1>2. Becomes(Now)
  BY DEF Becomes, Now, laneVars
<1>3. Ok(Now', aborted, loose)
  BY <1>1, <1>2, BecomesOk
<1> QED
  BY <1>3, MoreRuns

\* An interrupt empties the lane of a session.
LEMMA ClearSessionOk ==
    ASSUME Inv, NEW s \in Sessions, ClearSession(s)
    PROVE  Ok(Now', aborted', loose')
<1> DEFINE waiting == {r \in Runs : stage[r] = "session-queued"} \cap ToSet(queue[s])
           qu == [queue EXCEPT ![s] = <<>>]
           st == [r \in Runs |-> IF r \notin waiting THEN stage[r]
                                 ELSE IF Origin[r] = "manual" THEN "cron-unwinding" ELSE "over"]
           x == [Now EXCEPT !.queue[s] = <<>>,
                    !.stage = [r \in Runs |-> IF r \notin waiting THEN @[r]
                                              ELSE IF Origin[r] = "manual" THEN "cron-unwinding"
                                              ELSE "over"]]
           p == [queue |-> qu, active |-> active, stage |-> st, bodies |-> bodies,
                 refused |-> refused]
<1>1. Becomes(x) /\ aborted' = aborted /\ loose' = loose
  BY DEF ClearSession
<1>2. /\ Now \in QType /\ Now.active = active /\ Now.stage = stage /\ Now.queue = queue
      /\ queue \in [Lanes -> Seq(Runs)] /\ active \in [Lanes -> SUBSET Runs]
      /\ stage \in [Runs -> Stages] /\ bodies \in SUBSET Runs /\ refused \in SUBSET Runs
      /\ Waiting(Now) /\ Holding(Now, aborted, loose) /\ s \in Lanes
  BY NowFacts, LaneFacts DEF Inv
<1>3. x = p
  <2>1. x = [Now EXCEPT !.queue = qu, !.stage = st]
    BY <1>2
  <2> HIDE DEF x, qu, st
  <2> QED
    BY <2>1 DEF Now
<1>4. /\ queue[s] \in Seq(Runs) /\ Len(queue[s]) \in Nat
      /\ ToSet(queue[s]) = {queue[s][i] : i \in 1..Len(queue[s])}
  BY <1>2, LenProperties DEF ToSet
<1>5. qu \in [Lanes -> Seq(Runs)] /\ st \in [Runs -> Stages]
  <2>1. <<>> \in Seq(Runs)
    BY EmptySeq
  <2> QED
    BY <1>2, <2>1 DEF Stages
<1>6. \A r \in waiting : stage[r] = "session-queued" /\ \E i \in 1..Len(queue[s]) : r = queue[s][i]
  BY <1>4
<1>7. qu = [queue EXCEPT ![s] = SubSeq(@, Len(queue[s]) + 1, Len(@))]
  <2> DEFINE n == Len(queue[s])
             t == SubSeq(queue[s], n + 1, n)
  <2>1. \A i \in (n + 1)..n : queue[s][i] \in Runs
    BY <1>4
  <2>2. t \in Seq(Runs) /\ Len(t) = IF n + 1 <= n THEN n - (n + 1) + 1 ELSE 0
    BY <1>4, <2>1, SubSeqProperties
  <2> HIDE DEF t
  <2>3. Len(t) = 0
    BY <1>4, <2>2
  <2>4. t = <<>>
    BY <2>2, <2>3, EmptySeq
  <2> QED
    BY <2>4 DEF t
<1>8. \A r \in Runs : /\ r \notin waiting => st[r] = stage[r]
                      /\ r \in waiting => /\ st[r] = "cron-unwinding" \/ st[r] = "over"
                                          /\ stage[r] = "session-queued"
  BY <1>6
<1> HIDE DEF waiting, qu, st, x
<1>9. p \in QType /\ p.queue = qu /\ p.active = active /\ p.stage = st
  BY <1>2, <1>5 DEF QType
<1> HIDE DEF p
<1>10. Waiting(p)
  <2> DEFINE q == Now
             n == Len(queue[s])
  <2>1. \A r \in Runs : p.stage[r] = q.stage[r] \/ \E i \in 1..n : r = q.queue[s][i]
    BY <1>2, <1>6, <1>8, <1>9
  <2>2. p.queue = [q.queue EXCEPT ![s] = SubSeq(@, n + 1, Len(@))]
    BY <1>2, <1>7, <1>9
  <2>3. n \in 0..Len(q.queue[s])
    BY <1>2, <1>4
  <2>4. Takes(q, p, s, n)
    BY <2>1, <2>2, <2>3 DEF Takes
  <2> HIDE DEF q, n
  <2>5. q \in QType /\ Waiting(q) /\ p \in QType /\ s \in Lanes
    BY <1>2, <1>9 DEF q
  <2> QED
    BY <2>4, <2>5, TakesFirst
<1>11. \A r \in Runs \ loose : HoldsSession(p, r) /\ (r \in aborted \/ HoldsCron(p, r))
  <2> SUFFICES ASSUME NEW r \in Runs \ loose
               PROVE  HoldsSession(p, r) /\ (r \in aborted \/ HoldsCron(p, r))
    OBVIOUS
  <2>1. CASE r \notin waiting
    BY <2>1, <1>2, <1>8, <1>9 DEF Holding, HoldsSession, HoldsCron
  <2>2. CASE r \in waiting
    <3>1. HoldsSession(p, r)
      BY <2>2, <1>8, <1>9 DEF HoldsSession
    <3>2. r \in aborted \/ HoldsCron(p, r)
      BY <2>2, <1>2, <1>8, <1>9 DEF Holding, HoldsCron, Under, Stages
    <3> QED
      BY <3>1, <3>2
  <2> QED
    BY <2>1, <2>2
<1>12. Ok(p, aborted, loose)
  BY <1>2, <1>9, <1>10, <1>11 DEF Ok, Holding
<1> QED
  BY <1>1, <1>3, <1>12, BecomesOk

\* Slots are taken away from runs that count as loose from then on.
LEMMA SlotsTaken ==
    ASSUME Inv, NEW ac \in [Lanes -> SUBSET Runs], NEW lo, loose \subseteq lo,
           \A l \in Lanes : ac[l] \subseteq active[l] /\ active[l] \subseteq ac[l] \cup lo
    PROVE  Ok([Now EXCEPT !.active = ac], aborted, lo)
<1> DEFINE p == [queue |-> queue, active |-> ac, stage |-> stage, bodies |-> bodies,
                 refused |-> refused]
<1>1. [Now EXCEPT !.active = ac] = p
  BY DEF Now
<1>2. /\ Now \in QType /\ Now.active = active /\ Now.stage = stage /\ Now.queue = queue
      /\ queue \in [Lanes -> Seq(Runs)] /\ stage \in [Runs -> Stages]
      /\ bodies \in SUBSET Runs /\ refused \in SUBSET Runs
      /\ Waiting(Now) /\ Holding(Now, aborted, loose)
  BY NowFacts DEF Inv
<1>3. p \in QType /\ p.queue = queue /\ p.active = ac /\ p.stage = stage
  BY <1>2 DEF QType
<1> HIDE DEF p
<1>4. Waiting(p)
  BY <1>2, <1>3, Restaged
<1>5. "cron" \in Lanes /\ \A r \in Runs : SessionOf[r] \in Lanes
  BY LaneFacts DEF GlobalLanes
<1>6. \A r \in Runs \ lo : HoldsSession(p, r) /\ (r \in aborted \/ HoldsCron(p, r))
  BY <1>2, <1>3, <1>5 DEF Holding, HoldsSession, HoldsCron
<1>7. \A s \in Sessions : \A x, y \in p.active[s] : x = y
  BY <1>2, <1>3, LaneFacts DEF Holding
<1>8. Ok(p, aborted, lo)
  BY <1>3, <1>4, <1>6, <1>7 DEF Ok, Holding
<1> QED
  BY <1>1, <1>8

LEMMA RecoverOk ==
    ASSUME Inv, NEW s \in Sessions, Recover(s)
    PROVE  Ok(Now', aborted', loose')
<1> DEFINE ac == [active EXCEPT ![s] = {}]
           x == [Now EXCEPT !.active[s] = {}]
<1>1. /\ aborted' = aborted /\ loose' = loose \cup active[s]
      /\ Becomes(PumpSession(x, s, draining, cap))
  BY DEF Recover
<1>2. active \in [Lanes -> SUBSET Runs] /\ draining \in BOOLEAN /\ cap \in [GlobalLanes -> Nat]
  BY NowFacts DEF Inv, Rest
<1>3. ac \in [Lanes -> SUBSET Runs] /\ s \in Lanes
  BY <1>2, LaneFacts
<1>4. x = [Now EXCEPT !.active = ac]
  BY DEF Now
<1>5. \A l \in Lanes : /\ ac[l] \subseteq active[l]
                      /\ active[l] \subseteq ac[l] \cup (loose \cup active[s])
  BY <1>2, <1>3
<1> HIDE DEF ac, x
<1>6. Ok([Now EXCEPT !.active = ac], aborted, loose \cup active[s])
  BY <1>3, <1>5, SlotsTaken
<1>7. Ok(PumpSession(x, s, draining, cap), aborted, loose \cup active[s])
  BY <1>2, <1>4, <1>6, PumpSessionOk
<1> QED
  BY <1>1, <1>7, BecomesOk

\* The caps that a resume timer restores, or a configuration states.
LEMMA CapIsNat ==
    ASSUME NEW v \in Versions, NEW l PROVE CapOf(v, l) \in Nat
<1>1. Caps[v] \in [main : Nat \ {0}, cron : Nat \ {0}]
  BY CapsAssumption, ElementOfSeq DEF Versions
<1> QED
  BY <1>1 DEF CapOf

LEMMA ResumeFiresOk ==
    ASSUME Inv, NEW l \in GlobalLanes, ResumeFires(l)
    PROVE  Ok(Now', aborted', loose')
<1>1. /\ aborted' = aborted /\ loose' = loose /\ cap' = [cap EXCEPT ![l] = resume[l]]
      /\ Becomes(PumpGlobal(Now, l, cap'))
  BY DEF ResumeFires
<1>2. cap' \in [GlobalLanes -> Nat] /\ Ok(Now, aborted, loose)
  BY <1>1 DEF Inv, Rest
<1>3. Ok(PumpGlobal(Now, l, cap'), aborted, loose)
  BY <1>2, PumpGlobalOk
<1> QED
  BY <1>1, <1>3, BecomesOk

LEMMA ApplyConfigOk ==
    ASSUME Inv, NEW v \in Versions, ApplyConfig(v)
    PROVE  Ok(Now', aborted', loose')
<1> DEFINE order == <<"cron", "cron-nested", "main">>
<1>1. /\ aborted' = aborted /\ loose' = loose /\ cap' = [l \in GlobalLanes |-> CapOf(v, l)]
      /\ Becomes(PumpInTurn(Now, order, draining, cap'))
  BY DEF ApplyConfig
<1>2. cap' \in [GlobalLanes -> Nat] /\ Ok(Now, aborted, loose) /\ draining \in BOOLEAN
  BY <1>1, CapIsNat DEF Inv, Rest
<1>3. order \in Seq(Lanes)
  <2>1. "cron" \in Lanes /\ "cron-nested" \in Lanes /\ "main" \in Lanes
    BY LaneFacts DEF GlobalLanes
  <2> QED
    BY <2>1
<1> HIDE DEF order
<1>4. Ok(PumpInTurn(Now, order, draining, cap'), aborted, loose)
  BY <1>2, <1>3, PumpInTurnOk
<1> QED
  BY <1>1, <1>4, BecomesOk

LEMMA ResetAllLanesOk ==
    ASSUME Inv, ResetAllLanes
    PROVE  Ok(Now', aborted', loose')
<1> DEFINE first == <<"cron", "cron-nested", "main">>
           none == [l \in Lanes |-> {}]
           lo == loose \cup UNION {active[l] : l \in Lanes}
<1>1. /\ aborted' = aborted /\ loose' = lo
      /\ \E order \in SetToSeqs(Sessions) :
             Becomes(PumpInTurn([Now EXCEPT !.active = none], first \o order, FALSE, cap))
  BY DEF ResetAllLanes
<1>2. active \in [Lanes -> SUBSET Runs] /\ cap \in [GlobalLanes -> Nat]
  BY NowFacts DEF Inv, Rest
<1>3. none \in [Lanes -> SUBSET Runs]
  OBVIOUS
<1>4. \A l \in Lanes : none[l] \subseteq active[l] /\ active[l] \subseteq none[l] \cup lo
  OBVIOUS
<1>5. first \in Seq(Lanes)
  <2>1. "cron" \in Lanes /\ "cron-nested" \in Lanes /\ "main" \in Lanes
    BY LaneFacts DEF GlobalLanes
  <2> QED
    BY <2>1
<1> HIDE DEF none, lo, first
<1>6. Ok([Now EXCEPT !.active = none], aborted, lo)
  <2>1. loose \subseteq lo
    BY DEF lo
  <2> QED
    BY <2>1, <1>3, <1>4, SlotsTaken
<1>7. PICK order \in SetToSeqs(Sessions) :
          Becomes(PumpInTurn([Now EXCEPT !.active = none], first \o order, FALSE, cap))
  BY <1>1
<1>8. order \in Seq(Lanes)
  <2>1. Cardinality(Sessions) \in Nat
    BY RunsAssumption, FS_CardinalityType
  <2>2. order \in [1..Cardinality(Sessions) -> Sessions]
    BY DEF SetToSeqs
  <2>3. order \in [1..Cardinality(Sessions) -> Lanes]
    BY <2>2, LaneFacts
  <2> QED
    BY <2>1, <2>3, SeqDef
<1>9. first \o order \in Seq(Lanes)
  BY <1>5, <1>8, ConcatProperties
<1>10. Ok(PumpInTurn([Now EXCEPT !.active = none], first \o order, FALSE, cap), aborted, lo)
  BY <1>2, <1>6, <1>9, PumpInTurnOk
<1> QED
  BY <1>1, <1>7, <1>10, BecomesOk

-----------------------------------------------------------------------------
(* The theorems.                                                           *)

LEMMA RestKept ==
    ASSUME Inv, Next
    PROVE  Rest'
<1>1. /\ Rest /\ bodies \in SUBSET Runs
      /\ queue \in [Lanes -> Seq(Runs)] /\ active \in [Lanes -> SUBSET Runs]
  BY NowFacts DEF Inv
<1>2. Fault => faults' \in 0..MaxFaults
  BY <1>1, CapsAssumption DEF Rest, Fault
<1>3. ASSUME NEW r \in Runs, \/ Call(r) \/ CallManual(r) \/ CronBodyCalls(r) \/ BodyEnds(r)
                             \/ TimesOut(r) \/ SessionEnds(r) \/ CronEnds(r) \/ Abort(r)
                             \/ JobTimesOut(r)
      PROVE  Rest'
  <2>1. /\ UNCHANGED <<cap, config, suspending, resume, draining, kept, faults>>
        /\ born' = born \/ born' = [born EXCEPT ![r] = config]
        /\ aborted' = aborted \/ aborted' = aborted \cup {r}
        /\ loose' = loose \/ loose' = loose \cup {r}
    BY <1>3 DEF Call, CallManual, CronBodyCalls, BodyEnds, TimesOut, SessionEnds, CronEnds,
                Abort, JobTimesOut
  <2>2. born' \in [Runs -> Versions]
    BY <1>1, <2>1 DEF Rest
  <2> QED
    BY <1>1, <2>1, <2>2 DEF Rest
<1>4. ASSUME NEW r \in Runs, Suspend(r) PROVE Rest'
  <2>1. GlobalLane(r) \in GlobalLanes /\ born[r] \in Versions
    BY <1>1, LaneFacts DEF Rest, GlobalLanes
  <2>2. [lane |-> GlobalLane(r), version |-> born[r]] \in [lane : GlobalLanes, version : Versions]
    BY <2>1
  <2> QED
    BY <1>1, <1>2, <1>4, <2>2 DEF Suspend, Rest, laneVars
<1>5. ASSUME NEW s \in Sessions, ClearSession(s) \/ Recover(s) PROVE Rest'
  <2>1. active[s] \subseteq Runs
    BY <1>1, LaneFacts
  <2>2. CASE ClearSession(s)
    BY <1>1, <2>2 DEF ClearSession, Rest
  <2>3. CASE Recover(s)
    BY <1>1, <1>2, <2>1, <2>3 DEF Recover, Rest
  <2> QED
    BY <1>5, <2>2, <2>3
<1>6. ASSUME NEW x \in Suspensions, SuspensionSaved(x) PROVE Rest'
  <2>1. x.lane \in GlobalLanes /\ x.version \in Versions
    BY DEF Suspensions
  <2>2. CapOf(x.version, x.lane) \in Nat
    BY <2>1, CapIsNat
  <2>3. cap' \in [GlobalLanes -> Nat] /\ resume' \in [GlobalLanes -> Nat]
    BY <1>1, <1>6, <2>2 DEF SuspensionSaved, Rest
  <2> QED
    BY <1>1, <1>6, <2>3 DEF SuspensionSaved, Rest, laneVars
<1>7. ASSUME NEW x \in Suspensions, SuspensionFails(x) PROVE Rest'
  BY <1>1, <1>7 DEF SuspensionFails, Rest, laneVars
<1>8. ASSUME NEW l \in GlobalLanes, ResumeFires(l) PROVE Rest'
  BY <1>1, <1>8 DEF ResumeFires, Rest
<1>9. ASSUME NEW v \in Versions, ApplyConfig(v) PROVE Rest'
  <2>1. cap' \in [GlobalLanes -> Nat]
    BY <1>9, CapIsNat DEF ApplyConfig
  <2>2. faults' \in 0..MaxFaults
    BY <1>1, <1>2, <1>9 DEF ApplyConfig, Rest
  <2>3. /\ config' = v
        /\ UNCHANGED <<born, suspending, resume, draining, aborted, loose, kept>>
    BY <1>9 DEF ApplyConfig
  <2> QED
    BY <1>1, <2>1, <2>2, <2>3 DEF Rest
<1>10. ASSUME MarkDraining PROVE Rest'
  BY <1>1, <1>2, <1>10 DEF MarkDraining, Rest, laneVars
<1>11. ASSUME ResetAllLanes PROVE Rest'
  <2>1. UNION {active[l] : l \in Lanes} \subseteq Runs
    BY <1>1
  <2>2. /\ draining' = FALSE /\ loose' = loose \cup UNION {active[l] : l \in Lanes}
        /\ UNCHANGED <<cap, config, born, suspending, resume, aborted, kept, faults>>
    BY <1>11 DEF ResetAllLanes
  <2> QED
    BY <1>1, <2>1, <2>2 DEF Rest
<1> QED
  BY <1>3, <1>4, <1>5, <1>6, <1>7, <1>8, <1>9, <1>10, <1>11 DEF Next

LEMMA InvInit ==
    ASSUME Init PROVE Inv
<1>1. /\ queue = [l \in Lanes |-> <<>>] /\ active = [l \in Lanes |-> {}]
      /\ stage = [r \in Runs |-> "new"] /\ bodies = {} /\ refused = {}
  BY DEF Init
<1>2. <<>> \in Seq(Runs) /\ Len(<<>>) = 0
  BY EmptySeq, LenProperties
<1>3. /\ Now.queue = queue /\ Now.active = active /\ Now.stage = stage
  BY DEF Now
<1>4. Now \in QType
  BY <1>1, <1>2 DEF Now, QType, Stages
<1>5. Waiting(Now)
  <2> SUFFICES ASSUME NEW l \in Lanes PROVE Len(Now.queue[l]) = 0
    BY DEF Waiting
  <2> QED
    BY <1>1, <1>2, <1>3
<1>6. Holding(Now, aborted, loose)
  BY <1>1, <1>3, LaneFacts DEF Holding, HoldsSession, HoldsCron, Under
<1>7. 1 \in Versions
  <2>1. Len(Caps) \in Nat /\ Len(Caps) # 0
    BY CapsAssumption, LenProperties, EmptySeq
  <2> QED
    BY <2>1 DEF Versions
<1>8. cap \in [GlobalLanes -> Nat]
  BY <1>7, CapIsNat DEF Init
<1>9. /\ config = 1 /\ born = [r \in Runs |-> 1] /\ suspending = {} /\ faults = 0
      /\ resume = [l \in GlobalLanes |-> 0] /\ draining = FALSE
      /\ aborted = {} /\ loose = {} /\ kept = {}
  BY DEF Init
<1>10. /\ born \in [Runs -> Versions] /\ resume \in [GlobalLanes -> Nat]
       /\ config \in Versions /\ faults \in 0..MaxFaults
  BY <1>7, <1>9, CapsAssumption
<1>11. Rest
  BY <1>8, <1>9, <1>10 DEF Rest
<1> QED
  BY <1>4, <1>5, <1>6, <1>11 DEF Inv, Ok

LEMMA InvNext ==
    ASSUME Inv, [Next]_vars PROVE Inv'
<1>1. CASE Next
  <2>1. Ok(Now', aborted', loose')
    <3>1. ASSUME NEW r \in Runs, Abort(r) \/ Suspend(r) PROVE Ok(Now', aborted', loose')
      BY <3>1, LanesStay DEF Abort, Suspend
    <3>2. ASSUME NEW x \in Suspensions, SuspensionSaved(x) \/ SuspensionFails(x)
          PROVE  Ok(Now', aborted', loose')
      BY <3>2, LanesStay DEF SuspensionSaved, SuspensionFails
    <3>3. ASSUME MarkDraining PROVE Ok(Now', aborted', loose')
      BY <3>3, LanesStay DEF MarkDraining
    <3> QED
      BY <1>1, <3>1, <3>2, <3>3, CallOk, CallManualOk, CronBodyCallsOk, BodyEndsOk, TimesOutOk,
         SessionEndsOk, CronEndsOk, JobTimesOutOk, ClearSessionOk, RecoverOk, ResumeFiresOk,
         ApplyConfigOk, ResetAllLanesOk DEF Next
  <2>2. Rest'
    BY <1>1, RestKept
  <2> QED
    BY <2>1, <2>2 DEF Inv
<1>2. CASE UNCHANGED vars
  <2>1. Ok(Now', aborted', loose')
    BY <1>2, LanesStay DEF vars, laneVars
  <2>2. Rest'
    BY <1>2 DEF vars, Inv, Rest
  <2> QED
    BY <2>1, <2>2 DEF Inv
<1> QED
  BY <1>1, <1>2

\* A set whose elements are all equal.
LEMMA AtMostOne ==
    ASSUME NEW S, \A x, y \in S : x = y
    PROVE  Cardinality(S) <= 1
<1>1. CASE S = {}
  BY <1>1, FS_EmptySet
<1>2. CASE S # {}
  <2>1. PICK x \in S : TRUE
    BY <1>2
  <2>2. S = {x}
    BY <2>1
  <2> QED
    BY <2>2, FS_Singleton
<1> QED
  BY <1>1, <1>2

LEMMA InvTypeOK ==
    ASSUME Inv PROVE TypeOK
<1>1. \A s \in Sessions : Cardinality(active[s]) <= 1
  BY NowFacts, AtMostOne DEF Inv, Holding
<1> QED
  BY <1>1, NowFacts DEF Inv, Rest, TypeOK

LEMMA InvSlots ==
    ASSUME Inv PROVE InnerEntriesHoldOuterSlots
<1>1. /\ Holding(Now, aborted, loose) /\ Now.active = active /\ Now.stage = stage
  BY NowFacts DEF Inv
<1> SUFFICES ASSUME NEW r \in Runs \ loose
             PROVE  /\ stage[r] \in {"lane-queued", "running", "unwinding"}
                         => active[SessionOf[r]] = {r}
                    /\ Origin[r] = "manual" /\ stage[r] \in Under \ {"cron-queued"}
                         /\ r \notin aborted => r \in active["cron"]
  BY DEF InnerEntriesHoldOuterSlots
<1>2. SessionOf[r] \in Sessions
  BY LaneFacts
<1>3. stage[r] \in {"lane-queued", "running", "unwinding"} => r \in active[SessionOf[r]]
  BY <1>1 DEF Holding, HoldsSession
<1>4. \A x, y \in active[SessionOf[r]] : x = y
  BY <1>1, <1>2 DEF Holding
<1>5. Origin[r] = "manual" /\ stage[r] \in Under \ {"cron-queued"} /\ r \notin aborted
        => r \in active["cron"]
  BY <1>1 DEF Holding, HoldsCron
<1> QED
  BY <1>3, <1>4, <1>5

LEMMA InvHolds == Spec => []Inv
<1>1. Init => Inv
  BY InvInit
<1>2. Inv /\ [Next]_vars => Inv'
  BY InvNext
<1> QED
  BY <1>1, <1>2, PTL DEF Spec

\* TypeOK: the lanes, the runs that wait in them and hold their slots, and the
\* suspensions stay what they are, and the lane of a session has one slot, for
\* any runs, sessions and configurations.
THEOREM TypeCorrect == Spec => []TypeOK
<1>1. Inv => TypeOK
  BY InvTypeOK
<1> QED
  BY <1>1, InvHolds, PTL

\* InnerEntriesHoldOuterSlots: whatever is interrupted, suspended, reconfigured
\* or restarted, a run that waits for or holds a slot of a global lane holds
\* the only slot of its session, and a manual run one of the lane "cron",
\* unless a timeout, a reset, a recovery or an abort took it away.
THEOREM SlotsNest == Spec => []InnerEntriesHoldOuterSlots
<1>1. Inv => InnerEntriesHoldOuterSlots
  BY InvSlots
<1> QED
  BY <1>1, InvHolds, PTL
=============================================================================

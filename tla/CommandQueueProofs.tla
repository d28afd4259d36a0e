------------------------- MODULE CommandQueueProofs -------------------------
(***************************************************************************)
(* Proofs about the command queue, for any number of lanes, commands,      *)
(* waiters, slots and resets.                                              *)
(*                                                                         *)
(* Each action first edits some of queue, slots, generations and bodies,   *)
(* and then pumps.  So the consistency of the data is stated on arguments  *)
(* (QueueOK, SlotsOK, ...): the lemmas about Drain say that pumping keeps  *)
(* it, and each action only has to show that its edits do.                 *)
(***************************************************************************)
EXTENDS CommandQueue, FiniteSetTheorems, FunctionTheorems, SequenceTheorems,
        TLAPS

Bodies == {"not-started", "running", "ended"}
Promises == {"none", "pending"} \cup Settled

InQueue(q, t) == \E i \in 1..Len(q) : q[i] = t

\* The queues hold the entries that wait, each once.
QueueOK(q, bod, prom, lan) ==
    \A l \in Lanes :
        /\ \A i, j \in 1..Len(q[l]) : q[l][i] = q[l][j] => i = j
        /\ \A t \in Tasks : InQueue(q[l], t) <=> /\ lan[t] = l
                                                 /\ bod[t] = "not-started"
                                                 /\ prom[t] = "pending"

\* The slots of a lane are held by its running entries of this generation.
SlotsOK(act, gen, bod, prom, lan, tg) ==
    \A l \in Lanes, t \in Tasks :
        t \in act[l] <=> /\ lan[t] = l
                         /\ bod[t] = "running"
                         /\ prom[t] = "pending"
                         /\ tg[t] = gen[l]

\* No entry is ahead of its lane; one that has not started has generation 0;
\* one that was never enqueued has not started.
EntriesOK(gen, bod, prom, lan, tg) ==
    \A t \in Tasks :
        /\ tg[t] <= gen[lan[t]]
        /\ bod[t] = "not-started" => tg[t] = 0
        /\ prom[t] = "none" => bod[t] = "not-started"

\* Only lanes of the lane map hold anything.
LanesOK(lns, q, act) ==
    \A l \in Lanes \ lns : q[l] = <<>> /\ act[l] = {}

DataInv ==
    /\ QueueOK(queue, body, promise, laneOf)
    /\ SlotsOK(activeTaskIds, generation, body, promise, laneOf, taskGeneration)
    /\ EntriesOK(generation, body, promise, laneOf, taskGeneration)
    /\ LanesOK(lanes, queue, activeTaskIds)

\* The inductive invariant.
IInv == TypeOK /\ DataInv /\ NoForgottenWaiter /\ WorkConserving

\* What StartsWithinCap says of one step.
CapStep == \A l \in Lanes :
               ~(activeTaskIds'[l] \subseteq activeTaskIds[l])
                   => Cardinality(activeTaskIds'[l]) <= maxConcurrent'[l]

PumpedType == /\ queue' \in [Lanes -> Seq(Tasks)]
              /\ activeTaskIds' \in [Lanes -> SUBSET Tasks]
              /\ taskGeneration' \in [Tasks -> Nat]
              /\ body' \in [Tasks -> Bodies]

\* The typing of what no pump changes.
OthersType == /\ gatewayDraining' \in BOOLEAN
              /\ lanes' \subseteq Lanes
              /\ maxConcurrent' \in [Lanes -> Nat]
              /\ generation' \in [Lanes -> Nat]
              /\ laneOf' \in [Tasks -> Lanes]
              /\ hasTimeout' \subseteq Tasks
              /\ promise' \in [Tasks -> Promises]

-----------------------------------------------------------------------------
(* The pump loop.                                                          *)

\* The pump loop shifts no more entries than the queue holds.
LEMMA PumpCountBounds ==
    ASSUME NEW q \in Seq(Tasks), NEW active \in SUBSET Tasks, NEW max \in Nat
    PROVE  /\ Cardinality(active) \in Nat
           /\ PumpCount(q, active, max) \in 0..Len(q)
<1>1. IsFiniteSet(active)
  BY TasksAssumption, FS_Subset
<1>2. Cardinality(active) \in Nat
  BY <1>1, FS_CardinalityType
<1>3. Len(q) \in Nat
  OBVIOUS
<1> QED
  BY <1>2, <1>3 DEF PumpCount

\* What a queue is after n shifts.
LEMMA Shifted ==
    ASSUME NEW q \in Seq(Tasks), NEW n \in 0..Len(q)
    PROVE  LET r == SubSeq(q, n + 1, Len(q))
           IN  /\ r \in Seq(Tasks)
               /\ Len(r) = Len(q) - n
               /\ \A i \in 1..Len(r) : r[i] = q[i + n] /\ i + n \in 1..Len(q)
<1> DEFINE r == SubSeq(q, n + 1, Len(q))
<1>1. n + 1 \in Int /\ Len(q) \in Int /\ Len(q) \in Nat
  OBVIOUS
<1>2. \A i \in (n + 1)..Len(q) : q[i] \in Tasks
  BY <1>1
<1>3. /\ r \in Seq(Tasks)
      /\ Len(r) = IF n + 1 <= Len(q) THEN Len(q) - (n + 1) + 1 ELSE 0
      /\ \A i \in 1..(Len(q) - (n + 1) + 1) : r[i] = q[(n + 1) + i - 1]
  BY <1>1, <1>2, SubSeqProperties
<1>4. Len(r) = Len(q) - n
  BY <1>1, <1>3
<1>5. ASSUME NEW i \in 1..Len(r)
      PROVE  r[i] = q[i + n] /\ i + n \in 1..Len(q)
  <2>1. i \in 1..(Len(q) - (n + 1) + 1) /\ (n + 1) + i - 1 = i + n
    BY <1>1, <1>4
  <2> HIDE DEF r
  <2> QED
    BY <1>1, <1>3, <1>4, <2>1
<1> QED
  BY <1>3, <1>4, <1>5

\* An index among the first c of n is not one of those behind them.
LEMMA Apart ==
    ASSUME NEW n \in Nat, NEW c \in Nat, c <= n,
           NEW i \in Nat \ {0}, NEW j \in 1..c
    PROVE  j \in 1..n /\ j # i + c
  OBVIOUS

\* What the pump loop leaves behind is well typed.
LEMMA DrainType ==
    ASSUME NEW D \in SUBSET Lanes,
           NEW q \in [Lanes -> Seq(Tasks)],
           NEW act \in [Lanes -> SUBSET Tasks],
           NEW gen \in [Lanes -> Nat],
           NEW bod \in [Tasks -> Bodies],
           maxConcurrent' \in [Lanes -> Nat],
           laneOf' \in [Tasks -> Lanes],
           taskGeneration \in [Tasks -> Nat],
           Drain(D, q, act, gen, bod)
    PROVE  /\ queue' \in [Lanes -> Seq(Tasks)]
           /\ activeTaskIds' \in [Lanes -> SUBSET Tasks]
           /\ taskGeneration' \in [Tasks -> Nat]
           /\ body' \in [Tasks -> Bodies]
<1> DEFINE count(l) == IF l \in D
                       THEN PumpCount(q[l], act[l], maxConcurrent'[l]) ELSE 0
           started(l) == {q[l][i] : i \in 1..count(l)}
<1>1. \A l \in Lanes : count(l) \in 0..Len(q[l])
  <2> TAKE l \in Lanes
  <2>1. q[l] \in Seq(Tasks) /\ Len(q[l]) \in Nat
    OBVIOUS
  <2>2. PumpCount(q[l], act[l], maxConcurrent'[l]) \in 0..Len(q[l])
    BY <2>1, PumpCountBounds
  <2> QED
    BY <2>1, <2>2
<1> HIDE DEF count
<1>2. \A l \in Lanes : started(l) \subseteq Tasks
  <2> SUFFICES ASSUME NEW l \in Lanes, NEW i \in 1..count(l)
               PROVE  q[l][i] \in Tasks
    OBVIOUS
  <2>1. q[l] \in Seq(Tasks) /\ Len(q[l]) \in Nat
    OBVIOUS
  <2>2. i \in 1..Len(q[l])
    BY <1>1, <2>1
  <2> QED
    BY <2>1, <2>2
<1>3. \A l \in Lanes : SubSeq(q[l], count(l) + 1, Len(q[l])) \in Seq(Tasks)
  <2> TAKE l \in Lanes
  <2>1. q[l] \in Seq(Tasks) /\ count(l) \in 0..Len(q[l])
    BY <1>1
  <2> HIDE DEF started
  <2> QED
    BY <2>1, Shifted
<1>4. queue' = [l \in Lanes |-> SubSeq(q[l], count(l) + 1, Len(q[l]))]
  BY DEF Drain, count
<1>5. activeTaskIds' = [l \in Lanes |-> act[l] \cup started(l)]
  BY DEF Drain, count
<1>6. taskGeneration' \in [Tasks -> Nat]
  BY DEF Drain
<1>7. body' \in [Tasks -> Bodies]
  BY DEF Drain, Bodies
<1> QED
  BY <1>2, <1>3, <1>4, <1>5, <1>6, <1>7

\* Pumping starts waiting entries and touches nothing else: the data stays
\* consistent.
LEMMA DrainKeepsData ==
    ASSUME NEW D \in SUBSET Lanes,
           NEW q \in [Lanes -> Seq(Tasks)],
           NEW act \in [Lanes -> SUBSET Tasks],
           NEW gen \in [Lanes -> Nat],
           NEW bod \in [Tasks -> Bodies],
           NEW prom \in [Tasks -> Promises],
           NEW lan \in [Tasks -> Lanes],
           NEW lns,
           maxConcurrent' \in [Lanes -> Nat],
           laneOf' = lan,
           taskGeneration \in [Tasks -> Nat],
           QueueOK(q, bod, prom, lan),
           SlotsOK(act, gen, bod, prom, lan, taskGeneration),
           EntriesOK(gen, bod, prom, lan, taskGeneration),
           LanesOK(lns, q, act),
           Drain(D, q, act, gen, bod)
    PROVE  /\ QueueOK(queue', body', prom, lan)
           /\ SlotsOK(activeTaskIds', gen, body', prom, lan, taskGeneration')
           /\ EntriesOK(gen, body', prom, lan, taskGeneration')
           /\ LanesOK(lns, queue', activeTaskIds')
<1> DEFINE count(l) == IF l \in D
                       THEN PumpCount(q[l], act[l], maxConcurrent'[l]) ELSE 0
           started(l) == {q[l][i] : i \in 1..count(l)}
           starts(t) == \E l \in D : t \in started(l)
<1>1. \A l \in Lanes : q[l] \in Seq(Tasks) /\ Len(q[l]) \in Nat
                     /\ count(l) \in 0..Len(q[l])
  <2> TAKE l \in Lanes
  <2>1. q[l] \in Seq(Tasks) /\ Len(q[l]) \in Nat
    OBVIOUS
  <2>2. PumpCount(q[l], act[l], maxConcurrent'[l]) \in 0..Len(q[l])
    BY <2>1, PumpCountBounds
  <2> QED
    BY <2>1, <2>2
<1>2. \A l \in Lanes : started(l) # {} => l \in D
  OBVIOUS
<1>3. /\ queue' = [l \in Lanes |-> SubSeq(q[l], count(l) + 1, Len(q[l]))]
      /\ activeTaskIds' = [l \in Lanes |-> act[l] \cup started(l)]
      /\ taskGeneration' = [t \in Tasks |->
             IF starts(t) THEN gen[lan[t]] ELSE taskGeneration[t]]
      /\ body' = [t \in Tasks |-> IF starts(t) THEN "running" ELSE bod[t]]
  BY DEF Drain
<1> HIDE DEF count
<1>4. \A l \in Lanes, t \in Tasks : t \in started(l) =>
          lan[t] = l /\ bod[t] = "not-started" /\ prom[t] = "pending"
  <2> SUFFICES ASSUME NEW l \in Lanes, NEW i \in 1..count(l), q[l][i] \in Tasks
               PROVE  LET t == q[l][i]
                      IN  lan[t] = l /\ bod[t] = "not-started" /\ prom[t] = "pending"
    OBVIOUS
  <2>1. i \in 1..Len(q[l])
    BY <1>1
  <2> QED
    BY <2>1 DEF QueueOK, InQueue
<1>5. \A l \in Lanes, t \in Tasks : lan[t] = l => (starts(t) <=> t \in started(l))
  <2> HIDE DEF started
  <2> QED
    BY <1>2, <1>4
<1>6. \A l \in Lanes, t \in Tasks :
          InQueue(queue'[l], t) <=> InQueue(q[l], t) /\ t \notin started(l)
  <2> TAKE l \in Lanes
  <2>1. /\ Len(queue'[l]) = Len(q[l]) - count(l)
        /\ \A i \in 1..Len(queue'[l]) : /\ queue'[l][i] = q[l][i + count(l)]
                                        /\ i + count(l) \in 1..Len(q[l])
    BY <1>1, <1>3, Shifted
  <2> TAKE t \in Tasks
  <2>2. ASSUME InQueue(queue'[l], t)
        PROVE  InQueue(q[l], t) /\ t \notin started(l)
    <3>1. PICK i \in 1..Len(queue'[l]) : queue'[l][i] = t
      BY <2>2 DEF InQueue
    <3>2. i + count(l) \in 1..Len(q[l]) /\ q[l][i + count(l)] = t
      BY <1>1, <2>1, <3>1
    <3>3. ASSUME NEW j \in 1..count(l), q[l][j] = t
          PROVE  FALSE
      <4> HIDE DEF started, starts
      <4>3. count(l) \in Nat /\ Len(q[l]) \in Nat /\ count(l) <= Len(q[l])
        BY <1>1
      <4>4. i \in Nat \ {0}
        OBVIOUS
      <4>1. j \in 1..Len(q[l]) /\ j # i + count(l)
        BY <4>3, <4>4, Apart
      <4>2. \A a, b \in 1..Len(q[l]) : q[l][a] = q[l][b] => a = b
        BY DEF QueueOK
      <4> QED
        BY <3>2, <3>3, <4>1, <4>2
    <3> QED
      BY <3>2, <3>3 DEF InQueue
  <2>3. ASSUME InQueue(q[l], t), t \notin started(l)
        PROVE  InQueue(queue'[l], t)
    <3>1. PICK i \in 1..Len(q[l]) : q[l][i] = t
      BY <2>3 DEF InQueue
    <3>2. i \notin 1..count(l)
      BY <2>3, <3>1
    <3>3. count(l) \in Nat /\ Len(q[l]) \in Nat /\ count(l) <= Len(q[l])
      BY <1>1
    <3>4. i \in Int /\ count(l) < i /\ i <= Len(q[l])
      BY <3>2, <3>3
    <3>5. Len(queue'[l]) = Len(q[l]) - count(l)
      BY <2>1
    <3>6. i - count(l) \in 1..Len(queue'[l]) /\ (i - count(l)) + count(l) = i
      <4>1. \A c \in Nat, n \in Nat : c < i /\ i <= n =>
                i - c \in 1..(n - c) /\ (i - c) + c = i
        BY <3>4
      <4> QED
        BY <3>3, <3>4, <3>5, <4>1
    <3>7. queue'[l][i - count(l)] = q[l][i]
      BY <2>1, <3>6
    <3> QED
      BY <3>1, <3>6, <3>7 DEF InQueue
  <2> QED
    BY <2>2, <2>3
<1>7. \A l \in Lanes : \A i, j \in 1..Len(queue'[l]) :
          queue'[l][i] = queue'[l][j] => i = j
  <2> TAKE l \in Lanes
  <2>1. /\ Len(queue'[l]) = Len(q[l]) - count(l)
        /\ \A i \in 1..Len(queue'[l]) : /\ queue'[l][i] = q[l][i + count(l)]
                                        /\ i + count(l) \in 1..Len(q[l])
    BY <1>1, <1>3, Shifted
  <2> TAKE i, j \in 1..Len(queue'[l])
  <2>2. i + count(l) \in 1..Len(q[l]) /\ j + count(l) \in 1..Len(q[l])
    BY <1>1, <2>1
  <2>3. q[l][i + count(l)] = q[l][j + count(l)] => i + count(l) = j + count(l)
    BY <2>2 DEF QueueOK
  <2>4. count(l) \in Nat /\ i \in Int /\ j \in Int
    BY <1>1
  <2>5. i + count(l) = j + count(l) => i = j
    BY <2>4
  <2> QED
    BY <2>1, <2>3, <2>5
<1> HIDE DEF started
<1>8. QueueOK(queue', body', prom, lan)
  <2>1. ASSUME NEW l \in Lanes, NEW t \in Tasks
        PROVE  InQueue(queue'[l], t) <=> /\ lan[t] = l
                                         /\ body'[t] = "not-started"
                                         /\ prom[t] = "pending"
    <3>1. InQueue(q[l], t) <=> /\ lan[t] = l
                               /\ bod[t] = "not-started"
                               /\ prom[t] = "pending"
      BY DEF QueueOK
    <3>2. body'[t] = IF starts(t) THEN "running" ELSE bod[t]
      BY <1>3
    <3> HIDE DEF starts
    <3> QED
      BY <1>5, <1>6, <3>1, <3>2
  <2> QED
    BY <1>7, <2>1 DEF QueueOK
<1>9. SlotsOK(activeTaskIds', gen, body', prom, lan, taskGeneration')
  <2> SUFFICES ASSUME NEW l \in Lanes, NEW t \in Tasks
               PROVE  t \in activeTaskIds'[l] <=> /\ lan[t] = l
                                                 /\ body'[t] = "running"
                                                 /\ prom[t] = "pending"
                                                 /\ taskGeneration'[t] = gen[l]
    BY DEF SlotsOK
  <2>1. t \in act[l] <=> /\ lan[t] = l
                         /\ bod[t] = "running"
                         /\ prom[t] = "pending"
                         /\ taskGeneration[t] = gen[l]
    BY DEF SlotsOK
  <2>2. t \in activeTaskIds'[l] <=> t \in act[l] \/ t \in started(l)
    BY <1>3
  <2>3. /\ body'[t] = IF starts(t) THEN "running" ELSE bod[t]
        /\ taskGeneration'[t] =
               IF starts(t) THEN gen[lan[t]] ELSE taskGeneration[t]
    BY <1>3
  <2> HIDE DEF starts
  <2> QED
    BY <1>4, <1>5, <2>1, <2>2, <2>3
<1>10. EntriesOK(gen, body', prom, lan, taskGeneration')
  <2> SUFFICES ASSUME NEW t \in Tasks
               PROVE  /\ taskGeneration'[t] <= gen[lan[t]]
                      /\ body'[t] = "not-started" => taskGeneration'[t] = 0
                      /\ prom[t] = "none" => body'[t] = "not-started"
    BY DEF EntriesOK
  <2>1. /\ body'[t] = IF starts(t) THEN "running" ELSE bod[t]
        /\ taskGeneration'[t] =
               IF starts(t) THEN gen[lan[t]] ELSE taskGeneration[t]
    BY <1>3
  <2>2. starts(t) => prom[t] = "pending"
    BY <1>4
  <2>3. gen[lan[t]] \in Nat
    OBVIOUS
  <2> HIDE DEF starts
  <2> QED
    BY <2>1, <2>2, <2>3 DEF EntriesOK
<1>11. LanesOK(lns, queue', activeTaskIds')
  <2> SUFFICES ASSUME NEW l \in Lanes \ lns
               PROVE  queue'[l] = <<>> /\ activeTaskIds'[l] = {}
    BY DEF LanesOK
  <2>1. q[l] = <<>> /\ act[l] = {}
    BY DEF LanesOK
  <2>2. count(l) = 0
    BY <1>1, <2>1
  <2> QED
    BY <1>3, <2>1, <2>2 DEF started
<1> QED
  BY <1>8, <1>9, <1>10, <1>11

\* The first n entries of a queue without duplicates are n entries.
LEMMA PrefixCardinality ==
    ASSUME NEW q \in Seq(Tasks), NEW n \in 0..Len(q),
           \A i, j \in 1..Len(q) : q[i] = q[j] => i = j
    PROVE  LET first == {q[i] : i \in 1..n}
           IN  IsFiniteSet(first) /\ Cardinality(first) = n
<1> DEFINE first == {q[i] : i \in 1..n}
           f == [i \in 1..n |-> q[i]]
<1>1. n \in Nat /\ \A i \in 1..n : i \in 1..Len(q)
  OBVIOUS
<1>2. f \in Bijection(1..n, first)
  <2>1. f \in [1..n -> first]
    OBVIOUS
  <2>2. \A a, b \in 1..n : f[a] = f[b] => a = b
    BY <1>1
  <2>3. \A t \in first : \E s \in 1..n : f[s] = t
    OBVIOUS
  <2> HIDE DEF f, first
  <2> QED
    BY <2>1, <2>2, <2>3, Fun_IsBij
<1>3. IsFiniteSet(1..n) /\ Cardinality(1..n) = n
  BY <1>1, FS_Interval
<1> HIDE DEF first
<1>4. ExistsBijection(1..n, first)
  BY <1>2 DEF ExistsBijection
<1>5. IsFiniteSet(first) /\ Cardinality(first) = n
  BY <1>3, <1>4, FS_Bijection
<1> QED
  BY <1>5 DEF first

\* Pumping leaves a lane either without waiting entries or full, and a lane in
\* which it started something within its cap.
LEMMA DrainFillsLane ==
    ASSUME NEW D \in SUBSET Lanes,
           NEW q \in [Lanes -> Seq(Tasks)],
           NEW act \in [Lanes -> SUBSET Tasks],
           NEW gen \in [Lanes -> Nat],
           NEW bod \in [Tasks -> Bodies],
           NEW prom \in [Tasks -> Promises],
           NEW lan \in [Tasks -> Lanes],
           maxConcurrent' \in [Lanes -> Nat],
           QueueOK(q, bod, prom, lan),
           SlotsOK(act, gen, bod, prom, lan, taskGeneration),
           Drain(D, q, act, gen, bod),
           NEW l \in Lanes
    PROVE  /\ l \in D /\ queue'[l] # <<>> =>
                  Cardinality(activeTaskIds'[l]) >= maxConcurrent'[l]
           /\ ~(activeTaskIds'[l] \subseteq act[l]) =>
                  Cardinality(activeTaskIds'[l]) <= maxConcurrent'[l]
           /\ l \notin D => queue'[l] = q[l] /\ activeTaskIds'[l] = act[l]
           /\ act[l] \subseteq activeTaskIds'[l]
<1> DEFINE free == PumpCount(q[l], act[l], maxConcurrent'[l])
           count == IF l \in D THEN free ELSE 0
           started == {q[l][i] : i \in 1..count}
<1>1. q[l] \in Seq(Tasks) /\ Len(q[l]) \in Nat /\ act[l] \in SUBSET Tasks
      /\ maxConcurrent'[l] \in Nat
  OBVIOUS
<1>2. Cardinality(act[l]) \in Nat /\ free \in 0..Len(q[l])
  BY <1>1, PumpCountBounds
<1>3. count \in 0..Len(q[l])
  BY <1>1, <1>2
<1>4. /\ queue'[l] = SubSeq(q[l], count + 1, Len(q[l]))
      /\ activeTaskIds'[l] = act[l] \cup started
  BY DEF Drain
<1>5. Len(queue'[l]) = Len(q[l]) - count /\ queue'[l] \in Seq(Tasks)
  <2> HIDE DEF count, started
  <2>1. /\ Len(SubSeq(q[l], count + 1, Len(q[l]))) = Len(q[l]) - count
        /\ SubSeq(q[l], count + 1, Len(q[l])) \in Seq(Tasks)
    BY <1>1, <1>3, Shifted
  <2> QED
    BY <1>4, <2>1
<1>6. IsFiniteSet(started) /\ Cardinality(started) = count
  <2>1. \A i, j \in 1..Len(q[l]) : q[l][i] = q[l][j] => i = j
    BY DEF QueueOK
  <2> HIDE DEF count
  <2> QED
    BY <1>1, <1>3, <2>1, PrefixCardinality
<1>7. act[l] \cap started = {}
  <2> SUFFICES ASSUME NEW i \in 1..count, q[l][i] \in act[l] PROVE FALSE
    OBVIOUS
  <2>0. i \in 1..Len(q[l])
    <3> HIDE DEF count
    <3> QED
      BY <1>1, <1>3
  <2>1. i \in 1..Len(q[l]) /\ q[l][i] \in Tasks
    BY <1>1, <2>0
  <2>2. InQueue(q[l], q[l][i])
    BY <2>1 DEF InQueue
  <2>3. bod[q[l][i]] = "not-started"
    BY <2>1, <2>2 DEF QueueOK
  <2> QED
    BY <2>1, <2>3 DEF SlotsOK
<1>8. IsFiniteSet(act[l])
  BY <1>1, TasksAssumption, FS_Subset
<1> HIDE DEF started
<1>9. Cardinality(activeTaskIds'[l]) = Cardinality(act[l]) + count
  <2>1. Cardinality(act[l] \cup started) =
            Cardinality(act[l]) + Cardinality(started) - Cardinality(act[l] \cap started)
    BY <1>6, <1>8, FS_Union
  <2>2. Cardinality(act[l] \cap started) = 0
    BY <1>7, FS_EmptySet
  <2> QED
    BY <1>2, <1>3, <1>4, <1>6, <2>1, <2>2
<1>10. l \in D /\ queue'[l] # <<>> =>
           Cardinality(activeTaskIds'[l]) >= maxConcurrent'[l]
  <2> SUFFICES ASSUME l \in D, queue'[l] # <<>>
               PROVE  Cardinality(activeTaskIds'[l]) >= maxConcurrent'[l]
    OBVIOUS
  <2>1. Len(queue'[l]) # 0
    BY <1>5
  <2>2. count = free /\ free # Len(q[l])
    BY <1>1, <1>5, <2>1
  <2>3. count = IF maxConcurrent'[l] > Cardinality(act[l])
                THEN maxConcurrent'[l] - Cardinality(act[l]) ELSE 0
    BY <1>1, <1>2, <2>2 DEF PumpCount
  <2> HIDE DEF count, free
  <2> QED
    BY <1>1, <1>2, <1>9, <2>3
<1>11. ~(activeTaskIds'[l] \subseteq act[l]) =>
           Cardinality(activeTaskIds'[l]) <= maxConcurrent'[l]
  <2> SUFFICES ASSUME ~(activeTaskIds'[l] \subseteq act[l])
               PROVE  Cardinality(activeTaskIds'[l]) <= maxConcurrent'[l]
    OBVIOUS
  <2>1. count # 0
    BY <1>4 DEF started
  <2>2. count = free /\ free # 0
    BY <2>1
  <2>3. count <= maxConcurrent'[l] - Cardinality(act[l])
    BY <1>1, <1>2, <2>2 DEF PumpCount
  <2> HIDE DEF count, free
  <2> QED
    BY <1>1, <1>2, <1>3, <1>9, <2>3
<1>12. l \notin D => queue'[l] = q[l] /\ activeTaskIds'[l] = act[l]
  <2> SUFFICES ASSUME l \notin D PROVE queue'[l] = q[l] /\ activeTaskIds'[l] = act[l]
    OBVIOUS
  <2>1. count = 0
    OBVIOUS
  <2>2. queue'[l] = q[l]
    BY <1>1, <1>4, <2>1, SubSeqFull
  <2>3. started = {}
    BY <2>1 DEF started
  <2> QED
    BY <1>4, <2>2, <2>3
<1> QED
  BY <1>4, <1>10, <1>11, <1>12

-----------------------------------------------------------------------------
(* The waiters of waitForActiveTasks.                                      *)

\* After a notification every waiter left waiting has a captured task that
\* holds a slot.
LEMMA NotifyLeavesNoneForgotten ==
    ASSUME TypeOK, NotifyActiveTaskWaiters
    PROVE  /\ waiter' \in [Waiters -> [status : WaiterStatus,
                                       taskIds : SUBSET Tasks,
                                       budget : BOOLEAN]]
           /\ NoForgottenWaiter'
<1> DEFINE Waiting == [status : WaiterStatus, taskIds : SUBSET Tasks, budget : BOOLEAN]
<1>1. waiter' \in [Waiters -> Waiting]
  <2>1. "drained" \in WaiterStatus
    BY DEF WaiterStatus
  <2>2. waiter \in [Waiters -> Waiting]
    BY DEF TypeOK
  <2>3. \A x \in Waiting : [x EXCEPT !.status = "drained"] \in Waiting
    BY <2>1
  <2> HIDE DEF Waiting
  <2> QED
    BY <2>2, <2>3 DEF NotifyActiveTaskWaiters
<1>2. NoForgottenWaiter'
  <2> SUFFICES ASSUME NEW w \in Waiters, waiter'[w].status = "waiting"
               PROVE  \E l \in Lanes :
                          activeTaskIds'[l] \cap waiter'[w].taskIds # {}
    BY DEF NoForgottenWaiter
  <2>1. waiter[w] \in [status : WaiterStatus, taskIds : SUBSET Tasks,
                       budget : BOOLEAN]
    BY DEF TypeOK
  <2>2. CASE waiter[w].status = "waiting" /\ ~HasPending(waiter[w].taskIds, activeTaskIds')
    <3>1. waiter'[w].status = "drained"
      BY <2>1, <2>2 DEF NotifyActiveTaskWaiters
    <3> QED
      BY <3>1
  <2>3. CASE ~(waiter[w].status = "waiting" /\ ~HasPending(waiter[w].taskIds, activeTaskIds'))
    <3>1. waiter'[w] = waiter[w]
      BY <2>3 DEF NotifyActiveTaskWaiters
    <3>2. HasPending(waiter[w].taskIds, activeTaskIds')
      BY <2>3, <3>1
    <3> QED
      BY <3>1, <3>2 DEF HasPending, TypeOK
  <2> QED
    BY <2>2, <2>3
<1> QED
  BY <1>1, <1>2

\* A step that takes no slot away and does not touch the waiters forgets none.
LEMMA WaitersKept ==
    ASSUME NoForgottenWaiter, waiter' = waiter,
           \A l \in Lanes : activeTaskIds[l] \subseteq activeTaskIds'[l]
    PROVE  NoForgottenWaiter'
<1> SUFFICES ASSUME NEW w \in Waiters, waiter[w].status = "waiting"
             PROVE  \E l \in Lanes : activeTaskIds'[l] \cap waiter[w].taskIds # {}
  BY DEF NoForgottenWaiter
<1>1. PICK l \in Lanes : activeTaskIds[l] \cap waiter[w].taskIds # {}
  BY DEF NoForgottenWaiter
<1> QED
  BY <1>1

-----------------------------------------------------------------------------
(* Each action keeps the inductive invariant.                              *)

\* An action that edits consistent data, pumps the lanes of D and tells the
\* waiters when it took a slot away keeps the invariant; it may only leave a
\* lane unpumped that has no free slot for what waits in it.
LEMMA PumpKeepsIInv ==
    ASSUME IInv, OthersType,
           NEW D \in SUBSET Lanes,
           NEW q \in [Lanes -> Seq(Tasks)],
           NEW act \in [Lanes -> SUBSET Tasks],
           NEW bod \in [Tasks -> Bodies],
           QueueOK(q, bod, promise', laneOf'),
           SlotsOK(act, generation', bod, promise', laneOf', taskGeneration),
           EntriesOK(generation', bod, promise', laneOf', taskGeneration),
           LanesOK(lanes', q, act),
           Drain(D, q, act, generation', bod),
           \A l \in Lanes : act[l] \subseteq activeTaskIds[l],
           \A l \in Lanes \ D :
               q[l] # <<>> => Cardinality(act[l]) >= maxConcurrent'[l],
           \/ waiter' = waiter /\ act = activeTaskIds
           \/ NotifyActiveTaskWaiters
    PROVE  IInv' /\ CapStep
<1> USE DEF OthersType
<1>1. taskGeneration \in [Tasks -> Nat] /\ TypeOK /\ NoForgottenWaiter
  BY DEF IInv, TypeOK
<1>2. PumpedType
  BY <1>1, DrainType DEF PumpedType
<1>3. /\ QueueOK(queue', body', promise', laneOf')
      /\ SlotsOK(activeTaskIds', generation', body', promise', laneOf',
                 taskGeneration')
      /\ EntriesOK(generation', body', promise', laneOf', taskGeneration')
      /\ LanesOK(lanes', queue', activeTaskIds')
  BY <1>1, DrainKeepsData
<1>4. DataInv'
  BY <1>3 DEF DataInv
<1>5. ASSUME NEW l \in Lanes
      PROVE  /\ l \in D /\ queue'[l] # <<>> =>
                    Cardinality(activeTaskIds'[l]) >= maxConcurrent'[l]
             /\ ~(activeTaskIds'[l] \subseteq act[l]) =>
                    Cardinality(activeTaskIds'[l]) <= maxConcurrent'[l]
             /\ l \notin D => queue'[l] = q[l] /\ activeTaskIds'[l] = act[l]
             /\ act[l] \subseteq activeTaskIds'[l]
  <2>1. generation' \in [Lanes -> Nat] /\ maxConcurrent' \in [Lanes -> Nat]
        /\ promise' \in [Tasks -> Promises] /\ laneOf' \in [Tasks -> Lanes]
    OBVIOUS
  <2> HIDE DEF OthersType
  <2> QED
    BY <2>1, DrainFillsLane
<1>6. WorkConserving'
  BY <1>5 DEF WorkConserving
<1>7. CapStep
  BY <1>5 DEF CapStep
<1>8. /\ waiter' \in [Waiters -> [status : WaiterStatus, taskIds : SUBSET Tasks,
                                  budget : BOOLEAN]]
      /\ NoForgottenWaiter'
  <2>1. CASE NotifyActiveTaskWaiters
    BY <1>1, <2>1, NotifyLeavesNoneForgotten
  <2>2. CASE waiter' = waiter /\ act = activeTaskIds
    BY <1>1, <1>5, <2>2, WaitersKept DEF TypeOK
  <2> QED
    BY <2>1, <2>2
<1>9. TypeOK'
  BY <1>2, <1>8 DEF TypeOK, PumpedType, Bodies, Promises
<1> QED
  BY <1>4, <1>6, <1>7, <1>8, <1>9 DEF IInv

LEMMA InitEstablishesIInv == Init => IInv
<1> SUFFICES ASSUME Init PROVE IInv
  OBVIOUS
<1>1. TypeOK
  <2>1. laneOf \in [Tasks -> Lanes]
    BY DEF Init
  <2>2. queue \in [Lanes -> Seq(Tasks)]
    BY DEF Init
  <2>3. waiter \in [Waiters -> [status : WaiterStatus, taskIds : SUBSET Tasks,
                               budget : BOOLEAN]]
    BY DEF Init, WaiterStatus
  <2>4. promise \in [Tasks -> {"none", "pending"} \cup Settled]
    BY DEF Init
  <2> QED
    BY <2>1, <2>2, <2>3, <2>4 DEF Init, TypeOK
<1>2. QueueOK(queue, body, promise, laneOf)
  BY DEF Init, QueueOK, InQueue
<1>3. SlotsOK(activeTaskIds, generation, body, promise, laneOf, taskGeneration)
  BY DEF Init, SlotsOK
<1>4. EntriesOK(generation, body, promise, laneOf, taskGeneration)
  BY <1>1 DEF Init, EntriesOK, TypeOK
<1>5. LanesOK(lanes, queue, activeTaskIds)
  BY DEF Init, LanesOK
<1>6. NoForgottenWaiter /\ WorkConserving
  BY DEF Init, NoForgottenWaiter, WorkConserving
<1> QED
  BY <1>1, <1>2, <1>3, <1>4, <1>5, <1>6 DEF IInv, DataInv

LEMMA EnqueueKeepsIInv ==
    ASSUME IInv, NEW l \in Lanes, NEW t \in Tasks, NEW timed \in BOOLEAN,
           Enqueue(l, t, timed)
    PROVE  IInv' /\ CapStep
<1> DEFINE q == [queue EXCEPT ![l] = Push(@, t)]
<1> USE DEF IInv, DataInv
<1>1. q \in [Lanes -> Seq(Tasks)] /\ OthersType
  <2>1. q \in [Lanes -> Seq(Tasks)]
    BY DEF TypeOK, Push
  <2>2. laneOf' \in [Tasks -> Lanes]
    BY DEF TypeOK, Enqueue
  <2>3. promise' \in [Tasks -> Promises]
    BY DEF TypeOK, Enqueue, Promises
  <2>4. /\ gatewayDraining' \in BOOLEAN /\ lanes' \subseteq Lanes
        /\ maxConcurrent' \in [Lanes -> Nat] /\ generation' \in [Lanes -> Nat]
        /\ hasTimeout' \subseteq Tasks
    BY DEF TypeOK, Enqueue
  <2> QED
    BY <2>1, <2>2, <2>3, <2>4 DEF OthersType
<1>2. body[t] = "not-started" /\ promise[t] = "none"
  BY DEF Enqueue, EntriesOK
<1>3. \A u \in Tasks : /\ laneOf'[u] = IF u = t THEN l ELSE laneOf[u]
                       /\ promise'[u] = IF u = t THEN "pending" ELSE promise[u]
  BY DEF Enqueue, TypeOK
<1>4. QueueOK(q, body, promise', laneOf')
  <2> SUFFICES ASSUME NEW k \in Lanes
               PROVE  /\ \A i, j \in 1..Len(q[k]) : q[k][i] = q[k][j] => i = j
                      /\ \A u \in Tasks :
                             InQueue(q[k], u) <=> /\ laneOf'[u] = k
                                                  /\ body[u] = "not-started"
                                                  /\ promise'[u] = "pending"
    BY DEF QueueOK
  <2>1. queue[k] \in Seq(Tasks) /\ Len(queue[k]) \in Nat
    BY DEF TypeOK
  <2>2. \A i, j \in 1..Len(queue[k]) : queue[k][i] = queue[k][j] => i = j
    BY DEF QueueOK
  <2>3. \A u \in Tasks : InQueue(queue[k], u) <=> /\ laneOf[u] = k
                                                  /\ body[u] = "not-started"
                                                  /\ promise[u] = "pending"
    BY DEF QueueOK
  <2>4. ~InQueue(queue[k], t)
    BY <1>2, <2>3
  <2>5. CASE k # l
    <3>1. q[k] = queue[k]
      BY <2>5 DEF TypeOK
    <3> QED
      BY <1>3, <2>2, <2>3, <2>4, <2>5, <3>1
  <2>6. CASE k = l
    <3>1. q[k] = Append(queue[k], t)
      BY <2>6 DEF TypeOK, Push
    <3>2. Len(q[k]) = Len(queue[k]) + 1
      BY <2>1, <3>1
    <3>3. \A i \in 1..Len(queue[k]) : q[k][i] = queue[k][i]
      BY <2>1, <3>1
    <3>4. q[k][Len(queue[k]) + 1] = t
      BY <2>1, <3>1
    <3>5. \A i, j \in 1..Len(q[k]) : q[k][i] = q[k][j] => i = j
      <4> SUFFICES ASSUME NEW i \in 1..Len(q[k]), NEW j \in 1..Len(q[k]),
                          q[k][i] = q[k][j]
                   PROVE  i = j
        OBVIOUS
      <4>1. \A m \in 1..Len(q[k]) :
                m \in 1..Len(queue[k]) \/ m = Len(queue[k]) + 1
        BY <2>1, <3>2
      <4>2. \A m \in 1..Len(queue[k]) : queue[k][m] # t
        BY <2>4 DEF InQueue
      <4> HIDE DEF q
      <4> QED
        BY <2>2, <3>3, <3>4, <4>1, <4>2
    <3>6. ASSUME NEW u \in Tasks
          PROVE  InQueue(q[k], u) <=> InQueue(queue[k], u) \/ u = t
      <4>1. 1..Len(q[k]) = 1..Len(queue[k]) \cup {Len(queue[k]) + 1}
        BY <2>1, <3>2
      <4> HIDE DEF q
      <4> QED
        BY <3>3, <3>4, <4>1 DEF InQueue
    <3> QED
      BY <1>2, <1>3, <2>3, <2>4, <2>6, <3>5, <3>6
  <2> QED
    BY <2>5, <2>6
<1>5. SlotsOK(activeTaskIds, generation, body, promise', laneOf', taskGeneration)
  <2> SUFFICES ASSUME NEW k \in Lanes, NEW u \in Tasks
               PROVE  u \in activeTaskIds[k] <=> /\ laneOf'[u] = k
                                                /\ body[u] = "running"
                                                /\ promise'[u] = "pending"
                                                /\ taskGeneration[u] = generation[k]
    BY DEF SlotsOK
  <2> QED
    BY <1>2, <1>3 DEF SlotsOK
<1>6. EntriesOK(generation, body, promise', laneOf', taskGeneration)
  <2> SUFFICES ASSUME NEW u \in Tasks
               PROVE  /\ taskGeneration[u] <= generation[laneOf'[u]]
                      /\ body[u] = "not-started" => taskGeneration[u] = 0
                      /\ promise'[u] = "none" => body[u] = "not-started"
    BY DEF EntriesOK
  <2>1. generation[l] \in Nat
    BY DEF TypeOK
  <2> QED
    BY <1>2, <1>3, <2>1 DEF EntriesOK
<1>7. LanesOK(lanes', q, activeTaskIds)
  BY DEF LanesOK, Enqueue, TypeOK
<1>8. /\ Drain({l}, q, activeTaskIds, generation', body)
      /\ generation' = generation
      /\ waiter' = waiter
  BY DEF Enqueue
<1>9. \A k \in Lanes \ {l} :
          q[k] # <<>> => Cardinality(activeTaskIds[k]) >= maxConcurrent'[k]
  BY DEF WorkConserving, Enqueue, TypeOK
<1>10. activeTaskIds \in [Lanes -> SUBSET Tasks] /\ body \in [Tasks -> Bodies]
  BY DEF TypeOK, Bodies
<1> HIDE DEF q, IInv, DataInv
<1> QED
  BY <1>1, <1>4, <1>5, <1>6, <1>7, <1>8, <1>9, <1>10, PumpKeepsIInv

LEMMA SetCommandLaneConcurrencyKeepsIInv ==
    ASSUME IInv, NEW l \in Lanes, NEW n \in 0..MaxConcurrency,
           SetCommandLaneConcurrency(l, n)
    PROVE  IInv' /\ CapStep
<1> DEFINE D == IF maxConcurrent'[l] > 0 THEN {l} ELSE {}
<1>1. TypeOK /\ DataInv /\ WorkConserving
  BY DEF IInv
<1>2. n \in Nat
  BY BoundsAssumption
<1>3. maxConcurrent' \in [Lanes -> Nat]
  BY <1>1, <1>2 DEF TypeOK, SetCommandLaneConcurrency
<1>4. OthersType
  BY <1>1, <1>3 DEF OthersType, TypeOK, SetCommandLaneConcurrency, Promises
<1>5. /\ Drain(D, queue, activeTaskIds, generation', body)
      /\ generation' = generation /\ waiter' = waiter
      /\ promise' = promise /\ laneOf' = laneOf
      /\ \A k \in Lanes \ {l} : maxConcurrent'[k] = maxConcurrent[k]
  BY <1>1 DEF SetCommandLaneConcurrency, TypeOK
<1>6. \A k \in Lanes \ D :
          queue[k] # <<>> => Cardinality(activeTaskIds[k]) >= maxConcurrent'[k]
  <2> SUFFICES ASSUME NEW k \in Lanes \ D, queue[k] # <<>>
               PROVE  Cardinality(activeTaskIds[k]) >= maxConcurrent'[k]
    OBVIOUS
  <2>1. CASE k # l
    BY <1>1, <1>5, <2>1 DEF WorkConserving
  <2>2. CASE k = l
    <3>1. maxConcurrent'[l] = 0
      BY <1>3, <2>2
    <3>2. Cardinality(activeTaskIds[l]) \in Nat
      BY <1>1, PumpCountBounds DEF TypeOK
    <3> QED
      BY <2>2, <3>1, <3>2
  <2> QED
    BY <2>1, <2>2
<1>7. LanesOK(lanes', queue, activeTaskIds)
  BY <1>1 DEF DataInv, LanesOK, SetCommandLaneConcurrency
<1>8. /\ queue \in [Lanes -> Seq(Tasks)]
      /\ activeTaskIds \in [Lanes -> SUBSET Tasks]
      /\ body \in [Tasks -> Bodies]
      /\ D \in SUBSET Lanes
  BY <1>1 DEF TypeOK, Bodies
<1>9. /\ QueueOK(queue, body, promise', laneOf')
      /\ SlotsOK(activeTaskIds, generation', body, promise', laneOf', taskGeneration)
      /\ EntriesOK(generation', body, promise', laneOf', taskGeneration)
  BY <1>1, <1>5 DEF DataInv
<1> HIDE DEF D
<1> QED
  BY <1>4, <1>5, <1>6, <1>7, <1>8, <1>9, PumpKeepsIInv

LEMMA ResetLanesKeepsIInv ==
    ASSUME IInv, NEW D \in SUBSET Lanes, D \subseteq lanes, ResetLanes(D),
           gatewayDraining' \in BOOLEAN
    PROVE  IInv' /\ CapStep
<1> DEFINE act == [l \in Lanes |-> IF l \in D THEN {} ELSE activeTaskIds[l]]
<1>1. TypeOK /\ DataInv /\ WorkConserving
  BY DEF IInv
<1>2. /\ generation' = [l \in Lanes |-> IF l \in D THEN generation[l] + 1
                                                  ELSE generation[l]]
      /\ Drain(D, queue, act, generation', body)
      /\ NotifyActiveTaskWaiters
      /\ UNCHANGED <<lanes, maxConcurrent, laneOf, hasTimeout, promise>>
  BY DEF ResetLanes, NextGeneration
<1>3. OthersType
  BY <1>1, <1>2 DEF OthersType, TypeOK, Promises
<1>4. /\ act \in [Lanes -> SUBSET Tasks]
      /\ \A l \in Lanes : act[l] \subseteq activeTaskIds[l]
  BY <1>1 DEF TypeOK
<1>5. QueueOK(queue, body, promise', laneOf')
  BY <1>1, <1>2 DEF DataInv
<1>6. SlotsOK(act, generation', body, promise', laneOf', taskGeneration)
  <2> SUFFICES ASSUME NEW l \in Lanes, NEW t \in Tasks
               PROVE  t \in act[l] <=> /\ laneOf[t] = l
                                      /\ body[t] = "running"
                                      /\ promise[t] = "pending"
                                      /\ taskGeneration[t] = generation'[l]
    BY <1>2 DEF SlotsOK
  <2>1. t \in activeTaskIds[l] <=> /\ laneOf[t] = l
                                  /\ body[t] = "running"
                                  /\ promise[t] = "pending"
                                  /\ taskGeneration[t] = generation[l]
    BY <1>1 DEF DataInv, SlotsOK
  <2>2. CASE l \notin D
    BY <1>2, <2>1, <2>2
  <2>3. CASE l \in D
    <3>1. laneOf[t] = l => taskGeneration[t] <= generation[l]
      BY <1>1 DEF DataInv, EntriesOK
    <3>2. taskGeneration[t] \in Nat /\ generation[l] \in Nat
      BY <1>1 DEF TypeOK
    <3> QED
      BY <1>2, <2>3, <3>1, <3>2
  <2> QED
    BY <2>2, <2>3
<1>7. EntriesOK(generation', body, promise', laneOf', taskGeneration)
  <2> SUFFICES ASSUME NEW t \in Tasks
               PROVE  /\ taskGeneration[t] <= generation'[laneOf[t]]
                      /\ body[t] = "not-started" => taskGeneration[t] = 0
                      /\ promise[t] = "none" => body[t] = "not-started"
    BY <1>2 DEF EntriesOK
  <2>1. taskGeneration[t] <= generation[laneOf[t]]
    BY <1>1 DEF DataInv, EntriesOK
  <2>2. laneOf[t] \in Lanes /\ taskGeneration[t] \in Nat
        /\ generation[laneOf[t]] \in Nat
    BY <1>1 DEF TypeOK
  <2>3. generation'[laneOf[t]] \in {generation[laneOf[t]], generation[laneOf[t]] + 1}
    BY <1>2, <2>2
  <2>4. taskGeneration[t] <= generation'[laneOf[t]]
    BY <2>1, <2>2, <2>3
  <2> QED
    BY <1>1, <2>4 DEF DataInv, EntriesOK
<1>8. LanesOK(lanes', queue, act)
  BY <1>1, <1>2 DEF DataInv, LanesOK
<1>9. \A l \in Lanes \ D :
          queue[l] # <<>> => Cardinality(act[l]) >= maxConcurrent'[l]
  BY <1>1, <1>2 DEF WorkConserving
<1>10. queue \in [Lanes -> Seq(Tasks)] /\ body \in [Tasks -> Bodies]
  BY <1>1 DEF TypeOK, Bodies
<1> HIDE DEF act
<1> QED
  BY <1>2, <1>3, <1>4, <1>5, <1>6, <1>7, <1>8, <1>9, <1>10, PumpKeepsIInv

\* A step that changes no lane, slot, generation or body, and settles or
\* refuses only promises nobody waits in a queue or a slot for.
LEMMA QuietStepKeepsIInv ==
    ASSUME IInv, OthersType,
           UNCHANGED <<lanes, queue, activeTaskIds, maxConcurrent, generation,
                       laneOf, taskGeneration, body, waiter>>,
           \A t \in Tasks : \/ promise'[t] = promise[t]
                            \/ promise[t] = "none" /\ promise'[t] \in Settled
    PROVE  IInv' /\ CapStep
<1>1. TypeOK /\ DataInv /\ WorkConserving /\ NoForgottenWaiter
  BY DEF IInv
<1>2. TypeOK'
  BY <1>1 DEF TypeOK, OthersType, Promises
<1>3. \A t \in Tasks : /\ promise'[t] = "pending" <=> promise[t] = "pending"
                       /\ promise'[t] = "none" => promise[t] = "none"
  BY DEF Settled
<1>4. QueueOK(queue, body, promise', laneOf)
  BY <1>1, <1>3 DEF DataInv, QueueOK
<1>5. SlotsOK(activeTaskIds, generation, body, promise', laneOf, taskGeneration)
  BY <1>1, <1>3 DEF DataInv, SlotsOK
<1>6. EntriesOK(generation, body, promise', laneOf, taskGeneration)
  BY <1>1, <1>3 DEF DataInv, EntriesOK
<1>7. DataInv'
  BY <1>1, <1>4, <1>5, <1>6 DEF DataInv
<1>8. WorkConserving' /\ NoForgottenWaiter'
  BY <1>1 DEF WorkConserving, NoForgottenWaiter
<1> QED
  BY <1>2, <1>7, <1>8 DEF IInv, CapStep

LEMMA ClearCommandLaneKeepsIInv ==
    ASSUME IInv, NEW l \in Lanes, ClearCommandLane(l)
    PROVE  IInv' /\ CapStep
<1>1. TypeOK /\ DataInv /\ WorkConserving /\ NoForgottenWaiter
  BY DEF IInv
<1>2. /\ queue' = [queue EXCEPT ![l] = <<>>]
      /\ promise' = [t \in Tasks |->
             IF InQueue(queue[l], t) THEN "lane-cleared" ELSE promise[t]]
      /\ UNCHANGED <<gatewayDraining, lanes, activeTaskIds, maxConcurrent,
                     generation, laneOf, hasTimeout, taskGeneration, body, waiter>>
  BY DEF ClearCommandLane, InQueue
<1>3. \A t \in Tasks : InQueue(queue[l], t) <=> /\ laneOf[t] = l
                                                /\ body[t] = "not-started"
                                                /\ promise[t] = "pending"
  BY <1>1 DEF DataInv, QueueOK
<1>4. TypeOK'
  <2>1. queue' \in [Lanes -> Seq(Tasks)]
    BY <1>1, <1>2 DEF TypeOK
  <2>2. promise' \in [Tasks -> {"none", "pending"} \cup Settled]
    BY <1>1, <1>2 DEF TypeOK, Settled
  <2> QED
    BY <1>1, <1>2, <2>1, <2>2 DEF TypeOK
<1>5. QueueOK(queue', body', promise', laneOf')
  <2> SUFFICES ASSUME NEW k \in Lanes
               PROVE  /\ \A i, j \in 1..Len(queue'[k]) :
                             queue'[k][i] = queue'[k][j] => i = j
                      /\ \A t \in Tasks :
                             InQueue(queue'[k], t) <=> /\ laneOf[t] = k
                                                       /\ body[t] = "not-started"
                                                       /\ promise'[t] = "pending"
    BY <1>2 DEF QueueOK
  <2>1. CASE k = l
    <3>1. queue'[k] = <<>> /\ \A t \in Tasks : ~InQueue(<<>>, t)
      BY <1>1, <1>2, <2>1 DEF TypeOK, InQueue
    <3> QED
      BY <1>2, <1>3, <2>1, <3>1
  <2>2. CASE k # l
    <3>1. queue'[k] = queue[k]
      BY <1>1, <1>2, <2>2 DEF TypeOK
    <3>2. \A t \in Tasks : laneOf[t] = k => promise'[t] = promise[t]
      BY <1>2, <1>3, <2>2
    <3>3. \A t \in Tasks : promise'[t] = "pending" => promise[t] = "pending"
      BY <1>2
    <3> QED
      BY <1>1, <3>1, <3>2 DEF DataInv, QueueOK
  <2> QED
    BY <2>1, <2>2
<1>6. SlotsOK(activeTaskIds', generation', body', promise', laneOf', taskGeneration')
  <2>1. \A t \in Tasks : body[t] = "running" => promise'[t] = promise[t]
    BY <1>2, <1>3
  <2> QED
    BY <1>1, <1>2, <2>1 DEF DataInv, SlotsOK
<1>7. EntriesOK(generation', body', promise', laneOf', taskGeneration')
  <2>1. \A t \in Tasks : promise'[t] = "none" => promise[t] = "none"
    BY <1>2
  <2> QED
    BY <1>1, <1>2, <2>1 DEF DataInv, EntriesOK
<1>8. LanesOK(lanes', queue', activeTaskIds')
  BY <1>1, <1>2 DEF DataInv, LanesOK, TypeOK
<1>9. WorkConserving' /\ NoForgottenWaiter'
  BY <1>1, <1>2 DEF WorkConserving, NoForgottenWaiter, TypeOK
<1> QED
  BY <1>2, <1>4, <1>5, <1>6, <1>7, <1>8, <1>9 DEF IInv, DataInv, CapStep

\* Covers a task function that settles and a lane timeout.
LEMMA CompleteTaskKeepsIInv ==
    ASSUME IInv, NEW t \in Tasks, NEW verdict \in Settled,
           NEW bod \in [Tasks -> Bodies],
           bod[t] # "not-started",
           \A u \in Tasks \ {t} : bod[u] = body[u],
           body[t] = "running", promise[t] = "pending",
           CompleteTask(t, verdict, bod)
    PROVE  IInv' /\ CapStep
<1> DEFINE l == laneOf[t]
           act == [activeTaskIds EXCEPT ![l] = @ \ {t}]
<1>1. TypeOK /\ DataInv /\ WorkConserving /\ NoForgottenWaiter
  BY DEF IInv
<1>2. /\ promise' = [promise EXCEPT ![t] = verdict]
      /\ UNCHANGED <<gatewayDraining, lanes, maxConcurrent, generation, laneOf,
                     hasTimeout>>
  BY DEF CompleteTask
<1>3. OthersType /\ l \in Lanes
  BY <1>1, <1>2 DEF OthersType, TypeOK, Promises
<1>4. /\ promise'[t] # "pending" /\ promise'[t] # "none"
      /\ \A u \in Tasks \ {t} : promise'[u] = promise[u]
  BY <1>1, <1>2 DEF TypeOK, Settled
<1>5. QueueOK(queue, bod, promise', laneOf')
  BY <1>1, <1>2, <1>4 DEF DataInv, QueueOK
<1>6. EntriesOK(generation', bod, promise', laneOf', taskGeneration)
  BY <1>1, <1>2, <1>4 DEF DataInv, EntriesOK
<1>7. CASE taskGeneration[t] = generation[l]
  <2>1. /\ Drain({l}, queue, act, generation', bod)
        /\ NotifyActiveTaskWaiters
    BY <1>2, <1>7 DEF CompleteTask, FreesSlot
  <2>2. /\ act \in [Lanes -> SUBSET Tasks]
        /\ \A k \in Lanes : act[k] \subseteq activeTaskIds[k]
        /\ \A k \in Lanes \ {l} : act[k] = activeTaskIds[k]
        /\ act[l] = activeTaskIds[l] \ {t}
    BY <1>1, <1>3 DEF TypeOK
  <2> HIDE DEF act, l
  <2>3. SlotsOK(act, generation', bod, promise', laneOf', taskGeneration)
    <3> SUFFICES ASSUME NEW k \in Lanes, NEW u \in Tasks
                 PROVE  u \in act[k] <=> /\ laneOf[u] = k
                                        /\ bod[u] = "running"
                                        /\ promise'[u] = "pending"
                                        /\ taskGeneration[u] = generation[k]
      BY <1>2 DEF SlotsOK
    <3>1. u \in activeTaskIds[k] <=> /\ laneOf[u] = k
                                    /\ body[u] = "running"
                                    /\ promise[u] = "pending"
                                    /\ taskGeneration[u] = generation[k]
      BY <1>1 DEF DataInv, SlotsOK
    <3>2. CASE u # t
      BY <1>4, <2>2, <3>1, <3>2
    <3>3. CASE u = t
      <4>1. u \notin act[k]
        BY <2>2, <3>1, <3>3 DEF l
      <4> QED
        BY <1>4, <3>3, <4>1
    <3> QED
      BY <3>2, <3>3
  <2>4. LanesOK(lanes', queue, act)
    BY <1>1, <1>2, <2>2 DEF DataInv, LanesOK
  <2>5. \A k \in Lanes \ {l} :
            queue[k] # <<>> => Cardinality(act[k]) >= maxConcurrent'[k]
    BY <1>1, <1>2, <2>2 DEF WorkConserving
  <2>6. queue \in [Lanes -> Seq(Tasks)] /\ {l} \in SUBSET Lanes
    BY <1>1, <1>3 DEF TypeOK
  <2> QED
    BY <1>3, <1>5, <1>6, <2>1, <2>2, <2>3, <2>4, <2>5, <2>6, PumpKeepsIInv
<1>8. CASE taskGeneration[t] # generation[l]
  <2>1. body' = bod /\ UNCHANGED <<queue, activeTaskIds, taskGeneration, waiter>>
    BY <1>8 DEF CompleteTask, FreesSlot
  <2>2. TypeOK'
    BY <1>1, <1>3, <2>1 DEF TypeOK, OthersType, Bodies, Promises
  <2>3. SlotsOK(activeTaskIds', generation', body', promise', laneOf', taskGeneration')
    BY <1>1, <1>2, <1>4, <1>8, <2>1 DEF DataInv, SlotsOK
  <2>4. DataInv'
    BY <1>1, <1>2, <1>5, <1>6, <2>1, <2>3 DEF DataInv
  <2>5. WorkConserving' /\ NoForgottenWaiter'
    BY <1>1, <1>2, <2>1 DEF WorkConserving, NoForgottenWaiter
  <2> QED
    BY <2>1, <2>2, <2>4, <2>5 DEF IInv, CapStep
<1> QED
  BY <1>7, <1>8

LEMMA LateTaskSettlesKeepsIInv ==
    ASSUME IInv, NEW t \in Tasks, LateTaskSettles(t)
    PROVE  IInv' /\ CapStep
<1>1. TypeOK /\ DataInv /\ WorkConserving /\ NoForgottenWaiter
  BY DEF IInv
<1>2. /\ body[t] = "running" /\ promise[t] = "timed-out"
      /\ body' = [body EXCEPT ![t] = "ended"]
      /\ UNCHANGED <<gatewayDraining, lanes, queue, activeTaskIds, maxConcurrent,
                     generation, laneOf, hasTimeout, taskGeneration, promise,
                     waiter>>
  BY DEF LateTaskSettles
<1>3. body'[t] = "ended" /\ \A u \in Tasks \ {t} : body'[u] = body[u]
  BY <1>1, <1>2 DEF TypeOK
<1>4. TypeOK'
  BY <1>1, <1>2 DEF TypeOK
<1>5. QueueOK(queue', body', promise', laneOf')
  BY <1>1, <1>2, <1>3 DEF DataInv, QueueOK
<1>6. SlotsOK(activeTaskIds', generation', body', promise', laneOf', taskGeneration')
  BY <1>1, <1>2, <1>3 DEF DataInv, SlotsOK
<1>7. EntriesOK(generation', body', promise', laneOf', taskGeneration')
  BY <1>1, <1>2, <1>3 DEF DataInv, EntriesOK
<1>8. DataInv' /\ WorkConserving' /\ NoForgottenWaiter'
  BY <1>1, <1>2, <1>5, <1>6, <1>7
     DEF DataInv, LanesOK, WorkConserving, NoForgottenWaiter
<1> QED
  BY <1>2, <1>4, <1>8 DEF IInv, CapStep

\* Covers the three ways a waiter changes outside a notification.
LEMMA WaiterStepKeepsIInv ==
    ASSUME IInv, NEW w \in Waiters,
           \/ \E ms \in {"none", "zero", "positive"} : WaitForActiveTasks(w, ms)
           \/ WaiterTimesOut(w)
    PROVE  IInv' /\ CapStep
<1>1. TypeOK /\ DataInv /\ WorkConserving /\ NoForgottenWaiter
  BY DEF IInv
<1>2. UNCHANGED <<gatewayDraining, lanes, queue, activeTaskIds, maxConcurrent,
                  generation, laneOf, hasTimeout, taskGeneration, body, promise>>
  BY DEF WaitForActiveTasks, WaiterTimesOut
<1>3. /\ waiter' \in [Waiters -> [status : WaiterStatus, taskIds : SUBSET Tasks,
                                  budget : BOOLEAN]]
      /\ NoForgottenWaiter'
  <2>1. CASE WaiterTimesOut(w)
    <3>1. waiter' = [waiter EXCEPT ![w].status = "gave-up"]
      BY <2>1 DEF WaiterTimesOut
    <3> QED
      BY <1>1, <1>2, <3>1 DEF TypeOK, NoForgottenWaiter, WaiterStatus
  <2>2. ASSUME NEW ms \in {"none", "zero", "positive"}, WaitForActiveTasks(w, ms)
        PROVE  /\ waiter' \in [Waiters -> [status : WaiterStatus,
                                           taskIds : SUBSET Tasks,
                                           budget : BOOLEAN]]
               /\ NoForgottenWaiter'
    <3> DEFINE start == UNION {activeTaskIds[l] : l \in lanes}
               status == IF start = {} THEN "drained"
                         ELSE IF ms = "zero" THEN "gave-up" ELSE "waiting"
    <3>1. waiter' = [waiter EXCEPT ![w] = [taskIds |-> start,
                                           budget |-> ms = "positive",
                                           status |-> status]]
      BY <2>2 DEF WaitForActiveTasks
    <3>2. start \subseteq Tasks /\ status \in WaiterStatus
      BY <1>1 DEF TypeOK, WaiterStatus
    <3>3. status = "waiting" =>
              \E l \in Lanes : activeTaskIds[l] \cap start # {}
      <4> SUFFICES ASSUME start # {}
                   PROVE  \E l \in Lanes : activeTaskIds[l] \cap start # {}
        OBVIOUS
      <4>1. PICK l \in lanes : activeTaskIds[l] # {}
        OBVIOUS
      <4> QED
        BY <1>1, <4>1 DEF TypeOK
    <3> HIDE DEF start, status
    <3>4. waiter' \in [Waiters -> [status : WaiterStatus, taskIds : SUBSET Tasks,
                                  budget : BOOLEAN]]
      BY <1>1, <3>1, <3>2 DEF TypeOK
    <3>5. NoForgottenWaiter'
      BY <1>1, <1>2, <3>1, <3>3 DEF TypeOK, NoForgottenWaiter
    <3> QED
      BY <3>4, <3>5
  <2> QED
    BY <2>1, <2>2
<1>4. TypeOK' /\ DataInv' /\ WorkConserving'
  BY <1>1, <1>2, <1>3 DEF TypeOK, DataInv, WorkConserving
<1> QED
  BY <1>2, <1>3, <1>4 DEF IInv, CapStep

-----------------------------------------------------------------------------
(* The theorems.                                                           *)

\* Every step keeps the inductive invariant and starts entries within the cap.
LEMMA NextKeepsIInv == IInv /\ [Next]_vars => IInv' /\ (CapStep \/ UNCHANGED vars)
<1> SUFFICES ASSUME IInv, [Next]_vars
             PROVE  IInv' /\ (CapStep \/ UNCHANGED vars)
  OBVIOUS
<1>0. TypeOK
  BY DEF IInv
<1>1. ASSUME NEW l \in Lanes, NEW t \in Tasks, NEW timed \in BOOLEAN,
             Enqueue(l, t, timed)
      PROVE  IInv' /\ CapStep
  BY <1>1, EnqueueKeepsIInv
<1>2. ASSUME NEW t \in Tasks, EnqueueRefused(t)
      PROVE  IInv' /\ CapStep
  <2>1. /\ promise[t] = "none"
        /\ promise' = [promise EXCEPT ![t] = "gateway-draining"]
        /\ UNCHANGED <<gatewayDraining, lanes, queue, activeTaskIds,
                       maxConcurrent, generation, laneOf, hasTimeout,
                       taskGeneration, body, waiter>>
    BY <1>2 DEF EnqueueRefused
  <2>2. OthersType
    BY <1>0, <2>1 DEF TypeOK, OthersType, Promises, Settled
  <2>3. \A u \in Tasks : \/ promise'[u] = promise[u]
                         \/ promise[u] = "none" /\ promise'[u] \in Settled
    BY <1>0, <2>1 DEF TypeOK, Settled
  <2> QED
    BY <2>1, <2>2, <2>3, QuietStepKeepsIInv
<1>3. ASSUME NEW l \in Lanes, NEW n \in 0..MaxConcurrency,
             SetCommandLaneConcurrency(l, n)
      PROVE  IInv' /\ CapStep
  BY <1>3, SetCommandLaneConcurrencyKeepsIInv
<1>4. ASSUME NEW l \in Lanes, ClearCommandLane(l)
      PROVE  IInv' /\ CapStep
  BY <1>4, ClearCommandLaneKeepsIInv
<1>5. ASSUME NEW l \in Lanes, ResetCommandLane(l)
      PROVE  IInv' /\ CapStep
  <2>1. ResetLanes({l}) /\ {l} \subseteq lanes /\ {l} \in SUBSET Lanes
        /\ gatewayDraining' \in BOOLEAN
    BY <1>0, <1>5 DEF ResetCommandLane, TypeOK
  <2> QED
    BY <2>1, ResetLanesKeepsIInv
<1>6. ASSUME ResetAllLanes
      PROVE  IInv' /\ CapStep
  <2>1. ResetLanes(lanes) /\ lanes \in SUBSET Lanes /\ gatewayDraining' \in BOOLEAN
    BY <1>0, <1>6 DEF ResetAllLanes, TypeOK
  <2> QED
    BY <2>1, ResetLanesKeepsIInv
<1>7. ASSUME MarkGatewayDraining
      PROVE  IInv' /\ CapStep
  <2>1. /\ gatewayDraining' = TRUE
        /\ UNCHANGED <<lanes, queue, activeTaskIds, maxConcurrent, generation,
                       laneOf, hasTimeout, taskGeneration, body, promise, waiter>>
    BY <1>7 DEF MarkGatewayDraining
  <2>2. OthersType
    BY <1>0, <2>1 DEF TypeOK, OthersType, Promises
  <2> QED
    BY <2>1, <2>2, QuietStepKeepsIInv
<1>8. ASSUME NEW t \in Tasks, NEW verdict \in {"fulfilled", "rejected"},
             TaskSettles(t, verdict)
      PROVE  IInv' /\ CapStep
  <2> DEFINE bod == [body EXCEPT ![t] = "ended"]
  <2>1. /\ bod \in [Tasks -> Bodies] /\ bod[t] # "not-started"
        /\ \A u \in Tasks \ {t} : bod[u] = body[u]
        /\ verdict \in Settled
    BY <1>0 DEF TypeOK, Bodies, Settled
  <2>2. body[t] = "running" /\ promise[t] = "pending" /\ CompleteTask(t, verdict, bod)
    BY <1>8 DEF TaskSettles
  <2> HIDE DEF bod
  <2> QED
    BY <2>1, <2>2, CompleteTaskKeepsIInv
<1>9. ASSUME NEW t \in Tasks, TaskTimesOut(t)
      PROVE  IInv' /\ CapStep
  <2>1. body \in [Tasks -> Bodies] /\ "timed-out" \in Settled
    BY <1>0 DEF TypeOK, Bodies, Settled
  <2>2. body[t] = "running" /\ promise[t] = "pending"
        /\ CompleteTask(t, "timed-out", body)
    BY <1>9 DEF TaskTimesOut
  <2> QED
    BY <2>1, <2>2, CompleteTaskKeepsIInv
<1>10. ASSUME NEW t \in Tasks, LateTaskSettles(t)
       PROVE  IInv' /\ CapStep
  BY <1>10, LateTaskSettlesKeepsIInv
<1>11. ASSUME NEW w \in Waiters,
              \/ \E ms \in {"none", "zero", "positive"} : WaitForActiveTasks(w, ms)
              \/ WaiterTimesOut(w)
       PROVE  IInv' /\ CapStep
  BY <1>11, WaiterStepKeepsIInv
<1>12. CASE UNCHANGED vars
  BY <1>12 DEF vars, IInv, TypeOK, DataInv, WorkConserving, NoForgottenWaiter
<1> QED
  BY <1>1, <1>2, <1>3, <1>4, <1>5, <1>6, <1>7, <1>8, <1>9, <1>10, <1>11, <1>12
     DEF Next

\* The inductive invariant holds in every reachable state.
THEOREM InductiveInvariant == Spec => []IInv
<1>1. Init => IInv
  BY InitEstablishesIInv
<1>2. IInv /\ [Next]_vars => IInv'
  BY NextKeepsIInv
<1> QED
  BY <1>1, <1>2, PTL DEF Spec

\* The variables keep their types under every function of command-queue.ts.
THEOREM TypeCorrect == Spec => []TypeOK
<1>1. IInv => TypeOK
  BY DEF IInv
<1> QED
  BY <1>1, InductiveInvariant, PTL

\* drainLane leaves no entry waiting next to a free slot.
THEOREM NoLostWakeup == Spec => []WorkConserving
<1>1. IInv => WorkConserving
  BY DEF IInv
<1> QED
  BY <1>1, InductiveInvariant, PTL

\* completeTask and the lane resets neither leak a slot nor free one twice.
THEOREM NoSlotLeak == Spec => []SlotsMatchRunningEntries
<1>1. IInv => SlotsMatchRunningEntries
  BY DEF IInv, DataInv, SlotsOK, SlotsMatchRunningEntries
<1> QED
  BY <1>1, InductiveInvariant, PTL

\* No entry is stranded or duplicated by the pump, a clear or a reset.
THEOREM NoStrandedEntry == Spec => []EntryWaitsOnceOrNever
<1>1. IInv => EntryWaitsOnceOrNever
  <2> SUFFICES ASSUME IInv, NEW l \in Lanes
               PROVE  Queued(l) = {t \in Tasks : /\ laneOf[t] = l
                                                /\ body[t] = "not-started"
                                                /\ promise[t] = "pending"}
    BY DEF IInv, DataInv, QueueOK, EntryWaitsOnceOrNever
  <2>1. queue[l] \in Seq(Tasks)
    BY DEF IInv, TypeOK
  <2>2. \A t : t \in Queued(l) <=> t \in Tasks /\ InQueue(queue[l], t)
    BY <2>1 DEF Queued, InQueue
  <2> QED
    BY <2>2 DEF IInv, DataInv, QueueOK
<1> QED
  BY <1>1, InductiveInvariant, PTL

\* notifyActiveTaskWaiters is called wherever a captured task can disappear.
THEOREM NoWaiterForgotten == Spec => []NoForgottenWaiter
<1>1. IInv => NoForgottenWaiter
  BY DEF IInv
<1> QED
  BY <1>1, InductiveInvariant, PTL

\* The pump loop starts entries only up to the cap in force.
THEOREM CapRespected == Spec => StartsWithinCap
<1>1. IInv /\ [Next]_vars => [CapStep]_vars
  BY NextKeepsIInv
<1>2. Spec => [][CapStep]_vars
  BY <1>1, InductiveInvariant, PTL DEF Spec
<1> QED
  BY <1>2 DEF StartsWithinCap, CapStep

-----------------------------------------------------------------------------
(* Lanes are FIFO.                                                         *)

\* What EntriesLeaveInOrder says of lane l and one step: the first n entries
\* leave.
FirstLeave(l, n) ==
    LET kept == SubSeq(queue[l], n + 1, Len(queue[l]))
    IN  /\ Len(kept) <= Len(queue'[l])
        /\ SubSeq(queue'[l], 1, Len(kept)) = kept
        /\ \A i \in 1..n : \/ body'[queue[l][i]] = "running"
                          \/ promise'[queue[l][i]] = "lane-cleared"
FifoStep == \A l \in Lanes : \E n \in 0..Len(queue[l]) : FirstLeave(l, n)

\* The pump loop shifts the first entries of a queue, and starts them.
LEMMA DrainShifts ==
    ASSUME NEW D \in SUBSET Lanes,
           NEW q \in [Lanes -> Seq(Tasks)],
           NEW act \in [Lanes -> SUBSET Tasks],
           NEW gen, NEW bod,
           maxConcurrent' \in [Lanes -> Nat],
           Drain(D, q, act, gen, bod),
           NEW l \in Lanes
    PROVE  \E n \in 0..Len(q[l]) :
               /\ queue'[l] = SubSeq(q[l], n + 1, Len(q[l]))
               /\ \A i \in 1..n : body'[q[l][i]] = "running"
<1> DEFINE count(m) == IF m \in D THEN PumpCount(q[m], act[m], maxConcurrent'[m]) ELSE 0
           started(m) == {q[m][i] : i \in 1..count(m)}
           starts(t) == \E m \in D : t \in started(m)
<1>1. q[l] \in Seq(Tasks) /\ Len(q[l]) \in Nat
  OBVIOUS
<1>2. PumpCount(q[l], act[l], maxConcurrent'[l]) \in 0..Len(q[l])
  BY <1>1, PumpCountBounds
<1>3. count(l) \in 0..Len(q[l]) /\ (l \notin D => count(l) = 0)
  BY <1>1, <1>2
<1>4. /\ queue' = [m \in Lanes |-> SubSeq(q[m], count(m) + 1, Len(q[m]))]
      /\ body' = [t \in Tasks |-> IF starts(t) THEN "running" ELSE bod[t]]
  BY DEF Drain
<1> HIDE DEF count
<1>5. ASSUME NEW i \in 1..count(l) PROVE body'[q[l][i]] = "running"
  <2>1. i \in 1..Len(q[l]) /\ l \in D
    BY <1>1, <1>3
  <2>2. q[l][i] \in Tasks /\ starts(q[l][i])
    BY <1>1, <2>1
  <2> HIDE DEF starts
  <2> QED
    BY <1>4, <2>2
<1>6. queue'[l] = SubSeq(q[l], count(l) + 1, Len(q[l]))
  BY <1>4
<1> QED
  BY <1>3, <1>5, <1>6

\* Of s, which is the queue of lane l with at most one entry more behind it, the
\* first n entries start or are rejected, and the rest is its queue afterwards.
ShiftsOff(l, s, n) ==
    /\ s \in Seq(Tasks) /\ (s = queue[l] \/ \E t \in Tasks : s = Append(queue[l], t))
    /\ n \in 0..Len(s) /\ queue'[l] = SubSeq(s, n + 1, Len(s))
    /\ \A i \in 1..n : body'[s[i]] = "running" \/ promise'[s[i]] = "lane-cleared"

LEMMA PumpIsFifo ==
    ASSUME queue \in [Lanes -> Seq(Tasks)], NEW l \in Lanes, NEW s, NEW n, ShiftsOff(l, s, n)
    PROVE  \E m \in 0..Len(queue[l]) : FirstLeave(l, m)
<1>0. /\ s \in Seq(Tasks) /\ (s = queue[l] \/ \E t \in Tasks : s = Append(queue[l], t))
      /\ n \in 0..Len(s) /\ queue'[l] = SubSeq(s, n + 1, Len(s))
      /\ \A i \in 1..n : body'[s[i]] = "running" \/ promise'[s[i]] = "lane-cleared"
  BY DEF ShiftsOff
<1> DEFINE u == queue[l]
           m == IF n <= Len(u) THEN n ELSE Len(u)
           kept == SubSeq(u, m + 1, Len(u))
           left == SubSeq(s, n + 1, Len(s))
           pre == SubSeq(left, 1, Len(kept))
<1>1. u \in Seq(Tasks) /\ Len(u) \in Nat /\ Len(s) \in Nat
  BY <1>0, LenProperties
<1>2. /\ Len(s) = Len(u) \/ Len(s) = Len(u) + 1
      /\ \A i \in 1..Len(u) : s[i] = u[i]
  <2>1. s = u \/ \E t \in Tasks : s = Append(u, t)
    BY <1>0
  <2> HIDE DEF u
  <2>2. CASE s = u
    BY <2>2
  <2>3. ASSUME NEW t \in Tasks, s = Append(u, t)
        PROVE  Len(s) = Len(u) + 1 /\ \A i \in 1..Len(u) : s[i] = u[i]
    BY <1>1, <2>3, AppendProperties
  <2> QED
    BY <2>1, <2>2, <2>3
<1> HIDE DEF u
<1>3. m \in 0..Len(u) /\ m <= n /\ (m = n \/ m = Len(u))
  BY <1>0, <1>1, <1>2
<1> HIDE DEF m
<1>4. /\ kept \in Seq(Tasks) /\ Len(kept) = Len(u) - m
      /\ \A i \in 1..Len(kept) : kept[i] = u[i + m] /\ i + m \in 1..Len(u)
  BY <1>1, <1>3, Shifted
<1>5. /\ left \in Seq(Tasks) /\ Len(left) = Len(s) - n
      /\ \A i \in 1..Len(left) : left[i] = s[i + n] /\ i + n \in 1..Len(s)
  BY <1>0, <1>1, Shifted
<1> HIDE DEF kept, left
<1>6. Len(kept) \in 0..Len(left)
  BY <1>0, <1>1, <1>2, <1>3, <1>4, <1>5
<1>7. /\ pre \in Seq(Tasks) /\ Len(pre) = Len(kept)
      /\ \A i \in 1..Len(kept) : pre[i] = left[i]
  <2>1. Len(left) \in Nat /\ \A i \in 1..Len(kept) : left[i] \in Tasks
    BY <1>5, <1>6, LenProperties, ElementOfSeq
  <2>2. /\ pre \in Seq(Tasks)
        /\ Len(pre) = IF 1 <= Len(kept) THEN Len(kept) - 1 + 1 ELSE 0
        /\ \A i \in 1..(Len(kept) - 1 + 1) : pre[i] = left[1 + i - 1]
    BY <1>6, <2>1, SubSeqProperties
  <2> HIDE DEF pre
  <2> QED
    BY <1>6, <2>1, <2>2
<1> HIDE DEF pre
<1>8. pre = kept
  <2> SUFFICES ASSUME NEW i \in 1..Len(kept) PROVE pre[i] = kept[i]
    BY <1>4, <1>7, SeqEqual
  <2>1. m = n /\ i + m \in 1..Len(u) /\ i \in 1..Len(left)
    BY <1>1, <1>3, <1>4, <1>6
  <2>2. pre[i] = s[i + n] /\ kept[i] = u[i + n]
    BY <1>4, <1>5, <1>7, <2>1
  <2> QED
    BY <1>2, <2>1, <2>2
<1>9. \A i \in 1..m : \/ body'[u[i]] = "running"
                      \/ promise'[u[i]] = "lane-cleared"
  <2> TAKE i \in 1..m
  <2>1. i \in 1..n /\ i \in 1..Len(u)
    BY <1>0, <1>1, <1>3
  <2>2. s[i] = u[i]
    BY <1>2, <2>1
  <2> QED
    BY <1>0, <2>1, <2>2
<1>10. FirstLeave(l, m)
  <2>1. queue'[l] = left
    BY <1>0 DEF left
  <2>2. Len(kept) <= Len(queue'[l])
    BY <1>4, <1>5, <1>6, <2>1
  <2>3. SubSeq(queue'[l], 1, Len(kept)) = kept
    BY <1>8, <2>1 DEF pre
  <2> QED
    BY <1>9, <2>2, <2>3 DEF FirstLeave, kept, u
<1> QED
  BY <1>3, <1>10 DEF u

LEMMA DrainIsFifo ==
    ASSUME queue \in [Lanes -> Seq(Tasks)],
           NEW D \in SUBSET Lanes, NEW q \in [Lanes -> Seq(Tasks)],
           \A l \in Lanes : q[l] = queue[l] \/ \E t \in Tasks : q[l] = Append(queue[l], t),
           NEW act \in [Lanes -> SUBSET Tasks], NEW gen, NEW bod,
           maxConcurrent' \in [Lanes -> Nat],
           Drain(D, q, act, gen, bod)
    PROVE  FifoStep
<1> SUFFICES ASSUME NEW l \in Lanes PROVE \E m \in 0..Len(queue[l]) : FirstLeave(l, m)
  BY DEF FifoStep
<1>1. PICK n \in 0..Len(q[l]) : /\ queue'[l] = SubSeq(q[l], n + 1, Len(q[l]))
                                /\ \A i \in 1..n : body'[q[l][i]] = "running"
  BY DrainShifts
<1>2. q[l] \in Seq(Tasks) /\ (q[l] = queue[l] \/ \E t \in Tasks : q[l] = Append(queue[l], t))
  OBVIOUS
<1>3. ShiftsOff(l, q[l], n)
  BY <1>1, <1>2 DEF ShiftsOff
<1> QED
  BY <1>3, PumpIsFifo

\* Nothing leaves.
LEMMA SameQueuesFifo ==
    ASSUME queue \in [Lanes -> Seq(Tasks)], queue' = queue
    PROVE  FifoStep
<1> SUFFICES ASSUME NEW l \in Lanes PROVE \E m \in 0..Len(queue[l]) : FirstLeave(l, m)
  BY DEF FifoStep
<1>1. queue[l] \in Seq(Tasks) /\ Len(queue[l]) \in Nat /\ 0 \in 0..Len(queue[l])
  OBVIOUS
<1>2. SubSeq(queue[l], 0 + 1, Len(queue[l])) = queue[l]
  <2>1. SubSeq(queue[l], 1, Len(queue[l])) = queue[l]
    BY <1>1, SubSeqFull
  <2> QED
    BY <2>1
<1>3. \A i \in 1..0 : \/ body'[queue[l][i]] = "running"
                      \/ promise'[queue[l][i]] = "lane-cleared"
  OBVIOUS
<1>4. queue'[l] = SubSeq(queue[l], 0 + 1, Len(queue[l]))
  BY <1>2
<1>5. ShiftsOff(l, queue[l], 0)
  BY <1>1, <1>3, <1>4 DEF ShiftsOff
<1> QED
  BY <1>5, PumpIsFifo

LEMMA ClearIsFifo ==
    ASSUME TypeOK, NEW l \in Lanes, ClearCommandLane(l)
    PROVE  FifoStep
<1>1. /\ queue \in [Lanes -> Seq(Tasks)] /\ promise \in [Tasks -> Promises]
      /\ queue' = [queue EXCEPT ![l] = <<>>]
      /\ promise' = [t \in Tasks |-> IF \E i \in 1..Len(queue[l]) : queue[l][i] = t
                                     THEN "lane-cleared" ELSE promise[t]]
  BY DEF ClearCommandLane, TypeOK, Promises
<1> SUFFICES ASSUME NEW k \in Lanes PROVE \E m \in 0..Len(queue[k]) : FirstLeave(k, m)
  BY DEF FifoStep
<1> DEFINE s == queue[k]
           n == IF k = l THEN Len(s) ELSE 0
<1>2. s \in Seq(Tasks) /\ Len(s) \in Nat /\ n \in 0..Len(s)
  BY <1>1
<1> DEFINE left == SubSeq(s, n + 1, Len(s))
<1>3. queue'[k] = left
  <2>1. left \in Seq(Tasks) /\ Len(left) = Len(s) - n
    BY <1>2, Shifted
  <2>2. CASE k = l
    <3>1. queue'[k] = <<>> /\ n = Len(s)
      BY <1>1, <2>2
    <3> HIDE DEF s, n, left
    <3>2. Len(left) = 0
      BY <1>2, <2>1, <3>1
    <3>3. left = <<>>
      BY <2>1, <3>2, EmptySeq
    <3> QED
      BY <3>1, <3>3
  <2>3. CASE k # l
    <3>1. queue'[k] = s /\ n = 0
      BY <1>1, <2>3
    <3>2. SubSeq(s, 1, Len(s)) = s
      BY <1>2, SubSeqFull
    <3> HIDE DEF s, n
    <3>3. n + 1 = 1
      BY <3>1
    <3> QED
      BY <3>1, <3>2, <3>3
  <2> QED
    BY <2>2, <2>3
<1>4. ASSUME NEW i \in 1..n PROVE promise'[s[i]] = "lane-cleared"
  <2>1. k = l /\ i \in 1..Len(s)
    BY <1>2
  <2>2. s[i] \in Tasks
    BY <1>2, <2>1
  <2> QED
    BY <1>1, <2>1, <2>2
<1> HIDE DEF n
<1>5. ShiftsOff(k, s, n)
  BY <1>2, <1>3, <1>4 DEF ShiftsOff
<1> QED
  BY <1>1, <1>5, PumpIsFifo

LEMMA StepIsFifo == IInv /\ [Next]_vars => FifoStep
<1> SUFFICES ASSUME IInv, [Next]_vars PROVE FifoStep
  OBVIOUS
<1>1. /\ queue \in [Lanes -> Seq(Tasks)] /\ activeTaskIds \in [Lanes -> SUBSET Tasks]
      /\ maxConcurrent' \in [Lanes -> Nat] /\ laneOf \in [Tasks -> Lanes]
      /\ TypeOK /\ lanes \in SUBSET Lanes
  BY NextKeepsIInv DEF IInv, TypeOK
<1>2. ASSUME NEW l \in Lanes, NEW t \in Tasks, NEW timed \in BOOLEAN, Enqueue(l, t, timed)
      PROVE  FifoStep
  <2> DEFINE q == [queue EXCEPT ![l] = Append(queue[l], t)]
  <2>1. Drain({l}, q, activeTaskIds, generation, body)
    BY <1>2 DEF Enqueue, Push
  <2>2. Append(queue[l], t) \in Seq(Tasks)
    BY <1>1, AppendProperties
  <2>3. q \in [Lanes -> Seq(Tasks)]
    BY <1>1, <2>2
  <2>4. \A k \in Lanes : q[k] = queue[k] \/ \E u \in Tasks : q[k] = Append(queue[k], u)
    BY <1>1
  <2> HIDE DEF q
  <2> QED
    BY <1>1, <2>1, <2>3, <2>4, DrainIsFifo
<1>3. ASSUME NEW D \in SUBSET Lanes, NEW act \in [Lanes -> SUBSET Tasks], NEW gen, NEW bod,
             Drain(D, queue, act, gen, bod)
      PROVE  FifoStep
  BY <1>1, <1>3, DrainIsFifo
<1>4. ASSUME NEW l \in Lanes, NEW n \in 0..MaxConcurrency, SetCommandLaneConcurrency(l, n)
      PROVE  FifoStep
  <2>1. PICK D \in SUBSET Lanes : Drain(D, queue, activeTaskIds, generation, body)
    BY <1>4 DEF SetCommandLaneConcurrency
  <2> QED
    BY <1>1, <1>3, <2>1
<1>5. ASSUME NEW D \in SUBSET Lanes, ResetLanes(D) PROVE FifoStep
  <2> DEFINE act == [l \in Lanes |-> IF l \in D THEN {} ELSE activeTaskIds[l]]
  <2>1. act \in [Lanes -> SUBSET Tasks]
    BY <1>1
  <2>2. Drain(D, queue, act, NextGeneration(D), body)
    BY <1>5 DEF ResetLanes
  <2> HIDE DEF act
  <2> QED
    BY <1>3, <2>1, <2>2
<1>6. ASSUME NEW t \in Tasks, NEW v, NEW bod, CompleteTask(t, v, bod) PROVE FifoStep
  <2> DEFINE act == [activeTaskIds EXCEPT ![laneOf[t]] = activeTaskIds[laneOf[t]] \ {t}]
  <2>1. CASE FreesSlot(t, bod)
    <3>1. Drain({laneOf[t]}, queue, act, generation, bod)
      BY <1>6, <2>1 DEF CompleteTask
    <3>2. act \in [Lanes -> SUBSET Tasks] /\ {laneOf[t]} \in SUBSET Lanes
      BY <1>1
    <3> HIDE DEF act
    <3> QED
      BY <1>3, <3>1, <3>2
  <2>2. CASE ~FreesSlot(t, bod)
    BY <1>1, <1>6, <2>2, SameQueuesFifo DEF CompleteTask
  <2> QED
    BY <2>1, <2>2
<1>7. CASE queue' = queue
  BY <1>1, <1>7, SameQueuesFifo
<1>8. ASSUME NEW l \in Lanes, ClearCommandLane(l) PROVE FifoStep
  BY <1>1, <1>8, ClearIsFifo
<1>9. ASSUME NEW l \in Lanes, ResetCommandLane(l) PROVE FifoStep
  BY <1>5, <1>9 DEF ResetCommandLane
<1>10. ASSUME ResetAllLanes PROVE FifoStep
  BY <1>1, <1>5, <1>10 DEF ResetAllLanes
<1>11. ASSUME NEW t \in Tasks,
              \/ \E verdict \in {"fulfilled", "rejected"} : TaskSettles(t, verdict)
              \/ TaskTimesOut(t)
       PROVE  FifoStep
  BY <1>6, <1>11 DEF TaskSettles, TaskTimesOut
<1>12. \/ Next
       \/ queue' = queue
  BY DEF vars
<1>13. ASSUME \/ \E t \in Tasks : EnqueueRefused(t) \/ LateTaskSettles(t)
              \/ MarkGatewayDraining
              \/ \E w \in Waiters : \/ \E ms \in {"none", "zero", "positive"} :
                                             WaitForActiveTasks(w, ms)
                                    \/ WaiterTimesOut(w)
       PROVE  queue' = queue
  BY <1>13 DEF EnqueueRefused, LateTaskSettles, MarkGatewayDraining, WaitForActiveTasks,
               WaiterTimesOut
<1> QED
  BY <1>2, <1>4, <1>7, <1>8, <1>9, <1>10, <1>11, <1>12, <1>13 DEF Next

\* EntriesLeaveInOrder: whatever is pumped, cleared or reset, the entries of a lane
\* leave it from the head, to start or to be rejected, and those behind keep
\* their order.
THEOREM LanesAreFifo == Spec => EntriesLeaveInOrder
<1>1. IInv /\ [Next]_vars => [FifoStep]_vars
  BY StepIsFifo
<1>2. Spec => [][FifoStep]_vars
  BY <1>1, InductiveInvariant, PTL DEF Spec
<1> QED
  BY <1>2 DEF EntriesLeaveInOrder, FifoStep, FirstLeave
=============================================================================

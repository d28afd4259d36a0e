------------------------- MODULE HeartbeatWakeProofs -------------------------
(***************************************************************************)
(* Proofs about HeartbeatWake for any requests, delays and bounds: type    *)
(* correctness, that no request is lost or downgraded, and that batches    *)
(* overlap only after a runner was replaced in the middle of one.          *)
(***************************************************************************)
EXTENDS HeartbeatWake, FiniteSetTheorems, TLAPS

Timers == [armed : BOOLEAN, kind : {"normal", "retry"}, left : Nat, delay : Nat]

\* The wakes and the batches that only requests of S were merged into.
WakeOf(S) == [priority : -1..3, covers : SUBSET S]
BatchOf(S) == [wakes : [Targets -> WakeOf(S)], todo : SUBSET Targets,
               at : SUBSET Targets, delay : Nat]

-----------------------------------------------------------------------------
(* The helpers.                                                            *)

\* The request r names a target.
LEMMA TargetType == \A r \in Requests : Target[r] \in Targets
  BY DEF Targets

LEMMA MergeType ==
    ASSUME NEW S, NEW old \in WakeOf(S), NEW new \in WakeOf(S)
    PROVE  Merge(old, new) \in WakeOf(S)
  BY DEF Merge, WakeOf

\* A merge of two wakes carries what either of them carries: the priority only
\* goes up.
LEMMA MergeCarries ==
    ASSUME NEW S, NEW old \in WakeOf(S), NEW new \in WakeOf(S),
           NEW r \in Requests, Carries(old, r) \/ Carries(new, r)
    PROVE  Carries(Merge(old, new), r)
<1>1. /\ old.priority \in Int /\ new.priority \in Int /\ Priority[r] \in Int
  BY RequestAttributes DEF WakeOf
<1> QED
  BY <1>1 DEF Merge, Carries

LEMMA NoWakeType ==
    ASSUME NEW S
    PROVE  NoWake \in WakeOf(S) /\ NoWakes \in [Targets -> WakeOf(S)]
  BY DEF NoWake, NoWakes, WakeOf

LEMMA NoWakeCarriesNothing == \A r \in Requests : ~Carries(NoWake, r)
  BY DEF NoWake, Carries

LEMMA OffType == Off \in Timers
  BY DEF Off, Timers

LEMMA ScheduleType ==
    ASSUME NEW tm \in Timers, NEW delay \in Nat, NEW kind \in {"normal", "retry"}
    PROVE  Schedule(tm, delay, kind) \in Timers
  BY DEF Schedule, Timers

LEMMA TimerAfterBatchType ==
    ASSUME NEW tm \in Timers, NEW delay \in Nat, NEW pend
    PROVE  TimerAfterBatch(tm, delay, pend) \in Timers
  BY ScheduleType DEF TimerAfterBatch

LEMMA NoBatchType ==
    ASSUME NEW S
    PROVE  NoBatch \in BatchOf(S) /\ Cardinality(NoBatch.at) <= 1
<1>1. NoBatch \in BatchOf(S)
  BY NoWakeType DEF NoBatch, BatchOf
<1>2. NoBatch.at = {}
  BY DEF NoBatch
<1> QED
  BY <1>1, <1>2, FS_EmptySet

\* The batches are well typed, and each waits for the handler with one target
\* at most.
BatchesOK(S, bt) == /\ bt \in [Batches -> BatchOf(S)]
                    /\ \A b \in Batches : Cardinality(bt[b].at) <= 1

\* Setting one batch to a well typed one keeps the others.
LEMMA BatchUpdate ==
    ASSUME NEW S, NEW bt, BatchesOK(S, bt), NEW b \in Batches,
           NEW x \in BatchOf(S), Cardinality(x.at) <= 1
    PROVE  BatchesOK(S, [bt EXCEPT ![b] = x])
  BY DEF BatchesOK

\* The batch b goes on or ends in a well typed state.
LEMMA ContinueType ==
    ASSUME NEW S, BatchesOK(S, batch), NEW b \in Batches, NEW tm \in Timers, NEW pend,
           running \in BOOLEAN, Continue(b, tm, pend)
    PROVE  BatchesOK(S, batch') /\ timer' \in Timers /\ running' \in BOOLEAN
<1>1. batch[b] \in BatchOf(S)
  BY DEF BatchesOK
<1>2. CASE batch[b].todo # {}
  <2>1. /\ timer' = tm /\ running' = running
        /\ \E t \in batch[b].todo :
               batch' = [batch EXCEPT ![b].todo = @ \ {t}, ![b].at = {t}]
    BY <1>2 DEF Continue
  <2>2. PICK t \in batch[b].todo :
            batch' = [batch EXCEPT ![b].todo = @ \ {t}, ![b].at = {t}]
    BY <2>1
  <2> DEFINE x == [batch[b] EXCEPT !.todo = @ \ {t}, !.at = {t}]
  <2>3. x \in BatchOf(S) /\ x.at = {t}
    BY <1>1 DEF BatchOf
  <2>4. batch \in [Batches -> BatchOf(S)]
    BY DEF BatchesOK
  <2>5. batch' = [batch EXCEPT ![b] = x]
    BY <2>2, <2>4
  <2> HIDE DEF x
  <2>6. Cardinality({t}) = 1
    BY FS_Singleton
  <2>7. Cardinality(x.at) <= 1
    BY <2>3, <2>6
  <2> QED
    BY <2>1, <2>3, <2>5, <2>7, BatchUpdate
<1>3. CASE batch[b].todo = {}
  <2>1. /\ batch' = [batch EXCEPT ![b] = NoBatch] /\ running' = FALSE
        /\ timer' = TimerAfterBatch(tm, batch[b].delay, pend)
    BY <1>3 DEF Continue
  <2>2. batch[b].delay \in Nat
    BY <1>1 DEF BatchOf
  <2> QED
    BY <2>1, <2>2, NoBatchType, BatchUpdate, TimerAfterBatchType
<1> QED
  BY <1>2, <1>3

-----------------------------------------------------------------------------
(* Type correctness.                                                       *)

\* The inductive invariant: the types, with the wakes made of requests that
\* were issued, which is what makes an answer one to an issued request.
Inv ==
    /\ handler \in 0..registered /\ registered \in 0..MaxRunners
    /\ stopped \subseteq 1..registered
    /\ pending \in [Targets -> WakeOf(issued)] /\ timer \in Timers
    /\ scheduled \in BOOLEAN /\ running \in BOOLEAN /\ interrupted \in BOOLEAN
    /\ BatchesOK(issued, batch)
    /\ answered \subseteq issued /\ issued \subseteq Requests

LEMMA InvImpliesTypeOK == Inv => TypeOK
<1> SUFFICES ASSUME Inv PROVE TypeOK
  OBVIOUS
<1>1. WakeOf(issued) \subseteq Wake
  BY DEF Inv, WakeOf, Wake
<1>2. pending \in [Targets -> Wake]
  BY <1>1 DEF Inv
<1>3. batch \in [Batches -> [wakes : [Targets -> Wake], todo : SUBSET Targets,
                             at : SUBSET Targets, delay : Nat]]
  <2>1. \A b \in Batches : batch[b] \in BatchOf(issued)
    BY DEF Inv, BatchesOK
  <2>2. BatchOf(issued) \subseteq
            [wakes : [Targets -> Wake], todo : SUBSET Targets,
             at : SUBSET Targets, delay : Nat]
    BY <1>1 DEF BatchOf
  <2> QED
    BY <2>1, <2>2 DEF Inv, BatchesOK
<1> QED
  BY <1>2, <1>3 DEF Inv, TypeOK, Timers, BatchesOK

LEMMA InitInv == Init => Inv
<1> SUFFICES ASSUME Init PROVE Inv
  OBVIOUS
<1>1. pending \in [Targets -> WakeOf(issued)] /\ timer \in Timers
  BY NoWakeType, OffType DEF Init
<1>2. BatchesOK(issued, batch)
  BY NoBatchType DEF Init, BatchesOK
<1>3. handler \in 0..registered /\ registered \in 0..MaxRunners /\ stopped \subseteq 1..registered
  BY BoundsAssumption DEF Init
<1>4. /\ scheduled \in BOOLEAN /\ running \in BOOLEAN /\ interrupted \in BOOLEAN
      /\ answered \subseteq issued /\ issued \subseteq Requests
  BY DEF Init
<1> QED
  BY <1>1, <1>2, <1>3, <1>4 DEF Inv

\* The wakes pending after a request or a busy target, and after an error.
LEMMA PendingTypes ==
    ASSUME NEW S, NEW pend \in [Targets -> WakeOf(S)], NEW t \in Targets,
           NEW x \in WakeOf(S), NEW w \in [Targets -> WakeOf(S)]
    PROVE  /\ [pend EXCEPT ![t] = Merge(@, x)] \in [Targets -> WakeOf(S)]
           /\ Requeue(pend, w) \in [Targets -> WakeOf(S)]
<1>1. Merge(pend[t], x) \in WakeOf(S)
  BY MergeType
<1>2. \A u \in Targets : Merge(pend[u], w[u]) \in WakeOf(S)
  BY MergeType
<1> QED
  BY <1>1, <1>2 DEF Requeue

\* More requests keep the types.
LEMMA LargerTypes ==
    ASSUME NEW S, NEW T, S \subseteq T
    PROVE  /\ [Targets -> WakeOf(S)] \subseteq [Targets -> WakeOf(T)]
           /\ \A bt : BatchesOK(S, bt) => BatchesOK(T, bt)
<1>1. WakeOf(S) \subseteq WakeOf(T)
  BY DEF WakeOf
<1>2. [Targets -> WakeOf(S)] \subseteq [Targets -> WakeOf(T)]
  BY <1>1
<1>3. BatchOf(S) \subseteq BatchOf(T)
  BY <1>2 DEF BatchOf
<1> QED
  BY <1>2, <1>3 DEF BatchesOK

LEMMA RequestType ==
    ASSUME Inv, NEW r \in Requests, NEW d \in Delays, RequestHeartbeat(r, d)
    PROVE  Inv'
<1> DEFINE x == [priority |-> Priority[r], covers |-> {r}]
<1>1. /\ issued' = issued \cup {r} /\ answered' = answered
      /\ pending' = [pending EXCEPT ![Target[r]] = Merge(@, x)]
      /\ timer' = Schedule(timer, d, "normal")
      /\ UNCHANGED <<handler, registered, stopped, scheduled, running, batch, interrupted>>
  BY DEF RequestHeartbeat
<1>2. x \in WakeOf(issued')
  BY <1>1, RequestAttributes DEF WakeOf
<1>3. Target[r] \in Targets /\ d \in Nat
  BY TargetType, DelaysAssumption
<1> HIDE DEF x
<1>4. issued \subseteq issued'
  BY <1>1
<1>5. pending \in [Targets -> WakeOf(issued')] /\ BatchesOK(issued', batch)
  BY <1>4, LargerTypes DEF Inv
<1>6. pending' \in [Targets -> WakeOf(issued')]
  BY <1>1, <1>2, <1>3, <1>5, PendingTypes
<1>7. timer' \in Timers
  BY <1>1, <1>3, ScheduleType DEF Inv
<1>8. BatchesOK(issued', batch')
  BY <1>1, <1>5
<1> QED
  BY <1>1, <1>6, <1>7, <1>8 DEF Inv

LEMMA StartType ==
    ASSUME Inv, NEW b \in Batches, StartBatch(b)
    PROVE  Inv'
<1>1. timer \in Timers /\ pending \in [Targets -> WakeOf(issued)] /\ BatchesOK(issued, batch)
  BY DEF Inv
<1>2. pending' \in [Targets -> WakeOf(issued)] /\ timer' \in Timers /\ scheduled' \in BOOLEAN
  BY NoWakeType, OffType DEF StartBatch
<1>3. BatchesOK(issued, batch') /\ running' \in BOOLEAN
  <2>1. CASE UNCHANGED <<batch, running>>
    BY <1>1, <2>1 DEF Inv
  <2>2. CASE \E t \in Waking(pending) :
              /\ batch' = [batch EXCEPT ![b] =
                     [wakes |-> pending, at |-> {t},
                      todo |-> Waking(pending) \ {t}, delay |-> timer.delay]]
              /\ running' = TRUE
    <3>1. PICK t \in Waking(pending) :
              /\ batch' = [batch EXCEPT ![b] =
                     [wakes |-> pending, at |-> {t},
                      todo |-> Waking(pending) \ {t}, delay |-> timer.delay]]
              /\ running' = TRUE
      BY <2>2
    <3> DEFINE x == [wakes |-> pending, at |-> {t},
                     todo |-> Waking(pending) \ {t}, delay |-> timer.delay]
    <3>2. Waking(pending) \subseteq Targets /\ timer.delay \in Nat
      BY <1>1 DEF Waking, Timers
    <3>3. x \in BatchOf(issued) /\ x.at = {t}
      BY <1>1, <3>2 DEF BatchOf
    <3>4. batch' = [batch EXCEPT ![b] = x]
      BY <3>1
    <3> HIDE DEF x
    <3>5. Cardinality({t}) = 1
      BY FS_Singleton
    <3>6. Cardinality(x.at) <= 1
      BY <3>3, <3>5
    <3>7. BatchesOK(issued, [batch EXCEPT ![b] = x])
      BY <1>1, <3>3, <3>6, BatchUpdate
    <3> QED
      BY <3>1, <3>4, <3>7
  <2> QED
    BY <2>1, <2>2 DEF StartBatch
<1>4. UNCHANGED <<handler, registered, stopped, issued, answered, interrupted>>
  BY DEF StartBatch
<1> QED
  BY <1>2, <1>3, <1>4 DEF Inv

\* The wakes of a batch are well typed.
LEMMA BatchWakes ==
    ASSUME Inv, NEW b \in Batches
    PROVE  /\ batch[b].wakes \in [Targets -> WakeOf(issued)]
           /\ batch[b].delay \in Nat
           /\ batch[b].at \subseteq Targets /\ batch[b].todo \subseteq Targets
  BY DEF Inv, BatchesOK, BatchOf

LEMMA AnswersType ==
    ASSUME Inv, NEW b \in Batches, NEW t \in Targets, HandlerAnswers(b, t)
    PROVE  Inv'
<1>1. /\ timer \in Timers /\ running \in BOOLEAN /\ BatchesOK(issued, batch)
      /\ Continue(b, timer, pending)
  BY DEF Inv, HandlerAnswers
<1>2. BatchesOK(issued, batch') /\ timer' \in Timers /\ running' \in BOOLEAN
  BY <1>1, ContinueType
<1>3. batch[b].wakes[t].covers \subseteq issued
  BY BatchWakes DEF WakeOf
<1>4. /\ answered' = answered \cup batch[b].wakes[t].covers
      /\ UNCHANGED <<handler, registered, stopped, pending, scheduled, issued, interrupted>>
  BY DEF HandlerAnswers
<1> QED
  BY <1>2, <1>3, <1>4 DEF Inv

LEMMA BusyType ==
    ASSUME Inv, NEW b \in Batches, NEW t \in Targets, HandlerFindsBusy(b, t)
    PROVE  Inv'
<1> DEFINE pend == BusyAgain(pending, t, batch[b].wakes[t])
           tm == Schedule(timer, RetryDelay, "retry")
<1>1. tm \in Timers
  BY ScheduleType, DelaysAssumption DEF Inv
<1>2. pend \in [Targets -> WakeOf(issued)]
  <2>1. batch[b].wakes[t] \in WakeOf(issued) /\ pending \in [Targets -> WakeOf(issued)]
    BY BatchWakes DEF Inv
  <2> QED
    BY <2>1, PendingTypes DEF BusyAgain
<1>3. /\ pending' = pend /\ Continue(b, tm, pend)
      /\ UNCHANGED <<handler, registered, stopped, scheduled, issued, answered, interrupted>>
  BY DEF HandlerFindsBusy
<1> HIDE DEF pend, tm
<1>4. BatchesOK(issued, batch') /\ timer' \in Timers /\ running' \in BOOLEAN
  BY <1>1, <1>3, ContinueType DEF Inv
<1> QED
  BY <1>2, <1>3, <1>4 DEF Inv

LEMMA ThrowsType ==
    ASSUME Inv, NEW b \in Batches, HandlerThrows(b)
    PROVE  Inv'
<1> DEFINE pend == Requeue(pending, batch[b].wakes)
           tm == Schedule(timer, RetryDelay, "retry")
<1>1. tm \in Timers
  BY ScheduleType, DelaysAssumption DEF Inv
<1>2. pend \in [Targets -> WakeOf(issued)]
  BY BatchWakes, MergeType DEF Inv, Requeue
<1>3. /\ pending' = pend /\ batch' = [batch EXCEPT ![b] = NoBatch]
      /\ timer' = TimerAfterBatch(tm, batch[b].delay, pend) /\ running' = FALSE
      /\ UNCHANGED <<handler, registered, stopped, scheduled, issued, answered, interrupted>>
  BY DEF HandlerThrows
<1> HIDE DEF pend, tm
<1>4. BatchesOK(issued, batch')
  BY <1>3, NoBatchType, BatchUpdate DEF Inv
<1>5. timer' \in Timers
  BY <1>1, <1>3, BatchWakes, TimerAfterBatchType
<1> QED
  BY <1>2, <1>3, <1>4, <1>5 DEF Inv

LEMMA RegisterType == Inv /\ SetHeartbeatWakeHandler => Inv'
<1> SUFFICES ASSUME Inv, SetHeartbeatWakeHandler PROVE Inv'
  OBVIOUS
<1>1. timer' \in Timers
  BY OffType, ScheduleType, DelaysAssumption DEF SetHeartbeatWakeHandler, TimerOfNewHandler
<1>2. /\ registered' \in 0..MaxRunners /\ handler' \in 0..registered'
      /\ stopped' \subseteq 1..registered'
  BY BoundsAssumption DEF Inv, SetHeartbeatWakeHandler
<1>3. interrupted' \in BOOLEAN /\ running' \in BOOLEAN /\ scheduled' \in BOOLEAN
  BY DEF Inv, SetHeartbeatWakeHandler
<1>4. UNCHANGED <<pending, batch, issued, answered>>
  BY DEF SetHeartbeatWakeHandler
<1> QED
  BY <1>1, <1>2, <1>3, <1>4 DEF Inv

LEMMA StopType ==
    ASSUME Inv, NEW h \in Runners, Stop(h)
    PROVE  Inv'
<1>1. /\ h \in 1..registered /\ handler' \in {0, handler}
      /\ stopped' = stopped \cup {h}
  BY BoundsAssumption DEF Inv, Stop, HandlerAfterDispose, Runners
<1>2. UNCHANGED <<registered, pending, timer, scheduled, running, batch, issued, answered, interrupted>>
  BY DEF Stop
<1> QED
  BY <1>1, <1>2 DEF Inv

LEMMA TimerSteps ==
    ASSUME Inv, FiresUnhandled \/ FiresWhileRunning \/ Tick
    PROVE  Inv'
<1>1. CASE FiresUnhandled
  BY <1>1, OffType DEF Inv, FiresUnhandled
<1>2. CASE FiresWhileRunning
  <2>1. timer.delay \in Nat /\ timer.kind \in {"normal", "retry"}
    BY DEF Inv, Timers
  <2>2. Schedule(Off, timer.delay, timer.kind) \in Timers
    BY <2>1, OffType, ScheduleType
  <2> QED
    BY <1>2, <2>2 DEF Inv, FiresWhileRunning
<1>3. CASE Tick
  <2>1. timer' \in Timers
    BY <1>3 DEF Inv, Tick, Timers
  <2> QED
    BY <1>3, <2>1 DEF Inv, Tick
<1> QED
  BY <1>1, <1>2, <1>3

LEMMA NextInv == Inv /\ [Next]_vars => Inv'
<1> SUFFICES ASSUME Inv, [Next]_vars PROVE Inv'
  OBVIOUS
<1>1. CASE UNCHANGED vars
  BY <1>1 DEF Inv, vars
<1>2. CASE Next
  BY <1>2, RequestType, StartType, AnswersType, BusyType, ThrowsType,
     RegisterType, StopType, TimerSteps DEF Next
<1> QED
  BY <1>1, <1>2

\* The pending wakes, the timer and the batches that the timer callback, the
\* requests and the registrations share keep their types, and a runner answers
\* requests only that were made.
THEOREM TypeCorrect == Spec => []TypeOK
<1>1. Spec => []Inv
  BY InitInv, NextInv, PTL DEF Spec
<1> QED
  BY <1>1, InvImpliesTypeOK, PTL

-----------------------------------------------------------------------------
(* No request is lost.                                                     *)

\* The request r waits in the pending wakes, or in a wake a batch has ahead.
Pends(r) == Carries(pending[Target[r]], r)
AheadIn(b, r) == Target[r] \in Ahead(b) /\ Carries(batch[b].wakes[Target[r]], r)
Waits(r) == Pends(r) \/ \E b \in Batches : AheadIn(b, r)

LEMMA NoRequestIsLostAsWaits == NoRequestIsLost <=> \A r \in issued \ answered : Waits(r)
  BY DEF NoRequestIsLost, Waits, Pends, AheadIn

\* A pending request survives any merge into the wake it is in.
LEMMA MergeKeeps ==
    ASSUME Inv, NEW r \in Requests, Pends(r), NEW S, issued \subseteq S,
           NEW t \in Targets, NEW x \in WakeOf(S),
           pending' = [pending EXCEPT ![t] = Merge(@, x)]
    PROVE  Pends(r)'
<1>1. pending \in [Targets -> WakeOf(S)] /\ Target[r] \in Targets
  BY TargetType, LargerTypes DEF Inv
<1>2. Carries(pending[Target[r]], r)
  BY DEF Pends
<1>3. CASE Target[r] = t
  <2>1. Carries(Merge(pending[t], x), r)
    BY <1>1, <1>2, <1>3, MergeCarries
  <2> QED
    BY <1>1, <1>3, <2>1 DEF Pends
<1>4. CASE Target[r] # t
  BY <1>1, <1>2, <1>4 DEF Pends
<1> QED
  BY <1>3, <1>4

LEMMA RequestKeeps ==
    ASSUME Inv, NEW q \in Requests, NEW d \in Delays, RequestHeartbeat(q, d),
           NEW r \in issued' \ answered', r \in issued \ answered => Waits(r)
    PROVE  Waits(r)'
<1> DEFINE x == [priority |-> Priority[q], covers |-> {q}]
<1>1. /\ issued' = issued \cup {q} /\ answered' = answered /\ batch' = batch
      /\ pending' = [pending EXCEPT ![Target[q]] = Merge(@, x)]
  BY DEF RequestHeartbeat
<1>2. x \in WakeOf(issued') /\ Carries(x, q)
  BY <1>1, RequestAttributes DEF WakeOf, Carries
<1> HIDE DEF x
<1>3. Target[q] \in Targets /\ r \in Requests /\ issued \subseteq issued'
  BY <1>1, TargetType DEF Inv
<1>4. CASE r = q
  <2>1. pending \in [Targets -> WakeOf(issued')]
    BY <1>3, LargerTypes DEF Inv
  <2>2. Carries(Merge(pending[Target[q]], x), q)
    BY <1>2, <1>3, <2>1, MergeCarries
  <2>3. Pends(q)'
    BY <1>1, <1>3, <2>1, <2>2 DEF Pends
  <2> QED
    BY <1>4, <2>3 DEF Waits
<1>5. CASE r # q
  <2>1. Waits(r)
    BY <1>1, <1>5
  <2>2. CASE Pends(r)
    BY <1>1, <1>2, <1>3, <2>2, MergeKeeps DEF Waits
  <2>3. CASE \E b \in Batches : AheadIn(b, r)
    BY <1>1, <2>3 DEF AheadIn, Ahead, Waits
  <2> QED
    BY <2>1, <2>2, <2>3 DEF Waits
<1> QED
  BY <1>4, <1>5

\* A batch takes every pending wake with it.
LEMMA StartKeeps ==
    ASSUME Inv, NEW b \in Batches, StartBatch(b), NEW r \in Requests, Waits(r)
    PROVE  Waits(r)'
<1>1. Target[r] \in Targets /\ batch[b] = NoBatch /\ batch \in [Batches -> BatchOf(issued)]
  BY TargetType DEF Inv, BatchesOK, StartBatch
<1>2. CASE Pends(r)
  <2>1. Target[r] \in Waking(pending)
    BY <1>1, <1>2, NoWakeCarriesNothing DEF Pends, Waking
  <2>2. PICK t \in Waking(pending) :
            batch' = [batch EXCEPT ![b] =
                [wakes |-> pending, at |-> {t},
                 todo |-> Waking(pending) \ {t}, delay |-> timer.delay]]
    BY <2>1 DEF StartBatch
  <2>3. batch'[b] = [wakes |-> pending, at |-> {t},
                     todo |-> Waking(pending) \ {t}, delay |-> timer.delay]
    BY <1>1, <2>2
  <2>4. AheadIn(b, r)'
    BY <1>2, <2>1, <2>3 DEF AheadIn, Ahead, Pends
  <2> QED
    BY <2>4 DEF Waits
<1>3. CASE \E c \in Batches : AheadIn(c, r)
  <2>1. PICK c \in Batches : AheadIn(c, r)
    BY <1>3
  <2>2. c # b
    BY <1>1, <2>1 DEF AheadIn, Ahead, NoBatch
  <2>3. batch'[c] = batch[c]
    BY <1>1, <2>2 DEF StartBatch
  <2> QED
    BY <2>1, <2>3 DEF AheadIn, Ahead, Waits
<1> QED
  BY <1>2, <1>3 DEF Waits

\* When a batch goes on, only the wake that was at the handler is left behind.
LEMMA ContinueKeeps ==
    ASSUME Inv, NEW b \in Batches, NEW t \in Targets, batch[b].at = {t},
           NEW tm, NEW pend, Continue(b, tm, pend),
           NEW r \in Requests, NEW c \in Batches, AheadIn(c, r),
           c # b \/ Target[r] # t
    PROVE  AheadIn(c, r)'
<1>1. batch \in [Batches -> BatchOf(issued)]
  BY DEF Inv, BatchesOK
<1>2. CASE c # b
  <2>1. batch'[c] = batch[c]
    BY <1>1, <1>2 DEF Continue
  <2> QED
    BY <2>1 DEF AheadIn, Ahead
<1>3. CASE c = b
  <2>1. Target[r] \in batch[b].todo
    BY <1>3 DEF AheadIn, Ahead
  <2>2. PICK u \in batch[b].todo :
            batch' = [batch EXCEPT ![b].todo = @ \ {u}, ![b].at = {u}]
    BY <2>1 DEF Continue
  <2>3. /\ batch'[b].wakes = batch[b].wakes
        /\ batch'[b].todo \cup batch'[b].at = batch[b].todo
    BY <1>1, <2>2 DEF BatchOf
  <2> QED
    BY <1>3, <2>1, <2>3 DEF AheadIn, Ahead
<1> QED
  BY <1>2, <1>3

LEMMA AnswersKeeps ==
    ASSUME Inv, NEW b \in Batches, NEW t \in Targets, HandlerAnswers(b, t),
           NEW r \in Requests \ answered', Waits(r)
    PROVE  Waits(r)'
<1>1. /\ batch[b].at = {t} /\ Continue(b, timer, pending) /\ pending' = pending
      /\ answered' = answered \cup batch[b].wakes[t].covers
  BY DEF HandlerAnswers
<1>2. CASE Pends(r)
  BY <1>1, <1>2 DEF Pends, Waits
<1>3. CASE \E c \in Batches : AheadIn(c, r)
  <2>1. PICK c \in Batches : AheadIn(c, r)
    BY <1>3
  <2>2. c # b \/ Target[r] # t
    BY <1>1, <2>1 DEF AheadIn, Carries
  <2>3. AheadIn(c, r)'
    BY <1>1, <2>1, <2>2, ContinueKeeps
  <2> QED
    BY <2>3 DEF Waits
<1> QED
  BY <1>2, <1>3 DEF Waits

LEMMA BusyKeeps ==
    ASSUME Inv, NEW b \in Batches, NEW t \in Targets, HandlerFindsBusy(b, t),
           NEW r \in Requests, Waits(r)
    PROVE  Waits(r)'
<1> DEFINE x == batch[b].wakes[t]
           tm == Schedule(timer, RetryDelay, "retry")
           pend == BusyAgain(pending, t, x)
<1>1. /\ batch[b].at = {t} /\ Continue(b, tm, pend)
      /\ pending' = [pending EXCEPT ![t] = Merge(@, x)]
  BY DEF HandlerFindsBusy, BusyAgain
<1>2. x \in WakeOf(issued) /\ pending \in [Targets -> WakeOf(issued)]
  BY BatchWakes DEF Inv
<1> HIDE DEF tm, pend
<1>3. CASE Pends(r)
  <2> HIDE DEF x
  <2> QED
    BY <1>1, <1>2, <1>3, MergeKeeps DEF Waits
<1>4. CASE \E c \in Batches : AheadIn(c, r)
  <2>1. PICK c \in Batches : AheadIn(c, r)
    BY <1>4
  <2>2. CASE c # b \/ Target[r] # t
    <3>1. AheadIn(c, r)'
      BY <1>1, <2>1, <2>2, ContinueKeeps
    <3> QED
      BY <3>1 DEF Waits
  <2>3. CASE c = b /\ Target[r] = t
    <3>1. Carries(x, r)
      BY <2>1, <2>3 DEF AheadIn
    <3> HIDE DEF x
    <3>2. Carries(Merge(pending[t], x), r)
      BY <1>2, <3>1, MergeCarries
    <3>3. pending'[t] = Merge(pending[t], x)
      BY <1>1, <1>2
    <3> QED
      BY <2>3, <3>2, <3>3 DEF Pends, Waits
  <2> QED
    BY <2>2, <2>3
<1> QED
  BY <1>3, <1>4 DEF Waits

LEMMA ThrowsKeeps ==
    ASSUME Inv, NEW b \in Batches, HandlerThrows(b), NEW r \in Requests, Waits(r)
    PROVE  Waits(r)'
<1> DEFINE w == batch[b].wakes
           u == Target[r]
<1>1. /\ pending' = Requeue(pending, w)
      /\ batch' = [batch EXCEPT ![b] = NoBatch]
  BY DEF HandlerThrows
<1>2. /\ w \in [Targets -> WakeOf(issued)] /\ pending \in [Targets -> WakeOf(issued)]
      /\ u \in Targets
  BY BatchWakes, TargetType DEF Inv
<1>3. pending'[u] = IF w[u] = NoWake THEN pending[u] ELSE Merge(pending[u], w[u])
  BY <1>1, <1>2 DEF Requeue
<1>4. CASE Carries(pending[u], r) \/ Carries(w[u], r)
  <2>1. Carries(Merge(pending[u], w[u]), r)
    BY <1>2, <1>4, MergeCarries
  <2>2. Carries(pending'[u], r)
    BY <1>3, <1>4, <2>1, NoWakeCarriesNothing
  <2> QED
    BY <2>2 DEF Pends, Waits
<1>5. CASE \E c \in Batches \ {b} : AheadIn(c, r)
  <2>1. PICK c \in Batches \ {b} : AheadIn(c, r)
    BY <1>5
  <2>2. batch'[c] = batch[c]
    BY <1>1, <2>1 DEF Inv, BatchesOK
  <2> QED
    BY <2>1, <2>2 DEF AheadIn, Ahead, Waits
<1> QED
  BY <1>4, <1>5 DEF Waits, Pends, AheadIn

\* The other steps move neither wakes nor requests.
LEMMA OthersKeep ==
    ASSUME \/ FiresUnhandled \/ FiresWhileRunning \/ Tick
           \/ SetHeartbeatWakeHandler \/ (\E h \in Runners : Stop(h)) \/ UNCHANGED vars
    PROVE  UNCHANGED <<pending, batch, issued, answered>>
  BY DEF FiresUnhandled, FiresWhileRunning, Tick, SetHeartbeatWakeHandler, Stop, vars

LEMMA NextKeepsRequests == Inv /\ NoRequestIsLost /\ [Next]_vars => NoRequestIsLost'
<1> SUFFICES ASSUME Inv, NoRequestIsLost, [Next]_vars, NEW r \in issued' \ answered'
             PROVE  Waits(r)'
  BY DEF NoRequestIsLost, Waits, Pends, AheadIn
<1>1. r \in issued \ answered => Waits(r)
  BY NoRequestIsLostAsWaits
<1>2. ASSUME UNCHANGED <<pending, batch, issued, answered>> PROVE Waits(r)'
  BY <1>1, <1>2 DEF Waits, Pends, AheadIn, Ahead
<1>3. ASSUME NEW q \in Requests, NEW d \in Delays, RequestHeartbeat(q, d) PROVE Waits(r)'
  BY <1>1, <1>3, RequestKeeps
<1>4. ASSUME NEW b \in Batches, StartBatch(b) PROVE Waits(r)'
  <2>1. r \in issued \ answered /\ r \in Requests
    BY <1>4 DEF StartBatch, Inv
  <2> QED
    BY <1>1, <1>4, <2>1, StartKeeps
<1>5. ASSUME NEW b \in Batches, NEW t \in Targets, HandlerAnswers(b, t) PROVE Waits(r)'
  <2>1. r \in issued \ answered /\ r \in Requests
    BY <1>5 DEF HandlerAnswers, Inv
  <2> QED
    BY <1>1, <1>5, <2>1, AnswersKeeps
<1>6. ASSUME NEW b \in Batches, NEW t \in Targets, HandlerFindsBusy(b, t) PROVE Waits(r)'
  <2>1. r \in issued \ answered /\ r \in Requests
    BY <1>6 DEF HandlerFindsBusy, Inv
  <2> QED
    BY <1>1, <1>6, <2>1, BusyKeeps
<1>7. ASSUME NEW b \in Batches, HandlerThrows(b) PROVE Waits(r)'
  <2>1. r \in issued \ answered /\ r \in Requests
    BY <1>7 DEF HandlerThrows, Inv
  <2> QED
    BY <1>1, <1>7, <2>1, ThrowsKeeps
<1> QED
  BY <1>2, <1>3, <1>4, <1>5, <1>6, <1>7, OthersKeep DEF Next

\* No request is dropped or downgraded by merging, a busy target, an error of
\* the handler or a change of the runner.
THEOREM NoLostRequest == Spec => []NoRequestIsLost
<1>1. Spec => []Inv
  BY InitInv, NextInv, PTL DEF Spec
<1>2. Init => NoRequestIsLost
  BY DEF Init, NoRequestIsLost
<1> QED
  BY <1>1, <1>2, NextKeepsRequests, PTL DEF Spec

-----------------------------------------------------------------------------
(* Batches overlap only after a runner was replaced in the middle of one.  *)

Idle(b) == batch[b] = NoBatch

\* The inductive form: the flag the callback looks at is set during a batch.
Alone ==
    ~interrupted => /\ \A b, c \in Batches : ~Idle(b) /\ ~Idle(c) => b = c
                    /\ ~running => \A b \in Batches : Idle(b)

LEMMA AloneImpliesOneBatch == Alone => OneBatchAtATime
<1> SUFFICES ASSUME Alone, ~interrupted
             PROVE  Cardinality({b \in Batches : batch[b] # NoBatch}) <= 1
  BY DEF OneBatchAtATime
<1> DEFINE B == {b \in Batches : batch[b] # NoBatch}
<1> SUFFICES Cardinality(B) <= 1
  OBVIOUS
<1>1. B = {} \/ \E b \in Batches : B = {b}
  <2>1. \A b, c \in B : b = c
    BY DEF Alone, Idle
  <2> QED
    BY <2>1
<1> HIDE DEF B
<1>2. CASE B = {}
  <2>1. Cardinality({}) = 0
    BY FS_EmptySet
  <2> QED
    BY <1>2, <2>1
<1>3. ASSUME NEW b \in Batches, B = {b} PROVE Cardinality(B) <= 1
  <2>1. Cardinality({b}) = 1
    BY FS_Singleton
  <2> QED
    BY <1>3, <2>1
<1> QED
  BY <1>1, <1>2, <1>3

\* The end of a batch, or its next wake, is a step of the only batch.
LEMMA LoopKeepsAlone ==
    ASSUME Inv, Alone, NEW b \in Batches, ~Idle(b), interrupted' = interrupted,
           \/ /\ running' = running
              /\ \E x : batch' = [batch EXCEPT ![b] = x]
           \/ batch' = [batch EXCEPT ![b] = NoBatch]
    PROVE  Alone'
<1> SUFFICES ASSUME ~interrupted PROVE Alone'
  BY DEF Alone
<1>1. /\ batch \in [Batches -> BatchOf(issued)] /\ running
      /\ \A c \in Batches \ {b} : Idle(c)
  BY DEF Inv, BatchesOK, Alone
<1>2. \A c \in Batches \ {b} : Idle(c)'
  BY <1>1 DEF Idle
<1>3. CASE running' = running
  BY <1>1, <1>2, <1>3 DEF Alone
<1>4. CASE batch' = [batch EXCEPT ![b] = NoBatch]
  <2>1. Idle(b)'
    BY <1>1, <1>4 DEF Idle
  <2> QED
    BY <1>2, <2>1 DEF Alone
<1> QED
  BY <1>3, <1>4

LEMMA ContinueKeepsAlone ==
    ASSUME Inv, Alone, NEW b \in Batches, NEW tm, NEW pend, Continue(b, tm, pend),
           batch[b].at # {}, interrupted' = interrupted
    PROVE  Alone'
<1>1. ~Idle(b)
  BY DEF Idle, NoBatch
<1>2. CASE batch[b].todo # {}
  <2>1. /\ running' = running
        /\ \E t \in batch[b].todo :
               batch' = [batch EXCEPT ![b].todo = @ \ {t}, ![b].at = {t}]
    BY <1>2 DEF Continue
  <2>2. \E x : batch' = [batch EXCEPT ![b] = x]
    BY <2>1
  <2> QED
    BY <1>1, <2>1, <2>2, LoopKeepsAlone
<1>3. CASE batch[b].todo = {}
  BY <1>1, <1>3, LoopKeepsAlone DEF Continue
<1> QED
  BY <1>2, <1>3

LEMMA NextKeepsAlone == Inv /\ Alone /\ [Next]_vars => Alone'
<1> SUFFICES ASSUME Inv, Alone, [Next]_vars PROVE Alone'
  OBVIOUS
<1>1. ASSUME UNCHANGED <<batch, running, interrupted>> PROVE Alone'
  BY <1>1 DEF Alone, Idle
<1>2. ASSUME NEW b \in Batches, StartBatch(b) PROVE Alone'
  <2> SUFFICES ASSUME ~interrupted PROVE Alone'
    BY <1>2 DEF StartBatch, Alone
  <2>1. ~running /\ interrupted' = interrupted /\ batch \in [Batches -> BatchOf(issued)]
    BY <1>2 DEF StartBatch, Busy, Inv, BatchesOK
  <2>2. \A c \in Batches : Idle(c)
    BY <2>1 DEF Alone
  <2>3. CASE UNCHANGED <<batch, running>>
    BY <2>1, <2>3, <1>1
  <2>4. CASE running' = TRUE /\ \A c \in Batches \ {b} : batch'[c] = batch[c]
    BY <2>2, <2>4 DEF Alone, Idle
  <2>5. \/ UNCHANGED <<batch, running>>
        \/ running' = TRUE /\ \E x : batch' = [batch EXCEPT ![b] = x]
    BY <1>2 DEF StartBatch
  <2> QED
    BY <2>1, <2>3, <2>4, <2>5
<1>3. ASSUME NEW b \in Batches, NEW t \in Targets, HandlerAnswers(b, t) PROVE Alone'
  BY <1>3, ContinueKeepsAlone DEF HandlerAnswers
<1>4. ASSUME NEW b \in Batches, NEW t \in Targets, HandlerFindsBusy(b, t) PROVE Alone'
  BY <1>4, ContinueKeepsAlone DEF HandlerFindsBusy
<1>5. ASSUME NEW b \in Batches, HandlerThrows(b) PROVE Alone'
  <2>1. ~Idle(b)
    BY <1>5 DEF HandlerThrows, Idle, NoBatch
  <2> QED
    BY <1>5, <2>1, LoopKeepsAlone DEF HandlerThrows
<1>6. ASSUME SetHeartbeatWakeHandler PROVE Alone'
  BY <1>6 DEF SetHeartbeatWakeHandler, Alone, Idle
<1>7. ASSUME \E r \in Requests, d \in Delays : RequestHeartbeat(r, d) PROVE Alone'
  BY <1>1, <1>7 DEF RequestHeartbeat
<1>8. ASSUME \/ FiresUnhandled \/ FiresWhileRunning \/ Tick
             \/ (\E h \in Runners : Stop(h)) \/ UNCHANGED vars
      PROVE Alone'
  BY <1>1, <1>8 DEF FiresUnhandled, FiresWhileRunning, Tick, Stop, vars
<1> QED
  BY <1>2, <1>3, <1>4, <1>5, <1>6, <1>7, <1>8 DEF Next

\* Heartbeats do not overlap, unless a new runner was registered while a batch
\* of an old one was under way.
THEOREM HeartbeatsDoNotOverlap == Spec => []OneBatchAtATime
<1>1. Spec => []Inv
  BY InitInv, NextInv, PTL DEF Spec
<1>2. Init => Alone
  BY DEF Init, Alone, Idle
<1>3. Spec => []Alone
  BY <1>1, <1>2, NextKeepsAlone, PTL DEF Spec
<1> QED
  BY <1>3, AloneImpliesOneBatch, PTL
=============================================================================

------------------------- MODULE ReplyRunRegistryProofs -------------------------
(***************************************************************************)
(* Proofs about ReplyRunRegistry for any session keys, session ids,        *)
(* operations and waiters: type correctness, the agreement of the maps, no *)
(* forgotten waiter, safety of a successor, and what an end means for the  *)
(* backends of a session.                                                  *)
(***************************************************************************)
EXTENDS ReplyRunRegistry, TLAPS

OpRecord == [key : Keys \cup {None}, id : SessionIds \cup {None},
             phase : Phases, result : Results, cleared : BOOLEAN, signalled : BOOLEAN]

\* The closure c ends with a result, and is cleared only then.
Consistent(c) == /\ c.result # "none" <=> c.phase = "over"
                 /\ c.cleared => c.phase = "over"

OpsOK(ops) == ops \in [Ops -> OpRecord] /\ \A o \in Ops : Consistent(ops[o])

IndexOK ==
    /\ activeRunsByKey \in [Keys -> Ops \cup {None}]
    /\ activeSessionIdsByKey \in [Keys -> SessionIds \cup {None}]
    /\ activeKeysBySessionId \in [SessionIds -> Keys \cup {None}]
    /\ waitKeysBySessionId \in [SessionIds -> Keys \cup {None}]

WaiterType == [status : {"idle", "waiting", "ended", "gave-up"}, key : Keys \cup {None}]
BackendType == {"none", "live", "cancelled", "refused"}

LEMMA TypeParts ==
    TypeOK <=> /\ IndexOK /\ OpsOK(op)
               /\ owned \subseteq Ops /\ forced \subseteq Ops
               /\ backend \in [Ops -> BackendType] /\ waiter \in [Waiters -> WaiterType]
  BY DEF TypeOK, IndexOK, OpsOK, OpRecord, Consistent, WaiterType, BackendType

-----------------------------------------------------------------------------
(* The inductive invariant.                                                *)

\* Operations that somebody works with, or that drive a backend, have been
\* created: they have a key and a session id.
Created ==
    \A o \in Ops : /\ o \in owned \/ backend[o] # "none" => op[o].key # None
                   /\ op[o].key # None => op[o].id # None

\* The operation a key points to is the one of that key that is not cleared.
Holders ==
    /\ \A k \in Keys : activeRunsByKey[k] # None =>
           op[activeRunsByKey[k]].key = k /\ ~op[activeRunsByKey[k]].cleared
    /\ \A o \in Ops : op[o].key # None /\ ~op[o].cleared => activeRunsByKey[op[o].key] = o

\* Who waits, waits for the end of an operation that is there.
WaitersWait ==
    \A w \in Waiters : waiter[w].status = "waiting" =>
        waiter[w].key \in Keys /\ activeRunsByKey[waiter[w].key] # None

\* A backend is attached to an operation past its queued phase, and unless
\* recovery forced it, to one that still holds its key.
BackendsHold ==
    \A o \in Ops : HasBackend(o) => /\ op[o].phase # "queued"
                                    /\ o \notin forced => ~op[o].cleared

Inv == /\ TypeOK /\ Created /\ Holders /\ IndexesAgree /\ WaitersWait
       /\ EndReachesBackend /\ BackendsHold

\* The step of SuccessorIsSafe.
SuccessorKept ==
    \A k \in Keys :
        LET o == activeRunsByKey[k]
        IN  o # None /\ activeRunsByKey'[k] # o => ~op[o].cleared /\ op'[o].cleared

LEMMA InitInv == Init => Inv
<1> SUFFICES ASSUME Init PROVE Inv
  OBVIOUS
<1>1. TypeOK
  BY DEF Init, TypeOK, NoOp, Phases, Results
<1>2. \A o \in Ops : op[o] = NoOp /\ backend[o] = "none" /\ o \notin owned
  BY DEF Init
<1>3. Created /\ EndReachesBackend /\ BackendsHold
  BY <1>2 DEF Created, EndReachesBackend, BackendsHold, HasBackend, NoOp
<1>4. Holders /\ IndexesAgree /\ WaitersWait
  BY <1>2 DEF Init, Holders, IndexesAgree, WaitersWait, NoOp
<1> QED
  BY <1>1, <1>3, <1>4 DEF Inv

-----------------------------------------------------------------------------
(* clearState.                                                             *)

\* The closures ops are those of op but for phase, result and signal, and those
\* of C are over.
Follows(ops, C) ==
    /\ OpsOK(ops)
    /\ \A o \in Ops : /\ ops[o].key = op[o].key /\ ops[o].id = op[o].id
                      /\ ops[o].cleared = op[o].cleared
    /\ \A o \in C : ops[o].phase = "over"

\* What clearing the operations of C does to the closures.
LEMMA ClearedOps ==
    ASSUME Inv, NEW C \in SUBSET Ops, NEW ops, Follows(ops, C), ClearState(C, ops)
    PROVE  /\ OpsOK(op')
           /\ \A o \in Ops : /\ op'[o].key = op[o].key /\ op'[o].id = op[o].id
                             /\ op'[o].phase = ops[o].phase /\ op'[o].result = ops[o].result
                             /\ op'[o].cleared <=> op[o].cleared \/ o \in C
<1> DEFINE D == ToClear(C)
<1>1. op' = [o \in Ops |-> IF o \in D THEN [ops[o] EXCEPT !.cleared = TRUE] ELSE ops[o]]
  BY DEF ClearState
<1>2. /\ ops \in [Ops -> OpRecord] /\ \A o \in Ops : Consistent(ops[o])
      /\ \A o \in D : ops[o].phase = "over"
      /\ \A o \in Ops : o \in D <=> o \in C /\ ~op[o].cleared
  BY DEF Follows, OpsOK, ToClear
<1>3. \A o \in Ops : op[o].cleared \in BOOLEAN
  BY TypeParts DEF Inv, OpsOK, OpRecord
<1> HIDE DEF D
<1>4. ASSUME NEW o \in Ops
      PROVE  /\ op'[o] \in OpRecord /\ Consistent(op'[o])
             /\ op'[o].key = ops[o].key /\ op'[o].id = ops[o].id
             /\ op'[o].phase = ops[o].phase /\ op'[o].result = ops[o].result
             /\ op'[o].cleared = (ops[o].cleared \/ o \in D)
  <2>1. CASE o \in D
    <3>1. op'[o] = [ops[o] EXCEPT !.cleared = TRUE]
      BY <1>1, <2>1
    <3> QED
      BY <1>2, <2>1, <3>1 DEF OpRecord, Consistent
  <2>2. CASE o \notin D
    <3>1. op'[o] = ops[o] /\ ops[o].cleared \in BOOLEAN
      BY <1>1, <1>2, <2>2 DEF OpRecord
    <3> QED
      BY <1>2, <2>2, <3>1
  <2> QED
    BY <2>1, <2>2
<1>5. OpsOK(op')
  BY <1>1, <1>4 DEF OpsOK
<1> QED
  BY <1>2, <1>3, <1>4, <1>5 DEF Follows

\* Clearing operations keeps the maps consistent with the closures.
LEMMA ClearKeeps ==
    ASSUME Inv, NEW C \in SUBSET Ops, \A o \in C : op[o].key # None,
           NEW ops, Follows(ops, C), ClearState(C, ops)
    PROVE  /\ IndexOK' /\ waiter' \in [Waiters -> WaiterType]
           /\ Holders' /\ IndexesAgree' /\ WaitersWait'
           /\ \A k \in Keys : activeRunsByKey[k] # None /\ activeRunsByKey'[k] # activeRunsByKey[k]
                                  => op'[activeRunsByKey[k]].cleared
<1> DEFINE D == ToClear(C)
           keys == {op[o].key : o \in D}
<1>1. /\ activeRunsByKey' = [k \in Keys |-> IF k \in keys THEN None ELSE activeRunsByKey[k]]
      /\ activeSessionIdsByKey' = [k \in Keys |->
             IF k \in keys THEN None ELSE activeSessionIdsByKey[k]]
      /\ activeKeysBySessionId' = [s \in SessionIds |->
             IF DropsSessionId(D, s) THEN None ELSE activeKeysBySessionId[s]]
      /\ waitKeysBySessionId' = [s \in SessionIds |->
             IF waitKeysBySessionId[s] \in keys THEN None ELSE waitKeysBySessionId[s]]
      /\ NotifyReplyRunEnded(D)
  BY DEF ClearState
<1>2. \A o \in Ops : /\ op'[o].key = op[o].key /\ op'[o].id = op[o].id
                     /\ op'[o].cleared <=> op[o].cleared \/ o \in C
  BY ClearedOps
<1>3. \A o \in Ops : o \in D <=> o \in C /\ ~op[o].cleared
  BY DEF ToClear
<1>4. IndexOK /\ OpsOK(op) /\ waiter \in [Waiters -> WaiterType]
  BY TypeParts DEF Inv
<1>5. D \subseteq Ops /\ \A o \in D : op[o].key \in Keys /\ activeRunsByKey[op[o].key] = o
  BY <1>3, <1>4 DEF Inv, Holders, OpsOK, OpRecord, ToClear
<1>6. /\ \A k \in keys : \E o \in D : op[o].key = k
      /\ \A o \in D : op[o].key \in keys
  OBVIOUS
<1> HIDE DEF D, keys
<1>7. IndexOK'
  BY <1>1, <1>4 DEF IndexOK
<1>8. waiter' \in [Waiters -> WaiterType]
  BY <1>1, <1>4 DEF NotifyReplyRunEnded, WaiterType
<1>9. \A k \in Keys : activeRunsByKey[k] # None /\ op[activeRunsByKey[k]].key = k
                          => (k \in keys <=> activeRunsByKey[k] \in D)
  BY <1>5, <1>6
<1>10. \A k \in Keys : activeRunsByKey[k] \in Ops \cup {None}
  BY <1>4 DEF IndexOK
<1>11. \A k \in Keys : activeRunsByKey[k] # None =>
           op[activeRunsByKey[k]].key = k /\ ~op[activeRunsByKey[k]].cleared
  BY DEF Inv, Holders
<1>12. Holders'
  <2>1. ASSUME NEW k \in Keys, activeRunsByKey'[k] # None
        PROVE  op'[activeRunsByKey'[k]].key = k /\ ~op'[activeRunsByKey'[k]].cleared
    <3>1. k \notin keys /\ activeRunsByKey'[k] = activeRunsByKey[k]
      BY <1>1, <2>1
    <3> QED
      BY <1>2, <1>3, <1>9, <1>10, <1>11, <2>1, <3>1
  <2>2. ASSUME NEW o \in Ops, op'[o].key # None, ~op'[o].cleared
        PROVE  activeRunsByKey'[op'[o].key] = o
    <3>1. op[o].key # None /\ ~op[o].cleared /\ o \notin D
      BY <1>2, <1>3, <2>2
    <3>2. op[o].key \in Keys /\ activeRunsByKey[op[o].key] = o
      BY <1>4, <3>1 DEF Inv, Holders, OpsOK, OpRecord
    <3>3. op[o].key \notin keys
      BY <1>5, <1>6, <3>1, <3>2
    <3> QED
      BY <1>1, <1>2, <3>2, <3>3
  <2> QED
    BY <2>1, <2>2 DEF Holders
<1>13. ASSUME NEW k \in Keys, activeRunsByKey[k] # None, k \notin keys
       PROVE  ~DropsSessionId(D, op[activeRunsByKey[k]].id)
  <2>1. activeKeysBySessionId[op[activeRunsByKey[k]].id] = k
    BY <1>13 DEF Inv, IndexesAgree
  <2> QED
    BY <1>6, <1>13, <2>1 DEF DropsSessionId
<1>14. IndexesAgree'
  <2>1. ASSUME NEW k \in Keys, activeRunsByKey'[k] = None
        PROVE  activeSessionIdsByKey'[k] = None
    BY <1>1, <2>1 DEF Inv, IndexesAgree
  <2>2. ASSUME NEW k \in Keys, activeRunsByKey'[k] # None
        PROVE  /\ op'[activeRunsByKey'[k]].key = k
               /\ activeSessionIdsByKey'[k] = op'[activeRunsByKey'[k]].id
               /\ activeKeysBySessionId'[op'[activeRunsByKey'[k]].id] = k
    <3>1. PICK o \in Ops : activeRunsByKey[k] = o /\ activeRunsByKey'[k] = o /\ o # None
      BY <1>1, <1>10, <2>2
    <3>2. k \notin keys
      BY <1>1, <2>2
    <3>3. /\ op[o].key = k /\ activeSessionIdsByKey[k] = op[o].id
          /\ activeKeysBySessionId[op[o].id] = k
      BY <3>1 DEF Inv, IndexesAgree
    <3>4. op[o].id \in SessionIds
      BY <1>4, <3>3, NoneAssumption DEF Inv, Created, OpsOK, OpRecord
    <3>5. op'[o].key = k /\ op'[o].id = op[o].id
      BY <1>2, <3>3
    <3>6. ~DropsSessionId(D, op[o].id)
      BY <1>13, <3>1, <3>2
    <3>7. activeKeysBySessionId'[op[o].id] = k
      BY <1>1, <3>3, <3>4, <3>6
    <3>8. activeSessionIdsByKey'[k] = op[o].id
      BY <1>1, <3>2, <3>3
    <3> QED
      BY <3>1, <3>5, <3>7, <3>8
  <2>3. ASSUME NEW s \in SessionIds, activeKeysBySessionId'[s] # None
        PROVE  activeSessionIdsByKey'[activeKeysBySessionId'[s]] = s
    <3>1. PICK k : /\ k = activeKeysBySessionId[s] /\ activeKeysBySessionId'[s] = k
                   /\ k # None /\ ~DropsSessionId(D, s)
      BY <1>1, <2>3
    <3>2. k \in Keys /\ activeSessionIdsByKey[k] = s
      BY <1>4, <3>1 DEF IndexOK, Inv, IndexesAgree
    <3>3. k \notin keys
      <4> SUFFICES ASSUME k \in keys PROVE FALSE
        OBVIOUS
      <4>1. PICK o \in D : op[o].key = k
        BY <1>6
      <4>2. activeRunsByKey[k] = o /\ o \in Ops /\ o # None
        BY <1>5, <4>1, NoneAssumption
      <4>3. op[o].id = s
        BY <3>2, <4>2 DEF Inv, IndexesAgree
      <4> QED
        BY <3>1, <4>1, <4>3 DEF DropsSessionId
    <3> QED
      BY <1>1, <3>1, <3>2, <3>3
  <2> QED
    BY <2>1, <2>2, <2>3 DEF IndexesAgree
<1>15. WaitersWait'
  <2> SUFFICES ASSUME NEW w \in Waiters, waiter'[w].status = "waiting"
               PROVE  waiter'[w].key \in Keys /\ activeRunsByKey'[waiter'[w].key] # None
    BY DEF WaitersWait
  <2>1. /\ waiter'[w] = waiter[w] /\ waiter[w].status = "waiting"
        /\ ~\E o \in D : op[o].key = waiter[w].key
    BY <1>1, <1>4 DEF NotifyReplyRunEnded, WaiterType
  <2>2. waiter[w].key \in Keys /\ activeRunsByKey[waiter[w].key] # None
    BY <2>1 DEF Inv, WaitersWait
  <2>3. waiter[w].key \notin keys
    BY <1>6, <2>1
  <2> QED
    BY <1>1, <2>1, <2>2, <2>3
<1>16. ASSUME NEW k \in Keys, activeRunsByKey[k] # None, activeRunsByKey'[k] # activeRunsByKey[k]
       PROVE  op'[activeRunsByKey[k]].cleared
  <2>1. k \in keys
    BY <1>1, <1>16
  <2>2. activeRunsByKey[k] \in D
    BY <1>9, <1>11, <1>16, <2>1
  <2> QED
    BY <1>2, <1>3, <1>5, <2>2
<1> QED
  BY <1>7, <1>8, <1>12, <1>14, <1>15, <1>16

\* What a call that clears the operations of C owes besides: the creators and
\* forced clears it records, and the backends it leaves.
LEMMA ClearStep ==
    ASSUME Inv, NEW C \in SUBSET Ops, \A o \in C : op[o].key # None,
           NEW ops, Follows(ops, C), ClearState(C, ops),
           owned' \subseteq owned, forced' \subseteq Ops,
           backend' \in [Ops -> BackendType],
           \A o \in Ops : backend'[o] # "none" => backend[o] # "none",
           \A o \in Ops \ forced' : ops[o].result # "none" => backend'[o] # "live",
           \A o \in Ops : HasBackend(o)' =>
               /\ ops[o].phase # "queued"
               /\ o \notin forced' => ~op[o].cleared /\ o \notin C
    PROVE  Inv' /\ SuccessorKept
<1>1. /\ IndexOK' /\ waiter' \in [Waiters -> WaiterType]
      /\ Holders' /\ IndexesAgree' /\ WaitersWait'
      /\ \A k \in Keys : activeRunsByKey[k] # None /\ activeRunsByKey'[k] # activeRunsByKey[k]
                             => op'[activeRunsByKey[k]].cleared
  BY ClearKeeps
<1>2. /\ OpsOK(op')
      /\ \A o \in Ops : /\ op'[o].key = op[o].key /\ op'[o].id = op[o].id
                        /\ op'[o].phase = ops[o].phase /\ op'[o].result = ops[o].result
                        /\ op'[o].cleared <=> op[o].cleared \/ o \in C
  BY ClearedOps
<1>3. owned' \subseteq Ops
  BY DEF Inv, TypeOK
<1>4. TypeOK'
  <2>1. /\ IndexOK' /\ OpsOK(op)' /\ owned' \subseteq Ops /\ forced' \subseteq Ops
        /\ backend' \in [Ops -> BackendType] /\ waiter' \in [Waiters -> WaiterType]
    BY <1>1, <1>2, <1>3 DEF OpsOK
  <2> QED
    BY <2>1 DEF TypeOK, IndexOK, OpsOK, OpRecord, Consistent, WaiterType, BackendType
<1>5. Created'
  <2>1. \A o \in Ops : /\ o \in owned \/ backend[o] # "none" => op[o].key # None
                       /\ op[o].key # None => op[o].id # None
    BY DEF Inv, Created
  <2> QED
    BY <1>2, <2>1 DEF Created
<1>6. EndReachesBackend'
  BY <1>2 DEF EndReachesBackend
<1>7. BackendsHold'
  BY <1>2 DEF BackendsHold, HasBackend
<1>8. SuccessorKept
  BY <1>1 DEF Inv, Holders, SuccessorKept
<1> QED
  BY <1>1, <1>4, <1>5, <1>6, <1>7, <1>8 DEF Inv

\* A call that leaves the maps and the waiters alone, and of the closures
\* changes phases, results and signals only.
LEMMA IndexKept ==
    ASSUME Inv, OpsOK(op'),
           \A o \in Ops : /\ op'[o].key = op[o].key /\ op'[o].id = op[o].id
                          /\ op'[o].cleared = op[o].cleared,
           UNCHANGED <<index, owned, forced, waiter>>,
           backend' \in [Ops -> BackendType],
           \A o \in Ops : backend'[o] # "none" => op[o].key # None,
           EndReachesBackend', BackendsHold'
    PROVE  Inv'
<1>1. /\ activeRunsByKey' = activeRunsByKey
      /\ activeSessionIdsByKey' = activeSessionIdsByKey
      /\ activeKeysBySessionId' = activeKeysBySessionId
      /\ waitKeysBySessionId' = waitKeysBySessionId
      /\ owned' = owned /\ forced' = forced /\ waiter' = waiter
  BY DEF index
<1>2. TypeOK'
  <2>1. /\ IndexOK /\ owned \subseteq Ops /\ forced \subseteq Ops
        /\ waiter \in [Waiters -> WaiterType]
    BY TypeParts DEF Inv
  <2> QED
    BY <1>1, <2>1 DEF TypeOK, IndexOK, OpsOK, OpRecord, Consistent, WaiterType, BackendType
<1>3. Created'
  <2>1. \A o \in Ops : /\ o \in owned => op[o].key # None
                       /\ op[o].key # None => op[o].id # None
    BY DEF Inv, Created
  <2> QED
    BY <1>1, <2>1 DEF Created
<1>4. \A k \in Keys : activeRunsByKey[k] # None => activeRunsByKey[k] \in Ops
  BY DEF Inv, TypeOK
<1>5. Holders'
  BY <1>1, <1>4 DEF Inv, Holders
<1>6. IndexesAgree'
  <2>1. ASSUME NEW k \in Keys, activeRunsByKey[k] # None
        PROVE  /\ op'[activeRunsByKey[k]].key = k
               /\ activeSessionIdsByKey[k] = op'[activeRunsByKey[k]].id
               /\ activeKeysBySessionId[op'[activeRunsByKey[k]].id] = k
    BY <1>4, <2>1 DEF Inv, IndexesAgree
  <2>2. /\ \A k \in Keys : activeRunsByKey[k] = None => activeSessionIdsByKey[k] = None
        /\ \A s \in SessionIds : activeKeysBySessionId[s] # None =>
               activeSessionIdsByKey[activeKeysBySessionId[s]] = s
    BY DEF Inv, IndexesAgree
  <2> QED
    BY <1>1, <2>1, <2>2 DEF IndexesAgree
<1>7. WaitersWait'
  BY <1>1 DEF Inv, WaitersWait
<1> QED
  BY <1>2, <1>3, <1>5, <1>6, <1>7 DEF Inv

-----------------------------------------------------------------------------
(* The calls.                                                              *)

LEMMA CreateKeeps ==
    ASSUME Inv, NEW o \in Ops, NEW k \in Keys, NEW s \in SessionIds,
           CreateReplyOperation(o, k, s)
    PROVE  Inv'
<1>1. /\ op[o] = NoOp /\ activeRunsByKey[k] = None /\ activeKeysBySessionId[s] = None
      /\ owned' = owned \cup {o} /\ backend' = backend /\ forced' = forced
      /\ waiter' = waiter
      /\ activeRunsByKey' = [activeRunsByKey EXCEPT ![k] = o]
      /\ activeSessionIdsByKey' = [activeSessionIdsByKey EXCEPT ![k] = s]
      /\ activeKeysBySessionId' = [activeKeysBySessionId EXCEPT ![s] = k]
      /\ waitKeysBySessionId' = [waitKeysBySessionId EXCEPT ![s] = k]
  BY DEF CreateReplyOperation
<1>2. /\ IndexOK /\ OpsOK(op) /\ owned \subseteq Ops /\ forced \subseteq Ops
      /\ backend \in [Ops -> BackendType] /\ waiter \in [Waiters -> WaiterType]
  BY TypeParts DEF Inv
<1>3. k # None /\ s # None /\ o # None
  BY NoneAssumption
<1>4. /\ op'[o] = [NoOp EXCEPT !.key = k, !.id = s]
      /\ \A p \in Ops \ {o} : op'[p] = op[p]
      /\ op' \in [Ops -> OpRecord]
  <2>1. [NoOp EXCEPT !.key = k, !.id = s] \in OpRecord
    BY DEF NoOp, OpRecord, Phases, Results
  <2> QED
    BY <1>2, <2>1 DEF CreateReplyOperation, OpsOK
<1>5. /\ op[o].key = None /\ op[o].phase = "queued" /\ ~op[o].cleared
      /\ op'[o].key = k /\ op'[o].id = s /\ op'[o].phase = "queued"
      /\ op'[o].result = "none" /\ ~op'[o].cleared
  BY <1>1, <1>4 DEF NoOp
<1>6. TypeOK'
  <2>1. IndexOK'
    BY <1>1, <1>2 DEF IndexOK
  <2>2. \A p \in Ops : Consistent(op'[p])
    BY <1>2, <1>4, <1>5 DEF OpsOK, Consistent
  <2>3. OpsOK(op)'
    BY <1>4, <2>2 DEF OpsOK
  <2> QED
    BY <1>1, <1>2, <2>1, <2>3
       DEF TypeOK, IndexOK, OpsOK, OpRecord, Consistent, WaiterType, BackendType
<1>7. Created'
  <2> SUFFICES ASSUME NEW p \in Ops
               PROVE  /\ p \in owned' \/ backend'[p] # "none" => op'[p].key # None
                      /\ op'[p].key # None => op'[p].id # None
    BY DEF Created
  <2>1. CASE p = o
    BY <1>3, <1>5, <2>1
  <2>2. CASE p # o
    <3>1. op'[p] = op[p] /\ (p \in owned' => p \in owned) /\ backend' = backend
      BY <1>1, <1>4, <2>2
    <3> QED
      BY <3>1 DEF Inv, Created
  <2> QED
    BY <2>1, <2>2
<1>8. \A j \in Keys : activeRunsByKey[j] # None =>
          /\ activeRunsByKey[j] \in Ops \ {o} /\ j # k
          /\ op'[activeRunsByKey[j]] = op[activeRunsByKey[j]]
  <2> SUFFICES ASSUME NEW j \in Keys, activeRunsByKey[j] # None
               PROVE  activeRunsByKey[j] \in Ops \ {o} /\ j # k
    BY <1>4
  <2>1. activeRunsByKey[j] \in Ops /\ op[activeRunsByKey[j]].key = j
    BY <1>2 DEF IndexOK, Inv, Holders
  <2> QED
    BY <1>1, <1>5, <2>1, NoneAssumption
<1>9. Holders'
  <2>1. ASSUME NEW j \in Keys, activeRunsByKey'[j] # None
        PROVE  op'[activeRunsByKey'[j]].key = j /\ ~op'[activeRunsByKey'[j]].cleared
    <3>1. CASE j = k
      BY <1>1, <1>2, <1>5, <3>1 DEF IndexOK
    <3>2. CASE j # k
      BY <1>1, <1>2, <1>8, <2>1, <3>2 DEF IndexOK, Inv, Holders
    <3> QED
      BY <3>1, <3>2
  <2>2. ASSUME NEW p \in Ops, op'[p].key # None, ~op'[p].cleared
        PROVE  activeRunsByKey'[op'[p].key] = p
    <3>1. CASE p = o
      BY <1>1, <1>2, <1>5, <3>1 DEF IndexOK
    <3>2. CASE p # o
      <4>1. /\ op'[p] = op[p] /\ activeRunsByKey[op[p].key] = p /\ p # None
            /\ op[p].key \in Keys
        BY <1>2, <1>4, <2>2, <3>2, NoneAssumption DEF Inv, Holders, OpsOK, OpRecord
      <4>2. op[p].key # k
        BY <1>1, <4>1
      <4> QED
        BY <1>1, <1>2, <4>1, <4>2 DEF IndexOK
    <3> QED
      BY <3>1, <3>2
  <2> QED
    BY <2>1, <2>2 DEF Holders
<1>10. IndexesAgree'
  <2>1. ASSUME NEW j \in Keys, activeRunsByKey'[j] = None
        PROVE  activeSessionIdsByKey'[j] = None
    BY <1>1, <1>2, <1>3, <2>1 DEF IndexOK, Inv, IndexesAgree
  <2>2. ASSUME NEW j \in Keys, activeRunsByKey'[j] # None
        PROVE  /\ op'[activeRunsByKey'[j]].key = j
               /\ activeSessionIdsByKey'[j] = op'[activeRunsByKey'[j]].id
               /\ activeKeysBySessionId'[op'[activeRunsByKey'[j]].id] = j
    <3>1. CASE j = k
      BY <1>1, <1>2, <1>5, <3>1 DEF IndexOK
    <3>2. CASE j # k
      <4>1. /\ activeRunsByKey'[j] = activeRunsByKey[j]
            /\ activeSessionIdsByKey'[j] = activeSessionIdsByKey[j]
        BY <1>1, <1>2, <3>2 DEF IndexOK
      <4>2. PICK p \in Ops : activeRunsByKey[j] = p /\ op'[p] = op[p] /\ p # None
        BY <1>8, <2>2, <4>1
      <4>3. /\ op[p].key = j /\ activeSessionIdsByKey[j] = op[p].id
            /\ activeKeysBySessionId[op[p].id] = j
        BY <4>2 DEF Inv, IndexesAgree
      <4>4. op[p].id \in SessionIds /\ op[p].id # s
        BY <1>1, <1>2, <4>3, NoneAssumption DEF Inv, Created, OpsOK, OpRecord
      <4>5. activeKeysBySessionId'[op[p].id] = j
        BY <1>1, <1>2, <4>3, <4>4 DEF IndexOK
      <4> QED
        BY <4>1, <4>2, <4>3, <4>5
    <3> QED
      BY <3>1, <3>2
  <2>3. ASSUME NEW t \in SessionIds, activeKeysBySessionId'[t] # None
        PROVE  activeSessionIdsByKey'[activeKeysBySessionId'[t]] = t
    <3>1. CASE t = s
      BY <1>1, <1>2, <3>1 DEF IndexOK
    <3>2. CASE t # s
      <4>1. PICK j : /\ j = activeKeysBySessionId[t] /\ j = activeKeysBySessionId'[t]
                     /\ j # None
        BY <1>1, <1>2, <2>3, <3>2 DEF IndexOK
      <4>2. j \in Keys /\ activeSessionIdsByKey[j] = t
        <5>1. activeKeysBySessionId[t] \in Keys \cup {None}
          BY <1>2 DEF IndexOK
        <5> QED
          BY <4>1, <5>1 DEF Inv, IndexesAgree
      <4>3. j # k
        BY <1>1, <4>2, NoneAssumption DEF Inv, IndexesAgree
      <4> QED
        BY <1>1, <1>2, <4>1, <4>2, <4>3 DEF IndexOK
    <3> QED
      BY <3>1, <3>2
  <2> QED
    BY <2>1, <2>2, <2>3 DEF IndexesAgree
<1>11. WaitersWait'
  BY <1>1, <1>2, <1>3 DEF Inv, WaitersWait, IndexOK
<1>12. EndReachesBackend'
  BY <1>1, <1>4, <1>5 DEF Inv, EndReachesBackend
<1>13. BackendsHold'
  <2>1. backend[o] = "none"
    BY <1>5 DEF Inv, Created
  <2> QED
    BY <1>1, <1>4, <2>1 DEF Inv, BackendsHold, HasBackend
<1> QED
  BY <1>6, <1>7, <1>9, <1>10, <1>11, <1>12, <1>13 DEF Inv

LEMMA SetPhaseKeeps ==
    ASSUME Inv, NEW o \in Ops, NEW phase \in {"compacting", "running"}, SetPhase(o, phase)
    PROVE  Inv'
<1>1. /\ OpsOK(op) /\ backend \in [Ops -> BackendType] /\ op[o].key # None
      /\ UNCHANGED <<index, owned, backend, forced, waiter>>
  BY TypeParts DEF Inv, SetPhase, Created
<1>2. op' = [op EXCEPT ![o].phase = IF op[o].result = "none" THEN phase ELSE @]
  BY DEF SetPhase
<1>3. /\ \A p \in Ops \ {o} : op'[p] = op[p]
      /\ op'[o] \in OpRecord /\ Consistent(op'[o])
      /\ op'[o].key = op[o].key /\ op'[o].id = op[o].id
      /\ op'[o].cleared = op[o].cleared /\ op'[o].result = op[o].result
      /\ op'[o].phase = "queued" => op[o].phase = "queued"
  <2>1. op[o] \in OpRecord /\ Consistent(op[o])
    BY <1>1 DEF OpsOK
  <2>2. CASE op[o].result = "none"
    <3>1. op'[o] = [op[o] EXCEPT !.phase = phase]
      BY <1>1, <1>2, <2>2 DEF OpsOK
    <3> QED
      BY <1>1, <1>2, <2>1, <2>2, <3>1 DEF OpsOK, OpRecord, Consistent, Phases
  <2>3. CASE op[o].result # "none"
    <3>1. op'[o] = op[o]
      BY <1>1, <1>2, <2>1, <2>3 DEF OpsOK, OpRecord
    <3> QED
      BY <1>1, <1>2, <2>1, <3>1 DEF OpsOK
  <2> QED
    BY <2>2, <2>3
<1>4. OpsOK(op')
  BY <1>1, <1>2, <1>3 DEF OpsOK
<1>5. EndReachesBackend'
  BY <1>1, <1>3 DEF Inv, EndReachesBackend
<1>6. BackendsHold'
  BY <1>1, <1>3 DEF Inv, BackendsHold, HasBackend
<1>7. \A p \in Ops : backend'[p] # "none" => op[p].key # None
  BY <1>1 DEF Inv, Created
<1> QED
  BY <1>1, <1>3, <1>4, <1>5, <1>6, <1>7, IndexKept

LEMMA UpstreamKeeps ==
    ASSUME Inv, NEW o \in Ops, UpstreamAborts(o)
    PROVE  Inv'
<1>1. /\ OpsOK(op) /\ backend \in [Ops -> BackendType]
      /\ UNCHANGED <<index, owned, backend, forced, waiter>>
      /\ op' = [op EXCEPT ![o].signalled = TRUE]
  BY TypeParts DEF Inv, UpstreamAborts
<1>2. \A p \in Ops : /\ op'[p] \in OpRecord /\ Consistent(op'[p])
                     /\ op'[p].key = op[p].key /\ op'[p].id = op[p].id
                     /\ op'[p].cleared = op[p].cleared
                     /\ op'[p].result = op[p].result /\ op'[p].phase = op[p].phase
  BY <1>1 DEF OpsOK, OpRecord, Consistent
<1>3. OpsOK(op')
  BY <1>1, <1>2 DEF OpsOK
<1>4. EndReachesBackend'
  BY <1>1, <1>2 DEF Inv, EndReachesBackend
<1>5. BackendsHold'
  BY <1>1, <1>2 DEF Inv, BackendsHold, HasBackend
<1>6. \A p \in Ops : backend'[p] # "none" => op[p].key # None
  BY <1>1 DEF Inv, Created
<1> QED
  BY <1>1, <1>2, <1>3, <1>4, <1>5, <1>6, IndexKept

\* attachBackend and detachBackend; an operation that is owned and has no
\* result holds its key, so that its backend counts as one of the session.
LEMMA BackendsKeep ==
    ASSUME Inv, NEW o \in Ops, AttachBackend(o) \/ DetachBackend(o)
    PROVE  Inv'
<1>1. /\ OpsOK(op) /\ backend \in [Ops -> BackendType]
      /\ UNCHANGED <<index, op, owned, forced, waiter>>
  BY TypeParts DEF Inv, AttachBackend, DetachBackend
<1>2. /\ op[o].key # None
      /\ \A p \in Ops \ {o} : backend'[p] = backend[p]
      /\ \/ backend'[o] = "none"
         \/ backend'[o] = Attached(o) /\ op[o].phase # "queued"
  BY <1>1 DEF AttachBackend, DetachBackend, Inv, Created
<1>3. /\ Attached(o) \in BackendType
      /\ Attached(o) = "live" => op[o].result = "none"
      /\ Attached(o) \in {"live", "cancelled"} => op[o].result = "none"
  BY DEF Attached, BackendType
<1>4. op[o].result = "none" => ~op[o].cleared
  BY <1>1 DEF OpsOK, Consistent
<1>5. backend' \in [Ops -> BackendType]
  BY <1>1, <1>3 DEF AttachBackend, DetachBackend, BackendType
<1>6. EndReachesBackend'
  BY <1>1, <1>2, <1>3 DEF Inv, EndReachesBackend
<1>7. BackendsHold'
  BY <1>1, <1>2, <1>3, <1>4 DEF Inv, BackendsHold, HasBackend
<1>8. \A p \in Ops : backend'[p] # "none" => op[p].key # None
  BY <1>1, <1>2 DEF Inv, Created
<1> QED
  BY <1>1, <1>5, <1>6, <1>7, <1>8, IndexKept

LEMMA UpdateKeeps ==
    ASSUME Inv, NEW o \in Ops, NEW s \in SessionIds, UpdateSessionId(o, s)
    PROVE  Inv'
<1> DEFINE k == op[o].key
           old == op[o].id
<1>1. /\ o \in owned /\ op[o].result = "none" /\ s # old
      /\ activeKeysBySessionId[s] \in {None, k}
      /\ op' = [op EXCEPT ![o].id = s]
      /\ activeSessionIdsByKey' = [activeSessionIdsByKey EXCEPT ![k] = s]
      /\ activeKeysBySessionId' = [activeKeysBySessionId EXCEPT ![old] = None, ![s] = k]
      /\ waitKeysBySessionId' = [waitKeysBySessionId EXCEPT ![old] = k, ![s] = k]
      /\ activeRunsByKey' = activeRunsByKey /\ owned' = owned /\ backend' = backend
      /\ forced' = forced /\ waiter' = waiter
  BY DEF UpdateSessionId, IdIsFree
<1>2. /\ IndexOK /\ OpsOK(op) /\ owned \subseteq Ops /\ forced \subseteq Ops
      /\ backend \in [Ops -> BackendType] /\ waiter \in [Waiters -> WaiterType]
  BY TypeParts DEF Inv
<1>3. k \in Keys /\ old \in SessionIds
  BY <1>1, <1>2 DEF Inv, Created, OpsOK, OpRecord
<1>4. /\ ~op[o].cleared /\ activeRunsByKey[k] = o /\ o # None /\ s # None
      /\ activeKeysBySessionId[old] = k /\ activeSessionIdsByKey[k] = old
  <2>1. op[o].cleared \in BOOLEAN /\ ~op[o].cleared
    BY <1>1, <1>2 DEF OpsOK, OpRecord, Consistent
  <2>2. activeRunsByKey[k] = o /\ o # None
    BY <1>3, <2>1, NoneAssumption DEF Inv, Holders
  <2> QED
    BY <1>3, <2>1, <2>2, NoneAssumption DEF Inv, IndexesAgree
<1>5. /\ \A p \in Ops : /\ op'[p] \in OpRecord /\ Consistent(op'[p])
                        /\ op'[p].key = op[p].key /\ op'[p].cleared = op[p].cleared
                        /\ op'[p].result = op[p].result /\ op'[p].phase = op[p].phase
                        /\ op'[p].id = IF p = o THEN s ELSE op[p].id
      /\ op' \in [Ops -> OpRecord]
  <2>1. \A p \in Ops : op[p] \in OpRecord /\ Consistent(op[p])
    BY <1>2 DEF OpsOK
  <2>2. \A p \in Ops \ {o} : op'[p] = op[p]
    BY <1>1, <1>2 DEF OpsOK
  <2>3. op'[o] = [op[o] EXCEPT !.id = s]
    BY <1>1, <1>2 DEF OpsOK
  <2>4. op'[o] \in OpRecord /\ Consistent(op'[o])
    BY <2>1, <2>3 DEF OpRecord, Consistent
  <2>5. /\ op'[o].key = op[o].key /\ op'[o].cleared = op[o].cleared
        /\ op'[o].result = op[o].result /\ op'[o].phase = op[o].phase /\ op'[o].id = s
    BY <2>1, <2>3 DEF OpRecord
  <2>6. op' \in [Ops -> OpRecord]
    BY <1>1, <1>2, <2>1, <2>2, <2>4 DEF OpsOK
  <2> QED
    BY <2>1, <2>2, <2>4, <2>5, <2>6
<1> HIDE DEF k, old
<1>6. TypeOK'
  <2>1. IndexOK'
    BY <1>1, <1>2, <1>3 DEF IndexOK
  <2>2. OpsOK(op)'
    BY <1>5 DEF OpsOK
  <2> QED
    BY <1>1, <1>2, <2>1, <2>2
       DEF TypeOK, IndexOK, OpsOK, OpRecord, Consistent, WaiterType, BackendType
<1>7. Created'
  BY <1>1, <1>4, <1>5 DEF Inv, Created
<1>8. Holders'
  <2>1. \A j \in Keys : activeRunsByKey[j] # None => activeRunsByKey[j] \in Ops
    BY <1>2 DEF IndexOK
  <2> QED
    BY <1>1, <1>5, <2>1 DEF Inv, Holders
<1>9. /\ \A j \in Keys : activeSessionIdsByKey'[j] = IF j = k THEN s ELSE activeSessionIdsByKey[j]
      /\ \A t \in SessionIds : activeKeysBySessionId'[t] =
             IF t = s THEN k ELSE IF t = old THEN None ELSE activeKeysBySessionId[t]
  BY <1>1, <1>2, <1>3 DEF IndexOK
<1>10. IndexesAgree'
  <2>1. ASSUME NEW j \in Keys, activeRunsByKey'[j] = None
        PROVE  activeSessionIdsByKey'[j] = None
    BY <1>1, <1>4, <1>9, <2>1 DEF Inv, IndexesAgree
  <2>2. ASSUME NEW j \in Keys, activeRunsByKey'[j] # None
        PROVE  /\ op'[activeRunsByKey'[j]].key = j
               /\ activeSessionIdsByKey'[j] = op'[activeRunsByKey'[j]].id
               /\ activeKeysBySessionId'[op'[activeRunsByKey'[j]].id] = j
    <3>1. CASE j = k
      <4>1. activeRunsByKey'[j] = o /\ op'[o].key = k /\ op'[o].id = s
        BY <1>1, <1>4, <1>5, <3>1 DEF k
      <4> QED
        BY <1>9, <3>1, <4>1
    <3>2. CASE j # k
      <4>1. PICK p \in Ops : activeRunsByKey[j] = p /\ activeRunsByKey'[j] = p /\ p # None
        BY <1>1, <1>2, <2>2 DEF IndexOK
      <4>2. /\ op[p].key = j /\ activeSessionIdsByKey[j] = op[p].id
            /\ activeKeysBySessionId[op[p].id] = j
        BY <4>1 DEF Inv, IndexesAgree
      <4>3. p # o /\ op'[p].key = j /\ op'[p].id = op[p].id
        BY <1>5, <3>2, <4>2 DEF k
      <4>4. op[p].id \in SessionIds
        BY <1>2, <4>2, NoneAssumption DEF Inv, Created, OpsOK, OpRecord
      <4>5. op[p].id # s /\ op[p].id # old
        BY <1>1, <1>4, <3>2, <4>2, NoneAssumption
      <4> QED
        BY <1>9, <3>2, <4>1, <4>2, <4>3, <4>4, <4>5
    <3> QED
      BY <3>1, <3>2
  <2>3. ASSUME NEW t \in SessionIds, activeKeysBySessionId'[t] # None
        PROVE  activeSessionIdsByKey'[activeKeysBySessionId'[t]] = t
    <3>1. CASE t = s
      BY <1>3, <1>9, <3>1
    <3>2. CASE t # s
      <4>1. PICK j \in Keys : /\ activeKeysBySessionId[t] = j /\ activeKeysBySessionId'[t] = j
                              /\ t # old
        BY <1>2, <1>9, <2>3, <3>2 DEF IndexOK
      <4>2. activeSessionIdsByKey[j] = t
        BY <4>1, NoneAssumption DEF Inv, IndexesAgree
      <4>3. j # k
        BY <1>4, <4>1, <4>2
      <4> QED
        BY <1>9, <4>1, <4>2, <4>3
    <3> QED
      BY <3>1, <3>2
  <2> QED
    BY <2>1, <2>2, <2>3 DEF IndexesAgree
<1>11. WaitersWait'
  BY <1>1 DEF Inv, WaitersWait
<1>12. EndReachesBackend'
  BY <1>1, <1>5 DEF Inv, EndReachesBackend
<1>13. BackendsHold'
  BY <1>1, <1>5 DEF Inv, BackendsHold, HasBackend
<1> QED
  BY <1>6, <1>7, <1>8, <1>10, <1>11, <1>12, <1>13 DEF Inv

\* Settling the operation o is what its clearing follows.
LEMMA SettleFollows ==
    ASSUME Inv, NEW o \in Ops, NEW result \in {"completed", "failed"}
    PROVE  /\ Follows([op EXCEPT ![o] = Settle(@, result)], {o})
           /\ \A p \in Ops \ {o} : [op EXCEPT ![o] = Settle(@, result)][p] = op[p]
           /\ [op EXCEPT ![o] = Settle(@, result)][o].phase = "over"
<1> DEFINE ops == [op EXCEPT ![o] = Settle(@, result)]
<1>1. OpsOK(op)
  BY TypeParts DEF Inv
<1>2. op[o] \in OpRecord /\ Consistent(op[o])
  BY <1>1 DEF OpsOK
<1>3. /\ ops[o] = Settle(op[o], result)
      /\ \A p \in Ops \ {o} : ops[p] = op[p]
  BY <1>1 DEF OpsOK
<1>4. /\ Settle(op[o], result) \in OpRecord /\ Consistent(Settle(op[o], result))
      /\ Settle(op[o], result).phase = "over"
      /\ Settle(op[o], result).key = op[o].key /\ Settle(op[o], result).id = op[o].id
      /\ Settle(op[o], result).cleared = op[o].cleared
  <2>1. CASE op[o].result = "none"
    <3>1. Settle(op[o], result) = [op[o] EXCEPT !.result = result, !.phase = "over"]
      BY <2>1 DEF Settle
    <3> QED
      BY <1>2, <3>1 DEF OpRecord, Consistent, Phases, Results
  <2>2. CASE op[o].result # "none"
    BY <1>2, <2>2 DEF Settle, Consistent
  <2> QED
    BY <2>1, <2>2
<1>5. ops \in [Ops -> OpRecord]
  BY <1>1, <1>4 DEF OpsOK
<1> HIDE DEF ops
<1>6. OpsOK(ops)
  BY <1>1, <1>3, <1>4, <1>5 DEF OpsOK
<1>7. Follows(ops, {o})
  BY <1>3, <1>4, <1>6 DEF Follows
<1>8. ops[o].phase = "over"
  BY <1>3, <1>4
<1> QED
  BY <1>3, <1>7, <1>8 DEF ops

\* fail and complete come from the creator, without a backend.
LEMMA EndKeeps ==
    ASSUME Inv, NEW o \in Ops, Fail(o) \/ Complete(o)
    PROVE  Inv' /\ SuccessorKept
<1>1. PICK result \in {"completed", "failed"} :
        /\ o \in owned /\ backend[o] = "none"
        /\ ClearState({o}, [op EXCEPT ![o] = Settle(@, result)])
        /\ owned' \subseteq owned /\ backend' = backend /\ forced' = forced
  BY DEF Fail, Complete
<1> DEFINE ops == [op EXCEPT ![o] = Settle(@, result)]
<1>2. /\ Follows(ops, {o}) /\ ClearState({o}, ops)
      /\ \A p \in Ops \ {o} : ops[p] = op[p]
  BY <1>1, SettleFollows
<1> HIDE DEF ops
<1>3. \A p \in {o} : op[p].key # None
  BY <1>1 DEF Inv, Created
<1>4. forced \subseteq Ops /\ backend \in [Ops -> BackendType]
  BY TypeParts DEF Inv
<1>5. \A p \in Ops \ forced' : ops[p].result # "none" => backend'[p] # "live"
  BY <1>1, <1>2 DEF Inv, EndReachesBackend
<1>6. \A p \in Ops : HasBackend(p)' =>
          ops[p].phase # "queued" /\ (p \notin forced' => ~op[p].cleared /\ p \notin {o})
  BY <1>1, <1>2 DEF Inv, BackendsHold, HasBackend
<1>7. {o} \in SUBSET Ops /\ forced' \subseteq Ops /\ backend' \in [Ops -> BackendType]
  BY <1>1, <1>4
<1>8. \A p \in Ops : backend'[p] # "none" => backend[p] # "none"
  BY <1>1
<1> QED
  BY <1>1, <1>2, <1>3, <1>5, <1>6, <1>7, <1>8, ClearStep

\* A forced clear leaves the backend to itself: the operation joins forced.
LEMMA ForceClearKeeps ==
    ASSUME Inv, NEW s \in SessionIds, ForceClear(s)
    PROVE  Inv' /\ SuccessorKept
<1>1. PICK o \in Ops :
        /\ \E k \in Keys : activeRunsByKey[k] = o
        /\ ClearState({o}, [op EXCEPT ![o] = Settle(@, "failed")])
        /\ forced' = forced \cup {o} /\ owned' = owned /\ backend' = backend
  <2>1. IndexOK
    BY TypeParts DEF Inv
  <2>2. activeKeysBySessionId[s] \in Keys
    BY <2>1 DEF IndexOK, ForceClear
  <2>3. activeRunsByKey[activeKeysBySessionId[s]] \in Ops
    BY <2>1, <2>2 DEF IndexOK, ForceClear
  <2> QED
    BY <2>2, <2>3 DEF ForceClear
<1> DEFINE ops == [op EXCEPT ![o] = Settle(@, "failed")]
<1>2. /\ Follows(ops, {o}) /\ ClearState({o}, ops)
      /\ \A p \in Ops \ {o} : ops[p] = op[p]
      /\ ops[o].phase = "over"
  BY <1>1, SettleFollows
<1> HIDE DEF ops
<1>3. \A p \in {o} : op[p].key # None
  BY <1>1, NoneAssumption DEF Inv, Holders
<1>4. forced \subseteq Ops /\ backend \in [Ops -> BackendType]
  BY TypeParts DEF Inv
<1>5. \A p \in Ops \ forced' : ops[p].result # "none" => backend'[p] # "live"
  BY <1>1, <1>2 DEF Inv, EndReachesBackend
<1>6. \A p \in Ops : HasBackend(p)' =>
          ops[p].phase # "queued" /\ (p \notin forced' => ~op[p].cleared /\ p \notin {o})
  BY <1>1, <1>2 DEF Inv, BackendsHold, HasBackend
<1>7. /\ {o} \in SUBSET Ops /\ forced' \subseteq Ops /\ backend' \in [Ops -> BackendType]
      /\ owned' \subseteq owned
  BY <1>1, <1>4
<1>8. \A p \in Ops : backend'[p] # "none" => backend[p] # "none"
  BY <1>1
<1> QED
  BY <1>2, <1>3, <1>5, <1>6, <1>7, <1>8, ClearStep

\* An abort cancels the live backends; the operations it clears are queued and
\* have none.
LEMMA AbortKeeps ==
    ASSUME Inv, NEW D \in SUBSET Ops, \A o \in D : op[o].key # None, Abort(D)
    PROVE  Inv' /\ SuccessorKept
<1> DEFINE ops == [o \in Ops |->
               IF o \in D THEN [Settle(op[o], "aborted") EXCEPT !.phase = "over",
                                                                !.signalled = TRUE]
               ELSE op[o]]
           C == StillQueued(D)
<1>1. /\ backend' = CancelBackends(D) /\ ClearState(C, ops)
      /\ owned' = owned /\ forced' = forced
  BY DEF Abort
<1>2. /\ OpsOK(op) /\ forced \subseteq Ops /\ backend \in [Ops -> BackendType]
  BY TypeParts DEF Inv
<1>3. C \in SUBSET Ops /\ C \subseteq D /\ \A o \in C : op[o].phase = "queued" /\ op[o].key # None
  BY DEF StillQueued
<1>4. ASSUME NEW o \in Ops
      PROVE  /\ ops[o] \in OpRecord /\ Consistent(ops[o])
             /\ ops[o].key = op[o].key /\ ops[o].id = op[o].id
             /\ ops[o].cleared = op[o].cleared
             /\ o \in D => ops[o].phase = "over"
             /\ o \notin D => ops[o] = op[o]
  <2>1. op[o] \in OpRecord /\ Consistent(op[o])
    BY <1>2 DEF OpsOK
  <2>2. CASE o \notin D
    BY <2>1, <2>2
  <2>3. CASE o \in D
    <3>1. ops[o] = [Settle(op[o], "aborted") EXCEPT !.phase = "over", !.signalled = TRUE]
      BY <2>3
    <3>2. CASE op[o].result = "none"
      <4>1. Settle(op[o], "aborted") = [op[o] EXCEPT !.result = "aborted", !.phase = "over"]
        BY <3>2 DEF Settle
      <4> QED
        BY <2>1, <2>3, <3>1, <4>1 DEF OpRecord, Consistent, Phases, Results
    <3>3. CASE op[o].result # "none"
      <4>1. Settle(op[o], "aborted") = op[o]
        BY <3>3 DEF Settle
      <4> QED
        BY <2>1, <2>3, <3>1, <3>3, <4>1 DEF OpRecord, Consistent, Phases
    <3> QED
      BY <3>2, <3>3
  <2> QED
    BY <2>2, <2>3
<1>5. ops \in [Ops -> OpRecord]
  BY <1>4
<1>6. /\ \A o \in Ops : /\ backend'[o] # "none" => backend[o] # "none"
                        /\ HasBackend(o)' => HasBackend(o)
                        /\ o \in D => backend'[o] # "live"
                        /\ o \notin D => backend'[o] = backend[o]
      /\ backend' \in [Ops -> BackendType]
  BY <1>1, <1>2 DEF CancelBackends, HasBackend, BackendType
<1> HIDE DEF ops, C
<1>7. Follows(ops, C)
  <2>1. OpsOK(ops)
    BY <1>4, <1>5 DEF OpsOK
  <2> QED
    BY <1>3, <1>4, <2>1 DEF Follows
<1>8. \A o \in Ops \ forced' : ops[o].result # "none" => backend'[o] # "live"
  BY <1>1, <1>4, <1>6 DEF Inv, EndReachesBackend
<1>9. ASSUME NEW o \in Ops, HasBackend(o)'
      PROVE  ops[o].phase # "queued" /\ (o \notin forced' => ~op[o].cleared /\ o \notin C)
  <2>1. op[o].phase # "queued" /\ (o \notin forced => ~op[o].cleared)
    BY <1>6, <1>9 DEF Inv, BackendsHold
  <2>2. o \notin C
    BY <1>3, <2>1
  <2>3. ops[o].phase # "queued"
    BY <1>4, <2>1
  <2> QED
    BY <1>1, <2>1, <2>2, <2>3
<1>10. owned' \subseteq owned /\ forced' \subseteq Ops
  BY <1>1, <1>2
<1>11. /\ \A o \in C : op[o].key # None
       /\ \A o \in Ops : backend'[o] # "none" => backend[o] # "none"
       /\ backend' \in [Ops -> BackendType] /\ C \in SUBSET Ops
  BY <1>3, <1>6
<1> QED
  BY <1>1, <1>7, <1>8, <1>9, <1>10, <1>11, ClearStep

\* waitForIdle, waitForReplyRunEndBySessionId and the timeouts of the waiters.
LEMMA WaitKeeps ==
    ASSUME Inv, NEW w \in Waiters,
           \/ \E k \in Keys : WaitForIdle(w, k)
           \/ \E s \in SessionIds : WaitForReplyRunEnd(w, s)
           \/ WaiterTimesOut(w)
    PROVE  Inv'
<1>1. /\ IndexOK /\ waiter \in [Waiters -> WaiterType]
  BY TypeParts DEF Inv
<1>2. ASSUME NEW k \in Keys, WaitForIdle(w, k)
      PROVE  /\ UNCHANGED <<index, op, owned, backend, forced>>
             /\ waiter' \in [Waiters -> WaiterType]
             /\ \A v \in Waiters \ {w} : waiter'[v] = waiter[v]
             /\ waiter'[w].status = "waiting" =>
                    waiter'[w].key \in Keys /\ activeRunsByKey[waiter'[w].key] # None
  <2> DEFINE new == [key |-> k, status |-> IF activeRunsByKey[k] = None THEN "ended"
                                                                        ELSE "waiting"]
  <2>1. waiter' = [waiter EXCEPT ![w] = new] /\ UNCHANGED <<index, op, owned, backend, forced>>
    BY <1>2 DEF WaitForIdle
  <2>2. /\ new \in WaiterType /\ new.key = k
        /\ new.status = "waiting" => activeRunsByKey[k] # None
    BY DEF WaiterType
  <2> HIDE DEF new
  <2> QED
    BY <1>1, <2>1, <2>2
<1>3. ASSUME NEW status \in {"ended", "gave-up"},
             waiter' = [waiter EXCEPT ![w].status = status]
      PROVE  /\ waiter' \in [Waiters -> WaiterType]
             /\ \A v \in Waiters \ {w} : waiter'[v] = waiter[v]
             /\ waiter'[w].status # "waiting"
  BY <1>1, <1>3 DEF WaiterType
<1>4. /\ UNCHANGED <<index, op, owned, backend, forced>>
      /\ waiter' \in [Waiters -> WaiterType]
      /\ \A v \in Waiters \ {w} : waiter'[v] = waiter[v]
      /\ waiter'[w].status = "waiting" =>
             waiter'[w].key \in Keys /\ activeRunsByKey[waiter'[w].key] # None
  <2>1. CASE \E k \in Keys : WaitForIdle(w, k)
    BY <1>2, <2>1
  <2>2. CASE \E s \in SessionIds : WaitForReplyRunEnd(w, s)
    <3>1. PICK s \in SessionIds : WaitForReplyRunEnd(w, s)
      BY <2>2
    <3>2. CASE WaitKey(s) # None /\ WaitForIdle(w, WaitKey(s))
      <4>1. WaitKey(s) \in Keys
        BY <1>1, <3>2 DEF IndexOK, WaitKey
      <4> QED
        BY <1>2, <3>2, <4>1
    <3>3. CASE /\ waiter' = [waiter EXCEPT ![w].status = "ended"]
               /\ UNCHANGED <<index, op, owned, backend, forced>>
      BY <1>3, <3>3
    <3> QED
      BY <3>1, <3>2, <3>3 DEF WaitForReplyRunEnd
  <2>3. CASE WaiterTimesOut(w)
    BY <1>3, <2>3 DEF WaiterTimesOut
  <2> QED
    BY <2>1, <2>2, <2>3
<1>5. TypeOK'
  BY <1>4 DEF Inv, TypeOK, index, WaiterType
<1>6. Created' /\ Holders' /\ IndexesAgree' /\ EndReachesBackend' /\ BackendsHold'
  BY <1>4 DEF Inv, index, Created, Holders, IndexesAgree, EndReachesBackend, BackendsHold,
              HasBackend
<1>7. WaitersWait'
  BY <1>4 DEF Inv, index, WaitersWait
<1> QED
  BY <1>5, <1>6, <1>7 DEF Inv

-----------------------------------------------------------------------------
(* The specification.                                                      *)

LEMMA NextInv == Inv /\ [Next]_vars => Inv' /\ (SuccessorKept \/ UNCHANGED vars)
<1> SUFFICES ASSUME Inv, [Next]_vars
             PROVE  Inv' /\ (SuccessorKept \/ UNCHANGED vars)
  OBVIOUS
<1>1. IndexOK
  BY TypeParts DEF Inv
<1>2. activeRunsByKey' = activeRunsByKey => SuccessorKept
  BY DEF SuccessorKept
<1>3. ASSUME NEW o \in Ops, NEW k \in Keys, NEW s \in SessionIds,
             CreateReplyOperation(o, k, s)
      PROVE  Inv' /\ SuccessorKept
  <2>1. Inv'
    BY <1>3, CreateKeeps
  <2>2. \A j \in Keys : activeRunsByKey[j] # None => activeRunsByKey'[j] = activeRunsByKey[j]
    BY <1>1, <1>3 DEF CreateReplyOperation, IndexOK
  <2> QED
    BY <2>1, <2>2 DEF SuccessorKept
<1>4. ASSUME NEW o \in Ops, NEW phase \in {"compacting", "running"}, SetPhase(o, phase)
      PROVE  Inv' /\ SuccessorKept
  BY <1>2, <1>4, SetPhaseKeeps DEF SetPhase, index
<1>5. ASSUME NEW o \in Ops, NEW s \in SessionIds, UpdateSessionId(o, s)
      PROVE  Inv' /\ SuccessorKept
  BY <1>2, <1>5, UpdateKeeps DEF UpdateSessionId
<1>6. ASSUME NEW o \in Ops, AttachBackend(o) \/ DetachBackend(o)
      PROVE  Inv' /\ SuccessorKept
  BY <1>2, <1>6, BackendsKeep DEF AttachBackend, DetachBackend, index
<1>7. ASSUME NEW o \in Ops, Fail(o) \/ Complete(o)
      PROVE  Inv' /\ SuccessorKept
  BY <1>7, EndKeeps
<1>8. ASSUME NEW o \in Ops, UpstreamAborts(o)
      PROVE  Inv' /\ SuccessorKept
  BY <1>2, <1>8, UpstreamKeeps DEF UpstreamAborts, index
<1>9. \A D \in SUBSET Ops : D \subseteq Active => \A o \in D : op[o].key # None
  BY NoneAssumption DEF Inv, Holders, Active
<1>10. ASSUME NEW k \in Keys, AbortByUser(k)
       PROVE  Inv' /\ SuccessorKept
  <2>1. /\ {activeRunsByKey[k]} \in SUBSET Ops /\ {activeRunsByKey[k]} \subseteq Active
        /\ Abort({activeRunsByKey[k]})
    BY <1>1, <1>10 DEF IndexOK, Active, AbortByUser
  <2> QED
    BY <1>9, <2>1, AbortKeeps
<1>11. ASSUME NEW D \in SUBSET Ops, AbortActiveReplyRuns(D)
       PROVE  Inv' /\ SuccessorKept
  <2>1. D \subseteq Active /\ Abort(D)
    BY <1>11 DEF AbortActiveReplyRuns
  <2> QED
    BY <1>9, <2>1, AbortKeeps
<1>12. ASSUME NEW s \in SessionIds, ForceClear(s)
       PROVE  Inv' /\ SuccessorKept
  BY <1>12, ForceClearKeeps
<1>13. ASSUME NEW w \in Waiters,
              \/ \E k \in Keys : WaitForIdle(w, k)
              \/ \E s \in SessionIds : WaitForReplyRunEnd(w, s)
              \/ WaiterTimesOut(w)
       PROVE  Inv' /\ SuccessorKept
  <2>1. Inv'
    BY <1>13, WaitKeeps
  <2>2. activeRunsByKey' = activeRunsByKey
    BY <1>13 DEF WaitForIdle, WaitForReplyRunEnd, WaiterTimesOut, index
  <2> QED
    BY <1>2, <2>1, <2>2
<1>14. CASE UNCHANGED vars
  BY <1>14 DEF vars, index, Inv, TypeOK, Created, Holders, IndexesAgree, WaitersWait,
               EndReachesBackend, BackendsHold, HasBackend
<1> QED
  BY <1>3, <1>4, <1>5, <1>6, <1>7, <1>8, <1>10, <1>11, <1>12, <1>13, <1>14 DEF Next

LEMMA AlwaysInv == Spec => []Inv
<1>1. Inv /\ [Next]_vars => Inv'
  BY NextInv
<1> QED
  BY InitInv, <1>1, PTL DEF Spec

\* The maps, the closures of the operations, the backends and the waiters are
\* what the code takes them for; an operation is over exactly if it has a
\* result.
THEOREM TypeCorrect == Spec => []TypeOK
<1>1. Inv => TypeOK
  BY DEF Inv
<1> QED
  BY AlwaysInv, <1>1, PTL

\* The three maps agree after rotations, aborts, forced clears and late calls.
THEOREM MapsAgree == Spec => []IndexesAgree
<1>1. Inv => IndexesAgree
  BY DEF Inv
<1> QED
  BY AlwaysInv, <1>1, PTL

\* Nobody waits for an operation that has ended.
THEOREM NobodyIsForgotten == Spec => []NoForgottenWaiter
<1>1. Inv => NoForgottenWaiter
  BY DEF Inv, WaitersWait, NoForgottenWaiter
<1> QED
  BY AlwaysInv, <1>1, PTL

\* An operation that is over drives no live backend, unless it was forced.
THEOREM EndsReachBackends == Spec => []EndReachesBackend
<1>1. Inv => EndReachesBackend
  BY DEF Inv
<1> QED
  BY AlwaysInv, <1>1, PTL

\* Two runs never touch one session, forced clears apart: a backend belongs to
\* the operation that holds the key.
THEOREM RunsDoNotOverlap == Spec => []OneRunPerSession
<1>1. Inv => OneRunPerSession
  <2> SUFFICES ASSUME Inv, NEW o \in Ops \ forced, NEW p \in Ops \ forced,
                      op[o].key = op[p].key, HasBackend(o), HasBackend(p)
               PROVE  o = p
    BY DEF OneRunPerSession
  <2>1. op[o].key # None /\ op[p].key # None
    BY DEF Inv, Created, HasBackend
  <2>2. ~op[o].cleared /\ ~op[p].cleared
    BY DEF Inv, BackendsHold
  <2> QED
    BY <2>1, <2>2 DEF Inv, Holders
<1> QED
  BY AlwaysInv, <1>1, PTL

\* The late end of an operation never clears its successor.
THEOREM SuccessorSafe == Spec => SuccessorIsSafe
<1>1. Inv /\ [Next]_vars => [SuccessorKept]_vars
  BY NextInv
<1>2. [SuccessorKept]_vars <=>
          [\A k \in Keys :
              LET o == activeRunsByKey[k]
              IN  o # None /\ activeRunsByKey'[k] # o
                      => ~op[o].cleared /\ op'[o].cleared]_vars
  BY DEF SuccessorKept
<1> QED
  BY AlwaysInv, <1>1, <1>2, PTL DEF Spec, SuccessorIsSafe
=============================================================================

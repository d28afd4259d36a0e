--------------------------- MODULE ReplyRunRegistry ---------------------------
(***************************************************************************)
(* The registry of reply operations,                                       *)
(* src/src/auto-reply/reply/reply-run-registry.ts: which operation runs    *)
(* the agent for a session key, under which session id, who waits for its  *)
(* end, and which backend it drives.  The code that created an operation   *)
(* goes on with it (phases, new session ids, backends, the end) while      *)
(* users and restarts abort it and recovery clears it by force, so most    *)
(* calls may come late, on an operation that has a successor already.      *)
(*                                                                         *)
(* Every function is synchronous: one call is one action.  An operation    *)
(* drives one backend at a time.  Diagnostics are left out.                *)
(***************************************************************************)
EXTENDS Naturals, FiniteSets

CONSTANTS
    Keys,       \* session keys
    SessionIds,
    Ops,        \* reply operations, each created once
    Waiters,    \* callers of waitForIdle and waitForReplyRunEndBySessionId
    None        \* a value in none of these sets

ASSUME NoneAssumption == None \notin Keys \cup SessionIds \cup Ops \cup Waiters

VARIABLES
    activeRunsByKey,        \* the maps of ReplyRunState
    activeSessionIdsByKey,
    activeKeysBySessionId,
    waitKeysBySessionId,
    op,         \* operation -> the variables of its closure
    owned,      \* operations whose creator is not done with them
    backend,    \* operation -> its backend: none, live, cancelled, or refused
    forced,     \* operations that recovery cleared by force
    waiter      \* waiter -> what it was told, and the key it waits for

index == <<activeRunsByKey, activeSessionIdsByKey, activeKeysBySessionId,
           waitKeysBySessionId>>
vars == <<index, op, owned, backend, forced, waiter>>

Phases == {"queued", "compacting", "running", "over"}
Results == {"none", "completed", "failed", "aborted"}
NoOp == [key |-> None, id |-> None, phase |-> "queued", result |-> "none",
         cleared |-> FALSE, signalled |-> FALSE]

\* Type correctness of the maps and of the operations that share them; an
\* operation is over exactly if it has a result, and cleared only then.
TypeOK ==
    /\ activeRunsByKey \in [Keys -> Ops \cup {None}]
    /\ activeSessionIdsByKey \in [Keys -> SessionIds \cup {None}]
    /\ activeKeysBySessionId \in [SessionIds -> Keys \cup {None}]
    /\ waitKeysBySessionId \in [SessionIds -> Keys \cup {None}]
    /\ op \in [Ops -> [key : Keys \cup {None}, id : SessionIds \cup {None},
                       phase : Phases, result : Results,
                       cleared : BOOLEAN, signalled : BOOLEAN]]
    /\ owned \subseteq Ops /\ forced \subseteq Ops
    /\ backend \in [Ops -> {"none", "live", "cancelled", "refused"}]
    /\ waiter \in [Waiters -> [status : {"idle", "waiting", "ended", "gave-up"},
                               key : Keys \cup {None}]]
    /\ \A o \in Ops : /\ op[o].result # "none" <=> op[o].phase = "over"
                      /\ op[o].cleared => op[o].phase = "over"

Init ==
    /\ activeRunsByKey = [k \in Keys |-> None]
    /\ activeSessionIdsByKey = [k \in Keys |-> None]
    /\ activeKeysBySessionId = [s \in SessionIds |-> None]
    /\ waitKeysBySessionId = [s \in SessionIds |-> None]
    /\ op = [o \in Ops |-> NoOp]
    /\ owned = {} /\ forced = {}
    /\ backend = [o \in Ops |-> "none"]
    /\ waiter = [w \in Waiters |-> [status |-> "idle", key |-> None]]

-----------------------------------------------------------------------------
(* The state every call shares.                                            *)

\* Mutant: the waiters are told nothing.
NotifyNobody(C) == waiter' = waiter

\* notifyReplyRunEnded for the keys of the operations C.
NotifyReplyRunEnded(C) ==
    waiter' = [w \in Waiters |->
        IF waiter[w].status = "waiting" /\ \E o \in C : op[o].key = waiter[w].key
        THEN [waiter[w] EXCEPT !.status = "ended"] ELSE waiter[w]]

\* Mutant: a cleared operation clears its key again.
ClearedTwice(C) == C

\* The operations of C whose clearState is the first one.
ToClear(C) == {o \in C : ~op[o].cleared}

\* clearReplyRunState deletes the entry of session id s.
DropsSessionId(C, s) ==
    \E o \in C : op[o].id = s /\ activeKeysBySessionId[s] = op[o].key

\* clearState of the operations C (after those of Ops that were cleared
\* before: stateCleared), and the new closures ops.
ClearState(C, ops) ==
    LET D == ToClear(C)
        keys == {op[o].key : o \in D}
    IN  /\ op' = [o \in Ops |-> IF o \in D THEN [ops[o] EXCEPT !.cleared = TRUE]
                                           ELSE ops[o]]
        /\ activeRunsByKey' = [k \in Keys |->
               IF k \in keys THEN None ELSE activeRunsByKey[k]]
        /\ activeSessionIdsByKey' = [k \in Keys |->
               IF k \in keys THEN None ELSE activeSessionIdsByKey[k]]
        /\ activeKeysBySessionId' = [s \in SessionIds |->
               IF DropsSessionId(D, s) THEN None ELSE activeKeysBySessionId[s]]
        /\ waitKeysBySessionId' = [s \in SessionIds |->
               IF waitKeysBySessionId[s] \in keys THEN None
                                                  ELSE waitKeysBySessionId[s]]
        /\ NotifyReplyRunEnded(D)

\* Mutant: the phase changes without a result.
PhaseOnly(c, result) == [c EXCEPT !.phase = "over"]

\* The closure c once it has a result; the first result stays.
Settle(c, result) ==
    IF c.result = "none" THEN [c EXCEPT !.result = result, !.phase = "over"] ELSE c

-----------------------------------------------------------------------------
(* The creator of an operation.                                            *)

\* createReplyOperation; it throws ReplyRunAlreadyActiveError for a key that
\* has an operation.  Sessions of different keys have different ids.
CreateReplyOperation(o, k, s) ==
    /\ op[o] = NoOp
    /\ activeRunsByKey[k] = None
    /\ activeKeysBySessionId[s] = None
    /\ op' = [op EXCEPT ![o] = [NoOp EXCEPT !.key = k, !.id = s]]
    /\ owned' = owned \cup {o}
    /\ activeRunsByKey' = [activeRunsByKey EXCEPT ![k] = o]
    /\ activeSessionIdsByKey' = [activeSessionIdsByKey EXCEPT ![k] = s]
    /\ activeKeysBySessionId' = [activeKeysBySessionId EXCEPT ![s] = k]
    /\ waitKeysBySessionId' = [waitKeysBySessionId EXCEPT ![s] = k]
    /\ UNCHANGED <<backend, forced, waiter>>

\* setPhase, ignored once there is a result.
SetPhase(o, phase) ==
    /\ o \in owned
    /\ op' = [op EXCEPT ![o].phase = IF op[o].result = "none" THEN phase ELSE @]
    /\ UNCHANGED <<index, owned, backend, forced, waiter>>

\* Mutant: another key's session id may be taken over.
AnyIdIsFree(o, s) == TRUE

\* Nobody else's operation runs under session id s.
IdIsFree(o, s) == activeKeysBySessionId[s] \in {None, op[o].key}

\* updateSessionId, after a compaction rotated the session; it throws unless
\* the id is free.
UpdateSessionId(o, s) ==
    LET k == op[o].key
        old == op[o].id
    IN  /\ o \in owned
        /\ op[o].result = "none" /\ s # old /\ IdIsFree(o, s)
        /\ op' = [op EXCEPT ![o].id = s]
        /\ activeSessionIdsByKey' = [activeSessionIdsByKey EXCEPT ![k] = s]
        /\ activeKeysBySessionId' =
               [activeKeysBySessionId EXCEPT ![old] = None, ![s] = k]
        /\ waitKeysBySessionId' =
               [waitKeysBySessionId EXCEPT ![old] = k, ![s] = k]
        /\ UNCHANGED <<activeRunsByKey, owned, backend, forced, waiter>>

\* Mutant: a backend that comes late is attached.
AttachedRegardless(o) == "live"

\* What becomes of a backend handed to operation o: cancelled at once and not
\* attached, attached and cancelled, or attached.
Attached(o) ==
    CASE op[o].result # "none" -> "refused"
      [] op[o].result = "none" /\ op[o].signalled -> "cancelled"
      [] OTHER -> "live"

\* attachBackend; the runners set a phase before they start a backend.
AttachBackend(o) ==
    /\ o \in owned
    /\ op[o].phase # "queued" /\ backend[o] = "none"
    /\ backend' = [backend EXCEPT ![o] = Attached(o)]
    /\ UNCHANGED <<index, op, owned, forced, waiter>>

\* The backend returned or has unwound: detachBackend.
DetachBackend(o) ==
    /\ backend[o] # "none"
    /\ backend' = [backend EXCEPT ![o] = "none"]
    /\ UNCHANGED <<index, op, owned, forced, waiter>>

\* fail, by the creator; it goes on to complete.
Fail(o) ==
    /\ o \in owned /\ backend[o] = "none"
    /\ ClearState({o}, [op EXCEPT ![o] = Settle(@, "failed")])
    /\ UNCHANGED <<owned, backend, forced>>

\* complete and completeThen, the creator's last call.
Complete(o) ==
    /\ o \in owned /\ backend[o] = "none"
    /\ ClearState({o}, [op EXCEPT ![o] = Settle(@, "completed")])
    /\ owned' = owned \ {o}
    /\ UNCHANGED <<backend, forced>>

-----------------------------------------------------------------------------
(* Aborts, forced clears and waiters.                                      *)

HasBackend(o) == backend[o] \in {"live", "cancelled"}
Active == {activeRunsByKey[k] : k \in Keys} \ {None}

\* The upstream signal of the caller: the backend listens to it by itself.
UpstreamAborts(o) ==
    /\ o \in owned
    /\ op' = [op EXCEPT ![o].signalled = TRUE]
    /\ UNCHANGED <<index, owned, backend, forced, waiter>>

\* Mutant: an abort clears in every phase.
EveryPhase(D) == D

\* An operation that is still queued when it is aborted is cleared at once.
StillQueued(D) == {o \in D : op[o].phase = "queued"}

\* abortWithReason cancels the backends attached to the operations of D.
CancelBackends(D) ==
    [o \in Ops |-> IF o \in D /\ backend[o] = "live" THEN "cancelled"
                                                     ELSE backend[o]]

\* abortByUser (by key or session id) and abortForRestart.
Abort(D) ==
    /\ D # {}
    /\ backend' = CancelBackends(D)
    /\ ClearState(StillQueued(D), [o \in Ops |->
           IF o \in D THEN [Settle(op[o], "aborted") EXCEPT !.phase = "over",
                                                            !.signalled = TRUE]
                      ELSE op[o]])
    /\ UNCHANGED <<owned, forced>>

AbortByUser(k) == activeRunsByKey[k] # None /\ Abort({activeRunsByKey[k]})

\* abortActiveReplyRuns: all, or those that compact by their phase or by what
\* their backend says.
AbortActiveReplyRuns(D) ==
    /\ D \subseteq Active
    /\ \/ D = Active
       \/ /\ {o \in Active : op[o].phase = "compacting"} \subseteq D
          /\ \A o \in D : \/ op[o].phase = "compacting"
                          \/ op[o].phase = "running" /\ HasBackend(o)
    /\ Abort(D)

\* forceClearReplyRunBySessionId, by the recovery of a stuck session.
ForceClear(s) ==
    LET k == activeKeysBySessionId[s]
    IN  /\ k # None
        /\ activeRunsByKey[k] # None
        /\ LET o == activeRunsByKey[k]
           IN  /\ ClearState({o}, [op EXCEPT ![o] = Settle(@, "failed")])
               /\ forced' = forced \cup {o}
        /\ UNCHANGED <<owned, backend>>

\* waitForIdle
WaitForIdle(w, k) ==
    /\ waiter[w].status = "idle"
    /\ waiter' = [waiter EXCEPT ![w] =
           [key |-> k, status |-> IF activeRunsByKey[k] = None THEN "ended"
                                                               ELSE "waiting"]]
    /\ UNCHANGED <<index, op, owned, backend, forced>>

\* resolveReplyRunWaitKey: the operation that runs under s now or did earlier.
WaitKey(s) == IF activeKeysBySessionId[s] # None THEN activeKeysBySessionId[s]
                                                 ELSE waitKeysBySessionId[s]

\* waitForReplyRunEndBySessionId
WaitForReplyRunEnd(w, s) ==
    \/ WaitKey(s) # None /\ WaitForIdle(w, WaitKey(s))
    \/ /\ WaitKey(s) = None
       /\ waiter[w].status = "idle"
       /\ waiter' = [waiter EXCEPT ![w].status = "ended"]
       /\ UNCHANGED <<index, op, owned, backend, forced>>

WaiterTimesOut(w) ==
    /\ waiter[w].status = "waiting"
    /\ waiter' = [waiter EXCEPT ![w].status = "gave-up"]
    /\ UNCHANGED <<index, op, owned, backend, forced>>

Next ==
    \/ \E o \in Ops :
        \/ \E k \in Keys, s \in SessionIds : CreateReplyOperation(o, k, s)
        \/ \E phase \in {"compacting", "running"} : SetPhase(o, phase)
        \/ \E s \in SessionIds : UpdateSessionId(o, s)
        \/ AttachBackend(o) \/ DetachBackend(o)
        \/ Fail(o) \/ Complete(o)
        \/ UpstreamAborts(o)
    \/ \E k \in Keys : AbortByUser(k)
    \/ \E D \in SUBSET Ops : AbortActiveReplyRuns(D)
    \/ \E s \in SessionIds : ForceClear(s)
    \/ \E w \in Waiters :
        \/ \E k \in Keys : WaitForIdle(w, k)
        \/ \E s \in SessionIds : WaitForReplyRunEnd(w, s)
        \/ WaiterTimesOut(w)

Spec == Init /\ [][Next]_vars

-----------------------------------------------------------------------------
(* Safety.                                                                 *)

\* The three maps agree: an operation is found under its key exactly if it is
\* found under its session id, after rotations, aborts, forced clears and late
\* calls in any order.
IndexesAgree ==
    /\ \A k \in Keys :
        IF activeRunsByKey[k] = None
        THEN activeSessionIdsByKey[k] = None
        ELSE LET o == activeRunsByKey[k]
             IN  /\ op[o].key = k
                 /\ activeSessionIdsByKey[k] = op[o].id
                 /\ activeKeysBySessionId[op[o].id] = k
    /\ \A s \in SessionIds :
        activeKeysBySessionId[s] # None =>
            activeSessionIdsByKey[activeKeysBySessionId[s]] = s

\* Nobody waits for the end of an operation that has ended.
NoForgottenWaiter ==
    \A w \in Waiters :
        waiter[w].status = "waiting" => activeRunsByKey[waiter[w].key] # None

\* A session leaves the registry only with a call on the operation that holds
\* it: the late end of an aborted or force-cleared operation never clears its
\* successor.
SuccessorIsSafe ==
    [][\A k \in Keys :
          LET o == activeRunsByKey[k]
          IN  o # None /\ activeRunsByKey'[k] # o
                  => ~op[o].cleared /\ op'[o].cleared]_vars

\* An operation that is over drives no live backend, whether the backend was
\* attached before or after the end; forced clears do not reach the backend.
EndReachesBackend ==
    \A o \in Ops \ forced : op[o].result # "none" => backend[o] # "live"

\* Two runs never touch one session at the same time, a cancelled one that is
\* still unwinding included, unless recovery cleared the first by force: an
\* abort gives the session away at once only while the operation is queued.
OneRunPerSession ==
    \A o, p \in Ops \ forced :
        op[o].key = op[p].key /\ HasBackend(o) /\ HasBackend(p) => o = p
=============================================================================

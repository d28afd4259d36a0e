---------------------------- MODULE DeliveryQueue ----------------------------
(***************************************************************************)
(* The write-ahead queue of outbound messages, src/src/infra/outbound: one *)
(* JSON file per message, written before the platform send and removed     *)
(* after it, a recovery scan when the gateway starts and a drain when a    *)
(* channel reconnects.  The process may crash between any two awaits; the  *)
(* files survive, the claims and everything under way do not.              *)
(*                                                                         *)
(* One action is the code between two awaits.  Reading a file and writing  *)
(* it back is one step for the holder of the message's claim; it is two    *)
(* steps for deferRemainingEntriesForBudget, which holds no claim.  A      *)
(* message has one payload.  Disk errors are left out.                     *)
(***************************************************************************)
EXTENDS Naturals, FiniteSets

CONSTANTS
    N,          \* bound: number of messages
    MaxRetries, \* MAX_RETRIES
    Reconciles, \* whether the channel adapter declares reconcileUnknownSend
    ClaimGap,   \* bound: whether a scan may see a file before its sender claims it
    Budget,     \* bound: whether the startup scan may run out of time
    MaxCrashes  \* bound: how often the process dies

ASSUME BoundsAssumption ==
    /\ N \in Nat /\ MaxRetries \in Nat \ {0} /\ MaxCrashes \in Nat
    /\ Reconciles \in BOOLEAN /\ ClaimGap \in BOOLEAN /\ Budget \in BOOLEAN

Entries == 1..N         \* messages, numbered in the order of enqueuedAt
Recovery == N + 1       \* recoverPendingDeliveries, once per process start
Reconnect == N + 2      \* drainPendingDeliveries of the messages' channel
Scans == {Recovery, Reconnect}
Actors == Entries \cup Scans    \* actor e is the live send of message e

VARIABLES
    disk,       \* message -> its file in the queue directory
    failed,     \* messages whose file is in failed/
    claims,     \* entriesInProgress
    actor,      \* actor -> what it is doing, with which message
    todo,       \* scan -> messages of its snapshot it has not looked at
    deferring,  \* message -> the entry the deferral has read and will write
    recovered,  \* whether this process has run its startup scan
    crashes,
    enqueued, acked, aborted, \* history: messages accepted, acked, given up
    sends,      \* history: message -> how often it became visible
    unsure      \* history: messages a scan made visible and could not acknowledge

vars == <<disk, failed, claims, actor, todo, deferring, recovered, crashes,
          enqueued, acked, aborted, sends, unsure>>

RecoveryState == {"none", "send_attempt_started", "unknown_after_send"}
NoFile == [there |-> FALSE, retryCount |-> 0, attempted |-> FALSE,
           recoveryState |-> "none"]
NewFile == [NoFile EXCEPT !.there = TRUE]
Off == [pc |-> "off", entry |-> 0]

\* Type correctness of the files and of the activities working on them; no
\* message is attempted again once it has used up its retries.
TypeOK ==
    /\ \A f \in {disk[e] : e \in Entries} \cup {deferring[e] : e \in Entries} :
        /\ f.there \in BOOLEAN /\ f.attempted \in BOOLEAN
        /\ f.retryCount \in 0..MaxRetries /\ f.recoveryState \in RecoveryState
    /\ failed \cup claims \cup enqueued \cup acked \cup aborted \cup unsure
           \subseteq Entries
    /\ actor \in [Actors -> [pc : {"off", "written", "mark", "send", "sent",
                                   "ack", "fail", "move", "reconcile", "next",
                                   "defer", "ended"},
                             entry : 0..N]]
    /\ todo \in [Scans -> SUBSET Entries]
    /\ recovered \in BOOLEAN
    /\ crashes \in 0..MaxCrashes
    /\ sends \in [Entries -> Nat]

Init ==
    /\ disk = [e \in Entries |-> NoFile]
    /\ failed = {} /\ claims = {}
    /\ actor = [a \in Actors |-> Off]
    /\ todo = [s \in Scans |-> {}]
    /\ deferring = [e \in Entries |-> NoFile]
    /\ recovered = FALSE
    /\ crashes = 0
    /\ enqueued = {} /\ acked = {} /\ aborted = {} /\ unsure = {}
    /\ sends = [e \in Entries |-> 0]

Goto(a, pc, e) == actor' = [actor EXCEPT ![a] = [pc |-> pc, entry |-> e]]

\* Mutant: the claim is not released.
ReleaseForgotten(a) ==
    /\ IF a \in Scans THEN Goto(a, "next", 0) ELSE Goto(a, "ended", a)
    /\ UNCHANGED claims

\* The actor is done with its message: the finally block releases the claim; a
\* live send ends, a scan goes on with its next message.
Release(a) ==
    /\ claims' = claims \ {actor[a].entry}
    /\ IF a \in Scans THEN Goto(a, "next", 0) ELSE Goto(a, "ended", a)

-----------------------------------------------------------------------------
(* The live send.                                                          *)

\* enqueueDelivery: the file exists before anything is sent.
EnqueueDelivery(e) ==
    /\ actor[e].pc = "off"
    /\ e \notin enqueued /\ \A d \in 1..(e - 1) : d \in enqueued
    /\ disk' = [disk EXCEPT ![e] = NewFile]
    /\ enqueued' = enqueued \cup {e}
    /\ \/ ClaimGap /\ Goto(e, "written", e) /\ UNCHANGED claims
       \/ Goto(e, "mark", e) /\ claims' = claims \cup {e}
    /\ UNCHANGED <<failed, todo, deferring, recovered, crashes, acked, aborted,
                   sends, unsure>>

\* Mutant: the claim does not look whether there is another owner.
Unclaimed(e) == TRUE

\* claimRecoveryEntry succeeds.
Claimable(e) == e \notin claims

\* withActiveDeliveryClaim, when the write of the file returns late.
LiveClaim(e) ==
    /\ actor[e].pc = "written"
    /\ \/ /\ Claimable(e)
          /\ Goto(e, "mark", e)
          /\ claims' = claims \cup {e}
       \/ /\ ~Claimable(e)
          /\ Goto(e, "ended", e)
          /\ UNCHANGED claims
    /\ UNCHANGED <<disk, failed, todo, deferring, recovered, crashes, enqueued,
                   acked, aborted, sends, unsure>>

\* Mutant: the send is marked in memory only.
MarkNothing(e, state) == disk

\* markDeliveryPlatformSendAttemptStarted and ...OutcomeUnknown; a file that
\* is gone is an error that a best-effort delivery ignores.
Mark(e, state) ==
    IF disk[e].there THEN [disk EXCEPT ![e].recoveryState = state] ELSE disk

\* onPlatformSendStart, before the first platform send.
MarkSendAttemptStarted(e) ==
    /\ actor[e].pc = "mark"
    /\ disk' = Mark(e, "send_attempt_started")
    /\ Goto(e, "send", e)
    /\ UNCHANGED <<failed, claims, todo, deferring, recovered, crashes,
                   enqueued, acked, aborted, sends, unsure>>

\* The abort signal of a live send is seen before the platform is called.
SendAborted(e) ==
    /\ actor[e].pc \in {"mark", "send"}
    /\ Goto(e, "ack", e)
    /\ aborted' = aborted \cup {e}
    /\ UNCHANGED <<disk, failed, claims, todo, deferring, recovered, crashes,
                   enqueued, acked, sends, unsure>>

\* The platform accepts the message and the adapter returns.
SendReturns(a) ==
    LET e == actor[a].entry
    IN  /\ actor[a].pc = "send"
        /\ sends' = [sends EXCEPT ![e] = @ + 1]
        /\ Goto(a, IF a \in Scans THEN "ack" ELSE "sent", e)
        /\ UNCHANGED <<disk, failed, claims, todo, deferring, recovered,
                       crashes, enqueued, acked, aborted, unsure>>

\* The adapter throws, before or after the message became visible.
SendThrows(a, shown, permanent) ==
    LET e == actor[a].entry
    IN  /\ actor[a].pc = "send"
        /\ sends' = IF shown THEN [sends EXCEPT ![e] = @ + 1] ELSE sends
        /\ unsure' = IF shown /\ a \in Scans THEN unsure \cup {e} ELSE unsure
        /\ Goto(a, IF permanent /\ a \in Scans THEN "move" ELSE "fail", e)
        /\ UNCHANGED <<disk, failed, claims, todo, deferring, recovered,
                       crashes, enqueued, acked, aborted>>

MarkOutcomeUnknown(e) ==
    /\ actor[e].pc = "sent"
    /\ disk' = Mark(e, "unknown_after_send")
    /\ Goto(e, "ack", e)
    /\ UNCHANGED <<failed, claims, todo, deferring, recovered, crashes,
                   enqueued, acked, aborted, sends, unsure>>

-----------------------------------------------------------------------------
(* The end of an attempt, live or by a scan.                               *)

\* ackDelivery: the rename to .delivered takes the message off the queue; the
\* marker is removed by the ack or by the next scan, and read by nobody.
AckDelivery(a) ==
    LET e == actor[a].entry
    IN  /\ actor[a].pc = "ack"
        /\ disk' = [disk EXCEPT ![e] = NoFile]
        /\ acked' = acked \cup {e}
        /\ Release(a)
        /\ UNCHANGED <<failed, todo, deferring, recovered, crashes, enqueued,
                       aborted, sends, unsure>>

\* Mutant: a failed attempt takes the message off the queue.
FailedAndGone(f) == NoFile

\* What failDelivery writes; a file that is gone stays gone.
Failed(f) ==
    IF f.there THEN [f EXCEPT !.retryCount = @ + 1, !.attempted = TRUE] ELSE f

FailDelivery(a) ==
    LET e == actor[a].entry
    IN  /\ actor[a].pc = "fail"
        /\ disk' = [disk EXCEPT ![e] = Failed(@)]
        /\ Release(a)
        /\ UNCHANGED <<failed, todo, deferring, recovered, crashes, enqueued,
                       acked, aborted, sends, unsure>>

\* moveToFailed
MoveToFailed(a) ==
    LET e == actor[a].entry
    IN  /\ actor[a].pc = "move"
        /\ failed' = IF disk[e].there THEN failed \cup {e} ELSE failed
        /\ disk' = [disk EXCEPT ![e] = NoFile]
        /\ Release(a)
        /\ UNCHANGED <<todo, deferring, recovered, crashes, enqueued, acked,
                       aborted, sends, unsure>>

-----------------------------------------------------------------------------
(* The scans.                                                              *)

\* loadPendingDeliveries: the snapshot a scan works through.
LoadPending(s) ==
    /\ actor[s].pc = "off"
    /\ s = Recovery => ~recovered
    /\ recovered' = (recovered \/ s = Recovery)
    /\ todo' = [todo EXCEPT ![s] = {e \in Entries : disk[e].there}]
    /\ Goto(s, "next", 0)
    /\ UNCHANGED <<disk, failed, claims, deferring, crashes, enqueued, acked,
                   aborted, sends, unsure>>

IsNext(s, e) == e \in todo[s] /\ \A d \in todo[s] : e <= d

\* Mutant: one retry too many.
OneRetryMore(e) ==
    IF disk[e].retryCount > MaxRetries THEN "move"
    ELSE IF disk[e].recoveryState = "none" THEN "send"
    ELSE "reconcile"

\* What a scan does with a message it has claimed and read again.
FirstStep(e) ==
    IF disk[e].retryCount >= MaxRetries THEN "move"
    ELSE IF disk[e].recoveryState = "none" THEN "send"
    ELSE "reconcile"

\* Mutant: the snapshot is trusted, the file is not read again.
StillThereUnread(e) == TRUE

\* loadPendingDelivery finds the file after the claim.
StillThere(e) == disk[e].there

\* Claim the next message of the snapshot, read its file again and start on it.
TakeEntry(s, e) ==
    /\ actor[s].pc = "next"
    /\ IsNext(s, e)
    /\ Claimable(e)
    /\ StillThere(e)
    /\ todo' = [todo EXCEPT ![s] = @ \ {e}]
    /\ claims' = claims \cup {e}
    /\ Goto(s, FirstStep(e), e)
    /\ UNCHANGED <<disk, failed, deferring, recovered, crashes, enqueued,
                   acked, aborted, sends, unsure>>

\* The message is claimed by another owner, gone, or still in its backoff (an
\* entry that was never attempted is not).
SkipEntry(s, e) ==
    /\ actor[s].pc = "next"
    /\ IsNext(s, e)
    /\ \/ ~Claimable(e)
       \/ ~StillThere(e)
       \/ disk[e].retryCount < MaxRetries /\ disk[e].attempted
    /\ todo' = [todo EXCEPT ![s] = @ \ {e}]
    /\ UNCHANGED <<disk, failed, claims, actor, deferring, recovered, crashes,
                   enqueued, acked, aborted, sends, unsure>>

\* reconcileUnknownSend: the adapter tells the truth when it can tell at all.
\* Without the capability, or with a final `unresolved', the message moves to
\* failed/ and is not sent again.
Reconcile(s) ==
    LET e == actor[s].entry
    IN  /\ actor[s].pc = "reconcile"
        /\ \/ Goto(s, "move", e)
           \/ Reconciles /\ Goto(s, "fail", e)
           \/ Reconciles /\ sends[e] > 0 /\ Goto(s, "ack", e)
           \/ Reconciles /\ sends[e] = 0 /\ Goto(s, "send", e)
        /\ UNCHANGED <<disk, failed, claims, todo, deferring, recovered,
                       crashes, enqueued, acked, aborted, sends, unsure>>

ScanEnds(s) ==
    /\ actor[s].pc \in {"next", "defer"}
    /\ todo[s] = {}
    /\ s = Recovery => \A e \in Entries : ~deferring[e].there
    /\ actor' = [actor EXCEPT ![s] = Off]
    /\ UNCHANGED <<disk, failed, claims, todo, deferring, recovered, crashes,
                   enqueued, acked, aborted, sends, unsure>>

\* The startup scan is over its time budget: all messages left are deferred.
BudgetExceeded ==
    /\ Budget
    /\ actor[Recovery].pc = "next"
    /\ todo[Recovery] # {}
    /\ Goto(Recovery, "defer", 0)
    /\ UNCHANGED <<disk, failed, claims, todo, deferring, recovered, crashes,
                   enqueued, acked, aborted, sends, unsure>>

\* deferRemainingEntriesForBudget calls failDelivery on each of them at the
\* same time, claimed by somebody or not: first the read,
DeferRead(e) ==
    /\ actor[Recovery].pc = "defer"
    /\ e \in todo[Recovery]
    /\ todo' = [todo EXCEPT ![Recovery] = @ \ {e}]
    /\ deferring' = [deferring EXCEPT ![e] = disk[e]]
    /\ UNCHANGED <<disk, failed, claims, actor, recovered, crashes, enqueued,
                   acked, aborted, sends, unsure>>

\* then the write.
DeferWrite(e) ==
    /\ deferring[e].there
    /\ disk' = [disk EXCEPT ![e] = Failed(deferring[e])]
    /\ deferring' = [deferring EXCEPT ![e] = NoFile]
    /\ UNCHANGED <<failed, claims, actor, todo, recovered, crashes, enqueued,
                   acked, aborted, sends, unsure>>

\* The process dies and starts again.
Crash ==
    /\ crashes < MaxCrashes
    /\ crashes' = crashes + 1
    /\ claims' = {}
    /\ actor' = [a \in Actors |-> Off]
    /\ todo' = [s \in Scans |-> {}]
    /\ deferring' = [e \in Entries |-> NoFile]
    /\ recovered' = FALSE
    /\ unsure' = unsure \cup {e \in Entries :
           \E s \in Scans : actor[s].pc = "ack" /\ actor[s].entry = e}
    /\ UNCHANGED <<disk, failed, enqueued, acked, aborted, sends>>

Next ==
    \/ \E e \in Entries :
        \/ EnqueueDelivery(e) \/ LiveClaim(e) \/ MarkSendAttemptStarted(e)
        \/ SendAborted(e) \/ MarkOutcomeUnknown(e)
        \/ DeferRead(e) \/ DeferWrite(e)
        \/ \E s \in Scans : TakeEntry(s, e) \/ SkipEntry(s, e)
    \/ \E a \in Actors :
        \/ SendReturns(a) \/ AckDelivery(a) \/ FailDelivery(a) \/ MoveToFailed(a)
        \/ \E shown, permanent \in BOOLEAN : SendThrows(a, shown, permanent)
    \/ \E s \in Scans : LoadPending(s) \/ Reconcile(s) \/ ScanEnds(s)
    \/ BudgetExceeded
    \/ Crash

Spec == Init /\ [][Next]_vars

-----------------------------------------------------------------------------
(* Safety.                                                                 *)

\* A message that was enqueued is on the queue, was acknowledged, or is in
\* failed/: no crash and no interleaving of senders, scans and their claims
\* makes it vanish.
NothingVanishes ==
    \A e \in enqueued : disk[e].there \/ e \in acked \/ e \in failed

WorksOn(a, e) ==
    /\ actor[a].entry = e
    /\ actor[a].pc \in {"mark", "send", "sent", "ack", "fail", "move", "reconcile"}

\* The in-process claim makes senders and scans take turns: never two of them
\* work on the same message.
OneOwner ==
    \A a, b \in Actors : \A e \in Entries :
        WorksOn(a, e) /\ WorksOn(b, e) => a = b

\* A message becomes visible a second time only if a scan had made it visible
\* and then failed to record that: the markers of the live send, the claims
\* and the second read of the file prevent every other duplicate.
DuplicatesComeFromReplays == \A e \in Entries : sends[e] > 1 => e \in unsure

\* The messages as the abstract outbox sees them.
OutboxStatus ==
    [e \in Entries |->
        IF e \notin enqueued THEN "new"
        ELSE IF e \in failed \/ (e \in acked /\ e \in aborted) THEN "given-up"
        ELSE IF e \in acked THEN "delivered"
        ELSE "queued"]

Abstract == INSTANCE Outbox WITH status <- OutboxStatus, visible <- sends

\* The queue implements the outbox: shown only while queued, delivered only if
\* shown, settled once.
ImplementsOutbox == Abstract!OutboxSpec

-----------------------------------------------------------------------------
(* What the documentation, the comments and the tests say, and the code does *)
(* not do.                                                                   *)

\* "Those attempts must resume in unknown_after_send, not blindly replay"
\* (docs/concepts/message-lifecycle-refactor.md): without reconciliation a
\* message never becomes visible twice.
NoBlindReplay == ~Reconciles => \A e \in Entries : sends[e] <= 1

\* "This prevents stale startup/reconnect snapshots from re-sending an entry
\* that another recovery path already acked" (delivery-queue-recovery.ts).
AckedIsNeverSentAgain ==
    [][\A e \in acked \ aborted : sends'[e] = sends[e]]_vars

-----------------------------------------------------------------------------
(* Liveness.  Started code goes on, the gateway starts its recovery scan, the *)
(* channel reconnects again and again, and a message that is due for a retry  *)
(* infinitely often is tried.                                                 *)

LiveSpec ==
    /\ Spec
    /\ \A e \in Entries :
        /\ WF_vars(LiveClaim(e)) /\ WF_vars(MarkSendAttemptStarted(e))
        /\ WF_vars(MarkOutcomeUnknown(e))
        /\ WF_vars(DeferRead(e)) /\ WF_vars(DeferWrite(e))
        /\ \A s \in Scans : SF_vars(TakeEntry(s, e)) /\ WF_vars(SkipEntry(s, e))
    /\ \A a \in Actors :
        /\ WF_vars(SendReturns(a)) /\ WF_vars(AckDelivery(a))
        /\ WF_vars(FailDelivery(a)) /\ WF_vars(MoveToFailed(a))
    /\ \A s \in Scans : /\ WF_vars(LoadPending(s)) /\ WF_vars(Reconcile(s))
                         /\ WF_vars(ScanEnds(s))

\* Every message leaves the queue, acknowledged or given up: retries, backoff
\* and the time budget never keep one for ever.
EveryMessageSettles ==
    \A e \in Entries : e \in enqueued ~> e \in acked \cup failed
=============================================================================

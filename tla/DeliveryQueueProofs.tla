------------------------- MODULE DeliveryQueueProofs -------------------------
(***************************************************************************)
(* Proofs about DeliveryQueue for any number of messages, retries and      *)
(* crashes: one owner per message and no message lost, whatever the        *)
(* adapter and the timing; and, as long as senders claim at once and the   *)
(* startup scan has time, bounded retries, no duplicate but after a        *)
(* replay, and that the queue implements Outbox.                           *)
(***************************************************************************)
EXTENDS DeliveryQueue, TLAPS

\* A channel adapter can always claim, and the startup scan ends in time.
NoGaps == ~ClaimGap /\ ~Budget

LEMMA ActorSets ==
    /\ Entries \subseteq Actors /\ Scans \subseteq Actors /\ Recovery \in Scans
    /\ Entries \cap Scans = {} /\ 0 \notin Entries /\ Entries \subseteq 0..N
    /\ \A a \in Actors : a \in Scans \/ a \in Entries
  BY BoundsAssumption DEF Entries, Scans, Actors, Recovery, Reconnect

-----------------------------------------------------------------------------
(* The invariant that holds whatever the constants are.                    *)

FileType == [there : BOOLEAN, retryCount : Nat, attempted : BOOLEAN,
             recoveryState : RecoveryState]
Busy == {"mark", "send", "sent", "ack", "fail", "move", "reconcile"}
Pcs == Busy \cup {"off", "written", "next", "defer", "ended"}

Shape ==
    /\ disk \in [Entries -> FileType] /\ deferring \in [Entries -> FileType]
    /\ failed \cup claims \cup enqueued \cup acked \cup aborted \cup unsure
           \subseteq Entries
    /\ actor \in [Actors -> [pc : Pcs, entry : 0..N]]
    /\ todo \in [Scans -> SUBSET Entries]
    /\ recovered \in BOOLEAN /\ crashes \in 0..MaxCrashes
    /\ sends \in [Entries -> Nat]

\* A busy actor has a message; that of a live send is its own.
Roles ==
    /\ \A a \in Actors : actor[a].pc \in Busy => actor[a].entry \in Entries
    /\ \A e \in Entries : actor[e].pc # "off" => actor[e].entry = e

\* Who works on a message has claimed it.
Claimed == \A a \in Actors, e \in Entries : WorksOn(a, e) => e \in claims

\* What was not enqueued has no file, no owner and no end.
Known ==
    /\ claims \cup acked \cup failed \subseteq enqueued
    /\ \A e \in Entries : /\ disk[e].there \/ deferring[e].there => e \in enqueued
                          /\ actor[e].pc = "written" => e \in enqueued

Inv == Shape /\ Roles /\ Claimed /\ OneOwner /\ Known /\ NothingVanishes

LEMMA FileTypes ==
    /\ NoFile \in FileType /\ ~NoFile.there /\ NoFile.retryCount = 0
    /\ NewFile \in FileType /\ NewFile.there /\ NewFile.retryCount = 0
    /\ \A f \in FileType : Failed(f) \in FileType /\ Failed(f).there = f.there
<1>1. NoFile \in FileType /\ ~NoFile.there /\ NoFile.retryCount = 0
  BY DEF NoFile, FileType, RecoveryState
<1>2. NewFile \in FileType /\ NewFile.there /\ NewFile.retryCount = 0
  BY <1>1 DEF NewFile, FileType
<1>3. ASSUME NEW f \in FileType
      PROVE  Failed(f) \in FileType /\ Failed(f).there = f.there
  <2>1. CASE f.there
    <3>1. Failed(f) = [f EXCEPT !.retryCount = f.retryCount + 1, !.attempted = TRUE]
      BY <2>1 DEF Failed
    <3>2. f.retryCount + 1 \in Nat
      BY DEF FileType
    <3>3. Failed(f) \in FileType
      BY <3>1, <3>2 DEF FileType
    <3>4. Failed(f).there = f.there
      BY <3>1 DEF FileType
    <3> QED
      BY <3>3, <3>4
  <2>2. CASE ~f.there
    BY <2>2 DEF Failed
  <2> QED
    BY <2>1, <2>2
<1> QED
  BY <1>1, <1>2, <1>3

LEMMA ActorTypes ==
    /\ Off \in [pc : Pcs, entry : 0..N] /\ Off.pc = "off" /\ "off" \notin Busy
    /\ 0 \in 0..N
  BY BoundsAssumption DEF Off, Pcs, Busy

LEMMA InitInv == Init => Inv
<1> SUFFICES ASSUME Init PROVE Inv
  OBVIOUS
<1>1. Shape
  <2>1. /\ disk \in [Entries -> FileType] /\ deferring \in [Entries -> FileType]
        /\ actor \in [Actors -> [pc : Pcs, entry : 0..N]]
    BY FileTypes, ActorTypes DEF Init
  <2>2. crashes \in 0..MaxCrashes /\ sends \in [Entries -> Nat]
    BY BoundsAssumption DEF Init
  <2> QED
    BY <2>1, <2>2 DEF Init, Shape
<1>2. Roles /\ Claimed /\ OneOwner
  BY ActorTypes, ActorSets DEF Init, Roles, Claimed, OneOwner, WorksOn, Busy
<1>3. Known /\ NothingVanishes
  BY FileTypes, ActorSets DEF Init, Known, NothingVanishes, Off
<1> QED
  BY <1>1, <1>2, <1>3 DEF Inv

-----------------------------------------------------------------------------
(* Owners.                                                                 *)

\* The ways an actor moves: it goes on with its message, takes one nobody has
\* claimed, releases the one it has, or is not busy afterwards.
Continues(a) == /\ claims' = claims /\ actor[a].pc \in Busy
                /\ actor'[a].entry = actor[a].entry
Takes(a) == /\ actor'[a].entry \notin claims
            /\ claims' = claims \cup {actor'[a].entry}
Releases(a) == /\ claims' = claims \ {actor[a].entry}
               /\ actor[a].pc \in Busy /\ actor'[a].pc \notin Busy
Rests(a) == claims' = claims /\ actor'[a].pc \notin Busy

Moves(a) ==
    /\ \A b \in Actors \ {a} : actor'[b] = actor[b]
    /\ Continues(a) \/ Takes(a) \/ Releases(a) \/ Rests(a)

LEMMA OwnersKept ==
    ASSUME Claimed, OneOwner, NEW a \in Actors, Moves(a)
    PROVE  Claimed' /\ OneOwner'
<1>1. \A b \in Actors, e \in Entries : WorksOn(b, e) <=> actor[b].entry = e /\ actor[b].pc \in Busy
  BY DEF WorksOn, Busy
<1>2. \A b \in Actors, e \in Entries :
          WorksOn(b, e)' <=> actor'[b].entry = e /\ actor'[b].pc \in Busy
  BY DEF WorksOn, Busy
<1>3. \A b \in Actors \ {a}, e \in Entries : WorksOn(b, e)' <=> WorksOn(b, e)
  BY <1>1, <1>2 DEF Moves
<1>4. ASSUME NEW e \in Entries, WorksOn(a, e)'
      PROVE  e \in claims' /\ \A b \in Actors \ {a} : ~WorksOn(b, e)
  <2>1. CASE Continues(a)
    BY <1>1, <1>2, <1>4, <2>1 DEF Continues, Claimed, OneOwner
  <2>2. CASE Takes(a)
    BY <1>2, <1>4, <2>2 DEF Takes, Claimed
  <2>3. CASE Releases(a) \/ Rests(a)
    BY <1>2, <1>4, <2>3 DEF Releases, Rests
  <2> QED
    BY <2>1, <2>2, <2>3 DEF Moves
<1>5. ASSUME NEW b \in Actors \ {a}, NEW e \in Entries, WorksOn(b, e)
      PROVE  e \in claims'
  <2>1. e \in claims /\ ~WorksOn(a, e)
    BY <1>5 DEF Claimed, OneOwner
  <2> QED
    BY <1>1, <2>1 DEF Moves, Continues, Takes, Releases, Rests
<1>6. Claimed'
  BY <1>3, <1>4, <1>5 DEF Claimed
<1>7. OneOwner'
  BY <1>3, <1>4 DEF OneOwner
<1> QED
  BY <1>6, <1>7

LEMMA GotoDoes ==
    ASSUME Shape, NEW a \in Actors, NEW pc \in Pcs, NEW e \in 0..N, Goto(a, pc, e)
    PROVE  /\ actor' \in [Actors -> [pc : Pcs, entry : 0..N]]
           /\ actor'[a].pc = pc /\ actor'[a].entry = e
           /\ \A b \in Actors \ {a} : actor'[b] = actor[b]
<1>1. actor \in [Actors -> [pc : Pcs, entry : 0..N]]
  BY DEF Shape
<1>2. actor' = [actor EXCEPT ![a] = [pc |-> pc, entry |-> e]]
  BY DEF Goto
<1> QED
  BY <1>1, <1>2

LEMMA ReleaseDoes ==
    ASSUME Shape, Roles, NEW a \in Actors, actor[a].pc \in Busy, Release(a)
    PROVE  /\ actor' \in [Actors -> [pc : Pcs, entry : 0..N]]
           /\ actor'[a].pc \in {"next", "ended"} /\ actor'[a].pc \notin Busy
           /\ a \in Entries => actor'[a].entry = a
           /\ claims' = claims \ {actor[a].entry}
           /\ Moves(a)
<1>1. CASE a \in Scans
  <2>1. Goto(a, "next", 0) /\ claims' = claims \ {actor[a].entry} /\ a \notin Entries
    BY <1>1, ActorSets DEF Release
  <2>2. "next" \in Pcs /\ 0 \in 0..N /\ "next" \notin Busy
    BY ActorTypes DEF Pcs, Busy
  <2> QED
    BY <2>1, <2>2, GotoDoes DEF Moves, Releases
<1>2. CASE a \notin Scans
  <2>1. Goto(a, "ended", a) /\ claims' = claims \ {actor[a].entry} /\ a \in Entries
    BY <1>2, ActorSets DEF Release
  <2>2. "ended" \in Pcs /\ a \in 0..N /\ "ended" \notin Busy
    BY <2>1, ActorSets DEF Pcs, Busy
  <2> QED
    BY <2>1, <2>2, GotoDoes DEF Moves, Releases
<1> QED
  BY <1>1, <1>2

\* What a step by the actor a owes.
LEMMA StepKeeps ==
    ASSUME Inv, NEW a \in Actors, Moves(a), Shape',
           actor'[a].pc \in Busy => actor'[a].entry \in Entries,
           a \in Entries /\ actor'[a].pc # "off" => actor'[a].entry = a,
           a \in Entries /\ actor'[a].pc = "written" => a \in enqueued',
           enqueued \subseteq enqueued',
           claims' \cup acked' \cup failed' \subseteq enqueued',
           \A e \in Entries : disk'[e].there \/ deferring'[e].there => e \in enqueued',
           NothingVanishes'
    PROVE  Inv'
<1>1. Claimed' /\ OneOwner'
  BY OwnersKept DEF Inv
<1>2. \A b \in Actors \ {a} : actor'[b] = actor[b]
  BY DEF Moves
<1>3. Roles'
  BY <1>2, ActorSets DEF Inv, Roles
<1>4. Known'
  BY <1>2, ActorSets DEF Inv, Known
<1> QED
  BY <1>1, <1>3, <1>4 DEF Inv

\* The steps that leave the files, the ends and the deferrals alone.
LEMMA QuietStepKeeps ==
    ASSUME Inv, NEW a \in Actors, Moves(a),
           actor' \in [Actors -> [pc : Pcs, entry : 0..N]],
           actor'[a].pc \in Busy => actor'[a].entry \in Entries,
           a \in Entries /\ actor'[a].pc # "off" => actor'[a].entry = a,
           actor'[a].pc # "written",
           UNCHANGED <<disk, failed, deferring, crashes, enqueued, acked>>,
           claims' \subseteq enqueued,
           todo' \in [Scans -> SUBSET Entries], recovered' \in BOOLEAN,
           aborted' \cup unsure' \subseteq Entries,
           sends' \in [Entries -> Nat]
    PROVE  Inv'
<1>1. enqueued \subseteq Entries
  BY DEF Inv, Shape
<1>2. Shape'
  BY <1>1 DEF Inv, Shape
<1>3. NothingVanishes'
  BY DEF Inv, NothingVanishes
<1>4. \A e \in Entries : disk'[e].there \/ deferring'[e].there => e \in enqueued'
  BY DEF Inv, Known
<1>5. enqueued \subseteq enqueued' /\ claims' \cup acked' \cup failed' \subseteq enqueued'
  BY DEF Inv, Known
<1> QED
  BY <1>2, <1>3, <1>4, <1>5, StepKeeps

-----------------------------------------------------------------------------
(* The live send.                                                          *)

LEMMA EnqueueKeeps ==
    ASSUME Inv, NEW e \in Entries, EnqueueDelivery(e)
    PROVE  Inv' /\ Moves(e) /\ actor'[e].entry = e /\ e \notin claims
           /\ actor'[e].pc \in {"written", "mark"} /\ (actor'[e].pc = "written" => ClaimGap)
           /\ \A b \in Actors \ {e} : actor'[b] = actor[b]
<1>1. /\ e \notin enqueued /\ enqueued' = enqueued \cup {e}
      /\ disk' = [disk EXCEPT ![e] = NewFile]
      /\ UNCHANGED <<failed, todo, deferring, recovered, crashes, acked, aborted, sends, unsure>>
  BY DEF EnqueueDelivery
<1>2. Shape /\ e \in Actors /\ e \in 0..N /\ e \notin claims
  BY <1>1, ActorSets DEF Inv, Known
<1>3. PICK pc \in {"written", "mark"} :
        /\ Goto(e, pc, e)
        /\ pc = "written" => claims' = claims /\ ClaimGap
        /\ pc = "mark" => claims' = claims \cup {e}
  BY DEF EnqueueDelivery
<1>4. pc \in Pcs /\ "written" \notin Busy
  BY DEF Pcs, Busy
<1>5. /\ actor' \in [Actors -> [pc : Pcs, entry : 0..N]]
      /\ actor'[e].pc = pc /\ actor'[e].entry = e
      /\ \A b \in Actors \ {e} : actor'[b] = actor[b]
  BY <1>2, <1>3, <1>4, GotoDoes
<1>6. Moves(e)
  BY <1>2, <1>3, <1>4, <1>5 DEF Moves, Takes, Rests
<1>7. /\ disk' \in [Entries -> FileType] /\ disk'[e].there
      /\ \A d \in Entries \ {e} : disk'[d] = disk[d]
  BY <1>1, <1>2, FileTypes DEF Shape
<1>8. claims' \subseteq claims \cup {e}
  BY <1>3
<1>9. Shape'
  BY <1>1, <1>2, <1>5, <1>7, <1>8 DEF Shape
<1>10. NothingVanishes'
  BY <1>1, <1>2, <1>7 DEF Inv, NothingVanishes, Shape
<1>11. /\ \A d \in Entries : disk'[d].there \/ deferring'[d].there => d \in enqueued'
       /\ claims' \cup acked' \cup failed' \subseteq enqueued' /\ e \in enqueued'
       /\ enqueued \subseteq enqueued'
  BY <1>1, <1>7, <1>8 DEF Inv, Known
<1> QED
  BY <1>2, <1>3, <1>5, <1>6, <1>9, <1>10, <1>11, StepKeeps

LEMMA LiveClaimKeeps ==
    ASSUME Inv, NEW e \in Entries, LiveClaim(e)
    PROVE  Inv'
<1>1. /\ actor[e].pc = "written"
      /\ UNCHANGED <<disk, failed, todo, deferring, recovered, crashes, enqueued,
                     acked, aborted, sends, unsure>>
  BY DEF LiveClaim
<1>2. Shape /\ e \in Actors /\ e \in 0..N /\ e \in enqueued
  BY <1>1, ActorSets DEF Inv, Known
<1>3. PICK pc \in {"mark", "ended"} :
        /\ Goto(e, pc, e)
        /\ pc = "mark" => e \notin claims /\ claims' = claims \cup {e}
        /\ pc = "ended" => claims' = claims
  BY DEF LiveClaim, Claimable
<1>4. pc \in Pcs /\ "ended" \notin Busy
  BY DEF Pcs, Busy
<1>5. /\ actor' \in [Actors -> [pc : Pcs, entry : 0..N]]
      /\ actor'[e].pc = pc /\ actor'[e].entry = e
      /\ \A b \in Actors \ {e} : actor'[b] = actor[b]
  BY <1>2, <1>3, <1>4, GotoDoes
<1>6. Moves(e)
  BY <1>3, <1>4, <1>5 DEF Moves, Takes, Rests
<1>7. claims' \subseteq enqueued
  BY <1>2, <1>3 DEF Inv, Known
<1>8. /\ todo' \in [Scans -> SUBSET Entries] /\ recovered' \in BOOLEAN
      /\ aborted' \cup unsure' \subseteq Entries /\ sends' \in [Entries -> Nat]
  BY <1>1, <1>2 DEF Shape
<1> QED
  BY <1>1, <1>2, <1>3, <1>5, <1>6, <1>7, <1>8, QuietStepKeeps

\* A busy actor goes on with its message: the step of most awaits.
LEMMA GoesOn ==
    ASSUME Inv, NEW a \in Actors, actor[a].pc \in Busy, NEW pc \in Busy,
           Goto(a, pc, actor[a].entry), claims' = claims
    PROVE  /\ actor' \in [Actors -> [pc : Pcs, entry : 0..N]]
           /\ actor'[a].pc = pc /\ actor'[a].entry = actor[a].entry
           /\ actor[a].entry \in Entries
           /\ a \in Entries => actor'[a].entry = a
           /\ actor'[a].pc # "written" /\ Moves(a)
<1>1. /\ Shape /\ pc \in Pcs /\ actor[a].entry \in Entries
      /\ actor[a].pc # "off" /\ pc # "written"
  BY DEF Inv, Roles, Pcs, Busy
<1>2. actor[a].entry \in 0..N /\ (a \in Entries => actor[a].entry = a)
  BY <1>1, ActorSets DEF Inv, Roles
<1>3. /\ actor' \in [Actors -> [pc : Pcs, entry : 0..N]]
      /\ actor'[a].pc = pc /\ actor'[a].entry = actor[a].entry
      /\ \A b \in Actors \ {a} : actor'[b] = actor[b]
  BY <1>1, <1>2, GotoDoes
<1> QED
  BY <1>1, <1>2, <1>3 DEF Moves, Continues

\* markDelivery...: the file stays where it is.
LEMMA MarkDoes ==
    ASSUME Shape, NEW e \in Entries, NEW state \in RecoveryState, disk' = Mark(e, state)
    PROVE  /\ disk' \in [Entries -> FileType]
           /\ \A d \in Entries \ {e} : disk'[d] = disk[d]
           /\ \A d \in Entries : /\ disk'[d].there = disk[d].there
                                 /\ disk'[d].retryCount = disk[d].retryCount
           /\ disk[e].there => disk'[e].recoveryState = state
<1>1. disk \in [Entries -> FileType] /\ disk[e] \in FileType
  BY DEF Shape
<1>2. CASE disk[e].there
  <2>1. disk' = [disk EXCEPT ![e] = [disk[e] EXCEPT !.recoveryState = state]]
    BY <1>1, <1>2 DEF Mark
  <2> DEFINE f == [disk[e] EXCEPT !.recoveryState = state]
  <2>2. /\ f \in FileType /\ f.there = disk[e].there /\ f.retryCount = disk[e].retryCount
        /\ f.recoveryState = state
    BY <1>1 DEF FileType
  <2>3. disk' = [disk EXCEPT ![e] = f]
    BY <2>1
  <2> HIDE DEF f
  <2> QED
    BY <1>1, <2>2, <2>3
<1>3. CASE ~disk[e].there
  BY <1>1, <1>3 DEF Mark
<1> QED
  BY <1>2, <1>3

\* The steps of a busy actor that keep every file where it is.
LEMMA FileStepKeeps ==
    ASSUME Inv, NEW a \in Actors, Moves(a),
           actor' \in [Actors -> [pc : Pcs, entry : 0..N]],
           actor'[a].pc \in Busy => actor'[a].entry \in Entries,
           a \in Entries => actor'[a].entry = a,
           actor'[a].pc # "written",
           disk' \in [Entries -> FileType],
           \A d \in Entries : disk'[d].there = disk[d].there,
           UNCHANGED <<failed, todo, deferring, recovered, crashes, enqueued, acked,
                       aborted, sends, unsure>>,
           claims' \subseteq claims
    PROVE  Inv'
<1>1. Shape'
  BY DEF Inv, Shape
<1>2. NothingVanishes'
  <2>1. enqueued \subseteq Entries
    BY DEF Inv, Shape
  <2>2. \A e \in enqueued : disk[e].there \/ e \in acked \/ e \in failed
    BY DEF Inv, NothingVanishes
  <2>3. \A e \in enqueued : disk'[e].there \/ e \in acked \/ e \in failed
    BY <2>1, <2>2
  <2> QED
    BY <2>3 DEF NothingVanishes
<1>3. \A e \in Entries : disk'[e].there \/ deferring'[e].there => e \in enqueued'
  BY DEF Inv, Known
<1>4. enqueued \subseteq enqueued' /\ claims' \cup acked' \cup failed' \subseteq enqueued'
  BY DEF Inv, Known
<1> QED
  BY <1>1, <1>2, <1>3, <1>4, StepKeeps

LEMMA MarkKeeps ==
    ASSUME Inv, NEW e \in Entries, MarkSendAttemptStarted(e) \/ MarkOutcomeUnknown(e)
    PROVE  Inv'
<1>1. PICK state \in RecoveryState, pc \in Busy :
        /\ actor[e].pc \in {"mark", "sent"}
        /\ disk' = Mark(e, state) /\ Goto(e, pc, e) /\ claims' = claims
        /\ UNCHANGED <<failed, todo, deferring, recovered, crashes, enqueued, acked,
                       aborted, sends, unsure>>
  <2>1. CASE MarkSendAttemptStarted(e)
    BY <2>1 DEF MarkSendAttemptStarted, RecoveryState, Busy
  <2>2. CASE MarkOutcomeUnknown(e)
    BY <2>2 DEF MarkOutcomeUnknown, RecoveryState, Busy
  <2> QED
    BY <2>1, <2>2
<1>2. actor[e].pc \in Busy /\ e \in Actors /\ actor[e].entry = e
  BY <1>1, ActorSets DEF Inv, Roles, Busy
<1>3. Goto(e, pc, actor[e].entry)
  BY <1>1, <1>2
<1>4. /\ actor' \in [Actors -> [pc : Pcs, entry : 0..N]] /\ Moves(e)
      /\ actor'[e].entry = e /\ actor'[e].pc # "written"
  BY <1>1, <1>2, <1>3, GoesOn
<1>5. disk' \in [Entries -> FileType] /\ \A d \in Entries : disk'[d].there = disk[d].there
  BY <1>1, MarkDoes DEF Inv
<1> QED
  BY <1>1, <1>2, <1>4, <1>5, FileStepKeeps

LEMMA SendKeeps ==
    ASSUME Inv, NEW a \in Actors,
           \/ a \in Entries /\ SendAborted(a)
           \/ SendReturns(a)
           \/ \E shown, permanent \in BOOLEAN : SendThrows(a, shown, permanent)
           \/ a \in Scans /\ Reconcile(a)
    PROVE  Inv'
<1>1. PICK pc \in Busy :
        /\ actor[a].pc \in Busy /\ Goto(a, pc, actor[a].entry) /\ claims' = claims
        /\ UNCHANGED <<disk, failed, deferring, crashes, enqueued, acked, todo, recovered>>
        /\ aborted' \subseteq aborted \cup {actor[a].entry}
        /\ unsure' \subseteq unsure \cup {actor[a].entry}
        /\ sends' \in {sends, [sends EXCEPT ![actor[a].entry] = @ + 1]}
  <2>1. CASE a \in Entries /\ SendAborted(a)
    <3>1. actor[a].entry = a
      BY <2>1 DEF SendAborted, Inv, Roles
    <3> QED
      BY <2>1, <3>1 DEF SendAborted, Busy
  <2>2. CASE SendReturns(a)
    BY <2>2 DEF SendReturns, Busy
  <2>3. CASE \E shown, permanent \in BOOLEAN : SendThrows(a, shown, permanent)
    BY <2>3 DEF SendThrows, Busy
  <2>4. CASE a \in Scans /\ Reconcile(a)
    BY <2>4 DEF Reconcile, Busy
  <2> QED
    BY <2>1, <2>2, <2>3, <2>4
<1>2. /\ actor' \in [Actors -> [pc : Pcs, entry : 0..N]]
      /\ actor'[a].entry \in Entries /\ actor[a].entry \in Entries
      /\ a \in Entries => actor'[a].entry = a
      /\ actor'[a].pc # "written" /\ Moves(a)
  BY <1>1, GoesOn
<1>3. claims' \subseteq enqueued
  BY <1>1 DEF Inv, Known
<1>4. /\ todo' \in [Scans -> SUBSET Entries] /\ recovered' \in BOOLEAN
      /\ aborted' \cup unsure' \subseteq Entries
  BY <1>1, <1>2 DEF Inv, Shape
<1>5. sends' \in [Entries -> Nat]
  BY <1>1, <1>2 DEF Inv, Shape
<1> QED
  BY <1>1, <1>2, <1>3, <1>4, <1>5, QuietStepKeeps

-----------------------------------------------------------------------------
(* The end of an attempt.                                                  *)

LEMMA EndKeeps ==
    ASSUME Inv, NEW a \in Actors, AckDelivery(a) \/ FailDelivery(a) \/ MoveToFailed(a)
    PROVE  Inv'
<1> DEFINE e == actor[a].entry
<1>1. /\ actor[a].pc \in Busy /\ Release(a)
      /\ UNCHANGED <<todo, deferring, recovered, crashes, enqueued, aborted, sends, unsure>>
  BY DEF AckDelivery, FailDelivery, MoveToFailed, Busy
<1>2. Shape /\ e \in Entries /\ disk[e] \in FileType /\ NoFile \in FileType
  BY <1>1, FileTypes DEF Inv, Shape, Roles
<1>3. /\ actor' \in [Actors -> [pc : Pcs, entry : 0..N]] /\ Moves(a)
      /\ actor'[a].pc \in {"next", "ended"} /\ actor'[a].pc \notin Busy
      /\ a \in Entries => actor'[a].entry = a
      /\ claims' = claims \ {e}
  BY <1>1, ReleaseDoes DEF Inv
<1>4. e \in enqueued
  BY <1>1, <1>2 DEF Inv, Claimed, Known, WorksOn, Busy
<1>5. CASE FailDelivery(a)
  <2>1. /\ disk' = [disk EXCEPT ![e] = Failed(disk[e])] /\ UNCHANGED <<failed, acked>>
    BY <1>5 DEF FailDelivery
  <2>2. Failed(disk[e]) \in FileType /\ Failed(disk[e]).there = disk[e].there
    BY <1>2, FileTypes
  <2>3. /\ disk' \in [Entries -> FileType]
        /\ \A d \in Entries : disk'[d].there = disk[d].there
    BY <1>2, <2>1, <2>2 DEF Shape
  <2> QED
    BY <1>1, <1>3, <2>1, <2>3, FileStepKeeps
<1>6. CASE AckDelivery(a) \/ MoveToFailed(a)
  <2>1. /\ disk' = [disk EXCEPT ![e] = NoFile]
        /\ failed \subseteq failed' /\ failed' \subseteq failed \cup {e}
        /\ acked \subseteq acked' /\ acked' \subseteq acked \cup {e}
        /\ e \in acked' \/ e \in failed' \/ ~disk[e].there
    BY <1>6 DEF AckDelivery, MoveToFailed
  <2>2. /\ disk' \in [Entries -> FileType] /\ ~disk'[e].there
        /\ \A d \in Entries \ {e} : disk'[d] = disk[d]
    BY <1>2, <2>1, FileTypes DEF Shape
  <2>3. Shape'
    BY <1>1, <1>2, <1>3, <2>1, <2>2 DEF Shape
  <2>4. NothingVanishes'
    <3>1. \A d \in enqueued : d \in Entries /\ (disk[d].there \/ d \in acked \/ d \in failed)
      BY <1>2 DEF Inv, NothingVanishes, Shape
    <3>2. \A d \in enqueued : disk'[d].there \/ d \in acked' \/ d \in failed'
      BY <2>1, <2>2, <3>1
    <3> QED
      BY <1>1, <3>2 DEF NothingVanishes
  <2>5. /\ enqueued \subseteq enqueued' /\ claims' \cup acked' \cup failed' \subseteq enqueued'
        /\ \A d \in Entries : disk'[d].there \/ deferring'[d].there => d \in enqueued'
    BY <1>1, <1>3, <1>4, <2>1, <2>2 DEF Inv, Known
  <2> QED
    BY <1>3, <2>3, <2>4, <2>5, StepKeeps
<1> QED
  BY <1>5, <1>6

-----------------------------------------------------------------------------
(* The scans.                                                              *)

LEMMA TakeKeeps ==
    ASSUME Inv, NEW s \in Scans, NEW e \in Entries, TakeEntry(s, e)
    PROVE  /\ Inv' /\ e \notin claims
           /\ actor'[s].pc = FirstStep(e) /\ actor'[s].entry = e
           /\ \A b \in Actors \ {s} : actor'[b] = actor[b]
<1>1. /\ e \notin claims /\ disk[e].there /\ claims' = claims \cup {e}
      /\ todo' = [todo EXCEPT ![s] = @ \ {e}] /\ Goto(s, FirstStep(e), e)
      /\ UNCHANGED <<disk, failed, deferring, recovered, crashes, enqueued, acked,
                     aborted, sends, unsure>>
  BY DEF TakeEntry, Claimable, StillThere
<1>2. Shape /\ s \in Actors /\ s \notin Entries /\ e \in 0..N /\ e \in enqueued
  BY <1>1, ActorSets DEF Inv, Known
<1>3. FirstStep(e) \in Pcs /\ FirstStep(e) # "written"
  BY DEF FirstStep, Pcs, Busy
<1>4. /\ actor' \in [Actors -> [pc : Pcs, entry : 0..N]]
      /\ actor'[s].pc = FirstStep(e) /\ actor'[s].entry = e
      /\ \A b \in Actors \ {s} : actor'[b] = actor[b]
  BY <1>1, <1>2, <1>3, GotoDoes
<1>5. Moves(s)
  BY <1>1, <1>4 DEF Moves, Takes
<1>6. claims' \subseteq enqueued
  BY <1>1, <1>2 DEF Inv, Known
<1>7. /\ todo' \in [Scans -> SUBSET Entries] /\ recovered' \in BOOLEAN
      /\ aborted' \cup unsure' \subseteq Entries /\ sends' \in [Entries -> Nat]
  BY <1>1, <1>2 DEF Shape
<1> QED
  BY <1>1, <1>2, <1>3, <1>4, <1>5, <1>6, <1>7, QuietStepKeeps

\* The steps that start, end or interrupt a scan or leave a message out.
LEMMA ScanKeeps ==
    ASSUME Inv, NEW s \in Scans,
           \/ LoadPending(s)
           \/ \E e \in Entries : SkipEntry(s, e)
           \/ ScanEnds(s)
           \/ s = Recovery /\ BudgetExceeded
    PROVE  /\ Inv' /\ actor[s].pc \notin Busy /\ actor'[s].pc \notin Busy
           /\ \A b \in Actors \ {s} : actor'[b] = actor[b]
           /\ UNCHANGED <<disk, deferring, failed, enqueued, acked, aborted, sends, unsure>>
           /\ actor'[s].pc = "defer" => actor[s].pc = "defer" \/ Budget
           /\ actor'[s].pc # "written"
<1>1. /\ UNCHANGED <<disk, deferring, failed, claims, crashes, enqueued, acked, aborted,
                     sends, unsure>>
      /\ todo' \in [Scans -> SUBSET Entries] /\ recovered' \in BOOLEAN
  <2>1. /\ todo \in [Scans -> SUBSET Entries] /\ recovered \in BOOLEAN
    BY DEF Inv, Shape
  <2> QED
    BY <2>1 DEF LoadPending, SkipEntry, ScanEnds, BudgetExceeded
<1>2. Shape /\ s \in Actors /\ s \notin Entries
  BY ActorSets DEF Inv
<1>3. PICK pc \in {"off", "next", "defer"} :
        /\ actor[s].pc \in {"off", "next", "defer"}
        /\ pc = "defer" => actor[s].pc = "defer" \/ Budget
        /\ Goto(s, pc, 0) \/ (actor' = actor /\ actor[s].pc = pc)
  <2>1. CASE LoadPending(s)
    BY <2>1 DEF LoadPending
  <2>2. CASE \E e \in Entries : SkipEntry(s, e)
    BY <2>2 DEF SkipEntry
  <2>3. CASE ScanEnds(s)
    BY <2>3 DEF ScanEnds, Goto, Off
  <2>4. CASE s = Recovery /\ BudgetExceeded
    BY <2>4 DEF BudgetExceeded
  <2> QED
    BY <2>1, <2>2, <2>3, <2>4
<1>4. pc \in Pcs /\ 0 \in 0..N /\ actor[s].pc \notin Busy /\ pc \notin Busy /\ pc # "written"
  BY <1>3, ActorTypes DEF Pcs, Busy
<1>5. /\ actor' \in [Actors -> [pc : Pcs, entry : 0..N]] /\ actor'[s].pc = pc
      /\ \A b \in Actors \ {s} : actor'[b] = actor[b]
  <2>1. CASE Goto(s, pc, 0)
    BY <1>2, <1>4, <2>1, GotoDoes
  <2>2. CASE actor' = actor /\ actor[s].pc = pc
    BY <1>2, <2>2 DEF Shape
  <2> QED
    BY <1>3, <2>1, <2>2
<1>6. Moves(s)
  BY <1>1, <1>4, <1>5 DEF Moves, Rests
<1>7. claims' \subseteq enqueued /\ aborted' \cup unsure' \subseteq Entries
  BY <1>1 DEF Inv, Known, Shape
<1>8. sends' \in [Entries -> Nat]
  BY <1>1, <1>2 DEF Shape
<1>9. Inv'
  BY <1>1, <1>2, <1>4, <1>5, <1>6, <1>7, <1>8, QuietStepKeeps
<1> QED
  BY <1>1, <1>3, <1>4, <1>5, <1>9

\* The deferral works with no claim, and puts back only what it has read.
LEMMA DeferKeeps ==
    ASSUME Inv, NEW e \in Entries, DeferRead(e) \/ DeferWrite(e)
    PROVE  Inv'
<1>1. /\ UNCHANGED <<failed, claims, actor, recovered, crashes, enqueued, acked, aborted,
                     sends, unsure>>
      /\ todo' \in [Scans -> SUBSET Entries]
  BY ActorSets DEF Inv, Shape, DeferRead, DeferWrite
<1>2. /\ disk' \in [Entries -> FileType] /\ deferring' \in [Entries -> FileType]
      /\ \A d \in Entries : disk[d].there => disk'[d].there
      /\ \A d \in Entries : disk'[d].there \/ deferring'[d].there
                                => disk[d].there \/ deferring[d].there
  <2>1. /\ disk \in [Entries -> FileType] /\ deferring \in [Entries -> FileType]
        /\ deferring[e] \in FileType /\ disk[e] \in FileType
    BY DEF Inv, Shape
  <2>2. CASE DeferRead(e)
    <3>1. disk' = disk /\ deferring' = [deferring EXCEPT ![e] = disk[e]]
      BY <2>2 DEF DeferRead
    <3> QED
      BY <2>1, <3>1
  <2>3. CASE DeferWrite(e)
    <3>1. /\ disk' = [disk EXCEPT ![e] = Failed(deferring[e])] /\ deferring[e].there
          /\ deferring' = [deferring EXCEPT ![e] = NoFile]
      BY <2>3 DEF DeferWrite
    <3>2. /\ Failed(deferring[e]) \in FileType /\ Failed(deferring[e]).there
          /\ NoFile \in FileType /\ ~NoFile.there
      BY <2>1, <3>1, FileTypes
    <3> QED
      BY <2>1, <3>1, <3>2
  <2> QED
    BY <2>2, <2>3
<1>3. Shape'
  BY <1>1, <1>2 DEF Inv, Shape
<1>4. Roles' /\ Claimed' /\ OneOwner'
  BY <1>1 DEF Inv, Roles, Claimed, OneOwner, WorksOn
<1>5. Known'
  BY <1>1, <1>2 DEF Inv, Known
<1>6. NothingVanishes'
  <2>1. \A d \in enqueued : d \in Entries /\ (disk[d].there \/ d \in acked \/ d \in failed)
    BY DEF Inv, NothingVanishes, Shape
  <2>2. \A d \in enqueued : disk'[d].there \/ d \in acked \/ d \in failed
    BY <1>2, <2>1
  <2> QED
    BY <1>1, <2>2 DEF NothingVanishes
<1> QED
  BY <1>3, <1>4, <1>5, <1>6 DEF Inv

LEMMA CrashKeeps ==
    ASSUME Inv, Crash
    PROVE  Inv' /\ \A a \in Actors : actor'[a].pc = "off"
<1>1. /\ crashes < MaxCrashes /\ crashes' = crashes + 1 /\ claims' = {}
      /\ actor' = [a \in Actors |-> Off] /\ todo' = [s \in Scans |-> {}]
      /\ deferring' = [e \in Entries |-> NoFile] /\ recovered' = FALSE
      /\ unsure' \subseteq unsure \cup Entries
      /\ UNCHANGED <<disk, failed, enqueued, acked, aborted, sends>>
  BY DEF Crash
<1>2. /\ \A a \in Actors : actor'[a].pc = "off" /\ actor'[a].pc \notin Busy
      /\ actor' \in [Actors -> [pc : Pcs, entry : 0..N]]
  BY <1>1, ActorTypes
<1>3. deferring' \in [Entries -> FileType] /\ \A e \in Entries : ~deferring'[e].there
  BY <1>1, FileTypes
<1>4. Shape'
  <2>1. crashes' \in 0..MaxCrashes
    BY <1>1, BoundsAssumption DEF Inv, Shape
  <2>2. todo' \in [Scans -> SUBSET Entries] /\ recovered' \in BOOLEAN
    BY <1>1
  <2>3. unsure' \subseteq Entries /\ claims' \subseteq Entries
    BY <1>1 DEF Inv, Shape
  <2> QED
    BY <1>1, <1>2, <1>3, <2>1, <2>2, <2>3 DEF Inv, Shape
<1>5. Roles' /\ Claimed' /\ OneOwner'
  BY <1>2, ActorSets DEF Roles, Claimed, OneOwner, WorksOn, Busy
<1>6. Known'
  BY <1>1, <1>2, <1>3, ActorSets DEF Inv, Known
<1>7. NothingVanishes'
  BY <1>1 DEF Inv, NothingVanishes
<1> QED
  BY <1>2, <1>4, <1>5, <1>6, <1>7 DEF Inv

-----------------------------------------------------------------------------
(* What holds whatever the constants are.                                  *)

LEMMA NextKeepsInv == Inv /\ [Next]_vars => Inv'
<1> SUFFICES ASSUME Inv, [Next]_vars PROVE Inv'
  OBVIOUS
<1>1. ASSUME NEW e \in Entries,
             \/ EnqueueDelivery(e) \/ LiveClaim(e) \/ MarkSendAttemptStarted(e)
             \/ MarkOutcomeUnknown(e) \/ DeferRead(e) \/ DeferWrite(e)
      PROVE  Inv'
  BY <1>1, EnqueueKeeps, LiveClaimKeeps, MarkKeeps, DeferKeeps
<1>2. ASSUME NEW e \in Entries, SendAborted(e)
      PROVE  Inv'
  BY <1>2, SendKeeps, ActorSets
<1>3. ASSUME NEW e \in Entries, NEW s \in Scans, TakeEntry(s, e) \/ SkipEntry(s, e)
      PROVE  Inv'
  BY <1>3, TakeKeeps, ScanKeeps
<1>4. ASSUME NEW a \in Actors,
             \/ SendReturns(a) \/ AckDelivery(a) \/ FailDelivery(a) \/ MoveToFailed(a)
             \/ \E shown, permanent \in BOOLEAN : SendThrows(a, shown, permanent)
      PROVE  Inv'
  BY <1>4, SendKeeps, EndKeeps
<1>5. ASSUME NEW s \in Scans, LoadPending(s) \/ Reconcile(s) \/ ScanEnds(s)
      PROVE  Inv'
  BY <1>5, ScanKeeps, SendKeeps, ActorSets
<1>6. CASE BudgetExceeded
  BY <1>6, ScanKeeps, ActorSets
<1>7. CASE Crash
  BY <1>7, CrashKeeps
<1>8. CASE UNCHANGED vars
  BY <1>8 DEF vars, Inv, Shape, Roles, Claimed, OneOwner, Known, NothingVanishes, WorksOn
<1> QED
  BY <1>1, <1>2, <1>3, <1>4, <1>5, <1>6, <1>7, <1>8 DEF Next

LEMMA AlwaysInv == Spec => []Inv
  BY InitInv, NextKeepsInv, PTL DEF Spec

\* Senders and scans take turns: never two of them work on one message, even
\* if scans see files before their senders claim them and the startup scan
\* defers messages it holds no claim of.
THEOREM OneOwnerAtATime == Spec => []OneOwner
<1>1. Inv => OneOwner
  BY DEF Inv
<1> QED
  BY AlwaysInv, <1>1, PTL

\* A message that was enqueued is on the queue, acknowledged or in failed/.
THEOREM NothingIsLost == Spec => []NothingVanishes
<1>1. Inv => NothingVanishes
  BY DEF Inv
<1> QED
  BY AlwaysInv, <1>1, PTL

-----------------------------------------------------------------------------
(* Without gaps.                                                           *)

\* Nobody defers, and every live send holds its claim from the start.
Calm ==
    /\ \A e \in Entries : deferring[e] = NoFile
    /\ \A a \in Actors : actor[a].pc \notin {"written", "defer"}

\* What is true of a message whoever works on it: its retries are within the
\* bound, its file is gone once it ended, and unless a replay was not
\* recorded, it is visible at most once and its file or the scan that showed
\* it knows so.
EntryBase(e) ==
    /\ disk[e].retryCount <= MaxRetries
    /\ disk[e].there => e \notin acked \cup failed
    /\ e \notin enqueued => sends[e] = 0
    /\ e \notin unsure => sends[e] <= 1
    /\ e \notin unsure /\ sends[e] > 0 /\ disk[e].there =>
           \/ disk[e].recoveryState # "none"
           \/ \E s \in Scans : WorksOn(s, e) /\ actor[s].pc = "ack"

\* What the actor a that works on the message e relies on.
OwnerOK(a, e) ==
    /\ disk[e].there
    /\ actor[a].pc # "move" => disk[e].retryCount < MaxRetries
    /\ actor[a].pc = "sent" => sends[e] > 0
    /\ actor[a].pc = "ack" => sends[e] > 0 \/ e \in aborted
    /\ actor[a].pc \in {"mark", "send"} /\ e \notin unsure => sends[e] = 0
    /\ a \in Entries /\ actor[a].pc \in {"send", "sent"} => disk[e].recoveryState # "none"

GInv ==
    /\ Calm
    /\ \A e \in Entries : /\ EntryBase(e)
                          /\ \A a \in Actors : WorksOn(a, e) => OwnerOK(a, e)

\* Nobody but a works on e.
Sole(a, e) == \A b \in Actors \ {a} : ~WorksOn(b, e)

LEMMA SoleOwner ==
    ASSUME Inv, NEW a \in Actors, NEW e \in Entries, WorksOn(a, e) \/ e \notin claims
    PROVE  Sole(a, e)
  BY DEF Inv, Claimed, OneOwner, Sole

\* The step changes nothing of other messages than e, and the actor a has
\* nothing to do with them.
Only(a, e) ==
    /\ \A b \in Actors \ {a} : actor'[b] = actor[b]
    /\ \A d \in Entries \ {e} :
        /\ ~WorksOn(a, d) /\ ~WorksOn(a, d)'
        /\ disk'[d] = disk[d] /\ sends'[d] = sends[d]
        /\ d \in acked' <=> d \in acked
        /\ d \in failed' <=> d \in failed
        /\ d \in aborted' <=> d \in aborted
        /\ d \in enqueued' <=> d \in enqueued
        /\ d \in unsure' <=> d \in unsure

LEMMA EntryStep ==
    ASSUME GInv, NEW a \in Actors, NEW e \in Entries, Only(a, e), Sole(a, e),
           deferring' = deferring, actor'[a].pc \notin {"written", "defer"},
           EntryBase(e)', WorksOn(a, e)' => OwnerOK(a, e)'
    PROVE  GInv'
<1>1. Calm'
  BY DEF GInv, Calm, Only
<1>2. \A b \in Actors \ {a}, d \in Entries : WorksOn(b, d)' <=> WorksOn(b, d)
  BY DEF Only, WorksOn
<1>3. \A b \in Actors : WorksOn(b, e)' => OwnerOK(b, e)'
  BY <1>2 DEF Sole
<1>4. ASSUME NEW d \in Entries \ {e}
      PROVE  /\ EntryBase(d)'
             /\ \A b \in Actors : WorksOn(b, d)' => OwnerOK(b, d)'
  <2>1. /\ EntryBase(d) /\ \A b \in Actors : WorksOn(b, d) => OwnerOK(b, d)
    BY <1>4 DEF GInv
  <2>2. /\ ~WorksOn(a, d) /\ ~WorksOn(a, d)'
        /\ disk'[d] = disk[d] /\ sends'[d] = sends[d]
        /\ d \in acked' <=> d \in acked
        /\ d \in failed' <=> d \in failed
        /\ d \in aborted' <=> d \in aborted
        /\ d \in enqueued' <=> d \in enqueued
        /\ d \in unsure' <=> d \in unsure
    BY DEF Only
  <2>3. ASSUME NEW b \in Actors, WorksOn(b, d)'
        PROVE  OwnerOK(b, d)'
    <3>1. b # a /\ actor'[b] = actor[b] /\ WorksOn(b, d)
      BY <1>2, <2>2, <2>3 DEF Only
    <3>2. OwnerOK(b, d)
      BY <2>1, <3>1
    <3> QED
      BY <2>2, <3>1, <3>2 DEF OwnerOK
  <2>4. EntryBase(d)'
    <3>1. ASSUME NEW s \in Scans, WorksOn(s, d), actor[s].pc = "ack"
          PROVE  WorksOn(s, d)' /\ actor'[s].pc = "ack"
      <4>1. s \in Actors \ {a}
        BY <2>2, <3>1, ActorSets
      <4> QED
        BY <1>2, <3>1, <4>1 DEF Only
    <3> QED
      BY <2>1, <2>2, <3>1 DEF EntryBase
  <2> QED
    BY <2>3, <2>4
<1> QED
  BY <1>1, <1>3, <1>4 DEF GInv

LEMMA InitGInv ==
    ASSUME Init
    PROVE  GInv
<1>1. \A a \in Actors, e \in Entries : ~WorksOn(a, e) /\ actor[a].pc = "off"
  BY ActorTypes DEF Init, WorksOn, Busy
<1>2. \A e \in Entries : disk[e] = NoFile /\ deferring[e] = NoFile /\ sends[e] = 0
  BY DEF Init
<1>3. \A e \in Entries : EntryBase(e)
  BY <1>2, FileTypes, BoundsAssumption DEF EntryBase
<1>4. Calm
  BY <1>1, <1>2, FileTypes, ActorTypes DEF Init, Calm, Off
<1> QED
  BY <1>1, <1>3, <1>4 DEF GInv

\* The steps of an actor that is not busy and stays so.
LEMMA IdleStep ==
    ASSUME GInv, NEW a \in Actors,
           \A b \in Actors \ {a} : actor'[b] = actor[b],
           actor[a].pc \notin Busy, actor'[a].pc \notin Busy \cup {"written", "defer"},
           UNCHANGED <<disk, deferring, failed, enqueued, acked, aborted, sends, unsure>>
    PROVE  GInv'
<1>1. \A d \in Entries : ~WorksOn(a, d) /\ ~WorksOn(a, d)'
  BY DEF WorksOn, Busy
<1>2. Calm'
  BY DEF GInv, Calm
<1>3. \A b \in Actors, d \in Entries : WorksOn(b, d)' <=> WorksOn(b, d)
  BY <1>1 DEF WorksOn
<1>4. ASSUME NEW d \in Entries
      PROVE  EntryBase(d)' /\ \A b \in Actors : WorksOn(b, d)' => OwnerOK(b, d)'
  <2>1. EntryBase(d) /\ \A b \in Actors : WorksOn(b, d) => OwnerOK(b, d)
    BY DEF GInv
  <2>2. ASSUME NEW b \in Actors, WorksOn(b, d)
        PROVE  b # a /\ actor'[b] = actor[b]
    BY <1>1, <2>2
  <2>3. \A b \in Actors : WorksOn(b, d)' => OwnerOK(b, d)'
    BY <1>3, <2>1, <2>2 DEF OwnerOK
  <2>4. \A s \in Scans : WorksOn(s, d) /\ actor[s].pc = "ack"
                             => WorksOn(s, d)' /\ actor'[s].pc = "ack"
    BY <1>3, <2>2, ActorSets
  <2>5. EntryBase(d)'
    BY <2>1, <2>4 DEF EntryBase
  <2> QED
    BY <2>3, <2>5
<1> QED
  BY <1>2, <1>4 DEF GInv

\* A busy actor is the only one that works on its message.
LEMMA BusyOwns ==
    ASSUME Inv, NEW a \in Actors, actor[a].pc \in Busy, NEW e, e = actor[a].entry
    PROVE  /\ e \in Entries /\ WorksOn(a, e) /\ Sole(a, e) /\ e \in enqueued
           /\ \A d \in Entries \ {e} : ~WorksOn(a, d)
           /\ a \in Entries => e = a
<1>1. e \in Entries /\ WorksOn(a, e)
  BY DEF Inv, Roles, WorksOn, Busy
<1>2. Sole(a, e)
  BY <1>1, SoleOwner
<1>3. e \in enqueued
  BY <1>1 DEF Inv, Claimed, Known
<1>4. \A d \in Entries \ {e} : ~WorksOn(a, d)
  BY DEF WorksOn
<1>5. a \in Entries => e = a
  BY DEF Inv, Roles, Busy
<1> QED
  BY <1>1, <1>2, <1>3, <1>4, <1>5

LEMMA GoesOnAlone ==
    ASSUME Inv, NEW a \in Actors, actor[a].pc \in Busy, NEW pc \in Busy, NEW e,
           e = actor[a].entry, Goto(a, pc, e), claims' = claims
    PROVE  /\ actor'[a].pc = pc /\ actor'[a].entry = e /\ WorksOn(a, e)'
           /\ actor'[a].pc \notin {"written", "defer"}
           /\ \A b \in Actors \ {a} : actor'[b] = actor[b]
           /\ \A d \in Entries \ {e} : ~WorksOn(a, d)'
<1>1. actor'[a].pc = pc /\ actor'[a].entry = e
  BY GoesOn
<1>2. \A b \in Actors \ {a} : actor'[b] = actor[b]
  <2>1. actor \in [Actors -> [pc : Pcs, entry : 0..N]]
    BY DEF Inv, Shape
  <2> QED
    BY <2>1 DEF Goto
<1> QED
  BY <1>1, <1>2 DEF WorksOn, Busy

LEMMA EnqueueCalm ==
    ASSUME NoGaps, Inv, GInv, NEW e \in Entries, EnqueueDelivery(e)
    PROVE  GInv'
<1>1. /\ e \notin enqueued /\ enqueued' = enqueued \cup {e}
      /\ disk' = [disk EXCEPT ![e] = NewFile]
      /\ UNCHANGED <<failed, deferring, acked, aborted, sends, unsure>>
  BY DEF EnqueueDelivery
<1>2. /\ actor'[e].entry = e /\ e \notin claims /\ actor'[e].pc = "mark"
      /\ \A b \in Actors \ {e} : actor'[b] = actor[b]
  BY EnqueueKeeps DEF NoGaps
<1>3. actor[e].pc = "off" /\ e \in Actors
  BY ActorSets DEF EnqueueDelivery
<1>4. /\ disk'[e] = NewFile
      /\ \A d \in Entries \ {e} : disk'[d] = disk[d]
  BY <1>1 DEF Inv, Shape
<1>5. Only(e, e)
  BY <1>1, <1>2, <1>3, <1>4 DEF Only, WorksOn
<1>6. Sole(e, e)
  BY <1>2, <1>3, SoleOwner
<1>7. /\ NewFile.there /\ NewFile.retryCount = 0 /\ e \notin acked \cup failed
      /\ sends[e] = 0
  BY <1>1, FileTypes DEF Inv, Known, GInv, EntryBase
<1>8. EntryBase(e)' /\ OwnerOK(e, e)'
  BY <1>1, <1>2, <1>4, <1>7, BoundsAssumption DEF EntryBase, OwnerOK
<1> QED
  BY <1>1, <1>2, <1>3, <1>5, <1>6, <1>8, EntryStep

LEMMA MarkCalm ==
    ASSUME Inv, GInv, NEW e \in Entries, MarkSendAttemptStarted(e) \/ MarkOutcomeUnknown(e)
    PROVE  GInv'
<1>1. PICK state \in RecoveryState \ {"none"}, pc \in {"send", "ack"} :
        /\ actor[e].pc = (IF pc = "send" THEN "mark" ELSE "sent")
        /\ disk' = Mark(e, state) /\ Goto(e, pc, e) /\ claims' = claims
        /\ UNCHANGED <<failed, deferring, enqueued, acked, aborted, sends, unsure>>
  <2>1. CASE MarkSendAttemptStarted(e)
    BY <2>1 DEF MarkSendAttemptStarted, RecoveryState
  <2>2. CASE MarkOutcomeUnknown(e)
    BY <2>2 DEF MarkOutcomeUnknown, RecoveryState
  <2> QED
    BY <2>1, <2>2
<1>2. /\ actor[e].pc \in Busy /\ pc \in Busy /\ e \in Actors /\ actor[e].entry = e
  BY <1>1, ActorSets DEF Busy, Inv, Roles
<1>3. /\ WorksOn(e, e) /\ Sole(e, e) /\ e \in enqueued
      /\ \A d \in Entries \ {e} : ~WorksOn(e, d)
  BY <1>2, BusyOwns
<1>4. /\ actor'[e].pc = pc /\ WorksOn(e, e)'
      /\ actor'[e].pc \notin {"written", "defer"}
      /\ \A b \in Actors \ {e} : actor'[b] = actor[b]
      /\ \A d \in Entries \ {e} : ~WorksOn(e, d)'
  BY <1>1, <1>2, GoesOnAlone
<1>5. OwnerOK(e, e) /\ EntryBase(e)
  BY <1>2, <1>3 DEF GInv
<1>6. /\ \A d \in Entries \ {e} : disk'[d] = disk[d]
      /\ disk'[e].there /\ disk'[e].retryCount = disk[e].retryCount
      /\ disk'[e].recoveryState = state
  BY <1>1, <1>5, MarkDoes DEF Inv, OwnerOK
<1>7. Only(e, e)
  BY <1>1, <1>3, <1>4, <1>6 DEF Only
<1>8. OwnerOK(e, e)'
  BY <1>1, <1>4, <1>5, <1>6 DEF OwnerOK
<1>9. EntryBase(e)'
  BY <1>1, <1>5, <1>6 DEF EntryBase, OwnerOK
<1> QED
  BY <1>1, <1>2, <1>3, <1>4, <1>7, <1>8, <1>9, EntryStep

LEMMA AbortCalm ==
    ASSUME Inv, GInv, NEW e \in Entries, SendAborted(e)
    PROVE  GInv'
<1>1. /\ actor[e].pc \in {"mark", "send"} /\ Goto(e, "ack", e) /\ claims' = claims
      /\ aborted' = aborted \cup {e}
      /\ UNCHANGED <<disk, failed, deferring, enqueued, acked, sends, unsure>>
  BY DEF SendAborted
<1>2. /\ actor[e].pc \in Busy /\ "ack" \in Busy /\ e \in Actors /\ actor[e].entry = e
  BY <1>1, ActorSets DEF Busy, Inv, Roles
<1>3. /\ WorksOn(e, e) /\ Sole(e, e)
      /\ \A d \in Entries \ {e} : ~WorksOn(e, d)
  BY <1>2, BusyOwns
<1>4. /\ actor'[e].pc = "ack"
      /\ actor'[e].pc \notin {"written", "defer"}
      /\ \A b \in Actors \ {e} : actor'[b] = actor[b]
      /\ \A d \in Entries \ {e} : ~WorksOn(e, d)'
  BY <1>1, <1>2, GoesOnAlone
<1>5. OwnerOK(e, e) /\ EntryBase(e)
  BY <1>2, <1>3 DEF GInv
<1>6. Only(e, e)
  BY <1>1, <1>3, <1>4 DEF Only
<1>7. OwnerOK(e, e)'
  BY <1>1, <1>4, <1>5 DEF OwnerOK
<1>8. EntryBase(e)'
  BY <1>1, <1>5 DEF EntryBase, OwnerOK
<1> QED
  BY <1>1, <1>2, <1>3, <1>4, <1>6, <1>7, <1>8, EntryStep

\* A send, whether the adapter returns or throws.
LEMMA SendCalm ==
    ASSUME Inv, GInv, NEW a \in Actors,
           \/ SendReturns(a)
           \/ \E shown, permanent \in BOOLEAN : SendThrows(a, shown, permanent)
    PROVE  GInv'
<1>e. PICK e : e = actor[a].entry
  OBVIOUS
<1>1. PICK shown \in BOOLEAN, pc \in {"ack", "sent", "fail", "move"} :
        /\ actor[a].pc = "send" /\ Goto(a, pc, e) /\ claims' = claims
        /\ sends' = IF shown THEN [sends EXCEPT ![e] = @ + 1] ELSE sends
        /\ unsure' = IF shown /\ a \in Scans /\ pc # "ack" THEN unsure \cup {e} ELSE unsure
        /\ pc = "ack" => shown /\ a \in Scans
        /\ pc = "sent" => shown /\ a \notin Scans
        /\ pc = "move" => a \in Scans
        /\ UNCHANGED <<disk, failed, deferring, enqueued, acked, aborted>>
  <2>1. CASE SendReturns(a)
    BY <1>e, <2>1 DEF SendReturns
  <2>2. CASE \E shown, permanent \in BOOLEAN : SendThrows(a, shown, permanent)
    BY <1>e, <2>2 DEF SendThrows
  <2> QED
    BY <2>1, <2>2
<1>2. actor[a].pc \in Busy /\ pc \in Busy
  BY <1>1 DEF Busy
<1>3. /\ e \in Entries /\ WorksOn(a, e) /\ Sole(a, e) /\ e \in enqueued
      /\ \A d \in Entries \ {e} : ~WorksOn(a, d)
  BY <1>e, <1>2, BusyOwns
<1>4. /\ actor'[a].pc = pc /\ WorksOn(a, e)'
      /\ actor'[a].pc \notin {"written", "defer"}
      /\ \A b \in Actors \ {a} : actor'[b] = actor[b]
      /\ \A d \in Entries \ {e} : ~WorksOn(a, d)'
  BY <1>e, <1>1, <1>2, GoesOnAlone
<1>5. OwnerOK(a, e) /\ EntryBase(e)
  BY <1>3 DEF GInv
<1>6. /\ sends \in [Entries -> Nat] /\ sends'[e] = sends[e] + (IF shown THEN 1 ELSE 0)
      /\ sends[e] \in Nat
      /\ \A d \in Entries \ {e} : sends'[d] = sends[d]
  BY <1>1, <1>3 DEF Inv, Shape
<1>7. Only(a, e)
  BY <1>1, <1>3, <1>4, <1>6 DEF Only
<1>8. OwnerOK(a, e)'
  BY <1>1, <1>4, <1>5, <1>6, ActorSets DEF OwnerOK
<1>9. EntryBase(e)'
  <2>1. e \notin unsure => sends[e] = 0
    BY <1>1, <1>5 DEF OwnerOK
  <2>2. e \notin unsure' => e \notin unsure /\ sends'[e] <= 1
    BY <1>1, <1>6, <2>1
  <2>3. ASSUME e \notin unsure', sends'[e] > 0
        PROVE  \/ disk'[e].recoveryState # "none"
               \/ \E s \in Scans : WorksOn(s, e)' /\ actor'[s].pc = "ack"
    <3>1. shown
      BY <1>6, <2>1, <2>2, <2>3
    <3>2. CASE a \in Scans
      <4>1. pc = "ack"
        BY <1>1, <2>3, <3>1, <3>2
      <4> QED
        BY <1>4, <3>2, <4>1
    <3>3. CASE a \notin Scans
      <4>1. a \in Entries
        BY <3>3, ActorSets
      <4> QED
        BY <1>1, <1>5, <4>1 DEF OwnerOK
    <3> QED
      BY <3>2, <3>3
  <2> QED
    BY <1>1, <1>3, <1>5, <2>2, <2>3 DEF EntryBase
<1> QED
  BY <1>1, <1>3, <1>4, <1>7, <1>8, <1>9, EntryStep

LEMMA EndCalm ==
    ASSUME Inv, GInv, NEW a \in Actors,
           AckDelivery(a) \/ FailDelivery(a) \/ MoveToFailed(a)
    PROVE  GInv'
<1>e. PICK e : e = actor[a].entry
  OBVIOUS
<1>1. /\ actor[a].pc \in {"ack", "fail", "move"} /\ Release(a)
      /\ UNCHANGED <<deferring, enqueued, aborted, sends, unsure>>
  BY DEF AckDelivery, FailDelivery, MoveToFailed
<1>2. actor[a].pc \in Busy
  BY <1>1 DEF Busy
<1>3. /\ e \in Entries /\ WorksOn(a, e) /\ Sole(a, e)
      /\ \A d \in Entries \ {e} : ~WorksOn(a, d)
  BY <1>e, <1>2, BusyOwns
<1>4. /\ actor'[a].pc \in {"next", "ended"}
      /\ \A b \in Actors \ {a} : actor'[b] = actor[b]
  BY <1>1, <1>2, ReleaseDoes DEF Inv, Moves
<1>5. \A d \in Entries : ~WorksOn(a, d)'
  BY <1>4 DEF WorksOn
<1>6. OwnerOK(a, e) /\ EntryBase(e) /\ disk[e] \in FileType
  BY <1>3 DEF GInv, Inv, Shape
<1>7. CASE FailDelivery(a)
  <2>1. /\ disk' = [disk EXCEPT ![e] = Failed(disk[e])] /\ actor[a].pc = "fail"
        /\ UNCHANGED <<failed, acked>>
    BY <1>e, <1>7 DEF FailDelivery
  <2>2. /\ disk'[e] = Failed(disk[e])
        /\ \A d \in Entries \ {e} : disk'[d] = disk[d]
    BY <1>3, <2>1 DEF Inv, Shape
  <2>3. Failed(disk[e]) = [disk[e] EXCEPT !.retryCount = disk[e].retryCount + 1,
                                          !.attempted = TRUE]
    BY <1>6 DEF OwnerOK, Failed
  <2>4. /\ disk'[e].there = disk[e].there /\ disk'[e].recoveryState = disk[e].recoveryState
        /\ disk'[e].retryCount = disk[e].retryCount + 1
    BY <1>6, <2>2, <2>3 DEF FileType
  <2>5. disk'[e].retryCount <= MaxRetries
    <3>1. disk[e].retryCount < MaxRetries /\ disk[e].retryCount \in Nat
      BY <1>6, <2>1 DEF OwnerOK, FileType
    <3> QED
      BY <2>4, <3>1, BoundsAssumption
  <2>6. Only(a, e)
    BY <1>1, <1>3, <1>4, <1>5, <2>1, <2>2 DEF Only
  <2>7. \A s \in Scans : ~(WorksOn(s, e) /\ actor[s].pc = "ack")
    BY <1>3, <2>1, ActorSets DEF Sole
  <2>8. EntryBase(e)'
    BY <1>1, <1>6, <2>1, <2>4, <2>5, <2>7 DEF EntryBase
  <2> QED
    BY <1>1, <1>3, <1>4, <1>5, <2>6, <2>8, EntryStep
<1>8. CASE AckDelivery(a) \/ MoveToFailed(a)
  <2>1. /\ disk' = [disk EXCEPT ![e] = NoFile]
        /\ failed' \subseteq failed \cup {e} /\ failed \subseteq failed'
        /\ acked' \subseteq acked \cup {e} /\ acked \subseteq acked'
    BY <1>e, <1>8 DEF AckDelivery, MoveToFailed
  <2>2. /\ disk'[e] = NoFile
        /\ \A d \in Entries \ {e} : disk'[d] = disk[d]
    BY <1>3, <2>1 DEF Inv, Shape
  <2>3. Only(a, e)
    BY <1>1, <1>3, <1>4, <1>5, <2>1, <2>2 DEF Only
  <2>4. EntryBase(e)'
    BY <1>1, <1>6, <2>2, FileTypes, BoundsAssumption DEF EntryBase
  <2> QED
    BY <1>1, <1>3, <1>4, <1>5, <2>3, <2>4, EntryStep
<1> QED
  BY <1>7, <1>8

LEMMA ReconcileCalm ==
    ASSUME Inv, GInv, NEW a \in Scans, Reconcile(a)
    PROVE  GInv'
<1>e. PICK e : e = actor[a].entry
  OBVIOUS
<1>1. PICK pc \in {"move", "fail", "ack", "send"} :
        /\ actor[a].pc = "reconcile" /\ Goto(a, pc, e) /\ claims' = claims
        /\ pc = "ack" => sends[e] > 0
        /\ pc = "send" => sends[e] = 0
        /\ UNCHANGED <<disk, failed, deferring, enqueued, acked, aborted, sends, unsure>>
  BY <1>e DEF Reconcile
<1>2. actor[a].pc \in Busy /\ pc \in Busy /\ a \in Actors /\ a \notin Entries
  BY <1>1, ActorSets DEF Busy
<1>3. /\ e \in Entries /\ WorksOn(a, e) /\ Sole(a, e)
      /\ \A d \in Entries \ {e} : ~WorksOn(a, d)
  BY <1>e, <1>2, BusyOwns
<1>4. /\ actor'[a].pc = pc
      /\ actor'[a].pc \notin {"written", "defer"}
      /\ \A b \in Actors \ {a} : actor'[b] = actor[b]
      /\ \A d \in Entries \ {e} : ~WorksOn(a, d)'
  BY <1>e, <1>1, <1>2, GoesOnAlone
<1>5. OwnerOK(a, e) /\ EntryBase(e)
  BY <1>2, <1>3 DEF GInv
<1>6. Only(a, e)
  BY <1>1, <1>3, <1>4 DEF Only
<1>7. OwnerOK(a, e)'
  BY <1>1, <1>2, <1>4, <1>5 DEF OwnerOK
<1>8. \A s \in Scans : ~(WorksOn(s, e) /\ actor[s].pc = "ack")
  BY <1>1, <1>3, ActorSets DEF Sole
<1>9. EntryBase(e)'
  BY <1>1, <1>5, <1>8 DEF EntryBase
<1> QED
  BY <1>1, <1>2, <1>3, <1>4, <1>6, <1>7, <1>9, EntryStep

\* A scan sends at once only what is not marked, which is not visible unless a
\* replay was not recorded.
LEMMA TakeCalm ==
    ASSUME Inv, GInv, NEW s \in Scans, NEW e \in Entries, TakeEntry(s, e)
    PROVE  GInv'
<1>1. /\ e \notin claims /\ disk[e].there /\ actor[s].pc = "next"
      /\ UNCHANGED <<disk, failed, deferring, enqueued, acked, aborted, sends, unsure>>
  BY DEF TakeEntry, StillThere, Claimable
<1>2. /\ actor'[s].pc = FirstStep(e) /\ actor'[s].entry = e
      /\ \A b \in Actors \ {s} : actor'[b] = actor[b]
  BY TakeKeeps
<1>3. s \in Actors /\ s \notin Entries /\ Sole(s, e)
  BY <1>1, SoleOwner, ActorSets
<1>4. Only(s, e)
  BY <1>1, <1>2 DEF Only, WorksOn
<1>5. EntryBase(e) /\ sends[e] \in Nat /\ disk[e].retryCount \in Nat
  BY DEF GInv, Inv, Shape, FileType
<1>6. \A t \in Scans : ~(WorksOn(t, e) /\ actor[t].pc = "ack")
  BY <1>1, <1>3, ActorSets DEF Sole
<1>7. /\ FirstStep(e) \in {"move", "send", "reconcile"}
      /\ FirstStep(e) # "move" => disk[e].retryCount < MaxRetries
      /\ FirstStep(e) = "send" => disk[e].recoveryState = "none"
  BY <1>5, BoundsAssumption DEF FirstStep
<1>8. FirstStep(e) = "send" /\ e \notin unsure => sends[e] = 0
  BY <1>1, <1>5, <1>6, <1>7 DEF EntryBase
<1>9. OwnerOK(s, e)'
  BY <1>1, <1>2, <1>3, <1>7, <1>8 DEF OwnerOK
<1>10. EntryBase(e)'
  BY <1>1, <1>5, <1>6 DEF EntryBase
<1>11. actor'[s].pc \notin {"written", "defer"}
  BY <1>2, <1>7
<1> QED
  BY <1>1, <1>3, <1>4, <1>9, <1>10, <1>11, EntryStep

LEMMA ScanCalm ==
    ASSUME NoGaps, Inv, GInv, NEW s \in Scans,
           \/ LoadPending(s)
           \/ \E e \in Entries : SkipEntry(s, e)
           \/ ScanEnds(s)
    PROVE  GInv'
<1>1. /\ actor[s].pc \notin Busy /\ actor'[s].pc \notin Busy
      /\ \A b \in Actors \ {s} : actor'[b] = actor[b]
      /\ UNCHANGED <<disk, deferring, failed, enqueued, acked, aborted, sends, unsure>>
      /\ actor'[s].pc = "defer" => actor[s].pc = "defer" \/ Budget
      /\ actor'[s].pc # "written"
  BY ScanKeeps
<1>2. s \in Actors /\ actor[s].pc # "defer"
  BY ActorSets DEF GInv, Calm
<1>3. actor'[s].pc \notin Busy \cup {"written", "defer"}
  BY <1>1, <1>2 DEF NoGaps
<1> QED
  BY <1>1, <1>2, <1>3, IdleStep

\* What a crash leaves of a message that was being replayed is unsure.
LEMMA CrashCalm ==
    ASSUME Inv, GInv, Crash
    PROVE  GInv'
<1>1. /\ deferring' = [e \in Entries |-> NoFile]
      /\ unsure' = unsure \cup {e \in Entries :
             \E s \in Scans : actor[s].pc = "ack" /\ actor[s].entry = e}
      /\ UNCHANGED <<disk, failed, enqueued, acked, aborted, sends>>
  BY DEF Crash
<1>2. \A a \in Actors : actor'[a].pc = "off"
  BY CrashKeeps
<1>3. \A a \in Actors, e \in Entries : ~WorksOn(a, e)'
  BY <1>2 DEF WorksOn
<1>4. Calm'
  BY <1>1, <1>2, FileTypes DEF Calm
<1>5. ASSUME NEW e \in Entries
      PROVE  EntryBase(e)'
  <2>1. EntryBase(e)
    BY DEF GInv
  <2>2. e \notin unsure' => /\ e \notin unsure
                            /\ \A s \in Scans : ~(WorksOn(s, e) /\ actor[s].pc = "ack")
    BY <1>1 DEF WorksOn
  <2> QED
    BY <1>1, <2>1, <2>2 DEF EntryBase
<1> QED
  BY <1>3, <1>4, <1>5 DEF GInv

LEMMA NextKeepsGInv ==
    ASSUME NoGaps
    PROVE  Inv /\ GInv /\ [Next]_vars => GInv'
<1> SUFFICES ASSUME Inv, GInv, [Next]_vars PROVE GInv'
  OBVIOUS
<1>1. ASSUME NEW e \in Entries,
             \/ EnqueueDelivery(e) \/ MarkSendAttemptStarted(e)
             \/ MarkOutcomeUnknown(e) \/ SendAborted(e)
      PROVE  GInv'
  BY <1>1, EnqueueCalm, MarkCalm, AbortCalm
<1>2. ASSUME NEW e \in Entries
      PROVE  ~LiveClaim(e) /\ ~DeferRead(e) /\ ~DeferWrite(e)
  BY ActorSets, FileTypes DEF GInv, Calm, LiveClaim, DeferRead, DeferWrite
<1>3. ASSUME NEW e \in Entries, NEW s \in Scans, TakeEntry(s, e) \/ SkipEntry(s, e)
      PROVE  GInv'
  BY <1>3, TakeCalm, ScanCalm
<1>4. ASSUME NEW a \in Actors,
             \/ SendReturns(a) \/ AckDelivery(a) \/ FailDelivery(a) \/ MoveToFailed(a)
             \/ \E shown, permanent \in BOOLEAN : SendThrows(a, shown, permanent)
      PROVE  GInv'
  BY <1>4, SendCalm, EndCalm
<1>5. ASSUME NEW s \in Scans, LoadPending(s) \/ Reconcile(s) \/ ScanEnds(s)
      PROVE  GInv'
  BY <1>5, ScanCalm, ReconcileCalm
<1>6. ~BudgetExceeded
  BY DEF NoGaps, BudgetExceeded
<1>7. CASE Crash
  BY <1>7, CrashCalm
<1>8. CASE UNCHANGED vars
  BY <1>8 DEF vars, GInv, Calm, EntryBase, OwnerOK, WorksOn
<1> QED
  BY <1>1, <1>2, <1>3, <1>4, <1>5, <1>6, <1>7, <1>8 DEF Next

LEMMA AlwaysGInv ==
    ASSUME NoGaps
    PROVE  Spec => [](Inv /\ GInv)
<1>1. Init => Inv /\ GInv
  BY InitInv, InitGInv
<1>2. (Inv /\ GInv) /\ [Next]_vars => (Inv /\ GInv)'
  BY NextKeepsInv, NextKeepsGInv
<1> QED
  BY <1>1, <1>2, PTL DEF Spec

\* Files and activities keep their types, and no message is attempted again
\* once it has used up its retries.
THEOREM TypeCorrect ==
    ASSUME NoGaps
    PROVE  Spec => []TypeOK
<1>1. Inv /\ GInv => TypeOK
  <2> SUFFICES ASSUME Inv, GInv PROVE TypeOK
    OBVIOUS
  <2>1. \A e \in Entries : /\ disk[e] \in FileType /\ disk[e].retryCount \in 0..MaxRetries
                           /\ deferring[e] = NoFile
    BY BoundsAssumption DEF Inv, Shape, GInv, Calm, EntryBase, FileType
  <2>2. NoFile \in FileType /\ NoFile.retryCount \in 0..MaxRetries
    BY FileTypes, BoundsAssumption
  <2>3. \A f \in {disk[e] : e \in Entries} \cup {deferring[e] : e \in Entries} :
            f \in FileType /\ f.retryCount \in 0..MaxRetries
    BY <2>1, <2>2
  <2>4. \A f \in FileType : /\ f.there \in BOOLEAN /\ f.attempted \in BOOLEAN
                            /\ f.recoveryState \in RecoveryState
    BY DEF FileType
  <2>5. /\ failed \cup claims \cup enqueued \cup acked \cup aborted \cup unsure
               \subseteq Entries
        /\ actor \in [Actors -> [pc : Pcs, entry : 0..N]]
        /\ todo \in [Scans -> SUBSET Entries]
        /\ recovered \in BOOLEAN /\ crashes \in 0..MaxCrashes
        /\ sends \in [Entries -> Nat]
    BY DEF Inv, Shape
  <2>6. Pcs = {"off", "written", "mark", "send", "sent", "ack", "fail", "move",
               "reconcile", "next", "defer", "ended"}
    BY DEF Pcs, Busy
  <2> QED
    BY <2>3, <2>4, <2>5, <2>6 DEF TypeOK
<1> QED
  BY AlwaysGInv, <1>1, PTL

\* Only an unrecorded replay makes a message visible a second time.
THEOREM DuplicatesAreReplays ==
    ASSUME NoGaps
    PROVE  Spec => []DuplicatesComeFromReplays
<1>1. Inv /\ GInv => DuplicatesComeFromReplays
  BY DEF Inv, Shape, GInv, EntryBase, DuplicatesComeFromReplays
<1> QED
  BY AlwaysGInv, <1>1, PTL

-----------------------------------------------------------------------------
(* The outbox.                                                             *)

StatusOf(e) ==
    IF e \notin enqueued THEN "new"
    ELSE IF e \in failed \/ (e \in acked /\ e \in aborted) THEN "given-up"
    ELSE IF e \in acked THEN "delivered"
    ELSE "queued"

LEMMA StatusIs == OutboxStatus = [e \in Entries |-> StatusOf(e)]
  BY DEF OutboxStatus, StatusOf

LEMMA StatusIsNext == OutboxStatus' = [e \in Entries |-> StatusOf(e)']
  BY DEF OutboxStatus, StatusOf

\* Only the message e changes: its status to x.
LEMMA StatusChanges ==
    ASSUME NEW e \in Entries, NEW x, StatusOf(e)' = x,
           \A d \in Entries \ {e} : StatusOf(d)' = StatusOf(d)
    PROVE  OutboxStatus' = [OutboxStatus EXCEPT ![e] = x]
  BY StatusIs, StatusIsNext

LEMMA StatusStays ==
    ASSUME \A d \in Entries : StatusOf(d)' = StatusOf(d)
    PROVE  OutboxStatus' = OutboxStatus
  BY StatusIs, StatusIsNext

LEMMA InitImplements == Init => Abstract!OutboxInit
<1> SUFFICES ASSUME Init PROVE Abstract!OutboxInit
  OBVIOUS
<1>1. \A e \in Entries : StatusOf(e) = "new"
  BY DEF Init, StatusOf
<1> QED
  BY <1>1, StatusIs DEF Init, Abstract!OutboxInit

\* A message somebody works on is queued.
LEMMA BusyIsQueued ==
    ASSUME Inv, GInv, NEW a \in Actors, actor[a].pc \in Busy, NEW e, e = actor[a].entry
    PROVE  /\ e \in Entries /\ OwnerOK(a, e)
           /\ e \in enqueued /\ e \notin acked /\ e \notin failed
           /\ StatusOf(e) = "queued" /\ OutboxStatus[e] = "queued"
<1>1. e \in Entries /\ e \in enqueued /\ OwnerOK(a, e) /\ EntryBase(e)
  BY BusyOwns DEF GInv
<1>2. e \notin acked /\ e \notin failed
  BY <1>1 DEF OwnerOK, EntryBase
<1> QED
  BY <1>1, <1>2, StatusIs DEF StatusOf

\* The concrete step is a step of the outbox or a stutter of it.
Implements == Abstract!OutboxNext \/ UNCHANGED <<OutboxStatus, sends>>

LEMMA Stutters ==
    ASSUME UNCHANGED <<enqueued, acked, failed, aborted, sends>>
    PROVE  Implements
  BY StatusStays DEF StatusOf, Implements

LEMMA EnqueueImplements ==
    ASSUME Inv, NEW e \in Entries, EnqueueDelivery(e)
    PROVE  Implements
<1>1. /\ e \notin enqueued /\ e \notin acked /\ e \notin failed
      /\ enqueued' = enqueued \cup {e}
      /\ UNCHANGED <<failed, acked, aborted, sends>>
  BY DEF EnqueueDelivery, Inv, Known
<1>2. /\ OutboxStatus[e] = "new" /\ StatusOf(e)' = "queued"
      /\ \A d \in Entries \ {e} : StatusOf(d)' = StatusOf(d)
  BY <1>1, StatusIs DEF StatusOf
<1>3. OutboxStatus' = [OutboxStatus EXCEPT ![e] = "queued"]
  BY <1>2, StatusChanges
<1>4. Abstract!Accept(e)
  BY <1>1, <1>2, <1>3 DEF Abstract!Accept
<1> QED
  BY <1>4 DEF Implements, Abstract!OutboxNext

LEMMA AbortImplements ==
    ASSUME Inv, GInv, NEW e \in Entries, SendAborted(e)
    PROVE  Implements
<1>1. /\ actor[e].pc \in Busy /\ e \in Actors /\ actor[e].entry = e
      /\ aborted' = aborted \cup {e}
      /\ UNCHANGED <<enqueued, acked, failed, sends>>
  BY ActorSets DEF SendAborted, Busy, Inv, Roles
<1>2. e \notin acked /\ e \notin failed
  BY <1>1, BusyIsQueued
<1>3. \A d \in Entries : StatusOf(d)' = StatusOf(d)
  BY <1>1, <1>2 DEF StatusOf
<1> QED
  BY <1>1, <1>3, StatusStays DEF Implements

LEMMA SendImplements ==
    ASSUME Inv, GInv, NEW a \in Actors,
           \/ SendReturns(a)
           \/ \E shown, permanent \in BOOLEAN : SendThrows(a, shown, permanent)
    PROVE  Implements
<1>e. PICK e : e = actor[a].entry
  OBVIOUS
<1>1. /\ actor[a].pc \in Busy
      /\ sends' = [sends EXCEPT ![e] = @ + 1] \/ sends' = sends
      /\ UNCHANGED <<enqueued, acked, failed, aborted>>
  BY <1>e DEF SendReturns, SendThrows, Busy
<1>2. e \in Entries /\ OutboxStatus[e] = "queued"
  BY <1>e, <1>1, BusyIsQueued
<1>3. OutboxStatus' = OutboxStatus
  BY <1>1, StatusStays DEF StatusOf
<1>4. CASE sends' = [sends EXCEPT ![e] = @ + 1]
  <2>1. Abstract!Show(e)
    BY <1>2, <1>3, <1>4 DEF Abstract!Show
  <2> QED
    BY <1>2, <2>1 DEF Implements, Abstract!OutboxNext
<1>5. CASE sends' = sends
  BY <1>3, <1>5 DEF Implements
<1> QED
  BY <1>1, <1>4, <1>5

LEMMA AckImplements ==
    ASSUME Inv, GInv, NEW a \in Actors, AckDelivery(a)
    PROVE  Implements
<1>e. PICK e : e = actor[a].entry
  OBVIOUS
<1>1. /\ actor[a].pc = "ack" /\ acked' = acked \cup {e}
      /\ UNCHANGED <<failed, enqueued, aborted, sends>>
  BY <1>e DEF AckDelivery
<1>2. /\ e \in Entries /\ e \in enqueued /\ e \notin failed /\ OwnerOK(a, e)
      /\ OutboxStatus[e] = "queued"
  BY <1>e, <1>1, BusyIsQueued DEF Busy
<1>3. \A d \in Entries \ {e} : StatusOf(d)' = StatusOf(d)
  BY <1>1 DEF StatusOf
<1>4. CASE e \in aborted
  <2>1. StatusOf(e)' = "given-up"
    BY <1>1, <1>2, <1>4 DEF StatusOf
  <2>2. OutboxStatus' = [OutboxStatus EXCEPT ![e] = "given-up"]
    BY <1>2, <1>3, <2>1, StatusChanges
  <2>3. Abstract!GiveUp(e)
    BY <1>1, <1>2, <2>2 DEF Abstract!GiveUp
  <2> QED
    BY <1>2, <2>3 DEF Implements, Abstract!OutboxNext
<1>5. CASE e \notin aborted
  <2>1. StatusOf(e)' = "delivered" /\ sends[e] > 0
    BY <1>1, <1>2, <1>5 DEF StatusOf, OwnerOK
  <2>2. OutboxStatus' = [OutboxStatus EXCEPT ![e] = "delivered"]
    BY <1>2, <1>3, <2>1, StatusChanges
  <2>3. Abstract!Deliver(e)
    BY <1>1, <1>2, <2>1, <2>2 DEF Abstract!Deliver
  <2> QED
    BY <1>2, <2>3 DEF Implements, Abstract!OutboxNext
<1> QED
  BY <1>4, <1>5

LEMMA MoveImplements ==
    ASSUME Inv, GInv, NEW a \in Actors, MoveToFailed(a)
    PROVE  Implements
<1>e. PICK e : e = actor[a].entry
  OBVIOUS
<1>1. /\ actor[a].pc \in Busy
      /\ failed' = IF disk[e].there THEN failed \cup {e} ELSE failed
      /\ UNCHANGED <<acked, enqueued, aborted, sends>>
  BY <1>e DEF MoveToFailed, Busy
<1>2. /\ e \in Entries /\ e \in enqueued /\ disk[e].there /\ OutboxStatus[e] = "queued"
  BY <1>e, <1>1, BusyIsQueued DEF OwnerOK
<1>3. /\ StatusOf(e)' = "given-up"
      /\ \A d \in Entries \ {e} : StatusOf(d)' = StatusOf(d)
  BY <1>1, <1>2 DEF StatusOf
<1>4. OutboxStatus' = [OutboxStatus EXCEPT ![e] = "given-up"]
  BY <1>2, <1>3, StatusChanges
<1>5. Abstract!GiveUp(e)
  BY <1>1, <1>2, <1>4 DEF Abstract!GiveUp
<1> QED
  BY <1>2, <1>5 DEF Implements, Abstract!OutboxNext

LEMMA NextImplements == Inv /\ GInv /\ [Next]_vars => Implements
<1> SUFFICES ASSUME Inv, GInv, [Next]_vars PROVE Implements
  OBVIOUS
<1>1. ASSUME NEW e \in Entries, EnqueueDelivery(e) \/ SendAborted(e)
      PROVE  Implements
  BY <1>1, EnqueueImplements, AbortImplements
<1>2. ASSUME NEW e \in Entries,
             \/ LiveClaim(e) \/ MarkSendAttemptStarted(e) \/ MarkOutcomeUnknown(e)
             \/ DeferRead(e) \/ DeferWrite(e)
      PROVE  Implements
  BY <1>2, Stutters DEF LiveClaim, MarkSendAttemptStarted, MarkOutcomeUnknown, DeferRead,
                        DeferWrite
<1>3. ASSUME NEW e \in Entries, NEW s \in Scans, TakeEntry(s, e) \/ SkipEntry(s, e)
      PROVE  Implements
  BY <1>3, Stutters DEF TakeEntry, SkipEntry
<1>4. ASSUME NEW a \in Actors,
             \/ SendReturns(a)
             \/ \E shown, permanent \in BOOLEAN : SendThrows(a, shown, permanent)
      PROVE  Implements
  BY <1>4, SendImplements
<1>5. ASSUME NEW a \in Actors, AckDelivery(a) \/ MoveToFailed(a)
      PROVE  Implements
  BY <1>5, AckImplements, MoveImplements
<1>6. ASSUME NEW a \in Actors, FailDelivery(a)
      PROVE  Implements
  BY <1>6, Stutters DEF FailDelivery
<1>7. ASSUME NEW s \in Scans, LoadPending(s) \/ Reconcile(s) \/ ScanEnds(s)
      PROVE  Implements
  BY <1>7, Stutters DEF LoadPending, Reconcile, ScanEnds
<1>8. CASE BudgetExceeded \/ Crash
  BY <1>8, Stutters DEF BudgetExceeded, Crash
<1>9. CASE UNCHANGED vars
  BY <1>9, Stutters DEF vars
<1> QED
  BY <1>1, <1>2, <1>3, <1>4, <1>5, <1>6, <1>7, <1>8, <1>9 DEF Next

\* The queue implements the outbox: a message becomes visible only while it is
\* queued, is delivered only if it was visible, and is settled once.
THEOREM QueueImplementsOutbox ==
    ASSUME NoGaps
    PROVE  Spec => ImplementsOutbox
<1>1. Inv /\ GInv /\ [Next]_vars => [Abstract!OutboxNext]_<<OutboxStatus, sends>>
  BY NextImplements DEF Implements
<1> QED
  BY InitImplements, AlwaysGInv, <1>1, PTL
     DEF Spec, ImplementsOutbox, Abstract!OutboxSpec, Abstract!outboxVars
=============================================================================

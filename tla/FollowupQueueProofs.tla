------------------------- MODULE FollowupQueueProofs -------------------------
(***************************************************************************)
(* Proofs about FollowupQueue for any messages, routes, authorization keys,*)
(* settings and number of queue objects: type correctness, no orphaned     *)
(* queue, homogeneous prompts, drops that survive failures, and, where no  *)
(* setting evicts what was accepted, that no message is lost and that      *)
(* messages are answered once and in order.                                *)
(***************************************************************************)
EXTENDS FollowupQueue, SequenceTheorems, FiniteSetTheorems, WellFoundedInduction, TLAPS

Seqs == Seq(Messages)
QueueType == [items : Seqs, dropped : SUBSET Messages, settings : Settings]
DrainType == [pc : {"idle", "debounce", "starting", "running"}, batch : Seqs,
              shift : Nat, report : SUBSET Messages, rest : Seqs, force : BOOLEAN]

-----------------------------------------------------------------------------
(* The inductive invariant.  Its parts are stated of an entry cur, queue   *)
(* objects qs, drains dr and histories, because an action passes through   *)
(* states in between: the queue after a run, the drain that left its loop. *)

\* The messages a prompt carries have one route and one authorization key; so
\* have the collected messages left for further groups one route.
Homogeneous(d) ==
    /\ \A m, n \in Elems(d.batch) : Auth[m] = Auth[n]
    /\ \A m, n \in Elems(d.batch) \cup Elems(d.rest) : Route[m] = Route[n]

\* A drain that is idle or waits for the debounce holds no messages.
Quiet(d) ==
    /\ d \in DrainType
    /\ d.pc \in {"idle", "debounce"}
    /\ d.batch = <<>> /\ d.rest = <<>> /\ d.shift = 0 /\ d.report = {}

\* The types, and the entry of the map is the only queue that holds something.
Base(cur, qs, dr) ==
    /\ cur \in 0..MaxQueues
    /\ qs \in [Queues -> QueueType]
    /\ dr \in [Queues -> DrainType]
    /\ \A q \in Queues : Homogeneous(dr[q])
    /\ \A q \in Queues : dr[q].pc \in {"idle", "debounce"} => Quiet(dr[q])
    /\ \A q \in Queues : ~Spent(qs[q]) => q = cur

\* The reply operation is held by the drain that runs.
RunHolds(dr, run) ==
    /\ run \in 0..MainRun
    /\ \A q \in Queues : dr[q].pc = "running" <=> run = q

HistoryTypes ==
    /\ accepted \in Seqs /\ delivered \in Seqs
    /\ reported \in SUBSET Messages /\ evicted \in SUBSET Messages
    /\ cleared \in SUBSET Messages /\ stoppedMidDrain \in BOOLEAN

TypeInv == Base(current, queues, drain) /\ RunHolds(drain, replyRun) /\ HistoryTypes

Held(z) == Elems(z.items) \cup z.dropped
Distinct(s) == \A i, j \in 1..Len(s) : s[i] = s[j] => i = j

\* A message is queued or dropped once, and leaves for good when it is reported
\* or cleared; the drops a prompt reports are still recorded, unless /stop
\* cleared them.
DropsRecorded(qs, dr, acc, rep, clr) ==
    /\ rep \cup clr \subseteq Elems(acc)
    /\ \A q \in Queues :
        /\ Distinct(qs[q].items)
        /\ Elems(qs[q].items) \cap qs[q].dropped = {}
        /\ Held(qs[q]) \subseteq Elems(acc)
        /\ Held(qs[q]) \cap (rep \cup clr) = {}
        /\ dr[q].report \cap rep = {}
        /\ dr[q].report \subseteq qs[q].dropped \cup clr
    /\ \A p, q \in Queues : p # q => dr[p].report \cap dr[q].report = {}

DropInv == DropsRecorded(queues, drain, accepted, reported, cleared)

\* The messages a drain has read from its queue and not answered.
Pending(d) == d.batch \o d.rest

IsPrefixOf(s, t) == Len(s) <= Len(t) /\ \A i \in 1..Len(s) : s[i] = t[i]

\* m was accepted before n.
Before(m, n, acc) == \E k, l \in 1..Len(acc) : k < l /\ acc[k] = m /\ acc[l] = n

\* A drain answers the head of its queue, unless /stop replaced the queue.
Tracks(cur, q, z, d, clr) ==
    /\ d.shift = Len(d.batch)
    /\ \/ IsPrefixOf(Pending(d), z.items)
       \/ q # cur /\ Elems(Pending(d)) \subseteq clr

\* Nothing is dropped, and every message read is still to be answered.
ReadOnce(cur, qs, dr, del, clr) ==
    /\ \A q \in Queues :
        /\ qs[q].dropped = {}
        /\ Tracks(cur, q, qs[q], dr[q], clr)
        /\ Distinct(Pending(dr[q]))
        /\ Elems(Pending(dr[q])) \cap Elems(del) = {}
    /\ \A p, q \in Queues :
        p # q => Elems(Pending(dr[p])) \cap Elems(Pending(dr[q])) = {}

\* What is queued was accepted in that order, after all that was answered or
\* cleared.
InOrder(qs, acc, del, clr) ==
    /\ Distinct(acc)
    /\ Elems(del) \subseteq Elems(acc)
    /\ \A q \in Queues :
        /\ \A i, j \in 1..Len(qs[q].items) :
               i < j => Before(qs[q].items[i], qs[q].items[j], acc)
        /\ \A m \in Elems(qs[q].items) : \A n \in Elems(del) \cup clr : Before(n, m, acc)

\* The answers: each message once, in order.
Answers(acc, del, clr) ==
    /\ Distinct(del)
    /\ \A i, j \in 1..Len(del) : i < j => del[j] \in clr \/ Before(del[i], del[j], acc)

\* Nothing is lost.
Kept(qs, acc, del, clr) ==
    \A m \in Elems(acc) :
        \/ m \in Elems(del) \cup clr
        \/ \E q \in Queues : m \in Elems(qs[q].items)

Orderly(cur, qs, dr, acc, del, clr) ==
    /\ ReadOnce(cur, qs, dr, del, clr)
    /\ InOrder(qs, acc, del, clr)
    /\ Answers(acc, del, clr)
    /\ Kept(qs, acc, del, clr)

OrderInv == Orderly(current, queues, drain, accepted, delivered, cleared)

\* No setting evicts a message that was accepted: at the cap new ones are refused.
NothingEvicted == \A s \in Settings : s.drop = "new"

-----------------------------------------------------------------------------
(* Sequences.                                                              *)

\* Less-than on the naturals, and its least elements: what is left of induction
\* when predicates are sets.
Less == {p \in Nat \X Nat : p[1] < p[2]}

LEMMA LeastNumber ==
    ASSUME NEW T \in SUBSET Nat, T # {}
    PROVE  \E n \in T : \A m \in T : n <= m
<1>1. IsWellFoundedOn(Less, Nat)
  BY NatLessThanWellFounded DEF OpToRel, Less
<1>2. PICK n \in T : \A m \in T : <<m, n>> \notin Less
  BY <1>1, WFMin
<1>3. \A m \in T : ~(m < n)
  BY <1>2 DEF Less
<1> QED
  BY <1>3

\* What is left of a sequence without its first n elements.
LEMMA DropFirstProps ==
    ASSUME NEW S, NEW s \in Seq(S), NEW n \in Nat
    PROVE  /\ DropFirst(n, s) \in Seq(S)
           /\ Len(DropFirst(n, s)) = IF n <= Len(s) THEN Len(s) - n ELSE 0
           /\ \A i \in 1..Len(DropFirst(n, s)) :
                i + n \in 1..Len(s) /\ DropFirst(n, s)[i] = s[i + n]
           /\ Elems(DropFirst(n, s)) \subseteq Elems(s)
<1> DEFINE t == DropFirst(n, s)
<1>1. \A i \in (n + 1)..Len(s) : s[i] \in S
  BY ElementOfSeq
<1>2. Len(s) \in Nat
  BY LenProperties
<1>3. /\ t \in Seq(S)
      /\ Len(t) = IF n + 1 <= Len(s) THEN Len(s) - (n + 1) + 1 ELSE 0
      /\ \A i \in 1..(Len(s) - (n + 1) + 1) : t[i] = s[n + 1 + i - 1]
  BY <1>1, <1>2, SubSeqProperties DEF DropFirst
<1> HIDE DEF t
<1>4. Len(t) = IF n <= Len(s) THEN Len(s) - n ELSE 0
  BY <1>2, <1>3
<1>5. \A i \in 1..Len(t) : i + n \in 1..Len(s) /\ t[i] = s[i + n]
  BY <1>2, <1>3
<1>6. Elems(t) \subseteq Elems(s)
  BY <1>5 DEF Elems
<1> QED
  BY <1>3, <1>4, <1>5, <1>6 DEF t

LEMMA TakeFirstProps ==
    ASSUME NEW S, NEW s \in Seq(S), NEW n \in 1..Len(s)
    PROVE  /\ SubSeq(s, 1, n) \in Seq(S)
           /\ Len(SubSeq(s, 1, n)) = n
           /\ \A i \in 1..n : SubSeq(s, 1, n)[i] = s[i]
           /\ Elems(SubSeq(s, 1, n)) = {s[i] : i \in 1..n}
           /\ SubSeq(s, 1, n) \o DropFirst(n, s) = s
<1> DEFINE t == SubSeq(s, 1, n)
<1>1. Len(s) \in Nat /\ n \in Nat /\ \A i \in 1..n : s[i] \in S
  BY ElementOfSeq, LenProperties
<1>2. /\ t \in Seq(S) /\ Len(t) = IF 1 <= n THEN n - 1 + 1 ELSE 0
      /\ \A i \in 1..(n - 1 + 1) : t[i] = s[1 + i - 1]
  BY <1>1, SubSeqProperties
<1>3. t \o DropFirst(n, s) = SubSeq(s, 1, Len(s))
  BY <1>1, ConcatAdjacentSubSeq DEF DropFirst
<1>4. SubSeq(s, 1, Len(s)) = s
  BY SubSeqFull
<1> HIDE DEF t
<1>5. Len(t) = n /\ \A i \in 1..n : t[i] = s[i]
  BY <1>1, <1>2
<1>6. Elems(t) = {s[i] : i \in 1..n}
  BY <1>5 DEF Elems
<1> QED
  BY <1>2, <1>3, <1>4, <1>5, <1>6 DEF t

LEMMA ElemsOfSeq ==
    ASSUME NEW S, NEW s \in Seq(S)
    PROVE  Elems(s) \subseteq S /\ (Elems(s) = {} <=> s = <<>>)
<1>1. Len(s) \in Nat /\ \A i \in 1..Len(s) : s[i] \in S
  BY ElementOfSeq, LenProperties
<1>2. s # <<>> => Len(s) \in Nat \ {0}
  BY EmptySeq
<1>3. s # <<>> => s[1] \in Elems(s)
  BY <1>2 DEF Elems
<1>4. Elems(<<>>) = {}
  BY DEF Elems
<1> QED
  BY <1>1, <1>3, <1>4 DEF Elems

LEMMA ElemsOfAppend ==
    ASSUME NEW S, NEW s \in Seq(S), NEW e \in S
    PROVE  Elems(Append(s, e)) = Elems(s) \cup {e}
<1>1. Len(s) \in Nat
  BY LenProperties
<1>2. /\ Len(Append(s, e)) = Len(s) + 1
      /\ \A i \in 1..Len(s) : Append(s, e)[i] = s[i]
      /\ Append(s, e)[Len(s) + 1] = e
  BY AppendProperties
<1> QED
  BY <1>1, <1>2 DEF Elems

LEMMA ElemsOfConcat ==
    ASSUME NEW S, NEW s \in Seq(S), NEW t \in Seq(S)
    PROVE  Elems(s \o t) = Elems(s) \cup Elems(t)
<1>1. Len(s) \in Nat /\ Len(t) \in Nat
  BY LenProperties
<1>2. /\ Len(s \o t) = Len(s) + Len(t)
      /\ \A i \in 1..Len(s) + Len(t) :
             (s \o t)[i] = IF i <= Len(s) THEN s[i] ELSE t[i - Len(s)]
  BY ConcatProperties
<1>3. Elems(s \o t) \subseteq Elems(s) \cup Elems(t)
  <2> SUFFICES ASSUME NEW i \in 1..Len(s) + Len(t) PROVE (s \o t)[i] \in Elems(s) \cup Elems(t)
    BY <1>2 DEF Elems
  <2> QED
    BY <1>1, <1>2 DEF Elems
<1>4. Elems(s) \subseteq Elems(s \o t)
  BY <1>1, <1>2 DEF Elems
<1>5. ASSUME NEW i \in 1..Len(t) PROVE t[i] \in Elems(s \o t)
  <2>1. i + Len(s) \in 1..Len(s) + Len(t) /\ (s \o t)[i + Len(s)] = t[i]
    BY <1>1, <1>2
  <2> QED
    BY <2>1, <1>2 DEF Elems
<1> QED
  BY <1>3, <1>4, <1>5 DEF Elems

\* The first group of a split is a prefix with one authorization key.
LEMMA FirstGroupProps ==
    ASSUME NEW s \in Seqs, s # <<>>
    PROVE  \E n \in 1..Len(s) :
               /\ FirstGroup(s) = SubSeq(s, 1, n)
               /\ \A i \in 1..n : Auth[s[i]] = Auth[s[1]]
<1> DEFINE same(n) == \A i \in 1..n : Auth[s[i]] = Auth[s[1]]
           last(n) == same(n) /\ (n = Len(s) \/ ~same(n + 1))
           T == {n \in 1..Len(s) : n = Len(s) \/ ~same(n + 1)}
<1>1. Len(s) \in Nat \ {0}
  BY EmptySeq DEF Seqs
<1>2. PICK n \in T : \A m \in T : n <= m
  <2>1. T \in SUBSET Nat /\ Len(s) \in T
    BY <1>1
  <2> HIDE DEF T
  <2> QED
    BY <2>1, LeastNumber
<1>3. same(n)
  <2>1. CASE n = 1
    BY <2>1
  <2>2. CASE n # 1
    <3>1. n - 1 \in 1..Len(s) /\ n - 1 \notin T
      BY <1>1, <1>2, <2>2
    <3>2. same((n - 1) + 1)
      BY <3>1
    <3>3. (n - 1) + 1 = n
      BY <1>1
    <3> QED
      BY <3>2, <3>3
  <2> QED
    BY <2>1, <2>2
<1>4. \E k \in 1..Len(s) : last(k)
  BY <1>2, <1>3
<1> DEFINE c == CHOOSE k \in 1..Len(s) : last(k)
<1>5. c \in 1..Len(s) /\ last(c)
  BY <1>4
<1>6. FirstGroup(s) = SubSeq(s, 1, c)
  BY DEF FirstGroup
<1> QED
  BY <1>5, <1>6

-----------------------------------------------------------------------------
(* What the synchronous stretches have in common.                          *)

\* From entry cur, queue objects qs and drains dr the end of the stretch only
\* starts or ends idle drains and deletes an entry that is spent.
Resumes(cur, qs, dr, cur2, qs2, dr2) ==
    /\ cur2 = cur \/ (cur2 = 0 /\ cur \in Queues /\ Spent(qs[cur]))
    /\ qs2 \in [Queues -> QueueType] /\ dr2 \in [Queues -> DrainType]
    /\ \A q \in Queues :
        /\ qs2[q].items = qs[q].items /\ qs2[q].dropped = qs[q].dropped
        /\ dr2[q] = dr[q] \/ (Quiet(dr2[q]) /\ Quiet(dr[q]))

ResumesTo(cur, qs, dr) == Resumes(cur, qs, dr, current', queues', drain')

LEMMA FreshQueueType == FreshQueue \in QueueType /\ Spent(FreshQueue)
<1>1. (CHOOSE s \in Settings : TRUE) \in Settings
  BY SettingsAssumption
<1>2. <<>> \in Seqs
  BY EmptySeq DEF Seqs
<1> QED
  BY <1>1, <1>2 DEF FreshQueue, QueueType, Spent

LEMMA IdleQuiet == Quiet(Idle) /\ Homogeneous(Idle)
<1>1. <<>> \in Seqs
  BY EmptySeq DEF Seqs
<1> QED
  BY <1>1 DEF Quiet, Idle, DrainType, Homogeneous, Elems

LEMMA QuietHomogeneous ==
    ASSUME NEW d, Quiet(d) PROVE Homogeneous(d)
<1>1. Elems(d.batch) = {} /\ Elems(d.rest) = {}
  BY DEF Quiet, Elems
<1> QED
  BY <1>1 DEF Homogeneous

LEMMA LoopHeadResumes ==
    ASSUME NEW cur, NEW qs \in [Queues -> QueueType], NEW dr \in [Queues -> DrainType],
           NEW q \in Queues, NEW force \in BOOLEAN, LoopHead(cur, q, qs, dr, force)
    PROVE  ResumesTo(cur, qs, [dr EXCEPT ![q] = Idle])
<1>1. CASE Spent(qs[q])
  <2>1. /\ current' = EntryAfterDrain(cur, q) /\ queues' = [qs EXCEPT ![q] = FreshQueue]
        /\ drain' = [dr EXCEPT ![q] = Idle]
    BY <1>1 DEF LoopHead
  <2>2. queues'[q].items = qs[q].items /\ queues'[q].dropped = qs[q].dropped
    BY <1>1, <2>1, FreshQueueType DEF Spent
  <2>3. queues' \in [Queues -> QueueType] /\ drain' \in [Queues -> DrainType]
    BY <2>1, FreshQueueType, IdleQuiet DEF Quiet
  <2>4. current' = cur \/ (current' = 0 /\ cur = q)
    BY <2>1 DEF EntryAfterDrain
  <2> QED
    BY <1>1, <2>1, <2>2, <2>3, <2>4 DEF ResumesTo, Resumes
<1>2. CASE ~Spent(qs[q])
  <2> DEFINE d == [Idle EXCEPT !.pc = "debounce", !.force = force]
  <2>1. current' = cur /\ queues' = qs /\ drain' = [dr EXCEPT ![q] = d]
    BY <1>2 DEF LoopHead
  <2>2. Quiet(d)
    BY IdleQuiet DEF Quiet, Idle, DrainType
  <2> HIDE DEF d
  <2>3. drain' \in [Queues -> DrainType]
    BY <2>1, <2>2 DEF Quiet
  <2> QED
    BY <2>1, <2>2, <2>3, IdleQuiet DEF ResumesTo, Resumes
<1> QED
  BY <1>1, <1>2

LEMMA ScheduleResumes ==
    ASSUME NEW cur \in 0..MaxQueues, NEW qs \in [Queues -> QueueType],
           NEW dr \in [Queues -> DrainType], ScheduleFollowupDrain(cur, qs, dr),
           \A q \in Queues : dr[q].pc = "idle" => Quiet(dr[q])
    PROVE  ResumesTo(cur, qs, dr)
<1>1. CASE cur # 0 /\ dr[cur].pc = "idle"
  <2>1. cur \in Queues
    BY <1>1, QueuesAssumption DEF Queues
  <2>4. LoopHead(cur, cur, qs, dr, FALSE)
    BY <1>1 DEF ScheduleFollowupDrain
  <2>2. ResumesTo(cur, qs, [dr EXCEPT ![cur] = Idle])
    BY <2>1, <2>4, LoopHeadResumes
  <2>3. Quiet(dr[cur]) /\ Quiet(Idle)
    BY <1>1, <2>1, IdleQuiet
  <2> QED
    BY <2>1, <2>2, <2>3 DEF ResumesTo, Resumes
<1>2. CASE ~(cur # 0 /\ dr[cur].pc = "idle")
  BY <1>2 DEF ScheduleFollowupDrain, ResumesTo, Resumes
<1> QED
  BY <1>1, <1>2

LEMMA ResumeBase ==
    ASSUME NEW cur, NEW qs, NEW dr, NEW cur2, NEW qs2, NEW dr2,
           Base(cur, qs, dr), Resumes(cur, qs, dr, cur2, qs2, dr2)
    PROVE  Base(cur2, qs2, dr2)
<1>1. cur2 \in 0..MaxQueues /\ qs2 \in [Queues -> QueueType] /\ dr2 \in [Queues -> DrainType]
  BY QueuesAssumption DEF Base, Resumes
<1>2. \A q \in Queues : dr2[q] = dr[q] \/ Quiet(dr2[q])
  BY DEF Resumes
<1>3. \A q \in Queues : /\ Homogeneous(dr2[q])
                        /\ dr2[q].pc \in {"idle", "debounce"} => Quiet(dr2[q])
  BY <1>2, QuietHomogeneous DEF Base
<1>4. ASSUME NEW q \in Queues, ~Spent(qs2[q]) PROVE q = cur2
  <2>1. ~Spent(qs[q])
    BY <1>4 DEF Resumes, Spent
  <2> QED
    BY <2>1 DEF Base, Resumes
<1> QED
  BY <1>1, <1>3, <1>4 DEF Base

LEMMA ResumeRun ==
    ASSUME NEW cur, NEW qs, NEW dr, NEW cur2, NEW qs2, NEW dr2, NEW run,
           RunHolds(dr, run), Resumes(cur, qs, dr, cur2, qs2, dr2)
    PROVE  RunHolds(dr2, run)
  BY DEF RunHolds, Resumes, Quiet

LEMMA SetDrainBase ==
    ASSUME NEW cur, NEW qs, NEW dr, Base(cur, qs, dr), NEW q \in Queues,
           NEW d \in DrainType, Homogeneous(d), d.pc \in {"idle", "debounce"} => Quiet(d)
    PROVE  Base(cur, qs, [dr EXCEPT ![q] = d])
  BY DEF Base

LEMMA LeaveResumes ==
    ASSUME TypeInv, NEW q \in Queues, LeaveLoop(q)
    PROVE  /\ ResumesTo(current, queues, [drain EXCEPT ![q] = Idle])
           /\ Base(current, queues, [drain EXCEPT ![q] = Idle])
           /\ Base(current', queues', drain')
<1> DEFINE dr == [drain EXCEPT ![q] = Idle]
<1>1. Base(current, queues, dr)
  BY SetDrainBase, IdleQuiet DEF TypeInv, Quiet
<1>2. CASE Spent(queues[q])
  <2>1. LoopHead(current, q, queues, drain, FALSE)
    BY <1>2 DEF LeaveLoop
  <2>2. queues \in [Queues -> QueueType] /\ drain \in [Queues -> DrainType]
    BY DEF TypeInv, Base
  <2> QED
    BY <1>1, <2>1, <2>2, LoopHeadResumes, ResumeBase DEF ResumesTo
<1>3. CASE ~Spent(queues[q])
  <2>1. ScheduleFollowupDrain(current, queues, dr)
    BY <1>3 DEF LeaveLoop
  <2> HIDE DEF dr
  <2>2. ResumesTo(current, queues, dr)
    BY <1>1, <2>1, ScheduleResumes DEF Base
  <2> QED
    BY <1>1, <2>2, ResumeBase DEF ResumesTo, dr
<1> QED
  BY <1>2, <1>3

\* A queue whose messages do not cross channels holds messages of one route.
LEMMA OneRoute ==
    ASSUME NEW s \in Seqs, ~HasCrossChannelItems(s)
    PROVE  \A m, n \in Elems(s) : Route[m] = Route[n]
<1> DEFINE routes == {Route[m] : m \in Elems(s)}
           f == [i \in 1..Len(s) |-> Route[s[i]]]
<1>1. Len(s) \in Nat
  BY LenProperties DEF Seqs
<1>2. f \in Surjection(1..Len(s), routes)
  <2>1. \A i \in 1..Len(s) : Route[s[i]] \in routes
    BY DEF Elems
  <2>2. \A r \in routes : \E i \in 1..Len(s) : Route[s[i]] = r
    BY DEF Elems
  <2> HIDE DEF routes
  <2> QED
    BY <2>1, <2>2 DEF Surjection
<1>3. IsFiniteSet(routes)
  <2>1. IsFiniteSet(1..Len(s))
    BY <1>1, FS_Interval
  <2> HIDE DEF f, routes
  <2> QED
    BY <1>2, <2>1, FS_Surjection
<1>4. ~(Cardinality(routes) > 1)
  BY DEF HasCrossChannelItems
<1> SUFFICES ASSUME NEW m \in Elems(s), NEW n \in Elems(s), Route[m] # Route[n]
             PROVE  FALSE
  OBVIOUS
<1>5. Route[m] \in routes /\ Route[n] \in routes
  OBVIOUS
<1> HIDE DEF routes
<1> DEFINE two == {Route[m]} \cup {Route[n]}
<1>6. Cardinality(two) = 2
  <2>1. IsFiniteSet({Route[m]}) /\ Cardinality({Route[m]}) = 1
    BY FS_Singleton
  <2>2. Route[n] \notin {Route[m]}
    OBVIOUS
  <2>3. Cardinality(two) = Cardinality({Route[m]}) + 1
    BY <2>1, <2>2, FS_AddElement
  <2> HIDE DEF two
  <2> QED
    BY <2>1, <2>3
<1>7. two \in SUBSET routes
  BY <1>5
<1> HIDE DEF two
<1>8. Cardinality(two) <= Cardinality(routes) /\ Cardinality(routes) \in Nat
  BY <1>3, <1>7, FS_Subset, FS_CardinalityType
<1> QED
  BY <1>4, <1>6, <1>8

-----------------------------------------------------------------------------
(* What each step does to the drain of q.                                  *)

\* What a call of the runner reads from the queue z: the head of its messages,
\* or a summary of its drops.
Reads(z, d) ==
    /\ d.pc = "starting" /\ Homogeneous(d)
    /\ d.report # {} => d.report = PendingSummary(z)
    /\ d.report = {} => d.shift = Len(d.batch) /\ IsPrefixOf(Pending(d), z.items)

LEMMA GroupAndRest ==
    ASSUME NEW s \in Seqs, s # <<>>
    PROVE  /\ FirstGroup(s) \in Seqs /\ DropFirst(Len(FirstGroup(s)), s) \in Seqs
           /\ Len(FirstGroup(s)) \in Nat
           /\ FirstGroup(s) \o DropFirst(Len(FirstGroup(s)), s) = s
           /\ \A m, n \in Elems(FirstGroup(s)) : Auth[m] = Auth[n]
           /\ Elems(FirstGroup(s)) \cup Elems(DropFirst(Len(FirstGroup(s)), s)) \subseteq Elems(s)
<1>1. PICK k \in 1..Len(s) : /\ FirstGroup(s) = SubSeq(s, 1, k)
                             /\ \A i \in 1..k : Auth[s[i]] = Auth[s[1]]
  BY FirstGroupProps
<1>2. /\ SubSeq(s, 1, k) \in Seqs /\ Len(SubSeq(s, 1, k)) = k
      /\ Elems(SubSeq(s, 1, k)) = {s[i] : i \in 1..k}
      /\ SubSeq(s, 1, k) \o DropFirst(k, s) = s
  BY TakeFirstProps DEF Seqs
<1>3. k \in Nat /\ Len(s) \in Nat
  BY LenProperties DEF Seqs
<1>4. DropFirst(k, s) \in Seqs /\ Elems(DropFirst(k, s)) \subseteq Elems(s)
  BY <1>3, DropFirstProps DEF Seqs
<1>5. {s[i] : i \in 1..k} \subseteq Elems(s)
  BY <1>3 DEF Elems
<1>6. \A m, n \in {s[i] : i \in 1..k} : Auth[m] = Auth[n]
  BY <1>1
<1> QED
  BY <1>1, <1>2, <1>3, <1>4, <1>5, <1>6

\* A sequence is a prefix of itself, and so is its head.
LEMMA Prefixes ==
    ASSUME NEW s \in Seqs
    PROVE  /\ IsPrefixOf(s, s) /\ IsPrefixOf(<<>>, s)
           /\ s # <<>> => /\ <<Head(s)>> \in Seqs /\ Len(<<Head(s)>>) = 1
                          /\ IsPrefixOf(<<Head(s)>>, s)
                          /\ Elems(<<Head(s)>>) = {Head(s)}
                          /\ <<Head(s)>> \o <<>> = <<Head(s)>>
<1>1. Len(s) \in Nat /\ (s # <<>> => Len(s) # 0)
  BY EmptySeq, LenProperties DEF Seqs
<1>2. s # <<>> => Head(s) = s[1] /\ s[1] \in Messages
  BY <1>1, ElementOfSeq DEF Seqs
<1>3. \A m \in Messages : /\ <<m>> \in Seqs /\ Len(<<m>>) = 1 /\ <<m>>[1] = m
                          /\ <<m>> \o <<>> = <<m>>
  BY ConcatEmptySeq DEF Seqs
<1>4. s # <<>> => /\ <<s[1]>> \in Seqs /\ Len(<<s[1]>>) = 1 /\ <<s[1]>>[1] = s[1]
                  /\ <<s[1]>> \o <<>> = <<s[1]>>
  BY <1>2, <1>3
<1>5. s # <<>> => Elems(<<s[1]>>) = {s[1]} /\ IsPrefixOf(<<s[1]>>, s)
  BY <1>1, <1>4 DEF Elems, IsPrefixOf
<1>6. IsPrefixOf(s, s) /\ IsPrefixOf(<<>>, s)
  BY <1>1 DEF IsPrefixOf
<1> QED
  BY <1>2, <1>4, <1>5, <1>6

\* The step of q calls the runner.
Calls(q) == \E d \in DrainType : /\ Reads(queues[q], d)
                                 /\ drain' = [drain EXCEPT ![q] = d]
                                 /\ UNCHANGED <<current, queues>>

LEMMA CallRunnerReads ==
    ASSUME TypeInv, NEW q \in Queues, NEW batch \in Seqs, NEW shift \in Nat,
           NEW report \in SUBSET Messages, NEW rest \in Seqs, NEW force \in BOOLEAN,
           CallRunner(q, batch, shift, report, rest, force),
           \A m, n \in Elems(batch) : Auth[m] = Auth[n],
           \A m, n \in Elems(batch) \cup Elems(rest) : Route[m] = Route[n],
           report # {} => report = PendingSummary(queues[q]),
           report = {} => shift = Len(batch) /\ IsPrefixOf(batch \o rest, queues[q].items)
    PROVE  Calls(q)
<1> DEFINE d == [pc |-> "starting", batch |-> batch, shift |-> shift,
                 report |-> report, rest |-> rest, force |-> force]
<1>1. d \in DrainType
  BY DEF DrainType
<1>2. Reads(queues[q], d)
  BY DEF Reads, Homogeneous, Pending
<1>3. drain' = [drain EXCEPT ![q] = d] /\ UNCHANGED <<current, queues>>
  BY DEF CallRunner
<1> HIDE DEF d
<1> QED
  BY <1>1, <1>2, <1>3 DEF Calls

LEMMA DebounceEffect ==
    ASSUME TypeInv, NEW q \in Queues, DebounceElapsed(q)
    PROVE  LeaveLoop(q) \/ Calls(q)
<1> DEFINE items == queues[q].items
           summary == PendingSummary(queues[q])
<1>1. /\ items \in Seqs /\ summary \in SUBSET Messages /\ drain[q].force \in BOOLEAN
  BY DEF TypeInv, Base, QueueType, DrainType, PendingSummary
<1>2. <<>> \in Seqs /\ Elems(<<>>) = {} /\ Len(<<>>) = 0 /\ <<>> \o <<>> = <<>>
  BY EmptySeq, ConcatEmptySeq DEF Seqs, Elems
<1>3. IsPrefixOf(<<>> \o <<>>, items)
  BY <1>1, <1>2, Prefixes
<1>4. ASSUME items # <<>>
      PROVE  /\ <<Head(items)>> \in Seqs /\ Len(<<Head(items)>>) = 1
             /\ IsPrefixOf(<<Head(items)>> \o <<>>, items)
             /\ \A m, n \in Elems(<<Head(items)>>) : Auth[m] = Auth[n]
             /\ \A m, n \in Elems(<<Head(items)>>) \cup Elems(<<>>) : Route[m] = Route[n]
  BY <1>1, <1>2, <1>4, Prefixes
<1>5. /\ \A m, n \in Elems(<<>>) : Auth[m] = Auth[n]
      /\ \A m, n \in Elems(<<>>) \cup Elems(<<>>) : Route[m] = Route[n]
  BY <1>2
<1> HIDE DEF items, summary
<1>6. ASSUME NEW force \in BOOLEAN, items # <<>>,
             CallRunner(q, <<Head(items)>>, 1, {}, <<>>, force)
      PROVE  Calls(q)
  BY <1>2, <1>4, <1>6, CallRunnerReads DEF items
<1>7. ASSUME NEW force \in BOOLEAN, NEW shift \in Nat, shift = 0 \/ summary # {},
             CallRunner(q, <<>>, shift, summary, <<>>, force)
      PROVE  Calls(q)
  BY <1>1, <1>2, <1>3, <1>5, <1>7, CallRunnerReads DEF items, summary
<1>8. CASE queues[q].settings.mode = "collect"
  <2> DEFINE force == drain[q].force \/ HasCrossChannelItems(items)
             group == FirstGroup(items)
             rest == DropFirst(Len(group), items)
  <2>0. CollectStep(q) /\ force \in BOOLEAN
    BY <1>1, <1>8 DEF DebounceElapsed, HasCrossChannelItems
  <2>2. ASSUME items # <<>>, ~DrainsIndividually(q),
               CallRunner(q, group, Len(group), summary, rest, force)
        PROVE  Calls(q)
    <3>1. /\ group \in Seqs /\ Len(group) \in Nat /\ rest \in Seqs /\ group \o rest = items
          /\ \A m, n \in Elems(group) : Auth[m] = Auth[n]
          /\ Elems(group) \cup Elems(rest) \subseteq Elems(items)
      BY <1>1, <2>2, GroupAndRest
    <3>2. \A m, n \in Elems(items) : Route[m] = Route[n]
      BY <1>1, <2>2, OneRoute DEF DrainsIndividually, items
    <3>3. IsPrefixOf(group \o rest, items)
      BY <1>1, <3>1, Prefixes
    <3> HIDE DEF force, group, rest
    <3>4. \A m, n \in Elems(group) \cup Elems(rest) : Route[m] = Route[n]
      BY <3>1, <3>2
    <3> QED
      BY <1>1, <2>0, <2>2, <3>1, <3>3, <3>4, CallRunnerReads DEF items, summary
  <2>3. \/ items # <<>> /\ CallRunner(q, <<Head(items)>>, 1, {}, <<>>, force)
        \/ /\ items # <<>> /\ ~DrainsIndividually(q)
           /\ CallRunner(q, group, Len(group), summary, rest, force)
        \/ CallRunner(q, <<>>, 0, summary, <<>>, force)
        \/ LeaveLoop(q)
    BY <2>0 DEF CollectStep, items, summary
  <2> HIDE DEF force, group, rest
  <2> QED
    BY <2>0, <2>2, <2>3, <1>6, <1>7
<1>9. CASE queues[q].settings.mode # "collect"
  <2>1. FollowupStep(q)
    BY <1>9 DEF DebounceElapsed
  <2>2. \/ items # <<>> /\ CallRunner(q, <<Head(items)>>, 1, {}, <<>>, drain[q].force)
        \/ summary # {} /\ CallRunner(q, <<>>, 1, summary, <<>>, drain[q].force)
        \/ LeaveLoop(q)
    BY <2>1 DEF FollowupStep, items, summary
  <2> QED
    BY <1>1, <1>6, <1>7, <2>2
<1> QED
  BY <1>8, <1>9

\* The queue objects after the run of q, before the loop of the drain goes on.
RunTook(q) == [queues EXCEPT ![q] = AfterRun(@, drain[q])]

LEMMA AfterRunProps ==
    ASSUME NEW z \in QueueType, NEW d \in DrainType
    PROVE  /\ AfterRun(z, d) \in QueueType
           /\ AfterRun(z, d).items = DropFirst(d.shift, z.items)
           /\ AfterRun(z, d).dropped = IF d.report = {} THEN z.dropped ELSE {}
           /\ Elems(AfterRun(z, d).items) \subseteq Elems(z.items)
           /\ Spent(z) => Spent(AfterRun(z, d))
<1>1. z.items \in Seq(Messages) /\ d.shift \in Nat
  BY DEF QueueType, DrainType, Seqs
<1>2. DropFirst(d.shift, z.items) \in Seqs
      /\ Elems(DropFirst(d.shift, z.items)) \subseteq Elems(z.items)
  BY <1>1, DropFirstProps DEF Seqs
<1>3. /\ AfterRun(z, d).items = DropFirst(d.shift, z.items)
      /\ AfterRun(z, d).dropped = IF d.report = {} THEN z.dropped ELSE {}
      /\ AfterRun(z, d) \in QueueType
  BY <1>2 DEF AfterRun, QueueType
<1>4. Elems(<<>>) = {}
  BY DEF Elems
<1>5. z.items = <<>> => DropFirst(d.shift, z.items) = <<>>
  BY <1>2, <1>4, ElemsOfSeq DEF Seqs
<1> QED
  BY <1>2, <1>3, <1>5 DEF Spent

\* The drain of q calls the runner for the next group it has read.
CallsNext(q) ==
    \E d \in DrainType :
        /\ drain' = [drain EXCEPT ![q] = d] /\ current' = current /\ queues' = RunTook(q)
        /\ d.pc = "starting" /\ d.report = {} /\ Homogeneous(d)
        /\ Pending(d) = drain[q].rest /\ d.shift = Len(d.batch)

LEMMA RunBase ==
    ASSUME TypeInv, NEW q \in Queues
    PROVE  /\ RunTook(q) \in [Queues -> QueueType]
           /\ RunTook(q)[q] = AfterRun(queues[q], drain[q])
           /\ \A p \in Queues : p # q => RunTook(q)[p] = queues[p]
           /\ Base(current, RunTook(q), [drain EXCEPT ![q] = Idle])
<1>1. queues[q] \in QueueType /\ drain[q] \in DrainType /\ queues \in [Queues -> QueueType]
  BY DEF TypeInv, Base
<1>2. AfterRun(queues[q], drain[q]) \in QueueType
      /\ (Spent(queues[q]) => Spent(AfterRun(queues[q], drain[q])))
  BY <1>1, AfterRunProps
<1>3. /\ RunTook(q) \in [Queues -> QueueType]
      /\ RunTook(q)[q] = AfterRun(queues[q], drain[q])
      /\ \A p \in Queues : p # q => RunTook(q)[p] = queues[p]
  BY <1>1, <1>2 DEF RunTook
<1>4. Base(current, RunTook(q), drain)
  BY <1>2, <1>3 DEF Base, TypeInv
<1>5. Base(current, RunTook(q), [drain EXCEPT ![q] = Idle])
  BY <1>4, SetDrainBase, IdleQuiet DEF Quiet
<1> QED
  BY <1>3, <1>5

LEMMA RunEffect ==
    ASSUME TypeInv, NEW q \in Queues, RunSucceeds(q)
    PROVE  ResumesTo(current, RunTook(q), [drain EXCEPT ![q] = Idle]) \/ CallsNext(q)
<1> DEFINE rest == drain[q].rest
           group == FirstGroup(rest)
           left == DropFirst(Len(group), rest)
           d == [pc |-> "starting", batch |-> group, shift |-> Len(group), report |-> {},
                 rest |-> left, force |-> drain[q].force]
<1>1. drain[q] \in DrainType /\ drain \in [Queues -> DrainType] /\ Homogeneous(drain[q])
  BY DEF TypeInv, Base
<1>2. rest \in Seqs /\ drain[q].force \in BOOLEAN
  BY <1>1 DEF DrainType
<1>3. CASE rest = <<>>
  <2>1. LoopHead(current, q, RunTook(q), drain, drain[q].force)
    BY <1>3 DEF RunSucceeds, RunTook
  <2> QED
    BY <1>1, <1>2, <2>1, RunBase, LoopHeadResumes
<1>4. CASE rest # <<>>
  <2>1. /\ group \in Seqs /\ left \in Seqs /\ Len(group) \in Nat /\ group \o left = rest
        /\ \A m, n \in Elems(group) : Auth[m] = Auth[n]
        /\ Elems(group) \cup Elems(left) \subseteq Elems(rest)
    BY <1>2, <1>4, GroupAndRest
  <2>2. \A m, n \in Elems(rest) : Route[m] = Route[n]
    BY <1>1 DEF Homogeneous
  <2>3. /\ drain' = [drain EXCEPT ![q] = d] /\ current' = current /\ queues' = RunTook(q)
    BY <1>4 DEF RunSucceeds, RunTook
  <2>4. d \in DrainType
    BY <1>2, <2>1 DEF DrainType
  <2>5. d.batch = group /\ d.rest = left
    OBVIOUS
  <2>6. d.pc = "starting" /\ d.report = {} /\ d.shift = Len(d.batch)
    OBVIOUS
  <2> HIDE DEF d, group, left, rest
  <2>7. Homogeneous(d) /\ Pending(d) = rest
    BY <2>1, <2>2, <2>5 DEF Homogeneous, Pending
  <2> QED
    BY <2>3, <2>4, <2>6, <2>7 DEF CallsNext, rest
<1> QED
  BY <1>3, <1>4

\* Enqueue, with the queue object it pushes to and what it does to it.
Accepts(z, m, s) == NotSeen(m) /\ (Overflow(z) = 0 \/ s.drop # "new")
Victims(z) == Elems(SubSeq(z.items, 1, Overflow(z)))
Refreshed(q, s) == [queues[q] EXCEPT !.settings = s]
Pushed(z, m, s) ==
    [z EXCEPT !.items = Append(DropFirst(Overflow(z), @), m),
              !.dropped = IF s.drop = "summarize" THEN @ \cup Victims(z) ELSE @]
After(q, m, s) == IF Accepts(Refreshed(q, s), m, s) THEN Pushed(Refreshed(q, s), m, s)
                  ELSE Refreshed(q, s)

EnqueueTo(m, s, q) ==
    /\ current = q \/ (current = 0 /\ drain[q].pc = "idle")
    /\ ScheduleUnlessActive(q, [queues EXCEPT ![q] = After(q, m, s)])
    /\ accepted' = IF Accepts(Refreshed(q, s), m, s) THEN Append(accepted, m) ELSE accepted
    /\ evicted' = IF Accepts(Refreshed(q, s), m, s) /\ s.drop = "old"
                  THEN evicted \cup Victims(Refreshed(q, s)) ELSE evicted
    /\ UNCHANGED <<replyRun, delivered, reported, cleared, stoppedMidDrain>>

LEMMA EnqueueEffect ==
    ASSUME TypeInv, NEW m \in Messages, NEW s \in Settings, Enqueue(m, s)
    PROVE  \E q \in Queues : EnqueueTo(m, s, q)
<1> DEFINE alive == {q \in Queues : q = current \/ drain[q].pc # "idle"}
           free == Queues \ alive
           q == IF current # 0 THEN current ELSE CHOOSE f \in free : \A g \in free : f <= g
<1>1. q \in Queues /\ (current = q \/ (current = 0 /\ drain[q].pc = "idle"))
  <2>1. CASE current # 0
    BY <2>1 DEF TypeInv, Base, Queues
  <2>2. CASE current = 0
    <3>0. alive # Queues
      BY <2>2 DEF Enqueue
    <3>1. free # {} /\ free \in SUBSET Nat
      BY <3>0 DEF Queues
    <3> HIDE DEF free
    <3>2. \E f \in free : \A g \in free : f <= g
      BY <3>1, LeastNumber
    <3>3. q \in free
      BY <2>2, <3>2
    <3> QED
      BY <2>2, <3>3 DEF free
  <2> QED
    BY <2>1, <2>2
<1>2. EnqueueTo(m, s, q)
  BY <1>1 DEF Enqueue, EnqueueTo, After, Accepts, Victims, Refreshed, Pushed
<1> QED
  BY <1>1, <1>2

LEMMA AfterType ==
    ASSUME TypeInv, NEW m \in Messages, NEW s \in Settings, NEW q \in Queues
    PROVE  /\ After(q, m, s) \in QueueType
           /\ Overflow(Refreshed(q, s)) \in Nat
           /\ Refreshed(q, s).items = queues[q].items
           /\ Refreshed(q, s).dropped = queues[q].dropped
           /\ Victims(Refreshed(q, s)) \subseteq Elems(queues[q].items)
           /\ Victims(Refreshed(q, s)) \subseteq Messages
<1> DEFINE z == Refreshed(q, s)
           n == Overflow(z)
<1>1. z \in QueueType /\ z.items = queues[q].items /\ z.dropped = queues[q].dropped
  BY DEF TypeInv, Base, QueueType, Refreshed
<1>2. z.settings = s /\ s.cap \in Nat \ {0}
  BY SettingsAssumption DEF TypeInv, Base, QueueType, Refreshed
<1> HIDE DEF z
<1>3. z.items \in Seqs /\ Len(z.items) \in Nat
  BY <1>1, LenProperties DEF QueueType, Seqs
<1>4. n \in Nat /\ n <= Len(z.items)
  BY <1>2, <1>3 DEF Overflow
<1> HIDE DEF n
<1>5. DropFirst(n, z.items) \in Seqs
  BY <1>3, <1>4, DropFirstProps DEF Seqs
<1>6. Victims(z) \subseteq Elems(z.items)
  <2>1. CASE n = 0
    <3>1. SubSeq(z.items, 1, n) = <<>>
      BY <2>1, SubSeqEmpty
    <3>2. Elems(<<>>) = {}
      BY DEF Elems
    <3>3. Elems(SubSeq(z.items, 1, n)) = {}
      BY <3>1, <3>2
    <3> QED
      BY <3>3 DEF Victims, n
  <2>2. CASE n # 0
    <3>1. n \in 1..Len(z.items)
      BY <1>3, <1>4, <2>2
    <3>2. Elems(SubSeq(z.items, 1, n)) = {z.items[i] : i \in 1..n}
      BY <1>3, <3>1, TakeFirstProps DEF Seqs
    <3>3. {z.items[i] : i \in 1..n} \subseteq Elems(z.items)
      BY <1>3, <3>1 DEF Elems
    <3>4. Elems(SubSeq(z.items, 1, n)) \subseteq Elems(z.items)
      BY <3>2, <3>3
    <3> QED
      BY <3>4 DEF Victims, n
  <2> QED
    BY <2>1, <2>2
<1>7. Elems(z.items) \subseteq Messages
  BY <1>3, ElemsOfSeq DEF Seqs
<1>8. Append(DropFirst(n, z.items), m) \in Seqs
  BY <1>5, AppendProperties DEF Seqs
<1>9. Pushed(z, m, s) \in QueueType
  BY <1>1, <1>6, <1>7, <1>8 DEF Pushed, QueueType, n
<1>10. After(q, m, s) \in QueueType
  BY <1>1, <1>9 DEF After, z
<1> QED
  BY <1>1, <1>4, <1>6, <1>7, <1>10 DEF z, n

LEMMA AfterEnqueue ==
    ASSUME TypeInv, NEW m \in Messages, NEW s \in Settings, NEW q \in Queues,
           EnqueueTo(m, s, q)
    PROVE  /\ [queues EXCEPT ![q] = After(q, m, s)] \in [Queues -> QueueType]
           /\ accepted' \in Seqs /\ evicted' \in SUBSET Messages
           /\ Base(q, [queues EXCEPT ![q] = After(q, m, s)], drain)
           /\ ResumesTo(q, [queues EXCEPT ![q] = After(q, m, s)], drain)
<1> DEFINE qs == [queues EXCEPT ![q] = After(q, m, s)]
<1>1. accepted' \in Seqs /\ evicted' \in SUBSET Messages
  <2>1. Append(accepted, m) \in Seqs
    BY AppendProperties DEF TypeInv, HistoryTypes, Seqs
  <2> QED
    BY <2>1, AfterType DEF EnqueueTo, TypeInv, HistoryTypes
<1>2. qs \in [Queues -> QueueType]
  BY AfterType DEF TypeInv, Base
<1>3. Base(q, qs, drain)
  <2>1. \A p \in Queues : p # q => qs[p] = queues[p]
    BY DEF TypeInv, Base
  <2>2. \A p \in Queues : ~Spent(queues[p]) => p = q
    BY QueuesAssumption DEF TypeInv, Base, EnqueueTo, Queues
  <2>3. q \in 0..MaxQueues
    BY QueuesAssumption DEF Queues
  <2> HIDE DEF qs
  <2> QED
    BY <1>2, <2>1, <2>2, <2>3 DEF TypeInv, Base
<1>4. ResumesTo(q, qs, drain)
  <2>1. \A p \in Queues : drain[p].pc = "idle" => Quiet(drain[p])
    BY DEF TypeInv, Base
  <2>2. ScheduleUnlessActive(q, qs)
    BY DEF EnqueueTo
  <2>3. q \in 0..MaxQueues /\ drain \in [Queues -> DrainType]
    BY <1>3 DEF Base
  <2> HIDE DEF qs
  <2>4. CASE replyRun = NoRun
    <3>1. ScheduleFollowupDrain(q, qs, drain)
      BY <2>2, <2>4 DEF ScheduleUnlessActive
    <3> QED
      BY <1>2, <2>1, <2>3, <3>1, ScheduleResumes
  <2>5. CASE replyRun # NoRun
    BY <1>2, <2>2, <2>3, <2>5 DEF ScheduleUnlessActive, ResumesTo, Resumes
  <2> QED
    BY <2>4, <2>5
<1> QED
  BY <1>1, <1>2, <1>3, <1>4

-----------------------------------------------------------------------------
(* Types, the entry of the map and homogeneous prompts.                    *)

LEMMA InitTypes == Init => TypeInv
<1> SUFFICES ASSUME Init PROVE TypeInv
  OBVIOUS
<1>1. <<>> \in Seqs
  BY EmptySeq DEF Seqs
<1>2. Base(current, queues, drain)
  BY FreshQueueType, IdleQuiet, QueuesAssumption DEF Init, Base, Quiet
<1>3. RunHolds(drain, replyRun)
  BY QueuesAssumption DEF Init, RunHolds, Queues, MainRun, Idle
<1>4. HistoryTypes
  BY <1>1 DEF Init, HistoryTypes
<1> QED
  BY <1>2, <1>3, <1>4 DEF TypeInv

\* A drain that is not the one that runs changes hands with nobody.
LEMMA SetDrainRun ==
    ASSUME NEW dr \in [Queues -> DrainType], NEW run, NEW run2, RunHolds(dr, run),
           NEW q \in Queues, NEW d \in DrainType, run2 \in 0..MainRun,
           d.pc = "running" <=> run2 = q,
           \A p \in Queues : p # q => (run = p <=> run2 = p)
    PROVE  RunHolds([dr EXCEPT ![q] = d], run2)
  BY DEF RunHolds

LEMMA NextTypes == TypeInv /\ [Next]_vars => TypeInv'
<1> SUFFICES ASSUME TypeInv, [Next]_vars PROVE TypeInv'
  OBVIOUS
<1> USE DEF TypeInv
<1>0. /\ drain \in [Queues -> DrainType] /\ queues \in [Queues -> QueueType]
      /\ NoRun \in 0..MainRun /\ MainRun \in 0..MainRun
      /\ \A q \in Queues : q # NoRun /\ q # MainRun /\ q \in 0..MainRun
  BY QueuesAssumption DEF Base, NoRun, MainRun, Queues
<1>1. ASSUME NEW m \in Messages, NEW s \in Settings, Enqueue(m, s) PROVE TypeInv'
  <2>1. PICK q \in Queues : EnqueueTo(m, s, q)
    BY <1>1, EnqueueEffect
  <2>2. /\ Base(q, [queues EXCEPT ![q] = After(q, m, s)], drain)
        /\ ResumesTo(q, [queues EXCEPT ![q] = After(q, m, s)], drain)
        /\ accepted' \in Seqs /\ evicted' \in SUBSET Messages
    BY <2>1, AfterEnqueue
  <2>3. Base(current', queues', drain') /\ RunHolds(drain', replyRun)
    BY <2>2, ResumeBase, ResumeRun DEF ResumesTo
  <2> QED
    BY <2>1, <2>2, <2>3 DEF EnqueueTo, HistoryTypes
<1>2. CASE MainRunStarts
  BY <1>0, <1>2 DEF MainRunStarts, history, HistoryTypes, RunHolds
<1>3. CASE MainRunEnds
  <2>1. ResumesTo(current, queues, drain)
    BY <1>0, <1>3, ScheduleResumes DEF MainRunEnds, DrainAfterClear, Base
  <2>2. RunHolds(drain, replyRun')
    BY <1>0, <1>3 DEF MainRunEnds, RunHolds
  <2>3. Base(current', queues', drain') /\ RunHolds(drain', replyRun')
    BY <2>1, <2>2, ResumeBase, ResumeRun DEF ResumesTo
  <2> QED
    BY <1>3, <2>3 DEF MainRunEnds, history, HistoryTypes
<1>4. CASE ClearSessionQueues
  <2>1. current \in Queues
    BY <1>4, QueuesAssumption DEF ClearSessionQueues, Base, Queues
  <2>2. Base(0, [queues EXCEPT ![current] = FreshQueue], drain)
    BY <2>1, FreshQueueType, QueuesAssumption DEF Base
  <2>3. queues[current] \in QueueType /\ Elems(queues[current].items) \subseteq Messages
    BY <1>0, <2>1, ElemsOfSeq DEF QueueType, Seqs
  <2> QED
    BY <1>4, <2>2, <2>3 DEF ClearSessionQueues, HistoryTypes, QueueType
<1>5. ASSUME NEW q \in Queues, DebounceElapsed(q) PROVE TypeInv'
  <2>1. RunHolds(drain, replyRun) /\ replyRun # q /\ UNCHANGED <<replyRun, history>>
    BY <1>5 DEF DebounceElapsed, RunHolds
  <2>2. Base(current', queues', drain') /\ RunHolds(drain', replyRun)
    <3>1. CASE LeaveLoop(q)
      <4>1. RunHolds([drain EXCEPT ![q] = Idle], replyRun)
        BY <1>0, <2>1, SetDrainRun, IdleQuiet DEF Quiet, RunHolds
      <4> QED
        BY <3>1, <4>1, LeaveResumes, ResumeRun DEF ResumesTo
    <3>2. CASE Calls(q)
      <4>1. PICK d \in DrainType : /\ Reads(queues[q], d) /\ drain' = [drain EXCEPT ![q] = d]
                                   /\ UNCHANGED <<current, queues>>
        BY <3>2 DEF Calls
      <4>2. d.pc = "starting" /\ Homogeneous(d)
        BY <4>1 DEF Reads
      <4>3. RunHolds([drain EXCEPT ![q] = d], replyRun)
        BY <1>0, <2>1, <4>2, SetDrainRun DEF RunHolds
      <4> QED
        BY <4>1, <4>2, <4>3, SetDrainBase
    <3> QED
      BY <1>5, <3>1, <3>2, DebounceEffect
  <2> QED
    BY <2>1, <2>2 DEF history, HistoryTypes
<1>6. ASSUME NEW q \in Queues, StartRun(q) PROVE TypeInv'
  <2>1. RunHolds(drain, replyRun) /\ replyRun # q /\ UNCHANGED history
    BY <1>6 DEF StartRun, RunHolds
  <2>2. CASE replyRun = NoRun /\ replyRun' = q /\ UNCHANGED <<current, queues>>
             /\ drain' = [drain EXCEPT ![q].pc = "running"]
    <3> DEFINE d == [drain[q] EXCEPT !.pc = "running"]
    <3>1. d \in DrainType /\ d.pc = "running" /\ d.batch = drain[q].batch /\ d.rest = drain[q].rest
      BY <1>0 DEF DrainType
    <3>2. drain' = [drain EXCEPT ![q] = d]
      BY <2>2
    <3> HIDE DEF d
    <3>3. Homogeneous(d)
      BY <3>1 DEF Base, Homogeneous
    <3>4. Base(current, queues, [drain EXCEPT ![q] = d])
      <4>1. ~(d.pc \in {"idle", "debounce"})
        BY <3>1
      <4> QED
        BY <3>1, <3>3, <4>1, SetDrainBase
    <3>5. RunHolds([drain EXCEPT ![q] = d], q)
      <4>1. \A p \in Queues : p # q => (replyRun = p <=> q = p)
        BY <1>0, <2>2
      <4> QED
        BY <1>0, <2>1, <3>1, <4>1 DEF RunHolds
    <3> QED
      BY <2>1, <2>2, <3>2, <3>4, <3>5 DEF history, HistoryTypes
  <2>3. CASE LeaveLoop(q) /\ UNCHANGED replyRun
    <3>1. RunHolds([drain EXCEPT ![q] = Idle], replyRun)
      BY <1>0, <2>1, SetDrainRun, IdleQuiet DEF Quiet, RunHolds
    <3>2. Base(current', queues', drain') /\ RunHolds(drain', replyRun)
      BY <2>3, <3>1, LeaveResumes, ResumeRun DEF ResumesTo
    <3> QED
      BY <2>1, <2>3, <3>2 DEF history, HistoryTypes
  <2> QED
    BY <1>6, <2>2, <2>3 DEF StartRun
<1>7. ASSUME NEW q \in Queues, RunSucceeds(q) PROVE TypeInv'
  <2>1. /\ RunHolds(drain, replyRun) /\ replyRun = q /\ replyRun' = NoRun
        /\ \A p \in Queues : p # q => (replyRun = p <=> NoRun = p)
    BY <1>0, <1>7 DEF RunSucceeds, RunHolds
  <2>2. HistoryTypes'
    <3>1. drain[q].batch \in Seqs /\ drain[q].report \in SUBSET Messages
      BY <1>0 DEF DrainType
    <3>2. delivered \o drain[q].batch \in Seqs
      BY <3>1, ConcatProperties DEF HistoryTypes, Seqs
    <3> QED
      BY <1>7, <3>1, <3>2 DEF RunSucceeds, HistoryTypes
  <2>3. CASE ResumesTo(current, RunTook(q), [drain EXCEPT ![q] = Idle])
    <3>1. RunHolds([drain EXCEPT ![q] = Idle], NoRun)
      <4>1. Idle \in DrainType /\ (Idle.pc = "running" <=> NoRun = q)
        BY <1>0, IdleQuiet DEF Quiet
      <4> QED
        BY <1>0, <2>1, <4>1 DEF RunHolds
    <3>2. Base(current', queues', drain') /\ RunHolds(drain', NoRun)
      BY <2>3, <3>1, RunBase, ResumeBase, ResumeRun DEF ResumesTo
    <3> QED
      BY <2>1, <2>2, <3>2
  <2>4. CASE CallsNext(q)
    <3>1. PICK d \in DrainType :
              /\ drain' = [drain EXCEPT ![q] = d] /\ current' = current /\ queues' = RunTook(q)
              /\ d.pc = "starting" /\ Homogeneous(d)
      BY <2>4 DEF CallsNext
    <3>2. RunHolds([drain EXCEPT ![q] = d], NoRun)
      <4>1. d.pc = "running" <=> NoRun = q
        BY <1>0, <3>1
      <4> QED
        BY <1>0, <2>1, <4>1 DEF RunHolds
    <3>3. Base(current, RunTook(q), [[drain EXCEPT ![q] = Idle] EXCEPT ![q] = d])
      BY <3>1, RunBase, SetDrainBase
    <3>4. drain' = [[drain EXCEPT ![q] = Idle] EXCEPT ![q] = d]
      BY <1>0, <3>1
    <3> QED
      BY <2>1, <2>2, <3>1, <3>2, <3>3, <3>4
  <2> QED
    BY <1>7, <2>3, <2>4, RunEffect
<1>8. ASSUME NEW q \in Queues, RunFails(q) PROVE TypeInv'
  <2>1. /\ RunHolds(drain, replyRun) /\ replyRun = q /\ replyRun' = NoRun
        /\ LeaveLoop(q) /\ UNCHANGED history
        /\ \A p \in Queues : p # q => (replyRun = p <=> NoRun = p)
    BY <1>0, <1>8 DEF RunFails, RunHolds
  <2>2. RunHolds([drain EXCEPT ![q] = Idle], NoRun)
    <3>1. Idle \in DrainType /\ (Idle.pc = "running" <=> NoRun = q)
      BY <1>0, IdleQuiet DEF Quiet
    <3> QED
      BY <1>0, <2>1, <3>1 DEF RunHolds
  <2>3. Base(current', queues', drain') /\ RunHolds(drain', NoRun)
    BY <2>1, <2>2, LeaveResumes, ResumeRun DEF ResumesTo
  <2> QED
    BY <2>1, <2>3 DEF history, HistoryTypes
<1>9. CASE UNCHANGED vars
  BY <1>9 DEF vars, HistoryTypes
<1> QED
  BY <1>1, <1>2, <1>3, <1>4, <1>5, <1>6, <1>7, <1>8, <1>9 DEF Next

LEMMA TypesAlways == Spec => []TypeInv
  BY InitTypes, NextTypes, PTL DEF Spec

LEMMA TypeInvSuffices == TypeInv => TypeOK /\ NoOrphanedQueue /\ BatchIsHomogeneous
<1> SUFFICES ASSUME TypeInv PROVE TypeOK /\ NoOrphanedQueue /\ BatchIsHomogeneous
  OBVIOUS
<1>1. Base(current, queues, drain) /\ RunHolds(drain, replyRun)
  BY DEF TypeInv
<1>2. \A q \in Queues : queues[q] \in QueueType /\ drain[q] \in DrainType
  BY <1>1 DEF Base
<1>3. \A s \in Seqs : Elems(s) \subseteq Messages
  BY ElemsOfSeq DEF Seqs
<1>4. TypeOK
  BY <1>1, <1>2, <1>3 DEF TypeOK, Base, RunHolds, QueueType, DrainType
<1>5. NoOrphanedQueue
  BY <1>1 DEF Base, NoOrphanedQueue
<1>6. BatchIsHomogeneous
  BY <1>1 DEF Base, Homogeneous, BatchIsHomogeneous
<1> QED
  BY <1>4, <1>5, <1>6

\* The queue objects and the drains of a key have their types in every state.
THEOREM TypeCorrect == Spec => []TypeOK
  BY TypesAlways, TypeInvSuffices, PTL

\* A queue object that holds something is the one the map points to: no finally
\* block, enqueue or /stop leaves messages in an object nobody can find.
THEOREM NoQueueOrphaned == Spec => []NoOrphanedQueue
  BY TypesAlways, TypeInvSuffices, PTL

\* Every prompt carries messages of one route and one authorization key.
THEOREM PromptsAreHomogeneous == Spec => []BatchIsHomogeneous
  BY TypesAlways, TypeInvSuffices, PTL

-----------------------------------------------------------------------------
(* Drops survive failures.                                                 *)

\* The step of DropsSurviveFailures.
DropsKept == \A q \in Queues : ~(queues[q].dropped \subseteq queues'[q].dropped)
                               => reported' # reported \/ cleared' # cleared

LEMMA DistinctLeft ==
    ASSUME NEW S, NEW s \in Seq(S), NEW n \in Nat, Distinct(s)
    PROVE  Distinct(DropFirst(n, s))
<1> DEFINE t == DropFirst(n, s)
<1>1. /\ Len(t) \in Nat /\ Len(s) \in Nat
      /\ \A i \in 1..Len(t) : i + n \in 1..Len(s) /\ t[i] = s[i + n]
  BY DropFirstProps, LenProperties
<1> HIDE DEF t
<1>2. ASSUME NEW i \in 1..Len(t), NEW j \in 1..Len(t), t[i] = t[j] PROVE i = j
  <2>1. i + n \in 1..Len(s) /\ j + n \in 1..Len(s) /\ s[i + n] = s[j + n]
    BY <1>1, <1>2
  <2>2. i + n = j + n
    BY <2>1 DEF Distinct
  <2> QED
    BY <1>1, <2>2
<1>3. Distinct(t)
  BY <1>2 DEF Distinct
<1> QED
  BY <1>3 DEF t

LEMMA DistinctAppend ==
    ASSUME NEW S, NEW s \in Seq(S), NEW e \in S, Distinct(s), e \notin Elems(s)
    PROVE  Distinct(Append(s, e))
<1> DEFINE t == Append(s, e)
<1>1. /\ Len(s) \in Nat /\ Len(t) = Len(s) + 1 /\ t[Len(s) + 1] = e
      /\ \A i \in 1..Len(s) : t[i] = s[i]
  BY AppendProperties, LenProperties
<1>2. \A i \in 1..Len(s) : s[i] # e
  BY DEF Elems
<1> HIDE DEF t
<1>3. ASSUME NEW i \in 1..Len(t), NEW j \in 1..Len(t), t[i] = t[j] PROVE i = j
  <2>1. CASE i \in 1..Len(s) /\ j \in 1..Len(s)
    BY <1>1, <1>3, <2>1 DEF Distinct
  <2>2. CASE i = Len(s) + 1 \/ j = Len(s) + 1
    BY <1>1, <1>2, <1>3, <2>2
  <2> QED
    BY <1>1, <2>1, <2>2
<1>4. Distinct(t)
  BY <1>3 DEF Distinct
<1> QED
  BY <1>4 DEF t

LEMMA ResumeDrops ==
    ASSUME NEW cur, NEW qs, NEW dr, NEW cur2, NEW qs2, NEW dr2, NEW acc, NEW rep, NEW clr,
           DropsRecorded(qs, dr, acc, rep, clr), Resumes(cur, qs, dr, cur2, qs2, dr2)
    PROVE  DropsRecorded(qs2, dr2, acc, rep, clr)
<1>1. \A q \in Queues : /\ qs2[q].items = qs[q].items /\ qs2[q].dropped = qs[q].dropped
                        /\ dr2[q].report = dr[q].report \/ dr2[q].report = {}
  BY DEF Resumes, Quiet
<1>2. \A q \in Queues : Held(qs2[q]) = Held(qs[q])
  BY <1>1 DEF Held
<1> QED
  BY <1>1, <1>2 DEF DropsRecorded

LEMMA SetDrainDrops ==
    ASSUME NEW qs, NEW dr \in [Queues -> DrainType], NEW acc, NEW rep, NEW clr,
           DropsRecorded(qs, dr, acc, rep, clr), NEW q \in Queues, NEW d \in DrainType,
           d.report \cap rep = {}, d.report \subseteq qs[q].dropped \cup clr,
           \A p \in Queues : p # q => d.report \cap dr[p].report = {}
    PROVE  DropsRecorded(qs, [dr EXCEPT ![q] = d], acc, rep, clr)
<1> DEFINE dr2 == [dr EXCEPT ![q] = d]
<1>1. dr2[q] = d /\ \A p \in Queues : p # q => dr2[p] = dr[p]
  OBVIOUS
<1> HIDE DEF dr2
<1>2. \A p \in Queues : /\ dr2[p].report \cap rep = {}
                        /\ dr2[p].report \subseteq qs[p].dropped \cup clr
  BY <1>1 DEF DropsRecorded
<1>3. \A o, p \in Queues : o # p => dr2[o].report \cap dr2[p].report = {}
  BY <1>1 DEF DropsRecorded
<1>4. DropsRecorded(qs, dr2, acc, rep, clr)
  BY <1>2, <1>3 DEF DropsRecorded
<1> QED
  BY <1>4 DEF dr2

LEMMA IdleDrops ==
    ASSUME NEW qs, NEW dr \in [Queues -> DrainType], NEW acc, NEW rep, NEW clr,
           DropsRecorded(qs, dr, acc, rep, clr), NEW q \in Queues, NEW d \in DrainType,
           d.report = {}
    PROVE  DropsRecorded(qs, [dr EXCEPT ![q] = d], acc, rep, clr)
  BY SetDrainDrops

LEMMA LeaveDrops ==
    ASSUME TypeInv, DropInv, NEW q \in Queues, LeaveLoop(q), UNCHANGED history
    PROVE  DropInv' /\ DropsKept
<1>1. drain \in [Queues -> DrainType] /\ Idle \in DrainType /\ Idle.report = {}
  BY IdleQuiet DEF TypeInv, Base, Quiet
<1>2. DropsRecorded(queues, [drain EXCEPT ![q] = Idle], accepted, reported, cleared)
  BY <1>1, IdleDrops DEF DropInv
<1>3. ResumesTo(current, queues, [drain EXCEPT ![q] = Idle])
  BY LeaveResumes
<1>4. DropsRecorded(queues', drain', accepted, reported, cleared)
  BY <1>2, <1>3, ResumeDrops DEF ResumesTo
<1>5. \A p \in Queues : queues'[p].dropped = queues[p].dropped
  BY <1>3 DEF ResumesTo, Resumes
<1> QED
  BY <1>4, <1>5 DEF DropInv, DropsKept, history

\* Pushing a message, with the drops that make room for it.
LEMMA EnqueueDrops ==
    ASSUME TypeInv, DropInv, NEW m \in Messages, NEW s \in Settings, NEW q \in Queues,
           EnqueueTo(m, s, q)
    PROVE  /\ DropsRecorded([queues EXCEPT ![q] = After(q, m, s)], drain,
                            accepted', reported, cleared)
           /\ queues[q].dropped \subseteq After(q, m, s).dropped
<1> DEFINE z == Refreshed(q, s)
           n == Overflow(z)
           qs == [queues EXCEPT ![q] = After(q, m, s)]
<1>1. /\ After(q, m, s) \in QueueType /\ n \in Nat
      /\ z.items = queues[q].items /\ z.dropped = queues[q].dropped
  BY AfterType
<1>2. qs[q] = After(q, m, s) /\ \A p \in Queues : p # q => qs[p] = queues[p]
  BY DEF TypeInv, Base
<1>3. queues[q] \in QueueType /\ queues[q].items \in Seq(Messages)
  BY DEF TypeInv, Base, QueueType, Seqs
<1>4. /\ Distinct(queues[q].items) /\ Elems(queues[q].items) \cap queues[q].dropped = {}
      /\ Held(queues[q]) \subseteq Elems(accepted)
      /\ Held(queues[q]) \cap (reported \cup cleared) = {}
      /\ drain[q].report \cap reported = {}
      /\ drain[q].report \subseteq queues[q].dropped \cup cleared
      /\ reported \cup cleared \subseteq Elems(accepted)
  BY DEF DropInv, DropsRecorded
<1> HIDE DEF qs
<1>5. CASE Accepts(z, m, s)
  <2> DEFINE left == DropFirst(n, z.items)
             new == After(q, m, s)
             victims == Victims(z)
  <2>1. new = Pushed(z, m, s)
    BY <1>5 DEF After
  <2>2. new.items = Append(left, m)
    BY <1>1, <1>3, <2>1 DEF Pushed, Refreshed, QueueType
  <2>3. new.dropped = IF s.drop = "summarize" THEN queues[q].dropped \cup victims
                      ELSE queues[q].dropped
    BY <1>1, <1>3, <2>1 DEF Pushed, Refreshed, QueueType
  <2>4. Elems(accepted') = Elems(accepted) \cup {m} /\ m \notin Elems(accepted)
    BY <1>5, ElemsOfAppend DEF EnqueueTo, TypeInv, HistoryTypes, Seqs, Accepts, NotSeen
  <2> HIDE DEF n, z, new, victims
  <2>5. /\ left \in Seq(Messages) /\ Len(left) \in Nat
        /\ Elems(left) \subseteq Elems(queues[q].items)
        /\ \A i \in 1..Len(left) : i + n \in 1..Len(queues[q].items)
                                   /\ left[i] = queues[q].items[i + n]
    BY <1>1, <1>3, DropFirstProps, LenProperties
  <2> HIDE DEF left
  <2>6. Elems(new.items) = Elems(left) \cup {m}
    BY <2>2, <2>5, ElemsOfAppend
  <2>7. Distinct(new.items)
    <3>1. Distinct(left) /\ m \notin Elems(left)
      BY <1>1, <1>3, <1>4, <2>4, <2>5, DistinctLeft DEF Held, left
    <3> QED
      BY <2>2, <2>5, <3>1, DistinctAppend
  <2>8. victims \subseteq Elems(queues[q].items) /\ Elems(left) \cap victims = {}
    <3>1. victims \subseteq Elems(queues[q].items)
      BY AfterType DEF victims, z
    <3>2. Elems(left) \cap victims = {}
      <4>1. n <= Len(z.items) /\ Len(z.items) \in Nat
        <5>1. z.settings.cap \in Nat \ {0} /\ Len(z.items) \in Nat
          BY <1>1, <1>3, SettingsAssumption, LenProperties DEF z, Refreshed, QueueType
        <5> QED
          BY <5>1 DEF n, Overflow
      <4>2. CASE n = 0
        <5>1. SubSeq(z.items, 1, n) = <<>>
          BY <4>2, SubSeqEmpty
        <5>2. Elems(<<>>) = {}
          BY DEF Elems
        <5>3. Elems(SubSeq(z.items, 1, n)) = {}
          BY <5>1, <5>2
        <5> QED
          BY <5>3 DEF victims, Victims, n
      <4>3. CASE n # 0
        <5>1. n \in 1..Len(z.items)
          BY <1>1, <4>1, <4>3
        <5>2. Elems(SubSeq(z.items, 1, n)) = {z.items[i] : i \in 1..n}
          BY <1>1, <1>3, <5>1, TakeFirstProps
        <5>3. \A i \in 1..n : \A j \in 1..Len(left) : z.items[i] # left[j]
          <6> TAKE i \in 1..n
          <6> TAKE j \in 1..Len(left)
          <6>1. i \in 1..Len(z.items) /\ j + n \in 1..Len(z.items) /\ i # j + n
            BY <1>1, <2>5, <4>1
          <6> QED
            BY <1>1, <1>4, <2>5, <6>1 DEF Distinct
        <5>4. Elems(left) \cap Elems(SubSeq(z.items, 1, n)) = {}
          BY <5>2, <5>3 DEF Elems
        <5> QED
          BY <5>4 DEF victims, Victims, n
      <4> QED
        BY <4>2, <4>3
    <3> QED
      BY <3>1, <3>2
  <2>9. /\ Elems(new.items) \cap new.dropped = {}
        /\ Held(new) \subseteq Elems(accepted')
        /\ Held(new) \cap (reported \cup cleared) = {}
        /\ queues[q].dropped \subseteq new.dropped
    BY <1>4, <2>3, <2>4, <2>5, <2>6, <2>8 DEF Held
  <2>10. \A p \in Queues :
          /\ Distinct(qs[p].items) /\ Elems(qs[p].items) \cap qs[p].dropped = {}
          /\ Held(qs[p]) \subseteq Elems(accepted')
          /\ Held(qs[p]) \cap (reported \cup cleared) = {}
          /\ drain[p].report \cap reported = {}
          /\ drain[p].report \subseteq qs[p].dropped \cup cleared
    BY <1>2, <1>4, <2>4, <2>7, <2>9 DEF DropInv, DropsRecorded, new
  <2> QED
    BY <1>4, <2>4, <2>9, <2>10 DEF DropInv, DropsRecorded, new, qs
<1>6. CASE ~Accepts(z, m, s)
  <2>1. After(q, m, s) = z /\ accepted' = accepted
    BY <1>6 DEF After, EnqueueTo
  <2>2. \A p \in Queues : qs[p].items = queues[p].items /\ qs[p].dropped = queues[p].dropped
    BY <1>1, <1>2, <2>1
  <2>3. \A p \in Queues : Held(qs[p]) = Held(queues[p])
    BY <2>2 DEF Held
  <2> QED
    BY <1>1, <2>1, <2>2, <2>3 DEF DropInv, DropsRecorded, qs
<1> QED
  BY <1>5, <1>6

LEMMA RunDrops ==
    ASSUME TypeInv, DropInv, NEW q \in Queues
    PROVE  DropsRecorded(RunTook(q), [drain EXCEPT ![q] = Idle], accepted,
                         reported \cup drain[q].report, cleared)
<1> DEFINE qs == RunTook(q)
           dr == [drain EXCEPT ![q] = Idle]
           rep == reported \cup drain[q].report
           z == AfterRun(queues[q], drain[q])
<1>1. /\ queues[q] \in QueueType /\ queues[q].items \in Seq(Messages)
      /\ drain[q] \in DrainType /\ drain[q].shift \in Nat /\ drain \in [Queues -> DrainType]
  BY DEF TypeInv, Base, QueueType, DrainType, Seqs
<1>2. qs[q] = z /\ \A p \in Queues : p # q => qs[p] = queues[p]
  BY RunBase
<1>3. dr[q].report = {} /\ \A p \in Queues : p # q => dr[p] = drain[p]
  BY <1>1, IdleQuiet DEF Quiet
<1>4. /\ z.items = DropFirst(drain[q].shift, queues[q].items)
      /\ z.dropped = IF drain[q].report = {} THEN queues[q].dropped ELSE {}
      /\ Elems(z.items) \subseteq Elems(queues[q].items)
  BY <1>1, AfterRunProps
<1>5. \A p \in Queues :
      /\ Distinct(queues[p].items) /\ Elems(queues[p].items) \cap queues[p].dropped = {}
      /\ Held(queues[p]) \subseteq Elems(accepted)
      /\ Held(queues[p]) \cap (reported \cup cleared) = {}
      /\ drain[p].report \cap reported = {}
      /\ drain[p].report \subseteq queues[p].dropped \cup cleared
  BY DEF DropInv, DropsRecorded
<1>6. /\ reported \cup cleared \subseteq Elems(accepted)
      /\ \A o, p \in Queues : o # p => drain[o].report \cap drain[p].report = {}
  BY DEF DropInv, DropsRecorded
<1> HIDE DEF qs, dr, z
<1>7. Distinct(z.items)
  BY <1>1, <1>4, <1>5, DistinctLeft
<1>8. \A p \in Queues : Held(qs[p]) \subseteq Held(queues[p])
  BY <1>2, <1>4 DEF Held
<1>9. \A p \in Queues : Held(qs[p]) \cap drain[q].report = {}
  <2> TAKE p \in Queues
  <2>1. Held(qs[p]) \cap cleared = {}
    BY <1>5, <1>8
  <2>2. CASE p = q
    BY <1>2, <1>4, <1>5, <2>1, <2>2 DEF Held
  <2>3. CASE p # q /\ Held(queues[p]) # {}
    <3>1. ~Spent(queues[p])
      <4>1. Elems(<<>>) = {}
        BY DEF Elems
      <4> QED
        BY <2>3, <4>1 DEF Held, Spent
    <3>2. Spent(queues[q])
      BY <2>3, <3>1 DEF TypeInv, Base
    <3> QED
      BY <1>5, <2>1, <3>2 DEF Spent
  <2>4. CASE Held(queues[p]) = {}
    BY <1>8, <2>4
  <2> QED
    BY <2>2, <2>3, <2>4
<1>10. \A p \in Queues :
      /\ Distinct(qs[p].items) /\ Elems(qs[p].items) \cap qs[p].dropped = {}
      /\ Held(qs[p]) \subseteq Elems(accepted)
      /\ Held(qs[p]) \cap (rep \cup cleared) = {}
  BY <1>2, <1>4, <1>5, <1>7, <1>8, <1>9
<1>11. \A p \in Queues : /\ dr[p].report \cap rep = {}
                         /\ dr[p].report \subseteq qs[p].dropped \cup cleared
  BY <1>2, <1>3, <1>5, <1>6
<1>12. \A o, p \in Queues : o # p => dr[o].report \cap dr[p].report = {}
  BY <1>3, <1>6
<1>13. rep \cup cleared \subseteq Elems(accepted)
  BY <1>5, <1>6 DEF Held
<1> QED
  BY <1>10, <1>11, <1>12, <1>13 DEF DropsRecorded, qs, dr

LEMMA CallDrops ==
    ASSUME TypeInv, DropInv, NEW q \in Queues, NEW d \in DrainType, Reads(queues[q], d)
    PROVE  DropsRecorded(queues, [drain EXCEPT ![q] = d], accepted, reported, cleared)
<1>1. drain \in [Queues -> DrainType]
  BY DEF TypeInv, Base
<1>2. d.report \subseteq queues[q].dropped
  BY DEF Reads, PendingSummary
<1>3. d.report \cap reported = {} /\ d.report \cap cleared = {}
  BY <1>2 DEF DropInv, DropsRecorded, Held
<1>4. ASSUME NEW p \in Queues, p # q PROVE d.report \cap drain[p].report = {}
  <2>1. CASE Spent(queues[q])
    BY <1>2, <2>1 DEF Spent
  <2>2. CASE ~Spent(queues[q])
    <3>1. Spent(queues[p])
      BY <1>4, <2>2 DEF TypeInv, Base
    <3>2. drain[p].report \subseteq cleared
      BY <3>1 DEF DropInv, DropsRecorded, Spent
    <3> QED
      BY <1>3, <3>2
  <2> QED
    BY <2>1, <2>2
<1> QED
  BY <1>1, <1>2, <1>3, <1>4, SetDrainDrops DEF DropInv

LEMMA InitDrops == Init => DropInv
<1> SUFFICES ASSUME Init PROVE DropInv
  OBVIOUS
<1>1. \A q \in Queues : queues[q].items = <<>> /\ queues[q].dropped = {} /\ drain[q].report = {}
  BY FreshQueueType DEF Init, Spent, Idle
<1>2. Elems(<<>>) = {} /\ Distinct(<<>>)
  BY DEF Elems, Distinct
<1>3. reported = {} /\ cleared = {}
  BY DEF Init
<1> QED
  BY <1>1, <1>2, <1>3 DEF DropInv, DropsRecorded, Held

LEMMA NextDrops == TypeInv /\ DropInv /\ [Next]_vars => DropInv' /\ DropsKept
<1> SUFFICES ASSUME TypeInv, DropInv, [Next]_vars PROVE DropInv' /\ DropsKept
  OBVIOUS
<1>0. drain \in [Queues -> DrainType] /\ queues \in [Queues -> QueueType]
  BY DEF TypeInv, Base
<1>1. ASSUME NEW m \in Messages, NEW s \in Settings, Enqueue(m, s) PROVE DropInv' /\ DropsKept
  <2>1. PICK q \in Queues : EnqueueTo(m, s, q)
    BY <1>1, EnqueueEffect
  <2> DEFINE qs == [queues EXCEPT ![q] = After(q, m, s)]
  <2>2. ResumesTo(q, qs, drain)
    BY <2>1, AfterEnqueue
  <2>3. /\ DropsRecorded(qs, drain, accepted', reported, cleared)
        /\ queues[q].dropped \subseteq After(q, m, s).dropped
    BY <2>1, EnqueueDrops
  <2>4. \A p \in Queues : queues[p].dropped \subseteq qs[p].dropped
    BY <1>0, <2>3
  <2> HIDE DEF qs
  <2>5. DropsRecorded(queues', drain', accepted', reported, cleared)
    BY <2>2, <2>3, ResumeDrops DEF ResumesTo
  <2>6. DropsKept
    BY <2>2, <2>4 DEF DropsKept, ResumesTo, Resumes
  <2>7. reported' = reported /\ cleared' = cleared
    BY <2>1 DEF EnqueueTo
  <2> QED
    BY <2>5, <2>6, <2>7 DEF DropInv
<1>2. CASE MainRunStarts
  BY <1>2 DEF MainRunStarts, history, DropInv, DropsKept
<1>3. CASE MainRunEnds
  <2>1. ResumesTo(current, queues, drain)
    BY <1>0, <1>3, ScheduleResumes DEF MainRunEnds, DrainAfterClear, Base, TypeInv
  <2>2. DropsRecorded(queues', drain', accepted, reported, cleared)
    BY <2>1, ResumeDrops DEF ResumesTo, DropInv
  <2>3. DropsKept
    BY <2>1 DEF DropsKept, ResumesTo, Resumes
  <2>4. accepted' = accepted /\ reported' = reported /\ cleared' = cleared
    BY <1>3 DEF MainRunEnds, history
  <2> QED
    BY <2>2, <2>3, <2>4 DEF DropInv
<1>4. CASE ClearSessionQueues
  <2>1. current \in Queues
    BY <1>4, QueuesAssumption DEF ClearSessionQueues, TypeInv, Base, Queues
  <2>2. /\ queues'[current] = FreshQueue
        /\ \A p \in Queues : p # current => queues'[p] = queues[p]
        /\ drain' = drain /\ accepted' = accepted /\ reported' = reported
        /\ cleared' = cleared \cup Held(queues[current])
    BY <1>0, <1>4, <2>1 DEF ClearSessionQueues, Held
  <2>3. Held(FreshQueue) = {} /\ Distinct(FreshQueue.items)
    BY FreshQueueType DEF Held, Spent, Elems, Distinct
  <2>4. \A p \in Queues : p # current => Held(queues[p]) = {}
    <3>1. Elems(<<>>) = {}
      BY DEF Elems
    <3> QED
      BY <3>1 DEF TypeInv, Base, Spent, Held
  <2>5. \A p \in Queues :
          /\ Distinct(queues'[p].items) /\ Held(queues'[p]) = {}
          /\ drain[p].report \cap reported = {}
          /\ drain[p].report \subseteq cleared'
    BY <2>2, <2>3, <2>4 DEF DropInv, DropsRecorded, Held
  <2>6. reported \cup cleared' \subseteq Elems(accepted)
    BY <2>1, <2>2 DEF DropInv, DropsRecorded
  <2>7. DropInv'
    BY <2>2, <2>5, <2>6 DEF DropInv, DropsRecorded, Held
  <2>8. ASSUME NEW p \in Queues, ~(queues[p].dropped \subseteq queues'[p].dropped)
        PROVE  cleared' # cleared
    <3>1. p = current /\ queues[p].dropped # {}
      BY <2>2, <2>8
    <3>2. queues[p].dropped \subseteq Held(queues[p]) /\ Held(queues[p]) \cap cleared = {}
      BY DEF DropInv, DropsRecorded, Held
    <3> QED
      BY <2>2, <3>1, <3>2
  <2> QED
    BY <2>7, <2>8 DEF DropsKept
<1>5. ASSUME NEW q \in Queues, DebounceElapsed(q) PROVE DropInv' /\ DropsKept
  <2>1. UNCHANGED history
    BY <1>5 DEF DebounceElapsed
  <2>2. CASE LeaveLoop(q)
    BY <2>1, <2>2, LeaveDrops
  <2>3. CASE Calls(q)
    <3>1. PICK d \in DrainType : /\ Reads(queues[q], d) /\ drain' = [drain EXCEPT ![q] = d]
                                 /\ UNCHANGED <<current, queues>>
      BY <2>3 DEF Calls
    <3>2. DropsRecorded(queues, [drain EXCEPT ![q] = d], accepted, reported, cleared)
      BY <3>1, CallDrops
    <3> QED
      BY <2>1, <3>1, <3>2 DEF history, DropInv, DropsKept
  <2> QED
    BY <1>5, <2>2, <2>3, DebounceEffect
<1>6. ASSUME NEW q \in Queues, StartRun(q) PROVE DropInv' /\ DropsKept
  <2>1. UNCHANGED history
    BY <1>6 DEF StartRun
  <2>2. CASE LeaveLoop(q)
    BY <2>1, <2>2, LeaveDrops
  <2>3. CASE UNCHANGED queues /\ drain' = [drain EXCEPT ![q].pc = "running"]
    <3>1. \A p \in Queues : drain'[p].report = drain[p].report
      BY <1>0, <2>3 DEF DrainType
    <3> QED
      BY <2>1, <2>3, <3>1 DEF history, DropInv, DropsRecorded, DropsKept
  <2> QED
    BY <1>6, <2>2, <2>3 DEF StartRun
<1>7. ASSUME NEW q \in Queues, RunSucceeds(q) PROVE DropInv' /\ DropsKept
  <2>1. /\ reported' = reported \cup drain[q].report
        /\ accepted' = accepted /\ cleared' = cleared
    BY <1>7 DEF RunSucceeds
  <2>2. DropsRecorded(RunTook(q), [drain EXCEPT ![q] = Idle], accepted, reported', cleared)
    BY <2>1, RunDrops
  <2>3. \A p \in Queues : ~(queues[p].dropped \subseteq RunTook(q)[p].dropped)
                          => reported' # reported
    <3> TAKE p \in Queues
    <3>0. /\ RunTook(q)[q] = AfterRun(queues[q], drain[q])
          /\ p # q => RunTook(q)[p] = queues[p]
      BY RunBase
    <3>1. RunTook(q)[p].dropped = queues[p].dropped \/ (p = q /\ drain[q].report # {})
      <4>1. AfterRun(queues[q], drain[q]).dropped
            = IF drain[q].report = {} THEN queues[q].dropped ELSE {}
        BY <1>0, AfterRunProps
      <4> QED
        BY <3>0, <4>1
    <3>2. drain[q].report \cap reported = {}
      BY DEF DropInv, DropsRecorded
    <3> QED
      BY <2>1, <3>1, <3>2
  <2>4. [drain EXCEPT ![q] = Idle] \in [Queues -> DrainType]
    BY <1>0, IdleQuiet DEF Quiet
  <2>5. CASE ResumesTo(current, RunTook(q), [drain EXCEPT ![q] = Idle])
    <3>1. DropsRecorded(queues', drain', accepted, reported', cleared)
      BY <2>2, <2>5, ResumeDrops DEF ResumesTo
    <3> QED
      BY <2>1, <2>3, <2>5, <3>1 DEF DropInv, DropsKept, ResumesTo, Resumes
  <2>6. CASE CallsNext(q)
    <3>1. PICK d \in DrainType : /\ drain' = [drain EXCEPT ![q] = d] /\ queues' = RunTook(q)
                                 /\ d.report = {}
      BY <2>6 DEF CallsNext
    <3>2. DropsRecorded(RunTook(q), [[drain EXCEPT ![q] = Idle] EXCEPT ![q] = d],
                        accepted, reported', cleared)
      BY <2>2, <2>4, <3>1, IdleDrops
    <3>3. drain' = [[drain EXCEPT ![q] = Idle] EXCEPT ![q] = d]
      BY <1>0, <3>1
    <3> QED
      BY <2>1, <2>3, <3>1, <3>2, <3>3 DEF DropInv, DropsKept
  <2> QED
    BY <1>7, <2>5, <2>6, RunEffect
<1>8. ASSUME NEW q \in Queues, RunFails(q) PROVE DropInv' /\ DropsKept
  BY <1>8, LeaveDrops DEF RunFails
<1>9. CASE UNCHANGED vars
  BY <1>9 DEF vars, DropInv, DropsKept
<1> QED
  BY <1>1, <1>2, <1>3, <1>4, <1>5, <1>6, <1>7, <1>8, <1>9 DEF Next

LEMMA DropsAlways == Spec => []DropInv
  BY TypesAlways, InitDrops, NextDrops, PTL DEF Spec

\* A drop leaves the summary state with a run that reported something new, or
\* by /stop: a run that fails leaves every drop for the next summary.
THEOREM DropsSurvive == Spec => DropsSurviveFailures
<1>1. TypeInv /\ DropInv /\ [Next]_vars => [DropsKept]_vars
  BY NextDrops
<1>2. [DropsKept]_vars => [\A q \in Queues : ~(queues[q].dropped \subseteq queues'[q].dropped)
                               => reported' # reported \/ cleared' # cleared]_vars
  BY DEF DropsKept
<1> QED
  BY <1>1, <1>2, TypesAlways, DropsAlways, PTL DEF Spec, DropsSurviveFailures

-----------------------------------------------------------------------------
(* No message is lost, and messages are answered once and in order, where  *)
(* nothing that was accepted is evicted.                                   *)

LEMMA PrefixElems ==
    ASSUME NEW s \in Seqs, NEW t \in Seqs, IsPrefixOf(s, t)
    PROVE  Elems(s) \subseteq Elems(t) /\ (Distinct(t) => Distinct(s))
<1>1. Len(s) \in Nat /\ Len(t) \in Nat
  BY LenProperties DEF Seqs
<1> QED
  BY <1>1 DEF IsPrefixOf, Elems, Distinct

LEMMA ConcatParts ==
    ASSUME NEW S, NEW s \in Seq(S), NEW t \in Seq(S)
    PROVE  /\ s \o t \in Seq(S) /\ Len(s \o t) = Len(s) + Len(t)
           /\ \A i \in 1..Len(s) : (s \o t)[i] = s[i]
           /\ \A i \in 1..Len(t) : (s \o t)[Len(s) + i] = t[i]
<1>1. Len(s) \in Nat /\ Len(t) \in Nat
  BY LenProperties
<1>2. /\ s \o t \in Seq(S) /\ Len(s \o t) = Len(s) + Len(t)
      /\ \A i \in 1..Len(s) + Len(t) :
             (s \o t)[i] = IF i <= Len(s) THEN s[i] ELSE t[i - Len(s)]
  BY ConcatProperties
<1> QED
  BY <1>1, <1>2

LEMMA PendingParts ==
    ASSUME NEW d \in DrainType
    PROVE  /\ Pending(d) \in Seqs /\ d.batch \in Seqs /\ d.rest \in Seqs
           /\ Len(d.batch) \in Nat /\ Len(d.rest) \in Nat
           /\ Len(Pending(d)) = Len(d.batch) + Len(d.rest)
           /\ \A i \in 1..Len(d.batch) : Pending(d)[i] = d.batch[i]
           /\ \A i \in 1..Len(d.rest) : Pending(d)[Len(d.batch) + i] = d.rest[i]
           /\ Elems(Pending(d)) = Elems(d.batch) \cup Elems(d.rest)
<1>1. d.batch \in Seqs /\ d.rest \in Seqs
  BY DEF DrainType
<1>2. Len(d.batch) \in Nat /\ Len(d.rest) \in Nat
  BY <1>1, LenProperties DEF Seqs
<1>4. Elems(Pending(d)) = Elems(d.batch) \cup Elems(d.rest)
  BY <1>1, ElemsOfConcat DEF Pending, Seqs
<1>3. PICK b \in Seqs, r \in Seqs : b = d.batch /\ r = d.rest
  BY <1>1
<1>5. /\ b \o r \in Seqs /\ Len(b \o r) = Len(b) + Len(r)
      /\ \A i \in 1..Len(b) : (b \o r)[i] = b[i]
      /\ \A i \in 1..Len(r) : (b \o r)[Len(b) + i] = r[i]
  BY ConcatParts DEF Seqs
<1>6. Pending(d) = b \o r
  BY <1>3 DEF Pending
<1> QED
  BY <1>1, <1>2, <1>3, <1>4, <1>5, <1>6

LEMMA QuietPending ==
    ASSUME NEW d, Quiet(d)
    PROVE  /\ Pending(d) = <<>> /\ Elems(Pending(d)) = {} /\ Distinct(Pending(d))
           /\ \A s \in Seqs : IsPrefixOf(Pending(d), s)
           /\ d.shift = Len(d.batch)
<1>1. Pending(d) = <<>>
  BY ConcatEmptySeq, EmptySeq DEF Quiet, Pending
<1>2. Elems(<<>>) = {} /\ Distinct(<<>>) /\ Len(<<>>) = 0
  BY DEF Elems, Distinct
<1> QED
  BY <1>1, <1>2, Prefixes DEF Quiet

LEMMA QuietTracks ==
    ASSUME NEW d, Quiet(d), NEW z \in QueueType, NEW cur, NEW q, NEW clr
    PROVE  Tracks(cur, q, z, d, clr)
  BY QuietPending DEF Tracks, QueueType

LEMMA SetDrainOrder ==
    ASSUME NEW cur, NEW qs, NEW dr \in [Queues -> DrainType], NEW acc, NEW del, NEW clr,
           Orderly(cur, qs, dr, acc, del, clr), NEW q \in Queues, NEW d \in DrainType,
           Tracks(cur, q, qs[q], d, clr), Distinct(Pending(d)),
           Elems(Pending(d)) \cap Elems(del) = {},
           \A p \in Queues : p # q => Elems(Pending(d)) \cap Elems(Pending(dr[p])) = {}
    PROVE  Orderly(cur, qs, [dr EXCEPT ![q] = d], acc, del, clr)
<1> DEFINE dr2 == [dr EXCEPT ![q] = d]
<1>1. dr2[q] = d /\ \A p \in Queues : p # q => dr2[p] = dr[p]
  OBVIOUS
<1> HIDE DEF dr2
<1>2. \A p \in Queues : /\ Tracks(cur, p, qs[p], dr2[p], clr) /\ Distinct(Pending(dr2[p]))
                        /\ Elems(Pending(dr2[p])) \cap Elems(del) = {}
  BY <1>1 DEF Orderly, ReadOnce
<1>3. \A o, p \in Queues :
        o # p => Elems(Pending(dr2[o])) \cap Elems(Pending(dr2[p])) = {}
  BY <1>1 DEF Orderly, ReadOnce
<1>4. Orderly(cur, qs, dr2, acc, del, clr)
  BY <1>2, <1>3 DEF Orderly, ReadOnce
<1> QED
  BY <1>4 DEF dr2

LEMMA ResumeOrder ==
    ASSUME NEW cur, NEW qs, NEW dr, NEW cur2, NEW qs2, NEW dr2, NEW acc, NEW del, NEW clr,
           Orderly(cur, qs, dr, acc, del, clr), Resumes(cur, qs, dr, cur2, qs2, dr2)
    PROVE  Orderly(cur2, qs2, dr2, acc, del, clr)
<1>1. \A q \in Queues : /\ qs2[q].items = qs[q].items /\ qs2[q].dropped = qs[q].dropped
                        /\ qs2[q] \in QueueType
  BY DEF Resumes
<1>2. \A q \in Queues : Elems(Pending(dr2[q])) = Elems(Pending(dr[q]))
                        /\ (Distinct(Pending(dr[q])) => Distinct(Pending(dr2[q])))
  BY QuietPending DEF Resumes
<1>3. \A q \in Queues : Tracks(cur2, q, qs2[q], dr2[q], clr)
  <2> TAKE q \in Queues
  <2>1. CASE Quiet(dr2[q])
    BY <1>1, <2>1, QuietTracks
  <2>2. CASE dr2[q] = dr[q]
    <3>1. q # cur => q # cur2
      BY QueuesAssumption DEF Resumes, Queues
    <3> QED
      BY <1>1, <2>2, <3>1 DEF Tracks, Orderly, ReadOnce
  <2> QED
    BY <2>1, <2>2 DEF Resumes
<1>4. ReadOnce(cur2, qs2, dr2, del, clr)
  BY <1>1, <1>2, <1>3 DEF Orderly, ReadOnce
<1> QED
  BY <1>1, <1>4 DEF Orderly, InOrder, Kept

\* Leaving the loop changes nothing of the order.
LEMMA IdleOrder ==
    ASSUME NEW cur, NEW qs \in [Queues -> QueueType], NEW dr \in [Queues -> DrainType],
           NEW acc, NEW del, NEW clr, Orderly(cur, qs, dr, acc, del, clr), NEW q \in Queues
    PROVE  Orderly(cur, qs, [dr EXCEPT ![q] = Idle], acc, del, clr)
<1>1. /\ Idle \in DrainType /\ Tracks(cur, q, qs[q], Idle, clr) /\ Distinct(Pending(Idle))
      /\ Elems(Pending(Idle)) = {}
  BY IdleQuiet, QuietTracks, QuietPending DEF Quiet
<1> QED
  BY <1>1, SetDrainOrder

LEMMA LeaveOrder ==
    ASSUME TypeInv, OrderInv, NEW q \in Queues, LeaveLoop(q), UNCHANGED history
    PROVE  OrderInv'
<1>1. Orderly(current, queues, [drain EXCEPT ![q] = Idle], accepted, delivered, cleared)
  BY IdleOrder DEF OrderInv, TypeInv, Base
<1>2. ResumesTo(current, queues, [drain EXCEPT ![q] = Idle])
  BY LeaveResumes
<1>3. Orderly(current', queues', drain', accepted, delivered, cleared)
  BY <1>1, <1>2, ResumeOrder DEF ResumesTo
<1> QED
  BY <1>3 DEF OrderInv, history

\* Before, as more messages are accepted.
LEMMA BeforeAppend ==
    ASSUME NEW acc \in Seqs, NEW m \in Messages
    PROVE  /\ \A a, b : Before(a, b, acc) => Before(a, b, Append(acc, m))
           /\ \A a \in Elems(acc) : Before(a, m, Append(acc, m))
<1>1. /\ Len(acc) \in Nat /\ Len(Append(acc, m)) = Len(acc) + 1
      /\ \A i \in 1..Len(acc) : Append(acc, m)[i] = acc[i]
      /\ Append(acc, m)[Len(acc) + 1] = m
  BY AppendProperties, LenProperties DEF Seqs
<1>2. ASSUME NEW a, NEW b, Before(a, b, acc) PROVE Before(a, b, Append(acc, m))
  BY <1>1, <1>2 DEF Before
<1>3. ASSUME NEW a \in Elems(acc) PROVE Before(a, m, Append(acc, m))
  <2>1. PICK k \in 1..Len(acc) : acc[k] = a
    BY <1>3 DEF Elems
  <2>2. /\ k \in 1..Len(Append(acc, m)) /\ Len(acc) + 1 \in 1..Len(Append(acc, m))
        /\ k < Len(acc) + 1
    BY <1>1
  <2> QED
    BY <1>1, <2>1, <2>2 DEF Before
<1> QED
  BY <1>2, <1>3

\* Nobody is accepted before itself.
LEMMA BeforeIrreflexive ==
    ASSUME NEW acc \in Seqs, Distinct(acc), NEW m PROVE ~Before(m, m, acc)
<1>1. Len(acc) \in Nat
  BY LenProperties DEF Seqs
<1> QED
  BY <1>1 DEF Before, Distinct

LEMMA EnqueueOrder ==
    ASSUME TypeInv, DropInv, OrderInv, NothingEvicted, NEW m \in Messages, NEW s \in Settings,
           NEW q \in Queues, EnqueueTo(m, s, q)
    PROVE  Orderly(q, [queues EXCEPT ![q] = After(q, m, s)], drain,
                   accepted', delivered, cleared)
<1> DEFINE qs == [queues EXCEPT ![q] = After(q, m, s)]
           z == Refreshed(q, s)
<1>1. /\ After(q, m, s) \in QueueType /\ Overflow(z) \in Nat
      /\ z.items = queues[q].items /\ z.dropped = queues[q].dropped
  BY AfterType
<1>2. /\ qs \in [Queues -> QueueType] /\ drain \in [Queues -> DrainType]
      /\ qs[q] = After(q, m, s) /\ \A p \in Queues : p # q => qs[p] = queues[p]
  BY <1>1 DEF TypeInv, Base
<1>3. accepted \in Seqs /\ queues[q].items \in Seqs /\ queues[q] \in QueueType
  BY DEF TypeInv, Base, HistoryTypes, QueueType
<1>4. /\ Distinct(accepted) /\ Elems(delivered) \subseteq Elems(accepted)
      /\ cleared \subseteq Elems(accepted) /\ Elems(queues[q].items) \subseteq Elems(accepted)
  BY DEF OrderInv, Orderly, InOrder, DropInv, DropsRecorded, Held
<1>5. s.drop = "new"
  BY DEF NothingEvicted
<1> HIDE DEF qs
\* The queue object, its drain and the map entry.
<1>6. \A p \in Queues : drain[p] \in DrainType /\ (p = q /\ current # q => Quiet(drain[p]))
  BY <1>2 DEF EnqueueTo, TypeInv, Base
<1>7. CASE Accepts(z, m, s)
  <2>1. /\ m \notin Elems(accepted) /\ accepted' = Append(accepted, m)
        /\ Elems(accepted') = Elems(accepted) \cup {m}
    BY <1>3, <1>7, ElemsOfAppend DEF EnqueueTo, Accepts, NotSeen, Seqs
  <2>2. Overflow(z) = 0
    BY <1>5, <1>7 DEF Accepts
  <2>3. DropFirst(0, queues[q].items) = queues[q].items
    BY <1>3, SubSeqFull DEF DropFirst, Seqs
  <2>4. qs[q].items = Append(queues[q].items, m) /\ qs[q].dropped = queues[q].dropped
    <3>1. After(q, m, s) = Pushed(z, m, s)
      BY <1>7 DEF After
    <3>2. Pushed(z, m, s).items = Append(DropFirst(0, z.items), m)
      BY <1>3, <2>2 DEF Pushed, Refreshed, QueueType
    <3>3. Pushed(z, m, s).dropped = z.dropped
      BY <1>3, <1>5 DEF Pushed, Refreshed, QueueType
    <3> QED
      BY <1>1, <1>2, <2>3, <3>1, <3>2, <3>3
  <2>5. /\ Len(queues[q].items) \in Nat /\ Len(qs[q].items) = Len(queues[q].items) + 1
        /\ qs[q].items[Len(queues[q].items) + 1] = m
        /\ \A i \in 1..Len(queues[q].items) : qs[q].items[i] = queues[q].items[i]
    BY <1>3, <2>4, AppendProperties, LenProperties DEF Seqs
  <2>6. Elems(qs[q].items) = Elems(queues[q].items) \cup {m}
    BY <1>3, <2>4, ElemsOfAppend DEF Seqs
  <2>7. /\ \A a, b : Before(a, b, accepted) => Before(a, b, accepted')
        /\ \A a \in Elems(accepted) : Before(a, m, accepted')
    BY <1>3, <2>1, BeforeAppend
  <2>8. ASSUME NEW p \in Queues
        PROVE  qs[p].dropped = {} /\ Tracks(q, p, qs[p], drain[p], cleared)
    <3>1. qs[p].dropped = {}
      BY <1>2, <2>4 DEF OrderInv, Orderly, ReadOnce
    <3>2. CASE p # q
      BY <1>2, <3>1, <3>2 DEF OrderInv, Orderly, ReadOnce, Tracks
    <3>3. CASE p = q /\ current # q
      BY <1>1, <1>2, <1>6, <3>1, <3>3, QuietTracks
    <3>4. CASE p = q /\ current = q
      <4>1. IsPrefixOf(Pending(drain[q]), queues[q].items) /\ drain[q].shift = Len(drain[q].batch)
        BY <3>4 DEF OrderInv, Orderly, ReadOnce, Tracks
      <4>2. Len(Pending(drain[q])) \in Nat
        BY <1>6, PendingParts, LenProperties DEF Seqs
      <4>3. IsPrefixOf(Pending(drain[q]), qs[q].items)
        BY <2>5, <4>1, <4>2 DEF IsPrefixOf
      <4> QED
        BY <3>1, <3>4, <4>1, <4>3 DEF Tracks
    <3> QED
      BY <3>2, <3>3, <3>4
  <2>9. ReadOnce(q, qs, drain, delivered, cleared)
    BY <2>8 DEF OrderInv, Orderly, ReadOnce
  <2>10. InOrder(qs, accepted', delivered, cleared)
    <3>1. Distinct(accepted') /\ Elems(delivered) \subseteq Elems(accepted')
      BY <1>3, <1>4, <2>1, DistinctAppend DEF Seqs
    <3>2. ASSUME NEW p \in Queues, NEW i \in 1..Len(qs[p].items), NEW j \in 1..Len(qs[p].items),
                 i < j
          PROVE  Before(qs[p].items[i], qs[p].items[j], accepted')
      <4>1. CASE p # q
        BY <1>2, <2>7, <3>2, <4>1 DEF OrderInv, Orderly, InOrder
      <4>2. CASE p = q /\ j <= Len(queues[q].items)
        <5>1. i \in 1..Len(queues[q].items) /\ j \in 1..Len(queues[q].items)
          BY <2>5, <3>2, <4>2
        <5> QED
          BY <2>5, <2>7, <3>2, <4>2, <5>1 DEF OrderInv, Orderly, InOrder
      <4>3. CASE p = q /\ j = Len(queues[q].items) + 1
        <5>1. i \in 1..Len(queues[q].items)
          BY <2>5, <3>2, <4>3
        <5>2. queues[q].items[i] \in Elems(accepted)
          BY <1>4, <5>1 DEF Elems
        <5> QED
          BY <2>5, <2>7, <4>3, <5>1, <5>2
      <4> QED
        BY <2>5, <3>2, <4>1, <4>2, <4>3
    <3>3. ASSUME NEW p \in Queues, NEW n \in Elems(qs[p].items),
                 NEW o \in Elems(delivered) \cup cleared
          PROVE  Before(o, n, accepted')
      <4>1. CASE n \in Elems(queues[p].items)
        BY <2>7, <3>3, <4>1 DEF OrderInv, Orderly, InOrder
      <4>2. CASE p = q /\ n = m
        BY <1>4, <2>7, <3>3, <4>2
      <4> QED
        BY <1>2, <2>6, <3>3, <4>1, <4>2
    <3> QED
      BY <3>1, <3>2, <3>3 DEF InOrder
  <2>11. Answers(accepted', delivered, cleared)
    BY <2>7 DEF OrderInv, Orderly, Answers
  <2>12. Kept(qs, accepted', delivered, cleared)
    <3>1. \A p \in Queues : Elems(queues[p].items) \subseteq Elems(qs[p].items)
      BY <1>2, <2>6
    <3>2. m \in Elems(qs[q].items)
      BY <2>6
    <3> QED
      BY <2>1, <3>1, <3>2 DEF OrderInv, Orderly, Kept
  <2> QED
    BY <2>9, <2>10, <2>11, <2>12 DEF Orderly, qs
<1>8. CASE ~Accepts(z, m, s)
  <2>1. accepted' = accepted
    BY <1>8 DEF EnqueueTo
  <2>2. \A p \in Queues : qs[p].items = queues[p].items /\ qs[p].dropped = queues[p].dropped
    BY <1>1, <1>2, <1>8 DEF After
  <2>3. \A p \in Queues : Tracks(q, p, qs[p], drain[p], cleared)
    <3> TAKE p \in Queues
    <3>1. CASE p = q /\ current # q
      BY <1>1, <1>2, <1>6, <3>1, QuietTracks
    <3>2. CASE p # q \/ current = q
      BY <2>2, <3>2 DEF OrderInv, Orderly, ReadOnce, Tracks
    <3> QED
      BY <3>1, <3>2
  <2>4. ReadOnce(q, qs, drain, delivered, cleared)
    BY <2>2, <2>3 DEF OrderInv, Orderly, ReadOnce
  <2>5. Orderly(q, qs, drain, accepted, delivered, cleared)
    BY <2>2, <2>4 DEF OrderInv, Orderly, InOrder, Kept
  <2> QED
    BY <2>1, <2>5 DEF qs
<1> QED
  BY <1>7, <1>8

\* No message of a queue was answered.
LEMMA QueuedIsUnanswered ==
    ASSUME TypeInv, OrderInv, NEW q \in Queues
    PROVE  Elems(queues[q].items) \cap Elems(delivered) = {}
<1> SUFFICES ASSUME NEW m \in Elems(queues[q].items), m \in Elems(delivered) PROVE FALSE
  OBVIOUS
<1>1. Before(m, m, accepted) /\ Distinct(accepted)
  BY DEF OrderInv, Orderly, InOrder
<1>2. accepted \in Seqs
  BY DEF TypeInv, HistoryTypes
<1> QED
  BY <1>1, <1>2, BeforeIrreflexive

\* What another drain has read is not in q.
LEMMA ReadElsewhere ==
    ASSUME TypeInv, DropInv, OrderInv, NEW q \in Queues, NEW p \in Queues, p # q
    PROVE  Elems(queues[q].items) \cap Elems(Pending(drain[p])) = {}
<1>1. CASE Elems(Pending(drain[p])) \subseteq cleared
  BY <1>1 DEF DropInv, DropsRecorded, Held
<1>2. CASE IsPrefixOf(Pending(drain[p]), queues[p].items)
  <2>1. Elems(<<>>) = {}
    BY DEF Elems
  <2>2. CASE Spent(queues[q])
    BY <2>1, <2>2 DEF Spent
  <2>3. CASE ~Spent(queues[q])
    <3>1. Spent(queues[p])
      BY <2>3 DEF TypeInv, Base
    <3>2. Pending(drain[p]) \in Seqs /\ queues[p].items \in Seqs
      BY PendingParts DEF TypeInv, Base, QueueType
    <3>3. Elems(Pending(drain[p])) \subseteq Elems(queues[p].items)
      BY <1>2, <3>2, PrefixElems
    <3> QED
      BY <2>1, <3>1, <3>3 DEF Spent
  <2> QED
    BY <2>2, <2>3
<1> QED
  BY <1>1, <1>2 DEF OrderInv, Orderly, ReadOnce, Tracks

LEMMA CallOrder ==
    ASSUME TypeInv, DropInv, OrderInv, NothingEvicted, NEW q \in Queues, NEW d \in DrainType,
           Reads(queues[q], d)
    PROVE  Orderly(current, queues, [drain EXCEPT ![q] = d], accepted, delivered, cleared)
<1>1. /\ drain \in [Queues -> DrainType] /\ queues[q] \in QueueType /\ queues[q].items \in Seqs
  BY DEF TypeInv, Base, QueueType
<1>2. d.report = {}
  <2>1. queues[q].settings.drop = "new"
    BY <1>1 DEF NothingEvicted, QueueType
  <2> QED
    BY <2>1 DEF Reads, PendingSummary
<1>3. d.shift = Len(d.batch) /\ IsPrefixOf(Pending(d), queues[q].items)
  BY <1>2 DEF Reads
<1>4. Tracks(current, q, queues[q], d, cleared)
  BY <1>3 DEF Tracks
<1>5. Pending(d) \in Seqs /\ Distinct(queues[q].items)
  BY PendingParts DEF DropInv, DropsRecorded
<1>6. Distinct(Pending(d)) /\ Elems(Pending(d)) \subseteq Elems(queues[q].items)
  BY <1>1, <1>3, <1>5, PrefixElems
<1>7. Elems(Pending(d)) \cap Elems(delivered) = {}
  BY <1>6, QueuedIsUnanswered
<1>8. \A p \in Queues : p # q => Elems(Pending(d)) \cap Elems(Pending(drain[p])) = {}
  BY <1>6, ReadElsewhere
<1> QED
  BY <1>1, <1>4, <1>6, <1>7, <1>8, SetDrainOrder DEF OrderInv

\* A successful run takes exactly the answered messages off the head of q.
LEMMA RunOrder ==
    ASSUME TypeInv, DropInv, OrderInv, NEW q \in Queues
    PROVE  Orderly(current, RunTook(q), [drain EXCEPT ![q] = Idle], accepted,
                   delivered \o drain[q].batch, cleared)
<1> DEFINE qs == RunTook(q)
           dr == [drain EXCEPT ![q] = Idle]
           del == delivered \o drain[q].batch
           batch == drain[q].batch
           items == queues[q].items
           left == AfterRun(queues[q], drain[q]).items
           pend == Pending(drain[q])
<1>1. /\ queues[q] \in QueueType /\ items \in Seqs /\ drain[q] \in DrainType
      /\ drain \in [Queues -> DrainType] /\ delivered \in Seqs /\ accepted \in Seqs
      /\ batch \in Seqs /\ drain[q].shift \in Nat
  BY DEF TypeInv, Base, QueueType, DrainType, HistoryTypes
<1>2. /\ qs \in [Queues -> QueueType] /\ qs[q].items = left /\ qs[q].dropped = {}
      /\ \A p \in Queues : p # q => qs[p] = queues[p]
  <2>1. queues[q].dropped = {}
    BY DEF OrderInv, Orderly, ReadOnce
  <2>2. /\ qs \in [Queues -> QueueType] /\ qs[q] = AfterRun(queues[q], drain[q])
        /\ \A p \in Queues : p # q => qs[p] = queues[p]
    BY RunBase
  <2>3. AfterRun(queues[q], drain[q]).dropped
        = IF drain[q].report = {} THEN queues[q].dropped ELSE {}
    BY <1>1, AfterRunProps
  <2> QED
    BY <2>1, <2>2, <2>3
<1>3. /\ Quiet(dr[q]) /\ dr \in [Queues -> DrainType]
      /\ \A p \in Queues : p # q => dr[p] = drain[p]
  BY <1>1, IdleQuiet DEF Quiet
<1>4. left = DropFirst(drain[q].shift, items) /\ Elems(left) \subseteq Elems(items)
  BY <1>1, AfterRunProps
<1>5. Elems(del) = Elems(delivered) \cup Elems(batch)
  BY <1>1, ElemsOfConcat DEF Seqs
<1>6. /\ drain[q].shift = Len(batch) /\ Distinct(pend)
      /\ Elems(pend) \cap Elems(delivered) = {}
      /\ IsPrefixOf(pend, items)
         \/ (q # current /\ Elems(pend) \subseteq cleared)
  BY DEF OrderInv, Orderly, ReadOnce, Tracks
<1>7. /\ pend \in Seqs /\ Len(batch) \in Nat /\ Len(batch) <= Len(pend)
      /\ \A i \in 1..Len(batch) : pend[i] = batch[i]
      /\ Elems(batch) \subseteq Elems(pend)
  <2>1. /\ Len(drain[q].rest) \in Nat /\ Len(batch) \in Nat /\ pend \in Seqs
        /\ Len(pend) = Len(batch) + Len(drain[q].rest)
        /\ \A i \in 1..Len(batch) : pend[i] = batch[i]
        /\ Elems(pend) = Elems(batch) \cup Elems(drain[q].rest)
    BY <1>1, PendingParts
  <2> HIDE DEF pend, batch
  <2> QED
    BY <2>1
<1> HIDE DEF pend, batch, items, left
<1>8. /\ Len(items) \in Nat /\ Len(left) \in Nat /\ Len(pend) \in Nat
      /\ Len(delivered) \in Nat
      /\ Len(left) = IF Len(batch) <= Len(items) THEN Len(items) - Len(batch) ELSE 0
      /\ \A i \in 1..Len(left) : i + Len(batch) \in 1..Len(items)
                                 /\ left[i] = items[i + Len(batch)]
  <2>1. left = DropFirst(Len(batch), items) /\ left \in Seqs
    BY <1>1, <1>4, <1>6, <1>7, DropFirstProps DEF Seqs
  <2>2. Len(items) \in Nat /\ Len(left) \in Nat /\ Len(pend) \in Nat /\ Len(delivered) \in Nat
    BY <1>1, <1>7, <2>1, LenProperties DEF Seqs
  <2> QED
    BY <1>1, <1>7, <2>1, <2>2, DropFirstProps DEF Seqs
<1>9. /\ \A i, j \in 1..Len(items) : i < j => Before(items[i], items[j], accepted)
      /\ \A n \in Elems(items) : \A o \in Elems(delivered) \cup cleared : Before(o, n, accepted)
  BY DEF OrderInv, Orderly, InOrder, items
<1>10. cleared \subseteq Elems(accepted) /\ Elems(items) \subseteq Elems(accepted)
  BY DEF DropInv, DropsRecorded, Held, items
<1> HIDE DEF qs, dr, del
\* The batch is the head of the queue, or was cleared with the whole queue.
<1>11. \/ \A i \in 1..Len(batch) : i \in 1..Len(items) /\ items[i] = batch[i]
       \/ items = <<>> /\ Elems(batch) \subseteq cleared
  <2>1. CASE IsPrefixOf(pend, items)
    BY <1>7, <1>8, <2>1 DEF IsPrefixOf
  <2>2. CASE q # current /\ Elems(pend) \subseteq cleared
    BY <1>7, <2>2 DEF TypeInv, Base, Spent, items
  <2> QED
    BY <1>6, <2>1, <2>2
<1>12. Elems(<<>>) = {} /\ Len(<<>>) = 0
  BY DEF Elems
<1>13. Elems(batch) \subseteq Elems(items) \cup cleared
  <2>1. (\A i \in 1..Len(batch) : i \in 1..Len(items) /\ items[i] = batch[i])
        => Elems(batch) \subseteq Elems(items)
    BY DEF Elems
  <2> QED
    BY <1>11, <2>1
<1>14. ReadOnce(current, qs, dr, del, cleared)
  <2>1. ASSUME NEW p \in Queues
        PROVE  /\ qs[p].dropped = {} /\ Tracks(current, p, qs[p], dr[p], cleared)
               /\ Distinct(Pending(dr[p])) /\ Elems(Pending(dr[p])) \cap Elems(del) = {}
    <3>1. CASE p = q
      BY <1>2, <1>3, <3>1, QuietTracks, QuietPending
    <3>2. CASE p # q
      <4>1. Elems(Pending(drain[p])) \cap Elems(Pending(drain[q])) = {}
        BY <3>2 DEF OrderInv, Orderly, ReadOnce
      <4>2. /\ queues[p].dropped = {} /\ Tracks(current, p, queues[p], drain[p], cleared)
            /\ Distinct(Pending(drain[p]))
            /\ Elems(Pending(drain[p])) \cap Elems(delivered) = {}
        BY DEF OrderInv, Orderly, ReadOnce
      <4> QED
        BY <1>2, <1>3, <1>5, <1>7, <3>2, <4>1, <4>2 DEF pend
    <3> QED
      BY <3>1, <3>2
  <2>2. ASSUME NEW o \in Queues, NEW p \in Queues, o # p
        PROVE  Elems(Pending(dr[o])) \cap Elems(Pending(dr[p])) = {}
    <3>1. Elems(Pending(dr[q])) = {}
      BY <1>3, QuietPending
    <3>2. Elems(Pending(drain[o])) \cap Elems(Pending(drain[p])) = {}
      BY <2>2 DEF OrderInv, Orderly, ReadOnce
    <3> QED
      BY <1>3, <3>1, <3>2
  <2> QED
    BY <2>1, <2>2 DEF ReadOnce
<1>15. InOrder(qs, accepted, del, cleared)
  <2>1. Distinct(accepted) /\ Elems(del) \subseteq Elems(accepted)
    BY <1>5, <1>10, <1>13 DEF OrderInv, Orderly, InOrder
  <2>2. ASSUME NEW p \in Queues, NEW i \in 1..Len(qs[p].items), NEW j \in 1..Len(qs[p].items),
               i < j
        PROVE  Before(qs[p].items[i], qs[p].items[j], accepted)
    <3>1. CASE p = q
      <4>1. /\ i + Len(batch) \in 1..Len(items) /\ j + Len(batch) \in 1..Len(items)
            /\ i + Len(batch) < j + Len(batch)
            /\ left[i] = items[i + Len(batch)] /\ left[j] = items[j + Len(batch)]
        BY <1>2, <1>7, <1>8, <2>2, <3>1
      <4> QED
        BY <1>2, <1>9, <3>1, <4>1
    <3>2. CASE p # q
      BY <1>2, <2>2, <3>2 DEF OrderInv, Orderly, InOrder
    <3> QED
      BY <3>1, <3>2
  <2>3. ASSUME NEW p \in Queues, NEW n \in Elems(qs[p].items), NEW o \in Elems(del) \cup cleared
        PROVE  Before(o, n, accepted)
    <3>1. n \in Elems(queues[p].items)
      BY <1>2, <1>4, <2>3 DEF items
    <3>2. CASE o \in Elems(delivered) \cup cleared
      BY <3>1, <3>2 DEF OrderInv, Orderly, InOrder
    <3>3. CASE o \in Elems(batch) /\ o \notin cleared
      <4>1. PICK i \in 1..Len(batch) : o = batch[i]
        BY <3>3 DEF Elems
      <4>2. i \in 1..Len(items) /\ items[i] = o
        BY <1>11, <3>3, <4>1
      <4>3. p = q
        <5>1. ~Spent(queues[q])
          BY <1>8, <1>12, <4>2 DEF Spent, items
        <5>2. ~Spent(queues[p])
          BY <1>12, <3>1 DEF Spent
        <5> QED
          BY <5>1, <5>2 DEF TypeInv, Base
      <4>4. PICK j \in 1..Len(left) : n = left[j]
        BY <1>2, <2>3, <4>3 DEF Elems
      <4>5. /\ j + Len(batch) \in 1..Len(items) /\ n = items[j + Len(batch)]
            /\ i < j + Len(batch)
        BY <1>7, <1>8, <4>1, <4>4
      <4> QED
        BY <1>9, <4>2, <4>5
    <3> QED
      BY <1>5, <2>3, <3>2, <3>3
  <2> QED
    BY <2>1, <2>2, <2>3 DEF InOrder
<1>16. Answers(accepted, del, cleared)
  <2>1. /\ del \in Seqs /\ Len(del) = Len(delivered) + Len(batch)
        /\ \A i \in 1..Len(delivered) : del[i] = delivered[i]
        /\ \A i \in 1..Len(batch) : del[Len(delivered) + i] = batch[i]
    BY <1>1, ConcatParts DEF del, batch, Seqs
  <2>2. \A i, j \in 1..Len(batch) : batch[i] = batch[j] => i = j
    <3> SUFFICES ASSUME NEW i \in 1..Len(batch), NEW j \in 1..Len(batch), batch[i] = batch[j]
                 PROVE  i = j
      OBVIOUS
    <3>1. /\ i \in 1..Len(pend) /\ j \in 1..Len(pend) /\ pend[i] = pend[j]
      BY <1>7, <1>8
    <3> QED
      BY <1>6, <3>1 DEF Distinct
  <2>3. \A i \in 1..Len(delivered), j \in 1..Len(batch) : delivered[i] # batch[j]
    <3> SUFFICES ASSUME NEW i \in 1..Len(delivered), NEW j \in 1..Len(batch),
                        delivered[i] = batch[j]
                 PROVE  FALSE
      OBVIOUS
    <3>1. batch[j] \in Elems(batch) /\ delivered[i] \in Elems(delivered)
      BY DEF Elems
    <3> QED
      BY <1>6, <1>7, <3>1
  <2>4. \A i \in 1..Len(del) : \/ i \in 1..Len(delivered)
                               \/ i - Len(delivered) \in 1..Len(batch)
                                  /\ del[i] = batch[i - Len(delivered)]
    <3> TAKE i \in 1..Len(del)
    <3>1. CASE ~(i \in 1..Len(delivered))
      <4>1. /\ i - Len(delivered) \in 1..Len(batch)
            /\ Len(delivered) + (i - Len(delivered)) = i
        BY <1>7, <1>8, <2>1, <3>1
      <4> QED
        BY <2>1, <4>1
    <3> QED
      BY <3>1
  <2>5. Distinct(del)
    <3> SUFFICES ASSUME NEW i \in 1..Len(del), NEW j \in 1..Len(del), del[i] = del[j]
                 PROVE  i = j
      BY DEF Distinct
    <3>1. CASE i \in 1..Len(delivered) /\ j \in 1..Len(delivered)
      BY <2>1, <3>1 DEF OrderInv, Orderly, Answers, Distinct
    <3>2. CASE i \notin 1..Len(delivered) /\ j \notin 1..Len(delivered)
      <4>1. i - Len(delivered) = j - Len(delivered)
        BY <2>2, <2>4, <3>2
      <4> QED
        BY <1>8, <2>1, <1>7, <4>1
    <3>3. CASE i \in 1..Len(delivered) /\ j \notin 1..Len(delivered)
      BY <2>1, <2>3, <2>4, <3>3
    <3>4. CASE i \notin 1..Len(delivered) /\ j \in 1..Len(delivered)
      BY <2>1, <2>3, <2>4, <3>4
    <3> QED
      BY <3>1, <3>2, <3>3, <3>4
  <2>6. ASSUME NEW i \in 1..Len(del), NEW j \in 1..Len(del), i < j
        PROVE  del[j] \in cleared \/ Before(del[i], del[j], accepted)
    <3>1. CASE j \in 1..Len(delivered)
      <4>1. i \in 1..Len(delivered)
        BY <1>8, <2>6, <3>1
      <4> QED
        BY <2>1, <2>6, <3>1, <4>1 DEF OrderInv, Orderly, Answers
    <3>2. CASE j \notin 1..Len(delivered) /\ del[j] \notin cleared
      <4>1. PICK l \in 1..Len(batch) : l = j - Len(delivered) /\ del[j] = batch[l]
        BY <2>4, <3>2
      <4>2. batch[l] \in Elems(batch)
        BY DEF Elems
      <4>3. l \in 1..Len(items) /\ items[l] = batch[l]
        BY <1>11, <3>2, <4>1, <4>2
      <4>4. items[l] \in Elems(items)
        BY <4>3 DEF Elems
      <4>5. CASE i \in 1..Len(delivered)
        <5>1. del[i] \in Elems(delivered)
          BY <2>1, <4>5 DEF Elems
        <5> QED
          BY <1>9, <4>1, <4>3, <4>4, <5>1
      <4>6. CASE i \notin 1..Len(delivered)
        <5>1. PICK k \in 1..Len(batch) : k = i - Len(delivered) /\ del[i] = batch[k]
          BY <2>4, <4>6
        <5>2. k < l
          BY <1>8, <2>1, <2>6, <1>7, <4>1, <5>1
        <5>3. k \in 1..Len(items) /\ items[k] = batch[k]
          <6>1. items # <<>>
            BY <1>12, <4>3
          <6> QED
            BY <1>11, <5>1, <6>1
        <5> QED
          BY <1>9, <4>1, <4>3, <5>1, <5>2, <5>3
      <4> QED
        BY <4>5, <4>6
    <3> QED
      BY <3>1, <3>2
  <2> QED
    BY <2>5, <2>6 DEF Answers
<1>17. Kept(qs, accepted, del, cleared)
  <2> SUFFICES ASSUME NEW m \in Elems(accepted), m \notin Elems(del) \cup cleared
               PROVE  \E p \in Queues : m \in Elems(qs[p].items)
    BY DEF Kept
  <2>1. PICK p \in Queues : m \in Elems(queues[p].items)
    BY <1>5 DEF OrderInv, Orderly, Kept
  <2>2. CASE p # q
    BY <1>2, <2>1, <2>2
  <2>3. CASE p = q
    <3>1. PICK i \in 1..Len(items) : m = items[i]
      BY <2>1, <2>3 DEF Elems, items
    <3>2. i \notin 1..Len(batch)
      <4> SUFFICES ASSUME i \in 1..Len(batch) PROVE FALSE
        OBVIOUS
      <4>1. items[i] = batch[i]
        BY <1>8, <1>11, <1>12, <3>1
      <4> QED
        BY <1>5, <3>1, <4>1 DEF Elems
    <3>3. /\ i - Len(batch) \in 1..Len(left) /\ (i - Len(batch)) + Len(batch) = i
      BY <1>7, <1>8, <3>1, <3>2
    <3>4. left[i - Len(batch)] = m
      BY <1>8, <3>1, <3>3
    <3>5. m \in Elems(left)
      BY <3>3, <3>4 DEF Elems
    <3> QED
      BY <1>2, <3>5
  <2> QED
    BY <2>2, <2>3
<1> QED
  BY <1>14, <1>15, <1>16, <1>17 DEF Orderly, qs, dr, del, batch

LEMMA NextGroupOrder ==
    ASSUME TypeInv, DropInv, OrderInv, NEW q \in Queues, CallsNext(q)
    PROVE  Orderly(current', queues', drain', accepted, delivered \o drain[q].batch, cleared)
<1> DEFINE qs == RunTook(q)
           dr == [drain EXCEPT ![q] = Idle]
           del == delivered \o drain[q].batch
           rest == drain[q].rest
           batch == drain[q].batch
           items == queues[q].items
           left == qs[q].items
           pend == Pending(drain[q])
<1>1. PICK d \in DrainType : /\ drain' = [drain EXCEPT ![q] = d] /\ current' = current
                             /\ queues' = qs /\ Pending(d) = rest /\ d.shift = Len(d.batch)
  BY DEF CallsNext
<1>2. /\ queues[q] \in QueueType /\ items \in Seqs /\ drain[q] \in DrainType
      /\ drain \in [Queues -> DrainType] /\ delivered \in Seqs /\ batch \in Seqs /\ rest \in Seqs
      /\ drain[q].shift \in Nat
  BY DEF TypeInv, Base, QueueType, DrainType, HistoryTypes
<1>3. dr \in [Queues -> DrainType] /\ \A p \in Queues : p # q => dr[p] = drain[p]
  BY <1>2, IdleQuiet DEF Quiet
<1>4. drain' = [dr EXCEPT ![q] = d]
  BY <1>1, <1>2
<1>5. Orderly(current, qs, dr, accepted, del, cleared)
  BY RunOrder
<1>6. /\ drain[q].shift = Len(batch) /\ Distinct(pend)
      /\ Elems(pend) \cap Elems(delivered) = {}
      /\ IsPrefixOf(pend, items) \/ (q # current /\ Elems(pend) \subseteq cleared)
      /\ \A p \in Queues : p # q => Elems(pend) \cap Elems(Pending(drain[p])) = {}
  BY DEF OrderInv, Orderly, ReadOnce, Tracks
<1>7. /\ Len(batch) \in Nat /\ Len(rest) \in Nat /\ Len(pend) = Len(batch) + Len(rest)
      /\ \A i \in 1..Len(batch) : pend[i] = batch[i]
      /\ \A i \in 1..Len(rest) : pend[Len(batch) + i] = rest[i]
      /\ Elems(pend) = Elems(batch) \cup Elems(rest)
  BY <1>2, PendingParts
<1>8. left = DropFirst(Len(batch), items)
  <2>1. qs[q] = AfterRun(queues[q], drain[q])
    BY RunBase
  <2>2. queues[q] \in QueueType /\ drain[q] \in DrainType
    BY DEF TypeInv, Base
  <2>3. AfterRun(queues[q], drain[q]).items = DropFirst(drain[q].shift, queues[q].items)
    BY <2>2, AfterRunProps
  <2> QED
    BY <1>6, <2>1, <2>3
<1>9. Elems(del) = Elems(delivered) \cup Elems(batch)
  BY <1>2, ElemsOfConcat DEF Seqs
<1> HIDE DEF qs, dr, del, rest, batch, items, left, pend
<1>10. Distinct(rest)
  <2> SUFFICES ASSUME NEW i \in 1..Len(rest), NEW j \in 1..Len(rest), rest[i] = rest[j]
               PROVE  i = j
    BY DEF Distinct
  <2>1. /\ Len(batch) + i \in 1..Len(pend) /\ Len(batch) + j \in 1..Len(pend)
        /\ pend[Len(batch) + i] = pend[Len(batch) + j]
    BY <1>7
  <2>2. Len(batch) + i = Len(batch) + j
    BY <1>6, <2>1 DEF Distinct
  <2> QED
    BY <1>7, <2>2
<1>11. \A i \in 1..Len(batch), j \in 1..Len(rest) : batch[i] # rest[j]
  <2> SUFFICES ASSUME NEW i \in 1..Len(batch), NEW j \in 1..Len(rest), batch[i] = rest[j]
               PROVE  FALSE
    OBVIOUS
  <2>1. /\ i \in 1..Len(pend) /\ Len(batch) + j \in 1..Len(pend) /\ i # Len(batch) + j
        /\ pend[i] = pend[Len(batch) + j]
    BY <1>7
  <2> QED
    BY <1>6, <2>1 DEF Distinct
<1>12. Elems(rest) \cap Elems(del) = {}
  <2>1. Elems(rest) \cap Elems(batch) = {}
    BY <1>11 DEF Elems
  <2> QED
    BY <1>6, <1>7, <1>9, <2>1
<1>13. \A p \in Queues : p # q => Elems(rest) \cap Elems(Pending(dr[p])) = {}
  BY <1>3, <1>6, <1>7
<1>14. IsPrefixOf(rest, left) \/ (q # current /\ Elems(rest) \subseteq cleared)
  <2>1. CASE IsPrefixOf(pend, items)
    <3>1. Len(pend) <= Len(items) /\ Len(items) \in Nat
      BY <1>2, <2>1, LenProperties DEF IsPrefixOf, Seqs
    <3>2. /\ Len(left) = IF Len(batch) <= Len(items) THEN Len(items) - Len(batch) ELSE 0
          /\ \A i \in 1..Len(left) : left[i] = items[i + Len(batch)]
      BY <1>2, <1>7, <1>8, DropFirstProps DEF Seqs
    <3>3. Len(rest) <= Len(left)
      BY <1>7, <3>1, <3>2
    <3>4. \A i \in 1..Len(rest) : rest[i] = left[i]
      <4> TAKE i \in 1..Len(rest)
      <4>1. /\ i \in 1..Len(left) /\ Len(batch) + i \in 1..Len(pend)
            /\ i + Len(batch) = Len(batch) + i
        BY <1>7, <3>1, <3>2, <3>3
      <4>2. pend[Len(batch) + i] = items[Len(batch) + i]
        BY <2>1, <4>1 DEF IsPrefixOf
      <4> QED
        BY <1>7, <3>2, <4>1, <4>2
    <3> QED
      BY <3>3, <3>4 DEF IsPrefixOf
  <2>2. CASE q # current /\ Elems(pend) \subseteq cleared
    BY <1>7, <2>2
  <2> QED
    BY <1>6, <2>1, <2>2
<1>15. Tracks(current, q, qs[q], d, cleared)
  BY <1>1, <1>14 DEF Tracks, left
<1>16. Orderly(current, qs, [dr EXCEPT ![q] = d], accepted, del, cleared)
  BY <1>1, <1>3, <1>5, <1>10, <1>12, <1>13, <1>15, SetDrainOrder
<1> QED
  BY <1>1, <1>4, <1>16 DEF del, batch

LEMMA InitOrder == Init => OrderInv
<1> SUFFICES ASSUME Init PROVE OrderInv
  OBVIOUS
<1>1. /\ accepted = <<>> /\ delivered = <<>> /\ cleared = {}
      /\ \A q \in Queues : /\ queues[q].items = <<>> /\ queues[q].dropped = {}
                           /\ queues[q] \in QueueType /\ Quiet(drain[q])
  BY FreshQueueType, IdleQuiet DEF Init, Spent
<1>2. Elems(<<>>) = {} /\ Distinct(<<>>) /\ Len(<<>>) = 0
  BY DEF Elems, Distinct
<1>3. ReadOnce(current, queues, drain, delivered, cleared)
  BY <1>1, <1>2, QuietTracks, QuietPending DEF ReadOnce
<1>4. InOrder(queues, accepted, delivered, cleared) /\ Answers(accepted, delivered, cleared)
      /\ Kept(queues, accepted, delivered, cleared)
  BY <1>1, <1>2 DEF InOrder, Answers, Kept
<1> QED
  BY <1>3, <1>4 DEF OrderInv, Orderly

LEMMA ClearOrder ==
    ASSUME TypeInv, DropInv, OrderInv, ClearSessionQueues PROVE OrderInv'
<1>1. current \in Queues /\ queues \in [Queues -> QueueType] /\ drain \in [Queues -> DrainType]
  BY QueuesAssumption DEF ClearSessionQueues, TypeInv, Base, Queues
<1>2. /\ queues'[current] = FreshQueue /\ current' = 0
      /\ \A p \in Queues : p # current => queues'[p] = queues[p] /\ Spent(queues[p])
      /\ drain' = drain /\ accepted' = accepted /\ delivered' = delivered
      /\ cleared' = cleared \cup Elems(queues[current].items) \cup queues[current].dropped
  BY <1>1 DEF ClearSessionQueues, TypeInv, Base
<1>3. \A p \in Queues : queues'[p].items = <<>> /\ queues'[p].dropped = {}
  BY <1>2, FreshQueueType DEF Spent
<1>4. Elems(<<>>) = {} /\ Len(<<>>) = 0
  BY DEF Elems
<1>5. \A p \in Queues : Tracks(0, p, queues'[p], drain[p], cleared')
  <2> TAKE p \in Queues
  <2>1. p # 0
    BY QueuesAssumption DEF Queues
  <2>2. /\ drain[p].shift = Len(drain[p].batch)
        /\ IsPrefixOf(Pending(drain[p]), queues[p].items)
           \/ Elems(Pending(drain[p])) \subseteq cleared
    BY DEF OrderInv, Orderly, ReadOnce, Tracks
  <2>3. Elems(Pending(drain[p])) \subseteq cleared'
    <3>1. CASE IsPrefixOf(Pending(drain[p]), queues[p].items)
      <4>1. Pending(drain[p]) \in Seqs /\ queues[p].items \in Seqs
        BY <1>1, PendingParts DEF QueueType
      <4>2. Elems(Pending(drain[p])) \subseteq Elems(queues[p].items)
        BY <3>1, <4>1, PrefixElems
      <4> QED
        BY <1>2, <1>4, <4>2 DEF Spent
    <3> QED
      BY <1>2, <2>2, <3>1
  <2> QED
    BY <2>1, <2>2, <2>3 DEF Tracks
<1>6. ReadOnce(0, queues', drain, delivered, cleared')
  BY <1>3, <1>5 DEF OrderInv, Orderly, ReadOnce
<1>7. InOrder(queues', accepted, delivered, cleared')
  BY <1>3, <1>4 DEF OrderInv, Orderly, InOrder
<1>8. Answers(accepted, delivered, cleared')
  BY <1>2 DEF OrderInv, Orderly, Answers
<1>9. Kept(queues', accepted, delivered, cleared')
  <2> SUFFICES ASSUME NEW m \in Elems(accepted), m \notin Elems(delivered) \cup cleared
               PROVE  m \in cleared'
    BY <1>2 DEF Kept
  <2>1. PICK p \in Queues : m \in Elems(queues[p].items)
    BY DEF OrderInv, Orderly, Kept
  <2> QED
    BY <1>2, <1>4, <2>1 DEF Spent
<1> QED
  BY <1>2, <1>6, <1>7, <1>8, <1>9 DEF OrderInv, Orderly

LEMMA NextOrder ==
    ASSUME NothingEvicted
    PROVE  TypeInv /\ DropInv /\ OrderInv /\ [Next]_vars => OrderInv'
<1> SUFFICES ASSUME TypeInv, DropInv, OrderInv, [Next]_vars PROVE OrderInv'
  OBVIOUS
<1>0. drain \in [Queues -> DrainType] /\ queues \in [Queues -> QueueType]
  BY DEF TypeInv, Base
<1>1. ASSUME NEW m \in Messages, NEW s \in Settings, Enqueue(m, s) PROVE OrderInv'
  <2>1. PICK q \in Queues : EnqueueTo(m, s, q)
    BY <1>1, EnqueueEffect
  <2> DEFINE qs == [queues EXCEPT ![q] = After(q, m, s)]
  <2>2. ResumesTo(q, qs, drain)
    BY <2>1, AfterEnqueue
  <2>3. Orderly(q, qs, drain, accepted', delivered, cleared)
    BY <2>1, EnqueueOrder
  <2> HIDE DEF qs
  <2>4. Orderly(current', queues', drain', accepted', delivered, cleared)
    BY <2>2, <2>3, ResumeOrder DEF ResumesTo
  <2> QED
    BY <2>1, <2>4 DEF OrderInv, EnqueueTo
<1>2. CASE MainRunStarts
  BY <1>2 DEF MainRunStarts, history, OrderInv
<1>3. CASE MainRunEnds
  <2>1. ResumesTo(current, queues, drain)
    BY <1>0, <1>3, ScheduleResumes DEF MainRunEnds, DrainAfterClear, Base, TypeInv
  <2>2. Orderly(current', queues', drain', accepted, delivered, cleared)
    BY <2>1, ResumeOrder DEF ResumesTo, OrderInv
  <2> QED
    BY <1>3, <2>2 DEF MainRunEnds, history, OrderInv
<1>4. CASE ClearSessionQueues
  BY <1>4, ClearOrder
<1>5. ASSUME NEW q \in Queues, DebounceElapsed(q) PROVE OrderInv'
  <2>1. UNCHANGED history
    BY <1>5 DEF DebounceElapsed
  <2>2. CASE LeaveLoop(q)
    BY <2>1, <2>2, LeaveOrder
  <2>3. CASE Calls(q)
    <3>1. PICK d \in DrainType : /\ Reads(queues[q], d) /\ drain' = [drain EXCEPT ![q] = d]
                                 /\ UNCHANGED <<current, queues>>
      BY <2>3 DEF Calls
    <3>2. Orderly(current, queues, [drain EXCEPT ![q] = d], accepted, delivered, cleared)
      BY <3>1, CallOrder
    <3> QED
      BY <2>1, <3>1, <3>2 DEF history, OrderInv
  <2> QED
    BY <1>5, <2>2, <2>3, DebounceEffect
<1>6. ASSUME NEW q \in Queues, StartRun(q) PROVE OrderInv'
  <2>1. UNCHANGED history
    BY <1>6 DEF StartRun
  <2>2. CASE LeaveLoop(q)
    BY <2>1, <2>2, LeaveOrder
  <2>3. CASE UNCHANGED <<current, queues>> /\ drain' = [drain EXCEPT ![q].pc = "running"]
    <3>1. \A p \in Queues : drain'[p].batch = drain[p].batch /\ drain'[p].rest = drain[p].rest
                            /\ drain'[p].shift = drain[p].shift
      BY <1>0, <2>3 DEF DrainType
    <3>2. \A p \in Queues : Pending(drain'[p]) = Pending(drain[p])
      BY <3>1 DEF Pending
    <3> QED
      BY <2>1, <2>3, <3>1, <3>2 DEF history, OrderInv, Orderly, ReadOnce, Tracks
  <2> QED
    BY <1>6, <2>2, <2>3 DEF StartRun
<1>7. ASSUME NEW q \in Queues, RunSucceeds(q) PROVE OrderInv'
  <2>1. /\ delivered' = delivered \o drain[q].batch
        /\ accepted' = accepted /\ cleared' = cleared
    BY <1>7 DEF RunSucceeds
  <2>2. CASE ResumesTo(current, RunTook(q), [drain EXCEPT ![q] = Idle])
    <3>1. Orderly(current', queues', drain', accepted, delivered \o drain[q].batch, cleared)
      BY <2>2, RunOrder, ResumeOrder DEF ResumesTo
    <3> QED
      BY <2>1, <3>1 DEF OrderInv
  <2>3. CASE CallsNext(q)
    BY <2>1, <2>3, NextGroupOrder DEF OrderInv
  <2> QED
    BY <1>7, <2>2, <2>3, RunEffect
<1>8. ASSUME NEW q \in Queues, RunFails(q) PROVE OrderInv'
  BY <1>8, LeaveOrder DEF RunFails
<1>9. CASE UNCHANGED vars
  BY <1>9 DEF vars, OrderInv
<1> QED
  BY <1>1, <1>2, <1>3, <1>4, <1>5, <1>6, <1>7, <1>8, <1>9 DEF Next

LEMMA OrderAlways == ASSUME NothingEvicted PROVE Spec => []OrderInv
  BY TypesAlways, DropsAlways, InitOrder, NextOrder, PTL DEF Spec

LEMMA OrderSuffices == TypeInv /\ OrderInv => NoMessageIsLost /\ AnsweredOnceInOrder
<1> SUFFICES ASSUME TypeInv, OrderInv PROVE NoMessageIsLost /\ AnsweredOnceInOrder
  OBVIOUS
<1>1. NoMessageIsLost
  BY DEF OrderInv, Orderly, Kept, NoMessageIsLost
<1>2. Len(delivered) \in Nat /\ Len(accepted) \in Nat
  BY LenProperties DEF TypeInv, HistoryTypes, Seqs
<1>3. ASSUME NEW j \in 1..Len(delivered), NEW i \in 1..(j - 1)
      PROVE  /\ delivered[i] # delivered[j]
             /\ \/ delivered[j] \in cleared
                \/ \E k \in 1..Len(accepted) : \E l \in (k + 1)..Len(accepted) :
                       accepted[k] = delivered[i] /\ accepted[l] = delivered[j]
  <2>1. i \in 1..Len(delivered) /\ i < j
    BY <1>2
  <2>2. delivered[i] # delivered[j]
    BY <1>2, <2>1 DEF OrderInv, Orderly, Answers, Distinct
  <2>3. delivered[j] \in cleared \/ Before(delivered[i], delivered[j], accepted)
    BY <2>1 DEF OrderInv, Orderly, Answers
  <2>4. ASSUME Before(delivered[i], delivered[j], accepted)
        PROVE  \E k \in 1..Len(accepted) : \E l \in (k + 1)..Len(accepted) :
                   accepted[k] = delivered[i] /\ accepted[l] = delivered[j]
    <3>1. PICK k \in 1..Len(accepted), l \in 1..Len(accepted) :
              k < l /\ accepted[k] = delivered[i] /\ accepted[l] = delivered[j]
      BY <2>4 DEF Before
    <3>2. l \in (k + 1)..Len(accepted)
      BY <1>2, <3>1
    <3> QED
      BY <3>1, <3>2
  <2> QED
    BY <2>2, <2>3, <2>4
<1>4. AnsweredOnceInOrder
  BY <1>3 DEF AnsweredOnceInOrder
<1> QED
  BY <1>1, <1>4

\* Where no setting evicts what was accepted, every accepted message is queued,
\* answered, or was cleared by /stop: the batch a run takes off the queue is the
\* one its prompt carried, whatever arrived during the run.
THEOREM NothingLost == ASSUME NothingEvicted PROVE Spec => []NoMessageIsLost
  BY TypesAlways, OrderAlways, OrderSuffices, PTL

\* Where no setting evicts what was accepted, no message is answered twice, and
\* those that /stop did not clear are answered in the order they were accepted.
THEOREM AnsweredInOrder == ASSUME NothingEvicted PROVE Spec => []AnsweredOnceInOrder
  BY TypesAlways, OrderAlways, OrderSuffices, PTL
=============================================================================

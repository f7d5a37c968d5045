-------------------------- MODULE InstallLaneProofs --------------------------
(***************************************************************************)
(* Proofs about InstallLane, for every set of versions, contents, setups   *)
(* and handlers, every number of entries, with and without disconnects.    *)
(*                                                                         *)
(* TypeOK /\ LaneInv is inductive.  LaneExclusive (one worker at a time),  *)
(* DependentAfterBase (content runs only after its base install succeeded) *)
(* and ReleaseAfterTerminal (no hand-over before terminal progress) follow.*)
(*                                                                         *)
(* On top of it: the lane implements SerialLane (KeepsPromise), an active  *)
(* entry has one task to move it (LaneOwned), used instances are kept,     *)
(* recorded outcomes are the published ones (OutcomeFaithful) and failed   *)
(* setups are cleaned up or spared by a cleanup (FailedSetupCleanedUp),    *)
(* and no outcome an entry refers to is evicted (ReferencedNeverEvicted).  *)
(***************************************************************************)
EXTENDS InstallLane, SequenceTheorems, TLAPS

-----------------------------------------------------------------------------
(* Sequences *)

LEMMA ConsProperties ==
  ASSUME NEW S, NEW s \in Seq(S), NEW e \in S
  PROVE  /\ <<e>> \o s \in Seq(S)
         /\ Len(<<e>> \o s) = Len(s) + 1
         /\ \A k \in 1 .. Len(s) + 1 :
              (<<e>> \o s)[k] = IF k = 1 THEN e ELSE s[k - 1]
<1>1. <<e>> \in Seq(S) /\ Len(<<e>>) = 1 /\ <<e>>[1] = e
  OBVIOUS
<1>2. Len(s) \in Nat
  BY LenProperties
<1> QED
  BY <1>1, <1>2, ConcatProperties

LEMMA RemoveAtProperties ==
  ASSUME NEW S, NEW s \in Seq(S), NEW i \in 1 .. Len(s)
  PROVE  /\ RemoveAt(s, i) \in Seq(S)
         /\ Len(RemoveAt(s, i)) = Len(s) - 1
         /\ \A k \in 1 .. Len(s) - 1 :
              RemoveAt(s, i)[k] = IF k < i THEN s[k] ELSE s[k + 1]
<1> DEFINE front == SubSeq(s, 1, i - 1)
           back  == SubSeq(s, i + 1, Len(s))
<1>1. Len(s) \in Nat /\ \A k \in 1 .. Len(s) : s[k] \in S
  BY LenProperties, ElementOfSeq
<1>2. /\ front \in Seq(S)
      /\ Len(front) = i - 1
      /\ \A k \in 1 .. i - 1 : front[k] = s[k]
  BY <1>1, SubSeqProperties
<1>3. /\ back \in Seq(S)
      /\ Len(back) = Len(s) - i
      /\ \A k \in 1 .. Len(s) - i : back[k] = s[k + i]
  BY <1>1, SubSeqProperties
<1>4. RemoveAt(s, i) = front \o back
  BY DEF RemoveAt
<1> HIDE DEF front, back
<1>5. /\ front \o back \in Seq(S)
      /\ Len(front \o back) = Len(s) - 1
      /\ \A k \in 1 .. Len(s) - 1 :
           (front \o back)[k] = IF k <= i - 1 THEN front[k] ELSE back[k - (i - 1)]
  <2>1. /\ front \o back \in Seq(S)
        /\ Len(front \o back) = Len(front) + Len(back)
        /\ \A k \in 1 .. Len(front) + Len(back) :
             (front \o back)[k] = IF k <= Len(front) THEN front[k]
                                                     ELSE back[k - Len(front)]
    BY <1>2, <1>3, ConcatProperties
  <2>2. Len(front) + Len(back) = Len(s) - 1
    BY <1>1, <1>2, <1>3
  <2> QED
    BY <1>2, <2>1, <2>2
<1>6. ASSUME NEW k \in 1 .. Len(s) - 1
      PROVE  (front \o back)[k] = IF k < i THEN s[k] ELSE s[k + 1]
  <2>1. CASE k < i
    BY <1>1, <1>2, <1>5, <2>1
  <2>2. CASE ~(k < i)
    <3>1. k - (i - 1) \in 1 .. Len(s) - i /\ (k - (i - 1)) + i = k + 1
      BY <1>1, <2>2
    <3> QED
      BY <1>1, <1>3, <1>5, <2>2, <3>1
  <2> QED
    BY <2>1, <2>2
<1> QED
  BY <1>4, <1>5, <1>6

-----------------------------------------------------------------------------
(* The queue *)

LEMMA SetQueueEffect ==
  ASSUME NEW act, NEW pend, NEW table, NEW order, SetQueue(act, pend, table, order)
  PROVE  /\ active' = act
         /\ pending' = pend
         /\ DOMAIN completed' \subseteq DOMAIN table
         /\ \A q \in DOMAIN completed' : completed'[q] = table[q]
<1> DEFINE gone == Expired(order, act, pend)
<1>1. /\ active' = act
      /\ pending' = pend
      /\ completed' = [q \in DOMAIN table \ gone |-> table[q]]
  BY DEF SetQueue
<1> HIDE DEF gone
<1> QED
  BY <1>1

LEMMA ReleaseEffect ==
  ASSUME TypeOK, NEW q \in EntryIds, NEW ok \in BOOLEAN, ReleaseWithOutcome(q, ok)
  PROVE  /\ active' = NoActive
         /\ pending' = pending
         /\ DOMAIN completed' \subseteq EntryIds
         /\ \A p \in DOMAIN completed' :
              /\ completed'[p] \in BOOLEAN
              /\ completed'[p] => (p = q /\ ok) \/ (p \in DOMAIN completed /\ completed[p])
<1> DEFINE table == [p \in DOMAIN completed \cup {q} |-> IF p = q THEN ok ELSE completed[p]]
           order == Append(SelectSeq(completedOrder, LAMBDA p : p # q), q)
<1>1. SetQueue(NoActive, pending, table, order)
  BY DEF ReleaseWithOutcome
<1>2. DOMAIN table \subseteq EntryIds
  BY DEF TypeOK
<1>3. \A p \in DOMAIN table :
        /\ table[p] \in BOOLEAN
        /\ table[p] => (p = q /\ ok) \/ (p \in DOMAIN completed /\ completed[p])
  BY DEF TypeOK
<1> HIDE DEF table, order
<1> QED
  BY <1>1, <1>2, <1>3, SetQueueEffect

\* Only new entries are added, the old ones keep their spec.
Grown == /\ entries' \in Seq(Specs)
         /\ Len(entries') <= MaxEntries
         /\ \A q \in DOMAIN entries : q \in DOMAIN entries' /\ entries'[q] = entries[q]

LEMMA EnqueueEffect ==
  ASSUME TypeOK, LaneInv, NEW spec \in Specs, NEW atFront \in BOOLEAN,
         Enqueue(spec, atFront), worker' = worker
  PROVE  /\ UNCHANGED <<active, completed>>
         /\ pending' \in Seq(EntryIds)
         /\ PendingFresh'
         /\ Grown
<1> DEFINE n == Len(entries) + 1
<1>1. /\ Len(entries) \in Nat
      /\ DOMAIN entries = 1 .. Len(entries)
      /\ Len(pending) \in Nat
      /\ DOMAIN pending = 1 .. Len(pending)
      /\ pending \in Seq(EntryIds)
      /\ entries \in Seq(Specs)
  BY LenProperties DEF TypeOK
<1>2. CASE UNCHANGED <<queueVars, entries>>
  BY <1>2 DEF queueVars, LaneInv, PendingFresh, TypeOK, Grown
<1>3. CASE \E i \in DOMAIN pending :
             /\ pending' = IF atFront THEN <<pending[i]>> \o RemoveAt(pending, i)
                                      ELSE pending
             /\ UNCHANGED <<active, completed, completedOrder, entries>>
  <2>1. PICK i \in 1 .. Len(pending) :
             /\ pending' = IF atFront THEN <<pending[i]>> \o RemoveAt(pending, i)
                                      ELSE pending
             /\ UNCHANGED <<active, completed, completedOrder, entries>>
    BY <1>1, <1>3
  <2>2. Grown
    BY <2>1 DEF Grown, TypeOK
  <2>3. CASE ~atFront
    BY <2>1, <2>2, <2>3 DEF LaneInv, PendingFresh, TypeOK
  <2>4. CASE atFront
    <3> DEFINE rest == RemoveAt(pending, i)
    <3>1. /\ rest \in Seq(EntryIds)
          /\ Len(rest) = Len(pending) - 1
          /\ \A k \in 1 .. Len(pending) - 1 :
               rest[k] = IF k < i THEN pending[k] ELSE pending[k + 1]
      BY <1>1, RemoveAtProperties
    <3>2. pending' = <<pending[i]>> \o rest /\ pending[i] \in EntryIds
      BY <1>1, <2>1, <2>4, ElementOfSeq
    <3> HIDE DEF rest
    <3>3. /\ pending' \in Seq(EntryIds)
          /\ Len(pending') = Len(rest) + 1
          /\ \A k \in 1 .. Len(rest) + 1 :
               pending'[k] = IF k = 1 THEN pending[i] ELSE rest[k - 1]
      BY <3>1, <3>2, ConsProperties
    <3>4. Len(rest) + 1 = Len(pending)
      BY <1>1, <3>1
    <3>5. DOMAIN pending' = 1 .. Len(pending)
      BY <3>3, <3>4, LenProperties
    <3>6. ASSUME NEW k \in 1 .. Len(pending)
          PROVE  pending'[k] = IF k = 1 THEN pending[i]
                               ELSE IF k <= i THEN pending[k - 1] ELSE pending[k]
      <4>1. CASE k = 1
        BY <3>3, <3>4, <4>1
      <4>2. CASE k # 1
        <5>1. k - 1 \in 1 .. Len(pending) - 1 /\ (k - 1) + 1 = k
          BY <1>1, <4>2
        <5>2. pending'[k] = rest[k - 1]
          BY <3>3, <3>4, <4>2
        <5>3. rest[k - 1] = IF k - 1 < i THEN pending[k - 1] ELSE pending[k]
          BY <3>1, <5>1
        <5> QED
          BY <4>2, <5>1, <5>2, <5>3
      <4> QED
        BY <4>1, <4>2
    <3> DEFINE from(k) == IF k = 1 THEN i ELSE IF k <= i THEN k - 1 ELSE k
    <3>7. /\ \A k \in 1 .. Len(pending) :
               from(k) \in 1 .. Len(pending) /\ pending'[k] = pending[from(k)]
          /\ \A j, k \in 1 .. Len(pending) : from(j) = from(k) => j = k
      BY <1>1, <3>6
    <3> HIDE DEF from
    <3>8. ASSUME NEW k \in DOMAIN pending'
          PROVE  /\ pending'[k] \in DOMAIN entries'
                 /\ pending'[k] # active'.qid
                 /\ worker'[pending'[k]] = "none"
                 /\ \A j \in DOMAIN pending' : pending'[k] = pending'[j] => k = j
      <4>1. PICK m \in 1 .. Len(pending) : m = from(k) /\ pending'[k] = pending[m]
        BY <3>5, <3>7
      <4>2. /\ pending[m] \in DOMAIN entries
            /\ pending[m] # active.qid
            /\ worker[pending[m]] = "none"
            /\ \A j \in 1 .. Len(pending) : pending[m] = pending[j] => m = j
        BY <1>1 DEF LaneInv, PendingFresh
      <4>3. ASSUME NEW j \in 1 .. Len(pending), pending'[k] = pending'[j]
            PROVE  k = j
        <5>1. from(j) \in 1 .. Len(pending) /\ pending'[j] = pending[from(j)]
          BY <3>7
        <5>2. from(k) = from(j)
          BY <4>1, <4>2, <4>3, <5>1
        <5> QED
          BY <3>5, <3>7, <5>2
      <4>4. active' = active /\ entries' = entries
        BY <2>1
      <4> QED
        BY <3>5, <4>1, <4>2, <4>3, <4>4
    <3>9. PendingFresh'
      BY <3>8 DEF PendingFresh
    <3> QED
      BY <2>1, <2>2, <3>3, <3>4, <3>9
  <2> QED
    BY <2>3, <2>4
<1>4. CASE /\ n \in EntryIds
           /\ entries' = Append(entries, spec)
           /\ pending' = IF atFront THEN <<n>> \o pending ELSE Append(pending, n)
           /\ UNCHANGED <<active, completed, completedOrder>>
  <2>1. /\ entries' \in Seq(Specs)
        /\ Len(entries') = n
        /\ \A q \in 1 .. Len(entries) : entries'[q] = entries[q]
    BY <1>1, <1>4, AppendProperties
  <2>2. DOMAIN entries' = 1 .. n
    BY <1>1, <2>1, LenProperties
  <2>3. Grown
    BY <1>1, <1>4, <2>1, <2>2, BoundAssumption DEF Grown, EntryIds
  <2>4. /\ n \notin DOMAIN entries
        /\ worker[n] = "none"
        /\ n # active.qid
        /\ \A k \in DOMAIN pending : pending[k] # n
    BY <1>1, <1>4 DEF LaneInv, ActiveKnown, SessionLife, PendingFresh
  <2>5. CASE atFront
    <3>1. /\ pending' \in Seq(EntryIds)
          /\ Len(pending') = Len(pending) + 1
          /\ \A k \in 1 .. Len(pending) + 1 :
               pending'[k] = IF k = 1 THEN n ELSE pending[k - 1]
      BY <1>1, <1>4, <2>5, ConsProperties
    <3>2. DOMAIN pending' = 1 .. Len(pending) + 1
      BY <1>1, <3>1, LenProperties
    <3>3. \A k \in DOMAIN pending' :
             IF k = 1 THEN pending'[k] = n
             ELSE k - 1 \in DOMAIN pending /\ pending'[k] = pending[k - 1]
      BY <1>1, <3>1, <3>2
    <3>4. PendingFresh
      BY DEF LaneInv
    <3>5. active' = active /\ n \in DOMAIN entries' /\ DOMAIN entries \subseteq DOMAIN entries'
      BY <1>1, <1>4, <2>2
    <3>6. ASSUME NEW k \in DOMAIN pending'
          PROVE  /\ pending'[k] \in DOMAIN entries'
                 /\ pending'[k] # active'.qid
                 /\ worker'[pending'[k]] = "none"
                 /\ \A j \in DOMAIN pending' : pending'[k] = pending'[j] => k = j
      <4>1. CASE k = 1
        BY <2>4, <3>2, <3>3, <3>5, <4>1
      <4>2. CASE k # 1
        BY <1>1, <2>4, <3>2, <3>3, <3>4, <3>5, <4>2 DEF PendingFresh
      <4> QED
        BY <4>1, <4>2
    <3>7. PendingFresh'
      BY <3>6 DEF PendingFresh
    <3> QED
      BY <1>4, <2>3, <3>1, <3>7
  <2>6. CASE ~atFront
    <3>1. /\ pending' \in Seq(EntryIds)
          /\ Len(pending') = Len(pending) + 1
          /\ \A k \in 1 .. Len(pending) : pending'[k] = pending[k]
          /\ pending'[Len(pending) + 1] = n
      BY <1>1, <1>4, <2>6, AppendProperties
    <3>2. DOMAIN pending' = 1 .. Len(pending) + 1
      BY <1>1, <3>1, LenProperties
    <3>3. PendingFresh'
      BY <1>1, <1>4, <2>2, <2>4, <3>1, <3>2 DEF LaneInv, PendingFresh
    <3> QED
      BY <1>4, <2>3, <3>1, <3>3
  <2> QED
    BY <2>5, <2>6
<1> QED
  BY <1>1, <1>2, <1>3, <1>4 DEF Enqueue

LEMMA RemovalEffect ==
  ASSUME TypeOK, LaneInv, NEW i \in DOMAIN pending,
         SetQueue(active, RemoveAt(pending, i), completed, completedOrder),
         UNCHANGED <<entries, worker>>
  PROVE  /\ active' = active
         /\ pending' \in Seq(EntryIds)
         /\ PendingFresh'
         /\ DOMAIN completed' \subseteq DOMAIN completed
         /\ \A q \in DOMAIN completed' : completed'[q] = completed[q]
<1>1. /\ Len(pending) \in Nat
      /\ DOMAIN pending = 1 .. Len(pending)
      /\ pending \in Seq(EntryIds)
  BY LenProperties DEF TypeOK
<1>2. /\ active' = active
      /\ pending' = RemoveAt(pending, i)
      /\ DOMAIN completed' \subseteq DOMAIN completed
      /\ \A q \in DOMAIN completed' : completed'[q] = completed[q]
  BY SetQueueEffect
<1>3. /\ pending' \in Seq(EntryIds)
      /\ Len(pending') = Len(pending) - 1
      /\ \A k \in 1 .. Len(pending) - 1 :
           pending'[k] = IF k < i THEN pending[k] ELSE pending[k + 1]
  BY <1>1, <1>2, RemoveAtProperties
<1>4. DOMAIN pending' = 1 .. Len(pending) - 1
  BY <1>3, LenProperties
<1> DEFINE from(k) == IF k < i THEN k ELSE k + 1
<1>5. /\ \A k \in 1 .. Len(pending) - 1 :
           from(k) \in 1 .. Len(pending) /\ pending'[k] = pending[from(k)]
      /\ \A j, k \in 1 .. Len(pending) - 1 : from(j) = from(k) => j = k
  BY <1>1, <1>3
<1> HIDE DEF from
<1>6. ASSUME NEW k \in DOMAIN pending'
      PROVE  /\ pending'[k] \in DOMAIN entries'
             /\ pending'[k] # active'.qid
             /\ worker'[pending'[k]] = "none"
             /\ \A j \in DOMAIN pending' : pending'[k] = pending'[j] => k = j
  <2>1. PICK m \in 1 .. Len(pending) : m = from(k) /\ pending'[k] = pending[m]
    BY <1>4, <1>5
  <2>2. /\ pending[m] \in DOMAIN entries
        /\ pending[m] # active.qid
        /\ worker[pending[m]] = "none"
        /\ \A j \in 1 .. Len(pending) : pending[m] = pending[j] => m = j
    BY <1>1 DEF LaneInv, PendingFresh
  <2>3. ASSUME NEW j \in 1 .. Len(pending) - 1, pending'[k] = pending'[j]
        PROVE  k = j
    <3>1. from(j) \in 1 .. Len(pending) /\ pending'[j] = pending[from(j)]
      BY <1>5
    <3>2. from(k) = from(j)
      BY <2>1, <2>2, <2>3, <3>1
    <3> QED
      BY <1>4, <1>5, <3>2
  <2> QED
    BY <1>2, <1>4, <2>1, <2>2, <2>3
<1>7. PendingFresh'
  BY <1>6 DEF PendingFresh
<1> QED
  BY <1>2, <1>3, <1>7

-----------------------------------------------------------------------------
(* Frames: what a step preserves when it only moves workers, or one task *)

\* A step of a worker: sessions end, none begins.
LEMMA WorkFrame ==
  ASSUME TypeOK, LaneInv,
         UNCHANGED <<active, pending, completed, entries, pc, held, install>>,
         \A s \in EntryIds : (worker'[s] = "none") <=> (worker[s] = "none"),
         \A s \in EntryIds : verdict[s] # "none" => verdict'[s] = verdict[s],
         \A s \in DOMAIN installs' :
           s \in DOMAIN installs /\ (~installs'[s].done => ~installs[s].done),
         SessionLife'
  PROVE  LaneInv'
<1>1. /\ pending \in Seq(EntryIds)
      /\ \A i \in DOMAIN pending : pending[i] \in EntryIds
      /\ DOMAIN entries = 1 .. Len(entries) /\ Len(entries) \in Nat
      /\ DOMAIN entries \subseteq EntryIds
      /\ \A q \in DOMAIN entries : entries[q] \in Specs
  BY LenProperties, ElementOfSeq, BoundAssumption DEF TypeOK, EntryIds
<1>2. Live(installs') \subseteq Live(installs)
  BY DEF Live
<1>3. PendingFresh'
  BY <1>1 DEF LaneInv, PendingFresh
<1>4. ActiveKnown' /\ Holds' /\ OneMover' /\ MonitorBorn'
  BY DEF LaneInv, ActiveKnown, Holds, OneMover, Responsible, MonitorBorn
<1>5. LaneExclusive'
  BY <1>2 DEF LaneInv, LaneExclusive
<1>6. \A q \in DOMAIN entries : PrerequisiteDone(q) => PrerequisiteDone(q)'
  BY <1>1 DEF PrerequisiteDone, Specs, OptId, EntryIds
<1>7. DependentAfterBase'
  BY <1>1, <1>6 DEF LaneInv, DependentAfterBase
<1>8. SuccessReal' /\ MarkedIsWorked'
  BY DEF LaneInv, SuccessReal, MarkedIsWorked, TypeOK, ActiveKnown, OptId, EntryIds
<1>9. ASSUME NEW t \in Tasks
      PROVE  StepsOf(t)'
  <2>1. /\ StepsOf(t)
        /\ pc[t] \in HoldPcs => held[t] \in DOMAIN entries /\ held[t] \in EntryIds
        /\ pc[t] \in WatchPcs => t \in EntryIds
    BY <1>1 DEF LaneInv, Steps, Holds, TypeOK, Tasks, WatchPcs, HandlerPcs, DrivePcs
  <2>2. pc[t] = "start" => PrerequisiteDone(held[t])'
    BY <1>6, <2>1 DEF StepsOf, HoldPcs
  <2> QED
    BY <1>2, <2>1, <2>2 DEF StepsOf, HoldPcs, WatchPcs
<1> QED
  BY <1>3, <1>4, <1>5, <1>7, <1>8, <1>9 DEF LaneInv, Steps
LEMMA Basics ==
  ASSUME TypeOK, LaneInv
  PROVE  /\ DOMAIN entries = 1 .. Len(entries) /\ Len(entries) \in Nat
         /\ DOMAIN entries \subseteq EntryIds
         /\ \A q \in DOMAIN entries : entries[q] \in Specs
         /\ \A i \in DOMAIN pending : pending[i] \in EntryIds
         /\ \A q \in EntryIds : q # 0 /\ q \in Int
         /\ \A c \in Callers : c \notin EntryIds /\ pc[c] \notin WatchPcs
         /\ \A t \in Tasks, u \in Tasks, q \in EntryIds, r \in EntryIds :
              Responsible(t, q) /\ Responsible(u, r) => t = u /\ q = r /\ q = active.qid
<1>1. /\ DOMAIN entries = 1 .. Len(entries) /\ Len(entries) \in Nat
      /\ DOMAIN entries \subseteq EntryIds
      /\ \A q \in DOMAIN entries : entries[q] \in Specs
      /\ \A i \in DOMAIN pending : pending[i] \in EntryIds
      /\ \A q \in EntryIds : q # 0 /\ q \in Int
  BY LenProperties, ElementOfSeq, BoundAssumption DEF TypeOK, EntryIds
<1>2. \A c \in Callers : c \notin EntryIds /\ pc[c] \notin WatchPcs
  <2>1. \A c \in Callers : c \notin Int
    BY CallerAssumption
  <2>2. EntryIds \subseteq Int
    BY BoundAssumption DEF EntryIds
  <2>3. \A c \in Callers : pc[c] \notin WatchPcs
    BY DEF TypeOK, HandlerPcs, DrivePcs, WatchPcs
  <2> QED
    BY <2>1, <2>2, <2>3
<1>3. \A t \in Tasks, u \in Tasks, q \in EntryIds, r \in EntryIds :
        Responsible(t, q) /\ Responsible(u, r) => t = u /\ q = r /\ q = active.qid
  BY DEF LaneInv, OneMover
<1> QED
  BY <1>1, <1>2, <1>3

\* A step of a task: sessions and workers are as they were.
LEMMA TaskFrame ==
  ASSUME TypeOK, LaneInv, UNCHANGED <<installs, worker, verdict>>, Grown
  PROVE  /\ SessionLife'
         /\ DependentAfterBase'
         /\ \A q \in DOMAIN entries : PrerequisiteDone(q)' <=> PrerequisiteDone(q)
<1>1. \A q \in DOMAIN entries : PrerequisiteDone(q)' <=> PrerequisiteDone(q)
  BY DEF PrerequisiteDone, Grown
<1>2. SessionLife'
  BY DEF LaneInv, SessionLife, Grown, Live
<1>3. DOMAIN entries' \subseteq EntryIds
  BY LenProperties, BoundAssumption DEF Grown, EntryIds
<1>4. DependentAfterBase'
  BY <1>1, <1>3 DEF LaneInv, DependentAfterBase, SessionLife
<1> QED
  BY <1>1, <1>2, <1>4

Resting == {"idle", "respond", "enqueueBase", "enqueueContent", "removeInstance",
            "rollback", "reserve", "over"}

\* A task that lets go of what it holds, or holds nothing, disturbs nobody.
LEMMA TaskRests ==
  ASSUME TypeOK, LaneInv, NEW t \in Tasks, NEW l \in Resting,
         pc[t] # "unborn", UNCHANGED <<active, installs, worker, verdict>>,
         Grown, PendingFresh', SuccessReal',
         \A u \in Tasks : /\ pc'[u] = IF u = t THEN l ELSE pc[u]
                          /\ held'[u] = IF u = t THEN 0 ELSE held[u]
                          /\ u # t => install'[u] = install[u]
  PROVE  LaneInv'
<1>1. /\ l \notin HoldPcs
      /\ l \notin WatchPcs
      /\ l \notin {"check", "failDependent", "start", "startFailed", "mark", "spawn",
                   "recordSuccess", "recordFailure"}
  BY DEF Resting, HoldPcs, WatchPcs
<1>2. \A u \in Tasks, q \in EntryIds : Responsible(u, q)' => Responsible(u, q)
  BY <1>1, Basics DEF Responsible
<1>3. OneMover'
  BY <1>2 DEF LaneInv, OneMover
<1>4. Holds'
  BY <1>1 DEF LaneInv, Holds, Grown
<1>5. ASSUME NEW u \in Tasks
      PROVE  StepsOf(u)'
  <2>1. CASE u = t
    BY <1>1, <2>1 DEF StepsOf
  <2>2. CASE u # t
    <3>1. /\ StepsOf(u)
          /\ pc[u] \in HoldPcs => held[u] \in DOMAIN entries
      BY DEF LaneInv, Steps, Holds
    <3>2. pc'[u] = pc[u] /\ held'[u] = held[u] /\ install'[u] = install[u]
      BY <2>2
    <3>3. pc[u] = "start" => PrerequisiteDone(held[u])'
      BY <3>1, <3>2, TaskFrame DEF StepsOf, HoldPcs, PrerequisiteDone
    <3> QED
      BY <3>1, <3>2, <3>3 DEF StepsOf
  <2> QED
    BY <2>1, <2>2
<1>6. ActiveKnown' /\ LaneExclusive' /\ MarkedIsWorked'
  BY DEF LaneInv, ActiveKnown, LaneExclusive, MarkedIsWorked, Grown
<1>7. MonitorBorn'
  BY Basics DEF LaneInv, MonitorBorn, Tasks
<1> QED
  BY <1>3, <1>4, <1>5, <1>6, <1>7, TaskFrame DEF LaneInv, Steps
\* The task in charge of the active entry records its outcome and lets it go.
LEMMA TaskReleases ==
  ASSUME TypeOK, LaneInv, NEW t \in Tasks, NEW q \in EntryIds, Responsible(t, q),
         q \notin Live(installs), active' = NoActive,
         UNCHANGED <<pending, entries, installs, worker, verdict>>,
         SuccessReal', NEW l \in Resting \cup {"discard"},
         \A u \in Tasks : /\ pc'[u] = IF u = t THEN l ELSE pc[u]
                          /\ u # t => held'[u] = held[u] /\ install'[u] = install[u],
         IF l = "discard" THEN held'[t] = q ELSE held'[t] = 0,
         l = "discard" => q \in DOMAIN entries
  PROVE  LaneInv'
<1>1. /\ l \notin HoldPcs \ {"discard"}
      /\ l \notin WatchPcs
  BY DEF Resting, HoldPcs, WatchPcs
<1>2. Grown
  BY DEF Grown, TypeOK
<1>3. \A u \in Tasks \ {t}, r \in EntryIds : ~Responsible(u, r)
  BY Basics
<1>4. \A u \in Tasks, r \in EntryIds : ~Responsible(u, r)'
  BY <1>1, <1>3, Basics DEF Responsible
<1>5. OneMover'
  BY <1>4 DEF OneMover
<1>6. Holds'
  BY <1>1 DEF LaneInv, Holds, Resting, HoldPcs
<1>7. ASSUME NEW u \in Tasks
      PROVE  StepsOf(u)'
  <2>1. CASE u = t
    BY <1>1, <2>1 DEF StepsOf, Resting
  <2>2. CASE u # t
    <3>1. /\ StepsOf(u)
          /\ pc[u] \in HoldPcs => held[u] \in DOMAIN entries
      BY DEF LaneInv, Steps, Holds
    <3>2. pc'[u] = pc[u] /\ held'[u] = held[u] /\ install'[u] = install[u]
      BY <2>2
    <3>3. /\ held[u] # 0 => pc[u] = "discard"
          /\ pc[u] \notin WatchPcs
      <4>1. held[u] # 0 => held[u] \in EntryIds
        BY DEF TypeOK, OptId, EntryIds
      <4>2. pc[u] \in WatchPcs => u \in EntryIds
        BY Basics DEF Tasks
      <4> QED
        BY <1>3, <2>2, <4>1, <4>2 DEF Responsible
    <3>4. held[u] = 0 => pc[u] \notin HoldPcs
      BY <3>1, Basics
    <3> QED
      BY <3>2, <3>3, <3>4 DEF StepsOf, HoldPcs, WatchPcs
  <2> QED
    BY <2>1, <2>2
<1>8. LaneExclusive'
  BY Basics DEF LaneInv, LaneExclusive
<1>9. ActiveKnown' /\ MarkedIsWorked'
  BY DEF ActiveKnown, MarkedIsWorked, NoActive
<1>10. PendingFresh'
  BY Basics DEF LaneInv, PendingFresh, NoActive
<1>11. MonitorBorn'
  <2>1. pc[t] # "unborn"
    BY Basics DEF Responsible, LaneInv, Holds, HoldPcs, WatchPcs
  <2>2. held'[t] # 0 => pc'[t] = "discard"
    OBVIOUS
  <2> QED
    BY <2>1, <2>2, Basics DEF LaneInv, MonitorBorn, Tasks
<1> QED
  BY <1>2, <1>5, <1>6, <1>7, <1>8, <1>9, <1>10, <1>11, TaskFrame DEF LaneInv, Steps

\* The task in charge of an entry moves on with it.
LEMMA TaskAdvances ==
  ASSUME TypeOK, LaneInv, NEW t \in Tasks, NEW l,
         UNCHANGED <<active, pending, completed, entries, installs, worker, verdict,
                     held, install>>,
         \A u \in Tasks : pc'[u] = IF u = t THEN l ELSE pc[u],
         l # "discard",
         \/ pc[t] \in HoldPcs \ {"discard"} /\ l \in HoldPcs
         \/ pc[t] \in WatchPcs /\ l \in WatchPcs,
         StepsOf(t)'
  PROVE  LaneInv'
<1>1. Grown
  BY DEF Grown, TypeOK
<1>2. \A u \in Tasks, r \in EntryIds : Responsible(u, r)' => Responsible(u, r)
  BY Basics DEF Responsible, HoldPcs, WatchPcs
<1>3. OneMover'
  BY <1>2 DEF LaneInv, OneMover
<1>4. Holds'
  BY DEF LaneInv, Holds, HoldPcs, WatchPcs
<1>5. ASSUME NEW u \in Tasks \ {t}
      PROVE  StepsOf(u)'
  <2>1. /\ StepsOf(u)
        /\ pc[u] \in HoldPcs => held[u] \in DOMAIN entries
    BY DEF LaneInv, Steps, Holds
  <2>2. pc[u] = "start" => PrerequisiteDone(held[u])'
    BY <2>1 DEF StepsOf, HoldPcs, PrerequisiteDone
  <2> QED
    BY <2>1, <2>2 DEF StepsOf
<1>6. PendingFresh' /\ ActiveKnown' /\ LaneExclusive' /\ MarkedIsWorked' /\ SuccessReal'
  BY DEF LaneInv, PendingFresh, ActiveKnown, LaneExclusive, MarkedIsWorked, SuccessReal
<1>7. MonitorBorn'
  BY DEF LaneInv, MonitorBorn, Tasks, HoldPcs, WatchPcs
<1> QED
  BY <1>1, <1>3, <1>4, <1>5, <1>6, <1>7, TaskFrame DEF LaneInv, Steps
-----------------------------------------------------------------------------
(* Types *)

PcTypes ==
  /\ pc \in [Tasks -> HandlerPcs \cup MonitorPcs]
  /\ \A c \in Callers : pc[c] \in HandlerPcs
  /\ \A m \in EntryIds : pc[m] \in MonitorPcs
JobTypes ==
  /\ job \in [Callers -> Jobs]
  /\ \A c \in Callers :
       pc[c] \in {"enqueueBase", "enqueueContent"} \/ job[c].kind = "base" =>
         job[c].item \in Setups
TaskTypes ==
  /\ PcTypes
  /\ JobTypes
  /\ held \in [Tasks -> OptId]
  /\ install \in [Tasks -> OptId]
QueueTypes ==
  /\ active \in [qid : OptId, install : OptId]
  /\ pending \in Seq(EntryIds)
  /\ DOMAIN completed \subseteq EntryIds
  /\ \A q \in DOMAIN completed : completed[q] \in BOOLEAN
SessionTypes ==
  /\ DOMAIN installs \subseteq EntryIds
  /\ \A s \in DOMAIN installs : installs[s] \in Sessions
  /\ worker \in [EntryIds -> WorkerStates]
  /\ late \subseteq EntryIds
  /\ verdict \in [EntryIds -> {"none", "ok", "error"}]
DiskTypes ==
  /\ ready \subseteq Versions
  /\ instance \in [Setups -> {"absent", "pristine", "spared", "touched", "removed"}]
  /\ lock \in [Setups -> Tasks \cup {0}]
EntryTypes ==
  /\ entries \in Seq(Specs)
  /\ Len(entries) <= MaxEntries
HistoryTypes ==
  /\ lost \subseteq EntryIds
  /\ abandoned \subseteq {"startFailed", "disconnect"}

LEMMA TypeParts ==
  TypeOK <=> /\ TaskTypes /\ QueueTypes /\ SessionTypes
             /\ DiskTypes /\ EntryTypes /\ HistoryTypes
BY DEF TypeOK, TaskTypes, PcTypes, JobTypes, QueueTypes, SessionTypes, DiskTypes,
       EntryTypes, HistoryTypes

LEMMA TypePartsNext ==
  ASSUME TaskTypes', QueueTypes', SessionTypes', DiskTypes', EntryTypes', HistoryTypes'
  PROVE  TypeOK'
BY DEF TypeOK, TaskTypes, PcTypes, JobTypes, QueueTypes, SessionTypes, DiskTypes,
       EntryTypes, HistoryTypes

\* The parts that a step does not touch.
LEMMA TypesKept ==
  ASSUME TypeOK
  PROVE  /\ UNCHANGED <<active, pending, completed>> => QueueTypes'
         /\ UNCHANGED <<installs, worker, late, verdict>> => SessionTypes'
         /\ UNCHANGED <<ready, instance, lock>> => DiskTypes'
         /\ UNCHANGED entries => EntryTypes'
         /\ UNCHANGED <<lost, abandoned>> => HistoryTypes'
         /\ UNCHANGED <<pc, job>> => PcTypes' /\ JobTypes'
         /\ UNCHANGED <<held, install>> => held' \in [Tasks -> OptId] /\ install' \in [Tasks -> OptId]
BY DEF TypeOK, TaskTypes, PcTypes, JobTypes, QueueTypes, SessionTypes, DiskTypes,
       EntryTypes, HistoryTypes

\* Most steps move one task and leave its job alone.
LEMMA MoveTypes ==
  ASSUME TypeOK, NEW t \in Tasks, NEW l,
         t \in Callers => l \in HandlerPcs,
         t \in EntryIds => l \in MonitorPcs,
         GoTo(t, l)
  PROVE  /\ PcTypes'
         /\ l \notin {"enqueueBase", "enqueueContent"} /\ job' = job => JobTypes'
<1>1. PcTypes'
  BY DEF TypeOK, Tasks, PcTypes, GoTo
<1>2. ASSUME l \notin {"enqueueBase", "enqueueContent"}, job' = job
      PROVE  JobTypes'
  BY <1>2 DEF TypeOK, Tasks, JobTypes, GoTo
<1> QED
  BY <1>1, <1>2

\* A handler that takes up, or drops, a job.
LEMMA JobMoves ==
  ASSUME TypeOK, NEW c \in Callers, NEW j \in Jobs, NEW l, GoTo(c, l),
         job' = [job EXCEPT ![c] = j],
         l \in {"enqueueBase", "enqueueContent"} \/ j.kind = "base" => j.item \in Setups
  PROVE  JobTypes'
BY DEF TypeOK, Tasks, JobTypes, GoTo

LEMMA RequestTypes ==
  ASSUME TypeOK, LaneInv, NEW c \in Callers, Request(c)
  PROVE  TypeOK'
<1>1. c \in Tasks /\ c \notin EntryIds
  BY Basics DEF Tasks
<1>2. /\ "reserve" \in HandlerPcs /\ "removeInstance" \in HandlerPcs
      /\ "enqueueBase" \in HandlerPcs /\ "enqueueContent" \in HandlerPcs
  BY DEF HandlerPcs, DrivePcs
<1>3. CASE StatusRequest(c)
  <2>1. PcTypes' /\ JobTypes'
    BY <1>1, <1>2, <1>3, MoveTypes DEF StatusRequest
  <2> QED
    BY <1>3, <2>1, TypesKept, TypePartsNext
    DEF TaskTypes, StatusRequest, queueVars, diskVars, historyVars
<1>4. ASSUME NEW item \in Versions \cup Contents, NEW retry \in BOOLEAN,
             EnqueueRequest(c, item, retry)
      PROVE  TypeOK'
  <2>1. PcTypes' /\ JobTypes'
    BY <1>1, <1>2, <1>4, MoveTypes DEF EnqueueRequest
  <2>2. [item |-> item, prereq |-> 0] \in Specs
    BY BoundAssumption DEF Specs, Items, OptId
  <2>3. /\ UNCHANGED <<active, completed>>
        /\ pending' \in Seq(EntryIds)
        /\ Grown
    BY <1>4, <2>2, EnqueueEffect DEF EnqueueRequest
  <2>4. QueueTypes' /\ EntryTypes'
    BY <2>3 DEF QueueTypes, EntryTypes, Grown, TypeOK
  <2> QED
    BY <1>4, <2>1, <2>4, TypesKept, TypePartsNext
    DEF TaskTypes, EnqueueRequest, diskVars, historyVars
<1>5. ASSUME NEW s \in Setups, SetupRequest(c, s)
      PROVE  TypeOK'
  <2>1. PICK l \in {"enqueueContent", "enqueueBase"} : GoTo(c, l)
    BY <1>5 DEF SetupRequest
  <2>2. PcTypes'
    BY <1>1, <1>2, <2>1, MoveTypes
  <2>3. [kind |-> "base", item |-> s, prereq |-> 0] \in Jobs
    BY BoundAssumption DEF Jobs, OptId
  <2>4. JobTypes'
    BY <1>5, <2>1, <2>3, JobMoves DEF SetupRequest
  <2>5. DiskTypes'
    BY <1>5 DEF SetupRequest, TypeOK, DiskTypes
  <2> QED
    BY <1>5, <2>2, <2>4, <2>5, TypesKept, TypePartsNext
    DEF TaskTypes, SetupRequest, queueVars, historyVars
<1>6. ASSUME NEW q \in EntryIds, RemoveRequest(c, q)
      PROVE  TypeOK'
  <2>1. PICK i \in DOMAIN pending :
          /\ pending[i] = q
          /\ SetQueue(active, RemoveAt(pending, i), completed, completedOrder)
    BY <1>6 DEF RemoveRequest
  <2>2. /\ active' = active
        /\ pending' \in Seq(EntryIds)
        /\ DOMAIN completed' \subseteq DOMAIN completed
        /\ \A p \in DOMAIN completed' : completed'[p] = completed[p]
    BY <1>6, <2>1, RemovalEffect DEF RemoveRequest
  <2>3. QueueTypes'
    BY <2>2 DEF QueueTypes, TypeOK
  <2>4. PcTypes' /\ JobTypes'
    <3>1. CASE entries[q].item \in Setups
      <4> DEFINE j == [Idle EXCEPT !.item = entries[q].item]
      <4>1. GoTo(c, "removeInstance") /\ job' = [job EXCEPT ![c] = j]
        BY <1>6, <3>1 DEF RemoveRequest
      <4>2. j \in Jobs /\ j.item \in Setups
        BY <3>1, BoundAssumption DEF Jobs, Idle, OptId
      <4> QED
        BY <1>1, <1>2, <4>1, <4>2, MoveTypes, JobMoves
    <3>2. CASE entries[q].item \notin Setups
      BY <1>6, <3>2, TypesKept DEF RemoveRequest
    <3> QED
      BY <3>1, <3>2
  <2> QED
    BY <1>6, <2>3, <2>4, TypesKept, TypePartsNext
    DEF TaskTypes, RemoveRequest, diskVars, historyVars
<1> QED
  BY <1>3, <1>4, <1>5, <1>6 DEF Request

LEMMA CleanupTypes ==
  ASSUME TypeOK, NEW x \in Tasks, NEW s, UNCHANGED ready,
         ComparesInstance(x, s) \/ CleanupEnds(x, s)
  PROVE  DiskTypes'
BY DEF ComparesInstance, CleanupEnds, GivesUp, RemovesInstance, Spare, TypeOK, DiskTypes

\* Comparing an instance changes nothing but its lock.
LockOnly ==
  UNCHANGED <<queueVars, installs, entries, taskVars, worker, late, ready, instance,
              verdict, historyVars>>

\* The step of a cleanup that moves its task.
DiscardEnds(t) ==
  /\ pc[t] = "discard"
  /\ CleanupEnds(t, entries[held[t]].item)
  /\ held' = [held EXCEPT ![t] = 0]
  /\ GoTo(t, "reserve")
  /\ UNCHANGED <<queueVars, installs, entries, job, install, worker, late,
                 ready, verdict, historyVars>>
RemoveEnds(c) ==
  /\ pc[c] = "removeInstance"
  /\ CleanupEnds(c, job[c].item)
  /\ GoTo(c, "idle")
  /\ job' = [job EXCEPT ![c] = Idle]
  /\ UNCHANGED <<queueVars, installs, entries, held, install, worker, late,
                 ready, verdict, historyVars>>
CleanUpEnds(s) ==
  /\ Is(s, "cleaning")
  /\ CleanupEnds(s, entries[s].item) /\ WorkerTo(s, "failed")
  /\ WorkerUnchanged /\ UNCHANGED <<installs, late, ready, verdict>>
HandleEnds(s) ==
  /\ Is(s, "claimed")
  /\ CleanupEnds(s, entries[s].item) /\ WorkerTo(s, "handled")
  /\ WorkerUnchanged /\ UNCHANGED <<installs, late, ready, verdict>>

LEMMA TwoSteps ==
  /\ \A t : DiscardInstance(t) =>
       \/ LockOnly /\ ComparesInstance(t, entries[held[t]].item)
       \/ DiscardEnds(t)
  /\ \A c : RemoveInstance(c) =>
       \/ LockOnly /\ ComparesInstance(c, job[c].item)
       \/ RemoveEnds(c)
  /\ \A s : CleanUpAfterFailure(s) =>
       \/ LockOnly /\ ComparesInstance(s, entries[s].item)
       \/ CleanUpEnds(s)
  /\ \A s : HandleInterruption(s) =>
       \/ LockOnly /\ ComparesInstance(s, entries[s].item)
       \/ HandleEnds(s)
BY DEF DiscardInstance, RemoveInstance, CleanUpAfterFailure, HandleInterruption,
       LockOnly, ComparesInstance, DiscardEnds, RemoveEnds, CleanUpEnds, HandleEnds,
       taskVars, queueVars, WorkerUnchanged, historyVars

LEMMA LockTypes ==
  ASSUME TypeOK, LockOnly, NEW x \in Tasks, NEW s, ComparesInstance(x, s)
  PROVE  TypeOK'
<1>1. DiskTypes'
  BY CleanupTypes DEF LockOnly
<1> QED
  BY <1>1, TypesKept, TypePartsNext
  DEF LockOnly, TaskTypes, queueVars, taskVars, historyVars

LEMMA LockSafe ==
  ASSUME TypeOK, LaneInv, LockOnly
  PROVE  LaneInv'
<1>1. UNCHANGED <<active, pending, completed, installs, entries, pc, job, held, install,
                  worker, late, verdict>>
  BY DEF LockOnly, queueVars, taskVars
<1>2. PendingFresh' /\ ActiveKnown' /\ SessionLife' /\ LaneExclusive'
  BY <1>1 DEF LaneInv, PendingFresh, ActiveKnown, SessionLife, LaneExclusive, Live
<1>3. Holds' /\ MonitorBorn' /\ OneMover'
  BY <1>1 DEF LaneInv, Holds, MonitorBorn, OneMover, Responsible
<1>4. Steps'
  BY <1>1 DEF LaneInv, Steps, StepsOf, Live, PrerequisiteDone
<1>5. MarkedIsWorked' /\ SuccessReal' /\ DependentAfterBase'
  BY <1>1 DEF LaneInv, MarkedIsWorked, SuccessReal, DependentAfterBase, PrerequisiteDone
<1> QED
  BY <1>2, <1>3, <1>4, <1>5 DEF LaneInv

LEMMA ReleaseTypes ==
  ASSUME TypeOK, NEW q \in EntryIds, NEW ok \in BOOLEAN,
         ReleaseWithOutcome(q, ok) \/ UNCHANGED queueVars
  PROVE  QueueTypes'
<1>1. CASE ReleaseWithOutcome(q, ok)
  BY <1>1, ReleaseEffect, BoundAssumption DEF NoActive, OptId, QueueTypes, TypeOK
<1>2. CASE UNCHANGED queueVars
  BY <1>2, TypesKept DEF queueVars
<1> QED
  BY <1>1, <1>2

LEMMA DriveTypes ==
  ASSUME TypeOK, LaneInv, NEW t \in Tasks, Drive(t)
  PROVE  TypeOK'
<1>1. /\ t \in Callers => t \notin EntryIds
      /\ DrivePcs \subseteq HandlerPcs /\ DrivePcs \subseteq MonitorPcs
      /\ "respond" \in HandlerPcs /\ "spawn" \in MonitorPcs /\ "over" \in MonitorPcs
      /\ \A l \in DrivePcs : l \notin {"enqueueBase", "enqueueContent"}
  BY Basics DEF HandlerPcs, MonitorPcs, DrivePcs
<1>2. ASSUME NEW l, GoTo(t, l), job' = job,
             \/ l \in DrivePcs
             \/ l = "respond" /\ t \in Callers
             \/ l \in {"spawn", "over"} /\ t \in EntryIds
      PROVE  PcTypes' /\ JobTypes'
  <2>1. /\ t \in Callers => l \in HandlerPcs
        /\ t \in EntryIds => l \in MonitorPcs
        /\ l \notin {"enqueueBase", "enqueueContent"}
    BY <1>1, <1>2
  <2> QED
    BY <1>2, <2>1, MoveTypes
<1>3. CASE Reserve(t)
  <2>1. PcTypes' /\ JobTypes'
    <3>1. CASE active.qid # 0 \/ pending = <<>>
      <4>1. GoTo(t, IF t \in Callers THEN "respond" ELSE "over") /\ job' = job
        BY <1>3, <3>1 DEF Reserve
      <4>2. CASE t \in Callers
        BY <1>2, <4>1, <4>2
      <4>3. CASE t \notin Callers
        BY <1>2, <4>1, <4>3 DEF Tasks
      <4> QED
        BY <4>2, <4>3
    <3>2. CASE ~(active.qid # 0 \/ pending = <<>>)
      <4>1. GoTo(t, "check") /\ job' = job /\ "check" \in DrivePcs
        BY <1>3, <3>2 DEF Reserve, DrivePcs
      <4> QED
        BY <1>2, <4>1
    <3> QED
      BY <3>1, <3>2
  <2>2. QueueTypes' /\ held' \in [Tasks -> OptId]
    <3>1. CASE active.qid # 0 \/ pending = <<>>
      BY <1>3, <3>1, TypesKept DEF Reserve, TypeOK
    <3>2. CASE ~(active.qid # 0 \/ pending = <<>>)
      <4>1. Head(pending) \in EntryIds /\ Tail(pending) \in Seq(EntryIds)
        BY <3>2, HeadTailProperties DEF TypeOK
      <4>2. Head(pending) \in OptId /\ 0 \in OptId
        BY <4>1, BoundAssumption DEF OptId, EntryIds
      <4>3. /\ active' = [qid |-> Head(pending), install |-> 0]
            /\ pending' = Tail(pending)
            /\ held' = [held EXCEPT ![t] = Head(pending)]
            /\ completed' = completed
        BY <1>3, <3>2 DEF Reserve
      <4>4. held' \in [Tasks -> OptId]
        BY <4>2, <4>3 DEF TypeOK
      <4>5. active' \in [qid : OptId, install : OptId]
        BY <4>2, <4>3
      <4> QED
        BY <4>1, <4>3, <4>4, <4>5 DEF QueueTypes, TypeOK
    <3> QED
      BY <3>1, <3>2
  <2>3. install' \in [Tasks -> OptId]
    BY <1>3 DEF Reserve, TypeOK
  <2> QED
    BY <1>3, <2>1, <2>2, <2>3, TypesKept, TypePartsNext
    DEF TaskTypes, Reserve, diskVars, historyVars
<1>4. CASE CheckPrerequisite(t) \/ StartFails(t)
  <2>1. PICK l \in {"start", "failDependent", "startFailed"} : GoTo(t, l)
    BY <1>4 DEF CheckPrerequisite, StartFails
  <2>2. PcTypes' /\ JobTypes'
    BY <1>2, <1>4, <2>1 DEF DrivePcs, CheckPrerequisite, StartFails
  <2> QED
    BY <1>4, <2>2, TypesKept, TypePartsNext
    DEF TaskTypes, CheckPrerequisite, StartFails, queueVars, diskVars, historyVars
<1>5. CASE FailDependent(t)
  <2>1. PcTypes' /\ JobTypes'
    BY <1>2, <1>5 DEF FailDependent, DrivePcs
  <2>2. QueueTypes'
    <3>1. held[t] \in EntryIds
      BY <1>5, Basics DEF FailDependent, LaneInv, Holds, HoldPcs
    <3> QED
      BY <1>5, <3>1, ReleaseTypes DEF FailDependent
  <2> QED
    BY <1>5, <2>1, <2>2, TypesKept, TypePartsNext
    DEF TaskTypes, FailDependent, diskVars, historyVars
<1>6. CASE DiscardInstance(t)
  <2>4. CASE LockOnly /\ ComparesInstance(t, entries[held[t]].item)
    BY <2>4, LockTypes
  <2>5. CASE DiscardEnds(t)
    <3>1. PcTypes' /\ JobTypes'
      BY <1>2, <2>5 DEF DiscardEnds, DrivePcs
    <3>2. DiskTypes'
      BY <2>5, CleanupTypes DEF DiscardEnds
    <3>3. held' \in [Tasks -> OptId] /\ install' \in [Tasks -> OptId]
      BY <2>5, BoundAssumption DEF DiscardEnds, TypeOK, OptId
    <3> QED
      BY <2>5, <3>1, <3>2, <3>3, TypesKept, TypePartsNext
      DEF TaskTypes, DiscardEnds, queueVars, historyVars
  <2> QED
    BY <1>6, <2>4, <2>5, TwoSteps
<1>7. CASE RecordStartFailure(t)
  <2>1. /\ AfterError(t) \in HandlerPcs
        /\ t \in EntryIds => AfterError(t) \in MonitorPcs
        /\ AfterError(t) \notin {"enqueueBase", "enqueueContent"}
        /\ GoTo(t, AfterError(t))
    BY <1>7 DEF RecordStartFailure, AfterError, HandlerPcs, MonitorPcs, DrivePcs
  <2>2. PcTypes' /\ JobTypes'
    <3>1. CASE job' = job
      BY <2>1, <3>1, MoveTypes
    <3>2. CASE t \in Callers /\ job' = [job EXCEPT ![t] = Idle]
      <4>1. Idle \in Jobs /\ Idle.kind # "base"
        BY BoundAssumption DEF Jobs, Idle, OptId
      <4> QED
        BY <2>1, <3>2, <4>1, MoveTypes, JobMoves
    <3> QED
      BY <1>7, <3>1, <3>2 DEF RecordStartFailure
  <2>3. QueueTypes'
    <3>1. held[t] \in EntryIds
      BY <1>7, Basics DEF RecordStartFailure, LaneInv, Holds, HoldPcs
    <3> QED
      BY <1>7, <3>1, ReleaseTypes DEF RecordStartFailure
  <2>4. held' \in [Tasks -> OptId] /\ install' \in [Tasks -> OptId]
    BY <1>7, BoundAssumption DEF RecordStartFailure, TypeOK, OptId
  <2>5. HistoryTypes'
    BY <1>7 DEF RecordStartFailure, TypeOK, HistoryTypes
  <2> QED
    BY <1>7, <2>2, <2>3, <2>4, <2>5, TypesKept, TypePartsNext
    DEF TaskTypes, RecordStartFailure, diskVars
<1>8. CASE MarkStarted(t)
  <2>1. GoTo(t, IF t \in Callers THEN "respond" ELSE "spawn") /\ job' = job
    BY <1>8 DEF MarkStarted
  <2>2. PcTypes' /\ JobTypes'
    <3>1. CASE t \in Callers
      BY <1>2, <2>1, <3>1
    <3>2. CASE t \notin Callers
      BY <1>2, <2>1, <3>2 DEF Tasks
    <3> QED
      BY <3>1, <3>2
  <2>3. QueueTypes'
    BY <1>8 DEF MarkStarted, TypeOK, QueueTypes
  <2> QED
    BY <1>8, <2>2, <2>3, TypesKept, TypePartsNext
    DEF TaskTypes, MarkStarted, diskVars, historyVars
<1>9. CASE StartInstall(t)
  <2>1. PcTypes' /\ JobTypes'
    BY <1>2, <1>9 DEF StartInstall, DrivePcs
  <2>2. held[t] \in EntryIds
    BY <1>9, Basics DEF StartInstall, LaneInv, Holds, HoldPcs
  <2>3. EntryIds \subseteq OptId
    BY BoundAssumption DEF OptId, EntryIds
  <2>4. SessionTypes' /\ install' \in [Tasks -> OptId]
    <3>1. CASE /\ \E key \in Versions \cup {"none"} : InsertSession(held[t], key)
               /\ install' = [install EXCEPT ![t] = held[t]]
               /\ worker' = [worker EXCEPT ![held[t]] = "running"]
      <4>1. /\ install' \in [Tasks -> OptId]
            /\ worker' \in [EntryIds -> WorkerStates]
        BY <2>2, <2>3, <3>1 DEF TypeOK, WorkerStates
      <4>2. /\ DOMAIN installs' \subseteq EntryIds
            /\ \A s \in DOMAIN installs' : installs'[s] \in Sessions
        BY <2>2, <3>1 DEF InsertSession, Live, TypeOK, Sessions
      <4> QED
        BY <1>9, <4>1, <4>2 DEF StartInstall, SessionTypes, TypeOK
    <3>2. CASE /\ \E s \in Live(installs) : install' = [install EXCEPT ![t] = s]
               /\ UNCHANGED <<installs, worker>>
      BY <1>9, <2>3, <3>2, TypesKept DEF StartInstall, TypeOK, Live
    <3> QED
      BY <1>9, <3>1, <3>2 DEF StartInstall
  <2>5. held' \in [Tasks -> OptId]
    BY <1>9 DEF StartInstall, TypeOK
  <2> QED
    BY <1>9, <2>1, <2>4, <2>5, TypesKept, TypePartsNext
    DEF TaskTypes, StartInstall, queueVars, diskVars, historyVars
<1> QED
  BY <1>3, <1>4, <1>5, <1>6, <1>7, <1>8, <1>9 DEF Drive

LEMMA HeldIsEntry ==
  ASSUME TypeOK, NEW t \in Tasks
  PROVE  held[t] = 0 \/ (held[t] \in EntryIds /\ held[t] \notin Callers)
<1>1. held[t] \in OptId
  BY DEF TypeOK
<1> QED
  BY <1>1, BoundAssumption, CallerAssumption DEF OptId, EntryIds

LEMMA PcIsFunction ==
  ASSUME TypeOK
  PROVE  pc \in [Tasks -> HandlerPcs \cup MonitorPcs]
BY DEF TypeOK

LEMMA SpawnTypes ==
  ASSUME TypeOK, LaneInv, NEW t \in Tasks, NEW next, NEW nextJob,
         SpawnMonitor(t, next, nextJob),
         t \in Callers => next \in HandlerPcs,
         t \in EntryIds => next \in MonitorPcs
  PROVE  PcTypes' /\ held' \in [Tasks -> OptId] /\ install' \in [Tasks -> OptId]
<1>1. held[t] # 0 => held[t] \in EntryIds
  BY DEF TypeOK, OptId, EntryIds
<1>2. "subscribe" \in MonitorPcs
  BY DEF MonitorPcs, WatchPcs
<1>3. PcTypes'
  BY <1>1, <1>2, Basics DEF SpawnMonitor, PcTypes, TypeOK, Tasks
<1>4. 0 \in OptId
  BY BoundAssumption DEF OptId
<1>5. held' \in [Tasks -> OptId] /\ install' \in [Tasks -> OptId]
  BY <1>4 DEF SpawnMonitor, TypeOK
<1> QED
  BY <1>3, <1>5

LEMMA HandlerTypes ==
  ASSUME TypeOK, LaneInv, NEW c \in Callers, Handle(c) \/ Disconnect(c)
  PROVE  TypeOK'
<1>1. c \in Tasks /\ c \notin EntryIds
  BY Basics DEF Tasks
<1>2. /\ "reserve" \in HandlerPcs /\ "idle" \in HandlerPcs
      /\ "enqueueContent" \in HandlerPcs
      /\ Idle \in Jobs /\ Idle.kind = "none"
      /\ 0 \in OptId
  BY BoundAssumption DEF HandlerPcs, DrivePcs, Jobs, Idle, OptId
<1>3. CASE EnqueueBase(c)
  <2>1. PcTypes' /\ JobTypes'
    BY <1>1, <1>2, <1>3, MoveTypes DEF EnqueueBase
  <2>2. [item |-> Base[job[c].item], prereq |-> 0] \in Specs
    BY <1>2, <1>3, BaseAssumption DEF EnqueueBase, Specs, Items, TypeOK
  <2>3. /\ UNCHANGED <<active, completed>>
        /\ pending' \in Seq(EntryIds)
        /\ Grown
    BY <1>3, <2>2, EnqueueEffect DEF EnqueueBase
  <2>4. QueueTypes' /\ EntryTypes'
    BY <2>3 DEF QueueTypes, EntryTypes, Grown, TypeOK
  <2> QED
    BY <1>3, <2>1, <2>4, TypesKept, TypePartsNext
    DEF TaskTypes, EnqueueBase, diskVars, historyVars
<1>4. CASE EnqueueContent(c)
  <2> DEFINE j == [job[c] EXCEPT !.kind = "content"]
  <2>1. job[c] \in Jobs /\ job[c].item \in Setups
    BY <1>4 DEF EnqueueContent, TypeOK
  <2>2. j \in Jobs /\ j.item \in Setups
    BY <2>1 DEF Jobs
  <2>3. job' = [job EXCEPT ![c] = j] /\ GoTo(c, "reserve")
    BY <1>4 DEF EnqueueContent
  <2>4. PcTypes' /\ JobTypes'
    BY <1>1, <1>2, <2>2, <2>3, MoveTypes, JobMoves
  <2>5. [item |-> job[c].item, prereq |-> job[c].prereq] \in Specs
    BY <2>1 DEF Specs, Items, Jobs
  <2>6. /\ UNCHANGED <<active, completed>>
        /\ pending' \in Seq(EntryIds)
        /\ Grown
    BY <1>4, <2>5, EnqueueEffect DEF EnqueueContent
  <2>7. QueueTypes' /\ EntryTypes'
    BY <2>6 DEF QueueTypes, EntryTypes, Grown, TypeOK
  <2> QED
    BY <1>4, <2>4, <2>7, TypesKept, TypePartsNext
    DEF TaskTypes, EnqueueContent, diskVars, historyVars
<1>5. CASE RemoveInstance(c) \/ RollbackInstance(c)
  <2>3. CASE LockOnly /\ ComparesInstance(c, job[c].item)
    BY <1>1, <2>3, LockTypes
  <2>4. CASE RemoveEnds(c) \/ RollbackInstance(c)
    <3>1. PcTypes' /\ JobTypes'
      BY <1>1, <1>2, <2>4, MoveTypes, JobMoves DEF RemoveEnds, RollbackInstance
    <3>2. DiskTypes'
      <4>1. CASE RemoveEnds(c)
        BY <1>1, <4>1, CleanupTypes DEF RemoveEnds
      <4>2. CASE RollbackInstance(c)
        BY <4>2 DEF RollbackInstance, DiskTypes, TypeOK
      <4> QED
        BY <2>4, <4>1, <4>2
    <3> QED
      BY <2>4, <3>1, <3>2, TypesKept, TypePartsNext
      DEF TaskTypes, RemoveEnds, RollbackInstance, queueVars, historyVars
  <2> QED
    BY <1>5, <2>3, <2>4, TwoSteps
<1>6. CASE Respond(c)
  <2>1. CASE job[c].kind = "base"
    <3> DEFINE base == QueuedBase(Base[job[c].item])
    <3>1. base \in OptId
      <4> DEFINE found == {q \in ToSet(pending) \cup {active.qid} :
                             q # 0 /\ entries[q].item = Base[job[c].item]}
      <4>1. ToSet(pending) \cup {active.qid} \subseteq OptId
        BY Basics, BoundAssumption DEF ToSet, OptId, EntryIds, TypeOK
      <4>2. found \subseteq OptId
        BY <4>1
      <4>3. base = IF found = {} THEN 0 ELSE IF active.qid \in found THEN active.qid
                   ELSE CHOOSE q \in found : TRUE
        BY DEF QueuedBase
      <4> HIDE DEF found
      <4> QED
        BY <1>2, <4>2, <4>3
    <3> HIDE DEF base
    <3> DEFINE j == [job[c] EXCEPT !.prereq = base]
    <3>2. j \in Jobs /\ j.item \in Setups
      BY <2>1, <3>1 DEF Jobs, TypeOK
    <3>3. SpawnMonitor(c, "enqueueContent", [job EXCEPT ![c] = j])
      BY <1>6, <2>1 DEF Respond, base
    <3>4. PcTypes' /\ held' \in [Tasks -> OptId] /\ install' \in [Tasks -> OptId]
      BY <1>1, <1>2, <3>3, SpawnTypes
    <3>5. JobTypes'
      <4>1. \A d \in Callers \ {c} : pc'[d] = pc[d]
        BY <1>1, <3>3, HeldIsEntry, PcIsFunction DEF SpawnMonitor, Tasks
      <4>2. job' = [job EXCEPT ![c] = j]
        BY <3>3 DEF SpawnMonitor
      <4> HIDE DEF j
      <4> QED
        BY <3>2, <4>1, <4>2 DEF JobTypes, TypeOK
    <3> QED
      BY <3>3, <3>4, <3>5, TypesKept, TypePartsNext
      DEF TaskTypes, SpawnMonitor, queueVars, diskVars, historyVars
  <2>2. CASE job[c].kind # "base"
    <3>1. SpawnMonitor(c, "idle", [job EXCEPT ![c] = Idle])
      BY <1>6, <2>2 DEF Respond
    <3>2. PcTypes' /\ held' \in [Tasks -> OptId] /\ install' \in [Tasks -> OptId]
      BY <1>1, <1>2, <3>1, SpawnTypes
    <3>3. JobTypes'
      <4>1. /\ pc'[c] = "idle"
            /\ \A d \in Callers \ {c} : pc'[d] = pc[d]
        BY <1>1, <3>1, HeldIsEntry, PcIsFunction DEF SpawnMonitor, Tasks
      <4>2. job' = [job EXCEPT ![c] = Idle]
        BY <3>1 DEF SpawnMonitor
      <4> QED
        BY <1>2, <4>1, <4>2 DEF JobTypes, TypeOK
    <3> QED
      BY <3>1, <3>2, <3>3, TypesKept, TypePartsNext
      DEF TaskTypes, SpawnMonitor, queueVars, diskVars, historyVars
  <2> QED
    BY <2>1, <2>2
<1>7. CASE Disconnect(c)
  <2>1. PcTypes' /\ JobTypes'
    BY <1>1, <1>2, <1>7, MoveTypes, JobMoves DEF Disconnect
  <2>2. held' \in [Tasks -> OptId] /\ install' \in [Tasks -> OptId]
    BY <1>1, <1>2, <1>7 DEF Disconnect, TypeOK
  <2>3. HistoryTypes'
    BY <1>7 DEF Disconnect, HistoryTypes, TypeOK
  <2> QED
    BY <1>7, <2>1, <2>2, <2>3, TypesKept, TypePartsNext
    DEF TaskTypes, Disconnect, queueVars, diskVars
<1> QED
  BY <1>1, <1>3, <1>4, <1>5, <1>6, <1>7, DriveTypes DEF Handle

LEMMA MonitorTypes ==
  ASSUME TypeOK, LaneInv, NEW m \in EntryIds, Monitor(m)
  PROVE  TypeOK'
<1>1. m \in Tasks /\ m \notin Callers
  BY Basics DEF Tasks
<1>2. /\ WatchPcs \subseteq MonitorPcs
      /\ "reserve" \in MonitorPcs /\ "over" \in MonitorPcs
      /\ \A l \in WatchPcs : l \notin {"enqueueBase", "enqueueContent"}
  BY DEF MonitorPcs, WatchPcs, DrivePcs
<1>3. CASE Subscribe(m) \/ ReceiveTerminal(m)
  <2>1. PICK l \in WatchPcs : GoTo(m, l)
    <3>1. WatchPcs = {"subscribe", "receive", "recordSuccess", "recordFailure"}
      BY DEF WatchPcs
    <3>2. CASE ReceiveTerminal(m)
      BY <3>1, <3>2 DEF ReceiveTerminal, Outcome
    <3>3. CASE Subscribe(m)
      BY <3>1, <3>3 DEF Subscribe, Outcome
    <3> QED
      BY <1>3, <3>2, <3>3
  <2>2. PcTypes' /\ JobTypes'
    BY <1>1, <1>2, <1>3, <2>1, MoveTypes DEF Subscribe, ReceiveTerminal
  <2> QED
    BY <1>3, <2>2, TypesKept, TypePartsNext
    DEF TaskTypes, Subscribe, ReceiveTerminal, queueVars, diskVars, historyVars
<1>4. CASE RecordOutcome(m)
  <2>1. PcTypes' /\ JobTypes'
    BY <1>1, <1>2, <1>4, MoveTypes DEF RecordOutcome
  <2>2. QueueTypes'
    <3>1. active.qid \in EntryIds
      <4>1. Responsible(m, m)
        BY <1>4 DEF RecordOutcome, Responsible, WatchPcs
      <4> QED
        BY <1>1, <4>1 DEF LaneInv, OneMover
    <3> QED
      BY <1>4, <3>1, ReleaseTypes DEF RecordOutcome
  <2>3. held' \in [Tasks -> OptId] /\ install' \in [Tasks -> OptId]
    <3>1. held' = held /\ install' = [install EXCEPT ![m] = 0]
      BY <1>4 DEF RecordOutcome
    <3>2. 0 \in OptId
      BY BoundAssumption DEF OptId
    <3>3. held \in [Tasks -> OptId] /\ install \in [Tasks -> OptId]
      BY DEF TypeOK
    <3> QED
      BY <3>1, <3>2, <3>3
  <2> QED
    BY <1>4, <2>1, <2>2, <2>3, TypesKept, TypePartsNext
    DEF TaskTypes, RecordOutcome, diskVars, historyVars
<1>5. CASE SpawnNextMonitor(m)
  <2>1. SpawnMonitor(m, "over", job)
    BY <1>5 DEF SpawnNextMonitor
  <2>2. PcTypes' /\ held' \in [Tasks -> OptId] /\ install' \in [Tasks -> OptId]
    BY <1>1, <1>2, <2>1, SpawnTypes
  <2>3. JobTypes'
    <3>1. held[m] # 0 => held[m] \in EntryIds
      BY <1>1 DEF TypeOK, OptId, EntryIds
    <3>2. \A d \in Callers : pc'[d] = pc[d]
      BY <1>1, <2>1, <3>1, Basics DEF SpawnMonitor, TypeOK, Tasks
    <3> QED
      BY <2>1, <3>2 DEF SpawnMonitor, JobTypes, TypeOK
  <2> QED
    BY <2>1, <2>2, <2>3, TypesKept, TypePartsNext
    DEF TaskTypes, SpawnMonitor, queueVars, diskVars, historyVars
<1> QED
  BY <1>1, <1>3, <1>4, <1>5, DriveTypes DEF Monitor
LEMMA WorkTypes ==
  ASSUME TypeOK, LaneInv, NEW s \in EntryIds,
         Work(s) \/ WorkerPanics(s) \/ ForwardLateProgress(s)
  PROVE  TypeOK'
<1>1. s \in DOMAIN entries => entries[s].item \in Items
  BY Basics DEF Specs
<1>2. ASSUME NEW record \in {"progress", "ok", "error"}, NEW terminal \in BOOLEAN,
             terminal => record # "progress", s \in DOMAIN installs,
             Publish(s, record, terminal)
      PROVE  /\ DOMAIN installs' \subseteq EntryIds
             /\ \A r \in DOMAIN installs' : installs'[r] \in Sessions
             /\ verdict' \in [EntryIds -> {"none", "ok", "error"}]
  <2>1. /\ installs' = [installs EXCEPT ![s].latest = record, ![s].done = terminal,
                                        ![s].finishing = FALSE]
        /\ verdict' = [verdict EXCEPT ![s] = IF terminal THEN record ELSE @]
    BY <1>2 DEF Publish
  <2>2. /\ installs'[s] = [installs[s] EXCEPT !.latest = record, !.done = terminal,
                                               !.finishing = FALSE]
        /\ DOMAIN installs' = DOMAIN installs
        /\ \A r \in DOMAIN installs : r # s => installs'[r] = installs[r]
    BY <1>2, <2>1
  <2>3. installs'[s] \in Sessions
    BY <1>2, <2>2 DEF TypeOK, Sessions
  <2>4. verdict' \in [EntryIds -> {"none", "ok", "error"}]
    BY <1>2, <2>1 DEF TypeOK
  <2> QED
    BY <2>2, <2>3, <2>4 DEF TypeOK
<1> DEFINE Published ==
      /\ DOMAIN installs' \subseteq EntryIds
      /\ \A r \in DOMAIN installs' : installs'[r] \in Sessions
      /\ verdict' \in [EntryIds -> {"none", "ok", "error"}]
<1>3. UNCHANGED <<installs, verdict>> => Published
  BY DEF TypeOK
<1>4. ASSUME NEW record \in {"progress", "ok", "error"}, NEW terminal \in BOOLEAN,
             terminal => record # "progress", EmitRecord(s, record, terminal)
      PROVE  Published
  BY <1>2, <1>3, <1>4 DEF EmitRecord
<1> HIDE DEF Published
<1>5. ASSUME NEW w \in WorkerStates
      PROVE  WorkerTo(s, w) => worker' \in [EntryIds -> WorkerStates]
  BY DEF WorkerTo, TypeOK
<1>6. WorkerUnchanged => /\ QueueTypes' /\ EntryTypes' /\ HistoryTypes'
                         /\ TaskTypes'
  BY TypesKept DEF WorkerUnchanged, TaskTypes, queueVars, taskVars, historyVars
<1>7. CASE BeginMutation(s) \/ WorkerFails(s) \/ WorkerPanics(s)
  <2>1. PICK w \in {"mutating", "cleaning", "failed", "returned"} : WorkerTo(s, w)
    BY <1>7 DEF BeginMutation, WorkerFails, WorkerPanics
  <2>2. /\ WorkerUnchanged /\ UNCHANGED <<installs, diskVars, verdict>>
        /\ late' \in {late, late \cup {s}}
    BY <1>7 DEF BeginMutation, WorkerFails, WorkerPanics
  <2>3. SessionTypes'
    BY <1>5, <2>1, <2>2 DEF SessionTypes, TypeOK, WorkerStates
  <2> QED
    BY <1>6, <2>2, <2>3, TypesKept, TypePartsNext DEF diskVars
<1>8. CASE WorkerSucceeds(s)
  <2>1. SessionTypes'
    BY <1>5, <1>8 DEF WorkerSucceeds, SessionTypes, TypeOK, WorkerStates
  <2>2. DiskTypes'
    BY <1>8 DEF WorkerSucceeds, DiskTypes, TypeOK
  <2> QED
    BY <1>6, <1>8, <2>1, <2>2, TypePartsNext DEF WorkerSucceeds
<1>9. CASE CleanUpAfterFailure(s) \/ HandleInterruption(s)
  <2>1. s \in Tasks
    BY DEF Tasks
  <2>2. CASE LockOnly /\ ComparesInstance(s, entries[s].item)
    BY <2>1, <2>2, LockTypes
  <2>3. CASE CleanUpEnds(s) \/ HandleEnds(s)
    <3>1. PICK w \in {"failed", "handled"} : WorkerTo(s, w)
      BY <2>3 DEF CleanUpEnds, HandleEnds
    <3>2. /\ WorkerUnchanged /\ UNCHANGED <<installs, late, ready, verdict>>
          /\ CleanupEnds(s, entries[s].item)
      BY <2>3 DEF CleanUpEnds, HandleEnds
    <3>3. SessionTypes'
      BY <1>5, <3>1, <3>2 DEF SessionTypes, TypeOK, WorkerStates
    <3>4. DiskTypes'
      BY <2>1, <3>2, CleanupTypes
    <3> QED
      BY <1>6, <3>2, <3>3, <3>4, TypePartsNext
  <2> QED
    BY <1>9, <2>2, <2>3, TwoSteps
<1>10. CASE PublishTerminal(s)
  <2>1. PICK record \in {"ok", "error"} : EmitRecord(s, record, TRUE)
    BY <1>10 DEF PublishTerminal
  <2>2. Published
    BY <1>4, <2>1
  <2>3. worker' \in [EntryIds -> WorkerStates] /\ late' = late
    BY <1>5, <1>10 DEF PublishTerminal, WorkerStates
  <2>4. SessionTypes'
    BY <2>2, <2>3 DEF SessionTypes, TypeOK, Published
  <2> QED
    BY <1>6, <1>10, <2>4, TypesKept, TypePartsNext DEF PublishTerminal, diskVars
<1>11. CASE ForwardLateProgress(s)
  <2>1. Published
    BY <1>4, <1>11 DEF ForwardLateProgress
  <2>2. SessionTypes'
    BY <1>11, <2>1 DEF ForwardLateProgress, SessionTypes, TypeOK, Published
  <2> QED
    BY <1>6, <1>11, <2>2, TypesKept, TypePartsNext DEF ForwardLateProgress, diskVars
<1>12. CASE SuperviseReturn(s)
  <2>1. Published
    <3>1. CASE EmitRecord(s, "error", TRUE)
      BY <1>4, <3>1
    <3>2. CASE /\ s \in DOMAIN installs
               /\ installs' = [installs EXCEPT ![s].finishing = TRUE]
               /\ verdict' = verdict
      <4>1. /\ installs'[s] = [installs[s] EXCEPT !.finishing = TRUE]
            /\ DOMAIN installs' = DOMAIN installs
            /\ \A r \in DOMAIN installs : r # s => installs'[r] = installs[r]
        BY <3>2
      <4>2. installs'[s] \in Sessions
        <5>1. installs[s] \in Sessions
          BY <3>2 DEF TypeOK
        <5> QED
          BY <4>1, <5>1 DEF Sessions
      <4> QED
        BY <3>2, <4>1, <4>2 DEF Published, TypeOK
    <3> QED
      BY <1>3, <1>12, <3>1, <3>2 DEF SuperviseReturn
  <2>2. PICK w \in {"gone", "claimed"} : WorkerTo(s, w)
    BY <1>12 DEF SuperviseReturn
  <2>3. WorkerUnchanged /\ UNCHANGED <<late, diskVars>>
    BY <1>12 DEF SuperviseReturn
  <2>4. SessionTypes'
    BY <1>5, <2>1, <2>2, <2>3 DEF SessionTypes, TypeOK, Published, WorkerStates
  <2> QED
    BY <1>6, <2>3, <2>4, TypesKept, TypePartsNext DEF diskVars
<1>13. CASE FinishClaimed(s)
  <2>1. Published
    BY <1>2, <1>3, <1>13 DEF FinishClaimed, Published
  <2>2. SessionTypes'
    BY <1>5, <1>13, <2>1 DEF FinishClaimed, SessionTypes, TypeOK, Published, WorkerStates
  <2> QED
    BY <1>6, <1>13, <2>2, TypesKept, TypePartsNext DEF FinishClaimed, diskVars
<1> QED
  BY <1>7, <1>8, <1>9, <1>10, <1>11, <1>12, <1>13 DEF Work

LEMMA TypesPreserved ==
  ASSUME TypeOK, LaneInv, [Next]_vars
  PROVE  TypeOK'
<1>1. ASSUME NEW s \in Setups, UserTouches(s)
      PROVE  TypeOK'
  <2>1. DiskTypes'
    BY <1>1 DEF UserTouches, DiskTypes, TypeOK
  <2> QED
    BY <1>1, <2>1, TypesKept, TypePartsNext
    DEF UserTouches, TaskTypes, queueVars, taskVars, historyVars
<1>2. CASE PruneByPerformanceOperation
  <2>1. SessionTypes'
    BY <1>2 DEF PruneByPerformanceOperation, SessionTypes, TypeOK, Live
  <2>2. HistoryTypes'
    BY <1>2 DEF PruneByPerformanceOperation, HistoryTypes, TypeOK
  <2> QED
    BY <1>2, <2>1, <2>2, TypesKept, TypePartsNext
    DEF PruneByPerformanceOperation, TaskTypes, queueVars, taskVars, diskVars
<1>3. CASE UNCHANGED vars
  BY <1>3, TypesKept, TypePartsNext
  DEF vars, TaskTypes, queueVars, taskVars, diskVars, historyVars
<1> QED
  BY <1>1, <1>2, <1>3, RequestTypes, HandlerTypes, MonitorTypes, WorkTypes DEF Next
-----------------------------------------------------------------------------
(* The invariant: steps of the tasks *)

LEMMA SameSpecs ==
  ASSUME TypeOK, UNCHANGED entries
  PROVE  Grown
BY DEF TypeOK, Grown

\* A step that leaves the queue alone and only parks a task.
LEMMA TaskParks ==
  ASSUME TypeOK, LaneInv, NEW t \in Tasks, NEW l \in Resting, GoTo(t, l),
         pc[t] # "unborn",
         UNCHANGED <<active, pending, completed, entries, installs, worker, verdict>>,
         (UNCHANGED held /\ held[t] = 0) \/ held' = [held EXCEPT ![t] = 0],
         UNCHANGED install \/ install' = [install EXCEPT ![t] = 0]
  PROVE  LaneInv'
<1>1. Grown
  BY SameSpecs
<1>2. PendingFresh' /\ SuccessReal'
  BY DEF LaneInv, PendingFresh, SuccessReal
<1>3. \A u \in Tasks : /\ pc'[u] = IF u = t THEN l ELSE pc[u]
                       /\ held'[u] = IF u = t THEN 0 ELSE held[u]
                       /\ u # t => install'[u] = install[u]
  BY DEF GoTo, TypeOK
<1> QED
  BY <1>1, <1>2, <1>3, TaskRests

LEMMA RequestSafe ==
  ASSUME TypeOK, LaneInv, NEW c \in Callers, Request(c)
  PROVE  LaneInv'
<1>1. c \in Tasks
  BY DEF Tasks
<1>2. /\ pc[c] = "idle"
      /\ UNCHANGED <<installs, worker, verdict, held, install>>
  BY DEF Request, StatusRequest, EnqueueRequest, SetupRequest, RemoveRequest
<1>3. held[c] = 0
  BY <1>1, <1>2 DEF LaneInv, Holds, HoldPcs
<1>4. pc \in [Tasks -> HandlerPcs \cup MonitorPcs]
  BY DEF TypeOK
<1>5. CASE StatusRequest(c)
  BY <1>1, <1>3, <1>5, TaskParks DEF StatusRequest, Resting, queueVars
<1>6. ASSUME NEW item \in Versions \cup Contents, NEW retry \in BOOLEAN,
             EnqueueRequest(c, item, retry)
      PROVE  LaneInv'
  <2>1. [item |-> item, prereq |-> 0] \in Specs
    BY BoundAssumption DEF Specs, Items, OptId
  <2>2. /\ UNCHANGED <<active, completed>>
        /\ PendingFresh'
        /\ Grown
    BY <1>6, <2>1, EnqueueEffect DEF EnqueueRequest
  <2>3. SuccessReal'
    BY <1>2, <2>2 DEF LaneInv, SuccessReal
  <2>4. GoTo(c, "reserve") /\ "reserve" \in Resting
    BY <1>6 DEF EnqueueRequest, Resting
  <2>5. \A u \in Tasks : /\ pc'[u] = IF u = c THEN "reserve" ELSE pc[u]
                         /\ held'[u] = IF u = c THEN 0 ELSE held[u]
                         /\ u # c => install'[u] = install[u]
    BY <1>1, <1>2, <1>3, <1>4, <2>4 DEF GoTo
  <2> QED
    BY <1>1, <1>2, <2>2, <2>3, <2>4, <2>5, TaskRests
<1>7. ASSUME NEW s \in Setups, SetupRequest(c, s)
      PROVE  LaneInv'
  <2>1. PICK l \in {"enqueueContent", "enqueueBase"} : GoTo(c, l)
    BY <1>7 DEF SetupRequest
  <2> QED
    BY <1>1, <1>3, <1>7, <2>1, TaskParks DEF SetupRequest, Resting, queueVars
<1>8. ASSUME NEW q \in EntryIds, RemoveRequest(c, q)
      PROVE  LaneInv'
  <2>1. PICK i \in DOMAIN pending :
          SetQueue(active, RemoveAt(pending, i), completed, completedOrder)
    BY <1>8 DEF RemoveRequest
  <2>2. /\ active' = active
        /\ PendingFresh'
        /\ DOMAIN completed' \subseteq DOMAIN completed
        /\ \A p \in DOMAIN completed' : completed'[p] = completed[p]
    BY <1>8, <2>1, RemovalEffect DEF RemoveRequest
  <2>3. Grown
    BY <1>8, SameSpecs DEF RemoveRequest
  <2>4. SuccessReal'
    BY <1>2, <2>2 DEF LaneInv, SuccessReal
  <2>5. GoTo(c, "removeInstance") \/ UNCHANGED pc
    BY <1>8 DEF RemoveRequest
  <2>6. "removeInstance" \in Resting /\ "idle" \in Resting
    BY DEF Resting
  <2>7. PICK l \in {"removeInstance", "idle"} :
          \A u \in Tasks : /\ pc'[u] = IF u = c THEN l ELSE pc[u]
                           /\ held'[u] = IF u = c THEN 0 ELSE held[u]
                           /\ u # c => install'[u] = install[u]
    BY <1>1, <1>2, <1>3, <1>4, <2>5 DEF GoTo
  <2> QED
    BY <1>1, <1>2, <2>2, <2>3, <2>4, <2>6, <2>7, TaskRests
<1> QED
  BY <1>5, <1>6, <1>7, <1>8 DEF Request

LEMMA SpawnSafe ==
  ASSUME TypeOK, LaneInv, NEW t \in Tasks, NEW next \in Resting, NEW nextJob,
         SpawnMonitor(t, next, nextJob), pc[t] \in {"respond", "spawn"}
  PROVE  LaneInv'
<1> DEFINE q == held[t]
<1>1. UNCHANGED <<active, pending, completed, entries, installs, worker, verdict>>
  BY DEF SpawnMonitor, queueVars
<1>2. CASE q = 0
  BY <1>1, <1>2, TaskParks DEF SpawnMonitor, GoTo
<1>3. CASE q # 0
  <2>1. /\ q \in EntryIds
        /\ q \in Tasks
        /\ Responsible(t, q)
    BY <1>3 DEF TypeOK, OptId, EntryIds, Tasks, Responsible
  <2>2. /\ install[t] = q
        /\ active.install = q
        /\ active.qid = q
        /\ worker[q] # "none"
    BY <1>3, <2>1, Basics DEF LaneInv, Steps, StepsOf, MarkedIsWorked
  <2>3. pc[q] = "unborn"
    BY <2>1 DEF LaneInv, MonitorBorn
  <2>4. held[q] = 0
    BY <2>1, <2>3 DEF LaneInv, Holds, HoldPcs
  <2>5. \A u \in Tasks :
          /\ pc'[u] = IF u = q THEN "subscribe" ELSE IF u = t THEN next ELSE pc[u]
          /\ install'[u] = IF u = q THEN q ELSE IF u = t THEN 0 ELSE install[u]
          /\ held'[u] = IF u = t THEN 0 ELSE held[u]
    BY <1>3, <2>1, <2>2, <2>3 DEF SpawnMonitor, TypeOK
  <2> HIDE DEF q
  <2>6. Grown
    BY <1>1, SameSpecs
  <2>7. /\ next \notin HoldPcs \cup WatchPcs
        /\ "subscribe" \in WatchPcs /\ "subscribe" \notin HoldPcs
    BY DEF Resting, HoldPcs, WatchPcs
  <2>8. \A u \in Tasks, r \in EntryIds : Responsible(u, r) => u = t /\ r = q
    BY <2>1, Basics
  <2>9. \A u \in Tasks, r \in EntryIds : Responsible(u, r)' => u = q /\ r = q
    BY <2>1, <2>4, <2>5, <2>7, <2>8, Basics DEF Responsible
  <2>10. OneMover'
    BY <1>1, <2>2, <2>9 DEF OneMover
  <2>11. Holds'
    BY <1>1, <2>4, <2>5, <2>7 DEF LaneInv, Holds
  <2>12. MonitorBorn'
    BY <1>1, <2>1, <2>2, <2>4, <2>5, <2>8, Basics DEF LaneInv, MonitorBorn, Responsible, Tasks
  <2>13. ASSUME NEW u \in Tasks
         PROVE  StepsOf(u)'
    <3>1. CASE u = q
      BY <1>1, <2>2, <2>5, <3>1 DEF StepsOf
    <3>2. CASE u = t /\ u # q
      BY <2>5, <2>7, <3>2 DEF StepsOf, HoldPcs, Resting
    <3>3. CASE u # t /\ u # q
      <4>1. pc'[u] = pc[u] /\ held'[u] = held[u] /\ install'[u] = install[u]
        BY <2>5, <3>3
      <4>2. /\ StepsOf(u)
            /\ pc[u] \in HoldPcs => held[u] \in DOMAIN entries
        BY DEF LaneInv, Steps, Holds
      <4> QED
        BY <1>1, <4>1, <4>2 DEF StepsOf, PrerequisiteDone
    <3> QED
      BY <3>1, <3>2, <3>3
  <2>14. /\ PendingFresh' /\ ActiveKnown' /\ LaneExclusive'
         /\ MarkedIsWorked' /\ SuccessReal'
    BY <1>1 DEF LaneInv, PendingFresh, ActiveKnown, LaneExclusive, MarkedIsWorked, SuccessReal
  <2> QED
    BY <1>1, <2>6, <2>10, <2>11, <2>12, <2>13, <2>14, TaskFrame DEF LaneInv, Steps
<1> QED
  BY <1>2, <1>3
\* The head of the queue gets the free lane.
LEMMA ReserveSafe ==
  ASSUME TypeOK, LaneInv, NEW t \in Tasks, Reserve(t)
  PROVE  LaneInv'
<1>1. UNCHANGED <<completed, entries, installs, worker, verdict, install>>
  BY DEF Reserve, diskVars, historyVars
<1>2. pc[t] = "reserve" /\ held[t] = 0
  BY DEF Reserve, LaneInv, Holds, HoldPcs
<1>3. CASE active.qid # 0 \/ pending = <<>>
  <2>1. PICK l \in {"respond", "over"} : GoTo(t, l)
    BY <1>3 DEF Reserve
  <2> QED
    BY <1>1, <1>2, <1>3, <2>1, TaskParks DEF Reserve, Resting
<1>4. CASE active.qid = 0 /\ pending # <<>>
  <2> DEFINE q == Head(pending)
  <2>1. /\ active' = [qid |-> q, install |-> 0]
        /\ pending' = Tail(pending)
        /\ held' = [held EXCEPT ![t] = q]
        /\ GoTo(t, "check")
    BY <1>4 DEF Reserve
  <2>2. /\ pending \in Seq(EntryIds)
        /\ Len(pending) \in Nat
        /\ Len(pending) >= 1
        /\ DOMAIN pending = 1 .. Len(pending)
        /\ q = pending[1]
        /\ Tail(pending) \in Seq(EntryIds)
        /\ Len(Tail(pending)) = Len(pending) - 1
        /\ \A k \in 1 .. Len(pending) - 1 : Tail(pending)[k] = pending[k + 1]
    BY <1>4, HeadTailProperties, LenProperties, EmptySeq DEF TypeOK
  <2>3. /\ q \in DOMAIN entries
        /\ q \in EntryIds
        /\ worker[q] = "none"
        /\ \A k \in 2 .. Len(pending) : pending[k] # q
    BY <2>2, Basics DEF LaneInv, PendingFresh
  <2> HIDE DEF q
  <2>4. \A u \in Tasks : /\ pc'[u] = IF u = t THEN "check" ELSE pc[u]
                         /\ held'[u] = IF u = t THEN q ELSE held[u]
    BY <2>1 DEF GoTo, TypeOK
  <2>5. \A u \in Tasks, r \in EntryIds : ~Responsible(u, r)
    BY <1>4, Basics DEF LaneInv, OneMover
  <2>6. \A u \in Tasks, r \in EntryIds : Responsible(u, r)' => u = t /\ r = q
    BY <2>4, <2>5 DEF Responsible, WatchPcs
  <2>7. OneMover'
    BY <2>1, <2>6 DEF OneMover
  <2>8. Holds'
    BY <1>1, <2>3, <2>4 DEF LaneInv, Holds, HoldPcs
  <2>9. MonitorBorn'
    BY <1>1, <1>2, <2>3, <2>4 DEF LaneInv, MonitorBorn, Tasks
  <2>10. ASSUME NEW u \in Tasks
         PROVE  StepsOf(u)'
    <3>1. CASE u = t
      BY <1>1, <2>3, <2>4, <3>1 DEF StepsOf, WatchPcs
    <3>2. CASE u # t
      <4>1. pc'[u] = pc[u] /\ held'[u] = held[u]
        BY <2>4, <3>2
      <4>2. /\ StepsOf(u)
            /\ pc[u] \in HoldPcs => held[u] \in DOMAIN entries
        BY DEF LaneInv, Steps, Holds
      <4>3. /\ pc[u] \notin WatchPcs
            /\ held[u] # 0 => pc[u] = "discard"
        BY <2>5, Basics DEF Responsible, Tasks, TypeOK, OptId, EntryIds
      <4> QED
        BY <1>1, <4>1, <4>2, <4>3 DEF StepsOf, PrerequisiteDone, WatchPcs
    <3> QED
      BY <3>1, <3>2
  <2>11. PendingFresh'
    <3>1. DOMAIN pending' = 1 .. Len(pending) - 1
      BY <2>1, <2>2, LenProperties
    <3>2. \A k \in DOMAIN pending' : k + 1 \in 2 .. Len(pending) /\ pending'[k] = pending[k + 1]
      BY <2>1, <2>2, <3>1
    <3>3. \A k \in 2 .. Len(pending) :
             /\ pending[k] \in DOMAIN entries
             /\ worker[pending[k]] = "none"
             /\ \A j \in 2 .. Len(pending) : pending[k] = pending[j] => k = j
      BY <2>2 DEF LaneInv, PendingFresh
    <3> QED
      BY <1>1, <2>1, <2>3, <3>1, <3>2, <3>3 DEF PendingFresh
  <2>12. ActiveKnown' /\ MarkedIsWorked' /\ SuccessReal'
    BY <1>1, <2>1, <2>3 DEF LaneInv, ActiveKnown, MarkedIsWorked, SuccessReal
  <2>13. LaneExclusive'
    BY <1>1, <1>4, Basics DEF LaneInv, LaneExclusive, Live, TypeOK
  <2>14. Grown
    BY <1>1, SameSpecs
  <2> QED
    BY <1>1, <2>7, <2>8, <2>9, <2>10, <2>11, <2>12, <2>13, <2>14, TaskFrame
    DEF LaneInv, Steps
<1> QED
  BY <1>3, <1>4

\* No session is live when an entry is started, so none is joined: the entry gets
\* a session and a worker of its own.
LEMMA StartSafe ==
  ASSUME TypeOK, LaneInv, NEW t \in Tasks, StartInstall(t)
  PROVE  LaneInv'
<1> DEFINE q == held[t]
<1>1. /\ pc[t] = "start"
      /\ GoTo(t, "mark")
      /\ UNCHANGED <<active, pending, completed, entries, held, verdict>>
  BY DEF StartInstall, queueVars
<1>2. /\ q \in DOMAIN entries
      /\ worker[q] = "none"
      /\ PrerequisiteDone(q)
  BY <1>1 DEF LaneInv, Holds, HoldPcs, Steps, StepsOf
<1>3. q \in EntryIds /\ q # 0 /\ Responsible(t, q)
  BY <1>1, <1>2, Basics DEF Responsible
<1>4. active.qid = q
  BY <1>3 DEF LaneInv, OneMover
<1>5. Live(installs) = {}
  BY <1>2, <1>4 DEF LaneInv, LaneExclusive, SessionLife, Live
<1>6. /\ \E key \in Versions \cup {"none"} : InsertSession(q, key)
      /\ install' = [install EXCEPT ![t] = q]
      /\ worker' = [worker EXCEPT ![q] = "running"]
  BY <1>5 DEF StartInstall
<1> HIDE DEF q
<1>7. /\ DOMAIN installs' = {q}
      /\ ~installs'[q].done
  BY <1>5, <1>6 DEF InsertSession
<1>8. Live(installs') = {q}
  BY <1>7 DEF Live
<1>9. \A u \in Tasks : /\ pc'[u] = IF u = t THEN "mark" ELSE pc[u]
                       /\ install'[u] = IF u = t THEN q ELSE install[u]
                       /\ held'[u] = held[u]
  BY <1>1, <1>6 DEF GoTo, TypeOK
<1>10. \A s \in EntryIds : worker'[s] = IF s = q THEN "running" ELSE worker[s]
  BY <1>6 DEF TypeOK
<1>11. SessionLife'
  <2>1. verdict[q] = "none"
    BY <1>2, <1>3 DEF LaneInv, SessionLife
  <2>2. \A s \in EntryIds : worker[s] # "none" => verdict[s] # "none"
    BY <1>5 DEF LaneInv, SessionLife
  <2> QED
    BY <1>1, <1>2, <1>3, <1>7, <1>8, <1>10, <2>1, <2>2 DEF LaneInv, SessionLife
<1>12. DependentAfterBase'
  BY <1>1, <1>2, <1>10, Basics DEF LaneInv, DependentAfterBase, PrerequisiteDone
<1>13. PendingFresh'
  BY <1>1, <1>4, <1>10, Basics DEF LaneInv, PendingFresh
<1>14. ActiveKnown' /\ SuccessReal'
  BY <1>1 DEF LaneInv, ActiveKnown, SuccessReal
<1>15. MarkedIsWorked'
  <2>1. active.install # 0 => active.install \in EntryIds
    BY DEF TypeOK, OptId, EntryIds
  <2> QED
    BY <1>1, <1>10, <2>1 DEF LaneInv, MarkedIsWorked
<1>16. LaneExclusive'
  BY <1>1, <1>4, <1>8 DEF LaneExclusive
<1>17. \A u \in Tasks, r \in EntryIds : Responsible(u, r) => u = t /\ r = q
  BY <1>3, Basics
<1>18. OneMover'
  <2>1. \A u \in Tasks, r \in EntryIds : Responsible(u, r)' => Responsible(u, r)
    BY <1>1, <1>9 DEF Responsible, WatchPcs
  <2> QED
    BY <1>1, <2>1 DEF LaneInv, OneMover
<1>19. Holds'
  BY <1>1, <1>2, <1>9 DEF LaneInv, Holds, HoldPcs, q
<1>20. MonitorBorn'
  BY <1>1, <1>9, <1>10 DEF LaneInv, MonitorBorn, Tasks
<1>21. ASSUME NEW u \in Tasks
       PROVE  StepsOf(u)'
  <2>1. CASE u = t
    BY <1>3, <1>9, <1>10, <2>1 DEF StepsOf, WatchPcs, q
  <2>2. CASE u # t
    <3>1. /\ StepsOf(u)
          /\ pc[u] \in HoldPcs => held[u] \in DOMAIN entries
      BY DEF LaneInv, Steps, Holds
    <3>2. /\ pc[u] \notin WatchPcs
          /\ held[u] # 0 => pc[u] = "discard"
      <4>1. held[u] # 0 => held[u] \in EntryIds
        BY DEF TypeOK, OptId, EntryIds
      <4> QED
        BY <1>17, <2>2, <4>1, Basics DEF Responsible, Tasks
    <3>3. 0 \notin DOMAIN entries
      BY Basics
    <3> QED
      BY <1>9, <2>2, <3>1, <3>2, <3>3 DEF StepsOf, HoldPcs, WatchPcs
  <2> QED
    BY <2>1, <2>2
<1> QED
  BY <1>11, <1>12, <1>13, <1>14, <1>15, <1>16, <1>18, <1>19, <1>20, <1>21
  DEF LaneInv, Steps

LEMMA DriveSafe ==
  ASSUME TypeOK, LaneInv, NEW t \in Tasks, Drive(t)
  PROVE  LaneInv'
<1>1. CASE Reserve(t)
  BY <1>1, ReserveSafe
<1>2. ASSUME pc[t] \in {"check", "failDependent", "start", "startFailed", "mark"}
      PROVE  /\ held[t] \in DOMAIN entries
             /\ held[t] \in EntryIds
             /\ held[t] # 0
             /\ Responsible(t, held[t])
             /\ active.qid = held[t]
             /\ StepsOf(t)
  <2>1. /\ held[t] \in DOMAIN entries
        /\ StepsOf(t)
    BY <1>2 DEF LaneInv, Holds, HoldPcs, Steps
  <2>2. /\ held[t] \in EntryIds
        /\ held[t] # 0
        /\ Responsible(t, held[t])
    BY <1>2, <2>1, Basics DEF Responsible
  <2> QED
    BY <2>1, <2>2 DEF LaneInv, OneMover
<1>3. CASE CheckPrerequisite(t)
  <2>1. pc[t] = "check"
    BY <1>3 DEF CheckPrerequisite
  <2>2. PICK l \in {"start", "failDependent"} :
          GoTo(t, l) /\ (l = "start" => PrerequisiteMet(held[t]))
    BY <1>3 DEF CheckPrerequisite
  <2>3. UNCHANGED <<active, pending, completed, entries, installs, worker, verdict,
                    held, install>>
    BY <1>3 DEF CheckPrerequisite, queueVars
  <2>4. \A u \in Tasks : pc'[u] = IF u = t THEN l ELSE pc[u]
    BY <2>2 DEF GoTo, TypeOK
  <2>5. l = "start" => PrerequisiteDone(held[t])
    BY <2>2 DEF PrerequisiteMet, PrerequisiteDone, LaneInv, SuccessReal
  <2>6. StepsOf(t)'
    BY <1>2, <2>1, <2>3, <2>4, <2>5 DEF StepsOf, PrerequisiteDone, WatchPcs
  <2> QED
    BY <2>1, <2>3, <2>4, <2>6, TaskAdvances DEF HoldPcs
<1>4. CASE StartFails(t)
  <2>1. pc[t] = "start" /\ GoTo(t, "startFailed")
    BY <1>4 DEF StartFails
  <2>2. UNCHANGED <<active, pending, completed, entries, installs, worker, verdict,
                    held, install>>
    BY <1>4 DEF StartFails, queueVars
  <2>3. \A u \in Tasks : pc'[u] = IF u = t THEN "startFailed" ELSE pc[u]
    BY <2>1 DEF GoTo, TypeOK
  <2>4. StepsOf(t)'
    BY <1>2, <2>1, <2>2, <2>3 DEF StepsOf, WatchPcs
  <2> QED
    BY <2>1, <2>2, <2>3, <2>4, TaskAdvances DEF HoldPcs
<1>5. CASE FailDependent(t) \/ RecordStartFailure(t)
  <2> DEFINE q == held[t]
  <2>1. PICK l \in Resting \cup {"discard"} :
          /\ GoTo(t, l)
          /\ IF l = "discard" THEN UNCHANGED held ELSE held' = [held EXCEPT ![t] = 0]
          /\ pc[t] \in {"failDependent", "startFailed"}
    BY <1>5 DEF FailDependent, RecordStartFailure, AfterError, Resting
  <2>2. UNCHANGED <<entries, installs, worker, verdict, install>>
    BY <1>5 DEF FailDependent, RecordStartFailure, diskVars, historyVars
  <2>3. ReleaseWithOutcome(q, FALSE)
    BY <1>2, <1>5, <2>1 DEF FailDependent, RecordStartFailure
  <2>4. /\ active' = NoActive
        /\ pending' = pending
        /\ DOMAIN completed' \subseteq EntryIds
        /\ \A p \in DOMAIN completed' : completed'[p] => p \in DOMAIN completed /\ completed[p]
    BY <1>2, <2>1, <2>3, ReleaseEffect
  <2>5. SuccessReal'
    BY <2>2, <2>4 DEF LaneInv, SuccessReal
  <2>6. q \notin Live(installs)
    BY <1>2, <2>1 DEF StepsOf, LaneInv, SessionLife, Live
  <2>7. \A u \in Tasks : /\ pc'[u] = IF u = t THEN l ELSE pc[u]
                         /\ u # t => held'[u] = held[u] /\ install'[u] = install[u]
    BY <2>1, <2>2 DEF GoTo, TypeOK
  <2>8. IF l = "discard" THEN held'[t] = q ELSE held'[t] = 0
    BY <2>1 DEF TypeOK
  <2> HIDE DEF q
  <2>9. q \in EntryIds /\ q \in DOMAIN entries /\ Responsible(t, q)
    BY <1>2, <2>1 DEF q
  <2> QED
    BY <2>2, <2>4, <2>5, <2>6, <2>7, <2>8, <2>9, TaskReleases
<1>6. CASE DiscardInstance(t)
  BY <1>6, LockSafe, TaskParks, TwoSteps DEF DiscardEnds, Resting, queueVars
<1>7. CASE MarkStarted(t)
  <2> DEFINE q == held[t]
             l == IF t \in Callers THEN "respond" ELSE "spawn"
  <2>1. /\ pc[t] = "mark"
        /\ GoTo(t, l)
        /\ active' = [active EXCEPT !.install = install[t]]
        /\ UNCHANGED <<pending, completed, entries, installs, worker, verdict, held,
                       install>>
    BY <1>2, <1>7 DEF MarkStarted
  <2>2. /\ q \in DOMAIN entries /\ q \in EntryIds /\ q # 0
        /\ Responsible(t, q)
        /\ active.qid = q
        /\ install[t] = q
        /\ worker[q] # "none"
    BY <1>2, <2>1 DEF StepsOf
  <2>3. /\ l \in {"respond", "spawn"}
        /\ l \notin WatchPcs
    BY DEF WatchPcs
  <2> HIDE DEF l, q
  <2>4. active'.qid = q /\ active'.install = q
    BY <2>1, <2>2 DEF TypeOK
  <2>5. \A u \in Tasks : pc'[u] = IF u = t THEN l ELSE pc[u]
    BY <2>1 DEF GoTo, TypeOK
  <2>6. \A u \in Tasks, r \in EntryIds : Responsible(u, r) => u = t /\ r = q
    BY <2>2, Basics
  <2>7. \A u \in Tasks, r \in EntryIds : Responsible(u, r)' => u = t /\ r = q
    BY <2>1, <2>2, <2>3, <2>5, <2>6 DEF Responsible, q
  <2>8. OneMover'
    BY <2>4, <2>7 DEF OneMover
  <2>9. Holds'
    BY <2>1, <2>2, <2>3, <2>5 DEF LaneInv, Holds, HoldPcs, q
  <2>10. MonitorBorn'
    BY <2>1, <2>3, <2>5 DEF LaneInv, MonitorBorn, Tasks
  <2>11. ASSUME NEW u \in Tasks
         PROVE  StepsOf(u)'
    <3>1. CASE u = t
      BY <2>1, <2>2, <2>3, <2>4, <2>5, <3>1 DEF StepsOf, q
    <3>2. CASE u # t
      <4>1. /\ StepsOf(u)
            /\ pc[u] \in HoldPcs => held[u] \in DOMAIN entries
        BY DEF LaneInv, Steps, Holds
      <4>2. /\ pc[u] \notin WatchPcs
            /\ held[u] # 0 => pc[u] = "discard"
        <5>1. held[u] # 0 => held[u] \in EntryIds
          BY DEF TypeOK, OptId, EntryIds
        <5> QED
          BY <2>6, <3>2, <5>1, Basics DEF Responsible, Tasks
      <4> QED
        BY <2>1, <2>5, <3>2, <4>1, <4>2 DEF StepsOf, PrerequisiteDone
    <3> QED
      BY <3>1, <3>2
  <2>12. /\ PendingFresh' /\ ActiveKnown' /\ LaneExclusive'
         /\ MarkedIsWorked' /\ SuccessReal'
    BY <2>1, <2>2, <2>4
    DEF LaneInv, PendingFresh, ActiveKnown, LaneExclusive, MarkedIsWorked, SuccessReal
  <2>13. Grown
    BY <2>1, SameSpecs
  <2> QED
    BY <2>1, <2>8, <2>9, <2>10, <2>11, <2>12, <2>13, TaskFrame DEF LaneInv, Steps
<1>8. CASE StartInstall(t)
  BY <1>8, StartSafe
<1> QED
  BY <1>1, <1>3, <1>4, <1>5, <1>6, <1>7, <1>8 DEF Drive
LEMMA HandlerSafe ==
  ASSUME TypeOK, LaneInv, NEW c \in Callers, Handle(c) \/ Disconnect(c)
  PROVE  LaneInv'
<1>1. c \in Tasks /\ pc \in [Tasks -> HandlerPcs \cup MonitorPcs]
  BY DEF Tasks, TypeOK
<1>2. ASSUME NEW spec \in Specs, Enqueue(spec, FALSE),
             UNCHANGED <<installs, worker, verdict, held, install>>,
             GoTo(c, "reserve"), pc[c] \in {"enqueueBase", "enqueueContent"}
      PROVE  LaneInv'
  <2>1. /\ UNCHANGED <<active, completed>>
        /\ PendingFresh'
        /\ Grown
    BY <1>2, EnqueueEffect
  <2>2. SuccessReal'
    BY <1>2, <2>1 DEF LaneInv, SuccessReal
  <2>3. held[c] = 0
    BY <1>1, <1>2 DEF LaneInv, Holds, HoldPcs
  <2>4. \A u \in Tasks : /\ pc'[u] = IF u = c THEN "reserve" ELSE pc[u]
                         /\ held'[u] = IF u = c THEN 0 ELSE held[u]
                         /\ u # c => install'[u] = install[u]
    BY <1>1, <1>2, <2>3 DEF GoTo
  <2>5. "reserve" \in Resting
    BY DEF Resting
  <2> QED
    BY <1>1, <1>2, <2>1, <2>2, <2>4, <2>5, TaskRests
<1>3. CASE EnqueueBase(c)
  <2>1. [item |-> Base[job[c].item], prereq |-> 0] \in Specs
    BY <1>3, BaseAssumption, BoundAssumption DEF EnqueueBase, Specs, Items, TypeOK, OptId
  <2> QED
    BY <1>2, <1>3, <2>1 DEF EnqueueBase
<1>4. CASE EnqueueContent(c)
  <2>1. [item |-> job[c].item, prereq |-> job[c].prereq] \in Specs
    BY <1>4 DEF EnqueueContent, Specs, Items, TypeOK, Jobs
  <2> QED
    BY <1>2, <1>4, <2>1 DEF EnqueueContent
<1>5. CASE RemoveInstance(c) \/ RollbackInstance(c)
  <2>1. CASE LockOnly
    BY <2>1, LockSafe
  <2>2. CASE RemoveEnds(c) \/ RollbackInstance(c)
    <3>1. /\ pc[c] \in {"removeInstance", "rollback"}
          /\ GoTo(c, "idle")
          /\ UNCHANGED <<active, pending, completed, entries, installs, worker, verdict,
                         held, install>>
      BY <2>2 DEF RemoveEnds, RollbackInstance, queueVars
    <3>2. held[c] = 0
      BY <1>1, <3>1 DEF LaneInv, Holds, HoldPcs
    <3> QED
      BY <1>1, <3>1, <3>2, TaskParks DEF Resting
  <2> QED
    BY <1>5, <2>1, <2>2, TwoSteps
<1>6. CASE Respond(c)
  <2>1. PICK next \in {"enqueueContent", "idle"} : SpawnMonitor(c, next, job')
    BY <1>6 DEF Respond, SpawnMonitor
  <2> QED
    BY <1>1, <1>6, <2>1, SpawnSafe DEF Respond, Resting
<1>7. CASE Disconnect(c)
  <2>1. /\ GoTo(c, "idle")
        /\ held' = [held EXCEPT ![c] = 0]
        /\ install' = [install EXCEPT ![c] = 0]
        /\ UNCHANGED <<active, pending, completed, entries, installs, worker, verdict>>
    BY <1>7 DEF Disconnect, queueVars
  <2>2. pc[c] # "unborn"
    BY DEF TypeOK, HandlerPcs, DrivePcs
  <2> QED
    BY <1>1, <2>1, <2>2, TaskParks DEF Resting
<1> QED
  BY <1>1, <1>3, <1>4, <1>5, <1>6, <1>7, DriveSafe DEF Handle

LEMMA MonitorSafe ==
  ASSUME TypeOK, LaneInv, NEW m \in EntryIds, Monitor(m)
  PROVE  LaneInv'
<1>1. m \in Tasks /\ pc \in [Tasks -> HandlerPcs \cup MonitorPcs]
  BY DEF Tasks, TypeOK
<1>2. ASSUME pc[m] \in WatchPcs
      PROVE  /\ StepsOf(m)
             /\ Responsible(m, m)
             /\ active.qid = m /\ install[m] = m /\ active.install = m
             /\ worker[m] # "none"
  <2>1. StepsOf(m) /\ Responsible(m, m)
    BY <1>1, <1>2 DEF LaneInv, Steps, Responsible
  <2>2. active.qid = m /\ install[m] = m /\ active.install = m
    BY <1>1, <1>2, <2>1 DEF LaneInv, OneMover, StepsOf
  <2> QED
    BY <2>1, <2>2, Basics DEF LaneInv, MarkedIsWorked
<1>3. CASE Subscribe(m) \/ ReceiveTerminal(m)
  <2>1. /\ pc[m] \in WatchPcs
        /\ UNCHANGED <<active, pending, completed, entries, installs, worker, verdict,
                       held, install>>
    BY <1>3 DEF Subscribe, ReceiveTerminal, WatchPcs, queueVars
  <2>2. m \notin Live(installs) => m \notin DOMAIN installs \/ installs[m].done
    BY DEF Live
  <2>3. PICK l \in {"receive", "recordSuccess", "recordFailure"} :
          /\ GoTo(m, l)
          /\ l # "receive" => m \notin Live(installs)
          /\ l = "recordSuccess" => verdict[m] = "ok"
    <3>1. install[m] = m
      BY <1>2, <2>1
    <3>2. CASE Subscribe(m)
      BY <3>1, <3>2 DEF Subscribe, Outcome, LaneInv, SessionLife, Live
    <3>3. CASE ReceiveTerminal(m)
      BY <3>1, <3>3 DEF ReceiveTerminal, Outcome, LaneInv, SessionLife, Live
    <3> QED
      BY <1>3, <3>2, <3>3
  <2>4. \A u \in Tasks : pc'[u] = IF u = m THEN l ELSE pc[u]
    BY <1>1, <2>3 DEF GoTo
  <2>5. StepsOf(m)'
    BY <1>1, <1>2, <2>1, <2>3, <2>4 DEF StepsOf
  <2>6. l \in WatchPcs
    BY DEF WatchPcs
  <2> QED
    BY <1>1, <2>1, <2>4, <2>5, <2>6, TaskAdvances
<1>4. CASE RecordOutcome(m)
  <2>1. /\ pc[m] \in {"recordSuccess", "recordFailure"}
        /\ GoTo(m, "reserve")
        /\ install' = [install EXCEPT ![m] = 0]
        /\ UNCHANGED <<entries, installs, worker, verdict, held>>
    BY <1>4 DEF RecordOutcome
  <2>2. pc[m] \in WatchPcs
    BY <2>1 DEF WatchPcs
  <2>3. PICK ok \in BOOLEAN :
          /\ ReleaseWithOutcome(m, ok)
          /\ ok => verdict[m] = "ok"
    <3>1. pc[m] = "recordSuccess" => verdict[m] = "ok"
      BY <1>2, <2>2 DEF StepsOf
    <3>2. ReleaseWithOutcome(m, pc[m] = "recordSuccess")
      BY <1>2, <1>4, <2>2 DEF RecordOutcome
    <3> QED
      BY <3>1, <3>2
  <2>4. /\ active' = NoActive
        /\ pending' = pending
        /\ \A p \in DOMAIN completed' :
             completed'[p] => (p = m /\ ok) \/ (p \in DOMAIN completed /\ completed[p])
    BY <2>3, ReleaseEffect
  <2>5. SuccessReal'
    BY <2>1, <2>3, <2>4 DEF LaneInv, SuccessReal
  <2>6. m \notin Live(installs) /\ held[m] = 0
    BY <1>1, <1>2, <2>1, <2>2 DEF StepsOf, LaneInv, Holds, HoldPcs
  <2>7. \A u \in Tasks : /\ pc'[u] = IF u = m THEN "reserve" ELSE pc[u]
                         /\ u # m => held'[u] = held[u] /\ install'[u] = install[u]
    BY <1>1, <2>1 DEF GoTo
  <2>8. "reserve" \in Resting /\ Responsible(m, m)
    BY <1>2, <2>2 DEF Resting
  <2> QED
    BY <1>1, <2>1, <2>4, <2>5, <2>6, <2>7, <2>8, TaskReleases
<1>5. CASE SpawnNextMonitor(m)
  BY <1>1, <1>5, SpawnSafe DEF SpawnNextMonitor, Resting
<1> QED
  BY <1>1, <1>3, <1>4, <1>5, DriveSafe DEF Monitor
-----------------------------------------------------------------------------
(* The invariant: steps of the workers and of the environment *)

LEMMA PublishSafe ==
  ASSUME TypeOK, LaneInv, NEW s \in Live(installs),
         NEW record \in {"progress", "ok", "error"}, NEW terminal \in BOOLEAN,
         terminal => record # "progress", Publish(s, record, terminal),
         \A r \in EntryIds : (worker'[r] = "none") <=> (worker[r] = "none"),
         UNCHANGED entries
  PROVE  /\ SessionLife'
         /\ \A r \in EntryIds : verdict[r] # "none" => verdict'[r] = verdict[r]
         /\ \A r \in DOMAIN installs' :
              r \in DOMAIN installs /\ (~installs'[r].done => ~installs[r].done)
<1>1. /\ s \in DOMAIN installs
      /\ s \in EntryIds
      /\ ~installs[s].done
      /\ verdict[s] = "none"
  BY DEF Live, TypeOK, LaneInv, SessionLife
<1>2. /\ DOMAIN installs' = DOMAIN installs
      /\ \A r \in DOMAIN installs : r # s => installs'[r] = installs[r]
      /\ installs'[s].latest = record /\ installs'[s].done = terminal
  <2>1. installs' = [installs EXCEPT ![s].latest = record, ![s].done = terminal,
                                     ![s].finishing = FALSE]
    BY DEF Publish
  <2>2. installs'[s] = [installs[s] EXCEPT !.latest = record, !.done = terminal,
                                           !.finishing = FALSE]
    BY <1>1, <2>1
  <2>3. installs[s] \in Sessions
    BY <1>1 DEF TypeOK
  <2> QED
    BY <1>1, <2>1, <2>2, <2>3 DEF Sessions
<1>3. \A r \in EntryIds : verdict'[r] = IF r = s /\ terminal THEN record ELSE verdict[r]
  BY DEF Publish, TypeOK
<1>4. \A r \in EntryIds : verdict[r] # "none" => verdict'[r] = verdict[r]
  BY <1>1, <1>3
<1>5. \A r \in DOMAIN installs' :
        r \in DOMAIN installs /\ (~installs'[r].done => ~installs[r].done)
  BY <1>1, <1>2
<1>6. SessionLife'
  <2>1. \A r \in DOMAIN installs' :
          /\ worker'[r] # "none"
          /\ installs'[r].done => verdict'[r] = installs'[r].latest /\ verdict'[r] # "none"
          /\ ~installs'[r].done => verdict'[r] = "none"
    BY <1>1, <1>2, <1>3 DEF LaneInv, SessionLife, TypeOK
  <2>2. \A r \in EntryIds :
          /\ worker'[r] # "none" => r \in DOMAIN entries
          /\ worker'[r] = "none" => verdict'[r] = "none"
    BY <1>1, <1>3 DEF LaneInv, SessionLife
  <2>3. \A r \in EntryIds :
          worker'[r] # "none" /\ verdict'[r] = "none" => r \in Live(installs')
    BY <1>1, <1>2, <1>3 DEF LaneInv, SessionLife, Live
  <2> QED
    BY <2>1, <2>2, <2>3 DEF SessionLife
<1> QED
  BY <1>4, <1>5, <1>6

LEMMA WorkSafe ==
  ASSUME TypeOK, LaneInv, NEW s \in EntryIds,
         Work(s) \/ WorkerPanics(s) \/ ForwardLateProgress(s)
  PROVE  LaneInv'
<1> DEFINE Quiet == \A r \in EntryIds : (worker'[r] = "none") <=> (worker[r] = "none")
           Sound == /\ SessionLife'
                    /\ \A r \in EntryIds : verdict[r] # "none" => verdict'[r] = verdict[r]
                    /\ \A r \in DOMAIN installs' :
                         r \in DOMAIN installs /\ (~installs'[r].done => ~installs[r].done)
<1>1. WorkerUnchanged
  BY DEF Work, BeginMutation, WorkerSucceeds, WorkerFails, CleanUpAfterFailure,
         PublishTerminal, SuperviseReturn, HandleInterruption, FinishClaimed,
         WorkerPanics, ForwardLateProgress
<1>2. UNCHANGED <<active, pending, completed, entries, pc, held, install>>
  BY <1>1 DEF WorkerUnchanged, queueVars, taskVars
<1>3. Quiet
  <2>1. CASE ForwardLateProgress(s)
    BY <2>1 DEF ForwardLateProgress
  <2>2. CASE Work(s) \/ WorkerPanics(s)
    <3>1. /\ worker[s] # "none"
          /\ worker' = worker \/ \E w \in WorkerStates \ {"none"} : WorkerTo(s, w)
      BY <2>2 DEF Work, BeginMutation, WorkerSucceeds, WorkerFails, CleanUpAfterFailure,
             PublishTerminal, SuperviseReturn, HandleInterruption, FinishClaimed,
             WorkerPanics, Is, WorkerStates
    <3> QED
      BY <3>1 DEF WorkerTo, TypeOK
  <2> QED
    BY <2>1, <2>2
<1> HIDE DEF Quiet
<1>4. ASSUME UNCHANGED <<installs, verdict>>
      PROVE  Sound
  BY <1>2, <1>3, <1>4 DEF LaneInv, SessionLife, TypeOK, Quiet
<1>5. ASSUME NEW record \in {"progress", "ok", "error"}, NEW terminal \in BOOLEAN,
             terminal => record # "progress",
             s \in Live(installs), Publish(s, record, terminal)
      PROVE  Sound
  BY <1>2, <1>3, <1>5, PublishSafe DEF Quiet
<1>6. ASSUME s \in DOMAIN installs, verdict' = verdict,
             installs' = [installs EXCEPT ![s].finishing = TRUE]
      PROVE  Sound
  <2>1. /\ DOMAIN installs' = DOMAIN installs
        /\ \A r \in DOMAIN installs : r # s => installs'[r] = installs[r]
        /\ installs'[s] = [installs[s] EXCEPT !.finishing = TRUE]
        /\ installs[s] \in Sessions
    BY <1>6 DEF TypeOK
  <2>2. installs'[s].latest = installs[s].latest /\ installs'[s].done = installs[s].done
    BY <1>6, <2>1 DEF Sessions
  <2>3. \A r \in DOMAIN installs : /\ installs'[r].latest = installs[r].latest
                                   /\ installs'[r].done = installs[r].done
    BY <2>1, <2>2
  <2>4. Live(installs') = Live(installs)
    BY <2>1, <2>3 DEF Live
  <2>5. SessionLife'
    BY <1>2, <1>3, <1>6, <2>1, <2>3, <2>4 DEF LaneInv, SessionLife, TypeOK, Quiet
  <2> QED
    BY <1>6, <2>1, <2>3, <2>5
<1> HIDE DEF Sound
<1>7. ASSUME NEW record \in {"progress", "ok", "error"}, NEW terminal \in BOOLEAN,
             terminal => record # "progress", EmitRecord(s, record, terminal)
      PROVE  Sound
  <2>1. CASE UNCHANGED <<installs, verdict>>
    BY <1>4, <2>1
  <2>2. CASE s \in Live(installs) /\ Publish(s, record, terminal)
    BY <1>5, <1>7, <2>2
  <2> QED
    BY <1>7, <2>1, <2>2 DEF EmitRecord, Live
<1>8. Sound
  <2>1. CASE \/ BeginMutation(s) \/ WorkerSucceeds(s) \/ WorkerFails(s)
             \/ CleanUpAfterFailure(s) \/ HandleInterruption(s) \/ WorkerPanics(s)
    BY <1>4, <2>1 DEF BeginMutation, WorkerSucceeds, WorkerFails, CleanUpAfterFailure,
                      HandleInterruption, WorkerPanics
  <2>2. CASE PublishTerminal(s)
    BY <1>7, <2>2 DEF PublishTerminal
  <2>3. CASE ForwardLateProgress(s)
    BY <1>7, <2>3 DEF ForwardLateProgress
  <2>4. CASE SuperviseReturn(s)
    <3>1. CASE EmitRecord(s, "error", TRUE)
      BY <1>7, <3>1
    <3>2. CASE UNCHANGED <<installs, verdict>>
      BY <1>4, <3>2
    <3>3. CASE /\ s \in DOMAIN installs
               /\ verdict' = verdict
               /\ installs' = [installs EXCEPT ![s].finishing = TRUE]
      BY <1>6, <3>3
    <3> QED
      BY <2>4, <3>1, <3>2, <3>3 DEF SuperviseReturn
  <2>5. CASE FinishClaimed(s)
    <3>1. CASE UNCHANGED <<installs, verdict>>
      BY <1>4, <3>1
    <3>2. CASE s \in Live(installs) /\ Publish(s, "error", TRUE)
      BY <1>5, <3>2
    <3> QED
      BY <2>5, <3>1, <3>2 DEF FinishClaimed, Live
  <2> QED
    BY <2>1, <2>2, <2>3, <2>4, <2>5 DEF Work
<1> QED
  BY <1>2, <1>3, <1>8, WorkFrame DEF Quiet, Sound

LEMMA LaneInvPreserved ==
  ASSUME TypeOK, LaneInv, [Next]_vars
  PROVE  LaneInv'
<1>1. CASE \/ UNCHANGED vars
           \/ \E s \in Setups : UserTouches(s)
  <2>1. /\ UNCHANGED <<active, pending, completed, entries, pc, held, install>>
        /\ UNCHANGED <<worker, verdict, installs>>
    BY <1>1 DEF vars, UserTouches, queueVars, taskVars
  <2>2. SessionLife'
    BY <2>1 DEF LaneInv, SessionLife
  <2> QED
    BY <2>1, <2>2, WorkFrame
<1>2. CASE PruneByPerformanceOperation
  <2>1. /\ UNCHANGED <<active, pending, completed, entries, pc, held, install>>
        /\ UNCHANGED <<worker, verdict>>
        /\ installs' = [s \in Live(installs) |-> installs[s]]
    BY <1>2 DEF PruneByPerformanceOperation, queueVars, taskVars
  <2>2. DOMAIN installs' = Live(installs) /\ Live(installs') = Live(installs)
    BY <2>1 DEF Live
  <2>3. \A s \in DOMAIN installs' : s \in DOMAIN installs /\ installs'[s] = installs[s]
    BY <2>1 DEF Live
  <2>4. SessionLife'
    BY <2>1, <2>2, <2>3 DEF LaneInv, SessionLife
  <2> QED
    BY <2>1, <2>3, <2>4, WorkFrame
<1> QED
  BY <1>1, <1>2, RequestSafe, HandlerSafe, MonitorSafe, WorkSafe DEF Next

-----------------------------------------------------------------------------
(* The theorems *)

LEMMA InitSafe ==
  ASSUME Init
  PROVE  TypeOK /\ LaneInv
<1>1. 0 \in OptId
  BY BoundAssumption DEF OptId
<1>2. /\ "idle" \in HandlerPcs /\ "unborn" \in MonitorPcs
      /\ "unborn" \notin HandlerPcs
      /\ "unborn" \notin HoldPcs \cup WatchPcs /\ "idle" \notin HoldPcs \cup WatchPcs
  BY DEF HandlerPcs, MonitorPcs, DrivePcs, HoldPcs, WatchPcs
<1>3. \A c \in Callers : c \notin EntryIds
  <2>1. EntryIds \subseteq Int
    BY BoundAssumption DEF EntryIds
  <2> QED
    BY <2>1, CallerAssumption
<1>4. Idle \in Jobs /\ Idle.kind # "base"
  BY <1>1 DEF Idle, Jobs
<1>5. TypeOK
  <2>1. /\ pending \in Seq(EntryIds) /\ entries \in Seq(Specs) /\ Len(entries) <= MaxEntries
    BY BoundAssumption DEF Init
  <2>2. /\ active \in [qid : OptId, install : OptId]
        /\ held \in [Tasks -> OptId] /\ install \in [Tasks -> OptId]
    BY <1>1 DEF Init, NoActive
  <2>3. /\ pc \in [Tasks -> HandlerPcs \cup MonitorPcs]
        /\ \A c \in Callers : pc[c] = "idle" /\ pc[c] \in HandlerPcs
        /\ \A m \in EntryIds : pc[m] \in MonitorPcs
    BY <1>2, <1>3 DEF Init, Tasks
  <2>4. /\ job \in [Callers -> Jobs]
        /\ \A c \in Callers : job[c].kind # "base"
    BY <1>4 DEF Init
  <2> QED
    BY <2>1, <2>2, <2>3, <2>4 DEF Init, TypeOK, WorkerStates
<1>6. /\ PendingFresh /\ ActiveKnown /\ SessionLife /\ LaneExclusive
      /\ MarkedIsWorked /\ SuccessReal /\ DependentAfterBase
  BY <1>1 DEF Init, PendingFresh, ActiveKnown, SessionLife, LaneExclusive, Live,
              MarkedIsWorked, SuccessReal, DependentAfterBase, NoActive
<1>7. \A t \in Tasks : /\ pc[t] \in {"idle", "unborn"}
                       /\ held[t] = 0 /\ install[t] = 0
  BY DEF Init
<1>8. \A q \in EntryIds : pc[q] = "unborn" /\ q # 0
  BY <1>3, BoundAssumption DEF Init, Tasks, EntryIds
<1>9. Holds /\ OneMover /\ MonitorBorn /\ Steps
  BY <1>2, <1>7, <1>8
  DEF Holds, OneMover, MonitorBorn, Steps, StepsOf, Responsible, HoldPcs, WatchPcs
<1> QED
  BY <1>5, <1>6, <1>9 DEF LaneInv

\* The inductive invariant of the lane.
THEOREM Invariance == Spec => [](TypeOK /\ LaneInv)
<1>1. TypeOK /\ LaneInv /\ [Next]_vars => (TypeOK /\ LaneInv)'
  BY TypesPreserved, LaneInvPreserved
<1> QED
  BY InitSafe, <1>1, PTL DEF Spec

\* Every variable keeps its type.
THEOREM TypeCorrect == Spec => []TypeOK
BY Invariance, PTL

\* One install or content operation runs at a time: InstallStore never has two
\* sessions in progress for queue entries.
THEOREM OneAtATime == Spec => []LaneExclusive
<1>1. LaneInv => LaneExclusive
  BY DEF LaneInv
<1> QED
  BY Invariance, <1>1, PTL

\* Content queued behind a base install starts only after that install published
\* its success.
THEOREM BaseFirst == Spec => []DependentAfterBase
<1>1. LaneInv => DependentAfterBase
  BY DEF LaneInv
<1> QED
  BY Invariance, <1>1, PTL
\* Who may change the active entry, and when.
LEMMA ActiveChanges ==
  ASSUME TypeOK, LaneInv, [Next]_vars, active' # active
  PROVE  \E t \in Tasks :
           \/ Reserve(t)
           \/ MarkStarted(t)
           \/ FailDependent(t)
           \/ RecordStartFailure(t)
           \/ t \in EntryIds /\ RecordOutcome(t)
<1>1. ASSUME NEW c \in Callers, Request(c) PROVE FALSE
  <2>1. ASSUME NEW item \in Versions \cup Contents, NEW retry \in BOOLEAN,
               EnqueueRequest(c, item, retry)
        PROVE  FALSE
    <3>1. [item |-> item, prereq |-> 0] \in Specs
      BY BoundAssumption DEF Specs, Items, OptId
    <3> QED
      BY <2>1, <3>1, EnqueueEffect DEF EnqueueRequest
  <2>2. ASSUME NEW q \in EntryIds, RemoveRequest(c, q)
        PROVE  FALSE
    BY <2>2, RemovalEffect DEF RemoveRequest
  <2> QED
    BY <1>1, <2>1, <2>2 DEF Request, StatusRequest, SetupRequest, queueVars
<1>2. ASSUME NEW c \in Callers, Handle(c) \/ Disconnect(c), ~Drive(c) PROVE FALSE
  <2>1. CASE EnqueueBase(c)
    <3>1. [item |-> Base[job[c].item], prereq |-> 0] \in Specs
      BY <2>1, BaseAssumption, BoundAssumption DEF EnqueueBase, Specs, Items, TypeOK, OptId
    <3> QED
      BY <2>1, <3>1, EnqueueEffect DEF EnqueueBase
  <2>2. CASE EnqueueContent(c)
    <3>1. [item |-> job[c].item, prereq |-> job[c].prereq] \in Specs
      BY <2>2 DEF EnqueueContent, Specs, Items, TypeOK, Jobs
    <3> QED
      BY <2>2, <3>1, EnqueueEffect DEF EnqueueContent
  <2> QED
    BY <1>2, <2>1, <2>2
    DEF Handle, RemoveInstance, RollbackInstance, Respond, SpawnMonitor, Disconnect, queueVars
<1>3. ASSUME NEW m \in EntryIds, Monitor(m), ~Drive(m), ~RecordOutcome(m) PROVE FALSE
  BY <1>3 DEF Monitor, Subscribe, ReceiveTerminal, SpawnNextMonitor, SpawnMonitor, queueVars
<1>4. ASSUME NEW s \in EntryIds, Work(s) \/ WorkerPanics(s) \/ ForwardLateProgress(s)
      PROVE  FALSE
  BY <1>4 DEF Work, BeginMutation, WorkerSucceeds, WorkerFails, CleanUpAfterFailure,
         PublishTerminal, SuperviseReturn, HandleInterruption, FinishClaimed,
         WorkerPanics, ForwardLateProgress, WorkerUnchanged, queueVars
<1>5. ASSUME \/ \E s \in Setups : UserTouches(s)
             \/ PruneByPerformanceOperation
             \/ UNCHANGED vars
      PROVE  FALSE
  BY <1>5 DEF UserTouches, PruneByPerformanceOperation, vars, queueVars
<1>6. \E t \in Tasks : Drive(t) \/ (t \in EntryIds /\ RecordOutcome(t))
  BY <1>1, <1>2, <1>3, <1>4, <1>5 DEF Next, Tasks
<1>7. ASSUME NEW t \in Tasks, Drive(t)
      PROVE  Reserve(t) \/ MarkStarted(t) \/ FailDependent(t) \/ RecordStartFailure(t)
  BY <1>7 DEF Drive, CheckPrerequisite, DiscardInstance, StartInstall, StartFails, queueVars
<1>8. PICK t \in Tasks : Drive(t) \/ (t \in EntryIds /\ RecordOutcome(t))
  BY <1>6
<1>9. Drive(t) => Reserve(t) \/ MarkStarted(t) \/ FailDependent(t) \/ RecordStartFailure(t)
  BY <1>7
<1> QED
  BY <1>8, <1>9

LEMMA ReleaseSafe ==
  ASSUME TypeOK, LaneInv, [Next]_vars, active' # active, active.install # 0
  PROVE  verdict[active.install] # "none"
<1>1. /\ active.install = active.qid
      /\ active.qid \in EntryIds
      /\ worker[active.qid] # "none"
  BY Basics DEF LaneInv, ActiveKnown, MarkedIsWorked
<1>2. PICK t \in Tasks :
        \/ Reserve(t)
        \/ MarkStarted(t)
        \/ FailDependent(t)
        \/ RecordStartFailure(t)
        \/ t \in EntryIds /\ RecordOutcome(t)
  BY ActiveChanges
<1>3. ASSUME pc[t] \in {"failDependent", "startFailed", "mark"}
      PROVE  active.qid = held[t] /\ StepsOf(t)
  <2>1. Responsible(t, held[t]) /\ held[t] \in EntryIds /\ StepsOf(t)
    BY <1>3, Basics DEF LaneInv, Holds, HoldPcs, Responsible, Steps
  <2> QED
    BY <2>1 DEF LaneInv, OneMover
<1>4. CASE Reserve(t)
  BY <1>1, <1>4, Basics DEF Reserve
<1>5. CASE FailDependent(t) \/ RecordStartFailure(t)
  <2>1. pc[t] \in {"failDependent", "startFailed"}
    BY <1>5 DEF FailDependent, RecordStartFailure
  <2> QED
    BY <1>1, <1>3, <2>1 DEF StepsOf
<1>6. CASE MarkStarted(t)
  <2>1. install[t] = active.install
    BY <1>1, <1>3, <1>6 DEF MarkStarted, StepsOf
  <2>2. active' = active
    BY <1>6, <2>1 DEF MarkStarted, TypeOK
  <2> QED
    BY <2>2
<1>7. CASE t \in EntryIds /\ RecordOutcome(t)
  <2>1. pc[t] \in {"recordSuccess", "recordFailure"} /\ pc[t] \in WatchPcs
    BY <1>7 DEF RecordOutcome, WatchPcs
  <2>2. active.install = t /\ t \notin Live(installs)
    BY <2>1 DEF LaneInv, Steps, StepsOf
  <2> QED
    BY <1>1, <1>7, <2>2 DEF LaneInv, SessionLife
<1> QED
  BY <1>2, <1>4, <1>5, <1>6, <1>7

\* The lane passes to the next entry only after the session of the entry before
\* published its terminal progress.
THEOREM ReleasedWhenTerminal == Spec => ReleaseAfterTerminal
<1>1. TypeOK /\ LaneInv /\ [Next]_vars =>
        [active' # active /\ active.install # 0 => verdict[active.install] # "none"]_vars
  <2>1. UNCHANGED vars => active' = active
    BY DEF vars, queueVars
  <2> QED
    BY <2>1, ReleaseSafe
<1> QED
  BY Invariance, <1>1, PTL DEF Spec, ReleaseAfterTerminal

-----------------------------------------------------------------------------
(* Eviction: the outcome table changes only by SetQueue, which spares what the *)
(* entries of the queue it leaves behind refer to.                             *)

ReferencedKept ==
  \A q \in DOMAIN completed \cap Referenced(active', pending') : q \in DOMAIN completed'

LEMMA ExpiredSpares ==
  ASSUME NEW act, NEW pend, NEW order
  PROVE  Expired(order, act, pend) \cap Referenced(act, pend) = {}
BY DEF Expired

LEMMA SetQueueSpares ==
  ASSUME NEW act, NEW pend, NEW table, NEW order, SetQueue(act, pend, table, order),
         DOMAIN completed \subseteq DOMAIN table
  PROVE  ReferencedKept
<1> DEFINE gone == Expired(order, act, pend)
<1>1. /\ active' = act
      /\ pending' = pend
      /\ completed' = [q \in DOMAIN table \ gone |-> table[q]]
  BY DEF SetQueue
<1>2. gone \cap Referenced(active', pending') = {}
  BY <1>1, ExpiredSpares
<1> HIDE DEF gone
<1> QED
  BY <1>1, <1>2 DEF ReferencedKept

LEMMA ReleaseSpares ==
  ASSUME NEW q, NEW ok, ReleaseWithOutcome(q, ok)
  PROVE  ReferencedKept
<1> DEFINE table == [p \in DOMAIN completed \cup {q} |-> IF p = q THEN ok ELSE completed[p]]
<1>1. DOMAIN completed \subseteq DOMAIN table
  OBVIOUS
<1>2. SetQueue(NoActive, pending, table,
               Append(SelectSeq(completedOrder, LAMBDA p : p # q), q))
  BY DEF ReleaseWithOutcome
<1> QED
  BY <1>1, <1>2, SetQueueSpares

LEMMA UnchangedSpares ==
  ASSUME completed' = completed PROVE ReferencedKept
BY DEF ReferencedKept

LEMMA StepSpares ==
  ASSUME TypeOK, LaneInv, [Next]_vars
  PROVE  ReferencedKept
<1>1. ASSUME NEW c \in Callers, Request(c) PROVE ReferencedKept
  <2>1. ASSUME NEW q \in EntryIds, RemoveRequest(c, q) PROVE ReferencedKept
    BY <2>1, SetQueueSpares DEF RemoveRequest
  <2>2. ASSUME NEW item \in Versions \cup Contents, NEW retry \in BOOLEAN,
               EnqueueRequest(c, item, retry)
        PROVE  ReferencedKept
    BY <2>2, UnchangedSpares DEF EnqueueRequest, Enqueue, queueVars
  <2> QED
    BY <1>1, <2>1, <2>2, UnchangedSpares DEF Request, StatusRequest, SetupRequest, queueVars
<1>2. ASSUME NEW t \in Tasks, Drive(t) PROVE ReferencedKept
  <2>1. CASE FailDependent(t)
    BY <2>1, ReleaseSpares, UnchangedSpares DEF FailDependent, queueVars
  <2>2. CASE RecordStartFailure(t)
    BY <2>2, ReleaseSpares, UnchangedSpares DEF RecordStartFailure, queueVars
  <2> QED
    BY <1>2, <2>1, <2>2, UnchangedSpares
    DEF Drive, Reserve, CheckPrerequisite, DiscardInstance, StartInstall, StartFails,
        MarkStarted, queueVars
<1>3. ASSUME NEW c \in Callers, Handle(c) \/ Disconnect(c) PROVE ReferencedKept
  <2>1. CASE EnqueueBase(c) \/ EnqueueContent(c)
    BY <2>1, UnchangedSpares DEF EnqueueBase, EnqueueContent, Enqueue, queueVars
  <2> QED
    BY <1>2, <1>3, <2>1, UnchangedSpares
    DEF Handle, RemoveInstance, RollbackInstance, Respond, SpawnMonitor, Disconnect,
        queueVars, Tasks
<1>4. ASSUME NEW m \in EntryIds, Monitor(m) PROVE ReferencedKept
  <2>1. CASE RecordOutcome(m)
    BY <2>1, ReleaseSpares, UnchangedSpares DEF RecordOutcome, queueVars
  <2> QED
    BY <1>2, <1>4, <2>1, UnchangedSpares
    DEF Monitor, Subscribe, ReceiveTerminal, SpawnNextMonitor, SpawnMonitor, queueVars, Tasks
<1>5. ASSUME NEW s \in EntryIds, Work(s) \/ WorkerPanics(s) \/ ForwardLateProgress(s)
      PROVE  ReferencedKept
  BY <1>5, UnchangedSpares
  DEF Work, BeginMutation, WorkerSucceeds, WorkerFails, CleanUpAfterFailure,
      PublishTerminal, SuperviseReturn, HandleInterruption, FinishClaimed,
      WorkerPanics, ForwardLateProgress, WorkerUnchanged, queueVars
<1>6. CASE \/ \E s \in Setups : UserTouches(s)
           \/ PruneByPerformanceOperation
           \/ UNCHANGED vars
  BY <1>6, UnchangedSpares DEF UserTouches, PruneByPerformanceOperation, vars, queueVars
<1> QED
  BY <1>1, <1>3, <1>4, <1>5, <1>6 DEF Next

\* Pruning the outcome table never forgets an outcome that an entry of the queue
\* still waits for.
THEOREM ReferencedSurvive == Spec => ReferencedNeverEvicted
<1>1. TypeOK /\ LaneInv /\ [Next]_vars =>
        [\A q \in DOMAIN completed \cap Referenced(active', pending') :
           q \in DOMAIN completed']_vars
  BY StepSpares DEF ReferencedKept
<1> QED
  BY Invariance, <1>1, PTL DEF Spec, ReferencedNeverEvicted

-----------------------------------------------------------------------------
(* The refinement of SerialLane: what the lane shows of its entries, and the   *)
(* steps of SerialLane that a change of it may be.                             *)

Waiting == ToSet(pending) \cup {active.qid}
AfterOf(q) == IF q \in DOMAIN entries THEN entries[q].prereq ELSE 0

\* Every entry but j is shown as it was.
OthersShown(j) == \A q \in EntryIds \ {j} : StatusOf(q)' = StatusOf(q) /\ AfterOf(q)' = AfterOf(q)

Same == \A q \in EntryIds : StatusOf(q)' = StatusOf(q) /\ AfterOf(q)' = AfterOf(q)
Submitted(j) ==
  /\ OthersShown(j)
  /\ StatusOf(j) = "unused" /\ StatusOf(j)' = "queued"
  /\ AfterOf(j)' \in OptId
Moved(j, from, to) ==
  /\ OthersShown(j)
  /\ StatusOf(j) = from /\ StatusOf(j)' = to
  /\ AfterOf(j)' = AfterOf(j)
Begun(j) ==
  /\ Moved(j, "queued", "running")
  /\ \A k \in EntryIds : StatusOf(k) # "running"
  /\ AfterOf(j) # 0 => AfterOf(j) \in EntryIds /\ StatusOf(AfterOf(j)) = "ok"
Ended(j) == \E result \in {"ok", "error"} : Moved(j, "running", result)

Shown ==
  \/ Same
  \/ \E j \in EntryIds : Submitted(j) \/ Moved(j, "queued", "dropped") \/ Begun(j) \/ Ended(j)

LEMMA InPending ==
  \A q : q \in ToSet(pending) <=> \E i \in DOMAIN pending : pending[i] = q
BY DEF ToSet

\* An entry that is shown as it was: nothing about it changed, or it is worked on
\* and the queue does not matter.
LEMMA ShownAsWas ==
  ASSUME TypeOK, LaneInv, NEW q \in EntryIds,
         (q \in DOMAIN entries)' <=> (q \in DOMAIN entries),
         q \in DOMAIN entries => entries'[q] = entries[q],
         verdict'[q] = verdict[q],
         (worker'[q] = "none") <=> (worker[q] = "none"),
         q \in DOMAIN entries /\ worker[q] = "none" => ((q \in Waiting)' <=> (q \in Waiting))
  PROVE  StatusOf(q)' = StatusOf(q) /\ AfterOf(q)' = AfterOf(q)
<1>1. AfterOf(q)' = AfterOf(q)
  BY DEF AfterOf
<1>2. CASE q \notin DOMAIN entries
  BY <1>1, <1>2 DEF StatusOf
<1>3. CASE q \in DOMAIN entries /\ worker[q] = "none"
  BY <1>1, <1>3 DEF StatusOf, Waiting
<1>4. CASE q \in DOMAIN entries /\ worker[q] # "none"
  BY <1>1, <1>4 DEF StatusOf
<1> QED
  BY <1>1, <1>2, <1>3, <1>4

\* What the statuses say.
LEMMA StatusFacts ==
  ASSUME TypeOK, LaneInv, NEW q \in EntryIds
  PROVE  /\ q \notin DOMAIN entries <=> StatusOf(q) = "unused"
         /\ worker[q] = "none" => verdict[q] = "none"
         /\ worker[q] # "none" => q \in DOMAIN entries
         /\ StatusOf(q) = "running" => active.qid = q /\ worker[q] # "none"
         /\ worker[q] # "none" /\ verdict[q] = "none" => StatusOf(q) = "running"
         /\ q \in DOMAIN entries /\ worker[q] = "none" /\ q \in Waiting => StatusOf(q) = "queued"
         /\ q \in DOMAIN entries /\ worker[q] = "none" /\ q \notin Waiting => StatusOf(q) = "dropped"
         /\ verdict[q] # "none" => StatusOf(q) = verdict[q]
         /\ AfterOf(q) \in OptId
<1>1. /\ worker[q] = "none" => verdict[q] = "none"
      /\ worker[q] # "none" => q \in DOMAIN entries
      /\ worker[q] # "none" /\ verdict[q] = "none" => q \in Live(installs)
  BY DEF LaneInv, SessionLife
<1>2. q \in Live(installs) => active.qid = q
  BY DEF LaneInv, LaneExclusive
<1>3. verdict[q] \in {"none", "ok", "error"}
  BY DEF TypeOK
<1>4. AfterOf(q) \in OptId
  BY Basics, BoundAssumption DEF AfterOf, Specs, OptId
<1> QED
  BY <1>1, <1>2, <1>3, <1>4 DEF StatusOf, Waiting

\* A step that changes neither the queue nor the entries, publishes nothing and
\* starts no worker.
LEMMA QuietStep ==
  ASSUME TypeOK, LaneInv, UNCHANGED <<active, pending, entries, verdict>>,
         \A s \in EntryIds : (worker'[s] = "none") <=> (worker[s] = "none")
  PROVE  Same
<1>1. Waiting' = Waiting
  BY DEF Waiting
<1> QED
  BY <1>1, ShownAsWas DEF Same

\* The queue after an enqueue: the entry is there already, or it is the last one.
LEMMA EnqueueShown ==
  ASSUME TypeOK, LaneInv, TypeOK', NEW spec \in Specs, NEW atFront \in BOOLEAN,
         Enqueue(spec, atFront), UNCHANGED <<worker, verdict>>
  PROVE  Shown
<1> DEFINE same == {p \in EntryIds \cap DOMAIN entries : entries[p] = spec}
           queuedAt == {i \in DOMAIN pending : pending[i] \in same}
<1>1. /\ Len(entries) \in Nat
      /\ DOMAIN entries = 1 .. Len(entries)
      /\ Len(pending) \in Nat
      /\ DOMAIN pending = 1 .. Len(pending)
      /\ pending \in Seq(EntryIds)
      /\ entries \in Seq(Specs)
  BY LenProperties DEF TypeOK
<1>2. CASE UNCHANGED <<active, pending, entries>>
  BY <1>2, QuietStep DEF Shown
<1>3. ASSUME NEW i \in DOMAIN pending, pending' = <<pending[i]>> \o RemoveAt(pending, i),
             UNCHANGED <<active, entries>>
      PROVE  Shown
  <2>1. /\ RemoveAt(pending, i) \in Seq(EntryIds)
        /\ Len(RemoveAt(pending, i)) = Len(pending) - 1
        /\ \A k \in 1 .. Len(pending) - 1 :
             RemoveAt(pending, i)[k] = IF k < i THEN pending[k] ELSE pending[k + 1]
    BY <1>1, RemoveAtProperties
  <2>2. pending[i] \in EntryIds
    BY <1>1, ElementOfSeq
  <2>3. /\ Len(pending') = Len(pending)
        /\ pending' \in Seq(EntryIds)
        /\ \A k \in 1 .. Len(pending) :
             pending'[k] = IF k = 1 THEN pending[i] ELSE RemoveAt(pending, i)[k - 1]
    <3> DEFINE rest == RemoveAt(pending, i)
    <3>1. /\ <<pending[i]>> \o rest \in Seq(EntryIds)
          /\ Len(<<pending[i]>> \o rest) = Len(rest) + 1
          /\ \A k \in 1 .. Len(rest) + 1 :
               (<<pending[i]>> \o rest)[k] = IF k = 1 THEN pending[i] ELSE rest[k - 1]
      BY <2>1, <2>2, ConsProperties
    <3>2. Len(rest) + 1 = Len(pending)
      BY <1>1, <2>1
    <3> QED
      BY <1>3, <3>1, <3>2
  <2>4. DOMAIN pending' = 1 .. Len(pending)
    BY <2>3, LenProperties
  <2>5. ASSUME NEW q PROVE q \in ToSet(pending)' <=> q \in ToSet(pending)
    <3>1. ASSUME NEW k \in DOMAIN pending PROVE pending[k] \in ToSet(pending)'
      <4>1. CASE k = i
        <5>1. 1 \in 1 .. Len(pending) /\ pending'[1] = pending[k]
          BY <1>1, <2>3, <4>1
        <5> QED
          BY <2>4, <5>1 DEF ToSet
      <4>2. CASE k < i
        <5>1. k + 1 \in 1 .. Len(pending) /\ k \in 1 .. Len(pending) - 1 /\ k + 1 # 1
          BY <1>1, <4>2
        <5>2. pending'[k + 1] = pending[k]
          BY <2>1, <2>3, <4>2, <5>1
        <5> QED
          BY <2>4, <5>1, <5>2 DEF ToSet
      <4>3. CASE k > i
        <5>1. k \in 1 .. Len(pending) /\ k - 1 \in 1 .. Len(pending) - 1 /\ k # 1 /\ ~(k - 1 < i)
          BY <1>1, <4>3
        <5>2. pending'[k] = pending[k]
          BY <2>1, <2>3, <5>1
        <5> QED
          BY <2>4, <5>1, <5>2 DEF ToSet
      <4> QED
        BY <1>1, <4>1, <4>2, <4>3
    <3>2. ASSUME NEW k \in DOMAIN pending' PROVE pending'[k] \in ToSet(pending)
      <4>1. CASE k = 1
        BY <1>1, <2>3, <2>4, <4>1 DEF ToSet
      <4>2. CASE k # 1
        <5>1. k - 1 \in 1 .. Len(pending) - 1 /\ k \in 1 .. Len(pending)
          BY <1>1, <2>4, <4>2
        <5>2. \E m \in 1 .. Len(pending) : pending'[k] = pending[m]
          BY <1>1, <2>1, <2>3, <4>2, <5>1
        <5> QED
          BY <1>1, <5>2 DEF ToSet
      <4> QED
        BY <4>1, <4>2
    <3> QED
      BY <3>1, <3>2 DEF ToSet
  <2>6. \A q \in EntryIds : (q \in Waiting)' <=> (q \in Waiting)
    BY <1>3, <2>5 DEF Waiting
  <2>7. Same
    BY <1>3, <2>6, ShownAsWas DEF Same
  <2> QED
    BY <2>7 DEF Shown
<1>4. ASSUME NEW n \in EntryIds, n = Len(entries) + 1, entries' = Append(entries, spec), active' = active,
             pending' = <<n>> \o pending \/ pending' = Append(pending, n)
      PROVE  Shown
  <2>1. /\ DOMAIN entries' = DOMAIN entries \cup {n}
        /\ \A q \in DOMAIN entries : entries'[q] = entries[q]
        /\ entries'[n] = spec /\ n \notin DOMAIN entries
    BY <1>1, <1>4, AppendProperties
  <2>2. ToSet(pending)' = ToSet(pending) \cup {n}
    <3>1. CASE pending' = Append(pending, n)
      <4>1. /\ DOMAIN pending' = 1 .. Len(pending) + 1
            /\ \A k \in 1 .. Len(pending) : pending'[k] = pending[k]
            /\ pending'[Len(pending) + 1] = n
        BY <1>1, <1>4, <3>1, AppendProperties, LenProperties
      <4> QED
        BY <1>1, <4>1 DEF ToSet
    <3>2. CASE pending' = <<n>> \o pending
      <4>1. /\ Len(pending') = Len(pending) + 1
            /\ pending' \in Seq(EntryIds)
            /\ \A k \in 1 .. Len(pending) + 1 :
                 pending'[k] = IF k = 1 THEN n ELSE pending[k - 1]
        BY <1>1, <1>4, <3>2, ConsProperties
      <4>2. DOMAIN pending' = 1 .. Len(pending) + 1
        BY <4>1, LenProperties
      <4>3. ASSUME NEW k \in 1 .. Len(pending)
            PROVE  k + 1 \in 1 .. Len(pending) + 1 /\ pending'[k + 1] = pending[k]
        <5>1. k + 1 \in 1 .. Len(pending) + 1 /\ k + 1 # 1 /\ (k + 1) - 1 = k
          BY <1>1
        <5> QED
          BY <4>1, <5>1
      <4>4. ASSUME NEW k \in 1 .. Len(pending) + 1, k # 1
            PROVE  k - 1 \in 1 .. Len(pending) /\ pending'[k] = pending[k - 1]
        BY <1>1, <4>1, <4>4
      <4>5. 1 \in 1 .. Len(pending) + 1 /\ pending'[1] = n
        BY <1>1, <4>1
      <4>6. \A q : (\E k \in 1 .. Len(pending) + 1 : pending'[k] = q)
                    <=> q = n \/ \E k \in 1 .. Len(pending) : pending[k] = q
        <5>1. ASSUME NEW k \in 1 .. Len(pending) + 1
              PROVE  pending'[k] = n \/ \E m \in 1 .. Len(pending) : pending[m] = pending'[k]
          BY <4>4, <4>5
        <5>2. 1 \in 1 .. Len(pending) + 1
          BY <1>1
        <5> QED
          BY <4>3, <4>5, <5>1, <5>2
      <4>7. \A q : q \in ToSet(pending)' <=> q = n \/ q \in ToSet(pending)
        BY <1>1, <4>2, <4>6 DEF ToSet
      <4> QED
        BY <4>7
    <3> QED
      BY <1>4, <3>1, <3>2
  <2>3. \A q \in EntryIds : q # n => ((q \in Waiting)' <=> (q \in Waiting))
    BY <1>4, <2>2 DEF Waiting
  <2>4. OthersShown(n)
    BY <2>1, <2>3, ShownAsWas DEF OthersShown
  <2>5. StatusOf(n) = "unused" /\ worker[n] = "none" /\ verdict[n] = "none"
    BY <1>4, <2>1, StatusFacts
  <2>6. StatusOf(n)' = "queued"
    BY <1>4, <2>1, <2>2, <2>5 DEF StatusOf
  <2>7. AfterOf(n)' \in OptId
    BY <1>4, <2>1 DEF AfterOf, Specs
  <2> QED
    BY <1>4, <2>4, <2>5, <2>6, <2>7 DEF Shown, Submitted
<1>5. CASE active.qid \notin same /\ queuedAt # {}
  <2>1. PICK i \in queuedAt :
          /\ pending' = IF atFront THEN <<pending[i]>> \o RemoveAt(pending, i) ELSE pending
          /\ UNCHANGED <<active, entries>>
    BY <1>5 DEF Enqueue
  <2> QED
    BY <1>2, <1>3, <2>1
<1> QED
  BY <1>2, <1>4, <1>5 DEF Enqueue, queueVars

\* An entry that has not been worked on leaves the queue.
LEMMA DropShown ==
  ASSUME TypeOK, LaneInv, NEW q \in EntryIds, q \in DOMAIN entries, worker[q] = "none",
         q \in Waiting, (q \notin Waiting)',
         \A r \in EntryIds : r # q => ((r \in Waiting)' <=> (r \in Waiting)),
         UNCHANGED <<entries, worker, verdict>>
  PROVE  Shown
<1>1. OthersShown(q)
  BY ShownAsWas DEF OthersShown
<1>2. StatusOf(q) = "queued" /\ verdict[q] = "none"
  BY StatusFacts
<1>3. StatusOf(q)' = "dropped"
  BY <1>2 DEF StatusOf, Waiting
<1>4. AfterOf(q)' = AfterOf(q)
  BY DEF AfterOf
<1> QED
  BY <1>1, <1>2, <1>3, <1>4 DEF Shown, Moved

LEMMA RemovalShown ==
  ASSUME TypeOK, LaneInv, NEW i \in DOMAIN pending,
         SetQueue(active, RemoveAt(pending, i), completed, completedOrder),
         UNCHANGED <<entries, worker, verdict>>
  PROVE  Shown
<1>1. /\ Len(pending) \in Nat
      /\ DOMAIN pending = 1 .. Len(pending)
      /\ pending \in Seq(EntryIds)
  BY LenProperties DEF TypeOK
<1>2. /\ active' = active
      /\ pending' = RemoveAt(pending, i)
  BY SetQueueEffect
<1>3. /\ pending' \in Seq(EntryIds)
      /\ Len(pending') = Len(pending) - 1
      /\ \A k \in 1 .. Len(pending) - 1 :
           pending'[k] = IF k < i THEN pending[k] ELSE pending[k + 1]
  BY <1>1, <1>2, RemoveAtProperties
<1>4. DOMAIN pending' = 1 .. Len(pending) - 1
  BY <1>3, LenProperties
<1>5. \A k \in DOMAIN pending :
        /\ pending[k] \in DOMAIN entries /\ pending[k] # active.qid /\ worker[pending[k]] = "none"
        /\ pending[k] \in EntryIds
        /\ \A j \in DOMAIN pending : pending[k] = pending[j] => k = j
  BY Basics DEF LaneInv, PendingFresh
<1>6. ASSUME NEW k \in DOMAIN pending' PROVE pending'[k] \in ToSet(pending) /\ pending'[k] # pending[i]
  <2>1. PICK m \in DOMAIN pending : m # i /\ pending'[k] = pending[m]
    BY <1>1, <1>3, <1>4
  <2> QED
    BY <1>5, <2>1 DEF ToSet
<1>7. ASSUME NEW k \in DOMAIN pending, k # i PROVE pending[k] \in ToSet(pending)'
  <2>1. PICK m \in DOMAIN pending' : pending'[m] = pending[k]
    <3>1. CASE k < i
      <4>1. k \in 1 .. Len(pending) - 1
        BY <1>1, <3>1
      <4> QED
        BY <1>3, <1>4, <3>1, <4>1
    <3>2. CASE k > i
      <4>1. k - 1 \in 1 .. Len(pending) - 1 /\ ~(k - 1 < i) /\ (k - 1) + 1 = k
        BY <1>1, <3>2
      <4> QED
        BY <1>3, <1>4, <4>1
    <3> QED
      BY <1>1, <1>7, <3>1, <3>2
  <2> QED
    BY <2>1 DEF ToSet
<1>8. ASSUME NEW r, r # pending[i] PROVE (r \in Waiting)' <=> (r \in Waiting)
  BY <1>2, <1>6, <1>7, <1>8 DEF Waiting, ToSet
<1>9. PICK q \in EntryIds : q = pending[i]
  BY <1>5
<1>10. q \in Waiting /\ (q \notin Waiting)'
  BY <1>2, <1>5, <1>6, <1>9 DEF Waiting, ToSet
<1> QED
  BY <1>5, <1>8, <1>9, <1>10, DropShown

LEMMA RequestShown ==
  ASSUME TypeOK, LaneInv, TypeOK', NEW c \in Callers, Request(c)
  PROVE  Shown
<1>1. ASSUME NEW item \in Versions \cup Contents, NEW retry \in BOOLEAN,
             EnqueueRequest(c, item, retry)
      PROVE  Shown
  <2>1. [item |-> item, prereq |-> 0] \in Specs
    BY BoundAssumption DEF Specs, Items, OptId
  <2> QED
    BY <1>1, <2>1, EnqueueShown DEF EnqueueRequest
<1>2. ASSUME NEW q \in EntryIds, RemoveRequest(c, q)
      PROVE  Shown
  BY <1>2, RemovalShown DEF RemoveRequest
<1>3. CASE StatusRequest(c) \/ \E s \in Setups : SetupRequest(c, s)
  BY <1>3, QuietStep DEF StatusRequest, SetupRequest, queueVars, Shown
<1> QED
  BY <1>1, <1>2, <1>3 DEF Request

\* The lane is released with a task that holds its entry before it was started.
LEMMA GiveUpShown ==
  ASSUME TypeOK, LaneInv, NEW t \in Tasks, pc[t] \in {"failDependent", "startFailed"},
         \/ active.qid = held[t] /\ ReleaseWithOutcome(held[t], FALSE)
         \/ active.qid # held[t] /\ UNCHANGED queueVars,
         UNCHANGED <<entries, worker, verdict>>
  PROVE  Shown
<1>1. /\ held[t] \in DOMAIN entries
      /\ worker[held[t]] = "none"
  BY DEF LaneInv, Holds, HoldPcs, Steps, StepsOf
<1>2. held[t] \in EntryIds /\ Responsible(t, held[t])
  BY <1>1, Basics DEF Responsible
<1>3. active.qid = held[t]
  BY <1>2 DEF LaneInv, OneMover
<1>4. active' = NoActive /\ pending' = pending
  BY <1>2, <1>3, ReleaseEffect
<1>5. PICK q \in EntryIds : q = held[t]
  BY <1>2
<1>6. \A i \in DOMAIN pending : pending[i] # q
  BY <1>3, <1>5 DEF LaneInv, PendingFresh
<1>7. q \in Waiting /\ (q \notin Waiting)'
  BY <1>3, <1>4, <1>5, <1>6, Basics DEF Waiting, ToSet, NoActive
<1>8. \A r \in EntryIds : r # q => ((r \in Waiting)' <=> (r \in Waiting))
  BY <1>3, <1>4, <1>5, Basics DEF Waiting, NoActive
<1> QED
  BY <1>1, <1>5, <1>7, <1>8, DropShown

LEMMA ReserveShown ==
  ASSUME TypeOK, LaneInv, NEW t \in Tasks, Reserve(t)
  PROVE  Shown
<1>1. UNCHANGED <<entries, worker, verdict>>
  BY DEF Reserve
<1>2. CASE active.qid # 0 \/ pending = <<>>
  BY <1>1, <1>2, QuietStep DEF Reserve, Shown
<1>3. CASE ~(active.qid # 0 \/ pending = <<>>)
  <2>1. /\ active.qid = 0 /\ pending # <<>>
        /\ active'.qid = Head(pending) /\ pending' = Tail(pending)
    BY <1>3 DEF Reserve
  <2>2. /\ pending \in Seq(EntryIds)
        /\ Len(pending) \in Nat /\ DOMAIN pending = 1 .. Len(pending)
        /\ Len(pending) # 0
    BY <2>1, LenProperties, EmptySeq DEF TypeOK
  <2>3. /\ Head(pending) = pending[1]
        /\ Len(pending') = Len(pending) - 1
        /\ pending' \in Seq(EntryIds)
        /\ \A k \in 1 .. Len(pending) - 1 : pending'[k] = pending[k + 1]
    BY <2>1, <2>2, HeadTailProperties
  <2>4. DOMAIN pending' = 1 .. Len(pending) - 1
    BY <2>3, LenProperties
  <2>5. ASSUME NEW k \in DOMAIN pending PROVE pending[k] \in Waiting'
    <3>1. CASE k = 1
      BY <2>1, <2>3, <3>1 DEF Waiting
    <3>2. CASE k # 1
      <4>1. k - 1 \in 1 .. Len(pending) - 1 /\ (k - 1) + 1 = k
        BY <2>2, <3>2
      <4>2. pending'[k - 1] = pending[k]
        BY <2>3, <4>1
      <4> QED
        BY <2>4, <4>1, <4>2 DEF Waiting, ToSet
    <3> QED
      BY <3>1, <3>2
  <2>6. ASSUME NEW k \in DOMAIN pending' PROVE pending'[k] \in ToSet(pending)
    <3>1. k + 1 \in DOMAIN pending /\ pending'[k] = pending[k + 1]
      BY <2>2, <2>3, <2>4
    <3> QED
      BY <3>1 DEF ToSet
  <2>7. Head(pending) \in ToSet(pending)
    BY <2>2, <2>3 DEF ToSet
  <2>8. \A q \in EntryIds : (q \in Waiting)' <=> (q \in Waiting)
    BY <2>1, <2>5, <2>6, <2>7, Basics DEF Waiting, ToSet
  <2> QED
    BY <1>1, <2>8, ShownAsWas DEF Same, Shown
<1> QED
  BY <1>2, <1>3

LEMMA StartShown ==
  ASSUME TypeOK, LaneInv, NEW t \in Tasks, StartInstall(t)
  PROVE  Shown
<1>1. pc[t] = "start" /\ UNCHANGED <<active, pending, entries, verdict>>
  BY DEF StartInstall, queueVars
<1>2. /\ held[t] \in DOMAIN entries
      /\ worker[held[t]] = "none"
      /\ PrerequisiteDone(held[t])
  BY <1>1 DEF LaneInv, Holds, HoldPcs, Steps, StepsOf
<1>3. held[t] \in EntryIds /\ Responsible(t, held[t])
  BY <1>1, <1>2, Basics DEF Responsible
<1>4. active.qid = held[t]
  BY <1>3 DEF LaneInv, OneMover
<1>5. Live(installs) = {}
  BY <1>2, <1>4 DEF LaneInv, LaneExclusive, SessionLife, Live
<1>6. PICK q \in EntryIds : q = held[t]
  BY <1>3
<1>7. worker' = [worker EXCEPT ![q] = "running"]
  BY <1>5, <1>6 DEF StartInstall
<1>8. Waiting' = Waiting /\ q \in Waiting
  BY <1>1, <1>4, <1>6 DEF Waiting
<1>9. OthersShown(q)
  BY <1>1, <1>7, <1>8, ShownAsWas DEF OthersShown, TypeOK
<1>10. StatusOf(q) = "queued" /\ verdict[q] = "none"
  BY <1>2, <1>6, <1>8, StatusFacts
<1>11. StatusOf(q)' = "running"
  BY <1>1, <1>2, <1>6, <1>7, <1>10 DEF StatusOf, TypeOK
<1>12. AfterOf(q)' = AfterOf(q)
  BY <1>1 DEF AfterOf
<1>13. \A k \in EntryIds : StatusOf(k) # "running"
  BY <1>2, <1>4, <1>6, StatusFacts
<1>14. AfterOf(q) # 0 => AfterOf(q) \in EntryIds /\ StatusOf(AfterOf(q)) = "ok"
  <2>1. AfterOf(q) = entries[q].prereq /\ AfterOf(q) \in OptId
    BY <1>2, <1>6, StatusFacts DEF AfterOf
  <2>2. AfterOf(q) # 0 => AfterOf(q) \in EntryIds
    BY <2>1, BoundAssumption DEF OptId, EntryIds
  <2>3. AfterOf(q) # 0 => verdict[AfterOf(q)] = "ok"
    BY <1>2, <1>6, <2>1 DEF PrerequisiteDone
  <2> QED
    BY <2>2, <2>3, StatusFacts
<1> QED
  BY <1>9, <1>10, <1>11, <1>12, <1>13, <1>14 DEF Shown, Begun, Moved

LEMMA DriveShown ==
  ASSUME TypeOK, LaneInv, NEW t \in Tasks, Drive(t)
  PROVE  Shown
<1>1. CASE FailDependent(t) \/ RecordStartFailure(t)
  BY <1>1, GiveUpShown DEF FailDependent, RecordStartFailure
<1>2. CASE CheckPrerequisite(t) \/ DiscardInstance(t) \/ StartFails(t)
  BY <1>2, QuietStep DEF CheckPrerequisite, DiscardInstance, StartFails, queueVars, Shown
<1>3. CASE MarkStarted(t)
  <2>1. active'.qid = active.qid
    BY <1>3 DEF MarkStarted, TypeOK
  <2>2. UNCHANGED <<pending, entries, worker, verdict>>
    BY <1>3 DEF MarkStarted
  <2> QED
    BY <2>1, <2>2, ShownAsWas DEF Waiting, Same, Shown
<1> QED
  BY <1>1, <1>2, <1>3, ReserveShown, StartShown DEF Drive

LEMMA HandlerShown ==
  ASSUME TypeOK, LaneInv, TypeOK', NEW c \in Callers, Handle(c) \/ Disconnect(c)
  PROVE  Shown
<1>1. CASE EnqueueBase(c)
  <2>1. [item |-> Base[job[c].item], prereq |-> 0] \in Specs
    BY <1>1, BaseAssumption, BoundAssumption DEF EnqueueBase, Specs, Items, TypeOK, OptId
  <2> QED
    BY <1>1, <2>1, EnqueueShown DEF EnqueueBase
<1>2. CASE EnqueueContent(c)
  <2>1. [item |-> job[c].item, prereq |-> job[c].prereq] \in Specs
    BY <1>2 DEF EnqueueContent, Specs, Items, TypeOK, Jobs
  <2> QED
    BY <1>2, <2>1, EnqueueShown DEF EnqueueContent
<1>3. CASE RemoveInstance(c) \/ RollbackInstance(c) \/ Respond(c) \/ Disconnect(c)
  BY <1>3, QuietStep
  DEF RemoveInstance, RollbackInstance, Respond, SpawnMonitor, Disconnect, queueVars, Shown
<1> QED
  BY <1>1, <1>2, <1>3, DriveShown DEF Handle, Tasks

LEMMA MonitorShown ==
  ASSUME TypeOK, LaneInv, NEW m \in EntryIds, Monitor(m)
  PROVE  Shown
<1>1. CASE Subscribe(m) \/ ReceiveTerminal(m) \/ SpawnNextMonitor(m)
  BY <1>1, QuietStep
  DEF Subscribe, ReceiveTerminal, SpawnNextMonitor, SpawnMonitor, queueVars, Shown
<1>2. CASE RecordOutcome(m)
  <2>1. UNCHANGED <<entries, worker, verdict>>
    BY <1>2 DEF RecordOutcome
  <2>2. CASE active.install # install[m]
    BY <1>2, <2>1, <2>2, QuietStep DEF RecordOutcome, queueVars, Shown
  <2>3. CASE active.install = install[m]
    <3>1. pc[m] \in WatchPcs
      BY <1>2 DEF RecordOutcome, WatchPcs
    <3>2. install[m] = m
      BY <3>1 DEF LaneInv, Steps, StepsOf, Tasks
    <3>3. active.qid = m /\ worker[m] # "none"
      BY <2>3, <3>2, Basics DEF LaneInv, ActiveKnown, MarkedIsWorked
    <3>4. active' = NoActive /\ pending' = pending
      BY <1>2, <2>3, <3>3, ReleaseEffect DEF RecordOutcome
    <3>5. \A q \in EntryIds : q # m => ((q \in Waiting)' <=> (q \in Waiting))
      BY <3>3, <3>4, Basics DEF Waiting, NoActive
    <3> QED
      BY <2>1, <3>3, <3>5, ShownAsWas DEF Same, Shown
  <2> QED
    BY <2>2, <2>3
<1> QED
  BY <1>1, <1>2, DriveShown DEF Monitor, Tasks

\* The worker or its supervisor publishes the terminal progress of session s.
LEMMA PublishShown ==
  ASSUME TypeOK, LaneInv, NEW s \in EntryIds, s \in DOMAIN installs, ~installs[s].done,
         NEW result \in {"ok", "error"}, Publish(s, result, TRUE),
         UNCHANGED <<active, pending, entries>>,
         \A r \in EntryIds : (worker'[r] = "none") <=> (worker[r] = "none")
  PROVE  Shown
<1>1. /\ verdict[s] = "none" /\ worker[s] # "none"
      /\ \A r \in EntryIds : verdict'[r] = IF r = s THEN result ELSE verdict[r]
  BY DEF Publish, TypeOK, LaneInv, SessionLife
<1>2. Waiting' = Waiting
  BY DEF Waiting
<1>3. OthersShown(s)
  BY <1>1, <1>2, ShownAsWas DEF OthersShown
<1>4. StatusOf(s) = "running" /\ s \in DOMAIN entries
  BY <1>1, StatusFacts
<1>5. StatusOf(s)' = result
  BY <1>1, <1>4 DEF StatusOf
<1>6. AfterOf(s)' = AfterOf(s)
  BY DEF AfterOf
<1> QED
  BY <1>3, <1>4, <1>5, <1>6 DEF Shown, Ended, Moved

LEMMA WorkShown ==
  ASSUME TypeOK, LaneInv, NEW s \in EntryIds,
         Work(s) \/ WorkerPanics(s) \/ ForwardLateProgress(s)
  PROVE  Shown
<1>1. UNCHANGED <<active, pending, entries>>
  BY DEF Work, BeginMutation, WorkerSucceeds, WorkerFails, CleanUpAfterFailure,
         PublishTerminal, SuperviseReturn, HandleInterruption, FinishClaimed,
         WorkerPanics, ForwardLateProgress, WorkerUnchanged, queueVars
<1>2. \A r \in EntryIds : (worker'[r] = "none") <=> (worker[r] = "none")
  <2>1. CASE ForwardLateProgress(s)
    BY <2>1 DEF ForwardLateProgress
  <2>2. CASE Work(s) \/ WorkerPanics(s)
    <3>1. /\ worker[s] # "none"
          /\ worker' = worker \/ \E w \in WorkerStates \ {"none"} : WorkerTo(s, w)
      BY <2>2 DEF Work, BeginMutation, WorkerSucceeds, WorkerFails, CleanUpAfterFailure,
             PublishTerminal, SuperviseReturn, HandleInterruption, FinishClaimed,
             WorkerPanics, Is, WorkerStates
    <3> QED
      BY <3>1 DEF WorkerTo, TypeOK
  <2> QED
    BY <2>1, <2>2
<1>3. CASE UNCHANGED verdict
  BY <1>1, <1>2, <1>3, QuietStep DEF Shown
<1>4. ASSUME verdict' # verdict
      PROVE  /\ s \in DOMAIN installs /\ ~installs[s].done
             /\ \E result \in {"ok", "error"} : Publish(s, result, TRUE)
  <2>1. ~ForwardLateProgress(s)
    BY <1>4 DEF ForwardLateProgress, EmitRecord, Publish, TypeOK
  <2> QED
    BY <1>4, <2>1
    DEF Work, BeginMutation, WorkerSucceeds, WorkerFails, CleanUpAfterFailure,
        PublishTerminal, SuperviseReturn, HandleInterruption, FinishClaimed,
        WorkerPanics, EmitRecord
<1> QED
  BY <1>1, <1>2, <1>3, <1>4, PublishShown

LEMMA StepShown ==
  ASSUME TypeOK, LaneInv, [Next]_vars
  PROVE  Shown
<1>1. CASE \/ \E s \in Setups : UserTouches(s)
           \/ PruneByPerformanceOperation
           \/ UNCHANGED vars
  BY <1>1, QuietStep DEF UserTouches, PruneByPerformanceOperation, vars, queueVars, Shown
<1>2. TypeOK'
  BY TypesPreserved
<1> QED
  BY <1>1, <1>2, RequestShown, HandlerShown, MonitorShown, WorkShown DEF Next

LEMMA ShownIsPromised ==
  ASSUME Shown
  PROVE  [Promise!Next]_(Promise!jobVars)
<1> DEFINE now == [q \in EntryIds |-> StatusOf(q)]
           waits == [q \in EntryIds |-> AfterOf(q)]
<1>1. CASE Same
  <2>1. now' = now /\ waits' = waits
    BY <1>1 DEF Same
  <2> QED
    BY <2>1 DEF Promise!jobVars, AfterOf
<1>2. ASSUME NEW j \in EntryIds, OthersShown(j), NEW st, StatusOf(j)' = st
      PROVE  now' = [now EXCEPT ![j] = st]
  BY <1>2 DEF OthersShown
<1>3. ASSUME NEW j \in EntryIds, OthersShown(j), AfterOf(j)' = AfterOf(j)
      PROVE  waits' = waits
  BY <1>3 DEF OthersShown
<1>4. ASSUME NEW j \in EntryIds, Submitted(j)
      PROVE  \E p \in EntryIds \cup {0} : Promise!Submit(j, p)
  <2>1. PICK p \in EntryIds \cup {0} : AfterOf(j)' = p
    BY <1>4, BoundAssumption DEF Submitted, OptId, EntryIds
  <2>2. /\ now' = [now EXCEPT ![j] = "queued"] /\ now[j] = "unused"
        /\ waits' = [waits EXCEPT ![j] = p]
    BY <1>2, <1>4, <2>1 DEF Submitted, OthersShown
  <2> QED
    BY <2>2 DEF Promise!Submit, AfterOf
<1>5. ASSUME NEW j \in EntryIds, Moved(j, "queued", "dropped")
      PROVE  Promise!Drop(j)
  <2>1. /\ now' = [now EXCEPT ![j] = "dropped"] /\ now[j] = "queued"
        /\ waits' = waits
    BY <1>2, <1>3, <1>5 DEF Moved
  <2> QED
    BY <2>1 DEF Promise!Drop, AfterOf
<1>6. ASSUME NEW j \in EntryIds, Begun(j)
      PROVE  Promise!Begin(j)
  <2>1. /\ now' = [now EXCEPT ![j] = "running"] /\ now[j] = "queued"
        /\ waits' = waits
        /\ \A k \in EntryIds : now[k] # "running"
        /\ waits[j] # 0 => now[waits[j]] = "ok"
    BY <1>2, <1>3, <1>6 DEF Begun, Moved
  <2> QED
    BY <2>1 DEF Promise!Begin, AfterOf
<1>7. ASSUME NEW j \in EntryIds, Ended(j)
      PROVE  \E result \in {"ok", "error"} : Promise!End(j, result)
  <2>1. PICK result \in {"ok", "error"} : Moved(j, "running", result)
    BY <1>7 DEF Ended
  <2>2. /\ now' = [now EXCEPT ![j] = result] /\ now[j] = "running"
        /\ waits' = waits
    BY <1>2, <1>3, <2>1 DEF Moved
  <2> QED
    BY <2>2 DEF Promise!End, AfterOf
<1> QED
  BY <1>1, <1>4, <1>5, <1>6, <1>7 DEF Shown, Promise!Next

\* The lane implements SerialLane: jobs run one at a time, each at most once and
\* after what it depends on, and their results never change.
THEOREM PromiseIsKept == Spec => KeepsPromise
<1>1. Init => Promise!Init
  BY DEF Init, StatusOf, Promise!Init
<1>2. TypeOK /\ LaneInv /\ [Next]_vars => [Promise!Next]_(Promise!jobVars)
  BY StepShown, ShownIsPromised
<1> QED
  BY Invariance, <1>1, <1>2, PTL DEF Spec, KeepsPromise, Promise!Spec

-----------------------------------------------------------------------------
(* A used instance: only the rollback of a creation removes it.                *)

\* Two actors never work on an instance: a content operation that is changing it
\* and a cleanup that is about to remove it.
Apart == \A s \in Setups : Mutating(s) => lock[s] = 0

\* What a step may do to the lock and to the existence of an instance.
LockTaken(s) == ~Locked(s) /\ instance[s] \in Untouched /\ UNCHANGED <<entries, worker>>
RolledBack(s) == \E c \in Callers : pc[c] = "rollback" /\ job[c].item = s
Guarded(s) ==
  /\ lock'[s] \in {0, lock[s]} \/ LockTaken(s)
  /\ instance'[s] = "removed" => instance[s] = "removed" \/ lock[s] # 0 \/ RolledBack(s)

LEMMA CleanupGuarded ==
  ASSUME TypeOK, NEW s \in Setups, NEW x \in Tasks, NEW y,
         (LockOnly /\ ComparesInstance(x, y)) \/ CleanupEnds(x, y)
  PROVE  Guarded(s)
<1>1. x # 0
  BY Basics, CallerAssumption DEF Tasks, EntryIds
<1>2. CASE LockOnly /\ ComparesInstance(x, y)
  BY <1>2 DEF LockOnly, ComparesInstance, TypeOK, Guarded, LockTaken
<1>3. CASE GivesUp(x, y)
  BY <1>3 DEF GivesUp, Spare, TypeOK, Guarded
<1>4. CASE RemovesInstance(x, y)
  BY <1>1, <1>4 DEF RemovesInstance, Spare, TypeOK, Guarded
<1> QED
  BY <1>2, <1>3, <1>4 DEF CleanupEnds

LEMMA StepGuarded ==
  ASSUME TypeOK, [Next]_vars, NEW s \in Setups
  PROVE  Guarded(s)
<1>0. ASSUME UNCHANGED diskVars PROVE Guarded(s)
  BY <1>0 DEF diskVars, Guarded
<1>1. ASSUME NEW c \in Callers, Request(c) PROVE Guarded(s)
  BY <1>0, <1>1 DEF Request, StatusRequest, EnqueueRequest, SetupRequest, RemoveRequest,
                    TypeOK, Guarded
<1>2. ASSUME NEW t \in Tasks, Drive(t) PROVE Guarded(s)
  <2>1. CASE DiscardInstance(t)
    BY <2>1, TwoSteps, CleanupGuarded DEF DiscardEnds
  <2> QED
    BY <1>0, <1>2, <2>1
    DEF Drive, Reserve, CheckPrerequisite, FailDependent, StartInstall,
        StartFails, RecordStartFailure, MarkStarted
<1>3. ASSUME NEW c \in Callers, Handle(c) \/ Disconnect(c) PROVE Guarded(s)
  <2>1. CASE RollbackInstance(c)
    BY <2>1 DEF RollbackInstance, TypeOK, Guarded, RolledBack
  <2>2. CASE RemoveInstance(c)
    BY <2>2, TwoSteps, CleanupGuarded DEF RemoveEnds, Tasks
  <2>3. CASE EnqueueBase(c) \/ EnqueueContent(c) \/ Respond(c) \/ Disconnect(c)
    BY <1>0, <2>3 DEF EnqueueBase, EnqueueContent, Respond, SpawnMonitor, Disconnect
  <2> QED
    BY <1>2, <1>3, <2>1, <2>2, <2>3 DEF Handle, Tasks
<1>4. ASSUME NEW m \in EntryIds, Monitor(m) PROVE Guarded(s)
  BY <1>0, <1>2, <1>4 DEF Monitor, Subscribe, ReceiveTerminal, RecordOutcome, SpawnNextMonitor,
                    SpawnMonitor, Tasks
<1>5. ASSUME NEW r \in EntryIds, Work(r) \/ WorkerPanics(r) \/ ForwardLateProgress(r)
      PROVE  Guarded(s)
  <2>1. CASE CleanUpAfterFailure(r) \/ HandleInterruption(r)
    BY <2>1, TwoSteps, CleanupGuarded DEF CleanUpEnds, HandleEnds, Tasks
  <2>2. CASE WorkerSucceeds(r)
    BY <2>2 DEF WorkerSucceeds, TypeOK, Guarded
  <2> QED
    BY <1>0, <1>5, <2>1, <2>2
    DEF Work, BeginMutation, WorkerFails, PublishTerminal, SuperviseReturn, FinishClaimed,
        WorkerPanics, ForwardLateProgress
<1>6. CASE \/ \E r \in Setups : UserTouches(r)
           \/ PruneByPerformanceOperation
           \/ UNCHANGED vars
  BY <1>0, <1>6 DEF UserTouches, PruneByPerformanceOperation, vars, TypeOK, Guarded
<1> QED
  BY <1>1, <1>3, <1>4, <1>5, <1>6 DEF Next

\* A worker that changes an instance was doing so before or has the lock now.
LEMMA MutationBegins ==
  ASSUME TypeOK, LaneInv, [Next]_vars, NEW q \in EntryIds, worker'[q] = "mutating"
  PROVE  worker[q] = "mutating" \/ BeginMutation(q)
<1>1. CASE worker' = worker
  BY <1>1
<1>2. ASSUME NEW c \in Callers, Request(c) PROVE worker' = worker
  BY <1>2 DEF Request, StatusRequest, EnqueueRequest, SetupRequest, RemoveRequest
<1>3. ASSUME NEW t \in Tasks, Drive(t) PROVE worker[q] = "mutating"
  <2>1. worker' = worker \/ worker' = [worker EXCEPT ![held[t]] = "running"]
    BY <1>3 DEF Drive, Reserve, CheckPrerequisite, FailDependent, DiscardInstance, StartInstall,
        StartFails, RecordStartFailure, MarkStarted
  <2> QED
    BY <2>1 DEF TypeOK
<1>4. ASSUME NEW c \in Callers, Handle(c) \/ Disconnect(c), ~Drive(c) PROVE worker' = worker
  BY <1>4 DEF Handle, EnqueueBase, EnqueueContent, RemoveInstance, RollbackInstance, Respond,
              SpawnMonitor, Disconnect
<1>5. ASSUME NEW m \in EntryIds, Monitor(m), ~Drive(m) PROVE worker' = worker
  BY <1>5 DEF Monitor, Subscribe, ReceiveTerminal, RecordOutcome, SpawnNextMonitor, SpawnMonitor
<1>6. ASSUME NEW r \in EntryIds, Work(r) \/ WorkerPanics(r) \/ ForwardLateProgress(r),
             ~BeginMutation(r)
      PROVE  worker[q] = "mutating"
  <2>1. worker' = worker \/ \E w \in WorkerStates \ {"mutating"} : WorkerTo(r, w)
    BY <1>6 DEF Work, WorkerSucceeds, WorkerFails, CleanUpAfterFailure,
         PublishTerminal, SuperviseReturn, HandleInterruption, FinishClaimed,
         WorkerPanics, ForwardLateProgress, WorkerStates
  <2> QED
    BY <2>1 DEF WorkerTo, TypeOK
<1>7. ASSUME NEW r \in EntryIds, BeginMutation(r), r # q PROVE worker[q] = "mutating"
  BY <1>7 DEF BeginMutation, WorkerTo, TypeOK
<1>8. CASE \/ \E r \in Setups : UserTouches(r)
           \/ PruneByPerformanceOperation
           \/ UNCHANGED vars
  BY <1>8 DEF UserTouches, PruneByPerformanceOperation, vars
<1>9. ASSUME NEW c \in Callers, Request(c) \/ Handle(c) \/ Disconnect(c)
      PROVE  worker[q] = "mutating"
  BY <1>1, <1>2, <1>3, <1>4, <1>9 DEF Tasks
<1>10. ASSUME NEW m \in EntryIds, Monitor(m) PROVE worker[q] = "mutating"
  BY <1>1, <1>3, <1>5, <1>10 DEF Tasks
<1> QED
  BY <1>1, <1>6, <1>7, <1>8, <1>9, <1>10 DEF Next

LEMMA EntriesGrow ==
  ASSUME TypeOK, [Next]_vars, NEW q \in DOMAIN entries
  PROVE  entries'[q] = entries[q]
<1>1. ASSUME NEW spec, NEW atFront, Enqueue(spec, atFront) PROVE entries'[q] = entries[q]
  <2>1. entries' = entries \/ entries' = Append(entries, spec)
    BY <1>1 DEF Enqueue
  <2>2. entries \in Seq(Specs)
    BY DEF TypeOK
  <2> QED
    BY <2>1, <2>2
<1>2. ASSUME NEW c \in Callers, Request(c) PROVE entries'[q] = entries[q]
  BY <1>1, <1>2 DEF Request, StatusRequest, EnqueueRequest, SetupRequest, RemoveRequest
<1>3. ASSUME NEW t \in Tasks, Drive(t) PROVE entries'[q] = entries[q]
  BY <1>3 DEF Drive, Reserve, CheckPrerequisite, FailDependent, DiscardInstance, StartInstall,
        StartFails, RecordStartFailure, MarkStarted
<1>4. ASSUME NEW c \in Callers, Handle(c) \/ Disconnect(c) PROVE entries'[q] = entries[q]
  BY <1>1, <1>3, <1>4 DEF Handle, EnqueueBase, EnqueueContent, RemoveInstance, RollbackInstance,
              Respond, SpawnMonitor, Disconnect, Tasks
<1>5. ASSUME NEW m \in EntryIds, Monitor(m) PROVE entries'[q] = entries[q]
  BY <1>3, <1>5 DEF Monitor, Subscribe, ReceiveTerminal, RecordOutcome, SpawnNextMonitor,
              SpawnMonitor, Tasks
<1>6. ASSUME NEW r \in EntryIds, Work(r) \/ WorkerPanics(r) \/ ForwardLateProgress(r)
      PROVE  entries'[q] = entries[q]
  BY <1>6 DEF Work, BeginMutation, WorkerSucceeds, WorkerFails, CleanUpAfterFailure,
         PublishTerminal, SuperviseReturn, HandleInterruption, FinishClaimed,
         WorkerPanics, ForwardLateProgress, WorkerUnchanged
<1>7. CASE \/ \E r \in Setups : UserTouches(r)
           \/ PruneByPerformanceOperation
           \/ UNCHANGED vars
  BY <1>7 DEF UserTouches, PruneByPerformanceOperation, vars
<1> QED
  BY <1>2, <1>4, <1>5, <1>6, <1>7 DEF Next

LEMMA StepApart ==
  ASSUME TypeOK, TypeOK', LaneInv, Apart, [Next]_vars
  PROVE  Apart'
<1>1. ASSUME NEW s \in Setups, NEW q \in (DOMAIN entries)',
             entries'[q].item = s, worker'[q] = "mutating"
      PROVE  lock'[s] = 0
  <2>1. q \in EntryIds
    <3>1. DOMAIN entries' = 1 .. Len(entries') /\ Len(entries') <= MaxEntries
          /\ Len(entries') \in Nat
      BY LenProperties DEF TypeOK
    <3> QED
      BY <3>1, BoundAssumption DEF EntryIds
  <2>2. CASE worker[q] = "mutating"
    <3>1. q \in DOMAIN entries
      BY <2>1, <2>2 DEF LaneInv, SessionLife
    <3>2. Mutating(s)
      BY <1>1, <2>2, <3>1, EntriesGrow DEF Mutating
    <3> QED
      BY <3>2, StepGuarded DEF Apart, Guarded, LockTaken, Locked
  <2>3. CASE BeginMutation(q)
    <3>1. entries[q].item = s /\ lock' = lock
      BY <1>1, <2>3 DEF BeginMutation, WorkerUnchanged, diskVars
    <3>2. lock[s] = 0
      BY <1>1, <2>1, <2>3, <3>1 DEF BeginMutation, WorkerTo, NoSetup, TypeOK
    <3> QED
      BY <3>1, <3>2
  <2> QED
    BY <1>1, <2>1, <2>2, <2>3, MutationBegins
<1> QED
  BY <1>1 DEF Apart, Mutating

\* What the queue chooses for removal and removes is an instance that nobody has
\* used and that no content operation is changing.
THEOREM UsedIsKept == Spec => UsedInstanceKept
<1> DEFINE Kept(s) ==
      InUse(s) /\ (lock'[s] # 0 \/ (instance'[s] = "removed" /\ instance[s] # "removed")) =>
        \E c \in Callers : pc[c] = "rollback" /\ job[c].item = s
<1>1. Init => Apart
  BY DEF Init, Apart, Mutating
<1>2. TypeOK /\ TypeOK' /\ LaneInv /\ Apart /\ [Next]_vars => Apart'
  BY StepApart
<1>3. ASSUME TypeOK, Apart, [Next]_vars, NEW s \in Setups
      PROVE  Kept(s)
  <2>1. Guarded(s)
    BY <1>3, StepGuarded
  <2>2. InUse(s) => lock[s] = 0
    BY <1>3 DEF InUse, Apart
  <2>3. InUse(s) => ~LockTaken(s)
    BY DEF InUse, LockTaken, Locked, Untouched
  <2> QED
    BY <2>1, <2>2, <2>3 DEF Guarded, RolledBack
<1>4. TypeOK /\ Apart /\ [Next]_vars => [\A s \in Setups : Kept(s)]_vars
  BY <1>3
<1>5. Spec => []Apart
  BY Invariance, <1>1, <1>2, PTL DEF Spec
<1> QED
  BY TypeCorrect, <1>4, <1>5, PTL DEF Spec, UsedInstanceKept

-----------------------------------------------------------------------------
(* The owner of the lane.                                                      *)

Dropped == "disconnect" \in abandoned
Owned == active.qid # 0 => (\E t \in Tasks : Responsible(t, active.qid)) \/ Dropped

\* Who is responsible stays so when a task that is not moves.
LEMMA OwnerStays ==
  ASSUME Owned, active'.qid = active.qid, abandoned \subseteq abandoned',
         \A t \in Tasks : Responsible(t, active.qid) => Responsible(t, active.qid)'
  PROVE  Owned'
BY DEF Owned, Dropped, Responsible

LEMMA DriveOwned ==
  ASSUME TypeOK, LaneInv, Owned, NEW t \in Tasks, Drive(t)
  PROVE  Owned'
<1>1. /\ pc[t] \in DrivePcs
      /\ pc[t] \notin WatchPcs
  BY DEF Drive, Reserve, CheckPrerequisite, FailDependent, DiscardInstance, StartInstall,
         StartFails, RecordStartFailure, MarkStarted, DrivePcs, WatchPcs
<1>2. abandoned \subseteq abandoned'
  BY DEF Drive, Reserve, CheckPrerequisite, FailDependent, DiscardInstance, StartInstall,
         StartFails, RecordStartFailure, MarkStarted, historyVars
<1>3. CASE Reserve(t)
  <2>1. CASE active.qid # 0 \/ pending = <<>>
    <3>1. held[t] = 0 \/ ~Responsible(t, active.qid) \/ active.qid = 0
      BY <1>3 DEF Reserve, LaneInv, Holds, HoldPcs
    <3>2. \A u \in Tasks : u # t => pc'[u] = pc[u]
      BY <1>3, <2>1 DEF Reserve, GoTo, TypeOK
    <3>3. active' = active /\ held' = held
      BY <1>3, <2>1 DEF Reserve
    <3>4. held[t] = 0
      BY <1>3 DEF Reserve, LaneInv, Holds, HoldPcs, TypeOK, OptId
    <3>5. \A u \in Tasks : active.qid # 0 /\ Responsible(u, active.qid) =>
                             Responsible(u, active.qid)'
      BY <1>1, <3>2, <3>3, <3>4 DEF Responsible
    <3> QED
      BY <1>2, <3>3, <3>5 DEF Owned, Dropped, Responsible
  <2>2. CASE ~(active.qid # 0 \/ pending = <<>>)
    <3>1. active'.qid = held'[t] /\ pc'[t] = "check"
      BY <1>3, <2>2 DEF Reserve, GoTo, TypeOK
    <3> QED
      BY <3>1 DEF Owned, Responsible
  <2> QED
    BY <2>1, <2>2
<1>4. CASE FailDependent(t) \/ RecordStartFailure(t)
  <2>1. pc[t] \in {"failDependent", "startFailed"}
    BY <1>4 DEF FailDependent, RecordStartFailure
  <2>2. held[t] \in DOMAIN entries
    BY <2>1 DEF LaneInv, Holds, HoldPcs
  <2>3. held[t] \in EntryIds /\ Responsible(t, held[t])
    BY <2>1, <2>2, Basics DEF Responsible
  <2>4. active.qid = held[t]
    BY <2>3 DEF LaneInv, OneMover
  <2>5. active' = NoActive
    BY <1>4, <2>3, <2>4, ReleaseEffect DEF FailDependent, RecordStartFailure
  <2> QED
    BY <2>5 DEF Owned, NoActive
<1>5. CASE CheckPrerequisite(t) \/ StartInstall(t) \/ StartFails(t) \/ MarkStarted(t)
  <2>1. /\ held' = held
        /\ \E l \in {"start", "failDependent", "mark", "startFailed", "respond", "spawn"} :
             GoTo(t, l)
    BY <1>5 DEF CheckPrerequisite, StartInstall, StartFails, MarkStarted
  <2>2. active'.qid = active.qid
    BY <1>5 DEF CheckPrerequisite, StartInstall, StartFails, MarkStarted, queueVars, TypeOK
  <2>3. \A u \in Tasks : Responsible(u, active.qid) => Responsible(u, active.qid)'
    BY <1>1, <2>1, <2>2 DEF Responsible, GoTo, TypeOK
  <2> QED
    BY <1>2, <2>2, <2>3, OwnerStays
<1>6. CASE DiscardInstance(t)
  <2>1. active' = active /\ pc[t] = "discard"
    BY <1>6 DEF DiscardInstance, queueVars
  <2>2. \A u \in Tasks : u # t => pc'[u] = pc[u] /\ held'[u] = held[u]
    BY <1>6 DEF DiscardInstance, GoTo, TypeOK
  <2>3. \A u \in Tasks : Responsible(u, active.qid) => Responsible(u, active.qid)'
    BY <1>1, <2>1, <2>2 DEF Responsible
  <2> QED
    BY <1>2, <2>1, <2>3, OwnerStays
<1> QED
  BY <1>3, <1>4, <1>5, <1>6 DEF Drive

\* A handler at rest has nothing to hand on.
LEMMA IdleOwned ==
  ASSUME TypeOK, LaneInv, Owned, NEW c \in Callers, NEW l \in HandlerPcs \ {"discard"},
         active' = active, abandoned \subseteq abandoned', held' = held,
         GoTo(c, l) \/ pc' = pc
  PROVE  Owned'
<1>1. c \in Tasks /\ pc[c] \notin WatchPcs
  BY Basics DEF Tasks
<1>2. \A u \in Tasks : Responsible(u, active.qid) => Responsible(u, active.qid)'
  BY <1>1 DEF Responsible, GoTo, TypeOK
<1> QED
  BY <1>2, OwnerStays

LEMMA SpawnOwned ==
  ASSUME TypeOK, LaneInv, Owned, NEW t \in Tasks, pc[t] \in {"respond", "spawn"},
         NEW l, NEW j, SpawnMonitor(t, l, j)
  PROVE  Owned'
<1>1. active' = active /\ abandoned' = abandoned /\ pc[t] \notin WatchPcs
  BY DEF SpawnMonitor, queueVars, historyVars, WatchPcs
<1>2. CASE held[t] = 0
  <2>1. held' = held /\ \A u \in Tasks : u # t => pc'[u] = pc[u]
    BY <1>2 DEF SpawnMonitor, TypeOK
  <2>2. \A u \in Tasks : active.qid # 0 /\ Responsible(u, active.qid) =>
                           Responsible(u, active.qid)'
    BY <1>1, <1>2, <2>1 DEF Responsible
  <2> QED
    BY <1>1, <2>2 DEF Owned, Dropped, Responsible
<1>3. CASE held[t] # 0
  <2>1. held[t] \in EntryIds
    BY <1>3, BoundAssumption DEF TypeOK, OptId, EntryIds
  <2>2. Responsible(t, held[t])
    BY DEF Responsible
  <2>3. active.qid = held[t] /\ held[t] \in Tasks
    BY <2>1, <2>2 DEF LaneInv, OneMover, Tasks
  <2>4. pc'[held[t]] = "subscribe"
    BY <1>3, <2>3 DEF SpawnMonitor, TypeOK
  <2>5. Responsible(active.qid, active.qid)'
    BY <1>1, <2>3, <2>4 DEF Responsible, WatchPcs
  <2> QED
    BY <1>1, <2>3, <2>5 DEF Owned
<1> QED
  BY <1>2, <1>3

LEMMA StepOwned ==
  ASSUME TypeOK, LaneInv, Owned, [Next]_vars
  PROVE  Owned'
<1>1. ASSUME NEW c \in Callers, Request(c) PROVE Owned'
  <2>1. active' = active
    <3>1. ASSUME NEW item \in Versions \cup Contents, NEW retry \in BOOLEAN,
                 EnqueueRequest(c, item, retry)
          PROVE  active' = active
      <4>1. [item |-> item, prereq |-> 0] \in Specs
        BY BoundAssumption DEF Specs, Items, OptId
      <4> QED
        BY <3>1, <4>1, EnqueueEffect DEF EnqueueRequest
    <3>2. ASSUME NEW q \in EntryIds, RemoveRequest(c, q)
          PROVE  active' = active
      BY <3>2, RemovalEffect DEF RemoveRequest
    <3> QED
      BY <1>1, <3>1, <3>2 DEF Request, StatusRequest, SetupRequest, queueVars
  <2>2. /\ held' = held /\ abandoned' = abandoned
        /\ pc' = pc \/ \E l \in {"reserve", "enqueueContent", "enqueueBase", "removeInstance"} :
                         GoTo(c, l)
    BY <1>1 DEF Request, StatusRequest, EnqueueRequest, SetupRequest, RemoveRequest, historyVars
  <2> QED
    BY <2>1, <2>2, IdleOwned DEF HandlerPcs, DrivePcs
<1>2. ASSUME NEW c \in Callers, Handle(c) PROVE Owned'
  <2>1. CASE Respond(c)
    BY <2>1, SpawnOwned DEF Respond, Tasks
  <2>2. CASE Drive(c)
    BY <2>2, DriveOwned DEF Tasks
  <2>6. CASE LockOnly
    BY <2>6 DEF LockOnly, queueVars, taskVars, historyVars, Owned, Responsible, Dropped
  <2>3. CASE EnqueueBase(c) \/ EnqueueContent(c) \/ RemoveEnds(c) \/ RollbackInstance(c)
    <3>1. /\ held' = held /\ abandoned' = abandoned
          /\ \E l \in {"reserve", "idle"} : GoTo(c, l)
      BY <2>3 DEF EnqueueBase, EnqueueContent, RemoveEnds, RollbackInstance, historyVars
    <3>2. active' = active
      <4>1. EnqueueBase(c) => [item |-> Base[job[c].item], prereq |-> 0] \in Specs
        BY BaseAssumption, BoundAssumption DEF EnqueueBase, Specs, Items, TypeOK, OptId
      <4>2. EnqueueContent(c) => [item |-> job[c].item, prereq |-> job[c].prereq] \in Specs
        BY DEF EnqueueContent, Specs, Items, TypeOK, Jobs
      <4>3. EnqueueBase(c) => active' = active
        BY <4>1, EnqueueEffect DEF EnqueueBase
      <4>4. EnqueueContent(c) => active' = active
        BY <4>2, EnqueueEffect DEF EnqueueContent
      <4> QED
        BY <2>3, <4>3, <4>4 DEF RemoveEnds, RollbackInstance, queueVars
    <3> QED
      BY <3>1, <3>2, IdleOwned DEF HandlerPcs, DrivePcs
  <2> QED
    BY <1>2, <2>1, <2>2, <2>3, <2>6, TwoSteps DEF Handle
<1>3. ASSUME NEW c \in Callers, Disconnect(c) PROVE Owned'
  BY <1>3 DEF Disconnect, Owned, Dropped
<1>4. ASSUME NEW m \in EntryIds, Monitor(m) PROVE Owned'
  <2>1. CASE Drive(m)
    BY <2>1, DriveOwned DEF Tasks
  <2>2. CASE SpawnNextMonitor(m)
    BY <2>2, SpawnOwned DEF SpawnNextMonitor, Tasks
  <2>3. CASE Subscribe(m) \/ ReceiveTerminal(m)
    <3>1. /\ active' = active /\ held' = held /\ abandoned' = abandoned
          /\ pc[m] \in WatchPcs /\ \E l \in WatchPcs : GoTo(m, l)
      BY <2>3 DEF Subscribe, ReceiveTerminal, Outcome, WatchPcs, queueVars, historyVars
    <3>2. "discard" \notin WatchPcs
      BY DEF WatchPcs
    <3>3. \A u \in Tasks : Responsible(u, active.qid) => Responsible(u, active.qid)'
      BY <3>1, <3>2 DEF Responsible, GoTo, TypeOK, Tasks
    <3> QED
      BY <3>1, <3>3, OwnerStays
  <2>4. CASE RecordOutcome(m)
    <3>1. pc[m] \in WatchPcs
      BY <2>4 DEF RecordOutcome, WatchPcs
    <3>2. install[m] = m /\ active.install = m
      BY <3>1 DEF LaneInv, Steps, StepsOf, Tasks
    <3>3. active.qid = m
      BY <3>2, Basics DEF LaneInv, ActiveKnown
    <3>4. active' = NoActive
      BY <2>4, <3>2, <3>3, ReleaseEffect DEF RecordOutcome
    <3> QED
      BY <3>4 DEF Owned, NoActive
  <2> QED
    BY <1>4, <2>1, <2>2, <2>3, <2>4 DEF Monitor
<1>5. CASE \/ \E s \in EntryIds : Work(s) \/ WorkerPanics(s) \/ ForwardLateProgress(s)
           \/ \E s \in Setups : UserTouches(s)
           \/ PruneByPerformanceOperation
           \/ UNCHANGED vars
  <2>1. UNCHANGED <<active, held, pc, abandoned>>
    BY <1>5 DEF Work, BeginMutation, WorkerSucceeds, WorkerFails, CleanUpAfterFailure,
         PublishTerminal, SuperviseReturn, HandleInterruption, FinishClaimed,
         WorkerPanics, ForwardLateProgress, WorkerUnchanged, UserTouches,
         PruneByPerformanceOperation, vars, queueVars, taskVars, historyVars
  <2> QED
    BY <2>1, OwnerStays DEF Responsible
<1> QED
  BY <1>1, <1>2, <1>3, <1>4, <1>5 DEF Next

\* Exactly one task will release the lane, unless a disconnect dropped it.
THEOREM LaneHasOwner == Spec => []LaneOwned
<1>1. Init => Owned
  BY DEF Init, Owned, NoActive
<1>2. TypeOK /\ LaneInv /\ Owned /\ [Next]_vars => Owned'
  BY StepOwned
<1>3. TypeOK /\ LaneInv /\ Owned => LaneOwned
  <2> SUFFICES ASSUME TypeOK, LaneInv, Owned, active.qid # 0 PROVE LaneOwned
    BY DEF LaneOwned
  <2>1. active.qid \in EntryIds
    BY BoundAssumption DEF TypeOK, OptId, EntryIds
  <2>2. \A t, u \in Tasks : Responsible(t, active.qid) /\ Responsible(u, active.qid) => t = u
    BY <2>1 DEF LaneInv, OneMover
  <2> QED
    BY <2>2 DEF LaneOwned, Owned, Dropped
<1> QED
  BY Invariance, <1>1, <1>2, <1>3, PTL DEF Spec

-----------------------------------------------------------------------------
(* Recorded outcomes: an entry with an outcome has left the queue for good, and *)
(* a success becomes a failure only when its session was pruned in between.     *)

GoneForGood == \A q \in DOMAIN completed : q \in DOMAIN entries /\ q \notin Waiting
NoOutcomeLost == \A q \in DOMAIN completed : verdict[q] = "ok" /\ ~completed[q] => q \in lost
FailureMeant == \A m \in EntryIds : pc[m] = "recordFailure" /\ verdict[m] = "ok" => m \in lost
PrunedIsLost ==
  active.qid # 0 /\ worker[active.qid] # "none" /\ active.qid \notin DOMAIN installs =>
    active.qid \in lost
Faith == GoneForGood /\ NoOutcomeLost /\ FailureMeant /\ PrunedIsLost

\* What a step may leave as it is: no outcome is recorded, no entry enters the queue,
\* verdicts change for live sessions only, workers neither appear nor vanish, and a
\* monitor goes for a failure only if there is one.
OutcomesKept ==
  /\ lost \subseteq lost'
  /\ DOMAIN completed' \subseteq DOMAIN completed
  /\ \A q \in DOMAIN completed' : completed'[q] = completed[q]
NoneQueued == \A q \in DOMAIN entries : (q \in Waiting)' => q \in Waiting
VerdictsKept == \A q \in EntryIds : verdict'[q] = verdict[q] \/ q \in Live(installs)
WorkersKept == \A s \in EntryIds : (worker'[s] = "none") <=> (worker[s] = "none")
FailuresKept == \A m \in EntryIds : pc'[m] = "recordFailure" => pc[m] = "recordFailure"
FailuresTrue ==
  \A m \in EntryIds : pc'[m] = "recordFailure" =>
    \/ pc[m] = "recordFailure"
    \/ m \in lost
    \/ verdict[m] # "ok" /\ m \notin Live(installs)
Quiet == UNCHANGED <<active, pending, completed, entries, installs, lost, verdict>>

\* Sending a task anywhere else adds no failure.
LEMMA GoToKeeps ==
  ASSUME TypeOK, NEW t \in Tasks, NEW l, GoTo(t, l), l # "recordFailure"
  PROVE  FailuresKept
BY DEF GoTo, TypeOK, FailuresKept, Tasks

LEMMA SpawnKeeps ==
  ASSUME TypeOK, NEW t \in Tasks, NEW l, NEW next, SpawnMonitor(t, l, next),
         l # "recordFailure"
  PROVE  FailuresKept
<1>1. ASSUME NEW m \in EntryIds, pc'[m] = "recordFailure"
      PROVE  pc[m] = "recordFailure"
  <2>1. m \in Tasks /\ pc \in [Tasks -> HandlerPcs \cup MonitorPcs]
    BY DEF Tasks, TypeOK
  <2>2. CASE pc' = [pc EXCEPT ![t] = l]
    BY <1>1, <2>1, <2>2
  <2>3. CASE pc' = [pc EXCEPT ![t] = l, ![held[t]] = "subscribe"]
    <3>1. CASE m = held[t] \/ m = t
      BY <1>1, <2>1, <2>3, <3>1
    <3>2. CASE m # held[t] /\ m # t
      BY <1>1, <2>1, <2>3, <3>2
    <3> QED
      BY <3>1, <3>2
  <2> QED
    BY <2>2, <2>3 DEF SpawnMonitor
<1> QED
  BY <1>1 DEF FailuresKept

\* A step that records no outcome.
LEMMA FaithKept ==
  ASSUME TypeOK, LaneInv, Faith, Grown, OutcomesKept, NoneQueued, VerdictsKept,
         FailuresKept \/ FailuresTrue, PrunedIsLost'
  PROVE  Faith'
<1>1. \A q \in DOMAIN completed : q \in EntryIds /\ q # active.qid /\ q \notin Live(installs)
  BY DEF TypeOK, Faith, GoneForGood, Waiting, LaneInv, LaneExclusive
<1>2. GoneForGood'
  BY DEF Faith, GoneForGood, Grown, OutcomesKept, NoneQueued
<1>3. NoOutcomeLost'
  BY <1>1 DEF Faith, NoOutcomeLost, OutcomesKept, VerdictsKept
<1>4. \A m \in EntryIds : pc[m] = "recordFailure" => m \notin Live(installs)
  BY DEF LaneInv, Steps, StepsOf, Tasks
<1>5. FailureMeant'
  BY <1>4 DEF Faith, FailureMeant, FailuresKept, FailuresTrue, VerdictsKept, OutcomesKept
<1> QED
  BY <1>2, <1>3, <1>5 DEF Faith

\* A step that keeps the active entry and the sessions.
LEMMA PrunedKept ==
  ASSUME TypeOK, Faith, active'.qid = active.qid, lost \subseteq lost',
         DOMAIN installs \subseteq DOMAIN installs', WorkersKept
  PROVE  PrunedIsLost'
<1>1. active.qid # 0 => active.qid \in EntryIds
  BY BoundAssumption DEF TypeOK, OptId, EntryIds
<1> QED
  BY <1>1 DEF Faith, PrunedIsLost, WorkersKept

\* The lane is released with an outcome for its entry.
LEMMA FaithRecorded ==
  ASSUME TypeOK, LaneInv, Faith, NEW q \in EntryIds, NEW ok \in BOOLEAN,
         q \in DOMAIN entries, active.qid = q, ReleaseWithOutcome(q, ok),
         verdict[q] = "ok" => ok \/ q \in lost,
         UNCHANGED <<entries, installs, worker, verdict, lost>>, FailuresKept
  PROVE  Faith'
<1> DEFINE table == [p \in DOMAIN completed \cup {q} |-> IF p = q THEN ok ELSE completed[p]]
           order == Append(SelectSeq(completedOrder, LAMBDA p : p # q), q)
<1>1. SetQueue(NoActive, pending, table, order)
  BY DEF ReleaseWithOutcome
<1>2. DOMAIN table = DOMAIN completed \cup {q}
  OBVIOUS
<1>3. \A p \in DOMAIN table : table[p] = IF p = q THEN ok ELSE completed[p]
  OBVIOUS
<1> HIDE DEF table, order
<1>4. /\ active' = NoActive /\ pending' = pending
      /\ DOMAIN completed' \subseteq DOMAIN completed \cup {q}
      /\ \A p \in DOMAIN completed' : completed'[p] = IF p = q THEN ok ELSE completed[p]
  BY <1>1, <1>2, <1>3, SetQueueEffect
<1>5. \A i \in DOMAIN pending : pending[i] # q
  BY DEF LaneInv, PendingFresh
<1>6. DOMAIN completed \subseteq EntryIds
  BY DEF TypeOK
<1>7. GoneForGood'
  <2>1. ASSUME NEW p \in DOMAIN completed' PROVE p \in DOMAIN entries' /\ (p \notin Waiting)'
    <3>1. p \in EntryIds /\ p \in DOMAIN entries /\ p \notin ToSet(pending) /\ p # 0
      BY <1>4, <1>5, <1>6, Basics DEF Faith, GoneForGood, Waiting, ToSet
    <3> QED
      BY <1>4, <3>1 DEF Waiting, NoActive
  <2> QED
    BY <2>1 DEF GoneForGood
<1>8. NoOutcomeLost' /\ FailureMeant' /\ PrunedIsLost'
  BY <1>4 DEF Faith, NoOutcomeLost, FailureMeant, PrunedIsLost, NoActive, FailuresKept
<1> QED
  BY <1>7, <1>8 DEF Faith

\* A step that touches neither the queue nor an outcome.
LEMMA FaithQuiet ==
  ASSUME TypeOK, LaneInv, Faith, Quiet, WorkersKept, FailuresKept \/ FailuresTrue
  PROVE  Faith'
<1>1. PrunedIsLost'
  BY PrunedKept DEF Quiet
<1>2. Grown
  BY SameSpecs DEF Quiet
<1>3. OutcomesKept /\ NoneQueued /\ VerdictsKept
  BY DEF Quiet, OutcomesKept, NoneQueued, VerdictsKept, Waiting
<1> QED
  BY <1>1, <1>2, <1>3, FaithKept

LEMMA EnqueueFaith ==
  ASSUME TypeOK, LaneInv, Faith, NEW spec \in Specs, NEW atFront \in BOOLEAN, TypeOK',
         Enqueue(spec, atFront), UNCHANGED <<installs, worker, verdict, lost>>, FailuresKept
  PROVE  Faith'
<1>1. UNCHANGED <<active, completed>> /\ Grown
  BY EnqueueEffect
<1>2. Shown
  BY EnqueueShown
<1>3. PrunedIsLost'
  BY <1>1, PrunedKept DEF WorkersKept
<1>4. ASSUME NEW q \in DOMAIN completed PROVE q \in DOMAIN entries' /\ (q \notin Waiting)'
  <2>1. q \in EntryIds /\ q \in DOMAIN entries /\ q \notin Waiting
    BY DEF TypeOK, Faith, GoneForGood
  <2>2. StatusOf(q)' = StatusOf(q)
    <3>1. StatusOf(q) \notin {"unused", "queued", "running"}
      BY <2>1, StatusFacts DEF StatusOf, TypeOK, Waiting
    <3> QED
      BY <1>2, <2>1, <3>1 DEF Shown, Same, Submitted, Moved, Begun, Ended, OthersShown
  <2>3. q \in DOMAIN entries'
    BY <1>1, <2>1 DEF Grown
  <2>4. CASE worker[q] = "none"
    <3>1. StatusOf(q) = "dropped" /\ verdict[q] = "none"
      BY <2>1, <2>4, StatusFacts
    <3>2. StatusOf(q)' = "dropped"
      BY <2>2, <3>1
    <3> QED
      BY <2>3, <2>4, <3>1, <3>2 DEF StatusOf, Waiting
  <2>5. CASE worker[q] # "none"
    <3>1. PendingFresh'
      BY EnqueueEffect
    <3>2. q \notin ToSet(pending)'
      BY <2>5, <3>1 DEF PendingFresh, ToSet
    <3> QED
      BY <1>1, <2>1, <2>3, <3>2 DEF Waiting
  <2> QED
    BY <2>4, <2>5
<1>5. GoneForGood' /\ NoOutcomeLost' /\ FailureMeant'
  BY <1>1, <1>4 DEF Faith, GoneForGood, NoOutcomeLost, FailureMeant, FailuresKept
<1> QED
  BY <1>3, <1>5 DEF Faith

LEMMA LockFaith ==
  ASSUME Faith, LockOnly
  PROVE  Faith'
BY DEF LockOnly, queueVars, taskVars, historyVars, Faith, GoneForGood, NoOutcomeLost,
       FailureMeant, PrunedIsLost, Waiting

LEMMA DriveFaith ==
  ASSUME TypeOK, LaneInv, Faith, NEW t \in Tasks, Drive(t)
  PROVE  Faith'
<1>0. CASE LockOnly
  BY <1>0, LockFaith
<1> SUFFICES ASSUME ~LockOnly PROVE Faith'
  BY <1>0
<1>1. FailuresKept
  <2>1. PICK l \in {"respond", "over", "check", "start", "failDependent", "discard", "reserve",
                    "mark", "startFailed", "rollback", "removeInstance", "idle", "spawn"} : GoTo(t, l)
    BY TwoSteps DEF Drive, Reserve, CheckPrerequisite, FailDependent, DiscardEnds, StartInstall,
           StartFails, RecordStartFailure, MarkStarted, AfterError
  <2> QED
    BY <2>1, GoToKeeps
<1>2. UNCHANGED <<entries, verdict, lost>> /\ Grown
  BY SameSpecs DEF Drive, Reserve, CheckPrerequisite, FailDependent, DiscardInstance,
     StartInstall, StartFails, RecordStartFailure, MarkStarted, historyVars
<1>3. CASE FailDependent(t) \/ RecordStartFailure(t)
  <2>1. pc[t] \in {"failDependent", "startFailed"} /\ UNCHANGED <<installs, worker>>
    BY <1>3 DEF FailDependent, RecordStartFailure
  <2>2. held[t] \in DOMAIN entries /\ worker[held[t]] = "none"
    BY <2>1 DEF LaneInv, Holds, HoldPcs, Steps, StepsOf
  <2>3. held[t] \in EntryIds /\ Responsible(t, held[t])
    BY <2>1, <2>2, Basics DEF Responsible
  <2>4. active.qid = held[t] /\ verdict[held[t]] # "ok"
    BY <2>2, <2>3, StatusFacts DEF LaneInv, OneMover
  <2>5. ReleaseWithOutcome(held[t], FALSE)
    BY <1>3, <2>4 DEF FailDependent, RecordStartFailure
  <2> QED
    BY <1>1, <1>2, <2>1, <2>2, <2>3, <2>4, <2>5, FaithRecorded
<1>4. CASE CheckPrerequisite(t) \/ DiscardInstance(t) \/ StartFails(t)
  <2>1. Quiet /\ WorkersKept
    BY <1>2, <1>4 DEF CheckPrerequisite, DiscardInstance, StartFails, queueVars, Quiet, WorkersKept
  <2> QED
    BY <1>1, <2>1, FaithQuiet
<1>5. CASE MarkStarted(t)
  <2>1. /\ UNCHANGED <<pending, completed, installs, worker>>
        /\ active'.qid = active.qid
    BY <1>5 DEF MarkStarted, TypeOK
  <2>2. PrunedIsLost'
    BY <1>2, <2>1, PrunedKept DEF WorkersKept
  <2>3. OutcomesKept /\ NoneQueued /\ VerdictsKept
    BY <1>2, <2>1 DEF OutcomesKept, NoneQueued, VerdictsKept, Waiting
  <2> QED
    BY <1>1, <1>2, <2>2, <2>3, FaithKept
<1>6. CASE Reserve(t)
  <2>1. UNCHANGED <<completed, installs, worker>>
    BY <1>6 DEF Reserve
  <2>2. CASE active.qid # 0 \/ pending = <<>>
    <3>1. Quiet /\ WorkersKept
      BY <1>2, <1>6, <2>1, <2>2 DEF Reserve, Quiet, WorkersKept
    <3> QED
      BY <1>1, <3>1, FaithQuiet
  <2>3. CASE ~(active.qid # 0 \/ pending = <<>>)
    <3>1. /\ pending # <<>>
          /\ active'.qid = Head(pending) /\ pending' = Tail(pending)
      BY <1>6, <2>3 DEF Reserve
    <3>2. /\ pending \in Seq(EntryIds)
          /\ Len(pending) \in Nat /\ DOMAIN pending = 1 .. Len(pending)
          /\ Len(pending) # 0
      BY <3>1, LenProperties, EmptySeq DEF TypeOK
    <3>3. /\ Head(pending) = pending[1]
          /\ Len(pending') = Len(pending) - 1
          /\ pending' \in Seq(EntryIds)
          /\ \A k \in 1 .. Len(pending) - 1 : pending'[k] = pending[k + 1]
      BY <3>1, <3>2, HeadTailProperties
    <3>4. DOMAIN pending' = 1 .. Len(pending) - 1
      BY <3>3, LenProperties
    <3>5. ASSUME NEW k \in DOMAIN pending' PROVE pending'[k] \in ToSet(pending)
      <4>1. k + 1 \in DOMAIN pending /\ pending'[k] = pending[k + 1]
        BY <3>2, <3>3, <3>4
      <4> QED
        BY <4>1 DEF ToSet
    <3>6. Head(pending) \in ToSet(pending) /\ worker[Head(pending)] = "none"
      BY <3>2, <3>3 DEF ToSet, LaneInv, PendingFresh
    <3>7. NoneQueued
      BY <3>1, <3>5, <3>6 DEF Waiting, ToSet, NoneQueued
    <3>8. PrunedIsLost'
      BY <2>1, <3>1, <3>6 DEF PrunedIsLost
    <3>9. OutcomesKept /\ VerdictsKept
      BY <1>2, <2>1 DEF OutcomesKept, VerdictsKept
    <3> QED
      BY <1>1, <1>2, <3>7, <3>8, <3>9, FaithKept
  <2> QED
    BY <2>2, <2>3
<1>7. CASE StartInstall(t)
  <2>1. pc[t] = "start" /\ UNCHANGED <<active, pending, completed>>
    BY <1>7 DEF StartInstall, queueVars
  <2>2. held[t] \in DOMAIN entries /\ worker[held[t]] = "none"
    BY <2>1 DEF LaneInv, Holds, HoldPcs, Steps, StepsOf
  <2>3. held[t] \in EntryIds /\ Responsible(t, held[t])
    BY <2>1, <2>2, Basics DEF Responsible
  <2>4. active.qid = held[t]
    BY <2>3 DEF LaneInv, OneMover
  <2>5. Live(installs) = {}
    BY <2>2, <2>4 DEF LaneInv, LaneExclusive, SessionLife, Live
  <2>6. held[t] \in DOMAIN installs'
    BY <1>7, <2>5 DEF StartInstall, InsertSession
  <2>7. PrunedIsLost'
    BY <2>1, <2>4, <2>6 DEF PrunedIsLost
  <2>8. OutcomesKept /\ NoneQueued /\ VerdictsKept
    BY <1>2, <2>1 DEF OutcomesKept, NoneQueued, VerdictsKept, Waiting
  <2> QED
    BY <1>1, <1>2, <2>7, <2>8, FaithKept
<1> QED
  BY <1>3, <1>4, <1>5, <1>6, <1>7 DEF Drive

LEMMA HandlerFaith ==
  ASSUME TypeOK, LaneInv, Faith, TypeOK', NEW c \in Callers,
         Request(c) \/ Handle(c) \/ Disconnect(c)
  PROVE  Faith'
<1>1. c \notin EntryIds /\ c \in Tasks
  BY Basics DEF Tasks
<1>3. CASE Respond(c)
  <2>1. Quiet /\ WorkersKept
    BY <1>3 DEF Respond, SpawnMonitor, queueVars, historyVars, Quiet, WorkersKept
  <2>2. FailuresKept
    BY <1>1, <1>3, SpawnKeeps DEF Respond
  <2> QED
    BY <2>1, <2>2, FaithQuiet
<1>4. ASSUME NEW item \in Versions \cup Contents, NEW retry \in BOOLEAN,
             EnqueueRequest(c, item, retry)
      PROVE  Faith'
  <2>1. [item |-> item, prereq |-> 0] \in Specs
    BY BoundAssumption DEF Specs, Items, OptId
  <2>2. FailuresKept
    BY <1>1, <1>4, GoToKeeps DEF EnqueueRequest
  <2> QED
    BY <1>4, <2>1, <2>2, EnqueueFaith DEF EnqueueRequest, historyVars
<1>5. CASE EnqueueBase(c)
  <2>1. [item |-> Base[job[c].item], prereq |-> 0] \in Specs
    BY <1>5, BaseAssumption, BoundAssumption DEF EnqueueBase, Specs, Items, TypeOK, OptId
  <2>2. FailuresKept
    BY <1>1, <1>5, GoToKeeps DEF EnqueueBase
  <2> QED
    BY <1>5, <2>1, <2>2, EnqueueFaith DEF EnqueueBase, historyVars
<1>6. CASE EnqueueContent(c)
  <2>1. [item |-> job[c].item, prereq |-> job[c].prereq] \in Specs
    BY <1>6 DEF EnqueueContent, Specs, Items, TypeOK, Jobs
  <2>2. FailuresKept
    BY <1>1, <1>6, GoToKeeps DEF EnqueueContent
  <2> QED
    BY <1>6, <2>1, <2>2, EnqueueFaith DEF EnqueueContent, historyVars
<1>7. ASSUME NEW q \in EntryIds, RemoveRequest(c, q)
      PROVE  Faith'
  <2>1. FailuresKept
    <3>1. CASE UNCHANGED pc
      BY <3>1 DEF FailuresKept
    <3>2. CASE GoTo(c, "removeInstance")
      BY <1>1, <3>2, GoToKeeps
    <3> QED
      BY <1>7, <3>1, <3>2 DEF RemoveRequest
  <2>2. PICK i \in DOMAIN pending :
          SetQueue(active, RemoveAt(pending, i), completed, completedOrder)
    BY <1>7 DEF RemoveRequest
  <2>3. UNCHANGED <<entries, installs, worker, verdict, lost>> /\ Grown
    BY <1>7, SameSpecs DEF RemoveRequest, historyVars
  <2>4. /\ active' = active /\ pending' = RemoveAt(pending, i)
        /\ DOMAIN completed' \subseteq DOMAIN completed
        /\ \A p \in DOMAIN completed' : completed'[p] = completed[p]
    BY <2>2, SetQueueEffect
  <2>5. ASSUME NEW k \in DOMAIN pending' PROVE pending'[k] \in ToSet(pending)
    <3>1. /\ Len(pending) \in Nat /\ DOMAIN pending = 1 .. Len(pending)
          /\ pending \in Seq(EntryIds)
      BY LenProperties DEF TypeOK
    <3>2. /\ pending' \in Seq(EntryIds)
          /\ Len(pending') = Len(pending) - 1
          /\ \A j \in 1 .. Len(pending) - 1 :
               pending'[j] = IF j < i THEN pending[j] ELSE pending[j + 1]
      BY <2>4, <3>1, RemoveAtProperties
    <3>3. k \in 1 .. Len(pending) - 1
      BY <3>2, LenProperties
    <3>4. \E j \in 1 .. Len(pending) : pending'[k] = pending[j]
      BY <3>1, <3>2, <3>3
    <3> QED
      BY <3>1, <3>4 DEF ToSet
  <2>6. OutcomesKept /\ NoneQueued /\ VerdictsKept /\ WorkersKept
    BY <2>3, <2>4, <2>5 DEF Waiting, ToSet, OutcomesKept, NoneQueued, VerdictsKept, WorkersKept
  <2>7. PrunedIsLost'
    BY <2>3, <2>4, <2>6, PrunedKept
  <2> QED
    BY <2>1, <2>3, <2>6, <2>7, FaithKept
<1>9. CASE LockOnly
  BY <1>9, LockFaith
<1>8. CASE \/ StatusRequest(c) \/ (\E s \in Setups : SetupRequest(c, s))
           \/ RemoveEnds(c) \/ RollbackInstance(c) \/ Disconnect(c)
  <2>1. Quiet /\ WorkersKept
    BY <1>8 DEF StatusRequest, SetupRequest, RemoveEnds, RollbackInstance, Disconnect,
       queueVars, historyVars, Quiet, WorkersKept
  <2>2. \E l \in {"reserve", "enqueueContent", "enqueueBase", "idle"} : GoTo(c, l)
    BY <1>8 DEF StatusRequest, SetupRequest, RemoveEnds, RollbackInstance, Disconnect
  <2>3. FailuresKept
    BY <1>1, <2>2, GoToKeeps
  <2> QED
    BY <2>1, <2>3, FaithQuiet
<1> QED
  BY <1>1, <1>3, <1>4, <1>5, <1>6, <1>7, <1>8, <1>9, DriveFaith, TwoSteps DEF Request, Handle

LEMMA MonitorFaith ==
  ASSUME TypeOK, LaneInv, Faith, NEW m \in EntryIds, Monitor(m)
  PROVE  Faith'
<1>1. m \in Tasks
  BY DEF Tasks
<1>2. CASE Subscribe(m) \/ ReceiveTerminal(m)
  <2>1. /\ UNCHANGED <<active, pending, completed, entries, installs, lost, verdict, worker>>
        /\ pc[m] \in WatchPcs
        /\ \E l \in WatchPcs : GoTo(m, l)
    BY <1>2 DEF Subscribe, ReceiveTerminal, Outcome, WatchPcs, queueVars, historyVars
  <2>2. install[m] = m /\ active.install = m
    BY <1>1, <2>1 DEF LaneInv, Steps, StepsOf
  <2>3. active.qid = m /\ worker[m] # "none"
    BY <2>2, Basics DEF LaneInv, ActiveKnown, MarkedIsWorked
  <2>4. pc'[m] = "recordFailure" => m \in lost \/ (verdict[m] # "ok" /\ m \notin Live(installs))
    <3>1. CASE Subscribe(m)
      <4>1. CASE m \notin DOMAIN installs
        BY <2>3, <4>1, Basics DEF Faith, PrunedIsLost
      <4>2. CASE m \in DOMAIN installs /\ installs[m].done
        <5>1. verdict[m] = installs[m].latest
          BY <4>2 DEF LaneInv, SessionLife
        <5> QED
          BY <1>1, <2>2, <3>1, <4>2, <5>1 DEF Subscribe, GoTo, Outcome, TypeOK, Live
      <4>3. CASE m \in DOMAIN installs /\ ~installs[m].done
        BY <1>1, <2>2, <3>1, <4>3 DEF Subscribe, GoTo, TypeOK
      <4> QED
        BY <4>1, <4>2, <4>3
    <3>2. CASE ReceiveTerminal(m)
      <4>1. verdict[m] # "none" /\ (pc'[m] = "recordFailure" => verdict[m] # "ok")
        BY <1>1, <2>2, <3>2 DEF ReceiveTerminal, GoTo, Outcome, TypeOK
      <4>2. m \notin Live(installs)
        BY <4>1 DEF LaneInv, SessionLife, Live
      <4> QED
        BY <4>1, <4>2
    <3> QED
      BY <1>2, <3>1, <3>2
  <2>5. \A q \in EntryIds : q # m => pc'[q] = pc[q]
    BY <2>1 DEF GoTo, TypeOK
  <2>6. Quiet /\ WorkersKept
    BY <2>1 DEF Quiet, WorkersKept
  <2>7. ASSUME NEW q \in EntryIds, pc'[q] = "recordFailure"
        PROVE  \/ pc[q] = "recordFailure"
               \/ q \in lost
               \/ verdict[q] # "ok" /\ q \notin Live(installs)
    <3>1. CASE q = m
      BY <2>4, <2>7, <3>1
    <3>2. CASE q # m
      BY <2>5, <2>7, <3>2
    <3> QED
      BY <3>1, <3>2
  <2>8. FailuresTrue
    BY <2>7 DEF FailuresTrue
  <2> QED
    BY <2>6, <2>8, FaithQuiet
<1>3. CASE RecordOutcome(m)
  <2>1. /\ UNCHANGED <<entries, installs, worker, verdict, lost>>
        /\ pc[m] \in {"recordSuccess", "recordFailure"} /\ GoTo(m, "reserve")
    BY <1>3 DEF RecordOutcome, historyVars
  <2>2. install[m] = m /\ active.install = m
    BY <1>1, <2>1 DEF LaneInv, Steps, StepsOf, WatchPcs
  <2>3. active.qid = m /\ m \in DOMAIN entries
    BY <2>2, Basics DEF LaneInv, ActiveKnown
  <2>4. ReleaseWithOutcome(m, pc[m] = "recordSuccess")
    BY <1>3, <2>2, <2>3 DEF RecordOutcome
  <2>5. verdict[m] = "ok" => pc[m] = "recordSuccess" \/ m \in lost
    BY <2>1 DEF Faith, FailureMeant
  <2>6. FailuresKept
    BY <1>1, <2>1, GoToKeeps
  <2> QED
    BY <2>1, <2>3, <2>4, <2>5, <2>6, FaithRecorded
<1>4. CASE SpawnNextMonitor(m)
  <2>1. Quiet /\ WorkersKept
    BY <1>4 DEF SpawnNextMonitor, SpawnMonitor, queueVars, historyVars, Quiet, WorkersKept
  <2>2. FailuresKept
    BY <1>1, <1>4, SpawnKeeps DEF SpawnNextMonitor
  <2> QED
    BY <2>1, <2>2, FaithQuiet
<1> QED
  BY <1>1, <1>2, <1>3, <1>4, DriveFaith DEF Monitor

LEMMA WorkFaith ==
  ASSUME TypeOK, LaneInv, Faith, NEW s \in EntryIds,
         Work(s) \/ WorkerPanics(s) \/ ForwardLateProgress(s)
  PROVE  Faith'
<1>1. UNCHANGED <<active, pending, completed, entries, pc, lost>> /\ Grown
  BY SameSpecs DEF Work, BeginMutation, WorkerSucceeds, WorkerFails, CleanUpAfterFailure,
         PublishTerminal, SuperviseReturn, HandleInterruption, FinishClaimed,
         WorkerPanics, ForwardLateProgress, WorkerUnchanged, queueVars, taskVars, historyVars
<1>2. WorkersKept
  <2>1. CASE ForwardLateProgress(s)
    BY <2>1 DEF ForwardLateProgress, WorkersKept
  <2>2. CASE Work(s) \/ WorkerPanics(s)
    <3>1. /\ worker[s] # "none"
          /\ worker' = worker \/ \E w \in WorkerStates \ {"none"} : WorkerTo(s, w)
      BY <2>2 DEF Work, BeginMutation, WorkerSucceeds, WorkerFails, CleanUpAfterFailure,
             PublishTerminal, SuperviseReturn, HandleInterruption, FinishClaimed,
             WorkerPanics, Is, WorkerStates
    <3> QED
      BY <3>1 DEF WorkerTo, TypeOK, WorkersKept
  <2> QED
    BY <2>1, <2>2
<1>3. /\ DOMAIN installs' = DOMAIN installs
      /\ VerdictsKept
  <2>1. \/ UNCHANGED <<installs, verdict>>
        \/ UNCHANGED verdict /\ installs' = [installs EXCEPT ![s].finishing = TRUE]
        \/ s \in Live(installs) /\ \E record, terminal : Publish(s, record, terminal)
    BY DEF Work, BeginMutation, WorkerSucceeds, WorkerFails, CleanUpAfterFailure,
         PublishTerminal, SuperviseReturn, HandleInterruption, FinishClaimed,
         WorkerPanics, ForwardLateProgress, EmitRecord, Live
  <2> QED
    <3>1. CASE UNCHANGED verdict
      BY <2>1, <3>1 DEF Publish, VerdictsKept
    <3>2. CASE s \in Live(installs) /\ \E record, terminal : Publish(s, record, terminal)
      BY <3>2 DEF Publish, TypeOK, VerdictsKept
    <3> QED
      BY <2>1, <3>1, <3>2
<1>4. PrunedIsLost'
  BY <1>1, <1>2, <1>3, PrunedKept
<1>5. OutcomesKept /\ NoneQueued /\ FailuresKept
  BY <1>1 DEF OutcomesKept, NoneQueued, FailuresKept, Waiting
<1> QED
  BY <1>1, <1>3, <1>4, <1>5, FaithKept

LEMMA StepFaith ==
  ASSUME TypeOK, LaneInv, Faith, [Next]_vars
  PROVE  Faith'
<1>1. CASE UNCHANGED vars \/ \E s \in Setups : UserTouches(s)
  <2>1. Quiet /\ WorkersKept /\ FailuresKept
    BY <1>1 DEF vars, UserTouches, queueVars, taskVars, historyVars, Quiet, WorkersKept,
       FailuresKept
  <2> QED
    BY <2>1, FaithQuiet
<1>2. CASE PruneByPerformanceOperation
  <2>1. /\ UNCHANGED <<active, pending, completed, entries, pc, verdict, worker>> /\ Grown
        /\ installs' = [s \in Live(installs) |-> installs[s]]
        /\ lost' = lost \cup ((DOMAIN installs \ Live(installs)) \cap {active.qid})
    BY <1>2, SameSpecs DEF PruneByPerformanceOperation, queueVars, taskVars
  <2>2. PrunedIsLost'
    BY <2>1 DEF Faith, PrunedIsLost
  <2>3. OutcomesKept /\ NoneQueued /\ VerdictsKept /\ FailuresKept
    BY <2>1 DEF OutcomesKept, NoneQueued, VerdictsKept, FailuresKept, Waiting
  <2> QED
    BY <2>1, <2>2, <2>3, FaithKept
<1>3. TypeOK'
  BY TypesPreserved
<1> QED
  BY <1>1, <1>2, <1>3, HandlerFaith, MonitorFaith, WorkFaith DEF Next

\* Recorded outcomes are the published ones, but for sessions pruned by a
\* performance operation before their monitor could read them.
THEOREM OutcomesAreTrue == Spec => []OutcomeFaithful
<1>1. Init => Faith
  BY DEF Init, Faith, GoneForGood, NoOutcomeLost, FailureMeant, PrunedIsLost, NoActive, Tasks
<1>2. TypeOK /\ LaneInv /\ Faith /\ [Next]_vars => Faith'
  BY StepFaith
<1>3. LaneInv /\ Faith => OutcomeFaithful
  BY DEF LaneInv, SuccessReal, Faith, NoOutcomeLost, OutcomeFaithful
<1> QED
  BY Invariance, <1>1, <1>2, <1>3, PTL DEF Spec

-----------------------------------------------------------------------------
(* Failed setups: every way to fail passes a cleanup, which removes the instance *)
(* or gives up, and an instance that exists never becomes pristine again.        *)

EntriesMade ==
  \A q \in DOMAIN entries :
    entries[q].item \in Setups => instance[entries[q].item] # "absent"
JobsMade ==
  \A c \in Callers :
    /\ job[c].kind = "base" /\ job[c].item \in Setups => instance[job[c].item] # "absent"
    /\ pc[c] = "enqueueContent" => job[c].kind = "base"
AtWork ==
  \A q \in EntryIds : worker[q] \in {"running", "mutating", "cleaning", "claimed"} =>
    verdict[q] = "none"
Cleaned ==
  \A q \in DOMAIN entries :
    entries[q].item \in Setups /\ (worker[q] \in {"failed", "handled"} \/ verdict[q] = "error") =>
      instance[entries[q].item] # "pristine"
Care == EntriesMade /\ JobsMade /\ AtWork /\ Cleaned

\* How a step may change an instance, the entries and the workers.
InstanceMoves ==
  \A s \in Setups :
    \/ instance'[s] = instance[s]
    \/ instance'[s] \in {"spared", "touched", "removed"}
    \/ instance[s] = "absent" /\ instance'[s] = "pristine"
NewMade ==
  \A q \in DOMAIN entries' :
    q \in DOMAIN entries \/ (entries'[q].item \in Setups => instance[entries'[q].item] # "absent")
WorkKept ==
  \A q \in EntryIds :
    /\ verdict'[q] = verdict[q]
    /\ worker'[q] = worker[q] \/ (worker[q] = "none" /\ worker'[q] = "running")

LEMMA CareKept ==
  ASSUME TypeOK, LaneInv, Care, Grown, InstanceMoves, NewMade, WorkKept, JobsMade'
  PROVE  Care'
<1>1. DOMAIN entries \subseteq EntryIds /\ DOMAIN entries' \subseteq EntryIds
  <2>1. /\ DOMAIN entries' = 1 .. Len(entries') /\ Len(entries') \in Nat
        /\ Len(entries') <= MaxEntries
    BY LenProperties DEF Grown
  <2> QED
    BY <2>1, Basics, BoundAssumption DEF EntryIds
<1>2. \A q \in EntryIds : q \notin DOMAIN entries => worker[q] = "none" /\ verdict[q] = "none"
  BY DEF LaneInv, SessionLife
<1>3. EntriesMade'
  BY DEF Care, EntriesMade, Grown, InstanceMoves, NewMade
<1>4. AtWork'
  BY DEF Care, AtWork, WorkKept, LaneInv, SessionLife
<1>5. ASSUME NEW q \in DOMAIN entries', entries'[q].item \in Setups,
             worker'[q] \in {"failed", "handled"} \/ verdict'[q] = "error"
      PROVE  instance'[entries'[q].item] # "pristine"
  <2>1. q \in EntryIds /\ (worker[q] \in {"failed", "handled"} \/ verdict[q] = "error")
    BY <1>1, <1>5 DEF WorkKept
  <2>2. q \in DOMAIN entries /\ entries'[q] = entries[q]
    BY <1>2, <2>1 DEF Grown
  <2>3. instance[entries[q].item] \notin {"pristine", "absent"}
    BY <1>5, <2>1, <2>2 DEF Care, Cleaned, EntriesMade
  <2> QED
    BY <1>5, <2>2, <2>3 DEF InstanceMoves
<1>6. Cleaned'
  BY <1>5 DEF Cleaned
<1> QED
  BY <1>3, <1>4, <1>6 DEF Care

\* A step that starts no job.
LEMMA JobsKept ==
  ASSUME TypeOK, JobsMade, InstanceMoves, job' = job,
         \A c \in Callers : pc'[c] = "enqueueContent" => pc[c] = "enqueueContent"
  PROVE  JobsMade'
BY DEF JobsMade, InstanceMoves

\* A handler drops its job or goes on with it.
LEMMA JobGoesOn ==
  ASSUME TypeOK, JobsMade, InstanceMoves, NEW c \in Callers,
         \A d \in Callers : d # c => job'[d] = job[d] /\ pc'[d] = pc[d],
         job'[c].kind # "base" \/ (job[c].kind = "base" /\ job'[c].item = job[c].item),
         pc'[c] # "enqueueContent" \/ job'[c].kind = "base"
  PROVE  JobsMade'
<1>1. ASSUME NEW d \in Callers
      PROVE  /\ job'[d].kind = "base" /\ job'[d].item \in Setups => instance'[job'[d].item] # "absent"
             /\ pc'[d] = "enqueueContent" => job'[d].kind = "base"
  <2>1. CASE d = c
    BY <2>1 DEF JobsMade, InstanceMoves
  <2>2. CASE d # c
    BY <2>2 DEF JobsMade, InstanceMoves
  <2> QED
    BY <2>1, <2>2
<1> QED
  BY <1>1 DEF JobsMade

LEMMA SameInstances ==
  ASSUME UNCHANGED instance
  PROVE  InstanceMoves
BY DEF InstanceMoves

LEMMA CleanupMoves ==
  ASSUME TypeOK, NEW x, NEW s, CleanupEnds(x, s)
  PROVE  InstanceMoves
BY DEF CleanupEnds, GivesUp, RemovesInstance, Spare, InstanceMoves, TypeOK

LEMMA LockCare ==
  ASSUME Care, LockOnly
  PROVE  Care'
BY DEF LockOnly, taskVars, Care, EntriesMade, JobsMade, AtWork, Cleaned

LEMMA OldEntries ==
  ASSUME UNCHANGED entries
  PROVE  NewMade
BY DEF NewMade

\* A queued spec names no instance or one that was created.
LEMMA EnqueueMade ==
  ASSUME TypeOK, NEW spec \in Specs, NEW atFront \in BOOLEAN, Enqueue(spec, atFront),
         spec.item \in Setups => instance[spec.item] # "absent"
  PROVE  NewMade
<1>1. entries' = entries \/ entries' = Append(entries, spec)
  BY DEF Enqueue
<1>2. CASE entries' = entries
  BY <1>2 DEF NewMade
<1>3. CASE entries' = Append(entries, spec)
  <2>1. entries \in Seq(Specs)
    BY DEF TypeOK
  <2>2. /\ Len(entries') = Len(entries) + 1 /\ Len(entries) \in Nat
        /\ entries' \in Seq(Specs)
        /\ entries'[Len(entries) + 1] = spec
    BY <1>3, <2>1, AppendProperties, LenProperties
  <2>3. DOMAIN entries' = 1 .. Len(entries) + 1 /\ DOMAIN entries = 1 .. Len(entries)
    BY <2>1, <2>2, LenProperties
  <2>4. ASSUME NEW q \in DOMAIN entries', q \notin DOMAIN entries
        PROVE  entries'[q] = spec
    <3>1. q = Len(entries) + 1
      BY <2>2, <2>3, <2>4
    <3> QED
      BY <2>2, <3>1
  <2> QED
    BY <2>4 DEF NewMade
<1> QED
  BY <1>1, <1>2, <1>3

LEMMA DriveCare ==
  ASSUME TypeOK, LaneInv, Care, NEW t \in Tasks, Drive(t)
  PROVE  Care'
<1>0. CASE LockOnly
  BY <1>0, LockCare
<1> SUFFICES ASSUME ~LockOnly PROVE Care'
  BY <1>0
<1>1. Grown /\ NewMade
  BY SameSpecs, OldEntries DEF Drive, Reserve, CheckPrerequisite, FailDependent,
     DiscardInstance, StartInstall, StartFails, RecordStartFailure, MarkStarted
<1>2. InstanceMoves
  <2>1. CASE DiscardInstance(t)
    BY <2>1, TwoSteps, CleanupMoves DEF DiscardEnds
  <2>2. CASE ~DiscardInstance(t)
    BY <2>2, SameInstances DEF Drive, Reserve, CheckPrerequisite, FailDependent,
       StartInstall, StartFails, RecordStartFailure, MarkStarted, diskVars
  <2> QED
    BY <2>1, <2>2
<1>3. WorkKept
  <2>1. CASE StartInstall(t)
    <3>1. pc[t] = "start"
      BY <2>1 DEF StartInstall
    <3>2. worker[held[t]] = "none" /\ held[t] \in EntryIds
      BY <3>1, Basics DEF LaneInv, Holds, HoldPcs, Steps, StepsOf
    <3>3. verdict' = verdict /\ (worker' = worker \/ worker' = [worker EXCEPT ![held[t]] = "running"])
      BY <2>1 DEF StartInstall
    <3> QED
      BY <3>2, <3>3 DEF WorkKept, TypeOK
  <2>2. CASE ~StartInstall(t)
    BY <2>2 DEF Drive, Reserve, CheckPrerequisite, FailDependent, DiscardInstance,
       StartFails, RecordStartFailure, MarkStarted, WorkKept
  <2> QED
    BY <2>1, <2>2
<1>4. PICK l \in {"respond", "over", "check", "start", "failDependent", "discard", "reserve",
                  "mark", "startFailed", "rollback", "removeInstance", "idle", "spawn"} : GoTo(t, l)
  BY TwoSteps DEF Drive, Reserve, CheckPrerequisite, FailDependent, DiscardEnds, StartInstall,
         StartFails, RecordStartFailure, MarkStarted, AfterError
<1>5. job' = job \/ (t \in Callers /\ job' = [job EXCEPT ![t] = Idle])
  BY DEF Drive, Reserve, CheckPrerequisite, FailDependent, DiscardInstance, StartInstall,
         StartFails, RecordStartFailure, MarkStarted
<1>6. JobsMade'
  <2>1. CASE t \in Callers
    <3>1. /\ pc'[t] = l
          /\ \A d \in Callers : d # t => job'[d] = job[d] /\ pc'[d] = pc[d]
      BY <1>4, <1>5, <2>1 DEF GoTo, TypeOK, Tasks
    <3>2. job'[t] = job[t] \/ job'[t] = Idle
      BY <1>5, <2>1 DEF TypeOK
    <3>3. Idle.kind = "none"
      BY DEF Idle
    <3> QED
      BY <1>2, <2>1, <3>1, <3>2, <3>3, JobGoesOn DEF Care
  <2>2. CASE t \notin Callers
    <3>1. \A d \in Callers : pc'[d] = pc[d]
      BY <1>4, <2>2 DEF GoTo, TypeOK, Tasks
    <3> QED
      BY <1>2, <1>5, <2>2, <3>1, JobsKept DEF Care
  <2> QED
    BY <2>1, <2>2
<1> QED
  BY <1>1, <1>2, <1>3, <1>6, CareKept

LEMMA RequestCare ==
  ASSUME TypeOK, LaneInv, Care, NEW c \in Callers, Request(c)
  PROVE  Care'
<1>1. c \in Tasks
  BY DEF Tasks
<1>2. CASE StatusRequest(c)
  <2>1. UNCHANGED <<instance, entries, job, worker, verdict>> /\ GoTo(c, "reserve")
    BY <1>2 DEF StatusRequest, diskVars
  <2>2. \A d \in Callers : pc'[d] = "enqueueContent" => pc[d] = "enqueueContent"
    BY <1>1, <2>1 DEF GoTo, TypeOK, Tasks
  <2>3. WorkKept
    BY <2>1 DEF WorkKept
  <2> QED
    BY <2>1, <2>2, <2>3, JobsKept, SameInstances, OldEntries, SameSpecs, CareKept DEF Care
<1>3. ASSUME NEW item \in Versions \cup Contents, NEW retry \in BOOLEAN,
             EnqueueRequest(c, item, retry)
      PROVE  Care'
  <2> DEFINE spec == [item |-> item, prereq |-> 0]
  <2>1. spec \in Specs /\ (spec.item \in Setups => instance[spec.item] # "absent")
    BY BoundAssumption, KindAssumption DEF Specs, Items, OptId
  <2>2. UNCHANGED <<instance, job, worker, verdict>> /\ GoTo(c, "reserve") /\ Enqueue(spec, retry)
    BY <1>3 DEF EnqueueRequest, diskVars
  <2> HIDE DEF spec
  <2>3. \A d \in Callers : pc'[d] = "enqueueContent" => pc[d] = "enqueueContent"
    BY <1>1, <2>2 DEF GoTo, TypeOK, Tasks
  <2>4. NewMade /\ Grown
    BY <2>1, <2>2, EnqueueMade, EnqueueEffect
  <2>5. WorkKept
    BY <2>2 DEF WorkKept
  <2>6. InstanceMoves /\ JobsMade'
    BY <2>2, <2>3, JobsKept, SameInstances DEF Care
  <2> QED
    BY <2>4, <2>5, <2>6, CareKept
<1>4. ASSUME NEW s \in Setups, SetupRequest(c, s)
      PROVE  Care'
  <2>1. /\ instance[s] = "absent" /\ instance' = [instance EXCEPT ![s] = "pristine"]
        /\ UNCHANGED <<entries, worker, verdict>>
        /\ job' = [job EXCEPT ![c] = [kind |-> "base", item |-> s, prereq |-> 0]]
        /\ GoTo(c, "enqueueContent") \/ GoTo(c, "enqueueBase")
    BY <1>4 DEF SetupRequest
  <2>2. InstanceMoves
    BY <2>1 DEF InstanceMoves, TypeOK
  <2>3. WorkKept
    BY <2>1 DEF WorkKept
  <2>4. ASSUME NEW d \in Callers
        PROVE  /\ job'[d].kind = "base" /\ job'[d].item \in Setups => instance'[job'[d].item] # "absent"
               /\ pc'[d] = "enqueueContent" => job'[d].kind = "base"
    <3>1. CASE d = c
      <4>1. job'[d].kind = "base" /\ job'[d].item = s
        BY <2>1, <3>1 DEF TypeOK
      <4>2. instance'[s] = "pristine"
        BY <2>1 DEF TypeOK
      <4> QED
        BY <4>1, <4>2
    <3>2. CASE d # c
      <4>1. job'[d] = job[d] /\ pc'[d] = pc[d]
        BY <2>1, <3>2 DEF GoTo, TypeOK, Tasks
      <4> QED
        BY <2>2, <4>1 DEF Care, JobsMade, InstanceMoves
    <3> QED
      BY <3>1, <3>2
  <2>5. JobsMade'
    BY <2>4 DEF JobsMade
  <2> QED
    BY <2>1, <2>2, <2>3, <2>5, OldEntries, SameSpecs, CareKept
<1>5. ASSUME NEW q \in EntryIds, RemoveRequest(c, q)
      PROVE  Care'
  <2>1. /\ UNCHANGED <<instance, entries, worker, verdict>>
        /\ \/ UNCHANGED <<pc, job>>
           \/ /\ GoTo(c, "removeInstance")
              /\ job' = [job EXCEPT ![c] = [Idle EXCEPT !.item = entries[q].item]]
    BY <1>5 DEF RemoveRequest, diskVars
  <2>2. InstanceMoves
    BY <2>1, SameInstances
  <2>3. WorkKept
    BY <2>1 DEF WorkKept
  <2>4. CASE UNCHANGED <<pc, job>>
    BY <2>1, <2>2, <2>3, <2>4, JobsKept, OldEntries, SameSpecs, CareKept DEF Care
  <2>5. CASE ~UNCHANGED <<pc, job>>
    <3>1. /\ pc'[c] = "removeInstance" /\ job'[c] = [Idle EXCEPT !.item = entries[q].item]
          /\ \A d \in Callers : d # c => job'[d] = job[d] /\ pc'[d] = pc[d]
      BY <1>1, <2>1, <2>5 DEF GoTo, TypeOK, Tasks
    <3>2. job'[c].kind = "none"
      BY <3>1 DEF Idle
    <3>3. JobsMade'
      BY <2>2, <3>1, <3>2, JobGoesOn DEF Care
    <3> QED
      BY <2>1, <2>2, <2>3, <3>3, OldEntries, SameSpecs, CareKept
  <2> QED
    BY <2>4, <2>5
<1> QED
  BY <1>2, <1>3, <1>4, <1>5 DEF Request

LEMMA HandlerCare ==
  ASSUME TypeOK, LaneInv, Care, NEW c \in Callers, Handle(c) \/ Disconnect(c)
  PROVE  Care'
<1>1. c \in Tasks /\ \A q \in EntryIds : q \notin Callers
  BY Basics DEF Tasks
<1>2. CASE EnqueueBase(c)
  <2> DEFINE spec == [item |-> Base[job[c].item], prereq |-> 0]
  <2>1. spec \in Specs /\ spec.item \notin Setups
    BY <1>2, BaseAssumption, BoundAssumption, KindAssumption
    DEF EnqueueBase, Specs, Items, TypeOK, OptId
  <2>2. UNCHANGED <<instance, job, worker, verdict>> /\ GoTo(c, "reserve") /\ Enqueue(spec, FALSE)
    BY <1>2 DEF EnqueueBase, diskVars
  <2> HIDE DEF spec
  <2>3. \A d \in Callers : pc'[d] = "enqueueContent" => pc[d] = "enqueueContent"
    BY <1>1, <2>2 DEF GoTo, TypeOK, Tasks
  <2>4. NewMade /\ Grown
    BY <2>1, <2>2, EnqueueMade, EnqueueEffect
  <2>5. WorkKept
    BY <2>2 DEF WorkKept
  <2>6. InstanceMoves /\ JobsMade'
    BY <2>2, <2>3, JobsKept, SameInstances DEF Care
  <2> QED
    BY <2>4, <2>5, <2>6, CareKept
<1>3. CASE EnqueueContent(c)
  <2> DEFINE spec == [item |-> job[c].item, prereq |-> job[c].prereq]
  <2>1. /\ pc[c] = "enqueueContent" /\ GoTo(c, "reserve") /\ Enqueue(spec, FALSE)
        /\ UNCHANGED <<instance, worker, verdict>> /\ job' = [job EXCEPT ![c].kind = "content"]
    BY <1>3 DEF EnqueueContent, diskVars
  <2>2. spec \in Specs /\ (spec.item \in Setups => instance[spec.item] # "absent")
    BY <2>1 DEF Specs, Items, TypeOK, Jobs, Care, JobsMade
  <2> HIDE DEF spec
  <2>3. NewMade /\ Grown
    BY <2>1, <2>2, EnqueueMade, EnqueueEffect
  <2>4. WorkKept
    BY <2>1 DEF WorkKept
  <2>5. InstanceMoves
    BY <2>1, SameInstances
  <2>6. /\ pc'[c] = "reserve"
        /\ \A d \in Callers : d # c => job'[d] = job[d] /\ pc'[d] = pc[d]
    BY <1>1, <2>1 DEF GoTo, TypeOK, Tasks
  <2>7. job'[c].kind = "content"
    BY <2>1 DEF TypeOK, Jobs
  <2>8. JobsMade'
    BY <2>5, <2>6, <2>7, JobGoesOn DEF Care
  <2> QED
    BY <2>3, <2>4, <2>5, <2>8, CareKept
<1>6. CASE LockOnly
  BY <1>6, LockCare
<1>4. CASE RemoveEnds(c) \/ RollbackInstance(c) \/ Disconnect(c)
  <2>1. /\ GoTo(c, "idle") /\ job' = [job EXCEPT ![c] = Idle]
        /\ UNCHANGED <<entries, worker, verdict>>
    BY <1>4 DEF RemoveEnds, RollbackInstance, Disconnect
  <2>2. InstanceMoves
    <3>1. CASE RemoveEnds(c)
      BY <3>1, CleanupMoves DEF RemoveEnds
    <3>2. CASE RollbackInstance(c)
      BY <3>2 DEF RollbackInstance, InstanceMoves, TypeOK
    <3>3. CASE Disconnect(c)
      BY <3>3, SameInstances DEF Disconnect, diskVars
    <3> QED
      BY <1>4, <3>1, <3>2, <3>3
  <2>3. WorkKept
    BY <2>1 DEF WorkKept
  <2>4. /\ pc'[c] = "idle" /\ job'[c] = Idle
        /\ \A d \in Callers : d # c => job'[d] = job[d] /\ pc'[d] = pc[d]
    BY <1>1, <2>1 DEF GoTo, TypeOK, Tasks
  <2>5. job'[c].kind = "none"
    BY <2>4 DEF Idle
  <2>6. JobsMade'
    BY <2>2, <2>4, <2>5, JobGoesOn DEF Care
  <2> QED
    BY <2>1, <2>2, <2>3, <2>6, OldEntries, SameSpecs, CareKept
<1>5. CASE Respond(c)
  <2>1. UNCHANGED <<instance, entries, worker, verdict>>
    BY <1>5 DEF Respond, SpawnMonitor, diskVars
  <2>2. InstanceMoves /\ WorkKept
    BY <2>1, SameInstances DEF WorkKept
  <2>3. /\ \A d \in Callers : d # c => job'[d] = job[d] /\ pc'[d] = pc[d]
        /\ \/ job[c].kind = "base" /\ job'[c].kind = "base" /\ job'[c].item = job[c].item
           \/ job'[c] = Idle /\ pc'[c] = "idle"
    <3>1. held[c] = 0 \/ held[c] \notin Callers
      BY <1>1 DEF TypeOK, OptId, EntryIds
    <3>2. CASE job[c].kind = "base"
      BY <1>1, <1>5, <3>1, <3>2 DEF Respond, SpawnMonitor, TypeOK, Tasks, Jobs
    <3>3. CASE job[c].kind # "base"
      BY <1>1, <1>5, <3>1, <3>3 DEF Respond, SpawnMonitor, TypeOK, Tasks
    <3> QED
      BY <3>2, <3>3
  <2>4. Idle.kind = "none"
    BY DEF Idle
  <2>5. JobsMade'
    BY <2>2, <2>3, <2>4, JobGoesOn DEF Care
  <2> QED
    BY <2>1, <2>2, <2>5, OldEntries, SameSpecs, CareKept
<1> QED
  BY <1>1, <1>2, <1>3, <1>4, <1>5, <1>6, DriveCare, TwoSteps DEF Handle

LEMMA MonitorCare ==
  ASSUME TypeOK, LaneInv, Care, NEW m \in EntryIds, Monitor(m)
  PROVE  Care'
<1>1. m \in Tasks /\ m \notin Callers /\ \A q \in EntryIds : q \notin Callers
  BY Basics DEF Tasks
<1>2. CASE ~Drive(m)
  <2>1. UNCHANGED <<instance, entries, job, worker, verdict>>
    BY <1>2 DEF Monitor, Subscribe, ReceiveTerminal, RecordOutcome, SpawnNextMonitor,
       SpawnMonitor, diskVars
  <2>2. \/ \E l : GoTo(m, l)
        \/ \E l : pc' = [pc EXCEPT ![m] = l]
        \/ \E l, k : pc' = [pc EXCEPT ![m] = l, ![held[m]] = k] /\ held[m] # 0
    BY <1>2 DEF Monitor, Subscribe, ReceiveTerminal, RecordOutcome, SpawnNextMonitor,
       SpawnMonitor
  <2>3. held[m] = 0 \/ held[m] \notin Callers
    BY <1>1 DEF TypeOK, OptId, EntryIds
  <2>4. \A d \in Callers : pc'[d] = pc[d]
    BY <1>1, <2>2, <2>3 DEF GoTo, TypeOK, Tasks
  <2>5. InstanceMoves /\ WorkKept
    BY <2>1, SameInstances DEF WorkKept
  <2>6. JobsMade'
    BY <2>1, <2>4, <2>5, JobsKept DEF Care
  <2> QED
    BY <2>1, <2>5, <2>6, OldEntries, SameSpecs, CareKept
<1> QED
  BY <1>1, <1>2, DriveCare

LEMMA WorkCare ==
  ASSUME TypeOK, LaneInv, Care, NEW s \in EntryIds,
         Work(s) \/ WorkerPanics(s) \/ ForwardLateProgress(s)
  PROVE  Care'
<1>0. CASE LockOnly
  BY <1>0, LockCare
<1> SUFFICES ASSUME ~LockOnly PROVE Care'
  BY <1>0
<1>1. UNCHANGED <<entries, job, pc>>
  BY DEF Work, BeginMutation, WorkerSucceeds, WorkerFails, CleanUpAfterFailure,
         PublishTerminal, SuperviseReturn, HandleInterruption, FinishClaimed,
         WorkerPanics, ForwardLateProgress, WorkerUnchanged, taskVars
<1>2. InstanceMoves
  <2>1. CASE \E item : CleanupEnds(s, item)
    BY <2>1, CleanupMoves
  <2>2. CASE ~\E item : CleanupEnds(s, item)
    <3>1. \/ UNCHANGED instance
          \/ \E item \in Setups : instance' = [instance EXCEPT ![item] = "touched"]
      BY <2>2, TwoSteps DEF Work, BeginMutation, WorkerSucceeds, WorkerFails, CleanUpEnds,
           PublishTerminal, SuperviseReturn, HandleEnds, FinishClaimed,
           WorkerPanics, ForwardLateProgress, diskVars
    <3> QED
      BY <3>1 DEF InstanceMoves, TypeOK
  <2> QED
    BY <2>1, <2>2
<1>3. JobsMade'
  BY <1>1, <1>2, JobsKept DEF Care
<1>4. EntriesMade'
  BY <1>1, <1>2 DEF Care, EntriesMade, InstanceMoves
<1>5. \A q \in EntryIds : q # s => worker'[q] = worker[q] /\ verdict'[q] = verdict[q]
  BY DEF Work, BeginMutation, WorkerSucceeds, WorkerFails, CleanUpAfterFailure,
         PublishTerminal, SuperviseReturn, HandleInterruption, FinishClaimed,
         WorkerPanics, ForwardLateProgress, WorkerTo, EmitRecord, Publish, TypeOK
<1>6. \A q \in EntryIds, item \in Setups :
        instance[item] \notin {"absent", "pristine"} => instance'[item] # "pristine"
  BY <1>2 DEF InstanceMoves
<1>7. DOMAIN entries \subseteq EntryIds
  BY Basics
<1>8. AtWork'
  <2>1. worker'[s] \in {"running", "mutating", "cleaning", "claimed"} => verdict'[s] = "none"
    <3>1. CASE BeginMutation(s) \/ WorkerFails(s) \/ WorkerSucceeds(s) \/ WorkerPanics(s)
               \/ CleanUpEnds(s) \/ HandleEnds(s)
      BY <3>1 DEF BeginMutation, WorkerFails, WorkerSucceeds, WorkerPanics,
         CleanUpEnds, HandleEnds, Is, WorkerTo, TypeOK, Care, AtWork
    <3>2. CASE PublishTerminal(s) \/ FinishClaimed(s)
      BY <3>2 DEF PublishTerminal, FinishClaimed, WorkerTo, TypeOK
    <3>3. CASE SuperviseReturn(s)
      <4>1. CASE worker'[s] = "gone"
        BY <4>1
      <4>2. CASE worker'[s] # "gone"
        BY <3>3, <4>2 DEF SuperviseReturn, WorkerTo, TypeOK, LaneInv, SessionLife
      <4> QED
        BY <4>1, <4>2
    <3>4. CASE ForwardLateProgress(s)
      <4>1. worker' = worker /\ verdict'[s] = verdict[s]
        BY <3>4 DEF ForwardLateProgress, EmitRecord, Publish, TypeOK
      <4> QED
        BY <4>1 DEF Care, AtWork
    <3> QED
      BY <3>1, <3>2, <3>3, <3>4, TwoSteps DEF Work
  <2> QED
    BY <1>5, <2>1 DEF Care, AtWork
<1>9. ASSUME s \in DOMAIN entries, entries[s].item \in Setups,
             worker'[s] \in {"failed", "handled"} \/ verdict'[s] = "error"
      PROVE  instance'[entries[s].item] # "pristine"
  <2>1. instance[entries[s].item] # "absent"
    BY <1>9 DEF Care, EntriesMade
  <2>2. CASE worker[s] \in {"failed", "handled"} \/ verdict[s] = "error"
    BY <1>6, <1>9, <2>1, <2>2 DEF Care, Cleaned
  <2>3. CASE ~(worker[s] \in {"failed", "handled"} \/ verdict[s] = "error")
    <3>1. entries[s].item \notin Versions /\ ~NoSetup(s)
      BY <1>9, KindAssumption DEF NoSetup
    <3>2. CASE CleanUpEnds(s) \/ HandleEnds(s)
      <4>1. CleanupEnds(s, entries[s].item)
        BY <3>2 DEF CleanUpEnds, HandleEnds
      <4>2. CASE GivesUp(s, entries[s].item)
        BY <1>9, <4>2 DEF GivesUp, Spare, TypeOK
      <4>3. CASE RemovesInstance(s, entries[s].item)
        BY <1>9, <4>3 DEF RemovesInstance, Spare, TypeOK
      <4> QED
        BY <4>1, <4>2, <4>3 DEF CleanupEnds
    <3>3. CASE ~(CleanUpAfterFailure(s) \/ HandleInterruption(s))
      <4>1. worker'[s] \notin {"failed", "handled"} /\ verdict'[s] # "error"
        <5>1. CASE BeginMutation(s) \/ WorkerFails(s) \/ WorkerSucceeds(s) \/ WorkerPanics(s)
          BY <2>3, <3>1, <5>1 DEF BeginMutation, WorkerFails, WorkerSucceeds, WorkerPanics,
             WorkerTo, TypeOK
        <5>2. CASE PublishTerminal(s)
          BY <2>3, <3>1, <5>2 DEF PublishTerminal, Is, WorkerTo, EmitRecord, Publish, TypeOK
        <5>3. CASE SuperviseReturn(s)
          BY <2>3, <3>1, <5>3 DEF SuperviseReturn, WorkerTo, TypeOK
        <5>4. CASE FinishClaimed(s)
          BY <2>3, <5>4 DEF FinishClaimed, Is
        <5>5. CASE ForwardLateProgress(s)
          BY <2>3, <5>5 DEF ForwardLateProgress, EmitRecord, Publish, TypeOK
        <5> QED
          BY <3>3, <5>1, <5>2, <5>3, <5>4, <5>5 DEF Work
      <4> QED
        BY <1>9, <4>1
    <3> QED
      BY <3>2, <3>3, TwoSteps
  <2> QED
    BY <2>2, <2>3
<1>10. Cleaned'
  <2>1. ASSUME NEW q \in DOMAIN entries', entries'[q].item \in Setups,
               worker'[q] \in {"failed", "handled"} \/ verdict'[q] = "error"
        PROVE  instance'[entries'[q].item] # "pristine"
    <3>1. q \in DOMAIN entries /\ entries'[q] = entries[q] /\ q \in EntryIds
      BY <1>1, <1>7
    <3>2. CASE q = s
      BY <1>9, <2>1, <3>1, <3>2
    <3>3. CASE q # s
      <4>1. instance[entries[q].item] \notin {"absent", "pristine"}
        BY <1>5, <2>1, <3>1, <3>3 DEF Care, Cleaned, EntriesMade
      <4> QED
        BY <1>6, <2>1, <3>1, <4>1
    <3> QED
      BY <3>2, <3>3
  <2> QED
    BY <2>1 DEF Cleaned
<1> QED
  BY <1>3, <1>4, <1>8, <1>10 DEF Care

LEMMA StepCare ==
  ASSUME TypeOK, LaneInv, Care, [Next]_vars
  PROVE  Care'
<1>1. CASE UNCHANGED vars \/ (\E s \in Setups : UserTouches(s)) \/ PruneByPerformanceOperation
  <2>1. /\ UNCHANGED <<entries, job, pc, worker, verdict>>
        /\ UNCHANGED instance \/ \E s \in Setups : instance' = [instance EXCEPT ![s] = "touched"]
    BY <1>1 DEF vars, UserTouches, PruneByPerformanceOperation, queueVars, taskVars, diskVars
  <2>2. InstanceMoves
    BY <2>1 DEF InstanceMoves, TypeOK
  <2>3. WorkKept
    BY <2>1 DEF WorkKept
  <2>4. JobsMade'
    BY <2>1, <2>2, JobsKept DEF Care
  <2> QED
    BY <2>1, <2>2, <2>3, <2>4, OldEntries, SameSpecs, CareKept
<1> QED
  BY <1>1, RequestCare, HandlerCare, MonitorCare, WorkCare DEF Next

\* A setup whose content failed leaves no untouched instance behind that no cleanup
\* has tried to remove.
THEOREM FailuresAreCleaned == Spec => []FailedSetupCleanedUp
<1>1. Init => Care
  BY DEF Init, Care, EntriesMade, JobsMade, AtWork, Cleaned, Idle, Tasks
<1>2. TypeOK /\ LaneInv /\ Care /\ [Next]_vars => Care'
  BY StepCare
<1>3. Care => FailedSetupCleanedUp
  BY DEF Care, Cleaned, FailedSetupCleanedUp
<1> QED
  BY Invariance, <1>1, <1>2, <1>3, PTL DEF Spec

=============================================================================

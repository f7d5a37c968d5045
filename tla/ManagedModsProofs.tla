-------------------------- MODULE ManagedModsProofs --------------------------
(***************************************************************************)
(* What the managed mods promise for every composition, every naming of    *)
(* the files and every number of snapshots, edits and failures.            *)
(*                                                                         *)
(* TypeCorrect:         every variable keeps its type.                     *)
(* SnapshotsAreWhole:   every retained snapshot has all its copies.        *)
(* NoUserFileTouched:   a file of the user outside the lock is kept, unless *)
(*                      it took a name the job in progress had claimed.    *)
(* InstallsAreComplete: an install that ends well is on disk as recorded.  *)
(* FailuresRestore:     a failed job that restores leaves what it has found. *)
(***************************************************************************)
EXTENDS ManagedMods, TLAPS

(* Where a job is: what it has read, and what it is about to delete or put. *)
Staged ==
    /\ pc = "idle" => op = NoOp
    /\ pc \in {"copy", "record", "point", "prune", "clean", "attempt", "fetch", "unlock"} =>
         op.prev = lock
    /\ pc \in {"copy", "record", "point", "prune", "clean", "check"} => op.del = {}
    /\ pc # "put" => op.put = {}

(* An install knows its composition, and only a removal unlocks.           *)
Planned == pc \in {"copy", "record", "point", "prune", "clean"} /\ op.kind # "remove" =>
             op.plan # "none"

(* The copies about to be recorded are copies of tracked files.            *)
Copied == pc = "record" =>
    \A n \in Names : stored[lastId][n] # "none" => n \in NamesOf(op.prev.mods)

(* Ids are handed out in order; the newest is recorded, then pointed to.   *)
Numbered ==
    /\ \A s \in retained : s <= lastId
    /\ latest <= lastId
    /\ pc = "copy" => lastId < MaxSnapshots
    /\ pc \in {"record", "point"} => lastId # 0
    /\ pc = "point" => lastId \in retained
    /\ pc \in {"prune", "clean"} => latest # 0
    /\ pc \in {"attempt", "fetch", "replaced", "finish", "unlock"} /\ op.prev.on => latest # 0

(* A file of the user has none of the names the job in progress has claimed. *)
Free(n) == files[n] \in UserFiles /\ n \notin Claimed
Apart ==
    /\ \A n \in mine : n \notin Tracked
    /\ \A n \in mine \ risked : Free(n)

-----------------------------------------------------------------------------
(* Type correctness.                                                       *)

(* The names of releases are names.                                        *)
LEMMA NamesAreNames == ASSUME NEW mods \in SUBSET Releases PROVE NamesOf(mods) \in SUBSET Names
BY ManagedAssumption DEF NamesOf

(* The values of a variable when no job runs are of its type.              *)
LEMMA BlankValues ==
    /\ NoFiles \in [Names -> Files \union {"none"}]
    /\ NoLock \in Locks
    /\ NoOp \in Ops
    /\ NoSnap \in [mods : SUBSET Releases, names : SUBSET Names]
    /\ NoSnap.names \subseteq NamesOf(NoSnap.mods)
BY DEF NoFiles, NoLock, Locks, NoOp, Ops, NoSnap

Inv == TypeOK /\ Staged /\ Planned /\ Copied /\ Numbered

LEMMA InitInv == Init => Inv
<1> SUFFICES ASSUME Init PROVE Inv
    OBVIOUS
<1>1. TypeOK
  BY BlankValues DEF Init, TypeOK
<1> QED BY <1>1 DEF Inv, Init, Staged, Planned, Copied, Numbered, NoOp

(* A failing step ends the job or goes on to restore the latest snapshot.  *)
LEMMA FailInv ==
    ASSUME Inv, Fail, pc \in {"attempt", "fetch", "replaced", "finish", "unlock"}
    PROVE  Inv'
<1>1. CASE op.prev.on
  <2>1. /\ pc' = "check" /\ latest # 0
        /\ op' = [op EXCEPT !.snap = latest, !.del = {}, !.todo = {}, !.coming = {},
                            !.got = {}, !.gone = {}]
        /\ UNCHANGED <<files, lock, rollback, history, undone>>
        BY <1>1 DEF Fail, Inv, Numbered
  <2>2. op' \in Ops /\ op'.snap # 0 /\ op'.del = {} /\ op'.put = op.put
        BY <2>1 DEF Inv, TypeOK, Ops
  <2>3. TypeOK'
        BY <2>1, <2>2 DEF Inv, TypeOK, rollback, history
  <2> QED BY <2>1, <2>2, <2>3 DEF Inv, Staged, Planned, Copied, Numbered, rollback, history
<1>2. CASE ~op.prev.on
  <2>1. pc' = "idle" /\ op' = NoOp /\ UNCHANGED <<files, lock, rollback, mine, edits>> /\ risked' \subseteq risked
        BY <1>2 DEF Fail, Finish
  <2>2. TypeOK'
        BY <2>1, BlankValues DEF Inv, TypeOK, rollback
  <2> QED BY <2>1, <2>2 DEF Inv, Staged, Planned, Copied, Numbered, rollback, NoOp
<1> QED BY <1>1, <1>2

(* A job that ends leaves the snapshots as they are.                       *)
LEMMA FinishInv ==
    ASSUME Inv, NEW b, Finish(b), UNCHANGED rollback,
           files' \in [Names -> Files \union {"none"}], lock' \in Locks, mine' \subseteq Names
    PROVE  Inv'
<1>1. pc' = "idle" /\ op' = NoOp /\ risked' \subseteq risked
      BY DEF Finish
<1>2. TypeOK'
      BY <1>1, BlankValues DEF Inv, TypeOK, rollback
<1> QED BY <1>1, <1>2 DEF Inv, Staged, Planned, Copied, Numbered, rollback, NoOp

LEMMA RequestInv ==
    ASSUME Inv, \/ \E c \in Compositions : RequestInstall(c)
                \/ RequestRemove
                \/ \E s \in Ids : RequestRollback(s)
    PROVE  Inv'
<1> USE DEF Inv, TypeOK, rollback
<1>1. ASSUME NEW c \in Compositions, RequestInstall(c) PROVE Inv'
  <2>1. /\ op' = [NoOp EXCEPT !.kind = "install", !.prev = lock, !.plan = c, !.tried = {c}]
        /\ pc' = IF lock.on THEN "copy" ELSE "attempt"
        /\ mine' \subseteq mine /\ risked' = {}
        /\ UNCHANGED <<files, lock, rollback, edits>> /\ pc = "idle" /\ lastId < MaxSnapshots
        BY <1>1 DEF RequestInstall, Start
  <2>2. op' \in Ops /\ op'.prev = lock /\ op'.del = {} /\ op'.put = {} /\ op'.plan = c /\ op'.kind = "install"
        BY <2>1, BlankValues DEF Ops, NoOp
  <2>3. TypeOK'
        BY <2>1, <2>2, ManagedAssumption
  <2>4. Staged' /\ Planned' /\ Copied'
        BY <2>1, <2>2, ManagedAssumption DEF Staged, Planned, Copied
  <2>5. Numbered'
        BY <2>1, <2>2 DEF Numbered
  <2> QED BY <2>3, <2>4, <2>5
<1>2. CASE RequestRemove
  <2>1. /\ op' = [NoOp EXCEPT !.kind = "remove", !.prev = lock] /\ pc' = "copy"
        /\ mine' \subseteq mine /\ risked' = {}
        /\ UNCHANGED <<files, lock, rollback, edits>> /\ pc = "idle" /\ lastId < MaxSnapshots
        BY <1>2 DEF RequestRemove, Start
  <2>2. op' \in Ops /\ op'.prev = lock /\ op'.del = {} /\ op'.put = {} /\ op'.kind = "remove"
        BY <2>1, BlankValues DEF Ops, NoOp
  <2>3. TypeOK'
        BY <2>1, <2>2
  <2>4. Staged' /\ Planned' /\ Copied'
        BY <2>1, <2>2, ManagedAssumption DEF Staged, Planned, Copied
  <2>5. Numbered'
        BY <2>1, <2>2 DEF Numbered
  <2> QED BY <2>3, <2>4, <2>5
<1>3. ASSUME NEW s \in Ids, RequestRollback(s) PROVE Inv'
  <2>1. /\ op' = [NoOp EXCEPT !.kind = "rollback", !.snap = s] /\ pc' = "check"
        /\ mine' \subseteq mine /\ risked' = {}
        /\ UNCHANGED <<files, lock, rollback, edits>> /\ pc = "idle"
        BY <1>3 DEF RequestRollback, Start
  <2>2. op' \in Ops /\ op'.del = {} /\ op'.put = {} /\ op'.snap = s
        BY <2>1, BlankValues DEF Ops, NoOp
  <2>3. TypeOK'
    <3>1. s # 0
          BY ManagedAssumption DEF Ids
    <3> QED BY <2>1, <2>2, <3>1
  <2>4. Staged' /\ Planned' /\ Copied'
        BY <2>1, <2>2, ManagedAssumption DEF Staged, Planned, Copied
  <2>5. Numbered'
        BY <2>1, <2>2 DEF Numbered
  <2> QED BY <2>3, <2>4, <2>5
<1> QED BY <1>1, <1>2, <1>3

LEMMA SnapshotInv ==
    ASSUME Inv, CopyTracked \/ RecordHistory \/ PointLatest \/ PruneHistory
    PROVE  Inv'
<1> USE DEF Inv, TypeOK, rollback, history
<1>1. CASE CopyTracked
  <2>1. lastId + 1 \in Ids /\ lastId' = lastId + 1
        BY <1>1, ManagedAssumption DEF CopyTracked, Numbered, Ids
  <2>2. stored' \in [Ids -> [Names -> Files \union {"none"}]]
        BY <1>1, <2>1 DEF CopyTracked
  <2>3. TypeOK'
        BY <1>1, <2>1, <2>2 DEF CopyTracked
  <2>4. Staged' /\ Planned' /\ Copied'
        BY <1>1, <2>1 DEF CopyTracked, Staged, Planned, Copied
  <2>5. Numbered'
        BY <1>1, <2>1 DEF CopyTracked, Numbered, Ids
  <2> QED BY <2>3, <2>4, <2>5
<1>2. CASE RecordHistory
  <2>1. /\ lastId \in Ids
        /\ op.prev.mods \subseteq Releases
        /\ snaps' = [snaps EXCEPT ![lastId] = [mods |-> op.prev.mods, names |-> Artifacts(lastId)]]
        BY <1>2 DEF RecordHistory, Numbered, Ops, Locks
  <2>2. Artifacts(lastId) \in SUBSET Names
        BY DEF Artifacts
  <2>3. Artifacts(lastId) \subseteq NamesOf(op.prev.mods)
        BY <1>2 DEF RecordHistory, Copied, Artifacts
  <2>4. TypeOK'
        BY <1>2, <2>1, <2>2, <2>3 DEF RecordHistory
  <2>5. Staged' /\ Planned' /\ Copied'
        BY <1>2 DEF RecordHistory, Staged, Planned, Copied
  <2>6. Numbered'
        BY <1>2, <2>1 DEF RecordHistory, Numbered, Ids
  <2> QED BY <2>4, <2>5, <2>6
<1>3. CASE PointLatest
  <2>1. lastId \in Ids
        BY <1>3 DEF PointLatest, Numbered
  <2>2. TypeOK'
        BY <1>3, <2>1 DEF PointLatest
  <2>3. Staged' /\ Planned' /\ Copied'
        BY <1>3 DEF PointLatest, Staged, Planned, Copied
  <2>4. Numbered'
        BY <1>3, <2>1 DEF PointLatest, Numbered, Ids
  <2> QED BY <2>2, <2>3, <2>4
<1>4. CASE PruneHistory
  <2>1. retained' \subseteq retained
        BY <1>4 DEF PruneHistory
  <2>2. /\ snaps' \in [Ids -> [mods : SUBSET Releases, names : SUBSET Names]]
        /\ \A s \in Ids : snaps'[s].names \subseteq NamesOf(snaps'[s].mods)
        BY <1>4, BlankValues DEF PruneHistory
  <2>3. TypeOK'
        BY <1>4, <2>1, <2>2 DEF PruneHistory
  <2>4. Staged' /\ Planned' /\ Copied'
        BY <1>4 DEF PruneHistory, Staged, Planned, Copied
  <2>5. Numbered'
        BY <1>4, <2>1 DEF PruneHistory, Numbered
  <2> QED BY <2>3, <2>4, <2>5
<1> QED BY <1>1, <1>2, <1>3, <1>4

(* A step of a running job that reads or changes nothing but files and its own state. *)
LEMMA JobInv ==
    ASSUME Inv, UNCHANGED <<lock, rollback, mine, risked>>,
           files' \in [Names -> Files \union {"none"}],
           op' \in Ops, op'.prev = op.prev, op'.snap = op.snap,
           pc' # "put" => op'.put = {},
           pc \in {"attempt", "fetch", "replaced", "finish", "unlock", "put"},
           pc' \in {"attempt", "fetch", "replaced", "finish", "unlock", "put"},
           pc' = "put" => pc = "put",
           pc' \in {"attempt", "fetch", "unlock"} => pc \in {"attempt", "fetch", "unlock"},
           pc' # "put" => pc # "put",
           pc' \in {"attempt", "fetch"} => op'.plan # "none"
    PROVE  Inv'
<1> USE DEF Inv, TypeOK, rollback
<1>1. TypeOK'
      OBVIOUS
<1>2. Staged' /\ Planned' /\ Copied'
      BY DEF Staged, Planned, Copied
<1>3. Numbered'
      BY DEF Numbered
<1> QED BY <1>1, <1>2, <1>3

LEMMA CleanUpInv == ASSUME Inv, CleanUp PROVE Inv'
<1> USE DEF Inv, TypeOK, rollback, history, CleanUp
<1>1. stored' \in [Ids -> [Names -> Files \union {"none"}]]
      BY BlankValues
<1>2. op.prev \in Locks /\ op.prev.mods \in SUBSET Releases
      BY DEF Ops, Locks
<1>3. op' \in Ops /\ op'.prev = op.prev /\ op'.put = op.put /\ op'.plan = op.plan
  <2>1. NamesOf(op.prev.mods) \in SUBSET Names
        BY <1>2, NamesAreNames
  <2>2. op \in Ops /\ (op' = op \/ op' = [op EXCEPT !.del = NamesOf(op.prev.mods)])
        BY DEF CleanUp, Inv, TypeOK
  <2> HIDE DEF Inv, TypeOK, CleanUp
  <2> QED BY <2>1, <2>2 DEF Ops
<1>4. op.kind # "remove" => op.plan # "none"
      BY DEF Planned
<1>5. TypeOK'
      BY <1>1, <1>3, <1>4
<1>6. Staged' /\ Planned' /\ Copied'
      BY <1>3 DEF Staged, Planned, Copied
<1>7. Numbered'
      BY <1>3 DEF Numbered
<1> QED BY <1>5, <1>6, <1>7

LEMMA DeleteInv == ASSUME Inv, NEW n \in Names, Delete(n) \/ Put(n) PROVE Inv'
<1>1. CASE Delete(n)
  <2>1. /\ n \in op.del /\ op' = [op EXCEPT !.del = @ \ {n}]
        /\ files' = [files EXCEPT ![n] = "none"]
        /\ UNCHANGED <<lock, rollback, pc, mine, risked>>
        BY <1>1 DEF Delete, history
  <2>2. files' \in [Names -> Files \union {"none"}]
        BY <2>1 DEF Inv, TypeOK
  <2>3. /\ op' \in Ops /\ op'.prev = op.prev /\ op'.snap = op.snap /\ op'.put = op.put
        /\ op'.plan = op.plan
        BY <2>1 DEF Inv, TypeOK, Ops
  <2>4. pc \in {"attempt", "fetch", "replaced", "finish", "unlock", "put"}
        BY <2>1 DEF Inv, TypeOK, Staged, NoOp
  <2> QED BY <2>1, <2>2, <2>3, <2>4, JobInv DEF Inv, TypeOK, Staged
<1>2. CASE Put(n)
  <2>1. /\ pc = "put" /\ n \in op.put /\ op' = [op EXCEPT !.put = @ \ {n}]
        /\ files' = [files EXCEPT ![n] = stored[op.snap][n]]
        /\ UNCHANGED <<lock, rollback, pc, mine, risked>>
        BY <1>2 DEF Put, history
  <2>2. op.snap \in Ids /\ stored[op.snap][n] \in Files \union {"none"}
        BY <2>1 DEF Inv, TypeOK, Ops
  <2>3. files' \in [Names -> Files \union {"none"}]
        BY <2>1, <2>2 DEF Inv, TypeOK
  <2>4. op' \in Ops /\ op'.prev = op.prev /\ op'.snap = op.snap
        BY <2>1 DEF Inv, TypeOK, Ops
  <2> QED BY <2>1, <2>3, <2>4, JobInv DEF Inv, TypeOK
<1> QED BY <1>1, <1>2

LEMMA FetchInv ==
    ASSUME Inv, \/ BeginAttempt
                \/ \E r \in Releases : Resolve(ProjectOf[r], r) \/ Promote(r)
                \/ \E q \in Projects : DownloadFails(q)
    PROVE  Inv'
<1>1. CASE BeginAttempt
  <2> DEFINE mods == ModsOf[op.plan]
             stale == {r \in op.prev.mods : ProjectOf[r] \notin mods}
  <2>1. /\ pc = "attempt" /\ pc' = "fetch"
        /\ op' = [op EXCEPT !.todo = mods, !.del = NamesOf(stale)]
        /\ UNCHANGED <<files, lock, rollback, mine, risked>>
        BY <1>1 DEF BeginAttempt, history
  <2>2. mods \in SUBSET Projects /\ op.plan # "none"
        BY <2>1, ManagedAssumption DEF Inv, TypeOK, Ops
  <2>3. stale \in SUBSET Releases
        BY DEF Inv, TypeOK, Ops, Locks
  <2>4. NamesOf(stale) \in SUBSET Names
        BY <2>3, NamesAreNames
  <2>5. /\ op' \in Ops /\ op'.prev = op.prev /\ op'.snap = op.snap /\ op'.put = op.put
        /\ op'.plan = op.plan
        BY <2>1, <2>2, <2>4 DEF Inv, TypeOK, Ops
  <2> QED BY <2>1, <2>2, <2>5, JobInv DEF Inv, TypeOK, Staged
<1>2. ASSUME NEW r \in Releases, Resolve(ProjectOf[r], r) PROVE Inv'
  <2>1. /\ pc = "fetch" /\ UNCHANGED <<files, lock, rollback, mine, risked, pc>>
        /\ \/ op' = [op EXCEPT !.todo = @ \ {ProjectOf[r]}, !.got = @ \union {r}]
           \/ op' = [op EXCEPT !.todo = @ \ {ProjectOf[r]}, !.failed = TRUE]
           \/ op' = [op EXCEPT !.todo = @ \ {ProjectOf[r]}, !.coming = @ \union {r}]
        BY <1>2 DEF Resolve, history
  <2>2. /\ op' \in Ops /\ op'.prev = op.prev /\ op'.snap = op.snap /\ op'.put = op.put
        /\ op'.plan = op.plan
    <3>1. op \in Ops
          BY DEF Inv, TypeOK
    <3>2. CASE op' = [op EXCEPT !.todo = @ \ {ProjectOf[r]}, !.got = @ \union {r}]
          BY <3>1, <3>2 DEF Ops
    <3>3. CASE op' = [op EXCEPT !.todo = @ \ {ProjectOf[r]}, !.failed = TRUE]
          BY <3>1, <3>3 DEF Ops
    <3>4. CASE op' = [op EXCEPT !.todo = @ \ {ProjectOf[r]}, !.coming = @ \union {r}]
          BY <3>1, <3>4 DEF Ops
    <3> QED BY <2>1, <3>2, <3>3, <3>4
  <2> QED BY <2>1, <2>2, JobInv DEF Inv, TypeOK, Staged
<1>3. ASSUME NEW r \in Releases, Promote(r) PROVE Inv'
  <2>1. /\ r \in op.coming /\ UNCHANGED <<lock, rollback, mine, risked, pc>>
        /\ files' = files \/ files' = [files EXCEPT ![NameOf[r]] = r]
        /\ \/ op' = [op EXCEPT !.coming = @ \ {r}, !.failed = TRUE]
           \/ op' = [op EXCEPT !.coming = @ \ {r}, !.got = @ \union {r}]
        BY <1>3 DEF Promote, history
  <2>2. /\ op' \in Ops /\ op'.prev = op.prev /\ op'.snap = op.snap /\ op'.put = op.put
        /\ op'.plan = op.plan
    <3>1. op \in Ops
          BY DEF Inv, TypeOK
    <3>2. CASE op' = [op EXCEPT !.coming = @ \ {r}, !.failed = TRUE]
          BY <3>1, <3>2 DEF Ops
    <3>3. CASE op' = [op EXCEPT !.coming = @ \ {r}, !.got = @ \union {r}]
          BY <3>1, <3>3 DEF Ops
    <3> QED BY <2>1, <3>2, <3>3
  <2>3. files' \in [Names -> Files \union {"none"}]
        BY <2>1 DEF Inv, TypeOK, Files
  <2>4. pc = "fetch"
        BY <1>3 DEF Promote
  <2> QED BY <2>1, <2>2, <2>3, <2>4, JobInv DEF Inv, TypeOK, Staged
<1>4. ASSUME NEW q \in Projects, DownloadFails(q) PROVE Inv'
  <2>1. /\ pc = "fetch" /\ UNCHANGED <<files, lock, rollback, mine, risked, pc>>
        /\ op' = [op EXCEPT !.todo = @ \ {q}, !.failed = TRUE,
                            !.coming = {r \in @ : ProjectOf[r] # q}]
        BY <1>4 DEF DownloadFails, history
  <2>2. /\ op' \in Ops /\ op'.prev = op.prev /\ op'.snap = op.snap /\ op'.put = op.put
        /\ op'.plan = op.plan
        BY <2>1 DEF Inv, TypeOK, Ops
  <2> QED BY <2>1, <2>2, JobInv DEF Inv, TypeOK, Staged
<1> QED BY <1>1, <1>2, <1>3, <1>4

LEMMA SaveInv == ASSUME Inv, FallBack \/ SaveLock \/ DropAbandoned PROVE Inv'
<1>1. CASE FallBack
  <2> DEFINE next == FallbackTo[op.plan]
             rest == {r \in op.got : ProjectOf[r] \notin ModsOf[next]}
  <2>1. /\ pc = "fetch" /\ pc' = "attempt" /\ next \in Compositions
        /\ op' = [op EXCEPT !.plan = next, !.tried = @ \union {next}, !.failed = FALSE,
                            !.gone = @ \union op.got, !.got = {}, !.del = NamesOf(rest)]
        /\ UNCHANGED <<files, lock, rollback, mine, risked>>
        BY <1>1 DEF FallBack, Settled, HasFallback, history
  <2>2. rest \in SUBSET Releases
        BY DEF Inv, TypeOK, Ops
  <2>3. NamesOf(rest) \in SUBSET Names
        BY <2>2, NamesAreNames
  <2>4. op.got \in SUBSET Releases /\ op.gone \in SUBSET Releases /\ op \in Ops
        BY DEF Inv, TypeOK, Ops
  <2> HIDE DEF next, rest
  <2>5. /\ op' \in Ops /\ op'.prev = op.prev /\ op'.snap = op.snap /\ op'.put = op.put
        /\ op'.plan = next
        BY <2>1, <2>3, <2>4 DEF Ops
  <2>6. next # "none"
        BY <2>1, ManagedAssumption
  <2>7. op.put = {}
        BY <2>1 DEF Inv, Staged
  <2>8. files' \in [Names -> Files \union {"none"}]
        BY <2>1 DEF Inv, TypeOK
  <2> QED BY <2>1, <2>5, <2>6, <2>7, <2>8, JobInv
<1>2. CASE SaveLock
  <2>1. /\ pc = "fetch" /\ pc' = "replaced"
        /\ op' = [op EXCEPT !.del = NamesOf(Superseded)]
        /\ lock' = [on |-> TRUE, mods |-> op.got] /\ mine' \subseteq mine
        /\ UNCHANGED <<files, rollback, risked>>
        BY <1>2 DEF SaveLock, Settled
  <2>2. op.got \in SUBSET Releases /\ Superseded \in SUBSET Releases
        BY DEF Inv, TypeOK, Ops, Locks, Superseded
  <2>3. NamesOf(Superseded) \in SUBSET Names
        BY <2>2, NamesAreNames
  <2>4. op' \in Ops /\ op'.prev = op.prev /\ op'.put = op.put
        BY <2>1, <2>3 DEF Inv, TypeOK, Ops
  <2>5. lock' \in Locks
        BY <2>1, <2>2 DEF Locks
  <2>6. TypeOK'
        BY <2>1, <2>4, <2>5 DEF Inv, TypeOK, rollback
  <2> QED BY <2>1, <2>4, <2>6 DEF Inv, Staged, Planned, Copied, Numbered, rollback
<1>3. CASE DropAbandoned
  <2>1. /\ pc = "replaced" /\ pc' = "finish" /\ op' = [op EXCEPT !.del = Abandoned]
        /\ UNCHANGED <<files, lock, rollback, mine, risked>>
        BY <1>3 DEF DropAbandoned, history
  <2>2. Abandoned \in SUBSET Names
    <3>1. op.gone \in SUBSET Releases
          BY DEF Inv, TypeOK, Ops
    <3> QED BY <3>1, NamesAreNames DEF Abandoned
  <2>3. op' \in Ops /\ op'.prev = op.prev /\ op'.snap = op.snap /\ op'.put = op.put
        BY <2>1, <2>2 DEF Inv, TypeOK, Ops
  <2> QED BY <2>1, <2>3, JobInv DEF Inv, TypeOK, Staged
<1> QED BY <1>1, <1>2, <1>3

LEMMA RestoreInv == ASSUME Inv, StageRestore PROVE Inv'
<1>1. /\ pc = "check" /\ pc' = "put"
      /\ op' = [op EXCEPT !.put = snaps[op.snap].names,
                          !.del = Tracked \ NamesOf(snaps[op.snap].mods)]
      /\ UNCHANGED <<files, lock, rollback, mine, risked>>
      BY DEF StageRestore, history
<1>2. op.snap \in Ids /\ op \in Ops /\ lock.mods \in SUBSET Releases
      BY <1>1 DEF Inv, TypeOK, Ops, Locks
<1>3. snaps[op.snap].names \in SUBSET Names /\ Tracked \in SUBSET Names
      BY <1>2, NamesAreNames DEF Inv, TypeOK, Tracked
<1>4. op' \in Ops /\ op'.prev = op.prev /\ op'.snap = op.snap
      BY <1>1, <1>2, <1>3 DEF Ops
<1>5. TypeOK'
      BY <1>1, <1>4 DEF Inv, TypeOK, rollback
<1> QED BY <1>1, <1>4, <1>5 DEF Inv, Staged, Planned, Copied, Numbered, rollback

(* The steps that end a job.                                               *)
LEMMA EndInv ==
    ASSUME Inv, SnapshotFails \/ Installed \/ Refuse \/ Relock \/ RestoreFails \/ Crash
    PROVE  Inv'
<1>1. CASE Relock
  <2>1. /\ pc = "put" /\ lock' = [on |-> TRUE, mods |-> snaps[op.snap].mods] /\ mine' \subseteq mine
        /\ Finish(op.kind # "rollback") /\ UNCHANGED <<files, rollback>>
        BY <1>1 DEF Relock
  <2>2. op.snap \in Ids
        BY <2>1 DEF Inv, TypeOK, Ops
  <2>3. lock' \in Locks
        BY <2>1, <2>2 DEF Inv, TypeOK, Locks
  <2> QED BY <2>1, <2>3, FinishInv DEF Inv, TypeOK
<1>2. CASE SnapshotFails \/ Installed \/ Refuse \/ RestoreFails \/ Crash
  <2>1. Finish(FALSE) /\ UNCHANGED <<files, lock, rollback, mine>>
        BY <1>2 DEF SnapshotFails, Installed, Refuse, RestoreFails, Crash
  <2> QED BY <2>1, FinishInv DEF Inv, TypeOK
<1> QED BY <1>1, <1>2

(* The steps whose failure may start a restore.                            *)
LEMMA FailureInv == ASSUME Inv, DeleteFails \/ SaveFails \/ RemoveLock PROVE Inv'
<1>1. CASE DeleteFails
  <2>1. op.del # {} /\ pc # "put" /\ Fail
        BY <1>1 DEF DeleteFails
  <2>2. pc \in {"attempt", "fetch", "replaced", "finish", "unlock"}
        BY <2>1 DEF Inv, TypeOK, Staged, NoOp
  <2> QED BY <2>1, <2>2, FailInv
<1>2. CASE SaveFails
      BY <1>2, FailInv DEF SaveFails, Settled
<1>3. CASE RemoveLock
  <2>1. pc = "unlock"
        BY <1>3 DEF RemoveLock
  <2>2. CASE lock' = NoLock /\ Finish(FALSE) /\ UNCHANGED <<files, rollback, mine>>
        BY <2>2, FinishInv, BlankValues DEF Inv, TypeOK
  <2>3. CASE Fail
        BY <2>1, <2>3, FailInv
  <2> QED BY <1>3, <2>2, <2>3 DEF RemoveLock
<1> QED BY <1>1, <1>2, <1>3

LEMMA UserInv ==
    ASSUME Inv, NEW n \in Names, (\E f \in Dropped : UserCreates(n, f)) \/ UserRemoves(n)
    PROVE  Inv'
<1>1. UNCHANGED <<lock, rollback, pc, op>>
      BY DEF UserCreates, UserRemoves
<1>2. /\ files \in [Names -> Files \union {"none"}]
      /\ mine \subseteq Names /\ risked \subseteq Names
      BY DEF Inv, TypeOK
<1>3. /\ mine' \subseteq Names /\ risked' \subseteq Names
      /\ files' \in [Names -> Files \union {"none"}]
  <2>1. CASE \E f \in Dropped : UserCreates(n, f)
    <3>1. PICK f \in Dropped : UserCreates(n, f)
          BY <2>1
    <3>2. f \in Files
          BY ManagedAssumption DEF Files
    <3>3. /\ files' = [files EXCEPT ![n] = f] /\ mine' \subseteq mine \union {n}
          /\ risked' \subseteq risked \union {n}
          BY <3>1 DEF UserCreates
    <3> QED BY <1>2, <3>2, <3>3
  <2>2. CASE UserRemoves(n)
    <3>1. files' = [files EXCEPT ![n] = "none"] /\ mine' \subseteq mine /\ risked' \subseteq risked
          BY <2>2 DEF UserRemoves
    <3> QED BY <1>2, <3>1
  <2> QED BY <2>1, <2>2
<1>4. TypeOK'
      BY <1>1, <1>3 DEF Inv, TypeOK, rollback
<1> QED BY <1>1, <1>4 DEF Inv, Staged, Planned, Copied, Numbered, rollback

LEMMA StepInv == Inv /\ [Next]_vars => Inv'
<1> SUFFICES ASSUME Inv, [Next]_vars PROVE Inv'
    OBVIOUS
<1>1. CASE UNCHANGED vars
  <2>1. TypeOK'
        BY <1>1 DEF vars, rollback, history, Inv, TypeOK
  <2> QED BY <1>1, <2>1 DEF vars, rollback, history, Inv, Staged, Planned, Copied, Numbered
<1> QED BY <1>1, RequestInv, SnapshotInv, CleanUpInv, DeleteInv, FetchInv, SaveInv, RestoreInv,
           EndInv, FailureInv, UserInv DEF Next

LEMMA Invariance == Spec => []Inv
BY InitInv, StepInv, PTL DEF Spec

(* Every variable keeps its type.                                          *)
THEOREM TypeCorrect == Spec => []TypeOK
<1>1. Inv => TypeOK
      BY DEF Inv
<1> QED BY <1>1, Invariance, PTL

-----------------------------------------------------------------------------
(* Snapshots.                                                              *)

(* The steps that do not write the rollback directory.                     *)
LEMMA RollbackKept ==
    ASSUME [Next]_vars, ~CopyTracked, ~RecordHistory, ~PointLatest, ~PruneHistory, ~CleanUp
    PROVE  UNCHANGED rollback
<1>1. ASSUME Fail PROVE UNCHANGED rollback
      BY <1>1 DEF Fail
<1>2. ASSUME \/ \E c \in Compositions : RequestInstall(c)
             \/ RequestRemove \/ (\E s \in Ids : RequestRollback(s))
      PROVE  UNCHANGED rollback
      BY <1>2 DEF RequestInstall, RequestRemove, RequestRollback, Start
<1>3. ASSUME SnapshotFails \/ Installed \/ Refuse \/ Relock \/ RestoreFails \/ Crash
      PROVE  UNCHANGED rollback
      BY <1>3 DEF SnapshotFails, Installed, Refuse, Relock, RestoreFails, Crash
<1>4. ASSUME DeleteFails \/ SaveFails \/ RemoveLock PROVE UNCHANGED rollback
      BY <1>1, <1>4 DEF DeleteFails, SaveFails, RemoveLock
<1>5. ASSUME BeginAttempt \/ FallBack \/ SaveLock \/ DropAbandoned \/ StageRestore
      PROVE  UNCHANGED rollback
      BY <1>5 DEF BeginAttempt, FallBack, SaveLock, DropAbandoned, StageRestore
<1>6. ASSUME \/ \E n \in Names : Delete(n) \/ Put(n)
             \/ \E r \in Releases : Resolve(ProjectOf[r], r) \/ Promote(r)
             \/ \E q \in Projects : DownloadFails(q)
             \/ \E n \in Names : (\E f \in Dropped : UserCreates(n, f)) \/ UserRemoves(n)
      PROVE  UNCHANGED rollback
      BY <1>6 DEF Delete, Put, Resolve, Promote, DownloadFails, UserCreates, UserRemoves
<1>7. CASE UNCHANGED vars
      BY <1>7 DEF vars
<1> QED BY <1>2, <1>3, <1>4, <1>5, <1>6, <1>7 DEF Next

LEMMA WholeStep == Inv /\ SnapshotsWhole /\ [Next]_vars => SnapshotsWhole'
<1> SUFFICES ASSUME Inv, SnapshotsWhole, [Next]_vars PROVE SnapshotsWhole'
    OBVIOUS
<1> SUFFICES ASSUME NEW s \in Ids, s \in retained' \/ s = latest',
                    NEW n \in snaps'[s].names
             PROVE  stored'[s][n] # "none"
    BY DEF SnapshotsWhole
<1>1. CASE CopyTracked
  <2>1. /\ UNCHANGED <<snaps, retained, latest>> /\ lastId' = lastId + 1
        /\ stored' = [stored EXCEPT ![lastId'] =
                [m \in Names |-> IF m \in NamesOf(op.prev.mods) THEN files[m] ELSE "none"]]
        BY <1>1 DEF CopyTracked
  <2>2. s # lastId'
        BY <2>1, ManagedAssumption DEF Inv, TypeOK, Numbered, Ids
  <2>3. stored'[s] = stored[s]
        BY <2>1, <2>2 DEF Inv, TypeOK
  <2> QED BY <2>1, <2>3 DEF SnapshotsWhole
<1>2. CASE RecordHistory
  <2>1. /\ snaps' = [snaps EXCEPT ![lastId] = [mods |-> op.prev.mods, names |-> Artifacts(lastId)]]
        /\ retained' = retained \union {lastId} /\ UNCHANGED <<stored, latest>>
        BY <1>2 DEF RecordHistory
  <2>2. CASE s = lastId
    <3>1. snaps'[s].names = Artifacts(s)
          BY <2>1, <2>2 DEF Inv, TypeOK
    <3> QED BY <2>1, <3>1 DEF Artifacts
  <2>3. CASE s # lastId
        BY <2>1, <2>3 DEF SnapshotsWhole, Inv, TypeOK
  <2> QED BY <2>2, <2>3
<1>3. CASE PointLatest
      BY <1>3 DEF PointLatest, SnapshotsWhole, Inv, Numbered
<1>4. CASE PruneHistory
  <2>1. /\ retained' \subseteq retained /\ UNCHANGED <<stored, latest>>
        /\ snaps' = [t \in Ids |-> IF t \in retained' \union {latest} THEN snaps[t] ELSE NoSnap]
        BY <1>4 DEF PruneHistory
  <2>2. snaps'[s] = snaps[s]
        BY <2>1
  <2> QED BY <2>1, <2>2 DEF SnapshotsWhole
<1>5. CASE CleanUp
  <2>1. /\ UNCHANGED <<snaps, retained, latest>>
        /\ stored' = [t \in Ids |-> IF t \in Referenced THEN stored[t] ELSE NoFiles]
        BY <1>5 DEF CleanUp
  <2>2. s # 0
        BY ManagedAssumption DEF Ids
  <2>3. s \in Referenced
        BY <2>1, <2>2 DEF Referenced
  <2>4. stored'[s] = stored[s]
        BY <2>1, <2>3
  <2> QED BY <2>1, <2>4 DEF SnapshotsWhole
<1>6. CASE UNCHANGED rollback
      BY <1>6 DEF rollback, SnapshotsWhole
<1> QED BY <1>1, <1>2, <1>3, <1>4, <1>5, <1>6, RollbackKept

(* Every snapshot a user can roll back to has the copies of all its artifacts, *)
(* whatever was pruned, cleaned up or interrupted by a crash after it.     *)
THEOREM SnapshotsAreWhole == Spec => []SnapshotsWhole
<1>1. Init => SnapshotsWhole
      BY ManagedAssumption DEF Init, SnapshotsWhole, Ids
<1> QED BY <1>1, WholeStep, Invariance, PTL DEF Spec

-----------------------------------------------------------------------------
(* The user's files.                                                       *)

LEMMA ApartInit == Init => Apart
BY DEF Init, Apart

(* A step that leaves the lock and the files of the user alone claims only *)
(* what was claimed or is tracked.                                         *)
LEMMA ApartSame ==
    ASSUME Apart, UNCHANGED <<lock, mine, risked>>,
           \A n \in mine \ risked : /\ files'[n] = files[n]
                                    /\ n \in Claimed' => n \in Claimed \union Tracked
    PROVE  Apart'
BY DEF Apart, Free, Tracked

(* A job that ends forgets what it was about to do.                        *)
LEMMA ApartFinish ==
    ASSUME Inv, Apart, NEW b, Finish(b), mine' \subseteq mine, UNCHANGED files,
           \A n \in mine' : n \notin Tracked'
    PROVE  Apart'
<1>1. op' = NoOp /\ risked' = {n \in risked : files[n] \notin UserFiles}
      BY DEF Finish
<1>2. Claimed' = {}
      BY <1>1 DEF Claimed, NoOp, NamesOf
<1>3. \A n \in mine' \ risked' : files'[n] \in UserFiles
      BY <1>1 DEF Apart, Free
<1> QED BY <1>2, <1>3 DEF Apart, Free

LEMMA ApartFail ==
    ASSUME Inv, Apart, Fail PROVE Apart'
<1>1. CASE op.prev.on
  <2>1. /\ op' = [op EXCEPT !.snap = latest, !.del = {}, !.todo = {}, !.coming = {},
                            !.got = {}, !.gone = {}]
        /\ UNCHANGED <<files, lock, mine, risked>>
        BY <1>1 DEF Fail, history
  <2>2. op'.del = {} /\ op'.put = op.put /\ op'.got = {} /\ op'.gone = {}
        BY <2>1 DEF Inv, TypeOK, Ops
  <2>3. Claimed' \subseteq Claimed
        BY <2>2 DEF Claimed, NamesOf
  <2> QED BY <2>1, <2>3, ApartSame
<1>2. CASE ~op.prev.on
      BY <1>2, ApartFinish DEF Fail, Apart, Free, Tracked
<1> QED BY <1>1, <1>2

LEMMA ApartRequest ==
    ASSUME Inv, Apart, \/ \E c \in Compositions : RequestInstall(c)
                       \/ RequestRemove
                       \/ \E s \in Ids : RequestRollback(s)
    PROVE  Apart'
<1>1. /\ UNCHANGED <<files, lock>> /\ mine' = mine \ risked /\ risked' = {}
      /\ op'.got = {} /\ op'.gone = {} /\ op'.del = {} /\ op'.put = {}
  <2>1. CASE \E c \in Compositions : RequestInstall(c)
        BY <2>1 DEF RequestInstall, Start, NoOp
  <2>2. CASE RequestRemove
        BY <2>2 DEF RequestRemove, Start, NoOp
  <2>3. CASE \E s \in Ids : RequestRollback(s)
        BY <2>3 DEF RequestRollback, Start, NoOp
  <2> QED BY <2>1, <2>2, <2>3
<1>2. Claimed' = {}
      BY <1>1 DEF Claimed, NamesOf
<1> QED BY <1>1, <1>2 DEF Apart, Free, Tracked

LEMMA ApartSnapshot ==
    ASSUME Inv, Apart, CopyTracked \/ RecordHistory \/ PointLatest \/ PruneHistory \/ CleanUp
    PROVE  Apart'
<1>1. UNCHANGED <<files, lock, mine, risked>>
      BY DEF CopyTracked, RecordHistory, PointLatest, PruneHistory, CleanUp, history
<1>2. CASE op' = op
      BY <1>1, <1>2, ApartSame DEF Claimed
<1>3. CASE op' = [op EXCEPT !.del = NamesOf(op.prev.mods)] /\ pc = "clean"
  <2>1. /\ op'.del = NamesOf(op.prev.mods) /\ op'.put = op.put
        /\ op'.got = op.got /\ op'.gone = op.gone
        BY <1>3 DEF Inv, TypeOK, Ops
  <2>2. op'.del = Tracked
        BY <1>3, <2>1 DEF Inv, Staged, Tracked
  <2> QED BY <1>1, <2>1, <2>2, ApartSame DEF Claimed
<1> QED BY <1>2, <1>3 DEF CopyTracked, RecordHistory, PointLatest, PruneHistory, CleanUp

LEMMA ApartDelete ==
    ASSUME Inv, Apart, NEW n \in Names, Delete(n) \/ Put(n) PROVE Apart'
<1>1. /\ n \in op.del \union op.put
      /\ UNCHANGED <<lock, mine, risked>>
      /\ \E f : files' = [files EXCEPT ![n] = f]
      /\ op' = [op EXCEPT !.del = @ \ {n}] \/ op' = [op EXCEPT !.put = @ \ {n}]
      BY DEF Delete, Put, history
<1>2. \A m \in mine \ risked : files'[m] = files[m]
      BY <1>1 DEF Apart, Free, Claimed, Inv, TypeOK
<1>3. /\ op'.del \subseteq op.del /\ op'.put \subseteq op.put
      /\ op'.got = op.got /\ op'.gone = op.gone
  <2>1. CASE op' = [op EXCEPT !.del = @ \ {n}]
        BY <2>1 DEF Inv, TypeOK, Ops
  <2>2. CASE op' = [op EXCEPT !.put = @ \ {n}]
        BY <2>2 DEF Inv, TypeOK, Ops
  <2> QED BY <1>1, <2>1, <2>2
<1> QED BY <1>1, <1>2, <1>3, ApartSame DEF Claimed

(* While files are fetched the lock is the one the job has read.           *)
LEMMA FetchTracks ==
    ASSUME Inv, pc \in {"clean", "attempt", "fetch", "unlock"} PROVE NamesOf(op.prev.mods) = Tracked
BY DEF Inv, Staged, Tracked

(* What an attempt installs is the provider's own file or takes a free or tracked name. *)
LEMMA ApartFetch ==
    ASSUME Inv, Apart, \/ BeginAttempt
                       \/ \E r \in Releases : Resolve(ProjectOf[r], r) \/ Promote(r)
                       \/ \E q \in Projects : DownloadFails(q)
    PROVE  Apart'
<1>1. CASE BeginAttempt
  <2> DEFINE stale == {r \in op.prev.mods : ProjectOf[r] \notin ModsOf[op.plan]}
  <2>1. /\ UNCHANGED <<files, lock, mine, risked>> /\ pc = "attempt"
        /\ op' = [op EXCEPT !.todo = ModsOf[op.plan], !.del = NamesOf(stale)]
        BY <1>1 DEF BeginAttempt, history
  <2>2. /\ op'.del = NamesOf(stale) /\ op'.put = op.put
        /\ op'.got = op.got /\ op'.gone = op.gone
        BY <2>1 DEF Inv, TypeOK, Ops
  <2>3. NamesOf(stale) \subseteq Tracked
    <3>1. NamesOf(stale) \subseteq NamesOf(op.prev.mods)
          BY DEF NamesOf
    <3> QED BY <2>1, <3>1, FetchTracks
  <2> QED BY <2>1, <2>2, <2>3, ApartSame DEF Claimed
<1>2. ASSUME NEW r \in Releases, Resolve(ProjectOf[r], r) PROVE Apart'
  <2>1. /\ UNCHANGED <<files, lock, mine, risked>>
        /\ \/ /\ op' = [op EXCEPT !.todo = @ \ {ProjectOf[r]}, !.got = @ \union {r}]
              /\ files[NameOf[r]] = r
           \/ op' = [op EXCEPT !.todo = @ \ {ProjectOf[r]}, !.failed = TRUE]
           \/ op' = [op EXCEPT !.todo = @ \ {ProjectOf[r]}, !.coming = @ \union {r}]
        BY <1>2 DEF Resolve, history
  <2>2. files[NameOf[r]] = r => NameOf[r] \notin mine \ risked
        BY ManagedAssumption DEF Apart, Free
  <2>3. /\ op'.del = op.del /\ op'.put = op.put /\ op'.gone = op.gone
        /\ op'.got = op.got \/ (op'.got = op.got \union {r} /\ NameOf[r] \notin mine \ risked)
    <3>1. CASE op' = [op EXCEPT !.todo = @ \ {ProjectOf[r]}, !.got = @ \union {r}]
               /\ files[NameOf[r]] = r
          BY <3>1, <2>2 DEF Inv, TypeOK, Ops
    <3>2. CASE op' = [op EXCEPT !.todo = @ \ {ProjectOf[r]}, !.failed = TRUE]
          BY <3>2 DEF Inv, TypeOK, Ops
    <3>3. CASE op' = [op EXCEPT !.todo = @ \ {ProjectOf[r]}, !.coming = @ \union {r}]
          BY <3>3 DEF Inv, TypeOK, Ops
    <3> QED BY <2>1, <3>1, <3>2, <3>3
  <2> QED BY <2>1, <2>3, ApartSame DEF Claimed, NamesOf
<1>3. ASSUME NEW r \in Releases, Promote(r) PROVE Apart'
  <2>1. /\ UNCHANGED <<lock, mine, risked>> /\ pc = "fetch"
        /\ \/ UNCHANGED files /\ op' = [op EXCEPT !.coming = @ \ {r}, !.failed = TRUE]
           \/ /\ ~Blocked(r)
              /\ files' = [files EXCEPT ![NameOf[r]] = r]
              /\ op' = [op EXCEPT !.coming = @ \ {r}, !.got = @ \union {r}]
        BY <1>3 DEF Promote, history
  <2>2. ~Blocked(r) => NameOf[r] \notin mine \ risked
        BY <2>1, FetchTracks, ManagedAssumption DEF Blocked, WasTracked, Apart, Free
  <2>3. CASE UNCHANGED files /\ op' = [op EXCEPT !.coming = @ \ {r}, !.failed = TRUE]
    <3>1. /\ op'.del = op.del /\ op'.put = op.put
          /\ op'.gone = op.gone /\ op'.got = op.got
          BY <2>3 DEF Inv, TypeOK, Ops
    <3> QED BY <2>1, <2>3, <3>1, ApartSame DEF Claimed
  <2>4. CASE /\ ~Blocked(r)
             /\ files' = [files EXCEPT ![NameOf[r]] = r]
             /\ op' = [op EXCEPT !.coming = @ \ {r}, !.got = @ \union {r}]
    <3>1. /\ op'.del = op.del /\ op'.put = op.put
          /\ op'.gone = op.gone /\ op'.got = op.got \union {r}
          BY <2>4 DEF Inv, TypeOK, Ops
    <3>2. \A m \in mine \ risked : files'[m] = files[m]
          BY <2>2, <2>4 DEF Inv, TypeOK
    <3> QED BY <2>1, <2>2, <2>4, <3>1, <3>2, ApartSame DEF Claimed, NamesOf
  <2> QED BY <2>1, <2>3, <2>4
<1>4. ASSUME NEW q \in Projects, DownloadFails(q) PROVE Apart'
  <2>1. /\ UNCHANGED <<files, lock, mine, risked>>
        /\ op' = [op EXCEPT !.todo = @ \ {q}, !.failed = TRUE,
                            !.coming = {r \in @ : ProjectOf[r] # q}]
        BY <1>4 DEF DownloadFails, history
  <2>2. /\ op'.del = op.del /\ op'.put = op.put
        /\ op'.gone = op.gone /\ op'.got = op.got
        BY <2>1 DEF Inv, TypeOK, Ops
  <2> QED BY <2>1, <2>2, ApartSame DEF Claimed
<1> QED BY <1>1, <1>2, <1>3, <1>4

LEMMA ApartSave == ASSUME Inv, Apart, FallBack \/ SaveLock \/ DropAbandoned PROVE Apart'
<1>1. CASE FallBack
  <2> DEFINE next == FallbackTo[op.plan]
             rest == {r \in op.got : ProjectOf[r] \notin ModsOf[next]}
  <2>1. /\ op' = [op EXCEPT !.plan = next, !.tried = @ \union {next}, !.failed = FALSE,
                            !.gone = @ \union op.got, !.got = {}, !.del = NamesOf(rest)]
        /\ UNCHANGED <<files, lock, mine, risked>>
        BY <1>1 DEF FallBack, history
  <2>2. NamesOf(rest) \subseteq NamesOf(op.got)
        BY DEF NamesOf
  <2>3. op \in Ops
        BY DEF Inv, TypeOK
  <2> HIDE DEF next, rest
  <2>4. /\ op'.del = NamesOf(rest) /\ op'.put = op.put
        /\ op'.gone = op.gone \union op.got /\ op'.got = {}
        BY <2>1, <2>3 DEF Ops
  <2> QED BY <2>1, <2>2, <2>4, ApartSame DEF Claimed, NamesOf
<1>2. CASE SaveLock
  <2>1. /\ op' = [op EXCEPT !.del = NamesOf(Superseded)] /\ pc = "fetch"
        /\ lock' = [on |-> TRUE, mods |-> op.got] /\ mine' = mine \ NamesOf(op.got)
        /\ UNCHANGED <<files, risked>>
        BY <1>2 DEF SaveLock, Settled
  <2>2. NamesOf(Superseded) \subseteq Tracked
    <3>1. NamesOf(Superseded) \subseteq NamesOf(op.prev.mods)
          BY DEF NamesOf, Superseded
    <3> QED BY <2>1, <3>1, FetchTracks
  <2>3. op \in Ops
        BY DEF Inv, TypeOK
  <2>4. /\ op'.del = NamesOf(Superseded) /\ op'.put = op.put
        /\ op'.gone = op.gone /\ op'.got = op.got
        BY <2>1, <2>3 DEF Ops
  <2>5. Tracked' = NamesOf(op.got)
        BY <2>1 DEF Tracked, NamesOf
  <2>6. \A n \in mine' \ risked' : n \notin Claimed'
        BY <2>1, <2>2, <2>4 DEF Apart, Free, Claimed
  <2> QED BY <2>1, <2>5, <2>6 DEF Apart, Free
<1>3. CASE DropAbandoned
  <2>1. op' = [op EXCEPT !.del = Abandoned] /\ UNCHANGED <<files, lock, mine, risked>>
        BY <1>3 DEF DropAbandoned, history
  <2>2. op \in Ops /\ Abandoned \subseteq NamesOf(op.gone)
        BY DEF Inv, TypeOK, Abandoned
  <2>3. /\ op'.del = Abandoned /\ op'.put = op.put
        /\ op'.gone = op.gone /\ op'.got = op.got
        BY <2>1, <2>2 DEF Ops
  <2> QED BY <2>1, <2>2, <2>3, ApartSame DEF Claimed, NamesOf
<1> QED BY <1>1, <1>2, <1>3

(* A restore puts files only where none is or where a tracked one is.      *)
LEMMA ApartStage == ASSUME Inv, Apart, StageRestore PROVE Apart'
<1>1. /\ pc = "check" /\ Restorable(op.snap)
      /\ op' = [op EXCEPT !.put = snaps[op.snap].names,
                          !.del = Tracked \ NamesOf(snaps[op.snap].mods)]
      /\ UNCHANGED <<files, lock, mine, risked>>
      BY DEF StageRestore, history
<1>2. op \in Ops
      BY DEF Inv, TypeOK
<1>3. /\ op'.put = snaps[op.snap].names /\ op'.del \subseteq Tracked
      /\ op'.gone = op.gone /\ op'.got = op.got
      BY <1>1, <1>2 DEF Ops
<1>4. \A n \in snaps[op.snap].names : n \notin mine \ risked
      BY <1>1, ManagedAssumption DEF Restorable, Apart, Free
<1> QED BY <1>1, <1>3, <1>4, ApartSame DEF Claimed

LEMMA ApartEnd ==
    ASSUME Inv, Apart, \/ SnapshotFails \/ Installed \/ Refuse \/ Relock \/ RestoreFails \/ Crash
                       \/ DeleteFails \/ SaveFails \/ RemoveLock
    PROVE  Apart'
<1>1. CASE SnapshotFails \/ Installed \/ Refuse \/ RestoreFails \/ Crash
  <2>1. Finish(FALSE) /\ UNCHANGED <<files, lock, mine>>
        BY <1>1 DEF SnapshotFails, Installed, Refuse, RestoreFails, Crash
  <2> QED BY <2>1, ApartFinish DEF Apart, Free, Tracked
<1>2. CASE Relock
  <2>1. /\ lock' = [on |-> TRUE, mods |-> snaps[op.snap].mods]
        /\ mine' = mine \ NamesOf(snaps[op.snap].mods)
        /\ Finish(op.kind # "rollback") /\ UNCHANGED files
        BY <1>2 DEF Relock
  <2> QED BY <2>1, ApartFinish DEF Tracked
<1>3. CASE DeleteFails \/ SaveFails
      BY <1>3, ApartFail DEF DeleteFails, SaveFails
<1>4. CASE RemoveLock
  <2>1. CASE lock' = NoLock /\ Finish(FALSE) /\ UNCHANGED <<files, rollback, mine>>
        BY <2>1, ApartFinish DEF Tracked, NamesOf, NoLock
  <2> QED BY <1>4, <2>1, ApartFail DEF RemoveLock
<1> QED BY <1>1, <1>2, <1>3, <1>4

(* A file put under a claimed name is at risk; one under another is not claimed later. *)
LEMMA ApartUser ==
    ASSUME Inv, Apart, NEW n \in Names, (\E f \in Dropped : UserCreates(n, f)) \/ UserRemoves(n)
    PROVE  Apart'
<1>1. UNCHANGED <<lock, op>>
      BY DEF UserCreates, UserRemoves
<1>2. UNCHANGED <<Tracked, Claimed>>
      BY <1>1 DEF Tracked, Claimed
<1>3. \A m \in mine \ {n} : \A f : [files EXCEPT ![n] = f][m] = files[m]
      BY DEF Inv, TypeOK
<1>4. CASE UserRemoves(n)
  <2>1. mine' = mine \ {n} /\ risked' = risked \ {n} /\ files' = [files EXCEPT ![n] = "none"]
        BY <1>4 DEF UserRemoves
  <2> QED BY <1>2, <1>3, <2>1 DEF Apart, Free
<1>5. CASE \E f \in Dropped : UserCreates(n, f)
  <2>1. PICK f \in Dropped : UserCreates(n, f)
        BY <1>5
  <2>2. /\ files' = [files EXCEPT ![n] = f]
        /\ mine' = IF f \in UserFiles /\ n \notin Tracked THEN mine \union {n} ELSE mine \ {n}
        /\ risked' = IF n \in Claimed \intersect mine' THEN risked \union {n} ELSE risked \ {n}
        BY <2>1 DEF UserCreates
  <2>3. files'[n] = f
        BY <2>2 DEF Inv, TypeOK
  <2>4. \A m \in mine' \ {n} : m \in mine /\ files'[m] = files[m] /\ (m \in risked' <=> m \in risked)
        BY <1>3, <2>2
  <2>5. n \in mine' => f \in UserFiles /\ n \notin Tracked /\ (n \in Claimed => n \in risked')
        BY <2>2
  <2> QED BY <1>2, <2>3, <2>4, <2>5 DEF Apart, Free
<1> QED BY <1>4, <1>5

LEMMA ApartStep == Inv /\ Apart /\ [Next]_vars => Apart'
<1> SUFFICES ASSUME Inv, Apart, [Next]_vars PROVE Apart'
    OBVIOUS
<1>1. CASE UNCHANGED vars
      BY <1>1 DEF vars, history, Apart, Free, Tracked, Claimed
<1> QED BY <1>1, ApartRequest, ApartSnapshot, ApartDelete, ApartFetch, ApartSave, ApartStage,
           ApartEnd, ApartUser DEF Next

(* No job deletes or replaces a file of the user under a name the lock does not *)
(* track, whenever it appeared, unless the job in progress had claimed the name *)
(* by then: it gives up its mods by name, and puts back where it found no file. *)
THEOREM NoUserFileTouched == Spec => []UserFilesKept
<1>1. Apart => UserFilesKept
      BY DEF Apart, Free, UserFilesKept
<1> QED BY <1>1, ApartInit, ApartStep, Invariance, PTL DEF Spec

-----------------------------------------------------------------------------
(* What an install leaves behind.                                          *)

(* The edits a job has found are not more than there are now.              *)
Counted == edits \in Nat /\ before.edits \in Nat /\ before.edits <= edits

(* An attempt offers one release for each project of its plan, and nothing *)
(* is fetched before the last stale file is gone.                          *)
Chosen ==
    /\ pc \notin {"fetch", "replaced", "finish", "check", "put"} =>
         op.todo = {} /\ op.coming = {} /\ op.got = {}
    /\ pc = "fetch" =>
         /\ op.del # {} => op.coming = {} /\ op.got = {}
         /\ op.todo \subseteq ModsOf[op.plan]
         /\ \A r \in op.coming \union op.got : ProjectOf[r] \in ModsOf[op.plan] \ op.todo
         /\ \A r, s \in op.coming \union op.got : ProjectOf[r] = ProjectOf[s] => r = s
    /\ pc \in {"replaced", "finish"} =>
         lock.mods = op.got /\ op.del \cap NamesOf(op.got) = {}

(* What an attempt has installed stays until the end.                      *)
InPlace == pc \in {"fetch", "replaced", "finish"} => \A r \in op.got : files[NameOf[r]] = r

(* What it has to delete is gone, or is about to be deleted.               *)
Stale == {r \in op.prev.mods : ProjectOf[r] \notin ModsOf[op.plan]}
Swept ==
    /\ pc \in {"fetch", "replaced", "finish"} => \A n \in NamesOf(Stale) :
         files[n] = "none" \/ (pc = "fetch" /\ n \in op.del)
    /\ pc \in {"replaced", "finish"} => \A n \in NamesOf(Superseded) :
         files[n] = "none" \/ (pc = "replaced" /\ n \in op.del)
    /\ pc = "finish" => \A n \in Abandoned : files[n] = "none" \/ n \in op.del

Complete == Chosen /\ (edits = before.edits => InPlace /\ Swept)

-----------------------------------------------------------------------------
(* What a failure restores.                                                *)

(* A copy of the tracked files as the job has found them.                  *)
CopiesFound(s) == edits = before.edits =>
    \A n \in Names : stored[s][n] = IF n \in NamesOf(op.prev.mods) THEN before.files[n] ELSE "none"
Records(s) == snaps[s] = [mods |-> op.prev.mods, names |-> Artifacts(s)]

(* What a job has read and what it goes back to.                           *)
Remembered ==
    /\ undone => pc = "idle"
    /\ op.kind \in {"install", "remove"} => op.prev = before.lock
    /\ pc \notin {"idle", "check", "put"} => op.kind \in {"install", "remove"}
    /\ pc \in {"check", "put"} => op.kind \in {"install", "remove", "rollback"}
    /\ pc \in {"check", "put"} /\ op.kind # "rollback" => op.prev.on /\ op.snap = latest
    /\ pc = "copy" /\ edits = before.edits => files = before.files

(* The newest snapshot of a job that has one is that of its beginning.     *)
Snapped ==
    /\ pc \in {"record", "point"} => CopiesFound(lastId)
    /\ pc = "point" => Records(lastId)
    /\ pc \in {"prune", "clean"} => CopiesFound(latest) /\ Records(latest)
    /\ pc \in {"attempt", "fetch", "replaced", "finish", "unlock", "check", "put"}
         /\ op.kind # "rollback" /\ op.prev.on => CopiesFound(latest) /\ Records(latest)

(* A restore puts every copy under its name and deletes none of them.      *)
Restored == pc = "put" =>
    /\ op.del \cap snaps[op.snap].names = {}
    /\ edits = before.edits =>
         \A n \in snaps[op.snap].names \ op.put : files[n] = stored[op.snap][n]


(* A step begins a job, ends one, works on one, or is the user's.          *)
Begins == \E next, o : Start(next, o)
Ends == \E b : Finish(b)
Works == UNCHANGED <<before, edits, undone>>
Edited == UNCHANGED <<lock, rollback, pc, op, before, undone>> /\ edits' = edits + 1

LEMMA KindsOfSteps == ASSUME [Next]_vars PROVE Begins \/ Ends \/ Works \/ Edited
<1>1. ASSUME Fail PROVE Ends \/ Works
      BY <1>1 DEF Fail, Ends, Works, history
<1>2. ASSUME \/ \E c \in Compositions : RequestInstall(c)
             \/ RequestRemove \/ (\E s \in Ids : RequestRollback(s))
      PROVE  Begins
      BY <1>2 DEF RequestInstall, RequestRemove, RequestRollback, Begins
<1>3. ASSUME SnapshotFails \/ Installed \/ Refuse \/ Relock \/ RestoreFails \/ Crash
      PROVE  Ends
      BY <1>3 DEF SnapshotFails, Installed, Refuse, Relock, RestoreFails, Crash, Ends
<1>4. ASSUME DeleteFails \/ SaveFails \/ RemoveLock PROVE Ends \/ Works
      BY <1>1, <1>4 DEF DeleteFails, SaveFails, RemoveLock, Ends
<1>5. ASSUME \/ CopyTracked \/ RecordHistory \/ PointLatest \/ PruneHistory \/ CleanUp
             \/ BeginAttempt \/ FallBack \/ SaveLock \/ DropAbandoned \/ StageRestore
      PROVE  Works
      BY <1>5 DEF CopyTracked, RecordHistory, PointLatest, PruneHistory, CleanUp,
                  BeginAttempt, FallBack, SaveLock, DropAbandoned, StageRestore, Works, history
<1>6. ASSUME \/ \E n \in Names : Delete(n) \/ Put(n)
             \/ \E r \in Releases : Resolve(ProjectOf[r], r) \/ Promote(r)
             \/ \E q \in Projects : DownloadFails(q)
      PROVE  Works
      BY <1>6 DEF Delete, Put, Resolve, Promote, DownloadFails, Works, history
<1>7. ASSUME \E n \in Names : (\E f \in Dropped : UserCreates(n, f)) \/ UserRemoves(n)
      PROVE  Edited
      BY <1>7 DEF UserCreates, UserRemoves, Edited
<1>8. CASE UNCHANGED vars
      BY <1>8 DEF vars, history, Works
<1> QED BY <1>2, <1>3, <1>4, <1>5, <1>6, <1>7, <1>8 DEF Next

LEMMA CountedStep == Counted /\ [Next]_vars => Counted'
<1> SUFFICES ASSUME Counted, [Next]_vars PROVE Counted'
    OBVIOUS
<1>1. CASE Begins
      BY <1>1 DEF Begins, Start, Counted
<1>2. CASE Ends
      BY <1>2 DEF Ends, Finish, NotStarted, Counted
<1>3. CASE Works
      BY <1>3 DEF Works, Counted
<1>4. CASE Edited
      BY <1>4 DEF Edited, Counted
<1> QED BY <1>1, <1>2, <1>3, <1>4, KindsOfSteps

-----------------------------------------------------------------------------
(* Every step of an install keeps what it needs to be complete.            *)


(* Nothing is promised of a job that installs nothing at the moment.       *)
LEMMA NotInstalling ==
    ASSUME pc' \notin {"fetch", "replaced", "finish"},
           pc' \notin {"check", "put"} => op'.todo = {} /\ op'.coming = {} /\ op'.got = {}
    PROVE  Complete'
BY DEF Complete, Chosen, InPlace, Swept

(* A job that ends, or fails and goes on to restore, installs nothing.     *)
LEMMA EndsComplete == ASSUME Ends PROVE Complete'
<1>1. pc' = "idle" /\ op' = NoOp
      BY DEF Ends, Finish
<1> QED BY <1>1, NotInstalling DEF NoOp

LEMMA FailComplete == ASSUME Fail PROVE Complete'
<1>1. CASE op.prev.on
  <2>1. pc' = "check"
        BY <1>1 DEF Fail
  <2> QED BY <2>1, NotInstalling
<1>2. CASE ~op.prev.on
      BY <1>2, EndsComplete DEF Fail, Ends
<1> QED BY <1>1, <1>2

LEMMA RequestComplete ==
    ASSUME \/ \E c \in Compositions : RequestInstall(c)
           \/ RequestRemove
           \/ \E s \in Ids : RequestRollback(s)
    PROVE  Complete'
<1>1. CASE \E c \in Compositions : RequestInstall(c)
      BY <1>1, NotInstalling DEF RequestInstall, Start, NoOp
<1>2. CASE RequestRemove
      BY <1>2, NotInstalling DEF RequestRemove, Start, NoOp
<1>3. CASE \E s \in Ids : RequestRollback(s)
      BY <1>3, NotInstalling DEF RequestRollback, Start, NoOp
<1> QED BY <1>1, <1>2, <1>3

LEMMA SnapshotComplete ==
    ASSUME Inv, Complete, CopyTracked \/ RecordHistory \/ PointLatest \/ PruneHistory \/ CleanUp
    PROVE  Complete'
<1>1. /\ pc \in {"copy", "record", "point", "prune", "clean"}
      /\ pc' \in {"record", "point", "prune", "clean", "unlock", "attempt"}
      /\ op' = op \/ op' = [op EXCEPT !.del = NamesOf(op.prev.mods)]
      BY DEF CopyTracked, RecordHistory, PointLatest, PruneHistory, CleanUp
<1>2. op \in Ops
      BY DEF Inv, TypeOK
<1>3. op'.todo = op.todo /\ op'.coming = op.coming /\ op'.got = op.got
      BY <1>1, <1>2 DEF Ops
<1> QED BY <1>1, <1>3, NotInstalling DEF Complete, Chosen

LEMMA StageComplete == ASSUME StageRestore PROVE Complete'
BY NotInstalling DEF StageRestore

(* What is deleted is none of the files that are installed.                *)
LEMMA DeleteComplete ==
    ASSUME Inv, Complete, NEW n \in Names, Delete(n) PROVE Complete'
<1>1. /\ n \in op.del /\ op' = [op EXCEPT !.del = @ \ {n}]
      /\ files' = [files EXCEPT ![n] = "none"]
      /\ UNCHANGED <<lock, pc, before, edits>>
      BY DEF Delete, history
<1>2. op \in Ops
      BY DEF Inv, TypeOK
<1>3. /\ op'.del = op.del \ {n} /\ op'.prev = op.prev /\ op'.plan = op.plan /\ op'.todo = op.todo
      /\ op'.coming = op.coming /\ op'.got = op.got /\ op'.gone = op.gone
      BY <1>1, <1>2 DEF Ops
<1>4. \A m \in Names : files'[m] = IF m = n THEN "none" ELSE files[m]
      BY <1>1 DEF Inv, TypeOK
<1>5. /\ Stale' = Stale /\ Superseded' = Superseded /\ Abandoned' = Abandoned
      BY <1>3 DEF Stale, Superseded, Abandoned
<1>6. Chosen'
      BY <1>1, <1>3 DEF Complete, Chosen
<1>7. ASSUME edits' = before'.edits PROVE InPlace'
  <2> SUFFICES ASSUME pc \in {"fetch", "replaced", "finish"}, NEW r \in op.got
               PROVE  files'[NameOf[r]] = r
      BY <1>1, <1>3 DEF InPlace
  <2>1. NameOf[r] \notin op.del
        BY <1>1 DEF Complete, Chosen, NamesOf
  <2>2. r \in Releases /\ NameOf[r] \in Names
        BY <1>2, ManagedAssumption DEF Ops
  <2> QED BY <1>1, <1>4, <1>7, <2>1, <2>2 DEF Complete, InPlace
<1>8. ASSUME edits' = before'.edits PROVE Swept'
  <2>1. Swept
        BY <1>1, <1>8 DEF Complete
  <2>2. /\ Stale \in SUBSET Releases /\ Superseded \in SUBSET Releases /\ op.gone \in SUBSET Releases
        BY <1>2 DEF Ops, Locks, Stale, Superseded
  <2>3. NamesOf(Stale) \subseteq Names /\ NamesOf(Superseded) \subseteq Names /\ Abandoned \subseteq Names
        BY <2>2, NamesAreNames DEF Abandoned
  <2> QED BY <1>1, <1>3, <1>4, <1>5, <2>1, <2>3 DEF Swept
<1> QED BY <1>6, <1>7, <1>8 DEF Complete

LEMMA PutComplete == ASSUME Complete, NEW n \in Names, Put(n) PROVE Complete'
BY NotInstalling DEF Put

(* An attempt starts with nothing fetched; what the plan lacks is to be deleted. *)
LEMMA BeginComplete ==
    ASSUME Inv, Complete, BeginAttempt PROVE Complete'
<1> DEFINE stale == {r \in op.prev.mods : ProjectOf[r] \notin ModsOf[op.plan]}
<1>1. /\ pc = "attempt" /\ pc' = "fetch"
      /\ op' = [op EXCEPT !.todo = ModsOf[op.plan], !.del = NamesOf(stale)]
      /\ UNCHANGED <<files, lock, before, edits>>
      BY DEF BeginAttempt, history
<1>2. op \in Ops
      BY DEF Inv, TypeOK
<1> HIDE DEF stale
<1>3. /\ op'.del = NamesOf(stale) /\ op'.prev = op.prev /\ op'.plan = op.plan
      /\ op'.todo = ModsOf[op.plan] /\ op'.coming = op.coming /\ op'.got = op.got
      BY <1>1, <1>2 DEF Ops
<1>4. op.coming = {} /\ op.got = {}
      BY <1>1 DEF Complete, Chosen
<1>5. Chosen'
      BY <1>1, <1>3, <1>4 DEF Chosen
<1>6. InPlace'
      BY <1>3, <1>4 DEF InPlace
<1>7. Stale' = stale
      BY <1>3 DEF Stale, stale
<1>8. Swept'
      BY <1>1, <1>3, <1>7 DEF Swept
<1> QED BY <1>5, <1>6, <1>8 DEF Complete

(* A release is taken as it is, refused, or downloaded.                    *)
LEMMA ResolveComplete ==
    ASSUME Inv, Complete, NEW r \in Releases, Resolve(ProjectOf[r], r) PROVE Complete'
<1>1. /\ pc = "fetch" /\ pc' = "fetch" /\ op.del = {}
      /\ ProjectOf[r] \in op.todo
      /\ UNCHANGED <<files, lock, before, edits>>
      /\ \/ op' = [op EXCEPT !.todo = @ \ {ProjectOf[r]}, !.got = @ \union {r}]
            /\ files[NameOf[r]] = r
         \/ op' = [op EXCEPT !.todo = @ \ {ProjectOf[r]}, !.failed = TRUE]
         \/ op' = [op EXCEPT !.todo = @ \ {ProjectOf[r]}, !.coming = @ \union {r}]
      BY DEF Resolve, history
<1>2. op \in Ops
      BY DEF Inv, TypeOK
<1>3. /\ op'.del = op.del /\ op'.prev = op.prev /\ op'.plan = op.plan
      /\ op'.todo = op.todo \ {ProjectOf[r]}
      /\ op'.coming \union op'.got \subseteq op.coming \union op.got \union {r}
      /\ op'.got = op.got \/ (op'.got = op.got \union {r} /\ files[NameOf[r]] = r)
  <2>1. CASE op' = [op EXCEPT !.todo = @ \ {ProjectOf[r]}, !.got = @ \union {r}]
             /\ files[NameOf[r]] = r
        BY <1>2, <2>1 DEF Ops
  <2>2. CASE op' = [op EXCEPT !.todo = @ \ {ProjectOf[r]}, !.failed = TRUE]
        BY <1>2, <2>2 DEF Ops
  <2>3. CASE op' = [op EXCEPT !.todo = @ \ {ProjectOf[r]}, !.coming = @ \union {r}]
        BY <1>2, <2>3 DEF Ops
  <2> QED BY <1>1, <2>1, <2>2, <2>3
<1>4. Chosen'
  <2>1. /\ op.todo \subseteq ModsOf[op.plan]
        /\ \A s \in op.coming \union op.got : ProjectOf[s] \in ModsOf[op.plan] \ op.todo
        /\ \A s, t \in op.coming \union op.got : ProjectOf[s] = ProjectOf[t] => s = t
        BY <1>1 DEF Complete, Chosen
  <2>2. op'.todo \subseteq ModsOf[op.plan]
        BY <1>3, <2>1
  <2>3. \A s \in op'.coming \union op'.got : ProjectOf[s] \in ModsOf[op.plan] \ op'.todo
        BY <1>1, <1>3, <2>1
  <2>4. \A s, t \in op'.coming \union op'.got : ProjectOf[s] = ProjectOf[t] => s = t
        BY <1>1, <1>3, <2>1
  <2> QED BY <1>1, <1>3, <2>2, <2>3, <2>4 DEF Chosen
<1>5. ASSUME edits' = before'.edits PROVE InPlace' /\ Swept'
  <2>1. InPlace /\ Swept
        BY <1>1, <1>5 DEF Complete
  <2>2. InPlace'
        BY <1>1, <1>3, <2>1 DEF InPlace
  <2>3. Stale' = Stale
        BY <1>3 DEF Stale
  <2>4. Swept'
        BY <1>1, <1>3, <2>1, <2>3 DEF Swept
  <2> QED BY <2>2, <2>4
<1> QED BY <1>4, <1>5 DEF Complete

(* A file that is put in place takes the name of no other one of the plan, and *)
(* of none the plan lacks: a name belongs to one project.                  *)
LEMMA PromoteComplete ==
    ASSUME Inv, Complete, NEW r \in Releases, Promote(r) PROVE Complete'
<1>1. /\ pc = "fetch" /\ pc' = "fetch" /\ r \in op.coming
      /\ UNCHANGED <<lock, before, edits>>
      /\ \/ op' = [op EXCEPT !.coming = @ \ {r}, !.failed = TRUE] /\ files' = files
         \/ /\ op' = [op EXCEPT !.coming = @ \ {r}, !.got = @ \union {r}]
            /\ files' = [files EXCEPT ![NameOf[r]] = r]
      BY DEF Promote, history
<1>2. op \in Ops
      BY DEF Inv, TypeOK
<1>3. /\ op'.del = op.del /\ op'.prev = op.prev /\ op'.plan = op.plan /\ op'.todo = op.todo
      /\ op'.coming \union op'.got \subseteq op.coming \union op.got
      /\ \/ op'.got = op.got /\ files' = files
         \/ op'.got = op.got \union {r} /\ files' = [files EXCEPT ![NameOf[r]] = r]
  <2>1. CASE op' = [op EXCEPT !.coming = @ \ {r}, !.failed = TRUE] /\ files' = files
        BY <1>2, <2>1 DEF Ops
  <2>2. CASE /\ op' = [op EXCEPT !.coming = @ \ {r}, !.got = @ \union {r}]
             /\ files' = [files EXCEPT ![NameOf[r]] = r]
        BY <1>1, <1>2, <2>2 DEF Ops
  <2> QED BY <1>1, <2>1, <2>2
<1>4. /\ op.del = {}
      /\ \A s \in op.coming \union op.got : ProjectOf[s] \in ModsOf[op.plan] \ op.todo
      /\ \A s, t \in op.coming \union op.got : ProjectOf[s] = ProjectOf[t] => s = t
      /\ op.todo \subseteq ModsOf[op.plan]
      BY <1>1 DEF Complete, Chosen
<1>5. Chosen'
      BY <1>1, <1>3, <1>4 DEF Chosen
<1>6. \A n \in Names : files'[n] = files[n] \/ (n = NameOf[r] /\ files'[n] = r)
      BY <1>3 DEF Inv, TypeOK
<1>7. NameOf \in [Releases -> Names] /\ op.got \subseteq Releases /\ op.prev.mods \subseteq Releases
      /\ \A s, t \in Releases : NameOf[s] = NameOf[t] => ProjectOf[s] = ProjectOf[t]
      BY <1>2, ManagedAssumption DEF Ops, Locks
<1>8. ASSUME edits' = before'.edits PROVE InPlace'
  <2> SUFFICES ASSUME NEW s \in op'.got PROVE files'[NameOf[s]] = s
      BY <1>1 DEF InPlace
  <2>1. InPlace
        BY <1>1, <1>8 DEF Complete
  <2>2. CASE s = r /\ op'.got # op.got
        BY <1>3, <1>7, <2>2 DEF Inv, TypeOK
  <2>3. CASE s \in op.got
    <3>1. NameOf[s] = NameOf[r] => s = r
          BY <1>1, <1>4, <1>7, <2>3
    <3> QED BY <1>1, <1>6, <1>7, <2>1, <2>3, <3>1 DEF InPlace
  <2> QED BY <1>3, <2>2, <2>3
<1>9. ASSUME edits' = before'.edits PROVE Swept'
  <2>1. Swept
        BY <1>1, <1>9 DEF Complete
  <2>2. Stale' = Stale
        BY <1>3 DEF Stale
  <2>3. ASSUME NEW n \in NamesOf(Stale) PROVE files'[n] = "none"
    <3>1. PICK s \in Stale : n = NameOf[s]
          BY DEF NamesOf
    <3>2. s \in Releases /\ ProjectOf[s] # ProjectOf[r]
          BY <1>1, <1>4, <1>7, <3>1 DEF Stale
    <3>3. n \in Names /\ n # NameOf[r]
          BY <1>7, <3>1, <3>2
    <3>4. files[n] = "none"
          BY <1>1, <1>4, <2>1 DEF Swept
    <3> QED BY <1>6, <3>3, <3>4
  <2> QED BY <1>1, <2>2, <2>3 DEF Swept
<1> QED BY <1>5, <1>8, <1>9 DEF Complete

LEMMA DownloadComplete ==
    ASSUME Inv, Complete, NEW q \in Projects, DownloadFails(q) PROVE Complete'
<1>1. /\ pc = "fetch" /\ pc' = "fetch" /\ op.del = {} /\ UNCHANGED <<files, lock, before, edits>>
      /\ op' = [op EXCEPT !.todo = @ \ {q}, !.failed = TRUE,
                          !.coming = {r \in @ : ProjectOf[r] # q}]
      BY DEF DownloadFails, history
<1>2. op \in Ops
      BY DEF Inv, TypeOK
<1>3. /\ op'.del = op.del /\ op'.prev = op.prev /\ op'.plan = op.plan /\ op'.got = op.got
      /\ op'.todo \subseteq op.todo /\ op'.coming \subseteq op.coming
      BY <1>1, <1>2 DEF Ops
<1>4. Chosen'
      BY <1>1, <1>3 DEF Complete, Chosen
<1>5. Stale' = Stale
      BY <1>3 DEF Stale
<1> QED BY <1>1, <1>3, <1>4, <1>5 DEF Complete, InPlace, Swept

LEMMA FallBackComplete == ASSUME Inv, Complete, FallBack PROVE Complete'
<1> DEFINE next == FallbackTo[op.plan]
           rest == {r \in op.got : ProjectOf[r] \notin ModsOf[next]}
<1>1. /\ op.todo = {} /\ op.coming = {} /\ pc' = "attempt"
      /\ op' = [op EXCEPT !.plan = next, !.tried = @ \union {next}, !.failed = FALSE,
                          !.gone = @ \union op.got, !.got = {}, !.del = NamesOf(rest)]
      BY DEF FallBack, Settled
<1>2. op \in Ops
      BY DEF Inv, TypeOK
<1> HIDE DEF next, rest
<1>3. op'.todo = {} /\ op'.coming = {} /\ op'.got = {}
      BY <1>1, <1>2 DEF Ops
<1> QED BY <1>1, <1>3, NotInstalling

(* The files that are superseded are none of those installed.              *)
LEMMA SaveComplete == ASSUME Inv, Complete, SaveLock PROVE Complete'
<1>1. /\ pc = "fetch" /\ pc' = "replaced" /\ op.del = {}
      /\ op' = [op EXCEPT !.del = NamesOf(Superseded)]
      /\ lock' = [on |-> TRUE, mods |-> op.got]
      /\ UNCHANGED <<files, before, edits>>
      BY DEF SaveLock, Settled
<1>2. op \in Ops
      BY DEF Inv, TypeOK
<1>3. /\ op'.del = NamesOf(Superseded) /\ op'.prev = op.prev /\ op'.plan = op.plan
      /\ op'.got = op.got
      BY <1>1, <1>2 DEF Ops
<1>4. NamesOf(Superseded) \cap NamesOf(op.got) = {}
  <2> SUFFICES ASSUME NEW r \in Superseded, NEW s \in op.got, NameOf[r] = NameOf[s] PROVE FALSE
      BY DEF NamesOf
  <2>1. PICK t \in op.got : ProjectOf[t] = ProjectOf[r] /\ NameOf[t] # NameOf[r]
        BY DEF Superseded
  <2>2. r \in Releases /\ s \in Releases
        BY <1>2 DEF Ops, Locks, Superseded
  <2>3. ProjectOf[s] = ProjectOf[t]
        BY <2>1, <2>2, ManagedAssumption
  <2>4. s = t
        BY <1>1, <2>3 DEF Complete, Chosen
  <2> QED BY <2>1, <2>4
<1>5. Chosen'
      BY <1>1, <1>3, <1>4 DEF Chosen
<1>6. Stale' = Stale /\ Superseded' = Superseded
      BY <1>3 DEF Stale, Superseded
<1>7. ASSUME edits' = before'.edits PROVE InPlace' /\ Swept'
  <2>1. InPlace /\ Swept
        BY <1>1, <1>7 DEF Complete
  <2>2. InPlace'
        BY <1>1, <1>3, <2>1 DEF InPlace
  <2>3. Swept'
        BY <1>1, <1>3, <1>6, <2>1 DEF Swept
  <2> QED BY <2>2, <2>3
<1> QED BY <1>5, <1>7 DEF Complete

(* What an abandoned attempt left is none of what is installed now.        *)
LEMMA DropComplete == ASSUME Inv, Complete, DropAbandoned PROVE Complete'
<1>1. /\ pc = "replaced" /\ pc' = "finish" /\ op.del = {} /\ op' = [op EXCEPT !.del = Abandoned]
      /\ UNCHANGED <<files, lock, before, edits>>
      BY DEF DropAbandoned, history
<1>2. op \in Ops
      BY DEF Inv, TypeOK
<1>3. /\ op'.del = Abandoned /\ op'.prev = op.prev /\ op'.plan = op.plan
      /\ op'.got = op.got /\ op'.gone = op.gone
      BY <1>1, <1>2 DEF Ops
<1>4. Stale' = Stale /\ Superseded' = Superseded /\ Abandoned' = Abandoned
      BY <1>3 DEF Stale, Superseded, Abandoned
<1>5. Abandoned \cap NamesOf(op.got) = {}
      BY DEF Abandoned
<1>6. Chosen'
      BY <1>1, <1>3, <1>5 DEF Complete, Chosen
<1>7. ASSUME edits' = before'.edits PROVE InPlace' /\ Swept'
  <2>1. InPlace /\ Swept
        BY <1>1, <1>7 DEF Complete
  <2>2. InPlace'
        BY <1>1, <1>3, <2>1 DEF InPlace
  <2>3. Swept'
        BY <1>1, <1>3, <1>4, <2>1 DEF Swept
  <2> QED BY <2>2, <2>3
<1> QED BY <1>6, <1>7 DEF Complete

(* After an edit of the user nothing is promised of the files.             *)
LEMMA EditComplete == ASSUME Counted, Complete, Edited PROVE Complete'
<1>1. UNCHANGED <<lock, pc, op, before>> /\ edits' # before'.edits
      BY DEF Counted, Edited
<1> QED BY <1>1 DEF Complete, Chosen

LEMMA CompleteStep == Inv /\ Counted /\ Complete /\ [Next]_vars => Complete'
<1> SUFFICES ASSUME Inv, Counted, Complete, [Next]_vars PROVE Complete'
    OBVIOUS
<1>1. CASE UNCHANGED vars
      BY <1>1 DEF vars, history, Complete, Chosen, InPlace, Swept, Stale, Superseded, Abandoned
<1>2. CASE \/ SnapshotFails \/ Installed \/ Refuse \/ Relock \/ RestoreFails \/ Crash
           \/ DeleteFails \/ SaveFails \/ RemoveLock
      BY <1>2, EndsComplete, FailComplete
      DEF SnapshotFails, Installed, Refuse, Relock, RestoreFails, Crash, DeleteFails, SaveFails,
          RemoveLock, Ends
<1>3. CASE \E n \in Names : (\E f \in Dropped : UserCreates(n, f)) \/ UserRemoves(n)
      BY <1>3, EditComplete DEF UserCreates, UserRemoves, Edited
<1>4. CASE \E r \in Releases : Resolve(ProjectOf[r], r) \/ Promote(r)
      BY <1>4, ResolveComplete, PromoteComplete
<1>5. CASE \E n \in Names : Delete(n) \/ Put(n)
      BY <1>5, DeleteComplete, PutComplete
<1>6. CASE \/ BeginAttempt \/ FallBack \/ SaveLock \/ DropAbandoned \/ StageRestore
           \/ \E q \in Projects : DownloadFails(q)
      BY <1>6, BeginComplete, FallBackComplete, SaveComplete, DropComplete, StageComplete,
         DownloadComplete
<1> QED BY <1>1, <1>2, <1>3, <1>4, <1>5, <1>6, RequestComplete, SnapshotComplete DEF Next

(* When an install ends well, every mod in the lock is on disk as recorded, and no *)
(* file of a mod it replaced, dropped or abandoned in a failed attempt is left, for *)
(* every manifest, every chain of fallbacks and every failure on the way.  *)
THEOREM InstallsAreComplete == Spec => []InstallIsComplete
<1>1. Init => Counted /\ Complete
  <2>1. ASSUME Init PROVE Counted /\ Complete
        BY <2>1 DEF Init, Counted, NotStarted, Complete, Chosen, InPlace, Swept, NoOp
  <2> QED BY <2>1
<1>2. Inv /\ Complete => InstallIsComplete
  <2> SUFFICES ASSUME Inv, Complete, pc = "finish", op.del = {}, edits = before.edits
               PROVE  /\ \A r \in lock.mods : files[NameOf[r]] = r
                      /\ \A r \in Superseded \union op.gone
                           \union {r \in op.prev.mods : ProjectOf[r] \notin ModsOf[op.plan]} :
                             NameOf[r] \notin Tracked => files[NameOf[r]] = "none"
      BY DEF InstallIsComplete
  <2>1. lock.mods = op.got /\ InPlace /\ Swept
        BY DEF Complete, Chosen
  <2>2. \A r \in lock.mods : files[NameOf[r]] = r
        BY <2>1 DEF InPlace
  <2>3. \A r \in Superseded : files[NameOf[r]] = "none"
        BY <2>1 DEF Swept, NamesOf
  <2>4. \A r \in Stale : files[NameOf[r]] = "none"
        BY <2>1 DEF Swept, NamesOf
  <2>5. \A r \in op.gone : NameOf[r] \notin Tracked => files[NameOf[r]] = "none"
        BY <2>1 DEF Swept, NamesOf, Abandoned, Tracked
  <2> QED BY <2>2, <2>3, <2>4, <2>5 DEF Stale
<1> QED BY <1>1, <1>2, CountedStep, CompleteStep, Invariance, PTL DEF Spec

-----------------------------------------------------------------------------
(* Every step keeps what a failure needs to restore.                       *)

(* The steps with which a job goes on.                                     *)
TakesSnapshot == CopyTracked \/ RecordHistory \/ PointLatest \/ PruneHistory \/ CleanUp
GoesOn ==
    \/ TakesSnapshot
    \/ \E n \in Names : Delete(n) \/ Put(n)
    \/ BeginAttempt
    \/ \E r \in Releases : Resolve(ProjectOf[r], r) \/ Promote(r)
    \/ \E q \in Projects : DownloadFails(q)
    \/ FallBack \/ SaveLock \/ DropAbandoned
    \/ StageRestore

(* They keep the request, the lock the job has read and the snapshot it restores. *)
LEMMA SameJob ==
    ASSUME Inv, GoesOn
    PROVE  /\ op'.kind = op.kind /\ op'.prev = op.prev /\ op'.snap = op.snap
           /\ UNCHANGED <<before, edits, undone>>
           /\ pc # "idle" /\ pc' \notin {"idle", "copy"}
           /\ pc \in {"check", "put"} <=> pc' \in {"check", "put"}
           /\ TakesSnapshot \/
                 (/\ pc \in {"attempt", "fetch", "replaced", "finish", "unlock", "check", "put"}
                  /\ pc' \in {"attempt", "fetch", "replaced", "finish", "unlock", "check", "put"}
                  /\ UNCHANGED rollback)
<1> USE DEF TakesSnapshot
<1>1. op \in Ops
      BY DEF Inv, TypeOK
<1>2. CASE TakesSnapshot
  <2>1. op' = op \/ op' = [op EXCEPT !.del = NamesOf(op.prev.mods)]
        BY <1>2 DEF CopyTracked, RecordHistory, PointLatest, PruneHistory, CleanUp
  <2>2. op'.kind = op.kind /\ op'.prev = op.prev /\ op'.snap = op.snap
        BY <1>1, <2>1 DEF Ops
  <2> QED BY <1>2, <2>2 DEF CopyTracked, RecordHistory, PointLatest, PruneHistory, CleanUp, history
<1>3. ASSUME NEW n \in Names, Delete(n) \/ Put(n)
      PROVE  /\ op'.kind = op.kind /\ op'.prev = op.prev /\ op'.snap = op.snap
             /\ pc \in {"attempt", "fetch", "replaced", "finish", "unlock", "check", "put"}
             /\ UNCHANGED <<rollback, pc, before, edits, undone>>
  <2>1. op' = [op EXCEPT !.del = @ \ {n}] \/ op' = [op EXCEPT !.put = @ \ {n}]
        BY <1>3 DEF Delete, Put
  <2>2. op'.kind = op.kind /\ op'.prev = op.prev /\ op'.snap = op.snap
        BY <1>1, <2>1 DEF Ops
  <2>3. n \in op.del \/ pc = "put"
        BY <1>3 DEF Delete, Put
  <2> QED BY <1>3, <2>2, <2>3 DEF Delete, Put, history, Inv, TypeOK, Staged, NoOp
<1>4. ASSUME BeginAttempt
      PROVE  op'.kind = op.kind /\ op'.prev = op.prev /\ op'.snap = op.snap
  <2> DEFINE stale == {r \in op.prev.mods : ProjectOf[r] \notin ModsOf[op.plan]}
  <2>1. op' = [op EXCEPT !.todo = ModsOf[op.plan], !.del = NamesOf(stale)]
        BY <1>4 DEF BeginAttempt
  <2> HIDE DEF stale
  <2> QED BY <1>1, <2>1 DEF Ops
<1>5. ASSUME NEW r \in Releases, Resolve(ProjectOf[r], r)
      PROVE  op'.kind = op.kind /\ op'.prev = op.prev /\ op'.snap = op.snap
  <2>1. \/ op' = [op EXCEPT !.todo = @ \ {ProjectOf[r]}, !.got = @ \union {r}]
        \/ op' = [op EXCEPT !.todo = @ \ {ProjectOf[r]}, !.failed = TRUE]
        \/ op' = [op EXCEPT !.todo = @ \ {ProjectOf[r]}, !.coming = @ \union {r}]
        BY <1>5 DEF Resolve
  <2> QED BY <1>1, <2>1 DEF Ops
<1>6. ASSUME NEW r \in Releases, Promote(r)
      PROVE  op'.kind = op.kind /\ op'.prev = op.prev /\ op'.snap = op.snap
  <2>1. \/ op' = [op EXCEPT !.coming = @ \ {r}, !.failed = TRUE]
        \/ op' = [op EXCEPT !.coming = @ \ {r}, !.got = @ \union {r}]
        BY <1>6 DEF Promote
  <2> QED BY <1>1, <2>1 DEF Ops
<1>7. ASSUME NEW q \in Projects, DownloadFails(q)
      PROVE  op'.kind = op.kind /\ op'.prev = op.prev /\ op'.snap = op.snap
      BY <1>1, <1>7 DEF DownloadFails, Ops
<1>8. ASSUME FallBack
      PROVE  op'.kind = op.kind /\ op'.prev = op.prev /\ op'.snap = op.snap
  <2> DEFINE next == FallbackTo[op.plan]
             rest == {r \in op.got : ProjectOf[r] \notin ModsOf[next]}
  <2>1. op' = [op EXCEPT !.plan = next, !.tried = @ \union {next}, !.failed = FALSE,
                         !.gone = @ \union op.got, !.got = {}, !.del = NamesOf(rest)]
        BY <1>8 DEF FallBack
  <2> HIDE DEF next, rest
  <2> QED BY <1>1, <2>1 DEF Ops
<1>9. ASSUME SaveLock \/ DropAbandoned
      PROVE  op'.kind = op.kind /\ op'.prev = op.prev /\ op'.snap = op.snap
  <2>1. op' = [op EXCEPT !.del = NamesOf(Superseded)] \/ op' = [op EXCEPT !.del = Abandoned]
        BY <1>9 DEF SaveLock, DropAbandoned
  <2> QED BY <1>1, <2>1 DEF Ops
<1>10. ASSUME StageRestore
       PROVE  op'.kind = op.kind /\ op'.prev = op.prev /\ op'.snap = op.snap
      BY <1>1, <1>10 DEF StageRestore, Ops
<1>11. ASSUME \/ BeginAttempt \/ FallBack \/ SaveLock \/ DropAbandoned \/ StageRestore
              \/ \E r \in Releases : Resolve(ProjectOf[r], r) \/ Promote(r)
              \/ \E q \in Projects : DownloadFails(q)
       PROVE  /\ UNCHANGED <<before, edits, undone, rollback>>
              /\ \/ pc = "check" /\ pc' = "put"
                 \/ pc \in {"attempt", "fetch", "replaced"}
                    /\ pc' \in {"attempt", "fetch", "replaced", "finish"}
      BY <1>11 DEF BeginAttempt, FallBack, SaveLock, DropAbandoned, StageRestore, Resolve, Promote,
                   DownloadFails, Settled, history
<1> HIDE DEF TakesSnapshot
<1>12. CASE \E n \in Names : Delete(n) \/ Put(n)
      BY <1>3, <1>12
<1>13. CASE \/ BeginAttempt \/ FallBack \/ SaveLock \/ DropAbandoned \/ StageRestore
            \/ \E r \in Releases : Resolve(ProjectOf[r], r) \/ Promote(r)
            \/ \E q \in Projects : DownloadFails(q)
  <2>1. op'.kind = op.kind /\ op'.prev = op.prev /\ op'.snap = op.snap
        BY <1>4, <1>5, <1>6, <1>7, <1>8, <1>9, <1>10, <1>13
  <2>2. /\ UNCHANGED <<before, edits, undone, rollback>>
        /\ \/ pc = "check" /\ pc' = "put"
           \/ pc \in {"attempt", "fetch", "replaced"}
              /\ pc' \in {"attempt", "fetch", "replaced", "finish"}
        BY <1>11, <1>13
  <2> QED BY <2>1, <2>2
<1> QED BY <1>2, <1>12, <1>13 DEF GoesOn

(* Fail starts a restore of the latest snapshot, or ends the job.          *)
LEMMA FailsToRestore ==
    ASSUME Inv, Remembered, DeleteFails \/ SaveFails \/ RemoveLock
    PROVE  \/ Ends
           \/ /\ pc \in {"attempt", "fetch", "replaced", "finish", "unlock"} /\ pc' = "check"
              /\ op.prev.on /\ op'.kind = op.kind /\ op'.prev = op.prev /\ op'.snap = latest
              /\ op.kind \in {"install", "remove"}
              /\ UNCHANGED <<rollback, before, edits, undone>>
<1>1. CASE Ends
      BY <1>1
<1>2. CASE ~Ends
  <2>1. Fail
        BY <1>2 DEF DeleteFails, SaveFails, RemoveLock, Ends
  <2>2. pc \in {"attempt", "fetch", "replaced", "finish", "unlock"}
    <3>1. CASE DeleteFails
          BY <3>1 DEF DeleteFails, Inv, TypeOK, Staged, NoOp
    <3>2. CASE SaveFails \/ RemoveLock
          BY <3>2 DEF SaveFails, RemoveLock, Settled
    <3> QED BY <3>1, <3>2
  <2>3. op.prev.on
        BY <1>2, <2>1 DEF Fail, Ends
  <2>4. /\ pc' = "check"
        /\ op' = [op EXCEPT !.snap = latest, !.del = {}, !.todo = {}, !.coming = {},
                            !.got = {}, !.gone = {}]
        /\ UNCHANGED <<rollback, before, edits, undone>>
        BY <2>1, <2>3 DEF Fail, history
  <2>5. op \in Ops
        BY DEF Inv, TypeOK
  <2>6. op'.kind = op.kind /\ op'.prev = op.prev /\ op'.snap = latest
        BY <2>4, <2>5 DEF Ops
  <2> QED BY <2>2, <2>3, <2>4, <2>6 DEF Remembered
<1> QED BY <1>1, <1>2

(* A request that finds a lock goes on to copy the files it has found.     *)
LEMMA RequestBegins ==
    ASSUME \/ \E c \in Compositions : RequestInstall(c)
           \/ RequestRemove
           \/ \E s \in Ids : RequestRollback(s)
    PROVE  /\ undone' = FALSE
           /\ UNCHANGED rollback
           /\ \/ /\ op'.kind \in {"install", "remove"} /\ op'.prev = before'.lock
                 /\ pc' = "copy" \/ (pc' = "attempt" /\ ~op'.prev.on)
                 /\ files' = before'.files
              \/ op'.kind = "rollback" /\ pc' = "check"
<1>1. ASSUME NEW c \in Compositions, RequestInstall(c)
      PROVE  op'.prev = lock /\ (pc' = "copy" \/ (pc' = "attempt" /\ ~lock.on))
      BY <1>1 DEF RequestInstall, Start, NoOp
<1>2. ASSUME RequestRemove
      PROVE  /\ op'.kind = "remove" /\ op'.prev = lock /\ pc' = "copy"
             /\ before' = [files |-> files, lock |-> lock, edits |-> edits]
             /\ undone' = FALSE /\ UNCHANGED <<files, rollback>>
      BY <1>2 DEF RequestRemove, Start, NoOp
<1>3. ASSUME NEW s \in Ids, RequestRollback(s)
      PROVE  op'.kind = "rollback" /\ pc' = "check" /\ undone' = FALSE /\ UNCHANGED rollback
      BY <1>3 DEF RequestRollback, Start, NoOp
<1>4. ASSUME NEW c \in Compositions, RequestInstall(c)
      PROVE  pc' = "copy" \/ (pc' = "attempt" /\ ~op'.prev.on)
      BY <1>1, <1>4, Zenon
<1>5. ASSUME NEW c \in Compositions, RequestInstall(c)
      PROVE  /\ op'.kind = "install" /\ op'.prev = before'.lock /\ files' = before'.files
             /\ undone' = FALSE /\ UNCHANGED rollback
      BY <1>5 DEF RequestInstall, Start, NoOp
<1>6. CASE \E c \in Compositions : RequestInstall(c)
      BY <1>4, <1>5, <1>6
<1>7. CASE RequestRemove
      BY <1>2, <1>7
<1> QED BY <1>3, <1>6, <1>7

LEMMA UserEdits ==
    ASSUME NEW n \in Names, (\E f \in Dropped : UserCreates(n, f)) \/ UserRemoves(n)
    PROVE  Edited
BY DEF UserCreates, UserRemoves, Edited

LEMMA RememberedStep == Inv /\ Counted /\ Remembered /\ [Next]_vars => Remembered'
<1> SUFFICES ASSUME Inv, Counted, Remembered, [Next]_vars PROVE Remembered'
    OBVIOUS
<1>1. CASE UNCHANGED vars
      BY <1>1 DEF vars, rollback, history, Remembered
<1>2. CASE Ends
  <2>1. pc' = "idle" /\ op' = NoOp
        BY <1>2 DEF Ends, Finish
  <2> QED BY <2>1 DEF Remembered, NoOp
<1>3. CASE Edited
      BY <1>3 DEF Edited, Remembered, Counted, rollback
<1>4. CASE GoesOn
  <2>1. /\ op'.kind = op.kind /\ op'.prev = op.prev /\ op'.snap = op.snap
        /\ UNCHANGED <<before, edits, undone>>
        /\ pc # "idle" /\ pc' \notin {"idle", "copy"}
        /\ pc \in {"check", "put"} <=> pc' \in {"check", "put"}
        BY <1>4, SameJob
  <2>2. pc \in {"check", "put"} => latest' = latest
    <3>1. TakesSnapshot => pc \notin {"check", "put"}
          BY DEF TakesSnapshot, CopyTracked, RecordHistory, PointLatest, PruneHistory, CleanUp
    <3> QED BY <1>4, <3>1, SameJob DEF rollback
  <2> QED BY <2>1, <2>2 DEF Remembered
<1>5. CASE \/ \E c \in Compositions : RequestInstall(c)
           \/ RequestRemove
           \/ \E s \in Ids : RequestRollback(s)
      BY <1>5, RequestBegins DEF Remembered
<1>6. CASE DeleteFails \/ SaveFails \/ RemoveLock
      BY <1>2, <1>6, FailsToRestore DEF Remembered, rollback
<1>7. CASE SnapshotFails \/ Installed \/ Refuse \/ Relock \/ RestoreFails \/ Crash
      BY <1>2, <1>7 DEF SnapshotFails, Installed, Refuse, Relock, RestoreFails, Crash, Ends
<1> QED BY <1>1, <1>3, <1>4, <1>5, <1>6, <1>7, UserEdits DEF Next, GoesOn, TakesSnapshot

(* Taking a snapshot copies what the job has found, records it and points to it. *)
LEMMA TakeSnapped == ASSUME Inv, Remembered, Snapped, TakesSnapshot PROVE Snapped'
<1> DEFINE tracked == NamesOf(op.prev.mods)
<1>1. /\ op'.kind = op.kind /\ op'.prev = op.prev
      /\ UNCHANGED <<before, edits>>
      BY SameJob DEF GoesOn
<1>2. /\ stored \in [Ids -> [Names -> Files \union {"none"}]]
      /\ snaps \in [Ids -> [mods : SUBSET Releases, names : SUBSET Names]]
      BY DEF Inv, TypeOK
<1>3. CASE CopyTracked
  <2>1. /\ lastId' = lastId + 1 /\ pc = "copy" /\ pc' = "record"
        /\ stored' = [stored EXCEPT ![lastId'] =
                        [n \in Names |-> IF n \in tracked THEN files[n] ELSE "none"]]
        BY <1>3 DEF CopyTracked
  <2>2. lastId' \in Ids
        BY <2>1, ManagedAssumption DEF Inv, TypeOK, Numbered, Ids
  <2>3. edits = before.edits => files = before.files
        BY <2>1 DEF Remembered
  <2>4. CopiesFound(lastId)'
        BY <1>1, <1>2, <2>1, <2>2, <2>3 DEF CopiesFound
  <2> QED BY <2>1, <2>4 DEF Snapped
<1>4. CASE RecordHistory
  <2>1. /\ pc = "record" /\ pc' = "point" /\ UNCHANGED <<stored, lastId>>
        /\ snaps' = [snaps EXCEPT ![lastId] = [mods |-> op.prev.mods, names |-> Artifacts(lastId)]]
        BY <1>4 DEF RecordHistory
  <2>2. lastId \in Ids
        BY <2>1 DEF Inv, TypeOK, Numbered
  <2>3. Artifacts(lastId)' = Artifacts(lastId)
        BY <2>1 DEF Artifacts
  <2>4. Records(lastId)'
        BY <1>1, <1>2, <2>1, <2>2, <2>3 DEF Records
  <2>5. CopiesFound(lastId)'
        BY <1>1, <2>1 DEF Snapped, CopiesFound
  <2> QED BY <2>1, <2>4, <2>5 DEF Snapped
<1>5. CASE PointLatest
  <2>1. /\ pc = "point" /\ pc' = "prune" /\ UNCHANGED <<stored, snaps>> /\ latest' = lastId
        BY <1>5 DEF PointLatest
  <2>2. CopiesFound(latest)' /\ Records(latest)'
        BY <1>1, <2>1 DEF Snapped, CopiesFound, Records, Artifacts
  <2> QED BY <2>1, <2>2 DEF Snapped
<1>6. CASE PruneHistory
  <2>1. /\ pc = "prune" /\ pc' = "clean" /\ UNCHANGED <<stored, latest>>
        /\ snaps' = [s \in Ids |-> IF s \in retained' \union {latest} THEN snaps[s] ELSE NoSnap]
        BY <1>6 DEF PruneHistory
  <2>2. latest \in Ids
        BY <2>1 DEF Inv, TypeOK, Numbered
  <2>3. snaps'[latest] = snaps[latest]
        BY <2>1, <2>2
  <2>4. CopiesFound(latest)' /\ Records(latest)'
        BY <1>1, <2>1, <2>3 DEF Snapped, CopiesFound, Records, Artifacts
  <2> QED BY <2>1, <2>4 DEF Snapped
<1>7. CASE CleanUp
  <2>1. /\ pc = "clean" /\ pc' \in {"unlock", "attempt"} /\ UNCHANGED <<snaps, latest>>
        /\ stored' = [s \in Ids |-> IF s \in Referenced THEN stored[s] ELSE NoFiles]
        BY <1>7 DEF CleanUp
  <2>2. latest \in Ids /\ latest \in Referenced
        BY <2>1 DEF Inv, TypeOK, Numbered, Referenced
  <2>3. stored'[latest] = stored[latest]
        BY <2>1, <2>2
  <2>4. CopiesFound(latest)' /\ Records(latest)'
        BY <1>1, <2>1, <2>3 DEF Snapped, CopiesFound, Records, Artifacts
  <2> QED BY <2>1, <2>4 DEF Snapped
<1> QED BY <1>3, <1>4, <1>5, <1>6, <1>7 DEF TakesSnapshot

LEMMA SnappedStep == Inv /\ Counted /\ Remembered /\ Snapped /\ [Next]_vars => Snapped'
<1> SUFFICES ASSUME Inv, Counted, Remembered, Snapped, [Next]_vars PROVE Snapped'
    OBVIOUS
<1>1. CASE UNCHANGED vars
      BY <1>1 DEF vars, rollback, history, Snapped, CopiesFound, Records, Artifacts
<1>2. CASE Ends
      BY <1>2 DEF Ends, Finish, Snapped
<1>3. CASE Edited
      BY <1>3 DEF Edited, Counted, rollback, Snapped, CopiesFound, Records, Artifacts
<1>4. CASE GoesOn
  <2>1. CASE TakesSnapshot
        BY <2>1, TakeSnapped
  <2>2. CASE ~TakesSnapshot
    <3>1. /\ pc \in {"attempt", "fetch", "replaced", "finish", "unlock", "check", "put"}
          /\ pc' \in {"attempt", "fetch", "replaced", "finish", "unlock", "check", "put"}
          /\ UNCHANGED <<rollback, before, edits>>
          /\ op'.kind = op.kind /\ op'.prev = op.prev
          BY <1>4, <2>2, SameJob
    <3> QED BY <3>1 DEF rollback, Snapped, CopiesFound, Records, Artifacts
  <2> QED BY <2>1, <2>2
<1>5. CASE \/ \E c \in Compositions : RequestInstall(c)
           \/ RequestRemove
           \/ \E s \in Ids : RequestRollback(s)
      BY <1>5, RequestBegins DEF Snapped
<1>6. CASE DeleteFails \/ SaveFails \/ RemoveLock
  <2>1. CASE /\ pc \in {"attempt", "fetch", "replaced", "finish", "unlock"} /\ pc' = "check"
             /\ op.prev.on /\ op'.kind = op.kind /\ op'.prev = op.prev /\ op'.snap = latest
             /\ op.kind \in {"install", "remove"}
             /\ UNCHANGED <<rollback, before, edits, undone>>
        BY <2>1 DEF rollback, Snapped, CopiesFound, Records, Artifacts
  <2> QED BY <1>2, <1>6, <2>1, FailsToRestore
<1>7. CASE SnapshotFails \/ Installed \/ Refuse \/ Relock \/ RestoreFails \/ Crash
      BY <1>2, <1>7 DEF SnapshotFails, Installed, Refuse, Relock, RestoreFails, Crash, Ends
<1> QED BY <1>1, <1>3, <1>4, <1>5, <1>6, <1>7, UserEdits DEF Next, GoesOn, TakesSnapshot

LEMMA RestoredStep == Inv /\ Counted /\ Remembered /\ Restored /\ [Next]_vars => Restored'
<1> SUFFICES ASSUME Inv, Counted, Remembered, Restored, [Next]_vars, pc' = "put"
             PROVE  /\ op'.del \cap snaps'[op'.snap].names = {}
                    /\ edits' = before'.edits =>
                         \A n \in snaps'[op'.snap].names \ op'.put : files'[n] = stored'[op'.snap][n]
    BY DEF Restored
<1>1. CASE UNCHANGED vars
      BY <1>1 DEF vars, rollback, history, Restored
<1>2. CASE StageRestore
  <2>1. /\ pc = "check" /\ UNCHANGED <<snaps, stored>>
        /\ op' = [op EXCEPT !.put = snaps[op.snap].names,
                            !.del = Tracked \ NamesOf(snaps[op.snap].mods)]
        BY <1>2 DEF StageRestore, rollback
  <2>2. op \in Ops /\ op.snap \in Ids /\ snaps[op.snap].names \subseteq NamesOf(snaps[op.snap].mods)
        BY <2>1 DEF Inv, TypeOK, Ops
  <2>3. /\ op'.snap = op.snap /\ op'.put = snaps[op.snap].names
        /\ op'.del = Tracked \ NamesOf(snaps[op.snap].mods)
        BY <2>1, <2>2 DEF Ops
  <2> QED BY <2>1, <2>2, <2>3
<1>3. ASSUME NEW m \in Names, Delete(m)
      PROVE  /\ op'.del \cap snaps'[op'.snap].names = {}
             /\ edits' = before'.edits =>
                  \A n \in snaps'[op'.snap].names \ op'.put : files'[n] = stored'[op'.snap][n]
  <2>1. /\ pc = "put" /\ m \in op.del /\ op' = [op EXCEPT !.del = @ \ {m}]
        /\ files' = [files EXCEPT ![m] = "none"] /\ UNCHANGED <<snaps, stored, before, edits>>
        BY <1>3 DEF Delete, rollback, history
  <2>2. /\ op'.snap = op.snap /\ op'.put = op.put /\ op'.del = op.del \ {m}
        /\ op.snap \in Ids /\ snaps[op.snap].names \subseteq Names
        BY <2>1 DEF Inv, TypeOK, Ops
  <2>3. \A n \in Names : n # m => files'[n] = files[n]
        BY <2>1 DEF Inv, TypeOK
  <2>4. m \notin snaps[op.snap].names
        BY <2>1 DEF Restored
  <2> QED BY <2>1, <2>2, <2>3, <2>4 DEF Restored
<1>4. ASSUME NEW m \in Names, Put(m)
      PROVE  /\ op'.del \cap snaps'[op'.snap].names = {}
             /\ edits' = before'.edits =>
                  \A n \in snaps'[op'.snap].names \ op'.put : files'[n] = stored'[op'.snap][n]
  <2>1. /\ pc = "put" /\ op.del = {} /\ op' = [op EXCEPT !.put = @ \ {m}]
        /\ files' = [files EXCEPT ![m] = stored[op.snap][m]] /\ UNCHANGED <<snaps, stored, before, edits>>
        BY <1>4 DEF Put, rollback, history
  <2>2. /\ op'.snap = op.snap /\ op'.del = op.del /\ op'.put = op.put \ {m}
        /\ op.snap \in Ids /\ snaps[op.snap].names \subseteq Names
        BY <2>1 DEF Inv, TypeOK, Ops
  <2>3. \A n \in Names : files'[n] = IF n = m THEN stored[op.snap][m] ELSE files[n]
        BY <2>1 DEF Inv, TypeOK
  <2> QED BY <2>1, <2>2, <2>3 DEF Restored
<1>5. CASE Ends
      BY <1>5 DEF Ends, Finish
<1>6. CASE Edited
  <2>1. /\ UNCHANGED <<snaps, stored, op, before, pc>> /\ edits' # before'.edits
        BY <1>6 DEF Edited, Counted, rollback
  <2> QED BY <2>1 DEF Restored
<1>7. CASE \/ \E c \in Compositions : RequestInstall(c)
           \/ RequestRemove
           \/ \E s \in Ids : RequestRollback(s)
      BY <1>7, RequestBegins
<1>8. CASE DeleteFails \/ SaveFails \/ RemoveLock
      BY <1>5, <1>8, FailsToRestore
<1>9. CASE SnapshotFails \/ Installed \/ Refuse \/ Relock \/ RestoreFails \/ Crash
      BY <1>5, <1>9 DEF SnapshotFails, Installed, Refuse, Relock, RestoreFails, Crash, Ends
<1>10. CASE \/ TakesSnapshot \/ BeginAttempt \/ FallBack \/ SaveLock \/ DropAbandoned
            \/ \E r \in Releases : Resolve(ProjectOf[r], r) \/ Promote(r)
            \/ \E q \in Projects : DownloadFails(q)
      BY <1>10 DEF TakesSnapshot, CopyTracked, RecordHistory, PointLatest, PruneHistory, CleanUp,
                   BeginAttempt, FallBack, SaveLock, DropAbandoned, Resolve, Promote, DownloadFails,
                   Settled
<1> QED BY <1>1, <1>2, <1>3, <1>4, <1>6, <1>7, <1>8, <1>9, <1>10, UserEdits
        DEF Next, TakesSnapshot

(* Only the end of a restore after an error leaves its mark.               *)
LEMMA OnlyRelock ==
    ASSUME [Next]_vars, Inv, pc = "put", ~undone, undone'
    PROVE  Relock /\ op.kind # "rollback"
<1>1. ~UNCHANGED undone
      OBVIOUS
<1>2. CASE Relock
      BY <1>2 DEF Relock, Finish
<1>3. ~Finish(FALSE)
      BY DEF Finish
<1>4. ~(SnapshotFails \/ Installed \/ Refuse \/ RestoreFails \/ Crash)
      BY <1>3 DEF SnapshotFails, Installed, Refuse, RestoreFails, Crash
<1>5. ~(DeleteFails \/ SaveFails \/ RemoveLock)
      BY DEF DeleteFails, SaveFails, RemoveLock, Settled
<1>6. ~GoesOn
      BY <1>1, SameJob
<1>7. ~Edited /\ ~UNCHANGED vars
      BY <1>1 DEF Edited, vars
<1>8. ~(\/ \E c \in Compositions : RequestInstall(c)
        \/ RequestRemove \/ \E s \in Ids : RequestRollback(s))
      BY DEF RequestInstall, RequestRemove, RequestRollback
<1> QED BY <1>2, <1>4, <1>5, <1>6, <1>7, <1>8, UserEdits DEF Next, GoesOn, TakesSnapshot

Undoable == Counted /\ Remembered /\ Snapped /\ Restored

LEMMA UndoesStep ==
    ASSUME Inv, Undoable, [Next]_vars, pc = "put", undone', edits = before.edits
    PROVE  /\ lock' = before.lock
           /\ \A n \in NamesOf(lock'.mods) : before.files[n] # "none" => files'[n] = before.files[n]
<1>1. Relock /\ op.kind # "rollback"
      BY OnlyRelock DEF Undoable, Remembered
<1>2. /\ op.del = {} /\ op.put = {} /\ UNCHANGED files
      /\ lock' = [on |-> TRUE, mods |-> snaps[op.snap].mods]
      BY <1>1 DEF Relock
<1>3. /\ op.kind \in {"install", "remove"} /\ op.prev = before.lock
      /\ op.prev.on /\ op.snap = latest
      BY <1>1 DEF Undoable, Remembered
<1>4. Records(latest) /\ CopiesFound(latest)
      BY <1>1, <1>3 DEF Undoable, Snapped
<1>5. lock' = [on |-> TRUE, mods |-> op.prev.mods] /\ snaps[latest].names = Artifacts(latest)
      BY <1>2, <1>3, <1>4 DEF Records
<1>6. op.prev = [on |-> TRUE, mods |-> op.prev.mods]
  <2>1. op.prev \in [on : BOOLEAN, mods : SUBSET Releases]
        BY DEF Inv, TypeOK, Ops, Locks
  <2>2. op.prev.on = TRUE
        BY <1>3, <2>1, Zenon
  <2> QED BY <2>1, <2>2
<1>7. ASSUME NEW n \in NamesOf(lock'.mods), before.files[n] # "none"
      PROVE  files'[n] = before.files[n]
  <2>1. n \in NamesOf(op.prev.mods)
        BY <1>5
  <2>2. n \in Names
        BY <2>1, NamesAreNames DEF Inv, TypeOK, Ops, Locks
  <2>3. stored[latest][n] = before.files[n]
        BY <1>4, <2>1, <2>2 DEF CopiesFound
  <2>4. n \in snaps[op.snap].names
        BY <1>3, <1>5, <1>7, <2>2, <2>3 DEF Artifacts
  <2> QED BY <1>2, <1>3, <2>3, <2>4 DEF Undoable, Restored
<1> QED BY <1>3, <1>5, <1>6, <1>7

(* An install or removal that fails and restores its snapshot leaves the lock and *)
(* the tracked files it found, unless the user edited the directory meanwhile, *)
(* whatever failed and whatever the earlier snapshots were.                *)
THEOREM FailuresRestore == Spec => FailureRestores
<1>1. Init => Undoable
  <2>1. ASSUME Init PROVE Undoable
        BY <2>1 DEF Init, Undoable, Counted, NotStarted, Remembered, Snapped, Restored, NoOp
  <2> QED BY <2>1
<1>2. Inv /\ Undoable /\ [Next]_vars => Undoable'
      BY CountedStep, RememberedStep, SnappedStep, RestoredStep DEF Undoable
<1>3. Inv /\ Undoable /\ [Next]_vars =>
        [pc = "put" /\ undone' /\ edits = before.edits =>
           /\ lock' = before.lock
           /\ \A n \in NamesOf(lock'.mods) : before.files[n] # "none" => files'[n] = before.files[n]
        ]_vars
      BY UndoesStep
<1>4. Spec => [](Inv /\ Undoable)
      BY <1>1, <1>2, Invariance, PTL DEF Spec
<1> QED BY <1>3, <1>4, PTL DEF Spec, FailureRestores
=============================================================================

----------------------------- MODULE ManagedMods -----------------------------
(***************************************************************************)
(* The files a performance composition keeps in the mods directory of one  *)
(* instance (core/performance: install/mutation.rs, install/artifact.rs,   *)
(* install/fallback.rs, install/promotion.rs, state/mod.rs).               *)
(*                                                                         *)
(* A lock file names the mods that are composition managed; everything     *)
(* else in the directory is the user's.  Before a job changes anything it  *)
(* takes a rollback snapshot: copies of the tracked files, a history entry *)
(* and the pointer to the latest.  An install then tries the requested     *)
(* composition and, when too little of it could be installed, the ones of  *)
(* its fallback chain; it saves the lock and removes what it replaced.     *)
(* An error after the snapshot restores the latest snapshot.               *)
(*                                                                         *)
(* The module has one job at a time: PerformanceOperations says when that  *)
(* is so.  Every action is one file system step, or the reads a job makes  *)
(* before its next step; a crash may hit between any two, and the user,    *)
(* who takes no lock, may put a file or remove one between any two.        *)
(***************************************************************************)
EXTENDS Naturals, FiniteSets

CONSTANTS
    Projects,       \* the projects that compositions name
    Releases,       \* their files; the hash of a file tells which one it is
    UserFiles,      \* files the provider does not know
    Names,          \* file names
    ProjectOf,      \* ProjectOf[r]: the project r is a version of
    NameOf,         \* NameOf[r]: the file name the provider gives r
    Compositions,   \* the compositions of the active manifest
    ModsOf,         \* ModsOf[c]: the projects of c
    FallbackTo,     \* FallbackTo[c]: what c falls back to, or "none"
    MaxAttempts,    \* MAX_INSTALL_FALLBACK_ATTEMPTS
    MinUseful,      \* MIN_USEFUL_MANAGED_INSTALLS
    HistoryLimit,   \* ROLLBACK_HISTORY_LIMIT
    MaxSnapshots,   \* bound on the snapshots taken
    Dropped,        \* the files the user may put into the directory
    MaxEdits,       \* bound on what the user does in the file manager
    Failures        \* the steps that may fail

ASSUME ManagedAssumption ==
    /\ ProjectOf \in [Releases -> Projects]
    /\ NameOf \in [Releases -> Names]
    /\ \A r, s \in Releases : NameOf[r] = NameOf[s] => ProjectOf[r] = ProjectOf[s]
    /\ Releases \cap UserFiles = {}
    /\ "none" \notin Releases \union UserFiles
    /\ Dropped \subseteq Releases \union UserFiles
    /\ ModsOf \in [Compositions -> SUBSET Projects]
    /\ FallbackTo \in [Compositions -> Compositions \union {"none"}]
    /\ MaxAttempts \in Nat
    /\ "none" \notin Compositions
    /\ HistoryLimit \in Nat \ {0}
    /\ MinUseful \in Nat
    /\ MaxSnapshots \in Nat
    /\ MaxEdits \in Nat
    /\ Failures \subseteq {"snapshot", "delete", "download", "save", "restore", "crash"}

VARIABLES
    files,      \* the file under each name
    lock,       \* .axial-lock.json: whether there is one, and the mods it tracks
    snaps,      \* the content of the snapshot with each id, if one is retained
    stored,     \* the copies of files kept for each snapshot
    retained,   \* the ids under rollback/history
    latest,     \* the id in rollback/latest.json, 0 when there is none
    lastId,     \* the newest snapshot id (they are time stamps)
    pc, op,     \* the job in progress
    before,     \* history: files, lock and edits as the job in progress found them
    mine,       \* history: names of the user's own files outside the lock
    risked,     \* history: those of them put there when the job in progress had Claimed them
    undone,     \* history: the last job failed and its changes were undone
    edits       \* number of edits in the file manager

rollback == <<snaps, stored, retained, latest, lastId>>
history == <<before, mine, risked, edits>>
vars == <<files, lock, rollback, pc, op, history, undone>>

Files == Releases \union UserFiles
Ids == 1..MaxSnapshots
Locks == [on : BOOLEAN, mods : SUBSET Releases]
Ops == [kind : {"none", "install", "remove", "rollback"}, prev : Locks,
        plan : Compositions \union {"none"}, tried : SUBSET Compositions,
        todo : SUBSET Projects, coming : SUBSET Releases, got : SUBSET Releases,
        failed : BOOLEAN, gone : SUBSET Releases, del : SUBSET Names, put : SUBSET Names,
        snap : Ids \union {0}]
NoFiles == [n \in Names |-> "none"]
NoLock == [on |-> FALSE, mods |-> {}]
NoSnap == [mods |-> {}, names |-> {}]
NoOp == [kind |-> "none", prev |-> NoLock, plan |-> "none", tried |-> {}, todo |-> {}, coming |-> {},
         got |-> {}, failed |-> FALSE, gone |-> {}, del |-> {}, put |-> {}, snap |-> 0]
NotStarted == [files |-> NoFiles, lock |-> NoLock, edits |-> 0]

NamesOf(mods) == {NameOf[r] : r \in mods}
ProjectsOf(mods) == {ProjectOf[r] : r \in mods}
Tracked == NamesOf(lock.mods)                  \* managed_filenames

\* Mutant of Referenced: history is forgotten.
Referenced_Latest == {latest} \ {0}

\* load_retained_rollback_snapshots: the history and the latest.
Referenced == (retained \union {latest}) \ {0}

-----------------------------------------------------------------------------
(* Requests.                                                               *)

\* What was at risk and is lost is counted no longer.
Start(next, o) ==
    /\ pc' = next
    /\ op' = o
    /\ before' = [files |-> files, lock |-> lock, edits |-> edits]
    /\ undone' = FALSE
    /\ mine' = mine \ risked
    /\ risked' = {}
    /\ UNCHANGED <<files, lock, rollback, edits>>

\* What has survived the job is at risk no longer.
Finish(restored) ==
    /\ pc' = "idle"
    /\ op' = NoOp
    /\ before' = NotStarted
    /\ undone' = restored
    /\ risked' = {n \in risked : files[n] \notin UserFiles}
    /\ UNCHANGED <<edits>>

\* The lock is read before the first await; a job with a lock takes a snapshot.
RequestInstall(c) ==
    /\ pc = "idle"
    /\ lastId < MaxSnapshots
    /\ Start(IF lock.on THEN "copy" ELSE "attempt",
             [NoOp EXCEPT !.kind = "install", !.prev = lock, !.plan = c, !.tried = {c}])

\* remove_managed; also an install for an instance whose mode is not managed.
RequestRemove ==
    /\ pc = "idle"
    /\ lastId < MaxSnapshots
    /\ lock.on
    /\ Start("copy", [NoOp EXCEPT !.kind = "remove", !.prev = lock])

RequestRollback(s) ==
    /\ pc = "idle"
    /\ s \in retained \/ s = latest
    /\ Start("check", [NoOp EXCEPT !.kind = "rollback", !.snap = s])

-----------------------------------------------------------------------------
(* save_rollback_snapshot                                                  *)

CopyTracked ==
    /\ pc = "copy"
    /\ lastId' = lastId + 1
    /\ stored' = [stored EXCEPT ![lastId'] =
                    [n \in Names |-> IF n \in NamesOf(op.prev.mods) THEN files[n] ELSE "none"]]
    /\ pc' = "record"
    /\ UNCHANGED <<files, lock, snaps, retained, latest, op, history, undone>>

Artifacts(s) == {n \in Names : stored[s][n] # "none"}

RecordHistory ==
    /\ pc = "record"
    /\ snaps' = [snaps EXCEPT ![lastId] = [mods |-> op.prev.mods, names |-> Artifacts(lastId)]]
    /\ retained' = retained \union {lastId}
    /\ pc' = "point"
    /\ UNCHANGED <<files, lock, stored, latest, lastId, op, history, undone>>

\* Mutant of PointLatest: the first snapshot stays the latest.
PointLatest_Once ==
    /\ pc = "point"
    /\ latest' = IF latest = 0 THEN lastId ELSE latest
    /\ pc' = "prune"
    /\ UNCHANGED <<files, lock, snaps, stored, retained, lastId, op, history, undone>>

PointLatest ==
    /\ pc = "point"
    /\ latest' = lastId
    /\ pc' = "prune"
    /\ UNCHANGED <<files, lock, snaps, stored, retained, lastId, op, history, undone>>

\* The newest HistoryLimit of the ids.
Newest(ids) == {s \in ids : Cardinality({t \in ids : t > s}) < HistoryLimit}

PruneHistory ==
    /\ pc = "prune"
    /\ retained' = retained \cap Newest(retained \union {latest})
    /\ snaps' = [s \in Ids |-> IF s \in retained' \union {latest} THEN snaps[s] ELSE NoSnap]
    /\ pc' = "clean"
    /\ UNCHANGED <<files, lock, stored, latest, lastId, op, history, undone>>

\* cleanup_unreferenced_rollback_artifacts; then the job proper begins.
CleanUp ==
    /\ pc = "clean"
    /\ stored' = [s \in Ids |-> IF s \in Referenced THEN stored[s] ELSE NoFiles]
    /\ IF op.kind = "remove"
       THEN /\ pc' = "unlock"
            /\ op' = [op EXCEPT !.del = NamesOf(op.prev.mods)]
       ELSE /\ pc' = "attempt"
            /\ UNCHANGED op
    /\ UNCHANGED <<files, lock, snaps, retained, latest, lastId, history, undone>>

\* The job fails before it has changed a managed file.
SnapshotFails ==
    /\ "snapshot" \in Failures
    /\ pc \in {"copy", "record", "point", "prune"}
    /\ Finish(FALSE)
    /\ UNCHANGED <<files, lock, rollback, mine>>

-----------------------------------------------------------------------------
(* Deletions, one file after the other, and what an error leads to.        *)

Delete(n) ==
    /\ n \in op.del
    /\ files' = [files EXCEPT ![n] = "none"]
    /\ op' = [op EXCEPT !.del = @ \ {n}]
    /\ UNCHANGED <<lock, rollback, pc, history, undone>>

\* restore_after_error: the latest snapshot, if this job has taken one.
Fail ==
    IF op.prev.on
    THEN /\ pc' = "check"
         /\ op' = [op EXCEPT !.snap = latest, !.del = {}, !.todo = {}, !.coming = {},
                          !.got = {}, !.gone = {}]
         /\ UNCHANGED <<files, lock, rollback, history, undone>>
    ELSE /\ Finish(FALSE)
         /\ UNCHANGED <<files, lock, rollback, mine>>

DeleteFails ==
    /\ "delete" \in Failures
    /\ op.del # {}
    /\ pc # "put"
    /\ Fail

-----------------------------------------------------------------------------
(* ensure_installed                                                        *)

WasTracked(r) == NameOf[r] \in NamesOf(op.prev.mods)

\* remove_stale_managed
BeginAttempt ==
    /\ pc = "attempt" /\ op.del = {}
    /\ LET mods == ModsOf[op.plan] IN
         op' = [op EXCEPT !.todo = mods,
                          !.del = NamesOf({r \in op.prev.mods : ProjectOf[r] \notin mods})]
    /\ pc' = "fetch"
    /\ UNCHANGED <<files, lock, rollback, history, undone>>

\* Mutant of Blocked: a file under the name is overwritten, whoever put it there.
Blocked_Never(r) == FALSE

\* An artifact never takes the place of a file the previous lock does not name.
Blocked(r) == files[NameOf[r]] # "none" /\ ~WasTracked(r)

\* install_mod up to the download: r is the release the provider offers for p.
Resolve(p, r) ==
    /\ pc = "fetch" /\ op.del = {}
    /\ p \in op.todo /\ ProjectOf[r] = p
    /\ op' = IF files[NameOf[r]] = r
             THEN [op EXCEPT !.todo = @ \ {p}, !.got = @ \union {r}]
             ELSE IF Blocked(r) THEN [op EXCEPT !.todo = @ \ {p}, !.failed = TRUE]
             ELSE [op EXCEPT !.todo = @ \ {p}, !.coming = @ \union {r}]
    /\ UNCHANGED <<files, lock, rollback, pc, history, undone>>

\* install_mod after the download, promote_file_async included.
Promote(r) ==
    /\ pc = "fetch"
    /\ r \in op.coming
    /\ IF Blocked(r)
       THEN /\ op' = [op EXCEPT !.coming = @ \ {r}, !.failed = TRUE]
            /\ UNCHANGED files
       ELSE /\ op' = [op EXCEPT !.coming = @ \ {r}, !.got = @ \union {r}]
            /\ files' = [files EXCEPT ![NameOf[r]] = r]
    /\ UNCHANGED <<lock, rollback, pc, history, undone>>

\* No release, no answer, or a hash that does not match: the mod is only counted.
DownloadFails(p) ==
    /\ "download" \in Failures
    /\ pc = "fetch" /\ op.del = {}
    /\ p \in op.todo \union ProjectsOf(op.coming)
    /\ op' = [op EXCEPT !.todo = @ \ {p}, !.failed = TRUE,
                        !.coming = {r \in @ : ProjectOf[r] # p}]
    /\ UNCHANGED <<files, lock, rollback, pc, history, undone>>

Settled == pc = "fetch" /\ op.del = {} /\ op.todo = {} /\ op.coming = {}

\* severe_install_failure
Severe ==
    /\ ModsOf[op.plan] # {}
    /\ op.failed
    /\ Cardinality(op.got) < MinUseful

\* install_attempt_plans: a fallback already tried, a cycle, ends the chain.
HasFallback ==
    /\ FallbackTo[op.plan] \in Compositions \ op.tried
    /\ Cardinality(op.tried) < MaxAttempts

\* remove_attempt_mods_not_in_plan, then the next attempt.
FallBack ==
    /\ Settled /\ Severe /\ HasFallback
    /\ LET next == FallbackTo[op.plan] IN
         op' = [op EXCEPT !.plan = next, !.tried = @ \union {next}, !.failed = FALSE,
                          !.gone = @ \union op.got, !.got = {},
                          !.del = NamesOf({r \in op.got : ProjectOf[r] \notin ModsOf[next]})]
    /\ pc' = "attempt"
    /\ UNCHANGED <<files, lock, rollback, history, undone>>

\* remove_superseded_managed: an earlier file of a project that has another name now.
Superseded == {r \in op.prev.mods : \E s \in op.got : /\ ProjectOf[s] = ProjectOf[r]
                                                      /\ NameOf[s] # NameOf[r]}

SaveLock ==
    /\ Settled /\ ~(Severe /\ HasFallback)
    /\ lock' = [on |-> TRUE, mods |-> op.got]
    /\ mine' = mine \ NamesOf(op.got)
    /\ op' = [op EXCEPT !.del = NamesOf(Superseded)]
    /\ pc' = "replaced"
    /\ UNCHANGED <<files, rollback, before, risked, edits, undone>>

SaveFails ==
    /\ "save" \in Failures
    /\ Settled /\ ~(Severe /\ HasFallback)
    /\ Fail

\* Mutant of Abandoned: what the final attempt has installed is not kept.
Abandoned_All == NamesOf(op.gone)

\* remove_abandoned_attempt_mods
Abandoned == NamesOf(op.gone) \ NamesOf(op.got)

DropAbandoned ==
    /\ pc = "replaced" /\ op.del = {}
    /\ op' = [op EXCEPT !.del = Abandoned]
    /\ pc' = "finish"
    /\ UNCHANGED <<files, lock, rollback, history, undone>>

Installed ==
    /\ pc = "finish" /\ op.del = {}
    /\ Finish(FALSE)
    /\ UNCHANGED <<files, lock, rollback, mine>>

\* The end of remove_managed.
RemoveLock ==
    /\ pc = "unlock" /\ op.del = {}
    /\ \/ lock' = NoLock /\ Finish(FALSE) /\ UNCHANGED <<files, rollback, mine>>
       \/ ("save" \in Failures) /\ Fail

-----------------------------------------------------------------------------
(* restore_rollback_snapshot                                               *)

\* prepare_rollback_restore_targets
Restorable(s) ==
    \A n \in snaps[s].names : stored[s][n] # "none" /\ (n \in Tracked \/ files[n] = "none")

Refuse ==
    /\ pc = "check"
    /\ ~Restorable(op.snap)
    /\ Finish(FALSE)
    /\ UNCHANGED <<files, lock, rollback, mine>>

\* The copies are staged beside the directory before anything is deleted.
StageRestore ==
    /\ pc = "check"
    /\ Restorable(op.snap)
    /\ op' = [op EXCEPT !.put = snaps[op.snap].names,
                        !.del = Tracked \ NamesOf(snaps[op.snap].mods)]
    /\ pc' = "put"
    /\ UNCHANGED <<files, lock, rollback, history, undone>>

Put(n) ==
    /\ pc = "put" /\ op.del = {}
    /\ n \in op.put
    /\ files' = [files EXCEPT ![n] = stored[op.snap][n]]
    /\ op' = [op EXCEPT !.put = @ \ {n}]
    /\ UNCHANGED <<lock, rollback, pc, history, undone>>

Relock ==
    /\ pc = "put" /\ op.del = {} /\ op.put = {}
    /\ lock' = [on |-> TRUE, mods |-> snaps[op.snap].mods]
    /\ mine' = mine \ NamesOf(snaps[op.snap].mods)
    /\ Finish(op.kind # "rollback")
    /\ UNCHANGED <<files, rollback>>

RestoreFails ==
    /\ "restore" \in Failures
    /\ pc \in {"check", "put"}
    /\ Finish(FALSE)
    /\ UNCHANGED <<files, lock, rollback, mine>>

-----------------------------------------------------------------------------
(* The process dies, or the request of a job that is not queued is dropped. *)

Crash ==
    /\ "crash" \in Failures
    /\ pc # "idle"
    /\ Finish(FALSE)
    /\ UNCHANGED <<files, lock, rollback, mine>>

(* The user.                                                               *)

\* The names the job in progress deletes or replaces without another look: what it has
\* installed and may give up again, and what it has decided to delete or to put back.
Claimed == NamesOf(op.got \union op.gone) \union op.del \union op.put

UserCreates(n, f) ==
    /\ edits < MaxEdits
    /\ files[n] = "none"
    /\ files' = [files EXCEPT ![n] = f]
    /\ mine' = IF f \in UserFiles /\ n \notin Tracked THEN mine \union {n} ELSE mine \ {n}
    /\ risked' = IF n \in Claimed \intersect mine' THEN risked \union {n} ELSE risked \ {n}
    /\ edits' = edits + 1
    /\ UNCHANGED <<lock, rollback, pc, op, before, undone>>

UserRemoves(n) ==
    /\ edits < MaxEdits
    /\ files[n] # "none"
    /\ files' = [files EXCEPT ![n] = "none"]
    /\ mine' = mine \ {n}
    /\ risked' = risked \ {n}
    /\ edits' = edits + 1
    /\ UNCHANGED <<lock, rollback, pc, op, before, undone>>

-----------------------------------------------------------------------------
Init ==
    /\ files = NoFiles
    /\ lock = NoLock
    /\ snaps = [s \in Ids |-> NoSnap]
    /\ stored = [s \in Ids |-> NoFiles]
    /\ retained = {} /\ latest = 0 /\ lastId = 0
    /\ pc = "idle" /\ op = NoOp
    /\ before = NotStarted
    /\ mine = {} /\ risked = {} /\ undone = FALSE /\ edits = 0

Next ==
    \/ \E c \in Compositions : RequestInstall(c)
    \/ RequestRemove
    \/ \E s \in Ids : RequestRollback(s)
    \/ CopyTracked \/ RecordHistory \/ PointLatest \/ PruneHistory \/ CleanUp \/ SnapshotFails
    \/ \E n \in Names : Delete(n) \/ Put(n)
    \/ DeleteFails
    \/ BeginAttempt
    \/ \E r \in Releases : Resolve(ProjectOf[r], r) \/ Promote(r)
    \/ \E p \in Projects : DownloadFails(p)
    \/ FallBack \/ SaveLock \/ SaveFails \/ DropAbandoned \/ Installed \/ RemoveLock
    \/ Refuse \/ StageRestore \/ Relock \/ RestoreFails
    \/ Crash
    \/ \E n \in Names : (\E f \in Dropped : UserCreates(n, f)) \/ UserRemoves(n)

Spec == Init /\ [][Next]_vars

-----------------------------------------------------------------------------
(* Properties.                                                             *)

\* Every variable keeps its shape; the lock and every snapshot name releases, and
\* a snapshot lists only artifacts of the mods in its own copy of the lock
\* (validate_rollback_snapshot).
TypeOK ==
    /\ files \in [Names -> Files \union {"none"}]
    /\ lock \in Locks
    /\ snaps \in [Ids -> [mods : SUBSET Releases, names : SUBSET Names]]
    /\ \A s \in Ids : snaps[s].names \subseteq NamesOf(snaps[s].mods)
    /\ stored \in [Ids -> [Names -> Files \union {"none"}]]
    /\ retained \subseteq Ids
    /\ latest \in Ids \union {0} /\ lastId \in Ids \union {0}
    /\ pc \in {"idle", "copy", "record", "point", "prune", "clean", "attempt", "fetch",
               "replaced", "finish", "unlock", "check", "put"}
    /\ op \in Ops
    /\ pc \in {"attempt", "fetch"} => op.plan # "none"
    /\ pc \in {"check", "put"} => op.snap # 0
    /\ mine \subseteq Names /\ risked \subseteq Names

\* A file of the user under a name the lock does not track is neither deleted nor
\* replaced by an install, a fallback, a removal, a rollback or the restore after an
\* error, also when it appears while a download of that name is in flight.  Exempt is
\* one that appeared under a name the job in progress had claimed: a mod of an attempt
\* is given up by its name, and a restore puts its copies back where it found no file
\* when it looked.
UserFilesKept == \A n \in mine \ risked : files[n] \in UserFiles

\* Every snapshot a user can roll back to has the copies of all its artifacts,
\* whatever later snapshots pruned and cleaned up and wherever a crash hit.
SnapshotsWhole ==
    \A s \in Ids : s \in retained \/ s = latest =>
        \A n \in snaps[s].names : stored[s][n] # "none"

\* An install or removal that fails and restores its snapshot leaves the lock and
\* the tracked files it found, unless the user edited the directory meanwhile.
FailureRestores ==
    [][pc = "put" /\ undone' /\ edits = before.edits =>
         /\ lock' = before.lock
         /\ \A n \in NamesOf(lock'.mods) : before.files[n] # "none" => files'[n] = before.files[n]
      ]_vars

\* When an install ends well, every mod in the lock is on disk as recorded, and no
\* file of a mod it replaced, dropped or abandoned in a failed attempt is left.
InstallIsComplete ==
    pc = "finish" /\ op.del = {} /\ edits = before.edits =>
        /\ \A r \in lock.mods : files[NameOf[r]] = r
        /\ \A r \in Superseded \union op.gone
                   \union {r \in op.prev.mods : ProjectOf[r] \notin ModsOf[op.plan]} :
             NameOf[r] \notin Tracked => files[NameOf[r]] = "none"

=============================================================================

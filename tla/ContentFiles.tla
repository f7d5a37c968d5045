---------------------------- MODULE ContentFiles ----------------------------
(***************************************************************************)
(* The content of one instance: the files of its mods directory, the       *)
(* provenance manifest axial.content.json, and the operations that change  *)
(* both (core/content, apps/api/src/application/content and                *)
(* apps/api/src/application/instances/resources.rs).                       *)
(*                                                                         *)
(* Installs, packs and uninstalls share FileTransaction: files are staged, *)
(* what they replace is moved into a backup, the manifest is saved last,   *)
(* and every error before that moves everything back.  An operation holds  *)
(* the instance's lifecycle lock, so there is one at a time; the user, who *)
(* works on the same directory with a file manager, holds no lock.         *)
(*                                                                         *)
(* Every action is one file system step, or the reads an operation makes   *)
(* before its next await.  A commit is a burst of renames without an await *)
(* in it: the user is assumed not to act in the middle of one, while a     *)
(* crash or an I/O error may hit any step.                                 *)
(***************************************************************************)
EXTENDS Naturals

CONSTANTS
    Projects,       \* projects of the provider
    Releases,       \* its files; the hash of a file tells which one it is
    UserFiles,      \* files the provider does not know
    Names,          \* enabled file names
    ProjectOf,      \* ProjectOf[r]: the project r is a version of
    NameOf,         \* NameOf[r]: the file name the provider gives r
    Needs,          \* Needs[r]: the projects r requires
    Failures,       \* the steps that may fail
    InFlight,       \* what the user may do while an operation awaits the network
    MaxEdits        \* bound on what the user does in the file manager

ASSUME ContentAssumption ==
    /\ ProjectOf \in [Releases -> Projects]
    /\ NameOf \in [Releases -> Names]
    /\ Needs \in [Releases -> SUBSET Projects]
    /\ Releases \cap UserFiles = {}
    /\ "none" \notin Releases \union UserFiles
    /\ Failures \subseteq {"download", "apply", "remove", "save", "restore", "crash"}
    /\ InFlight \subseteq {"create", "remove"}
    /\ MaxEdits \in Nat

VARIABLES
    disk,       \* the file at each path of the mods directory
    manifest,   \* the saved entry of each project
    unknown,    \* the saved cache of files that were not identified
    pc, op,     \* the operation in progress
    backup,     \* what the transaction has moved aside, by path
    applied,    \* the paths at which it has put a new file
    before,     \* history: disk and manifest as the operation in progress found them
    mine,       \* history: UserFiles the user has put into the directory
    left,       \* history: how the last operation ended
    edits       \* number of edits in the file manager

opVars == <<pc, op, backup, applied>>
history == <<before, mine, left, edits>>
vars == <<disk, manifest, unknown, opVars, history>>

Files == Releases \union UserFiles
Paths == Names \X BOOLEAN               \* <<name, FALSE>> is name.disabled
Variants(name) == {name} \X BOOLEAN     \* managed_file_variants
NoEntry == [name |-> "none", file |-> "none", on |-> FALSE]
Empty == [p \in Paths |-> "none"]
NoBook == [q \in Projects |-> NoEntry]

NoOp == [kind |-> "none", plan |-> {}, off |-> {}, absent |-> {}, current |-> "none",
         book |-> NoBook, stale |-> {}, seen |-> {}, cached |-> {}]
NotStarted == [disk |-> Empty, manifest |-> NoBook]

-----------------------------------------------------------------------------
(* Reading the manifest against the directory.                             *)

Tracked == {q \in Projects : manifest[q] # NoEntry}
Owners(p) == {q \in Tracked : manifest[q].name = p[1]}

(* matching_entry_filename: the preferred variant, or else the other one.  *)
Found(e, files) ==
    IF files[<<e.name, e.on>>] = e.file THEN {<<e.name, e.on>>}
    ELSE IF files[<<e.name, ~e.on>>] = e.file THEN {<<e.name, ~e.on>>} ELSE {}

Present(q, book, files) == book[q] # NoEntry /\ Found(book[q], files) # {}

(* preserved_enabled_state *)
StaysEnabled(q) ==
    LET e == manifest[q] IN
    \/ q \notin Tracked
    \/ disk[<<e.name, TRUE>>] # "none"
    \/ disk[<<e.name, FALSE>>] = "none" /\ e.on

ReleaseFor(q, plan) == CHOOSE r \in plan : ProjectOf[r] = q
ProjectsOf(plan) == {ProjectOf[r] : r \in plan}

\* The manifest once the releases of plan are recorded, those of off disabled.
Recorded(plan, off) ==
    [q \in Projects |->
        IF q \in ProjectsOf(plan)
        THEN LET r == ReleaseFor(q, plan)
             IN  [name |-> NameOf[r], file |-> r, on |-> r \notin off]
        ELSE manifest[q]]

Without(qs) == [q \in Projects |-> IF q \in qs THEN NoEntry ELSE manifest[q]]

OneReleaseEach(plan) == \A r, s \in plan : ProjectOf[r] = ProjectOf[s] => r = s
OneFileEach(plan)    == \A r, s \in plan : NameOf[r] = NameOf[s] => r = s

-----------------------------------------------------------------------------
(* Requests.  Each one reads the manifest and the directory under the      *)
(* lifecycle lock; one that is refused changes nothing.                    *)

Start(next, o) ==
    /\ pc' = next
    /\ op' = o
    /\ before' = [disk |-> disk, manifest |-> manifest]
    /\ left' = "none"
    /\ UNCHANGED <<disk, manifest, unknown, backup, applied, mine, edits>>

Finish(how) ==
    /\ pc' = "idle"
    /\ op' = NoOp
    /\ backup' = Empty
    /\ applied' = {}
    /\ before' = NotStarted
    /\ left' = how
    /\ UNCHANGED <<mine, edits>>

(* resolve and to_install: the required projects are part of the plan or   *)
(* present, and what is present in the same version is not installed again. *)
Resolved(plan) ==
    /\ OneReleaseEach(plan)
    /\ \A r \in plan :
         /\ \A d \in Needs[r] : d \in ProjectsOf(plan) \/ Present(d, manifest, disk)
         /\ ~(Present(ProjectOf[r], manifest, disk) /\ manifest[ProjectOf[r]].file = r)

\* The owner of a destination is updated itself, or moves away in this plan.
MakesRoom(q, r, plan) ==
    \/ q = ProjectOf[r]
    \/ q \in ProjectsOf(plan) /\ NameOf[ReleaseFor(q, plan)] # NameOf[r]

\* A file at a destination belongs to its owners and is unchanged.
OwnedOrAbsent(p) ==
    disk[p] # "none" => Owners(p) # {} /\ \A q \in Owners(p) : manifest[q].file = disk[p]

(* prepare_install_destinations *)
DestinationsFree(plan) ==
    /\ OneFileEach(plan)
    /\ \A r \in plan : \A p \in Variants(NameOf[r]) :
         /\ \A q \in Owners(p) : MakesRoom(q, r, plan)
         /\ OwnedOrAbsent(p)

RequestInstall(plan) ==
    LET off == {r \in plan : ~StaysEnabled(ProjectOf[r])}
        dests == {<<NameOf[r], r \notin off>> : r \in plan}
    IN  /\ pc = "idle"
        /\ plan # {} /\ Resolved(plan) /\ DestinationsFree(plan)
        /\ Start("download",
                 [NoOp EXCEPT !.kind = "install", !.plan = plan, !.off = off,
                              !.absent = {p \in dests : disk[p] = "none"},
                              !.book = Recorded(plan, off)])

(* execute_modpack_install: a pack goes only to unoccupied places; the     *)
(* files the provider can name are recorded, without asking who owns the   *)
(* name.                                                                   *)
Occupied(plan) == \E r \in plan : \E p \in Variants(NameOf[r]) : disk[p] # "none"

RequestPack(plan, named) ==
    /\ pc = "idle"
    /\ plan # {} /\ OneReleaseEach(named) /\ OneFileEach(plan) /\ ~Occupied(plan)
    /\ Start("download",
             [NoOp EXCEPT !.kind = "pack", !.plan = plan,
                          !.absent = {<<NameOf[r], TRUE>> : r \in plan},
                          !.book = Recorded(named, {})])

\* Mutant of Removable: a changed file is skipped instead of refusing.
Removable_SkipsChanged(e, spared) ==
    {p \in Variants(e.name) \ spared : disk[p] = e.file}

(* verified_removable_variants: the files of an entry outside the spared   *)
(* paths, unless one of them is no longer what the entry recorded.         *)
Removable(e, spared) == {p \in Variants(e.name) \ spared : disk[p] # "none"}
Unchanged(e, spared) == \A p \in Removable(e, spared) : disk[p] = e.file

\* Mutant of StillNeeded: no remaining file counts as needing anything.
StillNeeded_Never(qs) == FALSE

StillNeeded(qs) ==
    \E q \in Tracked \ qs :
        Present(q, manifest, disk) /\ Needs[manifest[q].file] \cap qs # {}

(* uninstall_many *)
RequestUninstall(qs) ==
    /\ pc = "idle"
    /\ qs # {} /\ qs \subseteq Tracked /\ ~StillNeeded(qs)
    /\ \A q \in qs : Unchanged(manifest[q], {})
    /\ Start("remove",
             [NoOp EXCEPT !.kind = "uninstall", !.book = Without(qs),
                          !.stale = UNION {Removable(manifest[q], {}) : q \in qs}])

-----------------------------------------------------------------------------
(* FileTransaction                                                         *)

Dest(r) == <<NameOf[r], r \notin op.off>>
Dests == {Dest(r) : r \in op.plan}
MayFail(step) == step \in Failures

DownloadFails ==
    /\ pc = "download" /\ MayFail("download")
    /\ Finish("failed")
    /\ UNCHANGED <<disk, manifest, unknown>>

Downloaded ==
    /\ pc = "download"
    /\ IF op.kind = "pack" /\ Occupied(op.plan)
       THEN Finish("failed")
       ELSE pc' = "apply" /\ UNCHANGED <<op, backup, applied, history>>
    /\ UNCHANGED <<disk, manifest, unknown>>

RollBack == pc' = "rollback" /\ op' = [op EXCEPT !.current = "none"]

\* Mutant of MoveAside: what preflight saw absent may be replaced.
MoveAside_IgnoresAbsence(r) ==
    LET p == Dest(r) IN
    /\ pc = "apply" /\ r \in op.plan /\ p \notin applied
    /\ backup' = [backup EXCEPT ![p] = disk[p]]
    /\ disk' = [disk EXCEPT ![p] = "none"]
    /\ pc' = "promote"
    /\ op' = [op EXCEPT !.current = r]
    /\ UNCHANGED <<manifest, unknown, applied, history>>

(* apply_one: the file at the destination is moved into the backup, unless *)
(* preflight saw none there.                                               *)
MoveAside(r) ==
    LET p == Dest(r) IN
    /\ pc = "apply" /\ r \in op.plan /\ p \notin applied
    /\ IF disk[p] # "none" /\ p \in op.absent
       THEN RollBack /\ UNCHANGED <<disk, backup>>
       ELSE /\ backup' = [backup EXCEPT ![p] = disk[p]]
            /\ disk' = [disk EXCEPT ![p] = "none"]
            /\ pc' = "promote"
            /\ op' = [op EXCEPT !.current = r]
    /\ UNCHANGED <<manifest, unknown, applied, history>>

Promote ==
    LET p == Dest(op.current) IN
    /\ pc = "promote"
    /\ disk' = [disk EXCEPT ![p] = op.current]
    /\ applied' = applied \union {p}
    /\ pc' = IF applied' = Dests THEN "verify" ELSE "apply"
    /\ op' = [op EXCEPT !.current = "none"]
    /\ UNCHANGED <<manifest, unknown, backup, history>>

(* An error of apply_one puts back what it moved aside itself.             *)
ApplyFails ==
    /\ pc \in {"apply", "promote"} /\ MayFail("apply")
    /\ IF pc = "promote"
       THEN LET p == Dest(op.current)
            IN  /\ \/ disk' = [disk EXCEPT ![p] = backup[p]]
                   \/ MayFail("restore") /\ UNCHANGED disk
                /\ backup' = [backup EXCEPT ![p] = "none"]
       ELSE UNCHANGED <<disk, backup>>
    /\ RollBack
    /\ UNCHANGED <<manifest, unknown, applied, history>>

\* The entries that the new manifest replaces under another file name.
Replaced ==
    {q \in Tracked : op.book[q] # NoEntry /\ op.book[q].name # manifest[q].name}

VerifyStale ==
    /\ pc = "verify"
    /\ IF \A q \in Replaced : Unchanged(manifest[q], Dests)
       THEN /\ op' = [op EXCEPT !.stale = UNION {Removable(manifest[q], Dests) : q \in Replaced}]
            /\ pc' = "remove"
       ELSE RollBack
    /\ UNCHANGED <<disk, manifest, unknown, backup, applied, history>>

(* stage_removal: a path this transaction wrote or moved aside is skipped. *)
RemoveStale(p) ==
    /\ pc = "remove" /\ p \in op.stale
    /\ IF p \in applied \/ backup[p] # "none"
       THEN UNCHANGED <<disk, backup>>
       ELSE /\ backup' = [backup EXCEPT ![p] = disk[p]]
            /\ disk' = [disk EXCEPT ![p] = "none"]
    /\ op' = [op EXCEPT !.stale = @ \ {p}]
    /\ UNCHANGED <<pc, manifest, unknown, applied, history>>

RemoveFails ==
    /\ pc = "remove" /\ op.stale # {} /\ MayFail("remove")
    /\ RollBack
    /\ UNCHANGED <<disk, manifest, unknown, backup, applied, history>>

(* ContentManifest::save replaces the file by a rename.                    *)
SaveManifest ==
    /\ pc = "remove" /\ op.stale = {}
    /\ manifest' = op.book
    /\ pc' = "commit"
    /\ UNCHANGED <<op, disk, unknown, backup, applied, history>>

SaveFails ==
    /\ pc = "remove" /\ op.stale = {} /\ MayFail("save")
    /\ RollBack
    /\ UNCHANGED <<disk, manifest, unknown, backup, applied, history>>

Commit ==
    /\ pc = "commit"
    /\ Finish("done")
    /\ UNCHANGED <<disk, manifest, unknown>>

\* Mutant of RestoreRemoved: removals are not undone.
RestoreRemoved_Forgotten(p) ==
    /\ pc = "rollback"
    /\ p \in {x \in Paths : backup[x] # "none"} \ applied
    /\ backup' = [backup EXCEPT ![p] = "none"]
    /\ UNCHANGED <<pc, op, disk, manifest, unknown, applied, history>>

(* rollback_inner: removals first, then the new files; every error is      *)
(* ignored.                                                                *)
RestoreRemoved(p) ==
    /\ pc = "rollback"
    /\ p \in {x \in Paths : backup[x] # "none"} \ applied
    /\ \/ disk' = [disk EXCEPT ![p] = backup[p]]
       \/ MayFail("restore") /\ UNCHANGED disk
    /\ backup' = [backup EXCEPT ![p] = "none"]
    /\ UNCHANGED <<pc, op, manifest, unknown, applied, history>>

RestoreApplied(p) ==
    /\ pc = "rollback" /\ p \in applied
    /\ \A x \in Paths : backup[x] # "none" => x \in applied
    /\ \/ disk' = [disk EXCEPT ![p] = backup[p]]
       \/ MayFail("restore") /\ disk' = [disk EXCEPT ![p] = "none"]
       \/ MayFail("restore") /\ UNCHANGED disk
    /\ backup' = [backup EXCEPT ![p] = "none"]
    /\ applied' = applied \ {p}
    /\ UNCHANGED <<pc, op, manifest, unknown, history>>

\* remove_dir_all of the staging directory, with the backup in it
RolledBack ==
    /\ pc = "rollback" /\ applied = {} /\ backup = Empty
    /\ Finish("failed")
    /\ UNCHANGED <<disk, manifest, unknown>>

(* The process dies.  Its staging directory stays behind, and nothing ever *)
(* reads it again.                                                         *)
Crash ==
    /\ pc # "idle" /\ MayFail("crash")
    /\ Finish("crashed")
    /\ UNCHANGED <<disk, manifest, unknown>>

-----------------------------------------------------------------------------
(* instance_content: reconcile and retrofit_unmanaged                      *)

(* Files no entry accounts for: each entry accounts for one path.          *)
Unmanaged ==
    {p \in Paths : disk[p] # "none"}
        \ UNION {Found(manifest[q], disk) : q \in Tracked}

Missing == {q \in Tracked : ~Present(q, manifest, disk)}

\* A cached negative goes with its file; a cached file is not asked about.
StillThere == {n \in unknown : n.path \in Unmanaged}

Hashed == {n \in [path : Unmanaged, file : Files] : disk[n.path] = n.file /\ n \notin unknown}

RequestList ==
    /\ pc = "idle"
    /\ Start("identify", [NoOp EXCEPT !.kind = "list", !.book = Without(Missing),
                                      !.seen = Hashed, !.cached = StillThere])

\* The file each untracked project is adopted with: files are visited by hash,
\* in no particular order, and those of one hash in the order of their paths.
Adoptable(q) ==
    {n \in op.seen :
        /\ n.file \in Releases /\ ProjectOf[n.file] = q
        /\ ~n.path[2] => [path |-> <<n.path[1], TRUE>>, file |-> n.file] \notin op.seen}

Adopting == {q \in Projects : op.book[q] = NoEntry /\ Adoptable(q) # {}}
Picks == {pick \in [Adopting -> op.seen] : \A q \in Adopting : pick[q] \in Adoptable(q)}

Adopted(pick) ==
    [q \in Projects |->
        IF q \in Adopting
        THEN [name |-> pick[q].path[1], file |-> pick[q].file, on |-> pick[q].path[2]]
        ELSE op.book[q]]

\* What is neither adopted nor tracked is remembered as not identified.
NotAdopted(pick) == op.seen \ {pick[q] : q \in Adopting}

Identify ==
    /\ pc = "identify"
    /\ \E pick \in Picks :
         /\ manifest' = Adopted(pick)
         /\ unknown' = {n \in op.cached : \A m \in op.seen : m.path # n.path}
                          \union NotAdopted(pick)
    /\ Finish("listed")
    /\ UNCHANGED disk

ProviderUnreachable ==
    /\ pc = "identify" /\ op.seen # {} /\ MayFail("download")
    /\ manifest' = op.book
    /\ unknown' = op.cached
    /\ Finish("done")
    /\ UNCHANGED disk

ListSaveFails ==
    /\ pc = "identify" /\ MayFail("save")
    /\ op.book # manifest \/ op.cached # unknown \/ op.seen # {}
    /\ Finish("failed")
    /\ UNCHANGED <<disk, manifest, unknown>>

-----------------------------------------------------------------------------
(* The mods list: handle_update_instance_mod, handle_delete_instance_mod   *)

Other(p) == <<p[1], ~p[2]>>
Enabled(q, on) == [manifest EXCEPT ![q].on = on]

\* The file gets the name that goes with the request; the entry that has its
\* name, whatever file it is, is marked.  The manifest is saved only if that
\* changes it.
Toggle(p, on) ==
    LET target == <<p[1], on>> IN
    /\ pc = "idle" /\ disk[p] # "none"
    /\ target # p => disk[target] = "none"
    /\ disk' = [disk EXCEPT ![p] = "none", ![target] = disk[p]]
    /\ \E book \in IF Owners(p) = {} THEN {manifest} ELSE {Enabled(q, on) : q \in Owners(p)} :
         op' = [NoOp EXCEPT !.kind = "toggle", !.absent = {p} \ {target}, !.book = book]
    /\ pc' = "toggle"
    /\ before' = [disk |-> disk, manifest |-> manifest]
    /\ left' = "none"
    /\ UNCHANGED <<manifest, unknown, backup, applied, mine, edits>>

SaveToggle ==
    /\ pc = "toggle"
    /\ manifest' = op.book
    /\ Finish("done")
    /\ UNCHANGED <<disk, unknown>>

ToggleFails ==
    /\ pc = "toggle" /\ op.book # manifest /\ MayFail("save")
    /\ \/ \E p \in op.absent : disk' = [disk EXCEPT ![p] = disk[Other(p)], ![Other(p)] = "none"]
       \/ (op.absent = {} \/ MayFail("restore")) /\ UNCHANGED disk
    /\ Finish("failed")
    /\ UNCHANGED <<manifest, unknown>>

(* A file under a tracked name is removed only by content operations.      *)
DeleteMod(p) ==
    /\ pc = "idle" /\ disk[p] # "none" /\ Owners(p) = {}
    /\ disk' = [disk EXCEPT ![p] = "none"]
    /\ mine' = mine \ {disk[p]}
    /\ left' = "none"
    /\ UNCHANGED <<manifest, unknown, opVars, before, edits>>

-----------------------------------------------------------------------------
(* The user's file manager.                                                *)

Away(what) ==
    \/ pc = "idle"
    \/ pc \in {"download", "identify"} /\ what \in InFlight

UserSets(p, f) ==
    /\ edits < MaxEdits /\ edits' = edits + 1
    /\ disk' = [disk EXCEPT ![p] = f]
    /\ before' = IF pc = "idle" THEN before ELSE [before EXCEPT !.disk[p] = f]
    /\ left' = "none"
    /\ UNCHANGED <<manifest, unknown, opVars>>

UserCreates(p, f) ==
    /\ Away("create") /\ disk[p] = "none" /\ f \notin mine
    /\ UserSets(p, f)
    /\ mine' = mine \union ({f} \cap UserFiles)

UserRemoves(p) ==
    /\ Away("remove") /\ disk[p] # "none"
    /\ UserSets(p, "none")
    /\ mine' = mine \ {disk[p]}

-----------------------------------------------------------------------------
Init ==
    /\ disk = Empty
    /\ manifest = NoBook
    /\ unknown = {}
    /\ pc = "idle" /\ op = NoOp
    /\ backup = Empty
    /\ applied = {}
    /\ before = NotStarted
    /\ mine = {}
    /\ left = "none"
    /\ edits = 0

Request ==
    \/ \E plan \in SUBSET Releases : RequestInstall(plan)
    \/ \E plan \in SUBSET Releases : \E named \in SUBSET plan : RequestPack(plan, named)
    \/ \E qs \in SUBSET Projects : RequestUninstall(qs)
    \/ RequestList

Transaction ==
    \/ DownloadFails
    \/ Downloaded
    \/ \E r \in Releases : MoveAside(r)
    \/ Promote
    \/ ApplyFails
    \/ VerifyStale
    \/ \E p \in Paths : RemoveStale(p)
    \/ RemoveFails
    \/ SaveManifest
    \/ SaveFails
    \/ Commit
    \/ \E p \in Paths : RestoreRemoved(p) \/ RestoreApplied(p)
    \/ RolledBack
    \/ Crash

List == Identify \/ ProviderUnreachable \/ ListSaveFails

Mods ==
    \/ \E p \in Paths : DeleteMod(p) \/ \E on \in BOOLEAN : Toggle(p, on)
    \/ SaveToggle
    \/ ToggleFails

User == \E p \in Paths : UserRemoves(p) \/ \E f \in Files : UserCreates(p, f)

Next == Request \/ Transaction \/ List \/ Mods \/ User

Spec == Init /\ [][Next]_vars

-----------------------------------------------------------------------------
(* Properties                                                              *)

Entries == [name : Names, file : Releases, on : BOOLEAN] \union {NoEntry}
Books == [Projects -> Entries]
Disks == [Paths -> Files \union {"none"}]
Notes == [path : Paths, file : Files]
Steps == {"idle", "download", "apply", "promote", "verify", "remove", "commit",
          "rollback", "identify", "toggle"}
Ops == [kind : {"none", "install", "pack", "uninstall", "list", "toggle"},
        plan : SUBSET Releases, off : SUBSET Releases, absent : SUBSET Paths,
        current : Releases \union {"none"}, book : Books, stale : SUBSET Paths,
        seen : SUBSET Notes, cached : SUBSET Notes]

\* Every variable holds a value of its type.
TypeOK ==
    /\ disk \in Disks /\ backup \in Disks
    /\ manifest \in Books
    /\ unknown \subseteq Notes
    /\ pc \in Steps
    /\ op \in Ops
    /\ applied \subseteq Paths
    /\ before \in [disk : Disks, manifest : Books]
    /\ mine \subseteq UserFiles
    /\ left \in {"none", "done", "failed", "crashed", "listed"}
    /\ edits \in 0..MaxEdits

\* "Failures roll back cleanly" (docs/adr/0002:61-62): an operation that reports a
\* failure leaves the directory and the manifest as it found them, but for what
\* the user did meanwhile, even after an earlier operation died half-way.
FailuresRollBack ==
    [][pc # "idle" /\ pc' = "idle" /\ left' = "failed" =>
           disk' = before.disk /\ manifest' = before.manifest]_vars

\* "A user file created while downloads are in flight is never overwritten"
\* (transaction.rs:163-165), and no other operation moves or deletes a file the
\* provider does not know, unless the user asks for it.
UserFilesKept == \A u \in mine : \E p \in Paths : disk[p] = u

\* When an installation has saved the manifest, what it recorded is in place, no
\* project it did not concern has lost its file, and an update under a new name
\* has left no file under the old one.
CommitIsComplete ==
    pc = "commit" =>
        /\ \A r \in op.plan : disk[Dest(r)] = r
        /\ \A q \in Projects :
             q \notin ProjectsOf(op.plan) /\ Present(q, before.manifest, before.disk)
                 /\ manifest[q] # NoEntry => Present(q, manifest, disk)
        /\ \A q \in Projects :
             LET old == before.manifest[q] IN
             old # NoEntry /\ manifest[q].name # old.name =>
                 \A p \in Variants(old.name) \ Dests : disk[p] = "none"

\* No install, pack or uninstall takes away what a remaining file requires.
NeedsKept ==
    pc = "commit" =>
        \A q \in Projects : Present(q, manifest, disk) =>
            \A d \in Needs[manifest[q].file] :
                Present(d, before.manifest, before.disk) => Present(d, manifest, disk)

=============================================================================

------------------------- MODULE ContentFilesProofs -------------------------
(***************************************************************************)
(* What the content transactions promise for every instance: any number of *)
(* projects, files and names, and any assignment of names and requirements *)
(* to files.                                                               *)
(*                                                                         *)
(* TypeCorrect:   every variable keeps its type.                           *)
(* CleanRollback: if restoring a file never fails, an operation that       *)
(*                reports a failure leaves no trace.                       *)
(* NoUserFileLost: if the user takes no file away while an operation waits *)
(*                for the network, no operation destroys a file of theirs, *)
(*                even if it fails, cannot roll back or dies half-way.     *)
(* CommitsAreComplete: when the manifest is saved, what it records is in   *)
(*                place, nothing else is lost and no replaced file is left.*)
(* RequirementsKept: no operation takes away what a remaining file needs.  *)
(***************************************************************************)
EXTENDS ContentFiles, TLAPS

(* The two ways a file leaves its place: it is in the backup or replaced.  *)
Moved(p) == p \in applied \/ backup[p] # "none"

(* Where a transaction is.                                                 *)
Staged ==
    /\ pc \in {"idle", "download", "identify", "toggle"} => applied = {} /\ backup = Empty
    /\ pc \in {"apply", "verify"} => \A p \in Paths : backup[p] # "none" => p \in applied
    /\ pc = "promote" =>
         /\ op.current \in op.plan
         /\ Dest(op.current) \notin applied
         /\ disk[Dest(op.current)] = "none"
         /\ \A p \in Paths \ {Dest(op.current)} : backup[p] # "none" => p \in applied
    /\ pc = "toggle" => \A p \in op.absent : disk[p] = "none"

(* What a rollback relies on: the backup and the untouched part of the     *)
(* directory together are the directory the operation found.               *)
Undoable ==
    /\ pc \notin {"idle", "commit", "toggle"} =>
         \A p \in Paths : before.disk[p] = IF Moved(p) THEN backup[p] ELSE disk[p]
    /\ pc \notin {"idle", "commit"} => manifest = before.manifest
    /\ pc = "toggle" /\ op.absent = {} => disk = before.disk
    /\ pc = "toggle" /\ op.absent # {} =>
         \E p \in Paths :
            /\ op.absent = {p}
            /\ before.disk[Other(p)] = "none"
            /\ disk = [before.disk EXCEPT ![p] = "none", ![Other(p)] = before.disk[p]]

(* What keeps the files of the user: nothing an operation has touched or   *)
(* is about to touch is one of them.                                       *)
Spared ==
    /\ mine \subseteq UserFiles
    /\ \A p \in Paths : backup[p] \notin UserFiles
    /\ \A p \in Paths : Moved(p) => disk[p] \notin UserFiles
    /\ pc = "download" =>
         \A r \in op.plan : Dest(r) \notin op.absent => disk[Dest(r)] \in Releases
    /\ pc \in {"apply", "promote"} =>
         \A r \in op.plan : Dest(r) \notin op.absent => disk[Dest(r)] \notin UserFiles
    /\ pc = "remove" => \A p \in op.stale : disk[p] \notin UserFiles

-----------------------------------------------------------------------------
(* Type correctness.                                                       *)

(* The values a variable has when nothing is going on are of its type.     *)
LEMMA BlankValues ==
    /\ NoEntry \in Entries
    /\ Empty \in Disks
    /\ NoBook \in Books
    /\ NoOp \in Ops
    /\ NotStarted \in [disk : Disks, manifest : Books]
BY DEF NoEntry, Entries, Empty, Disks, NoBook, Books, NoOp, Ops, NotStarted

(* The place of a release is a path.                                       *)
LEMMA DestIsPath == ASSUME NEW r \in Releases PROVE Dest(r) \in Paths
BY ContentAssumption DEF Dest, Paths

LEMMA OtherIsPath == ASSUME NEW p \in Paths PROVE Other(p) \in Paths /\ Other(p) # p
<1>1. PICK n \in Names : p = <<n, TRUE>> \/ p = <<n, FALSE>>
  <2>1. PICK n \in Names, on \in BOOLEAN : p = <<n, on>>
        BY DEF Paths
  <2>2. on = TRUE \/ on = FALSE
        BY Zenon
  <2> QED BY <2>1, <2>2, Zenon
<1>2. ASSUME p = <<n, TRUE>> PROVE Other(p) = <<n, FALSE>>
  <2>1. p[1] = n /\ p[2] = TRUE
        BY <1>2
  <2>2. (~p[2]) = FALSE
        BY <2>1, Zenon
  <2> QED BY <2>1, <2>2, Zenon DEF Other
<1>3. ASSUME p = <<n, FALSE>> PROVE Other(p) = <<n, TRUE>>
  <2>1. p[1] = n /\ p[2] = FALSE
        BY <1>3
  <2>2. (~p[2]) = TRUE
        BY <2>1, Zenon
  <2> QED BY <2>1, <2>2, Zenon DEF Other
<1>4. <<n, TRUE>> # <<n, FALSE>> /\ <<n, TRUE>> \in Paths /\ <<n, FALSE>> \in Paths
      BY DEF Paths
<1> QED BY <1>1, <1>2, <1>3, <1>4

LEMMA TargetOf ==
    ASSUME NEW p \in Paths, NEW on \in BOOLEAN
    PROVE  <<p[1], on>> = p \/ <<p[1], on>> = Other(p)
<1>1. PICK n \in Names, now \in BOOLEAN : p = <<n, now>>
      BY DEF Paths
<1>2. p[1] = n /\ p[2] = now
      BY <1>1
<1>3. on = p[2] \/ on = (~p[2])
      BY <1>2, Zenon
<1>4. p = <<p[1], p[2]>>
      BY <1>1, <1>2
<1>5. CASE on = p[2]
      BY <1>4, <1>5
<1>6. CASE on = (~p[2])
      BY <1>6, Zenon DEF Other
<1> QED BY <1>3, <1>5, <1>6

(* A mod gets its new name, or keeps the one it has.                       *)
LEMMA ToggleMoves ==
    ASSUME TypeOK, NEW p \in Paths, NEW on \in BOOLEAN, Toggle(p, on)
    PROVE  \/ op'.absent = {} /\ UNCHANGED disk
           \/ /\ op'.absent = {p} /\ disk[Other(p)] = "none"
              /\ disk' = [disk EXCEPT ![p] = "none", ![Other(p)] = disk[p]]
<1> DEFINE target == <<p[1], on>>
<1>1. /\ target # p => disk[target] = "none"
      /\ disk' = [disk EXCEPT ![p] = "none", ![target] = disk[p]]
      /\ op'.absent = {p} \ {target}
      BY DEF Toggle, NoOp
<1>2. target = p \/ target = Other(p)
      BY TargetOf
<1> HIDE DEF target
<1>3. CASE target = p
      BY <1>1, <1>3 DEF TypeOK, Disks
<1>4. CASE target = Other(p)
      BY <1>1, <1>4, OtherIsPath
<1> QED BY <1>2, <1>3, <1>4

(* The manifests that an operation prepares are manifests.                 *)
LEMMA RecordedIsBook ==
    ASSUME TypeOK, NEW plan \in SUBSET Releases, NEW off
    PROVE  Recorded(plan, off) \in Books
<1>1. ASSUME NEW q \in ProjectsOf(plan) PROVE ReleaseFor(q, plan) \in plan
      BY <1>1 DEF ProjectsOf, ReleaseFor
<1>2. ASSUME NEW r \in Releases
      PROVE  [name |-> NameOf[r], file |-> r, on |-> r \notin off] \in Entries
      BY ContentAssumption DEF Entries
<1> QED BY <1>1, <1>2 DEF Recorded, Books, TypeOK

LEMMA WithoutIsBook ==
    ASSUME TypeOK, NEW qs PROVE Without(qs) \in Books
BY BlankValues DEF Without, Books, TypeOK

LEMMA EnabledIsBook ==
    ASSUME TypeOK, NEW q \in Tracked, NEW on \in BOOLEAN PROVE Enabled(q, on) \in Books
BY DEF Enabled, Books, Entries, NoEntry, Tracked, TypeOK

LEMMA AdoptedIsBook ==
    ASSUME TypeOK, NEW pick \in Picks PROVE Adopted(pick) \in Books
<1>1. ASSUME NEW q \in Adopting
      PROVE  [name |-> pick[q].path[1], file |-> pick[q].file, on |-> pick[q].path[2]] \in Entries
  <2>1. pick[q] \in Notes /\ pick[q].file \in Releases
        BY DEF Picks, Adopting, Adoptable, TypeOK, Ops
  <2> QED BY <2>1 DEF Notes, Paths, Entries
<1> QED BY <1>1 DEF Adopted, Books, TypeOK, Ops

(* Every operation begins and ends with values of the right types.         *)
LEMMA StartType ==
    ASSUME TypeOK, NEW next \in Steps, NEW o \in Ops, Start(next, o)
    PROVE  TypeOK'
BY DEF TypeOK, Start

LEMMA FinishType ==
    ASSUME TypeOK, NEW how \in {"done", "failed", "crashed", "listed"}, Finish(how),
           disk' \in Disks, manifest' \in Books, unknown' \subseteq Notes
    PROVE  TypeOK'
BY BlankValues DEF TypeOK, Finish, Steps

(* The files of an entry are in the directory.                             *)
LEMMA TrackedEntry ==
    ASSUME TypeOK, NEW q \in Tracked
    PROVE  manifest[q].name \in Names /\ manifest[q].file \in Releases
BY DEF Tracked, TypeOK, Books, Entries

LEMMA RemovableArePaths ==
    ASSUME TypeOK, NEW q \in Tracked, NEW spared
    PROVE  Removable(manifest[q], spared) \subseteq Paths
BY TrackedEntry DEF Removable, Variants, Paths

(* What the user does is within the types.                                 *)
LEMMA UserSetsType ==
    ASSUME TypeOK, NEW p \in Paths, NEW f \in Files \union {"none"}, UserSets(p, f),
           mine' \subseteq UserFiles
    PROVE  TypeOK'
<1>1. disk' \in Disks
      BY DEF UserSets, TypeOK, Disks
<1>2. [before EXCEPT !.disk[p] = f] \in [disk : Disks, manifest : Books]
      BY DEF TypeOK, Disks
<1>3. edits' \in 0..MaxEdits
      BY ContentAssumption DEF UserSets, TypeOK
<1> QED BY <1>1, <1>2, <1>3 DEF UserSets, TypeOK, opVars

(* A step of any action keeps the types.                                   *)
LEMMA TypeStep == ASSUME TypeOK, Staged, [Next]_vars PROVE TypeOK'
<1> USE BlankValues
<1>1. ASSUME NEW plan \in SUBSET Releases, RequestInstall(plan) PROVE TypeOK'
  <2> DEFINE off == {r \in plan : ~StaysEnabled(ProjectOf[r])}
             dests == {<<NameOf[r], r \notin off>> : r \in plan}
             o == [NoOp EXCEPT !.kind = "install", !.plan = plan, !.off = off,
                               !.absent = {p \in dests : disk[p] = "none"},
                               !.book = Recorded(plan, off)]
  <2>1. dests \in SUBSET Paths
    <3>1. ASSUME NEW r \in plan PROVE <<NameOf[r], r \notin off>> \in Paths
      <4>1. NameOf[r] \in Names
            BY ContentAssumption
      <4>2. (r \notin off) \in BOOLEAN
            OBVIOUS
      <4> QED BY <4>1, <4>2, Zenon DEF Paths
    <3> QED BY <3>1
  <2>2. Recorded(plan, off) \in Books
        BY RecordedIsBook
  <2>3. o \in Ops
    <3> HIDE DEF off, dests
    <3> QED BY <2>1, <2>2, off \in SUBSET Releases DEF Ops, NoOp, off
  <2>4. Start("download", o)
        BY <1>1 DEF RequestInstall
  <2> QED BY <2>3, <2>4, StartType DEF Steps
<1>2. ASSUME NEW plan \in SUBSET Releases, NEW named \in SUBSET plan, RequestPack(plan, named)
      PROVE  TypeOK'
  <2> DEFINE places == {<<NameOf[r], TRUE>> : r \in plan}
             o == [NoOp EXCEPT !.kind = "pack", !.plan = plan, !.absent = places,
                               !.book = Recorded(named, {})]
  <2>1. places \in SUBSET Paths
    <3>1. ASSUME NEW r \in plan PROVE <<NameOf[r], TRUE>> \in Paths
      <4>1. NameOf[r] \in Names
            BY ContentAssumption
      <4>2. (TRUE) \in BOOLEAN
            OBVIOUS
      <4> QED BY <4>1, <4>2, Zenon DEF Paths
    <3> QED BY <3>1
  <2>2. Recorded(named, {}) \in Books
        BY RecordedIsBook
  <2>3. o \in Ops
    <3> HIDE DEF places
    <3> QED BY <2>1, <2>2 DEF Ops, NoOp
  <2>4. Start("download", o)
        BY <1>2 DEF RequestPack
  <2> QED BY <2>3, <2>4, StartType DEF Steps
<1>3. ASSUME NEW qs \in SUBSET Projects, RequestUninstall(qs) PROVE TypeOK'
  <2> DEFINE stale == UNION {Removable(manifest[q], {}) : q \in qs}
             o == [NoOp EXCEPT !.kind = "uninstall", !.book = Without(qs), !.stale = stale]
  <2>1. stale \in SUBSET Paths
        BY <1>3, RemovableArePaths DEF RequestUninstall
  <2>2. o \in Ops
    <3> HIDE DEF stale
    <3> QED BY <2>1, WithoutIsBook DEF Ops, NoOp
  <2>3. Start("remove", o)
        BY <1>3 DEF RequestUninstall
  <2> QED BY <2>2, <2>3, StartType DEF Steps
<1>4. CASE RequestList
  <2> DEFINE o == [NoOp EXCEPT !.kind = "list", !.book = Without(Missing),
                               !.seen = Hashed, !.cached = StillThere]
  <2>1. Hashed \in SUBSET Notes
        BY DEF Hashed, Unmanaged, Notes
  <2>2. StillThere \in SUBSET Notes
        BY DEF StillThere, TypeOK
  <2>3. o \in Ops
        BY <2>1, <2>2, WithoutIsBook DEF Ops, NoOp
  <2>4. Start("identify", o)
        BY <1>4 DEF RequestList
  <2> QED BY <2>3, <2>4, StartType DEF Steps
<1>5. CASE DownloadFails
      BY <1>5, FinishType DEF DownloadFails, TypeOK
<1>6. CASE Downloaded
  <2>1. CASE op.kind = "pack" /\ Occupied(op.plan)
        BY <1>6, <2>1, FinishType DEF Downloaded, TypeOK
  <2>2. CASE ~(op.kind = "pack" /\ Occupied(op.plan))
        BY <1>6, <2>2 DEF Downloaded, TypeOK, history, Steps
  <2> QED BY <2>1, <2>2
<1>7. ASSUME NEW r \in Releases, MoveAside(r) PROVE TypeOK'
  <2>1. Dest(r) \in Paths
        BY DestIsPath
  <2>2. [op EXCEPT !.current = r] \in Ops /\ [op EXCEPT !.current = "none"] \in Ops
        BY DEF TypeOK, Ops
  <2>3. disk' \in Disks /\ backup' \in Disks
        BY <1>7, <2>1 DEF MoveAside, RollBack, TypeOK, Disks
  <2> QED BY <1>7, <2>2, <2>3 DEF MoveAside, RollBack, TypeOK, history, Steps
<1>8. CASE Promote
  <2>1. op.current \in Releases
        BY <1>8 DEF Promote, Staged, TypeOK, Ops
  <2>2. Dest(op.current) \in Paths
        BY <2>1, DestIsPath
  <2>3. [op EXCEPT !.current = "none"] \in Ops
        BY DEF TypeOK, Ops
  <2> QED BY <1>8, <2>1, <2>2, <2>3 DEF Promote, TypeOK, Disks, Files, history, Steps
<1>9. CASE ApplyFails
  <2>1. [op EXCEPT !.current = "none"] \in Ops
        BY DEF TypeOK, Ops
  <2>2. disk' \in Disks /\ backup' \in Disks
        BY <1>9 DEF ApplyFails, TypeOK, Disks
  <2> QED BY <1>9, <2>1, <2>2 DEF ApplyFails, RollBack, TypeOK, history, Steps
<1>10. CASE VerifyStale
  <2>1. UNION {Removable(manifest[q], Dests) : q \in Replaced} \in SUBSET Paths
        BY RemovableArePaths DEF Replaced
  <2>2. \A stale \in SUBSET Paths : [op EXCEPT !.stale = stale] \in Ops
        BY DEF TypeOK, Ops
  <2>3. [op EXCEPT !.current = "none"] \in Ops
        BY DEF TypeOK, Ops
  <2>4. op' \in Ops
        BY <1>10, <2>1, <2>2, <2>3 DEF VerifyStale, RollBack
  <2> QED BY <1>10, <2>4 DEF VerifyStale, RollBack, TypeOK, history, Steps
<1>11. ASSUME NEW p \in Paths, RemoveStale(p) PROVE TypeOK'
  <2>1. [op EXCEPT !.stale = @ \ {p}] \in Ops
        BY DEF TypeOK, Ops
  <2>2. disk' \in Disks /\ backup' \in Disks
        BY <1>11 DEF RemoveStale, TypeOK, Disks
  <2> QED BY <1>11, <2>1, <2>2 DEF RemoveStale, TypeOK, history
<1>12. CASE RemoveFails \/ SaveFails
  <2>1. [op EXCEPT !.current = "none"] \in Ops
        BY DEF TypeOK, Ops
  <2> QED BY <1>12, <2>1 DEF RemoveFails, SaveFails, RollBack, TypeOK, history, Steps
<1>13. CASE SaveManifest
  <2>1. op.book \in Books
        BY DEF TypeOK, Ops
  <2> QED BY <1>13, <2>1 DEF SaveManifest, TypeOK, history, Steps
<1>14. CASE Commit \/ RolledBack \/ Crash
      BY <1>14, FinishType DEF Commit, RolledBack, Crash, TypeOK
<1>15. ASSUME NEW p \in Paths, RestoreRemoved(p) \/ RestoreApplied(p) PROVE TypeOK'
  <2>1. disk' \in Disks /\ backup' \in Disks
        BY <1>15 DEF RestoreRemoved, RestoreApplied, TypeOK, Disks
  <2> QED BY <1>15, <2>1 DEF RestoreRemoved, RestoreApplied, TypeOK, history
<1>16. CASE Identify
  <2>1. PICK pick \in Picks :
          /\ manifest' = Adopted(pick)
          /\ unknown' = {n \in op.cached : \A m \in op.seen : m.path # n.path}
                          \union NotAdopted(pick)
        BY <1>16 DEF Identify
  <2>2. manifest' \in Books
        BY <2>1, AdoptedIsBook
  <2>3. unknown' \subseteq Notes
        BY <2>1 DEF NotAdopted, TypeOK, Ops
  <2> QED BY <1>16, <2>2, <2>3, FinishType DEF Identify, TypeOK
<1>17. CASE ProviderUnreachable \/ ListSaveFails
  <2>1. op.book \in Books /\ op.cached \subseteq Notes
        BY DEF TypeOK, Ops
  <2> QED BY <1>17, <2>1, FinishType DEF ProviderUnreachable, ListSaveFails, TypeOK
<1>18. ASSUME NEW p \in Paths, NEW on \in BOOLEAN, Toggle(p, on) PROVE TypeOK'
  <2> DEFINE away == {p} \ {<<p[1], on>>}
  <2>1. PICK book \in IF Owners(p) = {} THEN {manifest} ELSE {Enabled(q, on) : q \in Owners(p)} :
          op' = [NoOp EXCEPT !.kind = "toggle", !.absent = away, !.book = book]
        BY <1>18 DEF Toggle
  <2>2. ASSUME NEW q \in Owners(p) PROVE Enabled(q, on) \in Books
        BY EnabledIsBook DEF Owners
  <2>3. book \in Books
        BY <2>1, <2>2 DEF TypeOK
  <2>4. op' \in Ops
    <3>1. away \in SUBSET Paths
          OBVIOUS
    <3> HIDE DEF away
    <3> QED BY <2>1, <2>3, <3>1 DEF Ops, NoOp
  <2>5. disk' \in Disks
    <3>1. \/ UNCHANGED disk
          \/ disk' = [disk EXCEPT ![p] = "none", ![Other(p)] = disk[p]]
          BY <1>18, ToggleMoves
    <3>2. CASE disk' = [disk EXCEPT ![p] = "none", ![Other(p)] = disk[p]]
          BY <3>2, OtherIsPath DEF TypeOK, Disks
    <3> QED BY <3>1, <3>2 DEF TypeOK
  <2> QED BY <1>18, <2>4, <2>5 DEF Toggle, TypeOK, Steps
<1>19. CASE SaveToggle
  <2>1. op.book \in Books
        BY DEF TypeOK, Ops
  <2> QED BY <1>19, <2>1, FinishType DEF SaveToggle, TypeOK
<1>20. CASE ToggleFails
  <2>1. disk' \in Disks
    <3>1. CASE \E p \in op.absent : disk' = [disk EXCEPT ![p] = disk[Other(p)], ![Other(p)] = "none"]
      <4>1. PICK p \in op.absent : disk' = [disk EXCEPT ![p] = disk[Other(p)], ![Other(p)] = "none"]
            BY <3>1
      <4>2. p \in Paths
            BY DEF TypeOK, Ops
      <4> QED BY <4>1, <4>2, OtherIsPath DEF TypeOK, Disks
    <3>2. CASE UNCHANGED disk
          BY <3>2 DEF TypeOK
    <3> QED BY <1>20, <3>1, <3>2 DEF ToggleFails
  <2> QED BY <1>20, <2>1, FinishType DEF ToggleFails, TypeOK
<1>21. ASSUME NEW p \in Paths, DeleteMod(p) PROVE TypeOK'
      BY <1>21 DEF DeleteMod, TypeOK, Disks, opVars
<1>22. ASSUME NEW p \in Paths, UserRemoves(p) PROVE TypeOK'
      BY <1>22, UserSetsType DEF UserRemoves, TypeOK
<1>23. ASSUME NEW p \in Paths, NEW f \in Files, UserCreates(p, f) PROVE TypeOK'
      BY <1>23, UserSetsType DEF UserCreates, TypeOK
<1>24. CASE UNCHANGED vars
      BY <1>24 DEF TypeOK, vars, opVars, history
<1> QED
      BY <1>1, <1>2, <1>3, <1>4, <1>5, <1>6, <1>7, <1>8, <1>9, <1>10, <1>11, <1>12, <1>13,
         <1>14, <1>15, <1>16, <1>17, <1>18, <1>19, <1>20, <1>21, <1>22, <1>23, <1>24
      DEF Next, Request, Transaction, List, Mods, User

-----------------------------------------------------------------------------
(* The invariant that a rollback relies on.                                *)

(* A transaction that begins has touched nothing, and one that ends leaves *)
(* nothing behind.                                                         *)
LEMMA StartStaged ==
    ASSUME TypeOK, Staged, pc = "idle",
           NEW next \in {"download", "identify", "remove"}, NEW o, Start(next, o)
    PROVE  Staged'
BY DEF Start, Staged, Empty

LEMMA FinishStaged == ASSUME NEW how, Finish(how) PROVE Staged'
BY DEF Finish, Staged, Empty

LEMMA StagedStep == ASSUME TypeOK, Staged, [Next]_vars PROVE Staged'
<1>1. ASSUME NEW plan \in SUBSET Releases, RequestInstall(plan) PROVE Staged'
      BY <1>1, StartStaged DEF RequestInstall
<1>2. ASSUME NEW plan \in SUBSET Releases, NEW named \in SUBSET plan, RequestPack(plan, named)
      PROVE  Staged'
      BY <1>2, StartStaged DEF RequestPack
<1>3. ASSUME NEW qs \in SUBSET Projects, RequestUninstall(qs) PROVE Staged'
      BY <1>3, StartStaged DEF RequestUninstall
<1>4. CASE RequestList
      BY <1>4, StartStaged DEF RequestList
<1>5. CASE Downloaded
      BY <1>5, FinishStaged DEF Downloaded, Staged, Empty, history
<1>6. ASSUME NEW r \in Releases, MoveAside(r) PROVE Staged'
  <2>1. Dest(r) \in Paths
        BY DestIsPath
  <2>2. CASE disk[Dest(r)] # "none" /\ Dest(r) \in op.absent
        BY <1>6, <2>2 DEF MoveAside, RollBack, Staged
  <2>3. CASE ~(disk[Dest(r)] # "none" /\ Dest(r) \in op.absent)
    <3>1. op' = [op EXCEPT !.current = r] /\ pc' = "promote" /\ UNCHANGED applied
          BY <1>6, <2>3 DEF MoveAside
    <3>2. op'.current = r /\ op'.plan = op.plan /\ op'.off = op.off
          BY <3>1 DEF TypeOK, Ops
    <3>3. Dest(op.current)' = Dest(r)
          BY <3>2 DEF Dest
    <3>4. Dest(r) \notin applied /\ r \in op.plan
          BY <1>6 DEF MoveAside
    <3>5. disk'[Dest(r)] = "none"
          BY <1>6, <2>1, <2>3 DEF MoveAside, TypeOK, Disks
    <3>6. \A p \in Paths \ {Dest(r)} : backup'[p] # "none" => p \in applied
          BY <1>6, <2>3 DEF MoveAside, TypeOK, Disks, Staged
    <3> QED BY <3>1, <3>2, <3>3, <3>4, <3>5, <3>6 DEF Staged
  <2> QED BY <2>2, <2>3
<1>7. CASE Promote
      BY <1>7 DEF Promote, Staged
<1>8. CASE ApplyFails \/ VerifyStale \/ RemoveFails \/ SaveFails \/ SaveManifest
      BY <1>8 DEF ApplyFails, VerifyStale, RemoveFails, SaveFails, RollBack, SaveManifest, Staged
<1>9. ASSUME NEW p \in Paths, RemoveStale(p) \/ RestoreRemoved(p) \/ RestoreApplied(p)
      PROVE  Staged'
      BY <1>9 DEF RemoveStale, RestoreRemoved, RestoreApplied, Staged
<1>10. CASE DownloadFails \/ Commit \/ RolledBack \/ Crash
      BY <1>10, FinishStaged DEF DownloadFails, Commit, RolledBack, Crash
<1>11. CASE List \/ SaveToggle \/ ToggleFails
      BY <1>11, FinishStaged DEF List, Identify, ProviderUnreachable, ListSaveFails, SaveToggle,
         ToggleFails
<1>12. ASSUME NEW p \in Paths, NEW on \in BOOLEAN, Toggle(p, on) PROVE Staged'
  <2>1. \A x \in op'.absent : disk'[x] = "none"
        BY <1>12, ToggleMoves, OtherIsPath DEF TypeOK, Disks
  <2> QED BY <1>12, <2>1 DEF Toggle, Staged, Empty
<1>13. ASSUME NEW p \in Paths, DeleteMod(p) PROVE Staged'
      BY <1>13 DEF DeleteMod, opVars, Staged, Empty
<1>14. ASSUME NEW p \in Paths, UserRemoves(p) PROVE Staged'
      BY <1>14 DEF UserRemoves, UserSets, Away, opVars, Staged, Empty
<1>15. ASSUME NEW p \in Paths, NEW f \in Files, UserCreates(p, f) PROVE Staged'
      BY <1>15 DEF UserCreates, UserSets, Away, opVars, Staged, Empty
<1>16. CASE UNCHANGED vars
      BY <1>16 DEF vars, opVars, Staged, Dest, Empty
<1> QED
      BY <1>1, <1>2, <1>3, <1>4, <1>5, <1>6, <1>7, <1>8, <1>9, <1>10, <1>11, <1>12, <1>13,
         <1>14, <1>15, <1>16
      DEF Next, Request, Transaction, List, Mods, User

(* A transaction that has touched nothing has an empty backup, and the     *)
(* file it is about to put in place meets an empty one.                    *)
THEOREM Invariance == Spec => [](TypeOK /\ Staged)
<1>1. Init => TypeOK /\ Staged
  <2>1. ASSUME Init PROVE TypeOK
        BY <2>1, BlankValues, ContentAssumption DEF Init, TypeOK, Steps
  <2>2. ASSUME Init PROVE Staged
        BY <2>2 DEF Init, Staged
  <2> QED BY <2>1, <2>2
<1>2. TypeOK /\ Staged /\ [Next]_vars => (TypeOK /\ Staged)'
      BY TypeStep, StagedStep
<1> QED BY <1>1, <1>2, PTL DEF Spec

(* Every variable keeps its type, whatever fails and whatever the user     *)
(* does in the directory.                                                  *)
THEOREM TypeCorrect == Spec => []TypeOK
BY Invariance, PTL

-----------------------------------------------------------------------------
(* Rolling back.                                                           *)

(* Putting a file back works.                                              *)
Reliable == "restore" \notin Failures

LEMMA StartUndoable ==
    ASSUME TypeOK, Staged, pc = "idle",
           NEW next \in {"download", "identify", "remove"}, NEW o, Start(next, o)
    PROVE  Undoable'
<1>1. \A p \in Paths : ~Moved(p)
      BY DEF Staged, Moved, Empty
<1>2. before' = [disk |-> disk, manifest |-> manifest] /\ UNCHANGED <<disk, manifest, backup, applied>>
      BY DEF Start
<1>3. \A p \in Paths : ~Moved(p)'
      BY <1>1, <1>2 DEF Moved
<1> QED BY <1>2, <1>3 DEF Start, Undoable

LEMMA FinishUndoable == ASSUME NEW how, Finish(how) PROVE Undoable'
BY DEF Finish, Undoable

LEMMA UndoableStep ==
    ASSUME Reliable, TypeOK, Staged, Undoable, [Next]_vars PROVE Undoable'
<1>1. ASSUME NEW plan \in SUBSET Releases, RequestInstall(plan) PROVE Undoable'
      BY <1>1, StartUndoable DEF RequestInstall
<1>2. ASSUME NEW plan \in SUBSET Releases, NEW named \in SUBSET plan, RequestPack(plan, named)
      PROVE  Undoable'
      BY <1>2, StartUndoable DEF RequestPack
<1>3. ASSUME NEW qs \in SUBSET Projects, RequestUninstall(qs) PROVE Undoable'
      BY <1>3, StartUndoable DEF RequestUninstall
<1>4. CASE RequestList
      BY <1>4, StartUndoable DEF RequestList
<1>5. CASE Downloaded
      BY <1>5, FinishUndoable DEF Downloaded, Undoable, Moved, history
<1>6. ASSUME NEW r \in Releases, MoveAside(r) PROVE Undoable'
  <2>1. Dest(r) \in Paths
        BY DestIsPath
  <2>2. CASE disk[Dest(r)] # "none" /\ Dest(r) \in op.absent
        BY <1>6, <2>2 DEF MoveAside, RollBack, Undoable, Moved, history
  <2>3. CASE ~(disk[Dest(r)] # "none" /\ Dest(r) \in op.absent)
    <3>1. ~Moved(Dest(r))
          BY <1>6, <2>1 DEF MoveAside, Staged, Moved
    <3>2. /\ backup' = [backup EXCEPT ![Dest(r)] = disk[Dest(r)]]
          /\ disk' = [disk EXCEPT ![Dest(r)] = "none"]
          /\ UNCHANGED <<applied, manifest, before>>
          /\ pc = "apply" /\ pc' = "promote"
          BY <1>6, <2>3 DEF MoveAside, history
    <3>3. ASSUME NEW p \in Paths
          PROVE  before'.disk[p] = (IF Moved(p) THEN backup[p] ELSE disk[p])'
          BY <2>1, <3>1, <3>2 DEF Undoable, Moved, TypeOK, Disks
    <3> QED BY <3>2, <3>3 DEF Undoable
  <2> QED BY <2>2, <2>3
<1>7. CASE Promote
  <2> DEFINE d == Dest(op.current)
  <2>1. d \in Paths /\ d \notin applied /\ disk[d] = "none"
        BY <1>7, DestIsPath DEF Promote, Staged, TypeOK, Ops
  <2>2. /\ disk' = [disk EXCEPT ![d] = op.current]
        /\ applied' = applied \union {d}
        /\ UNCHANGED <<backup, manifest, before>>
        /\ pc = "promote" /\ pc' \in {"verify", "apply"}
        BY <1>7 DEF Promote, history
  <2>3. ASSUME NEW p \in Paths
        PROVE  before'.disk[p] = (IF Moved(p) THEN backup[p] ELSE disk[p])'
    <3> HIDE DEF d
    <3>1. before.disk[p] = IF Moved(p) THEN backup[p] ELSE disk[p]
          BY <2>2 DEF Undoable
    <3>2. CASE p = d
          BY <2>1, <2>2, <3>1, <3>2 DEF Moved
    <3>3. CASE p # d
          BY <2>1, <2>2, <3>1, <3>3 DEF Moved, TypeOK, Disks
    <3> QED BY <3>2, <3>3
  <2> QED BY <2>2, <2>3 DEF Undoable
<1>8. CASE ApplyFails
  <2>1. CASE pc = "promote"
    <3> DEFINE d == Dest(op.current)
    <3>1. d \in Paths /\ d \notin applied /\ disk[d] = "none"
          BY <2>1, DestIsPath DEF Staged, TypeOK, Ops
    <3>2. /\ disk' = [disk EXCEPT ![d] = backup[d]]
          /\ backup' = [backup EXCEPT ![d] = "none"]
          /\ UNCHANGED <<applied, manifest, before>>
          /\ pc' = "rollback"
          BY <1>8, <2>1 DEF ApplyFails, RollBack, MayFail, Reliable, history
    <3>3. ASSUME NEW p \in Paths
          PROVE  before'.disk[p] = (IF Moved(p) THEN backup[p] ELSE disk[p])'
      <4> HIDE DEF d
      <4>1. before.disk[p] = IF Moved(p) THEN backup[p] ELSE disk[p]
            BY <2>1 DEF Undoable
      <4> QED BY <3>1, <3>2, <4>1 DEF Moved, TypeOK, Disks
    <3>4. manifest' = before'.manifest
          BY <2>1, <3>2 DEF Undoable
    <3> QED BY <3>2, <3>3, <3>4 DEF Undoable
  <2>2. CASE pc = "apply"
        BY <1>8, <2>2 DEF ApplyFails, RollBack, Undoable, Moved, history
  <2> QED BY <1>8, <2>1, <2>2 DEF ApplyFails
<1>9. CASE VerifyStale \/ RemoveFails \/ SaveFails \/ SaveManifest
      BY <1>9 DEF VerifyStale, RemoveFails, SaveFails, RollBack, SaveManifest, Undoable, Moved, history
<1>10. ASSUME NEW p \in Paths, RemoveStale(p) PROVE Undoable'
  <2>1. CASE Moved(p)
        BY <1>10, <2>1 DEF RemoveStale, Undoable, Moved, history
  <2>2. CASE ~Moved(p)
    <3>1. /\ backup' = [backup EXCEPT ![p] = disk[p]]
          /\ disk' = [disk EXCEPT ![p] = "none"]
          /\ UNCHANGED <<pc, applied, manifest, before>>
          /\ pc = "remove"
          BY <1>10, <2>2 DEF RemoveStale, Moved, history
    <3>2. ASSUME NEW x \in Paths
          PROVE  before'.disk[x] = (IF Moved(x) THEN backup[x] ELSE disk[x])'
          BY <2>2, <3>1 DEF Undoable, Moved, TypeOK, Disks
    <3> QED BY <3>1, <3>2 DEF Undoable
  <2> QED BY <2>1, <2>2
<1>11. ASSUME NEW p \in Paths, RestoreRemoved(p) \/ RestoreApplied(p) PROVE Undoable'
  <2>1. /\ Moved(p)
        /\ disk' = [disk EXCEPT ![p] = backup[p]]
        /\ backup' = [backup EXCEPT ![p] = "none"]
        /\ applied' = applied \ {p}
        /\ UNCHANGED <<pc, manifest, before>>
        /\ pc = "rollback"
        BY <1>11 DEF RestoreRemoved, RestoreApplied, Moved, MayFail, Reliable, history
  <2>2. ASSUME NEW x \in Paths
        PROVE  before'.disk[x] = (IF Moved(x) THEN backup[x] ELSE disk[x])'
        BY <2>1 DEF Undoable, Moved, TypeOK, Disks
  <2> QED BY <2>1, <2>2 DEF Undoable
<1>12. CASE DownloadFails \/ Commit \/ RolledBack \/ Crash
      BY <1>12, FinishUndoable DEF DownloadFails, Commit, RolledBack, Crash
<1>13. CASE List \/ SaveToggle \/ ToggleFails
      BY <1>13, FinishUndoable DEF List, Identify, ProviderUnreachable, ListSaveFails, SaveToggle,
         ToggleFails
<1>14. ASSUME NEW p \in Paths, NEW on \in BOOLEAN, Toggle(p, on) PROVE Undoable'
  <2>1. /\ before' = [disk |-> disk, manifest |-> manifest]
        /\ pc' = "toggle" /\ UNCHANGED manifest
        BY <1>14 DEF Toggle
  <2>2. before'.disk = disk /\ before'.manifest = manifest
        BY <2>1
  <2>3. CASE op'.absent = {} /\ UNCHANGED disk
        BY <2>1, <2>2, <2>3 DEF Undoable
  <2>4. CASE /\ op'.absent = {p} /\ disk[Other(p)] = "none"
             /\ disk' = [disk EXCEPT ![p] = "none", ![Other(p)] = disk[p]]
    <3>1. /\ op'.absent = {p} /\ before'.disk[Other(p)] = "none"
          /\ disk' = [before'.disk EXCEPT ![p] = "none", ![Other(p)] = before'.disk[p]]
          BY <2>2, <2>4
    <3>2. op'.absent # {}
          BY <3>1
    <3> QED BY <2>1, <2>2, <3>1, <3>2 DEF Undoable, Other
  <2> QED BY <1>14, <2>3, <2>4, ToggleMoves
<1>15. ASSUME NEW p \in Paths, DeleteMod(p) PROVE Undoable'
      BY <1>15 DEF DeleteMod, opVars, Undoable
<1>16. ASSUME NEW p \in Paths, NEW f, UserSets(p, f), pc \in {"idle", "download", "identify"}
       PROVE  Undoable'
  <2>1. CASE pc = "idle"
        BY <1>16, <2>1 DEF UserSets, opVars, Undoable
  <2>2. CASE pc # "idle"
    <3>1. /\ disk' = [disk EXCEPT ![p] = f]
          /\ before' = [before EXCEPT !.disk[p] = f]
          /\ UNCHANGED <<manifest, pc, op, backup, applied>>
          BY <1>16, <2>2 DEF UserSets, opVars
    <3>2. before'.manifest = before.manifest /\ before'.disk = [before.disk EXCEPT ![p] = f]
          BY <3>1 DEF TypeOK
    <3>3. \A x \in Paths : ~Moved(x)
          BY <1>16, <2>2 DEF Staged, Moved, Empty
    <3>4. \A x \in Paths : ~Moved(x)'
          BY <3>1, <3>3 DEF Moved
    <3>5. ASSUME NEW x \in Paths PROVE before'.disk[x] = disk'[x]
          BY <1>16, <2>2, <3>1, <3>2, <3>3 DEF Undoable, TypeOK, Disks
    <3> QED BY <1>16, <2>2, <3>1, <3>2, <3>4, <3>5 DEF Undoable
  <2> QED BY <2>1, <2>2
<1>17. ASSUME NEW p \in Paths, UserRemoves(p) PROVE Undoable'
      BY <1>16, <1>17 DEF UserRemoves, Away
<1>18. ASSUME NEW p \in Paths, NEW f \in Files, UserCreates(p, f) PROVE Undoable'
      BY <1>16, <1>18 DEF UserCreates, Away
<1>19. CASE UNCHANGED vars
      BY <1>19 DEF vars, opVars, history, Undoable, Moved
<1> QED
      BY <1>1, <1>2, <1>3, <1>4, <1>5, <1>6, <1>7, <1>8, <1>9, <1>10, <1>11, <1>12, <1>13,
         <1>14, <1>15, <1>17, <1>18, <1>19
      DEF Next, Request, Transaction, List, Mods, User

(* What the step that reports a failure leaves behind.                     *)
LEMMA FailureRestores ==
    ASSUME Reliable, TypeOK, Staged, Undoable, [Next]_vars,
           pc # "idle", pc' = "idle", left' = "failed"
    PROVE  disk' = before.disk /\ manifest' = before.manifest
<1>1. ASSUME applied = {}, backup = Empty, pc \in {"download", "identify", "rollback"},
             UNCHANGED <<disk, manifest>>
      PROVE  disk' = before.disk /\ manifest' = before.manifest
  <2>1. \A p \in Paths : ~Moved(p)
        BY <1>1 DEF Moved, Empty
  <2>2. \A p \in Paths : before.disk[p] = disk[p]
        BY <1>1, <2>1 DEF Undoable
  <2> QED BY <1>1, <2>2 DEF Undoable, TypeOK, Disks
<1>2. CASE DownloadFails \/ Downloaded \/ ListSaveFails \/ RolledBack
      BY <1>1, <1>2 DEF DownloadFails, Downloaded, ListSaveFails, RolledBack, Staged
<1>3. CASE ToggleFails
  <2>1. CASE op.absent = {}
        BY <1>3, <2>1 DEF ToggleFails, Undoable
  <2>2. CASE op.absent # {}
    <3>1. PICK p \in op.absent : disk' = [disk EXCEPT ![p] = disk[Other(p)], ![Other(p)] = "none"]
          BY <1>3, <2>2 DEF ToggleFails, MayFail, Reliable
    <3>2. /\ p \in Paths
          /\ before.disk[Other(p)] = "none"
          /\ disk = [before.disk EXCEPT ![p] = "none", ![Other(p)] = before.disk[p]]
          BY <1>3, <2>2, <3>1 DEF ToggleFails, Undoable
    <3>3. disk' = before.disk
          BY <3>1, <3>2, OtherIsPath DEF TypeOK, Disks
    <3> QED BY <1>3, <3>3 DEF ToggleFails, Undoable
  <2> QED BY <2>1, <2>2
<1>4. ~Crash
      BY DEF Crash, Finish
<1>5. ASSUME Identify \/ ProviderUnreachable \/ SaveToggle \/ Commit PROVE FALSE
      BY <1>5 DEF Identify, ProviderUnreachable, SaveToggle, Commit, Finish
<1>6. ASSUME Request \/ Promote \/ ApplyFails \/ VerifyStale \/ RemoveFails \/ SaveManifest \/ SaveFails
      PROVE  FALSE
      BY <1>6 DEF Request, RequestInstall, RequestPack, RequestUninstall, RequestList, Start, Promote,
         ApplyFails, VerifyStale, RemoveFails, SaveManifest, SaveFails, RollBack
<1>7. ASSUME NEW p, NEW on,
             RemoveStale(p) \/ RestoreRemoved(p) \/ RestoreApplied(p) \/ Toggle(p, on) \/ DeleteMod(p)
      PROVE  FALSE
      BY <1>7 DEF RemoveStale, RestoreRemoved, RestoreApplied, Toggle, DeleteMod
<1>8. ASSUME NEW r, MoveAside(r) PROVE FALSE
      BY <1>8 DEF MoveAside, RollBack
<1>9. ASSUME NEW p, NEW f, UserSets(p, f) \/ UNCHANGED vars PROVE FALSE
      BY <1>9 DEF UserSets, vars, opVars
<1> QED
      BY <1>2, <1>3, <1>4, <1>5, <1>6, <1>7, <1>8, <1>9
      DEF Next, Transaction, List, Mods, User, UserRemoves, UserCreates

(* Failures roll back cleanly: an operation that fails has changed neither *)
(* the directory nor the manifest.                                         *)
THEOREM CleanRollback == ASSUME Reliable PROVE Spec => FailuresRollBack
<1>1. Init => Undoable
      BY DEF Init, Undoable
<1>2. TypeOK /\ Staged /\ Undoable /\ [Next]_vars => Undoable'
      BY UndoableStep
<1>3. TypeOK /\ Staged /\ Undoable /\ [Next]_vars
      => [pc # "idle" /\ pc' = "idle" /\ left' = "failed" =>
             disk' = before.disk /\ manifest' = before.manifest]_vars
      BY FailureRestores
<1> QED BY <1>1, <1>2, <1>3, Invariance, PTL DEF Spec, FailuresRollBack

-----------------------------------------------------------------------------
(* The files of the user.                                                  *)

(* The user takes no file away while an operation waits for the network.   *)
Considerate == "remove" \notin InFlight

LEMMA NotTheirs == Releases \cap UserFiles = {} /\ "none" \notin UserFiles
BY ContentAssumption

(* What an entry has recorded and finds unchanged is not the user's.       *)
LEMMA RemovableSpared ==
    ASSUME TypeOK, NEW q \in Tracked, NEW spared, Unchanged(manifest[q], spared),
           NEW p \in Removable(manifest[q], spared)
    PROVE  disk[p] \notin UserFiles
BY TrackedEntry, NotTheirs DEF Unchanged

LEMMA StartSpared ==
    ASSUME TypeOK, Staged, Spared, pc = "idle",
           NEW next \in {"identify", "toggle"}, pc' = next,
           UNCHANGED <<backup, applied, mine>>
    PROVE  Spared'
BY DEF Staged, Spared, Moved, Empty

LEMMA FinishSpared == ASSUME Spared, NEW how, Finish(how) PROVE Spared'
BY NotTheirs DEF Finish, Spared, Moved, Empty

LEMMA SparedStep ==
    ASSUME Considerate, TypeOK, Staged, Spared, [Next]_vars PROVE Spared'
<1>1. ASSUME NEW plan \in SUBSET Releases, RequestInstall(plan) PROVE Spared'
  <2>1. PICK off \in SUBSET plan :
          Start("download", [NoOp EXCEPT !.kind = "install", !.plan = plan, !.off = off,
                                         !.absent = {p \in {<<NameOf[r], r \notin off>> : r \in plan} :
                                                        disk[p] = "none"},
                                         !.book = Recorded(plan, off)])
        BY <1>1 DEF RequestInstall
  <2>2. /\ op'.plan = plan /\ op'.off = off
        /\ op'.absent = {p \in {<<NameOf[r], r \notin off>> : r \in plan} : disk[p] = "none"}
        BY <2>1 DEF Start, NoOp
  <2>3. ASSUME NEW r \in plan, disk[<<NameOf[r], r \notin off>>] # "none"
        PROVE  disk[<<NameOf[r], r \notin off>>] \in Releases
    <3>1. <<NameOf[r], r \notin off>> \in Variants(NameOf[r])
      <4>1. (r \notin off) \in BOOLEAN
            OBVIOUS
      <4> QED BY <4>1, Zenon DEF Variants
    <3>2. OwnedOrAbsent(<<NameOf[r], r \notin off>>)
          BY <1>1, <3>1 DEF RequestInstall, DestinationsFree
    <3>3. PICK q \in Owners(<<NameOf[r], r \notin off>>) :
            manifest[q].file = disk[<<NameOf[r], r \notin off>>]
          BY <2>3, <3>2 DEF OwnedOrAbsent
    <3> QED BY <3>3, TrackedEntry DEF Owners
  <2>4. ASSUME NEW r \in plan, Dest(r)' \notin op'.absent PROVE disk'[Dest(r)'] \in Releases
    <3>1. Dest(r)' = <<NameOf[r], r \notin off>>
          BY <2>2 DEF Dest
    <3>2. disk' = disk
          BY <2>1 DEF Start
    <3> QED BY <2>2, <2>3, <2>4, <3>1, <3>2
  <2>5. pc' = "download" /\ UNCHANGED <<disk, backup, applied, mine>>
        BY <2>1 DEF Start
  <2> QED BY <2>2, <2>4, <2>5 DEF Spared, Moved
<1>2. ASSUME NEW plan \in SUBSET Releases, NEW named \in SUBSET plan, RequestPack(plan, named)
      PROVE  Spared'
  <2>1. /\ op'.plan = plan /\ op'.off = {}
        /\ op'.absent = {<<NameOf[r], TRUE>> : r \in plan}
        /\ pc' = "download" /\ UNCHANGED <<disk, backup, applied, mine>>
        BY <1>2 DEF RequestPack, Start, NoOp
  <2>2. ASSUME NEW r \in plan PROVE Dest(r)' \in op'.absent
    <3>1. (r \notin {}) = TRUE
          OBVIOUS
    <3>2. Dest(r)' = <<NameOf[r], TRUE>>
          BY <2>1, <3>1, Zenon DEF Dest
    <3> QED BY <2>1, <3>2
  <2> QED BY <2>1, <2>2 DEF Spared, Moved
<1>3. ASSUME NEW qs \in SUBSET Projects, RequestUninstall(qs) PROVE Spared'
  <2>1. /\ op'.stale = UNION {Removable(manifest[q], {}) : q \in qs}
        /\ pc' = "remove" /\ UNCHANGED <<disk, backup, applied, mine>>
        BY <1>3 DEF RequestUninstall, Start, NoOp
  <2>2. ASSUME NEW p \in op'.stale PROVE disk[p] \notin UserFiles
        BY <1>3, <2>1, RemovableSpared DEF RequestUninstall
  <2> QED BY <2>1, <2>2 DEF Spared, Moved
<1>4. CASE RequestList
      BY <1>4, StartSpared DEF RequestList, Start
<1>5. CASE Downloaded
  <2>1. CASE Finish("failed")
        BY <2>1, FinishSpared
  <2>2. CASE ~Finish("failed")
        BY <1>5, <2>2, NotTheirs DEF Downloaded, Spared, Moved, Dest, history
  <2> QED BY <2>1, <2>2
<1>6. ASSUME NEW r \in Releases, MoveAside(r) PROVE Spared'
  <2>1. Dest(r) \in Paths
        BY DestIsPath
  <2>2. CASE disk[Dest(r)] # "none" /\ Dest(r) \in op.absent
        BY <1>6, <2>2 DEF MoveAside, RollBack, Spared, Moved, history
  <2>3. CASE ~(disk[Dest(r)] # "none" /\ Dest(r) \in op.absent)
    <3>1. disk[Dest(r)] \notin UserFiles
          BY <1>6, <2>3, NotTheirs DEF MoveAside, Spared
    <3>2. /\ backup' = [backup EXCEPT ![Dest(r)] = disk[Dest(r)]]
          /\ disk' = [disk EXCEPT ![Dest(r)] = "none"]
          /\ UNCHANGED <<applied, mine>>
          /\ op' = [op EXCEPT !.current = r]
          /\ pc = "apply" /\ pc' = "promote"
          BY <1>6, <2>3 DEF MoveAside, history
    <3>3. op'.plan = op.plan /\ op'.off = op.off /\ op'.absent = op.absent
          BY <3>2 DEF TypeOK, Ops
    <3>4. \A p \in Paths : disk'[p] \in {"none", disk[p]} /\ (Moved(p)' /\ p # Dest(r) => Moved(p))
          BY <2>1, <3>2 DEF TypeOK, Disks, Moved
    <3>5. \A p \in Paths : Moved(p)' => disk'[p] \notin UserFiles
          BY <2>1, <3>2, <3>4, NotTheirs DEF Spared, TypeOK, Disks
    <3>6. \A p \in Paths : backup'[p] \notin UserFiles
          BY <2>1, <3>1, <3>2 DEF Spared, TypeOK, Disks
    <3>7. ASSUME NEW x \in op.plan, Dest(x)' \notin op'.absent PROVE disk'[Dest(x)'] \notin UserFiles
      <4>1. Dest(x)' = Dest(x) /\ Dest(x) \in Paths
            BY <3>3, DestIsPath DEF Dest, TypeOK, Ops
      <4>2. disk[Dest(x)] \notin UserFiles
            BY <3>2, <3>3, <3>7, <4>1 DEF Spared
      <4> QED BY <3>4, <4>1, <4>2, NotTheirs
    <3> QED BY <3>2, <3>3, <3>5, <3>6, <3>7 DEF Spared
  <2> QED BY <2>2, <2>3
<1>7. CASE Promote
  <2> DEFINE d == Dest(op.current)
  <2>1. d \in Paths /\ op.current \in Releases
        BY <1>7, DestIsPath DEF Promote, Staged, TypeOK, Ops
  <2>2. /\ disk' = [disk EXCEPT ![d] = op.current]
        /\ applied' = applied \union {d}
        /\ op' = [op EXCEPT !.current = "none"]
        /\ UNCHANGED <<backup, mine>>
        /\ pc = "promote" /\ pc' \in {"verify", "apply"}
        BY <1>7 DEF Promote, history
  <2>3. op'.plan = op.plan /\ op'.off = op.off /\ op'.absent = op.absent
        BY <2>2 DEF TypeOK, Ops
  <2>4. \A p \in Paths : disk'[p] \in Releases \union {disk[p]} /\ (Moved(p)' /\ p # d => Moved(p))
    <3> HIDE DEF d
    <3> QED BY <2>1, <2>2 DEF TypeOK, Disks, Moved
  <2>5. \A p \in Paths : Moved(p)' => disk'[p] \notin UserFiles
    <3> HIDE DEF d
    <3> QED BY <2>1, <2>2, <2>4, NotTheirs DEF Spared, TypeOK, Disks
  <2>6. ASSUME NEW x \in op.plan, Dest(x)' \notin op'.absent PROVE disk'[Dest(x)'] \notin UserFiles
    <3>1. Dest(x)' = Dest(x) /\ Dest(x) \in Paths
          BY <2>3, DestIsPath DEF Dest, TypeOK, Ops
    <3>2. disk[Dest(x)] \notin UserFiles
          BY <2>2, <2>3, <2>6, <3>1 DEF Spared
    <3> QED BY <2>4, <3>1, <3>2, NotTheirs
  <2> QED BY <2>2, <2>3, <2>5, <2>6 DEF Spared
<1>8. CASE ApplyFails
  <2>1. CASE pc = "promote"
    <3> DEFINE d == Dest(op.current)
    <3>1. d \in Paths /\ d \notin applied
          BY <2>1, DestIsPath DEF Staged, TypeOK, Ops
    <3>2. /\ disk' = [disk EXCEPT ![d] = backup[d]] \/ UNCHANGED disk
          /\ backup' = [backup EXCEPT ![d] = "none"]
          /\ UNCHANGED <<applied, mine>>
          /\ pc' = "rollback"
          BY <1>8, <2>1 DEF ApplyFails, RollBack, history
    <3> HIDE DEF d
    <3> QED BY <3>1, <3>2, NotTheirs DEF Spared, Moved, TypeOK, Disks
  <2>2. CASE pc = "apply"
        BY <1>8, <2>2 DEF ApplyFails, RollBack, Spared, Moved, history
  <2> QED BY <1>8, <2>1, <2>2 DEF ApplyFails
<1>9. CASE VerifyStale
  <2>1. CASE pc' = "rollback"
        BY <1>9, <2>1 DEF VerifyStale, Spared, Moved, history
  <2>2. CASE pc' # "rollback"
    <3>1. /\ op' = [op EXCEPT !.stale = UNION {Removable(manifest[q], Dests) : q \in Replaced}]
          /\ \A q \in Replaced : Unchanged(manifest[q], Dests)
          /\ pc' = "remove" /\ UNCHANGED <<disk, backup, applied, mine>>
          BY <1>9, <2>2 DEF VerifyStale, RollBack, history
    <3>2. op'.stale = UNION {Removable(manifest[q], Dests) : q \in Replaced}
          BY <3>1 DEF TypeOK, Ops
    <3>3. ASSUME NEW p \in op'.stale PROVE disk[p] \notin UserFiles
          BY <3>1, <3>2, RemovableSpared DEF Replaced
    <3> QED BY <3>1, <3>3 DEF Spared, Moved
  <2> QED BY <2>1, <2>2
<1>10. CASE RemoveFails \/ SaveFails \/ SaveManifest
      BY <1>10 DEF RemoveFails, SaveFails, RollBack, SaveManifest, Spared, Moved, history
<1>11. ASSUME NEW p \in Paths, RemoveStale(p) PROVE Spared'
  <2>1. op'.stale = op.stale \ {p} /\ pc = "remove" /\ UNCHANGED <<pc, applied, mine>>
        BY <1>11 DEF RemoveStale, TypeOK, Ops, history
  <2>2. CASE Moved(p)
        BY <1>11, <2>1, <2>2 DEF RemoveStale, Spared, Moved
  <2>3. CASE ~Moved(p)
    <3>1. /\ backup' = [backup EXCEPT ![p] = disk[p]]
          /\ disk' = [disk EXCEPT ![p] = "none"]
          /\ p \in op.stale
          BY <1>11, <2>3 DEF RemoveStale, Moved
    <3>2. op.stale \subseteq Paths
          BY DEF TypeOK, Ops
    <3> QED BY <2>1, <3>1, <3>2, NotTheirs DEF Spared, Moved, TypeOK, Disks
  <2> QED BY <2>2, <2>3
<1>12. ASSUME NEW p \in Paths, RestoreRemoved(p) \/ RestoreApplied(p) PROVE Spared'
  <2>1. /\ \A x \in Paths \ {p} : disk'[x] = disk[x]
        /\ backup' = [backup EXCEPT ![p] = "none"]
        /\ applied' = applied \ {p}
        /\ UNCHANGED <<pc, mine>>
        /\ pc = "rollback"
        BY <1>12 DEF RestoreRemoved, RestoreApplied, TypeOK, Disks, history
  <2> QED BY <2>1, NotTheirs DEF Spared, Moved, TypeOK, Disks
<1>13. CASE DownloadFails \/ Commit \/ RolledBack \/ Crash
      BY <1>13, FinishSpared DEF DownloadFails, Commit, RolledBack, Crash
<1>14. CASE List \/ SaveToggle \/ ToggleFails
      BY <1>14, FinishSpared DEF List, Identify, ProviderUnreachable, ListSaveFails, SaveToggle,
         ToggleFails
<1>15. ASSUME NEW p \in Paths, NEW on \in BOOLEAN, Toggle(p, on) PROVE Spared'
      BY <1>15, StartSpared DEF Toggle
<1>16. ASSUME NEW p \in Paths, DeleteMod(p) PROVE Spared'
      BY <1>16, NotTheirs DEF DeleteMod, opVars, Spared, Staged, Moved, Empty
<1>17. ASSUME NEW p \in Paths, UserRemoves(p) PROVE Spared'
      BY <1>17 DEF UserRemoves, UserSets, Away, Considerate, opVars, Spared, Staged, Moved, Empty
<1>18. ASSUME NEW p \in Paths, NEW f \in Files, UserCreates(p, f) PROVE Spared'
  <2>1. /\ disk[p] = "none" /\ disk' = [disk EXCEPT ![p] = f]
        /\ mine' \subseteq UserFiles
        /\ pc \in {"idle", "download", "identify"}
        /\ UNCHANGED <<pc, op, backup, applied>>
        BY <1>18 DEF UserCreates, UserSets, Away, opVars, Spared
  <2>2. \A x \in Paths : ~Moved(x)'
        BY <2>1 DEF Staged, Moved, Empty
  <2>3. ASSUME pc = "download", NEW r \in op.plan, Dest(r) \notin op.absent
        PROVE  disk'[Dest(r)] \in Releases
    <3>1. disk[Dest(r)] \in Releases /\ Dest(r) \in Paths
          BY <2>3, DestIsPath DEF Spared, TypeOK, Ops
    <3>2. Dest(r) # p
          BY <2>1, <3>1, ContentAssumption
    <3> QED BY <2>1, <3>1, <3>2 DEF TypeOK, Disks
  <2> QED BY <2>1, <2>2, <2>3 DEF Spared, Dest
<1>19. CASE UNCHANGED vars
      BY <1>19 DEF vars, opVars, history, Spared, Moved, Dest
<1> QED
      BY <1>1, <1>2, <1>3, <1>4, <1>5, <1>6, <1>7, <1>8, <1>9, <1>10, <1>11, <1>12, <1>13,
         <1>14, <1>15, <1>16, <1>17, <1>18, <1>19
      DEF Next, Request, Transaction, List, Mods, User

(* A step that leaves each of the user's files somewhere keeps them.       *)
LEMMA StillThereKept ==
    ASSUME Spared, UserFilesKept, mine' \subseteq mine,
           \A p \in Paths : disk[p] \in mine' => \E x \in Paths : disk'[x] = disk[p]
    PROVE  UserFilesKept'
BY DEF Spared, UserFilesKept

LEMMA KeptStep ==
    ASSUME TypeOK, Staged, Spared, UserFilesKept, [Next]_vars PROVE UserFilesKept'
<1>1. ASSUME UNCHANGED <<disk, mine>> PROVE UserFilesKept'
      BY <1>1 DEF UserFilesKept
<1>2. ASSUME NEW p \in Paths, disk[p] \notin UserFiles, UNCHANGED mine,
             \A x \in Paths \ {p} : disk'[x] = disk[x]
      PROVE  UserFilesKept'
      BY <1>2, StillThereKept DEF Spared
<1>3. CASE Request \/ DownloadFails \/ Downloaded \/ VerifyStale \/ RemoveFails \/ SaveManifest
           \/ SaveFails \/ Commit \/ RolledBack \/ Crash \/ List \/ SaveToggle
      BY <1>1, <1>3 DEF Request, RequestInstall, RequestPack, RequestUninstall, RequestList, Start,
         DownloadFails, Downloaded, VerifyStale, RemoveFails, SaveManifest, SaveFails, RollBack, Commit,
         RolledBack, Crash, List, Identify, ProviderUnreachable, ListSaveFails, SaveToggle, Finish, history
<1>4. ASSUME NEW r \in Releases, MoveAside(r) PROVE UserFilesKept'
  <2>1. CASE disk[Dest(r)] # "none" /\ Dest(r) \in op.absent
        BY <1>1, <1>4, <2>1 DEF MoveAside, history
  <2>2. CASE ~(disk[Dest(r)] # "none" /\ Dest(r) \in op.absent)
    <3>1. disk[Dest(r)] \notin UserFiles
          BY <1>4, <2>2, NotTheirs DEF MoveAside, Spared
    <3> QED BY <1>2, <1>4, <2>2, <3>1, DestIsPath DEF MoveAside, TypeOK, Disks, history
  <2> QED BY <2>1, <2>2
<1>5. CASE Promote
  <2>1. Dest(op.current) \in Paths /\ disk[Dest(op.current)] = "none"
        BY <1>5, DestIsPath DEF Promote, Staged, TypeOK, Ops
  <2> QED BY <1>2, <1>5, <2>1, NotTheirs DEF Promote, TypeOK, Disks, history
<1>6. CASE ApplyFails
  <2>1. CASE pc = "promote"
    <3>1. Dest(op.current) \in Paths /\ disk[Dest(op.current)] = "none"
          BY <2>1, DestIsPath DEF Staged, TypeOK, Ops
    <3> QED BY <1>2, <1>6, <2>1, <3>1, NotTheirs DEF ApplyFails, TypeOK, Disks, history
  <2>2. CASE pc # "promote"
        BY <1>1, <1>6, <2>2 DEF ApplyFails, history
  <2> QED BY <2>1, <2>2
<1>7. ASSUME NEW p \in Paths, RemoveStale(p) PROVE UserFilesKept'
  <2>1. disk[p] \notin UserFiles
        BY <1>7 DEF RemoveStale, Spared
  <2> QED BY <1>2, <1>7, <2>1 DEF RemoveStale, TypeOK, Disks, history
<1>8. ASSUME NEW p \in Paths, RestoreRemoved(p) \/ RestoreApplied(p) PROVE UserFilesKept'
  <2>1. disk[p] \notin UserFiles
        BY <1>8 DEF RestoreRemoved, RestoreApplied, Spared, Moved
  <2>2. UNCHANGED mine /\ \A x \in Paths \ {p} : disk'[x] = disk[x]
        BY <1>8 DEF RestoreRemoved, RestoreApplied, TypeOK, Disks, history
  <2> QED BY <1>2, <2>1, <2>2
<1>9. ASSUME NEW p \in Paths, NEW on \in BOOLEAN, Toggle(p, on) PROVE UserFilesKept'
  <2>1. UNCHANGED mine
        BY <1>9 DEF Toggle
  <2>2. CASE UNCHANGED disk
        BY <1>1, <2>1, <2>2
  <2>3. CASE /\ disk[Other(p)] = "none"
             /\ disk' = [disk EXCEPT ![p] = "none", ![Other(p)] = disk[p]]
    <3>1. ASSUME NEW x \in Paths, disk[x] \in mine PROVE \E y \in Paths : disk'[y] = disk[x]
          BY <2>3, <3>1, OtherIsPath, NotTheirs DEF Spared, TypeOK, Disks
    <3> QED BY <2>1, <3>1, StillThereKept
  <2> QED BY <1>9, <2>2, <2>3, ToggleMoves
<1>10. CASE ToggleFails
  <2>1. UNCHANGED mine
        BY <1>10 DEF ToggleFails, Finish
  <2>2. CASE UNCHANGED disk
        BY <1>1, <2>1, <2>2
  <2>3. CASE \E p \in op.absent : disk' = [disk EXCEPT ![p] = disk[Other(p)], ![Other(p)] = "none"]
    <3>1. PICK p \in op.absent : disk' = [disk EXCEPT ![p] = disk[Other(p)], ![Other(p)] = "none"]
          BY <2>3
    <3>2. p \in Paths /\ disk[p] = "none"
          BY <1>10 DEF ToggleFails, Staged, TypeOK, Ops
    <3>3. ASSUME NEW x \in Paths, disk[x] \in mine PROVE \E y \in Paths : disk'[y] = disk[x]
          BY <3>1, <3>2, <3>3, OtherIsPath, NotTheirs DEF Spared, TypeOK, Disks
    <3> QED BY <2>1, <3>3, StillThereKept
  <2> QED BY <1>10, <2>2, <2>3 DEF ToggleFails
<1>11. ASSUME NEW p \in Paths, DeleteMod(p) PROVE UserFilesKept'
      BY <1>11, StillThereKept DEF DeleteMod, TypeOK, Disks
<1>12. ASSUME NEW p \in Paths, UserRemoves(p) PROVE UserFilesKept'
      BY <1>12, StillThereKept DEF UserRemoves, UserSets, TypeOK, Disks
<1>13. ASSUME NEW p \in Paths, NEW f \in Files, UserCreates(p, f) PROVE UserFilesKept'
  <2>1. disk' = [disk EXCEPT ![p] = f] /\ disk[p] = "none" /\ mine' \subseteq mine \union {f}
        BY <1>13 DEF UserCreates, UserSets
  <2>2. ASSUME NEW u \in mine' PROVE \E x \in Paths : disk'[x] = u
        BY <2>1, NotTheirs DEF UserFilesKept, Spared, TypeOK, Disks
  <2> QED BY <2>2 DEF UserFilesKept
<1>14. CASE UNCHANGED vars
      BY <1>1, <1>14 DEF vars, history
<1> QED
      BY <1>3, <1>4, <1>5, <1>6, <1>7, <1>8, <1>9, <1>10, <1>11, <1>12, <1>13, <1>14
      DEF Next, Transaction, Mods, User

(* No operation destroys a file the user has put into the directory.       *)
THEOREM NoUserFileLost == ASSUME Considerate PROVE Spec => []UserFilesKept
<1>1. Init => Spared /\ UserFilesKept
      BY NotTheirs DEF Init, Spared, UserFilesKept, Moved, Empty
<1>2. TypeOK /\ Staged /\ Spared /\ UserFilesKept /\ [Next]_vars => (Spared /\ UserFilesKept)'
      BY SparedStep, KeptStep
<1> QED BY <1>1, <1>2, Invariance, PTL DEF Spec

-----------------------------------------------------------------------------
(* Commits.                                                                *)

(* From its request to its commit an operation knows what it will record.  *)
Going == {"download", "apply", "promote", "verify", "remove", "commit"}
Landed == {"verify", "remove", "commit"}
EntryOf(r) == [name |-> NameOf[r], file |-> r, on |-> r \notin op.off]
Was(q) == before.manifest[q]

(* The file of an entry is a version of the project of the entry.          *)
Own(book) == \A q \in Projects : book[q] # NoEntry => ProjectOf[book[q].file] = q
OwnFiles == Own(manifest) /\ Own(op.book) /\ Own(before.manifest)

(* What the requests have established, and what waiting cannot undo.       *)
UninstallPlanned ==
    /\ op.plan = {}
    /\ pc \in {"remove", "commit"}
    /\ \A q \in Projects : op.book[q] \in {NoEntry, Was(q)}
    /\ \A q \in Projects :
         op.book[q] # NoEntry /\ Present(q, before.manifest, before.disk) =>
             \A d \in Needs[op.book[q].file] : Was(d) # NoEntry => op.book[d] # NoEntry
InstallPlanned ==
    \A r \in op.plan :
        /\ op.book[ProjectOf[r]] = EntryOf(r)
        /\ \A q \in Projects \ ProjectsOf(op.plan) : Was(q) # NoEntry => Was(q).name # NameOf[r]
PackPlanned ==
    pc # "download" => \A r \in op.plan : \A p \in Variants(NameOf[r]) : before.disk[p] = "none"
FilesPlanned ==
    \A q \in Projects :
        op.book[q] = Was(q) \/ \E r \in op.plan : ProjectOf[r] = q /\ op.book[q] = EntryOf(r)
Planned ==
    pc \in Going =>
        /\ op.kind \in {"install", "pack", "uninstall"}
        /\ OneFileEach(op.plan)
        /\ op.kind = "uninstall" => UninstallPlanned
        /\ op.kind # "uninstall" => FilesPlanned
        /\ op.kind = "install" => InstallPlanned
        /\ op.kind = "pack" => PackPlanned

(* How far the files have got.                                             *)
Placed ==
    /\ pc \in Going =>
         /\ \A p \in Paths : before.disk[p] = IF Moved(p) THEN backup[p] ELSE disk[p]
         /\ applied \subseteq Dests
         /\ \A r \in op.plan : Dest(r) \in applied => disk[Dest(r)] = r
    /\ pc \in Landed => applied = Dests

(* What is removed is the unchanged file of an entry that changes, and an  *)
(* entry that changes its name leaves nothing under the old one.           *)
Goes(p) ==
    \E q \in Projects : Was(q) # NoEntry /\ op.book[q] # Was(q) /\ Was(q).file = before.disk[p]
Cleared ==
    pc \in {"remove", "commit"} =>
        /\ \A p \in Paths \ applied : backup[p] # "none" => disk[p] = "none" /\ Goes(p)
        /\ \A p \in op.stale : p \notin applied /\ Goes(p)
        /\ \A q \in Projects :
             Was(q) # NoEntry /\ op.book[q].name # Was(q).name =>
                \A p \in Variants(Was(q).name) \ applied : disk[p] = "none" \/ p \in op.stale

(* The manifest is the old one until the new one is saved, which is the    *)
(* last thing that can fail.                                               *)
Saved ==
    /\ pc \notin {"idle", "commit"} => manifest = before.manifest
    /\ pc = "commit" => manifest = op.book /\ op.stale = {}

(* The books of the operations record files of their projects.             *)
LEMMA RecordedOwns ==
    ASSUME Own(manifest), NEW plan \in SUBSET Releases, NEW off PROVE Own(Recorded(plan, off))
<1>1. ASSUME NEW q \in ProjectsOf(plan)
      PROVE  ReleaseFor(q, plan) \in plan /\ ProjectOf[ReleaseFor(q, plan)] = q
      BY <1>1 DEF ProjectsOf, ReleaseFor
<1> QED BY <1>1 DEF Own, Recorded

LEMMA WithoutOwns == ASSUME Own(manifest), NEW qs PROVE Own(Without(qs))
BY DEF Own, Without

LEMMA EnabledOwns ==
    ASSUME TypeOK, Own(manifest), NEW q \in Tracked, NEW on \in BOOLEAN PROVE Own(Enabled(q, on))
<1>1. \A x \in Projects : Enabled(q, on)[x] # NoEntry /\ x # q => manifest[x] # NoEntry
                          /\ Enabled(q, on)[x].file = manifest[x].file
      BY DEF Enabled, TypeOK, Books
<1>2. Enabled(q, on)[q].file = manifest[q].file /\ manifest[q] # NoEntry
  <2>1. manifest[q] \in [name : Names, file : Releases, on : BOOLEAN]
        BY DEF Tracked, TypeOK, Books, Entries
  <2>2. Enabled(q, on)[q] = [manifest[q] EXCEPT !.on = on]
        BY DEF Enabled, Tracked, TypeOK, Books
  <2> QED BY <2>1, <2>2 DEF Tracked
<1> QED BY <1>1, <1>2 DEF Own, Tracked

LEMMA AdoptedOwns == ASSUME Own(op.book), NEW pick \in Picks PROVE Own(Adopted(pick))
<1>1. ASSUME NEW q \in Adopting PROVE ProjectOf[pick[q].file] = q
      BY DEF Picks, Adoptable
<1> QED BY <1>1 DEF Own, Adopted

LEMMA BlankOwns == Own(NoBook) /\ Own(NoOp.book) /\ Own(NotStarted.manifest)
BY DEF Own, NoBook, NoOp, NotStarted

LEMMA StartOwns ==
    ASSUME OwnFiles, NEW next, NEW o, Start(next, o), Own(o.book) PROVE OwnFiles'
BY DEF Start, OwnFiles, Own

LEMMA FinishOwns ==
    ASSUME OwnFiles, NEW how, Finish(how), Own(manifest') PROVE OwnFiles'
BY BlankOwns DEF Finish, OwnFiles, Own

LEMMA SameOwns ==
    ASSUME OwnFiles, manifest' \in {manifest, op.book}, op'.book = op.book,
           before'.manifest = before.manifest
    PROVE  OwnFiles'
BY DEF OwnFiles, Own

LEMMA OwnStep == ASSUME TypeOK, OwnFiles, [Next]_vars PROVE OwnFiles'
<1>1. ASSUME NEW plan \in SUBSET Releases, RequestInstall(plan) PROVE OwnFiles'
  <2>1. PICK off : Start("download", [NoOp EXCEPT !.kind = "install", !.plan = plan, !.off = off,
                           !.absent = {p \in {<<NameOf[r], r \notin off>> : r \in plan} :
                                          disk[p] = "none"},
                           !.book = Recorded(plan, off)])
        BY <1>1 DEF RequestInstall
  <2>2. Own(Recorded(plan, off))
        BY RecordedOwns DEF OwnFiles
  <2> QED BY <2>1, <2>2, StartOwns DEF NoOp
<1>2. ASSUME NEW plan \in SUBSET Releases, NEW named \in SUBSET plan, RequestPack(plan, named)
      PROVE  OwnFiles'
  <2>1. Own(Recorded(named, {}))
        BY RecordedOwns DEF OwnFiles
  <2> QED BY <1>2, <2>1, StartOwns DEF RequestPack, NoOp
<1>3. ASSUME NEW qs \in SUBSET Projects, RequestUninstall(qs) PROVE OwnFiles'
  <2>1. Own(Without(qs))
        BY WithoutOwns DEF OwnFiles
  <2> QED BY <1>3, <2>1, StartOwns DEF RequestUninstall, NoOp
<1>4. CASE RequestList
  <2>1. Own(Without(Missing))
        BY WithoutOwns DEF OwnFiles
  <2> QED BY <1>4, <2>1, StartOwns DEF RequestList, NoOp
<1>5. ASSUME NEW how, Finish(how), manifest' \in {manifest, op.book} PROVE OwnFiles'
      BY <1>5, FinishOwns DEF OwnFiles
<1>6. CASE DownloadFails \/ Downloaded \/ Commit \/ RolledBack \/ Crash
      BY <1>5, <1>6, SameOwns
      DEF DownloadFails, Downloaded, Commit, RolledBack, Crash, history
<1>8. op'.book = op.book /\ UNCHANGED before /\ manifest' \in {manifest, op.book} => OwnFiles'
      BY SameOwns
<1>9. ASSUME NEW c, op' = [op EXCEPT !.current = c] PROVE op'.book = op.book
      BY <1>9 DEF TypeOK, Ops
<1>10. ASSUME NEW s, op' = [op EXCEPT !.stale = s] PROVE op'.book = op.book
      BY <1>10 DEF TypeOK, Ops
<1>11. ASSUME NEW r \in Releases, MoveAside(r) PROVE OwnFiles'
      BY <1>8, <1>9, <1>11 DEF MoveAside, RollBack, history
<1>12. CASE Promote \/ ApplyFails \/ VerifyStale \/ RemoveFails \/ SaveFails \/ SaveManifest
      BY <1>8, <1>9, <1>10, <1>12
      DEF Promote, ApplyFails, VerifyStale, RemoveFails, SaveFails, SaveManifest, RollBack, history
<1>13. ASSUME NEW p \in Paths, RemoveStale(p) \/ RestoreRemoved(p) \/ RestoreApplied(p)
       PROVE  OwnFiles'
      BY <1>8, <1>10, <1>13 DEF RemoveStale, RestoreRemoved, RestoreApplied, history
<1>14. CASE Identify
  <2>1. PICK pick \in Picks : manifest' = Adopted(pick)
        BY <1>14 DEF Identify
  <2>2. Own(manifest')
        BY <2>1, AdoptedOwns DEF OwnFiles
  <2> QED BY <1>14, <2>2, FinishOwns DEF Identify
<1>15. CASE ProviderUnreachable \/ ListSaveFails \/ SaveToggle \/ ToggleFails
      BY <1>5, <1>15 DEF ProviderUnreachable, ListSaveFails, SaveToggle, ToggleFails
<1>16. ASSUME NEW p \in Paths, NEW on \in BOOLEAN, Toggle(p, on) PROVE OwnFiles'
  <2>1. PICK book \in IF Owners(p) = {} THEN {manifest} ELSE {Enabled(q, on) : q \in Owners(p)} :
          op' = [NoOp EXCEPT !.kind = "toggle", !.absent = {p} \ {<<p[1], on>>}, !.book = book]
        BY <1>16 DEF Toggle
  <2>2. Own(book)
        BY <2>1, EnabledOwns DEF Owners, OwnFiles
  <2>3. op'.book = book /\ before'.manifest = manifest /\ manifest' = manifest
        BY <1>16, <2>1 DEF Toggle, NoOp
  <2> QED BY <2>2, <2>3 DEF OwnFiles, Own
<1>17. ASSUME NEW p \in Paths, DeleteMod(p) PROVE OwnFiles'
      BY <1>8, <1>17 DEF DeleteMod, opVars
<1>18. ASSUME NEW p, NEW f, UserSets(p, f) PROVE OwnFiles'
  <2>1. UNCHANGED <<manifest, op>> /\ before'.manifest = before.manifest
        BY <1>18 DEF UserSets, opVars, TypeOK
  <2> QED BY <2>1, SameOwns
<1>19. CASE UNCHANGED vars
      BY <1>8, <1>19 DEF vars, opVars, history
<1> QED
      BY <1>1, <1>2, <1>3, <1>4, <1>6, <1>11, <1>12, <1>13, <1>14, <1>15, <1>16, <1>17, <1>18, <1>19
      DEF Next, Request, Transaction, List, Mods, User, UserRemoves, UserCreates

(* A step that keeps an operation going is its next step, or the user's    *)
(* while it waits; neither changes what was planned.                       *)
Waits == \E p \in Paths : \E f \in Files \union {"none"} : pc = "download" /\ UserSets(p, f)
Advances ==
    \/ Downloaded /\ pc' = "apply"
    \/ \E r \in Releases : MoveAside(r) /\ pc' = "promote"
    \/ Promote
    \/ VerifyStale /\ pc' = "remove"
    \/ \E p \in Paths : RemoveStale(p)
    \/ SaveManifest
PlanKept ==
    /\ op'.kind = op.kind /\ op'.plan = op.plan /\ op'.off = op.off /\ op'.book = op.book
    /\ before'.manifest = before.manifest
Begins ==
    \/ \E plan \in SUBSET Releases : RequestInstall(plan)
    \/ \E plan \in SUBSET Releases : \E named \in SUBSET plan : RequestPack(plan, named)
    \/ \E qs \in SUBSET Projects : RequestUninstall(qs)

LEMMA GoingSteps ==
    ASSUME TypeOK, [Next]_vars, pc' \in Going
    PROVE  Begins \/ Advances \/ Waits \/ UNCHANGED vars
<1>1. ASSUME NEW how, Finish(how) PROVE FALSE
      BY <1>1 DEF Finish, Going
<1>2. ASSUME DownloadFails \/ Commit \/ RolledBack \/ Crash \/ List \/ SaveToggle \/ ToggleFails
      PROVE  FALSE
      BY <1>1, <1>2 DEF DownloadFails, Commit, RolledBack, Crash, List, Identify, ProviderUnreachable,
         ListSaveFails, SaveToggle, ToggleFails
<1>3. ASSUME ApplyFails \/ RemoveFails \/ SaveFails \/ RequestList PROVE FALSE
      BY <1>3 DEF ApplyFails, RemoveFails, SaveFails, RollBack, RequestList, Start, Going
<1>4. ASSUME NEW p, NEW on, RestoreRemoved(p) \/ RestoreApplied(p) \/ Toggle(p, on) PROVE FALSE
      BY <1>4 DEF RestoreRemoved, RestoreApplied, Toggle, Going
<1>5. ASSUME NEW p, DeleteMod(p) PROVE FALSE
      BY <1>5 DEF DeleteMod, opVars, Going
<1>6. CASE Downloaded
      BY <1>1, <1>6 DEF Downloaded, Advances
<1>7. ASSUME NEW r \in Releases, MoveAside(r) PROVE Advances
      BY <1>7 DEF MoveAside, RollBack, Going, Advances
<1>8. CASE VerifyStale
      BY <1>8 DEF VerifyStale, RollBack, Going, Advances
<1>9. ASSUME NEW p \in Paths, UserRemoves(p) PROVE Waits
      BY <1>9 DEF UserRemoves, UserSets, Away, opVars, Going, Waits
<1>10. ASSUME NEW p \in Paths, NEW f \in Files, UserCreates(p, f) PROVE Waits
      BY <1>10 DEF UserCreates, UserSets, Away, opVars, Going, Waits
<1> QED
      BY <1>2, <1>3, <1>4, <1>5, <1>6, <1>7, <1>8, <1>9, <1>10
      DEF Next, Request, Transaction, Mods, User, Begins, Advances

LEMMA AdvancesFrame ==
    ASSUME TypeOK, Advances PROVE PlanKept /\ UNCHANGED before /\ pc \in Going
<1>1. ASSUME NEW c, op' = [op EXCEPT !.current = c]
      PROVE  op'.kind = op.kind /\ op'.plan = op.plan /\ op'.off = op.off /\ op'.book = op.book
      BY <1>1 DEF TypeOK, Ops
<1>2. ASSUME NEW s, op' = [op EXCEPT !.stale = s]
      PROVE  op'.kind = op.kind /\ op'.plan = op.plan /\ op'.off = op.off /\ op'.book = op.book
      BY <1>2 DEF TypeOK, Ops
<1>3. CASE Downloaded /\ pc' = "apply"
      BY <1>3 DEF Downloaded, Finish, PlanKept, Going, history
<1>4. ASSUME NEW r \in Releases, MoveAside(r), pc' = "promote"
      PROVE  PlanKept /\ UNCHANGED before /\ pc \in Going
      BY <1>1, <1>4 DEF MoveAside, RollBack, PlanKept, Going, history
<1>5. CASE Promote
      BY <1>1, <1>5 DEF Promote, PlanKept, Going, history
<1>6. CASE VerifyStale /\ pc' = "remove"
      BY <1>2, <1>6 DEF VerifyStale, RollBack, PlanKept, Going, history
<1>7. ASSUME NEW p \in Paths, RemoveStale(p) PROVE PlanKept /\ UNCHANGED before /\ pc \in Going
      BY <1>2, <1>7 DEF RemoveStale, PlanKept, Going, history
<1>8. CASE SaveManifest
      BY <1>8 DEF SaveManifest, PlanKept, Going, history
<1> QED BY <1>3, <1>4, <1>5, <1>6, <1>7, <1>8 DEF Advances

LEMMA WaitsFrame ==
    ASSUME TypeOK, Waits
    PROVE  /\ PlanKept /\ pc = "download" /\ UNCHANGED <<pc, op, backup, applied, manifest>>
           /\ \E p \in Paths, f \in Files \union {"none"} :
                disk' = [disk EXCEPT ![p] = f] /\ before'.disk = [before.disk EXCEPT ![p] = f]
<1>1. PICK p \in Paths, f \in Files \union {"none"} : pc = "download" /\ UserSets(p, f)
      BY DEF Waits
<1>2. /\ disk' = [disk EXCEPT ![p] = f]
      /\ before' = [before EXCEPT !.disk[p] = f]
      /\ UNCHANGED <<pc, op, backup, applied, manifest>>
      BY <1>1 DEF UserSets, opVars
<1>3. before'.disk = [before.disk EXCEPT ![p] = f] /\ before'.manifest = before.manifest
      BY <1>2 DEF TypeOK
<1> QED BY <1>1, <1>2, <1>3 DEF PlanKept

(* The manifest on disk.                                                   *)
LEMMA SavedStep == ASSUME TypeOK, Saved, [Next]_vars PROVE Saved'
<1>1. ASSUME NEW next, NEW o, Start(next, o), next # "commit" PROVE Saved'
      BY <1>1 DEF Start, Saved
<1>2. ASSUME NEW how, Finish(how) PROVE Saved'
      BY <1>2 DEF Finish, Saved
<1>3. CASE Request
      BY <1>1, <1>3 DEF Request, RequestInstall, RequestPack, RequestUninstall, RequestList
<1>4. CASE DownloadFails \/ Commit \/ RolledBack \/ Crash \/ List \/ SaveToggle \/ ToggleFails
      BY <1>2, <1>4 DEF DownloadFails, Commit, RolledBack, Crash, List, Identify, ProviderUnreachable,
         ListSaveFails, SaveToggle, ToggleFails
<1>5. CASE Downloaded
      BY <1>2, <1>5 DEF Downloaded, Saved, history
<1>6. ASSUME NEW r \in Releases, MoveAside(r) PROVE Saved'
      BY <1>6 DEF MoveAside, RollBack, Saved, history
<1>7. CASE Promote \/ ApplyFails \/ VerifyStale \/ RemoveFails \/ SaveFails
      BY <1>7 DEF Promote, ApplyFails, VerifyStale, RemoveFails, SaveFails, RollBack, Saved, history
<1>8. CASE SaveManifest
      BY <1>8 DEF SaveManifest, Saved, history
<1>9. ASSUME NEW p \in Paths, RemoveStale(p) \/ RestoreRemoved(p) \/ RestoreApplied(p) PROVE Saved'
      BY <1>9 DEF RemoveStale, RestoreRemoved, RestoreApplied, Saved, history
<1>10. ASSUME NEW p \in Paths, NEW on \in BOOLEAN, Toggle(p, on) PROVE Saved'
      BY <1>10 DEF Toggle, Saved
<1>11. ASSUME NEW p \in Paths, DeleteMod(p) PROVE Saved'
      BY <1>11 DEF DeleteMod, opVars, Saved
<1>12. ASSUME NEW p, NEW f, UserSets(p, f), Away("create") \/ Away("remove") PROVE Saved'
      BY <1>12 DEF UserSets, Away, opVars, Saved, TypeOK
<1>13. CASE UNCHANGED vars
      BY <1>13 DEF vars, opVars, history, Saved
<1> QED
      BY <1>3, <1>4, <1>5, <1>6, <1>7, <1>8, <1>9, <1>10, <1>11, <1>12, <1>13
      DEF Next, Transaction, Mods, User, UserRemoves, UserCreates

(* What the operation in progress has planned.                             *)
LEMMA BeginsPlanned == ASSUME TypeOK, Begins PROVE Planned'
<1>1. ASSUME NEW plan \in SUBSET Releases, RequestInstall(plan) PROVE Planned'
  <2>1. PICK off : Start("download", [NoOp EXCEPT !.kind = "install", !.plan = plan, !.off = off,
                           !.absent = {p \in {<<NameOf[r], r \notin off>> : r \in plan} :
                                          disk[p] = "none"},
                           !.book = Recorded(plan, off)])
        BY <1>1 DEF RequestInstall
  <2>2. /\ op'.kind = "install" /\ op'.plan = plan /\ op'.off = off
        /\ op'.book = Recorded(plan, off) /\ before'.manifest = manifest
        BY <2>1 DEF Start, NoOp
  <2>3. OneReleaseEach(plan) /\ DestinationsFree(plan)
        BY <1>1 DEF RequestInstall, Resolved
  <2>4. ASSUME NEW q \in ProjectsOf(plan)
        PROVE  ReleaseFor(q, plan) \in plan /\ ProjectOf[ReleaseFor(q, plan)] = q
        BY <2>4 DEF ProjectsOf, ReleaseFor
  <2>5. ASSUME NEW q \in Projects
        PROVE  IF q \in ProjectsOf(plan) THEN op'.book[q] = EntryOf(ReleaseFor(q, plan))'
                                         ELSE op'.book[q] = Was(q)'
        BY <2>2 DEF Recorded, EntryOf, Was
  <2>6. FilesPlanned'
        BY <2>2, <2>4, <2>5 DEF FilesPlanned, EntryOf
  <2>7. ASSUME NEW r \in plan
        PROVE  /\ op'.book[ProjectOf[r]] = EntryOf(r)'
               /\ \A q \in Projects \ ProjectsOf(plan) : Was(q)' # NoEntry => Was(q)'.name # NameOf[r]
    <3>1. ProjectOf[r] \in ProjectsOf(plan) /\ ProjectOf[r] \in Projects
          BY ContentAssumption DEF ProjectsOf
    <3>2. ReleaseFor(ProjectOf[r], plan) = r
          BY <2>3, <2>4, <3>1 DEF OneReleaseEach
    <3>3. ASSUME NEW q \in Projects \ ProjectsOf(plan), manifest[q] # NoEntry,
                 manifest[q].name = NameOf[r]
          PROVE  FALSE
      <4>1. <<NameOf[r], TRUE>> \in Variants(NameOf[r])
            BY DEF Variants
      <4>2. q \in Owners(<<NameOf[r], TRUE>>)
            BY <3>3 DEF Owners, Tracked
      <4>3. MakesRoom(q, r, plan)
            BY <2>3, <4>1, <4>2 DEF DestinationsFree
      <4> QED BY <3>1, <3>3, <4>3 DEF MakesRoom
    <3> QED BY <2>2, <2>5, <3>1, <3>2, <3>3 DEF Was
  <2>8. InstallPlanned'
        BY <2>2, <2>7 DEF InstallPlanned
  <2> QED BY <2>2, <2>3, <2>6, <2>8 DEF Planned, DestinationsFree
<1>2. ASSUME NEW plan \in SUBSET Releases, NEW named \in SUBSET plan, RequestPack(plan, named)
      PROVE  Planned'
  <2>1. /\ op'.kind = "pack" /\ op'.plan = plan /\ op'.off = {}
        /\ op'.book = Recorded(named, {}) /\ before'.manifest = manifest
        /\ pc' = "download"
        BY <1>2 DEF RequestPack, Start, NoOp
  <2>2. ASSUME NEW q \in ProjectsOf(named)
        PROVE  ReleaseFor(q, named) \in named /\ ProjectOf[ReleaseFor(q, named)] = q
        BY <2>2 DEF ProjectsOf, ReleaseFor
  <2>3. ASSUME NEW q \in Projects
        PROVE  IF q \in ProjectsOf(named) THEN op'.book[q] = EntryOf(ReleaseFor(q, named))'
                                          ELSE op'.book[q] = Was(q)'
        BY <2>1 DEF Recorded, EntryOf, Was
  <2>4. FilesPlanned'
        BY <2>1, <2>2, <2>3 DEF FilesPlanned
  <2> QED BY <1>2, <2>1, <2>4 DEF Planned, PackPlanned, RequestPack
<1>3. ASSUME NEW qs \in SUBSET Projects, RequestUninstall(qs) PROVE Planned'
  <2>1. /\ op'.kind = "uninstall" /\ op'.plan = {} /\ op'.book = Without(qs)
        /\ before'.manifest = manifest /\ before'.disk = disk /\ pc' = "remove"
        BY <1>3 DEF RequestUninstall, Start, NoOp
  <2>2. ASSUME NEW q \in Projects
        PROVE  /\ Was(q)' = manifest[q]
               /\ op'.book[q] = IF q \in qs THEN NoEntry ELSE manifest[q]
        BY <2>1 DEF Without, Was
  <2>3. ASSUME NEW q \in Projects, op'.book[q] # NoEntry, Present(q, manifest, disk),
               NEW d \in Needs[op'.book[q].file], Was(d)' # NoEntry
        PROVE  op'.book[d] # NoEntry
    <3>1. q \notin qs /\ op'.book[q] = manifest[q] /\ q \in Tracked
          BY <2>2, <2>3 DEF Tracked
    <3>2. d \notin qs
          BY <1>3, <2>3, <3>1 DEF RequestUninstall, StillNeeded
    <3>3. d \in Projects
          BY <2>3, <3>1, TrackedEntry, ContentAssumption
    <3> QED BY <2>2, <2>3, <3>2, <3>3
  <2>4. ASSUME NEW q \in Projects
        PROVE  Present(q, before.manifest, before.disk)' <=> Present(q, manifest, disk)
        BY <2>1 DEF Present, Found
  <2>5. UninstallPlanned'
        BY <2>1, <2>2, <2>3, <2>4 DEF UninstallPlanned
  <2> QED BY <2>1, <2>5 DEF Planned, OneFileEach
<1> QED BY <1>1, <1>2, <1>3 DEF Begins

LEMMA PlanKeptFacts ==
    ASSUME PlanKept
    PROVE  /\ OneFileEach(op.plan)' <=> OneFileEach(op.plan)
           /\ FilesPlanned => FilesPlanned'
           /\ InstallPlanned => InstallPlanned'
           /\ Dests' = Dests
           /\ \A r : Dest(r)' = Dest(r)
           /\ \A q : Was(q)' = Was(q)
<1>1. \A q : Was(q)' = Was(q)
      BY DEF PlanKept, Was
<1>2. \A r : EntryOf(r)' = EntryOf(r)
      BY DEF PlanKept, EntryOf
<1>3. \A r : Dest(r)' = Dest(r)
      BY DEF PlanKept, Dest
<1>4. Dests' = Dests
      BY <1>3 DEF PlanKept, Dests
<1>5. FilesPlanned => FilesPlanned'
      BY <1>1, <1>2 DEF PlanKept, FilesPlanned
<1>6. InstallPlanned => InstallPlanned'
      BY <1>1, <1>2 DEF PlanKept, InstallPlanned
<1> QED BY <1>1, <1>3, <1>4, <1>5, <1>6 DEF PlanKept, OneFileEach

LEMMA PlannedStep ==
    ASSUME TypeOK, Staged, Planned, Placed, [Next]_vars PROVE Planned'
<1>1. CASE Begins
      BY <1>1, BeginsPlanned
<1>2. CASE Advances
  <2>1. PlanKept /\ UNCHANGED before /\ pc \in Going
        BY <1>2, AdvancesFrame
  <2>2. UninstallPlanned => UninstallPlanned'
    <3>1. ASSUME pc \in {"remove", "commit"} PROVE pc' \in {"remove", "commit"}
          BY <1>2, <3>1 DEF Advances, Downloaded, MoveAside, Promote, VerifyStale, RemoveStale,
             SaveManifest
    <3>2. ASSUME NEW q \in Projects
          PROVE  Present(q, before.manifest, before.disk)' <=> Present(q, before.manifest, before.disk)
          BY <2>1
    <3> QED BY <2>1, <3>1, <3>2, PlanKeptFacts DEF UninstallPlanned, PlanKept
  <2>3. op.kind = "pack" /\ PackPlanned => PackPlanned'
    <3>1. CASE pc = "download"
      <4>1. Downloaded /\ pc' = "apply"
            BY <1>2, <3>1 DEF Advances, MoveAside, Promote, VerifyStale, RemoveStale, SaveManifest
      <4>2. op.kind = "pack" => ~Occupied(op.plan)
            BY <4>1 DEF Downloaded, Finish
      <4>3. \A p \in Paths : before.disk[p] = disk[p]
            BY <3>1 DEF Placed, Going, Staged, Moved, Empty
      <4>4. ASSUME NEW r \in op.plan, NEW p \in Variants(NameOf[r]) PROVE p \in Paths
            BY ContentAssumption DEF TypeOK, Ops, Variants, Paths
      <4> QED BY <2>1, <4>2, <4>3, <4>4 DEF PackPlanned, PlanKept, Occupied
    <3>2. CASE pc # "download"
          BY <2>1, <3>2 DEF PackPlanned, PlanKept
    <3> QED BY <3>1, <3>2
  <2> QED BY <2>1, <2>2, <2>3, PlanKeptFacts DEF Planned, PlanKept
<1>3. CASE Waits
  <2>1. PlanKept /\ pc = "download" /\ pc' = pc
        BY <1>3, WaitsFrame
  <2>2. op.kind # "uninstall"
        BY <2>1 DEF Planned, UninstallPlanned, Going
  <2>3. PackPlanned'
        BY <2>1 DEF PackPlanned
  <2> QED BY <2>1, <2>2, <2>3, PlanKeptFacts DEF Planned, PlanKept, Going
<1>4. CASE UNCHANGED vars
  <2>1. PlanKept /\ UNCHANGED <<before, pc>>
        BY <1>4 DEF vars, opVars, history, PlanKept
  <2>2. UninstallPlanned => UninstallPlanned'
        BY <1>4 DEF vars, opVars, history, UninstallPlanned, Was, Present, Found
  <2>3. PackPlanned => PackPlanned'
        BY <2>1 DEF PackPlanned, PlanKept
  <2> QED BY <2>1, <2>2, <2>3, PlanKeptFacts DEF Planned, PlanKept
<1>5. pc' \notin Going => Planned'
      BY DEF Planned
<1> QED BY <1>1, <1>2, <1>3, <1>4, <1>5, GoingSteps

LEMMA BeginsFrame ==
    ASSUME Begins
    PROVE  /\ pc = "idle" /\ before' = [disk |-> disk, manifest |-> manifest]
           /\ UNCHANGED <<disk, manifest, backup, applied>>
           /\ pc' \in {"download", "remove"}
           /\ pc' = "remove" => op'.plan = {}
<1>1. ASSUME NEW next, NEW o, Start(next, o), pc = "idle", next \in {"download", "remove"},
             next = "remove" => o.plan = {}
      PROVE  /\ pc = "idle" /\ before' = [disk |-> disk, manifest |-> manifest]
             /\ UNCHANGED <<disk, manifest, backup, applied>>
             /\ pc' \in {"download", "remove"}
             /\ pc' = "remove" => op'.plan = {}
      BY <1>1 DEF Start
<1>2. ASSUME NEW plan, RequestInstall(plan) PROVE \E o : Start("download", o) /\ pc = "idle"
      BY <1>2 DEF RequestInstall
<1>3. ASSUME NEW plan, NEW named, RequestPack(plan, named)
      PROVE  \E o : Start("download", o) /\ pc = "idle"
      BY <1>3 DEF RequestPack
<1>4. ASSUME NEW qs, RequestUninstall(qs)
      PROVE  \E o : Start("remove", o) /\ pc = "idle" /\ o.plan = {}
  <2> DEFINE o == [NoOp EXCEPT !.kind = "uninstall", !.book = Without(qs),
                               !.stale = UNION {Removable(manifest[q], {}) : q \in qs}]
  <2>1. Start("remove", o) /\ pc = "idle"
        BY <1>4 DEF RequestUninstall
  <2>2. o.plan = {}
        BY DEF NoOp
  <2> QED BY <2>1, <2>2
<1> QED BY <1>1, <1>2, <1>3, <1>4 DEF Begins

(* How far the files of the operation in progress have got.                *)
LEMMA PlacedStep ==
    ASSUME TypeOK, Staged, Planned, Placed, [Next]_vars PROVE Placed'
<1>1. CASE Begins
  <2>1. /\ pc = "idle" /\ before'.disk = disk /\ UNCHANGED <<disk, backup, applied>>
        /\ pc' \in {"download", "remove"}
        /\ pc' = "remove" => op'.plan = {}
        BY <1>1, BeginsFrame
  <2>2. applied = {} /\ \A p \in Paths : ~Moved(p)
        BY <2>1 DEF Staged, Moved, Empty
  <2>3. \A p \in Paths : ~Moved(p)'
        BY <2>1, <2>2 DEF Moved
  <2>4. pc' = "remove" => Dests' = {}
        BY <2>1 DEF Dests
  <2> QED BY <2>1, <2>2, <2>3, <2>4 DEF Placed, Landed
<1>2. CASE Advances
  <2>1. PlanKept /\ UNCHANGED before /\ pc \in Going
        BY <1>2, AdvancesFrame
  <2>2. \A r \in op.plan : Dest(r) \in Paths
        BY DestIsPath DEF TypeOK, Ops
  <2>3. op.plan \subseteq Releases
        BY DEF TypeOK, Ops
  <2>4. CASE UNCHANGED <<disk, backup, applied>> /\ (pc' \in Landed => pc \in Landed)
        BY <2>1, <2>4, PlanKeptFacts DEF Placed, Moved, PlanKept
  <2>5. ASSUME NEW r \in Releases, MoveAside(r), pc' = "promote" PROVE Placed'
    <3>1. /\ backup' = [backup EXCEPT ![Dest(r)] = disk[Dest(r)]]
          /\ disk' = [disk EXCEPT ![Dest(r)] = "none"]
          /\ UNCHANGED applied
          /\ pc = "apply" /\ r \in op.plan /\ Dest(r) \notin applied
          BY <2>5 DEF MoveAside, RollBack, history
    <3>2. Dest(r) \in Paths /\ ~Moved(Dest(r))
          BY <2>2, <3>1 DEF Staged, Moved
    <3>3. ASSUME NEW p \in Paths
          PROVE  before'.disk[p] = (IF Moved(p) THEN backup[p] ELSE disk[p])'
          BY <2>1, <3>1, <3>2 DEF Placed, Moved, TypeOK, Disks
    <3>4. ASSUME NEW x \in op.plan, Dest(x) \in applied PROVE disk'[Dest(x)] = x
          BY <2>1, <2>2, <3>1, <3>4 DEF Placed, TypeOK, Disks
    <3> QED BY <2>1, <2>5, <3>1, <3>3, <3>4, PlanKeptFacts DEF Placed, Landed, PlanKept
  <2>6. CASE Promote
    <3> DEFINE c == op.current
    <3>1. /\ disk' = [disk EXCEPT ![Dest(c)] = c]
          /\ applied' = applied \union {Dest(c)}
          /\ UNCHANGED backup
          /\ pc = "promote" /\ pc' = IF applied' = Dests THEN "verify" ELSE "apply"
          BY <2>6 DEF Promote
    <3>2. c \in op.plan /\ Dest(c) \notin applied /\ disk[Dest(c)] = "none"
          BY <3>1 DEF Staged
    <3>3. Dest(c) \in Paths /\ Dest(c) \in Dests
          BY <2>2, <3>2 DEF Dests
    <3> HIDE DEF c
    <3>4. ASSUME NEW p \in Paths
          PROVE  before'.disk[p] = (IF Moved(p) THEN backup[p] ELSE disk[p])'
      <4>1. before.disk[p] = IF Moved(p) THEN backup[p] ELSE disk[p]
            BY <2>1 DEF Placed
      <4>2. CASE p = Dest(c)
            BY <2>1, <3>1, <3>2, <4>1, <4>2 DEF Moved
      <4>3. CASE p # Dest(c)
            BY <2>1, <3>1, <3>3, <4>1, <4>3 DEF Moved, TypeOK, Disks
      <4> QED BY <4>2, <4>3
    <3>5. ASSUME NEW x \in op.plan, Dest(x) \in applied' PROVE disk'[Dest(x)] = x
      <4>1. CASE Dest(x) = Dest(c)
        <5>1. NameOf[x] = NameOf[c]
              BY <4>1 DEF Dest
        <5>2. x = c
              BY <2>1, <3>2, <5>1 DEF Planned, OneFileEach
        <5> QED BY <3>1, <3>3, <5>2 DEF TypeOK, Disks
      <4>2. CASE Dest(x) # Dest(c)
            BY <2>1, <2>2, <3>1, <3>5, <4>2 DEF Placed, TypeOK, Disks
      <4> QED BY <4>1, <4>2
    <3>6. applied' \subseteq Dests
          BY <2>1, <3>1, <3>3 DEF Placed
    <3> QED BY <2>1, <3>1, <3>4, <3>5, <3>6, PlanKeptFacts DEF Placed, Landed, PlanKept
  <2>7. ASSUME NEW p \in Paths, RemoveStale(p), ~UNCHANGED <<disk, backup>> PROVE Placed'
    <3>1. /\ backup' = [backup EXCEPT ![p] = disk[p]]
          /\ disk' = [disk EXCEPT ![p] = "none"]
          /\ UNCHANGED applied
          /\ pc = "remove" /\ pc' = "remove" /\ p \notin applied /\ backup[p] = "none"
          BY <2>7 DEF RemoveStale
    <3>2. ASSUME NEW x \in Paths
          PROVE  before'.disk[x] = (IF Moved(x) THEN backup[x] ELSE disk[x])'
          BY <2>1, <3>1 DEF Placed, Moved, TypeOK, Disks
    <3>3. ASSUME NEW x \in op.plan, Dest(x) \in applied PROVE disk'[Dest(x)] = x
          BY <2>1, <2>2, <3>1, <3>3 DEF Placed, TypeOK, Disks
    <3> QED BY <2>1, <3>1, <3>2, <3>3, PlanKeptFacts DEF Placed, Landed, PlanKept
  <2>8. CASE Downloaded /\ pc' = "apply"
    <3>1. UNCHANGED <<disk, backup, applied>>
          BY <2>8 DEF Downloaded, Finish, history
    <3> QED BY <2>4, <2>8, <3>1 DEF Landed
  <2>9. CASE (VerifyStale /\ pc' = "remove") \/ SaveManifest
    <3>1. UNCHANGED <<disk, backup, applied>> /\ pc \in Landed
          BY <2>9 DEF VerifyStale, SaveManifest, Landed
    <3> QED BY <2>4, <3>1
  <2>10. ASSUME NEW p \in Paths, RemoveStale(p), UNCHANGED <<disk, backup>> PROVE Placed'
    <3>1. UNCHANGED applied /\ pc \in Landed
          BY <2>10 DEF RemoveStale, Landed
    <3> QED BY <2>4, <2>10, <3>1
  <2> QED BY <1>2, <2>5, <2>6, <2>7, <2>8, <2>9, <2>10 DEF Advances
<1>3. CASE Waits
  <2>1. PlanKept /\ pc = "download" /\ UNCHANGED <<pc, backup, applied>>
        BY <1>3, WaitsFrame
  <2>2. applied = {} /\ \A x \in Paths : ~Moved(x)
        BY <2>1 DEF Staged, Moved, Empty
  <2>3. \A x \in Paths : ~Moved(x)'
        BY <2>1, <2>2 DEF Moved
  <2>4. PICK p \in Paths, f \in Files \union {"none"} :
          disk' = [disk EXCEPT ![p] = f] /\ before'.disk = [before.disk EXCEPT ![p] = f]
        BY <1>3, WaitsFrame
  <2>5. \A x \in Paths : before'.disk[x] = disk'[x]
        BY <2>1, <2>2, <2>4 DEF Placed, Going, TypeOK, Disks
  <2> QED BY <2>1, <2>2, <2>3, <2>5 DEF Placed, Landed
<1>4. CASE UNCHANGED vars
  <2>1. PlanKept /\ UNCHANGED <<before, pc, disk, backup, applied>>
        BY <1>4 DEF vars, opVars, history, PlanKept
  <2> QED BY <2>1, PlanKeptFacts DEF Placed, Moved, PlanKept
<1>5. pc' \notin Going => Placed'
      BY DEF Placed, Going, Landed
<1> QED BY <1>1, <1>2, <1>3, <1>4, <1>5, GoingSteps

(* What the operation in progress takes away.                              *)
LEMMA ClearedStep ==
    ASSUME TypeOK, Staged, Planned, Placed, Cleared, Saved, [Next]_vars PROVE Cleared'
<1>1. ASSUME NEW qs \in SUBSET Projects, RequestUninstall(qs) PROVE Cleared'
  <2> DEFINE gone == UNION {Removable(manifest[q], {}) : q \in qs}
             o == [NoOp EXCEPT !.kind = "uninstall", !.book = Without(qs), !.stale = gone]
  <2>1. /\ Start("remove", o) /\ pc = "idle" /\ qs \subseteq Tracked
        /\ \A q \in qs : Unchanged(manifest[q], {})
        BY <1>1 DEF RequestUninstall
  <2>2. o.book = Without(qs) /\ o.stale = gone
        BY DEF NoOp
  <2> HIDE DEF o
  <2>3. /\ op'.book = Without(qs) /\ op'.stale = gone
        /\ before'.manifest = manifest /\ before'.disk = disk
        /\ UNCHANGED <<disk, backup, applied>> /\ applied = {} /\ backup = Empty
    <3> HIDE DEF gone
    <3> QED BY <2>1, <2>2 DEF Start, Staged
  <2>4. ASSUME NEW q \in Projects
        PROVE  /\ Was(q)' = manifest[q]
               /\ op'.book[q] = IF q \in qs THEN NoEntry ELSE manifest[q]
        BY <2>3 DEF Without, Was
  <2>5. ASSUME NEW p \in gone PROVE Goes(p)'
    <3>1. PICK q \in qs : p \in Removable(manifest[q], {})
          OBVIOUS
    <3>2. q \in Projects /\ manifest[q] # NoEntry /\ manifest[q].file = disk[p]
          BY <2>1, <3>1 DEF Unchanged, Tracked
    <3> QED BY <2>3, <2>4, <3>2 DEF Goes
  <2>6. ASSUME NEW q \in Projects, Was(q)' # NoEntry, op'.book[q].name # Was(q)'.name,
               NEW p \in Variants(Was(q)'.name), disk[p] # "none"
        PROVE  p \in gone
    <3>1. q \in qs /\ p \in Removable(manifest[q], {})
          BY <2>4, <2>6 DEF Removable
    <3> QED BY <3>1
  <2> HIDE DEF gone
  <2> QED BY <2>3, <2>5, <2>6 DEF Cleared, Empty
<1>2. CASE Begins /\ pc' = "download"
      BY <1>2 DEF Cleared
<1>3. CASE Advances
  <2>1. PlanKept /\ UNCHANGED before /\ pc \in Going
        BY <1>3, AdvancesFrame
  <2>2. \A p : Goes(p)' <=> Goes(p)
        BY <2>1 DEF Goes, Was, PlanKept
  <2>3. CASE pc' \notin {"remove", "commit"}
        BY <2>3 DEF Cleared
  <2>4. CASE VerifyStale /\ pc' = "remove"
    <3> DEFINE gone == UNION {Removable(manifest[q], Dests) : q \in Replaced}
    <3>1. /\ op'.stale = gone /\ pc = "verify" /\ UNCHANGED <<disk, backup, applied>>
          /\ \A q \in Replaced : Unchanged(manifest[q], Dests)
          BY <2>4 DEF VerifyStale, RollBack, TypeOK, Ops
    <3>2. applied = Dests /\ manifest = before.manifest /\ op.kind # "uninstall" /\ FilesPlanned
          BY <2>1, <3>1 DEF Placed, Landed, Saved, Planned, UninstallPlanned
    <3>3. \A p \in Paths \ applied : backup[p] = "none" /\ before.disk[p] = disk[p]
          BY <2>1, <3>1 DEF Staged, Placed, Moved
    <3>4. ASSUME NEW p \in gone PROVE p \notin applied /\ Goes(p)
      <4>1. PICK q \in Replaced : p \in Removable(manifest[q], Dests)
            OBVIOUS
      <4>2. p \in Paths /\ p \notin Dests /\ manifest[q].file = disk[p]
            BY <3>1, <4>1, RemovableArePaths DEF Unchanged, Removable, Replaced
      <4>3. q \in Projects /\ Was(q) # NoEntry /\ op.book[q] # Was(q) /\ Was(q).file = before.disk[p]
            BY <3>2, <3>3, <4>2 DEF Replaced, Tracked, Was
      <4> QED BY <3>2, <4>2, <4>3 DEF Goes
    <3>5. ASSUME NEW q \in Projects, Was(q) # NoEntry, op.book[q].name # Was(q).name,
                 NEW p \in Variants(Was(q).name) \ applied, disk[p] # "none"
          PROVE  p \in gone
      <4>1. op.book[q] # NoEntry
        <5>1. PICK r \in op.plan : op.book[q] = EntryOf(r)
              BY <3>2, <3>5 DEF FilesPlanned
        <5>2. r # "none"
              BY ContentAssumption DEF TypeOK, Ops
        <5> QED BY <5>1, <5>2 DEF EntryOf, NoEntry
      <4>2. q \in Replaced
            BY <3>2, <3>5, <4>1 DEF Replaced, Tracked, Was
      <4>3. p \in Removable(manifest[q], Dests)
            BY <3>2, <3>5 DEF Removable, Was
      <4> QED BY <4>2, <4>3
    <3>6. \A q : Was(q)' = Was(q)
          BY <2>1, PlanKeptFacts
    <3> HIDE DEF gone
    <3> QED BY <2>1, <2>2, <3>1, <3>3, <3>4, <3>5, <3>6 DEF Cleared, PlanKept
  <2>5. ASSUME NEW p \in Paths, RemoveStale(p) PROVE Cleared'
    <3>1. /\ pc = "remove" /\ pc' = "remove" /\ p \in op.stale
          /\ op'.stale = op.stale \ {p} /\ UNCHANGED applied
          BY <2>5 DEF RemoveStale, TypeOK, Ops
    <3>2. p \notin applied /\ Goes(p)
          BY <3>1 DEF Cleared
    <3>3. CASE backup[p] # "none"
      <4>1. UNCHANGED <<disk, backup>>
            BY <2>5, <3>3 DEF RemoveStale
      <4>2. disk[p] = "none"
            BY <3>1, <3>2, <3>3 DEF Cleared
      <4> QED BY <2>1, <2>2, <3>1, <4>1, <4>2, PlanKeptFacts DEF Cleared, PlanKept
    <3>4. CASE backup[p] = "none"
      <4>1. backup' = [backup EXCEPT ![p] = disk[p]] /\ disk' = [disk EXCEPT ![p] = "none"]
            BY <2>5, <3>2, <3>4 DEF RemoveStale
      <4>2. ASSUME NEW x \in Paths \ applied, backup'[x] # "none" PROVE disk'[x] = "none" /\ Goes(x)
            BY <3>1, <3>2, <4>1, <4>2 DEF Cleared, TypeOK, Disks
      <4>3. ASSUME NEW q \in Projects, Was(q) # NoEntry, op.book[q].name # Was(q).name,
                   NEW x \in Variants(Was(q).name) \ applied
            PROVE  disk'[x] = "none" \/ x \in op'.stale
        <5>1. disk[x] = "none" \/ x \in op.stale
              BY <3>1, <4>3 DEF Cleared
        <5>2. x \in Paths
              BY <4>3 DEF Was, TypeOK, Books, Entries, Variants, Paths, NoEntry
        <5> QED BY <3>1, <4>1, <5>1, <5>2 DEF TypeOK, Disks
      <4> QED BY <2>1, <2>2, <3>1, <4>2, <4>3, PlanKeptFacts DEF Cleared, PlanKept
    <3> QED BY <3>3, <3>4
  <2>6. CASE SaveManifest
    <3>1. UNCHANGED <<op, disk, backup, applied>> /\ pc = "remove"
          BY <2>6 DEF SaveManifest
    <3> QED BY <2>1, <2>2, <3>1, PlanKeptFacts DEF Cleared, PlanKept
  <2>7. CASE Promote
        BY <2>7 DEF Promote, Cleared
  <2> QED BY <1>3, <2>3, <2>4, <2>5, <2>6, <2>7 DEF Advances
<1>4. CASE Waits
      BY <1>4, WaitsFrame DEF Cleared
<1>5. CASE UNCHANGED vars
      BY <1>5 DEF vars, opVars, history, Cleared, Goes, Was
<1>6. CASE pc' \notin {"remove", "commit"}
      BY <1>6 DEF Cleared
<1>7. Begins => pc' = "download" \/ \E qs \in SUBSET Projects : RequestUninstall(qs)
      BY DEF Begins, RequestInstall, RequestPack, Start
<1> QED BY <1>1, <1>2, <1>3, <1>4, <1>5, <1>6, <1>7, GoingSteps DEF Going

-----------------------------------------------------------------------------
(* What a commit leaves behind.                                            *)

Transactional == OwnFiles /\ Planned /\ Placed /\ Cleared /\ Saved

LEMMA TransactionalStep ==
    ASSUME TypeOK, Staged, Transactional, [Next]_vars PROVE Transactional'
BY OwnStep, PlannedStep, PlacedStep, ClearedStep, SavedStep DEF Transactional

LEMMA PresentIff ==
    ASSUME NEW book \in Books, NEW files, NEW q \in Projects
    PROVE  Present(q, book, files) <=>
             book[q] # NoEntry /\ \E p \in Variants(book[q].name) : files[p] = book[q].file
<1>1. CASE book[q] = NoEntry
      BY <1>1 DEF Present
<1>2. CASE book[q] # NoEntry
  <2> DEFINE n == book[q].name
             f == book[q].file
             on == book[q].on
  <2>1. on \in BOOLEAN
        BY <1>2 DEF Books, Entries
  <2>2. Found(book[q], files) # {} <=> files[<<n, on>>] = f \/ files[<<n, ~on>>] = f
    <3>1. \A x : {x} # {}
          OBVIOUS
    <3> QED BY <3>1, Zenon DEF Found
  <2>3. Variants(n) = {<<n, TRUE>>, <<n, FALSE>>}
    <3>1. ASSUME NEW p \in Variants(n) PROVE p = <<n, TRUE>> \/ p = <<n, FALSE>>
      <4>1. PICK b \in BOOLEAN : p = <<n, b>>
            BY DEF Variants
      <4>2. b = TRUE \/ b = FALSE
            BY Zenon
      <4> QED BY <4>1, <4>2, Zenon
    <3>2. <<n, TRUE>> \in Variants(n) /\ <<n, FALSE>> \in Variants(n)
          BY DEF Variants
    <3> QED BY <3>1, <3>2
  <2> HIDE DEF n, f, on
  <2>4. (on = TRUE /\ (~on) = FALSE) \/ (on = FALSE /\ (~on) = TRUE)
        BY <2>1, Zenon
  <2>5. CASE on = TRUE /\ (~on) = FALSE
        BY <1>2, <2>2, <2>3, <2>5 DEF Present, n, f, on
  <2>6. CASE on = FALSE /\ (~on) = TRUE
        BY <1>2, <2>2, <2>3, <2>6 DEF Present, n, f, on
  <2> QED BY <2>4, <2>5, <2>6
<1> QED BY <1>1, <1>2

LEMMA DestIsVariant == ASSUME NEW r PROVE Dest(r) \in Variants(NameOf[r]) /\ Dest(r)[1] = NameOf[r]
<1>1. (r \notin op.off) \in BOOLEAN
      OBVIOUS
<1> QED BY <1>1, Zenon DEF Dest, Variants

(* What an operation does not take over keeps its files.                   *)
LEMMA StaysPresent ==
    ASSUME TypeOK, Transactional, pc = "commit",
           NEW q \in Projects, op.book[q] = Was(q), Present(q, before.manifest, before.disk),
           op.kind = "install" => q \notin ProjectsOf(op.plan)
    PROVE  Present(q, manifest, disk)
<1>1. before.manifest \in Books /\ manifest \in Books
      BY DEF TypeOK
<1>2. PICK p \in Variants(Was(q).name) : before.disk[p] = Was(q).file
      BY <1>1, PresentIff DEF Was
<1>3. /\ Was(q) # NoEntry /\ manifest[q] = Was(q)
      /\ Was(q).file \in Releases /\ Was(q).file # "none" /\ p \in Paths
  <2>1. Was(q) # NoEntry /\ manifest[q] = Was(q)
        BY <1>1, PresentIff DEF Was, Transactional, Saved
  <2>2. Was(q) \in [name : Names, file : Releases, on : BOOLEAN]
        BY <1>1, <2>1 DEF Was, Books, Entries
  <2> QED BY <2>1, <2>2, ContentAssumption DEF Variants, Paths
<1>4. p \notin Dests
  <2>1. SUFFICES ASSUME NEW r \in op.plan, p = Dest(r) PROVE FALSE
        BY DEF Dests
  <2>2. NameOf[r] = Was(q).name /\ p \in Variants(NameOf[r])
        BY <2>1, DestIsVariant DEF Variants
  <2>3. CASE op.kind = "install"
        BY <1>3, <2>2, <2>3 DEF Transactional, Planned, Going, InstallPlanned
  <2>4. CASE op.kind = "pack"
        BY <1>2, <1>3, <2>2, <2>4 DEF Transactional, Planned, Going, PackPlanned
  <2>5. CASE op.kind = "uninstall"
        BY <2>5 DEF Transactional, Planned, Going, UninstallPlanned
  <2> QED BY <2>3, <2>4, <2>5 DEF Transactional, Planned, Going
<1>5. ~Goes(p)
  <2>1. SUFFICES ASSUME NEW x \in Projects, Was(x) # NoEntry, op.book[x] # Was(x),
                        Was(x).file = before.disk[p]
                 PROVE  FALSE
        BY DEF Goes
  <2>2. x = q
        BY <1>2, <1>3, <2>1 DEF Transactional, OwnFiles, Own, Was
  <2> QED BY <2>1, <2>2
<1>6. disk[p] = before.disk[p]
  <2>1. applied = Dests
        BY DEF Transactional, Placed, Landed
  <2>2. backup[p] = "none"
        BY <1>3, <1>4, <1>5, <2>1 DEF Transactional, Cleared
  <2> QED BY <1>3, <1>4, <2>1, <2>2 DEF Transactional, Placed, Going, Moved
<1> QED BY <1>1, <1>2, <1>3, <1>6, PresentIff

(* What it takes over is in place.                                         *)
LEMMA TakenIsPresent ==
    ASSUME TypeOK, Transactional, pc = "commit", NEW r \in op.plan, NEW q \in Projects,
           op.book[q] = EntryOf(r)
    PROVE  Present(q, manifest, disk)
<1>1. manifest \in Books
      BY DEF TypeOK
<1>2. disk[Dest(r)] = r
      BY DEF Transactional, Placed, Going, Landed, Dests
<1>3. manifest[q] = EntryOf(r) /\ r # "none"
      BY ContentAssumption DEF Transactional, Saved, TypeOK, Ops
<1>4. manifest[q] # NoEntry /\ manifest[q].name = NameOf[r] /\ manifest[q].file = r
      BY <1>3 DEF EntryOf, NoEntry
<1> QED BY <1>1, <1>2, <1>4, PresentIff, DestIsVariant

LEMMA Complete == ASSUME TypeOK, Transactional PROVE CommitIsComplete
<1> SUFFICES ASSUME pc = "commit"
             PROVE  /\ \A r \in op.plan : disk[Dest(r)] = r
                    /\ \A q \in Projects :
                         q \notin ProjectsOf(op.plan) /\ Present(q, before.manifest, before.disk)
                             /\ manifest[q] # NoEntry => Present(q, manifest, disk)
                    /\ \A q \in Projects :
                         LET old == before.manifest[q] IN
                         old # NoEntry /\ manifest[q].name # old.name =>
                             \A p \in Variants(old.name) \ Dests : disk[p] = "none"
    BY DEF CommitIsComplete
<1>1. applied = Dests /\ manifest = op.book /\ op.stale = {}
      BY DEF Transactional, Placed, Landed, Saved
<1>2. ASSUME NEW r \in op.plan PROVE disk[Dest(r)] = r
      BY <1>1 DEF Transactional, Placed, Going, Dests
<1>3. ASSUME NEW q \in Projects, q \notin ProjectsOf(op.plan),
             Present(q, before.manifest, before.disk), manifest[q] # NoEntry
      PROVE  Present(q, manifest, disk)
  <2>1. op.book[q] = Was(q)
    <3>1. CASE op.kind = "uninstall"
          BY <1>1, <1>3, <3>1 DEF Transactional, Planned, Going, UninstallPlanned
    <3>2. CASE op.kind # "uninstall"
          BY <1>3, <3>2 DEF Transactional, Planned, Going, FilesPlanned, ProjectsOf
    <3> QED BY <3>1, <3>2
  <2> QED BY <1>3, <2>1, StaysPresent
<1>4. ASSUME NEW q \in Projects, Was(q) # NoEntry, manifest[q].name # Was(q).name,
             NEW p \in Variants(Was(q).name) \ Dests
      PROVE  disk[p] = "none"
      BY <1>1, <1>4 DEF Transactional, Cleared
<1> QED BY <1>2, <1>3, <1>4 DEF Was

LEMMA Kept == ASSUME TypeOK, Transactional PROVE NeedsKept
<1> SUFFICES ASSUME pc = "commit", NEW q \in Projects, Present(q, manifest, disk),
                    NEW d \in Needs[manifest[q].file], Present(d, before.manifest, before.disk)
             PROVE  Present(d, manifest, disk)
    BY DEF NeedsKept
<1>1. manifest \in Books /\ before.manifest \in Books /\ manifest = op.book
      BY DEF TypeOK, Transactional, Saved
<1>2. manifest[q] # NoEntry /\ manifest[q].file \in Releases
      BY <1>1 DEF Present, Books, Entries
<1>3. d \in Projects
      BY <1>2, ContentAssumption
<1>4. Was(d) # NoEntry
      BY DEF Present, Was
<1>5. CASE op.kind = "uninstall"
  <2>1. op.book[q] = Was(q) /\ op.plan = {} /\ UninstallPlanned
        BY <1>1, <1>2, <1>5 DEF Transactional, Planned, Going, UninstallPlanned
  <2>2. PICK p \in Variants(Was(q).name) : disk[p] = Was(q).file
        BY <1>1, <2>1, PresentIff
  <2>3. p \in Paths /\ disk[p] # "none"
    <3>1. Was(q) \in [name : Names, file : Releases, on : BOOLEAN]
          BY <1>1, <1>2, <2>1 DEF Books, Entries
    <3> QED BY <2>2, <3>1, ContentAssumption DEF Variants, Paths
  <2>4. applied = {}
        BY <2>1 DEF Transactional, Placed, Landed, Dests
  <2>5. before.disk[p] = disk[p]
        BY <2>3, <2>4 DEF Transactional, Placed, Going, Cleared, Moved
  <2>6. Present(q, before.manifest, before.disk)
        BY <1>1, <1>2, <2>1, <2>2, <2>5, PresentIff DEF Was
  <2>7. op.book[d] # NoEntry
        BY <1>1, <1>2, <1>3, <1>4, <2>1, <2>6 DEF UninstallPlanned
  <2>8. op.book[d] = Was(d)
        BY <1>3, <2>1, <2>7 DEF UninstallPlanned
  <2> QED BY <1>3, <1>5, <2>8, StaysPresent
<1>6. CASE op.kind \in {"install", "pack"}
  <2>1. FilesPlanned
        BY <1>6 DEF Transactional, Planned, Going
  <2>2. CASE \E r \in op.plan : op.book[d] = EntryOf(r)
        BY <1>3, <2>2, TakenIsPresent
  <2>3. CASE ~\E r \in op.plan : op.book[d] = EntryOf(r)
    <3>1. op.book[d] = Was(d)
          BY <1>3, <2>1, <2>3 DEF FilesPlanned
    <3>2. op.kind = "install" => d \notin ProjectsOf(op.plan)
          BY <2>3 DEF Transactional, Planned, Going, InstallPlanned, ProjectsOf
    <3> QED BY <1>3, <3>1, <3>2, StaysPresent
  <2> QED BY <2>2, <2>3
<1> QED BY <1>5, <1>6 DEF Transactional, Planned, Going

LEMMA TransactionalAlways == Spec => []Transactional
<1>1. Init => Transactional
  <2>1. ASSUME Init PROVE OwnFiles
        BY <2>1, BlankOwns DEF Init, OwnFiles
  <2>2. ASSUME Init PROVE Planned /\ Placed /\ Cleared /\ Saved
        BY <2>2 DEF Init, Planned, Placed, Cleared, Saved, Going, Landed
  <2> QED BY <2>1, <2>2 DEF Transactional
<1>2. TypeOK /\ Staged /\ Transactional /\ [Next]_vars => Transactional'
      BY TransactionalStep
<1> QED BY <1>1, <1>2, Invariance, PTL DEF Spec

(* An operation that has saved the manifest has put every file of its plan *)
(* in place, has taken no file away from a project it did not concern, and *)
(* has left nothing under a name that an entry gave up, whatever the user  *)
(* did while it was downloading and whatever failed before.                *)
THEOREM CommitsAreComplete == Spec => []CommitIsComplete
<1>1. TypeOK /\ Transactional => CommitIsComplete
      BY Complete
<1> QED BY <1>1, Invariance, TransactionalAlways, PTL

(* No install, pack or uninstall takes away what a remaining file needs.   *)
THEOREM RequirementsKept == Spec => []NeedsKept
<1>1. TypeOK /\ Transactional => NeedsKept
      BY Kept
<1> QED BY <1>1, Invariance, TransactionalAlways, PTL
=============================================================================

--------------------------- MODULE ManagedRuntime ---------------------------
(***************************************************************************)
(* One managed Java runtime (core/minecraft: runtime/; apps/api: the       *)
(* repair before a launch).                                                *)
(*                                                                         *)
(* A launch and the runtime pipeline of a version install ensure the       *)
(* runtime: they take it when it is ready, and otherwise install it under  *)
(* the lock of the component, in a directory beside it that is renamed     *)
(* when it is whole.  Before that, a launch that finds the directory there *)
(* but not ready recreates its ready marker, without the lock.  A task     *)
(* that is aborted or dropped gives the lock back, while an operation it   *)
(* handed to a blocking thread goes on.                                    *)
(*                                                                         *)
(* A directory is the set of what it holds: itself, its markers, the       *)
(* manifest kept as a proof, and the files that match the proof.  A file   *)
(* with another content is a file that is not there.  Roots other than the *)
(* launcher's cache, Rosetta and a second launcher process are left out.   *)
(***************************************************************************)
EXTENDS Naturals

CONSTANTS
    Launches,       \* launch requests
    Pipelines,      \* runtime pipelines of version installs
    Files,          \* the files of the component manifest
    Java,           \* the executable among them
    Nobody,         \* holds the lock when it is free
    MaxMishaps,     \* bound on aborted or dropped tasks and on losses caused from outside
    MaxCrashes      \* bound on restarts of the process

Tasks == Launches \union Pipelines
Marks == {"dir", "installing", "ready", "proof"}

ASSUME RuntimeAssumption ==
    /\ Java \in Files /\ Files \intersect Marks = {}
    /\ Nobody \notin Tasks /\ Launches \intersect Pipelines = {}
    /\ MaxMishaps \in Nat /\ MaxCrashes \in Nat

VARIABLES
    dest,       \* the component's directory, {} when it is absent
    temp,       \* the directory beside it in which it is installed
    at,         \* at[t]: the next step of task t
    todo,       \* the files the holder of the lock has yet to install
    holder,     \* the task that holds the install lock
    late,       \* blocking operations of tasks that are gone
    suppressed, \* the failure memory suppresses the repair
    mishaps, crashes,
    exposed,    \* history: two were changing the directories at a time, or an installing marker could not be removed
    hit         \* history: the tasks whose work failed by itself or was disturbed from outside

disk == <<dest, temp>>
bounds == <<mishaps, crashes>>
vars == <<dest, temp, at, todo, holder, late, suppressed, mishaps, crashes, exposed, hit>>

\* managed_runtime_contents_verified_without_probe, and with the marker a file.
Verified(d) == {"proof"} \union Files \subseteq d
Marked(d) == "ready" \in d /\ Verified(d)

\* detect_runtime_state, for a root that requires the ready marker.
Ready(d) == "installing" \notin d /\ Marked(d)

Installing == {"cleanTemp", "cleanDest", "make", "mark", "proof", "files", "unmark", "seal",
               "place", "confirm", "undo"}
Repairing == {"check", "strip", "write", "recheck"}
\* A game has the runtime; an attempt failed; done, blocked, aborted or exited.
Over == {"using", "failed", "ended"}

Goes(t, step) == at' = [at EXCEPT ![t] = step]

Changes(step) == step \in Installing \union Repairing

\* A task changes the directories together with another one or with what one left behind.
Crowded(steps) ==
    \E s \in Tasks : /\ Changes(steps[s])
                     /\ late # {} \/ \E t \in Tasks \ {s} : Changes(steps[t])
Overlap == exposed' = (exposed \/ Crowded(at'))

-----------------------------------------------------------------------------
(* The preflight of a launch and its repair.                               *)

\* prepare_launch_session up to the repair: the guardian repairs in Managed mode only.
Preflight(l) ==
    /\ at[l] = "idle"
    /\ \/ Goes(l, "ensure")
       \/ /\ dest # {} /\ ~Marked(dest)
          /\ Goes(l, IF suppressed THEN "ended" ELSE "check")
    /\ UNCHANGED <<disk, todo, holder, late, suppressed, bounds, hit>>
    /\ Overlap

\* A repair that failed blocks the launch; its outcome suppresses the next one.
Blocks(l) == Goes(l, "ended") /\ suppressed' = TRUE

\* repair_managed_runtime verifies the content ...
RepairCheck(l) ==
    /\ at[l] = "check"
    /\ IF Verified(dest) THEN Goes(l, "strip") /\ UNCHANGED suppressed ELSE Blocks(l)
    /\ UNCHANGED <<disk, todo, holder, late, bounds, exposed, hit>>

\* ... removes the marker that is there (recreate_ready_marker) ...
RepairStrip(l) ==
    /\ at[l] = "strip"
    /\ \/ dest' = (dest \union {"dir"}) \ {"ready"} /\ Goes(l, "write") /\ UNCHANGED suppressed
       \/ UNCHANGED dest /\ Blocks(l)
    /\ UNCHANGED <<temp, todo, holder, late, bounds, exposed, hit>>

\* ... writes it again ...
RepairWrite(l) ==
    /\ at[l] = "write"
    /\ \/ /\ "dir" \in dest
          /\ dest' = dest \union {"ready"}
          /\ Goes(l, "recheck") /\ UNCHANGED suppressed
       \/ UNCHANGED dest /\ Blocks(l)
    /\ UNCHANGED <<temp, todo, holder, late, bounds, exposed, hit>>

\* ... and verifies the whole.
RepairRecheck(l) ==
    /\ at[l] = "recheck"
    /\ suppressed' = TRUE
    /\ Goes(l, IF Marked(dest) THEN "ensure" ELSE "ended")
    /\ UNCHANGED <<disk, todo, holder, late, bounds, exposed, hit>>

SuppressionEnds ==
    /\ suppressed
    /\ suppressed' = FALSE
    /\ UNCHANGED <<disk, at, todo, holder, late, bounds, exposed, hit>>

-----------------------------------------------------------------------------
(* Ensuring the runtime (ensure_managed_runtime_with_events).              *)

\* The pipeline of an install is spawned.
Spawn(p) ==
    /\ at[p] = "idle"
    /\ Goes(p, "ensure")
    /\ UNCHANGED <<disk, todo, holder, late, suppressed, bounds, exposed, hit>>

Got(t) == IF t \in Launches THEN "using" ELSE "ended"

\* The first look, without the lock.
Ensure(t) ==
    /\ at[t] = "ensure"
    /\ Goes(t, IF Ready(dest) THEN Got(t) ELSE "wait")
    /\ UNCHANGED <<disk, todo, holder, late, suppressed, bounds, exposed, hit>>

\* Mutant of Settled: no second look under the lock.
Settled_Never == FALSE

\* The second look.
Settled == Ready(dest)

\* The lock of the component, in the process and on its file.
Lock(t) ==
    /\ at[t] = "wait"
    /\ holder = Nobody
    /\ IF Settled THEN Goes(t, Got(t)) /\ UNCHANGED holder
                  ELSE Goes(t, "cleanTemp") /\ holder' = t
    /\ UNCHANGED <<disk, todo, late, suppressed, bounds, hit>>
    /\ Overlap

-----------------------------------------------------------------------------
(* The installation, under the lock.  Each operation on the disk runs on a *)
(* blocking thread, for the task that waits for it or for one that is gone. *)

\* remove_dir_all, entry by entry.
RemoveEntry(o) ==
    \/ o = "cleanDest" /\ (\E e \in dest \ {"dir"} : dest' = dest \ {e}) /\ UNCHANGED temp
    \/ o = "cleanTemp" /\ (\E e \in temp \ {"dir"} : temp' = temp \ {e}) /\ UNCHANGED dest

Emptied(d) == d \subseteq {"dir"}

\* What operation o does on the disk when it succeeds.
Does(o) ==
    CASE o = "cleanTemp" -> Emptied(temp) /\ temp' = {} /\ UNCHANGED dest
      [] o = "cleanDest" -> Emptied(dest) /\ dest' = {} /\ UNCHANGED temp
      [] o = "make"      -> temp' = temp \union {"dir"} /\ UNCHANGED dest
      [] o = "mark"      -> "dir" \in temp /\ temp' = temp \union {"installing"} /\ UNCHANGED dest
      [] o = "proof"     -> "dir" \in temp /\ temp' = temp \union {"proof"} /\ UNCHANGED dest
      [] o = "unmark"    -> temp' = temp \ {"installing"} /\ UNCHANGED dest
      [] o = "seal"      -> "dir" \in temp /\ temp' = temp \union {"ready"} /\ UNCHANGED dest
      [] o = "place"     -> /\ "dir" \in temp /\ Emptied(dest)
                            /\ dest' = temp /\ temp' = {}
      [] o = "files"     -> /\ "dir" \in temp /\ UNCHANGED dest
                            /\ \E f \in Files : temp' = temp \union {f}

\* Mutant of After: the component's directory is not cleaned up first.
After_KeepsOld == [cleanTemp |-> "make", cleanDest |-> "make", make |-> "mark", mark |-> "proof",
          proof |-> "files", unmark |-> "seal", seal |-> "place", place |-> "confirm"]

\* The step after each operation.
After == [cleanTemp |-> "cleanDest", cleanDest |-> "make", make |-> "mark", mark |-> "proof",
          proof |-> "files", unmark |-> "seal", seal |-> "place", place |-> "confirm"]
Operations == DOMAIN After

Operate(t) ==
    /\ at[t] \in Operations
    /\ \/ Does(at[t]) /\ Goes(t, After[at[t]])
       \/ RemoveEntry(at[t]) /\ UNCHANGED at
    /\ todo' = IF at[t] = "proof" THEN Files ELSE todo
    /\ UNCHANGED <<holder, late, suppressed, bounds, exposed, hit>>

\* install_runtime_manifest_files: each file is downloaded, verified and renamed; its
\* directories are created with it.
InstallFile(t) ==
    /\ at[t] = "files"
    /\ \E f \in todo : temp' = temp \union {"dir", f} /\ todo' = todo \ {f}
    /\ UNCHANGED <<dest, at, holder, late, suppressed, bounds, exposed, hit>>

FilesInstalled(t) ==
    /\ at[t] = "files"
    /\ todo = {}
    /\ Goes(t, IF Java \in temp THEN "unmark" ELSE "undo")
    /\ UNCHANGED <<disk, todo, holder, late, suppressed, bounds, exposed, hit>>

\* Where an error leads: to the removal of the work once a marker was written, and to the
\* next step when it is ignored.
Errs(t) ==
    \/ at[t] \in {"cleanTemp", "cleanDest", "make", "mark"} /\ Goes(t, "failed") /\ holder' = Nobody
    \/ at[t] \in {"proof", "files", "seal", "place"} /\ Goes(t, "undo") /\ UNCHANGED holder
    \/ at[t] = "unmark" /\ Goes(t, "seal") /\ UNCHANGED holder

\* An operation cannot work on the directories as they are.
Refused(t) ==
    \/ at[t] \in {"mark", "proof", "seal", "place"} /\ "dir" \notin temp
    \/ at[t] = "place" /\ ~Emptied(dest)

Stumble(t) ==
    /\ Refused(t)
    /\ Errs(t)
    /\ UNCHANGED <<disk, todo, late, suppressed, bounds, exposed, hit>>

\* The network or the disk fails.
Fail(t) ==
    /\ Errs(t)
    /\ hit' = hit \union {t}
    /\ exposed' = (exposed \/ at[t] = "unmark")
    /\ UNCHANGED <<disk, todo, late, suppressed, bounds>>

\* The failed installation's directory is removed, or some of it.
Undo(t) ==
    /\ at[t] = "undo"
    /\ temp' \in {{}, temp}
    /\ Goes(t, "failed")
    /\ holder' = Nobody
    /\ UNCHANGED <<dest, todo, late, suppressed, bounds, exposed, hit>>

\* The runtime is resolved once more and the lock given back.
Confirm(t) ==
    /\ at[t] = "confirm"
    /\ Goes(t, IF Ready(dest) THEN Got(t) ELSE "failed")
    /\ holder' = Nobody
    /\ UNCHANGED <<disk, todo, late, suppressed, bounds, exposed, hit>>

-----------------------------------------------------------------------------
(* The surroundings.                                                       *)

\* An artifact of the install failed and its runtime task is aborted
\* (finish_runtime_pipeline_after_artifacts), or a request that runs its launch is
\* dropped.  The blocking operation may have begun.
Abort(t) ==
    /\ mishaps < MaxMishaps
    /\ at[t] \in Installing \union {"wait"}
    /\ mishaps' = mishaps + 1
    /\ Goes(t, "ended")
    /\ holder' = IF holder = t THEN Nobody ELSE holder
    /\ \/ UNCHANGED late
       \/ at[t] \in Operations \union {"files"} /\ late' = late \union {at[t]}
       \/ at[t] = "undo" /\ late' = late \union {"cleanTemp"}
    /\ UNCHANGED <<disk, todo, suppressed, crashes, exposed, hit>>

\* The rest of an operation whose task is gone, with or without success.
Late(o) ==
    /\ o \in late
    /\ \/ Does(o) /\ late' = late \ {o}
       \/ RemoveEntry(o) /\ UNCHANGED late
       \/ UNCHANGED disk /\ late' = late \ {o}
    /\ hit' = hit \union {t \in Tasks : at[t] \in Installing}
    /\ UNCHANGED <<at, todo, holder, suppressed, bounds, exposed>>

\* Something outside the launcher takes an entry of the runtime away.
Damage ==
    /\ mishaps < MaxMishaps
    /\ mishaps' = mishaps + 1
    /\ \E e \in dest \ {"dir"} : dest' = dest \ {e}
    /\ hit' = hit \union {t \in Tasks : at[t] \in Installing \union {"using"}}
    /\ UNCHANGED <<temp, at, todo, holder, late, suppressed, crashes, exposed>>

GameEnds(l) ==
    /\ at[l] = "using"
    /\ Goes(l, "ended")
    /\ UNCHANGED <<disk, todo, holder, late, suppressed, bounds, exposed, hit>>

\* Mutant of Unlocked: a lock that outlives its process.
Unlocked_Stale == holder

\* The file lock goes with the process.
Unlocked == Nobody

\* The process dies and is started again; its requests are made anew.
Crash ==
    /\ crashes < MaxCrashes
    /\ crashes' = crashes + 1
    /\ at' = [t \in Tasks |-> "idle"]
    /\ holder' = Unlocked
    /\ late' = {}
    /\ hit' = {}
    /\ UNCHANGED <<disk, todo, suppressed, mishaps, exposed>>

-----------------------------------------------------------------------------
Init ==
    /\ dest = {} /\ temp = {}
    /\ at = [t \in Tasks |-> "idle"]
    /\ todo = {} /\ holder = Nobody /\ late = {}
    /\ suppressed = FALSE
    /\ mishaps = 0 /\ crashes = 0
    /\ exposed = FALSE /\ hit = {}

Repair(l) == RepairCheck(l) \/ RepairStrip(l) \/ RepairWrite(l) \/ RepairRecheck(l)
Install(t) ==
    Operate(t) \/ InstallFile(t) \/ FilesInstalled(t) \/ Stumble(t) \/ Undo(t) \/ Confirm(t)

Next ==
    \/ \E l \in Launches : Preflight(l) \/ Repair(l) \/ GameEnds(l)
    \/ \E p \in Pipelines : Spawn(p)
    \/ \E t \in Tasks : Ensure(t) \/ Lock(t) \/ Install(t) \/ Fail(t) \/ Abort(t)
    \/ \E o \in Operations \union {"files"} : Late(o)
    \/ SuppressionEnds \/ Damage \/ Crash

Spec == Init /\ [][Next]_vars

\* The runtime polls its tasks and gives each request for the lock its turn; downloads
\* have connect and read timeouts.
FairSpec ==
    /\ Spec
    /\ \A l \in Launches : WF_vars(Repair(l))
    /\ \A t \in Tasks : WF_vars(Ensure(t) \/ Lock(t) \/ Install(t))

-----------------------------------------------------------------------------
(* Properties.                                                             *)

TypeOK ==
    /\ dest \subseteq Marks \union Files /\ temp \subseteq Marks \union Files
    /\ at \in [Tasks -> Installing \union Repairing \union Over \union {"idle", "ensure", "wait"}]
    /\ todo \subseteq Files /\ holder \in Tasks \union {Nobody}
    /\ late \subseteq Operations \union {"files"}
    /\ suppressed \in BOOLEAN /\ exposed \in BOOLEAN
    /\ mishaps \in Nat /\ crashes \in Nat
    /\ hit \subseteq Tasks

\* Until the directory is exposed (two tasks changed it at a time: two installers after
\* an abort, or the repair of a marker beside an installer or another repair; or an
\* installing marker could not be removed), a game keeps the runtime its launch resolved
\* without the lock, unless something outside damaged it: no installation that began
\* earlier or begins later removes it, and no operation of an aborted one.  Once exposed,
\* the code does lose a runtime beneath a game.
RuntimeKept ==
    ~exposed => \A l \in Launches : at[l] = "using" /\ l \notin hit => Verified(dest)

\* Until the directory is exposed, the next installation cleans up whatever a crash, an
\* aborted task, a failed attempt or damage has left on the disk: it fails only by an
\* error of its own.  Once exposed, an installer's rename may meet the directory that the
\* repair of a marker has recreated under it, and fail.
LeftoversHarmless ==
    ~exposed => \A t \in Tasks : at[t] = "failed" => t \in hit

\* Every request for the runtime gets an answer, also after the task that had the lock
\* was aborted or died with its process.
EveryRequestEnds ==
    \A t \in Tasks :
        at[t] \in Installing \union Repairing \union {"ensure", "wait"} ~>
            at[t] \in Over \union {"idle"}

=============================================================================

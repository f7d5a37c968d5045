----------------------------- MODULE UpdateFlow -----------------------------
(***************************************************************************)
(* The in-app update (apps/api: application/update, state/updater.rs).     *)
(*                                                                         *)
(* A request looks the newest release up and begins a download, whose      *)
(* spawned task stages the release's executable in a directory that is     *)
(* emptied before and after it.  Another request applies what is staged:   *)
(* it counts the installs and the sessions, enters the applying phase and  *)
(* replaces the executable on a blocking thread, which goes on when the    *)
(* client disconnects and the handler is dropped.  The flow lives in       *)
(* memory; a start of the process begins with an idle flow and empties the *)
(* directory in the background.                                            *)
(*                                                                         *)
(* Releases are numbered in the order of their semantic versions.  A file  *)
(* is part of what it should be or the whole of it, for an archive what    *)
(* the checksum file of its release describes.  Byte counts and messages   *)
(* are left out.                                                           *)
(***************************************************************************)
EXTENDS Naturals

CONSTANTS
    Newest,         \* releases are 1..Newest
    Handlers,       \* requests that are served at a time
    MaxDownloads,   \* bound on the downloads begun
    MaxStarts       \* bound on the restarts

ASSUME UpdateAssumption ==
    Newest \in Nat \ {0} /\ MaxDownloads \in Nat /\ MaxStarts \in Nat

VARIABLES
    phase,      \* UpdateFlowSnapshot.phase
    version,    \* UpdateFlowSnapshot.version, 0 when there is none
    epoch,      \* UpdaterInner.download_epoch; a restart, which ends every task, keeps it here
    task,       \* task[e]: the spawned task of download e, its version and its hash
    dir,        \* the staging directory: whether it exists, and its files
    request,    \* request[h]: where the handler is, and the release it found
    replacer,   \* replacer[h]: the blocking thread of h's application
    latest,     \* the newest release that GitHub shows
    running,    \* the version of the running process
    exe,        \* the executable on disk: version and content
    work,       \* the installs and the game sessions that are active
    cleanup,    \* the start has yet to empty the staging directory
    starts,     \* the restarts
    swept,      \* history: the start emptied the directory under a download
    abandoned   \* history: a handler was dropped while its replacement ran

flow == <<phase, version, epoch>>
machine == <<latest, running, work, starts>>
vars == <<phase, version, epoch, task, dir, request, replacer, latest, running, exe, work, cleanup,
          starts, swept, abandoned>>

Releases == 1..Newest
Downloads == 1..MaxDownloads
Phases == {"idle", "downloading", "ready", "applying", "restartPending", "failed"}

Paths == {"archive", "binary"} \X Releases
Contents == {"none", "part", "whole"}
Absent == [made |-> FALSE, files |-> [p \in Paths |-> "none"]]

TaskSteps == {"none", "clear", "make", "checksum", "create", "stream", "verify", "extract", "copy",
              "tidy", "mark", "undo", "fail"}
NoTask == [at |-> "none", v |-> 1, hash |-> "wrong"]   \* v means nothing here
RequestSteps == {"none", "found", "installs", "sessions", "begin", "join", "sweep"}
NoRequest == [at |-> "none", v |-> 1]

At(e, step) == task[e].at = step
Goes(e, step) == task' = [task EXCEPT ![e].at = step]
Serves(h, step) == request[h].at = step
Moves(h, step) == request' = [request EXCEPT ![h].at = step]
Answers(h) == request' = [request EXCEPT ![h] = NoRequest]

\* remove_dir_all, whose errors are ignored: it removes all or some of it.
Removed(d) == {Absent} \union
              {[d EXCEPT !.files = f] :
                 f \in {f \in [Paths -> Contents] : \A p \in Paths : f[p] \in {"none", d.files[p]}}}

\* A write to an open file: its name may be gone.
Fill(path, content) ==
    dir' = IF dir.files[path] = "none" THEN dir ELSE [dir EXCEPT !.files[path] = content]

-----------------------------------------------------------------------------
(* The request for a download (start_update_download).                     *)

\* Mutant of Offered: any other release is offered, the older ones included.
Offered_Other == latest # running

Offered == latest > running

Look(h) ==
    /\ Serves(h, "none")
    /\ Offered
    /\ request' = [request EXCEPT ![h] = [at |-> "found", v |-> latest]]
    /\ UNCHANGED <<flow, machine, task, dir, replacer, exe, cleanup, swept, abandoned>>

\* Mutant of Free: the executable is copied while a new download rewrites its source.
Free_Applying == phase \in {"idle", "ready", "failed", "applying"}

Free == phase \in {"idle", "ready", "failed"}

\* begin_download and the spawn of the task.
BeginDownload(h) ==
    /\ Serves(h, "found")
    /\ epoch < MaxDownloads
    /\ Free
    /\ epoch' = epoch + 1
    /\ phase' = "downloading"
    /\ version' = request[h].v
    /\ task' = [task EXCEPT ![epoch'] = [at |-> "clear", v |-> request[h].v, hash |-> "wrong"]]
    /\ swept' = FALSE
    /\ Answers(h)
    /\ UNCHANGED <<machine, dir, replacer, exe, cleanup, abandoned>>

RefuseDownload(h) ==
    /\ Serves(h, "found")
    /\ ~Free
    /\ Answers(h)
    /\ UNCHANGED <<flow, machine, task, dir, replacer, exe, cleanup, swept, abandoned>>

-----------------------------------------------------------------------------
(* The task of a download (run_update_download, download_and_stage).       *)

Staging == <<flow, machine, request, replacer, exe, cleanup, swept, abandoned>>

Clear(e) ==
    /\ At(e, "clear")
    /\ dir' \in Removed(dir)
    /\ Goes(e, "make")
    /\ UNCHANGED Staging

Make(e) ==
    /\ At(e, "make")
    /\ \/ dir' = [dir EXCEPT !.made = TRUE] /\ Goes(e, "checksum")
       \/ UNCHANGED dir /\ Goes(e, "undo")
    /\ UNCHANGED Staging

FetchChecksum(e) ==
    /\ At(e, "checksum")
    /\ \E next \in {"create", "undo"} : Goes(e, next)
    /\ UNCHANGED <<Staging, dir>>

\* The asset is requested and its file created.
CreateArchive(e) ==
    /\ At(e, "create")
    /\ \/ dir.made /\ dir' = [dir EXCEPT !.files[<<"archive", task[e].v>>] = "part"]
          /\ Goes(e, "stream")
       \/ UNCHANGED dir /\ Goes(e, "undo")
    /\ UNCHANGED Staging

\* All bytes of the asset, the right ones or others, or an error.
Stream(e) ==
    /\ At(e, "stream")
    /\ \/ /\ Fill(<<"archive", task[e].v>>, "whole")
          /\ task' = [task EXCEPT ![e] = [at |-> "verify", v |-> @.v, hash |-> "right"]]
       \/ UNCHANGED dir /\ \E next \in {"verify", "undo"} : Goes(e, next)
    /\ UNCHANGED Staging

\* Mutant of Verified: the checksum is not compared.
Verified_Unchecked(e) == TRUE

Verified(e) == task[e].hash = "right"

Verify(e) ==
    /\ At(e, "verify")
    /\ Goes(e, IF Verified(e) THEN "extract" ELSE "undo")
    /\ UNCHANGED <<Staging, dir>>

Extract(e) ==
    /\ At(e, "extract")
    /\ \/ /\ dir.made /\ dir.files[<<"archive", task[e].v>>] # "none"
          /\ dir' = [dir EXCEPT !.files[<<"binary", task[e].v>>] = "part"]
          /\ Goes(e, "copy")
       \/ UNCHANGED dir /\ Goes(e, "undo")
    /\ UNCHANGED Staging

\* What is unpacked is what was streamed.
Copy(e) ==
    /\ At(e, "copy")
    /\ \/ /\ Fill(<<"binary", task[e].v>>, IF task[e].hash = "right" THEN "whole" ELSE "part")
          /\ Goes(e, "tidy")
       \/ UNCHANGED dir /\ Goes(e, "undo")
    /\ UNCHANGED Staging

Tidy(e) ==
    /\ At(e, "tidy")
    /\ \/ dir' = [dir EXCEPT !.files[<<"archive", task[e].v>>] = "none"]
       \/ UNCHANGED dir
    /\ Goes(e, "mark")
    /\ UNCHANGED Staging

\* An update of the flow by a download that is not the current one is ignored.
Current(e) == epoch = e /\ phase = "downloading"

MarkReady(e) ==
    /\ At(e, "mark")
    /\ phase' = IF Current(e) THEN "ready" ELSE phase
    /\ task' = [task EXCEPT ![e] = NoTask]
    /\ UNCHANGED <<version, epoch, machine, dir, request, replacer, exe, cleanup, swept,
                   abandoned>>

\* Mutant of Undo: the failure is shown before the directory is emptied.
Undo_Shown(e) ==
    /\ At(e, "undo")
    /\ IF Current(e) THEN phase' = "failed" /\ UNCHANGED <<dir, task>>
       ELSE dir' \in Removed(dir) /\ Goes(e, "fail") /\ UNCHANGED phase
    /\ UNCHANGED <<version, epoch, machine, request, replacer, exe, cleanup, swept,
                   abandoned>>

Undo(e) ==
    /\ At(e, "undo")
    /\ dir' \in Removed(dir)
    /\ Goes(e, "fail")
    /\ UNCHANGED Staging

MarkFailed(e) ==
    /\ At(e, "fail")
    /\ phase' = IF Current(e) THEN "failed" ELSE phase
    /\ task' = [task EXCEPT ![e] = NoTask]
    /\ UNCHANGED <<version, epoch, machine, dir, request, replacer, exe, cleanup, swept,
                   abandoned>>

Download(e) ==
    \/ Clear(e) \/ Make(e) \/ FetchChecksum(e) \/ CreateArchive(e) \/ Stream(e) \/ Verify(e)
    \/ Extract(e) \/ Copy(e) \/ Tidy(e) \/ MarkReady(e) \/ Undo(e) \/ MarkFailed(e)

-----------------------------------------------------------------------------
(* The request to apply what is staged (apply_staged_update).              *)

Applying == <<version, epoch, machine, task, dir, exe, cleanup, swept>>
Waiting == <<phase, replacer, Applying, abandoned>>

RequestApply(h) ==
    /\ Serves(h, "none")
    /\ Moves(h, "installs")
    /\ UNCHANGED Waiting

\* The two counts are awaited, one after the other.
CountInstalls(h) ==
    /\ Serves(h, "installs")
    /\ IF "install" \in work THEN Answers(h) ELSE Moves(h, "sessions")
    /\ UNCHANGED Waiting

CountSessions(h) ==
    /\ Serves(h, "sessions")
    /\ IF "game" \in work THEN Answers(h) ELSE Moves(h, "begin")
    /\ UNCHANGED Waiting

\* begin_apply, and the blocking thread is started.
BeginApply(h) ==
    /\ Serves(h, "begin")
    /\ IF phase = "ready"
       THEN /\ phase' = "applying"
            /\ replacer' = [replacer EXCEPT ![h] = "runs"]
            /\ Moves(h, "join")
       ELSE Answers(h) /\ UNCHANGED <<phase, replacer>>
    /\ UNCHANGED <<Applying, abandoned>>

\* self_replace copies the staged file beside the executable and renames it.  Nobody
\* hears of the end of a thread whose handler was dropped.
Heard(h, result) == replacer' = [replacer EXCEPT ![h] = IF Serves(h, "join") THEN result ELSE "none"]

Replace(h) ==
    /\ replacer[h] = "runs"
    /\ \/ /\ dir.files[<<"binary", version>>] # "none"
          /\ exe' = [v |-> version, content |-> dir.files[<<"binary", version>>]]
          /\ Heard(h, "ok")
       \/ UNCHANGED exe /\ Heard(h, "error")
    /\ UNCHANGED <<flow, machine, task, dir, request, cleanup, swept, abandoned>>

\* Mutant of AfterReplace: an error is answered and leaves the flow in its phase.
AfterReplace_Silent(h) == IF replacer[h] = "ok" THEN "restartPending" ELSE phase

\* mark_restart_pending, mark_apply_failed.
AfterReplace(h) ==
    IF phase # "applying" THEN phase
    ELSE IF replacer[h] = "ok" THEN "restartPending" ELSE "failed"

Joined(h) ==
    /\ Serves(h, "join")
    /\ replacer[h] \in {"ok", "error"}
    /\ phase' = AfterReplace(h)
    /\ replacer' = [replacer EXCEPT ![h] = "none"]
    /\ IF replacer[h] = "ok" THEN Moves(h, "sweep") ELSE Answers(h)
    /\ UNCHANGED <<Applying, abandoned>>

Sweep(h) ==
    /\ Serves(h, "sweep")
    /\ dir' \in Removed(dir)
    /\ Answers(h)
    /\ UNCHANGED <<flow, machine, task, replacer, exe, cleanup, swept, abandoned>>

Apply(h) ==
    CountInstalls(h) \/ CountSessions(h) \/ BeginApply(h) \/ Joined(h) \/ Sweep(h)

\* The client has gone and the handler is dropped where it awaits.
Disconnect(h) ==
    /\ request[h].at \in {"installs", "sessions", "join", "sweep"}
    /\ abandoned' = (abandoned \/ Serves(h, "join"))
    /\ replacer' = [replacer EXCEPT ![h] = IF @ = "runs" THEN @ ELSE "none"]
    /\ Answers(h)
    /\ UNCHANGED <<phase, Applying>>

-----------------------------------------------------------------------------
(* Everything else.                                                        *)

\* A release is published or withdrawn.
Publish ==
    /\ latest' \in Releases
    /\ UNCHANGED <<flow, running, work, starts, task, dir, request, replacer, exe, cleanup, swept, abandoned>>

WorkStarts(k) ==
    /\ k \notin work
    /\ work' = work \union {k}
    /\ UNCHANGED <<flow, latest, running, starts, task, dir, request, replacer, exe, cleanup, swept, abandoned>>

WorkEnds(k) ==
    /\ k \in work
    /\ work' = work \ {k}
    /\ UNCHANGED <<flow, latest, running, starts, task, dir, request, replacer, exe, cleanup, swept, abandoned>>

\* spawn_update_staging_cleanup: nothing waits for it.
Cleanup ==
    /\ cleanup
    /\ cleanup' = FALSE
    /\ dir' \in Removed(dir)
    /\ swept' = (swept \/ phase \in {"downloading", "ready", "applying"})
    /\ UNCHANGED <<flow, machine, task, request, replacer, exe, abandoned>>

\* The process ends, in whatever it is doing, and is started again.
Restart ==
    /\ starts < MaxStarts
    /\ starts' = starts + 1
    /\ phase' = "idle" /\ version' = 0
    /\ running' = exe.v
    /\ task' = [e \in Downloads |-> NoTask]
    /\ request' = [h \in Handlers |-> NoRequest]
    /\ replacer' = [h \in Handlers |-> "none"]
    /\ work' = {}
    /\ cleanup' = TRUE /\ swept' = FALSE /\ abandoned' = FALSE
    /\ UNCHANGED <<epoch, latest, dir, exe>>

Init ==
    /\ phase = "idle" /\ version = 0 /\ epoch = 0
    /\ task = [e \in Downloads |-> NoTask]
    /\ dir = Absent
    /\ request = [h \in Handlers |-> NoRequest]
    /\ replacer = [h \in Handlers |-> "none"]
    /\ latest = 1 /\ running = 1
    /\ exe = [v |-> 1, content |-> "whole"]
    /\ work = {}
    /\ cleanup = TRUE
    /\ starts = 0
    /\ swept = FALSE /\ abandoned = FALSE

Next ==
    \/ \E e \in Downloads : Download(e)
    \/ \E h \in Handlers :
          \/ Look(h) \/ BeginDownload(h) \/ RefuseDownload(h)
          \/ RequestApply(h) \/ Apply(h) \/ Replace(h) \/ Disconnect(h)
    \/ \E k \in {"install", "game"} : WorkStarts(k) \/ WorkEnds(k)
    \/ Publish \/ Cleanup \/ Restart

Spec == Init /\ [][Next]_vars

\* Tasks are polled, requests to the network have timeouts and copying a file ends.
FairSpec ==
    /\ Spec
    /\ \A e \in Downloads : WF_vars(Download(e))
    /\ \A h \in Handlers : WF_vars(Apply(h)) /\ WF_vars(Replace(h))

-----------------------------------------------------------------------------
(* Properties.                                                             *)

TypeOK ==
    /\ phase \in Phases /\ version \in Releases \union {0} /\ epoch \in 0..MaxDownloads
    /\ task \in [Downloads -> [at : TaskSteps, v : Releases, hash : {"right", "wrong"}]]
    /\ dir \in [made : BOOLEAN, files : [Paths -> Contents]]
    /\ request \in [Handlers -> [at : RequestSteps, v : Releases]]
    /\ replacer \in [Handlers -> {"none", "runs", "ok", "error"}]
    /\ latest \in Releases /\ running \in Releases
    /\ exe \in [v : Releases, content : Contents]
    /\ work \subseteq {"install", "game"}
    /\ cleanup \in BOOLEAN /\ starts \in 0..MaxStarts
    /\ swept \in BOOLEAN /\ abandoned \in BOOLEAN

\* What is shown as ready is there: no other task, late cleanup of a failed download or
\* dropped handler takes the staged executable away or rewrites it.  Only the cleanup of
\* the start may, which nothing orders before the first download.
ReadyIsWhole ==
    phase \in {"ready", "applying"} /\ ~swept => dir.files[<<"binary", version>>] = "whole"

\* The executable is only replaced by the whole, verified one of the release that the
\* flow shows, whatever happens to the staging directory meanwhile.
InstalledIsVerified ==
    [][exe' # exe => exe' = [v |-> version, content |-> "whole"]]_vars

\* An update never takes the launcher back to an older release, also when releases are
\* withdrawn and when it was already updated and not restarted.
UpdatesForward == [][exe' # exe => exe'.v > exe.v]_vars

\* A download and an application come to an end that the flow shows, so that the user
\* can try again; unless the client of the application disconnects: its handler alone
\* could say how the replacement ended.
FlowSettles ==
    phase \in {"downloading", "applying"} ~> phase \notin {"downloading", "applying"} \/ abandoned

=============================================================================

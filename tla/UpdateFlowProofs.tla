-------------------------- MODULE UpdateFlowProofs --------------------------
(***************************************************************************)
(* Theorems about UpdateFlow: what is shown as ready is staged and whole,  *)
(* and the executable is only replaced by it and only by a newer release,  *)
(* for any releases, requests, downloads and restarts.                     *)
(*                                                                         *)
(* The argument: a task that has not ended belongs to the epoch of a flow  *)
(* that is downloading, so that nobody else writes the directory; a        *)
(* replacement that has not ended keeps the flow in its applying phase,    *)
(* and there is one; the staged binary comes from a stream whose checksum  *)
(* was right.                                                              *)
(***************************************************************************)
EXTENDS UpdateFlow, TLAPS

Binary(v) == dir.files[<<"binary", v>>]
Busy(h) == Serves(h, "join") \/ replacer[h] = "runs"

\* A task that has not ended is the current one.
TaskCurrent ==
    \A e \in Downloads : ~At(e, "none") =>
        phase = "downloading" /\ epoch = e /\ version = task[e].v /\ version \in Releases

\* What the task has staged so far; the start may have taken it away.
StagedBy(e) ==
        /\ task[e].at \in {"extract", "copy", "tidy", "mark"} => task[e].hash = "right"
        /\ At(e, "copy") => Binary(task[e].v) # "whole" /\ (~swept => Binary(task[e].v) = "part")
        /\ task[e].at \in {"tidy", "mark"} =>
              Binary(task[e].v) # "part" /\ (~swept => Binary(task[e].v) = "whole")
TaskStages == \A e \in Downloads : StagedBy(e)

ReadyStaged ==
    phase \in {"ready", "applying"} =>
        /\ version \in Releases
        /\ Binary(version) # "part"
        /\ ~swept => Binary(version) = "whole"

\* A handler that waits, or a thread that works, keeps the flow in its phase.
OneReplacer ==
    /\ \A h \in Handlers : Busy(h) => phase = "applying"
    /\ \A h, k \in Handlers : Busy(h) /\ Busy(k) => h = k
    /\ \A h \in Handlers : replacer[h] \in {"ok", "error"} => Serves(h, "join")
    /\ \A h \in Handlers : Serves(h, "sweep") => phase = "restartPending"

\* The process is what is on disk until its executable is replaced.
RunningOnDisk ==
    /\ phase \notin {"applying", "restartPending"} => exe.v = running
    /\ \A h \in Handlers : replacer[h] \in {"runs", "error"} => exe.v = running

\* What is downloaded was newer than the running process.
OnlyNewer ==
    /\ phase \in {"downloading", "ready", "applying"} => version > running
    /\ \A h \in Handlers : Serves(h, "found") => request[h].v > running

IInv == TypeOK /\ TaskCurrent /\ TaskStages /\ ReadyStaged /\ OneReplacer /\ RunningOnDisk /\ OnlyNewer

-----------------------------------------------------------------------------
(* Facts about the directory and the types.                                *)

\* Removing leaves of every file what it was, or nothing.
LEMMA RemovedFiles ==
    ASSUME dir \in [made : BOOLEAN, files : [Paths -> Contents]], dir' \in Removed(dir)
    PROVE  /\ dir' \in [made : BOOLEAN, files : [Paths -> Contents]]
           /\ \A p \in Paths : dir'.files[p] \in {"none", dir.files[p]}
<1>1. CASE dir' = Absent
  BY <1>1 DEF Absent, Contents
<1>2. CASE \E f \in [Paths -> Contents] :
             (\A p \in Paths : f[p] \in {"none", dir.files[p]}) /\ dir' = [dir EXCEPT !.files = f]
  BY <1>2
<1> QED BY <1>1, <1>2 DEF Removed

\* Writing one file leaves the others; a file without a name stays without one.
LEMMA FilledFiles ==
    ASSUME dir \in [made : BOOLEAN, files : [Paths -> Contents]],
           NEW q \in Paths, NEW c \in Contents, Fill(q, c)
    PROVE  /\ dir' \in [made : BOOLEAN, files : [Paths -> Contents]]
           /\ dir'.files[q] = IF dir.files[q] = "none" THEN "none" ELSE c
           /\ \A p \in Paths : p # q => dir'.files[p] = dir.files[p]
<1>1. CASE dir.files[q] = "none"
  BY <1>1 DEF Fill
<1>2. CASE dir.files[q] # "none"
  BY <1>2 DEF Fill
<1> QED BY <1>1, <1>2

Tasks == [Downloads -> [at : TaskSteps, v : Releases, hash : {"right", "wrong"}]]
Requests == [Handlers -> [at : RequestSteps, v : Releases]]
Directories == [made : BOOLEAN, files : [Paths -> Contents]]

LEMMA SomeRelease == 1 \in Releases
  BY UpdateAssumption DEF Releases

LEMMA NothingTyped ==
    /\ NoTask \in [at : TaskSteps, v : Releases, hash : {"right", "wrong"}]
    /\ NoRequest \in [at : RequestSteps, v : Releases]
    /\ Absent \in Directories
  BY SomeRelease DEF NoTask, NoRequest, Absent, Directories, TaskSteps, RequestSteps, Contents

\* A step of a task, of a handler, and a file that is written.
LEMMA GoesTyped ==
    ASSUME task \in Tasks, NEW e \in Downloads, NEW s \in TaskSteps, Goes(e, s)
    PROVE  task' \in Tasks
  BY DEF Tasks, Goes

LEMMA MovesTyped ==
    ASSUME request \in Requests, NEW h \in Handlers, NEW s \in RequestSteps, Moves(h, s)
    PROVE  request' \in Requests
  BY DEF Requests, Moves

LEMMA AnswersTyped ==
    ASSUME request \in Requests, NEW h \in Handlers, Answers(h)
    PROVE  request' \in Requests
  BY NothingTyped DEF Requests, Answers

LEMMA FileTyped ==
    ASSUME dir \in Directories, NEW q \in Paths, NEW c \in Contents,
           dir' = [dir EXCEPT !.files[q] = c]
    PROVE  dir' \in Directories
  BY DEF Directories

LEMMA PathTyped ==
    ASSUME task \in Tasks, NEW e \in Downloads
    PROVE  <<"archive", task[e].v>> \in Paths /\ <<"binary", task[e].v>> \in Paths
  BY DEF Tasks, Paths

LEMMA StepNames ==
    /\ TaskSteps = {"none", "clear", "make", "checksum", "create", "stream", "verify", "extract",
                    "copy", "tidy", "mark", "undo", "fail"}
    /\ RequestSteps = {"none", "found", "installs", "sessions", "begin", "join", "sweep"}
    /\ Contents = {"none", "part", "whole"}
  BY DEF TaskSteps, RequestSteps, Contents

TypesParted ==
    /\ phase \in Phases /\ version \in Releases \union {0} /\ epoch \in 0..MaxDownloads
    /\ task \in Tasks /\ dir \in Directories /\ request \in Requests
    /\ replacer \in [Handlers -> {"none", "runs", "ok", "error"}]
    /\ latest \in Releases /\ running \in Releases
    /\ exe \in [v : Releases, content : Contents]
    /\ work \subseteq {"install", "game"}
    /\ cleanup \in BOOLEAN /\ starts \in 0..MaxStarts
    /\ swept \in BOOLEAN /\ abandoned \in BOOLEAN

LEMMA TypesSame == TypeOK <=> TypesParted
  BY DEF TypeOK, TypesParted, Tasks, Requests, Directories

\* Every step keeps the types.
LEMMA TypesPreserved == TypeOK /\ ReadyStaged /\ OneReplacer /\ [Next]_vars => TypeOK'
<1> SUFFICES ASSUME TypesParted, ReadyStaged, OneReplacer, [Next]_vars PROVE TypesParted'
  BY TypesSame, PTL
<1> USE DEF TypesParted, flow, machine
<1>1. ASSUME NEW e \in Downloads, Download(e) PROVE TypesParted'
  <2>1. CASE Clear(e)
    BY <2>1, GoesTyped, StepNames, RemovedFiles
    DEF Clear, Directories, Staging
  <2>2. CASE Make(e)
    BY <2>2, GoesTyped, StepNames
    DEF Make, Directories, Staging
  <2>3. CASE FetchChecksum(e)
    BY <2>3, GoesTyped, StepNames
    DEF FetchChecksum, Staging
  <2>4. CASE CreateArchive(e)
    BY <2>4, GoesTyped, StepNames, PathTyped, FileTyped
    DEF CreateArchive, Staging
  <2>5. CASE Stream(e)
    <3>1. dir' \in Directories
      BY <2>5, StepNames, PathTyped, FilledFiles DEF Stream, Directories
    <3>2. CASE task' = [task EXCEPT ![e] = [at |-> "verify", v |-> @.v, hash |-> "right"]]
      <4>1. [at |-> "verify", v |-> task[e].v, hash |-> "right"]
              \in [at : TaskSteps, v : Releases, hash : {"right", "wrong"}]
        BY StepNames DEF Tasks
      <4>2. task' \in Tasks
        BY <3>2, <4>1 DEF Tasks
      <4> QED BY <2>5, <3>1, <4>2 DEF Stream, Staging
    <3>3. CASE \E next \in {"verify", "undo"} : Goes(e, next)
      BY <2>5, <3>1, <3>3, GoesTyped, StepNames DEF Stream, Staging
    <3> QED BY <2>5, <3>2, <3>3 DEF Stream
  <2>6. CASE Verify(e)
    BY <2>6, GoesTyped, StepNames
    DEF Verify, Staging
  <2>7. CASE Extract(e)
    BY <2>7, GoesTyped, StepNames, PathTyped, FileTyped
    DEF Extract, Staging
  <2>8. CASE Copy(e)
    BY <2>8, GoesTyped, StepNames, PathTyped, FilledFiles
    DEF Copy, Directories, Staging
  <2>9. CASE Tidy(e)
    BY <2>9, GoesTyped, StepNames, PathTyped, FileTyped
    DEF Tidy, Staging
  <2>10. CASE MarkReady(e)
    BY <2>10, NothingTyped, StepNames
    DEF MarkReady, Phases, Current, Tasks
  <2>11. CASE Undo(e)
    BY <2>11, GoesTyped, StepNames, RemovedFiles
    DEF Undo, Directories, Staging
  <2>12. CASE MarkFailed(e)
    BY <2>12, NothingTyped, StepNames
    DEF MarkFailed, Phases, Current, Tasks
  <2> QED BY <1>1, <2>1, <2>2, <2>3, <2>4, <2>5, <2>6, <2>7, <2>8, <2>9, <2>10, <2>11, <2>12 DEF Download
<1>2. ASSUME NEW h \in Handlers,
             Look(h) \/ BeginDownload(h) \/ RefuseDownload(h) \/ RequestApply(h) \/ Apply(h)
             \/ Replace(h) \/ Disconnect(h)
      PROVE TypesParted'
  <2>1. CASE Look(h)
    BY <2>1, MovesTyped, AnswersTyped, StepNames
    DEF Look, Requests
  <2>2. CASE BeginDownload(h)
    <3>1. epoch' \in Downloads /\ epoch' \in 0..MaxDownloads
      BY <2>2, UpdateAssumption DEF BeginDownload, Downloads
    <3>2. request[h].v \in Releases
      BY DEF Requests
    <3>3. [at |-> "clear", v |-> request[h].v, hash |-> "wrong"]
            \in [at : TaskSteps, v : Releases, hash : {"right", "wrong"}]
      BY <3>2, StepNames
    <3>4. task' \in Tasks
      BY <2>2, <3>1, <3>3 DEF BeginDownload, Tasks
    <3> QED BY <2>2, <3>1, <3>2, <3>4, AnswersTyped DEF BeginDownload, Phases
  <2>3. CASE RefuseDownload(h)
    BY <2>3, MovesTyped, AnswersTyped, StepNames
    DEF RefuseDownload
  <2>4. CASE RequestApply(h)
    BY <2>4, MovesTyped, AnswersTyped, StepNames
    DEF RequestApply, Waiting, Applying
  <2>5. CASE CountInstalls(h)
    BY <2>5, MovesTyped, AnswersTyped, StepNames
    DEF CountInstalls, Waiting, Applying
  <2>6. CASE CountSessions(h)
    BY <2>6, MovesTyped, AnswersTyped, StepNames
    DEF CountSessions, Waiting, Applying
  <2>7. CASE BeginApply(h)
    BY <2>7, MovesTyped, AnswersTyped, StepNames
    DEF BeginApply, Applying, Phases
  <2>8. CASE Joined(h)
    BY <2>8, MovesTyped, AnswersTyped, StepNames
    DEF Joined, Applying, AfterReplace, Phases
  <2>9. CASE Sweep(h)
    BY <2>9, MovesTyped, AnswersTyped, StepNames, RemovedFiles
    DEF Sweep, Directories
  <2>10. CASE Replace(h)
    BY <2>10, MovesTyped, AnswersTyped, StepNames
    DEF Replace, Heard, Directories, Paths, ReadyStaged, OneReplacer, Busy
  <2>11. CASE Disconnect(h)
    BY <2>11, MovesTyped, AnswersTyped, StepNames
    DEF Disconnect, Applying
  <2> QED BY <1>2, <2>1, <2>2, <2>3, <2>4, <2>5, <2>6, <2>7, <2>8, <2>9, <2>10, <2>11 DEF Apply
<1>3. ASSUME NEW k \in {"install", "game"}, WorkStarts(k) \/ WorkEnds(k) PROVE TypesParted'
  BY <1>3 DEF WorkStarts, WorkEnds
<1>4. CASE Publish
  BY <1>4 DEF Publish
<1>5. CASE Cleanup
  BY <1>5, RemovedFiles DEF Cleanup, Directories
<1>6. CASE Restart
  <2>1. task' \in Tasks /\ request' \in Requests
    BY <1>6, NothingTyped DEF Restart, Tasks, Requests
  <2>2. starts' \in 0..MaxStarts
    BY <1>6, UpdateAssumption DEF Restart
  <2>3. running' \in Releases
    BY <1>6 DEF Restart
  <2> QED BY <1>6, <2>1, <2>2, <2>3 DEF Restart, Phases
<1>7. CASE UNCHANGED vars
  BY <1>7 DEF vars
<1> QED BY <1>1, <1>2, <1>3, <1>4, <1>5, <1>6, <1>7 DEF Next

-----------------------------------------------------------------------------
(* The inductive invariant.                                                *)

LEMMA Named ==
    /\ Tasks = [Downloads -> [at : TaskSteps, v : Releases, hash : {"right", "wrong"}]]
    /\ Requests = [Handlers -> [at : RequestSteps, v : Releases]]
    /\ Directories = [made : BOOLEAN, files : [Paths -> Contents]]
    /\ \A v \in Releases : <<"binary", v>> \in Paths /\ <<"archive", v>> \in Paths
    /\ \A v, w : <<"binary", v>> # <<"archive", w>>
  BY DEF Tasks, Requests, Directories, Paths

LEMMA GoesEffect ==
    ASSUME task \in Tasks, NEW e \in Downloads, NEW s, Goes(e, s)
    PROVE  /\ task'[e].at = s /\ task'[e].v = task[e].v /\ task'[e].hash = task[e].hash
           /\ \A d \in Downloads : d # e => task'[d] = task[d]
  BY DEF Tasks, Goes

\* What a step of a task leaves alone, and when it changes the phase.
LEMMA TaskStep ==
    ASSUME TypesParted, NEW e \in Downloads, Download(e)
    PROVE  /\ ~At(e, "none")
           /\ \A d \in Downloads : d # e => task'[d] = task[d]
           /\ UNCHANGED <<version, epoch, request, replacer, exe, running, swept>>
           /\ task'[e].at # "none" => task'[e].v = task[e].v /\ phase' = phase
           /\ phase' # phase => phase' = "failed" \/ (phase' = "ready" /\ MarkReady(e))
<1> USE DEF TypesParted, At
<1>1. CASE Clear(e)
  BY <1>1, GoesEffect DEF Clear, Staging, flow, machine
<1>2. CASE Make(e)
  BY <1>2, GoesEffect DEF Make, Staging, flow, machine
<1>3. CASE FetchChecksum(e)
  BY <1>3, GoesEffect DEF FetchChecksum, Staging, flow, machine
<1>4. CASE CreateArchive(e)
  BY <1>4, GoesEffect DEF CreateArchive, Staging, flow, machine
<1>5. CASE Stream(e)
  <2>1. CASE \E next \in {"verify", "undo"} : Goes(e, next)
    BY <1>5, <2>1, GoesEffect DEF Stream, Staging, flow, machine
  <2>2. CASE task' = [task EXCEPT ![e] = [at |-> "verify", v |-> @.v, hash |-> "right"]]
    BY <1>5, <2>2 DEF Stream, Staging, flow, machine, Tasks
  <2> QED BY <1>5, <2>1, <2>2 DEF Stream
<1>6. CASE Verify(e)
  BY <1>6, GoesEffect DEF Verify, Staging, flow, machine
<1>7. CASE Extract(e)
  BY <1>7, GoesEffect DEF Extract, Staging, flow, machine
<1>8. CASE Copy(e)
  BY <1>8, GoesEffect DEF Copy, Staging, flow, machine
<1>9. CASE Tidy(e)
  BY <1>9, GoesEffect DEF Tidy, Staging, flow, machine
<1>10. CASE MarkReady(e)
  BY <1>10 DEF MarkReady, Current, NoTask, Tasks, flow, machine
<1>11. CASE Undo(e)
  BY <1>11, GoesEffect DEF Undo, Staging, flow, machine
<1>12. CASE MarkFailed(e)
  BY <1>12 DEF MarkFailed, Current, NoTask, Tasks, flow, machine
<1> QED BY <1>1, <1>2, <1>3, <1>4, <1>5, <1>6, <1>7, <1>8, <1>9, <1>10, <1>11, <1>12 DEF Download

\* The files of a task at its next step.
LEMMA TaskFiles ==
    ASSUME TypesParted, NEW e \in Downloads, StagedBy(e), Download(e)
    PROVE  StagedBy(e)'
<1> USE DEF TypesParted, At, StagedBy, Binary
<1>0. task[e].v \in Releases
  BY Named
<1>1. CASE Clear(e)
  BY <1>1, GoesEffect DEF Clear
<1>2. CASE Make(e)
  BY <1>2, GoesEffect DEF Make
<1>3. CASE FetchChecksum(e)
  BY <1>3, GoesEffect DEF FetchChecksum
<1>4. CASE CreateArchive(e)
  BY <1>4, GoesEffect DEF CreateArchive
<1>5. CASE Stream(e)
  <2>1. CASE \E next \in {"verify", "undo"} : Goes(e, next)
    BY <1>5, <2>1, GoesEffect DEF Stream
  <2>2. CASE task' = [task EXCEPT ![e] = [at |-> "verify", v |-> @.v, hash |-> "right"]]
    BY <1>5, <2>2 DEF Stream, Tasks
  <2> QED BY <1>5, <2>1, <2>2 DEF Stream
<1>6. CASE Verify(e)
  BY <1>6, GoesEffect DEF Verify, Verified
<1>7. CASE Extract(e)
  <2>1. CASE Goes(e, "copy")
    BY <1>7, <1>0, <2>1, GoesEffect, Named DEF Extract, Staging
  <2>2. CASE Goes(e, "undo")
    BY <1>7, <2>2, GoesEffect DEF Extract
  <2> QED BY <1>7, <2>1, <2>2 DEF Extract
<1>8. CASE Copy(e)
  <2>1. CASE Goes(e, "tidy")
    <3>1. task[e].hash = "right" /\ dir.files[<<"binary", task[e].v>>] # "whole"
          /\ (~swept => dir.files[<<"binary", task[e].v>>] = "part") /\ swept' = swept
      BY <1>8 DEF Copy, Staging
    <3>2. /\ task'[e].at = "tidy" /\ task'[e].v = task[e].v /\ task'[e].hash = "right"
      BY <2>1, <3>1, GoesEffect
    <3>3. CASE Fill(<<"binary", task[e].v>>, "whole")
      <4>1. dir'.files[<<"binary", task[e].v>>]
              = IF dir.files[<<"binary", task[e].v>>] = "none" THEN "none" ELSE "whole"
        BY <1>0, <3>3, Named, FilledFiles, StepNames
      <4> QED BY <3>1, <3>2, <4>1
    <3>4. "tidy" # "undo" /\ "tidy" # "copy"
      OBVIOUS
    <3>5. CASE UNCHANGED dir /\ Goes(e, "undo")
      BY <3>2, <3>5, GoesEffect
    <3> QED BY <1>8, <3>1, <3>3, <3>5 DEF Copy
  <2>2. CASE Goes(e, "undo")
    BY <1>8, <2>2, GoesEffect DEF Copy
  <2> QED BY <1>8, <2>1, <2>2 DEF Copy
<1>9. CASE Tidy(e)
  BY <1>9, <1>0, GoesEffect, Named DEF Tidy, Staging
<1>10. CASE MarkReady(e)
  BY <1>10 DEF MarkReady, NoTask, Tasks
<1>11. CASE Undo(e)
  BY <1>11, GoesEffect DEF Undo
<1>12. CASE MarkFailed(e)
  BY <1>12 DEF MarkFailed, NoTask, Tasks
<1> QED BY <1>1, <1>2, <1>3, <1>4, <1>5, <1>6, <1>7, <1>8, <1>9, <1>10, <1>11, <1>12 DEF Download

\* The steps of the task of a download.
LEMMA DownloadKeeps ==
    ASSUME TypesParted, TaskCurrent, TaskStages, ReadyStaged, OneReplacer, RunningOnDisk, OnlyNewer,
           NEW e \in Downloads, Download(e)
    PROVE  (TaskCurrent /\ TaskStages /\ ReadyStaged /\ OneReplacer /\ RunningOnDisk /\ OnlyNewer)'
<1>1. phase = "downloading" /\ epoch = e /\ version = task[e].v /\ version \in Releases
  BY TaskStep DEF TaskCurrent
<1>2. \A d \in Downloads : d # e => task[d].at = "none" /\ task'[d].at = "none"
  BY <1>1, TaskStep DEF TaskCurrent, At
<1>3. phase' \in {"downloading", "ready", "failed"}
  BY <1>1, TaskStep
<1>4. TaskCurrent'
  BY <1>1, <1>2, TaskStep DEF TaskCurrent, At
<1>5. TaskStages'
  BY <1>2, TaskFiles DEF TaskStages, StagedBy, At
<1>6. ReadyStaged'
  <2>1. ASSUME phase' = "ready" PROVE MarkReady(e)
    BY <1>1, <2>1, TaskStep
  <2>2. CASE phase' = "ready"
    BY <1>1, <2>1, <2>2 DEF MarkReady, TaskStages, StagedBy, At, ReadyStaged, Binary
  <2> QED BY <1>3, <2>2 DEF ReadyStaged
<1>7. OneReplacer'
  BY <1>1, TaskStep DEF OneReplacer, Busy, Serves
<1>8. RunningOnDisk'
  BY <1>1, <1>3, TaskStep DEF RunningOnDisk
<1>9. OnlyNewer'
  BY <1>1, <1>3, TaskStep DEF OnlyNewer, Serves
<1> QED BY <1>4, <1>5, <1>6, <1>7, <1>8, <1>9

Rest == TaskCurrent /\ TaskStages /\ ReadyStaged /\ OneReplacer /\ RunningOnDisk /\ OnlyNewer

\* A step of a handler and what it answers.
LEMMA MovesEffect ==
    ASSUME request \in Requests, NEW h \in Handlers, NEW s, Moves(h, s)
    PROVE  /\ request'[h].at = s /\ request'[h].v = request[h].v
           /\ \A k \in Handlers : k # h => request'[k] = request[k]
  BY DEF Requests, Moves

LEMMA AnswersEffect ==
    ASSUME request \in Requests, NEW h \in Handlers, Answers(h)
    PROVE  /\ request'[h].at = "none"
           /\ \A k \in Handlers : k # h => request'[k] = request[k]
  BY DEF Requests, Answers, NoRequest

\* A step of a handler that touches no replacement: it does not wait for one before or after.
LEMMA HandlerKeeps ==
    ASSUME TypesParted, Rest, NEW h \in Handlers,
           \A k \in Handlers : k # h => request'[k] = request[k],
           request'[h].at \in {"none", "installs", "sessions", "begin"},
           UNCHANGED <<flow, task, dir, replacer, exe, running, swept>>
    PROVE  (replacer[h] \notin {"ok", "error"} => Rest')
<1> SUFFICES ASSUME replacer[h] \notin {"ok", "error"} PROVE Rest'
  OBVIOUS
<1> USE DEF flow
<1>1. TaskCurrent' /\ TaskStages' /\ ReadyStaged'
  BY DEF Rest, TaskCurrent, TaskStages, StagedBy, ReadyStaged, At, Binary
<1>2. OneReplacer'
  BY DEF Rest, OneReplacer, Busy, Serves
<1>3. RunningOnDisk' /\ OnlyNewer'
  BY DEF Rest, RunningOnDisk, OnlyNewer, Serves
<1> QED BY <1>1, <1>2, <1>3 DEF Rest

\* Nobody works and nobody waits while the flow can begin a download.
LEMMA NobodyWorks ==
    ASSUME Rest, Free
    PROVE  /\ \A e \in Downloads : task[e].at = "none"
           /\ \A h \in Handlers : ~Busy(h) /\ replacer[h] \notin {"ok", "error"}
  BY DEF Rest, Free, TaskCurrent, OneReplacer, At, Busy

\* The steps of the requests.
LEMMA RequestKeeps ==
    ASSUME TypesParted, Rest, NEW h \in Handlers,
           Look(h) \/ BeginDownload(h) \/ RefuseDownload(h) \/ RequestApply(h) \/ Apply(h)
           \/ Replace(h) \/ Disconnect(h)
    PROVE  Rest'
<1> USE DEF TypesParted
<1>0. ~Serves(h, "join") => replacer[h] \notin {"ok", "error"}
  BY DEF Rest, OneReplacer
<1>1. CASE Look(h)
  <2>1. request' = [request EXCEPT ![h] = [at |-> "found", v |-> latest]] /\ latest > running
        /\ UNCHANGED <<phase, version, epoch, running, task, dir, replacer, exe, swept>>
        /\ ~Serves(h, "join")
    BY <1>1 DEF Look, Offered, flow, machine, Serves
  <2>2. /\ request'[h].at = "found" /\ request'[h].v = latest
        /\ \A k \in Handlers : k # h => request'[k] = request[k]
    BY <2>1 DEF Requests
  <2>3. TaskCurrent' /\ TaskStages' /\ ReadyStaged'
    BY <2>1 DEF Rest, TaskCurrent, TaskStages, StagedBy, ReadyStaged, At, Binary
  <2>4. OneReplacer'
    BY <1>0, <2>1, <2>2 DEF Rest, OneReplacer, Busy, Serves
  <2>5. RunningOnDisk' /\ OnlyNewer'
    BY <2>1, <2>2 DEF Rest, RunningOnDisk, OnlyNewer, Serves
  <2> QED BY <2>3, <2>4, <2>5 DEF Rest
<1>2. CASE BeginDownload(h)
  <2>1. /\ phase' = "downloading" /\ version' = request[h].v /\ epoch' = epoch + 1 /\ ~swept'
        /\ task' = [task EXCEPT ![epoch'] = [at |-> "clear", v |-> request[h].v, hash |-> "wrong"]]
        /\ Free /\ Serves(h, "found") /\ Answers(h)
        /\ UNCHANGED <<dir, replacer, exe, running>>
    BY <1>2 DEF BeginDownload, machine
  <2>2. epoch' \in Downloads /\ request[h].v \in Releases
    BY <1>2, UpdateAssumption DEF BeginDownload, Downloads, Requests
  <2>3. /\ task'[epoch'].at = "clear" /\ task'[epoch'].v = request[h].v
        /\ \A e \in Downloads : e # epoch' => task'[e].at = "none"
    BY <2>1, <2>2, NobodyWorks DEF Tasks
  <2>4. TaskCurrent'
    BY <2>1, <2>2, <2>3 DEF TaskCurrent, At
  <2>5. TaskStages'
    BY <2>3 DEF TaskStages, StagedBy, At
  <2>6. ReadyStaged'
    BY <2>1 DEF ReadyStaged
  <2>7. OneReplacer'
    <3>1. \A k \in Handlers : ~Busy(k) /\ replacer[k] \notin {"ok", "error"} /\ ~Serves(k, "sweep")
      BY <2>1, NobodyWorks DEF Rest, OneReplacer, Free
    <3> QED BY <2>1, <3>1, AnswersEffect DEF OneReplacer, Busy, Serves
  <2>8. RunningOnDisk'
    BY <2>1 DEF Rest, RunningOnDisk, Free
  <2>9. OnlyNewer'
    BY <2>1, AnswersEffect DEF Rest, OnlyNewer, Serves
  <2> QED BY <2>4, <2>5, <2>6, <2>7, <2>8, <2>9 DEF Rest
<1>3. CASE RefuseDownload(h)
  BY <1>0, <1>3, AnswersEffect, HandlerKeeps DEF RefuseDownload, machine, Serves
<1>4. CASE RequestApply(h)
  BY <1>0, <1>4, MovesEffect, HandlerKeeps DEF RequestApply, Waiting, Applying, machine, flow, Serves
<1>5. CASE CountInstalls(h)
  BY <1>0, <1>5, MovesEffect, AnswersEffect, HandlerKeeps
  DEF CountInstalls, Waiting, Applying, machine, flow, Serves
<1>6. CASE CountSessions(h)
  BY <1>0, <1>6, MovesEffect, AnswersEffect, HandlerKeeps
  DEF CountSessions, Waiting, Applying, machine, flow, Serves
<1>7. CASE BeginApply(h)
  <2>1. CASE phase = "ready"
    <3>1. /\ phase' = "applying" /\ replacer' = [replacer EXCEPT ![h] = "runs"] /\ Moves(h, "join")
          /\ UNCHANGED <<version, epoch, running, task, dir, exe, swept>>
      BY <1>7, <2>1 DEF BeginApply, Applying, machine
    <3>2. \A k \in Handlers : ~Busy(k) /\ replacer[k] \notin {"ok", "error"} /\ ~Serves(k, "sweep")
      BY <2>1, NobodyWorks DEF Rest, OneReplacer, Free
    <3>3. TaskCurrent' /\ TaskStages' /\ ReadyStaged'
      BY <2>1, <3>1 DEF Rest, TaskCurrent, TaskStages, StagedBy, ReadyStaged, At, Binary
    <3>4. OneReplacer'
      BY <3>1, <3>2, MovesEffect DEF OneReplacer, Busy, Serves
    <3>5. exe'.v = running'
      BY <2>1, <3>1 DEF Rest, RunningOnDisk
    <3>6. RunningOnDisk'
      BY <3>5 DEF RunningOnDisk
    <3>7. OnlyNewer'
      BY <2>1, <3>1, MovesEffect DEF Rest, OnlyNewer, Serves
    <3> QED BY <3>3, <3>4, <3>6, <3>7 DEF Rest
  <2>2. CASE phase # "ready"
    BY <1>0, <1>7, <2>2, AnswersEffect, HandlerKeeps DEF BeginApply, Applying, machine, flow, Serves
  <2> QED BY <2>1, <2>2
<1>8. CASE Joined(h)
  <2>1. /\ Serves(h, "join") /\ phase = "applying"
        /\ replacer' = [replacer EXCEPT ![h] = "none"]
        /\ UNCHANGED <<version, epoch, running, task, dir, exe, swept>>
    BY <1>8 DEF Joined, Applying, machine, Rest, OneReplacer, Busy
  <2>2. \A k \in Handlers : k # h => ~Busy(k) /\ replacer[k] \notin {"ok", "error"}
                                    /\ ~Serves(k, "sweep")
    BY <2>1 DEF Rest, OneReplacer, Busy
  <2>3. CASE replacer[h] = "ok"
    <3>1. phase' = "restartPending" /\ Moves(h, "sweep")
      BY <1>8, <2>1, <2>3 DEF Joined, AfterReplace
    <3>2. OneReplacer'
      BY <2>1, <2>2, <3>1, MovesEffect DEF OneReplacer, Busy, Serves
    <3>3. RunningOnDisk' /\ OnlyNewer'
      BY <2>1, <2>2, <3>1, MovesEffect DEF Rest, RunningOnDisk, OnlyNewer, Serves, Busy
    <3> QED BY <2>1, <3>1, <3>2, <3>3
            DEF Rest, TaskCurrent, TaskStages, StagedBy, ReadyStaged, At, Binary
  <2>4. CASE replacer[h] = "error"
    <3>1. phase' = "failed" /\ Answers(h) /\ exe.v = running
      BY <1>8, <2>1, <2>4 DEF Joined, AfterReplace, Rest, RunningOnDisk
    <3>2. OneReplacer'
      BY <2>1, <2>2, <3>1, AnswersEffect DEF OneReplacer, Busy, Serves
    <3>3. RunningOnDisk' /\ OnlyNewer'
      BY <2>1, <2>2, <3>1, AnswersEffect DEF Rest, RunningOnDisk, OnlyNewer, Serves, Busy
    <3> QED BY <2>1, <3>1, <3>2, <3>3
            DEF Rest, TaskCurrent, TaskStages, StagedBy, ReadyStaged, At, Binary
  <2> QED BY <1>8, <2>3, <2>4 DEF Joined
<1>9. CASE Sweep(h)
  <2>1. /\ phase = "restartPending" /\ Serves(h, "sweep") /\ Answers(h)
        /\ UNCHANGED <<phase, version, epoch, running, task, replacer, exe, swept>>
    BY <1>9 DEF Sweep, Rest, OneReplacer, flow, machine
  <2>2. \A e \in Downloads : task[e].at = "none"
    BY <2>1 DEF Rest, TaskCurrent, At
  <2>3. replacer[h] \notin {"ok", "error"}
    BY <1>0, <2>1 DEF Serves
  <2>4. OneReplacer'
    BY <2>1, <2>3, AnswersEffect DEF Rest, OneReplacer, Busy, Serves
  <2>5. RunningOnDisk' /\ OnlyNewer'
    BY <2>1, AnswersEffect DEF Rest, RunningOnDisk, OnlyNewer, Serves
  <2> QED BY <2>1, <2>2, <2>4, <2>5 DEF Rest, TaskCurrent, TaskStages, StagedBy, ReadyStaged, At
<1>10. CASE Replace(h)
  <2>1. /\ Busy(h) /\ phase = "applying" /\ replacer[h] = "runs"
        /\ UNCHANGED <<phase, version, epoch, running, task, dir, request, swept>>
    BY <1>10 DEF Replace, Rest, OneReplacer, Busy, flow, machine
  <2>2. \A k \in Handlers : k # h => ~Busy(k) /\ replacer[k] \notin {"ok", "error"}
    BY <2>1 DEF Rest, OneReplacer, Busy
  <2>3. PICK r \in {"ok", "error"} : Heard(h, r) /\ (r = "error" => exe' = exe)
    BY <1>10 DEF Replace
  <2>4. /\ replacer'[h] = IF Serves(h, "join") THEN r ELSE "none"
        /\ \A k \in Handlers : k # h => replacer'[k] = replacer[k]
    BY <2>3 DEF Heard
  <2>5. OneReplacer'
    BY <2>1, <2>2, <2>4 DEF Rest, OneReplacer, Busy, Serves
  <2>6. RunningOnDisk'
    BY <2>1, <2>2, <2>3, <2>4 DEF Rest, RunningOnDisk, Busy
  <2> QED BY <2>1, <2>5, <2>6
          DEF Rest, TaskCurrent, TaskStages, StagedBy, ReadyStaged, OnlyNewer, At, Binary, Serves
<1>11. CASE Disconnect(h)
  <2>1. /\ Answers(h) /\ replacer' = [replacer EXCEPT ![h] = IF @ = "runs" THEN @ ELSE "none"]
        /\ UNCHANGED <<phase, version, epoch, running, task, dir, exe, swept>>
    BY <1>11 DEF Disconnect, Applying, machine
  <2>2. /\ replacer'[h] \in {"runs", "none"} /\ replacer'[h] = "runs" => replacer[h] = "runs"
        /\ \A k \in Handlers : k # h => replacer'[k] = replacer[k]
    BY <2>1
  <2>3. OneReplacer'
    BY <2>1, <2>2, AnswersEffect DEF Rest, OneReplacer, Busy, Serves
  <2>4. RunningOnDisk' /\ OnlyNewer'
    BY <2>1, <2>2, AnswersEffect DEF Rest, RunningOnDisk, OnlyNewer, Serves
  <2> QED BY <2>1, <2>3, <2>4 DEF Rest, TaskCurrent, TaskStages, StagedBy, ReadyStaged, At, Binary
<1> QED BY <1>1, <1>2, <1>3, <1>4, <1>5, <1>6, <1>7, <1>8, <1>9, <1>10, <1>11 DEF Apply

\* The late cleanup of the start only takes files away, and is remembered.
LEMMA CleanupKeeps ==
    ASSUME TypesParted, Rest, Cleanup
    PROVE  Rest'
<1> USE DEF TypesParted
<1>1. /\ UNCHANGED <<phase, version, epoch, running, task, request, replacer, exe>>
      /\ swept' = (swept \/ phase \in {"downloading", "ready", "applying"})
      /\ \A v \in Releases : Binary(v)' \in {"none", Binary(v)}
  BY RemovedFiles, Named DEF Cleanup, flow, machine, Binary
<1>2. TaskCurrent' /\ OneReplacer' /\ RunningOnDisk' /\ OnlyNewer'
  BY <1>1 DEF Rest, TaskCurrent, OneReplacer, RunningOnDisk, OnlyNewer, At, Busy, Serves
<1>3. ASSUME NEW e \in Downloads PROVE StagedBy(e)'
  <2>1. task[e].at # "none" => swept'
    BY <1>1 DEF Rest, TaskCurrent, At
  <2>2. task[e].v \in Releases
    BY Named
  <2> QED BY <1>1, <2>1, <2>2 DEF Rest, TaskStages, StagedBy, At
<1>4. ReadyStaged'
  BY <1>1 DEF Rest, ReadyStaged
<1> QED BY <1>2, <1>3, <1>4 DEF Rest, TaskStages

LEMMA RestartKeeps ==
    ASSUME TypesParted, Restart
    PROVE  Rest'
<1>1. /\ \A e \in Downloads : task'[e] = NoTask
      /\ \A h \in Handlers : request'[h] = NoRequest /\ replacer'[h] = "none"
      /\ phase' = "idle" /\ exe'.v = running'
  BY DEF Restart
<1> QED BY <1>1 DEF Rest, TaskCurrent, TaskStages, StagedBy, ReadyStaged, OneReplacer, RunningOnDisk,
                    OnlyNewer, At, Busy, Serves, NoTask, NoRequest

-----------------------------------------------------------------------------
(* The theorems.                                                           *)

LEMMA Initially == Init => IInv
<1> SUFFICES ASSUME Init PROVE IInv
  OBVIOUS
<1> USE DEF Init
<1>1. TypesParted
  <2>1. task \in Tasks /\ request \in Requests /\ dir \in Directories
    BY NothingTyped DEF Tasks, Requests
  <2>2. exe \in [v : Releases, content : Contents] /\ latest \in Releases /\ running \in Releases
    BY SomeRelease, StepNames
  <2>3. replacer \in [Handlers -> {"none", "runs", "ok", "error"}]
    OBVIOUS
  <2>4. phase \in Phases /\ version \in Releases \union {0} /\ epoch \in 0..MaxDownloads
        /\ starts \in 0..MaxStarts
    BY UpdateAssumption DEF Phases
  <2>5. work \subseteq {"install", "game"} /\ cleanup \in BOOLEAN /\ swept \in BOOLEAN
        /\ abandoned \in BOOLEAN
    OBVIOUS
  <2> HIDE DEF Init
  <2> QED BY <2>1, <2>2, <2>3, <2>4, <2>5 DEF TypesParted
<1>2. TaskCurrent /\ TaskStages /\ ReadyStaged /\ OneReplacer /\ RunningOnDisk /\ OnlyNewer
  BY DEF TaskCurrent, TaskStages, StagedBy, ReadyStaged, OneReplacer, RunningOnDisk, OnlyNewer, At,
         Busy, Serves, NoTask, NoRequest
<1> QED BY <1>1, <1>2, TypesSame DEF IInv

LEMMA Step == IInv /\ [Next]_vars => IInv'
<1> SUFFICES ASSUME IInv, [Next]_vars PROVE IInv'
  OBVIOUS
<1>1. TypesParted /\ Rest
  BY TypesSame DEF IInv, Rest
<1>2. TypeOK'
  BY TypesPreserved DEF IInv
<1>3. Rest'
  <2>1. ASSUME NEW e \in Downloads, Download(e) PROVE Rest'
    BY <1>1, <2>1, DownloadKeeps DEF Rest
  <2>2. ASSUME NEW h \in Handlers,
               Look(h) \/ BeginDownload(h) \/ RefuseDownload(h) \/ RequestApply(h) \/ Apply(h)
               \/ Replace(h) \/ Disconnect(h)
        PROVE  Rest'
    BY <1>1, <2>2, RequestKeeps
  <2>3. ASSUME UNCHANGED <<flow, running, task, dir, request, replacer, exe, swept>> PROVE Rest'
    BY <1>1, <2>3
    DEF Rest, TaskCurrent, TaskStages, StagedBy, ReadyStaged, OneReplacer, RunningOnDisk, OnlyNewer,
        At, Busy, Serves, Binary, flow
  <2>4. ASSUME NEW k \in {"install", "game"}, WorkStarts(k) \/ WorkEnds(k) PROVE Rest'
    BY <2>3, <2>4 DEF WorkStarts, WorkEnds
  <2>5. CASE Publish
    BY <2>3, <2>5 DEF Publish
  <2>6. CASE Cleanup
    BY <1>1, <2>6, CleanupKeeps
  <2>7. CASE Restart
    BY <1>1, <2>7, RestartKeeps
  <2>8. CASE UNCHANGED vars
    BY <2>3, <2>8 DEF vars, flow
  <2> QED BY <2>1, <2>2, <2>4, <2>5, <2>6, <2>7, <2>8 DEF Next
<1> QED BY <1>2, <1>3 DEF IInv, Rest

\* The flow, its tasks and its replacements are always where the invariant says.
THEOREM Invariance == Spec => []IInv
  BY Initially, Step, PTL DEF Spec

\* Every variable keeps to its type: the flow is in one of its phases and shows a release.
THEOREM TypeCorrect == Spec => []TypeOK
<1>1. IInv => TypeOK
  BY DEF IInv
<1> QED BY <1>1, Invariance, PTL

\* What is shown as ready is staged and whole: begin_download refuses while a task works,
\* and a failed download empties the directory before it says so.
THEOREM ReadyWhole == Spec => []ReadyIsWhole
<1>1. IInv => ReadyIsWhole
  BY DEF IInv, ReadyStaged, ReadyIsWhole, Binary
<1> QED BY <1>1, Invariance, PTL

\* What a replacement installs.
LEMMA Replacing ==
    ASSUME TypesParted, Rest, [Next]_vars, exe' # exe
    PROVE  exe' = [v |-> version, content |-> "whole"] /\ exe'.v > exe.v
<1>1. \E h \in Handlers : Replace(h)
  <2>1. ASSUME NEW e \in Downloads, Download(e) PROVE FALSE
    BY <2>1, TaskStep
  <2>2. ASSUME NEW h \in Handlers,
               Look(h) \/ BeginDownload(h) \/ RefuseDownload(h) \/ RequestApply(h) \/ Apply(h)
               \/ Disconnect(h)
        PROVE  FALSE
    BY <2>2 DEF Look, BeginDownload, RefuseDownload, RequestApply, Apply, CountInstalls, CountSessions,
                BeginApply, Joined, Sweep, Disconnect, Waiting, Applying
  <2>3. ASSUME NEW k \in {"install", "game"}, WorkStarts(k) \/ WorkEnds(k) PROVE FALSE
    BY <2>3 DEF WorkStarts, WorkEnds
  <2>4. ~Publish /\ ~Cleanup /\ ~Restart /\ ~UNCHANGED vars
    BY DEF Publish, Cleanup, Restart, vars
  <2> QED BY <2>1, <2>2, <2>3, <2>4 DEF Next
<1>2. PICK h \in Handlers : Replace(h)
  BY <1>1
<1>3. /\ replacer[h] = "runs" /\ Binary(version) # "none"
      /\ exe' = [v |-> version, content |-> Binary(version)]
  BY <1>2 DEF Replace, Binary
<1>4. phase = "applying" /\ exe.v = running
  BY <1>3 DEF Rest, OneReplacer, Busy, RunningOnDisk
<1>5. version \in Releases /\ Binary(version) # "part" /\ version > running
  BY <1>4 DEF Rest, ReadyStaged, OnlyNewer
<1>6. Binary(version) = "whole"
  <2>1. <<"binary", version>> \in Paths /\ dir \in Directories
    BY <1>5, Named DEF TypesParted
  <2>2. Binary(version) \in Contents
    BY <2>1 DEF Directories, Binary
  <2> QED BY <1>3, <1>5, <2>2, StepNames
<1> QED BY <1>3, <1>4, <1>5, <1>6

\* self_replace takes the whole verified executable of the release that the flow shows,
\* whatever the late cleanup of the start removed.
THEOREM InstalledVerified == Spec => InstalledIsVerified
<1>1. IInv /\ [Next]_vars => [exe' # exe => exe' = [v |-> version, content |-> "whole"]]_vars
  BY Replacing, TypesSame DEF IInv, Rest
<1> QED BY <1>1, Invariance, PTL DEF Spec, InstalledIsVerified

\* The release that is installed is newer than the one it replaces, although releases are
\* withdrawn between the look-up and the application.
THEOREM Forward == Spec => UpdatesForward
<1>1. IInv /\ [Next]_vars => [exe' # exe => exe'.v > exe.v]_vars
  BY Replacing, TypesSame DEF IInv, Rest
<1> QED BY <1>1, Invariance, PTL DEF Spec, UpdatesForward
=============================================================================

--------------------------- MODULE LaunchSession ---------------------------
(***************************************************************************)
(* Launch sessions of one instance: the session store                      *)
(* (apps/api/src/state/sessions), the task that drives a launch            *)
(* (apps/api/src/application/launch/runner.rs), the supervisor tasks it    *)
(* leaves behind for every process it spawns (sessions/supervisor.rs), the *)
(* stop request of the user (application/launch/reports.rs), and the       *)
(* per-instance lifecycle lock that launches, deletions and content        *)
(* changes take.                                                           *)
(*                                                                         *)
(* Every access to the store takes its RwLock on its own, so each action   *)
(* below is one acquisition of that lock, or one await on the process;     *)
(* the tasks interleave freely between them.  Texts of log lines, launch   *)
(* plans, stages, evidence and telemetry are left out: a line only has     *)
(* the kind the store tells apart.  There is no clock; a deadline may pass *)
(* whenever it is waited for, except that a 60 s watchdog does not fire    *)
(* while the 30 s observation of the same process still runs.              *)
(***************************************************************************)
EXTENDS Naturals, FiniteSets

CONSTANTS
    Sessions,       \* launches that may be requested for the instance
    Recoverable,    \* TRUE: Guardian may answer a failed startup with a retry
    LineKinds,      \* kinds of output a game may print, a subset of AllLines
    ExitCodes,      \* exit codes of a game that ends by itself
    Requests        \* what the user may ask for besides launches

AllLines == {"plain", "boot", "retry", "other"}

ASSUME LaunchAssumption ==
    /\ Recoverable \in BOOLEAN
    /\ Requests \subseteq {"stop", "edit"}
    /\ LineKinds \subseteq AllLines
    /\ ExitCodes \subseteq {"zero", "nonzero", "signal"}
    /\ Sessions \cap {"free", "editor", "nobody"} = {}

Attempts == {1, 2}          \* a session spawns a second process at most once

(* Launch states; "prep" stands for planning, ensuring_runtime,            *)
(* downloading_runtime, validating and preparing.                          *)
States == {"absent", "queued", "prep", "prewarming", "starting",
           "monitoring", "running", "exited"}

(* Failure classes: "retry" stands for the JVM-option and Java-mismatch    *)
(* classes that a startup recovery exists for, "other" for the rest.       *)
Classes == {"none", "unknown", "retry", "other", "stalled"}

Outcomes == {"none", "startup_stalled", "launcher_stopped", "external_closed",
             "clean_exit", "crashed_after_boot", "crashed_before_boot",
             "startup_failed", "unknown_exit", "spawn_failed", "watchdog_killed"}

VARIABLES
    entry,      \* entry[s]: the SessionEntry of the store
    runner,     \* runner[s]: the launch_session task
    proc,       \* proc[s][n]: the operating system's n-th process of s
    waiter,     \* waiter[s][n]: the wait task of that process
    watchdog,   \* watchdog[s][n]: its startup watchdog
    stopper,    \* stopper[s]: a stop_launch_session request
    lock,       \* holder of the instance lifecycle lock
    editor      \* a deletion or content change of the instance

vars == <<entry, runner, proc, waiter, watchdog, stopper, lock, editor>>

(* Marks of an entry: it has a failure class, its game has shown a boot     *)
(* marker or any output, a stop was requested.                             *)
Marks == {"failed", "booted", "logged", "stop"}

NoEntry == [state |-> "absent", outcome |-> "none", child |-> 0,
            observed |-> "none", marks |-> {}]

Init ==
    /\ entry = [s \in Sessions |-> NoEntry]
    /\ runner = [s \in Sessions |->
                   [pc |-> "none", attempt |-> 0, recoveries |-> 0, class |-> "none"]]
    /\ proc = [s \in Sessions |-> [n \in Attempts |->
                   [state |-> "none", code |-> "none", pipe |-> "none"]]]
    /\ waiter = [s \in Sessions |-> [n \in Attempts |-> [pc |-> "none", class |-> "none"]]]
    /\ watchdog = [s \in Sessions |-> [n \in Attempts |-> "none"]]
    /\ stopper = [s \in Sessions |-> [pc |-> "idle", child |-> 0]]
    /\ lock = "free"
    /\ editor = "idle"

-----------------------------------------------------------------------------
(* The session store.                                                      *)

IsTerminal(state) == state = "exited"

Active(s) == entry[s].state # "absent" /\ ~IsTerminal(entry[s].state)

Booted(e) == "booted" \in e.marks

HasActiveInstance == \E s \in Sessions : Active(s)

(* classify_session_outcome: the reason recorded for a status that names   *)
(* no outcome itself.                                                      *)
PostBootOutcome(previous, code, class) ==
    IF code = "zero" /\ class = "none"
    THEN IF previous = "running" THEN "external_closed" ELSE "clean_exit"
    ELSE IF code = "nonzero" \/ class # "none" THEN "crashed_after_boot" ELSE "unknown_exit"

\* Mutant of PreBootOutcome: a killed game counts as crashed.
PreBootOutcome_SignalIsCrash(code, class) ==
    IF class \notin {"none", "unknown"} THEN "startup_failed"
    ELSE IF code # "zero" THEN "crashed_before_boot" ELSE "unknown_exit"

PreBootOutcome(code, class) ==
    IF class \notin {"none", "unknown"} THEN "startup_failed"
    ELSE IF code = "nonzero" THEN "crashed_before_boot" ELSE "unknown_exit"

Classify(e, next, code, class) ==
    IF ~IsTerminal(next) THEN "none"
    ELSE IF class = "stalled" THEN "startup_stalled"
    ELSE IF "stop" \in e.marks THEN "launcher_stopped"
    ELSE IF Booted(e) THEN PostBootOutcome(e.state, code, class)
    ELSE PreBootOutcome(code, class)

\* Mutant of RecordedOutcome: the last report of an end wins.
RecordedOutcome_Latest(e, next, code, class, outcome) ==
    IF outcome # "none" THEN outcome
    ELSE IF IsTerminal(next) THEN Classify(e, next, code, class)
    ELSE e.outcome

(* apply_status_update: the state is overwritten whatever it was, the      *)
(* outcome of the event, of the record or of the classifier is kept, in    *)
(* that order.                                                             *)
RecordedOutcome(e, next, code, class, outcome) ==
    IF outcome # "none" THEN outcome
    ELSE IF e.outcome # "none" THEN e.outcome
    ELSE Classify(e, next, code, class)

WithStatus(e, next, code, class, outcome) ==
    [e EXCEPT !.state = next,
              !.outcome = RecordedOutcome(e, next, code, class, outcome),
              !.marks = @ \union (IF class = "none" THEN {} ELSE {"failed"})]

EmitStatus(s, next, code, class, outcome) ==
    entry' = [entry EXCEPT ![s] = WithStatus(@, next, code, class, outcome)]

Progress(s, next) == EmitStatus(s, next, "none", "none", "none")

(* emit_log: the boot marker is recorded once and clears the failure seen  *)
(* so far, a booted game that is starting or monitored is running, and a   *)
(* failure text becomes the observed failure.                              *)
PromotesToRunning(e) == Booted(e) /\ e.state \in {"starting", "monitoring"}

WithLine(e, kind) ==
    LET boots  == kind = "boot" /\ ~Booted(e)
        heard  == [e EXCEPT !.marks = @ \union {"logged"} \union (IF boots THEN {"booted"} ELSE {}),
                            !.observed = IF boots THEN "none" ELSE @]
        shown  == IF PromotesToRunning(heard)
                  THEN WithStatus(heard, "running", "none", "none", "none")
                  ELSE heard
    IN  [shown EXCEPT !.observed = IF kind \in {"retry", "other"} THEN kind ELSE @]

EmitLog(s, kind) == entry' = [entry EXCEPT ![s] = WithLine(@, kind)]

-----------------------------------------------------------------------------
(* Processes (the operating system and tokio::process, seen from src/).    *)

Live(s, n) == proc[s][n].state = "live"

(* A process ends by itself and waits to be reaped; lines it wrote may     *)
(* still be in its pipes.                                                  *)
Ends(s, n) ==
    /\ Live(s, n)
    /\ \E c \in ExitCodes :
          proc' = [proc EXCEPT ![s][n] =
                      [proc[s][n] EXCEPT !.state = "zombie", !.code = c]]
    /\ UNCHANGED <<entry, runner, waiter, watchdog, stopper, lock, editor>>

(* pump_output: one line of a process whose pipes are still read.          *)
Prints(s, n) ==
    /\ proc[s][n].pipe = "open"
    /\ \E k \in LineKinds : EmitLog(s, k)
    /\ UNCHANGED <<runner, proc, waiter, watchdog, stopper, lock, editor>>

PipesClose(s, n) ==
    /\ proc[s][n].pipe = "open" /\ ~Live(s, n)
    /\ proc' = [proc EXCEPT ![s][n].pipe = "none"]
    /\ UNCHANGED <<entry, runner, waiter, watchdog, stopper, lock, editor>>

(* Child::kill under the child's mutex: signals and reaps a process, and   *)
(* is refused for one that was reaped already.                             *)
Killable(s, n) == proc[s][n].state \in {"live", "zombie"}

AfterKill(s, n) ==
    LET p == proc[s][n] IN
    [proc EXCEPT ![s][n] =
        [p EXCEPT !.code = IF Live(s, n) THEN "signal" ELSE p.code,
                  !.state = IF Killable(s, n) THEN "reaped" ELSE p.state]]

(* A failure signal older than 15 s no longer explains an exit.            *)
SignalExpires(s) ==
    /\ entry[s].observed # "none"
    /\ entry' = [entry EXCEPT ![s].observed = "none"]
    /\ UNCHANGED <<runner, proc, waiter, watchdog, stopper, lock, editor>>

-----------------------------------------------------------------------------
(* The launch request: prepare_launch_session holds the instance lifecycle *)
(* lock from its check of the active sessions until the queued session is  *)
(* in the store.                                                           *)

Goto(s, pc) == runner' = [runner EXCEPT ![s].pc = pc]

RequestLaunch(s) ==
    /\ runner[s].pc = "none" /\ lock = "free"
    /\ lock' = s
    /\ Goto(s, "locked")
    /\ UNCHANGED <<entry, proc, waiter, watchdog, stopper, editor>>

(* An active session, a refused preflight or a dropped request ends it.    *)
RefuseLaunch(s) ==
    /\ runner[s].pc \in {"locked", "admitted"}
    /\ lock' = "free"
    /\ Goto(s, "none")
    /\ UNCHANGED <<entry, proc, waiter, watchdog, stopper, editor>>

\* Mutant of AdmitLaunch: the active sessions are not asked for.
AdmitLaunch_Unchecked(s) ==
    /\ runner[s].pc = "locked"
    /\ Goto(s, "admitted")
    /\ UNCHANGED <<entry, proc, waiter, watchdog, stopper, lock, editor>>

AdmitLaunch(s) ==
    /\ runner[s].pc = "locked" /\ ~HasActiveInstance
    /\ Goto(s, "admitted")
    /\ UNCHANGED <<entry, proc, waiter, watchdog, stopper, lock, editor>>

InsertSession(s) ==
    /\ runner[s].pc = "admitted"
    /\ entry' = [entry EXCEPT ![s] = [NoEntry EXCEPT !.state = "queued"]]
    /\ lock' = "free"
    /\ Goto(s, "preparing")
    /\ UNCHANGED <<proc, waiter, watchdog, stopper, editor>>

(* launch_session: one iteration of its loop.  A recovery of a failed      *)
(* preparation starts the iteration over and changes nothing modelled.     *)
ReportPreparation(s) ==
    /\ runner[s].pc = "preparing"
    /\ Progress(s, "prep")
    /\ UNCHANGED <<runner, proc, waiter, watchdog, stopper, lock, editor>>

FailWith(s, class) == runner' = [runner EXCEPT ![s].pc = "fail", ![s].class = class]

PreparationFails(s) ==
    /\ runner[s].pc \in {"preparing", "prepared"}
    /\ \/ FailWith(s, "unknown")
       \/ runner[s].pc = "preparing" /\ FailWith(s, "other")
    /\ UNCHANGED <<entry, proc, waiter, watchdog, stopper, lock, editor>>

Prepared(s) ==
    /\ runner[s].pc = "preparing"
    /\ Progress(s, "prep")
    /\ Goto(s, "prepared")
    /\ UNCHANGED <<proc, waiter, watchdog, stopper, lock, editor>>

Prewarm(s) ==
    /\ runner[s].pc = "prepared"
    /\ Progress(s, "prewarming")
    /\ Goto(s, "spawn")
    /\ UNCHANGED <<proc, waiter, watchdog, stopper, lock, editor>>

SpawnFails(s) ==
    /\ runner[s].pc = "spawn"
    /\ Goto(s, "fail_spawn")
    /\ UNCHANGED <<entry, proc, waiter, watchdog, stopper, lock, editor>>

(* start_process: the process exists before the store knows of it.         *)
Spawn(s) ==
    LET n == runner[s].attempt + 1 IN
    /\ runner[s].pc = "spawn"
    /\ proc' = [proc EXCEPT ![s][n].state = "live"]
    /\ runner' = [runner EXCEPT ![s].pc = "register", ![s].attempt = n]
    /\ UNCHANGED <<entry, waiter, watchdog, stopper, lock, editor>>

\* Mutant of Registered: the entry keeps the child of the first attempt.
Registered_KeepsChild(e, n) ==
    [NoEntry EXCEPT !.state = e.state, !.child = IF e.child = 0 THEN n ELSE e.child]

(* The entry gets the new child, forgets the failure, the outcome, the     *)
(* stop request and the observations of the last one, and keeps its state. *)
Registered(e, n) == [NoEntry EXCEPT !.state = e.state, !.child = n]

Register(s) ==
    /\ runner[s].pc = "register"
    /\ entry' = [entry EXCEPT ![s] = Registered(@, runner[s].attempt)]
    /\ Goto(s, "registered")
    /\ UNCHANGED <<proc, waiter, watchdog, stopper, lock, editor>>

ReportStarting(s) ==
    /\ runner[s].pc = "registered"
    /\ Progress(s, "starting")
    /\ Goto(s, "supervise")
    /\ UNCHANGED <<proc, waiter, watchdog, stopper, lock, editor>>

(* spawn_output_tasks, spawn_startup_watchdog and spawn_wait_task.         *)
Supervise(s) ==
    LET n == runner[s].attempt IN
    /\ runner[s].pc = "supervise"
    /\ proc' = [proc EXCEPT ![s][n].pipe = "open"]
    /\ watchdog' = [watchdog EXCEPT ![s][n] = "armed"]
    /\ waiter' = [waiter EXCEPT ![s][n].pc = "watch"]
    /\ Goto(s, "spawned")
    /\ UNCHANGED <<entry, stopper, lock, editor>>

ReportMonitoring(s) ==
    /\ runner[s].pc = "spawned"
    /\ Progress(s, "monitoring")
    /\ Goto(s, "observe")
    /\ UNCHANGED <<proc, waiter, watchdog, stopper, lock, editor>>

(* wait_for_startup: a boot marker counts before a terminal state, and a   *)
(* terminal state before the deadline.                                     *)
ObserveBoot(s) ==
    /\ runner[s].pc = "observe" /\ Booted(entry[s])
    /\ Goto(s, "success")
    /\ UNCHANGED <<entry, proc, waiter, watchdog, stopper, lock, editor>>

ObserveExit(s) ==
    /\ runner[s].pc = "observe" /\ ~Booted(entry[s]) /\ IsTerminal(entry[s].state)
    /\ Goto(s, "exited")
    /\ UNCHANGED <<entry, proc, waiter, watchdog, stopper, lock, editor>>

ObserveDeadline(s) ==
    /\ runner[s].pc = "observe" /\ ~Booted(entry[s]) /\ ~IsTerminal(entry[s].state)
    /\ Goto(s, IF "logged" \in entry[s].marks THEN "success" ELSE "stalled")
    /\ UNCHANGED <<entry, proc, waiter, watchdog, stopper, lock, editor>>

ReportRunning(s) ==
    /\ runner[s].pc = "success"
    /\ Progress(s, "running")
    /\ Goto(s, "done")
    /\ UNCHANGED <<proc, waiter, watchdog, stopper, lock, editor>>

(* A stalled process is killed as a stop request would kill it.            *)
FlagStall(s) ==
    /\ runner[s].pc = "stalled"
    /\ entry' = [entry EXCEPT ![s].marks = @ \union {"stop"}]
    /\ Goto(s, "kill_stalled")
    /\ UNCHANGED <<proc, waiter, watchdog, stopper, lock, editor>>

KillStalled(s) ==
    /\ runner[s].pc = "kill_stalled"
    /\ proc' = AfterKill(s, entry[s].child)
    /\ FailWith(s, "stalled")
    /\ UNCHANGED <<entry, waiter, watchdog, stopper, lock, editor>>

(* An exit is retried when its observed failure has a recovery that this   *)
(* session has not applied yet and that Guardian does not suppress.        *)
MayRecover(s) ==
    Recoverable /\ runner[s].recoveries = 0 /\ entry[s].observed = "retry"

Recover(s) ==
    /\ runner[s].pc = "exited" /\ MayRecover(s)
    /\ runner' = [runner EXCEPT ![s].pc = "preparing", ![s].recoveries = 1]
    /\ UNCHANGED <<entry, proc, waiter, watchdog, stopper, lock, editor>>

GiveUp(s) ==
    /\ runner[s].pc = "exited"
    /\ FailWith(s, IF entry[s].observed = "none" THEN "unknown" ELSE entry[s].observed)
    /\ UNCHANGED <<entry, proc, waiter, watchdog, stopper, lock, editor>>

(* fail_launch_with_outcome.                                               *)
Fail(s) ==
    /\ \/ /\ runner[s].pc = "fail"
          /\ EmitStatus(s, "exited", "nonzero", runner[s].class, "none")
       \/ /\ runner[s].pc = "fail_spawn"
          /\ EmitStatus(s, "exited", "nonzero", "unknown", "spawn_failed")
    /\ runner' = [runner EXCEPT ![s].pc = "done", ![s].class = "none"]
    /\ UNCHANGED <<proc, waiter, watchdog, stopper, lock, editor>>

-----------------------------------------------------------------------------
(* The supervisor tasks of a process.                                      *)

WaiterGoto(s, n, pc) == waiter' = [waiter EXCEPT ![s][n].pc = pc]

(* The wait task: reap, look at the record, read the observed failure,     *)
(* report the exit; four separate steps.                                   *)
Reap(s, n) ==
    /\ waiter[s][n].pc = "watch" /\ proc[s][n].state \in {"zombie", "reaped"}
    /\ proc' = [proc EXCEPT ![s][n].state = "reaped"]
    /\ WaiterGoto(s, n, "look")
    /\ UNCHANGED <<entry, runner, watchdog, stopper, lock, editor>>

AlreadyFailed(e) == IsTerminal(e.state) /\ "failed" \in e.marks

LookAtRecord(s, n) ==
    /\ waiter[s][n].pc = "look"
    /\ WaiterGoto(s, n, IF AlreadyFailed(entry[s]) THEN "done" ELSE "read")
    /\ UNCHANGED <<entry, runner, proc, watchdog, stopper, lock, editor>>

ReadObservedFailure(s, n) ==
    /\ waiter[s][n].pc = "read"
    /\ waiter' = [waiter EXCEPT ![s][n] = [pc |-> "report", class |-> entry[s].observed]]
    /\ UNCHANGED <<entry, runner, proc, watchdog, stopper, lock, editor>>

ReportExit(s, n) ==
    /\ waiter[s][n].pc = "report"
    /\ EmitStatus(s, "exited", proc[s][n].code, waiter[s][n].class, "none")
    /\ waiter' = [waiter EXCEPT ![s][n] = [pc |-> "done", class |-> "none"]]
    /\ UNCHANGED <<runner, proc, watchdog, stopper, lock, editor>>

WatchdogGoto(s, n, pc) == watchdog' = [watchdog EXCEPT ![s][n] = pc]

(* The watchdog looks at the session once, 60 s after the spawn: by then   *)
(* the runner's 30 s observation of the same process is over.  Its boot    *)
(* flag is the session's, shared by both attempts.                         *)
Observing(s, n) ==
    /\ runner[s].attempt = n
    /\ runner[s].pc \in {"supervise", "spawned", "observe", "success"}

\* Mutant of WatchdogStandsDown: a running state counts as booted.
WatchdogStandsDown_WhenRunning(e) == Booted(e) \/ e.state \in {"running", "exited"}

WatchdogStandsDown(e) == Booted(e) \/ IsTerminal(e.state)

WatchdogFires(s, n) ==
    /\ watchdog[s][n] = "armed" /\ ~Observing(s, n)
    /\ WatchdogGoto(s, n, IF WatchdogStandsDown(entry[s]) THEN "done" ELSE "kill")
    /\ UNCHANGED <<entry, runner, proc, waiter, stopper, lock, editor>>

\* Mutant of WatchdogKills: it reports without killing.
WatchdogKills_Nothing(s, n) ==
    /\ watchdog[s][n] = "kill"
    /\ WatchdogGoto(s, n, "report")
    /\ UNCHANGED <<entry, runner, proc, waiter, stopper, lock, editor>>

WatchdogKills(s, n) ==
    /\ watchdog[s][n] = "kill"
    /\ proc' = AfterKill(s, n)
    /\ WatchdogGoto(s, n, "report")
    /\ UNCHANGED <<entry, runner, waiter, stopper, lock, editor>>

WatchdogReports(s, n) ==
    /\ watchdog[s][n] = "report"
    /\ EmitStatus(s, "exited", "nonzero", "stalled", "watchdog_killed")
    /\ WatchdogGoto(s, n, "done")
    /\ UNCHANGED <<runner, proc, waiter, stopper, lock, editor>>

-----------------------------------------------------------------------------
(* stop_launch_session: the request is remembered even when there is no    *)
(* process to kill, and reported only when one was killed; the user may    *)
(* ask again after any answer.                                             *)

NoStop == [pc |-> "idle", child |-> 0]

StopRequested(s) ==
    /\ "stop" \in Requests
    /\ stopper[s].pc = "idle" /\ entry[s].state # "absent"
    /\ entry' = [entry EXCEPT ![s].marks = @ \union {"stop"}]
    /\ stopper' = [stopper EXCEPT ![s] =
          IF entry[s].child = 0 THEN NoStop ELSE [pc |-> "kill", child |-> entry[s].child]]
    /\ UNCHANGED <<runner, proc, waiter, watchdog, lock, editor>>

\* Mutant of StopKills: it reports without killing.
StopKills_Nothing(s) ==
    /\ stopper[s].pc = "kill"
    /\ stopper' = [stopper EXCEPT ![s] = [pc |-> "log", child |-> 0]]
    /\ UNCHANGED <<entry, runner, proc, waiter, watchdog, lock, editor>>

StopKills(s) ==
    LET n == stopper[s].child IN
    /\ stopper[s].pc = "kill"
    /\ proc' = AfterKill(s, n)
    /\ stopper' = [stopper EXCEPT ![s] =
          IF Killable(s, n) THEN [pc |-> "log", child |-> 0] ELSE NoStop]
    /\ UNCHANGED <<entry, runner, waiter, watchdog, lock, editor>>

StopLogs(s) ==
    /\ stopper[s].pc = "log"
    /\ EmitLog(s, "plain")
    /\ stopper' = [stopper EXCEPT ![s].pc = "report"]
    /\ UNCHANGED <<runner, proc, waiter, watchdog, lock, editor>>

StopReports(s) ==
    /\ stopper[s].pc = "report"
    /\ EmitStatus(s, "exited", "nonzero", "none", "none")
    /\ stopper' = [stopper EXCEPT ![s] = NoStop]
    /\ UNCHANGED <<runner, proc, waiter, watchdog, lock, editor>>

-----------------------------------------------------------------------------
(* A deletion, a setup rollback or a content change of the instance: under *)
(* the lifecycle lock it looks for active sessions, then works.            *)

EditorLocks ==
    /\ "edit" \in Requests /\ editor = "idle" /\ lock = "free"
    /\ lock' = "editor" /\ editor' = "check"
    /\ UNCHANGED <<entry, runner, proc, waiter, watchdog, stopper>>

EditorBegins ==
    /\ editor = "check" /\ ~HasActiveInstance
    /\ editor' = "working"
    /\ UNCHANGED <<entry, runner, proc, waiter, watchdog, stopper, lock>>

EditorLeaves ==
    /\ editor \in {"check", "working"}
    /\ editor' = "idle" /\ lock' = "free"
    /\ UNCHANGED <<entry, runner, proc, waiter, watchdog, stopper>>

-----------------------------------------------------------------------------
Request(s) == RequestLaunch(s) \/ RefuseLaunch(s) \/ AdmitLaunch(s) \/ InsertSession(s)

(* What the launch task does by itself; ReportPreparation only repeats.    *)
Drive(s) ==
    \/ PreparationFails(s) \/ Prepared(s) \/ Prewarm(s)
    \/ SpawnFails(s) \/ Spawn(s) \/ Register(s) \/ ReportStarting(s) \/ Supervise(s)
    \/ ReportMonitoring(s) \/ ObserveBoot(s) \/ ObserveExit(s) \/ ObserveDeadline(s)
    \/ ReportRunning(s) \/ FlagStall(s) \/ KillStalled(s) \/ Recover(s) \/ GiveUp(s)
    \/ Fail(s)

Wait(s, n) ==
    Reap(s, n) \/ LookAtRecord(s, n) \/ ReadObservedFailure(s, n) \/ ReportExit(s, n)

Watch(s, n) == WatchdogFires(s, n) \/ WatchdogKills(s, n) \/ WatchdogReports(s, n)

Stop(s) == StopKills(s) \/ StopLogs(s) \/ StopReports(s)

Game(s, n) == Ends(s, n) \/ Prints(s, n) \/ PipesClose(s, n)

Edit == EditorLocks \/ EditorBegins \/ EditorLeaves

Next ==
    \/ \E s \in Sessions :
          \/ Request(s) \/ ReportPreparation(s) \/ Drive(s)
          \/ StopRequested(s) \/ Stop(s) \/ SignalExpires(s)
          \/ \E n \in Attempts : Wait(s, n) \/ Watch(s, n) \/ Game(s, n)
    \/ Edit

Spec == Init /\ [][Next]_vars

(* The runtime keeps polling every task that was spawned; nothing makes a  *)
(* game end, print or a user ask for anything.                             *)
Fairness ==
    \A s \in Sessions :
        /\ WF_vars(Drive(s)) /\ WF_vars(Stop(s))
        /\ \A n \in Attempts : WF_vars(Wait(s, n)) /\ WF_vars(Watch(s, n))

FairSpec == Spec /\ Fairness

-----------------------------------------------------------------------------
(* Properties.                                                             *)

RunnerPCs == {"none", "locked", "admitted", "preparing", "prepared", "spawn", "fail_spawn",
              "register", "registered", "supervise", "spawned", "observe", "success",
              "stalled", "kill_stalled", "exited", "fail", "done"}

EntryType == [state: States, outcome: Outcomes, child: Attempts \union {0},
              observed: {"none", "retry", "other"}, marks: SUBSET Marks]
RunnerType == [pc: RunnerPCs, attempt: Attempts \union {0}, recoveries: {0, 1}, class: Classes]
ProcType == [state: {"none", "live", "zombie", "reaped"},
             code: {"none", "zero", "nonzero", "signal"}, pipe: {"none", "open"}]
WaiterType == [pc: {"none", "watch", "look", "read", "report", "done"}, class: Classes]
StopperType == [pc: {"idle", "kill", "log", "report"}, child: Attempts \union {0}]

(* Every variable holds values of its type.                                *)
TypeOK ==
    /\ entry \in [Sessions -> EntryType]
    /\ runner \in [Sessions -> RunnerType]
    /\ proc \in [Sessions -> [Attempts -> ProcType]]
    /\ waiter \in [Sessions -> [Attempts -> WaiterType]]
    /\ watchdog \in [Sessions -> [Attempts -> {"none", "armed", "kill", "report", "done"}]]
    /\ stopper \in [Sessions -> StopperType]
    /\ lock \in Sessions \union {"free", "editor"}
    /\ editor \in {"idle", "check", "working"}

(* A session never has two games: a retry spawns the second process only   *)
(* when the first one is dead, whoever reported its end.                   *)
OneGamePerSession ==
    \A s \in Sessions : \A n, m \in Attempts : Live(s, n) /\ Live(s, m) => n = m

(* From its registration on, a live game is the child that a stop request  *)
(* reaches, and a wait task will report its exit (or start_process is      *)
(* about to spawn that task).                                              *)
GameIsSupervised ==
    \A s \in Sessions : \A n \in Attempts :
        Live(s, n) =>
            \/ runner[s].pc = "register" /\ runner[s].attempt = n
            \/ /\ entry[s].child = n
               /\ \/ runner[s].pc \in {"registered", "supervise"}
                  \/ waiter[s][n].pc = "watch"

(* A session that was not retried is reported as over only when its game   *)
(* is dead.                                                                *)
EndedMeansDead ==
    \A s \in Sessions :
        runner[s].recoveries = 0 /\ IsTerminal(entry[s].state) =>
            \A n \in Attempts : ~Live(s, n)

(* The first verdict on how a process ended stands, although the wait      *)
(* task, the stop request, the failing launch and the watchdog all report  *)
(* an end: only the watchdog and a failed spawn name a verdict themselves. *)
VerdictStands ==
    [][\A s \in Sessions :
          entry[s].outcome # "none" /\ entry'[s].child = entry[s].child
              => entry'[s].outcome \in {entry[s].outcome, "watchdog_killed", "spawn_failed"}]_vars

(* The verdict on a game that was not retried is true of its process: a    *)
(* close is an exit with 0, a crash before boot one with another code, the *)
(* watchdog's verdict means a dead process, a launcher stop was asked for. *)
VerdictIsTrue ==
    \A s \in Sessions :
        LET n == entry[s].child IN
        runner[s].recoveries = 0 /\ n # 0 =>
            CASE entry[s].outcome \in {"external_closed", "clean_exit"} -> proc[s][n].code = "zero"
              [] entry[s].outcome = "crashed_before_boot" -> proc[s][n].code = "nonzero"
              [] entry[s].outcome = "watchdog_killed" -> ~Live(s, n)
              [] entry[s].outcome = "launcher_stopped" -> "stop" \in entry[s].marks
              [] OTHER -> TRUE

(* An unbooted session ends: whatever its tasks overwrite, in the end it   *)
(* is terminal, or its game lives or has shown a boot marker.              *)
UnbootedSessionEnds ==
    \A s \in Sessions :
        <>[](\/ entry[s].state = "absent"
             \/ IsTerminal(entry[s].state)
             \/ Booted(entry[s])
             \/ \E n \in Attempts : Live(s, n))

(* A session uses the instance while its launch may still spawn a game and *)
(* while a game of it lives.                                               *)
Uses(s) ==
    \/ runner[s].pc \in {"preparing", "prepared", "spawn"}
    \/ \E n \in Attempts : Live(s, n)

UsersNow == {s \in Sessions : Uses(s)} \union (IF editor = "working" THEN {"editor"} ELSE {})

(* The lock and the active-session check give exclusive use: two sessions, *)
(* or a session and an edit, never use the instance at the same time.      *)
Use == INSTANCE InstanceUse WITH
    Users <- Sessions \union {"editor"},
    user <- IF UsersNow = {} THEN "nobody"
            ELSE IF Cardinality(UsersNow) = 1 THEN CHOOSE u \in UsersNow : TRUE
            ELSE "several",
    playing <- \E s \in Sessions, n \in Attempts : Live(s, n)

ExclusiveUse == Use!Spec

(* Everything that could still report on the session has finished.         *)
Quiet(s) ==
    /\ runner[s].pc = "done"
    /\ stopper[s].pc = "idle"
    /\ \A n \in Attempts :
          waiter[s][n].pc \in {"none", "done"} /\ watchdog[s][n] \in {"none", "done"}

(* A session whose process exited and whose tasks are done is not active.  *)
NoGhostSession == \A s \in Sessions : Quiet(s) => ~Active(s)
=============================================================================

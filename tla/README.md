# Verification of the Croopor launcher's core

TLA+ models of the stateful parts of this repository (a Minecraft launcher: a
local Rust API process in `src/apps/api`, the libraries of `src/core`, a desktop
shell and a web frontend), TLC configurations that check them on small
instances, and TLAPS proofs for every value of their constants.

The subject is what several tasks, a crash, an I/O error or an impatient user can
do to state that more than one party relies on. Every definition is translated
from the Rust source; `PROJECT.json` gives, for each definition, the lines it
stands for.

    tlc -workers 2 -config InstallLaneDrive.cfg MCInstallLane    # one of the runs below
    tlapm InstallLaneProofs.tla                                  # the proofs of one component

## 1. Inventory

How the parts interact. The HTTP handlers (`apps/api/src/routes`, axum on a tokio
runtime) call the application layer (`apps/api/src/application`), which changes
the stores in `apps/api/src/state`. A store is a map behind a lock that is taken
once per operation, so a handler that calls two operations leaves a gap between
them. Long work is a spawned task that outlives its request; a handler's own
future is dropped, at whatever `await` it has reached, when its client
disconnects. `InstanceLifecycleLock`s (one per instance, `state/instances.rs`)
serialise launches, deletions and content changes of one instance as long as
somebody holds one. The `core` libraries do the file work, often on blocking
threads that nothing can stop once they run.

| Part | State | Operations | Hard behaviour | What makes it correct | Module |
|---|---|---|---|---|---|
| Install lane: `state/installs.rs`, `application/install.rs` | queue of entries, the active entry, outcomes of completed ones, one session per install | enqueue, retry to the front, remove, poll; reserve, start, mark, monitor, record an outcome, start the next | many drivers of one lane, hand-over between tasks, dropped handlers, panics, a bounded outcome table, content that depends on an install | one worker at a time, dependents after their base, no entry stranded | `InstallLane` |
| Launch sessions: `state/sessions/`, `application/launch/` | a session record, a child process, boot and failure observations | admit, prepare, spawn, observe the boot, retry once, stop, kill a stalled start, report the exit | five tasks report on one session in any order; two processes of one session; kills by process handle | one game per session and instance, every game supervised, a verdict that is true and stays | `LaunchSession` |
| Instance content: `core/content`, `application/content`, `instances/resources.rs` | the mods directory, `axial.content.json`, the cache of unidentified files | install, pack, uninstall, list and adopt, toggle, delete | an error at any rename, files the user owns, updates under another name, a crash in a commit | all or nothing, user files survive, one owner per file, requirements kept | `ContentFiles` |
| Composition-managed mods: `core/performance/src/install`, `core/performance/src/state` | tracked mods and their lock file, rollback snapshots | install with a fallback chain, remove, roll back, prune | errors and crashes between files, lock and snapshot; user files under the same names | an error restores, a snapshot stays whole, user files survive | `ManagedMods` |
| Performance operations: `state/performance_operations.rs`, `application/performance/workflow` | operations in memory and in a file each, the active one per instance, a pending list | request, execute, record, resume after a start | dropped handlers, failed writes, restarts, a resume limit | executed one at a time and once per life, an end that stays, a status that agrees with its journal entry | `PerformanceOperations` |
| Managed Java runtimes: `core/minecraft/src/runtime`, `application/launch` (preflight), `download/runtime.rs` | a directory per component with its markers, a temporary one beside it, a file lock | look, install, repair the ready marker, abort | launches that resolve without the lock, leftovers, aborted tasks whose file operations go on | a game keeps its runtime, leftovers fail nobody | `ManagedRuntime` |
| Benchmarks: `application/launch/benchmark.rs`, `state/benchmark_suites.rs`, `benchmark_suite_drivers.rs` | manifest per suite, driver per suite | start, launch the next run, stop, resume | read-modify-write by several parties, stop without waiting, dropped requests | one driver per suite, stops are prompt, resumed once | `BenchmarkDriver` |
| Update: `application/update/`, `state/updater.rs` | phase and epoch, staging directory | check, download, cancel, apply, clean up | overtaken downloads, dropped handlers, cleanup at the start | what is ready is whole, only verified newer releases are installed, can always be retried | `UpdateFlow` |
| Journals and failure memory: `state/journals.rs`, `state/failure_memory.rs` | bounded maps and their snapshot on disk | create, record, finish, prune, load | snapshot written outside the lock, prune by key order | what an entry shows is true of its operation | partly in `PerformanceOperations` |
| Login, accounts, skins: `state/auth_persistence.rs`, `state/accounts.rs`, `state/skins.rs` | chunks in the OS secure store and an index; texture files and an index | save, load, remove | a crash between two writes | the index names something complete | - |
| Instances and setup plans: `state/instances.rs`, `application/instances/` | registry, lifecycle locks, cached plans | create, duplicate, rename, delete, plan | creation that fails half-way | no instance in use deleted | partly in `InstallLane`, `LaunchSession` |
| Guardian: `state/guardian*`, `core/.../guardian` | none but the failure memory | classify facts into directives | - | tables | partly in `LaunchSession`, `ManagedRuntime` |
| Event streams: `routes/launch/stream.rs`, `routes/install*` | broadcast receivers | snapshot, subscribe, forward | gap between snapshot and subscription, lagging receivers | the terminal event arrives | - |
| Loaders, versions, launch and performance planning, reports, configuration, flags, telemetry, presence, shell, frontend | files, or none | downloads, pure transformation, best-effort calls | I/O errors | - | - |

The components in `PROJECT.json` repeat this list with the status of each; its hazards
(40, each at its line) say what can go wrong and which property would notice, or
why none does.

How the modules relate. `LaunchSession` and `InstallLane` are the two schedulers of the
program; each implements an abstract specification (`InstanceUse`, `SerialLane`), and so does the queue of
performance operations (`OperationLedger`). A worker of the lane that
installs a version goes through `ManagedRuntime`, and one that changes content goes through
`ContentFiles`; a launch goes through `ManagedRuntime` before its game starts, and a
benchmark run is a launch. `PerformanceOperations` says when a job of `ManagedMods` may
run. Each of these boundaries is a call that ends well or not, so the lower module is not
instantiated in the upper one: the upper one has a nondeterministic result, the lower one shows
what stands behind it.

## 2. Modules

| Module | Purpose |
|---|---|
| `InstallLane`, `InstallLaneProofs` | the lane, its drivers, monitors and workers |
| `SerialLane` | what the lane promises, without queue and tasks |
| `LaunchSession`, `LaunchSessionProofs` | the launch sessions of one instance, their tasks and processes |
| `InstanceUse` | what lifecycle lock and active-session check promise |
| `ContentFiles`, `ContentFilesProofs` | the content of one instance and the operations on it |
| `ManagedMods`, `ManagedModsProofs` | the mods a performance composition manages in one instance |
| `PerformanceOperations`, `PerformanceOperationsProofs` | the queue of performance operations |
| `OperationLedger` | what that queue promises its clients, without tasks, active entries and resume lists |
| `ManagedRuntime`, `ManagedRuntimeProofs` | the directory of one Java runtime and those who want it |
| `BenchmarkDriver`, `BenchmarkDriverProofs` | one benchmark suite, its drivers and clients |
| `UpdateFlow`, `UpdateFlowProofs` | the in-app update |
| `MC...` | the instances TLC checks |

The `X_Variant` operators in the modules (`Reserve_IgnoresActive`, ...) are not part of
any specification: each is a plausible mistake in the definition it is named after,
kept to show that the property beside it would notice.

### 2.1 InstallLane

*State.* `active`, `pending`, `completed` and `completedOrder` are the fields of
`InstallQueueInner`; `installs` is `InstallStore.installs`, restricted to sessions
that queue entries insert. Tasks are handlers (`Callers`) and the monitor of each
entry (its number); `pc`, `job`, `held` and `install` are their local variables. `worker` is
the task of each session, `late` the progress forwarder that a worker may leave
behind, `ready` and `instance` what is on disk, `lock` whose cleanup holds an instance's lifecycle lock
and has found it untouched. `verdict`, `lost`, `abandoned` and the difference between a `pristine` and a
`spared` instance (a cleanup has given up on it) are history.

*Actions.* One per acquisition of a lock of `InstallStore`, because that is where
tasks can interleave. A handler starts with a `*Request` (poll, enqueue or retry,
set up an instance, remove an entry), then drives the lane as
`maybe_start_next_queued_install` does: `Reserve`, `CheckPrerequisite`, `FailDependent` and
`DiscardInstance`, `StartInstall` or `StartFails`, `RecordStartFailure`, `MarkStarted`,
`SpawnMonitor`, `Respond`; `Disconnect` drops it in between. A monitor does `Subscribe`,
`ReceiveTerminal`, `RecordOutcome` and then drives the lane itself. A worker does
`BeginMutation`, succeeds, fails, cleans up, publishes or panics, and its supervisor
reports a panic in three steps. A cleanup (`remove_pristine_setup_instance`) is two steps, as in the code:
`ComparesInstance` takes the lock and compares, `RemovesInstance` removes without looking again; or it gives up
(`GivesUp`): somebody else holds the lock, a session is active, the baseline is missing, something differs, or the
removal fails. The holders outside the lane (listing, toggling, launching, deleting) are not tasks of this model:
giving up is always possible.

*Abstraction.* An item is a model value: a version, a content operation on an
existing instance, or a setup (content that owns the instance it populates). The
internals of a download, the repair loop inside an install and the contents of
non-terminal progress are left out: an install ends well or not. Left out
too: the developer-only `clear`, a panic inside the interrupt handler, the journals
of an install, the wait that a loader install does for a vanilla one outside the
queue, and functions called only by tests.

### 2.2 LaunchSession

*State.* `entry` is the `SessionEntry` of each session (its status, outcome, child, observed
failure, and `marks`, the Boolean fields that are set); `runner` the `launch_session` task;
`proc[s][n]` the n-th process of the session as the operating system sees it, with a
zombie state between death and reaping; `waiter` and `watchdog` the tasks
`start_process` leaves behind for each process; `stopper` a stop request; `lock` and `editor`
the lifecycle lock and a deletion or content change of the same instance.

*Actions.* One per acquisition of the session store's lock or `await` on the child.
The runner: `RequestLaunch`, `AdmitLaunch` or `RefuseLaunch`, `InsertSession`, preparation,
`Prewarm`, `Spawn`, `Register`, `ReportStarting`, `Supervise`, `ReportMonitoring`, one of
`ObserveBoot`, `ObserveExit`, `ObserveDeadline`, then `ReportRunning`, `FlagStall` and `KillStalled`,
`Recover` or `GiveUp` and `Fail`. The wait task: `Reap`, `LookAtRecord`, `ReadObservedFailure`,
`ReportExit`. The watchdog: `WatchdogFires`, `WatchdogKills`, `WatchdogReports`. The game ends,
prints and closes its pipes when it likes. `WithStatus`, `Classify` and `RecordedOutcome` are the
store's own rules for what a status may overwrite.

*Abstraction.* A line of output only has the kind the store tells apart (boot marker,
a failure that has a recovery, another failure, plain). The states from planning to
preparing are one, `prep`. The boot time and the shared boot flag are set and reset
together, so they are one mark. There is no clock: a deadline may pass
whenever it is awaited, except that the 60 s watchdog of a process does not fire while
the 30 s observation of the same process runs. That the game is spawned at most twice
is not a bound: it follows from the rule for a recovery. Left out: reports on disk,
the event stream, the benchmark launch that runs the runner inside its request (see 2.7).

### 2.3 ContentFiles

*State.* `disk` maps each path (a name, enabled or `.disabled`) to the file there; a file is
a release of a project, identified by its hash, or one the provider does not know.
`manifest` is the saved provenance manifest, `unknown` the saved cache of files that were
not identified. `op`, `backup` and `applied` are the operation in progress and its
`FileTransaction`. `before`, `mine` and `left` are history.

*Actions.* One per file system step of a transaction (`MoveAside`, `Promote`, `VerifyStale`,
`RemoveStale`, `SaveManifest`, `Commit`, and in a rollback `RestoreRemoved`, `RestoreApplied`,
`RolledBack`), the failures of each, a crash, the listing that reconciles and adopts
(`RequestList`, `Identify`, `ProviderUnreachable`, `ListSaveFails`), the toggle with its undo, deleting a mod,
and the user's file manager (`UserCreates`, `UserRemoves`).

*Abstraction.* One kind of content (mods). The resolver is represented by the plans it
may return: one release per project, closed under requirements, with distinct file
names. A pack is any set of releases of which the provider identifies some. Renames
of one commit touch distinct paths, so their order is left open. The manifest's atomic
replacement is one step; promotion by copy, pack overrides, and the size limit of
the cache are left out. Operations do not overlap, because each holds the
instance's lifecycle lock; performance mutations, which do not take it, are not
in this model.

*Assumptions.* A commit runs without an `await`, so the user is assumed not to touch the
directory inside one; during downloads (`InFlight`) and between operations they may.
`MaxEdits` bounds how often. `Failures` is the set of steps that may fail: it is a constant, so each
run and each theorem says which failures it allows.


### 2.4 ManagedMods

*State.* `files` is the mods directory, `lock` the content of `.axial-lock.json` (the mods
that are tracked). `snaps`, `stored`, `retained` and `latest` are the rollback directory: what
each snapshot lists, the copies kept for it, the entries under `history` and the pointer in `latest.json`.
`pc` and `op` are the job in progress. `before`, `mine`, `risked` and `undone` are history.

*Actions.* The snapshot (`CopyTracked`, `RecordHistory`, `PointLatest`, `PruneHistory`, `CleanUp`), one
attempt of a composition (`BeginAttempt`, `Resolve` per mod, `Promote` or `DownloadFails`, `Delete` of
a replaced file), the fallback chain (`FallBack`), the end of an install (`SaveLock`, `DropAbandoned`, `Installed`), a
removal (`RemoveLock`), a rollback and the restore after an error (`Refuse`, `StageRestore`, `Put`, `Relock`),
the failure of each, a crash anywhere, and the user's file manager, between any two steps.

*Abstraction.* The four parallel downloads are taken in any order, one at a time. A file whose
provider gives no hash and the health reports are left out. `remove_superseded`
deletes by name, so releases that share a name are assumed to be of one project. A request that is
dropped by its client stops where a crash would, so it is the same action.
`mine` holds every file of the user under an untracked name. `risked` are those put there after the job in progress
had decided to delete or replace the file of that name (`Claimed`): what it has installed and may give up, what it is
about to delete, what a restore has found free and is about to put back. The code does not look again at these.

### 2.5 PerformanceOperations

*State.* `status` and `disk` are an operation in memory and in its file; `active` and
`pending` are `active_by_instance` and `pending_resume_ids`; `task` is where the handler or the
spawned task of an operation stands; `journal` the outcome its journal entry shows in memory, `past` what it has shown
since the start, any one of which the snapshot on disk may show; `up`
says whether the process runs. `ran` (executions since the start) and `cut` (operations a crash has cut off between
execution and record) are history.

*Actions.* `Request` (with the refusals of `start`), `HandlerEnds` (the response, or a handler
dropped before its task was spawned), `Work` (each step of `run_queued_operation`: report progress,
execute, record the end), `Crash`, `Recover` (the load at the start: which operations become
active again, which ones end; `LoadJournal`), `TakePending`, `PruneJournal` (another command's entry pushes this one out).

*Abstraction.* A status is changed in memory and then written by the one task in charge of it; memory does not survive the
process, so both are one action with a write that may fail. The journal's snapshot is shared and written outside the
lock, so it may be late, land in another order or not at all: a restart finds any entry of `past`. An entry may be
refused, and an update of it ignored. Requests of the direct routes
execute without `start()` and so without this queue; they and the views are left out. A deleted instance appears as an execution that is refused.

### 2.6 ManagedRuntime

*State.* `dest` and `temp` are the component's directory and the one beside it in which it is
installed: the set of what is there (itself, the markers `installing` and `ready`, the proof manifest,
the files that match the proof). `at` is the next step of each task, `holder` the owner
of the lock, `todo` what it has yet to install, `late` the blocking operations of tasks that are gone,
`suppressed` what the failure memory says about the repair. `exposed` and `hit` are history.

*Actions.* `Preflight` and `Repair` are the look of a launch and the repair of a ready marker,
both without the lock; `Ensure` is the look of `ensure_runtime`, `Lock` the acquisition with its second
look, `Install` each step of `install_component`, `Fail` its error, `Abort` the abort of a pipeline's
task or the drop of a launch. `Late` is a blocking operation that goes on after its task is gone.
`Damage` is a loss from outside, `Crash` a restart.

*Abstraction.* Verification is one read. Other roots than the launcher's cache, Rosetta, overrides of the
Java path and a second launcher process are left out.

### 2.7 BenchmarkDriver

*State.* `file` and `manifest` are the suite's manifest on disk (absent, whole, or torn, because
it is written in place), `view`, `pick`, `launched` and `writing` the local state of whoever
launches a run, `session` the sessions; `status`, `disk`, `stop`, `active`, `pending` and `resuming` the store of
drivers, and `saving` the copies of a status that were made under its lock and are still to be written.
`resumed`, `missed` and `late` are history.

*Actions.* `Start`, `Stop` and `Resume` of a driver, `Loop` (one step of `run_driver`: read, decide,
prepare, reserve, launch, report), `Write` (opening the manifest and filling it), `Save` (a copy of a status reaches its file), `ResumeNext` and `TakePending`
(the pass after a start), a client's launch of a run (`Ask`, `Request`, `Drop`), `StopGame`,
`GameEnds`, `Crash`, `Restart`.

*Abstraction.* One suite on one instance. The drivers read the session names only, so the state
of a run is left out; the load of a reservation is one step with its preparation. A status file is replaced by a rename and never
torn. A copy lands when it likes: a loop and the resume pass wait for their own writes, a stop does not wait for
anybody's, so its copy may land after a newer one. Writers of one driver share a temporary file: when two meet, a rename may
install what the other wrote, or find nothing and remove the status. A session has four states; `ghost` is one whose
end was overwritten by the runner (the behaviour `session_ghost` shows).

### 2.8 UpdateFlow

*State.* `phase`, `version` and `epoch` are the flow in `state/updater.rs`; `task[e]` the spawned task of download e; `dir` the
staging directory; `request` and `replacer` each handler and its blocking replacement;
`latest` what the release page shows, `exe` and `running` what is on disk and what runs; `work` the
installs and games that are active. `swept` and `abandoned` are history.

*Actions.* `Look` and `BeginDownload` or `RefuseDownload`, `Download` (each step of the task: empty
the directory, fetch, verify, unpack, publish, or fail and clean up, each subject to its epoch),
`RequestApply`, `Apply` (count the work, begin, replace, report), `Replace`, `Disconnect`, `Publish` (a release
appears or is withdrawn), `Cleanup` and `Restart`.

*Abstraction.* Releases are numbered in the order of their versions. The epoch starts again
with the process in the code; the model keeps it, since a restart ends every task. The choice of
an asset and the byte counts are left out.


## 3. What the runs check

Every passing run is exhaustive within its bounds; the state counts are TLC's.
Each property has a mutant in `PROJECT.json`: a plausible mistake in the code under which
TLC finds that property violated in the same run. The types (`TypeOK` of each module) and the
inductive invariants are proved (section 5), so no run spends time on them.

### 3.1 Install lane

`lane_drive` (520 thousand states): one version, one setup that needs it, two handlers,
two queue entries, disconnects. Two handlers and a monitor are the fewest tasks that
can meet at one hand-over, and one setup queues both a base install and its content.
- `LaneExclusive`: a session in progress belongs to the entry that has the lane, so one
  worker runs at a time.
- `LaneOwned`: exactly one task will release the lane; only a disconnect can leave it
  without one.
- `FailedSetupCleanedUp`: however the content of a setup fails or dies, a cleanup has tried to remove its untouched
  instance. It may have given up (3.9).
- `UsedInstanceKept`: a cleanup neither chooses nor removes an instance that was used before it compared, or that a
  content operation is changing. Exceptions: the rollback of a creation, and an edit of the files between
  comparison and removal.
- `KeepsPromise`: the lane implements `SerialLane`, where jobs have a status and nothing else.
- `EveryEntryLeaves`: every entry leaves the queue unless the lane was abandoned, by a dropped handler or by a failed start
  (the entry behind it is then left to the next request, 3.9).

`lane_outcomes` (4.8 million states): a version, a content operation and a setup, three
entries, one handler, and an outcome table of one, so that eviction happens with
an entry still waiting for what would be evicted. `DependentAfterBase` (content starts only after its base
install really succeeded), `OutcomeFaithful` (a success recorded as a failure only after the
session was pruned under its monitor) and `ReferencedNeverEvicted`.

### 3.2 Launch sessions

`session_retry` (4.8 million states): one session that may be retried, and a user
who stops it. `OneGamePerSession`; `GameIsSupervised` (a live game is the child a stop reaches,
and a wait task will report it); `VerdictStands` (the first verdict on a process is replaced only
by the watchdog or a failed spawn).

`session_verdicts` (182 thousand states): no retry, all kinds of output and all exits,
stops and edits. `EndedMeansDead`; `VerdictIsTrue` (a recorded close, crash, stop or stall is
true of the process); under fairness, `UnbootedSessionEnds`.

`session_pair` (2.1 million states): two sessions and an edit contend for one instance.
`ExclusiveUse`: lifecycle lock and active-session check together implement `InstanceUse`.

The last two runs exclude the retry, because the retry breaks what they check (3.9).
Two sessions suffice for exclusion between sessions:
a third one meets the same lock. Two attempts are all the code makes.

### 3.3 Instance content

`content_transactions` (757 thousand states): a library with two releases under different
file names, a mod that needs it and has one of these names too, one unknown file,
one edit by the user. That gives updates under a new name, a name that moves from
one project to another in one plan, requirements, and conflicts with the user.
Downloads, renames, removals and saves may fail and the process may die at any step,
in any combination, but undoing a rename works (`Failures` without `restore`: the code ignores those errors and loses
files then); a crash also leaves recorded files missing, so the one
edit can put a file where a tracked one should be.
- `FailuresRollBack`: an operation that reports a failure leaves directory and manifest
  as it found them (a crash reports nothing: 3.9).
- `UserFilesKept`: no operation destroys a file the user put there, even one that
  appears at a destination during the downloads. A managed file replaced in that time is not protected (`InFlight`).
- `CommitIsComplete`: what the manifest records is in place, nobody else lost a file,
  and no file is left under an old name. (Two entries may name one file: the listing can adopt a jar and its disabled
  variant for two projects, 3.9.)
- `NeedsKept`: an uninstall or an update leaves nothing without what it requires.

### 3.4 Composition-managed mods

`managed_mods` (9.3 million states: one edit at any step, three file names, a composition of two mods that falls back to one and then to none,
a history of two snapshots and three snapshots taken). The third snapshot is the first to prune one;
three file names are one for each release and none for the user alone, so that
each edit can meet a managed name. Failures and crashes at any step.
- `UserFilesKept`: a file of the user under an untracked name is neither deleted nor replaced, unless it appeared under a
  name the job in progress had claimed by then (`risked`).
- `SnapshotsWhole`: every snapshot a user can roll back to has all its copies.
- `FailureRestores`: a job that fails leaves lock and tracked files as it found them.
- `InstallIsComplete`: a job that ends well has every locked mod on disk and nothing left of what it
  replaced, dropped or abandoned.

### 3.5 Performance operations

`performance_operations` (433 thousand states): two instances, two operations, two crashes, one
failed write of a status, any late, lost or pruned writes of the journal, and a resume limit of one, so that an operation can be
left over from a resume. A second crash is needed for what a resumed operation may do wrong.
- `KeepsLedger`: the queue implements `OperationLedger`. There an instance has at most one open operation, an operation is due at
  most once in a life of the process and then begins at most once, two of one instance never execute at the same time
  (`OneExecution`, also with several unended operations of one instance on disk), what a client is told is the result of the
  execution, and an end that was saved stays. The refinement mapping reads a status that waits as "open" (in memory and on disk)
  and the place of a task as due, doing or done.
- `OncePerLife`: a second execution needs a restart between the two; the count (`ran`) begins anew with every life.
- `RecordedIsFinal`: an end that has reached the disk is not revived, repeated or renamed.
- `ProofAgrees`: the journal entry never shows the opposite of the status. It may be older or missing. Exempt are
  the operations a crash has cut off between an execution and its record (`cut`): they run again, and their entry may show the
  outcome of the earlier run.
- `EveryOperationEnds`, under fairness, over crashes and restarts: for operations whose task was spawned. A handler
  dropped before that leaves its operation queued until a restart.

### 3.6 Managed runtimes

`managed_runtime` (511 thousand states): two launches and an install pipeline, one file, one
mishap (an abort or a loss from outside) and one restart. A launch that uses the runtime, an installer and a
task waiting for the lock are three. With two files, and separate bounds for aborts and losses, 1.3 million states were
checked as well.
- `RuntimeKept`: until `exposed`, a game keeps the runtime it resolved without the lock.
- `LeftoversHarmless`: until `exposed`, whatever is left on the disk, an installation fails only by an error of its own.
- `EveryRequestEnds`, under fairness.

`exposed` says that two tasks have changed the directories at a time (two installers after an abort, or the repair of a ready marker
beside an installer or another repair), or that an installing marker could not be removed. From there on the code breaks both (3.9).

### 3.7 Benchmark drivers

`benchmark_drivers` (434 thousand states): a suite of two runs, two drivers, two sessions, one client, two
crashes, and one launch or stop (of a game or a driver) by a user. Two drivers are the one that was stopped and the one that was
started after it. Without the liveness property two requests (7.7 million states) and one failed write (2.2 million) were
checked as well.
- `OneDriver`: at most one driver has not ended, and the suite's entry names it.
- `StopIsPrompt`: a driver that was told to stop prepares at most the run it was about to.
- `ResumedOnce`: the resume pass starts a driver for an interrupted one once over any number of restarts, and once more for each
  of its writes of that driver that failed or met another write (`missed`). Without the exemption for writes that meet, TLC finds
  the stop's stale copy landing last.
- `EveryDriverEnds`, under fairness, unless it waits for a session that a dropped request left queued (`Abandoned`), or whose end was
  overwritten (`Haunted`). Without either exemption TLC finds the driver that waits for ever.

### 3.8 Update

`update_flow` (237 thousand states, deadlock checked): two handlers, two releases, two downloads, one restart. One
download overtaken by another is what epochs are for.
- `ReadyIsWhole`: what is shown as ready is staged whole, unless the cleanup of the start has removed it (`swept`); `InstalledIsVerified`: the executable is replaced
  only by the verified one of the release shown; `UpdatesForward`: never by an older release.
- `FlowSettles`, under fairness, unless the client of an application disconnected.


### 3.9 Where the code disagrees with what is said about it

`session_ghost` checks a statement of `ARCHITECTURE.md` and TLC finds a behaviour of the code that contradicts it:
when the process exits, its session is reported as exited. The runner decides that a game has
booted, the game dies and its exit is reported, and then the runner's `running` overwrites the exit.
The watchdog of that process has stood down because the game booted, so nothing ends the session again.

The following were met while modelling. The models contain each of these steps; the properties say in
their own text, or by a constant, what they do not claim because of them.

Launch sessions.
- The first attempt's watchdog looks only at the session when its 60 s are over: it ends the
  report of a session whose second attempt runs (`WatchdogReports`).
- Between the exit report of a failed attempt and the first status of its retry the instance counts
  as unused: an edit or a deletion is admitted under the launch. `ExclusiveUse` is therefore checked and proved
  for launches without a retry.

Install lane.
- The comment at `installs.rs:190-192` takes an unmarked active entry for one that has not begun. Session and worker exist
  before the mark is written, so it may have.
- A handler dropped between the reservation and the monitor leaves an entry nobody drives; the next request does not
  release it. An entry whose start fails is discarded, and nobody starts the one after it until the next request.
- The cleanup of a failed setup gives up when anybody holds the instance's lifecycle lock (a listing holds it across its
  requests to the provider), a session is active, the baseline is missing or the registry cannot be saved, and nobody tries again;
  `adr/0003` says that setup-owned instances are removed if their queued import fails. What the user changes between its
  comparison and the removal is deleted.

Content.
- A file that a commit has moved into its backup when the process dies stays there and nothing reads it again;
  `adr/0002` says that installs are staged and then renamed atomically.
- The listing remembers an identified file as unidentified when its release is already owned by another
  entry, and skips it from then on; it may adopt `name.jar` and `name.jar.disabled` for two
  projects.
- A performance mutation writes the mods directory without the lifecycle lock.

Managed mods.
- A mod whose download fails in the final attempt drops out of the lock while its earlier file stays.
- The files of an abandoned attempt are deleted by name: one the user has made of that name in the meantime goes instead.
- A restore checks its targets once, before it stages and replaces: a file the user makes at a free, untracked target after that is
  replaced.
- The removal of a replaced file can fail after the lock was saved; the restore that follows is then refused, since the snapshot's names are no longer tracked.
  After a crash inside a restore the same rollback is refused for the same reason.
- An identical file of the user is adopted by an install and deleted by its fallback.
- A rollback whose lock names a mod without a copy makes a user's file of that name a tracked one;
  `ARCHITECTURE.md` says that files outside the tracked lock remain the user's.

Managed runtimes.
- A task that finds the runtime not ready a second time, under the lock, may do so just before a repair recreates the marker and a
  launch resolves the runtime; the installer then removes it beneath the game.
- The repair unlinks a good marker that another repair wrote; an `ensure` in that window installs anew beneath a game.
- The repair recreates the directory and its marker while an installer removes it: the installer's rename fails, and a ready
  marker stands without verified content.
- An aborted task gives the lock back while its blocking operation goes on.
- The removal of the installing marker may fail and is not looked at: the next installer
  removes that marker first and the launch resolves while the rest is being removed.
- A runtime with a damaged file blocks every managed launch until an install pipeline installs it anew.

Benchmarks.
- The outcome of a run is read, changed and written without a lock: it can overwrite another launcher's reservation, and a
  running game is then named by no run (`ARCHITECTURE.md` speaks of preventing an untracked session).
- A manifest torn by a crash is never repaired, and a driver that reads one in the middle of a write ends.
- A run chosen by its index is launched without the check for an active session.
- The request that stops a driver writes a copy of the status it has made earlier. It may land after a newer one: a driver whose
  resumption was recorded is resumed again after the next restart, and one the user stopped is resumed when the loop's
  older copy lands after the stop's. Two writers of one driver share a temporary file, and the status may vanish.
- A session whose end the runner has overwritten counts as active: the driver that launched it waits for ever.

Update.
- Installs and sessions are counted before the flow is claimed: one that begins in between runs while
  the executable is replaced (`ARCHITECTURE.md` says the update is applied only while both are idle).
- A handler dropped while the replacement runs leaves the flow in `applying` until a restart.
- The cleanup of the start is spawned and may run under the first download (`swept`).

Performance operations.
- A direct request executes without being queued, so nothing keeps two of them, or one and a queued one, apart.
- An operation whose handler was dropped before its task was spawned stays queued, and keeps its instance from others, until a
  restart. One that was executed and not recorded when the process died is executed again.
- The snapshot of the journals may be older than the status it proves, or lack the entry.

## 4. Fairness, deadlock

Everything assumed to happen is a task of the runtime or the end of an operation with a time limit; no
request, disconnect, panic, edit, mishap, crash or failed write is.

- `InstallLane!FairSpec`: weak fairness of every handler in flight, and of the monitors and workers together: some spawned task goes
  on as long as one can. tokio polls each of them, which is more; it adds that an install or content operation ends.
  `EveryEntryLeaves` says in its own text that the lane may be abandoned: then only the next request drives it on.
- `LaunchSession!FairSpec`: weak fairness of the launch task, stop requests, wait tasks and
  watchdogs, all spawned and awaited by nobody. Games and users have none: a game may
  run for ever. `UnbootedSessionEnds` makes no claim about a game that showed a boot marker;
  `session_ghost` is why.
- `PerformanceOperations!FairSpec`: each operation's task, and, once the process is up, the load and the resume pass. The process is
  started again after a crash.
- `ManagedRuntime!FairSpec`: the tasks that want the runtime. Weak fairness of `Lock` is enough only because
  finitely many tasks compete, each asks once per life, and whoever has the lock lets go of it; the mutex of
  tokio is fair, and the file lock is waited for on a blocking thread.
- `BenchmarkDriver!FairSpec`: the loops, requests and the writes they wait for (not those of a stop); the API is started again; and a game is
  ended by its player, without which a driver rightly waits for ever.
- `UpdateFlow!FairSpec`: downloads, handlers and blocking replacements. The HTTP client has time limits, and copying a file ends.

Where deadlock is not checked, the model may stop: all ids of entries, sessions, operations or drivers are used
and everything is over. `UpdateFlow` never stops, so there it is checked.

## 5. What is proved

All proofs hold for every value of the constants that satisfies the module's ASSUME: any number of
tasks, entries, sessions, instances, releases, edits, crashes and failures. In the modules with bounds on
crashes, mishaps or requests, the bounds are such constants.

| Proof module | Theorems (and the property each states) |
|---|---|
| `InstallLaneProofs` | `TypeCorrect`, `Invariance`, `OneAtATime` (`LaneExclusive`), `BaseFirst` (`DependentAfterBase`), `ReleasedWhenTerminal` (`ReleaseAfterTerminal`), `PromiseIsKept` (`KeepsPromise`, a refinement), `LaneHasOwner` (`LaneOwned`), `UsedIsKept` (`UsedInstanceKept`), `OutcomesAreTrue` (`OutcomeFaithful`), `FailuresAreCleaned` (`FailedSetupCleanedUp`), `ReferencedSurvive` (`ReferencedNeverEvicted`) |
| `LaunchSessionProofs` | `TypeCorrect`, `Invariance`, `OneGame` (`OneGamePerSession`), `Supervised` (`GameIsSupervised`), `EndedDead` (`EndedMeansDead`), `TrueVerdict` (`VerdictIsTrue`), `FirstVerdictStands` (`VerdictStands`), `InstanceIsExclusive` (`ExclusiveUse`, a refinement) |
| `ContentFilesProofs` | `TypeCorrect`, `Invariance`, `CleanRollback` (`FailuresRollBack`), `NoUserFileLost` (`UserFilesKept`), `CommitsAreComplete` (`CommitIsComplete`), `RequirementsKept` (`NeedsKept`) |
| `ManagedModsProofs` | `TypeCorrect`, `SnapshotsAreWhole` (`SnapshotsWhole`), `NoUserFileTouched` (`UserFilesKept`), `InstallsAreComplete` (`InstallIsComplete`), `FailuresRestore` (`FailureRestores`) |
| `PerformanceOperationsProofs` | `TypeCorrect`, `OneAtATime` (`OneExecution`), `AtMostOnce` (`OncePerLife`), `ProofIsTrue` (`ProofAgrees`), `EndsAreFinal` (`RecordedIsFinal`), `LedgerIsKept` (`KeepsLedger`, a refinement) |
| `ManagedRuntimeProofs` | `TypeCorrect`, `Invariance`, `GameKeepsRuntime` (`RuntimeKept`), `CleansUp` (`LeftoversHarmless`) |
| `BenchmarkDriverProofs` | `TypeCorrect`, `OneAtATime` (`OneDriver`), `StopsSoon` (`StopIsPrompt`), `ResumesOnce` (`ResumedOnce`) |
| `UpdateFlowProofs` | `TypeCorrect`, `Invariance`, `ReadyWhole` (`ReadyIsWhole`), `InstalledVerified` (`InstalledIsVerified`), `Forward` (`UpdatesForward`) |

The arguments:

**Install lane.** `LaneExclusive` is not inductive: `Reserve` looks only at the queue, so one has to know that
no other task is past its reservation, and that a task which is about to insert a
session holds the active entry. `LaneInv` says who holds what at each step of a hand-over:
pending entries have nothing in progress (`PendingFresh`), a live session belongs to the
active entry (`LaneExclusive`), a holder's entry is active and unmarked until it is marked
(`Holds`), at most one task can move the active entry (`OneMover`), a monitor exists only once
its entry was started (`MonitorBorn`), what is true at each program counter (`Steps`), a
session's life (`SessionLife`), and that recorded successes are real (`SuccessReal`).
`TypesPreserved` and `LaneInvPreserved` go through the actions one by one. Assumptions: the kinds of
items are disjoint, a setup has a base version, handlers are not numbers.

On this invariant rest five arguments of their own:
- The refinement (`PromiseIsKept`): what the lane shows of an entry (`StatusOf`) changes by one step of `SerialLane` or not at
  all. Queueing is `Submit`, a removal, a failed start and a failed prerequisite are `Drop`, the insertion of the session is `Begin` and
  its terminal record `End`. `Begin` asks that nothing runs: a running entry would have a live session, which
  would be the active entry's, and the active entry has no worker yet.
- Ownership (`LaneHasOwner`): whoever stops being responsible for the active entry releases it, hands it to its monitor, or was
  dropped by a disconnect (`Owned`).
- Outcomes (`OutcomesAreTrue`): an entry with an outcome has left the queue for good, and a monitor records a failure over a success
  only if the session was gone when it looked, which only `PruneByPerformanceOperation` brings about (`Faith`).
- Cleanup (`FailuresAreCleaned`): every way a setup's content can fail passes a cleanup, which removes the instance or gives up,
  and no instance becomes pristine after its creation (`Care`). `UsedIsKept` rests on the lifecycle lock: it is never with a
  cleanup and a content operation at once (`Apart`), and who holds it for a removal is at that step (`Guarded`).
- Eviction (`ReferencedSurvive`): the table of outcomes shrinks only where the queue is written, and every such step evicts by what the
  queue it leaves behind refers to (`SetQueueSpares`), never by the queue it has found.

**Launch sessions.** The invariant is `TypeOK` and, for each session, `Good`: the record's child is the process the
runner is at (`Counted`); a stop request has marked the record before it kills (`Stopping`); in the first
attempt, an end that was reported is an end (`FirstOver`) and its reason true (`Judged`); and what each
process's wait task and watchdog have done by now (`Spawned`). It has one lemma per action. The refinement of `InstanceUse`
assumes `~Recoverable` and adds that a launch on its way holds the lifecycle lock (`Held`), that an active session is on
record (`Recorded`) and that one of them uses the instance (`Exclusive`); every step then is one of
`InstanceUse`'s or leaves its variables alone.

**Content.** `Staged` (a transaction that has touched nothing has an
empty backup, and what it is about to put in place meets an empty place) is inductive
with the types. On it rest three arguments:
- `CleanRollback`, assuming `Reliable` (undoing a rename works): every failure that is
  reported rolls back, also when operations before it died half-way. The invariant `Undoable` says that undoing the moves
  recorded in `backup` and `applied` gives exactly the directory the operation found; every
  forward step and every step of the rollback keeps it, in whatever order the
  items of a plan are taken.
- `NoUserFileLost`, assuming `Considerate` (the user does not take files away during a
  download): the invariant `Spared` says that a file the provider does not know is
  never at a place the transaction moves aside or removes. Without the
  assumption the property is false: a managed file that the user replaces while the
  install downloads is moved aside and deleted with the backup.
- `CommitsAreComplete` and `RequirementsKept`, without either assumption: the invariant `Transactional` says that entries record files of
  their own project (`OwnFiles`), what the request has established about the new manifest before it touched a file, and that no wait
  undoes it (`Planned`), that the directory is at every step the old one with some files moved aside and some put in place, all of them at the
  end (`Placed`), that what goes away is the unchanged file of an entry that changes, and all of it (`Cleared`), and that the manifest is the old
  one until it is the new one (`Saved`). A commit is then complete because a file of another entry is neither
  at a destination nor moved aside.

**Managed mods.** A snapshot is whole because copies are made before the entry that lists them, an entry is removed before its
copies, and `CleanUp` keeps what any retained entry or the latest pointer lists; each is a conjunct of the
invariant at the steps in between. The user's files survive because no tracked name is the user's, and whatever a job will delete or replace is a
tracked name or one it has claimed, so that a file which appears there is counted as risked (`Apart`); what an attempt fetches is
tracked or claimed (`FetchTracks`).

An install is complete by an invariant of two parts: an attempt offers one release per project and fetches nothing before the last stale file is gone
(`Chosen`); and as long as the user has edited nothing, what it has fetched stays (`InPlace`) and what is to go is gone or still
on its list (`Swept`), the files of the attempts before included. That a failure restores needs what the job has read (`Remembered`), that the
newest snapshot is its own, with copies of the files it found (`Snapped`), and that a restore puts every copy under its name and
deletes none of them (`Restored`). Both were checked by TLC on the run's instance before they were proved.

**Performance operations.** One execution per instance follows from the fact that a task that is waiting or working has
the active entry of its instance; once per life from the fact that an operation is pending, or has a
task, or neither, and never returns: one that is still to be executed has not run in this life; the agreement with the journal from what
each place of a task says about its entry and about every earlier entry the snapshot may still show.

The refinement (`LedgerIsKept`) needs one more fact, the converse of the first: whatever memory shows as waiting is in the hands of a handler, a task or
the resume pass (`Attended`). Then an open operation holds the active entry of its instance, so a request that finds no conflict opens the
only one. One lemma per action says which step of the ledger it is: `Request`; `Save` or nothing for a report of progress; `Begin` or `End` for an
execution; `Tell` for a record; `Restart` for the load of the files, of which those to be resumed become due again. Spawning, resuming
and the last event of the stream leave the ledger alone.

**Managed runtimes.** Until `exposed`, the invariant `Orderly` holds: the holder of the lock is the only task that
installs (`Alone`), what a gone task leaves behind is harmless (`LeftBehind`), and each task has found the
runtime as its step requires (`Fine`).

**Benchmarks.** A driver that has not ended has the suite's entry; one that was told to stop is past the check
(`Told`, `LastTurn`). `ResumedOnce` rests on `Once`: how often a driver was resumed, the copies of it under way and the file are
related. One that could be resumed after a restart, because its file or a copy that may land says so, has been resumed no
oftener than writes of the pass were missed (`Revivable`); a pass waits for its own writes, so when it is done with a driver the file
says so, or a write of it failed or met another (`Settled`, `Passing`, `Met`).

**Update.** A task that has not ended and whose epoch is the flow's is the one that is shown (`TaskCurrent`), it has staged what its step says
(`TaskStages`), what is ready is staged (`ReadyStaged`), one replacement runs at a time (`OneReplacer`), what runs is not newer than what is on disk
(`RunningOnDisk`) and what is shown is newer than that (`OnlyNewer`).

Only model-checked: liveness, which is beyond the provers (`EveryEntryLeaves`, `UnbootedSessionEnds`, `EveryOperationEnds`,
`EveryRequestEnds`, `EveryDriverEnds`, `FlowSettles`). Every safety property that a passing run checks is also proved, `FailuresRollBack`
and `UserFilesKept` of the content and `ExclusiveUse` of the sessions under the assumptions named above.

## 6. What is not modelled

- Data without state: parsing, path building, version rules, loader profiles, argument
  construction, hashing, the plan of a download. The decision tables of the Guardian, the
  performance planner and the content resolver enter only through their results.
- The journals of installs and launches, which nothing but the views reads back, and the file of the failure memory: changed under a
  lock and written outside it, so that an older snapshot may be the last on disk. The entries of performance operations are modelled.
- Login, accounts and the secure store: a conversation with external services, and chunks behind
  one trait whose slots are covered by unit tests. Skins: an index and a file per texture under one lock.
- Event streams: a snapshot and then a subscription, so that a terminal status in the gap is not
  sent; `LaunchSession` has the statuses they would carry.
- The instance store (a locked map with one atomically replaced file), duplication and renaming of instances, the plan cache.
- Launch reports, configuration, flags, telemetry, presence, shell, frontend, build and assets.

## 7. Plan

What is left, in this order:

1. `ManagedMods` under the ledger of `PerformanceOperations`, with the direct requests that run beside the queue.
2. An abstract specification of a content transaction, whole or not at all, and `ContentFiles` as an implementation of it:
   `Placed` and `Undoable` are the start.
3. `SecureStore`: the two-slot snapshot of accounts with a crash between any two writes, as a refinement of an atomic save.
4. The event streams over the statuses of `LaunchSession`.

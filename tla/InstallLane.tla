----------------------------- MODULE InstallLane -----------------------------
(***************************************************************************)
(* The install lane of the API process: the queue of                       *)
(* apps/api/src/state/installs.rs, driven by the HTTP handlers and the     *)
(* monitor tasks of apps/api/src/application/install.rs, and the workers   *)
(* that run one install or content operation each.                         *)
(*                                                                         *)
(* Several tasks drive the lane at once.  A task that reserves the head of *)
(* the queue has to start it, mark it started and spawn its monitor; the   *)
(* monitor waits for the terminal progress, records the outcome and drives *)
(* the next entry.  Nothing but these hand-overs keeps the lane going, and *)
(* every step below is one acquisition of a lock of InstallStore, so the   *)
(* hand-overs interleave as they do in the program.                        *)
(*                                                                         *)
(* Queue ids are 1, 2, ... in the order they are generated.  An install    *)
(* session has the id of the queue entry that inserted it, and the monitor *)
(* of an entry is the task with that entry's id.                           *)
(***************************************************************************)
EXTENDS Integers, Sequences, SequencesExt, FiniteSets

CONSTANTS
  Versions,      \* what a vanilla or loader install makes launchable
  Contents,      \* content operations on instances that already exist
  Setups,        \* content operations that own the instance they populate
  Base,          \* Base[s]: the version the instance of setup s runs
  Callers,       \* HTTP handlers in flight
  MaxEntries,    \* bound of the model: queue ids handed out
  MaxOutcomes,   \* MAX_COMPLETED_QUEUE_OUTCOMES (256)
  Disconnects    \* may a client disconnect drop the handler's future?

ASSUME KindAssumption ==
  /\ Versions \cap Contents = {}
  /\ Versions \cap Setups = {}
  /\ Contents \cap Setups = {}
ASSUME BaseAssumption == Base \in [Setups -> Versions]
ASSUME BoundAssumption == MaxEntries \in Nat /\ MaxOutcomes \in Nat
ASSUME CallerAssumption == Callers \cap Int = {}
ASSUME DisconnectAssumption == Disconnects \in BOOLEAN

Items    == Versions \cup Contents \cup Setups
EntryIds == 1 .. MaxEntries
OptId    == 0 .. MaxEntries          \* an id, or 0 for None
Tasks    == Callers \cup EntryIds
NoActive == [qid |-> 0, install |-> 0]

VARIABLES
  \* InstallQueueInner
  active,          \* the entry that has the lane, install = 0 until marked
  pending,         \* queue ids, head first
  completed,       \* queue id -> succeeded
  completedOrder,  \* the keys of completed, oldest first
  \* InstallStore.installs, sessions of the lane only
  installs,
  \* generated queue ids and the spec each was given
  entries,
  \* the tasks
  pc, job, held, install,
  worker,          \* the worker task of each session
  late,            \* sessions whose progress forwarder outlived its worker
  \* the disk
  ready,           \* versions installed and launchable
  instance,        \* the instance each setup created
  lock,            \* whose cleanup has found it untouched and is about to remove it
  \* history
  verdict,         \* the terminal progress each session published
  lost,            \* done sessions pruned before the lane was released
  abandoned        \* ways in which a handler left the lane without driving it

queueVars  == <<active, pending, completed, completedOrder>>
taskVars   == <<pc, job, held, install>>
diskVars   == <<ready, instance, lock>>
historyVars == <<lost, abandoned>>
vars == <<queueVars, installs, entries, taskVars, worker, late, diskVars,
          verdict, historyVars>>

-----------------------------------------------------------------------------
(* InstallQueueInner *)

SpecOf(q) == entries[q]
Referenced(act, pend) ==
  {entries[q].prereq : q \in ({act.qid} \cup ToSet(pend)) \cap DOMAIN entries}

\* Mutant of Expired: it forgets what entries wait for.
Expired_Unreferenced(order, act, pend) ==
  ToSet(SubSeq(order, 1, Len(order) - MaxOutcomes))
\* prune_queue_outcomes: while the table is over its limit, evict the oldest
\* outcome that no active or pending entry names as its prerequisite.
Expired(order, act, pend) ==
  LET loose  == {i \in DOMAIN order : order[i] \notin Referenced(act, pend)}
      excess == Len(order) - MaxOutcomes
      older(i) == {k \in loose : k < i}
  IN  {order[i] : i \in {i \in loose : Cardinality(older(i)) < excess}}

\* The queue becomes (act, pend) and the outcome table (table, order) is pruned.
SetQueue(act, pend, table, order) ==
  LET gone == Expired(order, act, pend)
  IN  /\ active' = act
      /\ pending' = pend
      /\ completed' = [q \in DOMAIN table \ gone |-> table[q]]
      /\ completedOrder' = SelectSeq(order, LAMBDA q : q \notin gone)

\* active.take() followed by record_queue_outcome.
ReleaseWithOutcome(q, ok) ==
  SetQueue(NoActive, pending,
           [p \in DOMAIN completed \cup {q} |-> IF p = q THEN ok ELSE completed[p]],
           Append(SelectSeq(completedOrder, LAMBDA p : p # q), q))

\* enqueue_queued_install: an equal spec that is active or pending is reused,
\* a retry moves a pending one to the front.
Enqueue(spec, atFront) ==
  LET q     == Len(entries) + 1
      same  == {p \in EntryIds \cap DOMAIN entries : entries[p] = spec}
      queuedAt == {i \in DOMAIN pending : pending[i] \in same}
  IN  IF active.qid \in same
      THEN UNCHANGED <<queueVars, entries>>
      ELSE IF queuedAt # {}
      THEN \E i \in queuedAt :
             /\ \A k \in queuedAt : i <= k
             /\ pending' = IF atFront THEN <<pending[i]>> \o RemoveAt(pending, i)
                                      ELSE pending
             /\ UNCHANGED <<active, completed, completedOrder, entries>>
      ELSE /\ q \in EntryIds
           /\ entries' = Append(entries, spec)
           /\ pending' = IF atFront THEN <<q>> \o pending ELSE Append(pending, q)
           /\ UNCHANGED <<active, completed, completedOrder>>

-----------------------------------------------------------------------------
(* InstallStore.installs: latest is "progress" until a terminal record; the *)
(* records before it, and their absence, are not told apart.               *)

\* prune_done_entries
Live(table) == {s \in DOMAIN table : ~table[s].done}

\* insert_entry and the insert half of insert_or_existing_active_scoped
InsertSession(s, key) ==
  installs' = [r \in Live(installs) \cup {s} |->
                 IF r = s THEN [key |-> key, latest |-> "progress",
                                finishing |-> FALSE, done |-> FALSE]
                          ELSE installs[r]]

\* Publishing a record: it becomes the snapshot and, when it is terminal, the
\* record every subscriber of the session receives.
Publish(s, record, terminal) ==
  /\ installs' = [installs EXCEPT ![s].latest = record, ![s].done = terminal,
                                  ![s].finishing = FALSE]
  /\ verdict' = [verdict EXCEPT ![s] = IF terminal THEN record ELSE @]

\* emit_record and finish_if_active: an entry that is done or claimed by the
\* interruption handler ignores every other record.
EmitRecord(s, record, terminal) ==
  IF s \in DOMAIN installs /\ ~installs[s].done /\ ~installs[s].finishing
  THEN Publish(s, record, terminal)
  ELSE UNCHANGED <<installs, verdict>>

\* insert() of a queued performance operation prunes the sessions of the lane
\* as well (performance/workflow/operations.rs).
PruneByPerformanceOperation ==
  /\ Live(installs) # DOMAIN installs
  /\ installs' = [s \in Live(installs) |-> installs[s]]
  /\ lost' = lost \cup ((DOMAIN installs \ Live(installs)) \cap {active.qid})
  /\ UNCHANGED <<queueVars, entries, taskVars, worker, late, diskVars, verdict,
                 abandoned>>

-----------------------------------------------------------------------------
(* The instance a setup owns *)

\* An instance is untouched when it equals its baseline; that a cleanup wanted to
\* remove it and gave up is history.
Untouched == {"pristine", "spared"}

\* A content worker or a cleanup of the lane has the instance's lifecycle lock.
Mutating(s) == \E q \in DOMAIN entries : entries[q].item = s /\ worker[q] = "mutating"
Locked(s) == lock[s] # 0 \/ Mutating(s)

\* Mutant of ComparesInstance: nothing is compared.
ComparesInstance_AnyState(x, s) ==
  /\ s \in Setups /\ ~Locked(s)
  /\ lock' = [lock EXCEPT ![s] = x]
  /\ UNCHANGED instance

\* remove_pristine_setup_instance, run by task or worker x: with the lifecycle lock
\* it compares the instance with the baseline, and removes it without looking again.
ComparesInstance(x, s) ==
  /\ s \in Setups /\ ~Locked(s)
  /\ instance[s] \in Untouched
  /\ lock' = [lock EXCEPT ![s] = x]
  /\ UNCHANGED instance

\* Somebody has the lock (a listing, a toggle, a launch or a deletion outside the
\* lane too), there is an active session or no baseline, or something differs.
Spare(s) ==
  instance' = IF s \in Setups /\ instance[s] = "pristine"
              THEN [instance EXCEPT ![s] = "spared"] ELSE instance
GivesUp(x, s) ==
  /\ s \in Setups => lock[s] # x
  /\ Spare(s)
  /\ UNCHANGED lock

\* The removal, which leaves everything as it was when the registry cannot be saved.
RemovesInstance(x, s) ==
  /\ s \in Setups /\ lock[s] = x
  /\ lock' = [lock EXCEPT ![s] = 0]
  /\ instance' = [instance EXCEPT ![s] = "removed"] \/ Spare(s)

CleanupEnds(x, s) == GivesUp(x, s) \/ RemovesInstance(x, s)

\* The user edits or plays the instance, which its creation made visible.
UserTouches(s) ==
  /\ instance[s] \in Untouched
  /\ instance' = [instance EXCEPT ![s] = "touched"]
  /\ UNCHANGED <<queueVars, installs, entries, taskVars, worker, late, ready,
                 lock, verdict, historyVars>>

-----------------------------------------------------------------------------
(* HTTP handlers: requests *)

Idle == [kind |-> "none", item |-> "none", prereq |-> 0]
GoTo(t, l) == pc' = [pc EXCEPT ![t] = l]

\* Bound of the model: a request is admitted while enough queue ids are left
\* for it and for the handlers that still have entries to queue.
Owed == 2 * Cardinality({c \in Callers : pc[c] = "enqueueBase"})
        + Cardinality({c \in Callers : job[c].kind = "base" /\ pc[c] # "enqueueBase"})
Room(n) == Len(entries) + Owed + n <= MaxEntries

\* GET /install/queue
StatusRequest(c) ==
  /\ pc[c] = "idle"
  /\ pending # <<>>
  /\ GoTo(c, "reserve")
  /\ UNCHANGED <<queueVars, installs, entries, job, held, install, worker, late,
                 diskVars, verdict, historyVars>>

\* POST /install/queue and /install/queue/retry, which place at the front
EnqueueRequest(c, item, retry) ==
  /\ pc[c] = "idle"
  /\ Room(1)
  /\ Enqueue([item |-> item, prereq |-> 0], retry)
  /\ GoTo(c, "reserve")
  /\ UNCHANGED <<installs, job, held, install, worker, late, diskVars, verdict,
                 historyVars>>

\* Instance setup creates the instance and queues the base version it lacks.
SetupRequest(c, s) ==
  /\ pc[c] = "idle"
  /\ Room(2)
  /\ instance[s] = "absent"
  /\ instance' = [instance EXCEPT ![s] = "pristine"]
  /\ GoTo(c, IF Base[s] \in ready THEN "enqueueContent" ELSE "enqueueBase")
  /\ job' = [job EXCEPT ![c] = [kind |-> "base", item |-> s, prereq |-> 0]]
  /\ UNCHANGED <<queueVars, installs, entries, held, install, worker, late,
                 ready, lock, verdict, historyVars>>

EnqueueBase(c) ==
  /\ pc[c] = "enqueueBase"
  /\ Enqueue([item |-> Base[job[c].item], prereq |-> 0], FALSE)
  /\ GoTo(c, "reserve")
  /\ UNCHANGED <<installs, job, held, install, worker, late, diskVars, verdict,
                 historyVars>>

EnqueueContent(c) ==
  /\ pc[c] = "enqueueContent"
  /\ Enqueue([item |-> job[c].item, prereq |-> job[c].prereq], FALSE)
  /\ GoTo(c, "reserve")
  /\ job' = [job EXCEPT ![c].kind = "content"]
  /\ UNCHANGED <<installs, held, install, worker, late, diskVars, verdict,
                 historyVars>>

\* DELETE /install/queue/{id}: only a pending entry leaves, without an outcome.
RemoveRequest(c, q) ==
  /\ pc[c] = "idle"
  /\ \E i \in DOMAIN pending :
       /\ pending[i] = q
       /\ SetQueue(active, RemoveAt(pending, i), completed, completedOrder)
  /\ IF entries[q].item \in Setups
     THEN /\ GoTo(c, "removeInstance")
          /\ job' = [job EXCEPT ![c] = [Idle EXCEPT !.item = entries[q].item]]
     ELSE UNCHANGED <<pc, job>>
  /\ UNCHANGED <<installs, entries, held, install, worker, late, diskVars,
                 verdict, historyVars>>

\* The cleanup of a removed setup entry, and of a setup whose content could not
\* be queued: both end the handler.
RemoveInstance(c) ==
  /\ pc[c] = "removeInstance"
  /\ \/ ComparesInstance(c, job[c].item) /\ UNCHANGED <<pc, job>>
     \/ /\ CleanupEnds(c, job[c].item)
        /\ GoTo(c, "idle")
        /\ job' = [job EXCEPT ![c] = Idle]
  /\ UNCHANGED <<queueVars, installs, entries, held, install, worker, late,
                 ready, verdict, historyVars>>

\* queue_create_install_or_rollback: the instance is removed whatever it holds,
\* without the lock, and an error of the removal is ignored.
RollbackInstance(c) ==
  /\ pc[c] = "rollback"
  /\ instance' = [instance EXCEPT ![job[c].item] = "removed"] \/ UNCHANGED instance
  /\ GoTo(c, "idle")
  /\ job' = [job EXCEPT ![c] = Idle]
  /\ UNCHANGED <<queueVars, installs, entries, held, install, worker, late,
                 ready, lock, verdict, historyVars>>

-----------------------------------------------------------------------------
(* maybe_start_next_queued_install, run by handlers and monitors alike *)

\* Where a handler goes when its drive of the lane returns Err.
AfterError(t) == IF t \in EntryIds THEN "reserve"
                 ELSE IF job[t].kind = "base" THEN "rollback"
                 ELSE IF job[t].kind = "content" THEN "removeInstance"
                 ELSE "idle"

\* Mutant of Reserve: the lane is not checked.
Reserve_IgnoresActive(t) ==
  /\ pc[t] = "reserve"
  /\ IF pending = <<>>
     THEN /\ GoTo(t, IF t \in Callers THEN "respond" ELSE "over")
          /\ UNCHANGED <<active, pending, held>>
     ELSE /\ active' = [qid |-> Head(pending), install |-> 0]
          /\ pending' = Tail(pending)
          /\ held' = [held EXCEPT ![t] = Head(pending)]
          /\ GoTo(t, "check")
  /\ UNCHANGED <<completed, completedOrder, installs, entries, job, install,
                 worker, late, diskVars, verdict, historyVars>>

Reserve(t) ==
  /\ pc[t] = "reserve"
  /\ IF active.qid # 0 \/ pending = <<>>
     THEN /\ GoTo(t, IF t \in Callers THEN "respond" ELSE "over")
          /\ UNCHANGED <<active, pending, held>>
     ELSE /\ active' = [qid |-> Head(pending), install |-> 0]
          /\ pending' = Tail(pending)
          /\ held' = [held EXCEPT ![t] = Head(pending)]
          /\ GoTo(t, "check")
  /\ UNCHANGED <<completed, completedOrder, installs, entries, job, install,
                 worker, late, diskVars, verdict, historyVars>>

\* Mutants of PrerequisiteMet: having an outcome is enough; nothing is checked.
PrerequisiteMet_AnyOutcome(q) ==
  entries[q].prereq = 0 \/ entries[q].prereq \in DOMAIN completed
PrerequisiteMet_Unchecked(q) == TRUE

\* queued_install_succeeded: dependent content needs a recorded success.
PrerequisiteMet(q) ==
  LET p == entries[q].prereq
  IN  p = 0 \/ (p \in DOMAIN completed /\ completed[p])

CheckPrerequisite(t) ==
  /\ pc[t] = "check"
  /\ GoTo(t, IF PrerequisiteMet(held[t]) THEN "start" ELSE "failDependent")
  /\ UNCHANGED <<queueVars, installs, entries, job, held, install, worker,
                 late, diskVars, verdict, historyVars>>

\* Mutant of FailDependent: the reservation is not completed.
FailDependent_KeepsReservation(t) ==
  /\ pc[t] = "failDependent"
  /\ GoTo(t, "discard")
  /\ UNCHANGED <<queueVars, installs, entries, job, held, install, worker, late,
                 diskVars, verdict, historyVars>>

FailDependent(t) ==
  /\ pc[t] = "failDependent"
  /\ IF active.qid = held[t] THEN ReleaseWithOutcome(held[t], FALSE)
                             ELSE UNCHANGED queueVars
  /\ GoTo(t, "discard")
  /\ UNCHANGED <<installs, entries, job, held, install, worker, late, diskVars,
                 verdict, historyVars>>

DiscardInstance(t) ==
  /\ pc[t] = "discard"
  /\ \/ ComparesInstance(t, entries[held[t]].item) /\ UNCHANGED <<pc, held>>
     \/ /\ CleanupEnds(t, entries[held[t]].item)
        /\ held' = [held EXCEPT ![t] = 0]
        /\ GoTo(t, "reserve")
  /\ UNCHANGED <<queueVars, installs, entries, job, install, worker, late,
                 ready, verdict, historyVars>>

\* start_install_version and start_loader_install join a session of the same
\* key that is not done; start_content_operation always inserts one.
StartInstall(t) ==
  LET q    == held[t]
      item == entries[q].item
      same == {s \in Live(installs) : installs[s].key = item}
  IN  /\ pc[t] = "start"
      /\ GoTo(t, "mark")
      /\ IF item \in Versions /\ same # {}
         THEN /\ install' = [install EXCEPT ![t] = CHOOSE s \in same : TRUE]
              /\ UNCHANGED <<installs, worker>>
         ELSE /\ InsertSession(q, IF item \in Versions THEN item ELSE "none")
              /\ install' = [install EXCEPT ![t] = q]
              /\ worker' = [worker EXCEPT ![q] = "running"]
      /\ UNCHANGED <<queueVars, entries, job, held, late, diskVars, verdict,
                     historyVars>>

\* The library is not configured, or the loader build cannot be resolved.
StartFails(t) ==
  /\ pc[t] = "start"
  /\ entries[held[t]].item \in Versions
  /\ GoTo(t, "startFailed")
  /\ UNCHANGED <<queueVars, installs, entries, job, held, install, worker,
                 late, diskVars, verdict, historyVars>>

\* A handler returns the error to its client, a monitor tries the next entry.
RecordStartFailure(t) ==
  /\ pc[t] = "startFailed"
  /\ IF active.qid = held[t] THEN ReleaseWithOutcome(held[t], FALSE)
                             ELSE UNCHANGED queueVars
  /\ held' = [held EXCEPT ![t] = 0]
  /\ GoTo(t, AfterError(t))
  /\ IF t \in Callers
     THEN /\ abandoned' = abandoned \cup {"startFailed"}
          /\ job' = IF AfterError(t) = "idle" THEN [job EXCEPT ![t] = Idle] ELSE job
     ELSE UNCHANGED <<abandoned, job>>
  /\ UNCHANGED <<installs, entries, install, worker, late, diskVars, verdict, lost>>

MarkStarted(t) ==
  /\ pc[t] = "mark"
  /\ active' = IF active.qid = held[t] THEN [active EXCEPT !.install = install[t]]
                                       ELSE active
  /\ GoTo(t, IF t \in Callers THEN "respond" ELSE "spawn")
  /\ UNCHANGED <<pending, completed, completedOrder, installs, entries, job,
                 held, install, worker, late, diskVars, verdict, historyVars>>

\* The response is built from a snapshot of the queue, in which a setup looks
\* for the base install it has to wait for; then the monitor is spawned.
QueuedBase(version) ==
  LET found == {q \in ToSet(pending) \cup {active.qid} :
                  q # 0 /\ entries[q].item = version}
  IN  IF found = {} THEN 0
      ELSE IF active.qid \in found THEN active.qid
      ELSE CHOOSE q \in found : TRUE

\* spawn_install_queue_monitor, for the entry the task started if it did
SpawnMonitor(t, next, nextJob) ==
  /\ pc' = IF held[t] = 0 THEN [pc EXCEPT ![t] = next]
                          ELSE [pc EXCEPT ![t] = next, ![held[t]] = "subscribe"]
  /\ install' = IF held[t] = 0 THEN install
                ELSE [install EXCEPT ![t] = 0, ![held[t]] = install[t]]
  /\ held' = [held EXCEPT ![t] = 0]
  /\ job' = nextJob
  /\ UNCHANGED <<queueVars, installs, entries, worker, late, diskVars, verdict,
                 historyVars>>

Respond(c) ==
  /\ pc[c] = "respond"
  /\ IF job[c].kind = "base"
     THEN SpawnMonitor(c, "enqueueContent",
                       [job EXCEPT ![c].prereq = QueuedBase(Base[job[c].item])])
     ELSE SpawnMonitor(c, "idle", [job EXCEPT ![c] = Idle])

\* Mutant of SpawnNextMonitor: the started install is not monitored.
SpawnNextMonitor_Forgets(m) ==
  /\ pc[m] = "spawn"
  /\ GoTo(m, "over")
  /\ held' = [held EXCEPT ![m] = 0]
  /\ UNCHANGED <<queueVars, installs, entries, job, install, worker, late,
                 diskVars, verdict, historyVars>>

SpawnNextMonitor(m) ==
  /\ pc[m] = "spawn"
  /\ SpawnMonitor(m, "over", job)

\* The client goes away and the handler's future is dropped at an await; there is
\* none between the comparison of an instance and its removal.
Disconnect(c) ==
  /\ Disconnects
  /\ pc[c] # "idle"
  /\ \A s \in Setups : lock[s] # c
  /\ GoTo(c, "idle")
  /\ job' = [job EXCEPT ![c] = Idle]
  /\ held' = [held EXCEPT ![c] = 0]
  /\ install' = [install EXCEPT ![c] = 0]
  /\ abandoned' = abandoned \cup {"disconnect"}
  /\ UNCHANGED <<queueVars, installs, entries, worker, late, diskVars, verdict, lost>>

-----------------------------------------------------------------------------
(* Monitors: spawn_install_queue_monitor *)

Outcome(ok) == IF ok THEN "recordSuccess" ELSE "recordFailure"

\* Mutant of Subscribe: every done session counts as a success.
Subscribe_ErrorIgnored(m) ==
  LET s == install[m]
  IN  /\ pc[m] = "subscribe"
      /\ GoTo(m, IF s \notin DOMAIN installs THEN Outcome(FALSE)
                 ELSE IF installs[s].done THEN Outcome(TRUE)
                 ELSE "receive")
      /\ UNCHANGED <<queueVars, installs, entries, job, held, install, worker,
                     late, diskVars, verdict, historyVars>>

\* wait_for_install_terminal: a session that is gone counts as failed.
Subscribe(m) ==
  LET s == install[m]
  IN  /\ pc[m] = "subscribe"
      /\ GoTo(m, IF s \notin DOMAIN installs THEN Outcome(FALSE)
                 ELSE IF installs[s].done THEN Outcome(installs[s].latest = "ok")
                 ELSE "receive")
      /\ UNCHANGED <<queueVars, installs, entries, job, held, install, worker,
                     late, diskVars, verdict, historyVars>>

ReceiveTerminal(m) ==
  /\ pc[m] = "receive"
  /\ verdict[install[m]] # "none"
  /\ GoTo(m, Outcome(verdict[install[m]] = "ok"))
  /\ UNCHANGED <<queueVars, installs, entries, job, held, install, worker,
                 late, diskVars, verdict, historyVars>>

RecordOutcome(m) ==
  /\ pc[m] \in {"recordSuccess", "recordFailure"}
  /\ IF active.install = install[m]
     THEN ReleaseWithOutcome(active.qid, pc[m] = "recordSuccess")
     ELSE UNCHANGED queueVars
  /\ GoTo(m, "reserve")
  /\ install' = [install EXCEPT ![m] = 0]
  /\ UNCHANGED <<installs, entries, job, held, worker, late, diskVars, verdict,
                 historyVars>>

-----------------------------------------------------------------------------
(* Workers: start_install_version, start_loader_install,                   *)
(* start_content_operation, and the supervision of spawn_tracked_worker_*   *)

Is(s, state) == s \in DOMAIN entries /\ worker[s] = state
WorkerTo(s, state) == worker' = [worker EXCEPT ![s] = state]
NoSetup(s) == entries[s].item \notin Setups
WorkerUnchanged == UNCHANGED <<queueVars, entries, taskVars, historyVars>>

\* The content of a setup needs its instance, the lifecycle lock of it, which is
\* not waited for, and a launchable version.
BeginMutation(s) ==
  LET setup == entries[s].item
  IN  /\ Is(s, "running")
      /\ setup \in Contents \cup Setups
      /\ WorkerTo(s, IF NoSetup(s) THEN "mutating"
                     ELSE IF /\ Base[setup] \in ready
                             /\ instance[setup] \in Untouched \cup {"touched"}
                             /\ lock[setup] = 0
                          THEN "mutating" ELSE "cleaning")
      /\ WorkerUnchanged /\ UNCHANGED <<installs, late, diskVars, verdict>>

WorkerSucceeds(s) ==
  LET item == entries[s].item
  IN  /\ Is(s, IF item \in Versions THEN "running" ELSE "mutating")
      /\ WorkerTo(s, "succeeded")
      /\ ready' = IF item \in Versions THEN ready \cup {item} ELSE ready
      /\ instance' = IF item \in Setups THEN [instance EXCEPT ![item] = "touched"]
                                        ELSE instance
      /\ WorkerUnchanged /\ UNCHANGED <<installs, late, lock, verdict>>

\* Mutant of WorkerFails: a failed setup is not cleaned up.
WorkerFails_NoCleanup(s) ==
  /\ Is(s, "running") \/ Is(s, "mutating")
  /\ WorkerTo(s, "failed")
  /\ WorkerUnchanged /\ UNCHANGED <<installs, late, diskVars, verdict>>

WorkerFails(s) ==
  /\ Is(s, "running") \/ Is(s, "mutating")
  /\ WorkerTo(s, IF NoSetup(s) THEN "failed" ELSE "cleaning")
  /\ WorkerUnchanged /\ UNCHANGED <<installs, late, diskVars, verdict>>

CleanUpAfterFailure(s) ==
  /\ Is(s, "cleaning")
  /\ \/ ComparesInstance(s, entries[s].item) /\ UNCHANGED worker
     \/ CleanupEnds(s, entries[s].item) /\ WorkerTo(s, "failed")
  /\ WorkerUnchanged /\ UNCHANGED <<installs, late, ready, verdict>>

PublishTerminal(s) ==
  /\ Is(s, "succeeded") \/ Is(s, "failed")
  /\ EmitRecord(s, IF worker[s] = "succeeded" THEN "ok" ELSE "error", TRUE)
  /\ WorkerTo(s, "returned")
  /\ WorkerUnchanged /\ UNCHANGED <<late, diskVars>>

\* The worker task dies; the task that forwards its progress records lives on.
WorkerPanics(s) ==
  /\ Is(s, "running") \/ Is(s, "mutating")
  /\ WorkerTo(s, "returned")
  /\ late' = late \cup {s}
  /\ WorkerUnchanged /\ UNCHANGED <<installs, diskVars, verdict>>

ForwardLateProgress(s) ==
  /\ s \in late
  /\ late' = late \ {s}
  /\ EmitRecord(s, "progress", FALSE)
  /\ WorkerUnchanged /\ UNCHANGED <<worker, diskVars>>

\* finish_if_active, or claim_interrupted_finish for a content operation
SuperviseReturn(s) ==
  /\ Is(s, "returned")
  /\ IF entries[s].item \in Versions
     THEN EmitRecord(s, "error", TRUE) /\ WorkerTo(s, "gone")
     ELSE /\ UNCHANGED verdict
          /\ IF s \in DOMAIN installs /\ ~installs[s].done /\ ~installs[s].finishing
             THEN /\ installs' = [installs EXCEPT ![s].finishing = TRUE]
                  /\ WorkerTo(s, "claimed")
             ELSE WorkerTo(s, "gone") /\ UNCHANGED installs
  /\ WorkerUnchanged /\ UNCHANGED <<late, diskVars>>

HandleInterruption(s) ==
  /\ Is(s, "claimed")
  /\ \/ ComparesInstance(s, entries[s].item) /\ UNCHANGED worker
     \/ CleanupEnds(s, entries[s].item) /\ WorkerTo(s, "handled")
  /\ WorkerUnchanged /\ UNCHANGED <<installs, late, ready, verdict>>

\* finish_claimed_interruption
FinishClaimed(s) ==
  /\ Is(s, "handled")
  /\ IF s \in DOMAIN installs /\ installs[s].finishing /\ ~installs[s].done
     THEN Publish(s, "error", TRUE) ELSE UNCHANGED <<installs, verdict>>
  /\ WorkerTo(s, "gone")
  /\ WorkerUnchanged /\ UNCHANGED <<late, diskVars>>

-----------------------------------------------------------------------------
Init ==
  /\ active = NoActive
  /\ pending = <<>>
  /\ completed = [q \in {} |-> FALSE]
  /\ completedOrder = <<>>
  /\ installs = [s \in {} |-> FALSE]
  /\ entries = <<>>
  /\ pc = [t \in Tasks |-> IF t \in Callers THEN "idle" ELSE "unborn"]
  /\ job = [c \in Callers |-> Idle]
  /\ held = [t \in Tasks |-> 0]
  /\ install = [t \in Tasks |-> 0]
  /\ worker = [s \in EntryIds |-> "none"]
  /\ late = {}
  /\ ready = {}
  /\ instance = [s \in Setups |-> "absent"]
  /\ verdict = [s \in EntryIds |-> "none"]
  /\ lock = [s \in Setups |-> 0]
  /\ lost = {}
  /\ abandoned = {}

Request(c) ==
  \/ StatusRequest(c)
  \/ \E item \in Versions \cup Contents, retry \in BOOLEAN : EnqueueRequest(c, item, retry)
  \/ \E s \in Setups : SetupRequest(c, s)
  \/ \E q \in EntryIds : RemoveRequest(c, q)

Drive(t) ==
  \/ Reserve(t)
  \/ CheckPrerequisite(t)
  \/ FailDependent(t)
  \/ DiscardInstance(t)
  \/ StartInstall(t)
  \/ StartFails(t)
  \/ RecordStartFailure(t)
  \/ MarkStarted(t)

Handle(c) ==
  \/ EnqueueBase(c)
  \/ EnqueueContent(c)
  \/ RemoveInstance(c)
  \/ RollbackInstance(c)
  \/ Drive(c)
  \/ Respond(c)

Monitor(m) ==
  \/ Subscribe(m)
  \/ ReceiveTerminal(m)
  \/ RecordOutcome(m)
  \/ Drive(m)
  \/ SpawnNextMonitor(m)

Work(s) ==
  \/ BeginMutation(s)
  \/ WorkerSucceeds(s)
  \/ WorkerFails(s)
  \/ CleanUpAfterFailure(s)
  \/ PublishTerminal(s)
  \/ SuperviseReturn(s)
  \/ HandleInterruption(s)
  \/ FinishClaimed(s)

Next ==
  \/ \E c \in Callers : Request(c) \/ Handle(c) \/ Disconnect(c)
  \/ \E m \in EntryIds : Monitor(m)
  \/ \E s \in EntryIds : Work(s) \/ WorkerPanics(s) \/ ForwardLateProgress(s)
  \/ \E s \in Setups : UserTouches(s)
  \/ PruneByPerformanceOperation

Spec == Init /\ [][Next]_vars

\* The runtime polls every handler in flight, and some spawned task as long as one
\* of them can go on, which is less than it does; an install or content operation
\* ends.  Nobody has to send another request.
FairSpec ==
  /\ Spec
  /\ \A c \in Callers : WF_vars(Handle(c))
  /\ WF_vars(\E q \in EntryIds : Monitor(q) \/ Work(q))

-----------------------------------------------------------------------------
(* Properties *)

DrivePcs == {"reserve", "check", "failDependent", "discard", "start",
             "startFailed", "mark"}
HandlerPcs == DrivePcs \cup {"idle", "respond", "enqueueBase", "enqueueContent",
                             "removeInstance", "rollback"}
WatchPcs   == {"subscribe", "receive", "recordSuccess", "recordFailure"}
MonitorPcs == DrivePcs \cup WatchPcs \cup {"unborn", "spawn", "over"}
WorkerStates == {"none", "running", "mutating", "cleaning", "succeeded", "failed",
                 "returned", "claimed", "handled", "gone"}
Specs == [item : Items, prereq : OptId]
Sessions == [key : Versions \cup {"none"}, finishing : BOOLEAN, done : BOOLEAN,
             latest : {"progress", "ok", "error"}]
Jobs == [kind : {"none", "base", "content"}, item : Setups \cup {"none"},
         prereq : OptId]

\* Every variable holds a value of its type, and a handler in the middle of a
\* setup knows which one.
TypeOK ==
  /\ active \in [qid : OptId, install : OptId]
  /\ pending \in Seq(EntryIds)
  /\ DOMAIN completed \subseteq EntryIds
  /\ \A q \in DOMAIN completed : completed[q] \in BOOLEAN
  /\ DOMAIN installs \subseteq EntryIds
  /\ \A s \in DOMAIN installs : installs[s] \in Sessions
  /\ entries \in Seq(Specs)
  /\ Len(entries) <= MaxEntries
  /\ pc \in [Tasks -> HandlerPcs \cup MonitorPcs]
  /\ \A c \in Callers : pc[c] \in HandlerPcs
  /\ \A m \in EntryIds : pc[m] \in MonitorPcs
  /\ job \in [Callers -> Jobs]
  /\ \A c \in Callers :
       pc[c] \in {"enqueueBase", "enqueueContent"} \/ job[c].kind = "base" =>
         job[c].item \in Setups
  /\ held \in [Tasks -> OptId]
  /\ install \in [Tasks -> OptId]
  /\ worker \in [EntryIds -> WorkerStates]
  /\ late \subseteq EntryIds
  /\ ready \subseteq Versions
  /\ instance \in [Setups -> {"absent", "pristine", "spared", "touched", "removed"}]
  /\ lock \in [Setups -> Tasks \cup {0}]
  /\ verdict \in [EntryIds -> {"none", "ok", "error"}]
  /\ lost \subseteq EntryIds
  /\ abandoned \subseteq {"startFailed", "disconnect"}

\* A session that has not published its terminal progress belongs to the entry
\* that has the lane, so no two installs or content operations ever run at the
\* same time, whoever started them.
LaneExclusive ==
  \A s \in Live(installs) : active.qid = s

\* The lane is released only once the session it was marked started with has
\* published its terminal progress: the hand-over of the queue never overtakes
\* a running install.
ReleaseAfterTerminal ==
  [][active' # active /\ active.install # 0 => verdict[active.install] # "none"]_vars

\* Content that waits for a base install starts only when that install really
\* ended well, not merely when it left the queue.
PrerequisiteDone(q) ==
  entries[q].prereq # 0 => verdict[entries[q].prereq] = "ok"
DependentAfterBase ==
  \A q \in DOMAIN entries : worker[q] # "none" => PrerequisiteDone(q)

\* The recorded outcome of an entry is the one its session published; a success
\* recorded as a failure is possible only for a session that the insert of a
\* performance operation pruned before its monitor could read it.
OutcomeFaithful ==
  \A q \in DOMAIN completed :
    /\ completed[q] => verdict[q] = "ok"
    /\ verdict[q] = "ok" /\ ~completed[q] => q \in lost

\* An outcome that some active or pending entry waits for is never evicted.
ReferencedNeverEvicted ==
  [][\A q \in DOMAIN completed \cap Referenced(active', pending') :
       q \in DOMAIN completed']_vars

\* The task that has to move entry q on: it holds q, or it is q's monitor.
Responsible(t, q) ==
  \/ held[t] = q /\ pc[t] # "discard"
  \/ t = q /\ pc[t] \in WatchPcs

\* An entry that has the lane always has exactly one task that will release it,
\* unless a disconnect dropped that task.
LaneOwned ==
  active.qid # 0 =>
    /\ \A t, u \in Tasks : Responsible(t, active.qid) /\ Responsible(u, active.qid) => t = u
    /\ (\E t \in Tasks : Responsible(t, active.qid)) \/ "disconnect" \in abandoned

\* An instance that somebody has used, or that a content operation is changing, is
\* neither chosen for removal nor removed by anything but the rollback of a create
\* request whose install could not be queued.  A change made outside the launcher
\* after a cleanup has compared the instance goes with it.
InUse(s) == (instance[s] = "touched" /\ lock[s] = 0) \/ Mutating(s)
UsedInstanceKept ==
  [][\A s \in Setups :
       InUse(s) /\ (lock'[s] # 0 \/ (instance'[s] = "removed" /\ instance[s] # "removed")) =>
         \E c \in Callers : pc[c] = "rollback" /\ job[c].item = s]_vars

\* However the content of a setup fails or dies, its instance is not left behind
\* untouched unless a cleanup has tried to remove it and gave up.
FailedSetupCleanedUp ==
  \A q \in DOMAIN entries :
    verdict[q] = "error" /\ entries[q].item \in Setups => instance[entries[q].item] # "pristine"

\* Every queued entry leaves the queue, unless a handler abandoned the lane.
EveryEntryLeaves ==
  \A q \in EntryIds :
    (q \in ToSet(pending) \/ active.qid = q) ~>
      (q \notin ToSet(pending) /\ active.qid # q) \/ abandoned # {}
-----------------------------------------------------------------------------
(* The invariant from which the safety of the lane follows: who holds what at  *)
(* each step of a hand-over.  InstallLaneProofs proves it inductive.           *)

\* Pending entries are known, distinct, not active and have not been worked on.
PendingFresh ==
  \A i \in DOMAIN pending :
    /\ pending[i] \in DOMAIN entries
    /\ pending[i] # active.qid
    /\ worker[pending[i]] = "none"
    /\ \A j \in DOMAIN pending : pending[i] = pending[j] => i = j

\* A session of the lane has the id of the entry that has the lane.
ActiveKnown ==
  /\ active.qid # 0 => active.qid \in DOMAIN entries
  /\ active.install \in {0, active.qid}

\* A session that was started is live until it publishes its verdict.
SessionLife ==
  /\ \A s \in DOMAIN installs :
       /\ worker[s] # "none"
       /\ installs[s].done => verdict[s] = installs[s].latest /\ verdict[s] # "none"
       /\ ~installs[s].done => verdict[s] = "none"
  /\ \A s \in EntryIds :
       /\ worker[s] # "none" => s \in DOMAIN entries
       /\ worker[s] = "none" => verdict[s] = "none"
       /\ worker[s] # "none" /\ verdict[s] = "none" => s \in Live(installs)

\* A task holds an entry exactly between reserving it and handing it on.
HoldPcs == {"check", "failDependent", "discard", "start", "startFailed", "mark", "spawn"}
Holds ==
  \A t \in Tasks :
    /\ held[t] # 0 => pc[t] \in HoldPcs \cup {"respond"}
    /\ pc[t] \in HoldPcs => held[t] \in DOMAIN entries

\* A monitor is spawned once its entry is worked on, and then nobody holds it.
MonitorBorn ==
  \A q \in EntryIds : pc[q] # "unborn" =>
    worker[q] # "none" /\ \A t \in Tasks : held[t] = q => pc[t] = "discard"

\* Only the entry that has the lane is moved, and by one task.
OneMover ==
  /\ \A t \in Tasks, q \in EntryIds : Responsible(t, q) => active.qid = q
  /\ \A t, u \in Tasks, q \in EntryIds : Responsible(t, q) /\ Responsible(u, q) => t = u

\* What each step of a hand-over may rely on.
StepsOf(t) ==
  /\ pc[t] \in {"check", "failDependent", "start", "startFailed"} =>
       worker[held[t]] = "none"
  /\ pc[t] = "mark" => install[t] = held[t] /\ worker[held[t]] # "none"
  /\ pc[t] \in {"respond", "spawn"} /\ held[t] # 0 =>
       install[t] = held[t] /\ active.install = held[t]
  /\ pc[t] \in WatchPcs => install[t] = t /\ active.install = t
  /\ pc[t] \in {"recordSuccess", "recordFailure"} => t \notin Live(installs)
  /\ pc[t] = "recordSuccess" => verdict[t] = "ok"
  /\ pc[t] = "start" => PrerequisiteDone(held[t])
Steps == \A t \in Tasks : StepsOf(t)

\* The lane holds a started session from its mark to its outcome.
MarkedIsWorked == active.install # 0 => worker[active.install] # "none"

\* A recorded success was published.
SuccessReal == \A q \in DOMAIN completed : completed[q] => verdict[q] = "ok"

LaneInv ==
  /\ PendingFresh
  /\ ActiveKnown
  /\ SessionLife
  /\ LaneExclusive
  /\ Holds
  /\ MonitorBorn
  /\ OneMover
  /\ Steps
  /\ MarkedIsWorked
  /\ SuccessReal
  /\ DependentAfterBase

-----------------------------------------------------------------------------
(* Refinement: what the lane shows of each entry *)

StatusOf(q) ==
  IF q \notin DOMAIN entries THEN "unused"
  ELSE IF verdict[q] # "none" THEN verdict[q]
  ELSE IF worker[q] # "none" THEN "running"
  ELSE IF q \in ToSet(pending) \cup {active.qid} THEN "queued"
  ELSE "dropped"

Promise == INSTANCE SerialLane WITH
  Jobs   <- EntryIds,
  status <- [q \in EntryIds |-> StatusOf(q)],
  after  <- [q \in EntryIds |-> IF q \in DOMAIN entries THEN entries[q].prereq ELSE 0]

\* The lane keeps the promise of SerialLane: serial, at most once, in the order
\* of the prerequisites, with results that never change.
KeepsPromise == Promise!Spec

=============================================================================

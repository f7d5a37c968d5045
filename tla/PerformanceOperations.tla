------------------------ MODULE PerformanceOperations ------------------------
(***************************************************************************)
(* The queue of performance operations (apps/api:                          *)
(* state/performance_operations.rs, application/performance/workflow).     *)
(*                                                                         *)
(* A request records an operation for its instance, in memory and in a     *)
(* file of its own, and a task executes it: it reports its progress,       *)
(* changes the managed mods (ManagedMods) under a journal entry and        *)
(* records how that ended.  Whoever holds the active entry of an instance  *)
(* keeps other requests out.  After a restart the operations on disk that  *)
(* have not ended become active again and run from their beginning.        *)
(*                                                                         *)
(* A status is changed in memory and then written; the write may fail,     *)
(* which is only logged.  Only the handler or the task of an operation     *)
(* writes its file, and memory does not outlive the process, so both are   *)
(* one action.  All journal entries share a snapshot that is taken and     *)
(* written outside the lock of the records: it may be written late, after  *)
(* a newer one, or not at all.  A request that is not queued executes      *)
(* without an operation here, see the README.                              *)
(***************************************************************************)
EXTENDS Naturals, FiniteSets

CONSTANTS
    Instances,
    MaxOps,         \* bound on the operations requested
    ResumeLimit,    \* MAX_RESUMABLE_OPERATIONS
    MaxCrashes,     \* bound on the crashes
    MaxLost         \* bound on the writes of a status that fail

ASSUME OperationsAssumption ==
    /\ MaxOps \in Nat /\ ResumeLimit \in Nat /\ MaxCrashes \in Nat /\ MaxLost \in Nat
    /\ "none" \notin Instances

VARIABLES
    up,         \* the process runs
    instance,   \* instance[id]: the instance of operation id
    status,     \* status[id]: its state in memory, "none" if it is not there
    disk,       \* disk[id]: the state in its file
    active,     \* active[i]: active_by_instance, 0 when there is none
    pending,    \* pending_resume_ids
    task,       \* task[id]: where its handler or its task is
    journal,    \* journal[id]: the outcome its journal entry shows
    past,       \* past[id]: what the entry has shown since the start of the process, one of
                \* which the snapshot on disk shows
    lastId,     \* the newest id (they are time stamps)
    ran,        \* history: how often id was executed since the start of the process
    cut,        \* history: operations a crash has cut off between execution and record
    crashes, lost

vars == <<up, instance, status, disk, active, pending, task, journal, past, lastId, ran, cut,
          crashes, lost>>

Ids == 1..MaxOps
Waiting == {"queued", "planning", "working"}
Ended == {"complete", "failed", "interrupted"}
States == {"none"} \union Waiting \union Ended
Outcomes == {"none", "running", "succeeded", "failed"}

\* "handler", "dropped": the request has recorded the operation, its future is dropped;
\* "taken": the resume pass has it; the rest is the spawned task.
InCharge == {"handler", "dropped", "taken", "queued", "planning", "working",
             "execute", "mutate", "completing", "failing"}
Places == InCharge \union {"none", "emit"}

Queue == <<instance, active, pending, lastId, cut>>
Journal == <<journal, past>>
Up == up /\ UNCHANGED <<up, crashes>>

Written(id, state) ==
    \/ disk' = [disk EXCEPT ![id] = state] /\ UNCHANGED lost
    \/ lost < MaxLost /\ lost' = lost + 1 /\ UNCHANGED disk

-----------------------------------------------------------------------------
(* Requests (queue_performance_operation).                                 *)

\* Mutant of Conflict: only a request that has not begun keeps others out.
Conflict_Queued(i) == active[i] # 0 /\ status[active[i]] = "queued"

Conflict(i) == active[i] # 0 /\ status[active[i]] \in Waiting

Request(i) ==
    /\ Up
    /\ lastId < MaxOps
    /\ ~Conflict(i)
    /\ lastId' = lastId + 1
    /\ instance' = [instance EXCEPT ![lastId'] = i]
    /\ status' = [status EXCEPT ![lastId'] = "queued"]
    /\ active' = [active EXCEPT ![i] = lastId']
    /\ task' = [task EXCEPT ![lastId'] = "handler"]
    /\ Written(lastId', "queued")
    /\ UNCHANGED <<pending, cut, Journal, ran>>

\* The handler has registered the progress of the operation and spawns its task, or
\* its client has gone and the future is dropped before that.
HandlerEnds(id) ==
    /\ Up
    /\ task[id] = "handler"
    /\ \E next \in {"queued", "dropped"} : task' = [task EXCEPT ![id] = next]
    /\ UNCHANGED <<Queue, status, disk, Journal, ran, lost>>

-----------------------------------------------------------------------------
(* The task (run_queued_performance_operation).                            *)

Following == [s \in Waiting |-> IF s = "queued" THEN "planning"
                                ELSE IF s = "planning" THEN "working" ELSE "execute"]

\* record_progress and the event that tells it.
Report(id) ==
    /\ Up
    /\ task[id] \in Waiting
    /\ task' = [task EXCEPT ![id] = Following[task[id]]]
    /\ IF status[id] \in Waiting
       THEN /\ status' = [status EXCEPT ![id] = task[id]]
            /\ Written(id, task[id])
       ELSE UNCHANGED <<status, disk, lost>>
    /\ UNCHANGED <<Queue, Journal, ran>>

\* The instance is gone or its version unknown: no journal entry is begun.
Refuse(id) ==
    /\ Up
    /\ task[id] = "execute"
    /\ task' = [task EXCEPT ![id] = "failing"]
    /\ UNCHANGED <<Queue, status, disk, Journal, ran, lost>>

\* An update of an entry that is gone, has ended or would become invalid is ignored.
Closed(entry, outcome) == {entry, IF entry = "running" THEN outcome ELSE entry}

\* The entry shows one of these, after it was running.
JournalShows(id, entries) ==
    \E entry \in entries :
        /\ journal' = [journal EXCEPT ![id] = entry]
        /\ past' = [past EXCEPT ![id] = @ \union {"running", entry}]

\* begin_performance_operation_journal replaces an earlier entry of the id, unless the
\* new one is refused; Guardian or an unreadable lock may end the execution before it
\* changes a file.
Begin(id) ==
    /\ Up
    /\ task[id] = "execute"
    /\ ran' = [ran EXCEPT ![id] = @ + 1]
    /\ \/ /\ JournalShows(id, {"running", journal[id]})
          /\ task' = [task EXCEPT ![id] = "mutate"]
       \/ /\ JournalShows(id, Closed("running", "failed") \union Closed(journal[id], "failed"))
          /\ task' = [task EXCEPT ![id] = "failing"]
    /\ UNCHANGED <<Queue, status, disk, lost>>

\* The managed mods were changed, or restored after an error.
Mutated(id) ==
    /\ Up
    /\ task[id] = "mutate"
    /\ \/ /\ JournalShows(id, Closed(journal[id], "succeeded"))
          /\ task' = [task EXCEPT ![id] = "completing"]
       \/ /\ JournalShows(id, Closed(journal[id], "failed"))
          /\ task' = [task EXCEPT ![id] = "failing"]
    /\ UNCHANGED <<Queue, status, disk, ran, lost>>

\* Another command creates an entry, and the table drops those with the smallest ids.
PruneJournal(id) ==
    /\ Up
    /\ journal[id] # "none"
    /\ journal' = [journal EXCEPT ![id] = "none"]
    /\ past' = [past EXCEPT ![id] = @ \union {"none"}]
    /\ UNCHANGED <<Queue, status, disk, task, ran, lost>>

\* Mutant of Outcome: whatever the execution returned, the operation is complete.
Outcome_Complete(id) == "complete"

Outcome(id) == IF task[id] = "completing" THEN "complete" ELSE "failed"

\* record_complete and record_failed.
Record(id) ==
    /\ Up
    /\ task[id] \in {"completing", "failing"}
    /\ task' = [task EXCEPT ![id] = "emit"]
    /\ IF status[id] \in Waiting
       THEN /\ status' = [status EXCEPT ![id] = Outcome(id)]
            /\ active' = [i \in Instances |-> IF i = instance[id] /\ active[i] = id THEN 0
                                              ELSE active[i]]
            /\ Written(id, Outcome(id))
       ELSE UNCHANGED <<status, active, disk, lost>>
    /\ UNCHANGED <<instance, pending, lastId, Journal, ran, cut>>

\* The terminal event of the progress stream.
Emit(id) ==
    /\ Up
    /\ task[id] = "emit"
    /\ task' = [task EXCEPT ![id] = "none"]
    /\ UNCHANGED <<Queue, status, disk, Journal, ran, lost>>

-----------------------------------------------------------------------------
(* Restart.                                                                *)

Crash ==
    /\ up /\ crashes < MaxCrashes
    /\ up' = FALSE
    /\ crashes' = crashes + 1
    /\ status' = [id \in Ids |-> "none"]
    /\ active' = [i \in Instances |-> 0]
    /\ pending' = {}
    /\ task' = [id \in Ids |-> "none"]
    /\ cut' = cut \union {id \in Ids : ran[id] > 0 /\ disk[id] \in Waiting}
    /\ ran' = [id \in Ids |-> 0]
    /\ UNCHANGED <<instance, disk, Journal, lastId, lost>>

\* Mutant of Unended: whatever is on disk counts as unended.
Unended_All == {id \in Ids : disk[id] # "none"}

Unended == {id \in Ids : disk[id] \in Waiting}

\* load_persisted_operation_inner reads the directory in any order: the first operation
\* of an instance is resumed while the limit allows, the others are interrupted.
Resumable(kept) ==
    /\ kept \subseteq Unended
    /\ Cardinality(kept) <= ResumeLimit
    /\ \A id, other \in kept : instance[id] = instance[other] => id = other
    /\ \A id \in Unended \ kept : \/ \E other \in kept : instance[other] = instance[id]
                                  \/ Cardinality(kept) = ResumeLimit

\* Mutant of Cut: what is not resumed is left as it is.
Cut_None(kept) == {}

Cut(kept) == Unended \ kept

\* OperationJournalStore::load_from_paths
LoadJournal ==
    /\ journal' \in [Ids -> Outcomes]
    /\ \A id \in Ids : journal'[id] \in past[id]
    /\ past' = [id \in Ids |-> {journal'[id]}]

Restart(kept, unwritten) ==
    /\ ~up
    /\ up' = TRUE
    /\ Resumable(kept)
    /\ unwritten \subseteq Cut(kept)
    /\ lost + Cardinality(unwritten) <= MaxLost
    /\ lost' = lost + Cardinality(unwritten)
    /\ status' = [id \in Ids |-> IF id \in Cut(kept) THEN "interrupted" ELSE disk[id]]
    /\ disk' = [id \in Ids |-> IF id \in Cut(kept) \ unwritten THEN "interrupted" ELSE disk[id]]
    /\ active' = [i \in Instances |->
                    IF \E id \in kept : instance[id] = i
                    THEN CHOOSE id \in kept : instance[id] = i ELSE 0]
    /\ pending' = kept
    /\ LoadJournal
    /\ UNCHANGED <<instance, task, lastId, ran, cut, crashes>>

Resumed == [id \in Ids |-> IF id \in pending /\ status[id] \in Waiting THEN "taken" ELSE task[id]]

\* Mutant of TakePending: the list is read and not emptied.
TakePending_Kept ==
    /\ Up
    /\ pending # {}
    /\ task' = Resumed
    /\ UNCHANGED <<Queue, status, disk, Journal, ran, lost>>

\* take_pending_resumable_operations
TakePending ==
    /\ Up
    /\ pending # {}
    /\ pending' = {}
    /\ task' = Resumed
    /\ UNCHANGED <<instance, active, lastId, cut, status, disk, Journal, ran, lost>>

Resume(id) ==
    /\ Up
    /\ task[id] = "taken"
    /\ task' = [task EXCEPT ![id] = "queued"]
    /\ UNCHANGED <<Queue, status, disk, Journal, ran, lost>>

-----------------------------------------------------------------------------
Init ==
    /\ up = TRUE
    /\ instance = [id \in Ids |-> "none"]
    /\ status = [id \in Ids |-> "none"]
    /\ disk = [id \in Ids |-> "none"]
    /\ active = [i \in Instances |-> 0]
    /\ pending = {}
    /\ task = [id \in Ids |-> "none"]
    /\ journal = [id \in Ids |-> "none"]
    /\ lastId = 0
    /\ past = [id \in Ids |-> {"none"}]
    /\ ran = [id \in Ids |-> 0] /\ cut = {}
    /\ crashes = 0 /\ lost = 0

Work(id) == Report(id) \/ Refuse(id) \/ Begin(id) \/ Mutated(id) \/ Record(id) \/ Emit(id) \/ Resume(id)

Recover == \E kept, unwritten \in SUBSET Ids : Restart(kept, unwritten)

Next ==
    \/ \E i \in Instances : Request(i)
    \/ \E id \in Ids : HandlerEnds(id) \/ Work(id) \/ PruneJournal(id)
    \/ Crash \/ Recover \/ TakePending

Spec == Init /\ [][Next]_vars

\* Tasks are run, downloads have time limits, and the process is started again.
FairSpec ==
    /\ Spec
    /\ \A id \in Ids : WF_vars(Work(id))
    /\ WF_vars(Recover) /\ WF_vars(TakePending)

-----------------------------------------------------------------------------
(* Properties.                                                             *)

\* Every variable keeps its shape.
TypeOK ==
    /\ up \in BOOLEAN
    /\ instance \in [Ids -> Instances \union {"none"}]
    /\ status \in [Ids -> States] /\ disk \in [Ids -> States]
    /\ active \in [Instances -> Ids \union {0}]
    /\ pending \subseteq Ids
    /\ task \in [Ids -> Places]
    /\ journal \in [Ids -> Outcomes] /\ past \in [Ids -> SUBSET Outcomes]
    /\ lastId \in Ids \union {0}
    /\ ran \in [Ids -> Nat] /\ cut \subseteq Ids
    /\ crashes \in Nat /\ lost \in Nat

\* At most one queued operation of an instance changes its mods at a time, also when
\* requests come in before the resume pass has run and when failed writes have left
\* several unended operations of one instance on disk.
OneExecution ==
    \A id, other \in Ids :
        task[id] = "mutate" /\ task[other] = "mutate" /\ instance[id] = instance[other] => id = other

\* An operation runs at most once between two starts of the process, whatever handler
\* and resume pass do.
OncePerLife == \A id \in Ids : ran[id] <= 1

\* An end that has reached the disk is final: no restart and no late report of a task
\* revives, repeats or renames it.
RecordedIsFinal ==
    [][\A id \in Ids : disk[id] \in Ended => disk'[id] = disk[id] /\ ran'[id] <= ran[id]]_vars

\* The journal entry shown as the proof of an operation never contradicts its status,
\* however late, reordered or lost its writes are, unless a crash has cut off an
\* execution of the operation from its record.
ProofAgrees ==
    \A id \in Ids \ cut :
        /\ status[id] = "complete" => journal[id] # "failed"
        /\ status[id] = "failed" => journal[id] # "succeeded"

\* Every operation whose task was spawned ends, over crashes and restarts, unless the
\* writes of its status failed and it is gone.
EveryOperationEnds ==
    \A id \in Ids :
        task[id] \in Waiting ~> status[id] \in Ended \/ (up /\ lost > 0 /\ status[id] = "none")

-----------------------------------------------------------------------------
(* Refinement: what the operations show to their clients.                  *)

Shown(state) == IF state \in Waiting THEN "open" ELSE state

PhaseOf(id) ==
    IF task[id] = "mutate" THEN "doing"
    ELSE IF task[id] = "completing" THEN "complete"
    ELSE IF task[id] = "failing" THEN "failed"
    ELSE IF task[id] \in InCharge \/ id \in pending THEN "due" ELSE "idle"

Told == [id \in Ids |-> Shown(status[id])]
Kept == [id \in Ids |-> Shown(disk[id])]
Phase == [id \in Ids |-> PhaseOf(id)]

Ledger == INSTANCE OperationLedger WITH
    Jobs <- Ids, Owners <- Instances, owner <- instance,
    told <- Told, kept <- Kept, phase <- Phase

\* Handlers, tasks and the resume pass together keep the ledger: at most one open
\* operation of an instance, none executed twice in a life of the process, and ends
\* that are true and, once saved, final.
KeepsLedger == Ledger!Spec
=============================================================================

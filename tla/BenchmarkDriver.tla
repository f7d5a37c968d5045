--------------------------- MODULE BenchmarkDriver ---------------------------
(***************************************************************************)
(* A benchmark suite of one instance and its drivers (apps/api:            *)
(* application/launch/benchmark.rs, state/benchmark_suites.rs,             *)
(* state/benchmark_suite_drivers.rs).                                      *)
(*                                                                         *)
(* The manifest names, for each planned run, the session that was launched *)
(* for it.  A driver is a task: it reads the manifest, waits while a       *)
(* session it names is active, and else launches the first run without a   *)
(* session: prepare a queued session, reserve the run in the manifest,     *)
(* launch, report the outcome in the manifest.  A client may do the same   *)
(* by hand, and drop its request; the user may stop the game, which also   *)
(* reports an outcome.  Everybody reads the whole manifest, changes the    *)
(* copy and writes the whole file, without a lock.                         *)
(*                                                                         *)
(* A file is written in place: it is truncated first, and a reader in      *)
(* between, or after a crash, finds it torn.  The status of a driver is    *)
(* copied under the lock and written after it is released, so writes of    *)
(* one driver may meet and land in either order; a write may fail, which   *)
(* is only logged.  The state of a run in the manifest is left out: the    *)
(* drivers read the session names only.                                    *)
(***************************************************************************)
EXTENDS Naturals, FiniteSets

CONSTANTS
    MaxRuns,        \* the runs of the plan
    MaxDrivers,     \* bound on the drivers started
    MaxSessions,    \* bound on the sessions prepared
    Clients,        \* who launches runs without a driver, and stops games
    ResumeLimit,    \* MAX_RESUMABLE_DRIVERS
    MaxCrashes,     \* bound on the crashes
    MaxLost,        \* bound on the writes that fail
    MaxRequests     \* bound on the launches, and the stops of games and drivers, asked for

ASSUME BenchmarkAssumption ==
    /\ MaxRuns \in Nat /\ MaxDrivers \in Nat /\ MaxSessions \in Nat /\ ResumeLimit \in Nat
    /\ MaxCrashes \in Nat /\ MaxLost \in Nat /\ MaxRequests \in Nat
    /\ Clients \intersect Nat = {}

VARIABLES
    up,             \* the process runs
    file,           \* the manifest is absent, whole or torn
    manifest,       \* manifest[r]: the session of run r in the file, 0 if none
    session,        \* session[s]: its state in memory
    lastSession,    \* the newest session (ids are random, never reused)
    pc,             \* pc[w]: where the loop, request or report of w is
    view,           \* view[w]: the manifest as w read it, or is about to write it
    writing,        \* writing[w]: how far its write is
    pick,           \* pick[w]: the run it launches
    launched,       \* launched[w]: the session it prepared
    status,         \* status[d]: the state of driver d in memory
    disk,           \* disk[d]: the state in its file, "none" when no file can be loaded
    saving,         \* the copies of statuses whose write is under way
    stop,           \* stop[d]: what its stop channel says
    active,         \* the entry of the suite in active_by_suite, 0 if none
    lastDriver,     \* next_id
    pending,        \* pending_resume_ids
    resuming,       \* the drivers the resume pass has taken and not yet resumed
    resumed,        \* history: how often the resume pass started a driver for d
    missed,         \* history: the pass's writes of d that failed or met another write
    late,           \* history: the sessions d prepared after it was told to stop
    crashes, lost, requests

vars == <<up, file, manifest, session, lastSession, pc, view, writing, pick, launched, status,
          disk, saving, stop, active, lastDriver, pending, resuming, resumed, missed, late,
          crashes, lost, requests>>

Runs == 1..MaxRuns
Drivers == 1..MaxDrivers
Sessions == 1..MaxSessions
Launchers == Drivers \union Clients

Unnamed == [r \in Runs |-> 0]
Manifests == [Runs -> 0..MaxSessions]

Going == {"scheduled", "active", "launched_next"}
\* "consumed": interrupted, with the error of an automatic resume that was begun.
Over == {"complete", "failed", "stopped", "interrupted", "consumed"}

Places == {"none", "top", "decide", "prepare", "reserve", "launch", "ran", "failed", "stopped",
           "sleep"}

\* Who writes the status of a driver: its loop (or the request that starts it), a request
\* to stop it, the resume pass.
Hands == {"loop", "stop", "pass"}

Suite == <<file, manifest>>
Games == <<session, lastSession>>
Locals == <<view, writing, pick, launched>>
Records == <<status, active, saving>>
Files == <<disk, missed, lost>>
Resumption == <<pending, resuming, resumed>>
Bounds == <<crashes, requests>>
Up == up /\ UNCHANGED up

-----------------------------------------------------------------------------
(* The manifest file.                                                      *)

Pending(m) == {r \in Runs : m[r] = 0}
IsNext(m, r) == r \in Pending(m) /\ \A q \in Pending(m) : r <= q

Readable == file # "torn"

\* w has read the manifest and begins to write m.
BeginWrite(w, m) ==
    /\ view' = [view EXCEPT ![w] = m]
    /\ writing' = [writing EXCEPT ![w] = "open"]

-----------------------------------------------------------------------------
(* The status of a driver (BenchmarkSuiteDriverStore).                     *)

Copies == [of : Drivers, by : Hands, state : Going \union Over, met : BOOLEAN]
Copy(by, d, state) == [of |-> d, by |-> by, state |-> state, met |-> FALSE]

Meets(e, C) == \E c \in C : c.of = e.of

\* persist_transition of each copy of C, which has been made under the lock: the write is
\* yet to come, and meets the ones of the same driver that are under way.
Persist(C) ==
    saving' = {[e EXCEPT !.met = @ \/ Meets(e, C)] : e \in saving}
              \union {[c EXCEPT !.met = Meets(c, saving)] : c \in C}

UnderWay(d, by) == {e \in saving : e.of = d /\ e.by = by}

\* Two writers of one driver share the name of the temporary file: a rename may install
\* what the other has written, and one that finds the file gone removes the status.
Landed(e) == {f.state : f \in {g \in saving : g.of = e.of}} \union (IF e.met THEN {"none"} ELSE {})

\* persist_status_to_dir.  A failing rename may have removed the status.  Stops of one
\* driver may have copied the same: another of them is then still to come.
Save(d, by) ==
    /\ Up
    /\ \E e \in UnderWay(d, by) :
          /\ \/ saving' = saving \ {e}
             \/ by = "stop" /\ e.met /\ UNCHANGED saving
          /\ \/ \E state \in Landed(e) : disk' = [disk EXCEPT ![d] = state]
                /\ missed' = [missed EXCEPT ![d] = IF by = "pass" /\ e.met THEN @ + 1 ELSE @]
                /\ UNCHANGED lost
             \/ /\ lost < MaxLost /\ lost' = lost + 1
                /\ \E state \in {disk[d], "none"} : disk' = [disk EXCEPT ![d] = state]
                /\ missed' = [missed EXCEPT ![d] = IF by = "pass" THEN @ + 1 ELSE @]
    /\ UNCHANGED <<Suite, Games, pc, Locals, status, active, stop, lastDriver, Resumption, late,
                   Bounds>>

Kept == UNCHANGED Records

\* update_non_terminal: record_active, record_launched.
RecordGoing(d, state) ==
    IF status[d] \in Going
    THEN /\ status' = [status EXCEPT ![d] = state]
         /\ Persist({Copy("loop", d, state)})
         /\ UNCHANGED active
    ELSE Kept

\* Mutant of RecordEnd: the end of a driver that has ended frees the suite again.
RecordEnd_Always(d, state) ==
    /\ status' = [status EXCEPT ![d] = IF @ \in Going THEN state ELSE @]
    /\ active' = 0
    /\ Persist({Copy("loop", d, status'[d])})

\* update_terminal: record_complete, record_failed, record_stopped.
RecordEnd(d, state) ==
    IF status[d] \in Going
    THEN /\ status' = [status EXCEPT ![d] = state]
         /\ active' = 0
         /\ Persist({Copy("loop", d, state)})
    ELSE Kept

Conflict == active # 0 /\ status[active] \in Going

\* start, and the spawn of the loop.
Started ==
    /\ ~Conflict
    /\ lastDriver < MaxDrivers
    /\ lastDriver' = lastDriver + 1
    /\ status' = [status EXCEPT ![lastDriver'] = "scheduled"]
    /\ stop' = [stop EXCEPT ![lastDriver'] = FALSE]
    /\ active' = lastDriver'
    /\ pc' = [pc EXCEPT ![lastDriver'] = "top"]
    /\ late' = [late EXCEPT ![lastDriver'] = 0]
    /\ missed' = [missed EXCEPT ![lastDriver'] = 0]
    /\ UNCHANGED <<disk, lost>>

Start ==
    /\ Up
    /\ Readable
    /\ Started
    /\ Persist({Copy("loop", lastDriver', "scheduled")})
    /\ resumed' = [resumed EXCEPT ![lastDriver'] = 0]
    /\ UNCHANGED <<Suite, Games, Locals, pending, resuming, Bounds>>

Startable == file = "whole" /\ Pending(manifest) # {}

\* resume_benchmark_suite_driver, at the request of the user.
Resume(d) ==
    /\ status[d] \in Over
    /\ Startable
    /\ Start

\* Mutant of Stop: the record is changed, the loop is not told.
Stop_RecordOnly(d) ==
    /\ Up
    /\ status[d] \in Going
    /\ status' = [status EXCEPT ![d] = "stopped"]
    /\ active' = IF active = d THEN 0 ELSE active
    /\ requests < MaxRequests /\ requests' = requests + 1
    /\ Persist({Copy("stop", d, "stopped")})
    /\ UNCHANGED <<Suite, Games, pc, Locals, Files, stop, lastDriver, Resumption, late, crashes>>

Stop(d) ==
    /\ Up
    /\ status[d] # "none"
    /\ requests < MaxRequests /\ requests' = requests + 1
    /\ stop' = [stop EXCEPT ![d] = pc[d] # "none"]   \* nobody receives it else
    /\ IF status[d] \in Going
       THEN /\ status' = [status EXCEPT ![d] = "stopped"]
            /\ active' = IF active = d THEN 0 ELSE active
       ELSE UNCHANGED <<status, active>>
    /\ Persist({Copy("stop", d, status'[d])})
    /\ UNCHANGED <<Suite, Games, pc, Locals, Files, lastDriver, Resumption, late, crashes>>

-----------------------------------------------------------------------------
(* The loop of a driver, and the request of a client, at each await.       *)

Moves(l, place) == pc' = [pc EXCEPT ![l] = place]

Ended(l, state) ==
    /\ Moves(l, "none")
    /\ IF l \in Drivers THEN RecordEnd(l, state) ELSE Kept

Waits(d, state) ==
    /\ Moves(d, "sleep")
    /\ RecordGoing(d, state)

LoopTop(d) ==
    /\ Up
    /\ pc[d] = "top" /\ UnderWay(d, "loop") = {}
    /\ IF stop[d] THEN Ended(d, "stopped") /\ UNCHANGED Locals
       ELSE IF ~Readable THEN Ended(d, "failed") /\ UNCHANGED Locals
       ELSE /\ Moves(d, "decide")
            /\ view' = [view EXCEPT ![d] = manifest]
            /\ Kept /\ UNCHANGED <<writing, pick, launched>>
    /\ UNCHANGED <<Suite, Games, Files, stop, lastDriver, Resumption, late, Bounds>>

\* Mutant of Active: a session that has ended still counts.
Active_AnyState(m) == \E r \in Runs : m[r] # 0 /\ session[m[r]] # "none"

\* active_benchmark_suite_session_id
Active(m) == \E r \in Runs : m[r] # 0 /\ session[m[r]] \in {"queued", "live", "ghost"}

Picks(l, r) ==
    /\ Moves(l, "prepare")
    /\ pick' = [pick EXCEPT ![l] = r]
    /\ view' = [view EXCEPT ![l] = Unnamed]
    /\ Kept /\ UNCHANGED <<writing, launched>>

Forgets(l) ==
    /\ view' = [view EXCEPT ![l] = Unnamed]
    /\ UNCHANGED <<writing, pick, launched>>

Decide(d) ==
    /\ Up
    /\ pc[d] = "decide"
    /\ IF Active(view[d]) THEN Waits(d, "active") /\ Forgets(d)
       ELSE IF Pending(view[d]) = {} THEN Ended(d, "complete") /\ Forgets(d)
       ELSE \E r \in Runs : IsNext(view[d], r) /\ Picks(d, r)
    /\ UNCHANGED <<Suite, Games, Files, stop, lastDriver, Resumption, late, Bounds>>

\* A client ticks the suite, asks for its next run, or names a run: then neither the
\* manifest nor the sessions are looked at.
Ask(c) ==
    /\ Up
    /\ pc[c] = "none"
    /\ requests < MaxRequests /\ requests' = requests + 1
    /\ \/ /\ Readable
          /\ Moves(c, "decide")
          /\ view' = [view EXCEPT ![c] = manifest]
          /\ Kept /\ UNCHANGED <<writing, pick, launched>>
       \/ \E r \in Runs : Picks(c, r)
    /\ UNCHANGED <<Suite, Games, Files, stop, lastDriver, Resumption, late, crashes>>

\* A tick decides by what it has read; the other request reads the manifest again.
Answer(c) ==
    /\ Up
    /\ pc[c] = "decide"
    /\ \E m \in {view[c]} \union (IF Readable THEN {manifest} ELSE {}) :
          IF Active(view[c]) \/ Pending(m) = {} THEN Ended(c, "none") /\ Forgets(c)
          ELSE \E r \in Runs : IsNext(m, r) /\ Picks(c, r)
    /\ UNCHANGED <<Suite, Games, Files, stop, lastDriver, Resumption, late, Bounds>>

\* launch_benchmark_suite_run.  prepare_launch_session, under the lifecycle lock of the
\* instance, refuses while a session of the instance is active, and for many other
\* reasons; persist_launched_run follows at once.  When it cannot read the manifest, or
\* cannot write it, the launch fails and leaves the queued session.
Prepare(l) ==
    /\ Up
    /\ pc[l] = "prepare"
    /\ pick' = [pick EXCEPT ![l] = 1]
    /\ \/ /\ Ended(l, "failed")
          /\ UNCHANGED <<Games, view, writing, launched, late>>
       \/ /\ \A s \in Sessions : session[s] \notin {"queued", "live", "ghost"}
          /\ lastSession < MaxSessions
          /\ lastSession' = lastSession + 1
          /\ session' = [session EXCEPT ![lastSession'] = "queued"]
          /\ late' = IF l \in Drivers /\ status[l] \notin Going THEN [late EXCEPT ![l] = @ + 1] ELSE late
          /\ IF Readable
             THEN /\ launched' = [launched EXCEPT ![l] = lastSession']
                  /\ BeginWrite(l, [manifest EXCEPT ![pick[l]] = lastSession'])
                  /\ Moves(l, "reserve") /\ Kept
             ELSE Ended(l, "failed") /\ UNCHANGED <<view, writing, launched>>
    /\ UNCHANGED <<Suite, Files, stop, lastDriver, Resumption, Bounds>>

\* launch_session spawns the game,
Spawn(l) ==
    /\ Up
    /\ pc[l] = "launch"
    /\ session[launched[l]] = "queued"
    /\ session' = [session EXCEPT ![launched[l]] = "live"]
    /\ UNCHANGED <<Suite, lastSession, pc, Locals, Records, Files, stop, lastDriver, Resumption,
                   late, Bounds>>

\* finds it running, even if it has ended since it booted: its report that the game runs
\* then replaces the one of the end, for good unless another end report follows,
Stands(l) ==
    /\ Up
    /\ pc[l] = "launch"
    /\ session[launched[l]] # "queued"
    /\ \E state \in {session[launched[l]]}
                    \union (IF session[launched[l]] = "over" THEN {"ghost"} ELSE {}) :
          session' = [session EXCEPT ![launched[l]] = state]
    /\ Moves(l, "ran")
    /\ UNCHANGED <<Suite, lastSession, Locals, Records, Files, stop, lastDriver, Resumption, late,
                   Bounds>>

\* or gives up: fail_launch ends the session.
Fails(l) ==
    /\ Up
    /\ pc[l] = "launch"
    /\ session' = [session EXCEPT ![launched[l]] = "over"]
    /\ Moves(l, "failed")
    /\ UNCHANGED <<Suite, lastSession, Locals, Records, Files, stop, lastDriver, Resumption, late,
                   Bounds>>

\* What follows the write.
Proceeds(l) ==
    IF pc[l] = "reserve" THEN Moves(l, "launch") /\ Kept /\ UNCHANGED launched
    ELSE /\ launched' = [launched EXCEPT ![l] = 0]
         /\ IF pc[l] = "ran" /\ l \in Drivers THEN Waits(l, "launched_next") ELSE Ended(l, "failed")

\* update_run_state_for_session.  There is nothing to write when the proof was not
\* persisted or no manifest names the session.
Tell(l) ==
    /\ Up
    /\ pc[l] \in {"ran", "failed", "stopped"} /\ writing[l] = "no"
    /\ \/ /\ Readable
          /\ \E r \in Runs : manifest[r] = launched[l]
          /\ BeginWrite(l, manifest)
          /\ Kept /\ UNCHANGED <<pc, launched>>
       \/ Proceeds(l) /\ UNCHANGED <<view, writing>>
    /\ UNCHANGED <<Suite, Games, pick, Files, stop, lastDriver, Resumption, late, Bounds>>

\* The interval is over, or the driver is told to stop.
Wake(d) ==
    /\ Up
    /\ pc[d] = "sleep" /\ UnderWay(d, "loop") = {}
    /\ IF stop[d] THEN Ended(d, "stopped") ELSE Moves(d, "top") /\ Kept
    /\ UNCHANGED <<Suite, Games, Locals, Files, stop, lastDriver, Resumption, late, Bounds>>

\* The client has gone: the request is dropped where it waits for the game.
Drop(c) ==
    /\ Up
    /\ pc[c] = "launch"
    /\ Moves(c, "none")
    /\ launched' = [launched EXCEPT ![c] = 0]
    /\ UNCHANGED <<Suite, Games, view, writing, pick, Records, Files, stop, lastDriver, Resumption,
                   late, Bounds>>

\* fs::write opens the file and truncates it,
Truncate(l) ==
    /\ Up
    /\ writing[l] = "open"
    /\ writing' = [writing EXCEPT ![l] = "fill"]
    /\ file' = "torn"
    /\ manifest' = Unnamed
    /\ UNCHANGED <<Games, pc, view, pick, launched, Records, Files, stop, lastDriver, Resumption,
                   late, Bounds>>

\* and writes the data.  When another writer has written since, the file may end with
\* a rest of what was there.
Fill(l) ==
    /\ Up
    /\ writing[l] = "fill"
    /\ writing' = [writing EXCEPT ![l] = "no"]
    /\ view' = [view EXCEPT ![l] = Unnamed]
    /\ \/ file' = "whole" /\ manifest' = view[l]
       \/ file # "torn" /\ file' = "torn" /\ manifest' = Unnamed
    /\ Proceeds(l)
    /\ UNCHANGED <<Games, pick, Files, stop, lastDriver, Resumption, late, Bounds>>

\* The file cannot be opened or written, and may stay torn: that ends a launch which
\* reserves its run, and is only logged for a report.
WriteRefused(l) ==
    /\ Up
    /\ writing[l] \in {"open", "fill"}
    /\ writing' = [writing EXCEPT ![l] = "no"]
    /\ view' = [view EXCEPT ![l] = Unnamed]
    /\ IF pc[l] = "reserve" THEN Ended(l, "failed") /\ launched' = [launched EXCEPT ![l] = 0]
       ELSE Proceeds(l)
    /\ UNCHANGED <<Suite, Games, pick, Files, stop, lastDriver, Resumption, late, Bounds>>

-----------------------------------------------------------------------------
(* The games.                                                              *)

GameEnds(s) ==
    /\ Up
    /\ session[s] = "live"
    /\ session' = [session EXCEPT ![s] = "over"]
    /\ UNCHANGED <<Suite, lastSession, pc, Locals, Records, Files, stop, lastDriver, Resumption,
                   late, Bounds>>

\* stop_launch_session: the session is over before its outcome is reported.  The child of
\* a ghost has been waited for, and its kill is refused.
StopGame(c, s) ==
    /\ Up
    /\ session[s] = "live"
    /\ pc[c] = "none"
    /\ requests < MaxRequests /\ requests' = requests + 1
    /\ session' = [session EXCEPT ![s] = "over"]
    /\ launched' = [launched EXCEPT ![c] = s]
    /\ Moves(c, "stopped")
    /\ UNCHANGED <<Suite, lastSession, view, writing, pick, Records, Files, stop, lastDriver,
                   Resumption, late, crashes>>

-----------------------------------------------------------------------------
(* Crash and restart.                                                      *)

Crash ==
    /\ up /\ up' = FALSE
    /\ crashes < MaxCrashes /\ crashes' = crashes + 1
    /\ session' = [s \in Sessions |-> IF session[s] = "none" THEN "none" ELSE "over"]
    /\ pc' = [w \in Launchers |-> "none"]
    /\ view' = [w \in Launchers |-> Unnamed]
    /\ writing' = [w \in Launchers |-> "no"]
    /\ pick' = [w \in Launchers |-> 1]
    /\ launched' = [w \in Launchers |-> 0]
    /\ status' = [d \in Drivers |-> "none"] /\ saving' = {}
    /\ stop' = [d \in Drivers |-> FALSE]
    /\ active' = 0 /\ lastDriver' = 0 /\ pending' = {} /\ resuming' = {}
    /\ late' = [d \in Drivers |-> 0]
    /\ UNCHANGED <<Suite, lastSession, Files, resumed, requests>>

\* Mutant of Interrupted: the error of the record is not looked at.
Interrupted_AnyError == {d \in Drivers : disk[d] \in Going \union {"interrupted", "consumed"}}

Interrupted == {d \in Drivers : disk[d] \in Going \union {"interrupted"}}

\* The first ResumeLimit of them, in the order of the directory, wait for the resume pass.
Chosen(P) ==
    /\ P \subseteq Interrupted
    /\ Cardinality(P) <= ResumeLimit
    /\ P # Interrupted => Cardinality(P) = ResumeLimit

\* The writes of load_from_paths, while nothing else runs.
Written(D) ==
    \E F \in SUBSET D : \E G \in SUBSET F :
        /\ lost + Cardinality(F) <= MaxLost
        /\ lost' = lost + Cardinality(F)
        /\ disk' = [d \in Drivers |-> IF d \in G THEN "none"
                                      ELSE IF d \in D \ F THEN status'[d] ELSE disk[d]]

\* load_from_paths
Restart ==
    /\ ~up /\ up' = TRUE
    /\ \E P \in SUBSET Interrupted :
          /\ Chosen(P)
          /\ pending' = P
          /\ status' = [d \in Drivers |-> IF d \in P THEN "interrupted"
                                          ELSE IF d \in Interrupted THEN "consumed" ELSE disk[d]]
    /\ Written({d \in Interrupted : disk[d] # status'[d]})
    /\ \E n \in 0..MaxDrivers :
          /\ n # 0 => disk[n] # "none"
          /\ \A d \in Drivers : disk[d] # "none" => d <= n
          /\ lastDriver' = n
    /\ UNCHANGED <<Suite, Games, pc, Locals, saving, stop, active, resuming, resumed, missed, late,
                   Bounds>>

\* take_restart_interrupted_resumable_drivers
TakePending ==
    /\ Up
    /\ pending # {}
    /\ status' = [d \in Drivers |-> IF d \in pending THEN "consumed" ELSE status[d]]
    /\ Persist({Copy("pass", d, "consumed") : d \in pending})
    /\ resuming' = pending /\ pending' = {}
    /\ UNCHANGED <<Suite, Games, pc, Locals, Files, stop, active, lastDriver, resumed, late,
                   Bounds>>

\* One turn of resume_restart_interrupted_benchmark_suite_drivers, which waits for its own
\* writes: a fresh driver, or none; the record of d is written again in either case.
ResumeNext(d) ==
    /\ Up
    /\ d \in resuming
    /\ \A p \in Drivers : UnderWay(p, "pass") = {}
    /\ resuming' = resuming \ {d}
    /\ \/ /\ Startable
          /\ Started
          /\ resumed' = [resumed EXCEPT ![lastDriver'] = 0, ![d] = @ + 1]
          /\ Persist({Copy("loop", lastDriver', "scheduled"), Copy("pass", d, "consumed")})
       \/ /\ ~Startable \/ Conflict \/ lastDriver = MaxDrivers
          /\ Persist({Copy("pass", d, "consumed")})
          /\ UNCHANGED <<pc, status, stop, active, lastDriver, late, resumed, Files>>
    /\ UNCHANGED <<Suite, Games, Locals, pending, Bounds>>

-----------------------------------------------------------------------------
Init ==
    /\ up = TRUE
    /\ file = "absent" /\ manifest = Unnamed
    /\ session = [s \in Sessions |-> "none"] /\ lastSession = 0
    /\ pc = [w \in Launchers |-> "none"]
    /\ view = [w \in Launchers |-> Unnamed]
    /\ writing = [w \in Launchers |-> "no"]
    /\ pick = [w \in Launchers |-> 1]
    /\ launched = [w \in Launchers |-> 0]
    /\ status = [d \in Drivers |-> "none"]
    /\ disk = [d \in Drivers |-> "none"] /\ saving = {}
    /\ stop = [d \in Drivers |-> FALSE]
    /\ active = 0 /\ lastDriver = 0 /\ pending = {} /\ resuming = {}
    /\ resumed = [d \in Drivers |-> 0]
    /\ missed = [d \in Drivers |-> 0]
    /\ late = [d \in Drivers |-> 0]
    /\ crashes = 0 /\ lost = 0 /\ requests = 0

Launch(l) == Prepare(l) \/ Spawn(l) \/ Stands(l) \/ Fails(l) \/ Tell(l)

Loop(d) == LoopTop(d) \/ Decide(d) \/ Wake(d) \/ Launch(d)

Request(c) == Answer(c) \/ Launch(c)

Write(l) == Truncate(l) \/ Fill(l) \/ WriteRefused(l)

Next ==
    \/ Start
    \/ \E d \in Drivers : Resume(d) \/ Stop(d) \/ Loop(d) \/ ResumeNext(d)
    \/ \E d \in Drivers, by \in Hands : Save(d, by)
    \/ \E c \in Clients : Ask(c) \/ Request(c) \/ Drop(c) \/ \E s \in Sessions : StopGame(c, s)
    \/ \E l \in Launchers : Write(l)
    \/ \E s \in Sessions : GameEnds(s)
    \/ Crash \/ Restart \/ TakePending

Spec == Init /\ [][Next]_vars

\* The tasks are polled and the interval of a driver passes; a game ends, if only by
\* its player; an API that has died is started again.
FairSpec ==
    /\ Spec
    /\ \A d \in Drivers : WF_vars(Loop(d)) /\ WF_vars(ResumeNext(d))
    /\ \A c \in Clients : WF_vars(Request(c))
    /\ \A l \in Launchers : WF_vars(Write(l))
    /\ \A d \in Drivers, by \in {"loop", "pass"} : WF_vars(Save(d, by))
    /\ \A s \in Sessions : WF_vars(GameEnds(s))
    /\ WF_vars(Restart) /\ WF_vars(TakePending)

-----------------------------------------------------------------------------
(* Properties.                                                             *)

TypeOK ==
    /\ up \in BOOLEAN
    /\ file \in {"absent", "whole", "torn"} /\ manifest \in Manifests
    /\ session \in [Sessions -> {"none", "queued", "live", "over", "ghost"}]
    /\ lastSession \in 0..MaxSessions
    /\ pc \in [Launchers -> Places] /\ view \in [Launchers -> Manifests]
    /\ writing \in [Launchers -> {"no", "open", "fill"}]
    /\ pick \in [Launchers -> Nat] /\ launched \in [Launchers -> 0..MaxSessions]
    /\ status \in [Drivers -> Going \union Over \union {"none"}]
    /\ disk \in [Drivers -> Going \union Over \union {"none"}]
    /\ saving \subseteq Copies
    /\ stop \in [Drivers -> BOOLEAN]
    /\ active \in 0..MaxDrivers /\ lastDriver \in 0..MaxDrivers
    /\ pending \subseteq Drivers /\ resuming \subseteq Drivers
    /\ resumed \in [Drivers -> Nat] /\ missed \in [Drivers -> Nat] /\ late \in [Drivers -> Nat]
    /\ crashes \in 0..MaxCrashes /\ lost \in 0..MaxLost /\ requests \in 0..MaxRequests

\* At most one driver of the suite has not ended, and it has the entry of the suite, so
\* that the next request to start one is refused: whatever is stopped, resumed by hand
\* or resumed by itself while loops of stopped drivers still run.
OneDriver == \A d \in Drivers : status[d] \in Going => active = d

\* A driver that was told to stop launches at most the run it was about to launch.
StopIsPrompt == \A d \in Drivers : late[d] <= 1

\* An interrupted driver is resumed by itself once, over any number of restarts, and once
\* more for each time that the write which says so failed, or met the write of a request
\* to stop the driver, which may have copied an older status and land later.
ResumedOnce == \A d \in Drivers : resumed[d] <= missed[d] + 1

\* A queued session the manifest names, and nobody launches any more.
Abandoned ==
    \E r \in Runs : /\ manifest[r] # 0 /\ session[manifest[r]] = "queued"
                    /\ \A l \in Launchers : ~(pc[l] = "launch" /\ launched[l] = manifest[r])

\* A session the manifest names has ended, and its record says it runs.
Haunted == \E r \in Runs : manifest[r] # 0 /\ session[manifest[r]] = "ghost"

\* The driver that keeps others from the suite ends, unless it waits for a session that
\* a dropped request has left behind, or whose end was overwritten.
EveryDriverEnds == Conflict ~> ~Conflict \/ Abandoned \/ Haunted

=============================================================================

------------------------ MODULE LaunchSessionProofs ------------------------
(***************************************************************************)
(* Theorems about LaunchSession: a session has one game and supervises it, *)
(* an end that is reported is an end, and the verdict on it is true and    *)
(* stands, for any sessions, outputs, exits, stops and retries.            *)
(*                                                                         *)
(* The argument: the record's child is the process the runner is at, and a *)
(* process has its wait task from the start of supervision on.  Every task *)
(* that reports an end has first seen its process dead: the wait task has  *)
(* reaped it, the watchdog and the stop request have killed it, and the    *)
(* runner has seen a terminal record or killed a stalled process.  In the  *)
(* first round, where there is one process, a terminal record therefore    *)
(* means a dead game, and the second round begins with that.               *)
(***************************************************************************)
EXTENDS LaunchSession, FiniteSetTheorems, TLAPS

(* Program counters of a runner without a session, before the process of   *)
(* its round, and with that process under observation.                     *)
Unattached == {"none", "locked", "admitted"}
Early == Unattached \union {"preparing", "prepared", "spawn", "fail_spawn"}
Starting == {"register", "registered", "supervise"}
Late == Starting \union {"spawned", "observe", "success", "stalled", "kill_stalled", "exited"}

First(s) == runner[s].recoveries = 0

(* Which process the runner is at, and that the entry has it as its child. *)
Counted(s) ==
    /\ runner[s].pc \in Unattached => entry[s] = NoEntry /\ First(s)
    /\ runner[s].pc \in Early => runner[s].attempt = runner[s].recoveries
    /\ runner[s].pc \in Late => runner[s].attempt = runner[s].recoveries + 1
    /\ runner[s].attempt \in {runner[s].recoveries, runner[s].recoveries + 1}
    /\ entry[s].child = IF runner[s].pc = "register" THEN runner[s].recoveries
                        ELSE runner[s].attempt

(* Processes and their tasks exist up to the attempt of the runner; a wait *)
(* task past its watch has reaped its process, a watchdog that reports has *)
(* killed it.                                                              *)
Spawned(s, n) ==
    /\ proc[s][n].state = "none" <=> n > runner[s].attempt
    /\ waiter[s][n].pc = "none"
          <=> n > runner[s].attempt \/ (n = runner[s].attempt /\ runner[s].pc \in Starting)
    /\ (proc[s][n].pipe = "open" \/ watchdog[s][n] # "none") => waiter[s][n].pc # "none"
    /\ waiter[s][n].pc \notin {"none", "watch"} => proc[s][n].state = "reaped"
    /\ watchdog[s][n] = "report" => ~Live(s, n)

(* A stop request under way was accepted for a process the entry had; in   *)
(* the first round it is on record, and it has killed what it reports.     *)
Stopping(s) ==
    /\ stopper[s].pc # "idle" => entry[s].child # 0
    /\ stopper[s].pc = "kill" => stopper[s].child \in 1..entry[s].child
    /\ First(s) /\ stopper[s].pc # "idle" => "stop" \in entry[s].marks
    /\ First(s) /\ stopper[s].pc \in {"log", "report"} => ~Live(s, 1)

(* The first process is dead once its end was reported, once the runner    *)
(* has seen that, and in the second round; until it is spawned no end is.  *)
FirstOver(s) ==
    /\ ~First(s) => ~Live(s, 1)
    /\ First(s) /\ IsTerminal(entry[s].state) => ~Live(s, 1)
    /\ First(s) /\ runner[s].pc \in {"exited", "fail"} => ~Live(s, 1)
    /\ First(s) /\ runner[s].pc \in Early \union {"register"} => ~IsTerminal(entry[s].state)

(* In the first round the verdict is true of the process, and there is one *)
(* by the time the runner would name another.                              *)
Judged(s) ==
    First(s) /\ entry[s].child # 0 =>
        /\ entry[s].outcome \in {"external_closed", "clean_exit"}
              => ~Live(s, 1) /\ proc[s][1].code = "zero"
        /\ entry[s].outcome = "crashed_before_boot" => ~Live(s, 1) /\ proc[s][1].code = "nonzero"
        /\ entry[s].outcome = "watchdog_killed" => ~Live(s, 1)
        /\ entry[s].outcome = "launcher_stopped" => "stop" \in entry[s].marks
        /\ IsTerminal(entry[s].state) => entry[s].outcome # "none"
        /\ runner[s].pc = "exited" => entry[s].outcome # "none"
        /\ runner[s].pc = "fail" /\ runner[s].class # "stalled" => entry[s].outcome # "none"

Good(s) ==
    /\ Counted(s) /\ Stopping(s) /\ FirstOver(s) /\ Judged(s)
    /\ \A n \in Attempts : Spawned(s, n)

IInv == TypeOK /\ \A s \in Sessions : Good(s)

-----------------------------------------------------------------------------
(* What the store's operators do to a record.                              *)
LEMMA ClassifyType ==
    ASSUME NEW e \in EntryType, NEW next \in States, NEW code, NEW class
    PROVE  Classify(e, next, code, class) \in Outcomes
BY DEF Classify, PostBootOutcome, PreBootOutcome, Outcomes

LEMMA RecordedType ==
    ASSUME NEW e \in EntryType, NEW next \in States, NEW code, NEW class, NEW outcome \in Outcomes
    PROVE  RecordedOutcome(e, next, code, class, outcome) \in Outcomes
BY ClassifyType DEF RecordedOutcome, EntryType

LEMMA StatusFields ==
    ASSUME NEW e \in EntryType, NEW next \in States, NEW code, NEW class, NEW outcome \in Outcomes
    PROVE  LET f == WithStatus(e, next, code, class, outcome) IN
           /\ f \in EntryType
           /\ f.state = next /\ f.child = e.child
           /\ f.outcome = RecordedOutcome(e, next, code, class, outcome)
           /\ "stop" \in f.marks <=> "stop" \in e.marks
<1> DEFINE o == RecordedOutcome(e, next, code, class, outcome)
           m == e.marks \union (IF class = "none" THEN {} ELSE {"failed"})
           f == [e EXCEPT !.state = next, !.outcome = o, !.marks = m]
<1>1. WithStatus(e, next, code, class, outcome) = f
      BY DEF WithStatus
<1>2. o \in Outcomes
      BY RecordedType
<1>3. m \in SUBSET Marks /\ ("stop" \in m <=> "stop" \in e.marks)
      BY DEF EntryType, Marks
<1> HIDE DEF o, m
<1>4. /\ f \in EntryType /\ f.state = next /\ f.child = e.child
      /\ f.outcome = o /\ f.marks = m
      BY <1>2, <1>3 DEF EntryType
<1> QED BY <1>1, <1>3, <1>4 DEF o

LEMMA LineFields ==
    ASSUME NEW e \in EntryType, NEW kind \in AllLines
    PROVE  LET f == WithLine(e, kind) IN
           /\ f \in EntryType
           /\ f.state = e.state \/ (f.state = "running" /\ e.state \in {"starting", "monitoring"})
           /\ f.child = e.child /\ f.outcome = e.outcome
           /\ "stop" \in f.marks <=> "stop" \in e.marks
<1> DEFINE boots == kind = "boot" /\ ~Booted(e)
           m == e.marks \union {"logged"} \union (IF boots THEN {"booted"} ELSE {})
           o == IF boots THEN "none" ELSE e.observed
           heard == [e EXCEPT !.marks = m, !.observed = o]
           shown == IF PromotesToRunning(heard)
                    THEN WithStatus(heard, "running", "none", "none", "none") ELSE heard
           o2 == IF kind \in {"retry", "other"} THEN kind ELSE shown.observed
<1>1. WithLine(e, kind) = [shown EXCEPT !.observed = o2]
      BY DEF WithLine
<1>2. m \in SUBSET Marks /\ ("stop" \in m <=> "stop" \in e.marks)
      BY DEF EntryType, Marks
<1>3. o \in {"none", "retry", "other"}
      BY DEF EntryType
<1>4. /\ heard \in EntryType /\ heard.state = e.state /\ heard.child = e.child
      /\ heard.outcome = e.outcome /\ heard.marks = m
  <2> HIDE DEF m, o
  <2> QED BY <1>2, <1>3 DEF EntryType
<1> HIDE DEF heard, m
<1>5. /\ shown \in EntryType /\ shown.child = e.child /\ shown.outcome = e.outcome
      /\ "stop" \in shown.marks <=> "stop" \in e.marks
      /\ shown.state = e.state \/ (shown.state = "running" /\ e.state \in {"starting", "monitoring"})
  <2>1. CASE PromotesToRunning(heard)
    <3>1. /\ shown \in EntryType /\ shown.state = "running" /\ shown.child = heard.child
          /\ shown.outcome = RecordedOutcome(heard, "running", "none", "none", "none")
          /\ "stop" \in shown.marks <=> "stop" \in heard.marks
          BY <2>1, <1>4, StatusFields DEF States, Outcomes
    <3>2. RecordedOutcome(heard, "running", "none", "none", "none") = heard.outcome
          BY DEF RecordedOutcome, Classify, IsTerminal
    <3> QED BY <2>1, <3>1, <3>2, <1>2, <1>4 DEF PromotesToRunning
  <2>2. CASE ~PromotesToRunning(heard)
        BY <2>2, <1>2, <1>4
  <2> QED BY <2>1, <2>2
<1> HIDE DEF shown
<1>6. o2 \in {"none", "retry", "other"}
      BY <1>5 DEF EntryType
<1> HIDE DEF o2
<1> QED BY <1>1, <1>5, <1>6 DEF EntryType

-----------------------------------------------------------------------------
(* What the building blocks of the actions do to the variables.            *)
LEMMA GotoFields ==
    ASSUME TypeOK, NEW s \in Sessions, NEW pc \in RunnerPCs, Goto(s, pc)
    PROVE  /\ runner' \in [Sessions -> RunnerType]
           /\ runner'[s].pc = pc /\ runner'[s].attempt = runner[s].attempt
           /\ runner'[s].recoveries = runner[s].recoveries
           /\ runner'[s].class = runner[s].class
           /\ \A t \in Sessions \ {s} : runner'[t] = runner[t]
<1> DEFINE r == [runner[s] EXCEPT !.pc = pc]
<1>1. runner[s] \in RunnerType
      BY DEF TypeOK
<1>2. /\ r \in RunnerType /\ r.pc = pc /\ r.attempt = runner[s].attempt
      /\ r.recoveries = runner[s].recoveries /\ r.class = runner[s].class
      BY <1>1 DEF RunnerType
<1>3. runner' = [runner EXCEPT ![s] = r]
      BY DEF Goto
<1> HIDE DEF r
<1> QED BY <1>2, <1>3 DEF TypeOK

LEMMA FailFields ==
    ASSUME TypeOK, NEW s \in Sessions, NEW class \in Classes, FailWith(s, class)
    PROVE  /\ runner' \in [Sessions -> RunnerType]
           /\ runner'[s].pc = "fail" /\ runner'[s].attempt = runner[s].attempt
           /\ runner'[s].recoveries = runner[s].recoveries
           /\ runner'[s].class = class
           /\ \A t \in Sessions \ {s} : runner'[t] = runner[t]
<1> DEFINE r == [runner[s] EXCEPT !.pc = "fail", !.class = class]
<1>1. runner[s] \in RunnerType
      BY DEF TypeOK
<1>2. /\ r \in RunnerType /\ r.pc = "fail" /\ r.attempt = runner[s].attempt
      /\ r.recoveries = runner[s].recoveries /\ r.class = class
      BY <1>1 DEF RunnerType, RunnerPCs
<1>3. runner' = [runner EXCEPT ![s] = r]
      BY DEF FailWith
<1> HIDE DEF r
<1> QED BY <1>2, <1>3 DEF TypeOK

LEMMA EmitFields ==
    ASSUME TypeOK, NEW s \in Sessions, NEW next \in States, NEW code, NEW class,
           NEW outcome \in Outcomes, EmitStatus(s, next, code, class, outcome)
    PROVE  /\ entry' \in [Sessions -> EntryType]
           /\ entry'[s].state = next /\ entry'[s].child = entry[s].child
           /\ entry'[s].outcome = RecordedOutcome(entry[s], next, code, class, outcome)
           /\ "stop" \in entry'[s].marks <=> "stop" \in entry[s].marks
           /\ \A t \in Sessions \ {s} : entry'[t] = entry[t]
<1> DEFINE f == WithStatus(entry[s], next, code, class, outcome)
<1>1. entry[s] \in EntryType
      BY DEF TypeOK
<1>2. /\ f \in EntryType /\ f.state = next /\ f.child = entry[s].child
      /\ f.outcome = RecordedOutcome(entry[s], next, code, class, outcome)
      /\ "stop" \in f.marks <=> "stop" \in entry[s].marks
      BY <1>1, StatusFields
<1>3. entry' = [entry EXCEPT ![s] = f]
      BY DEF EmitStatus
<1> HIDE DEF f
<1> QED BY <1>2, <1>3 DEF TypeOK

LEMMA ProgressFields ==
    ASSUME TypeOK, NEW s \in Sessions, NEW next \in States \ {"exited"}, Progress(s, next)
    PROVE  /\ entry' \in [Sessions -> EntryType]
           /\ entry'[s].state = next /\ entry'[s].child = entry[s].child
           /\ entry'[s].outcome = entry[s].outcome
           /\ "stop" \in entry'[s].marks <=> "stop" \in entry[s].marks
           /\ \A t \in Sessions \ {s} : entry'[t] = entry[t]
<1>1. "none" \in Outcomes
      BY DEF Outcomes
<1>2. RecordedOutcome(entry[s], next, "none", "none", "none") = entry[s].outcome
      BY DEF RecordedOutcome, Classify, IsTerminal
<1> QED BY <1>1, <1>2, EmitFields DEF Progress

LEMMA LogFields ==
    ASSUME TypeOK, NEW s \in Sessions, NEW kind \in AllLines, EmitLog(s, kind)
    PROVE  /\ entry' \in [Sessions -> EntryType]
           /\ \/ entry'[s].state = entry[s].state
              \/ entry'[s].state = "running" /\ entry[s].state \in {"starting", "monitoring"}
           /\ entry'[s].child = entry[s].child /\ entry'[s].outcome = entry[s].outcome
           /\ "stop" \in entry'[s].marks <=> "stop" \in entry[s].marks
           /\ \A t \in Sessions \ {s} : entry'[t] = entry[t]
<1> DEFINE f == WithLine(entry[s], kind)
<1>1. entry[s] \in EntryType
      BY DEF TypeOK
<1>2. /\ f \in EntryType /\ f.child = entry[s].child /\ f.outcome = entry[s].outcome
      /\ f.state = entry[s].state \/ (f.state = "running" /\ entry[s].state \in {"starting", "monitoring"})
      /\ "stop" \in f.marks <=> "stop" \in entry[s].marks
      BY <1>1, LineFields
<1>3. entry' = [entry EXCEPT ![s] = f]
      BY DEF EmitLog
<1> HIDE DEF f
<1> QED BY <1>2, <1>3 DEF TypeOK

LEMMA OneProc ==
    ASSUME TypeOK, NEW s \in Sessions, NEW n \in Attempts, NEW q \in ProcType,
           proc' = [proc EXCEPT ![s][n] = q]
    PROVE  /\ proc' \in [Sessions -> [Attempts -> ProcType]]
           /\ proc'[s][n] = q /\ \A m \in Attempts \ {n} : proc'[s][m] = proc[s][m]
           /\ \A t \in Sessions \ {s} : proc'[t] = proc[t]
BY DEF TypeOK

LEMMA OneWaiter ==
    ASSUME TypeOK, NEW s \in Sessions, NEW n \in Attempts, NEW q \in WaiterType,
           waiter' = [waiter EXCEPT ![s][n] = q]
    PROVE  /\ waiter' \in [Sessions -> [Attempts -> WaiterType]]
           /\ waiter'[s][n] = q /\ \A m \in Attempts \ {n} : waiter'[s][m] = waiter[s][m]
           /\ \A t \in Sessions \ {s} : waiter'[t] = waiter[t]
BY DEF TypeOK

LEMMA OneWatchdog ==
    ASSUME TypeOK, NEW s \in Sessions, NEW n \in Attempts,
           NEW q \in {"none", "armed", "kill", "report", "done"},
           watchdog' = [watchdog EXCEPT ![s][n] = q]
    PROVE  /\ watchdog' \in [Sessions -> [Attempts -> {"none", "armed", "kill", "report", "done"}]]
           /\ watchdog'[s][n] = q /\ \A m \in Attempts \ {n} : watchdog'[s][m] = watchdog[s][m]
           /\ \A t \in Sessions \ {s} : watchdog'[t] = watchdog[t]
BY DEF TypeOK

LEMMA KillFields ==
    ASSUME TypeOK, NEW s \in Sessions, NEW n \in Attempts, proc' = AfterKill(s, n)
    PROVE  /\ proc' \in [Sessions -> [Attempts -> ProcType]]
           /\ proc'[s][n].state = IF Killable(s, n) THEN "reaped" ELSE proc[s][n].state
           /\ proc'[s][n].code = IF Live(s, n) THEN "signal" ELSE proc[s][n].code
           /\ proc'[s][n].pipe = proc[s][n].pipe
           /\ \A m \in Attempts \ {n} : proc'[s][m] = proc[s][m]
           /\ \A t \in Sessions \ {s} : proc'[t] = proc[t]
<1> DEFINE c == IF Live(s, n) THEN "signal" ELSE proc[s][n].code
           z == IF Killable(s, n) THEN "reaped" ELSE proc[s][n].state
           q == [proc[s][n] EXCEPT !.code = c, !.state = z]
<1>1. proc[s][n] \in ProcType
      BY DEF TypeOK
<1>2. c \in {"none", "zero", "nonzero", "signal"} /\ z \in {"none", "live", "zombie", "reaped"}
      BY <1>1 DEF ProcType
<1>3. proc' = [proc EXCEPT ![s][n] = q]
      BY DEF AfterKill
<1>4. q \in ProcType /\ q.state = z /\ q.code = c /\ q.pipe = proc[s][n].pipe
  <2> HIDE DEF c, z
  <2> QED BY <1>1, <1>2 DEF ProcType
<1>5. proc'[s][n] = q
  <2> HIDE DEF q
  <2> QED BY <1>3, <1>4 DEF TypeOK
<1>6. /\ proc'[s][n].state = z /\ proc'[s][n].code = c /\ proc'[s][n].pipe = proc[s][n].pipe
      BY <1>4, <1>5
<1> HIDE DEF q
<1>7. /\ proc' \in [Sessions -> [Attempts -> ProcType]]
      /\ \A m \in Attempts \ {n} : proc'[s][m] = proc[s][m]
      /\ \A t \in Sessions \ {s} : proc'[t] = proc[t]
      BY <1>3, <1>4 DEF TypeOK
<1> QED BY <1>6, <1>7

-----------------------------------------------------------------------------
(* A step of one session leaves what holds of the others.                  *)
Others(s) ==
    \A t \in Sessions \ {s} :
        /\ entry'[t] = entry[t] /\ runner'[t] = runner[t] /\ proc'[t] = proc[t]
        /\ waiter'[t] = waiter[t] /\ watchdog'[t] = watchdog[t] /\ stopper'[t] = stopper[t]

LEMMA SameGood ==
    ASSUME NEW t \in Sessions, Good(t),
           entry'[t] = entry[t], runner'[t] = runner[t], proc'[t] = proc[t],
           waiter'[t] = waiter[t], watchdog'[t] = watchdog[t], stopper'[t] = stopper[t]
    PROVE  Good(t)'
BY DEF Good, Counted, Spawned, Stopping, FirstOver, Judged, First, Live

LEMMA OneSession ==
    ASSUME IInv, TypeOK', NEW s \in Sessions, Others(s), Good(s)'
    PROVE  IInv'
<1>1. ASSUME NEW t \in Sessions PROVE Good(t)'
  <2>1. CASE t = s
        BY <2>1
  <2>2. CASE t # s
        BY <2>2, SameGood DEF IInv, Others
  <2> QED BY <2>1, <2>2
<1> QED BY <1>1 DEF IInv

(* The runner moves on within a phase, and the record keeps its child, its *)
(* verdict and the stop request on it.                                     *)
Observed == {"spawned", "observe", "success", "stalled", "kill_stalled"}

Within(pc, next) ==
    \/ pc = next
    \/ pc \in Unattached /\ next \in Unattached
    \/ pc \in Early \ Unattached /\ next \in Early \ Unattached
    \/ pc \in {"registered", "supervise"} /\ next \in {"registered", "supervise"}
    \/ pc \in Observed /\ next \in Observed \union {"done"}

LEMMA QuietMove ==
    ASSUME IInv, NEW s \in Sessions,
           UNCHANGED <<proc, waiter, watchdog, stopper, editor>>,
           lock' \in Sessions \union {"free", "editor"},
           entry' \in [Sessions -> EntryType], runner' \in [Sessions -> RunnerType],
           \A t \in Sessions \ {s} : entry'[t] = entry[t] /\ runner'[t] = runner[t],
           runner'[s].attempt = runner[s].attempt,
           runner'[s].recoveries = runner[s].recoveries,
           runner'[s].class = runner[s].class,
           entry'[s].child = entry[s].child, entry'[s].outcome = entry[s].outcome,
           "stop" \in entry[s].marks => "stop" \in entry'[s].marks,
           entry'[s].state = entry[s].state \/ ~IsTerminal(entry'[s].state),
           runner[s].pc \in Unattached => entry' = entry,
           Within(runner[s].pc, runner'[s].pc)
    PROVE  IInv'
<1>1. TypeOK'
      BY DEF IInv, TypeOK
<1>2. Others(s)
      BY DEF Others
<1> USE DEF IInv, Good, Within, Observed, Unattached, Early, Starting, Late
<1>3. Counted(s)'
      BY DEF Counted, First
<1>4. Stopping(s)'
      BY DEF Stopping, First, Live
<1>5. FirstOver(s)'
      BY DEF FirstOver, First, Live, IsTerminal
<1>6. Judged(s)'
      BY DEF Judged, First, Live, IsTerminal
<1>7. ASSUME NEW n \in Attempts PROVE Spawned(s, n)'
      BY <1>7 DEF Spawned, Live
<1>8. Good(s)'
      BY <1>3, <1>4, <1>5, <1>6, <1>7
<1> QED BY <1>1, <1>2, <1>8, OneSession

LEMMA GotoKeeps ==
    ASSUME IInv, NEW s \in Sessions, NEW pc \in RunnerPCs, Goto(s, pc),
           Within(runner[s].pc, pc), lock' \in Sessions \union {"free", "editor"},
           UNCHANGED <<entry, proc, waiter, watchdog, stopper, editor>>
    PROVE  IInv'
<1>1. entry' \in [Sessions -> EntryType]
      BY DEF IInv, TypeOK
<1>2. TypeOK
      BY DEF IInv
<1> QED BY <1>1, <1>2, GotoFields, QuietMove

LEMMA ProgressKeeps ==
    ASSUME IInv, NEW s \in Sessions, NEW pc \in RunnerPCs, NEW next \in States \ {"exited"},
           runner[s].pc \notin Unattached, Progress(s, next), Goto(s, pc),
           Within(runner[s].pc, pc), UNCHANGED <<proc, waiter, watchdog, stopper, lock, editor>>
    PROVE  IInv'
<1>1. TypeOK /\ lock' \in Sessions \union {"free", "editor"}
      BY DEF IInv, TypeOK
<1>2. ~IsTerminal(next)
      BY DEF IsTerminal
<1> QED BY <1>1, <1>2, GotoFields, ProgressFields, QuietMove

LEMMA RequestKeeps ==
    ASSUME IInv, NEW s \in Sessions, Request(s)
    PROVE  IInv'
<1>0. TypeOK /\ Good(s) /\ lock \in Sessions \union {"free", "editor"}
      BY DEF IInv, TypeOK
<1> USE DEF RunnerPCs, Within, Unattached
<1>1. CASE RequestLaunch(s)
      BY <1>0, <1>1, GotoKeeps DEF RequestLaunch
<1>2. CASE RefuseLaunch(s)
      BY <1>0, <1>2, GotoKeeps DEF RefuseLaunch
<1>3. CASE AdmitLaunch(s)
      BY <1>0, <1>3, GotoKeeps DEF AdmitLaunch
<1>4. CASE InsertSession(s)
  <2> DEFINE e == [NoEntry EXCEPT !.state = "queued"]
  <2>1. e \in EntryType /\ e.state = "queued" /\ e.child = 0 /\ e.outcome = "none"
        BY DEF NoEntry, EntryType, States, Outcomes, Attempts
  <2>2. entry' = [entry EXCEPT ![s] = e]
        BY <1>4 DEF InsertSession
  <2> HIDE DEF e
  <2>3. /\ entry' \in [Sessions -> EntryType] /\ entry'[s] = e
        /\ \A t \in Sessions \ {s} : entry'[t] = entry[t]
        BY <1>0, <2>1, <2>2 DEF TypeOK
  <2>4. /\ runner[s].pc = "admitted" /\ Goto(s, "preparing") /\ lock' = "free"
        /\ UNCHANGED <<proc, waiter, watchdog, stopper, editor>>
        BY <1>4 DEF InsertSession
  <2>5. /\ runner' \in [Sessions -> RunnerType]
        /\ runner'[s].pc = "preparing" /\ runner'[s].attempt = runner[s].attempt
        /\ runner'[s].recoveries = runner[s].recoveries
        /\ \A t \in Sessions \ {s} : runner'[t] = runner[t]
        BY <1>0, <2>4, GotoFields
  <2>6. TypeOK'
        BY <1>0, <2>3, <2>4, <2>5 DEF TypeOK
  <2>7. Others(s)
        BY <2>3, <2>4, <2>5 DEF Others
  <2>8. runner[s].attempt = 0 /\ First(s) /\ entry[s] = NoEntry
        BY <1>0, <2>4 DEF Good, Counted, First, Early
  <2>9. Counted(s)'
        BY <2>1, <2>3, <2>5, <2>8 DEF Counted, First, Early, Late, Starting
  <2>10. Stopping(s)'
        BY <1>0, <2>4, <2>8 DEF Good, Stopping, NoEntry
  <2>11. FirstOver(s)'
        BY <1>0, <2>1, <2>3, <2>4, <2>5, <2>8 DEF Good, FirstOver, First, Live, IsTerminal
  <2>12. Judged(s)'
        BY <2>1, <2>3 DEF Judged
  <2>13. ASSUME NEW n \in Attempts PROVE Spawned(s, n)'
        BY <1>0, <2>4, <2>5 DEF Good, Spawned, Live, Starting
  <2>14. Good(s)'
        BY <2>9, <2>10, <2>11, <2>12, <2>13 DEF Good
  <2> QED BY <2>6, <2>7, <2>14, OneSession
<1> QED BY <1>1, <1>2, <1>3, <1>4 DEF Request

(* The moves of the runner within a phase.                                 *)
LEMMA QuietRunnerKeeps ==
    ASSUME IInv, NEW s \in Sessions,
           \/ ReportPreparation(s) \/ Prepared(s) \/ Prewarm(s) \/ SpawnFails(s)
           \/ ReportStarting(s) \/ ReportMonitoring(s) \/ ObserveBoot(s)
           \/ ObserveDeadline(s) \/ ReportRunning(s) \/ FlagStall(s)
    PROVE  IInv'
<1>0. TypeOK /\ lock \in Sessions \union {"free", "editor"}
      BY DEF IInv, TypeOK
<1> USE DEF RunnerPCs, Within, Unattached, Early, Observed, States
<1>1. CASE ReportPreparation(s)
  <2>1. runner' \in [Sessions -> RunnerType]
        BY <1>0, <1>1 DEF ReportPreparation, TypeOK
  <2> QED BY <1>0, <1>1, <2>1, ProgressFields, QuietMove DEF ReportPreparation, IsTerminal
<1>2. CASE Prepared(s)
      BY <1>2, ProgressKeeps DEF Prepared
<1>3. CASE Prewarm(s)
      BY <1>3, ProgressKeeps DEF Prewarm
<1>4. CASE SpawnFails(s)
      BY <1>0, <1>4, GotoKeeps DEF SpawnFails
<1>5. CASE ReportStarting(s)
      BY <1>5, ProgressKeeps DEF ReportStarting
<1>6. CASE ReportMonitoring(s)
      BY <1>6, ProgressKeeps DEF ReportMonitoring
<1>7. CASE ObserveBoot(s)
      BY <1>0, <1>7, GotoKeeps DEF ObserveBoot
<1>8. CASE ObserveDeadline(s)
  <2> DEFINE pc == IF "logged" \in entry[s].marks THEN "success" ELSE "stalled"
  <2>1. pc \in {"success", "stalled"} /\ Goto(s, pc)
        BY <1>8 DEF ObserveDeadline
  <2> HIDE DEF pc
  <2> QED BY <1>0, <1>8, <2>1, GotoKeeps DEF ObserveDeadline
<1>9. CASE ReportRunning(s)
      BY <1>9, ProgressKeeps DEF ReportRunning
<1>10. CASE FlagStall(s)
  <2> DEFINE e == [entry[s] EXCEPT !.marks = @ \union {"stop"}]
  <2>1. entry[s] \in EntryType
        BY <1>0 DEF TypeOK
  <2>2. /\ e \in EntryType /\ e.state = entry[s].state /\ e.child = entry[s].child
        /\ e.outcome = entry[s].outcome /\ "stop" \in e.marks
        BY <2>1 DEF EntryType, Marks
  <2>3. entry' = [entry EXCEPT ![s] = e]
        BY <1>10 DEF FlagStall
  <2> HIDE DEF e
  <2>4. /\ entry' \in [Sessions -> EntryType] /\ entry'[s] = e
        /\ \A t \in Sessions \ {s} : entry'[t] = entry[t]
        BY <1>0, <2>2, <2>3 DEF TypeOK
  <2>5. /\ runner[s].pc = "stalled" /\ Goto(s, "kill_stalled")
        /\ UNCHANGED <<proc, waiter, watchdog, stopper, lock, editor>>
        BY <1>10 DEF FlagStall
  <2>6. /\ runner' \in [Sessions -> RunnerType]
        /\ runner'[s].pc = "kill_stalled" /\ runner'[s].attempt = runner[s].attempt
        /\ runner'[s].recoveries = runner[s].recoveries
        /\ runner'[s].class = runner[s].class
        /\ \A t \in Sessions \ {s} : runner'[t] = runner[t]
        BY <1>0, <2>5, GotoFields
  <2> QED BY <1>0, <2>2, <2>4, <2>5, <2>6, QuietMove
<1> QED BY <1>1, <1>2, <1>3, <1>4, <1>5, <1>6, <1>7, <1>8, <1>9, <1>10

(* The runner gives a launch up before it has a process.                   *)
LEMMA PreparationFailsKeeps ==
    ASSUME IInv, NEW s \in Sessions, PreparationFails(s)
    PROVE  IInv'
<1>0. TypeOK /\ Good(s)
      BY DEF IInv
<1>1. PICK class \in {"unknown", "other"} : FailWith(s, class)
      BY DEF PreparationFails
<1>2. runner[s].pc \in {"preparing", "prepared"}
      /\ UNCHANGED <<entry, proc, waiter, watchdog, stopper, lock, editor>>
      BY DEF PreparationFails
<1>3. /\ runner' \in [Sessions -> RunnerType] /\ runner'[s].pc = "fail"
      /\ runner'[s].attempt = runner[s].attempt
      /\ runner'[s].recoveries = runner[s].recoveries
      /\ \A t \in Sessions \ {s} : runner'[t] = runner[t]
      BY <1>0, <1>1, FailFields DEF Classes
<1>4. TypeOK' /\ Others(s)
      BY <1>0, <1>2, <1>3 DEF TypeOK, Others
<1>5. runner[s].recoveries \in {0, 1}
      BY <1>0 DEF TypeOK, RunnerType
<1>6. Counted(s)'
      BY <1>0, <1>2, <1>3 DEF Good, Counted, First, Unattached, Early, Late, Starting
<1>7. Stopping(s)'
      BY <1>0, <1>2, <1>3 DEF Good, Stopping, First, Live
<1>8. FirstOver(s)'
  <2>1. First(s) => proc[s][1].state = "none"
        BY <1>0, <1>2 DEF Good, Counted, Spawned, First, Early, Attempts
  <2> QED BY <1>0, <1>2, <1>3, <2>1 DEF Good, FirstOver, First, Live, Early
<1>9. Judged(s)'
      BY <1>0, <1>2, <1>3 DEF Good, Counted, Judged, First, Live, Early
<1>10. ASSUME NEW n \in Attempts PROVE Spawned(s, n)'
      BY <1>0, <1>2, <1>3 DEF Good, Spawned, Live, Starting
<1> QED BY <1>4, <1>6, <1>7, <1>8, <1>9, <1>10, OneSession DEF Good

(* The process of the round is spawned, ...                                *)
LEMMA SpawnKeeps ==
    ASSUME IInv, NEW s \in Sessions, Spawn(s)
    PROVE  IInv'
<1> DEFINE k == runner[s].attempt + 1
           r == [runner[s] EXCEPT !.pc = "register", !.attempt = k]
           q == [proc[s][k] EXCEPT !.state = "live"]
<1>0. TypeOK /\ Good(s) /\ runner[s] \in RunnerType
      BY DEF IInv, TypeOK
<1>1. /\ runner[s].pc = "spawn" /\ UNCHANGED <<entry, waiter, watchdog, stopper, lock, editor>>
      BY DEF Spawn
<1>2. /\ runner[s].attempt = runner[s].recoveries /\ runner[s].recoveries \in {0, 1}
      BY <1>0, <1>1 DEF Good, Counted, Early, RunnerType
<1>3. k \in Attempts /\ k = runner[s].recoveries + 1
      BY <1>2 DEF Attempts
<1>4. proc' = [proc EXCEPT ![s][k] = q] /\ runner' = [runner EXCEPT ![s] = r]
      BY DEF Spawn
<1>5. proc[s][k] \in ProcType
      BY <1>0, <1>3 DEF TypeOK
<1>6. q \in ProcType /\ q.state = "live" /\ q.code = proc[s][k].code /\ q.pipe = proc[s][k].pipe
      BY <1>5 DEF ProcType
<1>7. r \in RunnerType /\ r.pc = "register" /\ r.attempt = k /\ r.recoveries = runner[s].recoveries
      BY <1>0, <1>3 DEF RunnerType, RunnerPCs
<1> HIDE DEF k, q, r
<1>8. /\ proc' \in [Sessions -> [Attempts -> ProcType]] /\ proc'[s][k] = q
      /\ \A m \in Attempts \ {k} : proc'[s][m] = proc[s][m]
      /\ \A t \in Sessions \ {s} : proc'[t] = proc[t]
      BY <1>0, <1>3, <1>4, <1>6 DEF TypeOK
<1>9. /\ runner' \in [Sessions -> RunnerType] /\ runner'[s] = r
      /\ \A t \in Sessions \ {s} : runner'[t] = runner[t]
      BY <1>0, <1>4, <1>7 DEF TypeOK
<1>10. TypeOK' /\ Others(s)
      BY <1>0, <1>1, <1>8, <1>9 DEF TypeOK, Others
<1>11. entry[s].child = runner[s].recoveries
      BY <1>0, <1>1, <1>2 DEF Good, Counted
<1>12. Counted(s)'
      BY <1>1, <1>2, <1>3, <1>7, <1>9, <1>11 DEF Counted, First, Unattached, Early, Late, Starting
<1>13. \A m \in Attempts : m <= runner[s].attempt => proc'[s][m] = proc[s][m]
      BY <1>2, <1>3, <1>8 DEF Attempts
<1>14. First(s) => entry[s].child = 0 /\ stopper[s].pc = "idle"
      BY <1>0, <1>11 DEF First, Good, Stopping
<1>15. Stopping(s)'
      BY <1>0, <1>1, <1>7, <1>9, <1>14 DEF Good, Stopping, First, Live
<1>16. ~First(s) => proc'[s][1] = proc[s][1] /\ ~Live(s, 1)
      BY <1>0, <1>2, <1>13 DEF First, Good, FirstOver, Attempts
<1>17. FirstOver(s)'
      BY <1>0, <1>1, <1>7, <1>9, <1>16 DEF Good, FirstOver, First, Live, Early, Unattached
<1>18. Judged(s)'
      BY <1>1, <1>7, <1>9, <1>14 DEF Judged, First
<1>19. ASSUME NEW n \in Attempts PROVE Spawned(s, n)'
  <2>1. CASE n = k
    <3>1. /\ proc[s][n].state = "none" /\ waiter[s][n].pc = "none"
          BY <1>0, <1>2, <1>3, <2>1 DEF Good, Spawned
    <3> QED BY <1>0, <1>1, <1>2, <1>3, <1>6, <1>7, <1>8, <1>9, <2>1, <3>1 DEF Good, Spawned, Live, Starting
  <2>2. CASE n # k
        BY <1>0, <1>1, <1>2, <1>3, <1>7, <1>8, <1>9, <2>2 DEF Good, Spawned, Live, Starting, Attempts
  <2> QED BY <2>1, <2>2
<1> QED BY <1>10, <1>12, <1>15, <1>17, <1>18, <1>19, OneSession DEF Good

(* ... entered into the record, which forgets the one before, ...          *)
LEMMA RegisterKeeps ==
    ASSUME IInv, NEW s \in Sessions, Register(s)
    PROVE  IInv'
<1> DEFINE n == runner[s].attempt
           e == Registered(entry[s], n)
<1>0. TypeOK /\ Good(s) /\ entry[s] \in EntryType /\ runner[s] \in RunnerType
      BY DEF IInv, TypeOK
<1>1. /\ runner[s].pc = "register" /\ Goto(s, "registered")
      /\ UNCHANGED <<proc, waiter, watchdog, stopper, lock, editor>>
      /\ entry' = [entry EXCEPT ![s] = e]
      BY DEF Register
<1>2. n = runner[s].recoveries + 1 /\ n \in Attempts
      BY <1>0, <1>1 DEF Good, Counted, Late, Starting, RunnerType, Attempts
<1>3. e \in EntryType /\ e.state = entry[s].state /\ e.child = n /\ e.outcome = "none"
      BY <1>0, <1>2 DEF Registered, NoEntry, EntryType, Outcomes
<1> HIDE DEF e, n
<1>4. /\ entry' \in [Sessions -> EntryType] /\ entry'[s] = e
      /\ \A t \in Sessions \ {s} : entry'[t] = entry[t]
      BY <1>0, <1>1, <1>3 DEF TypeOK
<1>5. /\ runner' \in [Sessions -> RunnerType] /\ runner'[s].pc = "registered"
      /\ runner'[s].attempt = n /\ runner'[s].recoveries = runner[s].recoveries
      /\ \A t \in Sessions \ {s} : runner'[t] = runner[t]
      BY <1>0, <1>1, GotoFields DEF RunnerPCs, n
<1>6. TypeOK' /\ Others(s)
      BY <1>0, <1>1, <1>4, <1>5 DEF TypeOK, Others
<1>7. Counted(s)'
      BY <1>2, <1>3, <1>4, <1>5 DEF Counted, First, Unattached, Early, Late, Starting
<1>8. entry[s].child = runner[s].recoveries
      BY <1>0, <1>1 DEF Good, Counted
<1>9. First(s) => stopper[s].pc = "idle"
      BY <1>0, <1>8 DEF Good, Stopping, First
<1>10. runner[s].recoveries \in {0, 1}
      BY <1>0 DEF RunnerType
<1>11. Stopping(s)'
      BY <1>0, <1>1, <1>2, <1>3, <1>4, <1>5, <1>8, <1>9, <1>10 DEF Good, Stopping, First, Live
<1>12. FirstOver(s)'
      BY <1>0, <1>1, <1>3, <1>4, <1>5 DEF Good, FirstOver, First, Live, Early, Unattached
<1>14. First(s) => ~IsTerminal(entry[s].state)
      BY <1>0, <1>1 DEF Good, FirstOver
<1>15. Judged(s)'
      BY <1>3, <1>4, <1>5, <1>14 DEF Judged, First
<1>16. ASSUME NEW m \in Attempts PROVE Spawned(s, m)'
      BY <1>0, <1>1, <1>5 DEF Good, Spawned, Live, Starting, n
<1> QED BY <1>6, <1>7, <1>11, <1>12, <1>15, <1>16, OneSession DEF Good

(* ... and supervised by tasks of its own.                                 *)
LEMMA SuperviseKeeps ==
    ASSUME IInv, NEW s \in Sessions, Supervise(s)
    PROVE  IInv'
<1> DEFINE n == runner[s].attempt
           q == [proc[s][n] EXCEPT !.pipe = "open"]
           w == [waiter[s][n] EXCEPT !.pc = "watch"]
<1>0. TypeOK /\ Good(s) /\ runner[s] \in RunnerType
      BY DEF IInv, TypeOK
<1>1. /\ runner[s].pc = "supervise" /\ Goto(s, "spawned") /\ UNCHANGED <<entry, stopper, lock, editor>>
      BY DEF Supervise
<1>2. n = runner[s].recoveries + 1 /\ n \in Attempts
      BY <1>0, <1>1 DEF Good, Counted, Late, Starting, RunnerType, Attempts
<1>3. /\ proc' = [proc EXCEPT ![s][n] = q] /\ waiter' = [waiter EXCEPT ![s][n] = w]
      /\ watchdog' = [watchdog EXCEPT ![s][n] = "armed"]
      BY DEF Supervise
<1>4. proc[s][n] \in ProcType /\ waiter[s][n] \in WaiterType
      BY <1>0, <1>2 DEF TypeOK
<1>5. q \in ProcType /\ q.state = proc[s][n].state /\ q.code = proc[s][n].code
      BY <1>4 DEF ProcType
<1>6. w \in WaiterType /\ w.pc = "watch"
      BY <1>4 DEF WaiterType
<1> HIDE DEF q, w, n
<1>7. /\ proc' \in [Sessions -> [Attempts -> ProcType]] /\ proc'[s][n] = q
      /\ \A m \in Attempts \ {n} : proc'[s][m] = proc[s][m]
      /\ \A t \in Sessions \ {s} : proc'[t] = proc[t]
      BY <1>0, <1>2, <1>3, <1>5 DEF TypeOK
<1>8. /\ waiter' \in [Sessions -> [Attempts -> WaiterType]] /\ waiter'[s][n] = w
      /\ \A m \in Attempts \ {n} : waiter'[s][m] = waiter[s][m]
      /\ \A t \in Sessions \ {s} : waiter'[t] = waiter[t]
      BY <1>0, <1>2, <1>3, <1>6 DEF TypeOK
<1>9. /\ watchdog' \in [Sessions -> [Attempts -> {"none", "armed", "kill", "report", "done"}]]
      /\ watchdog'[s][n] = "armed"
      /\ \A m \in Attempts \ {n} : watchdog'[s][m] = watchdog[s][m]
      /\ \A t \in Sessions \ {s} : watchdog'[t] = watchdog[t]
      BY <1>0, <1>2, <1>3 DEF TypeOK
<1>10. /\ runner' \in [Sessions -> RunnerType] /\ runner'[s].pc = "spawned"
      /\ runner'[s].attempt = n /\ runner'[s].recoveries = runner[s].recoveries
      /\ \A t \in Sessions \ {s} : runner'[t] = runner[t]
      BY <1>0, <1>1, GotoFields DEF RunnerPCs, n
<1>11. TypeOK' /\ Others(s)
      BY <1>0, <1>1, <1>7, <1>8, <1>9, <1>10 DEF TypeOK, Others
<1>12. \A m \in Attempts : proc'[s][m].state = proc[s][m].state /\ proc'[s][m].code = proc[s][m].code
      BY <1>5, <1>7
<1>13. Counted(s)'
      BY <1>0, <1>1, <1>2, <1>10 DEF Good, Counted, First, Unattached, Early, Late, Starting, n
<1>14. Stopping(s)'
      BY <1>0, <1>1, <1>10, <1>12 DEF Good, Stopping, First, Live, Attempts
<1>15. FirstOver(s)'
      BY <1>0, <1>1, <1>10, <1>12 DEF Good, FirstOver, First, Live, Early, Unattached, Attempts
<1>16. Judged(s)'
      BY <1>0, <1>1, <1>10, <1>12 DEF Good, Judged, First, Live, Attempts
<1>17. ASSUME NEW m \in Attempts PROVE Spawned(s, m)'
  <2>1. CASE m = n
    <3>1. proc[s][m].state # "none"
          BY <1>0, <1>2, <2>1 DEF Good, Spawned, n, Attempts
    <3> QED BY <1>2, <1>6, <1>8, <1>9, <1>10, <1>12, <2>1, <3>1 DEF Spawned, Live, Starting, Attempts
  <2>2. CASE m # n
        BY <1>0, <1>1, <1>2, <1>7, <1>8, <1>9, <1>10, <2>2 DEF Good, Spawned, Live, Starting, Attempts, n
  <2> QED BY <2>1, <2>2
<1> QED BY <1>11, <1>13, <1>14, <1>15, <1>16, <1>17, OneSession DEF Good

(* The observation ends with a reported exit: by then the first process is *)
(* dead and has its verdict; ...                                           *)
LEMMA ObserveExitKeeps ==
    ASSUME IInv, NEW s \in Sessions, ObserveExit(s)
    PROVE  IInv'
<1>0. TypeOK /\ Good(s)
      BY DEF IInv
<1>1. /\ runner[s].pc = "observe" /\ Goto(s, "exited") /\ IsTerminal(entry[s].state)
      /\ UNCHANGED <<entry, proc, waiter, watchdog, stopper, lock, editor>>
      BY DEF ObserveExit
<1>2. /\ runner' \in [Sessions -> RunnerType] /\ runner'[s].pc = "exited"
      /\ runner'[s].attempt = runner[s].attempt /\ runner'[s].recoveries = runner[s].recoveries
      /\ \A t \in Sessions \ {s} : runner'[t] = runner[t]
      BY <1>0, <1>1, GotoFields DEF RunnerPCs
<1>3. TypeOK' /\ Others(s)
      BY <1>0, <1>1, <1>2 DEF TypeOK, Others
<1>4. Counted(s)'
      BY <1>0, <1>1, <1>2 DEF Good, Counted, First, Unattached, Early, Late, Starting
<1>5. Stopping(s)'
      BY <1>0, <1>1, <1>2 DEF Good, Stopping, First, Live
<1>6. FirstOver(s)'
      BY <1>0, <1>1, <1>2 DEF Good, FirstOver, First, Live, Early, Unattached
<1>7. Judged(s)'
      BY <1>0, <1>1, <1>2 DEF Good, Judged, First, Live
<1>8. ASSUME NEW n \in Attempts PROVE Spawned(s, n)'
      BY <1>0, <1>1, <1>2 DEF Good, Spawned, Live, Starting
<1> QED BY <1>3, <1>4, <1>5, <1>6, <1>7, <1>8, OneSession DEF Good

(* ... the launch then starts over, once, ...                              *)
LEMMA RecoverKeeps ==
    ASSUME IInv, NEW s \in Sessions, Recover(s)
    PROVE  IInv'
<1> DEFINE r == [runner[s] EXCEPT !.pc = "preparing", !.recoveries = 1]
<1>0. TypeOK /\ Good(s) /\ runner[s] \in RunnerType
      BY DEF IInv, TypeOK
<1>1. /\ runner[s].pc = "exited" /\ runner[s].recoveries = 0
      /\ UNCHANGED <<entry, proc, waiter, watchdog, stopper, lock, editor>>
      BY DEF Recover, MayRecover
<1>2. runner' = [runner EXCEPT ![s] = r]
      BY DEF Recover
<1>3. /\ r \in RunnerType /\ r.pc = "preparing" /\ r.attempt = runner[s].attempt /\ r.recoveries = 1
      BY <1>0 DEF RunnerType, RunnerPCs
<1> HIDE DEF r
<1>4. /\ runner' \in [Sessions -> RunnerType] /\ runner'[s] = r
      /\ \A t \in Sessions \ {s} : runner'[t] = runner[t]
      BY <1>0, <1>2, <1>3 DEF TypeOK
<1>5. TypeOK' /\ Others(s)
      BY <1>0, <1>1, <1>4 DEF TypeOK, Others
<1>6. runner[s].attempt = 1 /\ entry[s].child = 1 /\ ~Live(s, 1)
      BY <1>0, <1>1 DEF Good, Counted, FirstOver, First, Late
<1>7. Counted(s)'
      BY <1>1, <1>3, <1>4, <1>6 DEF Counted, First, Unattached, Early, Late, Starting
<1>8. Stopping(s)'
      BY <1>0, <1>1, <1>3, <1>4 DEF Good, Stopping, First, Live
<1>9. FirstOver(s)' /\ Judged(s)'
      BY <1>1, <1>3, <1>4, <1>6 DEF FirstOver, Judged, First, Live
<1>10. ASSUME NEW n \in Attempts PROVE Spawned(s, n)'
      BY <1>0, <1>1, <1>3, <1>4 DEF Good, Spawned, Live, Starting
<1> QED BY <1>5, <1>7, <1>8, <1>9, <1>10, OneSession DEF Good

(* ... or is given up, and then reported as failed.                        *)
LEMMA GiveUpKeeps ==
    ASSUME IInv, NEW s \in Sessions, GiveUp(s)
    PROVE  IInv'
<1> DEFINE c == IF entry[s].observed = "none" THEN "unknown" ELSE entry[s].observed
<1>0. TypeOK /\ Good(s)
      BY DEF IInv
<1>1. /\ runner[s].pc = "exited" /\ FailWith(s, c)
      /\ UNCHANGED <<entry, proc, waiter, watchdog, stopper, lock, editor>>
      BY DEF GiveUp
<1>2. c \in Classes
      BY <1>0 DEF TypeOK, EntryType, Classes
<1> HIDE DEF c
<1>3. /\ runner' \in [Sessions -> RunnerType] /\ runner'[s].pc = "fail"
      /\ runner'[s].attempt = runner[s].attempt /\ runner'[s].recoveries = runner[s].recoveries
      /\ \A t \in Sessions \ {s} : runner'[t] = runner[t]
      BY <1>0, <1>1, <1>2, FailFields
<1>4. TypeOK' /\ Others(s)
      BY <1>0, <1>1, <1>3 DEF TypeOK, Others
<1>5. Counted(s)'
      BY <1>0, <1>1, <1>3 DEF Good, Counted, First, Unattached, Early, Late, Starting
<1>6. Stopping(s)'
      BY <1>0, <1>1, <1>3 DEF Good, Stopping, First, Live
<1>7. FirstOver(s)'
      BY <1>0, <1>1, <1>3 DEF Good, FirstOver, First, Live, Early, Unattached
<1>8. Judged(s)'
      BY <1>0, <1>1, <1>3 DEF Good, Judged, First, Live
<1>9. ASSUME NEW n \in Attempts PROVE Spawned(s, n)'
      BY <1>0, <1>1, <1>3 DEF Good, Spawned, Live, Starting
<1> QED BY <1>4, <1>5, <1>6, <1>7, <1>8, <1>9, OneSession DEF Good

-----------------------------------------------------------------------------
(* Processes only age: who kills, reaps or outlives one leaves what the    *)
(* invariant says of the session.                                          *)
Ages(s) ==
    \A m \in Attempts :
        /\ proc'[s][m].state = "none" <=> proc[s][m].state = "none"
        /\ proc[s][m].state = "reaped" => proc'[s][m].state = "reaped"
        /\ proc[s][m].state # "live" =>
              proc'[s][m].state # "live" /\ proc'[s][m].code = proc[s][m].code
        /\ proc'[s][m].pipe = "open" => proc[s][m].pipe = "open"

LEMMA KillAges ==
    ASSUME TypeOK, NEW s \in Sessions, NEW n \in Attempts, proc' = AfterKill(s, n)
    PROVE  /\ proc' \in [Sessions -> [Attempts -> ProcType]]
           /\ \A t \in Sessions \ {s} : proc'[t] = proc[t]
           /\ Ages(s)
           /\ proc'[s][n].state # "live"
<1>1. /\ proc' \in [Sessions -> [Attempts -> ProcType]]
      /\ proc'[s][n].state = IF Killable(s, n) THEN "reaped" ELSE proc[s][n].state
      /\ proc'[s][n].code = IF Live(s, n) THEN "signal" ELSE proc[s][n].code
      /\ proc'[s][n].pipe = proc[s][n].pipe
      /\ \A m \in Attempts \ {n} : proc'[s][m] = proc[s][m]
      /\ \A t \in Sessions \ {s} : proc'[t] = proc[t]
      BY KillFields
<1>2. ASSUME NEW m \in Attempts
      PROVE  /\ proc'[s][m].state = "none" <=> proc[s][m].state = "none"
             /\ proc[s][m].state = "reaped" => proc'[s][m].state = "reaped"
             /\ proc[s][m].state # "live" =>
                   proc'[s][m].state # "live" /\ proc'[s][m].code = proc[s][m].code
             /\ proc'[s][m].pipe = "open" => proc[s][m].pipe = "open"
  <2>1. CASE m = n
        BY <1>1, <2>1 DEF Killable, Live
  <2>2. CASE m # n
        BY <1>1, <2>2
  <2> QED BY <2>1, <2>2
<1>3. proc'[s][n].state # "live"
      BY <1>1 DEF Killable
<1> QED BY <1>1, <1>2, <1>3 DEF Ages

(* What the other tasks of the session rely on, after such a step.         *)
LEMMA AgedGood ==
    ASSUME NEW s \in Sessions, Good(s), Ages(s), entry' = entry,
           runner'[s] = runner[s], stopper'[s] = stopper[s]
    PROVE  Counted(s)' /\ Stopping(s)' /\ FirstOver(s)' /\ Judged(s)'
<1>1. 1 \in Attempts
      BY DEF Attempts
<1>2. Counted(s)'
      BY DEF Good, Counted, First
<1>3. Stopping(s)'
      BY <1>1 DEF Good, Stopping, First, Live, Ages
<1>4. FirstOver(s)'
      BY <1>1 DEF Good, FirstOver, First, Live, Ages
<1>5. Judged(s)'
      BY <1>1 DEF Good, Judged, First, Live, Ages
<1> QED BY <1>2, <1>3, <1>4, <1>5

LEMMA AgedSpawned ==
    ASSUME NEW s \in Sessions, NEW m \in Attempts, Good(s), Ages(s), runner'[s] = runner[s],
           waiter'[s][m] = waiter[s][m], watchdog'[s][m] = watchdog[s][m]
    PROVE  Spawned(s, m)'
BY DEF Good, Spawned, Live, Ages

(* A game ends, or its pipes do.                                           *)
LEMMA GameAgesKeeps ==
    ASSUME IInv, NEW s \in Sessions, NEW n \in Attempts, Ends(s, n) \/ PipesClose(s, n)
    PROVE  IInv'
<1>0. TypeOK /\ Good(s) /\ proc[s][n] \in ProcType
      BY DEF IInv, TypeOK
<1>1. UNCHANGED <<entry, runner, waiter, watchdog, stopper, lock, editor>>
      BY DEF Ends, PipesClose
<1>2. \E q \in ProcType :
         /\ proc' = [proc EXCEPT ![s][n] = q] /\ proc[s][n].state # "none" /\ q.state # "none"
         /\ proc[s][n].state # "live" => q.state = proc[s][n].state /\ q.code = proc[s][n].code
         /\ q.pipe = "open" => proc[s][n].pipe = "open"
  <2>1. CASE Ends(s, n)
    <3>1. PICK c \in ExitCodes :
             proc' = [proc EXCEPT ![s][n] = [proc[s][n] EXCEPT !.state = "zombie", !.code = c]]
          BY <2>1 DEF Ends
    <3> DEFINE q == [proc[s][n] EXCEPT !.state = "zombie", !.code = c]
    <3>2. c \in {"none", "zero", "nonzero", "signal"}
          BY LaunchAssumption
    <3>3. q \in ProcType /\ q.state = "zombie" /\ q.pipe = proc[s][n].pipe
          BY <1>0, <3>2 DEF ProcType
    <3>4. proc[s][n].state = "live"
          BY <2>1 DEF Ends, Live
    <3> HIDE DEF q
    <3>5. proc' = [proc EXCEPT ![s][n] = q]
          BY <3>1 DEF q
    <3> QED BY <3>3, <3>4, <3>5
  <2>2. CASE PipesClose(s, n) /\ proc[s][n].state # "none"
    <3> DEFINE q == [proc[s][n] EXCEPT !.pipe = "none"]
    <3>1. q \in ProcType /\ q.state = proc[s][n].state /\ q.code = proc[s][n].code /\ q.pipe = "none"
          BY <1>0 DEF ProcType
    <3>2. proc' = [proc EXCEPT ![s][n] = q]
          BY <2>2 DEF PipesClose
    <3> HIDE DEF q
    <3> QED BY <2>2, <3>1, <3>2
  <2>3. PipesClose(s, n) => proc[s][n].state # "none"
        BY <1>0 DEF PipesClose, Good, Spawned
  <2> QED BY <2>1, <2>2, <2>3
<1>3. PICK q \in ProcType :
         /\ proc' = [proc EXCEPT ![s][n] = q] /\ proc[s][n].state # "none" /\ q.state # "none"
         /\ proc[s][n].state # "live" => q.state = proc[s][n].state /\ q.code = proc[s][n].code
         /\ q.pipe = "open" => proc[s][n].pipe = "open"
      BY <1>2
<1>4. /\ proc' \in [Sessions -> [Attempts -> ProcType]]
      /\ proc'[s][n] = q /\ \A m \in Attempts \ {n} : proc'[s][m] = proc[s][m]
      /\ \A t \in Sessions \ {s} : proc'[t] = proc[t]
      BY <1>0, <1>3, OneProc
<1>5. Ages(s)
      BY <1>3, <1>4 DEF Ages
<1>6. TypeOK' /\ Others(s)
      BY <1>0, <1>1, <1>4 DEF TypeOK, Others
<1>7. ASSUME NEW m \in Attempts PROVE Spawned(s, m)'
      BY <1>0, <1>1, <1>5, AgedSpawned
<1>8. Good(s)'
      BY <1>0, <1>1, <1>5, <1>7, AgedGood DEF Good
<1> QED BY <1>6, <1>8, OneSession

(* A stalled process is killed by its runner.                              *)
LEMMA KillStalledKeeps ==
    ASSUME IInv, NEW s \in Sessions, KillStalled(s)
    PROVE  IInv'
<1> DEFINE n == entry[s].child
<1>0. TypeOK /\ Good(s)
      BY DEF IInv
<1>1. /\ runner[s].pc = "kill_stalled" /\ proc' = AfterKill(s, n) /\ FailWith(s, "stalled")
      /\ UNCHANGED <<entry, waiter, watchdog, stopper, lock, editor>>
      BY DEF KillStalled
<1>2. n = runner[s].recoveries + 1 /\ n \in Attempts
  <2>1. runner[s].recoveries \in {0, 1}
        BY <1>0 DEF TypeOK, RunnerType
  <2> QED BY <1>0, <1>1, <2>1 DEF Good, Counted, Late, Attempts
<1> HIDE DEF n
<1>3. /\ runner' \in [Sessions -> RunnerType] /\ runner'[s].pc = "fail"
      /\ runner'[s].attempt = runner[s].attempt /\ runner'[s].recoveries = runner[s].recoveries
      /\ runner'[s].class = "stalled"
      /\ \A t \in Sessions \ {s} : runner'[t] = runner[t]
      BY <1>0, <1>1, FailFields DEF Classes
<1>4. /\ proc' \in [Sessions -> [Attempts -> ProcType]]
      /\ \A t \in Sessions \ {s} : proc'[t] = proc[t]
      /\ Ages(s) /\ proc'[s][n].state # "live"
      BY <1>0, <1>1, <1>2, KillAges
<1>5. TypeOK' /\ Others(s)
      BY <1>0, <1>1, <1>3, <1>4 DEF TypeOK, Others
<1>6. 1 \in Attempts
      BY DEF Attempts
<1>7. Counted(s)'
      BY <1>0, <1>1, <1>3 DEF Good, Counted, First, Unattached, Early, Late, Starting
<1>8. Stopping(s)'
      BY <1>0, <1>1, <1>3, <1>4, <1>6 DEF Good, Stopping, First, Live, Ages
<1>9. First(s) => n = 1
      BY <1>2 DEF First
<1>10. FirstOver(s)'
      BY <1>0, <1>1, <1>3, <1>4, <1>6, <1>9 DEF Good, FirstOver, First, Live, Early, Unattached, Ages
<1>11. Judged(s)'
      BY <1>0, <1>1, <1>3, <1>4, <1>6 DEF Good, Judged, First, Live, Ages
<1>12. ASSUME NEW m \in Attempts PROVE Spawned(s, m)'
      BY <1>0, <1>1, <1>3, <1>4 DEF Good, Spawned, Live, Starting, Ages
<1> QED BY <1>5, <1>7, <1>8, <1>10, <1>11, <1>12, OneSession DEF Good

(* A wait task reaps its process.                                          *)
LEMMA ReapKeeps ==
    ASSUME IInv, NEW s \in Sessions, NEW n \in Attempts, Reap(s, n)
    PROVE  IInv'
<1> DEFINE q == [proc[s][n] EXCEPT !.state = "reaped"]
           w == [waiter[s][n] EXCEPT !.pc = "look"]
<1>0. TypeOK /\ Good(s) /\ proc[s][n] \in ProcType /\ waiter[s][n] \in WaiterType
      BY DEF IInv, TypeOK
<1>1. /\ waiter[s][n].pc = "watch" /\ proc[s][n].state \in {"zombie", "reaped"}
      /\ UNCHANGED <<entry, runner, watchdog, stopper, lock, editor>>
      /\ proc' = [proc EXCEPT ![s][n] = q] /\ waiter' = [waiter EXCEPT ![s][n] = w]
      BY DEF Reap, WaiterGoto
<1>2. q \in ProcType /\ q.state = "reaped" /\ q.code = proc[s][n].code /\ q.pipe = proc[s][n].pipe
      BY <1>0 DEF ProcType
<1>3. w \in WaiterType /\ w.pc = "look"
      BY <1>0 DEF WaiterType
<1> HIDE DEF q, w
<1>4. /\ proc' \in [Sessions -> [Attempts -> ProcType]] /\ proc'[s][n] = q
      /\ \A m \in Attempts \ {n} : proc'[s][m] = proc[s][m]
      /\ \A t \in Sessions \ {s} : proc'[t] = proc[t]
      BY <1>0, <1>1, <1>2 DEF TypeOK
<1>5. /\ waiter' \in [Sessions -> [Attempts -> WaiterType]] /\ waiter'[s][n] = w
      /\ \A m \in Attempts \ {n} : waiter'[s][m] = waiter[s][m]
      /\ \A t \in Sessions \ {s} : waiter'[t] = waiter[t]
      BY <1>0, <1>1, <1>3 DEF TypeOK
<1>6. Ages(s)
      BY <1>1, <1>2, <1>4 DEF Ages
<1>7. TypeOK' /\ Others(s)
      BY <1>0, <1>1, <1>4, <1>5 DEF TypeOK, Others
<1>8. ASSUME NEW m \in Attempts PROVE Spawned(s, m)'
  <2>1. CASE m = n
        BY <1>0, <1>1, <1>2, <1>3, <1>4, <1>5, <2>1 DEF Good, Spawned, Live
  <2>2. CASE m # n
        BY <1>0, <1>1, <1>5, <1>6, <2>2, AgedSpawned
  <2> QED BY <2>1, <2>2
<1>9. Good(s)'
      BY <1>0, <1>1, <1>6, <1>8, AgedGood DEF Good
<1> QED BY <1>7, <1>9, OneSession

(* A wait task that has reaped its process goes on.                        *)
LEMMA WaiterGood ==
    ASSUME IInv, NEW s \in Sessions, NEW n \in Attempts, NEW w \in WaiterType,
           waiter' = [waiter EXCEPT ![s][n] = w], waiter[s][n].pc \notin {"none", "watch"},
           w.pc \notin {"none", "watch"}, UNCHANGED <<runner, proc, watchdog, stopper, lock, editor>>
    PROVE  /\ waiter' \in [Sessions -> [Attempts -> WaiterType]]
           /\ \A t \in Sessions \ {s} : waiter'[t] = waiter[t]
           /\ \A m \in Attempts : Spawned(s, m)'
<1>0. TypeOK /\ Good(s)
      BY DEF IInv
<1>1. /\ waiter' \in [Sessions -> [Attempts -> WaiterType]] /\ waiter'[s][n] = w
      /\ \A m \in Attempts \ {n} : waiter'[s][m] = waiter[s][m]
      /\ \A t \in Sessions \ {s} : waiter'[t] = waiter[t]
      BY <1>0, OneWaiter
<1>2. ASSUME NEW m \in Attempts PROVE Spawned(s, m)'
  <2>1. CASE m = n
        BY <1>0, <1>1, <2>1 DEF Good, Spawned, Live
  <2>2. CASE m # n
        BY <1>0, <1>1, <2>2 DEF Good, Spawned, Live
  <2> QED BY <2>1, <2>2
<1> QED BY <1>1, <1>2

LEMMA WaiterLooksKeeps ==
    ASSUME IInv, NEW s \in Sessions, NEW n \in Attempts,
           LookAtRecord(s, n) \/ ReadObservedFailure(s, n)
    PROVE  IInv'
<1>0. TypeOK /\ Good(s) /\ waiter[s][n] \in WaiterType /\ entry[s] \in EntryType
      BY DEF IInv, TypeOK
<1>1. UNCHANGED <<entry, runner, proc, watchdog, stopper, lock, editor>>
      /\ waiter[s][n].pc \notin {"none", "watch"}
      BY DEF LookAtRecord, ReadObservedFailure
<1>2. \E w \in WaiterType :
         w.pc \notin {"none", "watch"} /\ waiter' = [waiter EXCEPT ![s][n] = w]
  <2>1. CASE LookAtRecord(s, n)
    <3> DEFINE p == IF AlreadyFailed(entry[s]) THEN "done" ELSE "read"
               w == [waiter[s][n] EXCEPT !.pc = p]
    <3>1. p \in {"done", "read"} /\ waiter' = [waiter EXCEPT ![s][n] = w]
          BY <2>1 DEF LookAtRecord, WaiterGoto
    <3> HIDE DEF p
    <3>2. w \in WaiterType /\ w.pc = p
          BY <1>0, <3>1 DEF WaiterType
    <3> HIDE DEF w
    <3> QED BY <3>1, <3>2
  <2>2. CASE ReadObservedFailure(s, n)
    <3> DEFINE w == [pc |-> "report", class |-> entry[s].observed]
    <3>1. w \in WaiterType /\ w.pc = "report"
          BY <1>0 DEF WaiterType, EntryType, Classes
    <3>2. waiter' = [waiter EXCEPT ![s][n] = w]
          BY <2>2 DEF ReadObservedFailure
    <3> HIDE DEF w
    <3> QED BY <3>1, <3>2
  <2> QED BY <2>1, <2>2
<1>3. PICK w \in WaiterType :
         w.pc \notin {"none", "watch"} /\ waiter' = [waiter EXCEPT ![s][n] = w]
      BY <1>2
<1>4. /\ waiter' \in [Sessions -> [Attempts -> WaiterType]]
      /\ \A t \in Sessions \ {s} : waiter'[t] = waiter[t]
      /\ \A m \in Attempts : Spawned(s, m)'
      BY <1>1, <1>3, WaiterGood
<1>5. TypeOK' /\ Others(s)
      BY <1>0, <1>1, <1>4 DEF TypeOK, Others
<1>6. Counted(s)' /\ Stopping(s)' /\ FirstOver(s)' /\ Judged(s)'
      BY <1>0, <1>1 DEF Good, Counted, Stopping, FirstOver, Judged, First, Live
<1> QED BY <1>4, <1>5, <1>6, OneSession DEF Good

-----------------------------------------------------------------------------
(* Reports of an end.  What the classifier says of a report that names no  *)
(* verdict itself.                                                         *)
LEMMA EndVerdict ==
    ASSUME NEW e \in EntryType, NEW code, NEW class
    PROVE  LET o == RecordedOutcome(e, "exited", code, class, "none") IN
           /\ o # "none"
           /\ \/ o = e.outcome
              \/ /\ o \in {"external_closed", "clean_exit"} => code = "zero" /\ "stop" \notin e.marks
                 /\ o = "crashed_before_boot" => code = "nonzero" /\ "stop" \notin e.marks
                 /\ o # "watchdog_killed"
                 /\ o = "launcher_stopped" => "stop" \in e.marks
                 /\ class = "stalled" => o = "startup_stalled"
BY DEF RecordedOutcome, Classify, PostBootOutcome, PreBootOutcome, IsTerminal

(* What a report of an end has to bring with it.                           *)
TrueOfFirst(s, o) ==
    /\ o # "none"
    /\ o \in {"external_closed", "clean_exit"} => ~Live(s, 1) /\ proc[s][1].code = "zero"
    /\ o = "crashed_before_boot" => ~Live(s, 1) /\ proc[s][1].code = "nonzero"
    /\ o = "watchdog_killed" => ~Live(s, 1)
    /\ o = "launcher_stopped" => "stop" \in entry[s].marks

LEMMA EndGood ==
    ASSUME NEW s \in Sessions, Good(s), proc'[s] = proc[s],
           runner'[s].attempt = runner[s].attempt, runner'[s].recoveries = runner[s].recoveries,
           \/ runner'[s] = runner[s]
           \/ runner[s].pc \in {"fail", "fail_spawn"} /\ runner'[s].pc = "done",
           stopper'[s] = stopper[s] \/ stopper'[s].pc = "idle",
           entry'[s].state = "exited", entry'[s].child = entry[s].child,
           "stop" \in entry'[s].marks <=> "stop" \in entry[s].marks,
           First(s) => ~Live(s, 1) /\ runner'[s].pc \notin Early \union {"register"},
           First(s) /\ entry[s].child # 0 => TrueOfFirst(s, entry'[s].outcome)
    PROVE  Counted(s)' /\ Stopping(s)' /\ FirstOver(s)' /\ Judged(s)'
<1>1. runner'[s].pc \notin Unattached
      BY DEF Good, Counted, Early, Unattached
<1>2. Counted(s)'
      BY <1>1 DEF Good, Counted, First, Early, Unattached, Late, Starting
<1>3. Stopping(s)'
      BY DEF Good, Stopping, First, Live
<1>4. FirstOver(s)'
      BY DEF Good, FirstOver, First, Live
<1>5. Judged(s)'
      BY DEF Judged, First, Live, TrueOfFirst
<1> QED BY <1>2, <1>3, <1>4, <1>5

(* In the first round a process that has a wait task is the first one, and *)
(* its runner is past the spawn.                                           *)
LEMMA FirstRound ==
    ASSUME TypeOK, NEW s \in Sessions, NEW n \in Attempts, Good(s), First(s),
           waiter[s][n].pc # "none"
    PROVE  n = 1 /\ runner[s].pc \notin Early \union {"register"}
<1>1. runner[s].attempt \in {0, 1}
      BY DEF Good, Counted, First
<1>2. n \in {1, 2} /\ ~(n > runner[s].attempt)
      BY DEF Good, Spawned, Attempts
<1>3. n = 1 /\ runner[s].attempt = 1
      BY <1>1, <1>2
<1>4. runner[s].pc \notin Early
      BY <1>3 DEF Good, Counted, First
<1>5. runner[s].pc # "register"
      BY <1>3 DEF Good, Spawned, Starting
<1> QED BY <1>3, <1>4, <1>5

(* The wait task reports the exit of its process.                          *)
LEMMA ReportExitKeeps ==
    ASSUME IInv, NEW s \in Sessions, NEW n \in Attempts, ReportExit(s, n)
    PROVE  IInv'
<1> DEFINE w == [pc |-> "done", class |-> "none"]
           o == RecordedOutcome(entry[s], "exited", proc[s][n].code, waiter[s][n].class, "none")
<1>0. TypeOK /\ Good(s) /\ entry[s] \in EntryType /\ w \in WaiterType
      BY DEF IInv, TypeOK, WaiterType, Classes
<1>1. /\ waiter[s][n].pc = "report" /\ waiter' = [waiter EXCEPT ![s][n] = w]
      /\ UNCHANGED <<runner, proc, watchdog, stopper, lock, editor>>
      /\ EmitStatus(s, "exited", proc[s][n].code, waiter[s][n].class, "none")
      BY DEF ReportExit
<1>2. /\ entry' \in [Sessions -> EntryType]
      /\ entry'[s].state = "exited" /\ entry'[s].child = entry[s].child
      /\ entry'[s].outcome = o
      /\ "stop" \in entry'[s].marks <=> "stop" \in entry[s].marks
      /\ \A t \in Sessions \ {s} : entry'[t] = entry[t]
      BY <1>0, <1>1, EmitFields DEF States, Outcomes
<1>3. w.pc = "done"
      OBVIOUS
<1> HIDE DEF w
<1>4. /\ waiter' \in [Sessions -> [Attempts -> WaiterType]]
      /\ \A t \in Sessions \ {s} : waiter'[t] = waiter[t]
      /\ \A m \in Attempts : Spawned(s, m)'
      BY <1>0, <1>1, <1>3, WaiterGood
<1>5. TypeOK' /\ Others(s)
      BY <1>0, <1>1, <1>2, <1>4 DEF TypeOK, Others
<1>6. proc[s][n].state = "reaped"
      BY <1>0, <1>1 DEF Good, Spawned
<1>7. First(s) => n = 1 /\ ~Live(s, 1) /\ runner[s].pc \notin Early \union {"register"}
      BY <1>0, <1>1, <1>6, FirstRound DEF Live
<1>8. ASSUME First(s), entry[s].child # 0 PROVE TrueOfFirst(s, entry'[s].outcome)
  <2>1. /\ o # "none"
        /\ \/ o = entry[s].outcome
           \/ /\ o \in {"external_closed", "clean_exit"} => proc[s][1].code = "zero"
              /\ o = "crashed_before_boot" => proc[s][1].code = "nonzero"
              /\ o = "launcher_stopped" => "stop" \in entry[s].marks
        BY <1>0, <1>7, <1>8, EndVerdict
  <2> HIDE DEF o
  <2> QED BY <1>0, <1>2, <1>7, <1>8, <2>1 DEF TrueOfFirst, Good, Judged
<1>9. Good(s)'
      BY <1>0, <1>1, <1>2, <1>4, <1>7, <1>8, EndGood DEF Good
<1> QED BY <1>5, <1>9, OneSession

(* The runner reports that the launch failed.                              *)
LEMMA FailKeeps ==
    ASSUME IInv, NEW s \in Sessions, Fail(s)
    PROVE  IInv'
<1> DEFINE r == [runner[s] EXCEPT !.pc = "done", !.class = "none"]
<1>0. TypeOK /\ Good(s) /\ entry[s] \in EntryType /\ runner[s] \in RunnerType
      BY DEF IInv, TypeOK
<1>1. /\ UNCHANGED <<proc, waiter, watchdog, stopper, lock, editor>>
      /\ runner' = [runner EXCEPT ![s] = r]
      /\ runner[s].pc \in {"fail", "fail_spawn"}
      BY DEF Fail
<1>2. /\ r \in RunnerType /\ r.pc = "done" /\ r.attempt = runner[s].attempt
      /\ r.recoveries = runner[s].recoveries
      BY <1>0 DEF RunnerType, RunnerPCs, Classes
<1> HIDE DEF r
<1>3. /\ runner' \in [Sessions -> RunnerType] /\ runner'[s] = r
      /\ \A t \in Sessions \ {s} : runner'[t] = runner[t]
      BY <1>0, <1>1, <1>2 DEF TypeOK
<1>4. /\ entry' \in [Sessions -> EntryType]
      /\ entry'[s].state = "exited" /\ entry'[s].child = entry[s].child
      /\ "stop" \in entry'[s].marks <=> "stop" \in entry[s].marks
      /\ \A t \in Sessions \ {s} : entry'[t] = entry[t]
      /\ runner[s].pc = "fail" => entry'[s].outcome =
            RecordedOutcome(entry[s], "exited", "nonzero", runner[s].class, "none")
  <2>1. CASE runner[s].pc = "fail"
    <3>1. EmitStatus(s, "exited", "nonzero", runner[s].class, "none")
          BY <2>1 DEF Fail
    <3> QED BY <1>0, <3>1, EmitFields DEF States, Outcomes
  <2>2. CASE runner[s].pc = "fail_spawn"
    <3>1. EmitStatus(s, "exited", "nonzero", "unknown", "spawn_failed")
          BY <2>2 DEF Fail
    <3> QED BY <1>0, <2>2, <3>1, EmitFields DEF States, Outcomes
  <2> QED BY <1>1, <2>1, <2>2
<1>5. TypeOK' /\ Others(s)
      BY <1>0, <1>1, <1>3, <1>4 DEF TypeOK, Others
<1>6. First(s) => ~Live(s, 1)
  <2>1. CASE runner[s].pc = "fail"
        BY <1>0, <2>1 DEF Good, FirstOver
  <2>2. CASE runner[s].pc = "fail_spawn" /\ First(s)
    <3>1. runner[s].attempt = 0 /\ 1 \in Attempts
          BY <1>0, <2>2 DEF Good, Counted, First, Early, Attempts
    <3> QED BY <1>0, <3>1 DEF Good, Spawned, Live
  <2> QED BY <1>1, <2>1, <2>2
<1>7. ASSUME First(s), entry[s].child # 0 PROVE TrueOfFirst(s, entry'[s].outcome)
  <2>1. runner[s].pc = "fail"
        BY <1>0, <1>1, <1>7 DEF Good, Counted, First, Early
  <2>2. runner[s].class = "stalled" \/ entry[s].outcome # "none"
        BY <1>0, <1>7, <2>1 DEF Good, Judged
  <2> DEFINE o == RecordedOutcome(entry[s], "exited", "nonzero", runner[s].class, "none")
  <2>3. o # "none" /\ (o = entry[s].outcome \/ o = "startup_stalled")
    <3>1. entry[s].outcome # "none" => o = entry[s].outcome
          BY DEF RecordedOutcome
    <3>2. CASE entry[s].outcome # "none"
          BY <3>1, <3>2
    <3>3. CASE runner[s].class = "stalled"
          BY <1>0, <3>3, EndVerdict
    <3> QED BY <2>2, <3>2, <3>3
  <2>4. entry'[s].outcome = o
        BY <1>4, <2>1
  <2> HIDE DEF o
  <2> QED BY <1>0, <1>7, <2>3, <2>4 DEF TrueOfFirst, Good, Judged
<1>8. Counted(s)' /\ Stopping(s)' /\ FirstOver(s)' /\ Judged(s)'
  <2>1. runner'[s].pc \notin Early \union {"register"}
        BY <1>2, <1>3 DEF Early, Unattached
  <2> QED BY <1>0, <1>1, <1>2, <1>3, <1>4, <1>6, <1>7, <2>1, EndGood
<1>9. ASSUME NEW m \in Attempts PROVE Spawned(s, m)'
      BY <1>0, <1>1, <1>2, <1>3 DEF Good, Spawned, Live, Starting
<1>10. Good(s)'
      BY <1>8, <1>9 DEF Good
<1> QED BY <1>5, <1>10, OneSession

(* The watchdog looks at the session ...                                   *)
LEMMA WatchdogFiresKeeps ==
    ASSUME IInv, NEW s \in Sessions, NEW n \in Attempts, WatchdogFires(s, n)
    PROVE  IInv'
<1> DEFINE q == IF WatchdogStandsDown(entry[s]) THEN "done" ELSE "kill"
<1>0. TypeOK /\ Good(s)
      BY DEF IInv
<1>1. /\ UNCHANGED <<entry, runner, proc, waiter, stopper, lock, editor>>
      /\ watchdog' = [watchdog EXCEPT ![s][n] = q] /\ watchdog[s][n] = "armed"
      BY DEF WatchdogFires, WatchdogGoto
<1>2. q \in {"done", "kill"}
      OBVIOUS
<1> HIDE DEF q
<1>3. /\ watchdog' \in [Sessions -> [Attempts -> {"none", "armed", "kill", "report", "done"}]]
      /\ watchdog'[s][n] = q /\ \A m \in Attempts \ {n} : watchdog'[s][m] = watchdog[s][m]
      /\ \A t \in Sessions \ {s} : watchdog'[t] = watchdog[t]
      BY <1>0, <1>1, <1>2 DEF TypeOK
<1>4. TypeOK' /\ Others(s)
      BY <1>0, <1>1, <1>3 DEF TypeOK, Others
<1>5. ASSUME NEW m \in Attempts PROVE Spawned(s, m)'
  <2>1. CASE m = n
        BY <1>0, <1>1, <1>2, <1>3, <2>1 DEF Good, Spawned, Live
  <2>2. CASE m # n
        BY <1>0, <1>1, <1>3, <2>2 DEF Good, Spawned, Live
  <2> QED BY <2>1, <2>2
<1>6. Counted(s)' /\ Stopping(s)' /\ FirstOver(s)' /\ Judged(s)'
      BY <1>0, <1>1 DEF Good, Counted, Stopping, FirstOver, Judged, First, Live
<1> QED BY <1>4, <1>5, <1>6, OneSession DEF Good

(* ... kills its process ...                                               *)
LEMMA WatchdogKillsKeeps ==
    ASSUME IInv, NEW s \in Sessions, NEW n \in Attempts, WatchdogKills(s, n)
    PROVE  IInv'
<1>0. TypeOK /\ Good(s)
      BY DEF IInv
<1>1. /\ UNCHANGED <<entry, runner, waiter, stopper, lock, editor>>
      /\ watchdog' = [watchdog EXCEPT ![s][n] = "report"] /\ watchdog[s][n] = "kill"
      /\ proc' = AfterKill(s, n)
      BY DEF WatchdogKills, WatchdogGoto
<1>2. /\ proc' \in [Sessions -> [Attempts -> ProcType]]
      /\ \A t \in Sessions \ {s} : proc'[t] = proc[t]
      /\ Ages(s) /\ proc'[s][n].state # "live"
      BY <1>0, <1>1, KillAges
<1>3. /\ watchdog' \in [Sessions -> [Attempts -> {"none", "armed", "kill", "report", "done"}]]
      /\ watchdog'[s][n] = "report" /\ \A m \in Attempts \ {n} : watchdog'[s][m] = watchdog[s][m]
      /\ \A t \in Sessions \ {s} : watchdog'[t] = watchdog[t]
      BY <1>0, <1>1, OneWatchdog
<1>4. TypeOK' /\ Others(s)
      BY <1>0, <1>1, <1>2, <1>3 DEF TypeOK, Others
<1>5. ASSUME NEW m \in Attempts PROVE Spawned(s, m)'
  <2>1. CASE m = n
        BY <1>0, <1>1, <1>2, <1>3, <2>1 DEF Good, Spawned, Live, Ages
  <2>2. CASE m # n
        BY <1>0, <1>1, <1>2, <1>3, <2>2, AgedSpawned
  <2> QED BY <2>1, <2>2
<1>6. Counted(s)' /\ Stopping(s)' /\ FirstOver(s)' /\ Judged(s)'
      BY <1>0, <1>1, <1>2, AgedGood
<1> QED BY <1>4, <1>5, <1>6, OneSession DEF Good

(* ... and reports that, whatever the record says by then.                 *)
LEMMA WatchdogReportsKeeps ==
    ASSUME IInv, NEW s \in Sessions, NEW n \in Attempts, WatchdogReports(s, n)
    PROVE  IInv'
<1>0. TypeOK /\ Good(s) /\ entry[s] \in EntryType
      BY DEF IInv, TypeOK
<1>1. /\ UNCHANGED <<runner, proc, waiter, stopper, lock, editor>>
      /\ watchdog' = [watchdog EXCEPT ![s][n] = "done"] /\ watchdog[s][n] = "report"
      /\ EmitStatus(s, "exited", "nonzero", "stalled", "watchdog_killed")
      BY DEF WatchdogReports, WatchdogGoto
<1>2. /\ entry' \in [Sessions -> EntryType]
      /\ entry'[s].state = "exited" /\ entry'[s].child = entry[s].child
      /\ entry'[s].outcome = "watchdog_killed"
      /\ "stop" \in entry'[s].marks <=> "stop" \in entry[s].marks
      /\ \A t \in Sessions \ {s} : entry'[t] = entry[t]
  <2>1. RecordedOutcome(entry[s], "exited", "nonzero", "stalled", "watchdog_killed")
           = "watchdog_killed"
        BY DEF RecordedOutcome
  <2> QED BY <1>0, <1>1, <2>1, EmitFields DEF States, Outcomes
<1>3. /\ watchdog' \in [Sessions -> [Attempts -> {"none", "armed", "kill", "report", "done"}]]
      /\ watchdog'[s][n] = "done" /\ \A m \in Attempts \ {n} : watchdog'[s][m] = watchdog[s][m]
      /\ \A t \in Sessions \ {s} : watchdog'[t] = watchdog[t]
      BY <1>0, <1>1, OneWatchdog
<1>4. TypeOK' /\ Others(s)
      BY <1>0, <1>1, <1>2, <1>3 DEF TypeOK, Others
<1>5. ASSUME NEW m \in Attempts PROVE Spawned(s, m)'
  <2>1. CASE m = n
        BY <1>0, <1>1, <1>3, <2>1 DEF Good, Spawned, Live
  <2>2. CASE m # n
        BY <1>0, <1>1, <1>3, <2>2 DEF Good, Spawned, Live
  <2> QED BY <2>1, <2>2
<1>6. waiter[s][n].pc # "none" /\ ~Live(s, n)
      BY <1>0, <1>1 DEF Good, Spawned
<1>7. First(s) => ~Live(s, 1) /\ runner[s].pc \notin Early \union {"register"}
      BY <1>0, <1>6, FirstRound
<1>8. First(s) => TrueOfFirst(s, entry'[s].outcome)
      BY <1>2, <1>7 DEF TrueOfFirst
<1>9. Counted(s)' /\ Stopping(s)' /\ FirstOver(s)' /\ Judged(s)'
      BY <1>0, <1>1, <1>2, <1>7, <1>8, EndGood
<1> QED BY <1>4, <1>5, <1>9, OneSession DEF Good

-----------------------------------------------------------------------------
(* The user asks for a stop: it is put on record ...                       *)
LEMMA StopRequestedKeeps ==
    ASSUME IInv, NEW s \in Sessions, StopRequested(s)
    PROVE  IInv'
<1> DEFINE e == [entry[s] EXCEPT !.marks = @ \union {"stop"}]
           p == IF entry[s].child = 0 THEN NoStop ELSE [pc |-> "kill", child |-> entry[s].child]
<1>0. TypeOK /\ Good(s) /\ entry[s] \in EntryType
      BY DEF IInv, TypeOK
<1>1. /\ UNCHANGED <<runner, proc, waiter, watchdog, lock, editor>>
      /\ entry[s].state # "absent"
      /\ entry' = [entry EXCEPT ![s] = e] /\ stopper' = [stopper EXCEPT ![s] = p]
      BY DEF StopRequested
<1>2. /\ e \in EntryType /\ e.state = entry[s].state /\ e.child = entry[s].child
      /\ e.outcome = entry[s].outcome /\ "stop" \in e.marks
      BY <1>0 DEF EntryType, Marks
<1>3. /\ p \in StopperType /\ p.pc \in {"idle", "kill"}
      /\ p.pc = "kill" => entry[s].child # 0 /\ p.child = entry[s].child
      BY <1>0 DEF NoStop, EntryType, StopperType
<1> HIDE DEF e, p
<1>4. /\ entry' \in [Sessions -> EntryType] /\ entry'[s] = e
      /\ \A t \in Sessions \ {s} : entry'[t] = entry[t]
      /\ stopper' \in [Sessions -> StopperType] /\ stopper'[s] = p
      /\ \A t \in Sessions \ {s} : stopper'[t] = stopper[t]
      BY <1>0, <1>1, <1>2, <1>3 DEF TypeOK
<1>5. TypeOK' /\ Others(s)
      BY <1>0, <1>1, <1>4 DEF TypeOK, Others
<1>6. runner[s].pc \notin Unattached
      BY <1>0, <1>1 DEF Good, Counted, NoEntry
<1>7. Counted(s)'
      BY <1>0, <1>1, <1>2, <1>4, <1>6 DEF Good, Counted, First
<1>8. entry[s].child \in {0, 1, 2}
      BY <1>0 DEF EntryType, Attempts
<1>9. Stopping(s)'
      BY <1>1, <1>2, <1>3, <1>4, <1>8 DEF Stopping, First
<1>10. FirstOver(s)' /\ Judged(s)'
      BY <1>0, <1>1, <1>2, <1>4 DEF Good, FirstOver, Judged, First, Live
<1>11. ASSUME NEW m \in Attempts PROVE Spawned(s, m)'
      BY <1>0, <1>1 DEF Good, Spawned, Live
<1> QED BY <1>5, <1>7, <1>9, <1>10, <1>11, OneSession DEF Good

(* ... the process that was found is killed ...                            *)
LEMMA StopKillsKeeps ==
    ASSUME IInv, NEW s \in Sessions, StopKills(s)
    PROVE  IInv'
<1> DEFINE n == stopper[s].child
           p == IF Killable(s, n) THEN [pc |-> "log", child |-> 0] ELSE NoStop
<1>0. TypeOK /\ Good(s) /\ entry[s] \in EntryType
      BY DEF IInv, TypeOK
<1>1. /\ UNCHANGED <<entry, runner, waiter, watchdog, lock, editor>>
      /\ stopper[s].pc = "kill"
      /\ proc' = AfterKill(s, n) /\ stopper' = [stopper EXCEPT ![s] = p]
      BY DEF StopKills
<1>2. p \in StopperType /\ p.pc \in {"idle", "log"}
      BY DEF NoStop, StopperType
<1>3. n \in Attempts /\ n \in 1..entry[s].child
      BY <1>0, <1>1 DEF Good, Stopping, EntryType, Attempts
<1> HIDE DEF p, n
<1>4. /\ proc' \in [Sessions -> [Attempts -> ProcType]]
      /\ \A t \in Sessions \ {s} : proc'[t] = proc[t]
      /\ Ages(s) /\ proc'[s][n].state # "live"
      BY <1>0, <1>1, <1>3, KillAges
<1>5. /\ stopper' \in [Sessions -> StopperType] /\ stopper'[s] = p
      /\ \A t \in Sessions \ {s} : stopper'[t] = stopper[t]
      BY <1>0, <1>1, <1>2 DEF TypeOK
<1>6. TypeOK' /\ Others(s)
      BY <1>0, <1>1, <1>4, <1>5 DEF TypeOK, Others
<1>7. First(s) => n = 1
  <2>1. First(s) => entry[s].child \in {0, 1}
        BY <1>0 DEF Good, Counted, First
  <2> QED BY <1>3, <2>1
<1>8. Counted(s)' /\ FirstOver(s)' /\ Judged(s)'
  <2>1. 1 \in Attempts
        BY DEF Attempts
  <2>2. Counted(s)'
        BY <1>0, <1>1 DEF Good, Counted, First
  <2>3. FirstOver(s)'
        BY <1>0, <1>1, <1>4, <2>1 DEF Good, FirstOver, First, Live, Ages
  <2>4. Judged(s)'
        BY <1>0, <1>1, <1>4, <2>1 DEF Good, Judged, First, Live, Ages
  <2> QED BY <2>2, <2>3, <2>4
<1>9. Stopping(s)'
      BY <1>0, <1>1, <1>2, <1>4, <1>5, <1>7 DEF Good, Stopping, First, Live
<1>10. ASSUME NEW m \in Attempts PROVE Spawned(s, m)'
      BY <1>0, <1>1, <1>4, AgedSpawned
<1> QED BY <1>6, <1>8, <1>9, <1>10, OneSession DEF Good

(* ... that is logged ...                                                  *)
LEMMA StopLogsKeeps ==
    ASSUME IInv, NEW s \in Sessions, StopLogs(s)
    PROVE  IInv'
<1> DEFINE p == [stopper[s] EXCEPT !.pc = "report"]
<1>0. TypeOK /\ Good(s) /\ stopper[s] \in StopperType
      BY DEF IInv, TypeOK
<1>1. /\ UNCHANGED <<runner, proc, waiter, watchdog, lock, editor>>
      /\ stopper[s].pc = "log" /\ EmitLog(s, "plain") /\ stopper' = [stopper EXCEPT ![s] = p]
      BY DEF StopLogs
<1>2. p \in StopperType /\ p.pc = "report"
      BY <1>0 DEF StopperType
<1> HIDE DEF p
<1>3. /\ stopper' \in [Sessions -> StopperType] /\ stopper'[s] = p
      /\ \A t \in Sessions \ {s} : stopper'[t] = stopper[t]
      BY <1>0, <1>1, <1>2 DEF TypeOK
<1>4. /\ entry' \in [Sessions -> EntryType]
      /\ \/ entry'[s].state = entry[s].state
         \/ entry'[s].state = "running" /\ entry[s].state \in {"starting", "monitoring"}
      /\ entry'[s].child = entry[s].child /\ entry'[s].outcome = entry[s].outcome
      /\ "stop" \in entry'[s].marks <=> "stop" \in entry[s].marks
      /\ \A t \in Sessions \ {s} : entry'[t] = entry[t]
      BY <1>0, <1>1, LogFields DEF AllLines
<1>5. TypeOK' /\ Others(s)
      BY <1>0, <1>1, <1>3, <1>4 DEF TypeOK, Others
<1>6. runner[s].pc \notin Unattached
      BY <1>0, <1>1 DEF Good, Counted, Stopping, NoEntry
<1>7. Counted(s)'
      BY <1>0, <1>1, <1>4, <1>6 DEF Good, Counted, First
<1>8. Stopping(s)'
      BY <1>0, <1>1, <1>2, <1>3, <1>4 DEF Good, Stopping, First, Live
<1>9. FirstOver(s)' /\ Judged(s)'
      BY <1>0, <1>1, <1>4 DEF Good, FirstOver, Judged, First, Live, IsTerminal
<1>10. ASSUME NEW m \in Attempts PROVE Spawned(s, m)'
      BY <1>0, <1>1 DEF Good, Spawned, Live
<1> QED BY <1>5, <1>7, <1>8, <1>9, <1>10, OneSession DEF Good

(* ... and reported as the end of the session.                             *)
LEMMA StopReportsKeeps ==
    ASSUME IInv, NEW s \in Sessions, StopReports(s)
    PROVE  IInv'
<1> DEFINE o == RecordedOutcome(entry[s], "exited", "nonzero", "none", "none")
<1>0. TypeOK /\ Good(s) /\ entry[s] \in EntryType /\ NoStop \in StopperType /\ NoStop.pc = "idle"
      BY DEF IInv, TypeOK, NoStop, StopperType
<1>1. /\ UNCHANGED <<runner, proc, waiter, watchdog, lock, editor>>
      /\ stopper[s].pc = "report" /\ EmitStatus(s, "exited", "nonzero", "none", "none")
      /\ stopper' = [stopper EXCEPT ![s] = NoStop]
      BY DEF StopReports
<1>2. /\ entry' \in [Sessions -> EntryType]
      /\ entry'[s].state = "exited" /\ entry'[s].child = entry[s].child
      /\ entry'[s].outcome = o
      /\ "stop" \in entry'[s].marks <=> "stop" \in entry[s].marks
      /\ \A t \in Sessions \ {s} : entry'[t] = entry[t]
      BY <1>0, <1>1, EmitFields DEF States, Outcomes
<1>3. /\ stopper' \in [Sessions -> StopperType] /\ stopper'[s] = NoStop
      /\ \A t \in Sessions \ {s} : stopper'[t] = stopper[t]
      BY <1>0, <1>1 DEF TypeOK
<1>4. TypeOK' /\ Others(s)
      BY <1>0, <1>1, <1>2, <1>3 DEF TypeOK, Others
<1>5. First(s) => "stop" \in entry[s].marks /\ ~Live(s, 1) /\ entry[s].child # 0
      BY <1>0, <1>1 DEF Good, Stopping
<1>6. First(s) => runner[s].pc \notin Early \union {"register"}
      BY <1>0, <1>5 DEF Good, Counted, First, Early
<1>7. ASSUME First(s), entry[s].child # 0 PROVE TrueOfFirst(s, entry'[s].outcome)
  <2>1. /\ o # "none"
        /\ o = entry[s].outcome \/ o \notin {"external_closed", "clean_exit", "crashed_before_boot",
                                             "watchdog_killed"}
        BY <1>0, <1>5, <1>7, EndVerdict
  <2> HIDE DEF o
  <2> QED BY <1>0, <1>2, <1>5, <1>7, <2>1 DEF TrueOfFirst, Good, Judged
<1>8. Counted(s)' /\ Stopping(s)' /\ FirstOver(s)' /\ Judged(s)'
      BY <1>0, <1>1, <1>2, <1>3, <1>5, <1>6, <1>7, EndGood
<1>9. ASSUME NEW m \in Attempts PROVE Spawned(s, m)'
      BY <1>0, <1>1 DEF Good, Spawned, Live
<1> QED BY <1>4, <1>8, <1>9, OneSession DEF Good

-----------------------------------------------------------------------------
(* A game prints while its pipes are read; a failure signal expires.       *)
LEMMA PrintsKeeps ==
    ASSUME IInv, NEW s \in Sessions, NEW n \in Attempts, Prints(s, n)
    PROVE  IInv'
<1>0. /\ TypeOK /\ Good(s) /\ lock \in Sessions \union {"free", "editor"}
      /\ runner \in [Sessions -> RunnerType]
      BY DEF IInv, TypeOK
<1>1. /\ UNCHANGED <<runner, proc, waiter, watchdog, stopper, lock, editor>>
      /\ proc[s][n].pipe = "open"
      BY DEF Prints
<1>2. PICK k \in AllLines : EmitLog(s, k)
      BY LaunchAssumption DEF Prints
<1>3. runner[s].pc \notin Unattached
  <2>1. ~(n > runner[s].attempt)
        BY <1>0, <1>1 DEF Good, Spawned
  <2>2. runner[s].pc \in Unattached => runner[s].attempt = 0
        BY <1>0 DEF Good, Counted, First, Early
  <2> QED BY <2>1, <2>2 DEF Attempts
<1>4. /\ entry' \in [Sessions -> EntryType]
      /\ \/ entry'[s].state = entry[s].state
         \/ entry'[s].state = "running" /\ entry[s].state \in {"starting", "monitoring"}
      /\ entry'[s].child = entry[s].child /\ entry'[s].outcome = entry[s].outcome
      /\ "stop" \in entry'[s].marks <=> "stop" \in entry[s].marks
      /\ \A t \in Sessions \ {s} : entry'[t] = entry[t]
      BY <1>0, <1>2, LogFields
<1> QED BY <1>0, <1>1, <1>3, <1>4, QuietMove DEF IsTerminal, Within

LEMMA SignalExpiresKeeps ==
    ASSUME IInv, NEW s \in Sessions, SignalExpires(s)
    PROVE  IInv'
<1> DEFINE e == [entry[s] EXCEPT !.observed = "none"]
<1>0. /\ TypeOK /\ Good(s) /\ lock \in Sessions \union {"free", "editor"}
      /\ runner \in [Sessions -> RunnerType] /\ entry[s] \in EntryType
      BY DEF IInv, TypeOK
<1>1. /\ UNCHANGED <<runner, proc, waiter, watchdog, stopper, lock, editor>>
      /\ entry' = [entry EXCEPT ![s] = e] /\ entry[s].observed # "none"
      BY DEF SignalExpires
<1>2. /\ e \in EntryType /\ e.state = entry[s].state /\ e.child = entry[s].child
      /\ e.outcome = entry[s].outcome /\ e.marks = entry[s].marks
      BY <1>0 DEF EntryType
<1> HIDE DEF e
<1>3. /\ entry' \in [Sessions -> EntryType] /\ entry'[s] = e
      /\ \A t \in Sessions \ {s} : entry'[t] = entry[t]
      BY <1>0, <1>1, <1>2 DEF TypeOK
<1>4. runner[s].pc \notin Unattached
      BY <1>0, <1>1 DEF Good, Counted, NoEntry
<1> QED BY <1>0, <1>1, <1>2, <1>3, <1>4, QuietMove DEF Within

(* A deletion or content change only takes the lock.                       *)
LEMMA EditKeeps ==
    ASSUME IInv, Edit
    PROVE  IInv'
<1>1. /\ UNCHANGED <<entry, runner, proc, waiter, watchdog, stopper>>
      /\ lock' \in {lock, "free", "editor"} /\ editor' \in {"idle", "check", "working"}
      BY DEF Edit, EditorLocks, EditorBegins, EditorLeaves
<1>2. TypeOK'
      BY <1>1 DEF IInv, TypeOK
<1>3. ASSUME NEW s \in Sessions PROVE Good(s)'
      BY <1>1, SameGood DEF IInv
<1> QED BY <1>2, <1>3 DEF IInv

-----------------------------------------------------------------------------
LEMMA InitInv == Init => IInv
<1> SUFFICES ASSUME Init PROVE IInv
    OBVIOUS
<1>1. TypeOK
  <2>1. NoEntry \in EntryType
        BY DEF NoEntry, EntryType, States, Outcomes, Attempts
  <2>2. [pc |-> "none", attempt |-> 0, recoveries |-> 0, class |-> "none"] \in RunnerType
        BY DEF RunnerType, RunnerPCs, Attempts, Classes
  <2>3. [state |-> "none", code |-> "none", pipe |-> "none"] \in ProcType
        BY DEF ProcType
  <2>4. [pc |-> "none", class |-> "none"] \in WaiterType
        BY DEF WaiterType, Classes
  <2>5. [pc |-> "idle", child |-> 0] \in StopperType
        BY DEF StopperType
  <2> QED BY <2>1, <2>2, <2>3, <2>4, <2>5 DEF Init, TypeOK
<1>2. ASSUME NEW s \in Sessions PROVE Good(s)
  <2>1. /\ entry[s] = NoEntry
        /\ runner[s].pc = "none" /\ runner[s].attempt = 0 /\ runner[s].recoveries = 0
        /\ stopper[s].pc = "idle"
        /\ \A n \in Attempts : /\ proc[s][n].state = "none" /\ proc[s][n].pipe = "none"
                               /\ waiter[s][n].pc = "none" /\ watchdog[s][n] = "none"
        BY DEF Init
  <2>2. Counted(s)
        BY <2>1 DEF Counted, First, NoEntry, Late, Starting
  <2>3. Stopping(s)
        BY <2>1 DEF Stopping
  <2>4. FirstOver(s)
        BY <2>1 DEF FirstOver, First, NoEntry, IsTerminal
  <2>5. Judged(s)
        BY <2>1 DEF Judged, NoEntry
  <2>6. ASSUME NEW n \in Attempts PROVE Spawned(s, n)
        BY <2>1 DEF Spawned, Live, Starting, Attempts
  <2> QED BY <2>2, <2>3, <2>4, <2>5, <2>6 DEF Good
<1> QED BY <1>1, <1>2 DEF IInv

LEMMA StutterKeeps ==
    ASSUME IInv, UNCHANGED vars
    PROVE  IInv'
<1>1. TypeOK'
      BY DEF IInv, TypeOK, vars
<1>2. ASSUME NEW s \in Sessions PROVE Good(s)'
      BY SameGood DEF IInv, vars
<1> QED BY <1>1, <1>2 DEF IInv

LEMMA StepKeeps == IInv /\ [Next]_vars => IInv'
<1> SUFFICES ASSUME IInv, [Next]_vars PROVE IInv'
    OBVIOUS
<1>1. CASE UNCHANGED vars
      BY <1>1, StutterKeeps
<1>2. CASE Edit
      BY <1>2, EditKeeps
<1>3. ASSUME NEW s \in Sessions,
             Request(s) \/ ReportPreparation(s) \/ Drive(s)
      PROVE  IInv'
      BY <1>3, RequestKeeps, QuietRunnerKeeps, PreparationFailsKeeps, SpawnKeeps, RegisterKeeps,
         SuperviseKeeps, ObserveExitKeeps, KillStalledKeeps, RecoverKeeps, GiveUpKeeps, FailKeeps
         DEF Drive
<1>4. ASSUME NEW s \in Sessions, StopRequested(s) \/ Stop(s) \/ SignalExpires(s)
      PROVE  IInv'
      BY <1>4, StopRequestedKeeps, StopKillsKeeps, StopLogsKeeps, StopReportsKeeps,
         SignalExpiresKeeps DEF Stop
<1>5. ASSUME NEW s \in Sessions, NEW n \in Attempts, Wait(s, n) \/ Watch(s, n) \/ Game(s, n)
      PROVE  IInv'
      BY <1>5, ReapKeeps, WaiterLooksKeeps, ReportExitKeeps, WatchdogFiresKeeps,
         WatchdogKillsKeeps, WatchdogReportsKeeps, GameAgesKeeps, PrintsKeeps
         DEF Wait, Watch, Game
<1> QED BY <1>1, <1>2, <1>3, <1>4, <1>5 DEF Next

(* The invariant holds throughout, whatever the sessions and the requests. *)
THEOREM Invariance == Spec => []IInv
<1> QED BY InitInv, StepKeeps, PTL DEF Spec

(* Every variable of the session store and its tasks keeps its type.       *)
THEOREM TypeCorrect == Spec => []TypeOK
<1>1. IInv => TypeOK
      BY DEF IInv
<1> QED BY <1>1, Invariance, PTL

(* A session never has two games: the runner starts over only after it has *)
(* seen a terminal record, and no report makes the record terminal before  *)
(* the process is dead.                                                    *)
THEOREM OneGame == Spec => []OneGamePerSession
<1>1. ASSUME IInv, NEW s \in Sessions, NEW n \in Attempts, NEW m \in Attempts,
             Live(s, n), Live(s, m)
      PROVE  n = m
  <2>1. Good(s) /\ TypeOK
        BY <1>1 DEF IInv
  <2>2. ~(n > runner[s].attempt) /\ ~(m > runner[s].attempt)
        BY <1>1, <2>1 DEF Good, Spawned, Live
  <2>3. CASE First(s)
    <3>1. runner[s].attempt \in {0, 1}
          BY <2>1, <2>3 DEF Good, Counted, First
    <3> QED BY <2>2, <3>1 DEF Attempts
  <2>4. CASE ~First(s)
        BY <1>1, <2>1, <2>4 DEF Good, FirstOver, Attempts
  <2> QED BY <2>3, <2>4
<1>2. IInv => OneGamePerSession
      BY <1>1 DEF OneGamePerSession
<1> QED BY <1>2, Invariance, PTL

(* A live game is the child a stop request reaches, and its exit will be   *)
(* reported, from the registration of its process on.                      *)
THEOREM Supervised == Spec => []GameIsSupervised
<1>1. ASSUME IInv, NEW s \in Sessions, NEW n \in Attempts, Live(s, n)
      PROVE  \/ runner[s].pc = "register" /\ runner[s].attempt = n
             \/ /\ entry[s].child = n
                /\ \/ runner[s].pc \in {"registered", "supervise"}
                   \/ waiter[s][n].pc = "watch"
  <2>1. Good(s) /\ TypeOK
        BY <1>1 DEF IInv
  <2>2. n = runner[s].attempt
    <3>1. ~(n > runner[s].attempt) /\ n \in {1, 2}
          BY <1>1, <2>1 DEF Good, Spawned, Live, Attempts
    <3>2. CASE First(s)
          BY <3>1, <3>2, <2>1 DEF Good, Counted, First
    <3>3. CASE ~First(s)
      <4>1. n = 2
            BY <1>1, <2>1, <3>1, <3>3 DEF Good, FirstOver
      <4>2. runner[s].attempt \in {0, 1, 2}
            BY <2>1 DEF TypeOK, RunnerType, Attempts
      <4> QED BY <3>1, <4>1, <4>2
    <3> QED BY <3>2, <3>3
  <2>3. CASE runner[s].pc \in Starting
        BY <2>1, <2>2, <2>3 DEF Good, Counted, Starting
  <2>4. CASE runner[s].pc \notin Starting
    <3>1. entry[s].child = n
          BY <2>1, <2>2, <2>4 DEF Good, Counted, Starting
    <3>2. waiter[s][n].pc # "none"
      <4>1. ~(n > runner[s].attempt)
            BY <2>2 DEF Attempts
      <4> QED BY <2>1, <2>2, <2>4, <4>1 DEF Good, Spawned
    <3>3. waiter[s][n].pc = "watch"
          BY <1>1, <2>1, <3>2 DEF Good, Spawned, Live
    <3> QED BY <3>1, <3>3
  <2> QED BY <2>3, <2>4
<1>2. IInv => GameIsSupervised
      BY <1>1 DEF GameIsSupervised
<1> QED BY <1>2, Invariance, PTL

(* A session that was not retried is reported as over only when its game   *)
(* is dead, whichever of its tasks reports.                                *)
THEOREM EndedDead == Spec => []EndedMeansDead
<1>1. ASSUME IInv, NEW s \in Sessions, NEW n \in Attempts,
             runner[s].recoveries = 0, IsTerminal(entry[s].state)
      PROVE  ~Live(s, n)
  <2>1. Good(s)
        BY <1>1 DEF IInv
  <2>2. runner[s].attempt \in {0, 1}
        BY <1>1, <2>1 DEF Good, Counted
  <2>3. n = 1 \/ n > runner[s].attempt
        BY <2>2 DEF Attempts
  <2> QED BY <1>1, <2>1, <2>3 DEF Good, Spawned, FirstOver, First, Live
<1>2. IInv => EndedMeansDead
      BY <1>1 DEF EndedMeansDead
<1> QED BY <1>2, Invariance, PTL

(* The verdict on a game that was not retried is true of its process.      *)
THEOREM TrueVerdict == Spec => []VerdictIsTrue
<1>1. ASSUME IInv, NEW s \in Sessions, runner[s].recoveries = 0, entry[s].child # 0
      PROVE  /\ entry[s].child = 1
             /\ entry[s].outcome \in {"external_closed", "clean_exit"} => proc[s][1].code = "zero"
             /\ entry[s].outcome = "crashed_before_boot" => proc[s][1].code = "nonzero"
             /\ entry[s].outcome = "watchdog_killed" => ~Live(s, 1)
             /\ entry[s].outcome = "launcher_stopped" => "stop" \in entry[s].marks
  <2>1. Good(s)
        BY <1>1 DEF IInv
  <2>2. entry[s].child = 1
        BY <1>1, <2>1 DEF Good, Counted
  <2> QED BY <1>1, <2>1, <2>2 DEF Good, Judged, First
<1>2. ASSUME IInv, NEW s \in Sessions, runner[s].recoveries = 0, entry[s].child # 0
      PROVE  CASE entry[s].outcome \in {"external_closed", "clean_exit"} ->
                     proc[s][entry[s].child].code = "zero"
               [] entry[s].outcome = "crashed_before_boot" ->
                     proc[s][entry[s].child].code = "nonzero"
               [] entry[s].outcome = "watchdog_killed" -> ~Live(s, entry[s].child)
               [] entry[s].outcome = "launcher_stopped" -> "stop" \in entry[s].marks
               [] OTHER -> TRUE
  <2>1. CASE entry[s].outcome \in {"external_closed", "clean_exit"}
        BY <1>1, <1>2, <2>1
  <2>2. CASE entry[s].outcome = "crashed_before_boot"
        BY <1>1, <1>2, <2>2
  <2>3. CASE entry[s].outcome = "watchdog_killed"
        BY <1>1, <1>2, <2>3
  <2>4. CASE entry[s].outcome = "launcher_stopped"
        BY <1>1, <1>2, <2>4
  <2> QED BY <2>1, <2>2, <2>3, <2>4
<1>3. IInv => VerdictIsTrue
      BY <1>2 DEF VerdictIsTrue
<1> QED BY <1>3, Invariance, PTL

-----------------------------------------------------------------------------
(* What a step may do to the verdict on a process; a record stays.         *)
Stays(s) == entry[s].state # "absent" => entry'[s].state # "absent"

Stands(s) ==
    entry[s].outcome # "none" /\ entry'[s].child = entry[s].child
        => entry'[s].outcome \in {entry[s].outcome, "watchdog_killed", "spawn_failed"}

LEMMA EmitStands ==
    ASSUME TypeOK, NEW s \in Sessions, NEW t \in Sessions, NEW next \in States \ {"absent"}, NEW code,
           NEW class, NEW outcome \in {"none", "watchdog_killed", "spawn_failed"},
           EmitStatus(t, next, code, class, outcome)
    PROVE  Stands(s) /\ Stays(s)
<1>1. outcome \in Outcomes
      BY DEF Outcomes
<1>2. /\ entry'[t].outcome = RecordedOutcome(entry[t], next, code, class, outcome)
      /\ entry'[t].state = next
      /\ \A u \in Sessions \ {t} : entry'[u] = entry[u]
      BY <1>1, EmitFields
<1>3. CASE s = t
      BY <1>2, <1>3 DEF Stands, Stays, RecordedOutcome
<1>4. CASE s # t
      BY <1>2, <1>4 DEF Stands, Stays
<1> QED BY <1>3, <1>4

LEMMA LogStands ==
    ASSUME TypeOK, NEW s \in Sessions, NEW t \in Sessions, NEW kind \in AllLines, EmitLog(t, kind)
    PROVE  Stands(s) /\ Stays(s)
<1>1. /\ entry'[t].outcome = entry[t].outcome
      /\ entry'[t].state \in {entry[t].state, "running"}
      /\ \A u \in Sessions \ {t} : entry'[u] = entry[u]
      BY LogFields
<1> QED BY <1>1 DEF Stands, Stays

LEMMA SameStands ==
    ASSUME TypeOK, NEW s \in Sessions, NEW t \in Sessions, NEW e \in EntryType,
           entry' = [entry EXCEPT ![t] = e], e.outcome = entry[t].outcome, e.state = entry[t].state
    PROVE  Stands(s) /\ Stays(s)
<1>1. CASE s = t
      BY <1>1 DEF TypeOK, Stands, Stays
<1>2. CASE s # t
      BY <1>2 DEF TypeOK, Stands, Stays
<1> QED BY <1>1, <1>2

(* The runner reports statuses, flags a stall and registers a process: only*)
(* the last drops a verdict, and it changes the child.                     *)
LEMMA RunnerStands ==
    ASSUME IInv, NEW s \in Sessions, NEW t \in Sessions,
           Request(t) \/ ReportPreparation(t) \/ Drive(t)
    PROVE  Stands(s) /\ Stays(s)
<1>0. TypeOK /\ Good(t) /\ entry[t] \in EntryType /\ entry[s] \in EntryType
      BY DEF IInv, TypeOK
<1>1. CASE entry' = entry
      BY <1>1 DEF Stands, Stays
<1>2. CASE \E next \in States \ {"absent"}, code, class, outcome \in {"none", "spawn_failed"} :
              EmitStatus(t, next, code, class, outcome)
      BY <1>0, <1>2, EmitStands
<1>3. CASE InsertSession(t)
  <2>1. entry[t].outcome = "none"
        BY <1>0, <1>3 DEF InsertSession, Good, Counted, Unattached, NoEntry
  <2> DEFINE e == [NoEntry EXCEPT !.state = "queued"]
  <2>2. entry' = [entry EXCEPT ![t] = e]
        BY <1>3 DEF InsertSession
  <2>3. e.state = "queued"
        BY DEF NoEntry
  <2> HIDE DEF e
  <2>4. entry'[t] = e /\ \A u \in Sessions \ {t} : entry'[u] = entry[u]
        BY <1>0, <2>2 DEF TypeOK
  <2> QED BY <2>1, <2>3, <2>4 DEF Stands, Stays
<1>4. CASE FlagStall(t)
  <2> DEFINE e == [entry[t] EXCEPT !.marks = @ \union {"stop"}]
  <2>1. e \in EntryType /\ e.outcome = entry[t].outcome /\ e.state = entry[t].state
        BY <1>0 DEF EntryType, Marks
  <2>2. entry' = [entry EXCEPT ![t] = e]
        BY <1>4 DEF FlagStall
  <2> HIDE DEF e
  <2> QED BY <1>0, <2>1, <2>2, SameStands
<1>5. CASE Register(t)
  <2> DEFINE e == Registered(entry[t], runner[t].attempt)
  <2>1. entry' = [entry EXCEPT ![t] = e] /\ runner[t].pc = "register"
        BY <1>5 DEF Register
  <2>2. e.child = runner[t].attempt /\ e.state = entry[t].state
        BY DEF Registered, NoEntry
  <2> HIDE DEF e
  <2>3. entry'[t] = e /\ \A u \in Sessions \ {t} : entry'[u] = entry[u]
        BY <1>0, <2>1 DEF TypeOK
  <2>4. runner[t].recoveries \in {0, 1}
        BY <1>0 DEF TypeOK, RunnerType
  <2>5. e.child # entry[t].child
        BY <1>0, <2>1, <2>2, <2>4 DEF Good, Counted, Late, Starting
  <2> QED BY <2>2, <2>3, <2>5 DEF Stands, Stays
<1> USE DEF States
<1>6. CASE Request(t)
      BY <1>1, <1>3, <1>6 DEF Request, RequestLaunch, RefuseLaunch, AdmitLaunch
<1>7. CASE \/ ReportPreparation(t) \/ Prepared(t) \/ Prewarm(t) \/ ReportStarting(t)
           \/ ReportMonitoring(t) \/ ReportRunning(t)
      BY <1>2, <1>7 DEF ReportPreparation, Prepared, Prewarm, ReportStarting, ReportMonitoring,
                        ReportRunning, Progress
<1>8. CASE Fail(t)
  <2>1. CASE EmitStatus(t, "exited", "nonzero", runner[t].class, "none")
        BY <1>0, <2>1, EmitStands
  <2>2. CASE EmitStatus(t, "exited", "nonzero", "unknown", "spawn_failed")
        BY <1>0, <2>2, EmitStands
  <2> QED BY <1>8, <2>1, <2>2 DEF Fail
<1>9. CASE \/ PreparationFails(t) \/ SpawnFails(t) \/ Spawn(t) \/ Supervise(t) \/ ObserveBoot(t)
           \/ ObserveExit(t) \/ ObserveDeadline(t) \/ KillStalled(t) \/ Recover(t) \/ GiveUp(t)
      BY <1>1, <1>9 DEF PreparationFails, SpawnFails, Spawn, Supervise, ObserveBoot, ObserveExit,
                        ObserveDeadline, KillStalled, Recover, GiveUp
<1> QED BY <1>4, <1>5, <1>6, <1>7, <1>8, <1>9 DEF Drive

LEMMA StopStands ==
    ASSUME IInv, NEW s \in Sessions, NEW t \in Sessions,
           StopRequested(t) \/ Stop(t) \/ SignalExpires(t)
    PROVE  Stands(s) /\ Stays(s)
<1>0. TypeOK /\ entry[t] \in EntryType
      BY DEF IInv, TypeOK
<1>1. CASE StopRequested(t)
  <2> DEFINE e == [entry[t] EXCEPT !.marks = @ \union {"stop"}]
  <2>1. e \in EntryType /\ e.outcome = entry[t].outcome /\ e.state = entry[t].state
        BY <1>0 DEF EntryType, Marks
  <2>2. entry' = [entry EXCEPT ![t] = e]
        BY <1>1 DEF StopRequested
  <2> HIDE DEF e
  <2> QED BY <1>0, <2>1, <2>2, SameStands
<1>2. CASE StopKills(t)
      BY <1>2 DEF StopKills, Stands, Stays
<1>3. CASE StopLogs(t)
      BY <1>0, <1>3, LogStands DEF StopLogs, AllLines
<1>4. CASE StopReports(t)
      BY <1>0, <1>4, EmitStands DEF StopReports, States
<1>5. CASE SignalExpires(t)
  <2> DEFINE e == [entry[t] EXCEPT !.observed = "none"]
  <2>1. e \in EntryType /\ e.outcome = entry[t].outcome /\ e.state = entry[t].state
        BY <1>0 DEF EntryType
  <2>2. entry' = [entry EXCEPT ![t] = e]
        BY <1>5 DEF SignalExpires
  <2> HIDE DEF e
  <2> QED BY <1>0, <2>1, <2>2, SameStands
<1> QED BY <1>1, <1>2, <1>3, <1>4, <1>5 DEF Stop

LEMMA SupervisorStands ==
    ASSUME IInv, NEW s \in Sessions, NEW t \in Sessions, NEW n \in Attempts,
           Wait(t, n) \/ Watch(t, n) \/ Game(t, n)
    PROVE  Stands(s) /\ Stays(s)
<1>0. TypeOK
      BY DEF IInv
<1>1. CASE ReportExit(t, n)
      BY <1>0, <1>1, EmitStands DEF ReportExit, States
<1>2. CASE WatchdogReports(t, n)
      BY <1>0, <1>2, EmitStands DEF WatchdogReports, States
<1>3. CASE Prints(t, n)
      BY <1>0, <1>3, LogStands, LaunchAssumption DEF Prints
<1>4. CASE entry' = entry
      BY <1>4 DEF Stands, Stays
<1> QED BY <1>1, <1>2, <1>3, <1>4 DEF Wait, Watch, Game, Reap, LookAtRecord, ReadObservedFailure,
           WatchdogFires, WatchdogKills, Ends, PipesClose

(* The first verdict on how a process ended stands, although four tasks    *)
(* report ends: a later report keeps it unless it names one itself.        *)
THEOREM FirstVerdictStands == Spec => VerdictStands
<1>1. ASSUME IInv, [Next]_vars, NEW s \in Sessions PROVE Stands(s)
  <2>1. CASE UNCHANGED vars
        BY <2>1 DEF vars, Stands
  <2>2. CASE Edit
        BY <2>2 DEF Edit, EditorLocks, EditorBegins, EditorLeaves, Stands
  <2> QED BY <1>1, <2>1, <2>2, RunnerStands, StopStands, SupervisorStands DEF Next
<1>2. IInv /\ [Next]_vars =>
         [\A s \in Sessions :
             entry[s].outcome # "none" /\ entry'[s].child = entry[s].child
                 => entry'[s].outcome \in {entry[s].outcome, "watchdog_killed", "spawn_failed"}]_vars
      BY <1>1 DEF Stands
<1> QED BY <1>2, Invariance, PTL DEF Spec, VerdictStands

-----------------------------------------------------------------------------
(* Exclusive use of the instance, while no launch is retried.              *)
Preparing == {"preparing", "prepared", "spawn"}
Asking == {"locked", "admitted"}

(* The lock has the holder that works under it.                            *)
Held ==
    /\ \A s \in Sessions : runner[s].pc \in Asking <=> lock = s
    /\ editor # "idle" <=> lock = "editor"

(* A runner past its request has a record and no retry.                    *)
Recorded ==
    \A s \in Sessions :
        First(s) /\ (runner[s].pc \notin Unattached => entry[s].state # "absent")

(* One session uses the instance at most, and none while another launch is *)
(* admitted or an edit works.                                              *)
Exclusive ==
    /\ \A s, t \in Sessions : Uses(s) /\ Uses(t) => s = t
    /\ (\E s \in Sessions : runner[s].pc = "admitted") \/ editor = "working"
          => \A t \in Sessions : ~Uses(t)

EInv == IInv /\ Held /\ Recorded /\ Exclusive

(* A step that lets nobody begin to use the instance.                      *)
Calm(s) ==
    /\ runner'[s].pc \in Preparing => runner[s].pc \in Preparing
    /\ runner'[s].pc \notin Unattached => runner[s].pc \notin Unattached
    /\ runner'[s].pc \in Asking <=> runner[s].pc \in Asking
    /\ runner'[s].pc = "admitted" => runner[s].pc = "admitted"
    /\ runner'[s].recoveries = runner[s].recoveries

NoBirth(s) == \A n \in Attempts : Live(s, n)' => Live(s, n)

LEMMA GotoCalm ==
    ASSUME TypeOK, NEW s \in Sessions, NEW t \in Sessions, NEW pc \in RunnerPCs, Goto(s, pc),
           pc \notin Preparing \/ runner[s].pc \in Preparing,
           pc \notin Unattached, runner[s].pc \notin Unattached
    PROVE  Calm(t)
<1>1. /\ runner'[s].pc = pc /\ runner'[s].recoveries = runner[s].recoveries
      /\ \A u \in Sessions \ {s} : runner'[u] = runner[u]
      BY GotoFields
<1> QED BY <1>1 DEF Calm, Asking, Unattached

LEMMA FailCalm ==
    ASSUME TypeOK, NEW s \in Sessions, NEW t \in Sessions, NEW class \in Classes,
           FailWith(s, class), runner[s].pc \notin Unattached
    PROVE  Calm(t)
<1>1. /\ runner'[s].pc = "fail" /\ runner'[s].recoveries = runner[s].recoveries
      /\ \A u \in Sessions \ {s} : runner'[u] = runner[u]
      BY FailFields
<1> QED BY <1>1 DEF Calm, Asking, Unattached, Preparing

LEMMA SameCalm ==
    ASSUME NEW t \in Sessions, runner'[t] = runner[t]
    PROVE  Calm(t)
BY DEF Calm

(* What the runner does by itself, but for its retries.                    *)
LEMMA DriveCalm ==
    ASSUME IInv, ~Recoverable, NEW s \in Sessions, NEW t \in Sessions,
           ReportPreparation(s) \/ Drive(s)
    PROVE  Calm(t)
<1>0. TypeOK /\ runner[s] \in RunnerType /\ entry[s] \in EntryType
      BY DEF IInv, TypeOK
<1> USE DEF RunnerPCs, Unattached, Preparing
<1>1. CASE ReportPreparation(s)
      BY <1>1, SameCalm DEF ReportPreparation
<1>2. CASE PreparationFails(s)
      BY <1>0, <1>2, FailCalm DEF PreparationFails, Classes
<1>3. CASE Prepared(s) \/ Prewarm(s) \/ SpawnFails(s)
      BY <1>0, <1>3, GotoCalm DEF Prepared, Prewarm, SpawnFails
<1>4. CASE Spawn(s)
  <2> DEFINE r == [runner[s] EXCEPT !.pc = "register", !.attempt = runner[s].attempt + 1]
  <2>1. runner' = [runner EXCEPT ![s] = r] /\ runner[s].pc = "spawn"
        BY <1>4 DEF Spawn
  <2>2. r.pc = "register" /\ r.recoveries = runner[s].recoveries
        BY <1>0 DEF RunnerType
  <2> HIDE DEF r
  <2>3. runner'[s] = r /\ \A u \in Sessions \ {s} : runner'[u] = runner[u]
        BY <1>0, <2>1 DEF TypeOK
  <2> QED BY <2>1, <2>2, <2>3 DEF Calm, Asking
<1>5. CASE Register(s) \/ ReportStarting(s) \/ Supervise(s) \/ ReportMonitoring(s)
      BY <1>0, <1>5, GotoCalm DEF Register, ReportStarting, Supervise, ReportMonitoring
<1>6. CASE ObserveBoot(s) \/ ObserveExit(s) \/ ReportRunning(s) \/ FlagStall(s)
      BY <1>0, <1>6, GotoCalm DEF ObserveBoot, ObserveExit, ReportRunning, FlagStall
<1>7. CASE ObserveDeadline(s)
  <2> DEFINE pc == IF "logged" \in entry[s].marks THEN "success" ELSE "stalled"
  <2>1. pc \in {"success", "stalled"} /\ Goto(s, pc) /\ runner[s].pc = "observe"
        BY <1>7 DEF ObserveDeadline
  <2> HIDE DEF pc
  <2> QED BY <1>0, <2>1, GotoCalm
<1>8. CASE KillStalled(s)
      BY <1>0, <1>8, FailCalm DEF KillStalled, Classes
<1>9. CASE GiveUp(s)
  <2> DEFINE c == IF entry[s].observed = "none" THEN "unknown" ELSE entry[s].observed
  <2>1. c \in Classes
        BY <1>0 DEF EntryType, Classes
  <2>2. FailWith(s, c) /\ runner[s].pc = "exited"
        BY <1>9 DEF GiveUp
  <2> HIDE DEF c
  <2> QED BY <1>0, <2>1, <2>2, FailCalm
<1>10. CASE Fail(s)
  <2> DEFINE r == [runner[s] EXCEPT !.pc = "done", !.class = "none"]
  <2>1. runner' = [runner EXCEPT ![s] = r] /\ runner[s].pc \in {"fail", "fail_spawn"}
        BY <1>10 DEF Fail
  <2>2. r.pc = "done" /\ r.recoveries = runner[s].recoveries
        BY <1>0 DEF RunnerType
  <2> HIDE DEF r
  <2>3. runner'[s] = r /\ \A u \in Sessions \ {s} : runner'[u] = runner[u]
        BY <1>0, <2>1 DEF TypeOK
  <2> QED BY <2>1, <2>2, <2>3 DEF Calm, Asking
<1>11. ~Recover(s)
      BY DEF Recover, MayRecover
<1> QED BY <1>1, <1>2, <1>3, <1>4, <1>5, <1>6, <1>7, <1>8, <1>9, <1>10, <1>11 DEF Drive

(* Only a spawn gives a session a live game.                               *)
LEMMA AgesNoBirth ==
    ASSUME NEW s \in Sessions, Ages(s)
    PROVE  NoBirth(s)
BY DEF Ages, NoBirth, Live

LEMMA KillNoBirth ==
    ASSUME TypeOK, NEW s \in Sessions, NEW t \in Sessions, NEW n \in Attempts,
           proc' = AfterKill(s, n)
    PROVE  NoBirth(t)
<1>1. CASE t = s
      BY <1>1, KillAges, AgesNoBirth
<1>2. CASE t # s
      BY <1>2, KillAges DEF NoBirth, Live
<1> QED BY <1>1, <1>2

LEMMA OneNoBirth ==
    ASSUME TypeOK, NEW s \in Sessions, NEW t \in Sessions, NEW n \in Attempts, NEW q \in ProcType,
           proc' = [proc EXCEPT ![s][n] = q],
           q.state # "live" \/ q.state = proc[s][n].state
    PROVE  NoBirth(t)
<1>1. CASE t = s
      BY <1>1, OneProc DEF NoBirth, Live
<1>2. CASE t # s
      BY <1>2, OneProc DEF NoBirth, Live
<1> QED BY <1>1, <1>2

LEMMA DriveNoBirth ==
    ASSUME IInv, NEW s \in Sessions, NEW t \in Sessions,
           ReportPreparation(s) \/ Drive(s), ~Spawn(s)
    PROVE  NoBirth(t)
<1>0. TypeOK /\ Good(s) /\ runner[s] \in RunnerType
      BY DEF IInv, TypeOK
<1>1. CASE proc' = proc
      BY <1>1 DEF NoBirth, Live
<1>2. CASE Supervise(s)
  <2> DEFINE n == runner[s].attempt
             q == [proc[s][n] EXCEPT !.pipe = "open"]
  <2>1. n \in Attempts
    <3>1. n \in {0, 1, 2} /\ runner[s].recoveries \in {0, 1}
          BY <1>0 DEF RunnerType, Attempts
    <3> QED BY <1>0, <1>2, <3>1 DEF Supervise, Good, Counted, Late, Starting, Attempts
  <2> HIDE DEF n
  <2>2. proc[s][n] \in ProcType
        BY <1>0, <2>1 DEF TypeOK
  <2>3. q \in ProcType /\ q.state = proc[s][n].state
        BY <2>2 DEF ProcType
  <2>4. proc' = [proc EXCEPT ![s][n] = q]
        BY <1>2 DEF Supervise, n
  <2> HIDE DEF q
  <2> QED BY <1>0, <2>1, <2>3, <2>4, OneNoBirth
<1>3. CASE KillStalled(s)
  <2>1. entry[s].child \in Attempts
    <3>1. runner[s].recoveries \in {0, 1}
          BY <1>0 DEF RunnerType
    <3> QED BY <1>0, <1>3, <3>1 DEF KillStalled, Good, Counted, Late, Attempts
  <2> QED BY <1>0, <1>3, <2>1, KillNoBirth DEF KillStalled
<1> QED BY <1>1, <1>2, <1>3 DEF Drive, ReportPreparation, PreparationFails, Prepared, Prewarm,
        SpawnFails, Register, ReportStarting, ReportMonitoring, ObserveBoot, ObserveExit,
        ObserveDeadline, ReportRunning, FlagStall, Recover, GiveUp, Fail

LEMMA OtherNoBirth ==
    ASSUME IInv, NEW s \in Sessions, NEW t \in Sessions, NEW n \in Attempts,
           \/ StopRequested(s) \/ Stop(s) \/ SignalExpires(s)
           \/ Wait(s, n) \/ Watch(s, n) \/ Game(s, n)
    PROVE  NoBirth(t)
<1>0. TypeOK /\ Good(s) /\ proc[s][n] \in ProcType /\ entry[s] \in EntryType
      BY DEF IInv, TypeOK
<1>1. CASE proc' = proc
      BY <1>1 DEF NoBirth, Live
<1>2. CASE StopKills(s)
  <2>1. stopper[s].child \in Attempts
        BY <1>0, <1>2 DEF StopKills, Good, Stopping, EntryType, Attempts
  <2> QED BY <1>0, <1>2, <2>1, KillNoBirth DEF StopKills
<1>3. CASE WatchdogKills(s, n)
      BY <1>0, <1>3, KillNoBirth DEF WatchdogKills
<1>4. CASE Reap(s, n)
  <2> DEFINE q == [proc[s][n] EXCEPT !.state = "reaped"]
  <2>1. q \in ProcType /\ q.state = "reaped"
        BY <1>0 DEF ProcType
  <2>2. proc' = [proc EXCEPT ![s][n] = q]
        BY <1>4 DEF Reap
  <2> HIDE DEF q
  <2> QED BY <1>0, <2>1, <2>2, OneNoBirth
<1>5. CASE Ends(s, n)
  <2>1. PICK c \in ExitCodes :
           proc' = [proc EXCEPT ![s][n] = [proc[s][n] EXCEPT !.state = "zombie", !.code = c]]
        BY <1>5 DEF Ends
  <2> DEFINE q == [proc[s][n] EXCEPT !.state = "zombie", !.code = c]
  <2>2. c \in {"none", "zero", "nonzero", "signal"}
        BY LaunchAssumption
  <2>3. q \in ProcType /\ q.state = "zombie"
        BY <1>0, <2>2 DEF ProcType
  <2> HIDE DEF q
  <2>4. proc' = [proc EXCEPT ![s][n] = q]
        BY <2>1 DEF q
  <2> QED BY <1>0, <2>3, <2>4, OneNoBirth
<1>6. CASE PipesClose(s, n)
  <2> DEFINE q == [proc[s][n] EXCEPT !.pipe = "none"]
  <2>1. q \in ProcType /\ q.state = proc[s][n].state
        BY <1>0 DEF ProcType
  <2>2. proc' = [proc EXCEPT ![s][n] = q]
        BY <1>6 DEF PipesClose
  <2> HIDE DEF q
  <2> QED BY <1>0, <2>1, <2>2, OneNoBirth
<1> QED BY <1>1, <1>2, <1>3, <1>4, <1>5, <1>6 DEF Stop, Wait, Watch, Game, StopRequested,
        StopLogs, StopReports, SignalExpires, LookAtRecord, ReadObservedFailure, ReportExit,
        WatchdogFires, WatchdogReports, Prints

-----------------------------------------------------------------------------
(* Who uses the instance, and whether a game of it lives.                  *)
UserNow ==
    IF UsersNow = {} THEN "nobody"
    ELSE IF Cardinality(UsersNow) = 1 THEN CHOOSE u \in UsersNow : TRUE
    ELSE "several"

PlayingNow == \E s \in Sessions, n \in Attempts : Live(s, n)

LEMMA NobodyUses ==
    ASSUME UsersNow = {}
    PROVE  UserNow = "nobody" /\ (PlayingNow <=> FALSE)
<1>1. UserNow = "nobody"
      BY DEF UserNow
<1>2. ~PlayingNow
      BY DEF PlayingNow, UsersNow, Uses
<1> QED BY <1>1, <1>2

LEMMA OneUses ==
    ASSUME NEW u, UsersNow = {u}
    PROVE  UserNow = u
<1>1. Cardinality(UsersNow) = 1
      BY FS_Singleton
<1>2. (CHOOSE v \in UsersNow : TRUE) = u
      OBVIOUS
<1> QED BY <1>1, <1>2 DEF UserNow

LEMMA AtMostOne ==
    ASSUME Exclusive
    PROVE  \/ UsersNow = {}
           \/ UsersNow = {"editor"}
           \/ \E s \in Sessions : UsersNow = {s} /\ editor # "working"
<1>1. CASE editor = "working"
      BY <1>1 DEF Exclusive, UsersNow
<1>2. CASE editor # "working" /\ \E s \in Sessions : Uses(s)
  <2>1. PICK s \in Sessions : Uses(s)
        BY <1>2
  <2>2. UsersNow = {s}
        BY <1>2, <2>1 DEF Exclusive, UsersNow
  <2> QED BY <1>2, <2>2
<1>3. CASE editor # "working" /\ ~\E s \in Sessions : Uses(s)
      BY <1>3 DEF UsersNow
<1> QED BY <1>1, <1>2, <1>3

(* A live game in the first round belongs to a runner past its spawn.      *)
LEMMA LiveLate ==
    ASSUME EInv, NEW s \in Sessions, NEW n \in Attempts, Live(s, n)
    PROVE  runner[s].pc \notin Preparing
<1>1. Good(s) /\ First(s)
      BY DEF EInv, IInv, Recorded
<1>2. ~(n > runner[s].attempt)
      BY <1>1 DEF Good, Spawned, Live
<1>3. runner[s].pc \notin Early
      BY <1>1, <1>2 DEF Good, Counted, First, Attempts
<1> QED BY <1>3 DEF Early, Preparing

(* A session that is not active does not use the instance.                 *)
LEMMA InactiveIdle ==
    ASSUME EInv, NEW s \in Sessions, ~Active(s)
    PROVE  ~Uses(s)
<1>1. Good(s) /\ First(s) /\ (runner[s].pc \notin Unattached => entry[s].state # "absent")
      BY DEF EInv, IInv, Recorded
<1>2. CASE entry[s].state = "absent"
  <2>1. runner[s].pc \in Unattached
        BY <1>1, <1>2
  <2>2. runner[s].attempt = 0
        BY <1>1, <2>1 DEF Good, Counted, First, Early
  <2>3. \A n \in Attempts : ~Live(s, n)
        BY <1>1, <2>2 DEF Good, Spawned, Live, Attempts
  <2> QED BY <2>1, <2>3 DEF Uses, Unattached
<1>3. CASE IsTerminal(entry[s].state)
  <2>1. ~Live(s, 1) /\ runner[s].pc \notin Early
        BY <1>1, <1>3 DEF Good, FirstOver
  <2>2. runner[s].attempt \in {0, 1}
        BY <1>1 DEF Good, Counted, First
  <2>3. ~Live(s, 2)
        BY <1>1, <2>2 DEF Good, Spawned, Live, Attempts
  <2> QED BY <2>1, <2>3 DEF Uses, Early, Attempts
<1> QED BY <1>2, <1>3 DEF Active

(* What a step keeps that lets nobody begin to use the instance.           *)
LEMMA CalmKeeps ==
    ASSUME EInv, IInv', lock' = lock, editor' = editor,
           \A t \in Sessions : Calm(t) /\ Stays(t) /\ (Uses(t)' => Uses(t))
    PROVE  EInv'
<1>1. Held'
      BY DEF EInv, Held, Calm
<1>2. Recorded'
      BY DEF EInv, Recorded, First, Calm, Stays
<1>3. Exclusive'
      BY DEF EInv, Exclusive, Calm
<1> QED BY <1>1, <1>2, <1>3 DEF EInv

LEMMA CalmUses ==
    ASSUME NEW t \in Sessions, Calm(t), NoBirth(t)
    PROVE  Uses(t)' => Uses(t)
BY DEF Calm, NoBirth, Uses, Preparing

LEMMA CalmImplements ==
    ASSUME EInv, editor' = editor, \A t \in Sessions : Calm(t) /\ NoBirth(t)
    PROVE  \/ UserNow' = UserNow /\ (PlayingNow' <=> PlayingNow)
           \/ UserNow # "nobody" /\ UserNow' = "nobody" /\ (PlayingNow' <=> FALSE)
<1>1. \A t \in Sessions : Uses(t)' => Uses(t)
      BY CalmUses
<1>2. UsersNow' \subseteq UsersNow
      BY <1>1 DEF UsersNow
<1>3. CASE UsersNow' = {}
  <2>1. UserNow' = "nobody" /\ (PlayingNow' <=> FALSE)
    <3>1. UserNow' = "nobody"
          BY <1>3 DEF UserNow
    <3>2. ~PlayingNow'
          BY <1>3 DEF PlayingNow, UsersNow, Uses
    <3> QED BY <3>1, <3>2
  <2>2. CASE UsersNow = {}
        BY <2>1, <2>2, NobodyUses
  <2>3. CASE UsersNow # {}
    <3>1. PICK u \in Sessions \union {"editor"} : UsersNow = {u}
          BY <2>3, AtMostOne DEF EInv
    <3>2. UserNow = u /\ u # "nobody"
          BY <3>1, OneUses, LaunchAssumption
    <3> QED BY <2>1, <3>2
  <2> QED BY <2>2, <2>3
<1>4. CASE UsersNow' # {}
  <2>1. PICK u \in Sessions \union {"editor"} : UsersNow = {u}
        BY <1>2, <1>4, AtMostOne DEF EInv
  <2>2. UsersNow' = UsersNow
        BY <1>2, <1>4, <2>1
  <2>3. UserNow' = UserNow
        BY <2>2 DEF UserNow
  <2>4. PlayingNow' => PlayingNow
        BY DEF PlayingNow, NoBirth
  <2>5. ASSUME PlayingNow PROVE PlayingNow'
    <3>1. PICK s \in Sessions, n \in Attempts : Live(s, n)
          BY <2>5 DEF PlayingNow
    <3>2. s \in UsersNow'
          BY <2>2, <3>1 DEF UsersNow, Uses
    <3>3. Uses(s)'
          BY <3>2, LaunchAssumption DEF UsersNow
    <3>4. runner'[s].pc \notin Preparing
          BY <3>1, LiveLate DEF Calm
    <3> QED BY <3>3, <3>4 DEF Uses, PlayingNow, Preparing
  <2> QED BY <2>3, <2>4, <2>5
<1> QED BY <1>3, <1>4

(* A step as InstanceUse sees it.                                          *)
Same == UserNow' = UserNow /\ (PlayingNow' <=> PlayingNow)
Taken(u) == UserNow = "nobody" /\ UserNow' = u /\ (PlayingNow' <=> PlayingNow)
Played == UserNow \in Sessions /\ ~PlayingNow /\ PlayingNow' /\ UserNow' = UserNow
Left == UserNow # "nobody" /\ UserNow' = "nobody" /\ ~PlayingNow'

Seen == Same \/ (\E u \in Sessions \union {"editor"} : Taken(u)) \/ Played \/ Left

(* The request takes the lock, finds no active session, and queues its own.*)
LEMMA RequestExclusive ==
    ASSUME EInv, IInv', NEW s \in Sessions, Request(s)
    PROVE  EInv' /\ Seen
<1>0. TypeOK /\ \A t \in Sessions : Stays(t)
      BY RunnerStands DEF EInv, IInv
<1>1. PICK pc \in {"locked", "none", "admitted", "preparing"} : Goto(s, pc)
      BY DEF Request, RequestLaunch, RefuseLaunch, AdmitLaunch, InsertSession
<1>2. /\ runner'[s].pc = pc /\ runner'[s].recoveries = runner[s].recoveries
      /\ \A t \in Sessions \ {s} : runner'[t] = runner[t]
      BY <1>0, <1>1, GotoFields DEF RunnerPCs
<1>3. UNCHANGED <<proc, editor>> /\ s \notin {"free", "editor", "nobody"}
      /\ runner[s].pc \in {"none", "locked", "admitted"}
      BY LaunchAssumption DEF Request, RequestLaunch, RefuseLaunch, AdmitLaunch, InsertSession
<1>4. pc = "preparing" <=> InsertSession(s)
  <2>1. Goto(s, "preparing") => pc = "preparing"
        BY <1>0, <1>2, GotoFields DEF RunnerPCs
  <2>2. InsertSession(s) => pc = "preparing"
        BY <2>1 DEF InsertSession
  <2>3. ~InsertSession(s) => Goto(s, "locked") \/ Goto(s, "none") \/ Goto(s, "admitted")
        BY DEF Request, RequestLaunch, RefuseLaunch, AdmitLaunch
  <2>4. ~InsertSession(s) => pc # "preparing"
        BY <1>0, <1>2, <2>3, GotoFields DEF RunnerPCs
  <2> QED BY <2>2, <2>4
<1>5. \A t \in Sessions : t # s \/ ~InsertSession(s) => (Uses(t)' <=> Uses(t))
      BY <1>2, <1>3, <1>4 DEF Uses, Live
<1>6. Held' /\ Recorded'
  <2>1. CASE RequestLaunch(s)
    <3>1. pc = "locked" /\ lock = "free" /\ lock' = s
          BY <1>0, <1>2, <2>1, GotoFields DEF RequestLaunch, RunnerPCs
    <3> QED BY <1>0, <1>2, <1>3, <3>1, LaunchAssumption
            DEF EInv, Held, Recorded, Asking, Stays, First, Unattached
  <2>2. CASE RefuseLaunch(s)
    <3>1. pc = "none" /\ runner[s].pc \in Asking /\ lock' = "free"
          BY <1>0, <1>2, <2>2, GotoFields DEF RefuseLaunch, RunnerPCs, Asking
    <3> QED BY <1>0, <1>2, <1>3, <3>1, LaunchAssumption
            DEF EInv, Held, Recorded, Asking, Stays, First, Unattached
  <2>3. CASE AdmitLaunch(s)
    <3>1. pc = "admitted" /\ runner[s].pc \in Asking /\ lock' = lock
          BY <1>0, <1>2, <2>3, GotoFields DEF AdmitLaunch, RunnerPCs, Asking
    <3> QED BY <1>0, <1>2, <1>3, <3>1, LaunchAssumption
            DEF EInv, Held, Recorded, Asking, Stays, First, Unattached
  <2>4. CASE InsertSession(s)
    <3>1. pc = "preparing" /\ runner[s].pc \in Asking /\ lock' = "free"
          BY <1>4, <2>4 DEF InsertSession, Asking
    <3> DEFINE e == [NoEntry EXCEPT !.state = "queued"]
    <3>2. entry' = [entry EXCEPT ![s] = e] /\ e.state = "queued"
          BY <2>4 DEF InsertSession, NoEntry
    <3> HIDE DEF e
    <3>3. entry'[s].state # "absent"
          BY <1>0, <3>2 DEF TypeOK
    <3> QED BY <1>0, <1>2, <1>3, <3>1, <3>3, LaunchAssumption
            DEF EInv, Held, Recorded, Asking, Stays, First, Unattached
  <2> QED BY <2>1, <2>2, <2>3, <2>4 DEF Request
<1>7. CASE InsertSession(s)
  <2>1. runner[s].pc = "admitted"
        BY <1>7 DEF InsertSession
  <2>2. \A t \in Sessions : ~Uses(t)
        BY <2>1 DEF EInv, Exclusive
  <2>3. editor = "idle" /\ \A t \in Sessions \ {s} : runner[t].pc # "admitted"
        BY <1>3, <2>1 DEF EInv, Held, Asking
  <2>4. Uses(s)'
        BY <1>2, <1>4, <1>7 DEF Uses
  <2>5. \A t \in Sessions \ {s} : ~Uses(t)'
        BY <1>5, <2>2
  <2>6. Exclusive'
        BY <1>2, <1>3, <1>4, <1>7, <2>3, <2>5 DEF Exclusive
  <2>7. UsersNow = {} /\ UsersNow' = {s}
        BY <1>3, <2>2, <2>3, <2>4, <2>5 DEF UsersNow
  <2>8. UserNow' = s
    <3>1. Cardinality(UsersNow') = 1
          BY <2>7, FS_Singleton
    <3>2. (CHOOSE v \in UsersNow' : TRUE) = s
          BY <2>7
    <3> QED BY <2>7, <3>1, <3>2 DEF UserNow
  <2>9. PlayingNow' <=> PlayingNow
        BY <1>3 DEF PlayingNow, Live
  <2>10. Taken(s)
        BY <2>7, <2>8, <2>9, NobodyUses DEF Taken
  <2> QED BY <1>6, <2>6, <2>10 DEF EInv, Seen
<1>8. CASE ~InsertSession(s)
  <2>1. \A t \in Sessions : Uses(t)' <=> Uses(t)
        BY <1>5, <1>8
  <2>2. UsersNow' = UsersNow
        BY <1>3, <2>1 DEF UsersNow
  <2>3. Same
        BY <1>3, <2>2 DEF Same, UserNow, PlayingNow, Live
  <2>4. CASE AdmitLaunch(s)
    <3>1. \A t \in Sessions : ~Active(t)
          BY <2>4 DEF AdmitLaunch, HasActiveInstance
    <3>2. \A t \in Sessions : ~Uses(t)
          BY <3>1, InactiveIdle
    <3>3. Exclusive'
          BY <2>1, <3>2 DEF Exclusive
    <3> QED BY <1>6, <2>3, <3>3 DEF EInv, Seen
  <2>5. CASE ~AdmitLaunch(s)
    <3>1. pc # "admitted"
      <4>1. Goto(s, "locked") \/ Goto(s, "none")
            BY <1>8, <2>5 DEF Request, RequestLaunch, RefuseLaunch
      <4> QED BY <1>0, <1>2, <4>1, GotoFields DEF RunnerPCs
    <3>2. Exclusive'
          BY <1>2, <1>3, <2>1, <3>1 DEF EInv, Exclusive
    <3> QED BY <1>6, <2>3, <3>2 DEF EInv, Seen
  <2> QED BY <2>4, <2>5
<1> QED BY <1>7, <1>8

(* An edit does the same and leaves.                                       *)
LEMMA EditExclusive ==
    ASSUME EInv, IInv', Edit
    PROVE  EInv' /\ Seen
<1>0. UNCHANGED <<entry, runner, proc>>
      BY DEF Edit, EditorLocks, EditorBegins, EditorLeaves
<1>1. Recorded' /\ \A t \in Sessions : Uses(t)' <=> Uses(t)
      BY <1>0 DEF EInv, Recorded, First, Uses, Live
<1>2. PlayingNow' <=> PlayingNow
      BY <1>0 DEF PlayingNow, Live
<1>3. CASE EditorLocks
  <2>1. Held'
        BY <1>0, <1>3, LaunchAssumption DEF EditorLocks, EInv, Held
  <2>2. Exclusive' /\ UsersNow' = UsersNow
        BY <1>0, <1>1, <1>3 DEF EditorLocks, EInv, Exclusive, UsersNow
  <2>3. Same
        BY <1>2, <2>2 DEF Same, UserNow
  <2> QED BY <1>1, <2>1, <2>2, <2>3 DEF EInv, Seen
<1>4. CASE EditorBegins
  <2>1. Held'
        BY <1>0, <1>4 DEF EditorBegins, EInv, Held
  <2>2. \A t \in Sessions : ~Uses(t)
        BY <1>4, InactiveIdle DEF EditorBegins, HasActiveInstance
  <2>3. Exclusive'
        BY <1>1, <2>2 DEF Exclusive
  <2>4. UsersNow = {} /\ UsersNow' = {"editor"}
        BY <1>1, <1>4, <2>2 DEF UsersNow, EditorBegins
  <2>5. UserNow' = "editor"
    <3>1. Cardinality(UsersNow') = 1
          BY <2>4, FS_Singleton
    <3>2. (CHOOSE v \in UsersNow' : TRUE) = "editor"
          BY <2>4
    <3> QED BY <2>4, <3>1, <3>2 DEF UserNow
  <2>6. Taken("editor")
        BY <1>2, <2>4, <2>5, NobodyUses DEF Taken
  <2> QED BY <1>1, <2>1, <2>3, <2>6 DEF EInv, Seen
<1>5. CASE EditorLeaves
  <2>1. Held'
        BY <1>0, <1>5, LaunchAssumption DEF EditorLeaves, EInv, Held
  <2>2. Exclusive'
        BY <1>0, <1>1, <1>5 DEF EditorLeaves, EInv, Exclusive
  <2>3. CASE editor = "check"
    <3>1. UsersNow' = UsersNow
          BY <1>1, <1>5, <2>3 DEF EditorLeaves, UsersNow
    <3> QED BY <1>1, <1>2, <2>1, <2>2, <3>1 DEF EInv, Seen, Same, UserNow
  <2>4. CASE editor = "working"
    <3>1. \A t \in Sessions : ~Uses(t)
          BY <2>4 DEF EInv, Exclusive
    <3>2. UsersNow = {"editor"} /\ UsersNow' = {}
          BY <1>1, <1>5, <2>4, <3>1 DEF EditorLeaves, UsersNow
    <3>3. UserNow = "editor" /\ UserNow' = "nobody"
          BY <3>2, OneUses DEF UserNow
    <3>4. ~PlayingNow
          BY <3>1 DEF PlayingNow, Uses
    <3> QED BY <1>1, <1>2, <2>1, <2>2, <3>3, <3>4 DEF EInv, Seen, Left
  <2> QED BY <1>5, <2>3, <2>4 DEF EditorLeaves
<1> QED BY <1>3, <1>4, <1>5 DEF Edit

(* The runner of the session that uses the instance spawns its game.       *)
LEMMA SpawnExclusive ==
    ASSUME EInv, IInv', ~Recoverable, NEW s \in Sessions, Spawn(s)
    PROVE  EInv' /\ Seen
<1>1. /\ runner[s].pc = "spawn" /\ UNCHANGED <<lock, editor>>
      /\ TypeOK /\ Drive(s) /\ runner[s] \in RunnerType
      BY DEF Spawn, EInv, IInv, TypeOK, Drive
<1>2. \A t \in Sessions : Calm(t) /\ Stays(t)
      BY <1>1, DriveCalm, RunnerStands DEF EInv
<1>3. \A t \in Sessions \ {s} : proc'[t] = proc[t]
      BY <1>1 DEF Spawn, TypeOK
<1>4. Uses(s)
      BY <1>1 DEF Uses
<1>5. ASSUME NEW t \in Sessions \ {s} PROVE Uses(t)' => Uses(t)
      BY <1>2, <1>3, CalmUses DEF NoBirth, Live
<1>6. EInv'
      BY <1>1, <1>2, <1>4, <1>5, CalmKeeps
<1>7. UsersNow = {s} /\ editor # "working"
      BY <1>4, LaunchAssumption, AtMostOne DEF EInv, UsersNow
<1>8. Live(s, 1)' /\ 1 \in Attempts
  <2>1. runner[s].attempt = 0
        BY <1>1 DEF EInv, IInv, Recorded, Good, Counted, First, Early
  <2>2. proc' = [proc EXCEPT ![s][1].state = "live"] /\ proc[s][1] \in ProcType
        BY <1>1, <2>1 DEF Spawn, TypeOK, Attempts
  <2> DEFINE q == [proc[s][1] EXCEPT !.state = "live"]
  <2>3. q \in ProcType /\ q.state = "live"
        BY <2>2 DEF ProcType
  <2>4. proc' = [proc EXCEPT ![s][1] = q]
        BY <2>2
  <2> HIDE DEF q
  <2> QED BY <1>1, <2>3, <2>4, OneProc DEF Live, Attempts
<1>9. UsersNow' = {s}
      BY <1>1, <1>5, <1>7, <1>8 DEF UsersNow, Uses
<1>10. UserNow' = UserNow /\ UserNow = s
      BY <1>7, <1>9, OneUses DEF UserNow
<1>11. ~PlayingNow
  <2>1. ASSUME NEW t \in Sessions, NEW n \in Attempts, Live(t, n) PROVE FALSE
    <3>1. t = s
          BY <1>4, <2>1 DEF EInv, Exclusive, Uses
    <3> QED BY <1>1, <2>1, <3>1, LiveLate DEF Preparing
  <2> QED BY <2>1 DEF PlayingNow
<1>12. PlayingNow'
      BY <1>8 DEF PlayingNow
<1> QED BY <1>6, <1>10, <1>11, <1>12 DEF Seen, Played

(* Whatever else happens, nobody begins to use the instance.               *)
LEMMA StepExclusive ==
    ASSUME EInv, IInv', ~Recoverable, [Next]_vars
    PROVE  EInv' /\ Seen
<1>1. CASE UNCHANGED <<lock, editor>> /\ \A t \in Sessions : Calm(t) /\ Stays(t) /\ NoBirth(t)
  <2>1. EInv'
        BY <1>1, CalmUses, CalmKeeps
  <2>2. Seen
        BY <1>1, CalmImplements DEF Seen, Same, Left
  <2> QED BY <2>1, <2>2
<1>2. CASE UNCHANGED vars
  <2>1. \A t \in Sessions : Calm(t) /\ Stays(t) /\ NoBirth(t)
        BY <1>2 DEF vars, Calm, Stays, NoBirth, Live
  <2> QED BY <1>1, <1>2, <2>1 DEF vars
<1>3. CASE Edit
      BY <1>3, EditExclusive
<1>4. ASSUME NEW s \in Sessions, Request(s) PROVE EInv' /\ Seen
      BY <1>4, RequestExclusive
<1>5. ASSUME NEW s \in Sessions, ReportPreparation(s) \/ Drive(s) PROVE EInv' /\ Seen
  <2>1. CASE Spawn(s)
        BY <2>1, SpawnExclusive
  <2>2. CASE ~Spawn(s)
    <3>1. \A t \in Sessions : Calm(t) /\ Stays(t) /\ NoBirth(t)
          BY <1>5, <2>2, DriveCalm, DriveNoBirth, RunnerStands DEF EInv
    <3>2. UNCHANGED <<lock, editor>>
          BY <1>5 DEF Drive, ReportPreparation, PreparationFails, Prepared, Prewarm, Spawn,
             SpawnFails, Register, ReportStarting, Supervise, ReportMonitoring, ObserveBoot,
             ObserveExit, ObserveDeadline, ReportRunning, FlagStall, KillStalled, Recover,
             GiveUp, Fail
    <3> QED BY <1>1, <3>1, <3>2
  <2> QED BY <2>1, <2>2
<1>6. ASSUME NEW s \in Sessions, StopRequested(s) \/ Stop(s) \/ SignalExpires(s)
      PROVE  EInv' /\ Seen
  <2>1. UNCHANGED <<runner, lock, editor>>
        BY <1>6 DEF Stop, StopRequested, StopKills, StopLogs, StopReports, SignalExpires
  <2>2. 1 \in Attempts
        BY DEF Attempts
  <2>3. \A t \in Sessions : Calm(t) /\ Stays(t) /\ NoBirth(t)
        BY <1>6, <2>1, <2>2, SameCalm, StopStands, OtherNoBirth DEF EInv
  <2> QED BY <1>1, <2>1, <2>3
<1>7. ASSUME NEW s \in Sessions, NEW n \in Attempts, Wait(s, n) \/ Watch(s, n) \/ Game(s, n)
      PROVE  EInv' /\ Seen
  <2>1. UNCHANGED <<runner, lock, editor>>
        BY <1>7 DEF Wait, Watch, Game, Reap, LookAtRecord, ReadObservedFailure, ReportExit,
           WatchdogFires, WatchdogKills, WatchdogReports, Ends, Prints, PipesClose
  <2>2. \A t \in Sessions : Calm(t) /\ Stays(t) /\ NoBirth(t)
        BY <1>7, <2>1, SameCalm, SupervisorStands, OtherNoBirth DEF EInv
  <2> QED BY <1>1, <2>1, <2>2
<1> QED BY <1>2, <1>3, <1>4, <1>5, <1>6, <1>7 DEF Next

LEMMA InitExclusive == Init => EInv /\ UserNow = "nobody" /\ ~PlayingNow
<1> SUFFICES ASSUME Init PROVE EInv /\ UserNow = "nobody" /\ ~PlayingNow
    OBVIOUS
<1>1. /\ lock = "free" /\ editor = "idle"
      /\ \A s \in Sessions : /\ runner[s].pc = "none" /\ runner[s].recoveries = 0
                             /\ \A n \in Attempts : proc[s][n].state = "none"
      BY DEF Init
<1>2. UsersNow = {}
      BY <1>1 DEF UsersNow, Uses, Live
<1>3. Held
      BY <1>1, LaunchAssumption DEF Held, Asking
<1>4. Recorded
      BY <1>1 DEF Recorded, First, Unattached
<1>5. Exclusive
      BY <1>1, <1>2 DEF Exclusive, UsersNow
<1> QED BY <1>2, <1>3, <1>4, <1>5, InitInv, NobodyUses DEF EInv

(* Without retries the launches and edits of an instance implement         *)
(* InstanceUse: the lock and the active-session check give exclusive use.  *)
THEOREM InstanceIsExclusive ==
    ASSUME ~Recoverable
    PROVE  Spec => ExclusiveUse
<1>1. Init => Use!Init
      BY InitExclusive DEF Use!Init, UserNow, PlayingNow
<1>2. Seen => [Use!Next]_(Use!useVars)
      BY LaunchAssumption DEF Seen, Same, Taken, Played, Left, UserNow, PlayingNow, Use!Next, Use!Take,
         Use!Play, Use!Leave, Use!useVars
<1>3. EInv /\ IInv' /\ [Next]_vars => EInv' /\ [Use!Next]_(Use!useVars)
      BY <1>2, StepExclusive
<1> QED BY <1>1, <1>3, InitExclusive, Invariance, PTL DEF Spec, ExclusiveUse, Use!Spec
=============================================================================

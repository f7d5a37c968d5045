-------------------- MODULE PerformanceOperationsProofs --------------------
(***************************************************************************)
(* What the queue of performance operations promises for any number of     *)
(* instances, operations, crashes and failed writes.                       *)
(*                                                                         *)
(* TypeCorrect:      every variable keeps its type.                        *)
(* OneAtATime:       one queued operation of an instance executes.         *)
(* AtMostOnce:       once in the life of a process.                        *)
(* ProofIsTrue:      the journal entry does not contradict the status.     *)
(* EndsAreFinal:     a recorded end is neither changed nor repeated.       *)
(* LedgerIsKept:     the queue implements OperationLedger.                 *)
(***************************************************************************)
EXTENDS PerformanceOperations, FiniteSetTheorems, TLAPS

Charged(id) == task[id] \in InCharge \/ id \in pending
Ahead(id) == task[id] \in InCharge \ {"mutate", "completing", "failing"} \/ id \in pending

(* Somebody in charge of an operation holds the active entry of its instance. *)
Held(id) == Charged(id) =>
    /\ instance[id] \in Instances /\ active[instance[id]] = id
    /\ status[id] \in Waiting

(* What memory still waits for has not ended on disk; a pending operation has no task. *)
Sound(id) ==
    /\ disk[id] \in Ended /\ status[id] # "none" => status[id] = disk[id]
    /\ status[id] \in Ended => ~Charged(id)
    /\ disk[id] # "none" => instance[id] \in Instances
    /\ id > lastId => /\ status[id] = "none" /\ disk[id] = "none" /\ ~Charged(id)
    /\ ~up => task[id] = "none" /\ id \notin pending /\ status[id] = "none"

(* Who has not executed yet in this life has not been counted.             *)
Counted(id) ==
    /\ ran[id] <= 1
    /\ Ahead(id) \/ ~up => ran[id] = 0
    /\ id > lastId => ran[id] = 0
    /\ task[id] \in {"mutate", "completing"} => ran[id] = 1

(* No end has been shown by an entry of an operation that is still to be   *)
(* executed, or is executed; later only the end of that execution.         *)
Open(id) == Ahead(id) \/ task[id] = "mutate" \/ (ran[id] = 0 /\ disk[id] \in Waiting)

Proved(id) ==
    /\ journal[id] \in past[id]
    /\ id > lastId => id \notin cut /\ "succeeded" \notin past[id] /\ "failed" \notin past[id]
    /\ id \notin cut =>
         /\ Open(id) => "succeeded" \notin past[id] /\ "failed" \notin past[id]
         /\ task[id] = "completing" \/ "complete" \in {status[id], disk[id]} => "failed" \notin past[id]
         /\ task[id] = "failing" \/ "failed" \in {status[id], disk[id]} => "succeeded" \notin past[id]

(* A pending operation has no task yet.                                    *)
Idle(id) == id \in pending => task[id] = "none"

Good(id) == Held(id) /\ Sound(id) /\ Counted(id) /\ Proved(id) /\ Idle(id)
IInv == TypeOK /\ \A id \in Ids : Good(id)

-----------------------------------------------------------------------------
LEMMA InitInv == Init => IInv
<1> SUFFICES ASSUME Init PROVE IInv
    OBVIOUS
<1>1. TypeOK
      BY OperationsAssumption DEF Init, TypeOK, States, Places, Outcomes
<1>2. ASSUME NEW id \in Ids PROVE Good(id)
  <2>1. /\ task[id] = "none" /\ pending = {} /\ status[id] = "none" /\ disk[id] = "none"
        /\ journal[id] = "none" /\ past[id] = {"none"} /\ up /\ ran[id] = 0 /\ cut = {}
        BY <1>2 DEF Init
  <2>2. ~Charged(id) /\ ~Ahead(id)
        BY <2>1 DEF Charged, Ahead, InCharge
  <2> QED BY <2>1, <2>2 DEF Good, Held, Sound, Counted, Proved, Open, Idle, Ended, Waiting
<1> QED BY <1>1, <1>2 DEF IInv

(* A write changes at most the state of one operation on disk.             *)
LEMMA WrittenType ==
    ASSUME TypeOK, NEW id \in Ids, NEW state \in States, Written(id, state)
    PROVE  /\ disk' \in [Ids -> States] /\ lost' \in Nat
           /\ disk'[id] \in {state, disk[id]}
           /\ \A other \in Ids \ {id} : disk'[other] = disk[other]
BY DEF TypeOK, Written

(* What an action does to one operation, with what it leaves alone of the others. *)
Alone(id) == \A other \in Ids \ {id} :
    /\ instance'[other] = instance[other] /\ status'[other] = status[other]
    /\ disk'[other] = disk[other] /\ task'[other] = task[other]
    /\ journal'[other] = journal[other] /\ past'[other] = past[other]
    /\ ran'[other] = ran[other] /\ (other \in cut' <=> other \in cut)
    /\ other \in pending' <=> other \in pending
    /\ instance[other] \in Instances /\ active[instance[other]] = other /\ Charged(other) =>
         active'[instance[other]] = other

LEMMA AloneGood ==
    ASSUME IInv, NEW id \in Ids, Alone(id), UNCHANGED <<up, crashes>>, lastId' \in {lastId, id},
           lastId' >= lastId, lastId' \in Nat,
           NEW other \in Ids \ {id}
    PROVE  Good(other)'
<1>1. Good(other) /\ lastId \in Nat /\ other \in Nat
      BY OperationsAssumption DEF IInv, TypeOK, Ids
<1>2. Charged(other)' = Charged(other) /\ Ahead(other)' = Ahead(other)
      BY DEF Alone, Charged, Ahead
<1>3. Held(other)'
      BY <1>1, <1>2 DEF Alone, Good, Held
<1>4. Sound(other)'
      BY <1>1, <1>2 DEF Alone, Good, Sound
<1>5. Counted(other)'
      BY <1>1, <1>2 DEF Alone, Good, Counted
<1>6. Proved(other)'
      BY <1>1, <1>2 DEF Alone, Good, Proved, Open
<1>7. Idle(other)'
      BY <1>1 DEF Alone, Good, Idle
<1> QED BY <1>3, <1>4, <1>5, <1>6, <1>7 DEF Good

LEMMA RequestInv == ASSUME IInv, NEW i \in Instances, Request(i) PROVE IInv'
<1>0. PICK id \in Ids : id = lastId + 1
      BY OperationsAssumption DEF Request, IInv, TypeOK, Ids
<1>1. id \in Ids /\ lastId' = id /\ lastId \in Nat /\ id \in Nat
      BY <1>0, OperationsAssumption DEF Request, IInv, TypeOK, Ids
<1>2. /\ instance' = [instance EXCEPT ![id] = i] /\ status' = [status EXCEPT ![id] = "queued"]
      /\ active' = [active EXCEPT ![i] = id] /\ task' = [task EXCEPT ![id] = "handler"]
      /\ Written(id, "queued")
      /\ UNCHANGED <<pending, journal, past, ran, cut, up, crashes>> /\ up
      BY <1>1 DEF Request, Up, Journal
<1>3. /\ disk' \in [Ids -> States] /\ lost' \in Nat /\ disk'[id] \in {"queued", disk[id]}
      /\ \A other \in Ids \ {id} : disk'[other] = disk[other]
      BY <1>1, <1>2, WrittenType DEF IInv, States, Waiting
<1>4. TypeOK'
      BY <1>1, <1>2, <1>3 DEF IInv, TypeOK, States, Waiting, Places, InCharge
<1>5. Good(id) /\ id > lastId
      BY <1>0, <1>1 DEF IInv
<1>6. Good(id)'
  <2>0. /\ ~Charged(id) /\ disk[id] = "none" /\ ran[id] = 0
        /\ id \notin pending
        BY <1>5 DEF Good, Sound, Charged, Counted
  <2>1. /\ instance'[id] = i /\ status'[id] = "queued" /\ active'[i] = id
        /\ task'[id] = "handler"
        BY <1>1, <1>2 DEF IInv, TypeOK
  <2>7. /\ ran'[id] = 0
        /\ disk'[id] \in {"queued", "none"} /\ id \notin pending'
        BY <1>2, <1>3, <2>0
  <2>2. ~(id > lastId') /\ up'
        BY <1>1, <1>2 DEF IInv, TypeOK
  <2>8. id \in Nat /\ lastId' \in Nat
        BY <1>1
  <2>3. Held(id)'
        BY <2>1 DEF Held, Waiting
  <2>4. Sound(id)'
        BY <2>1, <2>2, <2>7 DEF Sound, Ended
  <2>5. Counted(id)'
        BY <2>1, <2>2, <2>7, <2>8 DEF Counted
  <2>6. Proved(id)' /\ Idle(id)'
        BY <1>2, <1>5, <2>1, <2>2, <2>7 DEF Good, Proved, Idle
  <2> QED BY <2>3, <2>4, <2>5, <2>6 DEF Good
<1>7. Alone(id)
  <2> SUFFICES ASSUME NEW other \in Ids \ {id},
                      instance[other] \in Instances, active[instance[other]] = other, Charged(other)
               PROVE  active'[instance[other]] = other
      BY <1>1, <1>2, <1>3 DEF Alone, IInv, TypeOK
  <2>1. status[other] \in Waiting /\ other # 0
        BY OperationsAssumption DEF IInv, Good, Held, Ids
  <2>2. instance[other] # i
        BY <2>1 DEF Request, Conflict
  <2> QED BY <1>2, <2>2 DEF IInv, TypeOK
<1>8. lastId' \in Nat /\ lastId' >= lastId /\ lastId' \in {lastId, id}
      BY <1>0, <1>1
<1>9. ASSUME NEW other \in Ids PROVE Good(other)'
  <2>1. CASE other = id
        BY <1>6, <2>1
  <2>2. CASE other # id
        BY <1>1, <1>2, <1>7, <1>8, <2>2, AloneGood
  <2> QED BY <2>1, <2>2
<1> QED BY <1>4, <1>9 DEF IInv

(* The steps of a handler, of the resume of an operation and of a task.    *)
LEMMA TaskInv == ASSUME IInv, NEW id \in Ids, HandlerEnds(id) \/ Work(id) PROVE IInv'
<1>1. up /\ UNCHANGED <<up, crashes, instance, pending, lastId, cut>>
      BY DEF HandlerEnds, Work, Report, Refuse, Begin, Mutated, Record, Emit, Resume, Up, Queue
<1>2. Good(id) /\ TypeOK /\ id \in Nat /\ lastId \in Nat /\ ran[id] \in Nat
      BY OperationsAssumption DEF IInv, TypeOK, Ids
<1>3. SUFFICES TypeOK' /\ Good(id)' /\ Alone(id)
      BY <1>1, <1>2, AloneGood DEF IInv
<1>4. CASE HandlerEnds(id) \/ Refuse(id) \/ Resume(id)
  <2>1. PICK next \in {"queued", "dropped", "failing"} :
            /\ task' = [task EXCEPT ![id] = next]
            /\ task[id] \in {"handler", "execute", "taken"}
            /\ next # "failing" => task[id] # "execute"
        BY <1>4 DEF HandlerEnds, Refuse, Resume
  <2>2. UNCHANGED <<active, status, disk, journal, past, ran, lost>>
        BY <1>4 DEF HandlerEnds, Refuse, Resume, Queue, Journal
  <2>3. TypeOK' /\ Alone(id)
        BY <1>1, <1>2, <2>1, <2>2 DEF TypeOK, Alone, Places, InCharge
  <2>4. /\ Charged(id)' /\ Charged(id) /\ Ahead(id) /\ task'[id] \notin {"completing", "mutate"}
        /\ task[id] \notin {"completing", "mutate"}
        BY <1>1, <1>2, <2>1 DEF TypeOK, Charged, Ahead, InCharge
  <2>5. Idle(id)'
        BY <1>1, <1>2, <2>1 DEF Good, Idle
  <2>6. Held(id)' /\ Sound(id)' /\ Counted(id)' /\ Proved(id)'
        BY <1>1, <1>2, <2>2, <2>4 DEF Good, Held, Sound, Counted, Proved, Open, Ended, Waiting
  <2> QED BY <2>3, <2>5, <2>6 DEF Good
<1>5. CASE Report(id)
  <2>1. /\ task[id] \in Waiting /\ task' = [task EXCEPT ![id] = Following[task[id]]]
        /\ UNCHANGED <<active, journal, past, ran>>
        BY <1>5 DEF Report, Queue, Journal
  <2>2. Following[task[id]] \in {"planning", "working", "execute"}
        BY <2>1 DEF Following, Waiting
  <2>3. Charged(id) /\ Ahead(id) /\ status[id] \in Waiting /\ task[id] # "completing"
        BY <1>2, <2>1 DEF Charged, Ahead, InCharge, Good, Held, Waiting
  <2>4. status' = [status EXCEPT ![id] = task[id]] /\ Written(id, task[id])
        BY <1>5, <2>3 DEF Report
  <2>5. /\ disk' \in [Ids -> States] /\ lost' \in Nat /\ disk'[id] \in {task[id], disk[id]}
        /\ \A other \in Ids \ {id} : disk'[other] = disk[other]
        BY <1>2, <2>1, <2>4, WrittenType DEF States
  <2>6. TypeOK' /\ Alone(id)
        BY <1>1, <1>2, <2>1, <2>2, <2>4, <2>5 DEF TypeOK, Alone, Places, InCharge, States
  <2>7. Charged(id)' /\ task'[id] \notin {"completing", "mutate", "failing"}
        BY <1>1, <1>2, <2>1, <2>2 DEF TypeOK, Charged, InCharge
  <2>8. status'[id] = task[id] /\ disk[id] \notin Ended /\ disk'[id] \notin Ended
        BY <1>2, <2>1, <2>3, <2>4, <2>5 DEF TypeOK, Good, Sound, Ended, Waiting
  <2>9. Held(id)' /\ Sound(id)'
        BY <1>1, <1>2, <2>1, <2>3, <2>5, <2>7, <2>8 DEF Good, Held, Sound, Ended, Waiting
  <2>10. Counted(id)'
        BY <1>1, <1>2, <2>1, <2>3, <2>7 DEF Good, Counted
  <2>12. Proved(id)'
        BY <1>1, <1>2, <2>1, <2>3, <2>7, <2>8 DEF Good, Proved, Open, Ended, Waiting
  <2>11. Idle(id)'
        BY <1>1, <1>2, <2>1 DEF Good, Idle, Waiting
  <2> QED BY <2>6, <2>9, <2>10, <2>11, <2>12 DEF Good
<1>6. CASE Begin(id) \/ Mutated(id)
  <2>1. PICK entry \in Outcomes, next \in {"mutate", "failing", "completing"} :
          /\ journal' = [journal EXCEPT ![id] = entry]
          /\ past' = [past EXCEPT ![id] = @ \union {"running", entry}]
          /\ task' = [task EXCEPT ![id] = next]
          /\ \/ /\ task[id] = "execute" /\ next \in {"mutate", "failing"}
                /\ ran' = [ran EXCEPT ![id] = @ + 1]
                /\ entry \in {"running", journal[id]} \/ (next = "failing" /\ entry = "failed")
             \/ /\ task[id] = "mutate" /\ next \in {"completing", "failing"} /\ UNCHANGED ran
                /\ \/ entry = journal[id]
                   \/ entry = IF next = "completing" THEN "succeeded" ELSE "failed"
    <3>1. PICK next \in {"mutate", "failing", "completing"}, entries \in SUBSET Outcomes :
            /\ JournalShows(id, entries) /\ task' = [task EXCEPT ![id] = next]
            /\ \/ /\ task[id] = "execute" /\ next \in {"mutate", "failing"}
                  /\ ran' = [ran EXCEPT ![id] = @ + 1]
                  /\ \A entry \in entries :
                       entry \in {"running", journal[id]} \/ (next = "failing" /\ entry = "failed")
               \/ /\ task[id] = "mutate" /\ next \in {"completing", "failing"} /\ UNCHANGED ran
                  /\ \A entry \in entries :
                       \/ entry = journal[id]
                       \/ entry = IF next = "completing" THEN "succeeded" ELSE "failed"
      <4>1. journal[id] \in Outcomes
            BY <1>2 DEF TypeOK
      <4>2. CASE Begin(id)
            BY <4>1, <4>2 DEF Begin, Closed, Outcomes
      <4>3. CASE Mutated(id)
            BY <4>1, <4>3 DEF Mutated, Closed, Outcomes
      <4> QED BY <1>6, <4>2, <4>3
    <3>2. PICK entry \in entries : /\ journal' = [journal EXCEPT ![id] = entry]
                                  /\ past' = [past EXCEPT ![id] = @ \union {"running", entry}]
          BY <3>1 DEF JournalShows
    <3> QED BY <3>1, <3>2
  <2>2. UNCHANGED <<active, status, disk, lost>>
        BY <1>6 DEF Begin, Mutated, Queue
  <2>3. TypeOK' /\ Alone(id)
        BY <1>1, <1>2, <2>1, <2>2 DEF TypeOK, Alone, Places, InCharge, Outcomes
  <2>4. Charged(id) /\ Charged(id)' /\ status[id] \in Waiting
        BY <1>1, <1>2, <2>1, <2>2 DEF TypeOK, Charged, InCharge, Good, Held
  <2>5. id \notin pending /\ ~Ahead(id)'
        BY <1>1, <1>2, <2>1, <2>2 DEF TypeOK, Ahead, InCharge, Good, Idle
  <2>6. Held(id)' /\ Sound(id)'
        BY <1>1, <1>2, <2>2, <2>4 DEF Good, Held, Sound, Ended, Waiting
  <2>7. Counted(id)' /\ ran'[id] = 1
    <3>1. ~(id > lastId)
          BY <1>2, <2>4 DEF Good, Sound
    <3>2. ran'[id] = 1
      <4>1. CASE task[id] = "execute" /\ ran' = [ran EXCEPT ![id] = @ + 1]
        <5>1. ran[id] = 0
              BY <1>2, <4>1 DEF Ahead, InCharge, Good, Counted
        <5> QED BY <1>2, <4>1, <5>1 DEF TypeOK
      <4>2. CASE task[id] = "mutate" /\ UNCHANGED ran
            BY <1>2, <4>2 DEF Good, Counted
      <4> QED BY <2>1, <4>1, <4>2
    <3> QED BY <1>1, <1>2, <2>5, <3>1, <3>2 DEF Good, Counted
  <2>8. Proved(id)'
    <3>1. ~(id > lastId) /\ disk[id] \notin Ended
          BY <1>2, <2>4 DEF Good, Sound, Waiting, Ended
    <3>2. Open(id)
          BY <2>1 DEF Open, Ahead, InCharge
    <3>3. Proved(id)
          BY <1>2 DEF Good
    <3>4. /\ task'[id] = next /\ journal'[id] = entry
          /\ past'[id] = past[id] \union {"running", entry}
          BY <1>2, <2>1 DEF TypeOK
    <3>5. ASSUME id \notin cut
          PROVE  /\ next = "mutate" => "succeeded" \notin past'[id] /\ "failed" \notin past'[id]
                 /\ next = "completing" => "failed" \notin past'[id]
                 /\ next = "failing" => "succeeded" \notin past'[id]
          BY <2>1, <3>2, <3>3, <3>4, <3>5 DEF Proved
    <3>6. /\ Open(id)' => next = "mutate"
          /\ "complete" \notin {status'[id], disk'[id]} /\ "failed" \notin {status'[id], disk'[id]}
          BY <2>2, <2>4, <2>5, <2>7, <3>1, <3>4 DEF Open, Waiting, Ended
    <3> QED BY <1>1, <3>1, <3>4, <3>5, <3>6 DEF Proved
  <2>9. Idle(id)'
        BY <1>1, <2>5 DEF Idle
  <2> QED BY <2>3, <2>6, <2>7, <2>8, <2>9 DEF Good
<1>7. CASE Record(id)
  <2>1. task[id] \in {"completing", "failing"} /\ task' = [task EXCEPT ![id] = "emit"]
        /\ UNCHANGED <<journal, past, ran>>
        BY <1>7 DEF Record, Journal
  <2>2. Charged(id) /\ status[id] \in Waiting
        BY <1>2, <2>1 DEF Charged, InCharge, Good, Held
  <2>3. /\ status' = [status EXCEPT ![id] = Outcome(id)] /\ Written(id, Outcome(id))
        /\ active' = [i \in Instances |-> IF i = instance[id] /\ active[i] = id THEN 0 ELSE active[i]]
        BY <1>7, <2>2 DEF Record
  <2>4. Outcome(id) \in {"complete", "failed"} /\ (Outcome(id) = "complete" <=> task[id] = "completing")
        BY DEF Outcome
  <2>5. /\ disk' \in [Ids -> States] /\ lost' \in Nat /\ disk'[id] \in {Outcome(id), disk[id]}
        /\ \A other \in Ids \ {id} : disk'[other] = disk[other]
        BY <1>2, <2>3, <2>4, WrittenType DEF States, Ended
  <2>6. TypeOK' /\ Alone(id)
        BY <1>1, <1>2, <2>1, <2>3, <2>4, <2>5 DEF TypeOK, Alone, Places, States, Ended
  <2>7. id \notin pending
        BY <1>2, <2>1 DEF Good, Idle, InCharge
  <2>8. task'[id] = "emit" /\ ~Charged(id)' /\ ~Ahead(id)' /\ status'[id] = Outcome(id)
        BY <1>1, <1>2, <2>1, <2>3, <2>7 DEF TypeOK, Charged, Ahead, InCharge
  <2>9. disk[id] \notin Ended
        BY <1>2, <2>2 DEF Good, Sound, Ended, Waiting
  <2>10. Held(id)' /\ Sound(id)' /\ Counted(id)'
        BY <1>1, <1>2, <2>1, <2>2, <2>4, <2>5, <2>8, <2>9 DEF Good, Held, Sound, Counted, Ended
  <2>11. Proved(id)'
    <3>1. ~(id > lastId)
          BY <1>2, <2>2 DEF Good, Sound
    <3>2. Open(id)' => Open(id)
          BY <2>1, <2>4, <2>5, <2>8 DEF Open, Waiting
    <3>3. /\ "complete" \in {status'[id], disk'[id]} => task[id] = "completing"
          /\ "failed" \in {status'[id], disk'[id]} => task[id] = "failing"
          BY <2>1, <2>4, <2>5, <2>8, <2>9 DEF Ended
    <3> QED BY <1>1, <1>2, <2>1, <2>8, <3>1, <3>2, <3>3 DEF Good, Proved
  <2>12. Idle(id)'
        BY <1>1, <2>7 DEF Idle
  <2> QED BY <2>6, <2>10, <2>11, <2>12 DEF Good
<1>8. CASE Emit(id)
  <2>1. task[id] = "emit" /\ task' = [task EXCEPT ![id] = "none"]
        /\ UNCHANGED <<active, status, disk, journal, past, ran, lost>>
        BY <1>8 DEF Emit, Queue, Journal
  <2>2. TypeOK' /\ Alone(id)
        BY <1>1, <1>2, <2>1 DEF TypeOK, Alone, Places
  <2>3. Charged(id)' = Charged(id) /\ Ahead(id)' = Ahead(id) /\ task'[id] = "none"
        BY <1>1, <1>2, <2>1 DEF TypeOK, Charged, Ahead, InCharge
  <2> QED BY <1>1, <1>2, <2>1, <2>2, <2>3 DEF Good, Held, Sound, Counted, Proved, Open, Idle
<1> QED BY <1>4, <1>5, <1>6, <1>7, <1>8 DEF Work

(* An entry that is dropped shows nothing.                                 *)
LEMMA PruneInv == ASSUME IInv, NEW id \in Ids, PruneJournal(id) PROVE IInv'
<1>1. /\ journal' = [journal EXCEPT ![id] = "none"]
      /\ past' = [past EXCEPT ![id] = @ \union {"none"}]
      /\ UNCHANGED <<up, crashes, instance, active, pending, lastId, cut, status, disk, task, ran, lost>>
      BY DEF PruneJournal, Up, Queue
<1>2. TypeOK'
      BY <1>1 DEF IInv, TypeOK, Outcomes
<1>3. ASSUME NEW other \in Ids PROVE Good(other)'
  <2>1. Good(other) /\ TypeOK
        BY DEF IInv
  <2>2. Charged(other)' = Charged(other) /\ Ahead(other)' = Ahead(other) /\ Open(other)' = Open(other)
        BY <1>1 DEF Charged, Ahead, Open
  <2>3. /\ journal'[other] \in past'[other]
        /\ past'[other] \subseteq past[other] \union {"none"}
        BY <1>1, <2>1 DEF TypeOK, Good, Proved
  <2>4. Proved(other)'
        BY <1>1, <2>1, <2>2, <2>3 DEF Good, Proved
  <2> QED BY <1>1, <2>1, <2>2, <2>4 DEF Good, Held, Sound, Counted, Idle
<1> QED BY <1>2, <1>3 DEF IInv

LEMMA CrashInv == ASSUME IInv, Crash PROVE IInv'
<1>1. TypeOK'
  <2>1. /\ status' \in [Ids -> States] /\ task' \in [Ids -> Places]
        /\ active' \in [Instances -> Ids \union {0}] /\ pending' \subseteq Ids
        /\ up' \in BOOLEAN
        BY DEF Crash, States, Places
  <2>2. crashes' \in Nat /\ ran' \in [Ids -> Nat] /\ cut' \subseteq Ids
        BY DEF IInv, TypeOK, Crash
  <2> QED BY <2>1, <2>2 DEF IInv, TypeOK, Crash, Journal
<1>2. ASSUME NEW id \in Ids PROVE Good(id)'
  <2>1. Good(id) /\ ran[id] \in Nat /\ lastId \in Nat /\ id \in Nat
        BY OperationsAssumption DEF IInv, TypeOK, Ids
  <2>2. /\ ~up' /\ task'[id] = "none" /\ pending' = {} /\ ran'[id] = 0
        /\ id \in cut' <=> id \in cut \/ (ran[id] > 0 /\ disk[id] \in Waiting)
        /\ status'[id] = "none" /\ UNCHANGED <<instance, disk, journal, past, lastId>>
        BY DEF Crash, Journal
  <2>3. ~Charged(id)' /\ ~Ahead(id)'
        BY <2>2 DEF Charged, Ahead, InCharge
  <2>4. Held(id)' /\ Sound(id)' /\ Idle(id)'
        BY <2>1, <2>2, <2>3 DEF Good, Held, Sound, Idle, Ended
  <2>5. Counted(id)'
        BY <2>1, <2>2, <2>3 DEF Good, Counted
  <2>6. Proved(id)'
    <3>1. id > lastId => disk[id] = "none"
          BY <2>1 DEF Good, Sound
    <3>2. Open(id)' /\ id \notin cut' => Open(id)
          BY <2>1, <2>2, <2>3 DEF Open
    <3> QED BY <2>1, <2>2, <3>1, <3>2 DEF Good, Proved, Waiting
  <2> QED BY <2>4, <2>5, <2>6 DEF Good
<1> QED BY <1>1, <1>2 DEF IInv

LEMMA RestartInv ==
    ASSUME IInv, NEW kept \in SUBSET Ids, NEW unwritten \in SUBSET Ids, Restart(kept, unwritten)
    PROVE  IInv'
<1>1. /\ ~up /\ up' /\ pending' = kept
      /\ UNCHANGED <<instance, task, lastId, ran, cut, crashes>>
      BY DEF Restart
<1>2. /\ kept \subseteq Unended
      /\ \A id, other \in kept : instance[id] = instance[other] => id = other
      BY DEF Restart, Resumable
<1>3. Cardinality(unwritten) \in Nat
  <2>1. IsFiniteSet(Ids)
        BY OperationsAssumption, FS_Interval DEF Ids
  <2> QED BY <2>1, FS_Subset, FS_CardinalityType
<1>4. active' \in [Instances -> Ids \union {0}]
      /\ \A id \in kept : instance[id] \in Instances => active'[instance[id]] = id
  <2>1. active' = [i \in Instances |-> IF \E id \in kept : instance[id] = i
                                       THEN CHOOSE id \in kept : instance[id] = i ELSE 0]
        BY DEF Restart
  <2>2. ASSUME NEW i \in Instances, NEW id \in kept, instance[id] = i
        PROVE  (CHOOSE other \in kept : instance[other] = i) = id
        BY <1>2, <2>2
  <2> QED BY <2>1, <2>2
<1>5. TypeOK'
      BY <1>1, <1>3, <1>4 DEF IInv, TypeOK, Restart, LoadJournal, States, Ended
<1>6. ASSUME NEW id \in Ids PROVE Good(id)'
  <2>1. Good(id) /\ ran[id] \in Nat /\ lastId \in Nat /\ id \in Nat
        BY <1>6, OperationsAssumption DEF IInv, TypeOK, Ids
  <2>2. task[id] = "none" /\ status[id] = "none" /\ task'[id] = "none"
        BY <1>1, <2>1 DEF Good, Sound
  <2>3. /\ Charged(id)' <=> id \in kept
        /\ Ahead(id)' <=> id \in kept
        BY <1>1, <2>2 DEF Charged, Ahead, InCharge
  <2>4. /\ id \in kept => disk[id] \in Waiting /\ disk'[id] = disk[id] /\ status'[id] = disk[id]
        /\ disk[id] \notin Waiting => disk'[id] = disk[id] /\ status'[id] = disk[id]
        /\ \/ disk'[id] = disk[id] /\ status'[id] = disk[id]
           \/ /\ status'[id] = "interrupted" /\ disk'[id] \in {"interrupted", disk[id]}
              /\ disk[id] \in Waiting /\ id \notin kept
        BY <1>2 DEF Restart, Cut, Unended
  <2>5. disk[id] # "none" => instance[id] \in Instances
        BY <2>1 DEF Good, Sound
  <2>6. Held(id)'
        BY <1>1, <1>4, <2>3, <2>4, <2>5 DEF Held, Waiting
  <2>7. Sound(id)'
    <3>1. id > lastId => disk[id] = "none"
          BY <2>1 DEF Good, Sound
    <3> QED BY <1>1, <2>3, <2>4, <2>5, <3>1 DEF Sound, Waiting, Ended
  <2>8. Counted(id)'
        BY <1>1, <2>1, <2>2 DEF Good, Counted
  <2>9. Proved(id)'
    <3>1. journal'[id] \in past[id] /\ past'[id] = {journal'[id]}
          BY DEF Restart, LoadJournal
    <3>2. Open(id)' => Open(id)
          BY <1>1, <2>1, <2>2, <2>3, <2>4 DEF Open, Waiting, Good, Counted
    <3>3. /\ "complete" \in {status'[id], disk'[id]} => disk[id] = "complete"
          /\ "failed" \in {status'[id], disk'[id]} => disk[id] = "failed"
          BY <2>4 DEF Waiting
    <3> QED BY <1>1, <2>1, <2>2, <3>1, <3>2, <3>3 DEF Good, Proved
  <2>10. Idle(id)'
        BY <2>2 DEF Idle
  <2> QED BY <2>6, <2>7, <2>8, <2>9, <2>10 DEF Good
<1> QED BY <1>5, <1>6 DEF IInv

LEMMA TakePendingInv == ASSUME IInv, TakePending PROVE IInv'
<1>1. /\ up /\ pending' = {} /\ task' = Resumed
      /\ UNCHANGED <<up, crashes, instance, active, lastId, cut, status, disk, journal, past, ran, lost>>
      BY DEF TakePending, Up, Journal
<1>2. TypeOK'
      BY <1>1 DEF IInv, TypeOK, Resumed, Places, InCharge
<1>3. ASSUME NEW id \in Ids PROVE Good(id)'
  <2>1. Good(id)
        BY DEF IInv
  <2>2. id \in pending => status[id] \in Waiting /\ task[id] = "none"
        BY <2>1 DEF Good, Held, Idle, Charged
  <2>3. task'[id] = IF id \in pending THEN "taken" ELSE task[id]
        BY <1>1, <2>2 DEF Resumed
  <2>4. Charged(id)' = Charged(id) /\ Ahead(id)' = Ahead(id)
        BY <1>1, <2>3 DEF Charged, Ahead, InCharge
  <2>5. Held(id)' /\ Sound(id)' /\ Counted(id)' /\ Idle(id)'
        BY <1>1, <2>1, <2>2, <2>3, <2>4 DEF Good, Held, Sound, Counted, Idle
  <2>6. Proved(id)'
        BY <1>1, <2>1, <2>2, <2>3, <2>4 DEF Good, Proved, Open
  <2> QED BY <2>5, <2>6 DEF Good
<1> QED BY <1>2, <1>3 DEF IInv

LEMMA StepInv == IInv /\ [Next]_vars => IInv'
<1> SUFFICES ASSUME IInv, [Next]_vars PROVE IInv'
    OBVIOUS
<1>1. CASE UNCHANGED vars
  <2>1. TypeOK'
        BY <1>1 DEF IInv, TypeOK, vars
  <2>2. ASSUME NEW id \in Ids PROVE Good(id)'
        BY <1>1 DEF IInv, Good, Held, Sound, Counted, Proved, Open, Idle, Charged, Ahead, vars
  <2> QED BY <2>1, <2>2 DEF IInv
<1>2. CASE \E i \in Instances : Request(i)
      BY <1>2, RequestInv
<1>3. CASE \E id \in Ids : HandlerEnds(id) \/ Work(id)
      BY <1>3, TaskInv
<1>7. CASE \E id \in Ids : PruneJournal(id)
      BY <1>7, PruneInv
<1>4. CASE Crash
      BY <1>4, CrashInv
<1>5. CASE Recover
      BY <1>5, RestartInv DEF Recover
<1>6. CASE TakePending
      BY <1>6, TakePendingInv
<1> QED BY <1>1, <1>2, <1>3, <1>4, <1>5, <1>6, <1>7 DEF Next

LEMMA Invariance == Spec => []IInv
BY InitInv, StepInv, PTL DEF Spec

-----------------------------------------------------------------------------
(* Whatever is requested, written, lost or resumed, every variable keeps   *)
(* its type; it is the first conjunct of the invariant.                    *)
THEOREM TypeCorrect == Spec => []TypeOK
<1>1. IInv => TypeOK
      BY DEF IInv
<1> QED BY <1>1, Invariance, PTL

(* Two operations of one instance never change its mods at the same time:  *)
(* both would be the one that active_by_instance names.                    *)
THEOREM OneAtATime == Spec => []OneExecution
<1>1. IInv => OneExecution
  <2> SUFFICES ASSUME IInv, NEW id \in Ids, NEW other \in Ids,
                      task[id] = "mutate", task[other] = "mutate", instance[id] = instance[other]
               PROVE  id = other
      BY DEF OneExecution
  <2>1. Charged(id) /\ Charged(other)
        BY DEF Charged, InCharge
  <2> QED BY <2>1 DEF IInv, Good, Held
<1> QED BY <1>1, Invariance, PTL

(* The task of a request and the resume pass never execute an operation    *)
(* twice without a restart in between.                                     *)
THEOREM AtMostOnce == Spec => []OncePerLife
<1>1. IInv => OncePerLife
      BY DEF IInv, Good, Counted, OncePerLife
<1> QED BY <1>1, Invariance, PTL

(* The entry shown as the proof of an operation never contradicts its      *)
(* status, whatever becomes of its writes, unless a crash has cut off an   *)
(* execution of the operation from its record.                             *)
THEOREM ProofIsTrue == Spec => []ProofAgrees
<1>1. IInv => ProofAgrees
      BY DEF IInv, Good, Proved, ProofAgrees
<1> QED BY <1>1, Invariance, PTL

(* The end of an operation that has reached the disk is neither changed    *)
(* nor repeated: who executes or reports it finds it unended in memory.    *)
THEOREM EndsAreFinal == Spec => RecordedIsFinal
<1> DEFINE Final(id) == disk[id] \in Ended => disk'[id] = disk[id] /\ ran'[id] <= ran[id]
<1>1. IInv /\ [Next]_vars => \A id \in Ids : Final(id)
  <2> SUFFICES ASSUME IInv, [Next]_vars, NEW id \in Ids, disk[id] \in Ended
               PROVE  disk'[id] = disk[id] /\ ran'[id] <= ran[id]
      OBVIOUS
  <2>1. /\ Good(id) /\ TypeOK
        /\ Charged(id) \/ status[id] \in Waiting => FALSE
        BY DEF IInv, Good, Held, Sound, Waiting, Ended
  <2>7. ran[id] \in Nat
        BY <2>1 DEF TypeOK
  <2>2. ASSUME NEW i \in Instances, Request(i) PROVE UNCHANGED ran /\ disk'[id] = disk[id]
    <3>1. id # lastId + 1
          BY <2>1, OperationsAssumption DEF Good, Sound, Ended, TypeOK, Ids
    <3> QED BY <2>1, <2>2, <3>1 DEF Request, Written, TypeOK
  <2>3. ASSUME NEW other \in Ids, HandlerEnds(other) \/ Work(other)
        PROVE  disk'[id] = disk[id] /\ ran'[id] = ran[id]
    <3>1. CASE Report(other) \/ Record(other)
      <4>1. UNCHANGED ran
            BY <3>1 DEF Report, Record
      <4>2. status[other] \notin Waiting => UNCHANGED disk
            BY <3>1 DEF Report, Record
      <4>3. status[other] \in Waiting => other # id
            BY <2>1
      <4> QED BY <2>1, <3>1, <4>1, <4>2, <4>3 DEF Report, Record, Written, TypeOK
    <3>2. CASE Begin(other)
      <4>1. other # id
            BY <2>1, <3>2 DEF Begin, Charged, InCharge
      <4> QED BY <3>2, <4>1, <2>1 DEF Begin, TypeOK
    <3>3. CASE HandlerEnds(other) \/ Refuse(other) \/ Mutated(other) \/ Emit(other) \/ Resume(other)
          BY <3>3 DEF HandlerEnds, Refuse, Mutated, Emit, Resume
    <3> QED BY <2>3, <3>1, <3>2, <3>3 DEF Work
  <2>4. CASE Recover
        BY <2>4, <2>1, <2>7 DEF Recover, Restart, Cut, Unended, Waiting, Ended
  <2>5. CASE Crash
        BY <2>1, <2>5 DEF Crash, TypeOK
  <2>6. CASE TakePending \/ UNCHANGED vars \/ \E other \in Ids : PruneJournal(other)
        BY <2>6, <2>7 DEF TakePending, PruneJournal, vars
  <2> QED BY <2>2, <2>3, <2>4, <2>5, <2>6, <2>7 DEF Next
<1> QED BY <1>1, Invariance, PTL DEF Spec, RecordedIsFinal

-----------------------------------------------------------------------------
(* The ledger.                                                             *)

(* Somebody is in charge of every operation that memory waits for, and an  *)
(* operation that is not requested yet has no instance.                    *)
Attended(id) ==
    /\ status[id] \in Waiting => Charged(id)
    /\ id > lastId => instance[id] = "none"
AInv == IInv /\ \A id \in Ids : Attended(id)

LEMMA AttendedInit == Init => AInv
<1> SUFFICES ASSUME Init PROVE \A id \in Ids : Attended(id)
    BY InitInv DEF AInv
<1> QED BY DEF Init, Attended, Waiting

(* An action on one operation leaves the others attended.                  *)
LEMMA AttendedOthers ==
    ASSUME AInv, NEW id \in Ids, Alone(id), lastId' \in Nat, lastId' >= lastId,
           NEW other \in Ids \ {id}
    PROVE  Attended(other)'
<1>1. other \in Nat /\ lastId \in Nat
      BY OperationsAssumption DEF AInv, IInv, TypeOK, Ids
<1> QED BY <1>1 DEF AInv, Attended, Alone, Charged

(* What a request changes of the operation it records.                     *)
LEMMA RequestFrame ==
    ASSUME IInv, NEW i \in Instances, Request(i)
    PROVE  \E id \in Ids :
             /\ id = lastId + 1 /\ lastId' = id /\ lastId \in Nat /\ Alone(id) /\ up /\ UNCHANGED up
             /\ ~Conflict(i)
             /\ instance' = [instance EXCEPT ![id] = i]
             /\ status' = [status EXCEPT ![id] = "queued"]
             /\ disk' = [disk EXCEPT ![id] = "queued"] \/ UNCHANGED disk
             /\ task' = [task EXCEPT ![id] = "handler"]
             /\ UNCHANGED pending
<1>1. PICK id \in Ids : id = lastId + 1
      BY OperationsAssumption DEF Request, IInv, TypeOK, Ids
<1>2. lastId' = id /\ lastId \in Nat
      BY <1>1, OperationsAssumption DEF Request, IInv, TypeOK, Ids
<1>3. /\ up /\ UNCHANGED up /\ ~Conflict(i)
      /\ instance' = [instance EXCEPT ![id] = i] /\ status' = [status EXCEPT ![id] = "queued"]
      /\ active' = [active EXCEPT ![i] = id] /\ task' = [task EXCEPT ![id] = "handler"]
      /\ disk' = [disk EXCEPT ![id] = "queued"] \/ UNCHANGED disk
      /\ UNCHANGED <<pending, journal, past, ran, cut>>
      BY <1>2 DEF Request, Up, Written, Journal
<1>4. Alone(id)
  <2> SUFFICES ASSUME NEW other \in Ids \ {id},
                      instance[other] \in Instances, active[instance[other]] = other, Charged(other)
               PROVE  active'[instance[other]] = other
      BY <1>3 DEF Alone, IInv, TypeOK
  <2>1. status[other] \in Waiting /\ other # 0
        BY OperationsAssumption DEF IInv, Good, Held, Ids
  <2>2. instance[other] # i
        BY <1>3, <2>1 DEF Conflict
  <2> QED BY <1>3, <2>2 DEF IInv, TypeOK
<1> QED BY <1>1, <1>2, <1>3, <1>4

(* What a step of a handler or a task changes of its operation.            *)
LEMMA TaskFrame ==
    ASSUME IInv, NEW id \in Ids, HandlerEnds(id) \/ Work(id)
    PROVE  /\ up /\ UNCHANGED <<up, instance, lastId, pending>> /\ Alone(id)
           /\ \E next \in Places : task' = [task EXCEPT ![id] = next]
           /\ task[id] \in InCharge \union {"emit"}
           /\ task[id] \in InCharge => task'[id] \in InCharge \/ Record(id)
<1>1. up /\ UNCHANGED <<up, instance, pending, lastId, cut>>
      BY DEF HandlerEnds, Work, Report, Refuse, Begin, Mutated, Record, Emit, Resume, Up, Queue
<1>2. PICK next \in Places :
        /\ task' = [task EXCEPT ![id] = next]
        /\ task[id] \in InCharge \union {"emit"}
        /\ task[id] \in InCharge => next \in InCharge \/ Record(id)
  <2>1. CASE HandlerEnds(id) \/ Refuse(id) \/ Begin(id) \/ Mutated(id) \/ Resume(id) \/ Emit(id)
        BY <2>1 DEF HandlerEnds, Refuse, Begin, Mutated, Resume, Emit, Places, InCharge
  <2>2. CASE Record(id)
        BY <2>2 DEF Record, Places, InCharge
  <2>3. CASE Report(id)
    <3>1. task[id] \in Waiting /\ task' = [task EXCEPT ![id] = Following[task[id]]]
          BY <2>3 DEF Report
    <3>2. Following[task[id]] \in {"planning", "working", "execute"}
          BY <3>1 DEF Following, Waiting
    <3> QED BY <3>1, <3>2 DEF Waiting, Places, InCharge
  <2> QED BY <2>1, <2>2, <2>3 DEF Work
<1>3. ASSUME NEW other \in Ids \ {id}
      PROVE  /\ status'[other] = status[other] /\ disk'[other] = disk[other]
             /\ journal'[other] = journal[other] /\ past'[other] = past[other]
             /\ ran'[other] = ran[other]
  <2>1. CASE Report(id) \/ Record(id)
    <3>1. \/ UNCHANGED <<status, disk>>
          \/ \E state : status' = [status EXCEPT ![id] = state] /\ Written(id, state)
          BY <2>1 DEF Report, Record
    <3>2. UNCHANGED <<journal, past, ran>>
          BY <2>1 DEF Report, Record, Journal
    <3> QED BY <3>1, <3>2 DEF IInv, TypeOK, Written
  <2>2. CASE HandlerEnds(id) \/ Refuse(id) \/ Begin(id) \/ Mutated(id) \/ Resume(id) \/ Emit(id)
        BY <2>2 DEF HandlerEnds, Refuse, Begin, Mutated, JournalShows, Resume, Emit, Journal, IInv, TypeOK
  <2> QED BY <2>1, <2>2 DEF Work
<1>4. ASSUME NEW other \in Ids \ {id}, instance[other] \in Instances,
             active[instance[other]] = other
      PROVE  active'[instance[other]] = other
  <2>1. CASE Record(id) /\ ~UNCHANGED active
        BY <1>4, <2>1 DEF Record
  <2>2. CASE UNCHANGED active
        BY <1>4, <2>2
  <2>3. Record(id) \/ UNCHANGED active
        BY DEF HandlerEnds, Work, Report, Refuse, Begin, Mutated, Emit, Resume, Queue
  <2> QED BY <2>1, <2>2, <2>3
<1>5. Alone(id)
      BY <1>1, <1>2, <1>3, <1>4 DEF Alone, IInv, TypeOK
<1> QED BY <1>1, <1>2, <1>5 DEF IInv, TypeOK

LEMMA AttendedStep == AInv /\ [Next]_vars => AInv'
<1> SUFFICES ASSUME AInv, [Next]_vars, NEW id \in Ids PROVE Attended(id)'
    BY StepInv DEF AInv
<1>1. Attended(id) /\ IInv /\ lastId \in Nat
      BY OperationsAssumption DEF AInv, IInv, TypeOK, Ids
<1>2. CASE UNCHANGED vars
      BY <1>1, <1>2 DEF vars, Attended, Charged
<1>3. ASSUME NEW i \in Instances, Request(i) PROVE Attended(id)'
  <2>1. PICK new \in Ids :
             /\ new = lastId + 1 /\ lastId' = new /\ Alone(new)
             /\ task' = [task EXCEPT ![new] = "handler"]
        BY <1>1, <1>3, RequestFrame
  <2>2. CASE id = new
    <3>1. task'[id] = "handler" /\ ~(id > lastId')
          BY <1>1, <2>1, <2>2 DEF IInv, TypeOK
    <3> QED BY <3>1 DEF Attended, Charged, InCharge
  <2>3. CASE id # new
        BY <1>1, <2>1, <2>3, AttendedOthers
  <2> QED BY <2>2, <2>3
<1>4. ASSUME NEW other \in Ids, HandlerEnds(other) \/ Work(other) PROVE Attended(id)'
  <2>1. CASE id # other
        BY <1>1, <1>4, <2>1, TaskFrame, AttendedOthers
  <2>2. CASE id = other
    <3>1. /\ UNCHANGED <<instance, lastId, pending>>
          /\ task[id] \in InCharge \union {"emit"}
          /\ task[id] \in InCharge => task'[id] \in InCharge \/ Record(id)
          BY <1>1, <1>4, <2>2, TaskFrame
    <3>2. CASE Record(id)
      <4>1. Charged(id) /\ status[id] \in Waiting
            BY <1>1, <3>2 DEF Record, Charged, InCharge, IInv, Good, Held
      <4>2. status'[id] = Outcome(id)
            BY <1>1, <3>2, <4>1 DEF Record, IInv, TypeOK
      <4> QED BY <1>1, <3>1, <4>2 DEF Attended, Outcome, Waiting
    <3>3. CASE task[id] \in InCharge /\ ~Record(id)
          BY <1>1, <3>1, <3>3 DEF Attended, Charged
    <3>4. CASE task[id] \notin InCharge
      <4>1. task[id] = "emit"
            BY <3>1, <3>4
      <4>2. UNCHANGED status /\ status[id] \notin Waiting
        <5>1. Emit(id)
              BY <1>4, <2>2, <4>1 DEF Work, HandlerEnds, Report, Refuse, Begin, Mutated, Record, Resume,
                 Waiting
        <5>2. id \notin pending
              BY <1>1, <4>1 DEF IInv, Good, Idle
        <5> QED BY <1>1, <3>4, <5>1, <5>2 DEF Emit, Attended, Charged
      <4> QED BY <1>1, <3>1, <4>2 DEF Attended
    <3> QED BY <3>2, <3>3, <3>4
  <2> QED BY <2>1, <2>2
<1>8. CASE \E other \in Ids : PruneJournal(other)
      BY <1>1, <1>8 DEF PruneJournal, Queue, Attended, Charged
<1>5. CASE Crash
      BY <1>1, <1>5 DEF Crash, Attended, Waiting
<1>6. CASE Recover
  <2>1. PICK keep \in SUBSET Ids, unwritten \in SUBSET Ids : Restart(keep, unwritten)
        BY <1>6 DEF Recover
  <2>2. status'[id] \in Waiting => id \in pending'
        BY <2>1 DEF Restart, Cut, Unended, Waiting
  <2> QED BY <1>1, <2>1, <2>2 DEF Restart, Attended, Charged
<1>7. CASE TakePending
  <2>1. /\ task' = Resumed /\ UNCHANGED <<instance, lastId, status>>
        BY <1>7 DEF TakePending
  <2>2. status[id] \in Waiting => task'[id] \in InCharge
        BY <1>1, <2>1 DEF Resumed, Attended, Charged, InCharge
  <2> QED BY <1>1, <2>1, <2>2 DEF Attended, Charged
<1> QED BY <1>2, <1>3, <1>4, <1>5, <1>6, <1>7, <1>8 DEF Next

(* How the state of an operation shows in the ledger.                      *)
LEMMA ToldFrame ==
    ASSUME TypeOK, NEW id \in Ids, NEW state, status' = [status EXCEPT ![id] = state]
    PROVE  Told' = [Told EXCEPT ![id] = Shown(state)]
BY DEF TypeOK, Told

LEMMA KeptFrame ==
    ASSUME TypeOK, NEW id \in Ids, NEW state, disk' = [disk EXCEPT ![id] = state]
    PROVE  Kept' = [Kept EXCEPT ![id] = Shown(state)]
BY DEF TypeOK, Kept

LEMMA PhaseFrame ==
    ASSUME TypeOK, NEW id \in Ids, NEW next, task' = [task EXCEPT ![id] = next], UNCHANGED pending
    PROVE  /\ task'[id] = next
           /\ Phase' = [Phase EXCEPT ![id] = PhaseOf(id)']
<1>1. /\ task'[id] = next
      /\ \A other \in Ids \ {id} : task'[other] = task[other]
      BY DEF TypeOK
<1>2. \A other \in Ids \ {id} : PhaseOf(other)' = PhaseOf(other)
      BY <1>1 DEF PhaseOf
<1> QED BY <1>1, <1>2 DEF Phase

(* What is told of an operation in the hands of a task, and what is due.   *)
LEMMA ChargedOpen ==
    ASSUME IInv, NEW id \in Ids, Charged(id)
    PROVE  Told[id] = "open" /\ instance[id] \in Instances /\ active[instance[id]] = id
BY DEF IInv, Good, Held, Told, Shown

LEMMA LedgerInit == Init => Ledger!Init
<1> SUFFICES ASSUME Init PROVE Ledger!Init
    OBVIOUS
<1>1. Told = [id \in Ids |-> "none"] /\ Kept = [id \in Ids |-> "none"]
      BY DEF Init, Told, Kept, Shown, Waiting
<1>2. Phase = [id \in Ids |-> "idle"]
      BY DEF Init, Phase, PhaseOf, InCharge
<1> QED BY <1>1, <1>2 DEF Init, Ledger!Init

(* A new operation is the only open one of its instance: another would be  *)
(* attended, hold the active entry and be in conflict.                     *)
LEMMA RequestLedger ==
    ASSUME AInv, NEW i \in Instances, Request(i)
    PROVE  \E id \in Ids : Ledger!Request(id, i)
<1>0. IInv /\ TypeOK
      BY DEF AInv, IInv
<1>1. PICK id \in Ids :
           /\ id = lastId + 1 /\ lastId' = id /\ lastId \in Nat /\ up /\ UNCHANGED up
           /\ ~Conflict(i)
           /\ instance' = [instance EXCEPT ![id] = i]
           /\ status' = [status EXCEPT ![id] = "queued"]
           /\ disk' = [disk EXCEPT ![id] = "queued"] \/ UNCHANGED disk
           /\ task' = [task EXCEPT ![id] = "handler"]
           /\ UNCHANGED pending
      BY <1>0, RequestFrame
<1>2. instance[id] = "none"
      BY <1>1 DEF AInv, Attended
<1>3. Ledger!Open(i) = {}
  <2> SUFFICES ASSUME NEW other \in Ids, instance[other] = i, Told[other] = "open" PROVE FALSE
      BY DEF Ledger!Open
  <2>1. status[other] \in Waiting
        BY <1>0 DEF TypeOK, States, Ended, Told, Shown
  <2>2. Charged(other)
        BY <2>1 DEF AInv, Attended
  <2>3. active[i] = other
        BY <1>0, <2>2, ChargedOpen
  <2>4. other # 0
        BY OperationsAssumption DEF Ids
  <2> QED BY <1>1, <2>1, <2>3, <2>4 DEF Conflict
<1>4. Told' = [Told EXCEPT ![id] = "open"]
      BY <1>0, <1>1, ToldFrame DEF Shown, Waiting
<1>5. Kept' = Kept \/ Kept' = [Kept EXCEPT ![id] = "open"]
  <2>1. CASE UNCHANGED disk
        BY <2>1 DEF Kept
  <2>2. CASE disk' = [disk EXCEPT ![id] = "queued"]
        BY <1>0, <2>2, KeptFrame DEF Shown, Waiting
  <2> QED BY <1>1, <2>1, <2>2
<1>6. Ledger!MaySave(id)
  <2>1. Told'[id] = "open"
        BY <1>4 DEF Told
  <2> QED BY <1>5, <2>1 DEF Ledger!MaySave
<1>7. Phase' = [Phase EXCEPT ![id] = "due"]
  <2>1. task'[id] = "handler" /\ Phase' = [Phase EXCEPT ![id] = PhaseOf(id)']
        BY <1>0, <1>1, PhaseFrame
  <2>2. PhaseOf(id)' = "due"
        BY <2>1 DEF PhaseOf, InCharge
  <2> QED BY <2>1, <2>2
<1> QED BY <1>1, <1>2, <1>3, <1>4, <1>6, <1>7 DEF Ledger!Request

(* Spawning a task, resuming an operation and the last event leave the     *)
(* ledger as it is.                                                        *)
LEMMA SilentLedger ==
    ASSUME AInv, NEW id \in Ids, HandlerEnds(id) \/ Resume(id) \/ Emit(id)
    PROVE  UNCHANGED Ledger!ledgerVars
<1>0. IInv /\ TypeOK
      BY DEF AInv, IInv
<1>1. PICK next \in {"queued", "dropped", "none"} :
           /\ task' = [task EXCEPT ![id] = next]
           /\ \/ task[id] \in {"handler", "taken"} /\ next # "none"
              \/ task[id] = "emit" /\ next = "none"
      BY DEF HandlerEnds, Resume, Emit
<1>2. UNCHANGED <<up, instance, status, disk, pending>>
      BY DEF HandlerEnds, Resume, Emit, Up, Queue
<1>3. task'[id] = next /\ Phase' = [Phase EXCEPT ![id] = PhaseOf(id)']
      BY <1>0, <1>1, <1>2, PhaseFrame
<1>4. PhaseOf(id)' = PhaseOf(id)
  <2>1. CASE task[id] \in {"handler", "taken"} /\ next # "none"
        BY <1>3, <2>1 DEF PhaseOf, InCharge
  <2>2. CASE task[id] = "emit" /\ next = "none"
    <3>1. id \notin pending /\ id \notin pending'
          BY <1>0, <1>2, <2>2 DEF IInv, Good, Idle
    <3> QED BY <1>3, <2>2, <3>1 DEF PhaseOf, InCharge
  <2> QED BY <1>1, <2>1, <2>2
<1>5. UNCHANGED Phase
      BY <1>3, <1>4 DEF Phase
<1> QED BY <1>2, <1>5 DEF Told, Kept, Ledger!ledgerVars

(* A report of progress may save that the operation is open.               *)
LEMMA ReportLedger ==
    ASSUME AInv, NEW id \in Ids, Report(id)
    PROVE  Ledger!Save(id) \/ UNCHANGED Ledger!ledgerVars
<1>0. IInv /\ TypeOK
      BY DEF AInv, IInv
<1>1. /\ up /\ task[id] \in Waiting /\ task' = [task EXCEPT ![id] = Following[task[id]]]
      /\ UNCHANGED <<up, instance, pending>>
      BY DEF Report, Up, Queue
<1>2. Following[task[id]] \in {"planning", "working", "execute"}
      BY <1>1 DEF Following, Waiting
<1>3. Charged(id) /\ PhaseOf(id) = "due"
      BY <1>1 DEF Charged, PhaseOf, InCharge, Waiting
<1>4. status[id] \in Waiting /\ Told[id] = "open"
      BY <1>0, <1>3, ChargedOpen DEF IInv, Good, Held
<1>5. status' = [status EXCEPT ![id] = task[id]] /\ Written(id, task[id])
      BY <1>4 DEF Report
<1>6. UNCHANGED Told
  <2>1. Told' = [Told EXCEPT ![id] = "open"]
        BY <1>0, <1>1, <1>5, ToldFrame DEF Shown
  <2> QED BY <1>4, <2>1 DEF Told
<1>7. UNCHANGED Phase
  <2>1. Phase' = [Phase EXCEPT ![id] = PhaseOf(id)'] /\ task'[id] = Following[task[id]]
        BY <1>0, <1>1, PhaseFrame
  <2>2. PhaseOf(id)' = "due"
        BY <1>2, <2>1 DEF PhaseOf, InCharge
  <2> QED BY <1>3, <2>1, <2>2 DEF Phase
<1>8. UNCHANGED Kept \/ Kept' = [Kept EXCEPT ![id] = "open"]
  <2>1. CASE UNCHANGED disk
        BY <2>1 DEF Kept
  <2>2. CASE disk' = [disk EXCEPT ![id] = task[id]]
        BY <1>0, <1>1, <2>2, KeptFrame DEF Shown
  <2> QED BY <1>5, <2>1, <2>2 DEF Written
<1> QED BY <1>1, <1>4, <1>6, <1>7, <1>8 DEF Ledger!Save, Ledger!ledgerVars

(* Executing: only the operation that the active entry names begins.       *)
LEMMA ExecuteLedger ==
    ASSUME AInv, NEW id \in Ids, Refuse(id) \/ Begin(id) \/ Mutated(id)
    PROVE  Ledger!Begin(id) \/ \E result \in {"complete", "failed"} : Ledger!End(id, result)
<1>0. IInv /\ TypeOK
      BY DEF AInv, IInv
<1>1. up /\ UNCHANGED <<up, instance, status, disk, pending>>
      BY DEF Refuse, Begin, Mutated, Up, Queue
<1>2. PICK next \in {"mutate", "completing", "failing"} :
           /\ task' = [task EXCEPT ![id] = next]
           /\ task[id] \in {"execute", "mutate"}
           /\ task[id] = "execute" => next # "completing"
           /\ task[id] = "mutate" => next # "mutate"
      BY DEF Refuse, Begin, Mutated
<1>3. UNCHANGED <<Told, Kept>>
      BY <1>1 DEF Told, Kept
<1>4. task'[id] = next /\ Phase' = [Phase EXCEPT ![id] = PhaseOf(id)']
      BY <1>0, <1>1, <1>2, PhaseFrame
<1>5. Charged(id) /\ Phase[id] = IF task[id] = "mutate" THEN "doing" ELSE "due"
      BY <1>2 DEF Charged, InCharge, Phase, PhaseOf
<1>6. CASE next = "mutate"
  <2>1. Phase' = [Phase EXCEPT ![id] = "doing"]
        BY <1>4, <1>6 DEF PhaseOf
  <2>2. ASSUME NEW other \in Ids, Phase[other] = "doing" PROVE instance[other] # instance[id]
    <3>1. task[other] = "mutate"
          BY <2>2 DEF Phase, PhaseOf
    <3>2. other # id /\ Charged(other)
          BY <1>2, <1>6, <3>1 DEF Charged, InCharge
    <3> QED BY <1>0, <1>5, <3>2, ChargedOpen
  <2>3. Told[id] = "open" /\ Phase[id] = "due"
        BY <1>0, <1>2, <1>5, <1>6, ChargedOpen
  <2> QED BY <1>1, <1>3, <2>1, <2>2, <2>3 DEF Ledger!Begin
<1>7. CASE next # "mutate"
  <2> DEFINE result == IF next = "completing" THEN "complete" ELSE "failed"
  <2>1. PhaseOf(id)' = result
        BY <1>2, <1>4, <1>7 DEF PhaseOf
  <2>2. Phase' = [Phase EXCEPT ![id] = result]
        BY <1>4, <2>1
  <2>3. Phase[id] = "doing" \/ (Phase[id] = "due" /\ result = "failed")
        BY <1>2, <1>5
  <2> QED BY <1>1, <1>3, <2>2, <2>3 DEF Ledger!End
<1> QED BY <1>6, <1>7

(* What is recorded is the result, and nobody works on it any more.        *)
LEMMA RecordLedger == ASSUME AInv, NEW id \in Ids, Record(id) PROVE Ledger!Tell(id)
<1>0. IInv /\ TypeOK
      BY DEF AInv, IInv
<1>1. /\ up /\ task[id] \in {"completing", "failing"} /\ task' = [task EXCEPT ![id] = "emit"]
      /\ UNCHANGED <<up, instance, pending>>
      BY DEF Record, Up
<1>2. Charged(id) /\ id \notin pending
      BY <1>0, <1>1 DEF Charged, InCharge, IInv, Good, Idle
<1>3. status[id] \in Waiting /\ Told[id] = "open"
      BY <1>0, <1>2, ChargedOpen DEF IInv, Good, Held
<1>4. status' = [status EXCEPT ![id] = Outcome(id)] /\ Written(id, Outcome(id))
      BY <1>3 DEF Record
<1>5. Phase[id] = Outcome(id) /\ Shown(Outcome(id)) = Outcome(id) /\ Phase[id] \in {"complete", "failed"}
      BY <1>1 DEF Phase, PhaseOf, Outcome, Shown, Waiting
<1>6. Told' = [Told EXCEPT ![id] = Phase[id]]
      BY <1>0, <1>4, <1>5, ToldFrame
<1>7. Ledger!MaySave(id)
  <2>1. Told'[id] = Phase[id]
        BY <1>6 DEF Told
  <2>2. UNCHANGED Kept \/ Kept' = [Kept EXCEPT ![id] = Phase[id]]
    <3>1. CASE UNCHANGED disk
          BY <3>1 DEF Kept
    <3>2. CASE disk' = [disk EXCEPT ![id] = Outcome(id)]
          BY <1>0, <1>5, <3>2, KeptFrame
    <3> QED BY <1>4, <3>1, <3>2 DEF Written
  <2> QED BY <2>1, <2>2 DEF Ledger!MaySave
<1>8. Phase' = [Phase EXCEPT ![id] = "idle"]
  <2>1. task'[id] = "emit" /\ Phase' = [Phase EXCEPT ![id] = PhaseOf(id)']
        BY <1>0, <1>1, PhaseFrame
  <2>2. PhaseOf(id)' = "idle"
        BY <1>1, <1>2, <2>1 DEF PhaseOf, InCharge
  <2> QED BY <2>1, <2>2
<1> QED BY <1>1, <1>3, <1>5, <1>6, <1>7, <1>8 DEF Ledger!Tell

LEMMA CrashLedger == ASSUME Crash PROVE Ledger!Crash
<1>1. Told' = [id \in Ids |-> "none"] /\ UNCHANGED Kept
      BY DEF Crash, Told, Kept, Shown, Waiting
<1>2. Phase' = [id \in Ids |-> "idle"]
      BY DEF Crash, Phase, PhaseOf, InCharge
<1> QED BY <1>1, <1>2 DEF Crash, Ledger!Crash

(* The operations that are resumed are due again, the others that had not  *)
(* ended are interrupted, which may be saved or not.                       *)
LEMMA RestartLedger ==
    ASSUME AInv, NEW keep \in SUBSET Ids, NEW unwritten \in SUBSET Ids, Restart(keep, unwritten)
    PROVE  Ledger!Restart(keep)
<1>0. IInv /\ TypeOK
      BY DEF AInv, IInv
<1>1. ~up /\ up' = TRUE /\ UNCHANGED <<instance, task>> /\ pending' = keep /\ keep \subseteq Unended
      /\ \A id, other \in keep : instance[id] = instance[other] => id = other
      BY DEF Restart, Resumable
<1>2. \A id \in Ids : Kept[id] = "open" <=> id \in Unended
      BY <1>0 DEF Kept, Shown, Unended, TypeOK, States, Ended
<1>3. \A id \in keep : Kept[id] = "open"
      BY <1>1, <1>2
<1>4. Told' = [id \in Ids |-> IF Kept[id] = "open" /\ id \notin keep THEN "interrupted" ELSE Kept[id]]
  <2>1. status' = [id \in Ids |-> IF id \in Cut(keep) THEN "interrupted" ELSE disk[id]]
        BY DEF Restart
  <2>2. \A id \in Ids : Shown(status'[id]) =
                          IF Kept[id] = "open" /\ id \notin keep THEN "interrupted" ELSE Kept[id]
        BY <1>2, <2>1 DEF Cut, Kept, Shown, Waiting
  <2> QED BY <2>2 DEF Told
<1>5. Phase' = [id \in Ids |-> IF id \in keep THEN "due" ELSE "idle"]
  <2>1. \A id \in Ids : task'[id] = "none"
        BY <1>0, <1>1 DEF IInv, Good, Sound
  <2>2. \A id \in Ids : PhaseOf(id)' = IF id \in keep THEN "due" ELSE "idle"
        BY <1>1, <2>1 DEF PhaseOf, InCharge
  <2> QED BY <2>2 DEF Phase
<1>6. \E saved \in SUBSET Ids : Kept' = [id \in Ids |-> IF id \in saved THEN Told'[id] ELSE Kept[id]]
  <2> DEFINE saved == Cut(keep) \ unwritten
  <2>1. saved \in SUBSET Ids
        BY DEF Cut, Unended
  <2>2. disk' = [id \in Ids |-> IF id \in saved THEN "interrupted" ELSE disk[id]]
        BY DEF Restart
  <2>3. \A id \in saved : Told'[id] = "interrupted"
        BY <1>2, <1>4, <2>1 DEF Cut
  <2>4. \A id \in Ids : Shown(disk'[id]) = IF id \in saved THEN Told'[id] ELSE Kept[id]
        BY <2>2, <2>3 DEF Shown, Waiting, Kept
  <2>5. Kept' = [id \in Ids |-> IF id \in saved THEN Told'[id] ELSE Kept[id]]
        BY <2>4 DEF Kept
  <2> QED BY <2>1, <2>5
<1> QED BY <1>1, <1>3, <1>4, <1>5, <1>6 DEF Ledger!Restart

LEMMA TakePendingLedger == ASSUME AInv, TakePending PROVE UNCHANGED Ledger!ledgerVars
<1>0. IInv /\ TypeOK
      BY DEF AInv, IInv
<1>1. UNCHANGED <<up, instance, status, disk>> /\ pending' = {} /\ task' = Resumed
      BY DEF TakePending, Up
<1>2. ASSUME NEW id \in Ids PROVE PhaseOf(id)' = PhaseOf(id)
  <2>1. id \in pending => status[id] \in Waiting /\ task[id] = "none"
        BY <1>0 DEF IInv, Good, Held, Idle, Charged
  <2>2. task'[id] = IF id \in pending THEN "taken" ELSE task[id]
        BY <1>1, <2>1 DEF Resumed
  <2> QED BY <1>1, <2>1, <2>2 DEF PhaseOf, InCharge
<1> QED BY <1>1, <1>2 DEF Told, Kept, Phase, Ledger!ledgerVars

LEMMA LedgerStep == AInv /\ [Next]_vars => [Ledger!Next]_(Ledger!ledgerVars)
<1> SUFFICES ASSUME AInv, [Next]_vars PROVE Ledger!Next \/ UNCHANGED Ledger!ledgerVars
    OBVIOUS
<1>1. CASE UNCHANGED vars
      BY <1>1 DEF vars, Ledger!ledgerVars, Told, Kept, Phase, PhaseOf
<1>2. ASSUME NEW i \in Instances, Request(i) PROVE Ledger!Next
      BY <1>2, RequestLedger DEF Ledger!Next
<1>3. ASSUME NEW id \in Ids, HandlerEnds(id) \/ Work(id)
      PROVE  Ledger!Next \/ UNCHANGED Ledger!ledgerVars
  <2>1. CASE HandlerEnds(id) \/ Resume(id) \/ Emit(id)
        BY <2>1, SilentLedger
  <2>2. CASE Report(id)
        BY <2>2, ReportLedger DEF Ledger!Next
  <2>3. CASE Refuse(id) \/ Begin(id) \/ Mutated(id)
        BY <2>3, ExecuteLedger DEF Ledger!Next
  <2>4. CASE Record(id)
        BY <2>4, RecordLedger DEF Ledger!Next
  <2> QED BY <1>3, <2>1, <2>2, <2>3, <2>4 DEF Work
<1>7. CASE \E id \in Ids : PruneJournal(id)
      BY <1>7 DEF PruneJournal, Up, Queue, Ledger!ledgerVars, Told, Kept, Phase, PhaseOf
<1>4. CASE Crash
      BY <1>4, CrashLedger DEF Ledger!Next
<1>5. CASE Recover
      BY <1>5, RestartLedger DEF Recover, Ledger!Next
<1>6. CASE TakePending
      BY <1>6, TakePendingLedger
<1> QED BY <1>1, <1>2, <1>3, <1>4, <1>5, <1>6, <1>7 DEF Next

(* The handlers, the tasks and the resume pass of the queue implement the  *)
(* ledger: every step of theirs is a step of it or changes nothing there.  *)
THEOREM LedgerIsKept == Spec => KeepsLedger
<1>1. Spec => []AInv
      BY AttendedInit, AttendedStep, PTL DEF Spec
<1> QED BY <1>1, LedgerInit, LedgerStep, PTL DEF Spec, KeepsLedger, Ledger!Spec
=============================================================================

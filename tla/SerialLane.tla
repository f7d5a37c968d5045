------------------------------ MODULE SerialLane ------------------------------
(***************************************************************************)
(* What the install lane promises to whoever queues work, without queue,   *)
(* tasks or sessions: jobs run one at a time, each at most once, a job     *)
(* that names a prerequisite runs only after that one ended well, and a    *)
(* published result never changes.                                         *)
(***************************************************************************)
EXTENDS Integers

CONSTANT Jobs        \* a set of positive integers

VARIABLES
  status,   \* what became of each job
  after     \* the job each one waits for, 0 for none

jobVars == <<status, after>>

Init ==
  /\ status = [j \in Jobs |-> "unused"]
  /\ after = [j \in Jobs |-> 0]

Submit(j, p) ==
  /\ status[j] = "unused"
  /\ status' = [status EXCEPT ![j] = "queued"]
  /\ after' = [after EXCEPT ![j] = p]

\* Removed from the queue, or given up because it cannot start.
Drop(j) ==
  /\ status[j] = "queued"
  /\ status' = [status EXCEPT ![j] = "dropped"]
  /\ UNCHANGED after

Begin(j) ==
  /\ status[j] = "queued"
  /\ \A k \in Jobs : status[k] # "running"
  /\ after[j] # 0 => status[after[j]] = "ok"
  /\ status' = [status EXCEPT ![j] = "running"]
  /\ UNCHANGED after

End(j, result) ==
  /\ status[j] = "running"
  /\ status' = [status EXCEPT ![j] = result]
  /\ UNCHANGED after

Next ==
  \E j \in Jobs :
    \/ \E p \in Jobs \cup {0} : Submit(j, p)
    \/ Drop(j)
    \/ Begin(j)
    \/ \E result \in {"ok", "error"} : End(j, result)

Spec == Init /\ [][Next]_jobVars
=============================================================================

--------------------------- MODULE OperationLedger ---------------------------
(***************************************************************************)
(* What the queue of performance operations promises to its clients,       *)
(* without tasks, active entries or resume lists: an owner has at most one *)
(* operation open, an open operation is executed at most once in a life of *)
(* the process, what is told is how the execution went, and an end that    *)
(* was saved stays over every restart.                                     *)
(***************************************************************************)
CONSTANTS Jobs, Owners

VARIABLES
    up,         \* the process runs
    owner,      \* whose operation it is
    told,       \* what a client is told: "none", "open" or an end
    kept,       \* what survives the process
    phase       \* "due", "doing", then the result; "idle" when nobody works on it

ledgerVars == <<up, owner, told, kept, phase>>

\* What was told is saved, or not.
MaySave(j) == kept' = kept \/ kept' = [kept EXCEPT ![j] = told'[j]]

Init ==
    /\ up = TRUE
    /\ owner = [j \in Jobs |-> "none"]
    /\ told = [j \in Jobs |-> "none"] /\ kept = [j \in Jobs |-> "none"]
    /\ phase = [j \in Jobs |-> "idle"]

Open(i) == {j \in Jobs : owner[j] = i /\ told[j] = "open"}

Request(j, i) ==
    /\ up
    /\ owner[j] = "none" /\ Open(i) = {}
    /\ owner' = [owner EXCEPT ![j] = i]
    /\ told' = [told EXCEPT ![j] = "open"]
    /\ phase' = [phase EXCEPT ![j] = "due"]
    /\ MaySave(j)
    /\ UNCHANGED up

Save(j) ==
    /\ up /\ told[j] = "open"
    /\ kept' = [kept EXCEPT ![j] = "open"]
    /\ UNCHANGED <<up, owner, told, phase>>

(* The only step to "doing", and one that an operation is due for once.    *)
Begin(j) ==
    /\ up /\ phase[j] = "due" /\ told[j] = "open"
    /\ \A k \in Jobs : phase[k] = "doing" => owner[k] # owner[j]
    /\ phase' = [phase EXCEPT ![j] = "doing"]
    /\ UNCHANGED <<up, owner, told, kept>>

(* It may fail without having begun.                                       *)
End(j, result) ==
    /\ up
    /\ phase[j] = "doing" \/ (phase[j] = "due" /\ result = "failed")
    /\ phase' = [phase EXCEPT ![j] = result]
    /\ UNCHANGED <<up, owner, told, kept>>

Tell(j) ==
    /\ up /\ phase[j] \in {"complete", "failed"} /\ told[j] = "open"
    /\ told' = [told EXCEPT ![j] = phase[j]]
    /\ phase' = [phase EXCEPT ![j] = "idle"]
    /\ MaySave(j)
    /\ UNCHANGED <<up, owner>>

Crash ==
    /\ up /\ up' = FALSE
    /\ told' = [j \in Jobs |-> "none"]
    /\ phase' = [j \in Jobs |-> "idle"]
    /\ UNCHANGED <<owner, kept>>

(* Of what was open, one operation of an owner is due again; the others    *)
(* are told to be interrupted.                                             *)
Restart(again) ==
    /\ ~up /\ up' = TRUE
    /\ \A j \in again : kept[j] = "open"
    /\ \A j, k \in again : owner[j] = owner[k] => j = k
    /\ told' = [j \in Jobs |-> IF kept[j] = "open" /\ j \notin again THEN "interrupted" ELSE kept[j]]
    /\ phase' = [j \in Jobs |-> IF j \in again THEN "due" ELSE "idle"]
    /\ \E saved \in SUBSET Jobs : kept' = [j \in Jobs |-> IF j \in saved THEN told'[j] ELSE kept[j]]
    /\ UNCHANGED owner

Next ==
    \/ \E j \in Jobs, i \in Owners : Request(j, i)
    \/ \E j \in Jobs : Save(j) \/ Begin(j) \/ Tell(j)
    \/ \E j \in Jobs, result \in {"complete", "failed"} : End(j, result)
    \/ Crash
    \/ \E again \in SUBSET Jobs : Restart(again)

Spec == Init /\ [][Next]_ledgerVars
=============================================================================

---------------------------- MODULE InstanceUse ----------------------------
(***************************************************************************)
(* What the instance lifecycle lock and the active-session check promise:  *)
(* an instance is used by one launch session or one edit at a time, and a  *)
(* game runs only while its session has that use.                          *)
(***************************************************************************)
CONSTANT Users      \* the sessions and the editor of one instance

VARIABLES
    user,           \* who uses the instance, or "nobody"
    playing         \* a game of the instance is running

useVars == <<user, playing>>

Init == user = "nobody" /\ playing = FALSE

Take(u) == user = "nobody" /\ user' = u /\ UNCHANGED playing

Play == user \in Users \ {"editor"} /\ ~playing /\ playing' = TRUE /\ UNCHANGED user

(* The use ends with the game, or without one.                             *)
Leave == user # "nobody" /\ user' = "nobody" /\ playing' = FALSE

Next == (\E u \in Users : Take(u)) \/ Play \/ Leave

Spec == Init /\ [][Next]_useVars
=============================================================================

---------------------------- MODULE MCContentFiles ---------------------------
(* Instances of ContentFiles for TLC: a library P with an update under another *)
(* file name, and a mod Q that needs it and uses that name too.               *)
EXTENDS ContentFiles

CONSTANTS P, Q, p1, p2, q1, u, a, b

MCProjectOf == [r \in Releases |-> IF r = q1 THEN Q ELSE P]
MCNameOf == [r \in Releases |-> IF r = p1 THEN a ELSE b]
MCNeeds == [r \in Releases |-> IF r = q1 THEN {P} ELSE {}]
=============================================================================

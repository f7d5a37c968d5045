---------------------------- MODULE MCManagedMods ----------------------------
(* Instances of ManagedMods for TLC: a composition of two mods that falls back *)
(* to one of them and then to none; one mod changes its file name with a       *)
(* release.                                                                    *)
EXTENDS ManagedMods

CONSTANTS P, Q, p1, p2, q1, u, a, b, c

MCProjectOf == [r \in Releases |-> IF r = q1 THEN Q ELSE P]
MCNameOf == [r \in Releases |-> IF r = p1 THEN a ELSE IF r = p2 THEN b ELSE c]
MCCompositions == {"extended", "core", "vanilla"}
MCModsOf == [x \in MCCompositions |->
                IF x = "extended" THEN {P, Q} ELSE IF x = "core" THEN {P} ELSE {}]
MCFallbackTo == [x \in MCCompositions |->
                IF x = "extended" THEN "core" ELSE IF x = "core" THEN "vanilla" ELSE "none"]
=============================================================================

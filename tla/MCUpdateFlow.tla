---------------------------- MODULE MCUpdateFlow ----------------------------
(* Instances of UpdateFlow for TLC.                                        *)
EXTENDS UpdateFlow

CONSTANTS h1, h2
=============================================================================

-------------------------- MODULE MCManagedRuntime --------------------------
(* Instances of ManagedRuntime for TLC.                                    *)
EXTENDS ManagedRuntime

CONSTANTS l1, l2, p1
=============================================================================

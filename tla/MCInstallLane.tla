---------------------------- MODULE MCInstallLane ----------------------------
(* Small instances of InstallLane for TLC. *)
EXTENDS InstallLane

CONSTANT v1

\* Every setup's instance runs the one version.
MCBase == [s \in Setups |-> v1]
=============================================================================

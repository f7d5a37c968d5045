---------------------- MODULE MCPerformanceOperations ----------------------
(* Instances of PerformanceOperations for TLC.                             *)
EXTENDS PerformanceOperations

CONSTANTS i1, i2
=============================================================================

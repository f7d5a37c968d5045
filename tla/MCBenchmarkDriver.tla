-------------------------- MODULE MCBenchmarkDriver --------------------------
(* Instances of BenchmarkDriver for TLC.                                   *)
EXTENDS BenchmarkDriver

CONSTANTS c1
=============================================================================

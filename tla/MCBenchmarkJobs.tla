-------------------------- MODULE MCBenchmarkJobs --------------------------
(* Instances of BenchmarkJobs for TLC.                                     *)
EXTENDS BenchmarkJobs
===========================================================================

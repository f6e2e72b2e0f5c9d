----------------------------- MODULE MCBenchmark -----------------------------
(***************************************************************************)
(* Benchmark for TLC: the .cfg file gives the constants small values.      *)
(***************************************************************************)
EXTENDS Benchmark
=============================================================================

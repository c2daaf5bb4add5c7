-------------------------- MODULE MCFoundPipeline --------------------------
(* Constants for TLC: two goroutines that report files and a channel small  *)
(* enough to be full.                                                       *)
EXTENDS FoundPipeline, TLC

CONSTANTS w1, w2, f1, f2, f3, f4

MCWorkers == {w1, w2}
MCFiles == {f1, f2, f3, f4}
=============================================================================

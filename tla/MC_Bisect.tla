----------------------------- MODULE MC_Bisect -----------------------------
(* Instantiation of Bisect for TLC: three threads of two events each give  *)
(* 90 feasible schedules and chains of up to twelve swaps between a    *)
(* target and a baseline, so bisection needs up to four replays.      *)
EXTENDS Bisect

MCThreads == {"t1", "t2", "t3"}
=============================================================================

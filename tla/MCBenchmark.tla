---------------------------- MODULE MCBenchmark ----------------------------
(* Main and two threads on the three levels of the program.                *)
EXTENDS Benchmark

ProgramLevels == 3      (* int NUMBER_LEVELS = 3 *)
TwoThreads == 2
MainOnly == {Main}
=============================================================================

---------------------------- MODULE MCScheduler ----------------------------
(* Instances of Scheduler for TLC: the three levels of the program, main   *)
(* and one or two threads, none to two mutexes.                            *)
EXTENDS Scheduler, TLC

ProgramLevels == 3      (* int NUMBER_LEVELS = 3 *)
OneThread == 1
TwoThreads == 2
MainOnly == {Main}
MainAndFirst == {Main, 1}

(* All mutexes are treated alike, and so are all values passed to exit.    *)
ClientSymmetry == Permutations(Mutexes) \cup Permutations(ExitValues)
=============================================================================

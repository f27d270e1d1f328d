--------------------------- MODULE MCSharedVars ---------------------------
(* Model checking of mutex.c and nomutex.c; threads are interchangeable.   *)
EXTENDS SharedVars, TLC

ThreadSymmetry == Permutations(Threads)
=============================================================================

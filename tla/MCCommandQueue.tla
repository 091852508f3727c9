--------------------------- MODULE MCCommandQueue ---------------------------
(* Model values for the runs of CommandQueue.                              *)
EXTENDS CommandQueue, TLC

CONSTANTS t1, t2

MCThreads == {t1, t2}

\* Threads are interchangeable.  Used by the run without liveness.
MCSymmetry == Permutations(MCThreads)

=============================================================================

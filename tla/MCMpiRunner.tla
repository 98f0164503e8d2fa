---------------------------- MODULE MCMpiRunner -----------------------------
(* MpiRunner with rank 0 and two workers, two Start callbacks and two Cancel  *)
(* calls, and a run of two ticks; or a single process with none.              *)
EXTENDS MpiRunner

CONSTANTS c1, c2, k1, k2, w1, w2

MCCallbacks == {c1, c2}
MCCancellers == {k1, k2}
MCWorkers == {w1, w2}

=============================================================================

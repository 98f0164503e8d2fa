-------------------------- MODULE MCRunnerHandoff ---------------------------
(* RunnerHandoff with two Start callbacks racing for the run and three Cancel *)
(* calls racing with set_adapter and with the end of the run.                 *)
EXTENDS RunnerHandoff

CONSTANTS c1, c2, k1, k2, k3

MCCallbacks == {c1, c2}
MCCancellers == {k1, k2, k3}
=============================================================================

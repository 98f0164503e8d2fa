----------------------------- MODULE RunSession -----------------------------
(***************************************************************************)
(* _RunSession of casmsocial/grpc_runner.py: the embedded launcher of a    *)
(* single process, which runs the model on the control server's callback   *)
(* thread.  Unlike RunnerHandoff it calls adapter.cancel() with its lock   *)
(* held, both when a cancel finds an adapter and when an adapter is        *)
(* exposed to a cancel that came before it.                                *)
(***************************************************************************)
CONSTANTS
  Callbacks,   \* threads on which the control server calls run
  Ticks        \* see CasmPopAdapter

VARIABLES
  stage, sawCancel, cancelled, modelSet, modelSignals, bridge, tick, closes,
  succeeded, flushed, adapterFinished, state

VARIABLES
  adapterSet,       \* _adapter is not None
  cancelRequested,  \* _cancel_requested
  started,          \* _started
  finished,         \* _finished
  failed,           \* an exception is on its way out of run
  pc                \* where each callback thread is in run

A == INSTANCE CasmPopAdapter WITH Collective <- FALSE, finished <- adapterFinished

adapterVars ==
  <<stage, sawCancel, cancelled, modelSet, modelSignals, bridge, tick, closes,
    succeeded, flushed, adapterFinished, state>>
sessionVars == <<adapterSet, cancelRequested, started, finished, failed, pc>>
vars == <<adapterVars, sessionVars>>

Init ==
  /\ A!Init
  /\ adapterSet = FALSE
  /\ cancelRequested = FALSE
  /\ started = FALSE
  /\ finished = FALSE
  /\ failed = FALSE
  /\ pc = [c \in Callbacks |-> "idle"]
-----------------------------------------------------------------------------
(* run, on a callback thread. *)

Goes(c, from, to) == pc[c] = from /\ pc' = [pc EXCEPT ![c] = to]

RunAccepted(c) ==
  /\ ~started
  /\ Goes(c, "idle", "preparing")
  /\ started' = TRUE
  /\ UNCHANGED <<adapterVars, adapterSet, cancelRequested, finished, failed>>

RunRefused(c) ==
  /\ started
  /\ Goes(c, "idle", "raised")
  /\ UNCHANGED <<adapterVars, adapterSet, cancelRequested, started, finished, failed>>

\* The parameters and the adapter are ready.
Prepare(c) ==
  /\ Goes(c, "preparing", "exposing")
  /\ UNCHANGED <<adapterVars, adapterSet, cancelRequested, started, finished, failed>>

\* Mutant: the exposed adapter does not learn of an earlier cancel.
ExposeForgets(c) ==
  /\ Goes(c, "exposing", "adapter")
  /\ adapterSet' = TRUE
  /\ UNCHANGED <<adapterVars, cancelRequested, started, finished, failed>>

Expose(c) ==
  /\ Goes(c, "exposing", "adapter")
  /\ adapterSet' = TRUE
  /\ IF cancelRequested THEN A!Cancel ELSE UNCHANGED adapterVars
  /\ UNCHANGED <<cancelRequested, started, finished, failed>>

AdapterStep(c) ==
  /\ pc[c] = "adapter"
  /\ A!StartStep
  /\ UNCHANGED sessionVars

AdapterReturns(c) ==
  /\ A!StartReturned
  /\ Goes(c, "adapter", "finishing")
  /\ UNCHANGED <<adapterVars, adapterSet, cancelRequested, started, finished, failed>>

\* Mutant: an exception of the adapter skips the finally block.
RunRaisesThrough(c) ==
  /\ \/ Goes(c, "preparing", "finishing")
     \/ A!StartRaised /\ Goes(c, "adapter", "raised")
  /\ failed' = TRUE
  /\ UNCHANGED <<adapterVars, adapterSet, cancelRequested, started, finished>>

RunRaises(c) ==
  /\ \/ Goes(c, "preparing", "finishing")
     \/ A!StartRaised /\ Goes(c, "adapter", "finishing")
  /\ failed' = TRUE
  /\ UNCHANGED <<adapterVars, adapterSet, cancelRequested, started, finished>>

\* The locked part of the finally block.
Finish(c) ==
  /\ Goes(c, "finishing", "closing")
  /\ adapterSet' = FALSE
  /\ finished' = TRUE
  /\ UNCHANGED <<adapterVars, cancelRequested, started, failed>>

\* broker.close(), which may raise as well.
CloseBroker(c) ==
  /\ Goes(c, "closing", IF failed THEN "raised" ELSE "returned") \/ Goes(c, "closing", "raised")
  /\ UNCHANGED <<adapterVars, adapterSet, cancelRequested, started, finished, failed>>
-----------------------------------------------------------------------------
\* cancel, on any thread and any number of times: only the first request reaches
\* an adapter, and one that finds none is latched for Expose.
Cancel ==
  /\ ~finished
  /\ cancelRequested' = TRUE
  /\ IF adapterSet /\ ~cancelRequested THEN A!Cancel ELSE UNCHANGED adapterVars
  /\ UNCHANGED <<adapterSet, started, finished, failed, pc>>

RunStep(c) ==
  \/ Prepare(c) \/ Expose(c) \/ AdapterStep(c) \/ AdapterReturns(c)
  \/ RunRaises(c) \/ Finish(c) \/ CloseBroker(c)

Next ==
  \/ \E c \in Callbacks : RunAccepted(c) \/ RunRefused(c) \/ RunStep(c)
  \/ Cancel

\* An accepted run is one thread's straight-line code, whose model ends.
Spec == Init /\ [][Next]_vars /\ \A c \in Callbacks : WF_vars(RunStep(c))
-----------------------------------------------------------------------------
(* Properties. *)

\* A cancellation that was latched before the run was sealed, be it before run, while
\* the adapter is resolved, during its constructor or in any tick, is never answered
\* by a run that calls itself completed.
CancelledRunNeverCompletes ==
  [][state' = "Completed" /\ state # "Completed" => ~cancelRequested]_vars

\* An accepted run ends with its thread answered and the session finished, wherever
\* an exception struck.
RunEnds ==
  \A c \in Callbacks :
    (pc[c] = "preparing") ~> (finished /\ pc[c] \in {"returned", "raised"})
=============================================================================

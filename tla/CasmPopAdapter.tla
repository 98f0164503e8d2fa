--------------------------- MODULE CasmPopAdapter ---------------------------
(***************************************************************************)
(* CasmPopAdapter and _ObservationBridge of casmsocial/adapters/runner.py: *)
(* one run of a CasmPop model on the main thread (start) while another     *)
(* thread may cancel it (cancel).  start takes the adapter's lock three    *)
(* times (to start, to publish the model, to seal the run) and cancel can  *)
(* fall between any two of its steps.                                      *)
(*                                                                         *)
(* The model itself is external here: its constructor and its start may    *)
(* return or raise.  MpiRunner puts the collective tick loop in its place, *)
(* and RunSession runs a single process.                                   *)
(***************************************************************************)
EXTENDS Naturals

CONSTANTS
  Collective,   \* the communicator has more than one rank
  Ticks         \* the scheduled length of the run, a number

VARIABLES
  stage,         \* where start is
  sawCancel,     \* start's local variable "cancelled"
  cancelled,     \* _cancelled
  modelSet,      \* _model is not None
  modelSignals,  \* model.cancel() calls; the model's cancel event is set by the first
  bridge,        \* _bridge: "none", "open" or "flushed" (_flushed)
  tick,          \* _tick of the bridge: steps published to the sink
  closes,        \* times the output sink was closed
  succeeded,     \* start's local variable of that name
  flushed,       \* start's local variable of that name
  finished,      \* _finished
  state          \* _state

adapterVars ==
  <<stage, sawCancel, cancelled, modelSet, modelSignals, bridge, tick, closes, succeeded,
    flushed, finished, state>>

Stages ==
  {"pending", "building", "publishing", "running", "flushing", "sealing", "done"}

TypeOK ==
  /\ stage \in Stages
  /\ sawCancel \in BOOLEAN
  /\ cancelled \in BOOLEAN
  /\ modelSet \in BOOLEAN
  /\ modelSignals \in Nat
  /\ bridge \in {"none", "open", "flushed"}
  /\ tick \in 0..Ticks
  /\ closes \in Nat
  /\ succeeded \in BOOLEAN
  /\ flushed \in BOOLEAN
  /\ finished \in BOOLEAN
  /\ state \in {"Pending", "Running", "Completed", "Failed"}

Init ==
  /\ stage = "pending"
  /\ sawCancel = FALSE
  /\ cancelled = FALSE
  /\ modelSet = FALSE
  /\ modelSignals = 0
  /\ bridge = "none"
  /\ tick = 0
  /\ closes = 0
  /\ succeeded = FALSE
  /\ flushed = FALSE
  /\ finished = FALSE
  /\ state = "Pending"
-----------------------------------------------------------------------------
(* start, on the main thread. *)

\* Whether start goes on to construct (and later to start) the model: a single
\* process may skip it, a rank of a collective run must not.
Participates(seen) == ~seen \/ Collective

Start ==
  /\ stage = "pending"
  /\ state' = "Running"
  /\ sawCancel' = cancelled
  /\ IF Participates(cancelled)
     THEN stage' = "building" /\ UNCHANGED succeeded
     ELSE stage' = "flushing" /\ succeeded' = TRUE
  /\ UNCHANGED <<cancelled, modelSet, modelSignals, bridge, tick, closes, flushed, finished>>

Build ==
  /\ stage = "building"
  /\ stage' = "publishing"
  /\ bridge' = "open"
  /\ UNCHANGED <<sawCancel, cancelled, modelSet, modelSignals, tick, closes, succeeded,
                 flushed, finished, state>>

\* Publishing the model re-reads the flag, because cancel() could only latch it
\* while the constructor was running.
PublishModel ==
  /\ stage = "publishing"
  /\ modelSet' = TRUE
  /\ sawCancel' = cancelled
  /\ modelSignals' = IF cancelled /\ Collective THEN modelSignals + 1 ELSE modelSignals
  /\ IF Participates(cancelled)
     THEN stage' = "running" /\ UNCHANGED succeeded
     ELSE stage' = "flushing" /\ succeeded' = TRUE
  /\ UNCHANGED <<cancelled, bridge, tick, closes, flushed, finished, state>>

\* One step of the model ends with the bridge publishing its output tables.
ModelSteps ==
  /\ stage = "running" /\ bridge = "open"
  /\ tick < Ticks
  /\ tick' = tick + 1
  /\ UNCHANGED <<stage, sawCancel, cancelled, modelSet, modelSignals, bridge, closes,
                 succeeded, flushed, finished, state>>

\* model.start() returns: its end event has flushed the bridge, once.
ModelReturns ==
  /\ stage = "running"
  /\ bridge' = "flushed"
  /\ closes' = IF bridge = "flushed" THEN closes ELSE closes + 1
  /\ succeeded' = TRUE
  /\ stage' = "flushing"
  /\ UNCHANGED <<sawCancel, cancelled, modelSet, modelSignals, tick, flushed, finished, state>>

\* The constructor or model.start() raises, the latter before or after its end
\* event closed the sink.
ModelRaises ==
  /\ \/ stage = "building" /\ UNCHANGED <<bridge, closes>>
     \/ stage = "running" /\ UNCHANGED <<bridge, closes>>
     \/ stage = "running" /\ bridge' = "flushed" /\ closes' = closes + 1
  /\ stage' = "flushing"
  /\ UNCHANGED <<sawCancel, cancelled, modelSet, modelSignals, tick, succeeded, flushed,
                 finished, state>>

\* The first half of the finally block: the bridge closes the sink unless its
\* end event already did; without a bridge the sink is closed directly.
Flush ==
  /\ stage = "flushing"
  /\ closes' = IF bridge = "flushed" THEN closes ELSE closes + 1
  /\ bridge' = IF bridge = "none" THEN "none" ELSE "flushed"
  /\ flushed' = TRUE
  /\ stage' = "sealing"
  /\ UNCHANGED <<sawCancel, cancelled, modelSet, modelSignals, tick, succeeded, finished, state>>

FlushRaises ==
  /\ stage = "flushing"
  /\ bridge # "flushed"
  /\ stage' = "sealing"
  /\ UNCHANGED <<sawCancel, cancelled, modelSet, modelSignals, bridge, tick, closes,
                 succeeded, flushed, finished, state>>

Seal ==
  /\ stage = "sealing"
  /\ modelSet' = FALSE
  /\ finished' = TRUE
  /\ state' = IF succeeded /\ flushed /\ ~cancelled THEN "Completed" ELSE "Failed"
  /\ stage' = "done"
  /\ UNCHANGED <<sawCancel, cancelled, modelSignals, bridge, tick, closes, succeeded,
                 flushed>>

\* start returns to its caller, or propagates the exception it met.
StartReturned == stage = "done" /\ succeeded /\ flushed
StartRaised   == stage = "done" /\ ~(succeeded /\ flushed)
-----------------------------------------------------------------------------
(* cancel, on any thread, any number of times. *)

Cancel ==
  /\ IF finished \/ cancelled
     THEN UNCHANGED <<modelSignals, cancelled>>
     ELSE /\ modelSignals' = IF modelSet THEN modelSignals + 1 ELSE modelSignals
          /\ cancelled' = TRUE
  /\ UNCHANGED <<stage, sawCancel, modelSet, bridge, tick, closes, succeeded, flushed,
                 finished, state>>
-----------------------------------------------------------------------------
StartStep ==
  \/ Start \/ Build \/ PublishModel \/ ModelSteps \/ ModelReturns \/ ModelRaises
  \/ Flush \/ FlushRaises \/ Seal

Next == StartStep \/ Cancel

Spec == Init /\ [][Next]_adapterVars
-----------------------------------------------------------------------------
(* Properties. *)

\* A cancellation is never lost between the flag and the model: from the moment
\* the model runs, a cancelled adapter has signalled it, whether cancel() came
\* before start, during the constructor, or while the model was published.
CancelReachesModel == stage = "running" /\ cancelled => modelSignals > 0

\* A single process that is cancelled before the model is published never starts
\* it.
StartsUnlessSkippable ==
  [][stage' = "running" /\ stage # "running" => Participates(cancelled)]_adapterVars

\* A rank of a collective run that reports success has run its model to the end
\* event, cancelled or not: its peers were waiting for it in every collective.
RankParticipates ==
  Collective /\ succeeded => bridge = "flushed"

\* The output sink is closed exactly once by a run that reports success, also
\* when startup was skipped, and never twice.
SinkClosedOnce == closes <= 1 /\ (StartReturned => closes = 1)
=============================================================================

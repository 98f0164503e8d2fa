--------------------------- MODULE RunnerHandoff ----------------------------
(***************************************************************************)
(* _MainThreadRunHandoff of casmsocial/grpc_runner.py: the object through  *)
(* which the control server's threads (Start callbacks and Cancel calls)   *)
(* meet the process main thread, the only thread allowed to touch MPI.     *)
(*                                                                         *)
(* One action is one region the code executes under its lock, or one call  *)
(* it makes after leaving the lock: adapter.cancel() is deliberately made  *)
(* outside the lock, so a thread that claimed the delivery can be          *)
(* overtaken by any other thread before it makes the call.                 *)
(*                                                                         *)
(* The main thread is the most general one that the class allows: it may   *)
(* expose an adapter, complete or shut down at any moment.  MpiRunner      *)
(* restricts it to what _rank0_main really does.                           *)
(***************************************************************************)
EXTENDS Naturals, FiniteSets

CONSTANTS
  Callbacks,    \* threads on which the control server runs submit
  Cancellers,   \* threads on which the control server runs cancel
  Main,         \* the process main thread
  NoRequest     \* None in _request

ASSUME ThreadsAssumption ==
  /\ Main \notin Cancellers
  /\ NoRequest \notin Callbacks

VARIABLES
  request,          \* _request: the callback whose request was recorded
  requestReady,     \* _request_ready event
  completed,        \* _completed event
  adapterSet,       \* _adapter is not None
  cancelRequested,  \* _cancel_requested
  cancelDelivered,  \* _cancel_delivered
  finished,         \* _finished
  error,            \* _error
  submitState,      \* where each callback thread is in submit
  cancelState,      \* what cancel returned to each canceller
  delivering,       \* threads past the lock that are about to call adapter.cancel()
  signals           \* calls of adapter.cancel() made so far (history)

handoffVars ==
  <<request, requestReady, completed, adapterSet, cancelRequested, cancelDelivered,
    finished, error, submitState, cancelState, delivering, signals>>

\* "interrupt" stands for a BaseException that is not an Exception; the control
\* server's callback thread would not catch it and would die without a status.
Errors == {"none", "exception", "interrupt"}
SubmitStates == {"idle", "waiting", "returned", "raised", "died"}
CancelStates == {"idle", "delivering", "true", "false"}

TypeOK ==
  /\ request \in Callbacks \cup {NoRequest}
  /\ requestReady \in BOOLEAN
  /\ completed \in BOOLEAN
  /\ adapterSet \in BOOLEAN
  /\ cancelRequested \in BOOLEAN
  /\ cancelDelivered \in BOOLEAN
  /\ finished \in BOOLEAN
  /\ error \in Errors
  /\ submitState \in [Callbacks -> SubmitStates]
  /\ cancelState \in [Cancellers -> CancelStates]
  /\ delivering \in SUBSET (Cancellers \cup {Main})
  /\ signals \in Nat

Init ==
  /\ request = NoRequest
  /\ requestReady = FALSE
  /\ completed = FALSE
  /\ adapterSet = FALSE
  /\ cancelRequested = FALSE
  /\ cancelDelivered = FALSE
  /\ finished = FALSE
  /\ error = "none"
  /\ submitState = [c \in Callbacks |-> "idle"]
  /\ cancelState = [k \in Cancellers |-> "idle"]
  /\ delivering = {}
  /\ signals = 0
-----------------------------------------------------------------------------
(* Callback threads. *)

\* The exception the callback thread sees for a recorded error.
Raised(e) == IF e = "interrupt" THEN "died" ELSE "raised"

SubmitRefused(c) ==
  /\ submitState[c] = "idle"
  /\ finished \/ request # NoRequest
  /\ submitState' = [submitState EXCEPT ![c] = IF finished THEN Raised(error) ELSE "raised"]
  /\ UNCHANGED <<request, requestReady, completed, adapterSet, cancelRequested,
                 cancelDelivered, finished, error, cancelState, delivering, signals>>

\* Mutant: a second callback replaces the recorded request.
SubmitReplaces(c) ==
  /\ submitState[c] = "idle"
  /\ ~finished
  /\ request' = c
  /\ requestReady' = TRUE
  /\ submitState' = [submitState EXCEPT ![c] = "waiting"]
  /\ UNCHANGED <<completed, adapterSet, cancelRequested, cancelDelivered, finished,
                 error, cancelState, delivering, signals>>

SubmitAccepted(c) ==
  /\ submitState[c] = "idle"
  /\ ~finished /\ request = NoRequest
  /\ request' = c
  /\ requestReady' = TRUE
  /\ submitState' = [submitState EXCEPT ![c] = "waiting"]
  /\ UNCHANGED <<completed, adapterSet, cancelRequested, cancelDelivered, finished,
                 error, cancelState, delivering, signals>>

SubmitEnds(c) ==
  /\ submitState[c] = "waiting"
  /\ completed
  /\ submitState' = [submitState EXCEPT ![c] = IF error = "none" THEN "returned" ELSE Raised(error)]
  /\ UNCHANGED <<request, requestReady, completed, adapterSet, cancelRequested,
                 cancelDelivered, finished, error, cancelState, delivering, signals>>
-----------------------------------------------------------------------------
(* Cancel threads. *)

CancelDeclined(k) ==
  /\ cancelState[k] = "idle"
  /\ finished
  /\ cancelState' = [cancelState EXCEPT ![k] = "false"]
  /\ UNCHANGED <<request, requestReady, completed, adapterSet, cancelRequested,
                 cancelDelivered, finished, error, submitState, delivering, signals>>

\* Mutant: every canceller that finds an adapter delivers.
CancelUnclaimed(k) ==
  /\ cancelState[k] = "idle"
  /\ ~finished
  /\ cancelRequested' = TRUE
  /\ IF adapterSet
     THEN /\ cancelDelivered' = TRUE
          /\ delivering' = delivering \cup {k}
          /\ cancelState' = [cancelState EXCEPT ![k] = "delivering"]
     ELSE /\ cancelState' = [cancelState EXCEPT ![k] = "true"]
          /\ UNCHANGED <<cancelDelivered, delivering>>
  /\ UNCHANGED <<request, requestReady, completed, adapterSet, finished, error,
                 submitState, signals>>

\* The delivery is claimed only by the first canceller that finds an adapter.
CancelLatched(k) ==
  /\ cancelState[k] = "idle"
  /\ ~finished
  /\ cancelRequested' = TRUE
  /\ IF adapterSet /\ ~cancelDelivered
     THEN /\ cancelDelivered' = TRUE
          /\ delivering' = delivering \cup {k}
          /\ cancelState' = [cancelState EXCEPT ![k] = "delivering"]
     ELSE /\ cancelState' = [cancelState EXCEPT ![k] = "true"]
          /\ UNCHANGED <<cancelDelivered, delivering>>
  /\ UNCHANGED <<request, requestReady, completed, adapterSet, finished, error,
                 submitState, signals>>

\* Mutant: the claimed delivery is dropped when the run has finished meanwhile.
CancelGivesUp(k) ==
  /\ k \in delivering
  /\ delivering' = delivering \ {k}
  /\ signals' = IF finished THEN signals ELSE signals + 1
  /\ cancelState' = [cancelState EXCEPT ![k] = "true"]
  /\ UNCHANGED <<request, requestReady, completed, adapterSet, cancelRequested,
                 cancelDelivered, finished, error, submitState>>

\* adapter.cancel(), outside the lock, on the adapter captured under it.
CancelDelivers(k) ==
  /\ k \in delivering
  /\ delivering' = delivering \ {k}
  /\ signals' = signals + 1
  /\ cancelState' = [cancelState EXCEPT ![k] = "true"]
  /\ UNCHANGED <<request, requestReady, completed, adapterSet, cancelRequested,
                 cancelDelivered, finished, error, submitState>>
-----------------------------------------------------------------------------
(* The main thread. *)

\* wait_for_request returns a request; it changes nothing in the handoff.
RequestAvailable == requestReady /\ error = "none"

\* Mutant: an adapter that is exposed late does not learn of an earlier cancel.
SetAdapterForgets ==
  /\ ~finished /\ ~adapterSet
  /\ adapterSet' = TRUE
  /\ UNCHANGED <<request, requestReady, completed, cancelRequested, cancelDelivered,
                 finished, error, submitState, cancelState, delivering, signals>>

\* Mutant: an adapter can be exposed after the run was decided.
SetAdapterLate ==
  /\ ~adapterSet
  /\ adapterSet' = TRUE
  /\ IF cancelRequested /\ ~cancelDelivered
     THEN /\ cancelDelivered' = TRUE
          /\ delivering' = delivering \cup {Main}
     ELSE UNCHANGED <<cancelDelivered, delivering>>
  /\ UNCHANGED <<request, requestReady, completed, cancelRequested, finished, error,
                 submitState, cancelState, signals>>

SetAdapter ==
  /\ ~finished /\ ~adapterSet
  /\ adapterSet' = TRUE
  /\ IF cancelRequested /\ ~cancelDelivered
     THEN /\ cancelDelivered' = TRUE
          /\ delivering' = delivering \cup {Main}
     ELSE UNCHANGED <<cancelDelivered, delivering>>
  /\ UNCHANGED <<request, requestReady, completed, cancelRequested, finished, error,
                 submitState, cancelState, signals>>

SetAdapterDelivers ==
  /\ Main \in delivering
  /\ delivering' = delivering \ {Main}
  /\ signals' = signals + 1
  /\ UNCHANGED <<request, requestReady, completed, adapterSet, cancelRequested,
                 cancelDelivered, finished, error, submitState, cancelState>>

\* _finish_locked: a process interrupt is stored as an ordinary exception.
Translated(e) == IF e = "interrupt" THEN "exception" ELSE e

\* Mutant: the waiting callback is not woken.
FinishSilently(e) ==
  /\ adapterSet' = FALSE
  /\ error' = Translated(e)
  /\ finished' = TRUE
  /\ requestReady' = TRUE
  /\ UNCHANGED <<request, completed, cancelRequested, cancelDelivered, submitState,
                 cancelState, delivering, signals>>

FinishLocked(e) ==
  /\ adapterSet' = FALSE
  /\ error' = Translated(e)
  /\ finished' = TRUE
  /\ requestReady' = TRUE
  /\ completed' = TRUE
  /\ UNCHANGED <<request, cancelRequested, cancelDelivered, submitState, cancelState,
                 delivering, signals>>

\* Mutant: completing overwrites an outcome that a shutdown has decided.
CompleteOverwrites ==
  /\ Main \notin delivering
  /\ request # NoRequest
  /\ FinishLocked("none")

\* The main thread is sequential: it cannot finish the run from within set_adapter.
Complete ==
  /\ Main \notin delivering
  /\ request # NoRequest /\ ~finished
  /\ FinishLocked("none")

Shutdown(e) ==
  /\ Main \notin delivering
  /\ ~finished
  /\ FinishLocked(e)
-----------------------------------------------------------------------------
Callback(c) == SubmitRefused(c) \/ SubmitAccepted(c) \/ SubmitEnds(c)

Canceller(k) == CancelDeclined(k) \/ CancelLatched(k) \/ CancelDelivers(k)

MainThread ==
  \/ SetAdapter
  \/ SetAdapterDelivers
  \/ Complete
  \/ \E e \in Errors \ {"none"} : Shutdown(e)

Next ==
  \/ \E c \in Callbacks : Callback(c)
  \/ \E k \in Cancellers : Canceller(k)
  \/ MainThread

Spec == Init /\ [][Next]_handoffVars

(* A thread that has left the lock runs on: the callback woken by _completed *)
(* reads the outcome, and whoever claimed the delivery makes the call.  No   *)
(* fairness is assumed of the control server's clients or of the moment at   *)
(* which the main thread finishes.                                           *)
Fairness ==
  /\ \A c \in Callbacks : WF_handoffVars(SubmitEnds(c))
  /\ \A k \in Cancellers : WF_handoffVars(CancelDelivers(k))
  /\ WF_handoffVars(SetAdapterDelivers)

FairSpec == Spec /\ Fairness
-----------------------------------------------------------------------------
(* Properties. *)

\* The adapter is signalled at most once, whichever of set_adapter and several
\* concurrent cancel calls get to it first ("at most once", "exactly once" in
\* the class's docstrings): the calls made and the calls in flight together.
SignalledAtMostOnce == signals + Cardinality(delivering) <= 1

\* No cancellation is lost between a cancel that found no adapter and the
\* set_adapter that exposes one: whenever an adapter is exposed and some cancel
\* was latched, its delivery has been made or is in the hands of some thread.
CancelNotLost ==
  adapterSet /\ cancelRequested => signals + Cardinality(delivering) = 1

\* A cancel call that was told True had its request latched while the run was
\* open, so at most the run's outcome can overtake it; one told False came after
\* the outcome and can be answered from it.
CancelAnswersAreHonest ==
  \A k \in Cancellers :
    /\ cancelState[k] \in {"true", "delivering"} => cancelRequested
    /\ cancelState[k] = "false" => finished

\* The callback is told exactly the outcome of the run it owns: only the owner
\* can return normally, and only when the run finished without an error.
OnlyOwnerReturns ==
  \A c \in Callbacks :
    /\ submitState[c] \in {"waiting", "returned"} => request = c
    /\ submitState[c] = "returned" => finished /\ error = "none"
    /\ submitState[c] # "died"

\* Once the run is decided nothing reopens it: neither a late submit, nor a late
\* shutdown, nor a late set_adapter changes the outcome or exposes an adapter.
OutcomeIsFinal ==
  [][finished => /\ finished' /\ error' = error /\ request' = request
                 /\ ~adapterSet']_handoffVars

\* The accepted callback is answered once the run is decided, also when the
\* launcher shuts the handoff down before or while the callback submits.
OwnerIsAnswered ==
  \A c \in Callbacks :
    (submitState[c] = "waiting" /\ finished) ~> (submitState[c] \in {"returned", "raised"})

\* A delivery that was claimed is made, even if the run finishes in between.
ClaimedSignalArrives == cancelDelivered ~> (signals = 1)

\* What a callback thread has told its client.
Told(s) == IF s = "idle" THEN "idle" ELSE IF s = "waiting" THEN "pending"
           ELSE IF s = "returned" THEN "ok" ELSE "failed"

\* The handoff keeps the abstract promise made to the control plane.
Promise == INSTANCE RunPromise WITH
  NoOwner <- NoRequest,
  owner   <- request,
  outcome <- IF ~finished THEN "open" ELSE IF error = "none" THEN "ok" ELSE "failed",
  verdict <- [c \in Callbacks |-> Told(submitState[c])],
  owed    <- cancelDelivered,
  given   <- signals

KeepsPromise == Promise!Spec
=============================================================================

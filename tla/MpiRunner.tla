----------------------------- MODULE MpiRunner ------------------------------
(***************************************************************************)
(* The MPI launcher of casmsocial/grpc_runner.py: main, start_runner,      *)
(* _rank0_main, _run_on_rank, _worker_main and the collective cancel check *)
(* of CasmPop.step, composed from                                          *)
(*   - RunnerHandoff: the control server's threads and the main thread;    *)
(*   - CasmPopAdapter: rank 0's run, which other threads may cancel.       *)
(*                                                                         *)
(* Rank 0 broadcasts START (or ABORT) once; every rank then joins the same *)
(* collectives in the same order: 0 while its model is constructed, t for  *)
(* the cancel vote of tick t, Ticks + 1 for the barrier after the model    *)
(* has flushed its output.  A collective is left only when every rank has  *)
(* joined it; comm.Abort ends every process at once (MPI is external).     *)
(*                                                                         *)
(* Anything may raise: the actions named ...Raises and RootRaises.         *)
(* Interrupts are modelled inside rank 0's try block and in a worker; one  *)
(* that strikes rank 0's own cleanup code is not.                          *)
(***************************************************************************)
EXTENDS Naturals, Sequences, FiniteSets

CONSTANTS
  Callbacks, Cancellers, Main, NoRequest,   \* see RunnerHandoff
  Ticks,      \* see CasmPopAdapter
  Workers,    \* the nonzero ranks; none in a single-process run
  Root        \* rank 0

ASSUME RunnerAssumption ==
  /\ Root \notin Workers
  /\ Main \notin Cancellers
  /\ NoRequest \notin Callbacks
  /\ Ticks \in Nat

Ranks == Workers \cup {Root}
Construction == 0
FinalBarrier == Ticks + 1
Collectives == 0..(Ticks + 1)

VARIABLES
  request, requestReady, completed, adapterSet, cancelRequested, cancelDelivered,
  finished, error, submitState, cancelState, delivering, signals

VARIABLES
  stage, sawCancel, cancelled, modelSet, modelSignals, bridge, tick, closes,
  succeeded, flushed, adapterFinished, state

VARIABLES
  control,        \* the control server: "down", "up" or "stopped"
  rootPc,         \* where rank 0's main thread is
  rootError,      \* error in _rank0_main and in main
  dispatched,     \* dispatched in _rank0_main
  abortRequired,  \* abort_required in _rank0_main
  brokerClosed,   \* broker.close() of _rank0_main or main has succeeded
  inbox,          \* the broadcasts of rank 0 that have reached each worker
  workerPc,       \* where each worker's main thread is
  workerTick,     \* the ticks each worker has executed
  joined,         \* the collectives each rank has joined
  stopVotes,      \* the ticks for which some rank voted to stop
  aborted,        \* comm.Abort was called: no process is left
  votedAtSignal   \* ticks rank 0 had voted on when its model was first signalled (history)

H == INSTANCE RunnerHandoff
A == INSTANCE CasmPopAdapter WITH Collective <- Workers # {}, finished <- adapterFinished

handoffVars ==
  <<request, requestReady, completed, adapterSet, cancelRequested, cancelDelivered,
    finished, error, submitState, cancelState, delivering, signals>>
adapterVars ==
  <<stage, sawCancel, cancelled, modelSet, modelSignals, bridge, tick, closes,
    succeeded, flushed, adapterFinished, state>>
rootVars == <<control, rootPc, rootError, dispatched, abortRequired, brokerClosed>>
workerVars == <<workerPc, workerTick>>
mpiVars == <<inbox, joined, stopVotes, aborted>>

vars == <<handoffVars, adapterVars, rootVars, workerVars, mpiVars, votedAtSignal>>

RootPcs ==
  {"launch", "listen", "launchFailed", "launchClose", "launchRelease",
   "waiting", "preparing", "dispatching", "resolving", "exposing", "relaying", "adapter",
   "barrier", "releasing", "closing", "answering", "aborting", "serving", "stopping", "exited"}
WorkerPcs == {"bcast", "received", "building", "running", "ending", "barrier", "exited"}

TypeOK ==
  /\ H!TypeOK
  /\ A!TypeOK
  /\ control \in {"down", "up", "stopped"}
  /\ rootPc \in RootPcs
  /\ rootError \in H!Errors
  /\ dispatched \in BOOLEAN
  /\ abortRequired \in BOOLEAN
  /\ brokerClosed \in BOOLEAN
  /\ inbox \in [Workers -> Seq({"start", "abort"})]
  /\ workerPc \in [Workers -> WorkerPcs]
  /\ workerTick \in [Workers -> 0..Ticks]
  /\ joined \in [Ranks -> SUBSET Collectives]
  /\ stopVotes \in SUBSET (1..Ticks)
  /\ aborted \in BOOLEAN
  /\ votedAtSignal \in 0..Ticks

Init ==
  /\ H!Init
  /\ A!Init
  /\ control = "down"
  /\ rootPc = "launch"
  /\ rootError = "none"
  /\ dispatched = FALSE
  /\ abortRequired = FALSE
  /\ brokerClosed = FALSE
  /\ inbox = [w \in Workers |-> <<>>]
  /\ workerPc = [w \in Workers |-> "bcast"]
  /\ workerTick = [w \in Workers |-> 0]
  /\ joined = [r \in Ranks |-> {}]
  /\ stopVotes = {}
  /\ aborted = FALSE
  /\ votedAtSignal = 0
-----------------------------------------------------------------------------
(* MPI. *)

Join(r, c) == joined' = [joined EXCEPT ![r] = @ \cup {c}]
Released(c) == \A r \in Ranks : c \in joined[r]

\* A broadcast that succeeds on rank 0 reaches every worker; one that fails may
\* still have reached some of them.
Broadcast(kind, reached) ==
  inbox' = [w \in Workers |-> IF w \in reached THEN Append(inbox[w], kind) ELSE inbox[w]]

TickOf(r) == IF r = Root THEN tick ELSE workerTick[r]
-----------------------------------------------------------------------------
(* Rank 0's launch: the control server first, then the Flight server and the *)
(* manifest.  Requests can arrive from the moment the control server is up.  *)

OpenControl ==
  /\ rootPc = "launch"
  /\ control' = "up"
  /\ rootPc' = "listen"
  /\ UNCHANGED <<handoffVars, adapterVars, rootError, dispatched, abortRequired,
                 brokerClosed, workerVars, mpiVars>>

OpenFlight ==
  /\ rootPc = "listen"
  /\ rootPc' = "waiting"
  /\ UNCHANGED <<handoffVars, adapterVars, control, rootError, dispatched, abortRequired,
                 brokerClosed, workerVars, mpiVars>>

LaunchRaises(e) ==
  /\ rootPc \in {"launch", "listen"}
  /\ control' = IF control = "up" THEN "stopped" ELSE control
  /\ rootError' = e
  /\ rootPc' = "launchFailed"
  /\ UNCHANGED <<handoffVars, adapterVars, dispatched, abortRequired, brokerClosed,
                 workerVars, mpiVars>>

LaunchShutdown ==
  /\ rootPc = "launchFailed"
  /\ H!Shutdown(rootError)
  /\ rootPc' = "launchClose"
  /\ UNCHANGED <<adapterVars, control, rootError, dispatched, abortRequired, brokerClosed,
                 workerVars, mpiVars>>

\* The workers are released whether or not the broker could be closed.
LaunchClose ==
  /\ rootPc = "launchClose"
  /\ brokerClosed' \in BOOLEAN
  /\ rootPc' = "launchRelease"
  /\ UNCHANGED <<handoffVars, adapterVars, control, rootError, dispatched, abortRequired,
                 workerVars, mpiVars>>

\* _release_waiting_workers, which aborts the job when its broadcast fails.
ReleaseWorkers(next) ==
  /\ \/ /\ Broadcast("abort", Workers)
        /\ rootPc' = next
        /\ UNCHANGED aborted
     \/ /\ Workers # {}
        /\ \E reached \in SUBSET Workers : Broadcast("abort", reached)
        /\ aborted' = TRUE
        /\ UNCHANGED rootPc
  /\ UNCHANGED <<handoffVars, adapterVars, control, rootError, dispatched, abortRequired,
                 brokerClosed, workerVars, joined, stopVotes>>

LaunchRelease == rootPc = "launchRelease" /\ ReleaseWorkers("exited")
-----------------------------------------------------------------------------
(* Rank 0's run, up to the point where every rank is in it. *)

RootGoes(from, to) ==
  /\ rootPc = from
  /\ rootPc' = to
  /\ UNCHANGED <<control, rootError, dispatched, abortRequired, brokerClosed>>

TakeRequest ==
  /\ H!RequestAvailable
  /\ RootGoes("waiting", "preparing")
  /\ UNCHANGED <<handoffVars, adapterVars, workerVars, mpiVars>>

Prepare ==
  /\ RootGoes("preparing", IF Workers = {} THEN "resolving" ELSE "dispatching")
  /\ UNCHANGED <<handoffVars, adapterVars, workerVars, mpiVars>>

\* dispatched is set before the broadcast: a broadcast that fails half way must
\* not be followed by a second one.
Dispatch ==
  /\ rootPc = "dispatching"
  /\ dispatched' = TRUE
  /\ \/ /\ Broadcast("start", Workers)
        /\ rootPc' = "resolving"
        /\ UNCHANGED <<rootError, abortRequired>>
     \/ /\ \E reached \in SUBSET Workers : Broadcast("start", reached)
        /\ rootError' = "exception"
        /\ abortRequired' = TRUE
        /\ rootPc' = "closing"
  /\ UNCHANGED <<handoffVars, adapterVars, control, brokerClosed, workerVars, joined,
                 stopVotes, aborted>>

Resolve ==
  /\ RootGoes("resolving", "exposing")
  /\ UNCHANGED <<handoffVars, adapterVars, workerVars, mpiVars>>

Expose ==
  /\ H!SetAdapter
  /\ RootGoes("exposing", IF Main \in delivering' THEN "relaying" ELSE "adapter")
  /\ UNCHANGED <<adapterVars, workerVars, mpiVars>>

Relay ==
  /\ H!SetAdapterDelivers
  /\ A!Cancel
  /\ RootGoes("relaying", "adapter")
  /\ UNCHANGED <<workerVars, mpiVars>>
-----------------------------------------------------------------------------
(* Rank 0 inside adapter.start(). *)

RootInAdapter ==
  /\ rootPc = "adapter"
  /\ UNCHANGED <<handoffVars, rootVars, workerVars, inbox, aborted>>

RootLocal ==
  /\ RootInAdapter
  /\ A!Start \/ A!PublishModel \/ A!ModelRaises \/ A!Flush \/ A!FlushRaises \/ A!Seal
  /\ UNCHANGED <<joined, stopVotes>>

RootJoinsConstruction ==
  /\ RootInAdapter
  /\ stage = "building" /\ Construction \notin joined[Root]
  /\ Join(Root, Construction)
  /\ UNCHANGED <<adapterVars, stopVotes>>

RootBuilds ==
  /\ RootInAdapter
  /\ Released(Construction)
  /\ A!Build
  /\ UNCHANGED <<joined, stopVotes>>

\* Mutant: the vote is taken without reading the cancel event.
RootVotesBlindly ==
  /\ RootInAdapter
  /\ stage = "running"
  /\ tick < Ticks /\ tick + 1 \notin joined[Root]
  /\ Join(Root, tick + 1)
  /\ UNCHANGED <<adapterVars, stopVotes>>

\* The cancel vote at the top of CasmPop.step: only rank 0's model is ever
\* signalled, and the event is read once per tick.
RootVotes ==
  /\ RootInAdapter
  /\ stage = "running"
  /\ tick < Ticks /\ tick + 1 \notin joined[Root]
  /\ Join(Root, tick + 1)
  /\ stopVotes' = IF modelSignals > 0 THEN stopVotes \cup {tick + 1} ELSE stopVotes
  /\ UNCHANGED adapterVars

\* Mutant: rank 0 does not wait for the other votes.
RootStepsAhead ==
  /\ RootInAdapter
  /\ tick + 1 \in joined[Root] /\ tick + 1 \notin stopVotes
  /\ A!ModelSteps
  /\ UNCHANGED <<joined, stopVotes>>

RootSteps ==
  /\ RootInAdapter
  /\ tick + 1 \in joined[Root] /\ Released(tick + 1) /\ tick + 1 \notin stopVotes
  /\ A!ModelSteps
  /\ UNCHANGED <<joined, stopVotes>>

\* The model ends after its last tick, or at the tick that was voted down.
AtEnd(t) == t = Ticks \/ (t + 1 \in stopVotes /\ Released(t + 1))

RootEnds ==
  /\ RootInAdapter
  /\ AtEnd(tick)
  /\ A!ModelReturns
  /\ UNCHANGED <<joined, stopVotes>>

\* Mutant: rank 0 does not wait for the workers at the end.
RootLeavesEarly ==
  /\ A!StartReturned
  /\ RootGoes("adapter", "closing")
  /\ UNCHANGED <<handoffVars, adapterVars, workerVars, mpiVars>>

RootLeavesAdapter ==
  /\ A!StartReturned
  /\ RootGoes("adapter", IF Workers = {} THEN "closing" ELSE "barrier")
  /\ UNCHANGED <<handoffVars, adapterVars, workerVars, mpiVars>>

RootJoinsBarrier ==
  /\ rootPc = "barrier" /\ FinalBarrier \notin joined[Root]
  /\ Join(Root, FinalBarrier)
  /\ UNCHANGED <<handoffVars, adapterVars, rootVars, workerVars, inbox, stopVotes, aborted>>

RootLeavesBarrier ==
  /\ Released(FinalBarrier)
  /\ RootGoes("barrier", "closing")
  /\ UNCHANGED <<handoffVars, adapterVars, workerVars, mpiVars>>
-----------------------------------------------------------------------------
(* Rank 0's except and finally clauses. *)

\* Mutant: a failure before the dispatch does not release the workers.
RootRaisesAlone(e) ==
  /\ \/ rootPc \in {"waiting", "preparing", "resolving", "exposing", "barrier"}
     \/ rootPc = "adapter" /\ A!StartRaised
  /\ rootError' = e
  /\ abortRequired' = dispatched
  /\ rootPc' = "closing"
  /\ UNCHANGED <<handoffVars, adapterVars, control, dispatched, brokerClosed, workerVars,
                 mpiVars>>

\* Inside the try block only a wait for another party is left to an interrupt;
\* the other statements may raise by themselves.
RootRaises(e) ==
  /\ \/ rootPc \in {"waiting", "preparing", "resolving", "exposing", "barrier"}
     \/ rootPc = "adapter" /\ A!StartRaised
  /\ rootError' = e
  /\ abortRequired' = dispatched
  /\ rootPc' = IF dispatched THEN "closing" ELSE "releasing"
  /\ UNCHANGED <<handoffVars, adapterVars, control, dispatched, brokerClosed, workerVars,
                 mpiVars>>

Release == rootPc = "releasing" /\ ReleaseWorkers("closing")

CloseBroker ==
  /\ rootPc = "closing"
  /\ \/ brokerClosed' = TRUE /\ UNCHANGED rootError
     \/ /\ rootError' = IF rootError = "none" THEN "exception" ELSE rootError
        /\ UNCHANGED brokerClosed
  /\ rootPc' = "answering"
  /\ UNCHANGED <<handoffVars, adapterVars, control, dispatched, abortRequired, workerVars,
                 mpiVars>>

AnswerCallback ==
  /\ rootPc = "answering"
  /\ IF rootError = "none" THEN H!Complete ELSE H!Shutdown(rootError)
  /\ rootPc' = IF abortRequired THEN "aborting"
               ELSE IF rootError = "interrupt" THEN "stopping" ELSE "serving"
  /\ UNCHANGED <<adapterVars, control, rootError, dispatched, abortRequired, brokerClosed,
                 workerVars, mpiVars>>

RootAborts ==
  /\ rootPc = "aborting"
  /\ aborted' = TRUE
  /\ UNCHANGED <<handoffVars, adapterVars, rootVars, workerVars, inbox, joined, stopVotes>>

\* The supervisor stops the process, or an interrupt already did.
StopServing ==
  /\ rootPc \in {"serving", "stopping"}
  /\ control' = "stopped"
  /\ rootPc' = "exited"
  /\ UNCHANGED <<handoffVars, adapterVars, rootError, dispatched, abortRequired,
                 brokerClosed, workerVars, mpiVars>>
-----------------------------------------------------------------------------
(* Workers.  A worker's adapter has no observer and is never cancelled. *)

WorkerGoes(w, from, to) ==
  /\ workerPc[w] = from
  /\ workerPc' = [workerPc EXCEPT ![w] = to]
  /\ UNCHANGED <<handoffVars, adapterVars, rootVars, inbox, aborted>>

WorkerReceives(w) ==
  /\ inbox[w] # <<>>
  /\ WorkerGoes(w, "bcast", IF Head(inbox[w]) = "start" THEN "received" ELSE "exited")
  /\ UNCHANGED <<workerTick, joined, stopVotes>>

WorkerJoinsConstruction(w) ==
  /\ WorkerGoes(w, "received", "building")
  /\ Join(w, Construction)
  /\ UNCHANGED <<workerTick, stopVotes>>

WorkerBuilds(w) ==
  /\ Released(Construction)
  /\ WorkerGoes(w, "building", "running")
  /\ UNCHANGED <<workerTick, joined, stopVotes>>

WorkerVotes(w) ==
  /\ workerTick[w] < Ticks /\ workerTick[w] + 1 \notin joined[w]
  /\ WorkerGoes(w, "running", "running")
  /\ Join(w, workerTick[w] + 1)
  /\ UNCHANGED <<workerTick, stopVotes>>

WorkerSteps(w) ==
  /\ workerTick[w] < Ticks
  /\ Released(workerTick[w] + 1) /\ workerTick[w] + 1 \notin stopVotes
  /\ WorkerGoes(w, "running", "running")
  /\ workerTick' = [workerTick EXCEPT ![w] = @ + 1]
  /\ UNCHANGED <<joined, stopVotes>>

WorkerEnds(w) ==
  /\ AtEnd(workerTick[w])
  /\ WorkerGoes(w, "running", "ending")
  /\ UNCHANGED <<workerTick, joined, stopVotes>>

\* The worker's output is written before it joins the barrier.
WorkerJoinsBarrier(w) ==
  /\ WorkerGoes(w, "ending", "barrier")
  /\ Join(w, FinalBarrier)
  /\ UNCHANGED <<workerTick, stopVotes>>

WorkerExits(w) ==
  /\ Released(FinalBarrier)
  /\ WorkerGoes(w, "barrier", "exited")
  /\ UNCHANGED <<workerTick, joined, stopVotes>>

\* Any exception in a worker ends the whole job.
WorkerRaises(w) ==
  /\ workerPc[w] # "exited"
  /\ aborted' = TRUE
  /\ UNCHANGED <<handoffVars, adapterVars, rootVars, workerVars, inbox, joined, stopVotes>>
-----------------------------------------------------------------------------
(* Control server threads on rank 0: new calls arrive while the server is up. *)

NewCall ==
  /\ control = "up"
  /\ \/ \E c \in Callbacks : H!SubmitAccepted(c) \/ H!SubmitRefused(c)
     \/ \E k \in Cancellers : H!CancelLatched(k) \/ H!CancelDeclined(k)
  /\ UNCHANGED <<adapterVars, rootVars, workerVars, mpiVars>>

CallbackEnds(c) ==
  /\ H!SubmitEnds(c)
  /\ UNCHANGED <<adapterVars, rootVars, workerVars, mpiVars>>

CancelReaches(k) ==
  /\ H!CancelDelivers(k)
  /\ A!Cancel
  /\ UNCHANGED <<rootVars, workerVars, mpiVars>>
-----------------------------------------------------------------------------
RootStep ==
  \/ OpenControl \/ OpenFlight \/ LaunchShutdown \/ LaunchClose \/ LaunchRelease
  \/ TakeRequest \/ Prepare \/ Dispatch \/ Resolve \/ Expose \/ Relay
  \/ RootLocal \/ RootJoinsConstruction \/ RootBuilds \/ RootVotes \/ RootSteps \/ RootEnds
  \/ RootLeavesAdapter \/ RootJoinsBarrier \/ RootLeavesBarrier
  \/ (rootPc = "adapter" /\ RootRaises("exception"))
  \/ Release \/ CloseBroker \/ AnswerCallback \/ RootAborts
  \/ (rootPc = "stopping" /\ StopServing)

WorkerStep(w) ==
  \/ WorkerReceives(w) \/ WorkerJoinsConstruction(w) \/ WorkerBuilds(w) \/ WorkerVotes(w)
  \/ WorkerSteps(w) \/ WorkerEnds(w) \/ WorkerJoinsBarrier(w) \/ WorkerExits(w)

Environment ==
  \/ NewCall
  \/ StopServing
  \/ \E e \in {"exception", "interrupt"} : LaunchRaises(e) \/ RootRaises(e)
  \/ \E w \in Workers : WorkerRaises(w)

NoteSignal ==
  votedAtSignal' = IF modelSignals = 0 /\ modelSignals' > 0
                   THEN Cardinality(joined[Root] \cap (1..Ticks)) ELSE votedAtSignal

Live(action) == ~aborted /\ action /\ NoteSignal

Next ==
  \/ Live(RootStep)
  \/ \E w \in Workers : Live(WorkerStep(w))
  \/ \E c \in Callbacks : Live(CallbackEnds(c))
  \/ \E k \in Cancellers : Live(CancelReaches(k))
  \/ Live(Environment)

Spec == Init /\ [][Next]_vars

(* Every process and thread that can go on does; nothing is assumed of the   *)
(* control server's clients, of failures, or of the supervisor's stop.       *)
Fairness ==
  /\ WF_vars(Live(RootStep))
  /\ \A w \in Workers : WF_vars(Live(WorkerStep(w)))
  /\ \A c \in Callbacks : WF_vars(Live(CallbackEnds(c)))
  /\ \A k \in Cancellers : WF_vars(Live(CancelReaches(k)))

FairSpec == Spec /\ Fairness
-----------------------------------------------------------------------------
(* Properties. *)

\* "Rank 0's control callback must not report a terminal state while workers are
\* still executing or flushing their model output": a callback that returned
\* normally finds every rank past its last tick and in the final barrier, the
\* same number of ticks executed everywhere, and the observation stream closed.
SuccessMeansEveryRankIsDone ==
  /\ TypeOK
  /\ (\E c \in Callbacks : submitState[c] = "returned") =>
       /\ brokerClosed /\ closes = 1
       /\ \A w \in Workers : /\ workerPc[w] \in {"barrier", "exited"}
                             /\ workerTick[w] = tick

\* The ranks go in lock step: a failed START is never followed by an ABORT that some
\* worker would take for a different collective, two workers never act on different
\* messages, nobody runs ahead of a tick that another rank has not voted on, and all
\* ranks that end, end at one tick.
RanksStayTogether ==
  /\ \A v, w \in Workers :
       /\ Len(inbox[v]) <= 1
       /\ inbox[v] # <<>> /\ inbox[w] # <<>> => inbox[v] = inbox[w]
  /\ \A r, s \in Ranks :
       /\ TickOf(r) <= TickOf(s) + 1
       /\ FinalBarrier \in joined[r] /\ FinalBarrier \in joined[s] => TickOf(r) = TickOf(s)

\* "cancellation latency is at most one tick": once rank 0's model is signalled,
\* no rank executes a tick that rank 0 had not already voted to go on with.
CancelStopsEveryRank ==
  modelSignals > 0 => \A r \in Ranks : TickOf(r) <= votedAtSignal

\* Once the run's outcome is known, or a callback was accepted, every worker ends
\* and the callback is answered, unless the whole job was aborted: no rank stays
\* blocked in a broadcast, a vote or a barrier that another rank left out.
Settled ==
  aborted \/ /\ \A w \in Workers : workerPc[w] = "exited"
             /\ \A c \in Callbacks : submitState[c] # "waiting"
RunSettles == (request # NoRequest \/ finished \/ rootPc = "launchFailed") ~> Settled

=============================================================================

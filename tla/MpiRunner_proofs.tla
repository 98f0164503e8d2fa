------------------------- MODULE MpiRunner_proofs --------------------------
(***************************************************************************)
(* Proofs about the adapter and the two launchers that drive it, for any   *)
(* number of workers, callback and cancel threads, and runs of any length: *)
(* first CasmPopAdapter alone, then MpiRunner, last RunSession.            *)
(*                                                                         *)
(* The handoff and the adapter keep inside MpiRunner what they promise     *)
(* alone: every step of the launcher is a step of RunnerHandoff and a step *)
(* of CasmPopAdapter, or leaves their variables alone, so their invariants *)
(* carry over: the handoff's from its own module (HP!IInv), the adapter's  *)
(* from the first part here, where it is shown for any use (AdapterInv).   *)
(* What the launcher adds is the rest of IInv:                             *)
(*   - OutcomeInv: what rank 0 has behind it at each of its places;        *)
(*   - InboxInv: rank 0 broadcasts one message in its life;                *)
(*   - LockStepInv: a tick that some rank has executed was voted on by     *)
(*     every rank and by none against, and a rank has joined nothing       *)
(*     beyond its next tick but the final barrier;                         *)
(*   - SignalInv: every vote that rank 0 cast after its model was          *)
(*     signalled is a vote to stop.                                        *)
(***************************************************************************)
EXTENDS MpiRunner, FiniteSetTheorems, TLAPS

HP == INSTANCE RunnerHandoff_proofs
-----------------------------------------------------------------------------
(* The adapter.  What start knows at each stage is not in its variables'   *)
(* types: the sink is open until the end event or the finally block has    *)
(* closed it, the model is published exactly while it may be running, and  *)
(* only a single process reaches the finally block without the end event.  *)

\* Who has closed the sink by the time start is at its stage.
SinkInv ==
  /\ closes \in {0, 1}
  /\ stage \in {"pending", "building"} => bridge = "none" /\ closes = 0
  /\ stage \in {"publishing", "running"} => bridge = "open" /\ closes = 0
  /\ stage = "flushing" => closes = IF bridge = "flushed" THEN 1 ELSE 0
  /\ stage \in {"sealing", "done"} => (flushed => closes = 1)
  /\ stage \notin {"sealing", "done"} => flushed = FALSE

\* A model that runs was published, and has been signalled if the adapter is
\* cancelled.
PublishInv ==
  /\ modelSignals \in Nat
  /\ stage = "running" => modelSet = TRUE /\ adapterFinished = FALSE
  /\ stage = "running" /\ cancelled => modelSignals > 0

\* Only the model's return makes a rank of a collective run successful.
ParticipationInv ==
  /\ succeeded => stage \in {"flushing", "sealing", "done"}
  /\ Workers # {} /\ succeeded => bridge = "flushed"

\* The run is sealed last.
SealInv == adapterFinished <=> stage = "done"

AdapterInv == /\ stage \in A!Stages
              /\ SinkInv /\ PublishInv /\ ParticipationInv /\ SealInv

LEMMA AdapterInit == A!Init => AdapterInv
  BY DEF A!Init, AdapterInv, A!Stages, SinkInv, PublishInv, ParticipationInv, SealInv

LEMMA AdapterNext == AdapterInv /\ [A!Next]_A!adapterVars => AdapterInv'
<1> SUFFICES ASSUME AdapterInv, [A!Next]_A!adapterVars PROVE AdapterInv'
  OBVIOUS
<1> USE DEF AdapterInv, A!Stages, SinkInv, PublishInv, ParticipationInv, SealInv
<1>1. CASE A!Start
  BY <1>1 DEF A!Start, A!Participates
<1>2. CASE A!Build
  BY <1>2 DEF A!Build
<1>3. CASE A!PublishModel
  BY <1>3 DEF A!PublishModel, A!Participates
<1>4. CASE A!ModelSteps
  BY <1>4 DEF A!ModelSteps
<1>5. CASE A!ModelReturns
  BY <1>5 DEF A!ModelReturns
<1>6. CASE A!ModelRaises
  BY <1>6 DEF A!ModelRaises
<1>7. CASE A!Flush
  BY <1>7 DEF A!Flush
<1>8. CASE A!FlushRaises
  BY <1>8 DEF A!FlushRaises
<1>9. CASE A!Seal
  BY <1>9 DEF A!Seal
<1>10. CASE A!Cancel
  BY <1>10 DEF A!Cancel
<1>11. CASE UNCHANGED A!adapterVars
  BY <1>11 DEF A!adapterVars
<1> QED
  BY <1>1, <1>2, <1>3, <1>4, <1>5, <1>6, <1>7, <1>8, <1>9, <1>10, <1>11
     DEF A!Next, A!StartStep

LEMMA AdapterInvariance == A!Spec => []AdapterInv
  BY AdapterInit, AdapterNext, PTL DEF A!Spec

\* The observation stream is closed at most once, and exactly once by a start that
\* returns, wherever it or the model raised.
THEOREM SinkIsClosedOnce == A!Spec => []A!SinkClosedOnce
<1>1. AdapterInv => A!SinkClosedOnce
  BY DEF AdapterInv, SinkInv, A!SinkClosedOnce, A!StartReturned
<1> QED BY <1>1, AdapterInvariance, PTL

\* A cancel before start, during the constructor, or in any tick has signalled the
\* running model.
THEOREM CancelArrives == A!Spec => []A!CancelReachesModel
<1>1. AdapterInv => A!CancelReachesModel
  BY DEF AdapterInv, PublishInv, A!CancelReachesModel
<1> QED BY <1>1, AdapterInvariance, PTL

\* A rank of a collective run cannot succeed without having run its model to the end
\* event, so it never leaves its peers alone in a collective.
THEOREM EveryRankParticipates == A!Spec => []A!RankParticipates
<1>1. AdapterInv => A!RankParticipates
  BY DEF AdapterInv, ParticipationInv, A!RankParticipates
<1> QED BY <1>1, AdapterInvariance, PTL

\* A cancelled single process never enters its model, because the flag is read again
\* when the model is published.
THEOREM SkippableIsSkipped == A!Spec => A!StartsUnlessSkippable
<1>1. [A!Next]_A!adapterVars =>
        [stage' = "running" /\ stage # "running" => A!Participates(cancelled)]_A!adapterVars
  <2> SUFFICES ASSUME A!Next, stage' = "running", stage # "running"
               PROVE  A!Participates(cancelled)
    OBVIOUS
  <2>1. CASE A!PublishModel
    BY <2>1 DEF A!PublishModel
  <2>2. CASE \/ A!Start \/ A!Build \/ A!ModelReturns \/ A!ModelRaises
             \/ A!Flush \/ A!FlushRaises \/ A!Seal
    BY <2>2 DEF A!Start, A!Build, A!ModelReturns, A!ModelRaises, A!Flush, A!FlushRaises,
                A!Seal
  <2>3. CASE A!ModelSteps \/ A!Cancel
    BY <2>3 DEF A!ModelSteps, A!Cancel
  <2> QED
    BY <2>1, <2>2, <2>3 DEF A!Next, A!StartStep
<1> QED
  BY <1>1, PTL DEF A!Spec, A!StartsUnlessSkippable
-----------------------------------------------------------------------------
(* The launcher. *)

\* The places of rank 0 after its try block, and those it can have left it for only
\* with an error.
AfterRun == {"closing", "answering", "aborting", "serving", "stopping", "exited"}
FailedPcs == {"launchFailed", "launchClose", "launchRelease", "releasing"}

\* The places of rank 0 at which it has not dispatched a run.
UndispatchedPcs ==
  {"launch", "listen", "launchFailed", "launchClose", "launchRelease",
   "waiting", "preparing", "dispatching", "releasing"}

\* The handoff is finished only by the last step of a failed launch or of a run, with
\* rank 0's error; without one the run returned, the ranks met and the broker closed.
OutcomeInv ==
  /\ rootPc \in FailedPcs => rootError # "none"
  /\ rootPc = "barrier" => A!StartReturned /\ Workers # {}
  /\ rootPc \in AfterRun /\ rootError = "none" =>
       /\ A!StartReturned
       /\ Workers = {} \/ Released(FinalBarrier)
       /\ rootPc # "closing" => brokerClosed
  /\ finished =>
       /\ rootPc \in (AfterRun \ {"closing", "answering"}) \cup {"launchClose", "launchRelease"}
       /\ error = "none" <=> rootError = "none"

\* All workers hear the same thing, and nothing before rank 0 has broadcast.
InboxInv ==
  /\ \E k \in {"start", "abort"} : \A w \in Workers : inbox[w] \in {<<>>, <<k>>}
  /\ rootPc \in UndispatchedPcs => ~dispatched
  /\ ~aborted /\ ~dispatched /\ rootPc \notin AfterRun => \A w \in Workers : inbox[w] = <<>>

JoinedInv ==
  \A r \in Ranks : \A c \in joined[r] : c = FinalBarrier \/ c <= TickOf(r) + 1

ExecutedInv ==
  \A r \in Ranks : \A t \in 1..TickOf(r) : Released(t) /\ t \notin stopVotes

EndInv ==
  /\ \A w \in Workers :
       /\ workerPc[w] = "ending" => AtEnd(workerTick[w])
       /\ FinalBarrier \in joined[w] =>
            workerPc[w] \in {"barrier", "exited"} /\ AtEnd(workerTick[w])
  /\ succeeded /\ Workers # {} => AtEnd(tick)
  /\ FinalBarrier \in joined[Root] => A!StartReturned /\ Workers # {}

LockStepInv == JoinedInv /\ ExecutedInv /\ EndInv

SignalInv ==
  modelSignals > 0 =>
    /\ \A r \in Ranks : TickOf(r) <= votedAtSignal
    /\ \A c \in joined[Root] \cap (1..Ticks) : c > votedAtSignal => c \in stopVotes

IInv ==
  /\ TypeOK
  /\ HP!IInv
  /\ AdapterInv
  /\ OutcomeInv
  /\ InboxInv
  /\ LockStepInv
  /\ SignalInv
-----------------------------------------------------------------------------
(* Which steps the launcher has. *)

\* The steps that change neither the adapter, nor a worker, nor what was joined and
\* voted.
OutsideStep ==
  \/ OpenControl \/ OpenFlight \/ LaunchShutdown \/ LaunchClose \/ LaunchRelease
  \/ \E e \in {"exception", "interrupt"} : LaunchRaises(e) \/ RootRaises(e)
  \/ TakeRequest \/ Prepare \/ Dispatch \/ Resolve \/ Expose
  \/ RootLeavesAdapter \/ RootLeavesBarrier
  \/ Release \/ CloseBroker \/ AnswerCallback \/ RootAborts \/ StopServing
  \/ \E w \in Workers : WorkerRaises(w)
  \/ NewCall
  \/ \E c \in Callbacks : CallbackEnds(c)

\* The calls of adapter.cancel().
CancelStep == Relay \/ \E k \in Cancellers : CancelReaches(k)

AdapterStep == RootLocal \/ RootBuilds \/ RootSteps \/ RootEnds

\* Rank 0 joins a collective.
JoinStep == RootJoinsConstruction \/ RootVotes \/ RootJoinsBarrier

LEMMA StepKinds ==
  ASSUME Next
  PROVE  /\ ~aborted /\ NoteSignal
         /\ \/ OutsideStep
            \/ CancelStep
            \/ AdapterStep
            \/ JoinStep
            \/ \E w \in Workers : WorkerStep(w)
<1>1. CASE Live(RootStep)
  BY <1>1 DEF Live, RootStep, OutsideStep, CancelStep, AdapterStep, JoinStep
<1>2. CASE \E w \in Workers : Live(WorkerStep(w))
  BY <1>2 DEF Live
<1>3. CASE \E c \in Callbacks : Live(CallbackEnds(c))
  BY <1>3 DEF Live, OutsideStep
<1>4. CASE \E k \in Cancellers : Live(CancelReaches(k))
  BY <1>4 DEF Live, CancelStep
<1>5. CASE Live(Environment)
  BY <1>5 DEF Live, Environment, OutsideStep
<1> QED
  BY <1>1, <1>2, <1>3, <1>4, <1>5 DEF Next

LEMMA OutsideFacts ==
  ASSUME OutsideStep
  PROVE  UNCHANGED <<adapterVars, workerVars, joined, stopVotes>>
<1>1. CASE OpenControl \/ OpenFlight \/ LaunchShutdown \/ LaunchClose
  BY <1>1 DEF OpenControl, OpenFlight, LaunchShutdown, LaunchClose, mpiVars
<1>2. CASE LaunchRelease \/ Release
  BY <1>2 DEF LaunchRelease, Release, ReleaseWorkers
<1>3. CASE \E e \in {"exception", "interrupt"} : LaunchRaises(e) \/ RootRaises(e)
  BY <1>3 DEF LaunchRaises, RootRaises, mpiVars
<1>4. CASE TakeRequest \/ Prepare \/ Dispatch \/ Resolve \/ Expose
  BY <1>4 DEF TakeRequest, Prepare, Dispatch, Resolve, Expose, mpiVars
<1>5. CASE RootLeavesAdapter \/ RootLeavesBarrier
  BY <1>5 DEF RootLeavesAdapter, RootLeavesBarrier, mpiVars
<1>6. CASE CloseBroker \/ AnswerCallback \/ RootAborts \/ StopServing
  BY <1>6 DEF CloseBroker, AnswerCallback, RootAborts, StopServing, mpiVars
<1>7. CASE \E w \in Workers : WorkerRaises(w)
  BY <1>7 DEF WorkerRaises
<1>8. CASE NewCall \/ \E c \in Callbacks : CallbackEnds(c)
  BY <1>8 DEF NewCall, CallbackEnds, mpiVars
<1> QED
  BY <1>1, <1>2, <1>3, <1>4, <1>5, <1>6, <1>7, <1>8 DEF OutsideStep

LEMMA WorkerFacts ==
  ASSUME NEW w \in Workers, WorkerStep(w)
  PROVE  UNCHANGED <<handoffVars, adapterVars, rootVars, inbox, aborted, stopVotes>>
<1>1. CASE WorkerReceives(w) \/ WorkerBuilds(w)
  BY <1>1 DEF WorkerReceives, WorkerBuilds, WorkerGoes
<1>2. CASE WorkerEnds(w) \/ WorkerExits(w)
  BY <1>2 DEF WorkerEnds, WorkerExits, WorkerGoes
<1>3. CASE WorkerJoinsConstruction(w) \/ WorkerVotes(w)
  BY <1>3 DEF WorkerJoinsConstruction, WorkerVotes, WorkerGoes
<1>4. CASE WorkerSteps(w)
  BY <1>4 DEF WorkerSteps, WorkerGoes
<1>5. CASE WorkerJoinsBarrier(w)
  BY <1>5 DEF WorkerJoinsBarrier, WorkerGoes
<1> QED
  BY <1>1, <1>2, <1>3, <1>4, <1>5 DEF WorkerStep

LEMMA JoinFacts ==
  ASSUME JoinStep
  PROVE  UNCHANGED <<handoffVars, adapterVars, rootVars, workerVars, inbox, aborted>>
BY DEF JoinStep, RootJoinsConstruction, RootVotes, RootJoinsBarrier, RootInAdapter
-----------------------------------------------------------------------------
(* Every step is a step of the adapter, or leaves its variables alone. *)

LEMMA AdapterSteps ==
  ASSUME [Next]_vars
  PROVE  [A!Next]_A!adapterVars
<1>1. CASE UNCHANGED vars
  BY <1>1 DEF vars, adapterVars, A!adapterVars
<1>2. ASSUME UNCHANGED adapterVars PROVE UNCHANGED A!adapterVars
  BY <1>2 DEF adapterVars, A!adapterVars
<1>3. CASE OutsideStep
  BY <1>2, <1>3, OutsideFacts
<1>4. CASE CancelStep
  BY <1>4 DEF CancelStep, Relay, CancelReaches, A!Next
<1>5. CASE RootLocal
  BY <1>5 DEF RootLocal, A!Next, A!StartStep
<1>6. CASE RootBuilds
  BY <1>6 DEF RootBuilds, A!Next, A!StartStep
<1>7. CASE RootSteps
  BY <1>7 DEF RootSteps, A!Next, A!StartStep
<1>8. CASE RootEnds
  BY <1>8 DEF RootEnds, A!Next, A!StartStep
<1>9. CASE JoinStep
  BY <1>2, <1>9, JoinFacts
<1>10. CASE \E w \in Workers : WorkerStep(w)
  BY <1>2, <1>10, WorkerFacts
<1> QED
  BY <1>1, <1>3, <1>4, <1>5, <1>6, <1>7, <1>8, <1>9, <1>10, StepKinds DEF AdapterStep

LEMMA AdapterTypes ==
  ASSUME A!TypeOK, AdapterInv', [A!Next]_A!adapterVars
  PROVE  A!TypeOK'
<1> USE DEF A!TypeOK
<1>1. stage' \in A!Stages /\ modelSignals' \in Nat /\ closes' \in Nat
  BY DEF AdapterInv, SinkInv, PublishInv
<1>2. CASE A!Start \/ A!Build \/ A!PublishModel
  BY <1>1, <1>2 DEF A!Start, A!Build, A!PublishModel
<1>3. CASE A!ModelSteps
  BY <1>1, <1>3, RunnerAssumption DEF A!ModelSteps
<1>4. CASE A!ModelReturns \/ A!ModelRaises
  BY <1>1, <1>4 DEF A!ModelReturns, A!ModelRaises
<1>5. CASE A!Flush \/ A!FlushRaises
  BY <1>1, <1>5 DEF A!Flush, A!FlushRaises
<1>6. CASE A!Seal \/ A!Cancel
  BY <1>1, <1>6 DEF A!Seal, A!Cancel
<1>7. CASE UNCHANGED A!adapterVars
  BY <1>7 DEF A!adapterVars
<1> QED
  BY <1>2, <1>3, <1>4, <1>5, <1>6, <1>7 DEF A!Next, A!StartStep
-----------------------------------------------------------------------------
(* Every step is a step of the handoff, or leaves its variables alone. *)

\* An error of rank 0 stays one when the handoff stores it.
LEMMA ErrorStored ==
  ASSUME rootError \in H!Errors
  PROVE  /\ H!Translated(rootError) \in {"none", "exception"}
         /\ H!Translated(rootError) = "none" <=> rootError = "none"
BY DEF H!Errors, H!Translated

LEMMA HandoffTypes == (HP!IInv => H!TypeOK) /\ (HP!IInv' => H!TypeOK')
BY DEF HP!IInv, HP!TypeOK, H!TypeOK, HP!Errors, H!Errors, HP!SubmitStates, H!SubmitStates,
       HP!CancelStates, H!CancelStates

LEMMA HandoffSteps ==
  ASSUME rootError \in H!Errors, OutcomeInv, [Next]_vars
  PROVE  [HP!Next]_HP!handoffVars
<1>1. CASE UNCHANGED vars
  BY <1>1 DEF vars, handoffVars, HP!handoffVars
<1>2. ASSUME UNCHANGED handoffVars PROVE UNCHANGED HP!handoffVars
  BY <1>2 DEF handoffVars, HP!handoffVars
<1>3. CASE OutsideStep
  <2>1. CASE OpenControl \/ OpenFlight \/ LaunchClose \/ LaunchRelease \/ Release
    BY <1>2, <2>1 DEF OpenControl, OpenFlight, LaunchClose, LaunchRelease, Release,
                      ReleaseWorkers
  <2>2. CASE LaunchShutdown
    <3>1. rootError \in HP!Errors \ {"none"}
      BY <2>2 DEF LaunchShutdown, OutcomeInv, FailedPcs, H!Errors, HP!Errors
    <3>2. H!Shutdown(rootError) => HP!Shutdown(rootError)
      BY DEF H!Shutdown, HP!Shutdown, H!FinishLocked, HP!FinishLocked, H!Translated,
             HP!Translated
    <3> QED
      BY <2>2, <3>1, <3>2 DEF LaunchShutdown, HP!Next, HP!MainThread
  <2>3. CASE \E e \in {"exception", "interrupt"} : LaunchRaises(e) \/ RootRaises(e)
    BY <1>2, <2>3 DEF LaunchRaises, RootRaises
  <2>4. CASE TakeRequest \/ Prepare \/ Dispatch \/ Resolve
    BY <1>2, <2>4 DEF TakeRequest, Prepare, Dispatch, Resolve
  <2>5. CASE Expose
    BY <2>5 DEF Expose, H!SetAdapter, HP!SetAdapter, HP!Next, HP!MainThread
  <2>6. CASE RootLeavesAdapter \/ RootLeavesBarrier \/ CloseBroker \/ RootAborts \/ StopServing
    BY <1>2, <2>6 DEF RootLeavesAdapter, RootLeavesBarrier, CloseBroker, RootAborts,
                      StopServing
  <2>7. CASE AnswerCallback
    <3>1. CASE rootError = "none"
      <4>1. H!Complete => HP!Complete
        BY DEF H!Complete, HP!Complete, H!FinishLocked, HP!FinishLocked, H!Translated,
               HP!Translated
      <4> QED
        BY <2>7, <3>1, <4>1 DEF AnswerCallback, HP!Next, HP!MainThread
    <3>2. CASE rootError # "none"
      <4>1. rootError \in HP!Errors \ {"none"}
        BY <3>2 DEF H!Errors, HP!Errors
      <4>2. H!Shutdown(rootError) => HP!Shutdown(rootError)
        BY DEF H!Shutdown, HP!Shutdown, H!FinishLocked, HP!FinishLocked, H!Translated,
               HP!Translated
      <4> QED
        BY <2>7, <3>2, <4>1, <4>2 DEF AnswerCallback, HP!Next, HP!MainThread
    <3> QED
      BY <3>1, <3>2
  <2>8. CASE \E w \in Workers : WorkerRaises(w)
    BY <1>2, <2>8 DEF WorkerRaises
  <2>9. CASE NewCall
    <3>1. ASSUME NEW c \in Callbacks, H!SubmitAccepted(c) \/ H!SubmitRefused(c)
          PROVE  HP!Callback(c)
      BY <3>1 DEF H!SubmitAccepted, HP!SubmitAccepted, H!SubmitRefused, HP!SubmitRefused,
                  H!Raised, HP!Raised, HP!Callback
    <3>2. ASSUME NEW k \in Cancellers, H!CancelLatched(k) \/ H!CancelDeclined(k)
          PROVE  HP!Canceller(k)
      BY <3>2 DEF H!CancelLatched, HP!CancelLatched, H!CancelDeclined, HP!CancelDeclined,
                  HP!Canceller
    <3> QED
      BY <2>9, <3>1, <3>2 DEF NewCall, HP!Next
  <2>10. CASE \E c \in Callbacks : CallbackEnds(c)
    BY <2>10 DEF CallbackEnds, H!SubmitEnds, HP!SubmitEnds, H!Raised, HP!Raised, HP!Next,
                 HP!Callback
  <2> QED
    BY <1>3, <2>1, <2>2, <2>3, <2>4, <2>5, <2>6, <2>7, <2>8, <2>9, <2>10 DEF OutsideStep
<1>4. CASE CancelStep
  <2>1. CASE Relay
    BY <2>1 DEF Relay, H!SetAdapterDelivers, HP!SetAdapterDelivers, HP!Next, HP!MainThread
  <2>2. CASE \E k \in Cancellers : CancelReaches(k)
    BY <2>2 DEF CancelReaches, H!CancelDelivers, HP!CancelDelivers, HP!Next, HP!Canceller
  <2> QED
    BY <1>4, <2>1, <2>2 DEF CancelStep
<1>5. CASE AdapterStep
  BY <1>2, <1>5 DEF AdapterStep, RootLocal, RootBuilds, RootSteps, RootEnds, RootInAdapter
<1>6. CASE JoinStep
  BY <1>2, <1>6, JoinFacts
<1>7. CASE \E w \in Workers : WorkerStep(w)
  BY <1>2, <1>7, WorkerFacts
<1> QED
  BY <1>1, <1>3, <1>4, <1>5, <1>6, <1>7, StepKinds
-----------------------------------------------------------------------------
(* What no step takes back. *)

LEMMA JoinedGrows ==
  ASSUME TypeOK, [Next]_vars
  PROVE  /\ joined' \in [Ranks -> SUBSET Collectives]
         /\ \A r \in Ranks : joined[r] \subseteq joined'[r]
<1> joined \in [Ranks -> SUBSET Collectives]
  BY DEF TypeOK
<1>1. CASE UNCHANGED vars
  BY <1>1 DEF vars, mpiVars
<1>2. CASE OutsideStep
  BY <1>2, OutsideFacts
<1>3. CASE CancelStep
  BY <1>3 DEF CancelStep, Relay, CancelReaches, mpiVars
<1>4. CASE AdapterStep
  BY <1>4 DEF AdapterStep, RootLocal, RootBuilds, RootSteps, RootEnds
<1>5. ASSUME NEW r \in Ranks, NEW c \in Collectives, Join(r, c)
      PROVE  /\ joined' \in [Ranks -> SUBSET Collectives]
             /\ \A s \in Ranks : joined[s] \subseteq joined'[s]
  BY <1>5 DEF Join
<1>6. Construction \in Collectives /\ FinalBarrier \in Collectives
  BY RunnerAssumption DEF Construction, FinalBarrier, Collectives
<1>7. CASE JoinStep
  <2>1. Root \in Ranks
    BY DEF Ranks
  <2>2. CASE RootJoinsConstruction \/ RootJoinsBarrier
    BY <1>5, <1>6, <2>1, <2>2 DEF RootJoinsConstruction, RootJoinsBarrier
  <2>3. CASE RootVotes
    <3>1. Join(Root, tick + 1) /\ tick \in 0..Ticks /\ tick < Ticks
      BY <2>3 DEF RootVotes, TypeOK, A!TypeOK
    <3>2. tick + 1 \in Collectives
      BY <3>1, RunnerAssumption DEF Collectives
    <3> QED
      BY <1>5, <2>1, <3>1, <3>2
  <2> QED
    BY <1>7, <2>2, <2>3 DEF JoinStep
<1>8. ASSUME NEW w \in Workers, WorkerStep(w)
      PROVE  /\ joined' \in [Ranks -> SUBSET Collectives]
             /\ \A r \in Ranks : joined[r] \subseteq joined'[r]
  <2>1. w \in Ranks
    BY DEF Ranks
  <2>2. CASE WorkerJoinsConstruction(w) \/ WorkerJoinsBarrier(w)
    BY <1>5, <1>6, <2>1, <2>2 DEF WorkerJoinsConstruction, WorkerJoinsBarrier
  <2>3. CASE WorkerVotes(w)
    <3>1. Join(w, workerTick[w] + 1) /\ workerTick[w] \in 0..Ticks /\ workerTick[w] < Ticks
      BY <2>3 DEF WorkerVotes, TypeOK
    <3>2. workerTick[w] + 1 \in Collectives
      BY <3>1, RunnerAssumption DEF Collectives
    <3> QED
      BY <1>5, <2>1, <3>1, <3>2
  <2>4. CASE \/ WorkerReceives(w) \/ WorkerBuilds(w) \/ WorkerSteps(w)
             \/ WorkerEnds(w) \/ WorkerExits(w)
    BY <2>4 DEF WorkerReceives, WorkerBuilds, WorkerSteps, WorkerEnds, WorkerExits
  <2> QED
    BY <1>8, <2>2, <2>3, <2>4 DEF WorkerStep
<1> QED
  BY <1>1, <1>2, <1>3, <1>4, <1>7, <1>8, StepKinds

LEMMA ReleasedStays ==
  ASSUME TypeOK, [Next]_vars, NEW c, Released(c)
  PROVE  Released(c)'
<1>1. \A r \in Ranks : c \in joined'[r]
  BY JoinedGrows DEF Released
<1> QED
  BY <1>1 DEF Released, Ranks

\* Once start is at its end nothing in the adapter changes but the flag.
LEMMA StartedStays ==
  ASSUME [A!Next]_A!adapterVars, stage = "done"
  PROVE  UNCHANGED <<stage, succeeded, flushed, tick>>
BY DEF A!Next, A!StartStep, A!Start, A!Build, A!PublishModel, A!ModelSteps,
       A!ModelReturns, A!ModelRaises, A!Flush, A!FlushRaises, A!Seal, A!Cancel,
       A!adapterVars

LEMMA ReturnedStays ==
  ASSUME [Next]_vars, A!StartReturned
  PROVE  A!StartReturned'
BY AdapterSteps, StartedStays DEF A!StartReturned
-----------------------------------------------------------------------------
(* What rank 0 has behind it. *)

\* A step that leaves rank 0's place and the outcome alone.
LEMMA OutcomeKept ==
  ASSUME TypeOK, OutcomeInv, [Next]_vars,
         UNCHANGED <<rootPc, rootError, brokerClosed, finished, error>>
  PROVE  OutcomeInv'
<1>1. (A!StartReturned => A!StartReturned') /\ (Released(FinalBarrier) => Released(FinalBarrier)')
  BY ReturnedStays, ReleasedStays
<1> QED
  BY <1>1 DEF OutcomeInv

LEMMA OutcomeStep ==
  ASSUME TypeOK, OutcomeInv, [Next]_vars
  PROVE  OutcomeInv'
<1> rootError \in H!Errors /\ brokerClosed \in BOOLEAN /\ finished \in BOOLEAN
  BY DEF TypeOK, H!TypeOK
<1>1. CASE UNCHANGED vars
  BY <1>1, OutcomeKept DEF vars, rootVars, handoffVars
<1>2. CASE CancelStep
  <2>1. CASE Relay
    <3>1. UNCHANGED <<rootError, brokerClosed, finished, error>>
      BY <2>1 DEF Relay, RootGoes, H!SetAdapterDelivers
    <3>2. rootPc = "relaying" /\ rootPc' = "adapter"
      BY <2>1 DEF Relay, RootGoes
    <3> QED
      BY <3>1, <3>2 DEF OutcomeInv, FailedPcs, AfterRun
  <2>2. CASE \E k \in Cancellers : CancelReaches(k)
    BY <2>2, OutcomeKept DEF CancelReaches, H!CancelDelivers, rootVars
  <2> QED
    BY <1>2, <2>1, <2>2 DEF CancelStep
<1>3. CASE AdapterStep
  BY <1>3, OutcomeKept
     DEF AdapterStep, RootLocal, RootBuilds, RootSteps, RootEnds, RootInAdapter,
         handoffVars, rootVars
<1>4. CASE JoinStep
  BY <1>4, JoinFacts, OutcomeKept DEF handoffVars, rootVars
<1>5. CASE \E w \in Workers : WorkerStep(w)
  BY <1>5, WorkerFacts, OutcomeKept DEF handoffVars, rootVars
<1>6. CASE OutsideStep
  <2>1. (A!StartReturned => A!StartReturned') /\ (Released(FinalBarrier) => Released(FinalBarrier)')
    BY ReturnedStays, ReleasedStays
  <2>2. CASE OpenControl \/ OpenFlight \/ TakeRequest \/ Prepare \/ Resolve
    BY <2>2 DEF OpenControl, OpenFlight, TakeRequest, Prepare, Resolve, RootGoes, handoffVars,
                OutcomeInv, FailedPcs, AfterRun
  <2>3. CASE \E e \in {"exception", "interrupt"} : LaunchRaises(e)
    BY <2>3 DEF LaunchRaises, handoffVars, OutcomeInv, FailedPcs, AfterRun
  <2>4. CASE \E e \in {"exception", "interrupt"} : RootRaises(e)
    BY <2>4 DEF RootRaises, handoffVars, OutcomeInv, FailedPcs, AfterRun
  <2>5. CASE LaunchShutdown
    BY <2>5, ErrorStored
       DEF LaunchShutdown, H!Shutdown, H!FinishLocked, OutcomeInv, FailedPcs, AfterRun
  <2>6. CASE LaunchClose
    BY <2>6 DEF LaunchClose, handoffVars, OutcomeInv, FailedPcs, AfterRun
  <2>7. CASE LaunchRelease \/ Release
    BY <2>7 DEF LaunchRelease, Release, ReleaseWorkers, handoffVars, OutcomeInv, FailedPcs,
                AfterRun
  <2>8. CASE Dispatch
    BY <2>8 DEF Dispatch, handoffVars, OutcomeInv, FailedPcs, AfterRun
  <2>9. CASE Expose
    BY <2>9 DEF Expose, H!SetAdapter, RootGoes, OutcomeInv, FailedPcs, AfterRun
  <2>10. CASE RootLeavesAdapter
    BY <2>1, <2>10 DEF RootLeavesAdapter, RootGoes, handoffVars, OutcomeInv, FailedPcs, AfterRun
  <2>11. CASE RootLeavesBarrier
    BY <2>1, <2>11 DEF RootLeavesBarrier, RootGoes, handoffVars, OutcomeInv, FailedPcs, AfterRun
  <2>12. CASE CloseBroker
    BY <2>1, <2>12 DEF CloseBroker, handoffVars, OutcomeInv, FailedPcs, AfterRun
  <2>13. CASE AnswerCallback
    <3>1. error' = H!Translated(rootError)
      <4>1. CASE rootError = "none"
        BY <2>13, <4>1 DEF AnswerCallback, H!Complete, H!FinishLocked
      <4>2. CASE rootError # "none"
        BY <2>13, <4>2 DEF AnswerCallback, H!Shutdown, H!FinishLocked
      <4> QED
        BY <4>1, <4>2
    <3>2. /\ rootPc = "answering" /\ rootPc' \in {"aborting", "stopping", "serving"}
          /\ UNCHANGED <<rootError, brokerClosed>>
      BY <2>13 DEF AnswerCallback
    <3> QED
      BY <2>1, <3>1, <3>2, ErrorStored DEF OutcomeInv, FailedPcs, AfterRun
  <2>14. CASE StopServing
    BY <2>1, <2>14 DEF StopServing, handoffVars, OutcomeInv, FailedPcs, AfterRun
  <2>15. CASE RootAborts \/ \E w \in Workers : WorkerRaises(w)
    BY <2>15, OutcomeKept DEF RootAborts, WorkerRaises, handoffVars, rootVars
  <2>16. CASE NewCall
    <3>1. UNCHANGED <<finished, error>>
      BY <2>16 DEF NewCall, H!SubmitAccepted, H!SubmitRefused, H!CancelLatched,
                   H!CancelDeclined
    <3> QED
      BY <2>16, <3>1, OutcomeKept DEF NewCall, rootVars
  <2>17. CASE \E c \in Callbacks : CallbackEnds(c)
    BY <2>17, OutcomeKept DEF CallbackEnds, H!SubmitEnds, rootVars
  <2> QED
    BY <1>6, <2>2, <2>3, <2>4, <2>5, <2>6, <2>7, <2>8, <2>9, <2>10, <2>11, <2>12, <2>13,
       <2>14, <2>15, <2>16, <2>17 DEF OutsideStep
<1> QED
  BY <1>1, <1>2, <1>3, <1>4, <1>5, <1>6, StepKinds
-----------------------------------------------------------------------------
(* What rank 0 has broadcast. *)

\* A broadcast to workers that have heard nothing is heard by some, and only it is.
LEMMA FirstBroadcast ==
  ASSUME NEW kind, NEW reached, \A w \in Workers : inbox[w] = <<>>, Broadcast(kind, reached)
  PROVE  \A w \in Workers : inbox'[w] \in {<<>>, <<kind>>}
<1>1. Append(<<>>, kind) = <<kind>>
  OBVIOUS
<1> QED
  BY <1>1 DEF Broadcast

LEMMA InboxKept ==
  ASSUME InboxInv, UNCHANGED <<inbox, rootPc, dispatched>>, aborted => aborted'
  PROVE  InboxInv'
BY DEF InboxInv

LEMMA InboxStep ==
  ASSUME InboxInv, [Next]_vars, aborted \in BOOLEAN
  PROVE  InboxInv'
<1>1. CASE UNCHANGED vars
  BY <1>1, InboxKept DEF vars, rootVars, mpiVars
<1>2. CASE CancelStep
  <2>1. CASE Relay
    <3>1. UNCHANGED <<inbox, aborted, dispatched>> /\ rootPc = "relaying" /\ rootPc' = "adapter"
      BY <2>1 DEF Relay, RootGoes, mpiVars
    <3> QED
      BY <3>1 DEF InboxInv, UndispatchedPcs, AfterRun
  <2>2. CASE \E k \in Cancellers : CancelReaches(k)
    BY <2>2, InboxKept DEF CancelReaches, rootVars, mpiVars
  <2> QED
    BY <1>2, <2>1, <2>2 DEF CancelStep
<1>3. CASE AdapterStep
  BY <1>3, InboxKept
     DEF AdapterStep, RootLocal, RootBuilds, RootSteps, RootEnds, RootInAdapter, rootVars
<1>4. CASE JoinStep
  BY <1>4, JoinFacts, InboxKept DEF rootVars
<1>5. CASE \E w \in Workers : WorkerStep(w)
  BY <1>5, WorkerFacts, InboxKept DEF rootVars
<1>6. CASE OutsideStep /\ ~aborted
  <2>1. CASE OpenControl \/ OpenFlight \/ TakeRequest \/ Resolve
    BY <1>6, <2>1 DEF OpenControl, OpenFlight, TakeRequest, Resolve, RootGoes, mpiVars,
                      InboxInv, UndispatchedPcs, AfterRun
  <2>2. CASE Prepare
    BY <1>6, <2>2 DEF Prepare, RootGoes, mpiVars, InboxInv, UndispatchedPcs, AfterRun
  <2>3. CASE \E e \in {"exception", "interrupt"} : LaunchRaises(e)
    BY <1>6, <2>3 DEF LaunchRaises, mpiVars, InboxInv, UndispatchedPcs, AfterRun
  <2>4. CASE \E e \in {"exception", "interrupt"} : RootRaises(e)
    BY <1>6, <2>4 DEF RootRaises, mpiVars, InboxInv, UndispatchedPcs, AfterRun
  <2>5. CASE LaunchShutdown \/ LaunchClose \/ CloseBroker \/ AnswerCallback \/ StopServing
    BY <1>6, <2>5 DEF LaunchShutdown, LaunchClose, CloseBroker, AnswerCallback, StopServing,
                      mpiVars, InboxInv, UndispatchedPcs, AfterRun
  <2>6. CASE LaunchRelease \/ Release
    <3>1. rootPc \in {"launchRelease", "releasing"} /\ dispatched' = dispatched /\ ~dispatched
      BY <2>6 DEF LaunchRelease, Release, ReleaseWorkers, InboxInv, UndispatchedPcs
    <3>2. \A w \in Workers : inbox[w] = <<>>
      BY <1>6, <3>1 DEF InboxInv, AfterRun
    <3>3. \E reached : Broadcast("abort", reached)
      BY <2>6 DEF LaunchRelease, Release, ReleaseWorkers
    <3>4. \A w \in Workers : inbox'[w] \in {<<>>, <<"abort">>}
      BY <3>2, <3>3, FirstBroadcast
    <3>5. aborted' = TRUE \/ rootPc' \in AfterRun
      BY <2>6 DEF LaunchRelease, Release, ReleaseWorkers, AfterRun
    <3> QED
      BY <3>1, <3>4, <3>5 DEF InboxInv
  <2>7. CASE Dispatch
    <3>1. rootPc = "dispatching" /\ dispatched' = TRUE /\ rootPc' \in {"resolving", "closing"}
      BY <2>7 DEF Dispatch
    <3>2. \A w \in Workers : inbox[w] = <<>>
      BY <1>6, <3>1 DEF InboxInv, UndispatchedPcs, AfterRun
    <3>3. \E reached : Broadcast("start", reached)
      BY <2>7 DEF Dispatch
    <3>4. \A w \in Workers : inbox'[w] \in {<<>>, <<"start">>}
      BY <3>2, <3>3, FirstBroadcast
    <3> QED
      BY <3>1, <3>4 DEF InboxInv, UndispatchedPcs
  <2>8. CASE Expose
    BY <1>6, <2>8 DEF Expose, RootGoes, mpiVars, InboxInv, UndispatchedPcs, AfterRun
  <2>9. CASE RootLeavesAdapter \/ RootLeavesBarrier
    BY <1>6, <2>9 DEF RootLeavesAdapter, RootLeavesBarrier, RootGoes, mpiVars, InboxInv,
                      UndispatchedPcs, AfterRun
  <2>10. CASE RootAborts \/ \E w \in Workers : WorkerRaises(w)
    BY <2>10, InboxKept DEF RootAborts, WorkerRaises, rootVars
  <2>11. CASE NewCall \/ \E c \in Callbacks : CallbackEnds(c)
    BY <2>11, InboxKept DEF NewCall, CallbackEnds, rootVars, mpiVars
  <2> QED
    BY <1>6, <2>1, <2>2, <2>3, <2>4, <2>5, <2>6, <2>7, <2>8, <2>9, <2>10, <2>11 DEF OutsideStep
<1> QED
  BY <1>1, <1>2, <1>3, <1>4, <1>5, <1>6, StepKinds
-----------------------------------------------------------------------------
(* The ranks' ticks, joins and votes. *)

LEMMA Unmoved ==
  ASSUME UNCHANGED vars \/ OutsideStep \/ CancelStep \/ RootLocal \/ RootBuilds \/ RootEnds
  PROVE  UNCHANGED <<joined, stopVotes, workerPc, workerTick, tick>>
<1>1. CASE UNCHANGED vars
  BY <1>1 DEF vars, mpiVars, workerVars, adapterVars
<1>2. CASE OutsideStep
  BY <1>2, OutsideFacts DEF workerVars, adapterVars
<1>3. CASE CancelStep
  BY <1>3 DEF CancelStep, Relay, CancelReaches, A!Cancel, workerVars, mpiVars
<1>4. CASE RootLocal
  <2>1. tick' = tick
    BY <1>4 DEF RootLocal, A!Start, A!PublishModel, A!ModelRaises, A!Flush, A!FlushRaises,
                A!Seal
  <2> QED
    BY <1>4, <2>1 DEF RootLocal, RootInAdapter, workerVars
<1>5. CASE RootBuilds \/ RootEnds
  BY <1>5 DEF RootBuilds, RootEnds, RootInAdapter, A!Build, A!ModelReturns, workerVars
<1> QED
  BY <1>1, <1>2, <1>3, <1>4, <1>5

\* A worker's step either moves only its place, or joins a collective, or is a tick.
LEMMA WorkerMoves ==
  ASSUME TypeOK, NEW w \in Workers, WorkerStep(w)
  PROVE  /\ stopVotes' = stopVotes /\ tick' = tick
         /\ \A v \in Workers : v # w => workerTick'[v] = workerTick[v] /\ workerPc'[v] = workerPc[v]
         /\ \/ workerTick' = workerTick /\ joined' = joined
            \/ workerTick' = workerTick /\ Join(w, Construction)
            \/ workerTick' = workerTick /\ workerTick[w] < Ticks /\ Join(w, workerTick[w] + 1)
            \/ workerTick' = workerTick /\ Join(w, FinalBarrier) /\ workerPc[w] = "ending"
            \/ WorkerSteps(w)
<1>1. stopVotes' = stopVotes /\ tick' = tick
  BY WorkerFacts DEF adapterVars
<1>2. workerPc \in [Workers -> WorkerPcs] /\ workerTick \in [Workers -> 0..Ticks]
  BY DEF TypeOK
<1>3. CASE WorkerReceives(w) \/ WorkerBuilds(w) \/ WorkerEnds(w) \/ WorkerExits(w)
  BY <1>1, <1>2, <1>3 DEF WorkerReceives, WorkerBuilds, WorkerEnds, WorkerExits, WorkerGoes
<1>4. CASE WorkerJoinsConstruction(w)
  BY <1>1, <1>2, <1>4 DEF WorkerJoinsConstruction, WorkerGoes
<1>5. CASE WorkerVotes(w)
  BY <1>1, <1>2, <1>5 DEF WorkerVotes, WorkerGoes
<1>6. CASE WorkerJoinsBarrier(w)
  BY <1>1, <1>2, <1>6 DEF WorkerJoinsBarrier, WorkerGoes
<1>7. CASE WorkerSteps(w)
  BY <1>1, <1>2, <1>7 DEF WorkerSteps, WorkerGoes
<1> QED
  BY <1>3, <1>4, <1>5, <1>6, <1>7 DEF WorkerStep

\* Rank 0's step to its next tick, and a worker's.
LEMMA RootTicks ==
  ASSUME RootSteps
  PROVE  /\ tick' = tick + 1 /\ tick < Ticks
         /\ Released(tick + 1) /\ tick + 1 \notin stopVotes
         /\ stage = "running"
         /\ UNCHANGED <<workerTick, workerPc, joined, stopVotes, modelSignals, stage, succeeded>>
BY DEF RootSteps, RootInAdapter, A!ModelSteps, workerVars

LEMMA WorkerTicks ==
  ASSUME TypeOK, NEW w \in Workers, WorkerSteps(w)
  PROVE  /\ workerTick'[w] = workerTick[w] + 1 /\ workerTick[w] < Ticks
         /\ Released(workerTick[w] + 1) /\ workerTick[w] + 1 \notin stopVotes
         /\ workerPc[w] = "running"
         /\ joined' = joined
BY DEF WorkerSteps, WorkerGoes, TypeOK

LEMMA TicksAreNumbers ==
  ASSUME TypeOK, NEW r \in Ranks
  PROVE  TickOf(r) \in 0..Ticks
BY DEF TypeOK, A!TypeOK, Ranks, TickOf

\* A join adds one collective to one rank.
LEMMA JoinAdds ==
  ASSUME TypeOK, NEW r \in Ranks, NEW c, Join(r, c)
  PROVE  /\ joined'[r] = joined[r] \cup {c}
         /\ \A s \in Ranks : s # r => joined'[s] = joined[s]
BY DEF Join, TypeOK

LEMMA JoinedStep ==
  ASSUME TypeOK, JoinedInv, [Next]_vars
  PROVE  JoinedInv'
<1> Ticks \in Nat /\ Root \notin Workers
  BY RunnerAssumption
<1>1. CASE UNCHANGED vars \/ OutsideStep \/ CancelStep \/ RootLocal \/ RootBuilds \/ RootEnds
  BY <1>1, Unmoved DEF JoinedInv, TickOf
<1>2. ASSUME NEW r \in Ranks, NEW c, Join(r, c), c = FinalBarrier \/ c <= TickOf(r) + 1,
             UNCHANGED <<tick, workerTick>>
      PROVE  JoinedInv'
  <2>1. \A s \in Ranks : TickOf(s)' = TickOf(s)
    BY <1>2 DEF TickOf
  <2>2. ASSUME NEW s \in Ranks, NEW d \in joined'[s]
        PROVE  d = FinalBarrier \/ d <= TickOf(s) + 1
    BY <1>2, <2>2, JoinAdds DEF JoinedInv
  <2> QED
    BY <2>1, <2>2 DEF JoinedInv, Ranks, FinalBarrier
<1>3. CASE RootSteps
  <2>1. \A s \in Ranks : TickOf(s)' = IF s = Root THEN TickOf(s) + 1 ELSE TickOf(s)
    BY <1>3, RootTicks DEF TickOf
  <2>2. ASSUME NEW s \in Ranks, NEW d \in joined'[s]
        PROVE  d = FinalBarrier \/ d <= TickOf(s)' + 1
    <3>1. d \in joined[s] /\ d \in Collectives
      BY <1>3, <2>2, RootTicks DEF TypeOK
    <3>2. d \in Nat /\ TickOf(s) \in Nat
      BY <3>1, TicksAreNumbers DEF Collectives
    <3> QED
      BY <2>1, <3>1, <3>2 DEF JoinedInv
  <2> QED
    BY <2>2 DEF JoinedInv, Ranks, FinalBarrier
<1>4. CASE JoinStep
  <2>1. Root \in Ranks /\ TickOf(Root) = tick /\ tick \in 0..Ticks
    BY DEF Ranks, TickOf, TypeOK, A!TypeOK
  <2>2. UNCHANGED <<tick, workerTick>>
    BY <1>4, JoinFacts DEF adapterVars, workerVars
  <2>3. \E c : Join(Root, c) /\ (c = FinalBarrier \/ c <= tick + 1)
    BY <1>4, <2>1 DEF JoinStep, RootJoinsConstruction, RootVotes, RootJoinsBarrier, Construction
  <2> QED
    BY <1>2, <2>1, <2>2, <2>3
<1>5. ASSUME NEW w \in Workers, WorkerStep(w) PROVE JoinedInv'
  <2>1. w \in Ranks /\ TickOf(w) = workerTick[w] /\ workerTick[w] \in 0..Ticks /\ tick' = tick
    BY <1>5, WorkerFacts DEF Ranks, TickOf, TypeOK, adapterVars
  <2>2. CASE workerTick' = workerTick /\ joined' = joined
    BY <2>1, <2>2 DEF JoinedInv, TickOf
  <2>3. CASE /\ workerTick' = workerTick
             /\ \E c : Join(w, c) /\ (c = FinalBarrier \/ c <= TickOf(w) + 1)
    BY <1>2, <2>1, <2>3
  <2>4. CASE WorkerSteps(w)
    <3>1. \A s \in Ranks : TickOf(s)' = IF s = w THEN TickOf(s) + 1 ELSE TickOf(s)
      BY <1>5, <2>1, <2>4, WorkerTicks, WorkerMoves DEF TickOf, Ranks
    <3>2. ASSUME NEW s \in Ranks, NEW d \in joined'[s]
          PROVE  d = FinalBarrier \/ d <= TickOf(s)' + 1
      <4>1. d \in joined[s] /\ d \in Collectives
        BY <2>4, <3>2, WorkerTicks DEF TypeOK
      <4>2. d \in Nat /\ TickOf(s) \in Nat
        BY <4>1, TicksAreNumbers DEF Collectives
      <4> QED
        BY <3>1, <4>1, <4>2 DEF JoinedInv
    <3> QED
      BY <3>2 DEF JoinedInv, Ranks, FinalBarrier
  <2>5. Construction <= TickOf(w) + 1
    BY <2>1 DEF Construction
  <2> QED
    BY <1>5, <2>1, <2>2, <2>3, <2>4, <2>5, WorkerMoves
<1> QED
  BY <1>1, <1>3, <1>4, <1>5, StepKinds DEF AdapterStep

\* Rank 0 votes once for every tick, so a tick on which every rank has voted to go on
\* stays one.
LEMMA VotesAreFinal ==
  ASSUME TypeOK, [Next]_vars
  PROVE  /\ stopVotes \subseteq stopVotes'
         /\ \A c : Released(c) /\ c \notin stopVotes => c \notin stopVotes'
<1> Root \in Ranks
  BY DEF Ranks
<1>1. CASE UNCHANGED vars \/ OutsideStep \/ CancelStep \/ RootLocal \/ RootBuilds \/ RootEnds
  BY <1>1, Unmoved
<1>2. CASE RootSteps
  BY <1>2, RootTicks
<1>3. CASE RootJoinsConstruction \/ RootJoinsBarrier
  BY <1>3 DEF RootJoinsConstruction, RootJoinsBarrier
<1>4. CASE RootVotes
  BY <1>4 DEF RootVotes, Released
<1>5. CASE \E w \in Workers : WorkerStep(w)
  BY <1>5, WorkerFacts
<1> QED
  BY <1>1, <1>2, <1>3, <1>4, <1>5, StepKinds DEF AdapterStep, JoinStep

LEMMA ExecutedStep ==
  ASSUME TypeOK, ExecutedInv, [Next]_vars
  PROVE  ExecutedInv'
<1> Ticks \in Nat /\ Root \notin Workers
  BY RunnerAssumption
<1> DEFINE Agreed(t) == Released(t) /\ t \notin stopVotes
<1>1. \A t : Agreed(t) => Agreed(t)'
  BY VotesAreFinal, ReleasedStays
<1>2. ASSUME \A s \in Ranks : \/ TickOf(s)' = TickOf(s)
                              \/ TickOf(s)' = TickOf(s) + 1 /\ Agreed(TickOf(s) + 1)
      PROVE  ExecutedInv'
  <2>1. ASSUME NEW s \in Ranks, NEW t \in 1..(TickOf(s)') PROVE Agreed(t)
    <3>1. TickOf(s) \in Nat
      BY TicksAreNumbers
    <3>2. t \in 1..TickOf(s) \/ (t = TickOf(s) + 1 /\ Agreed(TickOf(s) + 1))
      BY <1>2, <2>1, <3>1
    <3> HIDE DEF Agreed
    <3>3. \A u \in 1..TickOf(s) : Agreed(u)
      BY DEF ExecutedInv, Agreed
    <3> QED
      BY <3>2, <3>3
  <2>2. ASSUME NEW s \in Ranks, NEW t \in 1..(TickOf(s)') PROVE Agreed(t)'
    BY <1>1, <2>1, <2>2
  <2> QED
    BY <2>2 DEF ExecutedInv, Ranks
<1>3. CASE UNCHANGED vars \/ OutsideStep \/ CancelStep \/ RootLocal \/ RootBuilds \/ RootEnds
  <2>1. \A s \in Ranks : TickOf(s)' = TickOf(s)
    BY <1>3, Unmoved DEF TickOf
  <2> QED
    BY <1>2, <2>1
<1>4. CASE RootSteps
  <2>1. \A s \in Ranks : IF s = Root THEN TickOf(s)' = TickOf(s) + 1 /\ TickOf(s) = tick
                                     ELSE TickOf(s)' = TickOf(s)
    BY <1>4, RootTicks DEF TickOf
  <2>2. Agreed(tick + 1)
    BY <1>4, RootTicks
  <2> QED
    BY <1>2, <2>1, <2>2
<1>5. CASE JoinStep
  <2>1. \A s \in Ranks : TickOf(s)' = TickOf(s)
    BY <1>5, JoinFacts DEF TickOf, adapterVars, workerVars
  <2> QED
    BY <1>2, <2>1
<1>6. ASSUME NEW w \in Workers, WorkerStep(w) PROVE ExecutedInv'
  <2>1. CASE workerTick' = workerTick
    <3>1. \A s \in Ranks : TickOf(s)' = TickOf(s)
      BY <1>6, <2>1, WorkerMoves DEF TickOf
    <3> QED
      BY <1>2, <3>1
  <2>2. CASE WorkerSteps(w)
    <3>1. \A s \in Ranks : IF s = w THEN TickOf(s)' = TickOf(s) + 1 /\ TickOf(s) = workerTick[w]
                                    ELSE TickOf(s)' = TickOf(s)
      BY <1>6, <2>2, WorkerMoves, WorkerTicks DEF TickOf, Ranks
    <3>2. Agreed(workerTick[w] + 1)
      BY <2>2, WorkerTicks
    <3> QED
      BY <1>2, <3>1, <3>2
  <2> QED
    BY <1>6, <2>1, <2>2, WorkerMoves
<1> QED
  BY <1>3, <1>4, <1>5, <1>6, StepKinds DEF AdapterStep

LEMMA AtEndStays ==
  ASSUME TypeOK, [Next]_vars, NEW t, AtEnd(t)
  PROVE  t = Ticks \/ (t + 1 \in stopVotes' /\ \A r \in Ranks : t + 1 \in joined'[r])
<1>1. Released(t + 1) => \A r \in Ranks : t + 1 \in joined'[r]
  BY JoinedGrows DEF Released
<1> QED
  BY <1>1, VotesAreFinal DEF AtEnd

\* A worker that ends, or has joined the barrier, is at its last tick.
LEMMA WorkerEndStep ==
  ASSUME TypeOK, EndInv, [Next]_vars, NEW w \in Workers
  PROVE  /\ workerPc'[w] = "ending" => AtEnd(workerTick[w])'
         /\ FinalBarrier \in joined'[w] =>
              workerPc'[w] \in {"barrier", "exited"} /\ AtEnd(workerTick[w])'
<1> Ticks \in Nat /\ Root \notin Workers /\ w \in Ranks
  BY RunnerAssumption DEF Ranks
<1>1. AtEnd(workerTick[w]) /\ workerTick'[w] = workerTick[w] => AtEnd(workerTick[w])'
  BY AtEndStays DEF AtEnd, Released, Ranks
<1>2. ASSUME workerTick'[w] = workerTick[w], workerPc'[w] = workerPc[w], joined'[w] = joined[w]
      PROVE  /\ workerPc'[w] = "ending" => AtEnd(workerTick[w])'
             /\ FinalBarrier \in joined'[w] =>
                  workerPc'[w] \in {"barrier", "exited"} /\ AtEnd(workerTick[w])'
  BY <1>1, <1>2 DEF EndInv
<1>3. CASE UNCHANGED vars \/ OutsideStep \/ CancelStep \/ RootLocal \/ RootBuilds \/ RootEnds
  BY <1>2, <1>3, Unmoved
<1>4. CASE RootSteps
  BY <1>2, <1>4, RootTicks
<1>5. CASE JoinStep
  <2>1. \E c : Join(Root, c)
    BY <1>5 DEF JoinStep, RootJoinsConstruction, RootVotes, RootJoinsBarrier
  <2>2. joined'[w] = joined[w]
    BY <2>1, JoinAdds DEF Ranks
  <2> QED
    BY <1>2, <1>5, <2>2, JoinFacts DEF workerVars
<1>6. ASSUME NEW v \in Workers, v # w, WorkerStep(v)
      PROVE  UNCHANGED <<workerTick[w], workerPc[w], joined[w]>>
  <2>1. v \in Ranks
    BY DEF Ranks
  <2>2. joined' = joined \/ \E c : Join(v, c)
    BY <1>6, WorkerMoves, WorkerTicks
  <2> QED
    BY <1>6, <2>1, <2>2, WorkerMoves, JoinAdds
<1>7. CASE WorkerStep(w)
  <2>1. workerPc \in [Workers -> WorkerPcs] /\ workerTick \in [Workers -> 0..Ticks]
    BY DEF TypeOK
  <2>2. CASE WorkerReceives(w) \/ WorkerBuilds(w) \/ WorkerExits(w)
    <3>1. /\ joined' = joined /\ workerTick' = workerTick
          /\ workerPc'[w] # "ending" /\ (workerPc[w] = "barrier" => workerPc'[w] = "exited")
          /\ workerPc[w] # "exited"
      BY <2>1, <2>2 DEF WorkerReceives, WorkerBuilds, WorkerExits, WorkerGoes
    <3> QED
      BY <1>1, <3>1 DEF EndInv
  <2>3. CASE WorkerJoinsConstruction(w) \/ WorkerVotes(w)
    <3>1. /\ workerTick' = workerTick /\ workerPc'[w] # "ending"
          /\ workerPc[w] \in {"received", "running"}
          /\ \E c : Join(w, c) /\ c # FinalBarrier
      BY <2>1, <2>3
         DEF WorkerJoinsConstruction, WorkerVotes, WorkerGoes, Construction, FinalBarrier
    <3> QED
      BY <3>1, JoinAdds DEF EndInv
  <2>4. CASE WorkerSteps(w)
    <3>1. workerPc[w] = "running" /\ workerPc'[w] = "running" /\ joined' = joined
      BY <2>1, <2>4 DEF WorkerSteps, WorkerGoes
    <3> QED
      BY <3>1 DEF EndInv
  <2>5. CASE WorkerEnds(w)
    <3>1. /\ workerPc[w] = "running" /\ joined' = joined /\ workerTick' = workerTick
          /\ AtEnd(workerTick[w])
      BY <2>5 DEF WorkerEnds, WorkerGoes
    <3> QED
      BY <1>1, <3>1 DEF EndInv
  <2>6. CASE WorkerJoinsBarrier(w)
    <3>1. workerPc[w] = "ending" /\ workerPc'[w] = "barrier" /\ workerTick' = workerTick
      BY <2>1, <2>6 DEF WorkerJoinsBarrier, WorkerGoes
    <3> QED
      BY <1>1, <3>1 DEF EndInv
  <2> QED
    BY <1>7, <2>2, <2>3, <2>4, <2>5, <2>6 DEF WorkerStep
<1> QED
  BY <1>2, <1>3, <1>4, <1>5, <1>6, <1>7, StepKinds DEF AdapterStep

\* Rank 0 succeeds at its last tick, unless it is alone and was cancelled.
LEMMA RootEndStep ==
  ASSUME TypeOK, AdapterInv, EndInv, [Next]_vars
  PROVE  succeeded' /\ Workers # {} => AtEnd(tick)'
<1> SUFFICES ASSUME Workers # {} PROVE succeeded' => AtEnd(tick)'
  OBVIOUS
<1>1. tick' = tick /\ AtEnd(tick) => AtEnd(tick)'
  BY AtEndStays DEF AtEnd, Released, Ranks
<1>2. CASE UNCHANGED vars \/ OutsideStep \/ CancelStep \/ RootBuilds
  <2>1. succeeded' = succeeded
    <3>1. CASE UNCHANGED vars
      BY <3>1 DEF vars, adapterVars
    <3>2. CASE OutsideStep
      BY <3>2, OutsideFacts DEF adapterVars
    <3>3. CASE CancelStep \/ RootBuilds
      BY <3>3 DEF CancelStep, Relay, CancelReaches, A!Cancel, RootBuilds, A!Build
    <3> QED
      BY <1>2, <3>1, <3>2, <3>3
  <2> QED
    BY <1>1, <1>2, <2>1, Unmoved DEF EndInv
<1>3. CASE RootLocal
  <2>1. succeeded' = succeeded
    BY <1>3 DEF RootLocal, A!Start, A!PublishModel, A!Participates, A!ModelRaises, A!Flush,
                A!FlushRaises, A!Seal
  <2> QED
    BY <1>1, <1>3, <2>1, Unmoved DEF EndInv
<1>4. CASE RootEnds
  <2>1. AtEnd(tick)
    BY <1>4 DEF RootEnds
  <2> QED
    BY <1>1, <1>4, <2>1, Unmoved
<1>5. CASE RootSteps
  BY <1>5, RootTicks DEF AdapterInv, ParticipationInv
<1>6. CASE JoinStep \/ \E w \in Workers : WorkerStep(w)
  BY <1>1, <1>6, JoinFacts, WorkerFacts DEF adapterVars, EndInv
<1> QED
  BY <1>2, <1>3, <1>4, <1>5, <1>6, StepKinds DEF AdapterStep

\* Rank 0 joins the barrier only after start has returned.
LEMMA BarrierStep ==
  ASSUME TypeOK, OutcomeInv, EndInv, [Next]_vars
  PROVE  FinalBarrier \in joined'[Root] => A!StartReturned' /\ Workers # {}
<1> Ticks \in Nat /\ Root \notin Workers /\ Root \in Ranks
  BY RunnerAssumption DEF Ranks
<1>1. joined'[Root] = joined[Root] =>
        (FinalBarrier \in joined'[Root] => A!StartReturned' /\ Workers # {})
  BY ReturnedStays DEF EndInv
<1>2. CASE UNCHANGED vars \/ OutsideStep \/ CancelStep \/ RootLocal \/ RootBuilds \/ RootEnds
  BY <1>1, <1>2, Unmoved
<1>3. CASE RootSteps
  BY <1>1, <1>3, RootTicks
<1>4. CASE RootJoinsConstruction \/ RootVotes
  <2>1. \E c : Join(Root, c) /\ c # FinalBarrier
    BY <1>4 DEF RootJoinsConstruction, RootVotes, Construction, FinalBarrier, TypeOK, A!TypeOK
  <2>2. FinalBarrier \in joined'[Root] => FinalBarrier \in joined[Root]
    BY <2>1, JoinAdds
  <2> QED
    BY <2>2, ReturnedStays DEF EndInv
<1>5. CASE RootJoinsBarrier
  BY <1>5, ReturnedStays DEF RootJoinsBarrier, OutcomeInv
<1>6. ASSUME NEW w \in Workers, WorkerStep(w) PROVE joined'[Root] = joined[Root]
  <2>1. joined' = joined \/ \E c : Join(w, c)
    BY <1>6, WorkerMoves, WorkerTicks
  <2> QED
    BY <2>1, JoinAdds DEF Ranks
<1> QED
  BY <1>1, <1>2, <1>3, <1>4, <1>5, <1>6, StepKinds DEF AdapterStep, JoinStep

LEMMA LockStepStep ==
  ASSUME TypeOK, AdapterInv, OutcomeInv, LockStepInv, [Next]_vars
  PROVE  LockStepInv'
<1>1. JoinedInv' /\ ExecutedInv'
  BY JoinedStep, ExecutedStep DEF LockStepInv
<1>2. EndInv'
  BY WorkerEndStep, RootEndStep, BarrierStep DEF LockStepInv, EndInv
<1> QED
  BY <1>1, <1>2 DEF LockStepInv
-----------------------------------------------------------------------------
(* The moment of the signal. *)

\* The ticks that rank 0 has voted on are the first ones, and no rank is past them.
LEMMA VotedTicks ==
  ASSUME TypeOK, JoinedInv, ExecutedInv
  PROVE  LET v == Cardinality(joined[Root] \cap (1..Ticks))
         IN  /\ v \in 0..Ticks
             /\ \A r \in Ranks : TickOf(r) <= v
             /\ \A c \in joined[Root] \cap (1..Ticks) : c <= v
<1> DEFINE voted == joined[Root] \cap (1..Ticks)
<1> Ticks \in Nat /\ Root \in Ranks /\ TickOf(Root) = tick /\ tick \in 0..Ticks
  BY RunnerAssumption, TicksAreNumbers DEF Ranks, TickOf
<1>1. \A c \in voted : c <= tick + 1
  BY DEF JoinedInv, FinalBarrier
<1>2. \A t \in 1..tick : t \in voted
  BY DEF ExecutedInv, Released
<1>3. PICK v \in {tick, tick + 1} : voted = 1..v /\ v <= Ticks
  <2>1. CASE tick + 1 \in voted
    BY <1>1, <1>2, <2>1
  <2>2. CASE tick + 1 \notin voted
    BY <1>1, <1>2, <2>2
  <2> QED
    BY <2>1, <2>2
<1>4. Cardinality(voted) = v
  <2>1. v \in Int /\ v >= 0
    BY <1>3
  <2>2. Cardinality(1..v) = v
    BY <2>1, FS_Interval
  <2> QED
    BY <1>3, <2>2
<1>5. ASSUME NEW r \in Ranks PROVE TickOf(r) <= v
  <2>1. TickOf(r) \in 0..Ticks
    BY TicksAreNumbers
  <2>2. TickOf(r) > 0 => TickOf(r) \in voted
    BY <2>1 DEF ExecutedInv, Released
  <2> QED
    BY <1>3, <2>1, <2>2
<1> QED
  BY <1>3, <1>4, <1>5

LEMMA SignalsGrow ==
  ASSUME modelSignals \in Nat, [A!Next]_A!adapterVars
  PROVE  modelSignals' \in Nat /\ modelSignals' >= modelSignals
BY DEF A!Next, A!StartStep, A!Start, A!Build, A!PublishModel, A!ModelSteps,
       A!ModelReturns, A!ModelRaises, A!Flush, A!FlushRaises, A!Seal, A!Cancel,
       A!adapterVars

\* A step that moves no rank and joins nothing may signal the model.
LEMMA SignalKept ==
  ASSUME TypeOK, JoinedInv, ExecutedInv, SignalInv, [Next]_vars,
         UNCHANGED <<tick, workerTick, joined>>
  PROVE  SignalInv'
<1> DEFINE v == Cardinality(joined[Root] \cap (1..Ticks))
<1> Root \in Ranks
  BY DEF Ranks
<1>1. modelSignals \in Nat /\ modelSignals' \in Nat /\ modelSignals' >= modelSignals
  BY AdapterSteps, SignalsGrow DEF TypeOK, A!TypeOK
<1>2. \A r \in Ranks : TickOf(r)' = TickOf(r)
  BY DEF TickOf
<1>3. CASE modelSignals = 0 /\ modelSignals' > 0
  <2>1. votedAtSignal' = v
    <3>1. CASE UNCHANGED vars
      BY <1>3, <3>1 DEF vars, adapterVars
    <3>2. CASE Next
      BY <1>3, <3>2, StepKinds DEF NoteSignal
    <3> QED
      BY <3>1, <3>2
  <2>2. (\A r \in Ranks : TickOf(r) <= v) /\ (\A c \in joined[Root] \cap (1..Ticks) : c <= v)
        /\ v \in 0..Ticks
    BY VotedTicks
  <2>3. \A c \in joined[Root] \cap (1..Ticks) : ~(c > v)
    BY <2>2, RunnerAssumption
  <2> HIDE DEF v
  <2> QED
    BY <1>2, <2>1, <2>2, <2>3 DEF SignalInv, Ranks
<1>4. CASE modelSignals > 0
  <2>1. votedAtSignal' = votedAtSignal
    <3>1. CASE UNCHANGED vars
      BY <3>1 DEF vars
    <3>2. CASE Next
      BY <1>4, <3>2, StepKinds DEF NoteSignal
    <3> QED
      BY <3>1, <3>2
  <2> QED
    BY <1>2, <1>4, <2>1, VotesAreFinal DEF SignalInv, Ranks
<1>5. CASE modelSignals' = 0
  BY <1>5 DEF SignalInv
<1> QED
  BY <1>1, <1>3, <1>4, <1>5

LEMMA SignalStep ==
  ASSUME TypeOK, JoinedInv, ExecutedInv, SignalInv, [Next]_vars
  PROVE  SignalInv'
<1> Ticks \in Nat /\ Root \notin Workers /\ Root \in Ranks
  BY RunnerAssumption DEF Ranks
<1>1. CASE UNCHANGED vars \/ OutsideStep \/ CancelStep \/ RootLocal \/ RootBuilds \/ RootEnds
  BY <1>1, Unmoved, SignalKept
<1>2. ASSUME modelSignals' = modelSignals, Next
      PROVE  votedAtSignal' = votedAtSignal
  BY <1>2, StepKinds DEF NoteSignal, TypeOK, A!TypeOK
\* A tick that every rank has voted to go on with was voted on before the signal.
<1>3. ASSUME NEW t \in 1..Ticks, Released(t), t \notin stopVotes, modelSignals > 0
      PROVE  t <= votedAtSignal
  <2>1. votedAtSignal \in 0..Ticks
    BY DEF TypeOK
  <2>2. t \in joined[Root]
    BY <1>3 DEF Released
  <2> QED
    BY <1>3, <2>1, <2>2 DEF SignalInv
<1>4. CASE RootSteps /\ Next
  <2>1. tick + 1 \in 1..Ticks
    BY <1>4, RootTicks DEF TypeOK, A!TypeOK
  <2>2. modelSignals > 0 => tick + 1 <= votedAtSignal
    BY <1>3, <1>4, <2>1, RootTicks
  <2>3. \A r \in Ranks : TickOf(r)' = IF r = Root THEN tick + 1 ELSE TickOf(r)
    BY <1>4, RootTicks DEF TickOf
  <2> QED
    BY <1>2, <1>4, <2>2, <2>3, RootTicks DEF SignalInv, Ranks
<1>5. CASE RootJoinsConstruction /\ Next
  <2>1. \A c \in joined'[Root] \cap (1..Ticks) : c \in joined[Root]
    BY <1>5, JoinAdds DEF RootJoinsConstruction, Construction
  <2> QED
    BY <1>2, <1>5, <2>1, JoinFacts
       DEF RootJoinsConstruction, JoinStep, SignalInv, TickOf, adapterVars, workerVars
<1>6. CASE RootJoinsBarrier /\ Next
  <2>1. \A c \in joined'[Root] \cap (1..Ticks) : c \in joined[Root]
    BY <1>6, JoinAdds DEF RootJoinsBarrier, FinalBarrier
  <2> QED
    BY <1>2, <1>6, <2>1, JoinFacts
       DEF RootJoinsBarrier, JoinStep, SignalInv, TickOf, adapterVars, workerVars
<1>7. CASE RootVotes /\ Next
  <2>1. \A c \in joined'[Root] \cap (1..Ticks) : c \in joined[Root] \/ c = tick + 1
    BY <1>7, JoinAdds DEF RootVotes
  <2>2. modelSignals > 0 => stopVotes' = stopVotes \cup {tick + 1}
    BY <1>7 DEF RootVotes
  <2> QED
    BY <1>2, <1>7, <2>1, <2>2, JoinFacts
       DEF JoinStep, SignalInv, TickOf, adapterVars, workerVars
<1>8. ASSUME NEW w \in Workers, WorkerStep(w), Next PROVE SignalInv'
  <2>1. UNCHANGED <<tick, modelSignals, stopVotes>>
    BY <1>8, WorkerFacts DEF adapterVars
  <2>2. joined'[Root] = joined[Root]
    <3>1. joined' = joined \/ \E c : Join(w, c)
      BY <1>8, WorkerMoves, WorkerTicks
    <3> QED
      BY <3>1, JoinAdds DEF Ranks
  <2>3. \A r \in Ranks : modelSignals > 0 => TickOf(r)' <= votedAtSignal
    <3>1. CASE workerTick' = workerTick
      BY <2>1, <3>1 DEF SignalInv, TickOf
    <3>2. CASE WorkerSteps(w)
      <4>1. workerTick[w] + 1 \in 1..Ticks
        BY <3>2, WorkerTicks DEF TypeOK
      <4>2. modelSignals > 0 => workerTick[w] + 1 <= votedAtSignal
        BY <1>3, <3>2, <4>1, WorkerTicks
      <4>3. \A r \in Ranks : TickOf(r)' = IF r = w THEN workerTick[w] + 1 ELSE TickOf(r)
        BY <1>8, <2>1, <3>2, WorkerTicks, WorkerMoves DEF TickOf, Ranks
      <4> QED
        BY <4>2, <4>3 DEF SignalInv
    <3> QED
      BY <1>8, <3>1, <3>2, WorkerMoves
  <2> QED
    BY <1>2, <1>8, <2>1, <2>2, <2>3 DEF SignalInv, Ranks
<1> QED
  BY <1>1, <1>4, <1>5, <1>6, <1>7, <1>8, StepKinds DEF AdapterStep, JoinStep
-----------------------------------------------------------------------------
(* Types. *)

RootTypeOK ==
  /\ control \in {"down", "up", "stopped"}
  /\ rootPc \in RootPcs
  /\ rootError \in H!Errors
  /\ dispatched \in BOOLEAN
  /\ abortRequired \in BOOLEAN
  /\ brokerClosed \in BOOLEAN
  /\ aborted \in BOOLEAN

LEMMA RootTypeStep ==
  ASSUME RootTypeOK, [Next]_vars
  PROVE  RootTypeOK'
<1> USE DEF RootTypeOK
<1>1. CASE UNCHANGED vars
  BY <1>1 DEF vars, rootVars, mpiVars
<1>2. CASE OutsideStep
  <2>1. CASE OpenControl \/ OpenFlight \/ LaunchShutdown \/ LaunchClose
    BY <2>1 DEF OpenControl, OpenFlight, LaunchShutdown, LaunchClose, RootPcs, mpiVars
  <2>2. CASE LaunchRelease \/ Release
    BY <2>2 DEF LaunchRelease, Release, ReleaseWorkers, RootPcs
  <2>3. CASE \E e \in {"exception", "interrupt"} : LaunchRaises(e) \/ RootRaises(e)
    BY <2>3 DEF LaunchRaises, RootRaises, RootPcs, H!Errors, mpiVars
  <2>4. CASE TakeRequest \/ Prepare \/ Resolve \/ Expose \/ RootLeavesAdapter \/ RootLeavesBarrier
    BY <2>4 DEF TakeRequest, Prepare, Resolve, Expose, RootLeavesAdapter, RootLeavesBarrier,
                RootGoes, RootPcs, mpiVars
  <2>5. CASE Dispatch \/ CloseBroker
    BY <2>5 DEF Dispatch, CloseBroker, RootPcs, H!Errors, mpiVars
  <2>6. CASE AnswerCallback \/ RootAborts \/ StopServing
    BY <2>6 DEF AnswerCallback, RootAborts, StopServing, RootPcs, mpiVars, rootVars
  <2>7. CASE \/ \E w \in Workers : WorkerRaises(w)
             \/ NewCall
             \/ \E c \in Callbacks : CallbackEnds(c)
    BY <2>7 DEF WorkerRaises, NewCall, CallbackEnds, mpiVars, rootVars
  <2> QED
    BY <1>2, <2>1, <2>2, <2>3, <2>4, <2>5, <2>6, <2>7 DEF OutsideStep
<1>3. CASE CancelStep
  BY <1>3 DEF CancelStep, Relay, CancelReaches, RootGoes, RootPcs, mpiVars, rootVars
<1>4. CASE AdapterStep
  BY <1>4 DEF AdapterStep, RootLocal, RootBuilds, RootSteps, RootEnds, RootInAdapter, rootVars
<1>5. CASE JoinStep \/ \E w \in Workers : WorkerStep(w)
  BY <1>5, JoinFacts, WorkerFacts DEF rootVars
<1> QED
  BY <1>1, <1>2, <1>3, <1>4, <1>5, StepKinds

LEMMA InboxTypeStep ==
  ASSUME TypeOK, [Next]_vars
  PROVE  inbox' \in [Workers -> Seq({"start", "abort"})]
<1> inbox \in [Workers -> Seq({"start", "abort"})]
  BY DEF TypeOK
<1>1. ASSUME NEW kind \in {"start", "abort"}, NEW reached, Broadcast(kind, reached)
      PROVE  inbox' \in [Workers -> Seq({"start", "abort"})]
  BY <1>1 DEF Broadcast
<1>2. CASE UNCHANGED vars
  BY <1>2 DEF vars, mpiVars
<1>3. CASE LaunchRelease \/ Release
  BY <1>1, <1>3 DEF LaunchRelease, Release, ReleaseWorkers
<1>4. CASE Dispatch
  BY <1>1, <1>4 DEF Dispatch
<1>5. CASE \/ OpenControl \/ OpenFlight \/ LaunchShutdown \/ LaunchClose
           \/ \E e \in {"exception", "interrupt"} : LaunchRaises(e) \/ RootRaises(e)
           \/ TakeRequest \/ Prepare \/ Resolve \/ Expose
           \/ RootLeavesAdapter \/ RootLeavesBarrier
  BY <1>5 DEF OpenControl, OpenFlight, LaunchShutdown, LaunchClose, LaunchRaises, RootRaises,
              TakeRequest, Prepare, Resolve, Expose, RootLeavesAdapter, RootLeavesBarrier,
              mpiVars
<1>6. CASE \/ CloseBroker \/ AnswerCallback \/ RootAborts \/ StopServing
           \/ \E w \in Workers : WorkerRaises(w)
           \/ NewCall
           \/ \E c \in Callbacks : CallbackEnds(c)
  BY <1>6 DEF CloseBroker, AnswerCallback, RootAborts, StopServing, WorkerRaises, NewCall,
              CallbackEnds, mpiVars
<1>7. CASE CancelStep \/ AdapterStep
  BY <1>7 DEF CancelStep, Relay, CancelReaches, AdapterStep, RootLocal, RootBuilds,
              RootSteps, RootEnds, RootInAdapter, mpiVars
<1>8. CASE JoinStep \/ \E w \in Workers : WorkerStep(w)
  BY <1>8, JoinFacts, WorkerFacts
<1> QED
  BY <1>2, <1>3, <1>4, <1>5, <1>6, <1>7, <1>8, StepKinds DEF OutsideStep

LEMMA WorkerTypeStep ==
  ASSUME TypeOK, [Next]_vars
  PROVE  workerPc' \in [Workers -> WorkerPcs] /\ workerTick' \in [Workers -> 0..Ticks]
<1> workerPc \in [Workers -> WorkerPcs] /\ workerTick \in [Workers -> 0..Ticks]
  BY DEF TypeOK
<1>1. CASE UNCHANGED vars \/ OutsideStep \/ CancelStep \/ RootLocal \/ RootBuilds \/ RootEnds
  BY <1>1, Unmoved
<1>2. CASE RootSteps \/ JoinStep
  BY <1>2, RootTicks, JoinFacts DEF workerVars
<1>3. ASSUME NEW w \in Workers, WorkerStep(w)
      PROVE  workerPc' \in [Workers -> WorkerPcs] /\ workerTick' \in [Workers -> 0..Ticks]
  <2>1. CASE WorkerReceives(w) \/ WorkerBuilds(w) \/ WorkerEnds(w) \/ WorkerExits(w)
    BY <2>1 DEF WorkerReceives, WorkerBuilds, WorkerEnds, WorkerExits, WorkerGoes, WorkerPcs
  <2>2. CASE WorkerJoinsConstruction(w) \/ WorkerVotes(w) \/ WorkerJoinsBarrier(w)
    BY <2>2 DEF WorkerJoinsConstruction, WorkerVotes, WorkerJoinsBarrier, WorkerGoes, WorkerPcs
  <2>3. CASE WorkerSteps(w)
    <3>1. workerTick[w] + 1 \in 0..Ticks
      BY <2>3, RunnerAssumption DEF WorkerSteps
    <3> QED
      BY <2>3, <3>1 DEF WorkerSteps, WorkerGoes, WorkerPcs
  <2> QED
    BY <1>3, <2>1, <2>2, <2>3 DEF WorkerStep
<1> QED
  BY <1>1, <1>2, <1>3, StepKinds DEF AdapterStep

LEMMA VoteTypeStep ==
  ASSUME TypeOK, JoinedInv, ExecutedInv, [Next]_vars
  PROVE  stopVotes' \in SUBSET (1..Ticks) /\ votedAtSignal' \in 0..Ticks
<1> stopVotes \in SUBSET (1..Ticks) /\ votedAtSignal \in 0..Ticks
  BY DEF TypeOK
<1>1. stopVotes' \in SUBSET (1..Ticks)
  <2>1. CASE UNCHANGED vars \/ OutsideStep \/ CancelStep \/ RootLocal \/ RootBuilds \/ RootEnds
    BY <2>1, Unmoved
  <2>2. CASE RootSteps \/ RootJoinsConstruction \/ RootJoinsBarrier
    BY <2>2, RootTicks DEF RootJoinsConstruction, RootJoinsBarrier
  <2>3. CASE RootVotes
    <3>1. tick + 1 \in 1..Ticks
      BY <2>3, RunnerAssumption DEF RootVotes, TypeOK, A!TypeOK
    <3> QED
      BY <2>3, <3>1 DEF RootVotes
  <2>4. CASE \E w \in Workers : WorkerStep(w)
    BY <2>4, WorkerFacts
  <2> QED
    BY <2>1, <2>2, <2>3, <2>4, StepKinds DEF AdapterStep, JoinStep
<1>2. votedAtSignal' \in 0..Ticks
  <2>1. CASE UNCHANGED vars
    BY <2>1 DEF vars
  <2>2. CASE Next
    BY <2>2, StepKinds, VotedTicks DEF NoteSignal
  <2> QED
    BY <2>1, <2>2
<1> QED
  BY <1>1, <1>2
-----------------------------------------------------------------------------
LEMMA InitInv == Init => IInv
<1> SUFFICES ASSUME Init PROVE IInv
  OBVIOUS
<1> Ticks \in Nat /\ Root \notin Workers
  BY RunnerAssumption
<1>1. HP!IInv
  <2>1. HP!Init
    BY DEF Init, H!Init, HP!Init
  <2> QED
    BY <2>1, HP!InitIInv, RunnerAssumption DEF HP!ThreadsAssumption
<1>2. AdapterInv
  BY AdapterInit DEF Init
<1>3. TypeOK
  <2>1. A!Init
    BY DEF Init
  <2>2. A!TypeOK
    <3>1. tick \in 0..Ticks /\ modelSignals \in Nat /\ closes \in Nat
      BY <2>1 DEF A!Init
    <3> QED
      BY <2>1, <3>1 DEF A!Init, A!TypeOK, A!Stages
  <2>3. H!TypeOK
    BY <1>1, HandoffTypes
  <2>4. /\ inbox \in [Workers -> Seq({"start", "abort"})]
        /\ joined \in [Ranks -> SUBSET Collectives]
    BY DEF Init
  <2>5. workerPc \in [Workers -> WorkerPcs] /\ workerTick \in [Workers -> 0..Ticks]
    BY DEF Init, WorkerPcs
  <2>6. RootTypeOK
    BY DEF Init, RootTypeOK, RootPcs, H!Errors
  <2>7. stopVotes \in SUBSET (1..Ticks) /\ votedAtSignal \in 0..Ticks
    BY DEF Init
  <2> QED
    BY <2>2, <2>3, <2>4, <2>5, <2>6, <2>7 DEF TypeOK, RootTypeOK
<1>4. OutcomeInv
  BY DEF Init, H!Init, OutcomeInv, FailedPcs, AfterRun
<1>5. InboxInv
  BY DEF Init, InboxInv
<1>6. LockStepInv
  <2>1. \A r \in Ranks : TickOf(r) = 0 /\ joined[r] = {}
    BY DEF Init, A!Init, TickOf, Ranks
  <2>2. ~succeeded
    BY DEF Init, A!Init
  <2> QED
    BY <2>1, <2>2 DEF Init, LockStepInv, JoinedInv, ExecutedInv, EndInv, Ranks
<1>7. SignalInv
  BY DEF Init, A!Init, SignalInv
<1> QED
  BY <1>1, <1>2, <1>3, <1>4, <1>5, <1>6, <1>7 DEF IInv

LEMMA NextInv == IInv /\ [Next]_vars => IInv'
<1> SUFFICES ASSUME IInv, [Next]_vars PROVE IInv'
  OBVIOUS
<1> USE DEF IInv
<1>1. HP!IInv'
  <2>1. [HP!Next]_HP!handoffVars
    BY HandoffSteps DEF TypeOK
  <2> QED
    BY <2>1, HP!NextIInv, RunnerAssumption DEF HP!ThreadsAssumption
<1>2. [A!Next]_A!adapterVars
  BY AdapterSteps
<1>3. AdapterInv'
  BY <1>2, AdapterNext
<1>4. OutcomeInv' /\ InboxInv'
  <2>1. aborted \in BOOLEAN
    BY DEF TypeOK
  <2> QED
    BY <2>1, OutcomeStep, InboxStep
<1>5. LockStepInv' /\ SignalInv'
  BY LockStepStep, SignalStep DEF LockStepInv
<1>6. TypeOK'
  <2>1. H!TypeOK'
    BY <1>1, HandoffTypes
  <2>2. A!TypeOK'
    BY <1>2, <1>3, AdapterTypes DEF TypeOK
  <2>3. RootTypeOK'
    BY RootTypeStep DEF TypeOK, RootTypeOK
  <2>4. joined' \in [Ranks -> SUBSET Collectives]
    BY JoinedGrows
  <2> QED
    BY <2>1, <2>2, <2>3, <2>4, InboxTypeStep, WorkerTypeStep, VoteTypeStep
       DEF TypeOK, RootTypeOK, LockStepInv, Ranks, Collectives
<1> QED
  BY <1>1, <1>3, <1>4, <1>5, <1>6
-----------------------------------------------------------------------------
(* Theorems. *)

\* Every rank, the broadcast, the handoff and the adapter stay in step with each other,
\* as IInv says, for any number of workers, ticks, callbacks and cancels.
THEOREM Invariance == Spec => []IInv
  BY InitInv, NextInv, PTL DEF Spec

\* "Rank 0's control callback must not report a terminal state while workers are still
\* executing": a callback returns normally only when all ranks are past one and the
\* same last tick, with their output written and the stream closed.
THEOREM SuccessIsEveryones == Spec => []SuccessMeansEveryRankIsDone
<1>1. IInv => SuccessMeansEveryRankIsDone
  <2> SUFFICES ASSUME IInv, NEW c \in Callbacks, submitState[c] = "returned"
               PROVE  /\ brokerClosed /\ closes = 1
                      /\ \A w \in Workers : /\ workerPc[w] \in {"barrier", "exited"}
                                            /\ workerTick[w] = tick
    BY DEF IInv, SuccessMeansEveryRankIsDone
  <2> Ticks \in Nat /\ Root \notin Workers
    BY RunnerAssumption
  <2>1. finished /\ error = "none"
    BY DEF IInv, HP!IInv, HP!OnlyOwnerReturns
  <2>2. A!StartReturned /\ (Workers = {} \/ Released(FinalBarrier)) /\ brokerClosed
    BY <2>1 DEF IInv, OutcomeInv, FailedPcs, AfterRun
  <2>3. closes = 1
    BY <2>2 DEF IInv, AdapterInv, SinkInv, A!StartReturned
  <2>4. ASSUME NEW w \in Workers
        PROVE  workerPc[w] \in {"barrier", "exited"} /\ workerTick[w] = tick
    <3>1. /\ workerPc[w] \in {"barrier", "exited"}
          /\ AtEnd(workerTick[w]) /\ AtEnd(tick)
      BY <2>2 DEF IInv, LockStepInv, EndInv, Released, Ranks, A!StartReturned
    <3>2. tick \in 0..Ticks /\ workerTick[w] \in 0..Ticks
      BY DEF IInv, TypeOK, A!TypeOK
    <3>3. /\ \A t \in 1..tick : t \notin stopVotes
          /\ \A t \in 1..workerTick[w] : t \notin stopVotes
      BY DEF IInv, LockStepInv, ExecutedInv, TickOf, Ranks
    <3> QED
      BY <3>1, <3>2, <3>3 DEF AtEnd
  <2> QED
    BY <2>2, <2>3, <2>4
<1> QED BY <1>1, Invariance, PTL

\* No rank waits in a collective that the others have left out: the workers hear one
\* message, no rank is more than one tick ahead of another, and all end at one tick.
THEOREM LockStep == Spec => []RanksStayTogether
<1>1. IInv => RanksStayTogether
  <2> SUFFICES ASSUME IInv PROVE RanksStayTogether
    OBVIOUS
  <2> Ticks \in Nat /\ Root \notin Workers
    BY RunnerAssumption
  <2>1. ASSUME NEW v \in Workers, NEW w \in Workers
        PROVE  Len(inbox[v]) <= 1 /\ (inbox[v] # <<>> /\ inbox[w] # <<>> => inbox[v] = inbox[w])
    <3>1. PICK k \in {"start", "abort"} : inbox[v] \in {<<>>, <<k>>} /\ inbox[w] \in {<<>>, <<k>>}
      BY DEF IInv, InboxInv
    <3>2. Len(<<>>) = 0 /\ Len(<<k>>) = 1
      OBVIOUS
    <3>3. CASE inbox[v] = <<>>
      BY <3>2, <3>3
    <3>4. CASE inbox[v] = <<k>>
      BY <3>1, <3>2, <3>4
    <3> QED
      BY <3>1, <3>3, <3>4
  <2>2. ASSUME NEW r \in Ranks, NEW s \in Ranks
        PROVE  TickOf(r) <= TickOf(s) + 1
    <3>1. TickOf(r) \in 0..Ticks /\ TickOf(s) \in 0..Ticks
      BY TicksAreNumbers DEF IInv
    <3>2. TickOf(r) > 0 => TickOf(r) \in joined[s]
      BY <3>1 DEF IInv, LockStepInv, ExecutedInv, Released
    <3> QED
      BY <3>1, <3>2 DEF IInv, LockStepInv, JoinedInv, FinalBarrier
  <2>3. ASSUME NEW r \in Ranks, FinalBarrier \in joined[r]
        PROVE  AtEnd(TickOf(r))
    BY <2>3 DEF IInv, LockStepInv, EndInv, TickOf, Ranks, A!StartReturned
  <2>4. ASSUME NEW r \in Ranks, NEW s \in Ranks,
               FinalBarrier \in joined[r], FinalBarrier \in joined[s]
        PROVE  TickOf(r) = TickOf(s)
    <3>1. TickOf(r) \in 0..Ticks /\ TickOf(s) \in 0..Ticks
      BY TicksAreNumbers DEF IInv
    <3>2. AtEnd(TickOf(r)) /\ AtEnd(TickOf(s))
      BY <2>3, <2>4
    <3>3. /\ \A t \in 1..TickOf(r) : t \notin stopVotes
          /\ \A t \in 1..TickOf(s) : t \notin stopVotes
      BY DEF IInv, LockStepInv, ExecutedInv
    <3> QED
      BY <3>1, <3>2, <3>3 DEF AtEnd
  <2> QED
    BY <2>1, <2>2, <2>4 DEF RanksStayTogether
<1> QED BY <1>1, Invariance, PTL

\* "Cancellation latency is at most one tick", on every rank and not only on the one
\* whose model is signalled.
THEOREM CancelLatency == Spec => []CancelStopsEveryRank
<1>1. IInv => CancelStopsEveryRank
  BY DEF IInv, SignalInv, CancelStopsEveryRank
<1> QED BY <1>1, Invariance, PTL

\* The launcher uses the handoff as its class allows: whatever rank 0 and the control
\* server's threads do is a behaviour of RunnerHandoff.
THEOREM KeepsHandoff == Spec => HP!Spec
<1>1. Init => HP!Init
  BY DEF Init, H!Init, HP!Init
<1>2. IInv /\ [Next]_vars => [HP!Next]_HP!handoffVars
  BY HandoffSteps DEF IInv, TypeOK
<1> QED
  BY <1>1, <1>2, Invariance, PTL DEF Spec, HP!Spec

\* Rank 0 drives its adapter as one start with concurrent cancels, with the collective
\* tick loop in the place of the model.
THEOREM KeepsAdapter == Spec => A!Spec
<1>1. Init => A!Init
  BY DEF Init
<1>2. [Next]_vars => [A!Next]_A!adapterVars
  BY AdapterSteps
<1> QED
  BY <1>1, <1>2, PTL DEF Spec, A!Spec
-----------------------------------------------------------------------------
(* The embedded launcher, which drives the same adapter for a single       *)
(* process.  The variables of rank 0 and of its handoff stand for those of *)
(* the session that have the same name.                                    *)

VARIABLES
  started,         \* see RunSession
  sessionFailed,   \* failed
  sessionPc        \* pc

S == INSTANCE RunSession WITH failed <- sessionFailed, pc <- sessionPc

SessionPcs ==
  {"idle", "preparing", "exposing", "adapter", "finishing", "closing", "returned", "raised"}

\* One thread at most has had its run accepted, and only from then on is any past idle.
AcceptedInv ==
  /\ sessionPc \in [Callbacks -> SessionPcs]
  /\ ~started => \A c \in Callbacks : sessionPc[c] = "idle"
  /\ \A c, d \in Callbacks :
       sessionPc[c] \notin {"idle", "raised"} /\ sessionPc[d] \notin {"idle", "raised"} => c = d

\* The adapter is exposed while it runs, and a cancel that was requested has reached an
\* exposed adapter unless that had been sealed.
RequestInv ==
  /\ \A c \in Callbacks : sessionPc[c] = "adapter" => adapterSet
  /\ adapterSet /\ cancelRequested => cancelled \/ adapterFinished
  /\ adapterFinished => stage = "done"

SessionInv == AcceptedInv /\ RequestInv

\* A step of start keeps a cancel that came before it, and seals a run that ends.
LEMMA StartKeepsCancel ==
  ASSUME S!A!StartStep, adapterFinished => stage = "done"
  PROVE  /\ cancelled' = cancelled
         /\ adapterFinished => adapterFinished'
         /\ adapterFinished' => stage' = "done"
BY DEF S!A!StartStep, S!A!Start, S!A!Build, S!A!PublishModel, S!A!ModelSteps, S!A!ModelReturns,
       S!A!ModelRaises, S!A!Flush, S!A!FlushRaises, S!A!Seal

\* adapter.cancel() cancels an adapter that is not sealed, and does nothing else to start.
LEMMA CancelCancels ==
  ASSUME S!A!Cancel
  PROVE  /\ cancelled' \/ adapterFinished
         /\ cancelled => cancelled'
         /\ UNCHANGED <<stage, adapterFinished, state>>
BY DEF S!A!Cancel

LEMMA SessionInit == S!Init => SessionInv
BY DEF S!Init, S!A!Init, SessionInv, AcceptedInv, RequestInv, SessionPcs

\* How the callback threads move.
LEMMA SessionMoves ==
  ASSUME SessionInv, S!Next
  PROVE  AcceptedInv'
<1> USE DEF SessionInv, AcceptedInv, SessionPcs
<1>1. ASSUME NEW c \in Callbacks, S!RunAccepted(c) PROVE AcceptedInv'
  BY <1>1 DEF S!RunAccepted, S!Goes
<1>2. ASSUME NEW c \in Callbacks, S!RunRefused(c) PROVE AcceptedInv'
  BY <1>2 DEF S!RunRefused, S!Goes
<1>3. ASSUME NEW c \in Callbacks, NEW from \in SessionPcs \ {"idle", "raised"},
             NEW to \in SessionPcs, S!Goes(c, from, to), UNCHANGED started
      PROVE  AcceptedInv'
  BY <1>3 DEF S!Goes
<1>4. ASSUME NEW c \in Callbacks, S!Prepare(c) \/ S!Expose(c) \/ S!AdapterReturns(c) \/ S!Finish(c)
      PROVE  AcceptedInv'
  BY <1>3, <1>4 DEF S!Prepare, S!Expose, S!AdapterReturns, S!Finish
<1>5. ASSUME NEW c \in Callbacks, S!RunRaises(c) \/ S!CloseBroker(c) PROVE AcceptedInv'
  BY <1>3, <1>5 DEF S!RunRaises, S!CloseBroker
<1>6. ASSUME UNCHANGED <<started, sessionPc>> PROVE AcceptedInv'
  BY <1>6
<1>7. ASSUME NEW c \in Callbacks, S!AdapterStep(c) PROVE AcceptedInv'
  BY <1>6, <1>7 DEF S!AdapterStep, S!sessionVars
<1>8. CASE S!Cancel
  BY <1>6, <1>8 DEF S!Cancel
<1> QED
  BY <1>1, <1>2, <1>4, <1>5, <1>7, <1>8 DEF S!Next, S!RunStep

LEMMA SessionNext == SessionInv /\ [S!Next]_S!vars => SessionInv'
<1> SUFFICES ASSUME SessionInv, [S!Next]_S!vars PROVE SessionInv'
  OBVIOUS
<1>1. CASE UNCHANGED S!vars
  BY <1>1 DEF S!vars, S!adapterVars, S!sessionVars, SessionInv, AcceptedInv, RequestInv
<1>2. CASE S!Next
  <2>1. AcceptedInv'
    BY <1>2, SessionMoves
  <2> USE DEF SessionInv, AcceptedInv, RequestInv
  <2>2. ASSUME NEW c \in Callbacks, S!RunAccepted(c) \/ S!RunRefused(c) \/ S!Prepare(c)
        PROVE  RequestInv'
    BY <2>2 DEF S!RunAccepted, S!RunRefused, S!Prepare, S!Goes, S!adapterVars
  <2>3. ASSUME NEW c \in Callbacks, S!Expose(c) PROVE RequestInv'
    BY <2>3, CancelCancels DEF S!Expose, S!Goes, S!adapterVars
  <2>4. ASSUME NEW c \in Callbacks, S!AdapterStep(c) PROVE RequestInv'
    BY <2>4, StartKeepsCancel DEF S!AdapterStep, S!sessionVars
  <2>5. ASSUME NEW c \in Callbacks, S!AdapterReturns(c) \/ S!RunRaises(c) \/ S!CloseBroker(c)
        PROVE  RequestInv'
    BY <2>5 DEF S!AdapterReturns, S!RunRaises, S!CloseBroker, S!Goes, S!adapterVars
  <2>6. ASSUME NEW c \in Callbacks, S!Finish(c) PROVE RequestInv'
    <3>1. \A d \in Callbacks : sessionPc'[d] # "adapter"
      BY <2>6 DEF S!Finish, S!Goes
    <3> QED
      BY <2>6, <3>1 DEF S!Finish, S!adapterVars
  <2>7. CASE S!Cancel
    BY <2>7, CancelCancels DEF S!Cancel, S!adapterVars
  <2> QED
    BY <1>2, <2>1, <2>2, <2>3, <2>4, <2>5, <2>6, <2>7 DEF S!Next, S!RunStep
<1> QED
  BY <1>1, <1>2

\* A run of the embedded session that was cancelled before its adapter sealed it never
\* calls itself completed: the request reached the adapter when it was made, or when the
\* adapter was exposed.
THEOREM CancelledNeverCompletes == S!Spec => S!CancelledRunNeverCompletes
<1>1. SessionInv /\ [S!Next]_S!vars =>
        [state' = "Completed" /\ state # "Completed" => ~cancelRequested]_S!vars
  <2> SUFFICES ASSUME SessionInv, S!Next, state' = "Completed", state # "Completed"
               PROVE  ~cancelRequested
    OBVIOUS
  <2>1. ASSUME NEW c \in Callbacks, S!AdapterStep(c) PROVE ~cancelRequested
    <3>1. S!A!Seal
      BY <2>1 DEF S!AdapterStep, S!A!StartStep, S!A!Start, S!A!Build, S!A!PublishModel,
                  S!A!ModelSteps, S!A!ModelReturns, S!A!ModelRaises, S!A!Flush, S!A!FlushRaises
    <3>2. ~cancelled /\ stage = "sealing"
      BY <3>1 DEF S!A!Seal
    <3> QED
      BY <2>1, <3>2 DEF S!AdapterStep, SessionInv, RequestInv
  <2>2. ASSUME S!Cancel \/ \E c \in Callbacks : S!Expose(c) PROVE FALSE
    BY <2>2, CancelCancels DEF S!Cancel, S!Expose, S!adapterVars
  <2>3. ASSUME NEW c \in Callbacks,
               \/ S!RunAccepted(c) \/ S!RunRefused(c) \/ S!Prepare(c) \/ S!AdapterReturns(c)
               \/ S!RunRaises(c) \/ S!Finish(c) \/ S!CloseBroker(c)
        PROVE  FALSE
    BY <2>3 DEF S!RunAccepted, S!RunRefused, S!Prepare, S!AdapterReturns, S!RunRaises,
                S!Finish, S!CloseBroker, S!adapterVars
  <2> QED
    BY <2>1, <2>2, <2>3 DEF S!Next, S!RunStep
<1> QED
  BY <1>1, SessionInit, SessionNext, PTL DEF S!Spec, S!CancelledRunNeverCompletes
=============================================================================

------------------------ MODULE RunnerHandoff_proofs ------------------------
(***************************************************************************)
(* Proofs about the handoff for any number of callback and cancel threads: *)
(* its invariants, the finality of its outcome, and that it implements     *)
(* RunPromise.                                                             *)
(*                                                                         *)
(* The three safety invariants are not inductive by themselves.  IInv adds *)
(* the bookkeeping that the class relies on without stating it: a claimed  *)
(* delivery is either in exactly one thread's hands or made, it is claimed *)
(* only for a latched request, an exposed adapter excludes a decided run,  *)
(* and only a decided run wakes its callback.                              *)
(***************************************************************************)
EXTENDS RunnerHandoff, FiniteSetTheorems, TLAPS

\* A delivery that nobody has claimed is not under way; a claimed one is in the
\* hands of one thread or has been made.
OneDelivery ==
  /\ ~cancelDelivered => delivering = {} /\ signals = 0
  /\ cancelDelivered =>
       \/ signals = 1 /\ delivering = {}
       \/ signals = 0 /\ \E t \in Cancellers \cup {Main} : delivering = {t}

ClaimsFollowRequests ==
  /\ cancelDelivered => cancelRequested
  /\ adapterSet /\ cancelRequested => cancelDelivered

OutcomeInv ==
  /\ completed => finished
  /\ adapterSet => ~finished
  /\ error # "interrupt"

IInv ==
  /\ TypeOK
  /\ OneDelivery
  /\ ClaimsFollowRequests
  /\ OutcomeInv
  /\ CancelAnswersAreHonest
  /\ OnlyOwnerReturns
-----------------------------------------------------------------------------
LEMMA InitIInv == Init => IInv
<1> SUFFICES ASSUME Init PROVE IInv
  OBVIOUS
<1>1. TypeOK
  BY DEF Init, TypeOK, Errors, SubmitStates, CancelStates
<1>2. OneDelivery /\ ClaimsFollowRequests /\ OutcomeInv
  BY DEF Init, OneDelivery, ClaimsFollowRequests, OutcomeInv
<1>3. CancelAnswersAreHonest /\ OnlyOwnerReturns
  BY DEF Init, CancelAnswersAreHonest, OnlyOwnerReturns
<1> QED
  BY <1>1, <1>2, <1>3 DEF IInv

LEMMA NextIInv == IInv /\ [Next]_handoffVars => IInv'
<1> SUFFICES ASSUME IInv, [Next]_handoffVars PROVE IInv'
  OBVIOUS
<1> USE DEF IInv
<1>1. CASE UNCHANGED handoffVars
  BY <1>1 DEF handoffVars, TypeOK, OneDelivery, ClaimsFollowRequests, OutcomeInv,
              CancelAnswersAreHonest, OnlyOwnerReturns
<1>2. ASSUME NEW c \in Callbacks, SubmitRefused(c) PROVE IInv'
  <2>1. TypeOK'
    BY <1>2 DEF SubmitRefused, TypeOK, Raised, SubmitStates
  <2>2. (OneDelivery /\ ClaimsFollowRequests /\ OutcomeInv /\ CancelAnswersAreHonest)'
    BY <1>2 DEF SubmitRefused, OneDelivery, ClaimsFollowRequests, OutcomeInv,
                CancelAnswersAreHonest
  <2>3. OnlyOwnerReturns'
    BY <1>2 DEF SubmitRefused, TypeOK, Raised, OutcomeInv, OnlyOwnerReturns
  <2> QED
    BY <2>1, <2>2, <2>3
<1>3. ASSUME NEW c \in Callbacks, SubmitAccepted(c) PROVE IInv'
  <2>1. TypeOK'
    BY <1>3 DEF SubmitAccepted, TypeOK, SubmitStates
  <2>2. (OneDelivery /\ ClaimsFollowRequests /\ OutcomeInv /\ CancelAnswersAreHonest)'
    BY <1>3 DEF SubmitAccepted, OneDelivery, ClaimsFollowRequests, OutcomeInv,
                CancelAnswersAreHonest
  <2>3. OnlyOwnerReturns'
    BY <1>3, ThreadsAssumption DEF SubmitAccepted, TypeOK, OnlyOwnerReturns
  <2> QED
    BY <2>1, <2>2, <2>3
<1>4. ASSUME NEW c \in Callbacks, SubmitEnds(c) PROVE IInv'
  <2>1. TypeOK'
    BY <1>4 DEF SubmitEnds, TypeOK, Raised, SubmitStates
  <2>2. (OneDelivery /\ ClaimsFollowRequests /\ OutcomeInv /\ CancelAnswersAreHonest)'
    BY <1>4 DEF SubmitEnds, OneDelivery, ClaimsFollowRequests, OutcomeInv,
                CancelAnswersAreHonest
  <2>3. OnlyOwnerReturns'
    BY <1>4 DEF SubmitEnds, TypeOK, Raised, OutcomeInv, OnlyOwnerReturns
  <2> QED
    BY <2>1, <2>2, <2>3
<1>5. ASSUME NEW k \in Cancellers, CancelDeclined(k) PROVE IInv'
  BY <1>5 DEF CancelDeclined, TypeOK, CancelStates, OneDelivery, ClaimsFollowRequests,
              OutcomeInv, CancelAnswersAreHonest, OnlyOwnerReturns
<1>6. ASSUME NEW k \in Cancellers, CancelLatched(k) PROVE IInv'
  <2>1. TypeOK'
    BY <1>6 DEF CancelLatched, TypeOK, CancelStates
  <2>2. OneDelivery'
    BY <1>6 DEF CancelLatched, OneDelivery
  <2>3. (ClaimsFollowRequests /\ OutcomeInv /\ OnlyOwnerReturns)'
    BY <1>6 DEF CancelLatched, ClaimsFollowRequests, OutcomeInv, OnlyOwnerReturns
  <2>4. CancelAnswersAreHonest'
    BY <1>6 DEF CancelLatched, TypeOK, CancelAnswersAreHonest
  <2> QED
    BY <2>1, <2>2, <2>3, <2>4
<1>7. ASSUME NEW k \in Cancellers, CancelDelivers(k) PROVE IInv'
  <2>1. TypeOK'
    BY <1>7 DEF CancelDelivers, TypeOK, CancelStates
  <2>2. OneDelivery'
    BY <1>7 DEF CancelDelivers, OneDelivery
  <2>3. (ClaimsFollowRequests /\ OutcomeInv /\ OnlyOwnerReturns)'
    BY <1>7 DEF CancelDelivers, ClaimsFollowRequests, OutcomeInv, OnlyOwnerReturns
  <2>4. cancelRequested
    BY <1>7 DEF CancelDelivers, OneDelivery, ClaimsFollowRequests
  <2>5. CancelAnswersAreHonest'
    BY <1>7, <2>4 DEF CancelDelivers, TypeOK, CancelAnswersAreHonest
  <2> QED
    BY <2>1, <2>2, <2>3, <2>5
<1>8. CASE SetAdapter
  <2>1. TypeOK'
    BY <1>8 DEF SetAdapter, TypeOK
  <2>2. (OneDelivery /\ ClaimsFollowRequests)'
    BY <1>8 DEF SetAdapter, OneDelivery, ClaimsFollowRequests
  <2>3. (OutcomeInv /\ CancelAnswersAreHonest /\ OnlyOwnerReturns)'
    BY <1>8 DEF SetAdapter, OutcomeInv, CancelAnswersAreHonest, OnlyOwnerReturns
  <2> QED
    BY <2>1, <2>2, <2>3
<1>9. CASE SetAdapterDelivers
  <2>1. TypeOK'
    BY <1>9 DEF SetAdapterDelivers, TypeOK
  <2>2. OneDelivery'
    BY <1>9 DEF SetAdapterDelivers, OneDelivery
  <2>3. (ClaimsFollowRequests /\ OutcomeInv /\ CancelAnswersAreHonest /\ OnlyOwnerReturns)'
    BY <1>9 DEF SetAdapterDelivers, ClaimsFollowRequests, OutcomeInv,
                CancelAnswersAreHonest, OnlyOwnerReturns
  <2> QED
    BY <2>1, <2>2, <2>3
<1>10. ASSUME NEW e \in Errors, ~finished, FinishLocked(e) PROVE IInv'
  <2>1. TypeOK'
    BY <1>10 DEF FinishLocked, Translated, TypeOK, Errors
  <2>2. (OneDelivery /\ ClaimsFollowRequests /\ CancelAnswersAreHonest)'
    BY <1>10 DEF FinishLocked, OneDelivery, ClaimsFollowRequests, CancelAnswersAreHonest
  <2>3. (OutcomeInv /\ OnlyOwnerReturns)'
    BY <1>10 DEF FinishLocked, Translated, OutcomeInv, OnlyOwnerReturns
  <2> QED
    BY <2>1, <2>2, <2>3
<1>11. CASE Complete
  BY <1>10, <1>11 DEF Complete, Errors
<1>12. ASSUME NEW e \in Errors \ {"none"}, Shutdown(e) PROVE IInv'
  BY <1>10, <1>12 DEF Shutdown
<1> QED
  BY <1>1, <1>2, <1>3, <1>4, <1>5, <1>6, <1>7, <1>8, <1>9, <1>11, <1>12
     DEF Next, Callback, Canceller, MainThread

\* IInv holds throughout: the fact every theorem below rests on.
THEOREM Invariance == Spec => []IInv
  BY InitIInv, NextIInv, PTL DEF Spec

\* Every variable of the handoff keeps its type, for any number of threads.
THEOREM TypeCorrect == Spec => []TypeOK
<1>1. IInv => TypeOK
  BY DEF IInv
<1> QED
  BY <1>1, Invariance, PTL

LEMMA DeliveryCount ==
  ASSUME IInv
  PROVE  signals + Cardinality(delivering) = IF cancelDelivered THEN 1 ELSE 0
<1>1. ASSUME NEW t PROVE Cardinality({t}) = 1
  BY FS_Singleton
<1>2. Cardinality({}) = 0
  BY FS_EmptySet
<1> QED
  BY <1>1, <1>2 DEF IInv, OneDelivery

\* set_adapter and cancel of _MainThreadRunHandoff together call adapter.cancel()
\* at most once, whatever the number of cancel calls and their interleaving.
THEOREM AtMostOnce == Spec => []SignalledAtMostOnce
<1>1. IInv => SignalledAtMostOnce
  BY DeliveryCount DEF SignalledAtMostOnce
<1> QED
  BY <1>1, Invariance, PTL

\* No cancel is lost in the window between cancel and set_adapter of the handoff.
THEOREM NoCancelLost == Spec => []CancelNotLost
<1>1. IInv => CancelNotLost
  BY DeliveryCount DEF IInv, ClaimsFollowRequests, CancelNotLost
<1> QED
  BY <1>1, Invariance, PTL

\* What cancel answers is consistent with the run's outcome.
THEOREM HonestAnswers == Spec => []CancelAnswersAreHonest
<1>1. IInv => CancelAnswersAreHonest
  BY DEF IInv
<1> QED
  BY <1>1, Invariance, PTL

\* submit returns normally only in the thread that owns a run that succeeded.
THEOREM OwnerReturns == Spec => []OnlyOwnerReturns
<1>1. IInv => OnlyOwnerReturns
  BY DEF IInv
<1> QED
  BY <1>1, Invariance, PTL

\* No handler reopens or rewrites a run that complete or shutdown has decided.
THEOREM FinalOutcome == Spec => OutcomeIsFinal
<1> DEFINE Final ==
      finished => /\ finished' /\ error' = error /\ request' = request /\ ~adapterSet'
<1>1. IInv /\ [Next]_handoffVars => [Final]_handoffVars
  <2> SUFFICES ASSUME IInv, Next, finished = TRUE
               PROVE  finished' = TRUE /\ error' = error /\ request' = request /\ ~adapterSet'
    BY DEF IInv, TypeOK
  <2> DEFINE Kept == finished' = finished /\ error' = error /\ request' = request
                     /\ adapterSet' = adapterSet
  <2>1. ASSUME NEW c \in Callbacks, Callback(c) PROVE Kept
    BY <2>1 DEF Callback, SubmitRefused, SubmitAccepted, SubmitEnds
  <2>2. ASSUME NEW k \in Cancellers, Canceller(k) PROVE Kept
    BY <2>2 DEF Canceller, CancelDeclined, CancelLatched, CancelDelivers
  <2>3. ASSUME MainThread PROVE Kept
    BY <2>3 DEF MainThread, SetAdapter, SetAdapterDelivers, Complete, Shutdown
  <2>4. Kept
    BY <2>1, <2>2, <2>3 DEF Next
  <2> QED
    BY <2>4 DEF IInv, OutcomeInv
<1> QED
  BY <1>1, Invariance, PTL DEF Spec, OutcomeIsFinal
-----------------------------------------------------------------------------
(* The handoff implements RunPromise. *)

LEMMA InitPromise == Init => Promise!Init
  BY DEF Init, Told, Promise!Init

LEMMA NextPromise == IInv /\ [Next]_handoffVars => [Promise!Next]_(Promise!vars)
<1> SUFFICES ASSUME IInv, [Next]_handoffVars
             PROVE  Promise!Next \/ UNCHANGED Promise!vars
  OBVIOUS
<1> USE DEF IInv
<1>1. CASE UNCHANGED handoffVars
  BY <1>1 DEF handoffVars, Promise!vars
<1>2. ASSUME NEW c \in Callbacks, SubmitRefused(c) PROVE Promise!Refuse(c)
  BY <1>2 DEF SubmitRefused, Raised, TypeOK, Errors, Told, Promise!Refuse
<1>3. ASSUME NEW c \in Callbacks, SubmitAccepted(c) PROVE Promise!Accept(c)
  BY <1>3 DEF SubmitAccepted, TypeOK, Told, Promise!Accept
<1>4. ASSUME NEW c \in Callbacks, SubmitEnds(c) PROVE Promise!Answer(c)
  BY <1>4 DEF SubmitEnds, Raised, TypeOK, OutcomeInv, Errors, Told, Promise!Answer
<1>5. ASSUME NEW k \in Cancellers, CancelDeclined(k) PROVE UNCHANGED Promise!vars
  BY <1>5 DEF CancelDeclined, Promise!vars
<1>6. ASSUME NEW k \in Cancellers, CancelLatched(k)
      PROVE  Promise!ClaimSignal \/ UNCHANGED Promise!vars
  BY <1>6 DEF CancelLatched, Promise!ClaimSignal, Promise!vars
<1>7. ASSUME NEW k \in Cancellers, CancelDelivers(k) PROVE Promise!GiveSignal
  BY <1>7 DEF CancelDelivers, OneDelivery, Promise!GiveSignal
<1>8. ASSUME SetAdapter PROVE Promise!ClaimSignal \/ UNCHANGED Promise!vars
  BY <1>8 DEF SetAdapter, Promise!ClaimSignal, Promise!vars
<1>9. ASSUME SetAdapterDelivers PROVE Promise!GiveSignal
  BY <1>9 DEF SetAdapterDelivers, OneDelivery, Promise!GiveSignal
<1>10. ASSUME Complete PROVE Promise!Decide("ok")
  BY <1>10 DEF Complete, FinishLocked, Translated, Promise!Decide
<1>11. ASSUME NEW e \in Errors \ {"none"}, Shutdown(e) PROVE Promise!Decide("failed")
  BY <1>11 DEF Shutdown, FinishLocked, Translated, Promise!Decide
<1> QED
  BY <1>1, <1>2, <1>3, <1>4, <1>5, <1>6, <1>7, <1>8, <1>9, <1>10, <1>11
     DEF Next, Callback, Canceller, MainThread, Promise!Next

\* _MainThreadRunHandoff keeps the promise of RunPromise to the control plane, for
\* any number of callback and cancel threads.
THEOREM ImplementsPromise == Spec => KeepsPromise
  BY InitPromise, NextPromise, Invariance, PTL DEF Spec, KeepsPromise, Promise!Spec
=============================================================================

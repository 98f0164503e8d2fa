----------------------------- MODULE RunPromise -----------------------------
(***************************************************************************)
(* What the runner promises the control plane, with no threads, locks or   *)
(* events in it.  At most one Start callback owns the run; the run's       *)
(* outcome is decided once and for all; the owner is told that outcome and *)
(* every other callback is turned away; and a cancellation is signalled to *)
(* the running model at most once, and only for a request that arrived     *)
(* while the outcome was still open.                                       *)
(***************************************************************************)
EXTENDS Naturals

CONSTANTS
  Callbacks,   \* Start callbacks the control plane may make
  NoOwner      \* "no callback has been accepted yet", not a callback

VARIABLES
  owner,     \* the accepted callback
  outcome,   \* "open", then "ok" or "failed"
  verdict,   \* what each callback has been told
  owed,      \* a cancellation signal has been claimed for delivery
  given      \* number of cancellation signals the model received

vars == <<owner, outcome, verdict, owed, given>>

TypeOK ==
  /\ owner \in Callbacks \cup {NoOwner}
  /\ outcome \in {"open", "ok", "failed"}
  /\ verdict \in [Callbacks -> {"idle", "pending", "ok", "failed"}]
  /\ owed \in BOOLEAN
  /\ given \in 0..1

Init ==
  /\ owner = NoOwner
  /\ outcome = "open"
  /\ verdict = [c \in Callbacks |-> "idle"]
  /\ owed = FALSE
  /\ given = 0

Accept(c) ==
  /\ owner = NoOwner /\ outcome = "open" /\ verdict[c] = "idle"
  /\ owner' = c
  /\ verdict' = [verdict EXCEPT ![c] = "pending"]
  /\ UNCHANGED <<outcome, owed, given>>

Refuse(c) ==
  /\ owner # NoOwner \/ outcome # "open"
  /\ verdict[c] = "idle"
  /\ verdict' = [verdict EXCEPT ![c] = "failed"]
  /\ UNCHANGED <<owner, outcome, owed, given>>

\* A run that was never requested can fail (the launcher gave up) but not succeed.
Decide(o) ==
  /\ outcome = "open"
  /\ o = "ok" => owner # NoOwner
  /\ outcome' = o
  /\ UNCHANGED <<owner, verdict, owed, given>>

Answer(c) ==
  /\ verdict[c] = "pending" /\ outcome # "open"
  /\ verdict' = [verdict EXCEPT ![c] = outcome]
  /\ UNCHANGED <<owner, outcome, owed, given>>

ClaimSignal ==
  /\ outcome = "open" /\ ~owed
  /\ owed' = TRUE
  /\ UNCHANGED <<owner, outcome, verdict, given>>

GiveSignal ==
  /\ owed /\ given = 0
  /\ given' = 1
  /\ UNCHANGED <<owner, outcome, verdict, owed>>

Next ==
  \/ \E c \in Callbacks : Accept(c) \/ Refuse(c) \/ Answer(c)
  \/ \E o \in {"ok", "failed"} : Decide(o)
  \/ ClaimSignal
  \/ GiveSignal

Spec == Init /\ [][Next]_vars
=============================================================================

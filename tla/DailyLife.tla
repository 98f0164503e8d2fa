----------------------------- MODULE DailyLife ------------------------------
(***************************************************************************)
(* A person who lives by a plan: every tick the environment moves the      *)
(* person (Person.move_at), then the behaviour engine of                   *)
(* casmsocial/person.py decides.  The language-model engine deliberates    *)
(* when there is news, on the way, and at intervals: it asks its adapter   *)
(* for a proposal and applies it, which may adjust the plan, for good.     *)
(* The day repeats.                                                        *)
(*                                                                         *)
(* The local adapter is Appraisal; a remote one may propose anything that  *)
(* validate_proposal accepts, or fail (casmsocial/remote_llm_adapter.py).  *)
(* All places are on one rank and known; Migration has the ranks.          *)
(***************************************************************************)
EXTENDS Plans, Appraisal

CONSTANTS
  Schedules,       \* the days people may start with, sequences of activities
  LocalSchedules,  \* bound: those of people with the local adapter
  Delays,          \* delay_minutes of a remote proposal
  Nowhere,         \* place_id 0: in transit
  Interval,        \* deliberation_interval
  MaxEvents,       \* max_memory_events
  LateMinute,      \* hour_of_day 21
  Letters,         \* messages that may arrive
  MaxLetters       \* bound: how many do

\* A day has a home activity, and its activities are in order.
ASSUME DailyLifeAssumption ==
  /\ Nowhere \notin Ids
  /\ \A s \in Schedules \cup LocalSchedules :
       s \in Seq(Activities) /\ Ordered(s) /\ \E i \in 1..Len(s) : s[i].id = HomeId
  /\ Delays \in (SUBSET Nat) \ {{}}
  /\ \A m \in Letters : m.urgency \in 0..100 /\ m.trust \in 0..100
  /\ HomeId \notin Overrides["flexible"] \cup Overrides["social"]
  /\ Interval \in Nat \ {0} /\ MaxEvents \in Nat \ {0} /\ MaxLetters \in Nat

VARIABLES
  engine,   \* the engine and its adapter
  plan,     \* the active plan
  minute,   \* minute_of_day
  place,    \* place_id
  recent,   \* recent_messages
  arrived,  \* bound: messages so far
  since,    \* ticks since last_llm_tick, Interval if a deliberation is due
  memory,   \* episodic_memory: traces, and events without one
  decided,  \* the engine's step of this tick is over
  raised    \* the engine raised, which ends the run

personVars == <<engine, plan, minute, place, recent, arrived, since, memory, decided, raised>>

TypeOK ==
  /\ engine \in {"default", "local", "remote"}
  /\ \A i \in 1..Len(plan) : plan[i] \in Activities \cup {Travel}
  /\ minute \in Minutes
  /\ place \in Ids \cup {Nowhere}
  /\ arrived \in 0..MaxLetters
  /\ since \in 0..Interval
  /\ Len(memory) <= MaxEvents
  /\ \A e \in ToSet(memory) : e = NoTrace \/ e \in Signals
  /\ decided \in BOOLEAN /\ raised \in BOOLEAN

\* behavior.engine, behavior.llm.enabled and behavior.llm.adapter.
Engine(name, enabled, adapter) ==
  IF name = "schedule" THEN "default"
  ELSE IF name \in {"llm", "llm_local"} \/ enabled THEN adapter
  ELSE "default"

Init ==
  /\ engine \in {Engine(n, e, a) : n \in {"default", "schedule", "llm", "llm_local"},
                                   e \in BOOLEAN, a \in {"local", "remote"}}
  /\ plan \in {MakePlan(s) : s \in IF engine = "local" THEN LocalSchedules ELSE Schedules}
  /\ minute \in Minutes
  /\ place = HomeId
  /\ recent = <<>> /\ arrived = 0
  /\ since = Interval
  /\ memory = <<>>
  /\ decided = TRUE
  /\ raised = FALSE
-----------------------------------------------------------------------------
\* The first step of a tick, which is one minute long: the plan moves the person and the
\* inbox becomes the recent messages, unless nobody on any rank has anything to say: then
\* the recent messages stay those of an earlier tick (Communication).
Tick ==
  /\ decided /\ ~raised
  /\ minute' = (minute + 1) % (LastMinute + 1)
  /\ place' = MoveAt(plan, minute', place, Nowhere)
  /\ \/ recent' \in {<<>>, recent} /\ UNCHANGED arrived
     \/ /\ engine = "local" /\ arrived < MaxLetters
        /\ recent' \in {<<m>> : m \in Letters}
        /\ arrived' = arrived + 1
  /\ since' = Min({since + 1, Interval})
  /\ decided' = FALSE
  /\ UNCHANGED <<engine, plan, memory, raised>>

InTransit ==
  LET found == PlanState(plan, minute).found IN found # 0 /\ ~IsActivity(plan[found])

NeedsDeliberation ==
  engine # "default" /\ (recent # <<>> \/ InTransit \/ since = Interval)

\* Carry out an action under the plan as it is then: everything but staying at home is to
\* follow it.  Somebody in transit has no entry in the projection that could move home.
Execute(action) ==
  IF action = "stay_home"
  THEN /\ place' = HomeId
       /\ raised' = (place = Nowhere)
  ELSE /\ place' = MoveAt(plan', minute, place, Nowhere)
       /\ UNCHANGED raised
-----------------------------------------------------------------------------
(* The deterministic engine. *)

\* The scores of the actions, in thousandths, for a risk in hundredths.  All other
\* beliefs and the goals keep their defaults.
Scores(risk, weekday) ==
  [follow_schedule |-> 800, stay_home |-> 5 * risk,
   seek_social_contact |-> IF weekday THEN (150 * (100 - risk)) \div 100 ELSE 0]

Best(scores) ==
  {a \in DOMAIN scores : \A b \in DOMAIN scores : scores[b] <= scores[a]}

\* The risk, which the messages of every tick move, may be anything from 0 to 1.
Deterministic == UNION {Best(Scores(risk, w)) : risk \in 0..100, w \in BOOLEAN}

DecideByScores ==
  /\ UNCHANGED <<engine, plan, minute, recent, arrived, since, memory>>
  /\ \E action \in Deterministic : Execute(action)
  /\ decided' = TRUE

Routine ==
  /\ ~decided /\ ~NeedsDeliberation
  /\ DecideByScores

\* A deliberation that raises: the deterministic engine decides, in the same step, and the
\* time of the last deliberation stays.
Fallback ==
  /\ ~decided /\ NeedsDeliberation
  /\ engine = "remote"
  /\ DecideByScores
-----------------------------------------------------------------------------
(* Deliberation. *)

Remember(event) == Recent(Append(memory, event), MaxEvents)

Adjusted(adjustment, delay) ==
  CASE adjustment = "preserve_home_activity" -> PreserveHome(plan, minute)
    [] adjustment = "defer_next_activity" -> Defer(plan, minute, delay)
    [] adjustment = "skip_flexible_activity" -> SkipFlexible(plan, minute)
    [] adjustment = "cancel_social_activity" -> CancelSocial(plan, minute)
    [] adjustment = "none" -> plan

Apply(proposal, delay, event) ==
  /\ plan' = Adjusted(proposal.adjustment, delay)
  /\ memory' = Remember(event)
  /\ Execute(proposal.action)
  /\ since' = 0
  /\ decided' = TRUE
  /\ UNCHANGED <<engine, minute, recent, arrived>>

HasFlexible == FirstFuture(plan, minute, Flexible) # 0
HasSocial == FirstFuture(plan, minute, Social) # 0

Heard == recent # <<>>
Recalls == ~Heard /\ \E e \in ToSet(memory) : e # NoTrace
LocalSignals == IF Heard THEN FromMessages(recent) ELSE FromMemory(memory)
LocalProposal(signals) ==
  IF Heard \/ Recalls THEN Decide(signals, HasFlexible, HasSocial)
  ELSE Habit(InTransit, minute >= LateMinute)

\* The local adapter goes by the messages, or else by its memory, or else by habit.
\* Its delay is always the same.
DeliberateLocally ==
  /\ ~decided /\ NeedsDeliberation
  /\ engine = "local"
  /\ \E signals \in {LocalSignals} : \E proposal \in {LocalProposal(signals)} :
       Apply(proposal, Min(Delays),
             IF Heard THEN signals ELSE IF Recalls THEN Fade(signals) ELSE NoTrace)

\* A remote adapter: any action with any adjustment; to send a message or to seek contact is
\* carried out like following the schedule.  It leaves no traces here, since only the local
\* adapter computes with them.
DeliberateRemotely ==
  /\ ~decided /\ NeedsDeliberation
  /\ engine = "remote"
  /\ \E action \in {"follow_schedule", "stay_home"},
        adjustment \in {"preserve_home_activity", "defer_next_activity",
                        "skip_flexible_activity", "cancel_social_activity", "none"},
        delay \in Delays :
       Apply(Propose(action, adjustment), delay, NoTrace)

Next == Tick \/ Routine \/ Fallback \/ DeliberateLocally \/ DeliberateRemotely

\* The ticks go on, and every tick asks the engine.
PhaseEnds == ~raised /\ decided' = ~decided
Spec == Init /\ [][Next]_personVars /\ WF_decided(PhaseEnds)
-----------------------------------------------------------------------------
(* Properties. *)

\* However often and in whatever order a plan is deferred, skipped and cut short over
\* the days, every leg still leads somewhere and activities stay in order and in the day.
PlanHoldsTogether == TypeOK /\ Connected(plan) /\ Ordered(plan)

\* resolve_plan_state and move_at find what the plan means at every minute, although
\* they go by the last ended activity and not by the neighbours of a leg.
PlanStateIsActive == \A m \in Minutes : PlanState(plan, m).found = Active(plan, m)

\* Deferring and skipping concern the future: the plan stays as it was up to the last
\* activity that has begun today, and nothing else begins in the past.
Past(p) ==
  SubSeq(p, 1, Max({0} \cup {i \in 1..Len(p) : IsActivity(p[i]) /\ p[i].start <= minute}))
PastIsKept ==
  [][plan' # PreserveHome(plan, minute) => Past(plan') = Past(plan)]_personVars

\* Nobody stays in transit for good, even if the trip's destination is deferred or
\* skipped on the way, and then again the next day.
TravellersArrive == (place = Nowhere) ~> (place # Nowhere)

\* What the local adapter skips or cancels the engine finds: the two look the next
\* activity up separately, one before and one after the proposal.
SkipsFindTheirActivity ==
  [][\A adjustment \in {"skip_flexible_activity", "cancel_social_activity"} :
       engine = "local" /\ ~decided /\ Heard
         /\ LocalProposal(LocalSignals).adjustment = adjustment
       => Len(plan') < Len(plan)]_personVars

\* A plan that was rewritten for a danger keeps the person at home from the first minute
\* to the last of that day, however it had been adjusted before.
DangerLastsTheDay ==
  [][plan' = PreserveHome(plan, minute) =>
       \A m \in minute..LastMinute : MoveAt(plan', m, HomeId, Nowhere) = HomeId]_personVars

\* Only news changes a plan: with the local adapter and no message ever, or with the
\* deterministic engine, people live by the plan they were given.
OnlyNewsChangesPlans ==
  [][engine # "remote" /\ arrived = 0 => UNCHANGED plan]_personVars

\* The comment on _memory_trace_from_appraisal: "traces fade over successive ticks".
MemoryFades ==
  [][recent = <<>> /\ Traces(memory) # <<>> =>
       \A c \in Channels : Last(Traces(memory'))[c] <= Last(Traces(memory))[c]]_personVars
=============================================================================

------------------------------- MODULE Plans --------------------------------
(***************************************************************************)
(* Plans of activities and legs (casmsocial/activities.py) and the         *)
(* adjustments a language-model engine may make to them                    *)
(* (LLMBehaviorEngine of casmsocial/person.py).                            *)
(*                                                                         *)
(* A plan is a sequence of activities and legs.  An activity is known by   *)
(* its id, and its place by the id; a leg is travel and nothing else here: *)
(* its mode, route and duration never decide where a person is.            *)
(***************************************************************************)
EXTENDS Integers, Sequences, FiniteSets, SequencesExt

CONSTANTS
  Ids,         \* activity ids
  HomeId,      \* activity 0
  Overrides,   \* activity_semantics_overrides: a set of ids for each label
  LastMinute   \* minute 1439

ASSUME PlansAssumption ==
  /\ HomeId \in Ids
  /\ Overrides \in [{"home", "social", "flexible", "sensitive"} -> SUBSET Ids]
  /\ LastMinute \in Nat

Minutes == 0..LastMinute
Activities == {a \in [kind : {"activity"}, id : Ids, start : Minutes, end : Minutes] :
                 a.start <= a.end}
Travel == [kind |-> "leg"]

IsActivity(e) == e.kind = "activity"
Includes(a, minute) == a.start <= minute /\ minute <= a.end

\* make_plan: a leg between each two activities.
MakePlan(activities) ==
  [i \in 1..(2 * Len(activities) - 1) |->
     IF i % 2 = 1 THEN activities[(i + 1) \div 2] ELSE Travel]

\* activity_semantics_for: coarse defaults, which overrides only add to.
HomeLike == {HomeId} \cup Overrides["home"]
Flexible == (Ids \ {HomeId}) \cup Overrides["flexible"]
TravelSensitive == (Ids \ {HomeId}) \cup Overrides["sensitive"]
Social == Overrides["social"]
-----------------------------------------------------------------------------
(* resolve_plan_state, and move_at, which repeats it without allocating. *)

\* The first activity after index i, or 0.
NextActivity(plan, i) ==
  LET later == {j \in (i + 1)..Len(plan) : IsActivity(plan[j])}
  IN  IF later = {} THEN 0 ELSE Min(later)

\* Mutant: a leg does not ask whether the next activity has begun.
InLegUntimed(plan, minute, previous, i) == previous # 0 /\ NextActivity(plan, i) # 0

\* Between the last activity that has ended and the next one.
InLeg(plan, minute, previous, i) ==
  /\ previous # 0 /\ NextActivity(plan, i) # 0
  /\ plan[previous].end < minute /\ minute < plan[NextActivity(plan, i)].start

\* The last activity before index i that has ended, which the loop carries, or 0.
Previous(plan, minute, i) ==
  LET ended == {j \in 1..(i - 1) : IsActivity(plan[j]) /\ plan[j].end < minute}
  IN  IF ended = {} THEN 0 ELSE Max(ended)

FallsIn(plan, minute, i) ==
  IF IsActivity(plan[i]) THEN Includes(plan[i], minute)
  ELSE InLeg(plan, minute, Previous(plan, minute, i), i)

\* The loop stops at the first element the minute falls in: its index, and that of the
\* activity before it; 0 for none.
PlanState(plan, minute) ==
  LET hits == {i \in 1..Len(plan) : FallsIn(plan, minute, i)}
      found == IF hits = {} THEN 0 ELSE Min(hits)
  IN  [found |-> found, previous |-> Previous(plan, minute, found)]

\* Where move_at takes somebody who is at "place" (or in transit, Nowhere): to the place
\* of the active activity, or out of the origin of the active leg.
MoveAt(plan, minute, place, Nowhere) ==
  LET s == PlanState(plan, minute) IN
  IF s.found = 0 THEN place
  ELSE IF IsActivity(plan[s.found]) THEN plan[s.found].id
  ELSE IF place = plan[s.previous].id THEN Nowhere ELSE place
-----------------------------------------------------------------------------
(* Plan adjustments. *)

\* Mutant: an activity that begins in this minute counts as still to begin.
FirstFutureOrNow(plan, minute, ids) ==
  LET future == {i \in 1..Len(plan) :
                   IsActivity(plan[i]) /\ plan[i].start >= minute /\ plan[i].id \in ids}
  IN  IF future = {} THEN 0 ELSE Min(future)

\* The first activity still to begin that is one of these, or 0.
FirstFuture(plan, minute, ids) ==
  LET future == {i \in 1..Len(plan) :
                   IsActivity(plan[i]) /\ plan[i].start > minute /\ plan[i].id \in ids}
  IN  IF future = {} THEN 0 ELSE Min(future)

\* Mutant: the activity that is under way is kept as well.
PreserveStarted(plan, minute) ==
  LET stop == SelectInSeq(plan, LAMBDA e : ~(IsActivity(e) /\ e.start <= minute))
      kept == IF stop = 0 THEN plan ELSE SubSeq(plan, 1, stop - 1)
  IN  Append(kept, [kind |-> "activity", id |-> HomeId, start |-> minute, end |-> LastMinute])

\* preserve_home_activity: home for the rest of the day, after the activities that had
\* ended before the first leg.
PreserveHome(plan, minute) ==
  LET stop == SelectInSeq(plan, LAMBDA e : ~(IsActivity(e) /\ e.end < minute))
      kept == IF stop = 0 THEN plan ELSE SubSeq(plan, 1, stop - 1)
  IN  Append(kept, [kind |-> "activity", id |-> HomeId, start |-> minute, end |-> LastMinute])

\* How far activity i can move before it meets the next one or the end of the day.
Slack(plan, i) ==
  LET next == NextActivity(plan, i)
      bounds == {LastMinute} \cup {plan[j].start : j \in {next} \ {0}}
  IN  Min(bounds) - plan[i].end

Later(activity, minutes) ==
  [kind |-> "activity", id |-> activity.id,
   start |-> activity.start + minutes, end |-> activity.end + minutes]

\* defer_next_activity
Defer(plan, minute, delay) ==
  LET i == FirstFuture(plan, minute, TravelSensitive \ HomeLike) IN
  IF i = 0 \/ delay <= 0 THEN plan
  ELSE LET applied == Min({delay, Slack(plan, i)}) IN
       IF applied <= 0 THEN plan
       ELSE [plan EXCEPT ![i] = Later(plan[i], applied)]

\* Mutant: the leg after the removed activity stays.
WithoutOneLeg(plan, i) ==
  SubSeq(plan, 1, i - (IF i > 1 /\ ~IsActivity(plan[i - 1]) THEN 2 ELSE 1))
    \o SubSeq(plan, i + 1, Len(plan))

\* Remove activity i with the legs around it; the activities beyond them get a leg.
Without(plan, i) ==
  LET first == IF i > 1 /\ ~IsActivity(plan[i - 1]) THEN i - 1 ELSE i
      last == IF i < Len(plan) /\ ~IsActivity(plan[i + 1]) THEN i + 1 ELSE i
      joins == /\ i > 2 /\ IsActivity(plan[i - 2])
               /\ i + 2 <= Len(plan) /\ IsActivity(plan[i + 2])
  IN  SubSeq(plan, 1, first - 1) \o (IF joins THEN <<Travel>> ELSE <<>>)
        \o SubSeq(plan, last + 1, Len(plan))

\* Mutant: the home activity can be skipped like any other.
SkipAnything(plan, minute) ==
  LET i == FirstFuture(plan, minute, Ids)
  IN  IF i = 0 THEN plan ELSE Without(plan, i)

\* skip_flexible_activity and cancel_social_activity
SkipFlexible(plan, minute) ==
  LET i == FirstFuture(plan, minute, Flexible)
  IN  IF i = 0 THEN plan ELSE Without(plan, i)
CancelSocial(plan, minute) ==
  LET i == FirstFuture(plan, minute, Social)
  IN  IF i = 0 THEN plan ELSE Without(plan, i)
-----------------------------------------------------------------------------
\* Every leg leads from one activity to the next, and activities neither overlap nor
\* leave the day.
Connected(plan) ==
  \A i \in 1..Len(plan) :
    ~IsActivity(plan[i]) => /\ i \notin {1, Len(plan)}
                           /\ IsActivity(plan[i - 1]) /\ IsActivity(plan[i + 1])
Ordered(plan) ==
  /\ \A i \in 1..Len(plan) : IsActivity(plan[i]) => plan[i] \in Activities
  /\ \A i, j \in 1..Len(plan) :
       i < j /\ IsActivity(plan[i]) /\ IsActivity(plan[j]) => plan[i].end <= plan[j].start

\* What a plan means: the first activity that contains the minute, or else the leg between
\* two neighbours that the minute lies between.
Active(plan, minute) ==
  LET acts == {i \in 1..Len(plan) : IsActivity(plan[i]) /\ Includes(plan[i], minute)}
      legs == {i \in 2..(Len(plan) - 1) :
                 /\ ~IsActivity(plan[i])
                 /\ plan[i - 1].end < minute /\ minute < plan[i + 1].start}
  IN  IF acts # {} THEN Min(acts) ELSE IF legs # {} THEN Min(legs) ELSE 0
=============================================================================

----------------------------- MODULE Appraisal ------------------------------
(***************************************************************************)
(* LocalBehaviorLLMAdapter of casmsocial/llm_adapter.py: how the messages  *)
(* of a tick, or else the traces of earlier ones, become signals, and the  *)
(* signals a proposal.                                                     *)
(*                                                                         *)
(* Signals, urgency and trust are counted in hundredths and rounded down.  *)
(* A proposal is its action and its plan adjustment.  Reasons, emotions,   *)
(* needs and attitudes steer nothing; replies are left out; the delay of a *)
(* deferral is 30 minutes whatever the messages say.                       *)
(***************************************************************************)
EXTENDS Integers, Sequences, FiniteSets, SequencesExt

CONSTANTS
  Cap,      \* signal_cap
  Decay,    \* memory_decay
  Window    \* appraisal_window

ASSUME AppraisalAssumption ==
  Cap \in Nat \ {0} /\ Decay \in 0..100 /\ Window \in Nat \ {0}

Channels ==
  {"safety", "social", "obligation", "schedule", "reply", "defer", "skip", "cancel"}
Signals == [Channels -> 0..Cap]

UrgentTopics == {"closure", "hazard", "emergency"}
SafetyTopics == {"shelter", "avoid_travel", "stay_home"}
DeferTopics == {"avoid_travel", "delay", "traffic"}
CancelSocialTopics == {"cancel_social", "social_cancel"}
SkipTopics == {"skip", "cancel", "closed"} \cup CancelSocialTopics
MeetingTopics == {"meetup", "pickup", "arrival"}

Weight(m) == Max({10, m.urgency + m.trust \div 2})

Only(channel, signal) == [c \in Channels |-> IF c = channel THEN signal ELSE 0]

Coordination(m) ==
  LET cancels == m.topic \in CancelSocialTopics
      defers == ~cancels /\ (m.urgency >= 60 \/ m.topic \in MeetingTopics)
  IN  [Only("reply", 40 + Weight(m)) EXCEPT
         !["defer"] = IF defers THEN 30 + Weight(m) ELSE 0,
         !["skip"] = IF m.topic \in {"cancel", "skip"} THEN 35 + Weight(m) ELSE 0,
         !["cancel"] = IF cancels THEN 35 + Weight(m) ELSE 0]

\* What a recommendation is about, in the order of the rules; otherwise it is only answered.
Recommendation(m) ==
  IF m.trust >= 75 /\ m.topic \in SafetyTopics THEN Only("safety", 40 + Weight(m))
  ELSE IF m.topic \in DeferTopics /\ m.urgency >= 40 THEN Only("defer", 35 + Weight(m))
  ELSE IF m.topic \in CancelSocialTopics THEN Only("cancel", 35 + Weight(m))
  ELSE IF m.topic \in SkipTopics THEN Only("skip", 35 + Weight(m))
  ELSE Only("reply", 45 + Weight(m) \div 2)

Gains(m) ==
  CASE m.kind = "warning" -> Only("safety", 80 + Weight(m))
    [] m.kind = "announcement" /\ (m.urgency >= 70 \/ m.topic \in UrgentTopics) ->
         Only("safety", 60 + Weight(m))
    [] m.kind = "recommendation" -> Recommendation(m)
    [] m.kind = "invitation" ->
         [Only("social", 50 + Weight(m)) EXCEPT !["reply"] = 40 + m.trust \div 2]
    [] m.kind = "request_help" ->
         [Only("obligation", 70 + Weight(m)) EXCEPT !["reply"] = 70 + m.urgency \div 3]
    [] m.kind = "coordination" -> Coordination(m)
    [] m.kind = "reminder" -> Only("schedule", 50 + Weight(m) \div 2)
    [] OTHER -> Only("reply", 45 + Weight(m) \div 2)

Bounded(signal) == Min({Cap, signal})
Recent(s, n) == SubSeq(s, Max({1, Len(s) - n + 1}), Len(s))

\* The signals of the last few messages add up to the cap.
FromMessages(messages) ==
  FoldLeft(LAMBDA s, m : [c \in Channels |-> Bounded(s[c] + Gains(m)[c])],
           [c \in Channels |-> 0], Recent(messages, Window))

\* What is left of a signal: its weight shrinks by the decay for every trace that is newer.
Power(base, n) == FoldFunction(LAMBDA x, y : x * y, 1, [k \in 1..n |-> base])
Faded(signal, age) == (signal * Power(Decay, age)) \div Power(100, age)

\* The last few traces in memory, beginning with the newest, add up to the cap; events
\* without a trace do not count towards the window.
NoTrace == <<>>
Traces(memory) == SelectSeq(memory, LAMBDA e : e # NoTrace)
Newer(memory, i) == Cardinality({j \in (i + 1)..Len(memory) : memory[j] # NoTrace})
FromMemory(memory) ==
  FoldRightDomain(
    LAMBDA i, s : IF memory[i] = NoTrace \/ Newer(memory, i) >= Window THEN s
                  ELSE [c \in Channels |-> Bounded(s[c] + Faded(memory[i][c], Newer(memory, i)))],
    memory, [c \in Channels |-> 0])

\* The trace a proposal from memory leaves behind.
Fade(signals) == [c \in Channels |-> (signals[c] * Decay) \div 100]
-----------------------------------------------------------------------------
Dominates(s, channel, others, threshold) ==
  s[channel] >= Max({threshold} \cup {s[c] : c \in others})

Propose(action, adjustment) == [action |-> action, adjustment |-> adjustment]

\* To adjust the plan is announced if the messages ask for an answer.
Adjust(s, adjustment) ==
  Propose(IF s["reply"] >= 55 THEN "send_message" ELSE "follow_schedule", adjustment)

\* Mutant: nobody asks whether there is a social or a flexible activity to come.
DecideUnasked(s, hasFlexible, hasSocial) ==
  IF Dominates(s, "safety", {"social", "obligation", "schedule"}, 90)
    THEN Propose("stay_home", "preserve_home_activity")
  ELSE IF Dominates(s, "cancel", {"schedule"}, 70) THEN Adjust(s, "cancel_social_activity")
  ELSE IF Dominates(s, "skip", {"schedule"}, 70) THEN Adjust(s, "skip_flexible_activity")
  ELSE Propose("follow_schedule", "none")

\* _decide_behavior_policy
Decide(s, hasFlexible, hasSocial) ==
  IF Dominates(s, "safety", {"social", "obligation", "schedule"}, 90)
    THEN Propose("stay_home", "preserve_home_activity")
  ELSE IF Dominates(s, "obligation", {"social", "schedule"}, 80)
    THEN Propose("send_message", "none")
  ELSE IF Dominates(s, "social", {"schedule"}, 70)
    THEN Propose("seek_social_contact", "none")
  ELSE IF hasSocial /\ Dominates(s, "cancel", {"schedule"}, 70)
    THEN Adjust(s, "cancel_social_activity")
  ELSE IF hasFlexible /\ Dominates(s, "skip", {"schedule"}, 70)
    THEN Adjust(s, "skip_flexible_activity")
  ELSE IF hasFlexible /\ Dominates(s, "defer", {"schedule"}, 60)
    THEN Adjust(s, "defer_next_activity")
  ELSE Adjust(s, "none")

\* Mutant: a late hour, like a danger, rewrites the plan.
HabitForTheDay(inTransit, late) ==
  IF late /\ ~inTransit THEN Propose("stay_home", "preserve_home_activity")
  ELSE Propose("follow_schedule", "none")

\* Without messages and traces: only a late hour is a reason not to follow the schedule.
Habit(inTransit, late) ==
  IF late /\ ~inTransit THEN Propose("stay_home", "none")
  ELSE Propose("follow_schedule", "none")
=============================================================================

---------------------------- MODULE MCDailyLife -----------------------------
(* Days of five minutes with up to three activities, in any order and with any *)
(* gaps, of which one is at home and another may be social.  The local adapter *)
(* gets a letter of every sort that decides something on a few of those days.  *)
EXTENDS DailyLife

CONSTANTS home, work, meet

MCIds == {home, work, meet}
MCOverrides == [l \in {"home", "social", "flexible", "sensitive"} |->
                  IF l = "social" THEN {meet} ELSE {}]
Days(n) == {s \in [1..n -> Activities] : Ordered(s) /\ \E i \in 1..n : s[i].id = HomeId}
MCSchedules == UNION {Days(n) : n \in 1..3}

At(id, start, end) == [kind |-> "activity", id |-> id, start |-> start, end |-> end]
MCLocalSchedules ==
  {<<At(home, 0, 0), At(work, 2, 2), At(meet, 4, 4)>>,
   <<At(home, 0, 1), At(meet, 3, 3), At(home, 4, 4)>>,
   <<At(work, 0, 0), At(home, 2, 4)>>}

Letter(kind, topic, urgency) ==
  [kind |-> kind, topic |-> topic, urgency |-> urgency, trust |-> 80]
MCLetters ==
  {Letter("warning", "storm", 0), Letter("request_help", "", 30), Letter("invitation", "", 0),
   Letter("recommendation", "shelter", 0), Letter("recommendation", "delay", 40),
   Letter("recommendation", "cancel_social", 0), Letter("recommendation", "closed", 0),
   Letter("coordination", "meetup", 0), Letter("coordination", "cancel", 0),
   Letter("coordination", "social_cancel", 0), Letter("reminder", "", 0),
   Letter("announcement", "hazard", 0), Letter("announcement", "", 70), Letter("check_in", "", 0)}
=============================================================================

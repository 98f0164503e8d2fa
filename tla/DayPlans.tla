------------------------------ MODULE DayPlans ------------------------------
(***************************************************************************)
(* What the Colorado dataset builder does to one person's day: time-use    *)
(* diaries are staged and made contiguous (atus.py), given to people as    *)
(* schedules (profile_schedules.py), sent to destinations                  *)
(* (destination_supply.py), routed and exported (profile_runtime.py).      *)
(*                                                                         *)
(* A day is a sequence of rows.  The minutes of a trip between two places, *)
(* which the code derives from coordinates and the profile's limits, and   *)
(* the pseudo-random draws are given.                                      *)
(***************************************************************************)
EXTENDS Integers, Sequences, FiniteSets, SequencesExt

CONSTANTS
  DayEnd,           \* the minutes of a day
  DiaryStart,       \* the clock minute at which a diary day starts
  MinimumRoutable,  \* minimum_routable_minutes
  MinutesBetween,   \* profile_runtime._minutes of two places
  Nowhere           \* a place_id that is null

\* A day of the model has 1440 minutes.
ASSUME DayAssumption == DayEnd \in Nat /\ DayEnd >= 24 /\ DiaryStart \in Int

Days == <<"weekday", "weekend">>
\* ACTIVITY_KIND_BY_TIER_1 and its default.
DiaryKinds == {"personal_care", "work", "school", "shopping", "healthcare", "meal", "social",
               "recreation", "travel", "other"}
Discretionary == {"shopping", "meal", "healthcare", "recreation", "social", "errand", "other"}
Anchored == {"work", "school", "daycare"}

Row(kind, start, end) == [kind |-> kind, start |-> start, end |-> end]
Stay(row, place, basis) ==
  [kind |-> row.kind, start |-> row.start, end |-> row.end, place |-> place, basis |-> basis]

\* stage_atus_donor_diaries: clock times become minutes of the diary day, and what
\* runs past its end is cut there.
Staged(diary) ==
  [i \in DOMAIN diary |->
     LET start == (diary[i].start - DiaryStart) % DayEnd
         stop == (diary[i].end - DiaryStart) % DayEnd
     IN Row(diary[i].kind, start, IF stop <= start THEN DayEnd ELSE stop)]

\* The loop of normalize_atus_donor_diaries: gaps become time at home, overlaps are
\* clipped, equal neighbours are joined.
Fill(day, row) ==
  LET start == Max({day.cursor, row.start})
      sofar == IF row.start > day.cursor
               THEN Append(day.rows, Row("home", day.cursor, row.start)) ELSE day.rows
  IN IF row.end <= start THEN day
     ELSE [cursor |-> row.end,
           rows |-> IF sofar # <<>> /\ Last(sofar).kind = row.kind
                    THEN [sofar EXCEPT ![Len(sofar)].end = row.end]
                    ELSE Append(sofar, Row(row.kind, start, row.end))]

Filled(rows) ==
  LET filled == FoldLeft(Fill, [cursor |-> 0, rows |-> <<>>], rows)
  IN IF filled.cursor < DayEnd
     THEN Append(filled.rows, Row("home", filled.cursor, DayEnd)) ELSE filled.rows

\* _compact_short_intervals: a short row goes to the one before it, the first to the
\* one after; the last remaining row stays.
Compact(rows, kept, i) ==
  LET row == IF kept = <<>> THEN [rows[i] EXCEPT !.start = rows[1].start] ELSE rows[i]
  IN IF row.end - row.start >= MinimumRoutable \/ (kept = <<>> /\ i = Len(rows))
     THEN Append(kept, row)
     ELSE IF kept = <<>> THEN kept ELSE [kept EXCEPT ![Len(kept)].end = row.end]

Compacted(rows) == FoldLeftDomain(LAMBDA kept, i : Compact(rows, kept, i), <<>>, rows)

Normalized(diary) == Compacted(Filled(Staged(diary)))

AgeBand(age) == IF age < 25 THEN 1 ELSE IF age < 45 THEN 2 ELSE IF age < 65 THEN 3 ELSE 4

\* _candidate_set.  The exact level also compares the labour status, which the
\* builder gives everybody as 0 and no respondent has, so that it never matches.
Candidates(donors, day, p) ==
  LET byDay == {d \in DOMAIN donors : donors[d].day = day}
      byAge == {d \in byDay : AgeBand(donors[d].age) = AgeBand(p.age)}
      bySex == {d \in byAge : donors[d].sex = p.sex}
  IN IF bySex # {} THEN bySex ELSE IF byAge # {} THEN byAge ELSE byDay

\* The n-th of the rows of a table in its order, n taken from a hash of the key.
Draw(ids, n) ==
  CHOOSE id \in ids : Cardinality({other \in ids : other < id}) = n % Cardinality(ids)

\* assign_atus_donors: one diary for the adult and the day type.
Donor(donors, day, p) ==
  donors[Draw(Candidates(donors, day, p), p.id + (IF day = "weekday" THEN 0 ELSE 1))]
DonorRows(donors, day, p) == Normalized(Donor(donors, day, p).rows)

\* A person works, learns or is cared for at the assigned place, when the profile
\* has it.
GoesTo(p, kind, places) == p.assigned = kind /\ p.site \in places

\* _materialize_daily_activities, a row of an adult.
AdultRow(p, row, places) ==
  LET goes == row.kind \in {"work", "school"} /\ GoesTo(p, row.kind, places)
      edge == row.kind = "travel" /\ (row.start = 0 \/ row.end = DayEnd)
  IN IF goes THEN Stay(row, p.site, "anchor")
     ELSE IF edge THEN Stay([row EXCEPT !.kind = "home"], p.hh, "boundary_travel_home_fallback")
     ELSE IF row.kind = "travel" THEN Stay(row, Nowhere, "donor_travel_placeholder")
     ELSE Stay(IF row.kind \in {"work", "school"} THEN [row EXCEPT !.kind = "home"] ELSE row,
               p.hh, "home_anchor")

\* _materialize_daily_activities, the rows of a child: a weekday at daycare or school
\* between fixed hours, given as shares of the day.
ChildRows(p, day, places) ==
  LET kind == IF p.age <= 4 THEN "daycare" ELSE "school"
      from == IF p.age <= 4 THEN DayEnd \div 3 ELSE (17 * DayEnd) \div 48
      to == IF p.age <= 4 THEN (17 * DayEnd) \div 24 ELSE (31 * DayEnd) \div 48
      home(start, end) == Stay(Row("home", start, end), p.hh, "home_anchor")
  IN IF day = "weekday" /\ GoesTo(p, kind, places)
     THEN <<home(0, from), Stay(Row(kind, from, to), p.site, "anchor"), home(to, DayEnd)>>
     ELSE <<home(0, DayEnd)>>

Schedule(donors, day, p, places) ==
  IF p.age < 15 THEN ChildRows(p, day, places)
  ELSE LET rows == DonorRows(donors, day, p)
       IN [i \in DOMAIN rows |-> AdultRow(p, rows[i], places)]

\* The rows of a day follow one another from its first minute to its last, as every
\* builder checks of what it wrote.
WholeDay(rows) ==
  /\ rows # <<>> /\ rows[1].start = 0 /\ Last(rows).end = DayEnd
  /\ \A i \in DOMAIN rows : rows[i].start < rows[i].end
  /\ \A i \in 1..(Len(rows) - 1) : rows[i].end = rows[i+1].start

\* duplicate_sequence_rows: whoever is joined to two rows of the place of the assignment
\* has every row of the day twice.
Repeated(people, places) ==
  \E p \in people : \E row, other \in places :
    row # other /\ p.assigned # "none" /\ {row.id, other.id} = {p.site}

\* _schedule_acceptance of one day that nothing repeats, but for the homes.
ScheduleAccepted(rows, places) ==
  /\ WholeDay(rows)
  /\ \A i \in DOMAIN rows :
       IF rows[i].kind = "travel"
       THEN rows[i].place = Nowhere /\ rows[i].start # 0 /\ rows[i].end # DayEnd
       ELSE rows[i].place \in places

\* persons_without_exactly_one_weekday_home, for the weekday of one person.
OneHome(rows) ==
  Cardinality({rows[i].place : i \in {j \in DOMAIN rows : rows[j].basis = "home_anchor"}}) = 1
=============================================================================

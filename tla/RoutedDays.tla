----------------------------- MODULE RoutedDays -----------------------------
(***************************************************************************)
(* The second half of what the dataset builder does to a day: the supply   *)
(* of destinations, the choice among them (destination_supply.py), the     *)
(* trips between them and the exported tables (profile_runtime.py).        *)
(***************************************************************************)
EXTENDS DayPlans

CONSTANT CapacityPercent  \* destination and full-population multipliers, in percent

\* Where a place is that has coordinates which are none on Earth.
OffMap == -1

\* A mapped feature is what it is and "other".
KindsOf(poi) == Discretionary \cap {poi.category, "other"}

\* A row of the supply; osm holds the feature it is, if it is one.
Supplied(place, kind, at, cap, osm) ==
  [place |-> place, kind |-> kind, at |-> at, cap |-> cap, osm |-> osm]

\* count(*) of some people joined to the places, in the group of a row.
Joined(some, places, row) == Cardinality(some \X {r \in places : r.id = row.id /\ r.at = row.at})

\* A place where people of the profile live, with room for these,
HomeRow(people, places, row) ==
  Supplied(row.id, "home", row.at, Joined({p \in people : p.hh = row.id}, places, row), {})

\* one where people are assigned for a kind of activity, with room for these,
AnchorRow(people, places, row, kind) ==
  LET there == {p \in people : p.site = row.id /\ p.assigned = kind}
  IN Supplied(row.id, kind, row.at, Max({2, Joined(there, places, row)}), {})

\* and a mapped feature as what it is or as "other".
OsmRow(poi, kind) ==
  Supplied(poi.id[kind], kind, poi.cell, Max({1, (poi.base * CapacityPercent) \div 100}), {poi})

\* _build_destination_supply
Supply(people, places, pois) ==
  {HomeRow(people, places, row) : row \in {r \in places : \E p \in people : p.hh = r.id}}
  \cup (UNION {{AnchorRow(people, places, row, kind) :
                 kind \in Anchored \cap {p.assigned : p \in {q \in people : q.site = row.id}}} : row \in places})
  \cup (UNION {{OsmRow(poi, kind) : kind \in KindsOf(poi)} : poi \in pois})

\* No two rows of a supply may be of one place, and none off the map.
Collides(supply) == \E s, t \in supply : s # t /\ s.place = t.place
Misplaced(supply) == \E s \in supply : s.at = OffMap

\* extract_profile_osm_pois: every category in every CBSA, or the build stops.
Covered(pois, cbsas) ==
  \A cbsa \in cbsas, kind \in Discretionary \ {"other"} :
    \E poi \in pois : poi.cbsa = cbsa /\ poi.category = kind

\* The rows of a day that are no trips.
Stays(rows) ==
  FoldLeft(LAMBDA stays, row : IF row.kind = "travel" THEN stays ELSE Append(stays, row), <<>>, rows)

\* stationary_source: trips are dropped and each stay lasts until the next begins.
Stationary(rows) ==
  LET stays == Stays(rows)
  IN [i \in DOMAIN stays |-> IF i = Len(stays) THEN stays[i]
                             ELSE [stays[i] EXCEPT !.end = stays[i+1].start]]

\* The choice of one event: among the places of the home's grid cell, else of its
\* CBSA, else none.
Destination(supply, p, kind, n) ==
  LET offered == {s \in supply : s.kind = kind /\ \E poi \in s.osm : poi.cbsa = p.cbsa}
      near == {s \in offered : s.at = p.cell}
      ids(some) == {s.place : s \in some}
  IN IF near # {} THEN Draw(ids(near), n)
     ELSE IF offered # {} THEN Draw(ids(offered), n) ELSE Nowhere

\* The selected view of _assign_destinations.
Assigned(supply, p, rows) ==
  LET stays == Stationary(rows)
      kinds == Discretionary \cup Anchored
      sent(row, i) ==
        IF row.kind \in Discretionary
        THEN Stay(row, Destination(supply, p, row.kind, p.id + i), "sampled_destination")
        ELSE IF row.kind \in kinds THEN row
        ELSE Stay([row EXCEPT !.kind = "home"], row.place, "home_anchor")
  IN [i \in DOMAIN stays |-> sent(stays[i], i)]

Provided(rows) == \A i \in DOMAIN rows : rows[i].place # Nowhere

\* The checks of _assign_destinations of what it wrote.
AssignmentAccepted(supply, rows) ==
  /\ WholeDay(rows)
  /\ \A i \in DOMAIN rows :
       /\ \E s \in supply : s.place = rows[i].place
       /\ rows[i].kind \in Discretionary => rows[i].basis = "sampled_destination"

\* A bug a mutant can have: who travels leaves one minute before the next stay begins.
LeavesLate(day, trip, wanted) ==
  Append([day EXCEPT ![Len(day)].end = wanted.start - 1],
         Stay(Row("travel", wanted.start - 1, wanted.start), Nowhere, "straight_line_proxy"))

\* A trip leaves early enough to arrive when the next stay begins.
Leaving(day, trip, wanted) ==
  Append([day EXCEPT ![Len(day)].end = wanted.start - trip],
         Stay(Row("travel", wanted.start - trip, wanted.start), Nowhere, "straight_line_proxy"))

\* A bug a mutant can have: a trip as long as the stay before it is made.
JustFits(trip, here) == trip > here.end - here.start

TooLong(trip, here) == trip >= here.end - here.start

\* Who cannot leave in time stays, with the activity of the place.
Retained(wanted, here) == Stay([wanted EXCEPT !.kind = here.kind], here.place, "retained")

\* _route_partition, the day of one person.
Route(day, wanted) ==
  LET here == Last(day)
      trip == MinutesBetween[here.place, wanted.place]
  IN IF here.place = wanted.place THEN Append(day, wanted)
     ELSE IF TooLong(trip, here) THEN Append(day, Retained(wanted, here))
     ELSE Append(Leaving(day, trip, wanted), wanted)

Routed(rows) == FoldLeft(Route, <<rows[1]>>, Tail(rows))

\* The checks of _combine_and_validate on one day.
RoutedDayAccepted(supply, rows) ==
  /\ \A i \in DOMAIN rows :
       /\ 0 <= rows[i].start /\ rows[i].start < rows[i].end /\ rows[i].end <= DayEnd
       /\ IF rows[i].kind = "travel" THEN rows[i].place = Nowhere
          ELSE LET there == {s \in supply : s.place = rows[i].place}
               IN there # {} /\ \A s \in there : s.kind = rows[i].kind
  /\ \A i \in 1..(Len(rows) - 1) : rows[i].end = rows[i+1].start

\* capacity_exceedances of one kind of day; plans is a function of the people.  A stay
\* that ends in a minute has left when another begins in it.
WithinCapacity(supply, plans) ==
  \A s \in supply, minute \in 0..(DayEnd - 1) :
    Cardinality({p \in DOMAIN plans : \E i \in DOMAIN plans[p] :
                   /\ plans[p][i].place = s.place /\ plans[p][i].kind \notin {"home", "travel"}
                   /\ plans[p][i].start <= minute /\ minute < plans[p][i].end}) <= s.cap

\* _export_runtime_tables: the stays of the weekday, and the first place of each kind.
Exported(rows) == Stays(rows)

=============================================================================

--------------------------- MODULE ProfileSample ---------------------------
(***************************************************************************)
(* Who is in a profile: the tables of a state (osf_tables.py), the checks  *)
(* of the lake they are copied to (osf_ducklake.py), the sample of the     *)
(* people who live in the profile's CBSAs and its tables                   *)
(* (profile_population.py).                                                *)
(*                                                                         *)
(* Pseudo-random orders are given: Shuffle[use] orders the people by the   *)
(* hash the code computes for that use of their ids.                       *)
(***************************************************************************)
EXTENDS Integers, Sequences, FiniteSets

CONSTANTS
  PersonLimit,     \* population.person_limit
  MinimumPerCbsa,  \* population.minimum_persons_per_cbsa
  Shuffle          \* [{"draw", "removal"} -> a function of the ids to numbers]

\* person_rows: people without an id or a household are left out.
PersonRows(source) == {p \in source.people : p.id # 0 /\ p.hh # 0}

\* workplace_rows and education_rows: sites without an id are left out.  A site may be in
\* several files, or in several batches of one, which are made unique one by one only.
SiteRows(source) == {row \in source.sites : row.id # 0}

\* One row for each household, where one of its people is.
HomeRows(people) ==
  {[id |-> hh, file |-> "households", at |-> (CHOOSE p \in people : p.hh = hh).cell] : hh \in {p.hh : p \in people}}

PlaceIds(places) == {row.id : row \in places}

\* _network_pairs: a row of a network ties its first member to each of the others.
NetworkPairs(networks) ==
  UNION {{<<row.members[1], row.members[i], row.kind>> : i \in 2..Len(row.members)} : row \in networks}

\* _network_row: a tie goes from the lower id to the higher.
NetworkRow(a, b, kind) ==
  IF a = b THEN {} ELSE IF a < b THEN {[a |-> a, b |-> b, kind |-> kind]} ELSE {[a |-> b, b |-> a, kind |-> kind]}

\* _write_social_networks: a tie is kept once, when both its ends are people of the state.
SocialNetworks(networks, ids) ==
  {tie \in UNION {NetworkRow(pair[1], pair[2], pair[3]) : pair \in NetworkPairs(networks)} : {tie.a, tie.b} \subseteq ids}

\* build_state_tables: every household is a place, and so are the sites of all files.
StateTables(source) ==
  LET people == PersonRows(source)
  IN [people |-> people, hh |-> {p.hh : p \in people},
      places |-> HomeRows(people) \cup SiteRows(source),
      ties |-> SocialNetworks(source.ties, {p.id : p \in people})]

\* _acceptance of the lake.
LakeAccepted(tables) ==
  /\ \A p \in tables.people : p.hh \in tables.hh
  /\ tables.hh \subseteq PlaceIds(tables.places)
  /\ \A tie \in tables.ties :
       /\ tie.a < tie.b
       /\ {tie.a, tie.b} \subseteq {p.id : p \in tables.people}

AgeGroup(age) ==
  IF age < 5 THEN 1 ELSE IF age < 15 THEN 2 ELSE IF age < 25 THEN 3 ELSE IF age < 65 THEN 4 ELSE 5
Stratum(p) == <<p.cbsa, AgeGroup(p.age), p.assigned>>

\* write_home_assignments and the view candidate_people: who lives in the CBSAs.
CandidatePeople(tables, cbsas) == {p \in tables.people : p.cbsa \in cbsas}

\* row_number() of p among some people in the order of a use of the hash.
Rank(p, some, use) ==
  1 + Cardinality({q \in some : Shuffle[use][q.id] < Shuffle[use][p.id]})

Reserved(people) ==
  {p \in people : Rank(p, {q \in people : q.cbsa = p.cbsa}, "draw") <= MinimumPerCbsa}

\* The rest of the sample goes round the strata.
RoundRobin(people, reserved) ==
  LET rest == people \ reserved
      turn(p) == Rank(p, {q \in rest : Stratum(q) = Stratum(p)}, "draw")
      before(p, q) == \/ turn(p) < turn(q)
                      \/ turn(p) = turn(q) /\ Shuffle["draw"][p.id] < Shuffle["draw"][q.id]
  IN {p \in rest : Cardinality({q \in rest : before(q, p)}) < PersonLimit - Cardinality(reserved)}

\* network_seed_ties: the first tie, those of households before others, with one end
\* in the sample and one outside.
SeedTies(people, chosen, ties) ==
  LET ids == {p.id : p \in people}
      inside == {p.id : p \in chosen}
      eligible == {t \in ties : /\ {t.a, t.b} \subseteq ids
                                /\ (t.a \in inside) # (t.b \in inside)}
      key(t) == <<IF t.kind = "household" THEN 0 ELSE 1, Shuffle["draw"][t.a], t.b>>
      before(t, u) == \/ key(t)[1] < key(u)[1]
                      \/ key(t)[1] = key(u)[1] /\ key(t)[2] < key(u)[2]
                      \/ key(t)[1] = key(u)[1] /\ key(t)[2] = key(u)[2] /\ key(t)[3] < key(u)[3]
  IN IF eligible = {} THEN {} ELSE {CHOOSE t \in eligible : \A u \in eligible : ~before(u, t)}

Missing(people, chosen, seed) == {p \in people \ chosen : \E t \in seed : p.id \in {t.a, t.b}}

\* A bug a mutant can have: anybody of the sample makes room.
RemovedAnywhere(chosen, seed, missing) ==
  LET free == {p \in chosen : \A t \in seed : p.id \notin {t.a, t.b}}
  IN {p \in free : Rank(p, free, "removal") <= Cardinality(missing)}

\* network_seed_removals: for each who is added somebody of the same CBSA, who is not an
\* end of the tie, makes room.
Removed(chosen, seed, missing) ==
  LET free == {p \in chosen : \A t \in seed : p.id \notin {t.a, t.b}}
      needed(cbsa) == Cardinality({p \in missing : p.cbsa = cbsa})
  IN {p \in free : Rank(p, {q \in free : q.cbsa = p.cbsa}, "removal") <= needed(p.cbsa)}

\* _create_selected_people of a sample profile, when the boundary has enough people.
Enough(people, cbsas) ==
  /\ Cardinality(people) >= PersonLimit
  /\ \A p \in people : Cardinality({q \in people : q.cbsa = p.cbsa}) >= MinimumPerCbsa
  /\ Cardinality(Reserved(people)) <= PersonLimit

Sampled(people, ties) ==
  LET reserved == Reserved(people)
      chosen == reserved \cup RoundRobin(people, reserved)
      seed == SeedTies(people, chosen, ties)
      missing == Missing(people, chosen, seed)
      removed == Removed(chosen, seed, missing)
  IN [people |-> (chosen \ removed) \cup missing, balanced |-> Cardinality(removed) = Cardinality(missing)]

\* build_profile_tables: the tables of the sample.
ProfileTables(tables, people) ==
  LET ids == {p.id : p \in people}
      hh == tables.hh \cap {p.hh : p \in people}
  IN [people |-> people, hh |-> hh,
      places |-> {row \in tables.places : row.id \in {p.hh : p \in people} \cup {p.site : p \in people}},
      ties |-> {t \in tables.ties : {t.a, t.b} \subseteq ids}]

\* Its checks: every CBSA has people, the limit is met, and the profile of a smoke run
\* has a tie.
ProfileAccepted(profile, cbsas) ==
  /\ {p.cbsa : p \in profile.people} = cbsas
  /\ Cardinality(profile.people) = PersonLimit
  /\ profile.ties # {}
  /\ \A p \in profile.people : p.hh \in profile.hh
  /\ profile.hh \subseteq PlaceIds(profile.places)

\* The population of a profile, or none when the build raises.
Population(source, cbsas) ==
  LET tables == StateTables(source)
      people == CandidatePeople(tables, cbsas)
      sample == Sampled(people, tables.ties)
      profile == ProfileTables(tables, sample.people)
  IN IF LakeAccepted(tables) /\ Enough(people, cbsas) /\ sample.balanced /\ ProfileAccepted(profile, cbsas)
     THEN {profile} ELSE {}
=============================================================================

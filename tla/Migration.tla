----------------------------- MODULE Migration ------------------------------
(***************************************************************************)
(* One tick of a partitioned CasmPop run (casmsocial/casmpop.py,           *)
(* person.py, place.py): every rank moves its people along their plans,    *)
(* people whose next place belongs to another rank migrate there, and the  *)
(* projections of the ranks are brought in line.                           *)
(*                                                                         *)
(* Ranks run in parallel and meet in collectives: the cancel vote, the     *)
(* count of rank moves and the exchange of the migrating people.  A plan   *)
(* is abstracted to the element that is active at the current minute, any  *)
(* element at any tick.                                                    *)
(***************************************************************************)
EXTENDS FiniteSets

CONSTANTS
  Ranks, Persons, Places,
  PlaceRank,       \* place_to_rank: the owner of each place
  Home,            \* the household of each person, where it is created
  ScheduleEngine,  \* plain Person class with ScheduleBehaviorEngine
  Replicated,      \* every rank holds an object for every place, not only for its own
  Nowhere          \* place_id 0, and an agent without an entry in a projection

ASSUME MigrationAssumption ==
  /\ PlaceRank \in [Places -> Ranks]
  /\ Home \in [Persons -> Places]
  /\ ScheduleEngine \in BOOLEAN
  /\ Replicated \in BOOLEAN
  /\ Nowhere \notin Places

VARIABLES
  at,         \* the rank whose context holds each person
  place,      \* place_id of each person; Nowhere in transit
  rankPlace,  \* rank_place_id of each person: the place that decides its rank
  location,   \* _agent_locations of each rank's projection
  occupants,  \* the occupants of the place objects of each rank
  emigrants,  \* moves_to_apply of each rank
  undecided,  \* the people whose step each rank has still to run
  pc          \* where each rank is in CasmPop.step

vars == <<at, place, rankPlace, location, occupants, emigrants, undecided, pc>>
projection == <<location, occupants>>

Elements == [kind : {"activity", "leg", "idle"}, place : Places]
Phases == {"step", "moving", "counting", "migrating", "attaching", "deciding", "raised"}

TypeOK ==
  /\ at \in [Persons -> Ranks]
  /\ place \in [Persons -> Places \cup {Nowhere}]
  /\ rankPlace \in [Persons -> Places]
  /\ location \in [Ranks -> [Persons -> Places \cup {Nowhere}]]
  /\ occupants \in [Ranks -> [Places -> SUBSET Persons]]
  /\ emigrants \in [Ranks -> SUBSET Persons]
  /\ undecided \in [Ranks -> SUBSET Persons]
  /\ pc \in [Ranks -> Phases]

\* People are created on the rank that owns their household, inside it.
Init ==
  /\ at = [p \in Persons |-> PlaceRank[Home[p]]]
  /\ place = Home
  /\ rankPlace = Home
  /\ location = [r \in Ranks |-> [p \in Persons |->
                   IF PlaceRank[Home[p]] = r THEN Home[p] ELSE Nowhere]]
  /\ occupants = [r \in Ranks |-> [q \in Places |->
                    {p \in Persons : Home[p] = q /\ PlaceRank[q] = r}]]
  /\ emigrants = [r \in Ranks |-> {}]
  /\ undecided = [r \in Ranks |-> {}]
  /\ pc = [r \in Ranks |-> "step"]
-----------------------------------------------------------------------------
(* The places projection of a rank. *)

Knows(r, q) == Replicated \/ PlaceRank[q] = r
Residents(r) == {p \in Persons : at[p] = r}

\* Where rank r's projection has people after it put each p of S into to[p].
LocationsAfter(r, S, to) ==
  [location EXCEPT ![r] = [p \in Persons |-> IF p \in S THEN to[p] ELSE @[p]]]

\* A person is taken out of the place the projection had for it.
OccupantsAfter(r, S, to) ==
  [occupants EXCEPT ![r] = [q \in Places |->
     {p \in @[q] : ~(p \in S /\ location[r][p] = q)} \cup {p \in S : to[p] = q}]]

\* Assign, move or remove (to[p] = Nowhere) the people S.
Relocate(r, S, to) ==
  /\ location' = LocationsAfter(r, S, to)
  /\ occupants' = OccupantsAfter(r, S, to)
-----------------------------------------------------------------------------
(* Person.move_at. *)

\* The active element is an activity somewhere else.
StartsActivity(p, e) == e.kind = "activity" /\ e.place # place[p]

\* A leg is entered only from its origin.
StartsLeg(r, p, e) == e.kind = "leg" /\ location[r][p] = e.place

Moves(r, p, e) == StartsActivity(p, e) \/ StartsLeg(r, p, e)

\* place_id, rank_place_id and the projection's place after move_at.
PlaceAfter(r, p, e) ==
  IF StartsActivity(p, e) THEN e.place
  ELSE IF StartsLeg(r, p, e) THEN Nowhere ELSE place[p]
RankPlaceAfter(r, p, e) == IF Moves(r, p, e) THEN e.place ELSE rankPlace[p]

LocationAfter(r, p, e) ==
  IF StartsActivity(p, e) THEN IF Knows(r, e.place) THEN e.place ELSE Nowhere
  ELSE IF StartsLeg(r, p, e) THEN Nowhere ELSE location[r][p]
-----------------------------------------------------------------------------
(* The environment step. *)

Goes(r, from, to) == pc[r] = from /\ pc' = [pc EXCEPT ![r] = to]
AllAt(phase) == \A r \in Ranks : pc[r] = phase

\* The cancel vote starts the tick on every rank.
BeginTick ==
  /\ AllAt("step")
  /\ pc' = [r \in Ranks |-> "moving"]
  /\ UNCHANGED <<at, place, rankPlace, projection, emigrants, undecided>>

\* Mutant: only people who just moved are looked at, whatever engine they have.
LeavesIfMoved(r, p, e) == Moves(r, p, e) /\ PlaceRank[RankPlaceAfter(r, p, e)] # r

\* With the schedule engine only people who just moved are looked at; otherwise
\* everybody is, because a decision of the last tick may have moved them too.
Leaves(r, p, e) ==
  /\ ScheduleEngine => Moves(r, p, e)
  /\ PlaceRank[RankPlaceAfter(r, p, e)] # r

\* Mutant: an emigrant stays where this rank's projection had it.
StaysBehind(r, p, e) == IF Leaves(r, p, e) THEN location[r][p] ELSE LocationAfter(r, p, e)

\* Whoever leaves the rank is taken out of its projection.
MovedTo(r, p, e) == IF Leaves(r, p, e) THEN Nowhere ELSE LocationAfter(r, p, e)

\* movePersons and the collection of the rank moves.
MovePersons(r) ==
  \E plan \in [Residents(r) -> Elements] :
    /\ Goes(r, "moving", "counting")
    /\ place' = [p \in Persons |->
                   IF at[p] = r THEN PlaceAfter(r, p, plan[p]) ELSE place[p]]
    /\ rankPlace' = [p \in Persons |->
                       IF at[p] = r THEN RankPlaceAfter(r, p, plan[p]) ELSE rankPlace[p]]
    /\ Relocate(r, Residents(r), [p \in Residents(r) |-> MovedTo(r, p, plan[p])])
    /\ emigrants' = [emigrants EXCEPT ![r] = {p \in Residents(r) : Leaves(r, p, plan[p])}]
    /\ UNCHANGED <<at, undecided>>

\* Mutant: each rank counts its own moves only.
CountLocally ==
  /\ AllAt("counting")
  /\ pc' = [r \in Ranks |-> IF emigrants[r] # {} THEN "migrating" ELSE "deciding"]
  /\ undecided' = [r \in Ranks |-> IF ScheduleEngine THEN {} ELSE Residents(r)]
  /\ UNCHANGED <<at, place, rankPlace, projection, emigrants>>

\* The allreduce of the move counts.  When nobody moves between ranks, no rank
\* exchanges people nor repairs its projection.
CountMoves ==
  /\ AllAt("counting")
  /\ IF \A r \in Ranks : emigrants[r] = {}
       THEN /\ pc' = [r \in Ranks |-> "deciding"]
            /\ undecided' = [r \in Ranks |-> IF ScheduleEngine THEN {} ELSE Residents(r)]
       ELSE /\ pc' = [r \in Ranks |-> "migrating"]
            /\ UNCHANGED undecided
  /\ UNCHANGED <<at, place, rankPlace, projection, emigrants>>

\* context.move_agents: every emigrant is restored on the owner of its place.
MoveAgents ==
  /\ AllAt("migrating")
  /\ at' = [p \in Persons |-> IF p \in emigrants[at[p]] THEN PlaceRank[rankPlace[p]] ELSE at[p]]
  /\ emigrants' = [r \in Ranks |-> {}]
  /\ pc' = [r \in Ranks |-> "attaching"]
  /\ UNCHANGED <<place, rankPlace, projection, undecided>>

\* Mutant: people without a place here are not assigned one.
AttachMovesOnly(r) ==
  /\ Goes(r, "attaching", "deciding")
  /\ Relocate(r, Residents(r), [p \in Residents(r) |->
       IF location[r][p] = Nowhere \/ place[p] = Nowhere THEN Nowhere ELSE place[p]])
  /\ undecided' = [undecided EXCEPT ![r] = IF ScheduleEngine THEN {} ELSE Residents(r)]
  /\ UNCHANGED <<at, place, rankPlace, emigrants>>

\* sync_place_projection_memberships: a resident is in its place exactly when it
\* is not in transit and the place is known.
Attach(r) ==
  /\ Goes(r, "attaching", "deciding")
  /\ Relocate(r, Residents(r), [p \in Residents(r) |->
       IF place[p] = Nowhere \/ place[p] # rankPlace[p] THEN Nowhere
       ELSE IF Knows(r, place[p]) THEN place[p] ELSE location[r][p]])
  /\ undecided' = [undecided EXCEPT ![r] = IF ScheduleEngine THEN {} ELSE Residents(r)]
  /\ UNCHANGED <<at, place, rankPlace, emigrants>>
-----------------------------------------------------------------------------
(* The people's own steps, which the schedule engine does not have. *)

Decides(r, p) ==
  /\ pc[r] = "deciding" /\ p \in undecided[r]
  /\ undecided' = [undecided EXCEPT ![r] = @ \ {p}]
  /\ UNCHANGED <<at, emigrants>>

\* move_at once more, along a plan the decision may just have changed.
FollowPlan(r, p) ==
  \E e \in Elements :
    /\ Decides(r, p)
    /\ place' = [place EXCEPT ![p] = PlaceAfter(r, p, e)]
    /\ rankPlace' = [rankPlace EXCEPT ![p] = RankPlaceAfter(r, p, e)]
    /\ Relocate(r, {p}, [x \in {p} |-> LocationAfter(r, x, e)])
    /\ UNCHANGED pc

\* A home this rank does not know is left alone.
HomeUnknown(r, p) ==
  /\ Decides(r, p)
  /\ ~Knows(r, Home[p])
  /\ UNCHANGED <<place, rankPlace, projection, pc>>

\* _force_home_if_possible sets the place before it moves the person; the
\* projection refuses to move a person it has no place for.
ForceHome(r, p) ==
  /\ Decides(r, p)
  /\ Knows(r, Home[p])
  /\ place' = [place EXCEPT ![p] = Home[p]]
  /\ rankPlace' = [rankPlace EXCEPT ![p] = Home[p]]
  /\ IF location[r][p] = Nowhere
       THEN pc' = [pc EXCEPT ![r] = "raised"] /\ UNCHANGED projection
       ELSE Relocate(r, {p}, [x \in {p} |-> Home[x]]) /\ UNCHANGED pc

StayHome(r, p) == HomeUnknown(r, p) \/ ForceHome(r, p)

EndTick(r) ==
  /\ undecided[r] = {}
  /\ Goes(r, "deciding", "step")
  /\ UNCHANGED <<at, place, rankPlace, projection, emigrants, undecided>>

RankStep(r) ==
  \/ MovePersons(r) \/ Attach(r) \/ EndTick(r)
  \/ \E p \in Persons : FollowPlan(r, p) \/ StayHome(r, p)

Next ==
  \/ BeginTick \/ CountMoves \/ MoveAgents
  \/ \E r \in Ranks : RankStep(r)

Spec == Init /\ [][Next]_vars

\* A rank that is not in a collective runs on, and a collective all have entered ends.
Fairness ==
  /\ WF_vars(BeginTick) /\ WF_vars(CountMoves) /\ WF_vars(MoveAgents)
  /\ \A r \in Ranks : WF_vars(RankStep(r))
FairSpec == Spec /\ Fairness
-----------------------------------------------------------------------------
(* Properties. *)

\* A rank is past its environment step and nobody on it has acted yet.
Settled(r) == pc[r] = "deciding" /\ undecided[r] = IF ScheduleEngine THEN {} ELSE Residents(r)

\* After the environment step every person a rank holds is in (or on its way from) a
\* place that the rank owns: the messages and interactions of a place find
\* everybody on its owner.
OwnersAreLocal ==
  \A r \in Ranks : Settled(r) => \A p \in Residents(r) : PlaceRank[rankPlace[p]] = r

\* After the environment step a place's occupants on its owner are exactly the people
\* who are there, wherever they came from, although the projection is only
\* repaired in ticks in which somebody changed ranks.
OccupantsExact ==
  \A r \in Ranks : Settled(r) =>
    \A q \in Places :
      occupants[r][q] = {p \in Residents(r) : place[p] = q}

\* A rank's projection never holds somebody another rank owns: a person that
\* migrated leaves neither a location nor an occupant behind, at any moment.
NoGhosts ==
  \A r \in Ranks : \A p \in Persons \ Residents(r) :
    /\ location[r][p] = Nowhere
    /\ \A q \in Places : p \notin occupants[r][q]

\* The projection's two records of where people are agree, in both directions.
RecordsAgree ==
  \A r \in Ranks, q \in Places : occupants[r][q] = {p \in Persons : location[r][p] = q}

\* The collectives never leave a rank behind: every run of the tick loop that is
\* not stopped by an exception comes back to its start on all ranks together.
TicksGoOn == []<>(AllAt("step") \/ \E r \in Ranks : pc[r] = "raised")

=============================================================================

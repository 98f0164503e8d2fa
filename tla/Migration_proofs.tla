-------------------------- MODULE Migration_proofs --------------------------
(***************************************************************************)
(* Proofs about Migration, for any number of ranks, people and places.     *)
(***************************************************************************)
EXTENDS Migration, TLAPS

OwnedBy(r, p) == PlaceRank[rankPlace[p]] = r

\* A person is in its rank's place or on the way from it.
InPlaceOrTransit == \A p \in Persons : place[p] \in {Nowhere, rankPlace[p]}

\* Only the rank that holds a person has it in its projection.
LocatedAtHolder == \A r \in Ranks : \A p \in Persons \ Residents(r) : location[r][p] = Nowhere

\* Exactly the people whose place has another owner are about to leave.
EmigrantsExact ==
  \A r \in Ranks :
    emigrants[r] = IF pc[r] \in {"counting", "migrating"}
                     THEN {p \in Residents(r) : ~OwnedBy(r, p)} ELSE {}

\* Emigrants have left the projection of their old rank.
EmigrantsGone == \A r \in Ranks : \A p \in emigrants[r] : location[r][p] = Nowhere

\* Only residents decide, and only at the end of a tick with a cognitive engine.
UndecidedHere ==
  \A r \in Ranks :
    /\ undecided[r] \subseteq Residents(r)
    /\ ScheduleEngine \/ pc[r] \notin {"deciding", "raised"} => undecided[r] = {}

\* Where the owner of a person's place is known to hold the person.
Aligned ==
  \A r \in Ranks : \A p \in Residents(r) :
    \/ pc[r] = "attaching"
    \/ pc[r] = "deciding" /\ p \in undecided[r]
    \/ ScheduleEngine /\ pc[r] \in {"step", "moving", "deciding"}
    => OwnedBy(r, p)

\* The projection has everybody in the right place, except people whose place
\* belongs to another rank and people whose arrival is not attached yet.
Placed ==
  \A r \in Ranks : \A p \in Residents(r) :
    pc[r] \notin {"attaching", "raised"} =>
      \/ location[r][p] = place[p]
      \/ location[r][p] = Nowhere /\ ~OwnedBy(r, p)

IInv ==
  /\ TypeOK
  /\ RecordsAgree
  /\ InPlaceOrTransit
  /\ LocatedAtHolder
  /\ EmigrantsExact
  /\ EmigrantsGone
  /\ UndecidedHere
  /\ Aligned
  /\ Placed
-----------------------------------------------------------------------------
\* What a change of a rank's projection does: it keeps the types, the two
\* records agree afterwards, and it touches the named people of that rank only.
LEMMA RelocateEffect ==
  ASSUME TypeOK, RecordsAgree,
         NEW r \in Ranks, NEW S \in SUBSET Persons,
         NEW to \in [S -> Places \cup {Nowhere}],
         location' = LocationsAfter(r, S, to), occupants' = OccupantsAfter(r, S, to)
  PROVE  /\ location' \in [Ranks -> [Persons -> Places \cup {Nowhere}]]
         /\ occupants' \in [Ranks -> [Places -> SUBSET Persons]]
         /\ RecordsAgree'
         /\ \A s \in Ranks, p \in Persons :
              location'[s][p] = IF s = r /\ p \in S THEN to[p] ELSE location[s][p]
PROOF
<1>1. /\ location' \in [Ranks -> [Persons -> Places \cup {Nowhere}]]
      /\ occupants' \in [Ranks -> [Places -> SUBSET Persons]]
  BY DEF TypeOK, LocationsAfter, OccupantsAfter
<1>2. \A s \in Ranks, p \in Persons :
        location'[s][p] = IF s = r /\ p \in S THEN to[p] ELSE location[s][p]
  BY DEF TypeOK, LocationsAfter, OccupantsAfter
<1>3. \A s \in Ranks, q \in Places :
        occupants'[s][q] =
          IF s = r THEN {p \in occupants[s][q] : ~(p \in S /\ location[s][p] = q)}
                          \cup {p \in S : to[p] = q}
          ELSE occupants[s][q]
  BY DEF TypeOK, LocationsAfter, OccupantsAfter
<1>4. RecordsAgree'
  <2> SUFFICES ASSUME NEW s \in Ranks, NEW q \in Places
               PROVE  occupants'[s][q] = {p \in Persons : location'[s][p] = q}
    BY DEF RecordsAgree
  <2>1. occupants[s][q] = {p \in Persons : location[s][p] = q}
    BY DEF RecordsAgree
  <2>2. CASE s = r
    <3>1. occupants'[s][q] = {p \in occupants[s][q] : ~(p \in S /\ location[s][p] = q)}
                               \cup {p \in S : to[p] = q}
      BY <1>3, <2>2
    <3> QED BY <1>2, <2>1, <2>2, <3>1
  <2>3. CASE s # r
    <3>1. occupants'[s][q] = occupants[s][q]
      BY <1>3, <2>3
    <3>2. \A p \in Persons : location'[s][p] = location[s][p]
      BY <1>2, <2>3
    <3> QED BY <2>1, <3>1, <3>2
  <2> QED BY <2>2, <2>3
<1> QED BY <1>1, <1>2, <1>4

\* The outcome of move_at is a place or transit, and a place that decides the rank.
LEMMA MoveTypes ==
  ASSUME TypeOK, NEW r \in Ranks, NEW p \in Persons, NEW e \in Elements
  PROVE  /\ PlaceAfter(r, p, e) \in Places \cup {Nowhere}
         /\ RankPlaceAfter(r, p, e) \in Places
         /\ LocationAfter(r, p, e) \in Places \cup {Nowhere}
         /\ MovedTo(r, p, e) \in Places \cup {Nowhere}
         /\ Leaves(r, p, e) \in BOOLEAN
  BY DEF TypeOK, Elements, PlaceAfter, RankPlaceAfter, LocationAfter, MovedTo, Leaves, Moves,
         StartsActivity, StartsLeg

\* move_at puts a person where its projection says, or sends it to another rank.
LEMMA MoveAtPlaces ==
  ASSUME TypeOK, MigrationAssumption,
         NEW r \in Ranks, NEW p \in Persons, NEW e \in Elements,
         place[p] \in {Nowhere, rankPlace[p]},
         \/ location[r][p] = place[p]
         \/ location[r][p] = Nowhere /\ PlaceRank[rankPlace[p]] # r
  PROVE  /\ PlaceAfter(r, p, e) \in {Nowhere, RankPlaceAfter(r, p, e)}
         /\ \/ LocationAfter(r, p, e) = PlaceAfter(r, p, e)
            \/ /\ LocationAfter(r, p, e) = Nowhere
               /\ PlaceRank[RankPlaceAfter(r, p, e)] # r
<1>1. e.place \in Places /\ e.place # Nowhere
  BY DEF Elements, MigrationAssumption
<1>2. CASE StartsActivity(p, e)
  BY <1>1, <1>2 DEF PlaceAfter, RankPlaceAfter, LocationAfter, Moves, Knows
<1>3. CASE ~StartsActivity(p, e) /\ StartsLeg(r, p, e)
  BY <1>3 DEF PlaceAfter, RankPlaceAfter, LocationAfter, Moves
<1>4. CASE ~StartsActivity(p, e) /\ ~StartsLeg(r, p, e)
  BY <1>4 DEF PlaceAfter, RankPlaceAfter, LocationAfter, Moves
<1> QED BY <1>2, <1>3, <1>4
-----------------------------------------------------------------------------
(* The inductive invariant holds initially. *)

LEMMA InitInv == ASSUME MigrationAssumption, Init PROVE IInv
<1>1. TypeOK
  BY DEF Init, TypeOK, MigrationAssumption, Phases
<1>2. RecordsAgree
  BY DEF Init, RecordsAgree, MigrationAssumption
<1>3. InPlaceOrTransit /\ LocatedAtHolder
  BY DEF Init, InPlaceOrTransit, LocatedAtHolder, Residents, MigrationAssumption
<1>4. EmigrantsExact /\ EmigrantsGone /\ UndecidedHere
  BY DEF Init, EmigrantsExact, EmigrantsGone, UndecidedHere
<1>5. Aligned /\ Placed
  BY DEF Init, Aligned, Placed, Residents, OwnedBy, MigrationAssumption
<1> QED BY <1>1, <1>2, <1>3, <1>4, <1>5 DEF IInv
-----------------------------------------------------------------------------
(* Every step keeps it. *)

\* Steps that only change where the ranks are in the tick.
LEMMA BeginTickInv == ASSUME MigrationAssumption, IInv, BeginTick PROVE IInv'
<1> USE DEF IInv
<1>1. TypeOK'
  BY DEF BeginTick, TypeOK, Phases, projection
<1>2. RecordsAgree' /\ InPlaceOrTransit' /\ LocatedAtHolder'
  BY DEF BeginTick, RecordsAgree, InPlaceOrTransit, LocatedAtHolder, Residents, projection
<1>3. EmigrantsExact' /\ EmigrantsGone' /\ UndecidedHere'
  BY DEF BeginTick, AllAt, EmigrantsExact, EmigrantsGone, UndecidedHere, Residents, projection
<1>4. Aligned' /\ Placed'
  BY DEF BeginTick, AllAt, Aligned, Placed, Residents, OwnedBy, projection
<1> QED BY <1>1, <1>2, <1>3, <1>4

LEMMA EndTickInv ==
  ASSUME MigrationAssumption, IInv, NEW r \in Ranks, EndTick(r) PROVE IInv'
<1> USE DEF IInv
<1>1. TypeOK'
  BY DEF EndTick, Goes, TypeOK, Phases, projection
<1>2. RecordsAgree' /\ InPlaceOrTransit' /\ LocatedAtHolder'
  BY DEF EndTick, RecordsAgree, InPlaceOrTransit, LocatedAtHolder, Residents, projection
<1>3. EmigrantsExact' /\ EmigrantsGone' /\ UndecidedHere'
  BY DEF EndTick, Goes, EmigrantsExact, EmigrantsGone, UndecidedHere, Residents, OwnedBy,
         projection, TypeOK
<1>4. Aligned' /\ Placed'
  BY DEF EndTick, Goes, Aligned, Placed, Residents, OwnedBy, projection, TypeOK
<1> QED BY <1>1, <1>2, <1>3, <1>4

\* When nobody is about to leave, everybody is where the owner of its place is.
LEMMA CountMovesInv == ASSUME MigrationAssumption, IInv, CountMoves PROVE IInv'
<1> USE DEF IInv
<1>1. TypeOK'
  BY DEF CountMoves, TypeOK, Phases, Residents, projection
<1>2. RecordsAgree' /\ InPlaceOrTransit' /\ LocatedAtHolder'
  BY DEF CountMoves, RecordsAgree, InPlaceOrTransit, LocatedAtHolder, Residents, projection
<1>3. /\ UNCHANGED <<at, place, rankPlace, location, occupants, emigrants>>
      /\ \A r \in Ranks : pc[r] = "counting"
  BY DEF CountMoves, AllAt, projection
<1>4. CASE \A r \in Ranks : emigrants[r] = {}
  <2>1. /\ pc' = [r \in Ranks |-> "deciding"]
        /\ undecided' = [r \in Ranks |-> IF ScheduleEngine THEN {} ELSE Residents(r)]
    BY <1>4 DEF CountMoves
  <2>2. \A r \in Ranks : \A p \in Residents(r) : OwnedBy(r, p)
    BY <1>3, <1>4 DEF EmigrantsExact
  <2>3. EmigrantsExact' /\ EmigrantsGone' /\ UndecidedHere'
    BY <1>3, <1>4, <2>1 DEF EmigrantsExact, EmigrantsGone, UndecidedHere, Residents
  <2>4. Aligned'
    BY <1>3, <2>1, <2>2 DEF Aligned, Residents, OwnedBy
  <2>5. Placed'
    BY <1>3, <2>1, <2>2 DEF Placed, Residents, OwnedBy
  <2> QED BY <1>1, <1>2, <2>3, <2>4, <2>5
<1>5. CASE ~\A r \in Ranks : emigrants[r] = {}
  <2>1. pc' = [r \in Ranks |-> "migrating"] /\ undecided' = undecided
    BY <1>5 DEF CountMoves
  <2>2. EmigrantsExact' /\ EmigrantsGone' /\ UndecidedHere'
    <3>1. EmigrantsExact'
      BY <1>3, <2>1 DEF EmigrantsExact, Residents, OwnedBy
    <3>2. EmigrantsGone'
      BY <1>3, <2>1 DEF EmigrantsGone
    <3>3. UndecidedHere'
      BY <1>3, <2>1 DEF UndecidedHere, Residents
    <3> QED BY ONLY <3>1, <3>2, <3>3
  <2>3. Aligned' /\ Placed'
    BY <1>3, <2>1 DEF Aligned, Placed, Residents, OwnedBy
  <2> QED BY <1>1, <1>2, <2>2, <2>3
<1> QED BY <1>4, <1>5

\* An emigrant arrives at the owner of its place; both ranks have lost or never
\* had it in their projections.
LEMMA MoveAgentsInv == ASSUME MigrationAssumption, IInv, MoveAgents PROVE IInv'
<1> USE DEF IInv
<1>1. /\ UNCHANGED <<place, rankPlace, location, occupants, undecided>>
      /\ pc' = [r \in Ranks |-> "attaching"]
      /\ emigrants' = [r \in Ranks |-> {}]
      /\ \A r \in Ranks : pc[r] = "migrating"
  BY DEF MoveAgents, AllAt, projection
<1>2. at' = [p \in Persons |-> IF p \in emigrants[at[p]] THEN PlaceRank[rankPlace[p]] ELSE at[p]]
  BY DEF MoveAgents
<1>3. TypeOK'
  BY <1>1, <1>2 DEF TypeOK, Phases, MigrationAssumption
<1>4. \A p \in Persons : OwnedBy(at'[p], p)
  BY <1>1, <1>2 DEF EmigrantsExact, OwnedBy, TypeOK, Residents
<1>5. RecordsAgree' /\ InPlaceOrTransit'
  BY <1>1 DEF RecordsAgree, InPlaceOrTransit
<1>6. LocatedAtHolder'
  <2> SUFFICES ASSUME NEW r \in Ranks, NEW p \in Persons, at'[p] # r
               PROVE  location[r][p] = Nowhere
    BY <1>1 DEF LocatedAtHolder, Residents
  <2>1. CASE at[p] = r
    <3>1. p \in emigrants[r]
      BY <1>2, <2>1
    <3> QED BY <3>1 DEF EmigrantsGone
  <2>2. CASE at[p] # r
    BY <2>2 DEF LocatedAtHolder, Residents
  <2> QED BY <2>1, <2>2
<1>7. EmigrantsExact' /\ EmigrantsGone' /\ UndecidedHere'
  BY <1>1 DEF EmigrantsExact, EmigrantsGone, UndecidedHere
<1>8. Aligned' /\ Placed'
  BY <1>1, <1>4 DEF Aligned, Placed, Residents, OwnedBy
<1> QED BY <1>1, <1>3, <1>5, <1>6, <1>7, <1>8

\* movePersons: whoever is not where the owner of its place is after the move
\* becomes an emigrant and leaves the projection.
LEMMA MovePersonsInv ==
  ASSUME MigrationAssumption, IInv, NEW r \in Ranks, MovePersons(r) PROVE IInv'
<1> USE DEF IInv
<1> PICK plan \in [Residents(r) -> Elements] :
      /\ Goes(r, "moving", "counting")
      /\ place' = [p \in Persons |-> IF at[p] = r THEN PlaceAfter(r, p, plan[p]) ELSE place[p]]
      /\ rankPlace' = [p \in Persons |->
                         IF at[p] = r THEN RankPlaceAfter(r, p, plan[p]) ELSE rankPlace[p]]
      /\ Relocate(r, Residents(r), [p \in Residents(r) |-> MovedTo(r, p, plan[p])])
      /\ emigrants' = [emigrants EXCEPT ![r] = {p \in Residents(r) : Leaves(r, p, plan[p])}]
      /\ UNCHANGED <<at, undecided>>
  BY DEF MovePersons
<1> DEFINE to == [p \in Residents(r) |-> MovedTo(r, p, plan[p])]
<1>1. /\ Residents(r) \in SUBSET Persons
      /\ to \in [Residents(r) -> Places \cup {Nowhere}]
  BY MoveTypes DEF Residents
<1>2. /\ location' \in [Ranks -> [Persons -> Places \cup {Nowhere}]]
      /\ occupants' \in [Ranks -> [Places -> SUBSET Persons]]
      /\ RecordsAgree'
      /\ \A s \in Ranks, p \in Persons :
           location'[s][p] = IF s = r /\ p \in Residents(r) THEN to[p] ELSE location[s][p]
  <2>1. /\ location' = LocationsAfter(r, Residents(r), to)
        /\ occupants' = OccupantsAfter(r, Residents(r), to)
    BY DEF Relocate
  <2>2. TypeOK /\ RecordsAgree
    OBVIOUS
  <2> HIDE DEF to
  <2>3. /\ location' \in [Ranks -> [Persons -> Places \cup {Nowhere}]]
        /\ occupants' \in [Ranks -> [Places -> SUBSET Persons]]
        /\ RecordsAgree'
    BY ONLY <1>1, <2>1, <2>2, RelocateEffect, r \in Ranks
  <2>4. \A s \in Ranks, p \in Persons :
          location'[s][p] = IF s = r /\ p \in Residents(r) THEN to[p] ELSE location[s][p]
    BY ONLY <1>1, <2>1, <2>2, r \in Ranks DEF TypeOK, LocationsAfter
  <2> QED BY ONLY <2>3, <2>4
<1>3. \A p \in Residents(r) :
        /\ place'[p] = PlaceAfter(r, p, plan[p])
        /\ rankPlace'[p] = RankPlaceAfter(r, p, plan[p])
        /\ location'[r][p] = MovedTo(r, p, plan[p])
  BY <1>2 DEF Residents
<1>4. \A p \in Persons \ Residents(r) : place'[p] = place[p] /\ rankPlace'[p] = rankPlace[p]
  BY DEF Residents
<1>5. \A s \in Ranks, p \in Persons : ~(s = r /\ p \in Residents(r)) => location'[s][p] = location[s][p]
  BY <1>2
<1>6. /\ pc[r] = "moving" /\ pc'[r] = "counting"
      /\ \A s \in Ranks \ {r} : pc'[s] = pc[s] /\ emigrants'[s] = emigrants[s]
      /\ emigrants'[r] = {p \in Residents(r) : Leaves(r, p, plan[p])}
      /\ at' = at /\ undecided' = undecided
  BY DEF Goes, TypeOK
<1>7. \A s \in Ranks : Residents(s)' = Residents(s)
  BY <1>6 DEF Residents
<1>8. \A p \in Residents(r) : plan[p] \in Elements /\ p \in Persons
  BY DEF Residents
<1>9. \A p \in Residents(r) :
        /\ place'[p] \in {Nowhere, rankPlace'[p]}
        /\ Leaves(r, p, plan[p]) <=> ~OwnedBy(r, p)'
        /\ Leaves(r, p, plan[p]) => location'[r][p] = Nowhere
        /\ ~Leaves(r, p, plan[p]) => location'[r][p] = place'[p]
  <2> SUFFICES ASSUME NEW p \in Residents(r)
               PROVE  /\ place'[p] \in {Nowhere, rankPlace'[p]}
                      /\ Leaves(r, p, plan[p]) <=> ~OwnedBy(r, p)'
                      /\ Leaves(r, p, plan[p]) => location'[r][p] = Nowhere
                      /\ ~Leaves(r, p, plan[p]) => location'[r][p] = place'[p]
    OBVIOUS
  <2>1. /\ place[p] \in {Nowhere, rankPlace[p]}
        /\ \/ location[r][p] = place[p]
           \/ location[r][p] = Nowhere /\ PlaceRank[rankPlace[p]] # r
    BY <1>6, <1>8 DEF InPlaceOrTransit, Placed, OwnedBy
  <2>2. /\ PlaceAfter(r, p, plan[p]) \in {Nowhere, RankPlaceAfter(r, p, plan[p])}
        /\ \/ LocationAfter(r, p, plan[p]) = PlaceAfter(r, p, plan[p])
           \/ /\ LocationAfter(r, p, plan[p]) = Nowhere
              /\ PlaceRank[RankPlaceAfter(r, p, plan[p])] # r
    BY <1>8, <2>1, MoveAtPlaces
  <2>3. Leaves(r, p, plan[p]) <=> PlaceRank[RankPlaceAfter(r, p, plan[p])] # r
    <3>1. CASE Moves(r, p, plan[p])
      BY <3>1 DEF Leaves
    <3>2. CASE ~Moves(r, p, plan[p])
      <4>1. RankPlaceAfter(r, p, plan[p]) = rankPlace[p]
        BY <3>2 DEF RankPlaceAfter
      <4>2. ScheduleEngine => PlaceRank[rankPlace[p]] = r
        BY <1>6 DEF Aligned, OwnedBy
      <4> QED BY <3>2, <4>1, <4>2 DEF Leaves, MigrationAssumption
    <3> QED BY <3>1, <3>2
  <2>4. OwnedBy(r, p)' <=> PlaceRank[RankPlaceAfter(r, p, plan[p])] = r
    BY <1>3 DEF OwnedBy
  <2> QED BY <1>3, <2>2, <2>3, <2>4 DEF MovedTo
<1>10. TypeOK'
  <2>1. place' \in [Persons -> Places \cup {Nowhere}] /\ rankPlace' \in [Persons -> Places]
    BY <1>8, MoveTypes DEF Residents, TypeOK
  <2>2. pc' \in [Ranks -> Phases] /\ emigrants' \in [Ranks -> SUBSET Persons]
    BY <1>8 DEF TypeOK, Goes, Phases, Residents
  <2> QED BY <1>2, <1>6, <2>1, <2>2 DEF TypeOK
<1>11. InPlaceOrTransit'
  BY <1>4, <1>9 DEF InPlaceOrTransit
<1>12. LocatedAtHolder'
  BY <1>5, <1>7 DEF LocatedAtHolder
<1>13. EmigrantsExact'
  <2> SUFFICES ASSUME NEW s \in Ranks
               PROVE  emigrants'[s] = IF pc'[s] \in {"counting", "migrating"}
                                        THEN {p \in Residents(s) : ~OwnedBy(s, p)'} ELSE {}
    BY <1>7 DEF EmigrantsExact
  <2>1. CASE s = r
    BY <1>6, <1>9, <2>1
  <2>2. CASE s # r
    <3>1. \A p \in Residents(s) : OwnedBy(s, p)' <=> OwnedBy(s, p)
      BY <1>4, <2>2 DEF Residents, OwnedBy
    <3> QED BY <1>6, <2>2, <3>1 DEF EmigrantsExact
  <2> QED BY <2>1, <2>2
<1>14. EmigrantsGone'
  <2> SUFFICES ASSUME NEW s \in Ranks, NEW p \in emigrants'[s] PROVE location'[s][p] = Nowhere
    BY DEF EmigrantsGone
  <2>1. CASE s = r
    BY <1>6, <1>9, <2>1
  <2>2. CASE s # r
    BY <1>5, <1>6, <2>2 DEF EmigrantsGone, TypeOK
  <2> QED BY <2>1, <2>2
<1>15. UndecidedHere'
  BY <1>6, <1>7 DEF UndecidedHere
<1>16. \A s \in Ranks \ {r} : \A p \in Residents(s) :
         /\ (OwnedBy(s, p)' <=> OwnedBy(s, p)) /\ p \in Persons
         /\ place'[p] = place[p] /\ location'[s][p] = location[s][p]
  BY <1>4, <1>5 DEF Residents, OwnedBy
<1>17. Aligned'
  <2> SUFFICES ASSUME NEW s \in Ranks, NEW p \in Residents(s),
                      \/ pc'[s] = "attaching"
                      \/ pc'[s] = "deciding" /\ p \in undecided'[s]
                      \/ ScheduleEngine /\ pc'[s] \in {"step", "moving", "deciding"}
               PROVE  OwnedBy(s, p)'
    BY <1>7 DEF Aligned
  <2>1. s # r
    BY <1>6
  <2> QED BY <1>6, <1>16, <2>1 DEF Aligned
<1>18. Placed'
  <2> SUFFICES ASSUME NEW s \in Ranks, NEW p \in Residents(s),
                      pc'[s] \notin {"attaching", "raised"}
               PROVE  \/ location'[s][p] = place'[p]
                      \/ location'[s][p] = Nowhere /\ ~OwnedBy(s, p)'
    BY <1>7 DEF Placed
  <2>1. CASE s = r
    BY <1>9, <2>1
  <2>2. CASE s # r
    <3>1. \/ location[s][p] = place[p]
          \/ location[s][p] = Nowhere /\ ~OwnedBy(s, p)
      BY <1>6, <2>2 DEF Placed
    <3>2. /\ place'[p] = place[p] /\ location'[s][p] = location[s][p]
          /\ OwnedBy(s, p)' <=> OwnedBy(s, p)
      BY <1>16, <2>2
    <3> QED BY <3>1, <3>2
  <2> QED BY <2>1, <2>2
<1> QED BY <1>2, <1>10, <1>11, <1>12, <1>13, <1>14, <1>15, <1>17, <1>18

\* The repaired projection has every resident in its place or in none.
LEMMA AttachInv ==
  ASSUME MigrationAssumption, IInv, NEW r \in Ranks, Attach(r) PROVE IInv'
<1> USE DEF IInv
<1> DEFINE to == [p \in Residents(r) |->
                    IF place[p] = Nowhere \/ place[p] # rankPlace[p] THEN Nowhere
                    ELSE IF Knows(r, place[p]) THEN place[p] ELSE location[r][p]]
<1>1. /\ Residents(r) \in SUBSET Persons
      /\ to \in [Residents(r) -> Places \cup {Nowhere}]
  BY DEF Residents, TypeOK
<1>2. /\ location' = LocationsAfter(r, Residents(r), to)
      /\ occupants' = OccupantsAfter(r, Residents(r), to)
      /\ TypeOK /\ RecordsAgree
  BY DEF Attach, Relocate
<1>3. \A p \in Residents(r) : to[p] = place[p]
  BY DEF Attach, Goes, InPlaceOrTransit, Aligned, OwnedBy, Knows, Residents
<1> HIDE DEF to
<1>4. /\ location' \in [Ranks -> [Persons -> Places \cup {Nowhere}]]
      /\ occupants' \in [Ranks -> [Places -> SUBSET Persons]]
      /\ RecordsAgree'
  BY ONLY <1>1, <1>2, RelocateEffect, r \in Ranks
<1>5. \A s \in Ranks, p \in Persons :
        location'[s][p] = IF s = r /\ p \in Residents(r) THEN to[p] ELSE location[s][p]
  BY ONLY <1>1, <1>2, r \in Ranks DEF TypeOK, LocationsAfter
<1>6. /\ pc[r] = "attaching" /\ pc'[r] = "deciding"
      /\ \A s \in Ranks \ {r} : pc'[s] = pc[s] /\ undecided'[s] = undecided[s]
      /\ undecided'[r] = IF ScheduleEngine THEN {} ELSE Residents(r)
      /\ UNCHANGED <<at, place, rankPlace, emigrants>>
  BY DEF Attach, Goes, TypeOK
<1>7. \A s \in Ranks : Residents(s)' = Residents(s) /\ Residents(s) \subseteq Persons
  BY <1>6 DEF Residents
<1>8. \A p \in Residents(r) : OwnedBy(r, p)
  BY <1>6 DEF Aligned
<1>9. TypeOK'
  <2>1. pc' \in [Ranks -> Phases] /\ undecided' \in [Ranks -> SUBSET Persons]
    BY <1>1 DEF Attach, Goes, TypeOK, Phases
  <2> QED BY <1>4, <1>6, <2>1 DEF TypeOK
<1>10. InPlaceOrTransit'
  BY <1>6 DEF InPlaceOrTransit
<1>11. LocatedAtHolder'
  BY <1>5, <1>7 DEF LocatedAtHolder
<1>12. \A s \in Ranks, p \in Persons : OwnedBy(s, p)' <=> OwnedBy(s, p)
  BY <1>6 DEF OwnedBy
<1>13. EmigrantsExact'
  <2> SUFFICES ASSUME NEW s \in Ranks
               PROVE  emigrants[s] = IF pc'[s] \in {"counting", "migrating"}
                                       THEN {p \in Residents(s) : ~OwnedBy(s, p)'} ELSE {}
    BY <1>6, <1>7 DEF EmigrantsExact
  <2>1. CASE s = r
    BY <1>6, <2>1 DEF EmigrantsExact
  <2>2. CASE s # r
    BY <1>6, <1>7, <1>12, <2>2 DEF EmigrantsExact
  <2> QED BY <2>1, <2>2
<1>14. EmigrantsGone'
  <2> SUFFICES ASSUME NEW s \in Ranks, NEW p \in emigrants[s] PROVE location'[s][p] = Nowhere
    BY <1>6 DEF EmigrantsGone
  <2>1. s # r
    BY <1>6 DEF EmigrantsExact
  <2>2. p \in Persons
    BY DEF TypeOK
  <2> QED BY <1>5, <2>1, <2>2 DEF EmigrantsGone
<1>15. UndecidedHere'
  BY <1>6, <1>7 DEF UndecidedHere
<1>16. Aligned'
  <2> SUFFICES ASSUME NEW s \in Ranks, NEW p \in Residents(s),
                      \/ pc'[s] = "attaching"
                      \/ pc'[s] = "deciding" /\ p \in undecided'[s]
                      \/ ScheduleEngine /\ pc'[s] \in {"step", "moving", "deciding"}
               PROVE  OwnedBy(s, p)
    BY <1>7, <1>12 DEF Aligned
  <2>1. CASE s = r
    BY <1>8, <2>1
  <2>2. CASE s # r
    BY <1>6, <2>2 DEF Aligned
  <2> QED BY <2>1, <2>2
<1>17. Placed'
  <2> SUFFICES ASSUME NEW s \in Ranks, NEW p \in Residents(s),
                      pc'[s] \notin {"attaching", "raised"}
               PROVE  \/ location'[s][p] = place[p]
                      \/ location'[s][p] = Nowhere /\ ~OwnedBy(s, p)
    BY <1>6, <1>7, <1>12 DEF Placed
  <2>1. CASE s = r
    BY <1>3, <1>5, <1>7, <2>1
  <2>2. CASE s # r
    BY <1>5, <1>6, <1>7, <2>2 DEF Placed
  <2> QED BY <2>1, <2>2
<1> QED BY <1>4, <1>9, <1>10, <1>11, <1>13, <1>14, <1>15, <1>16, <1>17

\* What a decision of one person must leave right for the invariant to survive:
\* the person itself, wherever the decision sends it.
LEMMA DecisionInv ==
  ASSUME MigrationAssumption, IInv, NEW r \in Ranks, NEW p \in Persons, Decides(r, p),
         TypeOK', RecordsAgree',
         \A x \in Persons \ {p} : place'[x] = place[x] /\ rankPlace'[x] = rankPlace[x],
         \A s \in Ranks, x \in Persons :
           ~(s = r /\ x = p) => location'[s][x] = location[s][x],
         \A s \in Ranks \ {r} : pc'[s] = pc[s],
         pc'[r] \in {"deciding", "raised"},
         place'[p] \in {Nowhere, rankPlace'[p]},
         \/ pc'[r] = "raised"
         \/ location'[r][p] = place'[p]
         \/ location'[r][p] = Nowhere /\ ~OwnedBy(r, p)'
  PROVE  IInv'
<1> USE DEF IInv
<1>1. /\ pc[r] = "deciding" /\ p \in undecided[r] /\ p \in Residents(r) /\ ScheduleEngine = FALSE
      /\ at' = at /\ emigrants' = emigrants
      /\ undecided'[r] = undecided[r] \ {p}
      /\ \A s \in Ranks \ {r} : undecided'[s] = undecided[s]
  BY DEF Decides, UndecidedHere, TypeOK, MigrationAssumption
<1>2. \A s \in Ranks : Residents(s)' = Residents(s) /\ Residents(s) \subseteq Persons
  BY <1>1 DEF Residents
<1>3. \A s \in Ranks \ {r} : p \notin Residents(s)
  BY <1>1 DEF Residents
<1>4. \A s \in Ranks, x \in Persons \ {p} : OwnedBy(s, x)' <=> OwnedBy(s, x)
  BY DEF OwnedBy
<1>5. InPlaceOrTransit' /\ LocatedAtHolder'
  BY <1>1, <1>2 DEF InPlaceOrTransit, LocatedAtHolder
<1>6. EmigrantsExact'
  <2> SUFFICES ASSUME NEW s \in Ranks
               PROVE  emigrants[s] = IF pc'[s] \in {"counting", "migrating"}
                                       THEN {x \in Residents(s) : ~OwnedBy(s, x)'} ELSE {}
    BY <1>1, <1>2 DEF EmigrantsExact
  <2>1. CASE s = r
    BY <1>1, <2>1 DEF EmigrantsExact
  <2>2. CASE s # r
    <3>1. \A x \in Residents(s) : OwnedBy(s, x)' <=> OwnedBy(s, x)
      BY <1>2, <1>3, <1>4, <2>2
    <3> QED BY <2>2, <3>1 DEF EmigrantsExact
  <2> QED BY <2>1, <2>2
<1>7. EmigrantsGone'
  <2> SUFFICES ASSUME NEW s \in Ranks, NEW x \in emigrants[s] PROVE location'[s][x] = Nowhere
    BY <1>1 DEF EmigrantsGone
  <2>1. s # r /\ x \in Persons
    BY <1>1 DEF EmigrantsExact, TypeOK
  <2> QED BY <2>1 DEF EmigrantsGone
<1>8. UndecidedHere'
  BY <1>1, <1>2 DEF UndecidedHere
<1>9. Aligned'
  <2> SUFFICES ASSUME NEW s \in Ranks, NEW x \in Residents(s),
                      \/ pc'[s] = "attaching"
                      \/ pc'[s] = "deciding" /\ x \in undecided'[s]
               PROVE  OwnedBy(s, x)'
    BY <1>1, <1>2 DEF Aligned
  <2>1. x \in Persons \ {p}
    BY <1>1, <1>2, <1>3
  <2>2. OwnedBy(s, x)
    BY <1>1, <2>1 DEF Aligned
  <2> QED BY <1>4, <2>1, <2>2
<1>10. Placed'
  <2> SUFFICES ASSUME NEW s \in Ranks, NEW x \in Residents(s),
                      pc'[s] \notin {"attaching", "raised"}
               PROVE  \/ location'[s][x] = place'[x]
                      \/ location'[s][x] = Nowhere /\ ~OwnedBy(s, x)'
    BY <1>2 DEF Placed
  <2>1. CASE s = r /\ x = p
    BY <2>1
  <2>2. CASE ~(s = r /\ x = p)
    <3>1. x \in Persons \ {p}
      BY <1>2, <1>3, <2>2
    <3>2. pc[s] \notin {"attaching", "raised"}
      BY <1>1
    <3>3. \/ location[s][x] = place[x]
          \/ location[s][x] = Nowhere /\ ~OwnedBy(s, x)
      BY <3>2 DEF Placed
    <3> QED BY <1>4, <3>1, <3>3
  <2> QED BY <2>1, <2>2
<1> QED BY <1>5, <1>6, <1>7, <1>8, <1>9, <1>10

LEMMA FollowPlanInv ==
  ASSUME MigrationAssumption, IInv, NEW r \in Ranks, NEW p \in Persons, FollowPlan(r, p)
  PROVE  IInv'
<1> USE DEF IInv
<1> PICK e \in Elements :
      /\ Decides(r, p)
      /\ place' = [place EXCEPT ![p] = PlaceAfter(r, p, e)]
      /\ rankPlace' = [rankPlace EXCEPT ![p] = RankPlaceAfter(r, p, e)]
      /\ Relocate(r, {p}, [x \in {p} |-> LocationAfter(r, x, e)])
      /\ UNCHANGED pc
  BY DEF FollowPlan
<1> DEFINE to == [x \in {p} |-> LocationAfter(r, x, e)]
<1>1. {p} \in SUBSET Persons /\ to \in [{p} -> Places \cup {Nowhere}]
  BY MoveTypes
<1>2. /\ location' = LocationsAfter(r, {p}, to)
      /\ occupants' = OccupantsAfter(r, {p}, to)
      /\ TypeOK /\ RecordsAgree
  BY DEF Relocate
<1>3. to[p] = LocationAfter(r, p, e)
  OBVIOUS
<1> HIDE DEF to
<1>4. /\ location' \in [Ranks -> [Persons -> Places \cup {Nowhere}]]
      /\ occupants' \in [Ranks -> [Places -> SUBSET Persons]]
      /\ RecordsAgree'
  BY ONLY <1>1, <1>2, RelocateEffect, r \in Ranks
<1>5. \A s \in Ranks, x \in Persons :
        location'[s][x] = IF s = r /\ x \in {p} THEN to[x] ELSE location[s][x]
  BY ONLY <1>1, <1>2, RelocateEffect, r \in Ranks
<1>6. /\ place'[p] = PlaceAfter(r, p, e) /\ rankPlace'[p] = RankPlaceAfter(r, p, e)
      /\ \A x \in Persons \ {p} : place'[x] = place[x] /\ rankPlace'[x] = rankPlace[x]
      /\ pc' = pc /\ pc[r] = "deciding" /\ p \in undecided[r] /\ p \in Residents(r)
  BY DEF TypeOK, Decides, UndecidedHere
<1>7. TypeOK'
  <2>1. /\ place' \in [Persons -> Places \cup {Nowhere}]
        /\ rankPlace' \in [Persons -> Places]
    BY MoveTypes DEF TypeOK
  <2>2. undecided' \in [Ranks -> SUBSET Persons] /\ UNCHANGED <<at, emigrants>>
    BY DEF Decides, TypeOK
  <2> QED BY <1>4, <1>6, <2>1, <2>2 DEF TypeOK
<1>8. /\ place[p] \in {Nowhere, rankPlace[p]}
      /\ \/ location[r][p] = place[p]
         \/ location[r][p] = Nowhere /\ PlaceRank[rankPlace[p]] # r
  BY <1>6 DEF InPlaceOrTransit, Placed, OwnedBy
<1>9. /\ PlaceAfter(r, p, e) \in {Nowhere, RankPlaceAfter(r, p, e)}
      /\ \/ LocationAfter(r, p, e) = PlaceAfter(r, p, e)
         \/ /\ LocationAfter(r, p, e) = Nowhere
            /\ PlaceRank[RankPlaceAfter(r, p, e)] # r
  BY <1>8, MoveAtPlaces
<1>10. /\ place'[p] \in {Nowhere, rankPlace'[p]}
       /\ \/ location'[r][p] = place'[p]
          \/ location'[r][p] = Nowhere /\ ~OwnedBy(r, p)'
  BY <1>3, <1>5, <1>6, <1>9 DEF OwnedBy
<1>11. \A s \in Ranks, x \in Persons :
         ~(s = r /\ x = p) => location'[s][x] = location[s][x]
  BY <1>5
<1>12. /\ Decides(r, p) /\ RecordsAgree'
       /\ pc'[r] = "deciding" /\ \A s \in Ranks \ {r} : pc'[s] = pc[s]
  BY <1>4, <1>6
<1> QED BY <1>6, <1>7, <1>10, <1>11, <1>12, DecisionInv

LEMMA HomeUnknownInv ==
  ASSUME MigrationAssumption, IInv, NEW r \in Ranks, NEW p \in Persons, HomeUnknown(r, p)
  PROVE  IInv'
<1> USE DEF IInv
<1>1. /\ Decides(r, p) /\ pc[r] = "deciding" /\ p \in undecided[r]
      /\ UNCHANGED <<at, place, rankPlace, location, occupants, emigrants, pc>>
  BY DEF HomeUnknown, Decides, projection
<1>2. TypeOK' /\ RecordsAgree'
  BY <1>1 DEF Decides, TypeOK, RecordsAgree
<1>3. p \in Residents(r)
  BY <1>1 DEF UndecidedHere
<1>4. /\ place'[p] \in {Nowhere, rankPlace'[p]}
      /\ \/ location'[r][p] = place'[p]
         \/ location'[r][p] = Nowhere /\ ~OwnedBy(r, p)'
  BY <1>1, <1>3 DEF InPlaceOrTransit, Placed, OwnedBy
<1> QED BY <1>1, <1>2, <1>4, DecisionInv

LEMMA ForceHomeInv ==
  ASSUME MigrationAssumption, IInv, NEW r \in Ranks, NEW p \in Persons, ForceHome(r, p)
  PROVE  IInv'
<1> USE DEF IInv
<1>1. /\ Decides(r, p) /\ pc[r] = "deciding" /\ p \in undecided[r]
      /\ place'[p] = Home[p] /\ rankPlace'[p] = Home[p]
      /\ \A x \in Persons \ {p} : place'[x] = place[x] /\ rankPlace'[x] = rankPlace[x]
      /\ place' \in [Persons -> Places \cup {Nowhere}] /\ rankPlace' \in [Persons -> Places]
  BY DEF ForceHome, Decides, TypeOK, MigrationAssumption
<1>2. CASE location[r][p] = Nowhere
  <2>1. /\ pc' = [pc EXCEPT ![r] = "raised"]
        /\ UNCHANGED <<location, occupants>>
    BY <1>2 DEF ForceHome, projection
  <2>2. TypeOK' /\ RecordsAgree'
    BY <1>1, <2>1 DEF Decides, TypeOK, RecordsAgree, Phases
  <2>3. pc'[r] = "raised" /\ \A s \in Ranks \ {r} : pc'[s] = pc[s]
    BY <2>1 DEF TypeOK
  <2> QED BY <1>1, <2>1, <2>2, <2>3, DecisionInv
<1>3. CASE location[r][p] # Nowhere
  <2> DEFINE to == [x \in {p} |-> Home[x]]
  <2>1. {p} \in SUBSET Persons /\ to \in [{p} -> Places \cup {Nowhere}] /\ to[p] = Home[p]
    BY DEF MigrationAssumption
  <2>2. /\ location' = LocationsAfter(r, {p}, to)
        /\ occupants' = OccupantsAfter(r, {p}, to)
        /\ TypeOK /\ RecordsAgree /\ pc' = pc
    BY <1>3 DEF ForceHome, Relocate
  <2> HIDE DEF to
  <2>3. /\ location' \in [Ranks -> [Persons -> Places \cup {Nowhere}]]
        /\ occupants' \in [Ranks -> [Places -> SUBSET Persons]]
        /\ RecordsAgree'
    BY ONLY <2>1, <2>2, RelocateEffect, r \in Ranks
  <2>4. \A s \in Ranks, x \in Persons :
          location'[s][x] = IF s = r /\ x \in {p} THEN to[x] ELSE location[s][x]
    BY ONLY <2>1, <2>2, RelocateEffect, r \in Ranks
  <2>5. TypeOK'
    BY <1>1, <2>2, <2>3 DEF Decides, TypeOK
  <2>6. /\ location'[r][p] = place'[p]
        /\ \A s \in Ranks, x \in Persons :
             ~(s = r /\ x = p) => location'[s][x] = location[s][x]
    BY <1>1, <2>1, <2>4
  <2>7. pc'[r] = "deciding" /\ \A s \in Ranks \ {r} : pc'[s] = pc[s]
    BY <1>1, <2>2
  <2>8. RecordsAgree' /\ place'[p] \in {Nowhere, rankPlace'[p]}
    BY <1>1, <2>3
  <2> QED BY <1>1, <2>5, <2>6, <2>7, <2>8, DecisionInv
<1> QED BY <1>2, <1>3

LEMMA StutterInv == ASSUME IInv, UNCHANGED vars PROVE IInv'
<1> USE DEF IInv, vars, projection
<1>1. TypeOK' /\ RecordsAgree' /\ InPlaceOrTransit' /\ LocatedAtHolder'
  BY DEF TypeOK, RecordsAgree, InPlaceOrTransit, LocatedAtHolder, Residents
<1>2. EmigrantsExact' /\ EmigrantsGone' /\ UndecidedHere' /\ Aligned' /\ Placed'
  BY DEF EmigrantsExact, EmigrantsGone, UndecidedHere, Aligned, Placed, Residents, OwnedBy
<1> QED BY <1>1, <1>2
-----------------------------------------------------------------------------
\* The invariant holds in every state of every tick, whatever the engines decide.
THEOREM Invariance == Spec => []IInv
<1>1. Init => IInv
  BY MigrationAssumption, InitInv
<1>2. IInv /\ [Next]_vars => IInv'
  <2> SUFFICES ASSUME IInv, [Next]_vars PROVE IInv'
    OBVIOUS
  <2>1. CASE BeginTick
    BY <2>1, MigrationAssumption, BeginTickInv
  <2>2. CASE CountMoves
    BY <2>2, MigrationAssumption, CountMovesInv
  <2>3. CASE MoveAgents
    BY <2>3, MigrationAssumption, MoveAgentsInv
  <2>4. ASSUME NEW r \in Ranks, MovePersons(r) PROVE IInv'
    BY <2>4, MigrationAssumption, MovePersonsInv
  <2>5. ASSUME NEW r \in Ranks, Attach(r) PROVE IInv'
    BY <2>5, MigrationAssumption, AttachInv
  <2>6. ASSUME NEW r \in Ranks, EndTick(r) PROVE IInv'
    BY <2>6, MigrationAssumption, EndTickInv
  <2>7. ASSUME NEW r \in Ranks, NEW p \in Persons, FollowPlan(r, p) PROVE IInv'
    BY <2>7, MigrationAssumption, FollowPlanInv
  <2>8. ASSUME NEW r \in Ranks, NEW p \in Persons, StayHome(r, p) PROVE IInv'
    BY <2>8, MigrationAssumption, HomeUnknownInv, ForceHomeInv DEF StayHome
  <2>9. CASE UNCHANGED vars
    BY <2>9, StutterInv
  <2> QED BY <2>1, <2>2, <2>3, <2>4, <2>5, <2>6, <2>7, <2>8, <2>9 DEF Next, RankStep
<1> QED BY <1>1, <1>2, PTL DEF Spec

\* Every variable keeps its type.
THEOREM TypeCorrect == Spec => []TypeOK
<1>1. IInv => TypeOK
  BY DEF IInv
<1> QED BY <1>1, Invariance, PTL

\* After its environment step a rank holds only people whose place it owns: the
\* next tick's scan, or the count of moved people, has caught everybody.
THEOREM OwnersSettle == Spec => []OwnersAreLocal
<1>1. IInv => OwnersAreLocal
  <2> SUFFICES ASSUME IInv, NEW r \in Ranks, Settled(r), NEW p \in Residents(r)
               PROVE  PlaceRank[rankPlace[p]] = r
    BY DEF OwnersAreLocal
  <2>1. pc[r] = "deciding" /\ (ScheduleEngine \/ p \in undecided[r])
    BY DEF Settled
  <2> QED BY <2>1 DEF IInv, Aligned, OwnedBy
<1> QED BY <1>1, Invariance, PTL

\* After its environment step a rank's places hold exactly the residents who are
\* in them, also in ticks in which the projections are not repaired.
THEOREM OccupantsSettle == Spec => []OccupantsExact
<1>1. IInv => OccupantsExact
  <2> SUFFICES ASSUME IInv, NEW r \in Ranks, Settled(r), NEW q \in Places
               PROVE  occupants[r][q] = {p \in Residents(r) : place[p] = q}
    BY DEF OccupantsExact
  <2>1. \A p \in Residents(r) : location[r][p] = place[p]
    BY DEF IInv, Settled, Aligned, Placed
  <2>2. \A p \in Persons \ Residents(r) : location[r][p] = Nowhere
    BY DEF IInv, LocatedAtHolder
  <2>3. occupants[r][q] = {p \in Persons : location[r][p] = q}
    BY DEF IInv, RecordsAgree
  <2> QED BY <2>1, <2>2, <2>3, MigrationAssumption DEF Residents, MigrationAssumption
<1> QED BY <1>1, Invariance, PTL

\* No rank's projection ever holds a person of another rank.
THEOREM GhostFree == Spec => []NoGhosts
<1>1. IInv => NoGhosts
  <2> SUFFICES ASSUME IInv, NEW r \in Ranks, NEW p \in Persons \ Residents(r)
               PROVE  location[r][p] = Nowhere /\ \A q \in Places : p \notin occupants[r][q]
    BY DEF NoGhosts
  <2>1. location[r][p] = Nowhere
    BY DEF IInv, LocatedAtHolder
  <2>2. \A q \in Places : occupants[r][q] = {x \in Persons : location[r][x] = q}
    BY DEF IInv, RecordsAgree
  <2> QED BY <2>1, <2>2, MigrationAssumption DEF MigrationAssumption
<1> QED BY <1>1, Invariance, PTL
=============================================================================

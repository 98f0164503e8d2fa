----------------------------- MODULE MCStartup ------------------------------
EXTENDS Startup
CONSTANTS q1, q2, h1, p1
MCRanks == 0..1
MCDefaultRanks == {1, 2}
MCIds == {q1, q2, h1}
MCPlaces == {q1, q2}
MCGraphNodes == {{q1}, MCIds}

\* A home given by a household row, by the place itself, and by a household whose id is
\* that of a place but which is at another, in the places table or not.
Table(id, rows) ==
  [homeId |-> [p \in Persons |-> id],
   householdPlace |-> [i \in MCIds |-> IF i \in DOMAIN rows THEN rows[i] ELSE Unset],
   placeRank |-> [q \in MCPlaces |-> IF q = q1 THEN 0 ELSE 1]]
MCSources ==
  {Table(h1, [i \in {h1} |-> q1]), Table(q2, <<>>), Table(q1, [i \in {q1} |-> q2]),
   Table(q1, [i \in {q1} |-> h1])}
=============================================================================

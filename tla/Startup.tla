------------------------------ MODULE Startup -------------------------------
(***************************************************************************)
(* CasmPop.build_context (casmsocial/casmpop.py): every rank reads the     *)
(* partition table, rank 0 validates it and broadcasts the verdict, and    *)
(* every rank builds its places, households and people from its own copy.  *)
(* Jobs of the Partitioner may still be at work on the table.              *)
(*                                                                         *)
(* Rows are sets, columns that never decide what is loaded where are left  *)
(* out.  The queries of one rank other than that of the partition table    *)
(* read tables nobody writes, so their order does not matter.              *)
(***************************************************************************)
EXTENDS Partitioner

CONSTANTS
  Persons,       \* the people with activities; others are never created
  Sources,       \* the contents the input tables may have
  DefaultRanks,  \* the values partition.default_rank may have, valid or not
  Unset          \* no household place, no verdict, no rank

\* homeId is sp_hh_id; householdPlace gives the place of the household with an id, if
\* there is one; placeRank is the rank column of the places table, or zero.
ASSUME StartupAssumption ==
  /\ 0 \in Ranks /\ DefaultRanks \subseteq Nat
  /\ Unset \notin Ids \cup BOOLEAN
  /\ Sources \subseteq [homeId : [Persons -> Ids], householdPlace : [Ids -> Ids \cup {Unset}],
                        placeRank : [Places -> Ranks]]

VARIABLES
  config,    \* parameters: partitioned, fullCoverage, replicate, defaultRank
  source,    \* the input tables: homeId, householdPlace, placeRank
  pc,        \* where each rank is in build_context
  verdict,   \* what rank 0 broadcast about the partition
  view,      \* place_ranks: the rows <<place, rank>> each rank materialized
  ownerOf,   \* place_to_rank of each rank
  placeRank, \* the place objects of each rank, with their ranks
  people,    \* the people of each rank's context, each with its place
  overtaken  \* history, with full coverage: the ranks whose copy a job has overtaken

startupVars == <<config, source, pc, verdict, view, ownerOf, placeRank, people>>
vars == <<partitionVars, startupVars, overtaken>>

Configs == [partitioned : BOOLEAN, fullCoverage : BOOLEAN, replicate : BOOLEAN,
            defaultRank : DefaultRanks]

TypeOK ==
  /\ config \in Configs /\ source \in Sources
  /\ verdict \in BOOLEAN \cup {Unset}
  /\ \A r \in Ranks :
       /\ pc[r] \in {"resolving", "validating", "materializing", "loading", "ready", "raised"}
       /\ view[r] \subseteq Ids \X (Ranks \cup DefaultRanks)
       /\ DOMAIN ownerOf[r] \subseteq Ids /\ DOMAIN placeRank[r] \subseteq Places
       /\ people[r] \subseteq Persons \X DOMAIN placeRank[r]

Init ==
  /\ PartitionerInit
  /\ config \in Configs
  /\ source \in Sources
  /\ config.partitioned \/ (~config.fullCoverage /\ ~config.replicate)
  /\ pc = [r \in Ranks |-> "resolving"]
  /\ verdict = Unset
  /\ view = [r \in Ranks |-> {}]
  /\ ownerOf = [r \in Ranks |-> <<>>]
  /\ placeRank = [r \in Ranks |-> <<>>]
  /\ people = [r \in Ranks |-> {}]
  /\ overtaken = {}

Goes(r, from, to) == pc[r] = from /\ pc' = [pc EXCEPT ![r] = to]

\* _resolve_required_input_tables, on every rank.
ResolveTables(r) ==
  /\ Goes(r, "resolving",
       IF ~config.partitioned THEN "loading"
       ELSE IF ~exists THEN "raised"
       ELSE IF config.fullCoverage THEN "materializing" ELSE "validating")
  /\ UNCHANGED <<config, source, verdict, view, ownerOf, placeRank, people>>
-----------------------------------------------------------------------------
(* Partition rows: validation and each rank's copy. *)

PartitionRows == {<<row.place, row.rank>> : row \in table}
Covers(rows) == \A q \in Places : \E row \in rows : row[1] = q

\* Mutant: rows that do not cover every place are let through.
SomeRows(rows) == rows # {}

\* What _validate_partition_table_local and its variant for full coverage accept.
\* (A rank outside 0 .. size - 1 is refused; the partitioner writes none.)
Acceptable(rows) ==
  /\ \A row \in rows : row[2] \in Ranks
  /\ config.fullCoverage => rows # {} /\ Covers(rows)

AfterValidation == IF config.fullCoverage THEN "loading" ELSE "materializing"

\* Mutant: rank 0 raises what it found instead of broadcasting it first.
ValidateAlone ==
  \E good \in {Acceptable(IF config.fullCoverage THEN view[0] ELSE PartitionRows)} :
    /\ Goes(0, "validating", IF good THEN AfterValidation ELSE "raised")
    /\ verdict' = IF good THEN TRUE ELSE verdict
    /\ UNCHANGED <<config, source, view, ownerOf, placeRank, people>>

\* Rank 0 looks at the table, for full coverage at its own copy of it, and
\* broadcasts the verdict.
Validate ==
  \E good \in {Acceptable(IF config.fullCoverage THEN view[0] ELSE PartitionRows)} :
    /\ Goes(0, "validating", IF good THEN AfterValidation ELSE "raised")
    /\ verdict' = good
    /\ UNCHANGED <<config, source, view, ownerOf, placeRank, people>>

ReceiveVerdict(r) ==
  /\ r # 0 /\ verdict # Unset
  /\ Goes(r, "validating", IF verdict THEN AfterValidation ELSE "raised")
  /\ UNCHANGED <<config, source, verdict, view, ownerOf, placeRank, people>>

\* Without full coverage every place gets a row, missing ones the default rank.
PlaceRanks(rows) ==
  IF config.fullCoverage THEN rows
  ELSE {row \in rows : row[1] \in Places}
         \cup {<<q, config.defaultRank>> : q \in Places \ {row[1] : row \in rows}}

Materialize(r) ==
  /\ Goes(r, "materializing", IF config.fullCoverage THEN "validating" ELSE "loading")
  /\ view' = [view EXCEPT ![r] = PlaceRanks(PartitionRows)]
  /\ UNCHANGED <<config, source, verdict, ownerOf, placeRank, people>>
-----------------------------------------------------------------------------
(* What a rank loads. *)

\* Python dictionaries of the rows: of several rows of a place the last one counts.
Dictionaries(rows) ==
  {f \in [{row[1] : row \in rows} -> {row[2] : row \in rows}] :
     \A q \in DOMAIN f : <<q, f[q]>> \in rows}

\* The places table of rank r with the rank column.
PlaceRows(r) ==
  IF ~config.partitioned THEN {<<q, source.placeRank[q]>> : q \in Places}
  ELSE {row \in view[r] : row[1] \in Places /\ (config.replicate \/ row[2] = r)}

Household(id) == source.householdPlace[id]

\* The ranks the persons query gives a person: that of the household's place, if the
\* partition has it, else that of sp_hh_id taken as a place, else the default.
PersonRanks(r, p) ==
  LET ranksAt(id) == {row[2] : row \in {v \in view[r] : v[1] = id}}
      home == Household(source.homeId[p])
      at == IF home # Unset /\ ranksAt(home) # {} THEN home ELSE source.homeId[p]
  IN  IF ranksAt(at) = {} THEN {config.defaultRank} ELSE ranksAt(at)

PersonRows(r) ==
  IF config.partitioned THEN {p \in Persons : r \in PersonRanks(r, p)} ELSE Persons

\* Where create_persons looks for the home: households are known on the rank of
\* their place only; otherwise the id itself is looked up.
HomeOn(r, places, p) ==
  LET home == Household(source.homeId[p])
  IN  IF home \in DOMAIN places /\ places[home] = r THEN home ELSE source.homeId[p]

\* Mutant: people are created whatever the rank of their household's place.
PeopleAnywhere(r, places) ==
  {<<p, HomeOn(r, places, p)>> :
     p \in {q \in PersonRows(r) : HomeOn(r, places, q) \in DOMAIN places}}

\* create_persons: people without a loaded home place, of another rank or without
\* activities are skipped.
PeopleOf(r, places) ==
  {<<p, HomeOn(r, places, p)>> :
     p \in {q \in PersonRows(r) :
              /\ HomeOn(r, places, q) \in DOMAIN places
              /\ places[HomeOn(r, places, q)] = r}}

\* create_places, create_households and create_persons.
Load(r) ==
  /\ Goes(r, "loading", "ready")
  /\ \E places \in Dictionaries(PlaceRows(r)) :
       /\ placeRank' = [placeRank EXCEPT ![r] = places]
       /\ people' = [people EXCEPT ![r] = PeopleOf(r, places)]
       /\ \E owners \in IF config.partitioned THEN Dictionaries(view[r]) ELSE {places} :
            ownerOf' = [ownerOf EXCEPT ![r] = owners]
  /\ UNCHANGED <<config, source, verdict, view>>

RankStep(r) ==
  \/ ResolveTables(r) \/ (r = 0 /\ Validate) \/ ReceiveVerdict(r)
  \/ Materialize(r) \/ Load(r)

Ended(r) == pc[r] \in {"ready", "raised"}

\* With full coverage a rank copies the table before it waits for the verdict.
HasCopied(r) == config.fullCoverage /\ pc[r] \in {"validating", "loading", "ready"}

Next ==
  \/ /\ JobStep
     /\ overtaken' = IF table' = table THEN overtaken ELSE {r \in Ranks : HasCopied(r)}
     /\ UNCHANGED startupVars
  \/ \E r \in Ranks : RankStep(r) /\ UNCHANGED <<partitionVars, overtaken>>

\* Ranks are processes; jobs are run, and end, at somebody's pleasure.
Spec == Init /\ [][Next]_vars /\ WF_vars(\E r \in Ranks : RankStep(r) /\ UNCHANGED <<partitionVars, overtaken>>)
-----------------------------------------------------------------------------
(* Properties. *)

\* All ranks read the same assignment, and it gives each place one rank.
Undisturbed ==
  /\ \A r, s \in Ranks : view[r] = view[s]
  /\ \A a, b \in view[0] : a[1] = b[1] => a[2] = b[2]

AllReady == \A r \in Ranks : pc[r] = "ready"

\* No household has the id of a place other than its own.  Without a partition table
\* a rank that does not have the household takes its id for a place.
IdsApart == \A q \in Places : source.householdPlace[q] \in {Unset, q}

\* The place at which create_persons and the persons query should agree: the
\* household's, if it has a place in the places table.
HomePlace(p) ==
  LET home == Household(source.homeId[p])
  IN  IF home \in Places THEN home ELSE source.homeId[p]

\* With full coverage the persons query also finds, in the assignment, a household's
\* place that the places table lacks; create_persons then looks elsewhere.
SameHome(p) ==
  config.fullCoverage => Household(source.homeId[p]) \in Places \cup {Unset}

\* create_persons and the rank filter of the persons query together: nobody is created
\* on two ranks, whoever is created on a rank is at a place which all ranks that know the
\* place take for that rank's, and, when all ranks are ready, everybody with a home in the
\* places table has been created there: the population Migration starts from.  Only
\* overlapping jobs, or one that writes while ranks read, can make it otherwise; the
\* default rank must be a rank, and the two must look for the home at one place.
PeopleHaveOneOwner ==
  /\ TypeOK
  /\ Undisturbed /\ (config.partitioned \/ IdsApart) => \A r, s \in Ranks : \A p \in people[r] :
       /\ r # s => \A q \in people[s] : p[1] # q[1]
       /\ pc[s] = "ready" /\ p[2] \in DOMAIN ownerOf[s] => ownerOf[s][p[2]] = r
  /\ AllReady /\ Undisturbed /\ config.defaultRank \in Ranks =>
       \A p \in Persons : HomePlace(p) \in Places /\ SameHome(p) =>
         \E r \in Ranks : <<p, HomePlace(p)>> \in people[r]

\* With full coverage required no rank starts unless rank 0's copy assigns every place, and
\* rank 0 starts on all of it.  The verdict is about rank 0's copy and the others load their
\* own: what one of them starts on can lack a place only if a job has changed the table
\* after rank 0 or that rank had copied it (casmpop.py:2302).
FullCoverageIsEnforced ==
  \A r \in Ranks : config.fullCoverage /\ pc[r] = "ready" =>
    /\ Covers(view[0])
    /\ \/ Places \subseteq DOMAIN ownerOf[r]
       \/ r # 0 /\ {0, r} \cap overtaken # {}

\* No rank is left in the broadcast of the verdict: all ranks end, ready or raised,
\* unless the table was created while the ranks looked for it (rank 0 may then have
\* raised before the broadcast the others wait in).
StartupEnds == []exists \/ []~exists => <>(\A r \in Ranks : Ended(r))
=============================================================================

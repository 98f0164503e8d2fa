--------------------------- MODULE Startup_proofs ---------------------------
(***************************************************************************)
(* Proofs about the partitioner's table and the ranks' startup, for any    *)
(* number of jobs, ranks, places and people, and any input tables.         *)
(*                                                                         *)
(* IInv has three parts.  JobsInv is about the jobs alone: a row that is   *)
(* there while a job is about to insert was written while that job ran.    *)
(* RanksInv is what build_context has established at each of its steps:    *)
(* the verdict is about rank 0's copy, which no longer changes, and what a *)
(* ready rank has loaded is a function of its copy and the input tables.   *)
(* CopyInv ties the two: a copy that no job has overtaken is the table.    *)
(***************************************************************************)
EXTENDS Startup, TLAPS

\* Two active jobs have been noticed by the one that started later.
ActiveOverlap == \A j, k \in Active : j # k => {j, k} \in overlapped

\* A job creates the table before it deletes from it.
Created == \A j \in Jobs : job[j] \in {"deleting", "inserting"} => exists

\* A job that has deleted finds only rows of jobs that were active with it.
InsertOverlap ==
  \A j \in Jobs : job[j] = "inserting" =>
    \A a \in table : a.by # j => {a.by, j} \in overlapped

JobsInv ==
  /\ PartitionerTypeOK
  /\ Created
  /\ ActiveOverlap
  /\ InsertOverlap
  /\ \A a, b \in table : a.by # b.by => {a.by, b.by} \in overlapped

Pcs == {"resolving", "validating", "materializing", "loading", "ready", "raised"}

DomainsInv ==
  /\ pc \in [Ranks -> Pcs]
  /\ view \in [Ranks -> SUBSET (Ids \X (Ranks \cup DefaultRanks))]
  /\ DOMAIN ownerOf = Ranks /\ DOMAIN placeRank = Ranks /\ DOMAIN people = Ranks

ConfigInv ==
  /\ config \in Configs /\ source \in Sources
  /\ verdict \in BOOLEAN \cup {Unset}
  /\ config.fullCoverage => config.partitioned

\* What the copies hold.
ViewInv ==
  \A r \in Ranks :
    /\ pc[r] \in {"validating", "materializing"} => config.partitioned
    /\ \A row \in view[r] : row[2] \in Ranks \cup {config.defaultRank}
    /\ config.partitioned /\ ~config.fullCoverage /\ pc[r] \in {"loading", "ready"} =>
         Covers(view[r]) /\ \A row \in view[r] : row[1] \in Places

VerdictInv ==
  /\ config.fullCoverage /\ verdict = TRUE => Covers(view[0]) /\ pc[0] \in {"loading", "ready"}
  /\ \A r \in Ranks : config.fullCoverage /\ pc[r] \in {"loading", "ready"} => verdict = TRUE

\* What rank r has built from its copy.
Loaded(r) ==
  /\ placeRank[r] \in Dictionaries(PlaceRows(r))
  /\ people[r] = PeopleOf(r, placeRank[r])
  /\ ownerOf[r] \in IF config.partitioned THEN Dictionaries(view[r]) ELSE {placeRank[r]}

LoadInv ==
  \A r \in Ranks :
    /\ pc[r] = "ready" => Loaded(r)
    /\ pc[r] # "ready" => placeRank[r] = <<>> /\ ownerOf[r] = <<>> /\ people[r] = {}

RanksInv == DomainsInv /\ ConfigInv /\ ViewInv /\ VerdictInv /\ LoadInv

\* A copy that no job has overtaken is the table.
CopyInv ==
  config.fullCoverage => \A r \in Ranks : HasCopied(r) => r \in overtaken \/ view[r] = PartitionRows

IInv == JobsInv /\ RanksInv /\ CopyInv
-----------------------------------------------------------------------------
(* The jobs. *)

LEMMA JobsInit == PartitionerInit => JobsInv
BY DEF PartitionerInit, JobsInv, PartitionerTypeOK, Created, ActiveOverlap, InsertOverlap, Active

LEMMA JobsStep ==
  ASSUME JobsInv, JobStep
  PROVE  JobsInv'
<1> USE DEF JobsInv
<1>p. \A x, y : {x, y} = {y, x}
  OBVIOUS
<1>j. job \in [Jobs -> {"idle", "building", "deleting", "inserting", "done", "skipped", "crashed"}]
  BY DEF PartitionerTypeOK
<1>1. ASSUME NEW j \in Jobs, CountExisting(j) PROVE JobsInv'
  <2>1. table' = table /\ exists' = exists /\ overlapped \subseteq overlapped'
    BY <1>1 DEF CountExisting
  <2>2. PartitionerTypeOK'
    <3>1. overlapped' \subseteq SUBSET Jobs
      BY <1>1 DEF CountExisting, PartitionerTypeOK, Active
    <3> QED
      BY <1>1, <1>j, <2>1, <3>1 DEF CountExisting, JobGoes, PartitionerTypeOK
  <2>3. ActiveOverlap'
    <3>1. CASE job' = [job EXCEPT ![j] = "building"] /\ overlapped' = overlapped \cup {{j, k} : k \in Active}
      <4>1. Active' = Active \cup {j}
        BY <1>j, <3>1 DEF Active
      <4> QED
        BY <1>p, <3>1, <4>1 DEF ActiveOverlap
    <3>2. CASE job' = [job EXCEPT ![j] = "skipped"]
      <4>1. Active' \subseteq Active
        BY <1>j, <3>2 DEF Active
      <4> QED
        BY <2>1, <4>1 DEF ActiveOverlap
    <3> QED
      BY <1>1, <3>1, <3>2 DEF CountExisting, JobGoes
  <2>4. InsertOverlap'
    <3>1. \A k \in Jobs : job'[k] = "inserting" => job[k] = "inserting"
      BY <1>1, <1>j DEF CountExisting, JobGoes
    <3> QED
      BY <2>1, <3>1 DEF InsertOverlap
  <2>5. Created'
    BY <1>1, <1>j DEF CountExisting, JobGoes, Created
  <2> QED
    BY <2>1, <2>2, <2>3, <2>4, <2>5
<1>2. ASSUME NEW j \in Jobs, EnsureOutputTable(j) PROVE JobsInv'
  <2>1. PartitionerTypeOK'
    BY <1>2, <1>j DEF EnsureOutputTable, JobGoes, PartitionerTypeOK
  <2>2. Active' = Active /\ \A k \in Jobs : job'[k] = "inserting" => job[k] = "inserting"
    BY <1>2, <1>j DEF EnsureOutputTable, JobGoes, Active
  <2> QED
    BY <1>2, <2>1, <2>2 DEF EnsureOutputTable, Created, ActiveOverlap, InsertOverlap
<1>3. ASSUME NEW j \in Jobs, DeleteRows(j) PROVE JobsInv'
  <2>1. PartitionerTypeOK'
    BY <1>3, <1>j DEF DeleteRows, JobGoes, PartitionerTypeOK
  <2>2. Active' = Active
    BY <1>3, <1>j DEF DeleteRows, JobGoes, Active
  <2>3. Created'
    BY <1>3, <1>j DEF DeleteRows, JobGoes, Created
  <2> QED
    BY <1>3, <2>1, <2>2, <2>3 DEF DeleteRows, ActiveOverlap, InsertOverlap
<1>4. ASSUME NEW j \in Jobs, InsertRows(j) PROVE JobsInv'
  <2>1. PICK nodes \in GraphNodes : \E partition \in Partitions(nodes) :
          table' = table \cup {[place |-> q, rank |-> partition[q], by |-> j] : q \in nodes}
    BY <1>4 DEF InsertRows
  <2>2. PICK partition \in Partitions(nodes) :
          table' = table \cup {[place |-> q, rank |-> partition[q], by |-> j] : q \in nodes}
    BY <2>1
  <2>3. /\ job[j] = "inserting" /\ job' = [job EXCEPT ![j] = "done"]
        /\ overlapped' = overlapped /\ exists' = exists
    BY <1>4 DEF InsertRows, JobGoes
  <2>4. j \in Active /\ Active' \subseteq Active
    BY <1>j, <2>3 DEF Active
  <2>5. \A a \in table' : a \in table \/ a.by = j
    BY <2>2
  <2>6. PartitionerTypeOK'
    <3>1. nodes \subseteq Ids /\ \A q \in nodes : partition[q] \in Ranks
      BY PartitionerAssumption DEF Partitions
    <3>2. table' \subseteq Rows
      BY <2>2, <3>1 DEF PartitionerTypeOK, Rows
    <3>3. exists = TRUE
      BY <2>3 DEF Created, PartitionerTypeOK
    <3> QED
      BY <1>j, <2>3, <3>2, <3>3 DEF PartitionerTypeOK
  <2>7. ActiveOverlap'
    BY <2>3, <2>4 DEF ActiveOverlap
  <2>8. InsertOverlap'
    <3>1. ASSUME NEW k \in Jobs, job'[k] = "inserting", NEW a \in table', a.by # k
          PROVE  {a.by, k} \in overlapped
      <4>1. k # j /\ job[k] = "inserting" /\ k \in Active
        BY <1>j, <2>3, <3>1 DEF Active
      <4> QED
        BY <2>4, <2>5, <3>1, <4>1 DEF InsertOverlap, ActiveOverlap
    <3> QED
      BY <2>3, <3>1 DEF InsertOverlap
  <2>9. \A a, b \in table' : a.by # b.by => {a.by, b.by} \in overlapped'
    BY <1>p, <2>3, <2>5 DEF InsertOverlap
  <2>10. Created'
    BY <1>j, <2>3 DEF Created
  <2> QED
    BY <2>6, <2>7, <2>8, <2>9, <2>10
<1>5. ASSUME NEW j \in Jobs, Crash(j) PROVE JobsInv'
  <2>1. PartitionerTypeOK'
    BY <1>5, <1>j DEF Crash, PartitionerTypeOK
  <2>2. Active' \subseteq Active /\ \A k \in Jobs : job'[k] = "inserting" => job[k] = "inserting"
    BY <1>5, <1>j DEF Crash, Active
  <2>3. Created'
    BY <1>5, <1>j DEF Crash, Created
  <2> QED
    BY <1>5, <2>1, <2>2, <2>3 DEF Crash, ActiveOverlap, InsertOverlap
<1> QED
  BY <1>1, <1>2, <1>3, <1>4, <1>5 DEF JobStep
-----------------------------------------------------------------------------
(* What a rank makes of its rows. *)

LEMMA PlaceRowFacts ==
  ASSUME DomainsInv, ConfigInv, NEW r \in Ranks, NEW row \in PlaceRows(r)
  PROVE  /\ row[1] \in Places
         /\ config.partitioned => row \in view[r]
         /\ ~config.partitioned => row[2] = source.placeRank[row[1]]
BY DEF PlaceRows

\* Without a partition table every rank loads every place, with the table's rank.
LEMMA WholePlaces ==
  ASSUME NEW r \in Ranks, ~config.partitioned, NEW places \in Dictionaries(PlaceRows(r))
  PROVE  DOMAIN places = Places /\ \A q \in Places : places[q] = source.placeRank[q]
<1>1. PlaceRows(r) = {<<q, source.placeRank[q]>> : q \in Places}
  BY DEF PlaceRows
<1>2. /\ DOMAIN places = {row[1] : row \in PlaceRows(r)}
      /\ \A q \in DOMAIN places : <<q, places[q]>> \in PlaceRows(r)
  BY DEF Dictionaries
<1>3. DOMAIN places = Places
  <2>1. ASSUME NEW q \in Places PROVE q \in DOMAIN places
    <3>1. <<q, source.placeRank[q]>> \in PlaceRows(r) /\ <<q, source.placeRank[q]>>[1] = q
      BY <1>1
    <3> QED
      BY <1>2, <3>1
  <2>2. ASSUME NEW q \in DOMAIN places PROVE q \in Places
    <3>1. <<q, places[q]>> \in {<<p, source.placeRank[p]>> : p \in Places}
      BY <1>1, <1>2
    <3>2. PICK p \in Places : <<q, places[q]>> = <<p, source.placeRank[p]>>
      BY <3>1
    <3> QED
      BY <3>2
  <2> QED
    BY <2>1, <2>2
<1>4. ASSUME NEW q \in Places PROVE places[q] = source.placeRank[q]
  <2>1. <<q, places[q]>> \in PlaceRows(r)
    BY <1>2, <1>3
  <2>2. <<q, places[q]>> \in {<<p, source.placeRank[p]>> : p \in Places}
    BY <1>1, <2>1
  <2>3. PICK p \in Places : <<q, places[q]>> = <<p, source.placeRank[p]>>
    BY <2>2
  <2> QED
    BY <2>3
<1> QED
  BY <1>3, <1>4

LEMMA PeopleFacts ==
  ASSUME NEW r, NEW places, NEW p \in PeopleOf(r, places)
  PROVE  /\ p = <<p[1], HomeOn(r, places, p[1])>>
         /\ p[1] \in PersonRows(r) /\ p[1] \in Persons
         /\ p[2] = HomeOn(r, places, p[1])
         /\ p[2] \in DOMAIN places /\ places[p[2]] = r
BY DEF PeopleOf, PersonRows

\* What a rank loads depends on the configuration, the input tables and its own copy.
LEMMA SameRows ==
  ASSUME NEW r \in Ranks, NEW places, UNCHANGED <<config, source>>, view'[r] = view[r]
  PROVE  /\ PlaceRows(r)' = PlaceRows(r)
         /\ PeopleOf(r, places)' = PeopleOf(r, places)
<1>1. PlaceRows(r)' = PlaceRows(r)
  BY DEF PlaceRows
<1>2. \A p : PersonRanks(r, p)' = PersonRanks(r, p)
  BY DEF PersonRanks, Household
<1>3. \A p : HomeOn(r, places, p)' = HomeOn(r, places, p)
  BY DEF HomeOn, Household
<1>4. PersonRows(r)' = PersonRows(r)
  <2>1. CASE config.partitioned
    BY <1>2, <2>1 DEF PersonRows
  <2>2. CASE ~config.partitioned
    BY <2>2 DEF PersonRows
  <2> QED
    BY <2>1, <2>2
<1>5. PeopleOf(r, places)' = PeopleOf(r, places)
  BY <1>3, <1>4 DEF PeopleOf
<1> QED
  BY <1>1, <1>5

LEMMA LoadedStays ==
  ASSUME NEW r \in Ranks, Loaded(r), UNCHANGED <<config, source>>,
         view'[r] = view[r], placeRank'[r] = placeRank[r], people'[r] = people[r],
         ownerOf'[r] = ownerOf[r]
  PROVE  Loaded(r)'
<1>1. PlaceRows(r)' = PlaceRows(r) /\ PeopleOf(r, placeRank[r])' = PeopleOf(r, placeRank[r])
  BY SameRows
<1> QED
  BY <1>1 DEF Loaded
-----------------------------------------------------------------------------
(* The ranks. *)

LEMMA RanksInit == Init => RanksInv
<1> SUFFICES ASSUME Init PROVE RanksInv
  OBVIOUS
<1> USE DEF Init
<1>1. DomainsInv
  BY DEF DomainsInv, Pcs
<1>2. ConfigInv
  BY DEF ConfigInv, Configs
<1>3. ViewInv /\ LoadInv
  BY DEF ViewInv, LoadInv
<1>4. VerdictInv
  BY StartupAssumption DEF VerdictInv
<1> QED
  BY <1>1, <1>2, <1>3, <1>4 DEF RanksInv
\* What the rows of a rank's copy are made of, for each way of making it.
LEMMA CopyFacts ==
  ASSUME PartitionerTypeOK, ConfigInv
  PROVE  LET rows == PlaceRanks(PartitionRows)
         IN  /\ rows \subseteq Ids \X (Ranks \cup DefaultRanks)
             /\ \A row \in rows : row[2] \in Ranks \cup {config.defaultRank}
             /\ ~config.fullCoverage =>
                  Covers(rows) /\ \A row \in rows : row[1] \in Places
<1> DEFINE given == {row \in PartitionRows : row[1] \in Places}
           missing == Places \ {row[1] : row \in PartitionRows}
           added == {<<q, config.defaultRank>> : q \in missing}
           rows == PlaceRanks(PartitionRows)
<1>1. config.defaultRank \in DefaultRanks /\ Places \subseteq Ids
  BY PartitionerAssumption DEF ConfigInv, Configs
<1>2. PartitionRows \subseteq Ids \X Ranks
  <2>1. \A row \in table : row.place \in Ids /\ row.rank \in Ranks
    BY DEF PartitionerTypeOK, Rows
  <2> QED
    BY <2>1 DEF PartitionRows
<1>3. ASSUME NEW a \in added
      PROVE  a \in Places \X {config.defaultRank}
  BY <1>3
<1>4. rows = IF config.fullCoverage THEN PartitionRows ELSE given \cup added
  BY DEF PlaceRanks
<1>5. given \subseteq PartitionRows /\ \A row \in given : row[1] \in Places
  OBVIOUS
<1>6. ASSUME ~config.fullCoverage, NEW q \in Places
      PROVE  \E row \in rows : row[1] = q
  <2>1. CASE q \in {row[1] : row \in PartitionRows}
    BY <1>4, <1>6, <2>1
  <2>2. CASE q \in missing
    <3>1. <<q, config.defaultRank>> \in added /\ <<q, config.defaultRank>>[1] = q
      BY <2>2
    <3> QED
      BY <1>4, <1>6, <3>1
  <2> QED
    BY <2>1, <2>2
<1>7. \A row \in rows : row \in Ids \X Ranks \/ row \in Places \X {config.defaultRank}
  BY <1>2, <1>3, <1>4, <1>5
<1>8. ~config.fullCoverage => \A row \in rows : row[1] \in Places
  BY <1>3, <1>4, <1>5
<1> HIDE DEF rows, given, missing, added
<1>9. rows \subseteq Ids \X (Ranks \cup DefaultRanks)
  BY <1>1, <1>7
<1>10. \A row \in rows : row[2] \in Ranks \cup {config.defaultRank}
  BY <1>7
<1> QED
  BY <1>6, <1>8, <1>9, <1>10 DEF Covers, rows

LEMMA RanksStep ==
  ASSUME PartitionerTypeOK, RanksInv, NEW r \in Ranks, RankStep(r)
  PROVE  RanksInv'
<1> USE DEF RanksInv
<1>d. pc \in [Ranks -> Pcs] /\ 0 \in Ranks
  BY StartupAssumption DEF DomainsInv
<1>1. CASE ResolveTables(r)
  <2> USE <1>1 DEF ResolveTables, Goes
  <2>1. pc[r] = "resolving" /\ \A s \in Ranks : s # r => pc'[s] = pc[s]
    BY <1>d
  <2>2. /\ pc'[r] \in {"loading", "raised", "materializing", "validating"}
        /\ pc'[r] \in {"validating", "materializing"} => config.partitioned
        /\ pc'[r] = "loading" => ~config.partitioned
    BY <1>d
  <2>3. DomainsInv' /\ ConfigInv'
    BY <1>d DEF DomainsInv, ConfigInv, Pcs
  <2>4. ViewInv'
    BY <2>1, <2>2 DEF ViewInv, Covers
  <2>5. VerdictInv'
    BY <1>d, <2>1, <2>2 DEF VerdictInv, Covers, ConfigInv
  <2>6. LoadInv'
    <3>1. ASSUME NEW s \in Ranks, pc'[s] = "ready" PROVE Loaded(s)'
      BY <2>1, <2>2, <3>1, LoadedStays DEF LoadInv
    <3> QED
      BY <2>1, <3>1 DEF LoadInv
  <2> QED
    BY <2>3, <2>4, <2>5, <2>6
<1>2. CASE r = 0 /\ Validate
  <2> DEFINE good == Acceptable(IF config.fullCoverage THEN view[0] ELSE PartitionRows)
  <2>1. /\ pc[0] = "validating" /\ pc' = [pc EXCEPT ![0] = IF good THEN AfterValidation ELSE "raised"]
        /\ verdict' = good
        /\ UNCHANGED <<config, source, view, ownerOf, placeRank, people>>
    BY <1>2 DEF Validate, Goes
  <2>2. good \in BOOLEAN /\ (good /\ config.fullCoverage => Covers(view[0]))
    BY DEF Acceptable
  <2> HIDE DEF good
  <2>3. /\ \A s \in Ranks : s # 0 => pc'[s] = pc[s]
        /\ pc'[0] \in {"loading", "materializing", "raised"}
        /\ pc'[0] = "loading" => good /\ config.fullCoverage
        /\ good /\ config.fullCoverage => pc'[0] = "loading"
    BY <1>d, <2>1 DEF AfterValidation
  <2>4. DomainsInv' /\ ConfigInv'
    BY <1>d, <2>1, <2>2, <2>3 DEF DomainsInv, ConfigInv, Pcs, AfterValidation
  <2>5. ViewInv'
    BY <1>d, <2>1, <2>3 DEF ViewInv, Covers
  <2>6. VerdictInv'
    <3>1. config.fullCoverage => verdict # TRUE
      BY <2>1 DEF VerdictInv
    <3>2. \A s \in Ranks : config.fullCoverage => pc[s] \notin {"loading", "ready"}
      BY <3>1 DEF VerdictInv
    <3>3. \A s \in Ranks : config.fullCoverage /\ pc'[s] \in {"loading", "ready"} => s = 0 /\ good
      BY <2>1, <2>3, <3>2
    <3>4. good => good = TRUE
      BY <2>2
    <3>5. config'.fullCoverage /\ verdict' = TRUE =>
            Covers(view[0])' /\ pc'[0] \in {"loading", "ready"}
      BY <2>1, <2>2, <2>3 DEF Covers
    <3> QED
      BY <2>1, <3>3, <3>4, <3>5 DEF VerdictInv
  <2>7. LoadInv'
    <3>1. ASSUME NEW s \in Ranks, pc'[s] = "ready" PROVE Loaded(s)'
      BY <2>1, <2>3, <3>1, LoadedStays DEF LoadInv
    <3> QED
      BY <2>1, <2>3, <3>1 DEF LoadInv
  <2> QED
    BY <2>4, <2>5, <2>6, <2>7
<1>3. CASE ReceiveVerdict(r)
  <2>1. /\ r # 0 /\ verdict # Unset /\ pc[r] = "validating"
        /\ pc' = [pc EXCEPT ![r] = IF verdict THEN AfterValidation ELSE "raised"]
        /\ UNCHANGED <<config, source, verdict, view, ownerOf, placeRank, people>>
    BY <1>3 DEF ReceiveVerdict, Goes
  <2>2. verdict \in BOOLEAN
    BY <2>1 DEF ConfigInv
  <2>3. /\ \A s \in Ranks : s # r => pc'[s] = pc[s]
        /\ pc'[r] \in {"loading", "materializing", "raised"}
        /\ pc'[r] = "loading" => verdict = TRUE /\ config.fullCoverage
    BY <1>d, <2>1, <2>2 DEF AfterValidation
  <2>4. DomainsInv' /\ ConfigInv'
    BY <1>d, <2>1, <2>3 DEF DomainsInv, ConfigInv, Pcs, AfterValidation
  <2>5. ViewInv'
    BY <1>d, <2>1, <2>3 DEF ViewInv, Covers
  <2>6. VerdictInv'
    BY <1>d, <2>1, <2>3 DEF VerdictInv, Covers
  <2>7. LoadInv'
    <3>1. ASSUME NEW s \in Ranks, pc'[s] = "ready" PROVE Loaded(s)'
      BY <2>1, <2>3, <3>1, LoadedStays DEF LoadInv
    <3> QED
      BY <2>1, <2>3, <3>1 DEF LoadInv
  <2> QED
    BY <2>4, <2>5, <2>6, <2>7
<1>4. CASE Materialize(r)
  <2> DEFINE rows == PlaceRanks(PartitionRows)
  <2>1. /\ pc[r] = "materializing"
        /\ pc' = [pc EXCEPT ![r] = IF config.fullCoverage THEN "validating" ELSE "loading"]
        /\ view' = [view EXCEPT ![r] = rows]
        /\ UNCHANGED <<config, source, verdict, ownerOf, placeRank, people>>
    BY <1>4 DEF Materialize, Goes
  <2>2. /\ rows \subseteq Ids \X (Ranks \cup DefaultRanks)
        /\ \A row \in rows : row[2] \in Ranks \cup {config.defaultRank}
        /\ ~config.fullCoverage => Covers(rows) /\ \A row \in rows : row[1] \in Places
    BY CopyFacts
  <2> HIDE DEF rows
  <2>3. /\ \A s \in Ranks : s # r => pc'[s] = pc[s] /\ view'[s] = view[s]
        /\ pc'[r] \in {"loading", "validating"} /\ view'[r] = rows
        /\ pc'[r] = "loading" => ~config.fullCoverage
    BY <1>d, <2>1 DEF DomainsInv
  <2>4. DomainsInv' /\ ConfigInv'
    BY <1>d, <2>1, <2>2, <2>3 DEF DomainsInv, ConfigInv, Pcs
  <2>5. ViewInv'
    <3>1. config.partitioned
      BY <2>1 DEF ViewInv
    <3> QED
      BY <2>1, <2>2, <2>3, <3>1 DEF ViewInv, Covers
  <2>6. VerdictInv'
    BY <1>d, <2>1, <2>3 DEF VerdictInv, Covers
  <2>7. LoadInv'
    <3>1. ASSUME NEW s \in Ranks, pc'[s] = "ready" PROVE Loaded(s)'
      BY <2>1, <2>3, <3>1, LoadedStays DEF LoadInv
    <3> QED
      BY <2>1, <2>3, <3>1 DEF LoadInv
  <2> QED
    BY <2>4, <2>5, <2>6, <2>7
<1>5. CASE Load(r)
  <2>1. /\ pc[r] = "loading" /\ pc' = [pc EXCEPT ![r] = "ready"]
        /\ UNCHANGED <<config, source, verdict, view>>
    BY <1>5 DEF Load, Goes
  <2>2. PICK places \in Dictionaries(PlaceRows(r)) :
          /\ placeRank' = [placeRank EXCEPT ![r] = places]
          /\ people' = [people EXCEPT ![r] = PeopleOf(r, places)]
          /\ \E owners \in IF config.partitioned THEN Dictionaries(view[r]) ELSE {places} :
               ownerOf' = [ownerOf EXCEPT ![r] = owners]
    BY <1>5 DEF Load
  <2>3. PICK owners \in IF config.partitioned THEN Dictionaries(view[r]) ELSE {places} :
          ownerOf' = [ownerOf EXCEPT ![r] = owners]
    BY <2>2
  <2>4. /\ pc'[r] = "ready"
        /\ placeRank'[r] = places /\ people'[r] = PeopleOf(r, places) /\ ownerOf'[r] = owners
        /\ \A s \in Ranks : s # r =>
             /\ pc'[s] = pc[s] /\ placeRank'[s] = placeRank[s]
             /\ people'[s] = people[s] /\ ownerOf'[s] = ownerOf[s]
    BY <1>d, <2>1, <2>2, <2>3 DEF DomainsInv
  <2>5. DomainsInv' /\ ConfigInv'
    BY <1>d, <2>1, <2>2, <2>3 DEF DomainsInv, ConfigInv, Pcs
  <2>6. ViewInv'
    BY <2>1, <2>4 DEF ViewInv, Covers
  <2>7. VerdictInv'
    BY <1>d, <2>1, <2>4 DEF VerdictInv, Covers
  <2>8. Loaded(r)'
    <3>1. PlaceRows(r)' = PlaceRows(r) /\ PeopleOf(r, places)' = PeopleOf(r, places)
      BY <2>1, SameRows
    <3>2. PeopleOf(r, placeRank[r])' = PeopleOf(r, places)
      BY <2>4, <3>1 DEF PeopleOf, HomeOn
    <3>3. Dictionaries(PlaceRows(r))' = Dictionaries(PlaceRows(r))
      BY <3>1 DEF Dictionaries
    <3>4. (IF config.partitioned THEN Dictionaries(view[r]) ELSE {placeRank[r]})'
            = IF config.partitioned THEN Dictionaries(view[r]) ELSE {places}
      BY <2>1, <2>4 DEF Dictionaries
    <3> QED
      BY <2>2, <2>3, <2>4, <3>2, <3>3, <3>4 DEF Loaded
  <2>9. LoadInv'
    <3>1. ASSUME NEW s \in Ranks, s # r, pc[s] = "ready" PROVE Loaded(s)'
      BY <2>1, <2>4, <3>1, LoadedStays DEF LoadInv
    <3> QED
      BY <2>4, <2>8, <3>1 DEF LoadInv
  <2> QED
    BY <2>5, <2>6, <2>7, <2>9
<1> QED
  BY <1>1, <1>2, <1>3, <1>4, <1>5 DEF RankStep

\* A rank's step makes a copy of the table or leaves its copy alone.
LEMMA CopyStep ==
  ASSUME RanksInv, CopyInv, NEW r \in Ranks, RankStep(r), UNCHANGED <<partitionVars, overtaken>>
  PROVE  CopyInv'
<1>d. pc \in [Ranks -> Pcs] /\ view \in [Ranks -> SUBSET (Ids \X (Ranks \cup DefaultRanks))]
  BY DEF RanksInv, DomainsInv
<1>1. config' = config /\ PartitionRows' = PartitionRows /\ overtaken' = overtaken
  BY DEF RankStep, ResolveTables, Validate, ReceiveVerdict, Materialize, Load, PartitionRows,
         partitionVars
<1>2. SUFFICES ASSUME config.fullCoverage, NEW s \in Ranks, HasCopied(s)'
               PROVE  s \in overtaken \/ view'[s] = PartitionRows
  BY <1>1 DEF CopyInv
<1>3. CASE Materialize(r) /\ s = r
  BY <1>d, <1>2, <1>3 DEF Materialize, PlaceRanks
<1>4. CASE ~(Materialize(r) /\ s = r)
  <2>1. view'[s] = view[s]
    BY <1>d, <1>4 DEF RankStep, ResolveTables, Validate, ReceiveVerdict, Materialize, Load
  <2>2. pc'[s] # pc[s] => s = r /\ ~Materialize(r)
    BY <1>d, <1>4, StartupAssumption
       DEF RankStep, ResolveTables, Validate, ReceiveVerdict, Materialize, Load, Goes
  <2>3. pc'[s] \in {"validating", "loading", "ready"}
    BY <1>1, <1>2 DEF HasCopied
  <2>4. pc[s] \in {"validating", "loading", "ready"}
    <3>1. CASE ResolveTables(r) /\ s = r
      BY <1>d, <1>2, <2>3, <3>1 DEF RanksInv, ConfigInv, ResolveTables, Goes
    <3>2. CASE ~(ResolveTables(r) /\ s = r)
      BY <1>d, <2>2, <2>3, <3>2 DEF RankStep, Validate, ReceiveVerdict, Load, Goes
    <3> QED
      BY <3>1, <3>2
  <2> QED
    BY <1>2, <2>1, <2>4 DEF CopyInv, HasCopied
<1> QED
  BY <1>3, <1>4
-----------------------------------------------------------------------------
(* Theorems. *)

\* IInv holds in every reachable state.
THEOREM Invariance == Spec => []IInv
<1>1. Init => IInv
  <2>1. Init => CopyInv
    BY DEF Init, CopyInv, HasCopied
  <2> QED
    BY <2>1, JobsInit, RanksInit DEF Init, IInv
<1>2. IInv /\ [Next]_vars => IInv'
  <2> SUFFICES ASSUME IInv, [Next]_vars PROVE IInv'
    OBVIOUS
  <2> USE DEF IInv
  <2>1. ASSUME UNCHANGED partitionVars PROVE JobsInv'
    BY <2>1 DEF JobsInv, PartitionerTypeOK, Created, ActiveOverlap, InsertOverlap, Active,
                partitionVars
  <2>2. ASSUME UNCHANGED startupVars PROVE RanksInv'
    <3>1. DomainsInv' /\ ConfigInv' /\ ViewInv' /\ VerdictInv'
      BY <2>2 DEF startupVars, RanksInv, DomainsInv, ConfigInv, ViewInv, VerdictInv, Covers
    <3>2. ASSUME NEW r \in Ranks, pc[r] = "ready" PROVE Loaded(r)'
      BY <2>2, <3>2, LoadedStays DEF startupVars, RanksInv, LoadInv
    <3>3. LoadInv'
      BY <2>2, <3>2 DEF startupVars, RanksInv, LoadInv
    <3> QED
      BY <3>1, <3>3 DEF RanksInv
  <2>3. CASE /\ JobStep
             /\ overtaken' = IF table' = table THEN overtaken ELSE {r \in Ranks : HasCopied(r)}
             /\ UNCHANGED startupVars
    <3>1. \A r : HasCopied(r)' <=> HasCopied(r)
      BY <2>3 DEF HasCopied, startupVars
    <3>2. table' = table => PartitionRows' = PartitionRows
      BY DEF PartitionRows
    <3>3. CopyInv'
      BY <2>3, <3>1, <3>2 DEF CopyInv, startupVars
    <3> QED
      BY <2>2, <2>3, <3>3, JobsStep
  <2>4. CASE \E r \in Ranks : RankStep(r) /\ UNCHANGED <<partitionVars, overtaken>>
    BY <2>1, <2>4, RanksStep, CopyStep DEF JobsInv
  <2>5. CASE UNCHANGED vars
    <3>1. CopyInv'
      BY <2>5 DEF CopyInv, HasCopied, PartitionRows, vars, startupVars, partitionVars
    <3> QED
      BY <2>1, <2>2, <2>5, <3>1 DEF vars
  <2> QED
    BY <2>3, <2>4, <2>5 DEF Next
<1> QED
  BY <1>1, <1>2, PTL DEF Spec

\* network_partitioner_ducklake.run, any number of jobs in any order, crashed and repeated:
\* the table holds the rows of one job unless two ran at the same time.
THEOREM OneJobsRows == Spec => []OneAssignment
<1>1. IInv => OneAssignment
  BY DEF IInv, JobsInv, OneAssignment
<1> QED
  BY <1>1, Invariance, PTL

\* _validate_materialized_full_partition_table: with full coverage required no rank starts
\* before rank 0 has found its own copy whole, and one that starts on less than a whole
\* assignment is not rank 0 and has been overtaken, or has followed a copy of rank 0 that was.
THEOREM FullCoverage == Spec => []FullCoverageIsEnforced
<1>1. IInv => FullCoverageIsEnforced
  <2> SUFFICES ASSUME IInv, NEW r \in Ranks, config.fullCoverage, pc[r] = "ready"
               PROVE  /\ Covers(view[0])
                      /\ \/ Places \subseteq DOMAIN ownerOf[r]
                         \/ r # 0 /\ {0, r} \cap overtaken # {}
    BY DEF FullCoverageIsEnforced
  <2>1. Covers(view[0]) /\ pc[0] \in {"loading", "ready"}
    BY DEF IInv, RanksInv, VerdictInv
  <2>2. ASSUME view[r] = view[0] PROVE Places \subseteq DOMAIN ownerOf[r]
    <3>1. ownerOf[r] \in Dictionaries(view[r])
      BY DEF IInv, RanksInv, LoadInv, Loaded, ConfigInv
    <3> QED
      BY <2>1, <2>2, <3>1 DEF Covers, Dictionaries
  <2>3. ASSUME r # 0, {0, r} \cap overtaken = {} PROVE view[r] = view[0]
    BY <2>1, <2>3, StartupAssumption DEF IInv, CopyInv, HasCopied
  <2> QED
    BY <2>1, <2>2, <2>3
<1> QED
  BY <1>1, Invariance, PTL

LEMMA StartupTypes == IInv => TypeOK
<1> SUFFICES ASSUME IInv PROVE TypeOK
  OBVIOUS
<1> USE DEF IInv, RanksInv
<1>1. config \in Configs /\ source \in Sources /\ verdict \in BOOLEAN \cup {Unset}
  BY DEF ConfigInv
<1>2. ASSUME NEW r \in Ranks
      PROVE  /\ pc[r] \in Pcs
             /\ view[r] \subseteq Ids \X (Ranks \cup DefaultRanks)
  BY DEF DomainsInv
<1>3. ASSUME NEW r \in Ranks
      PROVE  /\ DOMAIN ownerOf[r] \subseteq Ids /\ DOMAIN placeRank[r] \subseteq Places
             /\ people[r] \subseteq Persons \X DOMAIN placeRank[r]
  <2>1. CASE pc[r] = "ready"
    <3>1. Loaded(r)
      BY <2>1 DEF LoadInv
    <3>2. DOMAIN placeRank[r] \subseteq Places
      <4>1. \A row \in PlaceRows(r) : row[1] \in Places
        BY PlaceRowFacts
      <4> QED
        BY <3>1, <4>1 DEF Loaded, Dictionaries
    <3>3. DOMAIN ownerOf[r] \subseteq Ids
      <4>1. CASE config.partitioned
        BY <1>2, <3>1, <4>1 DEF Loaded, Dictionaries
      <4>2. CASE ~config.partitioned
        BY <3>1, <3>2, <4>2, PartitionerAssumption DEF Loaded
      <4> QED
        BY <4>1, <4>2
    <3>4. ASSUME NEW p \in people[r] PROVE p \in Persons \X DOMAIN placeRank[r]
      <4>1. p = <<p[1], HomeOn(r, placeRank[r], p[1])>> /\ p[1] \in Persons
            /\ p[2] = HomeOn(r, placeRank[r], p[1]) /\ p[2] \in DOMAIN placeRank[r]
        BY <3>1, <3>4, PeopleFacts DEF Loaded
      <4> QED
        BY <4>1
    <3> QED
      BY <3>2, <3>3, <3>4
  <2>2. CASE pc[r] # "ready"
    BY <2>2 DEF LoadInv
  <2> QED
    BY <2>1, <2>2
<1> QED
  BY <1>1, <1>2, <1>3 DEF TypeOK, Pcs
-----------------------------------------------------------------------------
(* PeopleHaveOneOwner.  Every copy is the same function of places, so what each rank *)
(* takes for the home of a person and for the rank of a place can be compared.       *)

\* With a partition table.
LEMMA OwnersPartitioned ==
  ASSUME IInv, Undisturbed, config.partitioned,
         NEW r \in Ranks, NEW s \in Ranks, NEW p \in people[r]
  PROVE  /\ r # s => \A q \in people[s] : p[1] # q[1]
         /\ pc[s] = "ready" /\ p[2] \in DOMAIN ownerOf[s] => ownerOf[s][p[2]] = r
<1> USE DEF IInv, RanksInv
<1>0. view[r] = view[s] /\ \A a, b \in view[s] : a[1] = b[1] => a[2] = b[2]
  BY StartupAssumption DEF Undisturbed
<1>1. ASSUME NEW k \in Ranks, NEW q \in people[k]
      PROVE  Loaded(k) /\ k \in PersonRanks(k, q[1])
  <2>1. Loaded(k)
    BY <1>1 DEF LoadInv
  <2>2. q[1] \in PersonRows(k)
    BY <1>1, <2>1, PeopleFacts DEF Loaded
  <2> QED
    BY <2>1, <2>2 DEF PersonRows
<1>2. ASSUME NEW q \in people[s], p[1] = q[1] PROVE r = s
  <2>1. r \in PersonRanks(r, p[1]) /\ s \in PersonRanks(s, p[1])
    BY <1>1, <1>2
  <2>2. PersonRanks(r, p[1]) = PersonRanks(s, p[1])
    BY <1>0 DEF PersonRanks
  <2>3. \A a, b \in PersonRanks(s, p[1]) : a = b
    BY <1>0 DEF PersonRanks
  <2> QED
    BY <2>1, <2>2, <2>3
<1>3. ASSUME pc[s] = "ready", p[2] \in DOMAIN ownerOf[s] PROVE ownerOf[s][p[2]] = r
  <2>1. <<p[2], ownerOf[s][p[2]]>> \in view[s]
    BY <1>3 DEF LoadInv, Loaded, Dictionaries
  <2>2. p[2] \in DOMAIN placeRank[r] /\ placeRank[r][p[2]] = r
    BY <1>1, PeopleFacts DEF Loaded
  <2>3. <<p[2], r>> \in PlaceRows(r)
    BY <1>1, <2>2 DEF Loaded, Dictionaries
  <2>4. <<p[2], r>> \in view[s]
    BY <1>0, <2>3, PlaceRowFacts
  <2> QED
    BY <1>0, <2>1, <2>4
<1> QED
  BY <1>2, <1>3

\* Without one: every rank has every place, with the rank of the places table.
LEMMA OwnersWithout ==
  ASSUME IInv, IdsApart, ~config.partitioned,
         NEW r \in Ranks, NEW s \in Ranks, NEW p \in people[r]
  PROVE  /\ r # s => \A q \in people[s] : p[1] # q[1]
         /\ pc[s] = "ready" /\ p[2] \in DOMAIN ownerOf[s] => ownerOf[s][p[2]] = r
<1> USE DEF IInv, RanksInv
<1>1. ASSUME NEW k \in Ranks, pc[k] = "ready"
      PROVE  /\ ownerOf[k] = placeRank[k] /\ DOMAIN placeRank[k] = Places
             /\ \A q \in Places : placeRank[k][q] = source.placeRank[q]
             /\ people[k] = PeopleOf(k, placeRank[k])
  BY <1>1, WholePlaces DEF LoadInv, Loaded
<1>2. ASSUME NEW k \in Ranks, NEW q \in people[k]
      PROVE  /\ pc[k] = "ready" /\ q[1] \in Persons
             /\ q[2] \in Places /\ source.placeRank[q[2]] = k
             /\ q[2] = HomeOn(k, placeRank[k], q[1])
  <2>1. pc[k] = "ready"
    BY <1>2 DEF LoadInv
  <2> QED
    BY <1>1, <1>2, <2>1, PeopleFacts
<1>3. ASSUME NEW q \in people[s], p[1] = q[1] PROVE r = s
  <2> DEFINE id == source.homeId[p[1]]
             home == Household(id)
  <2>1. ASSUME NEW k \in Ranks, pc[k] = "ready"
        PROVE  HomeOn(k, placeRank[k], p[1]) =
                 IF home \in Places /\ source.placeRank[home] = k THEN home ELSE id
    BY <1>1, <2>1 DEF HomeOn
  <2>2. id \in Places => home \in {Unset, id}
    BY DEF IdsApart, Household
  <2>3. Unset \notin Places
    BY StartupAssumption, PartitionerAssumption
  <2>4. /\ p[2] = IF home \in Places /\ source.placeRank[home] = r THEN home ELSE id
        /\ q[2] = IF home \in Places /\ source.placeRank[home] = s THEN home ELSE id
    BY <1>2, <1>3, <2>1
  <2> HIDE DEF id, home
  <2>5. CASE home \in Places /\ source.placeRank[home] \in {r, s}
    BY <1>2, <1>3, <2>2, <2>3, <2>4, <2>5
  <2>6. CASE ~(home \in Places /\ source.placeRank[home] \in {r, s})
    BY <1>2, <1>3, <2>4, <2>6
  <2> QED
    BY <2>5, <2>6
<1>4. ASSUME pc[s] = "ready" PROVE ownerOf[s][p[2]] = r
  BY <1>1, <1>2, <1>4
<1> QED
  BY <1>3, <1>4

\* Everybody is somewhere.
LEMMA EverybodyLoaded ==
  ASSUME IInv, AllReady, Undisturbed, config.defaultRank \in Ranks,
         NEW p \in Persons, HomePlace(p) \in Places, SameHome(p)
  PROVE  \E r \in Ranks : <<p, HomePlace(p)>> \in people[r]
<1> DEFINE id == source.homeId[p]
           home == Household(id)
           h == HomePlace(p)
<1> USE DEF IInv, RanksInv
<1>1. h = IF home \in Places THEN home ELSE id
  BY DEF HomePlace
<1>2. SUFFICES \E r \in Ranks : /\ h \in DOMAIN placeRank[r] /\ placeRank[r][h] = r
                                /\ DOMAIN placeRank[r] \subseteq Places
                                /\ p \in PersonRows(r)
  <2>1. PICK r \in Ranks : /\ h \in DOMAIN placeRank[r] /\ placeRank[r][h] = r
                           /\ DOMAIN placeRank[r] \subseteq Places
                           /\ p \in PersonRows(r)
    BY <1>2
  <2>2. HomeOn(r, placeRank[r], p) = h
    BY <1>1, <2>1 DEF HomeOn
  <2>3. people[r] = PeopleOf(r, placeRank[r])
    BY DEF AllReady, LoadInv, Loaded
  <2> HIDE DEF h
  <2>4. <<p, h>> \in people[r]
    BY <2>1, <2>2, <2>3 DEF PeopleOf
  <2> QED
    BY <2>4 DEF h
<1>3. CASE ~config.partitioned
  <2>1. PICK r \in Ranks : r = source.placeRank[h]
    BY StartupAssumption DEF ConfigInv
  <2>2. DOMAIN placeRank[r] = Places /\ placeRank[r][h] = r
    BY <1>3, <2>1, WholePlaces DEF AllReady, LoadInv, Loaded
  <2> QED
    BY <1>3, <2>2 DEF PersonRows
<1>4. CASE config.partitioned
  <2>0. \A r \in Ranks : view[r] = view[0] /\ pc[r] = "ready"
    BY StartupAssumption DEF Undisturbed, AllReady
  <2>1. Covers(view[0]) /\ (~config.fullCoverage => \A row \in view[0] : row[1] \in Places)
    BY <1>4, <2>0, StartupAssumption DEF ViewInv, VerdictInv
  <2>2. PICK row \in view[0] : row[1] = h
    BY <2>1 DEF Covers
  <2>3. PICK r \in Ranks : r = row[2]
    BY <2>2, StartupAssumption DEF ViewInv
  <2>4. row = <<h, r>> /\ row \in view[r] /\ \A a \in view[r] : a[1] = h => a[2] = r
    <3>1. row \in Ids \X (Ranks \cup DefaultRanks)
      BY <2>2, StartupAssumption DEF DomainsInv
    <3> QED
      BY <2>0, <2>2, <2>3, <3>1 DEF Undisturbed
  <2>5. Loaded(r)
    BY <2>0 DEF LoadInv
  <2> HIDE DEF h
  <2>6. row \in PlaceRows(r) /\ row[1] = h
    BY <1>4, <2>4 DEF PlaceRows, h
  <2>7. h \in DOMAIN placeRank[r] /\ DOMAIN placeRank[r] \subseteq Places
    <3>1. \A a \in PlaceRows(r) : a[1] \in Places
      BY PlaceRowFacts
    <3> QED
      BY <2>5, <2>6, <3>1 DEF Loaded, Dictionaries
  <2>8. placeRank[r][h] = r
    <3>1. <<h, placeRank[r][h]>> \in PlaceRows(r)
      BY <2>5, <2>7 DEF Loaded, Dictionaries
    <3> QED
      BY <1>4, <2>4, <3>1, PlaceRowFacts
  <2>9. r \in PersonRanks(r, p)
    <3> DEFINE ranksAt(i) == {v[2] : v \in {v \in view[r] : v[1] = i}}
    <3>1. r \in ranksAt(h)
      BY <2>4
    <3>2. h = IF home # Unset /\ ranksAt(home) # {} THEN home ELSE id
      <4>1. CASE home \in Places
        <5>1. home # Unset
          BY <4>1, StartupAssumption, PartitionerAssumption
        <5> QED
          BY <1>1, <3>1, <4>1, <5>1
      <4>2. CASE home \notin Places
        <5>1. home = Unset \/ ranksAt(home) = {}
          BY <2>0, <2>1, <4>2 DEF SameHome
        <5> QED
          BY <1>1, <4>2, <5>1
      <4> QED
        BY <4>1, <4>2
    <3> QED
      BY <3>1, <3>2 DEF PersonRanks
  <2> QED
    BY <1>4, <2>7, <2>8, <2>9 DEF PersonRows
<1> QED
  BY <1>3, <1>4

\* create_persons and the persons query together: nobody is created on two ranks, all
\* ranks agree whose place each person is at, and nobody with a home is left out.
THEOREM OneOwner == Spec => []PeopleHaveOneOwner
<1>1. IInv => PeopleHaveOneOwner
  <2> SUFFICES ASSUME IInv PROVE PeopleHaveOneOwner
    OBVIOUS
  <2>1. ASSUME Undisturbed, config.partitioned \/ IdsApart,
               NEW r \in Ranks, NEW s \in Ranks, NEW p \in people[r]
        PROVE  /\ r # s => \A q \in people[s] : p[1] # q[1]
               /\ pc[s] = "ready" /\ p[2] \in DOMAIN ownerOf[s] => ownerOf[s][p[2]] = r
    BY <2>1, OwnersPartitioned, OwnersWithout
  <2> QED
    BY <2>1, StartupTypes, EverybodyLoaded DEF PeopleHaveOneOwner
<1> QED
  BY <1>1, Invariance, PTL
=============================================================================

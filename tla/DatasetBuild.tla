---------------------------- MODULE DatasetBuild ----------------------------
(***************************************************************************)
(* build_colorado_profile (workflow.py) and the stages it runs over        *)
(* verified sources: state tables, lake, profile population, schedules,    *)
(* destinations, runtime, its verification and the receipt; and the        *)
(* commands that run one stage.  A stage resumes a product whose manifest  *)
(* names the present inputs, refuses to replace any other unless it may    *)
(* overwrite, and otherwise builds.  The process can end between any two   *)
(* steps; commands are given one at a time.  Of the sources, one stands    *)
(* for each way of acquiring them: the pinned archives, the diaries put    *)
(* there by hand, the downloaded map.  County boundaries do not change.    *)
(*                                                                         *)
(* A product is a record: the inputs its manifest names, a serial number   *)
(* where its bytes depend on more than these (else 0), and in "from" what  *)
(* it was really made of.                                                  *)
(***************************************************************************)
EXTENDS Acquisition, ProfileSample, RoutedDays

CONSTANTS
  Worlds,      \* what the sources of a behaviour say; see MCDataset
  Buckets      \* routing.person_partitions

Versions == {1, 2}
Built == {w \in DOMAIN Worlds : Worlds[w].commands > 0}

\* Where the people of a world can be.
PlacesOf(w) ==
  PlaceIds(StateTables(Worlds[w].source).places)
  \cup UNION {{poi.id[kind] : kind \in KindsOf(poi)} : poi \in UNION {Worlds[w].pois[v] : v \in Versions}}

\* What stage_atus_donor_diaries and assign_atus_donors demand of a file of diaries.
DiariesComplete(donors) ==
  /\ donors \in Seq([day : {"weekday", "weekend"}, age : Nat, sex : Nat,
                     rows : Seq([kind : DiaryKinds, start : Int, end : Int])])
  /\ \A day \in {"weekday", "weekend"} : \E d \in DOMAIN donors : donors[d].day = day

\* The files an operator begins with are whole, a source names its finitely many people
\* once, and each of the pseudo-random orders puts one of any two before the other.  Of
\* the worlds in which something is built, features are finitely many and numbered apart
\* from the other places (scoped_id is positive, _place_id negative), and between two
\* places lie minimum_minutes at least.
ASSUME DatasetAssumption ==
  /\ MinimumPerCbsa \in Nat
  /\ {"archive", "atus", "osm"} \subseteq Artifacts
  /\ \A w \in DOMAIN Worlds :
       /\ Worlds[w].disk \in {None, Whole(1)}
       /\ Worlds[w].commands \in Nat
       /\ IsFiniteSet(Worlds[w].source.people)
       /\ \A p \in Worlds[w].source.people : p.id \in Int
       /\ \A use \in {"draw", "removal"} : \A p, q \in PersonRows(Worlds[w].source) :
            /\ Shuffle[use][p.id] \in Int
            /\ Shuffle[use][p.id] = Shuffle[use][q.id] => p = q
  /\ \A w \in Built :
       /\ \A v \in Versions :
            /\ DiariesComplete(Worlds[w].diaries[v])
            /\ IsFiniteSet(Worlds[w].pois[v])
            /\ \A poi \in Worlds[w].pois[v] : \A kind \in KindsOf(poi) :
                 poi.id[kind] \in Int \ PlaceIds(StateTables(Worlds[w].source).places)
       /\ \A a, b \in PlacesOf(w) : a # b => MinutesBetween[a, b] \in Nat \ {0}

VARIABLES
  world,    \* which of the Worlds this behaviour has
  product,  \* stage -> its product, or none
  dirty,    \* the stages whose output is there without its manifest
  work,     \* the runtime stage's .building directory, or none
  receipt,  \* the receipt of the last build that reached its end, or none
  build,    \* the command in progress, or none
  refused,  \* why the last command stopped, if it did
  serial,   \* the last serial number
  given     \* the commands given so far, at most Worlds[world].commands

outputs == <<product, dirty, work, receipt>>
vars == <<sources, outputs, world, build, refused, serial, given>>

Stages == <<"tables", "lake", "population", "schedules", "destinations", "runtime", "verification">>
InPlace == {"tables", "lake", "verification"}
Needs == [stage \in {Stages[i] : i \in DOMAIN Stages} |->
  CASE stage = "tables" -> {}
    [] stage = "lake" -> {"tables"}
    [] stage = "population" -> {"lake"}
    [] stage = "schedules" -> {"population"}
    [] stage = "destinations" -> {"population", "schedules"}
    [] stage = "runtime" -> {"population", "destinations"}
    [] stage = "verification" -> {"runtime"}]
-----------------------------------------------------------------------------
(* What the stages compute, by world and by the versions of the mutable sources: a    *)
(* set with the product, or the empty set, and the verdict of the stage's own checks. *)

Profiles == [w \in DOMAIN Worlds |-> Population(Worlds[w].source, Worlds[w].cbsas)]

\* What is made for a profile from one version of the diaries and one of the map.
PlansFor(profile, diaries) ==
  [key \in profile.people \X {1, 2} |-> Schedule(diaries, Days[key[2]], key[1], PlaceIds(profile.places))]

SupplyFor(profile, pois) == Supply(profile.people, profile.places, pois)
SentFor(plans, supply) == [key \in DOMAIN plans |-> Assigned(supply, key[1], plans[key])]
JourneysFor(sent) == [key \in DOMAIN sent |-> Routed(sent[key])]

SchedulesOutcome(profile, plans) ==
  IF \A p \in profile.people : p.age < 15 THEN "adults"
  ELSE IF Repeated(profile.people, profile.places) THEN "duplicates"
  ELSE IF \E key \in DOMAIN plans : ~ScheduleAccepted(plans[key], PlaceIds(profile.places)) THEN "schedule"
  ELSE IF \E key \in DOMAIN plans : key[2] = 1 /\ ~OneHome(plans[key]) THEN "homes"
  ELSE "built"

DestinationsOutcome(pois, cbsas, supply, sent) ==
  IF ~Covered(pois, cbsas) THEN "supply"
  ELSE IF Collides(supply) THEN "collision"
  ELSE IF Misplaced(supply) THEN "misplaced"
  ELSE IF \E key \in DOMAIN sent : ~Provided(sent[key]) THEN "supply"
  ELSE IF \E key \in DOMAIN sent : ~AssignmentAccepted(supply, sent[key]) THEN "assignment"
  ELSE "built"

RuntimeOutcome(supply, days) ==
  IF \E key \in DOMAIN days : ~RoutedDayAccepted(supply, days[key]) THEN "routing"
  ELSE IF \E day \in {1, 2} : ~WithinCapacity(supply, [p \in {key[1] : key \in DOMAIN days} |-> days[p, day]])
  THEN "capacity" ELSE "built"

\* A world in which something is built, a version of the diaries and one of the map.
Keys == {<<w, v, u>> : w \in Built, v \in Versions, u \in Versions}

\* All of it, tabulated by Keys.  A stage after one that fails is made of nothing.
MadeFor(profile, diaries, pois) ==
  UNION {{[plans |-> plans, supply |-> supply, outcome |-> SchedulesOutcome(profile, plans),
           sent |-> IF SchedulesOutcome(profile, plans) = "built" THEN SentFor(plans, supply) ELSE <<>>] :
    plans \in {PlansFor(profile, diaries)}} : supply \in {SupplyFor(profile, pois)}}

Made == [key \in Keys |->
  UNION {MadeFor(profile, Worlds[key[1]].diaries[key[2]], Worlds[key[1]].pois[key[3]]) : profile \in Profiles[key[1]]}]

Sent == [key \in Keys |->
  {[made |-> made,
    outcome |-> DestinationsOutcome(Worlds[key[1]].pois[key[3]], Worlds[key[1]].cbsas, made.supply, made.sent)] :
     made \in Made[key]}]

Journeys == [key \in Keys |->
  UNION {{[days |-> days, outcome |-> RuntimeOutcome(sent.made.supply, days)] :
     days \in {IF sent.outcome = "built" THEN JourneysFor(sent.made.sent) ELSE <<>>}} : sent \in Sent[key]}]

\* The weekday of everybody as it is exported.
Exports == [key \in Keys |->
  {[p \in {k[1] : k \in DOMAIN journey.days} |-> Exported(journey.days[p, 1])] : journey \in Journeys[key]}]

Verdict(some) == (CHOOSE one \in some : TRUE).outcome
-----------------------------------------------------------------------------
Version(a) == disk[a][1]

\* The version of a source that a product was made of.
Used(stage, a) == (CHOOSE token \in product[stage].from : token[1] = a)[2][1]
Id(stage) == [inputs |-> product[stage].inputs, made |-> product[stage].made]
Has(stage) == product[stage] # None

\* What each stage writes into its manifest as its inputs: the manifests of the products
\* it reads and the digests of the sources.
TablesInputs == <<disk["archive"]>>
LakeInputs == <<Id("tables")>>
PopulationInputs == <<Id("lake")>>
SchedulesInputs == <<Id("population"), disk["atus"]>>

\* A bug a mutant can have: the destinations do not name the schedules they were made of.
DestinationsForgetSchedules == <<Id("population"), disk["osm"]>>

DestinationsInputs == <<Id("population"), Id("schedules"), disk["osm"]>>
RuntimeInputs == <<Id("population"), Id("destinations")>>
VerificationInputs == <<Id("runtime")>>

AllVerified == \A a \in Artifacts : Verified(a)

Init ==
  /\ world \in DOMAIN Worlds
  /\ AcquisitionInit(Worlds[world].disk)
  /\ product = [stage \in DOMAIN Needs |-> None]
  /\ dirty = {}
  /\ work = None
  /\ receipt = None
  /\ build = None
  /\ refused = "no"
  /\ serial = 0
  /\ given = 0

\* One command is given after another.
Gives ==
  /\ fetch = None /\ build = None /\ given < Worlds[world].commands
  /\ given' = given + 1

Starts(first, last, overwrite, verify) ==
  /\ Gives
  /\ refused' = "no"
  /\ build' = [at |-> first, last |-> last, overwrite |-> overwrite, verify |-> verify, next |-> None]
  /\ UNCHANGED <<sources, outputs, world, serial>>

\* build-all, which first checks every source.
BuildAll(overwrite, verify) == AllVerified /\ Starts("tables", "receipt", overwrite, verify)

\* The command of one stage, which checks the sources it reads.
BuildOne(stage, overwrite) ==
  /\ stage = "tables" => Verified("archive")
  /\ stage = "schedules" => Verified("atus")
  /\ stage = "destinations" => Verified("osm")
  /\ Starts(stage, stage, overwrite, FALSE)
-----------------------------------------------------------------------------
At(stage) == build # None /\ build.at = stage /\ build.next = None
Ready(stage) == At(stage) /\ \A needed \in Needs[stage] : Has(needed)
There(stage) == Has(stage) \/ stage \in dirty

After(stage) ==
  LET i == CHOOSE n \in DOMAIN Stages : Stages[n] = stage
      next == IF i = Len(Stages) \/ (stage = "runtime" /\ ~build.verify)
              THEN "receipt" ELSE Stages[i+1]
  IN IF build.last = "receipt" THEN [build EXCEPT !.at = next, !.next = None] ELSE None

\* The command raises.
Stops(why) == refused' = why /\ build' = None /\ UNCHANGED serial

\* A stage resumes the output that is there when its manifest names the present inputs,
\* and does not touch any other unless it may overwrite.
Resumes(stage, inputs) == Has(stage) /\ product[stage].inputs = inputs

Keeps(stage, inputs) ==
  /\ \/ /\ Resumes(stage, inputs)
        /\ build' = After(stage)
        /\ UNCHANGED <<refused, serial>>
     \/ /\ ~Resumes(stage, inputs) /\ There(stage) /\ ~build.overwrite
        /\ Stops("exists")
  /\ UNCHANGED <<outputs, sources, world, given>>

Builds(stage, inputs) ==
  /\ ~Resumes(stage, inputs)
  /\ There(stage) => build.overwrite
  /\ UNCHANGED <<receipt, sources, world, given>>

\* The old output is gone.  The new one, complete in a directory of its own or being
\* written in place, is not there yet.
Replaces(stage, inputs, from, made) ==
  /\ product' = [product EXCEPT ![stage] = None]
  /\ dirty' = IF stage \in InPlace THEN dirty \cup {stage} ELSE dirty
  /\ serial' = IF made = 0 THEN serial ELSE made
  /\ build' = [build EXCEPT !.next = [inputs |-> inputs, made |-> made, from |-> from]]
  /\ UNCHANGED refused

\* The new output is complete: renamed into place, or its manifest written.
Publishes(stage) ==
  /\ build # None /\ build.at = stage /\ build.next # None
  /\ product' = [product EXCEPT ![stage] = build.next]
  /\ dirty' = dirty \ {stage}
  /\ build' = After(stage)
  /\ UNCHANGED <<work, receipt, sources, world, refused, serial, given>>

\* A product a stage reads is missing.
Lacks ==
  /\ \E stage \in DOMAIN Needs : At(stage) /\ ~Ready(stage)
  /\ Stops("missing")
  /\ UNCHANGED <<outputs, sources, world, given>>
-----------------------------------------------------------------------------
From(stage) == product[stage].from

\* _state_tables of build-all; build-osf calls build_state_tables whatever is there.
BuildTables ==
  /\ Ready("tables")
  /\ \/ build.last = "receipt" /\ Keeps("tables", TablesInputs)
     \/ /\ \/ build.last = "tables" /\ UNCHANGED <<receipt, sources, world, given>>
           \/ build.last = "receipt" /\ Builds("tables", TablesInputs)
        /\ Replaces("tables", TablesInputs, {<<"tables", serial + 1>>}, serial + 1)
        /\ UNCHANGED work

\* build_ducklake: the old catalog, files and manifest are removed before the new files
\* are written; if the lake is not accepted they are removed too.
BuildLake ==
  /\ Ready("lake")
  /\ \/ Keeps("lake", LakeInputs)
     \/ /\ Builds("lake", LakeInputs)
        /\ IF LakeAccepted(StateTables(Worlds[world].source))
           THEN Replaces("lake", LakeInputs, From("tables") \cup {<<"lake", serial + 1>>}, serial + 1)
           ELSE /\ product' = [product EXCEPT !["lake"] = None]
                /\ dirty' = dirty \ {"lake"}
                /\ Stops("lake")
        /\ UNCHANGED work

\* A stage that builds in a directory of its own: when its checks fail the old output stays.
Staging(stage, inputs, verdict, from) ==
  \/ Keeps(stage, inputs)
  \/ /\ Builds(stage, inputs)
     /\ \/ verdict = "built" /\ Replaces(stage, inputs, from, 0)
        \/ verdict # "built" /\ Stops(verdict) /\ UNCHANGED <<product, dirty>>
     /\ UNCHANGED work

\* build_profile_population
BuildPopulation ==
  /\ Ready("population")
  /\ Staging("population", PopulationInputs, IF Profiles[world] = {} THEN "sample" ELSE "built",
             From("lake"))

\* build_profile_schedules
BuildSchedules ==
  /\ Ready("schedules")
  /\ Staging("schedules", SchedulesInputs, Verdict(Made[world, Version("atus"), 1]),
             From("population") \cup {<<"atus", disk["atus"]>>})

\* build_profile_destinations; a file of destinations that was cut off cannot be read.
BuildDestinations ==
  /\ Ready("destinations")
  /\ Staging("destinations", DestinationsInputs,
             IF disk["osm"] # Whole(Version("osm")) THEN "unreadable"
             ELSE Verdict(Sent[world, Used("schedules", "atus"), Version("osm")]),
             From("population") \cup From("schedules") \cup {<<"osm", disk["osm"]>>})
-----------------------------------------------------------------------------
(* build_profile_runtime, whose .building directory outlives the process. *)

\* Work for other inputs is thrown away, work for these is taken up.
BeginRuntime ==
  /\ Ready("runtime")
  /\ \/ Keeps("runtime", RuntimeInputs)
     \/ /\ Builds("runtime", RuntimeInputs)
        /\ work' = IF work # None /\ work.inputs = RuntimeInputs THEN work
                   ELSE [inputs |-> RuntimeInputs, split |-> None, routed |-> [b \in {} |-> None]]
        /\ build' = [build EXCEPT !.at = "routing"]
        /\ UNCHANGED <<product, dirty, refused, serial>>

Routing == At("routing") /\ UNCHANGED <<product, dirty, receipt, sources, world, given>>

\* _source_partitions: the plans are split unless the parts that are there are of them.
Split ==
  /\ Routing /\ work.split # <<Id("destinations")>>
  /\ work' = [work EXCEPT !.split = <<Id("destinations")>>]
  /\ UNCHANGED <<build, refused, serial>>

\* _route_partitions, the next part, unless it is there and was routed from this split.
RoutePart ==
  /\ Routing /\ work.split = <<Id("destinations")>>
  /\ \E b \in Buckets :
       /\ \A c \in Buckets : c < b => c \in DOMAIN work.routed /\ work.routed[c] = work.split
       /\ b \in DOMAIN work.routed => work.routed[b] # work.split
       /\ work' = [work EXCEPT !.routed = (b :> work.split) @@ @]
  /\ UNCHANGED <<build, refused, serial>>

\* The parts are combined, checked and exported; the state of the work is deleted before
\* the old output is.
FinishRuntime ==
  LET verdict == Verdict(Journeys[world, Used("destinations", "atus"), Used("destinations", "osm")])
  IN /\ At("routing") /\ work.split = <<Id("destinations")>>
     /\ \A b \in Buckets : b \in DOMAIN work.routed /\ work.routed[b] = work.split
     /\ \/ /\ verdict = "built"
           /\ product' = [product EXCEPT !["runtime"] = None]
           /\ serial' = serial + 1
           /\ build' = [build EXCEPT !.at = "runtime",
                          !.next = [inputs |-> RuntimeInputs, made |-> serial + 1,
                                    from |-> From("population") \cup From("destinations")]]
           /\ work' = None
           /\ UNCHANGED <<dirty, refused>>
        \/ verdict # "built" /\ Stops(verdict) /\ UNCHANGED <<product, dirty, work>>
     /\ UNCHANGED <<receipt, sources, world, given>>
-----------------------------------------------------------------------------
\* verify_profile_runtime: the old verification is gone when the runs begin, and they
\* can fail.
BeginVerification ==
  /\ Ready("verification")
  /\ \/ Keeps("verification", VerificationInputs)
     \/ /\ Builds("verification", VerificationInputs)
        /\ Replaces("verification", VerificationInputs, From("runtime") \cup {<<"runtime", product["runtime"].made>>}, 0)
        /\ UNCHANGED work

VerificationFails ==
  /\ build # None /\ build.at = "verification" /\ build.next # None
  /\ Stops("verification")
  /\ UNCHANGED <<outputs, sources, world, given>>

\* The end of build_colorado_profile.
WriteReceipt ==
  /\ At("receipt")
  /\ receipt' = [status |-> IF build.verify THEN "passed" ELSE "built_unverified",
                 runtime |-> Id("runtime")]
  /\ build' = None
  /\ UNCHANGED <<product, dirty, work, sources, world, refused, serial, given>>

\* The process ends.
BuildCrash ==
  /\ build # None
  /\ Stops("crash")
  /\ UNCHANGED <<outputs, sources, world, given>>

Sourcing ==
  /\ \/ \E a \in Artifacts : Publish(a) /\ build = None /\ UNCHANGED given
     \/ \E a \in Artifacts, overwrite \in BOOLEAN : Open(a, overwrite) /\ Gives
     \/ \E a \in Artifacts : Stage(a) /\ build = None /\ UNCHANGED given
     \/ \E a \in Artifacts : Record(a) /\ Gives
     \/ (Receive \/ Install \/ Provenance \/ FetchCrash) /\ UNCHANGED given
  /\ UNCHANGED <<outputs, world, build, refused, serial>>

Next ==
  \/ Sourcing
  \/ \E overwrite, verify \in BOOLEAN : BuildAll(overwrite, verify)
  \/ \E stage \in DOMAIN Needs, overwrite \in BOOLEAN : BuildOne(stage, overwrite)
  \/ Lacks
  \/ BuildTables \/ BuildLake \/ BuildPopulation \/ BuildSchedules \/ BuildDestinations
  \/ BeginRuntime \/ Split \/ RoutePart \/ FinishRuntime
  \/ BeginVerification \/ VerificationFails
  \/ \E stage \in DOMAIN Needs : Publishes(stage)
  \/ WriteReceipt
  \/ BuildCrash

Spec == Init /\ [][Next]_vars
-----------------------------------------------------------------------------
\* A build that ends with a receipt has its runtime from the products and sources that
\* are there at that moment and from nothing older, and a passed one a verification of
\* that very runtime: whatever was resumed, interrupted, overwritten or replaced by hand
\* before (workflow.py:178, docs/colorado_front_range_data_acquisition.md:224).
FreshReceipt ==
  [][At("receipt") /\ build' = None /\ refused' = "no" =>
       LET now == {<<"tables", product["tables"].made>>, <<"lake", product["lake"].made>>,
                   <<"atus", disk["atus"]>>, <<"osm", disk["osm"]>>}
       IN /\ From("runtime") = now
          /\ receipt'.status = "passed" =>
               From("verification") = now \cup {<<"runtime", product["runtime"].made>>}]_vars

\* The places of a source are named once each and on the map, and nobody is assigned to a
\* home or to a site of another kind,
PlacesInOrder(source) ==
  LET people == PersonRows(source)
      places == StateTables(source).places
  IN /\ \A row, other \in places : row.id = other.id => row = other
     /\ \A row \in places : row.at # OffMap
     /\ \A p, q \in people : p.assigned \in Anchored =>
          /\ p.site # q.hh
          /\ p.site = q.site /\ q.assigned \in Anchored => p.assigned = q.assigned

\* and so are the features of a map, each under a source id of its own.
FeaturesInOrder(pois) ==
  \A poi, other \in pois :
    /\ poi.cell # OffMap
    /\ \A kind \in KindsOf(poi), as \in KindsOf(other) :
         poi.id[kind] = other.id[as] => poi = other /\ kind = as

InOrder(w) == PlacesInOrder(Worlds[w].source) /\ \A v \in Versions : FeaturesInOrder(Worlds[w].pois[v])

\* What one stage accepts, the checks of the stages after it do not refuse: with sources
\* in order a build stops for its data only where the sample, the homes, the supply or
\* the capacity of the profile do not suffice.  The lake accepts sites that are named
\* twice (osf_tables.py:394); the stages after it refuse these, and what is off the map or
\* has one id for two, before any day is routed (profile_schedules.py:214,
\* destination_supply.py:302).
AcceptedDataPasses ==
  /\ refused \notin {"lake", "schedule", "assignment", "routing"}
  /\ refused \in {"duplicates", "collision", "misplaced"} => ~InOrder(world)

\* A sample has the size the profile asks for and its minimum of people of every CBSA,
\* also after people made room for the ends of the network seed (profile_population.py:203).
SampleIsExact ==
  \A profile \in Profiles[world] :
    /\ Cardinality(profile.people) = PersonLimit
    /\ \A cbsa \in Worlds[world].cbsas :
         Cardinality({p \in profile.people : p.cbsa = cbsa}) >= MinimumPerCbsa

\* The weekdays of a runtime that is there.
Weekdays ==
  IF Has("runtime") THEN Exports[world, Used("runtime", "atus"), Used("runtime", "osm")] ELSE {}

\* Between two stays of an exported day at different places lie the minutes of the trip,
\* and between two at one place nothing: a trip that is made starts in time to arrive when
\* the next activity begins, and one that is not moves nobody (profile_runtime.py:163).
NobodyTeleports ==
  \A days \in Weekdays : \A p \in DOMAIN days :
    LET stays == days[p]
    IN \A i \in 1..(Len(stays) - 1) :
         stays[i+1].start - stays[i].end =
           IF stays[i].place = stays[i+1].place THEN 0
           ELSE MinutesBetween[stays[i].place, stays[i+1].place]

\* Work of an exported day begins at a clock minute at which the diary it was taken from
\* begins work: the diary's days begin at 04:00, those of the model at midnight
\* (docs/colorado_front_range_data_acquisition.md:153, person.py:1301).
DiaryClockKept ==
  \A days \in Weekdays : \A p \in {q \in DOMAIN days : q.age >= 15} :
    LET diary == Donor(Worlds[world].diaries[Used("runtime", "atus")], "weekday", p).rows
    IN \A i \in DOMAIN days[p] : days[p][i].kind = "work" =>
         \E j \in DOMAIN diary : diary[j].kind = "work" /\ diary[j].start = days[p][i].start
=============================================================================

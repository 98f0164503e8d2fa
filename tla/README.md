# CASMSocial in TLA+

CASMSocial is an agent-based model of a population: people with homes, schedules,
social ties and (optionally) cognitive or language-model behaviour move between
places, talk, and are logged. It runs as one process or as an MPI job, alone or
behind a gRPC control plane that starts and cancels it and streams what it observes.
The modules in this directory model the parts of the program in which several
processes, threads or ticks interact, and state and check what those parts promise.
TLC checks the modules on small instances; TLAPS proves the theorems for every value
of the constants.

Paths below are relative to the repository; `G` is `casmsocial/grpc_runner.py`, `R`
is `casmsocial/adapters/runner.py`, `C` is `casmsocial/casmpop.py`, `P` is
`casmsocial/person.py`, `M` is `casmsocial/communication/manager.py`, `A` is
`casmsocial/activities.py`, `LA` is `casmsocial/llm_adapter.py`, `RL` is
`casmsocial/remote_llm_adapter.py`, `NP` is `casmsocial/network_partitioner_ducklake.py` and
`D/` is `casmsocial/datasets/colorado_front_range/`.

## 1. The system

### Components

| component | where | state it keeps | operations |
|---|---|---|---|
| Main-thread run handoff | `G:42-148` | the recorded request, two events, the adapter, whether a cancel was requested and delivered, the outcome | `submit`, `cancel`, `wait_for_request`, `set_adapter`, `complete`, `shutdown` |
| CasmPop runner adapter and observation bridge | `R` | whether it was cancelled, the model, the state it reports, the bridge's tick and whether it flushed | `start`, `cancel`, `get_state`, the bridge's step and end events |
| MPI launcher | `G:151-290, 335-` , `C:3913-3935` | rank 0's program counter, error, dispatch flag; the broadcast; each rank's tick; the cancel votes | `main`, `start_runner`, `_rank0_main`, `_run_on_rank`, `_worker_main`, `_abort_collective_run`, the cancel vote of `CasmPop.step` |
| Embedded run session | `G:293-332` | the adapter, whether a cancel was requested, whether the run was started and finished | `run`, `cancel` of `_RunSession` |
| Movement and migration | `C:160-270, 1880-2000`, `P:1301-1434`, `casmsocial/place.py` | the rank that holds a person, its place, its rank place; the projection's two records of who is where; the pending rank moves | `movePersons`, the rank-move count, `move_agents`, `sync_place_projection_memberships`, the engines' own moves |
| Communication | `M`, `P:1434-1530`, `C:1992-2015` | intents, buffers per destination, inboxes, acknowledgments | `route`, `queue_remote`, the two exchanges, `consume_*`, `process_inbox` |
| State logs and their reconstruction | `C:387-440, 832-960`, `R`, `scripts/reconstruct_agent_state.py` | each logger's memory of the last state, the writers' buffers, the files, the last table | `on_step`, `write`, `flush`, the bridge's publication, `reconstruct_agent_state` |
| Plans and activities | `casmsocial/activities.py`, `P` | the elements of each person's plans | `make_plan`, `resolve_plan_state`, `move_at`, plan adjustments |
| Behaviour engines | `P:103-925`, `LA`, `RL` | beliefs, memory, recent messages, last deliberation | `decide`, `_deliberate_with_llm`, `generate_behavior_proposal`, `_apply_proposal`, `_apply_plan_adjustment` |
| Partition loading | `C:2122-2480` | the partition rows each rank copied, its map from places to ranks | `_validate_partition_table` on rank 0 with a broadcast verdict, `_create_places_input_table` |
| Loading of people, households, places | `C:2482-3617`, `household.py`, `place.py`, `ducklake_utils.py` | the population before the first tick | input queries, `create_places`, `create_households`, `create_persons` |
| Network partitioner | `NP` | the rows of the partition table | `count_existing_partition_rows`, `ensure_output_table`, `write_partition_table` |
| Dataset workflow | `D/`, `casmsocial/datasets/cli.py` | source files, partial files and their provenance; seven products with manifests; a work directory; a receipt | `fetch`, `record`, seven stages, `build_colorado_profile` |
| Interactions, parallel place updates, calendar, roads | `social_interactions.py`, `parallel_updates.py`, `sim_time.py`, `road_network.py` | none across ticks, or numerical | pure computations |
| Catalog migration, log loader | `ducklake_migrate.py`, `scripts/` | files and tables | batch jobs |
| Control, Flight and observation servers | re-exports of the `casmsim` package | outside the repository | |

`PROJECT.json` lists every component with what is modelled of it, or why it is not.

### How they interact

* **Threads.** The control server of `casmsim` calls `submit` and `cancel` of the
  handoff on its own threads. The main thread, the only one allowed to call MPI,
  waits in `wait_for_request`. Locks protect the handoff's and the adapter's fields;
  `adapter.cancel()` is called outside the handoff's lock and takes the adapter's.
* **Collectives.** Rank 0 broadcasts one message, START or ABORT. Afterwards every rank
  enters the same collectives in the same order: those of the model's constructor, per
  tick the cancel vote (`allreduce`), the rank-move count (`allreduce`), the exchange of
  people, the intent count, two `alltoall` exchanges of the communication, and at last a
  barrier. `MPI.Abort` ends all processes.
* **Calls within a tick** (`C:3913-4006`): vote, environment step (movement, migration,
  projection repair), communication phases, the people's own steps (which may move them
  again and queue messages for the next tick), observers.
* **Callbacks.** The model's step event calls the loggers and then the observation
  bridge, its end event flushes the log writers and the bridge.
* **Tables.** Partitioner jobs write the partition table that the ranks of a run validate, copy
  and load, each for itself.
* **Files.** The loggers write Parquet files, which scripts read after the run. The stages of
  the dataset workflow leave products, each with a manifest of its inputs, for the stages after
  them and for the next build.

### What is hard

* A Cancel can fall between any two steps of the start-up: before a request, before the
  adapter is exposed, between its exposure and `start`, during the constructor, between
  constructor and publication, in a tick, after the run.
* A failure of one rank, of a broadcast halfway, of the broker or of the sink must
  neither leave a peer blocked in a collective nor be reported as a success.
* People migrate with everything they carry, while four records of where they are
  (context, `place_id`, projection, place objects) are updated at different times and
  repaired only in ticks in which somebody changes ranks.
* Messages are addressed by a rank that never changes to people who do change ranks.
* A plan is adjusted in memory and lived by for the rest of the run, by an engine that goes by
  messages, by traces of earlier ones, or by habit.
* The ranks agree on who creates whom without talking about it: each by its own queries, on
  its own copy of a table that a job may be rewriting.
* A dataset build resumes what is there; sources change under it, commands overwrite one stage
  and leave the others, and processes end in the middle.
* Logs are changed-only and buffered per rank and writer; what the reader can
  conclude from them after a crash, or after people moved around, is not obvious.

The hazards, each at its line and with the properties that look for it, are in
`PROJECT.json`.

### What makes each component correct

* Handoff: one owner, one outcome, a cancel delivered at most once and never lost.
* Adapter: always sealed, sink closed once, a cancel seen whenever it comes.
* Launcher: nobody blocks forever; success only when every rank is done; all ranks stop
  at the same tick.
* Migration: people end the environment step on the rank that owns their place; each
  place knows exactly who is in it; nothing stays behind on the rank that was left.
* Communication: no message twice, no receipt without delivery, nobody misses a message
  who has not migrated.
* State logs: files that the reader accepts describe what happened; a finished run's files
  are accepted.
* Plans: a plan stays well formed through any adjustments and is read for what it means at
  every minute; adjustments leave the past alone; nobody stays in transit for good.
* Behaviour engines: an adjustment finds the activity the adapter meant; a danger keeps people at
  home for the day; nothing but news changes a plan.
* Run session: a cancel is never answered by a completed run, and the session always ends.
* Start-up: everybody is created once, where every rank takes the place to be; all ranks start or
  none is left waiting; with full coverage nobody starts on less, unless a job overtakes the copies. Partitioner: the rows of one job.
* Dataset: a receipt is of the present sources; what a stage accepts the next ones can use, if the
  sources are in order;
  the sample is exact; a routed day has time for its trips.

## 2. Modules

```
RunPromise <---refines--- RunnerHandoff      CasmPopAdapter
                                  \            /        \
                                   v          v          v
                                    MpiRunner         RunSession     (INSTANCE H, A)

Migration       Communication      StateLog

Plans, Appraisal <-- DailyLife              Partitioner <-- Startup          (EXTENDS)

DayPlans <-- RoutedDays, Acquisition, ProfileSample <-- DatasetBuild         (EXTENDS)
```

`MC*` modules give the constants their small values. `*_proofs` modules hold theorems.

### RunPromise and RunnerHandoff (`G:42-148`)

`RunPromise` is what the control plane may rely on: one owner, an outcome decided once, the
owner told that outcome, everybody else turned away, at most one cancel signal, claimed
while the outcome is open. It has no locks, events or threads.

`RunnerHandoff` has a variable for each field of `_MainThreadRunHandoff` and one action
per region executed under its lock, or per call made after leaving it:
`SubmitAccepted`, `SubmitRefused` and `SubmitEnds` are `submit` up to and after its wait;
`CancelLatched`, `CancelDeclined` the locked part of `cancel`, and `CancelDelivers` its call
of `adapter.cancel()`; `SetAdapter` and `SetAdapterDelivers` the same for `set_adapter`;
`Complete` and `Shutdown` are `_finish_locked` from its two callers. An error is one of
`none`, `exception`, `interrupt`; an interrupt (a `BaseException` that is no `Exception`)
that reached a callback would end its thread, which `died` records.
The main thread is as general as the class allows. The two "not in progress" errors of
`set_adapter` and `complete` are guards, since the launcher never provokes them.

The refinement maps `owner` to the request, `outcome` to `_finished` and `_error`, `owed` to
`_cancel_delivered`, `given` to the calls made.

### CasmPopAdapter (`R`)

`stage` is where `start` is; `Start`, `Build`, `PublishModel`, `ModelSteps`, `ModelReturns`,
`ModelRaises`, `Flush`, `FlushRaises` and `Seal` are its steps, `Cancel` is `cancel` at any
moment. `bridge`, `tick` and `closes` are the observation bridge's `_flushed`, `_tick` and
the calls that close the sink. Both launchers instantiate the module; it has no run of its own.

### RunSession (`G:293-332`)

The launcher of a single process without MPI: `pc` is where each callback thread is in `run`
(`RunAccepted` or `RunRefused`, `Prepare`, `Expose`, `AdapterStep`, `AdapterReturns` or `RunRaises`,
`Finish`, `CloseBroker`), `Cancel` is `cancel`. Unlike the handoff it calls `adapter.cancel()` with
its lock held, so `Cancel` and `Expose` are conjoined with the adapter's `Cancel` in one step.

### MpiRunner (`G`, `C:3913-3935`)

Composes the handoff (`H`) and rank 0's adapter (`A`) by INSTANCE: an action of
the composition is an action of the parts conjoined, such as `Relay == H!SetAdapterDelivers
/\ A!Cancel`. `rootPc` follows `main`, `start_runner` and `_rank0_main`; `workerPc` follows
`_worker_main`. A collective is a number; a rank joins it, and leaves it when all ranks have
joined. `Dispatch` may reach any subset of the workers and fail. `RootRaises`,
`LaunchRaises`, `WorkerRaises` raise where the code can; `ReleaseWorkers` is
`_release_waiting_workers`. `votedAtSignal` is a history variable.
Interrupts that strike rank 0's own `except` and `finally` clauses are left out.

### Plans, Appraisal and DailyLife (`A`, `LA`, `RL`, `P:91-925, 1301-1460`, `C:1769-1825`)

`Plans` has the pure part. A plan is a sequence of activities and legs; `MakePlan`,
`PlanState` (`resolve_plan_state`), `MoveAt` (`move_at`) and the four adjustments `PreserveHome`,
`Defer`, `SkipFlexible`, `CancelSocial` are operators on it. Indices count from 1 and 0 is none.
`Active` says independently of the scan what a plan means at a minute. A leg carries nothing, since
routes and durations never decide where somebody is.

`Appraisal` is the local adapter: `Gains` has the rules by kind of message, `FromMessages` and
`FromMemory` add up signals, `Fade` is the trace stored for later, `Decide` and `Habit` the policy.
Signals are integers, hundredths of the code's, rounded down.

`DailyLife` is the days of one person. `Tick` moves the person by the plan and may bring
a letter; then the engine decides: `Routine` (nothing to deliberate), `DeliberateLocally` (the proposal of
`Appraisal`, from the messages, from memory or from habit), `DeliberateRemotely` (any proposal that
`validate_proposal` accepts), or `Fallback` (the adapter raised). `Engine` is the choice by the
parameters. `since` counts the ticks since the last deliberation up to the interval. The day
repeats, so adjustments of one day meet those of earlier days.

### Migration (`C`, `P`, `place.py`)

`at` is the context that holds a person, `place` its `place_id` (`Nowhere` in transit),
`rankPlace` its `rank_place_id`; `location` and `occupants` are the projection's
`_agent_locations` and the place objects' lists, for each rank. A tick is `BeginTick`,
`MovePersons` on each rank, `CountMoves` (allreduce), `MoveAgents` (exchange) and `Attach`
(`sync_place_projection_memberships`) if somebody changes ranks, then each person's own step
(`FollowPlan`, `StayHome`) unless the schedule engine is used, then `EndTick`.
A plan is the element active at this minute: any activity, leg, or nothing. So what is
shown holds for every plan and every change of plan.
`ScheduleEngine` chooses between the two ways in which the code collects rank moves;
`Replicated` whether every rank has an object for every place. The run has engines that move people
and every rank's own places only; the theorems hold for both values of both.

### Communication (`M`, `P`, `C`)

A message is an identity and `letter` says who sends what to whom in which mode. A tick
is `Collect` on each rank, `CountIntents` (which ends the phases when there is nothing),
`Route`, `ExchangeMessages`, `Consume`, `ExchangeAcks` and `Close`; then engines queue
messages for the next tick (`QueueIntent`) and people move (`MovePeople`, which
Migration justifies: a person is then on the rank of its place). The rank in a person's uid
is `Origin`, the rank it is on `At`. Message delays within an exchange do not exist:
`alltoall` is synchronous.

### StateLog (`C`, `R`, `scripts/reconstruct_agent_state.py`)

`LogDelta` and `LogAudit` are the two halves of `DeltaAgentStateLogger.on_step`, `Write` and
`Flush` are `_ObserverLogWriter`'s, `Publish` the bridge's, and the operators from `NoDuplicates`
to `Accepted` are the script, evaluated on the files of *any* state, so that a crash at any
point is covered: a crashed process leaves the files as they are. `truth` records what the
state really was after each tick.

People go from rank to rank as they like and come back. A logger compares with what its rank saw last,
so who comes to a rank in the very state it had last seen them in is not logged (`AsLastSeen`).
`ArrivalsNoticed(t)` says that this has not happened up to tick t. What the reader reconstructs is claimed
for the audited ticks before the first such return, and the run `state_log_doc` shows what happens at it.

### Partitioner and Startup (`NP:327-512, 550-594`, `C:1655-1767, 2122-3617`)

`Partitioner` has a program counter per job: `CountExisting`, `EnsureOutputTable`, `DeleteRows`,
`InsertRows`, one for each transaction, and `Crash` anywhere. METIS may give any node any rank.
`overlapped` is a history variable.

`Startup` extends it with the ranks of a run, each with its program counter: `ResolveTables`,
`Validate` (rank 0) and `ReceiveVerdict`, `Materialize` (the rank's copy of the rows, with the default
rank for missing places), and with full coverage the validation of the copy; then `Load`, which is
`create_places`, `create_households` and `create_persons`. `PersonRanks` is the persons query, `HomeOn`
the lookup by `_resolve_person_household_place`, `PeopleOf` both together. `Dictionaries` are the maps
Python can build from rows with several ranks for one place. The configuration is chosen in `Init`.
`overtaken`, a history variable, has the ranks whose copy was made before a job last changed the table: the
verdict is about rank 0's copy and every rank loads its own, so a rank may start on less than the whole assignment
if rank 0 or it is among them, and `FullCoverageIsEnforced` says that it does so in no other case.

### The dataset build (`D/`)

* `Acquisition` (`sources.py`): a source has a version, which may change once, and a file is the
  sequence of its chunks. `Open`, `Receive`, `Install`, `Provenance` are `download_artifact`, which may
  end after any of them; `Stage` and `Record` are the operator's file and `record_artifact`.
* `ProfileSample` (`osf_tables.py`, `osf_ducklake.py`, `profile_population.py`): the state's tables,
  the lake's checks, and the sample: reserved people of each CBSA, then round robin over strata
  (`RoundRobin`), then the ends of a tie in exchange for others (`SeedTies`, `Removed`). The order of a
  hash is a given permutation.
* `DayPlans` and `RoutedDays` (`atus.py`, `profile_schedules.py`, `destination_supply.py`,
  `profile_runtime.py`): one person's day. `Staged`, `Filled`, `Compacted` normalize a diary,
  `Candidates` and `Donor` choose it, `AdultRow` and `ChildRows` make stays of it, `Assigned` gives them
  destinations, `Routed` puts the trips between them, `Exported` is what the model reads. Each stage's
  checks are operators (`Repeated`, `ScheduleAccepted`, `Collides`, `Misplaced`, `AssignmentAccepted`,
  `RoutedDayAccepted`, `WithinCapacity`). Places are rows and not ids, since a site can be in
  several files: whoever goes to it has every row of the day twice, and its supply has two rows of one id.
  `Supply` has a row for each household, for each site and kind of assignment with the room for these
  people, and for each mapped feature as what it is and as "other".
* `DatasetBuild` (`workflow.py`, `cli.py` and the `build_...` function of every stage): `Keeps` is the
  start of a stage that finds an output, `Builds`/`Replaces`/`Publishes` its staging and publication,
  `BeginRuntime`, `Split`, `RoutePart`, `FinishRuntime` the resumable work directory, `WriteReceipt` the
  end of a build, `BuildCrash` its end anywhere else. What a stage writes into its manifest is an
  operator of its own (`SchedulesInputs` ...). A product records in `from` what it was really made of;
  the code has no such record, and `FreshReceipt` compares the two.

## 3. Runs

| run | instance | states | what it shows |
|---|---|---|---|
| `handoff` | 2 callbacks, 3 cancellers | 1,635 | the handoff keeps `RunPromise`; no cancel lost, at most one delivered, owner answered |
| `session` | 2 callbacks, 3 ticks | 1,082 | the embedded session never completes a cancelled run and always ends |
| `mpi` | rank 0, 2 workers, 1 callback, 2 cancellers, 2 ticks | 160,484 | success means all ranks are done, one broadcast and lock step, cancellation at one tick, nobody blocked forever |
| `migration` | 3 ranks with a place each, 2 people, engines that move people | 5,904 | owners, occupants and the absence of ghosts after each environment step; ticks go on |
| `communication` | 2 ranks, 3 places, 2 people, 2 messages | 39,168 | no duplicate, true receipts, only migrants miss messages, deliveries are seen |
| `daily_life` | days of 5 minutes, up to 3 activities, delays of 1 and 3, 14 sorts of letters, at most one | 533,260 | plans hold together and are read for what they mean; the past is kept; travellers arrive; adapter and engine mean the same activity; a danger lasts the day; only news changes plans |
| `startup` | 2 jobs, 2 ranks, 2 places, 1 person, 4 contents of the tables, all configurations | 1,512,976 | one assignment, one owner for everybody, on less than full coverage a rank starts only if a job overtook the copies, no rank left in the broadcast |
| `state_log` | 2 ranks, 2 people, 2 states, 3 ticks, 2 tables per file | 118,344 | accepted files are true and finished files are accepted up to the first return that a rank cannot notice, the stream misses no change |
| `dataset` | 5 people of whom 4 are sampled, 2 CBSAs, days of 24 minutes, 42 pairs of diaries, 256 ways to spread people and ties, 4 sources that are not in order, up to 4 commands | 568,879 | no spliced source, fresh receipts, exact samples, accepted data pass, nobody teleports |
| `memory_doc`, `state_log_doc`, `dataset_doc` | as above | - | three sentences of the repository that the code does not keep (section 6) |

`RanksStayTogether` has two parts: all workers hear the same single broadcast, and no rank is more than
a tick ahead. `PeopleHaveOneOwner` too: nobody is created twice or where others would not look, and
nobody who has a home is lost. The type invariants of MpiRunner, Communication, StateLog,
DailyLife, Startup and Partitioner are conjuncts of their first property; those of the handoff, the
adapter, migration and the dataset build are parts of theorems.

### Bounds, and why they are enough

* Handoff: the second Start is refused whichever it is, so two callbacks show every race for
  the request; three cancellers allow one in delivery, one that found the claim taken and one that
  comes after the end.
* Launcher: two workers are needed for "some workers received the broadcast, others did
  not"; two ticks for a vote that stops a tick and one that does not; one callback suffices
  because a refused one changes nothing in the handoff, which `handoff` shows with two.
* Migration: three ranks, so that two people can travel between different pairs of ranks while
  a rank takes part in the exchange with nobody; one place per rank makes a change of place a
  change of rank; legs and idle moments supply moves within a rank.
* Communication: two places on one rank and one on the other distinguish "same rank" and "same
  place"; two messages let two people write to each other, or one person twice. The number of
  messages bounds a run, the number of ticks is unbounded.
* State log: three ticks are a change, a tick without one and another change, and more than a file;
  `FlushTicks = 2` lets the delta and audit writer flush at different ticks.
* Session: two callbacks, one of which is refused; three ticks, so that a cancel falls before, between
  and after them.
* Daily life: all days of five minutes with one to three activities in order, among them home,
  with every choice of gaps, touching and one-minute activities, for the deterministic and the remote
  engine. Three activities give a first, an inner and a last one to remove or defer; a delay of 1 fits
  into gaps and one of 3 exceeds them. Minutes 4 and 0 meet across midnight, and days repeat without
  bound. The local engine has three of these days, one with a social activity last, one with it
  between stays at home, one that begins away from home, and one letter of any sort that decides
  something in the policy: its trace is in memory for ever after, so later ticks go by memory.
  `Window = 2` and `MaxEvents = 3` are below the code's 5 and 20 so that both limits are met; the run
  `memory_doc` has the code's cap, decay and window.
* Start-up: two jobs are an earlier and a later one, or two that overlap; two ranks are the one that
  validates and one that is told. The person's home is given by a household, by the place itself, by a
  household whose id is another place's, or by nothing. A job may leave a place unassigned or assign
  an id that is no place. The default rank may be a rank or not.
* Dataset: five people are a worker, a retired person, a pupil, another worker and a small child, one
  more is dropped for want of a household; four are sampled, two of each CBSA, so that there is no
  slack; people and ties are spread over the CBSAs in every way. A day of 24 minutes begins at minute
  4 with 2 as the shortest row; the diaries have gaps, overlaps, short rows, travel at both ends, and
  places so far apart that a trip is as long as a stay. Histories have four commands from nothing or
  three from acquired sources: enough to build, replace or overwrite something, and build again,
  with a crash after any step. Four more sources are not in order: a school that is also in the file of
  daycares, a school off the map, a school where a child has daycare, a shop and a restaurant
  of one source id; a build of the first is refused for duplicates, of the second as misplaced, of the others for colliding ids.
* `MaxLetters`, the number of commands of a history and the two versions of a source are bounds in
  guards; no other counter needs one. TLC explores all reachable states of each instance.

`CHECK_DEADLOCK FALSE` is set where the system really stops: the handoff and both launchers
after a run, the engines of `migration` and `daily_life` after an exception, a log after its end event, a
start-up when all are ready, an operator who gives no more commands. `communication` runs forever and
is checked for deadlock.

### Fairness

* Handoff: a thread past the lock goes on (`SubmitEnds`, `CancelDelivers`,
  `SetAdapterDelivers`): these are straight-line code after an event or a lock held briefly. Nothing
  is assumed of clients or of the moment when the main thread finishes.
* Session: `run` goes on (`WF_vars(RunStep(c))` of each callback). This assumes that the constructor and the
  steps of a model in a single process end. Cancels are not fair.
* Daily life: the ticks go on, and each asks the engine once (`WF_decided(PhaseEnds)`, a step of either
  kind until the engine raises). No letter, proposal or failure is fair.
* Start-up: the ranks go on (one weak fairness of all their steps, since a rank that has nothing to
  wait for always can). Jobs are not fair: they may stay where they are for ever.
* Launcher: each process goes on when it can; clients, failures and the supervisor's stop are
  not fair.
* Migration: each rank goes on, and a collective that all have entered ends.

No liveness is claimed of Communication (its phases are collectives in a fixed order, deadlock
checking covers them), StateLog (a run may crash) or the dataset build (a command may be the last).

## 4. Theorems

All proofs are checked by TLAPS and hold for every number of threads, ranks, people, places,
messages, ticks, jobs and commands. Each proofs module states an inductive invariant `IInv` (TLC has checked
it on the instance of the component's run), proves it step by step (a lemma for each action or group of
actions, the invariant's parts as named conjuncts) and derives the properties from it.

| module | properties of runs it proves | other theorems |
|---|---|---|
| `RunnerHandoff_proofs` | `SignalledAtMostOnce`, `CancelNotLost`, `OutcomeIsFinal`, `OnlyOwnerReturns`, `KeepsPromise` | `TypeCorrect`, `HonestAnswers` |
| `MpiRunner_proofs` | `SuccessMeansEveryRankIsDone`, `RanksStayTogether`, `CancelStopsEveryRank`; `CancelledRunNeverCompletes` of the session | `KeepsHandoff`, `KeepsAdapter`; sink, cancel and participation of the adapter |
| `Migration_proofs` | `OwnersAreLocal`, `OccupantsExact`, `NoGhosts` | `TypeCorrect` |
| `Communication_proofs` | `DeliveredAtMostOnce`, `ReceiptsAreTrue`, `OnlyMigrantsMissOut`, `DeliveriesAreSeen` | |
| `StateLog_proofs` | `StreamMissesNothing`, `AcceptedIsTrue`, `FinishedIsAccepted` | |
| `DailyLife_proofs` | `PlanHoldsTogether`, `PlanStateIsActive`, `PastIsKept`, `DangerLasts`, `OnlyNewsChangesPlans`, `SkipFindsActivity` | |
| `Startup_proofs` | `OneAssignment`, `PeopleHaveOneOwner`, `FullCoverageIsEnforced` | |
| `Dataset_proofs` | `NeverSpliced`, `FreshReceipt`, `SampleIsExact`, `AcceptedDataPasses`, `NobodyTeleports` | |

**RunnerHandoff_proofs.** The inductive invariant `IInv` is the type invariant and
`OneDelivery` (the signals made and in flight are together one or none, according to
`cancelDelivered`), `ClaimsFollowRequests` (a claim follows a request, an exposed adapter with a
request has been claimed for), `OutcomeInv` (what a finished run looks like: events set, no
adapter, error translated), and the two properties `CancelAnswersAreHonest` and
`OnlyOwnerReturns`, which are inductive with the rest. `SignalledAtMostOnce` counts with
`Cardinality`, which an induction step cannot follow; `OneDelivery` says the same with "empty or
a singleton", and lemma `DeliveryCount` translates.

* `TypeCorrect`, `AtMostOnce`, `NoCancelLost`, `HonestAnswers`, `OwnerReturns`: `Spec => []...`
* `FinalOutcome`: the action property `OutcomeIsFinal`.
* `ImplementsPromise`: `Spec => KeepsPromise`. Initial states map to initial states; under
  `IInv` every action maps to the abstract action of the same role, or to a stutter.

Assumption: `ThreadsAssumption` (the main thread is no canceller, `NoRequest` no callback).
What `cancel` answers (`CancelAnswersAreHonest`) is proved only; no run checks it.

**Migration_proofs.** `OwnersAreLocal`, `OccupantsExact` and `NoGhosts` speak of moments; between
them the records disagree on purpose. `IInv` says how far they may: `RecordsAgree` (the projection's
two records agree, always), `InPlaceOrTransit` (`place` is `rankPlace` or `Nowhere`),
`LocatedAtHolder` (only the holder locates a person), `EmigrantsExact`/`EmigrantsGone` (the pending
moves are exactly the people whose rank place is elsewhere, and their projection entry is gone),
`UndecidedHere`, and `Aligned`/`Placed` (from the exchange on, a rank holds only people it owns and
has them where `place` says, except people whose own step has already moved them). The lemma
`RelocateEffect` gives the effect of the projection's update once, `MoveAtPlaces` what
`move_at` can do to the three fields of a person; each action has a lemma.

* `Invariance`, `TypeCorrect`, `OwnersSettle`, `OccupantsSettle`, `GhostFree`.

They hold for both engines, with and without replicated places, for any map from places
to ranks. Assumption: `MigrationAssumption` (the maps are functions, `Nowhere` is no place).

**MpiRunner_proofs.** Three sections: the adapter, the launcher over it, the embedded session over it.

The adapter's `AdapterInv` has four parts that lean on one another: `SinkInv` (how often the sink was
closed at each stage), `PublishInv` (a model that runs was published, and has been signalled if the
adapter is cancelled), `ParticipationInv` (what a succeeded collective run has gone through) and
`SealInv` (the run is finished exactly when `start` is done). They hold for any `Ticks`, collective or not.

The launcher is a composition, and so is its invariant: `HP!IInv` and `AdapterInv`, the invariants of
the two parts with the launcher's variables in their places, and four parts of its own. `OutcomeInv`: a
run is finished only by the last step of rank 0's failed launch or run, with rank 0's error, and
without an error only after the ranks met and the broker closed. `InboxInv`: all workers hear the same
message and nothing before the broadcast. `LockStepInv`: whoever is past a tick has joined its vote, all
of them have, and nobody voted to stop. `SignalInv`: what rank 0 may still vote after the signal; this
is what "at most one tick" rests on.

The session needs `AcceptedInv` (one callback at most is in the run) and `RequestInv` (a requested cancel
has reached an exposed adapter unless that had been sealed); with the lemmas that a step of `start`
keeps a cancel and that `adapter.cancel()` cancels what is not sealed, a run that completes was not cancelled.

* `SinkIsClosedOnce`, `CancelArrives`, `EveryRankParticipates`, `SkippableIsSkipped` of the adapter.
* `Invariance`, `SuccessIsEveryones`, `LockStep`, `CancelLatency` of the launcher.
* `KeepsHandoff`, `KeepsAdapter`: `Spec => HP!Spec` and `Spec => A!Spec`. Every step of the launcher
  is a step of each part or leaves it alone, so all theorems about the handoff and the adapter
  hold in the composition.
* `CancelledNeverCompletes` of the session.

Assumption: `RunnerAssumption` and those of the parts.

**Communication_proofs.** A message's record of deliveries says what happened to it only together with
where its rank is in the tick. `InStep` says which phases ranks can be in together; `BuffersHold` and
`ArrivalsHold` describe buffers and arrivals by what was collected (`intents`), not by how they came about;
`DeliveriesHold`, `ReceiptsHold` and `InboxesHold` then say for every rank's phase how often a message
has been delivered, where its receipt is and who sees it. `UnsentUntouched`, `OutboundWritten` and
`CollectedOnce` keep the messages of different ticks apart, `PromisesHold` is what outlives the tick.

* `Invariance`, `AtMostOneDelivery`, `NoFalseReceipt`, `MissingOnlyByMigration`, `EnginesSeeDeliveries`.

Assumptions: `CommunicationAssumption` (the maps are functions, the option is a Boolean) and
`BlankAssumption` (the letter of a message not yet written is no letter).

**Startup_proofs.** `JobsInv`: a job that is to insert finds only rows of jobs that overlapped it
(`InsertOverlap`), because its own delete removed the others. `RanksInv`: what a rank's copy holds
(`ViewInv`), what a positive verdict means (`VerdictInv`), and that what a rank has loaded is the
result of the load of its copy (`LoadInv`). `CopyInv`: with full coverage the copy of a rank that no job has
overtaken is the table, so two such copies are equal, and what rank 0's verdict says of its own copy is true of the other.

* `Invariance`, `OneJobsRows`, `FullCoverage`, `OneOwner`.

Assumption: `StartupAssumption`. The proof of `OneOwner` failed at first for a good reason, and
TLC on wider tables showed why (section 6, the household without a place of its own);
`PeopleHaveOneOwner` now says for whom it holds (`SameHome`).

**DailyLife_proofs.** "A plan holds together" is not inductive: removing an activity puts a leg between its
neighbours, which is right only in plans of a certain form. `PlanInv` says which forms there are:
activities and legs in turn (`Alternating`), as plans are made, or what `preserve_home_activity` leaves
(`Rewritten`), one or two activities of which the last is home for the rest of the day. All plans are
ordered and keep a stay at home. Each of the four adjustments preserves it; what the scan of
`resolve_plan_state` finds (`PlanStateIsFirst`), what the engine looks up (next, previous, first future
activity) and what an adjustment leaves unchanged before a minute are lemmas. The local adapter adds up
signals with folds; a fold is a set function, so `FoldExists` shows by induction on the cardinality (as
the existence of a least counterexample, first order) that it has a value, and `FoldStays` that it has what each of its steps keeps.
From these: a message of danger keeps its signal, and so its policy.

* `Invariance`, `PlansHoldTogether`, `StatesAreActive`, `PastStays`, `DangersLast`, `OnlyNews`, `SkipsFind`.

Assumptions: `PlansAssumption`, `AppraisalAssumption`, `DailyLifeAssumption` (activities lie within the day and in order, every day has a stay at home,
home is no flexible and no social place, urgency and trust are shares of one, in hundredths).

**StateLog_proofs.** `BaseInv`: types, each writer's rows are its own, the last
truth is the present, rank 0's rows are in the stream or in the table it publishes next. `HistoryInv` ties
loggers and files to the true history, wherever people go:
`MemoryInv` (a logger remembers of everybody what its rank last saw),
`DeltaInv` and `AuditInv` (files and buffers together are the changes and audits a rank has seen, the audits
on disk up to a tick and buffered from there) and `LastChangeInv` (where arrivals are noticed everybody is as at
the latest change), from which what the script reconstructs at an audited tick can be computed.

* `Invariance`, `StreamIsComplete`, `AcceptedFilesAreTrue`, `FinishedRunsAreAccepted`. No theorem has a hypothesis
  about where people go; that an ended run has audited every tick on every rank, with unique rows that add up,
  holds with any returns, and `ArrivalsNoticed` is asked for in the properties only where `state_log_doc` shows that it must be.

Assumption: `StateLogAssumption` (people are finitely many: the reader counts them). Files are those of
any reachable state, so the theorem about accepted files includes every crash.

**Dataset_proofs.** `SourcesInv`: without a digest a file is of one version, and so is the download in
progress, whatever earlier attempts left in the partial file. `BuildInv`: every manifest is truthful
(`ProductsInv`: what a product was made of is a function of the inputs it names, all the way
down), so is the one about to be published (`NextInv`), and whatever a whole build has behind it
names what is there now (`ChainInv`), since the inputs of a stage depend only on earlier products and on
sources that rest while a build runs (`RestInv`). For `SampleIsExact` there is no induction: ranks are a
bijection from people to `1..n` (lemma `Ranks`), so exactly `n` people are among the first `n`
(`HowManyFirst`), the reserved people of a CBSA are as many as required, and not more of them make
room than are added.

`AcceptedDataPasses` and `NobodyTeleports` are about days of any length, computed by three folds
(`Filled`, `Compacted`, `Routed`) and a filter (`Stays`). The module reads a fold as a set function
(`FoldExists`), shows that over the indices of a sequence it takes one step after another (`FoldOfIndices`),
and follows what each step keeps: rows begin at 0 and join up to a cursor (`UpToMinute`), and a step of
`Filled` or `Compacted` moves it (`FillKeeps`, `CompactKeeps`), so a normalized diary is a whole day
(`NormalizedIsWhole`). Without its trips a day is whole still (`StationaryIsWhole`), schedules and assignments
keep its times (`ScheduleIsAccepted`, `AssignedIsAccepted`), and a step of `Routed` keeps that what is
routed so far is joined up, with every trip as long as its minutes and between two stays at different places
(`SetOut`, `StayThere`, `RouteKeeps`), because a trip is made only if it is shorter than the stay
before it. From the lemmas on single days come those on the stages' verdicts (`LakeIsAccepted`, `MadeIs`, `SentIs`,
`JourneyIs`). That a place is named twice, of two kinds or off the map only if the sources are not in order is
`NothingRepeats` and `SupplyInOrder`. They speak of the versions a product was made of, so `DataInv` (the last conjunct of
`IInv`) says that these exist: every product names versions of files that are there (`UsableInv`), a
command that will read a file has it (`FilesInv`), something is built only where there are commands
(`WorldInv`), and a population is one of the profile (`PeopleInv`).

* `Invariance`, `VerifiedFilesAreWhole`, `ReceiptsAreFresh`, `SamplesAreExact`, `AcceptedDataIsNotRefused`,
  `NobodyEverTeleports`.

Assumptions: `Sources`, `DayAssumption` (a day has 24 minutes at least; the code's has 1440) and
`DatasetAssumption`. The latter says that the files an operator begins with are whole; that the people of a
source are finitely many and named once, with distinct integers for ids, so that each order of a hash (with its ties broken, as
`row_number()` does) is strict; and, of worlds in which something is built, that the
diaries have known activities and both kinds of days (`assign_atus_donors` stops otherwise), that the
mapped features are finitely many and numbered apart from the other places (`_place_id` is negative, the
scoped ids of the others are positive), and that between two different places lie whole minutes, at least
one (`minimum_minutes`, `D/profile_runtime.py:142-149`). Of the clock times of diaries
nothing is assumed: rows may overlap, leave gaps, or be out of order.

**What is only model-checked.** Out of the prover's reach is every liveness property (`OwnerIsAnswered`,
`ClaimedSignalArrives`, `RunEnds`, `RunSettles`, `TicksGoOn`, `TravellersArrive`, `StartupEnds`,
the session's end), since neither fairness nor ENABLED can be used. All other
properties of the passing runs, every invariant among them, are stated by a theorem. The folds and the recursive
function that define them need induction over data, which the library's theorems with an operator for a parameter
do not give; here it is an induction over sets of naturals (lemma `Induction`, from the library's
`NatLessThanWellFounded`; `FoldExists` by the size of a set).

## 5. What is not modelled

* The `casmsim`, `repast4py`, MPI and DuckDB libraries. MPI collectives and repast4py's
  `move_agents` are modelled from how the code uses them.
* Tie weights, probabilities, draws and the heuristics of METIS: the choice they lead to is an
  arbitrary or a given choice. Beliefs, emotions, needs and attitudes, which only weigh the
  deterministic engine's scores: the score of staying at home is any value they allow.
* Routes and durations of legs, the weekday and weekend choice of a plan, contents of prompts and
  replies, and of log rows beyond what a property tells apart.
* Of loading: columns that do not decide who is created where. Roads, interactions in a place,
  parallel updates (disabled by default), the calendar: pure or numerical computations in a tick.
* Of the dataset: profiles of the full boundary, release contracts, changes of the county
  boundaries, two builds at once (they would share a work directory; nothing locks it).
* `ducklake_migrate.py` and the log loader: one sequential script each, without a promise about what
  a crash leaves other than that the next attempt begins anew.
* Crashes of single MPI processes other than by exception: MPI ends the job.

## 6. Where code and text differ

Runs that TLC refutes, each quoting the sentence it states:

* `state_log_doc`: when a person leaves a rank, changes, and comes back in the state in which it
  left, the first rank's logger sees no change and writes nothing: the reconstruction keeps
  the row of the other rank. Usually the reader's count of agents per rank notices; two
  people who swap ranks and swap back are accepted and wrong.
* `memory_doc`: a trace stored from memory is a weighted sum of up to five traces with weights that
  add up to more than one, so traces grow instead of fading (`LA:1083`): with the default parameters one
  warning keeps a person at home until the end of the run.
* `dataset_doc`: `D/atus.py:67` counts minutes from 04:00, and they are exported unchanged as the
  minutes the model counts from midnight; an adult who begins work at 10:00 in the diary begins it at
  06:00 in the model.

Noticed without a run.

Launchers and logs:
* `docs/runner_transport_architecture.md:74-76` still says that Cancel is unsupported.
* In ticks without changes the bridge publishes the last delta table again. Output directories are
  written with `overwrite_or_ignore`, so a shorter second run with the same run id leaves later ticks
  of the first.

Movement and communication:
* A person in transit whose engine chooses to stay at home raises: `_force_home_if_possible`
  (`P:314-325`, "Move to home place ... if available") assigns the place before the projection, which has no
  entry for the person, refuses the move.
* `_rank_for_receiver` (`M:170`) says it resolves the owner "from its current uid"; the rank in a uid is
  the creator's and does not follow migrations, so messages to migrants go astray
  (`OnlyMigrantsMissOut` is what remains true).
* `consume_acks` marks entries of `pending_acks` and nothing removes them although
  `docs/agent_communication_design.md:351` asks for it. A tick without intents returns before the
  inboxes are processed, so an engine still sees the messages of an older tick (`:385`).
* `C:3870` takes `min` of tuples that end in a `SocialTie`, which raises on ties.

Plans and engines:
* `preserve_home_activity` keeps only what precedes the first leg, and rewrites the plan for the rest
  of the run; messages that are seen again skip or cancel one more activity at each deliberation.
* Skipping the last activity on the way to it removes its leg: the person stays in transit until a
  later activity begins.
* After a failed deliberation the beliefs are updated twice in the tick. `mandatory_ids` is not used.
* With its default beliefs the deterministic engine can only follow the schedule.

Start-up:
* Without a partition table, on several ranks, a person whose household id is another place's id is
  created on two ranks. `partition.default_rank` is never validated.
* With full coverage, if a household's place is in the assignment but not in the places table while the
  household's id is itself a place's id, the persons query (`C:2545-2559`) ranks its people by the
  household's place and `create_persons` looks them up by the id: nobody creates them, and nothing is
  reported. `PeopleHaveOneOwner` excludes these by `SameHome`; the attempt to prove it found them.
* If rank 0 raises before the verdict's broadcast (a table that appears meanwhile), the others wait.
* Overlapping partitioner jobs can leave a place with two ranks; a crash between `DELETE` and `INSERT`
  loses the assignment. `docs/place_rank_loading.md` mentions a fallback by hash that does not exist.

Dataset:
* A complete partial file of a pinned artifact makes the next attempt ask for a range past its end,
  which fails until `--overwrite` (`D/sources.py:228-234`). A download of an unpinned source that was cut off
  is recorded as verified (`:238-252`).
* Sites are unique within a batch of a file and then joined with `UNION ALL` (`D/osf_tables.py:394-407`), and the lake's
  acceptance has no check that places are unique: a site that is named twice is found only when somebody
  goes to it, as duplicate rows of the schedules (`D/profile_schedules.py:214`). A site where some work and
  others learn, or features of two categories under one source id (both are "other" under one id), stop the
  destinations as colliding ids (`D/destination_supply.py:302`). The position that stands in for an `osm_id` does so only
  where the column is missing (`:159`): features with a null id share one source id. `AcceptedDataPasses` has these exceptions (`InOrder`).
* The weekday-home check counts placeholders of discretionary rows; once these have destinations a
  person may be exported without a home (`D/profile_schedules.py:255`).
* After a crash between `state_path.unlink` (`D/profile_runtime.py:549`) and the publication, the work is
  done again from the beginning, which the resumption described in
  `docs/colorado_front_range_data_acquisition.md:224` would avoid.
* The single-stage runtime command does not check that the destinations were built for the present
  population; a build of all stages does.
* A sample may be refused for lack of a tie though the boundary has some: only ties with exactly one
  end in the sample are considered.
* The labour status, which the exact level of donor matching compares, is 0 for everybody.

`sequential_estimate` in `parallel_updates.py` is unbound when metrics are disabled.

## 7. Plan

Built, in this order: the handoff and its promise, the adapter, their composition with MPI, the run
session, migration, communication, state logs, plans and the days lived by them; theorems for
the handoff, the adapter and migration; the engines and the local adapter; the partitioner and the
start-up; the dataset build.

Then theorems for the launcher and its refinements, communication, the start-up, the state log and
the dataset build, then for the days of a person and the embedded session, and at last for the days
that the dataset build makes.

Next:

1. **One tick**: Migration and Communication together, so that what Communication assumes of people
   is a refinement and not an argument.
2. **A second run** in StateLog's directory.

# TLA+ models of doppa

doppa benchmarks spatial queries (DuckDB, PostGIS, a local shapefile, Apache
Sedona on Databricks) over a conflated data set of Norwegian buildings. What it
publishes is measurements, so what can go wrong is seldom a crash: it is a row
that silently disappears, a timed call that ran beside another one, a cost that
covers the wrong seconds, a data set that misses buildings. This directory holds
TLA+ models of the parts where such things can happen, TLC configurations that
check them, and TLAPS proofs for the parts where a small instance is not enough.

Paths below are relative to the root of the repository unless they start with
`src/src`, which are written the same way in `PROJECT.json`.

## 1. The system and its parts

```
 GitHub workflow ──► container: setup_benchmarking_framework          SetupPipeline
                      release number, raw files, conflation, sizes,   Conflation
                      STAC catalog, Postgres, shapefile copy
                                  │ data release
 operator ──► main.py (orchestrator) ── az CLI ──► container groups    Orchestrator
                 batch by batch                        │               (BatchSchedule)
                                                       ▼
              container: benchmark_runner.py ─► entrypoint of one experiment
                 @monitor: warmup, timed loop, stopping rules          Monitor
                 Databricks entrypoints: cluster, notebook runs        DatabricksCluster
                    notebooks on the cluster: stage metrics            PhaseMetrics
                                  │ samples, row, cost rows
              blob storage: sample blobs, benchmark_metadata.parquet   MetadataStore
                                  ▲
              Azure Monitor ──────┘ usage and cost of the window       MetricsQuery

 orchestrator + container groups + runner + metadata table             BenchmarkSuite
```

| part | state it keeps | operations | what is hard | what makes it correct |
|---|---|---|---|---|
| measurement loop (`monitor.py`, `monitor_utils.py`) | counters, elapsed window, failure streak, stop reason; sample blobs, one metadata row, cost rows | warmup call, timed call (returns, raises, overruns), stopping decision, upload of sample, row and costs | many limits met in one iteration, process death between uploads, runs sharing a `run_id` | the loop never goes past a limit, the recorded reason is justified, the row accounts for the samples, no sample is overwritten |
| metadata table (`monitoring_storage_service.py`, `blob_storage_service.py`) | one parquet blob, a local copy per container | ensure the storage container, download, append, upload | containers of a batch write concurrently without a lease | rows survive |
| orchestrator (`main.py`, `benchmarks.yml`) | shuffled list, completed set, thread pool, container groups in Azure | clear, start batch, delete/create/poll/clean up a group, next run | threads, `az` commands that fail or whose reply is lost, state inferred from a failing query | each experiment once per run, one batch at a time, nothing left running, the suite ends |
| benchmark runner (`benchmark_runner.py`) | — (a process of a container group) | dispatch, skip, run, record, exit code | the group is deleted or replaced while the process is anywhere; an earlier suite's processes | a success has its row; the table is used as its model says |
| Databricks cluster (`databricks_service.py`, `_databricks_benchmark_runner.py`) | one cluster per process, libraries, one run per call | create, install, await, import, submit, poll, fetch, terminate | unlimited polling, failing polls, lost replies, clusters that die | no run before the cluster is ready, calls block, results are warm, the cluster is torn down |
| notebooks (`presentation/databricks/*.py`) | listeners and a global temp view that outlive the run, the run's own result | load, add a listener, join, read the view, sum up, exit | events are delivered beside the notebook, listeners of earlier runs publish too | the metrics of a result are those of its own join |
| setup pipeline (`setup_benchmarking_framework.py` and its services) | `releases.parquet`, `counties.parquet`, data set files, STAC catalog, Postgres tables, shapefile copy | six steps, file by file | a setup dies anywhere; the next one starts over in the same places | one setup per release, the catalog lists complete releases, copies are of complete releases |
| conflation (`conflation_service.py`, part of `vector_service.py`) | buildings of a region, the FKB–OSM relation | relation query, merge | chains of partners, touching buildings, several regions | one representative per building |
| metrics and costs (`azure_metric_service.py`, `azure_cost_service.py`) | none of their own; buckets published by Azure | wait, query, retry; one cost row per component | late metrics, retries, resource names, two ways of counting bytes | a usage covers the window of the right resource, counts agree |
| query entrypoints, extraction, CPU/RAM sampler, DI, CI | — | one query each, conversions, wiring | — | not modelled, see section 7 |

The parts share little: blob storage, the container groups, and the data release
named in `Config`. A container group runs one process; that process runs one
entrypoint, wrapped by one monitor. Concurrency is (a) the threads of the
orchestrator's pool, (b) the containers of a batch writing to one blob, (c) the listener
bus of Spark beside the notebook, (d) Azure and Databricks, which act by
themselves. Everything else is sequential code that may die between two steps.

The hazards that follow from this, each at its line and with the properties that
cover it, are the `hazards` of `PROJECT.json`. Four of them are covered by no property, because nothing
in the code prevents them: a killed process that leaves its cluster, clocks that disagree, and buildings that lie across
a cell or a county border.

## 2. The modules

A comment line `A mistake: ...` marks an operator that is used by no
specification: it is the form a definition would take if the code had a plausible
bug, and the `mutants` of `PROJECT.json` say which property then fails.

Where a promise of the code holds only as long as the world plays along, the module
has a history variable that records what went wrong (`misreported`, `doubtful`, `abandoned`,
`faults`, `early`, `shared`), no action's effect depends on it except where a bound counts it,
and the property names the exact condition.
So one run, with everything failing, says both what holds and what it depends on.

**Monitor** — `monitor.py`. One process runs `Runs` benchmark runs in sequence.
The variable `kind` is what the decorator was given: `"query"` (sequential stopping),
`"join"` (a fixed number of iterations) or `"notebook"` (the same, with the elapsed time
taken from the result). `StartRun` is the entry of the wrapper,
`WarmupReturns`/`WarmupRaises` the warmup loop, `IterationReturns`/`IterationRaises` one
pass of the timed loop *with* the upload of
its sample and the stopping decision that follows, `Finish` the choice of the
recorded reason, then the metadata row and the cost rows one at a time, in the
order of the code. `Die` ends the process at any of these points (an uncaught
upload error or a deleted container). Time is counted in whole units that pass
inside measured calls; the time between calls is left out. The bootstrapped
confidence interval is a free Boolean: `precision` may be reached whenever
the code asks for it. `SequentialStop`, `WindowStop`, `StreakAfterSuccess` and
`FinalReason` hold the rules, one each.

**MetadataStore** — the table `benchmark_metadata.parquet`. A row is named by the
container that writes it. `FindStorage`/`FindStorageMissing`/`CreateStorage`/
`CreateRefused` are `ensure_container`, `Download` and `Upload` the
read-modify-write; each request is a step because other containers act in
between. `LaunchBatch` launches the containers of a batch together, in any order of
batches, once everything launched before has ended; a suite may begin with an earlier suite's
batch still at work. That the orchestrator keeps to this is shown by BenchmarkSuite.

**BatchSchedule** — the abstract schedule: a run deals with its pending
experiments in any order, a batch at a time, and then the next run begins. No
threads, no containers, no failures.

**Orchestrator** — `main.py`. The main thread clears all groups, walks through the
shuffled list (a `\E` over what remains), starts a batch, waits for the pool,
marks the whole batch as completed and sweeps at the end of the run. Each pool
thread deletes the old group, creates the new one, polls it and cleans up, as
`_safe_run` around `_run_container_benchmark` does. Containers run and end by
themselves. Any `az` command may fail: a `show` (any failing `az container show`
counts as absence), a `delete` with or without effect, a `create` before or after Azure
accepted it. `misreported` is the set of groups `az` last gave a wrong answer about.
`CreateRepeats` is an attempt of `_run_cmd` whose reply is lost: Azure acts, and the command is
sent again, so a group may be replaced while it already runs. The attempts of `show` and `delete`, which
change nothing when they are repeated, are one step. `Leftover` are the experiments whose
groups an earlier suite may have left, in any state.

**DatabricksCluster** — `databricks_service.py` together with the process that uses
it: provisioning, one notebook run per monitored call, the loop around the calls
(warmup calls, then up to `Ceiling` timed ones, ended by a streak of failures),
`terminate` in the finally block and `abandon`, the handler of `create_cluster`.
Every request may be refused, creation and submission may lose their reply, polls may
be answered with an error status, clusters may fail to start or die, and the process
may be killed. `abandoned` are the calls that raised without having seen their run
end, `faults` what has gone wrong with the cluster.

**SetupPipeline** — the whole of `setup_benchmarking_framework.py`: release number,
county cache, raw and conflated files of every region, the catalog, the
synthesized sizes, the Postgres tables chunk by chunk and the shapefile copy
component by component. `SetupFails` ends a setup at any step; what it has
stored remains. `NextDay` moves the date. Three places of the code warn and go on, and each is an
action: a region without a valid polygon to clone (`SkipRegion`; which regions have none, `invalid`, is
chosen when they are conflated), a table that would have no rows (`SkipTable`), and a component of the
shapefile that GDAL did not write (`SkipComponent`; `Optional` says which may be missing). What
an earlier setup stored in that place then stays.

**PublishedReleases** — what a setup is to those who read its data: a catalog of releases and
four copies (the three tables and the shapefile), without files, steps or failures. A release
that is published is later than all others; a copy is withdrawn or delivered when its turn comes, that is
when the copies before it are of the latest listed release, or it has nothing for them
(`lacking`). SetupPipeline implements it with
`CopyOf`: a table is a copy of a release when it has all rows of it and its index, the shapefile
when all its components are of one release (optional ones may be absent); otherwise the copy is unusable.

**Conflation** — the relation query and the merge as operators on sets. The initial
state chooses every way the buildings can lie: the regions they intersect, the
grid cell of their centroid, and the IoU of each pair.

**MetricsQuery** — the cost rows of one run, a component after the other in the order of the
code: the wait for ingestion, the attempts of a query and their backoff, the buckets a
usage is summed over, against a service that publishes a bucket at most `ServiceDelay` after
its end. The window is `start` to `end`, both anywhere in the buckets of the service; `timed` are the ticks of it
that the timed calls take, the others are warmup calls and what lies between calls. `traffic` is
what the container group and the Postgres server send in each tick, before and after the window too, so
that the bytes a row is priced by can be compared: the `blob` and `databricks` rows take the
process's own count of its timed calls, `aci` and `postgres` what the service measured.
A row has its seconds and its egress; ingress, storage, transactions, rates and the multiplication
with them are left out.

**BenchmarkSuite** — the composition. It extends Orchestrator with a process in every
container: `BeginRow` is the dispatch of `benchmark_runner.py` (a skipped experiment records an
empty row, an unknown id raises) with the monitored loop as one step, `DownloadTable` and
`UploadTable` the append to the shared table. Every step of the orchestrator or of Azure takes
the processes with it (`Step`): a group that starts to run starts its process, a group that is
deleted or replaced kills it wherever it is, a group whose create is repeated may start the process
anew, and a group reports exit code 0 only after its row is uploaded. Writers of run 0 are the containers of an earlier suite. `doubtful` is every group
`az` has ever been wrong about. The refinement `ImplementsStore` maps this to MetadataStore:
`pc` from the process, `launched` from the orchestrator's history. `BatchLeavesRow` says in terms
of the suite what MetadataStore promises of its batches.

**PhaseMetrics** — the notebooks on their shared cluster. A run goes through the cells in
their order: `LoadBuildings`, `AddSparkListener`, the stages of the timed `collect()`
(`EndJoinStage`), `ReadView`, `SumUp`; any cell may fail. `HandEvent` is Spark's listener bus:
one thread hands the oldest event to the listeners in the order they were added, each of which
adds it to its own list and publishes the list over what the listener before it published. The
client submits the next run when the last one has ended or was abandoned. `early` are the runs
that read the view while events were still queued, `shared` those that were active together,
`backlog` what was queued when a listener was added.

`MC<module>` gives the sets their values; `<module>Proofs` (for Databricks,
`DatabricksProofs`) holds the theorems. Those about BenchmarkSuite are in `OrchestratorProofs`, as they
rest on the invariants of the orchestrator.

## 3. The runs

Nine passing runs. Times are for two workers; everything not given a time ends within
half a minute.

| run | properties | instance and why it is large enough |
|---|---|---|
| Monitor | `LoopWithinLimits`, `StopReasonIsEarned`, `FailedAfterStreak`, `RowAccountsForSamples`, `CostsFollowRow`, `CostWindowReachesFloor`, `SamplesNeverOverwritten`, `CallOverLimitIsTold` | every kind, two runs sharing a `run_id`, 1 warmup, ceiling 3, streak limit 2, floor 5, caps of 6 (sequential) and 5 (fixed), calls of 1 or of the limit 4: floor and caps are reached before, at and beyond the ceiling, every stopping reason occurs, and a first run past the soft ceiling uses iteration numbers of the second; 215 000 states |
| MetadataStore | `OnlyPeersLoseRows`, `SomeRowOfBatchSurvives`, `SettledRowsStay` | batches of 1, 3 and 2 containers in any order, any of them possibly alive at the beginning: three peers (two may lose to the third) with predecessors and successors; peers are interchangeable |
| Orchestrator | `LaunchedOncePerRun`, `OneBatchInFlight`, `CleanedUp`, `SuccessIsOfThisRun`, `ImplementsSchedule`, `SuiteEnds` | a pair and a single experiment with a lower `runs`, two runs, a pool of two threads, groups of an earlier suite in any state, creates that are repeated; 351 000 states, half a minute. Under `FairSpec`, where a container may run for ever |
| BenchmarkSuite | `SuccessIsRecorded`, `BatchLeavesRow`, `ImplementsStore` | the same experiments in one run (two writers of an earlier and of this run meet for `knn`, the only experiment with a leftover group), one of the pair skipped, at most one group `az` is ever wrong about: enough to break the barrier between batches, and the property says when; 768 000 states, one minute |
| DatabricksCluster | `OnlyAbandonedRunsOverlap`, `NoOrphan`, `ReadyBeforeRun`, `TimedOnWarmCluster`, `EveryClusterTornDown`, `ProcessEnds` | one warmup, three timed calls, streak limit 2 (a streak may begin after a success), two libraries |
| PhaseMetrics | `MetricsAreOwn` | two runs, joins of two stages (the second run meets a listener, a view and late events of the first), at most one of them abandoned; 2.3 million states |
| SetupPipeline | `OneSetupPerRelease`, `CatalogListsCompleteReleases`, `CopiesAreOfCompleteReleases`, `FinishedSetupRenewsCopies`, `ListedStaysListed`, `ImplementsPublished` | two setups, of one day or of two, each failing anywhere: the second meets whatever the first left, half written or complete; two regions, each with or without something to clone, two files, chunks and components (the second optional) so that each loop can be left half way; 81 000 states. What a third setup would meet, tables of two earlier releases, is left to the theorems, which hold for any number of setups |
| Conflation | `FkbIsPreferred`, `LostBuildingsHavePartner`, `KeptBuildingsDoNotOverlap` | two buildings of each source (a chain needs three), two cells, two regions, IoUs of nothing, touching, below, at and above the threshold; 1.1 million states |
| MetricsQuery | `TypeOK`, `UsageCoversWindow`, `CountsReconcile` | the component sets of all entrypoints, a short and a long id, buckets of two ticks, windows of up to four ticks that begin and end at and inside a bucket, timed calls in any of their ticks, any traffic of 0 or 1 byte a tick, queries that begin before and after the ingestion delay, publication as late as the service is assumed to be; 8 million states, one minute |

The bounds that are only there to keep an instance finite are `MaxSetups`, `MaxDay`
(SetupPipeline), `MaxDoubtful` (BenchmarkSuite), `MaxAbandoned` (PhaseMetrics) and `MaxStart`,
`MaxEnd`, `MaxLag` (MetricsQuery); each is a guard on the environment, never on the program.

Runs that show where the code does something else than what the repository says
of it; each checks one property, with the documents it comes from quoted in
`findings`:

| run | property | what TLC shows |
|---|---|---|
| MetadataLostRow | `RowsArePersisted` | two peers read before either writes: one row is gone |
| CostsExcludeWarmup | `CostsExcludeWarmup` | `start_time` is taken before the warmup, so every cost row covers the warmup calls |
| MetricsLongName | `UsageIsOfTheBenchmark` | metrics of an experiment with a long id are asked of a group that does not exist |

Each has a passing companion that says what does hold: a row is lost *only* to
a peer and a batch never loses all its rows (`OnlyPeersLoseRows`, `SomeRowOfBatchSurvives`);
the bytes a run counts by itself are among those the service saw, and the excess is what was sent out of the
timed calls, up to a bucket beyond either end of the window (`CountsReconcile`); a usage covers the window of every group *whose name is not shortened*
(`UsageCoversWindow`).

### Smaller disagreements, seen while modelling

The code and a document also differ in these places; the models follow the code, and no
run is spent on them.

- `submit_to_existing_cluster` promises to block until the run has ended
  (`databricks_service_interface.py:42-43`); a poll that is answered with an error status
  ends the call and not its run. `OnlyAbandonedRunsOverlap` carries exactly this exception.
- Of buildings that touch or overlap by at most the threshold both are lost, where the
  interface promises one representative (`conflation_service_interface.py:14-16`).
  `LostBuildingsHavePartner` says how far this goes.
- The notebooks take their listener for single-use and its view for complete when
  `collect()` returns (`national_scale_spatial_join_partitioned.py:105-108`). Events are
  delivered later and beside the notebook, listeners are never removed, and the sums also hold
  stages of earlier work the bus was behind with. `MetricsAreOwn` carries these exceptions.
- `bytes_egress` is documented as bytes downloaded from blob storage; `monitor.py:464-465` passes
  what the container has *sent*.
- A timed call that overruns its limit and then *raises* does not stop the loop
  (`monitor.py:176-226`); README.md:232-233 says that any overrun does. `CallOverLimitIsTold` says what
remains true: the row of such a run never says that it ended as planned.
- A run stopped by a hard cap is recorded as `partial` if a single iteration failed
  (`monitor.py:411-417`); README.md:222-224 says `timeout`.
- `ensure_container` raises when a peer creates the container between its two requests
  (`blob_storage_service.py:21-26`); its interface promises that it exists afterwards.
- A create that failed after Azure accepted it, or a failing `az container show`, leaves a
  container running beside later batches (README.md:299-300) or a group behind
  (`main.py:26`). `OneBatchInFlight` and `CleanedUp` carry exactly this exception.
- A failing deletion in the handler of `create_cluster` leaves the cluster alive
  (`databricks_service_interface.py:28-29`). `NoOrphan` carries this exception.
- `create_release` looks at the latest release and the local date only
  (`release_service.py:62-67`): with setups in different time zones a release id can be given
  out twice. The model has one clock, that of the containers.
- A finished setup leaves Postgres with its own release, while DuckDB and Databricks read
  the one `Config` names until somebody edits it (README.md:95-97).

Deadlock checking is off in all runs: each of these programs is meant to come to
an end. For the orchestrator and the Databricks process, which wait for others, liveness properties say that
they do so, and when not.

### Fairness

Alternatives that are errors (`PollRaises`, `RunPollRaises`, `ClusterDies`, `Killed`,
`Die`) are outside the fair parts: they may but need not occur.

- `Orchestrator!Fairness`: weak fairness of the main thread and of each pool thread.
  Threads are scheduled by the operating system; a place in the pool is only given to a waiting thread and
  never taken away, so weak fairness is enough. Containers have no fairness: nothing bounds a
  measured call from outside, and `main.py:464` polls without a limit. `SuiteEnds` therefore says that the suite ends
  *or* some thread polls for ever a container that never ends.
- `DatabricksCluster!Fairness`: weak fairness of the process, of the start of
  a cluster, of library installation and of the end of each run. These are the
  cloud's own promises; the death of a cluster and of the process have no fairness.

`Monitor`, `MetadataStore`, `BenchmarkSuite`, `PhaseMetrics`, `SetupPipeline`, `Conflation` and
`MetricsQuery` are checked for safety only: nothing in them waits for anything but the
environment. Whether a measured call returns is up to the environment as well, so there is no property
that a benchmark run ends.

## 4. What is assumed about the world

- `az container create` replaces a group of the same name, or leaves the group as it is when the
  same command is repeated; a failing `az` command has had its effect or not.
- Polls that cannot connect are retried and change nothing: they are stuttering.
- A library status query reports all libraries or none.
- A Databricks run on a cluster that is gone fails.
- `to_postgis` commits chunk by chunk; pystac stores the catalogs of a release before the root.
- Setups do not overlap: the workflow waits until the previous setup's container
  is gone.
- A conflated region has a row, and a partition is uploaded only with rows in it. Where DuckDB refuses a pattern
  that no file matches, the setup fails, as it may at any step.
- Azure Monitor publishes a bucket at most `ServiceDelay` after its end, where `ServiceDelay +
  BucketLength <= IngestionDelay + 1` (`DelayAssumption`): the configured delay counts from the
  end of the window, which may lie at the start of its last bucket. A query gets every bucket its timespan
  reaches into, as a whole. Asked for a resource it does
  not know it returns nothing or an error.
- Spark posts the event of a stage before `collect()` returns, and hands events to the
  listeners one after the other in the order both were added.
- In BenchmarkSuite the storage container of the table exists; MetadataStore has its creation.
- A container's process lives as long as its group runs. A repeated `show` or `delete` is one command that has
  had its effect or not.

Definitions that rest on these rather than on code of the repository are marked
`external` in the `map` of `PROJECT.json`.

## 5. What is proved

All proofs are checked by TLAPS with Z3, Zenon and LS4. They hold for every
value of the constants that satisfies the named assumption of the module.

**MonitorProofs** (`MonitorAssumption`: limits are natural numbers, the ceiling and
the streak limit positive). `TypeCorrect`, `LimitsRespected`,
`StopReasonEarned`, `FloorReached`, `SamplesKept`, `OverLimitTold`, `CostsHaveTheirRow`, `RowsAccount`,
`StreakIsStored`. The inductive invariant adds to the types: what each phase says about the counters
(`PhaseInv`, `LoopInv`: the loop's reason was set by a limit that holds *now*, because no
counter moves between the decision and `Finish`), that a row was written with the counters of
its run (`RowInv`), and that every sample lies at the path of its own run and iteration
(`SampleInv`). `SamplesKept` needs the last one and the injectivity of
`SamplePath`: the iteration numbers of two runs do overlap, so uniqueness comes from
the run alone. `OverLimitTold` needs to know, at the moment of the decision, whether the call over the limit is
the present one, which returned, or an earlier one, which then must have been counted as failed.

`CostsHaveTheirRow` rests on `JoinInv`: a run in its cost phase has its row. `RowsAccount` and `StreakIsStored` rest on `OwnInv`,
which says that the samples of the present run are numbered without a gap, how many of them are
successes, and that the last `consecutive` of them failed; the count of a set that grows by
one new sample comes from the library's cardinality theorems.

**MetadataStoreProofs** (`StoreAssumption`: a batch for each writer).
`TypeCorrect`, `LossIsLocal`, `BatchSurvives`, `SettledForever`, for any number of
containers and batches in any order. The invariant says that only writers of launched batches
have begun (`LaunchedFirst`), that all writers at work are of one batch (`OneOpenBatch`), and that what a writer has downloaded
still agrees with the table about every other batch (`CopyUpToDate`).

**OrchestratorProofs** (`OrchestratorAssumption` and `BatchesAreGroups`).
`TypeCorrect`, `LaunchedOnce`, `SuccessIsOwn`, `OneBatchAtATime`,
`ClearingClears`, `Refinement`. `BatchesAreGroups` says that
`related_script_ids` form disjoint groups whose members name each other, none
itself, all with the same `runs`. `main.py` relies on this and does not check it; the 51
experiments of `benchmarks.yml` satisfy it (groups of up to 8, `runs` of 3 or 30).
The invariant relates `launched` to `remaining` and `completed`: an
experiment that is in the list and not completed has not been launched in
this run and neither has any member of its group. For `OneBatchInFlight` and `CleanedUp`
it says that a running container has a thread that polls it (`RunningInv`) and that a group
is still to be cleared (`ClearInv`), or is misreported; the theorems hold for every failure of every command, because the
exception is part of the property. `Refinement` maps `pending` to the experiments
neither completed nor in flight and `inFlight` to the batch of the main thread.

The second half of the module is about BenchmarkSuite: `SuccessRecorded`, `StoreRefinement`, `RowsSurvive` and
`SuiteRunsOrchestrator`, under the same two assumptions. Every step of the suite is one of the orchestrator
or leaves it alone (`SuiteRunsOrchestrator`), so its invariants hold here too. `OriginInv` adds of which
run the command is that a group executes: of the present one from the create of its thread on, and
of an earlier one before, unless a create was sent whose reply is lost (`Restarts`). `SuiteInv` then ties the three views of a container together: a process is alive only
while the group of its run runs, a group that ended with exit code 0 has a process that recorded
(`RecordedInv`), and what a thread counts as success is such a group. That is `SuccessIsRecorded`; without
the invariant a success could be the exit of a container that an earlier run left behind.

`StoreRefinement` maps the steps of the suite to those of MetadataStore. A launch of a batch is the step with
content: `LaunchMoves` shows that, as long as `az` was never wrong, everything launched before has ended, which
follows from `RunningInv` (with no thread at work no container runs) and `ProcessInv`. All other
steps of the main thread, the threads and Azure move at most one writer (`ProcessStep`): to its death
(`OneDies`) or not at all (`NobodyMoves`). `RowsSurvive` is the gain: MetadataStoreProofs is instantiated
with the same mapping (`StoreProofs`), and its inductive invariant, whose
initial case and step are theorems there, holds in the suite up to the first wrong answer of `az`.

**DatabricksProofs** (`DatabricksAssumption`). `TypeCorrect`, `RunsFindTheClusterReady`,
`ResultsAreWarm`, `CallsBlock`, `NothingIsOrphaned`. `StageInv` ties the
place of the process to the cluster and to the runs submitted so far; without it
neither the readiness nor the blocking property is inductive, as both speak
of a moment long after the step that establishes them. `WarmInv` says that every warmup
call behind the process has its result as long as calls are made. All hold whatever
Databricks does.

**ConflationProofs** (`ConflationAssumption`). `TypeCorrect`, `PairsKeepFkb`,
`LonelyBuildingsStay`, `NoOverlapsKept`, for any sets of buildings, regions and cells. The
invariant says that `ids` is the relation of the region at work and `small` the
merge of each region that is done; the theorems are then facts about the query, in `KeptBuildings`
and `RelationRows`.

**MetricsQueryProofs** (`MetricsAssumption`, `DelayAssumption`). `UsageIsWhole`, for any delays
in that relation, any traffic and any failures. The invariant `IInv` says that the service is on
time, that no request comes before `Ready`, and that a reply which is about to be saved is whole.
`TypeCorrect` and `Reconciled` rest on `RowInv`, which says what each row was priced by and that the
next component is one that is due. `Reconciled` compares three sums, over the ticks of the timed calls, of the
buckets the window reaches into, and of what is sent around it out of the timed calls, so it takes two
facts. One is about
buckets: every tick of the window is in one of them (`BucketOfTick`) and none of those reaches a whole bucket beyond
the window (`TicksOfWindow`), for any granularity and any place of the window. The other is that a sum over a
set grows with the set, and that the sum over a union is at most that of the parts (`SumsOfUnion`). The sum is
a recursive function on the subsets of a set, added up in an order the code does not fix. An induction
on subsets can be had where the property is given as a *set* (`SubsetInduction`, from the well-foundedness
of strict inclusion on finite sets): the function exists (`SumsExist`), any element may be the first
to be added (`AnyFirst`), so a larger set has a larger sum (`SumsGrow`).

**SetupPipelineProofs** (`SetupAssumption`). `TypeCorrect`, `ReleaseHasOneSetup`, `ListedIsComplete`,
`NothingIsUnlisted`, `CopiesAreComplete`, `FinishedIsWhole`: the types and the five properties of the run that are not a refinement, for any
number of counties, files, chunks and components, and any number of setups that fail anywhere. The last
row of `releases.parquet` is the greatest release (`ReleaseInv`), so that a setup gets one
nobody has written to (`OwnInv`). Behind each loop stands what it has finished: the regions
(`RegionInv`), the sizes (`SizeInv`), the tables and components (`CopyInv`), each with what the code may have passed over: `Kept` is a table
that is whole or that the release has no rows for. That no region of a table passed over has anything to clone
follows from the completeness of the larger sizes (`NothingToSeed`), and that a table which is seeded is not one of
those from `LargerInv`: a larger size has files only of regions with valid polygons. The root catalog in
memory is still the stored one when it is written back (`CatalogInv`), because setups do
not overlap. None of the properties is inductive without them: each speaks of a state many steps
after the ones that establish it, with failures in between.

`Refinement`: the pipeline implements PublishedReleases. A setup always works on the last row of
`releases.parquet` and lists it once (`LatestInv`), so what it copies is the latest listed release
(`CopyingIsLatest`) and that release is later than all others (`OthersAreEarlier`). What stands behind the loop over
sizes says that it is the turn of the copy (`TurnOfTable`, `TurnOfShapefile`), and a step on one table or one
component changes one copy at most (`OneTable`, `PublicStep`). `CopiesStayInOrder` is then proved on the abstract
side, with `OrderStep`: engines that are not at the same release after a failed setup are at releases in the order of the
steps, a copy never being newer than one renewed before it, unless its release has nothing for that one.

**PhaseMetricsProofs** (`PhaseAssumption`). `OwnMetrics`, for any number of runs, stages, abandoned
runs and listeners left behind. A run that never shared the cluster is alone on it (`AloneInv`), so its
listener is the last one and publishes over all others (`Listens`): whenever no event
is in progress and it has heard anything, the view is its own. Every stage of its join is
recorded or in the queue at a place that will still reach the listener; with the queue empty
all are recorded. The event in progress when the listener was added is the subtle case: it ends
with the view of another listener, which is why the invariant says that the new one has then heard nothing.

## 6. What is only model-checked

- Liveness (`SuiteEnds`, `ProcessEnds`, `EveryClusterTornDown`), which is out of
  the prover's reach.
- The three runs that end with a violation; a counterexample is its own proof.

Every invariant and action property of a passing run, and all three refinements, are theorems.

## 7. What is not modelled

- **Source extraction and geometry**: parsing and polygonizing, conversions without
  a state of their own.
- **Query entrypoints**: one query each. Which query runs makes no difference to any
  model.
- **CPU and RAM sampler** (`monitor_cpu_and_ram.py`): dead code, no entrypoint uses the decorator.
- **Rates and cost arithmetic**: `azure_pricing_service.py` and the products in
  `azure_cost_service.py`; MetricsQuery has the seconds and the egress of a row;
  its ingress, storage and transactions are left out with the rates.
- **Dependency container, configuration, paths, CI**: construction and constants; where
  the uniqueness of a path matters it is in `Monitor` and `SetupPipeline`.
- **Rows of the synthesized data sets**: clones and their displacement in
  `dataset_synthesis_service.py`; SetupPipeline has the files.
- **A setup beside a suite**: nothing keeps an operator from rebuilding a release while
  benchmarks read the tables and the shapefile copy; the models have each by itself.
- Inside modelled parts: wall-clock durations other than those limits are compared with,
  logging, log streaming, ETA, the confidence interval itself, HTTP payloads, geometries.

## 8. Plan

Order of work, most important behaviour first; all of this is done.

1. Monitor: rules of the loop and what is stored of it.
2. MetadataStore: concurrent appends.
3. BatchSchedule and Orchestrator: the abstract schedule and its implementation.
4. DatabricksCluster: life of the cluster and of the runs on it.
5. Conflation: what the data set holds.
6. SetupPipeline: how a release is built.
7. MetricsQuery: the window of a usage, and the cost rows.
8. PhaseMetrics: the stage metrics of the notebooks.
9. BenchmarkSuite: the orchestrator composed with the processes in its containers, from which the
   barrier between batches is derived that MetadataStore rests on.
10. Theorems for 1 to 8.
11. Theorems for BenchmarkSuite, from the invariants of OrchestratorProofs and MetadataStoreProofs, and about
    the sums of MetricsQuery; PublishedReleases and its implementation by SetupPipeline.

What could follow, in this order:

12. The orchestrator composed with several Databricks processes, to state the 200 vCPU quota of the
    workspace and what left-over clusters do to it.
13. Buildings that cross a county border: an abstract specification of the national data set and
    how far the conflation of single regions implements it.
14. A setup beside a suite, and what benchmarks read while copies are replaced.

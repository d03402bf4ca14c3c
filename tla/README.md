# Verification of adapter-cache-tradeoffs

TLA+ specifications of the benchmark harness in `src/`: what its planning, its
workloads, its routing policies, its runners, its sweeps, its prefix cache model
and its analyses do, step by step, what they promise, model checking of these
promises with TLC, and proofs of the most important ones with TLAPS.

Paths below are relative to `src/src/adapter_cache_bench/` unless they start
with `docs/`, `scripts/` or `tests/`.

## 1. The system

The program measures how LoRA adapters, prefix caches and routing policies
trade off. A *run* generates a workload, sends every request to a backend
through a routing policy, observes it with a simulated prefix cache and leaves a
run directory. A *sweep* executes many runs and can be resumed. Analyses read
the run directories.

| Component | State it keeps | Operations | Interacts with | What is hard |
|---|---|---|---|---|
| concurrent runner, `bench/run_concurrent.py` | tasks, semaphore, open row file, errors | worker, row loop, summary, verdict | session state, cache model, backend (awaits), run state | tasks interleave at awaits; failures and cancellation anywhere; verdict written in a `finally` |
| sequential runner, `bench/run_workload.py` | one request at a time | route, generate, row, summary, verdict | the same | the first error ends the run; rows, counters and load after an exception |
| run state, `bench/run_state.py` | counters, `status.json`, `manifest.json` | initialize, add_artifact, write_status | runners, sweep | files are written in place |
| session state, `routing/session_state.py` | adapter load, sticky adapter, warm set, tenants | remember, begin/end dispatch | policies (read), runners (write) | the load is read at one moment and lowered at another |
| vLLM backend, `backends/vllm_backend.py` | HTTP clients | generate, streaming or not | cache model before and after the await | other requests are observed during the await; 60 s timeout |
| sweep, `bench/sweep_state.py` | `sweep_status.json`, records | plan, budget, skip, run child, record, final status | runners through `run_child` and their files | kills between and inside writes; resume from what is on disk; colliding run directories |
| prefix table, `cache/prefix_table.py` | ordered blocks, counters | contains, add, evict | cache models | LRU order within one prompt, budget |
| cache models, `cache/*.py` | table, deltas, totals | estimate, observe | policies and backends | namespaces, isolation, hash chains, conditions; threads of `asyncio.to_thread` |
| mock backend, `backends/mock_backend.py` | none | generate | cache model, from threads | no lock around the shared cache model |
| routing policies, `routing/*.py` | session state, random generator | route | session state, cache model | penalties that add up against a quality prior, affinity, ties, fallbacks |
| server control, `backends/server_control.py` | none (a server process) | reset, wait, scrape | runners | old server still answering, deadline |
| overnight loop, `scripts/overnight_second_family_loop.sh` | markers, state file | phases with retries | training, servers, sweeps | resume by markers, retry of half-done phases, one port, what the exit trap makes of a signal |
| sweep expansion, `bench/run_*sweep.py`, `run_matrix.py` | none | expand a matrix to children | sweep | names and directories that collide, within a sweep and between sweeps |
| configuration, `config.py` | none | merge files over defaults | command line | a later file replaces or adds keys |
| command line, `cli.py` | none | run, report, bundle, doctor | all runners | the runner is inferred from keys; the doctor repeats the decisions of run in other code |
| metrics and analyses, `bench/metrics.py`, `bench/aggregate.py`, `analysis/` | data frames | summarise, frontier, regret, claims, bundle | run directories | runs that failed, were interrupted, killed or never had dimensions among the input |
| workload generation, `workloads/` | none | generate, build, validate | runners | regimes whose reuse rests on arithmetic of counts, documents and sessions |

What makes each of the modelled components correct is stated as properties of
its module (section 3). `PROJECT.json` lists every component with its status
and every hazard of the code at its line, with the properties that cover it.

## 2. The modules

| Module | Models |
|---|---|
| `RunLedger` | abstract: what a run directory promises, whichever runner wrote it |
| `RunDirectory` | what the two runners share: session state, the files of a run directory and the order of their writes |
| `ConcurrentRun` | the asyncio runner, with session state and vLLM client |
| `SequentialRun` | the sequential runner |
| `SweepState` | `execute_sweep` over run directories |
| `PrefixTable` | the LRU block table, as operators on a record |
| `PrefixCache` | the four cache models over `PrefixTable` |
| `ThreadedCache` | one cache model shared by threads, over `PrefixTable` |
| `Planning` | configuration files, expansion of matrices, `acb run` and `acb doctor` |
| `Workloads` | the twelve generators and their structure metrics |
| `Routing` | the policies and session state, over `Workloads` |
| `AnalysisTables` | frontier, regret, claim groups, paired deltas, benchmark_v0, as operators on rows |
| `Analysis` | attempts at run directories, and what is reported and bundled of them, over `AnalysisTables` |
| `OvernightLoop` | the overnight script with its training, its servers and its operator |
| `MC*` | TLC instances of these |
| `RunnerProofs` (both runners), `SweepProofs` (`Planning` and `SweepState`), `PrefixCacheProofs`, `ThreadedCacheProofs`, `RoutingProofs`, `AnalysisProofs`, `OvernightProofs` | theorems and proofs |
| `DataLemmas` | induction, sums, remainders, sorted lists and the operations of `PrefixTable`, for these proofs |

An operator named `X_Fault` is operator `X` with one plausible programming
error. No specification uses these operators; each property has been seen to
fail when one takes the place of the original, so that none is true by
construction.

### RunLedger

A request is settled at most once, with an answer or an error; the verdict is
given once and nothing is settled after it; the verdict "complete" needs an
answer to every request. An operator may abandon a run. Both runners are shown
to implement it, with the mapping "a request is settled when its row is in
`requests.jsonl`; the verdict is `status.json`, or *abandoned* once the operator
has pressed Ctrl-C".

### ConcurrentRun

An action is a stretch of a coroutine between two awaits. A worker goes
`created -> queued -> inflight -> responded -> returned`:

| Action | Code |
|---|---|
| `Arrive` | the worker starts, sleeps its spacing, asks for the semaphore |
| `Dispatch` | admission, `router.route`, `begin_dispatch`, the cache estimate and the sending of the request: no await separates them |
| `RouteFails` | the policy raises |
| `Respond` | the answer is there: `build_response` calls `observe_request` |
| `Return` | the HTTP client is closed; `end_dispatch`, permit back |
| `RequestFails` | any exception while the request is in flight or the client closes |
| `Cancel` | `asyncio.run` cancels what is left when the main coroutine is over |

The main coroutine goes `setup -> serving -> summary -> judge -> report ->
over`; `MainFails` and `Interrupt` can strike at each of these steps, and leave
half a `summary.json` if it is being written. Abstractions: the policy may
choose any adapter and the semaphore may admit any waiter, so what is shown
holds for every policy and needs no FIFO order; the cache model is the sequence
of observed requests (its inside is `PrefixCache`); `done` is the queue inside
`asyncio.as_completed`. Without streaming the client closes before the
observation and `Respond` and `Return` are one step; the model has the
streaming order, which allows every schedule of the other.

### SequentialRun

The same run directory, one request at a time; what has the name of something in
`ConcurrentRun` begins with `Sequential`, so that one module can prove about both.
`Generated`, `WriteRow` and `GenerateFails` are separate since
`completed_request_count` is raised before the row is written and an exception or
Ctrl-C may come in between.

### SweepState

`Invoke` is a start of the sweep with any options; `Skip`, `StartChild`,
`RecordComplete`, `RecordFailure`, `WriteFinal` are the loop. What a child does
to its directory (`Initialize`, `OpenRows`, `FinishRows`, `WriteChildSummary`,
`Judge`, `ChildFails`, `ChildInterrupted`) is the order of writes of the two
runners; a directory is the status, the rows and the summary, each with what a
reader could find: absent, old, partial, torn. `Killed` ends the process at any
step, with the file that was being written intact or torn. Dates, wording and
the counts of the summary file are left out.

### PrefixTable and PrefixCache

The table is a record with its blocks in LRU order. A hash chain is the sequence
of chunks it hashes, so `stable_hash` is assumed free of collisions. The only
action is `observe_request`; `estimate_cached_prefix_tokens` is an operator. A
token is opaque. The cold and disabled conditions, the salt, the three isolation
scopes, the budget and the copy-on-write deltas are modelled; the ratios computed
from the counters are not. `evict_if_needed` drops the shortest prefix of blocks
that makes room, which is what the loop in the code arrives at.

### ThreadedCache

Under the concurrent runner the mock backend runs in threads
(`asyncio.to_thread`), up to `max_concurrency` at a time, that share one
`CacheModel` with no lock. An action is what a thread does between two points
at which the interpreter may switch: one lookup, one insertion, the beginning
and the end of the sum that eviction is decided on, one assignment of the
condition that `copy_on_write` toggles. A sum is open while other threads change
the table; `OrderedDict` then raises if it has blocks left to visit. A prompt is
its sequence of blocks and the copy-on-write deltas, which nothing reads before
the run ends, are left out.

### Planning

A configuration is its fields that planning depends on, merged over the
defaults as `deep_merge` does, and its matrix, a function from keys to value
sets. `Run` is `acb run`: it infers the runner, expands the children with the
names and configurations the three expansions give them, checks the options and
the budget, and puts each child's run under its name, where an earlier run of
that name may be (`Execute`), or refuses (`Refuse`). `Doctor` makes the report of
`acb doctor` for the same files, with the three cloud checks answered by the
environment. The MC instance has the shapes of the shipped configuration files.
Files on which the expansion raises (an unknown strategy, a count of adapters
outside 1..5) or that list no value for a key are left out.

### Workloads and Routing

`Workloads` draws the requests one at a time: a shuffled list is a bag from
which any element may come next, so that every seed is covered. A request is
its task, session, tenant, document and layout, a prompt the sequence of its
segments with their sizes in words. `Routing` routes each request as the
sequential runner does: the policy sees the session state, the estimate of the
cache model against the prompts observed before, and a load, which is any of a
small set so that the concurrent runner is covered as well. Scores are integers,
thousandths of the code's floats. `random` may choose any adapter.

### AnalysisTables and Analysis

`Analysis` has the directories of a suite of runs: which files are there, what
the manifest says, whether the summary is whole. `Begin` to `RecordDimensions` is
an attempt of either runner and of the sweep around it, in the order of their
writes (`ConcurrentRun`, `SequentialRun` and `SweepState` have these steps one
by one); `Interrupt` and `Kill` end it anywhere. The readers take whatever is
there at any moment: `load_summaries` makes the rows from which `AnalysisTables`
computes the tables, `BuildBundle` the evidence bundle. A mean is a sum and a
count, compared by cross-multiplication. Legacy directories, with only a
summary, are among the runs.

### OvernightLoop

`Plan` is the list of phases. For each the script goes `phases -> attempts ->
command -> succeeded -> phases`: `EnterPhase`, `NextAttempt`, the command,
`TouchMarker`; or `SkipDone`, `DryRun` or `SkipTraining`, and `GiveUp` when the
attempts are spent. The marker comes after the command, and everything may end in
between. A marker is an empty file; its value in the model says what made it, which
only properties may ask. Training makes a directory and then saves into it
(`BeginSave`, `EndSave`), while the script tests for directories only; the sweep of a
family succeeds only against a server with the adapters of that family.
`RestartServer` is `docker rm` of the container with the family's own name and
`docker run`, which docker refuses while the other family's container publishes the
port. The containers live on when the script ends (`ServerIsUp`, `ServerEnds`).

`CommandFails`, `ScriptError`, `Interrupt` and `Kill` may strike at any step.
`Interrupt` is a signal to the process group: the exit trap runs and takes `$?` of
the last *finished* command for the exit status. `Kill` runs no trap and may tear
`state.json`. The operator starts the loop again over the same directory with any
options (`Invoke`) and may delete a marker (`DeleteMarker`). The event log, the
summary page and the commands hung on the end are left out; checks, reports and the
commit are commands with an exit status.

## 3. The runs

| Run | Instance | Distinct states | Shows |
|---|---|---|---|
| `concurrent_run` | 3 requests, 2 sessions, 2 adapters, 2 permits | 850 984 | `LoadIsLive`, `PermitsConserved`, `ResultsDeliveredOnce`, `ResponsesAreObserved`, `VerdictSound`, `RoutedAtDispatch`, `RunEnds`, `ImplementsLedger` |
| `concurrent_serial` | 3 requests, `max_concurrency` 0 | 158 276 | `SerialEstimatesExact` |
| `sequential_run` | 4 requests, 2 adapters | 240 | `RoutedUnloaded`, `CountersMatchRows`, `SequentialRunEnds`, `SequentialImplementsLedger` |
| `sweep_state` | 3 children in 2 directories, 3 invocations | 609 710 | `SkippedIsFinished`, `SweepVerdictSound`, `AttemptIsOnRecord`, `AttemptsCountOn`, `FinishedIsKept`, `InvocationEnds` |
| `sweep_interrupted` | the same | | `InterruptedIsRecovered` is **violated** |
| `prefix_cache` | 3 observations of 7 requests, 16 configurations | 7 200 | `BudgetRespected`, `EstimateMatchesHistory`, `FootprintAccounted`, `LastPromptReusable` |
| `planning` | 2 commands over 10 files in the shapes of the shipped ones and 2 overlays | 28 489 | `NamesIdentifyRuns`, `DirectoryHoldsName`, `DoctorForeseesRun`, `EveryValueIsRun` |
| `routing` | 5 requests, 12 generators, 2 documents, sessions and tenants | 457 551 | `RegimeStructure`, `DecisionsAreServed`, `StickyIsSemantic`, `UntrainedOnlyForCache` |
| `threaded_cache` | 3 requests, at most 2 at a time, 24 configurations, 2 mixes of prompts | 1 091 261 | `BudgetOverrunExplained`, `ReuseIsEarned` |
| `analysis` | 5 suites of up to 3 runs, 3 possible metrics | 924 014 | `ParetoIsFrontier`, `RegretIsSound`, `DeltasArePaired`, `EvidenceIsBacked` |
| `analysis_frozen` | the same | | `FrozenSuiteIsSummarised` is **violated** |
| `overnight` | 2 adapters to a family, 1 attempt (servers and sweeps 2), 2 invocations, 1 marker deleted | 2 149 947 | `CompleteIsEarned`, `FailureHasCause`, `OwnServerAnswers` |

The type invariants of `ConcurrentRun`, `SequentialRun`, `SweepState`, `PrefixCache`,
`ThreadedCache` and `OvernightLoop` are proved for every value of the constants and
take no part in the runs; nor does `FirstErrorEndsRun`. The other modules have none:
their variables are records whose fields the properties read anyway.

Why the bounds are enough. *Three requests, two permits*: one waits while two
are in flight, two can be on one adapter or on two, and one can fail, be
cancelled or finish while another is in any phase; what is proved (section 4)
holds for all numbers. *Four sequential requests*: the loop is the same after
each. *Three invocations*: one leaves a finished directory, one breaks it or is
killed over it, one resumes; the second and the third child make a middle and a
last place in the loop, and the third shares the first one's directory. *Three
observations*: two prompts fill a budget of two blocks and one token, the third
evicts; the seven requests differ in one of adapter, tenant, trust group,
marker, first chunk, and the place of the marker in its chunk, and one has no
marker and does not fit the budget.

*Two commands*: a report and the run it foresees, or a run and the run that
comes upon its directories. *Five requests*: one round
of the four tasks and the first one again; two documents and two sessions make both
repetitions and changes, and the churn regime raises the documents to five by itself. A
zipfian request draws its document with its session (`MCZipfianDocs`). That a block of
tasks is used up and refilled, after 11 or 22 requests, is proved only. The weights are the
defaults of the code; the load, none or 16 requests on one adapter, is the largest
that the shipped concurrencies allow.
*Three threads of requests*: two overlap while the third finds what they left;
a budget of two tokens is filled by either prompt, and the second prompt evicts
two blocks at once. *Three runs*: a pair and a run without partner, or a regime
of two policies and another regime; a sweep of the same combination twice; a
single run and a legacy run beside sweep children. Larger suites than two runs
are not bundled (`MaxBundledRuns`), since a bundle looks at each run alone.
*Two invocations* of the overnight loop: one that is broken anywhere, or complete,
and one that resumes it or replays a phase of it; two adapters, one of which is
trained before the other. The proofs of its three properties are for any numbers.

`CHECK_DEADLOCK FALSE` is set where the bounded environment stops:
`SweepState` after the last invocation, `PrefixCache` after the last
observation, `Planning` after the last command, `Routing` after the last request,
`ThreadedCache` when every request is over and `OvernightLoop` after the last
invocation. The runners have an explicit
`Ended` step.

### What the violations show

**`sweep_interrupted`.** Both runners write their verdict in a `finally` clause, as "complete" unless an
`Exception` was caught. Ctrl-C is none. If the run directory holds a
`summary.json`, of an earlier attempt or half written, all required artifacts
exist and `--resume` skips the child with its partial rows, while
`docs/overnight_second_family.md:91-93` says that interrupted child runs are
recovered. Without any `summary.json` the child is run again. The other
properties about resuming are stated with the exception this makes necessary
(`cut`, the last attempt was interrupted), and hold.

**`analysis_frozen`.** `benchmark_v0.py:61` takes seed and timestamp from the end
of a run_id. The children of a matrix sweep run under their names and have no
timestamp, so the CSV that `docs/benchmark_quality_plan.md:30-31` makes of
`make benchmark-v0-mock` finds none of them and reports every combination as
missing. The test of the summary writes run_ids with a suffix of its own.

### Other observations

What follows the model shows and no run asserts. In planning: `infer_runner`
sends `routers` beside keys of the exhaustive sweep to the exhaustive sweep,
which has no such dimension (the exception in `EveryValueIsRun`); the doctor
skips its cloud checks for a mock backend, lets an unlisted quota pass, and
accepts budget options for single runs that `run` refuses. Within one sweep names
identify runs (`NamesIdentifyRuns`), but for models whose names end in the same
part; between sweeps they do not: a child's name is made of workload, router, cache,
condition and seed without the configuration's `run_name` (`run_matrix.py:39`), every
shipped matrix writes to `artifacts/runs`. What a directory holds is always a run with
the values that its name tells (`DirectoryHoldsName`), but fields that no name holds
may be those of another sweep, request counts or memory budgets for instance:
`memory_pressure.yaml` and `repeated.yaml`, which `make reproduce-mock` runs one after the other, share two
seeds, so that the second overwrites runs of the first, or with `--resume` skips its
own because of them. In routing:
`cache_aware` may pass over the multitask adapter for a specialist of another
task, and a load of seventy on the right specialist could make it choose a wrong one
(the penalty for switching, 100, and the larger of those for isolation and for a cold
adapter, 250, are in the way of 420 points of quality; shipped concurrencies stay at
sixteen or below); `semantic` falls back to
the first adapter even where multitask is served; one request of an unknown task
keeps a sticky session on multitask for good; `agent_session` needs at least one
session and `shared_doc_qa` one document. In threads: cold `copy_on_write`
requests that overlap may report cached tokens, since one begins while another has set
the shared condition to "warm" for its own observation, or saves that "warm" and
restores it last, while `docs/regime_science.md:71-73` says that there is no
inter-request reuse in this condition (without its exception `ReuseIsEarned` fails; the
regime suite, for which the page is written, runs one request at a time and is not
affected); `cached_tokens` may raise; the prompt-token total may lose an update.
In the analysis: the regret of a policy is against the best observed one, as the
formula in `docs/regime_science.md:84` has it, also where an oracle policy is
present, which line 88 can be read as making the reference (the code labels the
baseline "oracle" only if the oracle is the best); two model families are observed
where two aliases stand in manifests of model-family runs with a summary, and
nothing looks at the "complete adapter name mappings" that
`docs/overnight_second_family.md:98-99` speaks of; the dimensions of failed children are recorded, so that the
partial summaries of failed concurrent runs are paired (`sweep_state.py:387`); a
kill between a child's verdict and its dimensions leaves a complete run which
`--resume` skips and no table pairs; half a `summary.json` stops every report; a
bundle looks at the presence of `status.json`, not at what it says; the bundle
patterns of `Makefile:3` with `benchmark-v0-*` match no child of that matrix.

Of the overnight loop. A signal (Ctrl-C, SIGTERM, a hangup) runs the exit trap with
`$?` of the last finished command, nearly always 0, and `FINAL_STATUS` still
"running": `state.json` then says that phase and status are "complete", and
`ON_SUCCESS_COMMAND` is executed, at whatever phase the night was
(`overnight_second_family_loop.sh:353-369`). This is what running the script does,
not only the model; `CompleteIsEarned` leaves it out by `signalled`, and without that
exception it fails in the first phase. Where nothing else goes wrong, a night that serves both
families fails at `serve_qwen_family`: the two containers have different names and
the same port, and no phase removes the first (`FailureHasCause`), while
`docs/overnight_second_family.md:31-32` lists both servings as the default plan. When
the markers of a serving and of its sweep are deleted, but not that of the wait
between them, the sweep meets a server that is not up yet; the run has one deletion,
and with two (14 million states) the property failed until this was among its causes,
as the proof demands too. To
replay a sweep by deleting its marker
(`docs/overnight_second_family.md:83-88`) works only while its server is up, since
serving is skipped by its own marker. Deleting a training marker retrains nothing
while the directories exist; a killed save leaves a directory that counts as an
adapter, which vLLM refuses later. A dry run over the directory of a real night
leaves markers with which the real run executes nothing.

Of the runners and the cache model: `RouterConfig.beta` has no effect in the
sequential runner (`RoutedUnloaded`); `copy_on_write` may report more memory
than `max_memory_tokens`, by its deltas; `activated_lora` may find the part of a
prompt after the marker stored under another beginning, since its namespace
starts at the root.

### Fairness

`ConcurrentRun`: weak fairness of each worker and of the main coroutine. The
event loop runs every ready task; a permit that is free is given to a waiter; a
request in flight is answered or fails, because every client has a timeout of
60 s; the main coroutine has nothing else to wait for. No fairness on
`Interrupt` or `MainFails`, which need not happen. `SequentialRun`: weak
fairness of the next step, for the same reasons. `SweepState`: weak fairness of
the loop and of the steps of a child, which both runners justify by ending
(`RunEnds`); none on starting a sweep and none on failures or kills. The runner
models let the policy choose any adapter, as every policy chooses one for a
non-empty adapter list. The other modules state safety only: their programs are
straight-line code between inputs, and that threads end is `RunEnds`.

## 4. The proofs

For every value of the constants under the named assumptions, which TLC evaluates on
every run: finite workloads, `SessionOf` total, `max_concurrency` a natural number, "no
adapter" is no adapter; a natural number of sequential requests; a natural number of
children and of invocations, with a run directory for each child; cache configurations
and requests of the kinds the code accepts, with finite prompts; the same for the threads
of a shared cache, none of whose prompts is empty, and where blocks with one key begin
with the same blocks (`KeysAssumption`: `stable_hash` has no collisions); configuration
files with known strategies, 1 to 5 adapters and no empty list
(`StrategiesAssumption`, `AdapterCountsAssumption`, `ListsAssumption`), and budget options
that are natural numbers or not given; a natural number of
requests, rows and documents, known workload names, a non-empty adapter list, natural
weights, loads and block size; finite suites with metrics that are natural numbers, and
a cache condition that every sweep child records as it was configured
(`ConditionAssumption`: `bench/run_matrix.py:47-48`,
`bench/run_concurrency_sweep.py:98-99`); at least one adapter to a family, and natural
numbers of attempts, invocations and replays. One theorem has a hypothesis: that the
penalties do not add up to the gap between the quality priors (`PriorsPrevail`), which
the defaults of the code satisfy and `MCRouting` assumes, so that TLC evaluates it.

| Module | Theorem | Says |
|---|---|---|
| `RunnerProofs` | `TypeCorrect` | `Spec => []TypeOK` |
| | `LoadAlwaysLive` | `Spec => []LoadIsLive` |
| | `AdmissionIsBounded` | `Spec => []PermitsConserved` |
| | `RoutingIsAtDispatch` | `Spec => RoutedAtDispatch` |
| | `ResultsAreDeliveredOnce` | `Spec => []ResultsDeliveredOnce` |
| | `VerdictIsSound` | `Spec => []VerdictSound` |
| | `RunnerImplementsLedger` | `Spec => ImplementsLedger` |
| | `ResponsesAlwaysObserved` | `Spec => []ResponsesAreObserved` |
| | `SerialEstimatesAreExact` | `Spec => []SerialEstimatesExact` |
| | `SequentialTypeCorrect`, `AlwaysRoutedUnloaded`, `ErrorEndsRun`, `CountersAlwaysMatchRows`, `SequentialRunImplementsLedger` | the same for the sequential runner (`SequentialSpec`), and that its counters are those of its rows |
| `SweepProofs` | `TypeCorrect`, `SkippedHasFinished`, `SweepVerdictIsSound`, `RunningAttemptIsOnRecord`, `AttemptsAreCountedOn`, `FinishedRunIsKept` | every safety property of the sweep |
| | `NamesAreSound` | `PlanSpec => []NamesIdentifyRuns` |
| | `NamesTellWhatRan` | `PlanSpec => []DirectoryHoldsName` |
| | `DoctorIsSound` | `PlanSpec => []DoctorForeseesRun` |
| | `EveryValueHasRun` | `PlanSpec => []EveryValueIsRun` |
| `PrefixCacheProofs` | `TypeCorrect` | `Spec => []TypeOK` |
| | `StoresWithinBudget` | `Spec => []BudgetRespected` |
| | `CountersAddUp` | `Spec => []FootprintAccounted` |
| | `LastIsReusable` | `Spec => []LastPromptReusable` |
| | `EstimateIsHistory` | `Spec => []EstimateMatchesHistory` |
| `ThreadedCacheProofs` | `ThreadedCacheTypes` | `Spec => []TypeInv` |
| | `BudgetOverrunIsExplained` | `Spec => []BudgetOverrunExplained` |
| | `ReuseIsAlwaysEarned` | `Spec => []ReuseIsEarned` |
| `RoutingProofs` | `EveryDecisionIsServed` | `Spec => []DecisionsAreServed` |
| | `StickyFollowsSemantic` | `Spec => []StickyIsSemantic` |
| | `UntrainedOnlyWhereCached` | `PriorsPrevail => (Spec => []UntrainedOnlyForCache)` |
| | `RegimesHaveStructure` | `Spec => []RegimeStructure` |
| `AnalysisProofs` | `EvidenceIsAlwaysBacked` | `Spec => []EvidenceIsBacked` |
| | `DeltasAreAlwaysPaired` | `Spec => []DeltasArePaired` |
| | `RegretIsAlwaysSound` | `Spec => []RegretIsSound` |
| | `ParetoIsAlwaysFrontier` | `Spec => []ParetoIsFrontier` |
| `OvernightProofs` | `CompleteIsAlwaysEarned` | `Spec => []CompleteIsEarned` |
| | `OwnServerAlwaysAnswers` | `Spec => OwnServerAnswers` |
| | `FailureAlwaysHasCause` | `Spec => []FailureHasCause` |

*Induction.* The library's induction theorems take an operator, so `DataLemmas`
has the least element of a set of naturals (from the well-foundedness of `<`) and
induction over a *set* of naturals from it. A fold of the community modules is a
recursive function under a CHOOSE; `SetRecursion` and `FoldLeftRecursion` show that such
a function exists for every step given as a function, so that the fold is a run of
its steps (`FoldLeftRun`) or a sum (`IsSum`), about which the ordinary inductions
speak.

*Asyncio runner.* The type invariant is not inductive: a worker that leaves adds
a permit, and only `PermitsConserved` bounds that. `AdmissionInv` joins the type
invariant, the permit equation, the load equation and the fact that a request in
flight has a decision; the last one ties the counter that `end_dispatch` lowers
to the one `begin_dispatch` raised. Two lemmas, one for entering and one for
leaving flight, do the counting with the library's facts on cardinalities. On top
of it the ledger proof keeps the results (rows, then finished tasks) a sequence
without repetitions of exactly the workers that returned, and the verdict only
after all of them. For the cache model, a request has been observed exactly from
its `responded` phase on (`ObservedInv`); with one permit the permit equation
leaves no second request in flight, so that the estimate of the one that is was
made against everything observed so far (`SerialInv`).

*Sequential runner.* The rows written before the loop ends are all answers, as
many as were counted. For the counters, a row adds one to the rows of its outcome
and none to the others (a counting lemma), only a request between its count and
its row makes a difference of one, and only one of the counters can be ahead.

*Sweep.* `SweepInv` says of the files that a "complete" verdict lies over a
finished or interrupted attempt, of the records that those before the loop's
child are settled and those after it pending, of the loop that while nothing
failed every directory it passed is finished unless the present child has it
open again (two children may share one), and of the status file that it names
the running attempt and holds a verdict only when the sweep is over. That the
verdict of an old attempt is overwritten before its rows are is the key step.
For `AttemptsCountOn`, `CountInv` says that while a sweep runs the status file on disk
has a record for every child, with the attempts that are in memory.

*Planning.* The properties relate what was done at different times, so `PlanInv` says of
each report, outcome and finished sweep which runs were planned for its command line;
it is kept because planning depends on nothing but the files (`SweepsArePlanned`), save
for the time in the name of a single run. The rest is about the expansions. A name holds
the whole point of a matrix, with three exceptions: the condition is left out where there
is only one (`MatrixNames`), another count of adapters gives another length of their list
or, for base and multitask, no difference (`CountOfIds`, `ExhaustiveNames`), and two models
may share an alias. Each value of a dimension is that of some point, whatever the others
hold, since none is empty, and neither strategy nor choice of adapters undoes it
(`ExhaustiveFields`). For `DirectoryHoldsName` it is shown of each expansion that a
name determines the fields it tells (`MatrixFields`, `ConcurrencyFields`,
`ExhaustiveNamedFields`), so that it does not matter which child of which file ran last
(`StoreInv`). A clean report has checked budget and served adapters of the same
children (`CleanReport`).

*Prefix cache.* What the table does to a request's blocks is a fold for the lookup, one
for the deltas and one for the insertions with their evictions; lemmas about the runs
of these folds say which keys are there afterwards, how much the footprint grows and
that what was just added outlives the evictions when the prompt fits the budget.
`CacheInv` has what these steps keep: the totals, the table within its budget, no
more tokens stored than were not reused, with no budget exactly these, and the keys of
the table among those of the observed requests (all of them, if nothing is evicted).
A hash chain determines its prefix, so that the keys that are found are a common
prefix with an earlier request of the namespace: this is `EstimateMatchesHistory`.

*Threads over one cache.* `StepIsTaken` says once what a step may do to the thread that
takes it and that it leaves the others' locals alone; each part of the invariants is then
kept by it. For the budget (`BudgetInv`): more tokens than the budget are in the table
only while some thread has yet to evict from this very table with a sum no smaller than
what is there, or has failed, and only overlapping requests disturb an iteration
(`AdmissionInv`, which counts them against the semaphore). For the reuse (`ReuseInv`): what a request found is
a common prefix with a request that stores or has stored (`OriginInv`, `EarnedInv`: a key
hashes all before it); with no budget and a warm cache, what one stored stays and the
totals lose no hit (`KeptInv`); a cold cache gives none unless another request toggled the
condition (`ConditionInv`); the unlocked `+=` on the totals may lose additions but adds
nothing twice, and one request at a time loses none (`CountInv`, `TotalInv`, `AloneInv`).

*Routing.* Each policy's fallbacks end in an adapter of the configuration, and a
session remembers an adapter only when it was decided on (`AffinityInv`): so the
affinity of `sticky_session` is served too. Where the four specialists are
served, the quality priors leave exactly two adapters that are compatible with a
task, the specialist and multitask; a session is on multitask exactly if a
request of an unknown task came before, which is the inductive form of
`StickyIsSemantic`. For `UntrainedOnlyForCache`, the penalties of one adapter are bounded
(a cold adapter is in nobody's isolation group, so that `delta` and `epsilon` never add
up) and an adapter's score then exceeds the specialist's only by its cached tokens;
for `oracle` no cache can make up for the 300 thousandths of quality between them, since
it counts for 200 at most: what is cached is no longer than the prompt (sums over its
segments, `TokenRun`).

*Regimes.* `RegimeInv` has an invariant for each regime, over any count of requests.
Uniform: what is left of a shuffled list and what the requests have of it make up the
whole list; at the end as many requests as numbers below the count are divided into the
same parts, none of them larger, so that all are equal (`PartsAgree`), and remainders are
even to one by an injection from one to the other. Zipfian and phases: what is left of
the last block and what the requests have of it and of those before make up whole
blocks, and the midpoint begins a block of another kind (`InBlocks`). Bursts: the session changes at most
once with each burst, and each but the last takes at least the shortest length of the
requests so far. Churn: the positions modulo 4, documents and sessions; fewer steps
than the modulus do not come back (`NoReturn`).

*Analysis.* A manifest with dimensions is written only after a verdict and erased
by the next attempt; a "complete" verdict comes after a row of an answer and a
summary, unless the attempt was interrupted, and then there are no dimensions
(`AttemptInv`); a complete bundle has seen every file, and no step removes one
again (`BundleInv`). From `AttemptInv` the tables follow without an induction over the
steps, for any set of rows: groups add up to the rows they are made of
(`GroupsAddUp`) and every group has its mean, a fraction of which a regime has a largest
one, so that the best policy exists and only it has no regret; a row without partner is
in no delta. The sort of the frontier is a CHOOSE of a sorted sequence (the community
modules' sort cannot be expanded by the prover); one exists (`SortedExists`), and an
induction along it says that the last row kept has the best quality so far.

*Overnight loop.* Nothing that a night is called complete for is known to the process
that says so: it was another invocation that swept. `EffectInv` says what the disk
and docker carry from one to the next: a verified or served family has its
directories, a server that answers and a finished sweep have had whole adapters, the
marker of a sweep is that of a finished one. It holds because training, the only
thing that breaks an adapter, begins only when a directory is missing, and then
there can be no server and no sweep (`TrainingStep`). `LoopInv` says that the phases
before the present one have markers, `FileInv` that `state.json` is complete only
after the end and that no adapter changes until the next start. For the servers,
`ServerInv` adds that the port is published once and that a served family has a server
unless its container ended. For the failures, `QuietInv` says that where nothing fails
by itself an adapter is whole or being saved, `ReplayInv` how many markers the operator
must have deleted for a server not to be where the markers say, and `CauseInv` keeps the
cause of a failed attempt until the loop gives up.

*Only model-checked.* Liveness (`RunEnds`, `SequentialRunEnds`, `InvocationEnds`) is out
of the prover's reach. Every safety invariant and action property that a passing run
checks is proved.

## 5. Not modelled

The wording of prompts, scoring of answers, HTTP payloads, printing and drawing:
formatting on which no property depends. Latencies, percentiles and confidence
intervals: arithmetic on floats that changes no state. Of the analyses, the
leader and mean tables, the SLO sweep and the capacity frontier are one pass over
the rows that `Analysis` has; how they are read is modelled, what is averaged is
not. The data set builders are batch text processing, and of training only the
directories it leaves matter; the physical AI analogue is an illustration that the
benchmark does not use. The transformers backend calls an external library one
request at a time, with the calls of the cache model that the mock backend has.
Server control is three calls of an external server, whose behaviour nothing in
`src/` defines. `PROJECT.json` gives the status and the reason for each
component.

## 6. Plan

1. `ServerControl`: reset and health polling of a runner while the old server still
   answers, with the containers of `OvernightLoop` as the servers.
2. Composition: `Routing` inside `ConcurrentRun` instead of "any adapter" with any
   load, so that `UntrainedOnlyForCache` rests on the real loads; `SweepState`
   with the names of `Planning` for its shared directories.

# Calane, the LLM pipeline kernel: TLA+ models and proofs

Calane runs *pipelines*: a pipeline is a set of *channels* (a prompt sent to a
provider, its answer parsed and validated), optionally ordered by `dependsOn`,
followed by a *synthesis* channel, and all of it repeated for a bounded number
of recursion depths. Policies can skip channels and stop a run, a run can be
aborted, resumed, replayed, exported as a bundle and shared between instances.

This directory models what decides what is executed, in which order, how often,
and what is reported about it; what runs leave on disk and how that is changed,
exported, fetched and verified; and the services around it: callbacks, access
tokens, MCP sessions, the REST, A2A and MCP surfaces, the provider adapters, the
analysis of stored runs, the selection of a model. It checks the models with TLC
and proves, with TLAPS, all of its safety properties but one (`DiffExplains`) for
every value of the constants. Paths below are relative to `src/packages/` unless
they begin with `docs/`; `PROJECT.json` maps every definition to the lines it
models.

- [Inventory](#inventory)
- [The modules](#the-modules)
- [The runs](#the-runs)
- [The proofs](#the-proofs)
- [Where the code and its documentation differ](#where-the-code-and-its-documentation-differ)
- [What is not modelled](#what-is-not-modelled)
- [Plan](#plan)

## Inventory

| component | state | operations | talks to | what is hard | what makes it correct |
| --- | --- | --- | --- | --- | --- |
| Channel executor (`core/src/executor/ChannelExecutor.ts`, `core/src/validation/JsonSchemaValidator.ts`) | retry and repair counters, the answer in hand, the attempt log, the result being filled in | `executeChannel`, `runWithRepair`, `callAndValidate` | provider adapter, validator, result store | two nested loops driven by what others answer; a failure between any two awaits | bounded provider calls, repairs only where allowed, the result and the stored raw text are those of the last call, it settles |
| Pipeline executor (`core/src/executor/PipelineExecutor.ts`, `RecursionPolicy.ts`) | depth, level, halted flag, abort controller, per-depth results, two kinds of limiters, `RunResult` | `run`, `runGated`, `runOne`, `resume` | registry, channel executor, policies, store, telemetry | units settle in any order, aborts at any moment, `Promise.all` rejects while siblings go on, policies of several kinds, recursion and carried results | dependency order, caps, at most once per depth, nothing starts after a stop, nothing lost, a result order and a verdict that follow from what happened |
| Execution plan (`core/src/executor/ExecutionPlan.ts`) | indegree map, remaining set, levels | `buildExecutionPlan`, `topoLevels` | pipeline executor, resume, replay | malformed graphs: cycles, repeated ids, repeated entries | every dependency on an earlier level, nothing dropped, it ends |
| Pipeline validator (`core/src/validation/PipelineValidator.ts`) | indegree map, work queue | `validatePipeline`, `detectGraphIssues` | CLI, servers, MCP | a second implementation of the same algorithm | agrees with the planner |
| Enforcement policies (`core/src/policies/CostBudgetPolicy.ts`, `core/src/plugins/PolicyPlugin.ts`) | configuration only | `beforeChannel`, `afterChannel` | pipeline executor | cost is known afterwards; depths, carried results, failures without usage | overshoot by one unit at most, halted once reached |
| Resume (`PipelineExecutor.resume`) | prior run, hash mismatches | `resume` | store, registry, `run` | the pipeline is resolved twice; results of several depths | only unchanged definitions, only what succeeded is carried |
| Result stores (`stores/filesystem`, `stores/sqlite`) | runs, raw outputs, projections | `saveRun`, `getRun`, `listRuns`, `saveRawOutput`, `getRawOutput` | executor, replayer, exporter, servers | writes in place, readers in between, keys shared between depths | a reader sees an old run or a new one; a reference leads to its text |
| Replayer (`core/src/replay/Replayer.ts`) | none of its own | `replay` | executor, registry, store, diff | run saved twice, definition drift | refuses drift, marks the run as a replay |
| Delegated-agent callbacks (`core/src/security`, `server/src/routes.ts`) | secrets per run, seen nonces | `put`, `get`, `markNonceSeen`, the callback route | executor, REST server | read-modify-write of one file, memory lost at a restart | no secret lost, a callback handled once |
| Federation (`core/src/federation`) | trust list, foreign runs, spec cache | `fetchRun`, `save`, `resolvePipeline` | remote instances, file system | crashes between files, overlapping fetches | what provenance vouches for is complete |
| Prompt registries (`registries/filesystem`, `registries/git`) | a checkout, a memoized promise | `resolvePipeline`, `loadPrompt`, `loadSchema`, `prepare` | git, file system | two refs share a checkout; a failed clone is remembered | reads come from the ref that was asked for |
| Provider adapters (`providers/*`) | a timer, a retry count | `execute` | HTTP APIs | 429 backoff against timeout and abort | it settles, within its limits |
| Bundles and signing (`core/src/bundle`, `core/src/signing`, `core/src/refs`) | files of a bundle, the key pair | `export`, `verifyBundle`, `ensure` | store, file system | export over an earlier export, several depths under one name | the bundle is what the run was |
| OIDC (`server/src/oidc.ts`, `mcp-server/src/oidc.ts`) | key cache | `getKey`, `refresh` | key server | overlapping refreshes | a known key stays known |
| MCP server (`mcp-server/src`) | session table | `handle`, `closeAll`, tools | kernel | requests, closes and shutdown interleave | every session is one transport and goes away |
| REST and A2A servers, CLI (`server/src`, `cli/src`) | the environment's configuration, two kernels | routes, A2A methods, commands | everything above | three gates with the same two checks, requests that overlap, a run made before its reply is decided | who may not is turned away everywhere, runs and replies agree |
| Telemetry (`telemetry/otel`, `core/src/plugins/TelemetrySink.ts`) | open spans | `startTrace`, `emit`, `endTrace` | executor | failures must not reach a run | `safeTelemetry` swallows them |
| Diff, stats, model selection, rendering, hashing, spec schemas (`core/src/...`) | none | pure functions | everything above | numeric and formatting edges | functions of their inputs |

How they interact: `PipelineExecutor.run` resolves the pipeline in a registry,
has `buildExecutionPlan` turn it into levels, and for each depth hands the
channels of a level to `runGated`, through p-limit limiters when no enforcement
policy is registered and one by one when some are. `runGated` asks the policies,
awaits `runOne` (and through it `executeChannel`, which awaits the adapter, the
validator and the store), asks the policies again. Everything runs in one
process: the interleavings are those of promises, and state read before an
`await` may be stale after it. What is shared is the run's `RunResult`, the
abort controller, the limiters and the result store.

## The modules

| module | what it is |
| --- | --- |
| `ChannelContract` | abstract specification: what the pipeline executor relies on when it awaits `executeChannel` |
| `ChannelExecutor` | one call of `executeChannel`; refines `ChannelContract` |
| `ChannelExecutorProofs` | theorems about it |
| `PipelineExecutor` | one call of `run`, up to the moment nothing it started is in flight |
| `PipelineExecutorProofs` | theorems about how it executes and what it reports |
| `CostBudget` | `PipelineExecutor` with `CostBudgetPolicy` as its one policy |
| `CostBudgetProofs` | theorems about it |
| `Sums`, `SumTheorems` | the sum of a function's values, and lemmas about such sums |
| `ChannelGraph` | the `dependsOn` graph of a pipeline, well-formed or not |
| `ExecutionPlan` | `topoLevels`, a round of Kahn's algorithm per step |
| `PipelineValidator` | `detectGraphIssues`, a visit of its work queue per step |
| `PlanGraphs` | the two on the same graph |
| `PlanGraphsProofs` | theorems about both and their agreement |
| `RunLineage` | runs, resumes, reruns and replays of a pipeline whose definition changes |
| `RunLineageProofs` | theorems about it |
| `ResultStore` | what one run leaves in a result store, filesystem or sqlite |
| `RunBundles` | `ResultStore` with exports of the run, their signatures and `verify-bundle` |
| `Federation` | an instance's key and served bundles, another's fetches of them |
| `SpecCache` | resolution of an external pipeline reference through its cache |
| `OutputDiff` | the diff of two parsed outputs |
| `RunStats` | the aggregates over stored runs |
| `RunDiff` | the diff of two stored runs, for any diff of their outputs |
| `StoresProofs` | theorems about these seven but `OutputDiff` |
| `Callbacks` | secrets of delegated channels and the callbacks signed with them |
| `TokenKeys` | authorization by token, with the cache of the identity provider's keys |
| `McpSessions` | the session table of the MCP server over HTTP |
| `Surfaces` | requests to the combined server: REST, A2A and MCP over one executor |
| `Adapters` | calls of the provider adapters |
| `ModelSelector` | the trials of a list of providers and their ranking |
| `ServicesProofs` | theorems about these six |
| `MC...` | small instances for TLC |

`MCBundles`, `MCServices` and `MCAnalysis` hold several components that share no
state; their variable `part` says which one a behaviour is of, so that the
states of the parts add up and do not multiply.

Operators named `X_Something` with a comment that begins with "Fault:" are faulty
variants of `X`. No specification uses them: `PROJECT.json` lists, for each
checked property, the variant under which TLC finds it violated.

### ChannelExecutor

One behaviour is one call of `executeChannel`. `pc` says what it is about to do:

| `pc` | the code is | left by |
| --- | --- | --- |
| `call` | in `callAndValidate` for a try or a retry | `CallAnswered`, `CallThrows`, `ValidatorThrows` |
| `repair` | in `callAndValidate` for a repair prompt | the same |
| `save` | in `saveRawOutput` with the final answer | `SaveRaw`, `SaveThrows` |
| `sleep` | in the backoff | `Sleep` |
| `done` | settled | |

An answer is abstracted to its refusal flag and the outcome of parsing it; a
schema to none, one that compiles, and one Ajv cannot compile (`compile` then
throws inside the retry loop's `try`, after the JSON has been parsed). An error
is abstracted to the condition the catch block makes of it. `calls` and `raw`
are what the outside sees: the provider calls, and which call's text is in the
store. Durations are left out. `ChannelContract` forgets retries and repairs
and keeps a budget of calls, the last of which is the one that is persisted and
reported, and the shape of the `ChannelResult`.

### PipelineExecutor

A *unit* is a channel, named by its position in the plan, or the synthesis
(`Synth`). `st` gives for each unit its state at this depth: `idle`, `queued`
for the global limiter, `waiting` for its provider's limiter with the global
slot in hand, `running` (inside `executeChannel`), `thrown`, `null` (did not
run), or the status it settled with. `pc` is where `run()` is:

| `pc` | the code is | left by |
| --- | --- | --- |
| `depth` | at the head of the depth loop | `StartDepth` |
| `carry` | splicing in carried results | `Carry` |
| `level` | at the head of the level loop | `LaunchLevel` (concurrent), `EnterLevel` (sequential), `EndLevels` |
| `wait` | in the `Promise.all` of a level | `Awaited`; meanwhile `TakeGlobal`, `TakeProvider`, `Settle`, `Throw` |
| `collect` | recording the level's results | `Collect` |
| `gate` | entering `runGated` for `cur` | `EnterGate` |
| `before`, `after` | at the hook of policy number `hook` | `Proceed`, `Skip`, `Abort`; `AfterHook`; `HookThrows` |
| `run` | in `runOne` for `cur` | `SettleGated`, `ThrowGated` |
| `record` | recording what `runGated` returned | `RecordChannel`, `RecordSynthesis` |
| `decide` | at the recursion decision | `Decide` |
| `finish` | aggregating and saving | `Finish` |
| `returned`, `rejected` | settled | units still in the limiters go on |

`ExternalAbort`, the caller's signal, may fire at any time; `PluginThrows` is a
registry or store that throws where `run()` itself awaits it. `runs` counts the
executions of each unit and `ended` is how they ended, whether or not anybody
still awaits them: the properties compare these with what the run reports
(`channels`, `synthesis`, `log`, `status`). `parsed` says which channels have a
`parsedOutput` at this depth: `buildUpstream` hands that on whenever it is there,
also when the channel failed its schema or refused. With a status of `MayLack` it
may be there or not (the text of a refusal rarely parses, and `null` parses to
nothing); in the run `pipeline` that is `schema_error`. The raw text of a carried channel is in another run, and not found.

p-limit is not part of the repository. It is modelled from how it is used: a
queue per limiter, first in first out, a slot freed when the function it was
given settles. A level enters the queue in declared order, so the oldest entry
is the smallest position. The levels of a plan are given by `rank`; that
`topoLevels` produces such ranks is what `ExecutionPlan` is about
(`WellFormed`). `p.sequential` means that policies are registered; `before` and
`after` count how many of them have each hook. What makes the recursion policy
stop below `maxDepth` (cost, run time) is the nondeterministic choice
`ceiling`. A hook's verdict is any it may return; `CostBudget` replaces that
choice by what `CostBudgetPolicy` computes from prices.

### ExecutionPlan, PipelineValidator, PlanGraphs

The graph is a list of positions with an id and a list of ids each, so that
repeated ids, repeated entries, self-dependencies and unknown ids are all there:
nothing before these two functions refuses them (the pipeline schema types
`id` and `dependsOn` as strings). Both functions key their maps by id, which is
why `InDegrees` takes the last position with an id. In `PlanGraphs` the
validator runs first and the planner afterwards whatever it said, as in the
code, where `run` does not consult it.

### RunLineage

The pipeline file, a prompt per unit and a schema for some of them each have a
version; a hash is the version it was computed from, 0 when none was recorded.
`EditFile` (or, in a git registry, `OtherCheckout`: a registry for another ref
of the same checkout) may happen between any two reads. `Run`, `Resume`,
`Rerun` and `Replay` begin an operation, `Prepare` is the git registry's first
use of its clone; `CheckPipeline` and `CheckFile` are the hash checks of `resume()` and `replay()`, ending in `Refuse`
or `Accept`; `ResolvePipeline`, `RecordHash`, `SpliceCarried`, `LoadPrompt`,
`LoadSchema`, `Skip` and `EndDepth` are what `run()` reads, in its order, at
each depth; `Save`, `Mark` and `Diff` are `saveRun`, the second save of a replay
and the diff that decides whether it is reported as a mismatch.

A run's results are a set: which of two results of a unit is the newer one is told by
their depths, and that is all the filters and maps of the code look at. `todo` is the
set of files still to be checked or hashed, one at a time: `Comparable` takes the
prompts before the schemas, each in whatever order they were recorded, `Hashable` goes
channel by channel.

### ResultStore, RunBundles

`doc` is `run.json` or the row of the run (absent, torn, the first or the second
version), `raws` the raw texts by key. A channel that settles leaves its text under
its key (`Answer`) or nothing (`Error`, `NotRun`); `Record` adds its result to the
report, in plan order, where a synthesis takes the place of the one of the depth
before. A resumed run starts with the results it carries, whose references are those
of another run. `answers` is a history of what was answered, for the properties. The filesystem store truncates and
writes, the sqlite store commits. An export takes the run in memory or the one
`getRun` returns, goes through the list of files in the order the exporter
writes them (`WriteFile`), records the path in the run (`SaveAgain`), and signs
what it wrote (`Sign`). Exports of two processes overlap, differ in redaction
and signature, and may crash at each file. A file's content is which answer it
shows; hashing is the identity of the whole map of contents, a signature is that
map.

### Federation, SpecCache

Processes of the remote instance run `ensure()` in its steps (`Ensure`,
`WritePrivate`, `WritePublic`), its operator exports the public key to the local
allowlist (`Pin`). A fetch asks for a reference (`Request`), is answered
(`Receive`) with what the remote signed with whatever key it now has, checks it
and stores it file by file (`Open`, `Write`), `provenance.json` last; it may
crash at each. `dir` is kept per reference: for each file, missing, cropped, or
whose file it is. In `SpecCache` a resolution reads the cache entry, fetches,
parses and then writes the entry, in place, while the host publishes other specs.
Two writes may overlap: what others had the file open with meanwhile is noted in
`beside`, and where their texts differ (`Mixed`), or somebody still writes, what is
left may be a mix, which fails its hash from then on.

### Callbacks, TokenKeys, McpSessions

`Dispatch`, `PutRead`, `PutOpen` and `PutWrite` are the minting of a secret and
the steps of `put`; `Arrive`, `Verify` the callback route up to and
after its `await`; `Expire` is time passing
beyond the replay window, `Restart` loses what only memory knows. `TokenKeys`:
a request reads the cache (`GetKey`), may fetch (`Answered`), puts the answer in
the cache (`Refresh`) and looks its key up (`Lookup`) in separate steps, as the
awaits between them allow. `McpSessions`: `Initialize` and `Initialized`,
`Delete`, and `CloseAll` with a step per transport it awaits.

### Surfaces, Adapters

A request of `Surfaces` is its surface, operation and the few fields the
handlers look at. `Admit` is the gate of its surface and, where that needs the
verifier, `Verified` its verdict; `Handle` answers from registry and stores or
begins a run, `Start` is `run()`'s resolution of the pipeline, `Finish` its end,
the saved run and the reply. `config` is the environment. The verdict on a token
is what `TokenKeys` can come to. In `Adapters`, `attempt`, `timer` and `aborted`
are the local variables of `execute`; `requests` counts what was sent.

### OutputDiff, RunStats, RunDiff, ModelSelector

Operators named after the code's functions, over a corpus of stored runs that
grows by one run at a time, over all pairs of a set of outputs, and over the
answers an executor may give to the selector's runs. Their properties compare
them with reference definitions written for the purpose (`Changes`, `Newest`,
`Dominates`) or relate several of them. Fractions are exact.

`diffParsed` walks two outputs recursively, which is `OutputDiff`. `RunDiff` takes
it as a parameter, `OutputChanges`, of which it assumes that two outputs without a
change are equal (`OutputChangesAssumption`); `MCAnalysis` puts `DiffParsed` in its
place, so that TLC checks the assumption, and the diff of runs with the real walk.

In `ModelSelector` a step is a round of one of the two loops: the next provider,
or one run of it, which answers or throws. `aggs` is the code's; `log` keeps what
the runs answered and is read by the properties alone. `Ahead` is the comparison
that the code sorts by, with the order of the list where scores are equal, as the
sort is stable; `Place` is the position that results. `weights` are the default ones (8, 6, 3
and 3 twentieths) with those that were given (`WeightOptions`) in their place, as
`select` merges them.

## The runs

| run | bounds | distinct states | shows |
| --- | --- | --- | --- |
| `channel` | retries 0..2, repairs 0..2, together at most 3, every subset of the conditions each reacts to, three kinds of schema | 265,136 | `executeChannel` keeps to its settings, settles, and implements `ChannelContract` (with its liveness) |
| `pipeline` | 3 channels, 2 providers, 17 plans: flat, chain, fork and join graphs; global caps 1, 2, 4 with a provider cap of 1 or none; 0, 1 and 2 depths; up to 2 hooks of each kind; resumed runs that carry some, all but one, or all channels; statuses ok, schema_error with and without parsed output, error | 1,174,112 | the seven invariants of `run()`, that nothing starts after a stop, that it settles and drains |
| `plan_graphs` | all graphs of 3 channels with up to 2 entries each over three ids and an unknown one, with unique and with repeated ids | 62,243 | the planner equals the longest-path reference; the validator agrees with it |
| `cost_budget` | 2 channels and a synthesis over 2 depths, prices 0..2, ceilings 0, 2, 3, 5 or none, a per-channel ceiling of 1 or none, one plan with a carried channel, one with a dependency | 731,610 | the ceiling is overshot by one channel at most, and reaching it halts the run |
| `lineage` | 1 or 2 channels and a synthesis, with and without schemas, 1 and 2 depths, two versions of each file, up to 3 stored runs and 3 changes, a filesystem and a git registry (five instances) | 1,709,788 | recorded hashes are those of the texts used; resumes and replays belong to the definition they come from |
| `bundles` | a run of 2 channels with one raw key over 2 depths, with or without a synthesis and a carried channel, on either store, exported by its own process; one with a synthesis on the filesystem store, exported by its own process and another; 3 fetches of 2 bundles of 2 files, 2 remote processes; 3 resolutions of a spec of 3 texts | 1,201,156 | what is on disk, at any moment and after crashes |
| `services` | 2 delegated channels dispatched twice, 3 deliveries, 1 restart; 3 token requests, 2 keys; 4 sessions; 2 clients, a static token or an issuer or both or neither, either store; one adapter call of each kind with 3 retries | 897,132 | the services around the executor |
| `analysis` | all pairs of outputs with two leaves, two keys and nesting of two; all corpora of up to 2 of the runs of `MCRunSet`; 2 providers with 2 runs or 3 with 1, eleven outcomes of a run and one that throws, the default weights and, where there is one run each at most, the override of `docs/model-selection.md` | 74,388 | diffs, aggregates and ranking against their references |

and four runs in which TLC finds a statement of the documentation violated, see
below. `MCBundles` and `MCServices` use symmetry where their processes are
interchangeable (fetches and resolutions; delegated channels and clients,
deliveries, token requests and sessions) and have no liveness property. Deadlock is
not checked in the last four: runs, requests, fetches and calls come to an end
and the bounds are used up.

Why the bounds are enough for what they are used for. Two retries and two
repairs are the least with which a failure can come before, between and after
repairs and again after a retry; nothing in the loops compares more than one
counter with its bound. Three channels give every shape in which a limiter can
be full, a queue can have somebody behind its head, a level can be partly
settled, and a dependency can be direct or transitive; with two depths the
results of one are still there at the next. Graphs of three channels contain the
cycles of length 1, 2 and 3. Statuses that the executor treats alike are left out
(`timeout` is treated like `error`, `invalid_json` and `refused` like
`schema_error`, which has a parsed output there or lacks it, as those two do). In `lineage` three changes let a definition change before, in
the middle of and after an operation and change back, and three runs let a run
come from one that itself came from another. Two exports, two processes of the
remote and two versions are enough for every overlap of two; a third fetch or
resolution comes after or between them. In
`services` the properties relate at most two requests; a third delivery or token
request comes between or after them, two sessions can close while others open,
and of two clients one can ask for the run the other made.

What the properties say, in short (each is stated in full above its definition):

- `channel`: `CallBudget`, `RepairOnlyAfterRepairable`, `ResultIsLastAnswer`,
  `GivesUpOnlyWhenSpent`; `Settles`; `RefinesContract`.
- `pipeline`: `CapsRespected`; `DependencyOrder` (a running channel's
  dependencies have settled, and its prompt has the parsed output of exactly
  those that have one, whatever their status, and the raw text of exactly those
  that answered in this run); `AtMostOncePerDepth`; `NoStartAfterStop`;
  `DecisionTrail` (the policy log explains which units ran); `ResultsInPlanOrder`
  (results do not depend on who finished first); `NothingLost` (the report of a
  run that returns is exactly what was executed); `HonestStatus`; `Settles`.
- `plan_graphs`: `LevelsOrdered`, `MatchesReference`, `GateAgrees` (what the
  validator accepts the executor plans with every dependency first, and it
  accepts whatever can be planned and lists nothing twice), `BothEnd`.
- `cost_budget`: `OvershootByOne`, `HaltedAtCeiling`.
- `lineage`: `HashesVouch` (when nothing changed under a run, the hashes it
  records are those of the texts that made its results, carried ones included;
  with git, those of the recorded commit); `SameDefinition` (a change made after
  the first run is refused however many resumes and replays lie in between).
- `bundles`: `ReadsNewest` (a reader gets the version saved last, none only while
  a filesystem store is rewriting it or died doing so, and the reference of a result
  leads to the newest answer given in this run under its key, which with shared keys
  or a replaced synthesis may be the answer of a result that is not reported); `VerifiedIsWhole` (a
  directory that verifies is a complete bundle of one kind, whatever exports
  were made into it); `ProvenanceVouches` (a foreign run that is shown is
  complete, is the one its reference names, and was vouched for by the pinned
  key, but for the one file another fetch is rewriting); `SpecPinned` (a
  reference stays what its settled cache entry says, and one that is damaged was cut
  short or written over by another); `KeyStays` (an instance never
  replaces its key).
- `services`: `AcceptedOnce` (a callback is accepted once, and once more per
  restart); `UnknownOnlyIfAsked` (a key is called unknown only after asking for
  it); `NoOrphan` (the session table is the open transports); `Gated` (all
  surfaces turn away who holds no credential, and nobody who holds a static token
  or, while keys can be had, a good access token);
  `RunsAccounted` (runs made and replies given agree, a task and its artifact with
  the stored run and its synthesis); `StopsForGood` (an adapter
  whose time is up or whose caller has given up sends nothing more, and leaves
  no timer).
- `analysis`: `DiffExplains`, `DiffSound` (an equivalence's symmetry, and totals
  that agree with the statistics'), `StatsAddUp`, `RankingSound` (nobody is
  ranked behind one that did worse in what has a weight, and throwing always beats
  passing always only where the weights say so).

`TypeOK` in `channel` and `pipeline` is the type invariant. The runs of the other
modules check none: what their proofs need of types is part of the inductive
invariants described below.

### Fairness

`ChannelExecutor!FairSpec` is weakly fair in `Next`: a pending provider call,
store call or timer is eventually answered, fired or rejected. For provider
calls that is what the adapters' timeouts are for; the mock and HTTP adapters
honour them, and an adapter that never settles would indeed leave a run pending.
`PipelineExecutor!FairSpec` is weakly fair in `Step`, which is everything but the
caller's abort: an awaited promise settles (that is `ChannelExecutor`'s
`Settles`) and its continuation is run by the event loop. Weak fairness of the
disjunction is enough, since every behaviour of `Step` is finite. Nobody is
assumed to abort. `PlanGraphs!FairSpec` is weakly fair in its (synchronous)
steps. The other modules have only invariants and action properties, and their
specifications state no fairness.

## The proofs

TLC checks the instances above; the theorems hold for every value of the
constants. They assume what the modules assume, and nothing else:

- settings, plans, graphs and budgets have their types (`ConfigsAssumption`,
  `PlansAssumption`, `GraphsAssumption`, `LineageAssumption`, `BudgetsAssumption`),
  and bounds are natural numbers;
- statuses differ from the names of unit states (`StatusesAssumption`) and `NULL`
  from what it may stand in for (`NullAssumption`);
- plans are `WellFormed`: dependencies have lower ranks, which is what
  `LevelsAreOrdered` proves of the planner, and a run with policies is sequential.
  `DependenciesRunFirst` rests on the first part. In `CostBudget` they have the one
  policy with its two hooks (`OnePolicy`);
- there is a server among the processes of an instance, and bundles have finitely
  many files, at least one (`FederationAssumption`); a host has finitely many specs,
  among them one that does not parse and one that does (`SpecCacheAssumption`); one
  of the exports is made by the run's own process (`BundleAssumption`);
- costs and latencies of stored runs and of a provider's runs are not negative
  (`RunsAssumption`, `OutcomesAssumption`), and two outputs without a change are equal
  (`OutputChangesAssumption`);
- the weights given to a selection are natural numbers of some unit, 0 among them
  (`WeightsAssumption`); negative ones, and what is no number, would turn the scores
  round or make them none.

Every theorem about states follows the same way: an inductive invariant, checked
by TLC on the instance of the run first, a lemma per action (or per group of
actions that touch the same variables) that a step keeps it, and the step from
it to the property.

`ChannelExecutorProofs` (any settings):

| theorem | property |
| --- | --- |
| `TypeCorrect` | `TypeOK` |
| `BudgetRespected` | `CallBudget` |
| `RepairsJustified` | `RepairOnlyAfterRepairable` |
| `ResultConsistent` | `ResultIsLastAnswer` |
| `NoEarlySurrender` | `GivesUpOnlyWhenSpent` |
| `ImplementsContract` | `Spec => Contract!Safe`, the safety part of `RefinesContract` |

All follow from `InductiveInvariant`: `Spec => []IInv`. `CallBudget` is not
inductive, since a state with many calls early in the loop would satisfy it;
`CallsAccounted` bounds the calls by the tries that are over and the repairs of
this one. `AnswerInHand` ties `last` to the last call, which is what a repair
and the saving step rely on. The refinement maps every action to a step of the
contract: calls that are followed by another one to `CallProvider`, the last
call that fails and a failing store to `SettleFailed`, `SaveRaw` to
`SettleAnswered`, `Sleep` to a stutter.

`PipelineExecutorProofs` (any number of channels, providers, caps, depths,
policies, carried channels and statuses):

| theorem | property |
| --- | --- |
| `TypeCorrect` | `TypeOK` |
| `SlotsRespected` | `CapsRespected` |
| `ExecutedAtMostOnce` | `AtMostOncePerDepth` |
| `StopsForGood` | `NoStartAfterStop` |

Again through `Spec => []IInv`. `Phase` says what each `pc` means for the units:
who has settled when results are recorded, that units are only in flight while
their level is awaited, inside the gate, or after a rejection, and that a halted
run is past every place that starts one. `Fresh` says that whatever lies ahead
of the level loop has not been touched at this depth, which is what makes
`RunsAccounted` inductive: a unit about to start still has its execution of this
depth to its credit. For `SlotsRespected` the slots are counted with the
cardinality lemmas of FiniteSetTheorems: one channel that takes a slot adds one
to a count that was below the cap, and no other step (`Calm`) adds a holder. On
the sequential path the caps hold for another reason: there is one unit in
flight at most, and caps are positive.

The same module, about what is reported (builds on `IInv`):

| theorem | property |
| --- | --- |
| `DependenciesRunFirst` | `DependencyOrder` |
| `ReportIsOrdered` | `ResultsInPlanOrder` |
| `NoResultLost` | `NothingLost` |
| `VerdictIsHonest` | `HonestStatus` |
| `TrailTellsAll` | `DecisionTrail` |

`BooksBalance`: `Spec => []ReportInv`, an invariant in two halves. The first is
about order. `Levelled` says that what the level loop has passed is settled and
recorded and that only the level it is at is in flight; with the ranks of a
well-formed plan that puts the dependencies of a channel behind the loop before it
starts, and `Informed` keeps the prompt it was given in agreement with them, since
what is behind the loop no longer changes, neither its status nor whether it has a
parsed output. `Foremost` and `Ahead` say that
whatever is recorded next belongs behind what the report holds. The second half
keeps books: every execution has ended, is in flight or has thrown (`RunBook`),
every channel that ended is in the report or about to be (`ChannelBook`), the
carried ones are there once (`CarryBook`), the synthesis reported is the newest
(`SynthesisBook`); `Thrown` says that a run in which something threw rejects. At
`returned` nothing is about to happen, and the books are `NothingLost`; `Verdict`
adds which statuses the returned verdict was drawn from. `DecisionTrail` needs an
invariant of its own, `TrailInv`: how many policies have let a unit proceed at this
depth, by where its gate is (`Approved`), and what a halt or an abort leaves for the
rest of the log (`Stopped`, `LastWord`).

`CostBudgetProofs` (any plan, prices and ceilings; builds on `IInv` and `ReportInv`):

| theorem | property |
| --- | --- |
| `OvershootBounded` | `OvershootByOne` |
| `CeilingIsNoticed` | `HaltedAtCeiling` |

The policy sums up what is in `result.channels`; the properties are about what the
executions that ended have cost, in flight to the report or not. `BooksOfCosts`:
`BudgetSpec => []BudgetInv` keeps the two together. `Balance` says that the known cost
is that of the recorded executions and of the carried results there are, and with
`ChannelBook` of `ReportInv` it follows that inside the gate only the unit itself is
not known yet (`KnownAtGate`). So `beforeChannel` lets a channel start only below the
ceiling (`Affordable`), which makes the next one to end the overshoot; and what
`afterChannel` adds up is all there is, so a ceiling that has been reached is either
noticed already or about to be (`RunCeiling`, `ChannelCeiling`).

`SumTheorems` (a function with any finite domain and natural numbers for values) has
no listed theorem; the policy, the aggregates and the ranking rest on it. What a sum
over a set of any size is takes no induction schema. `Total` is, by its
definition in the community modules, the value of *some* function on the parts of the
set that takes them apart element by element. Two such functions agree, and one exists,
because of a least counterexample: a smallest part of the set on which they differ, or
that has none (`SumAgrees`, `SumExists`, both by `LeastSet`). That a sum does not depend
on the element taken first (`SumRemoves`) is the same argument once more, and from it
comes that one value more adds that value (`TotalGrows`). `SetInduction` turns the
argument into a rule, stated with a set of sets in the place of a predicate, and with it
follow the others: a sum may be split (`TotalSplits`), taken class by class
(`TotalByClass`), bounded by its least and greatest value (`TotalBetween`) and taken over
another domain (`TotalMoved`), a cardinality is a sum of ones (`TotalOnes`), and a finite
set with a total order has a greatest element (`GreatestExists`).

`RunLineageProofs` (any number of units, versions, edits, depths and operations, either
kind of registry):

| theorem | property |
| --- | --- |
| `HashesAreOfTexts` | `HashesVouch` |
| `DefinitionStays` | `SameDefinition` |
| `LineageTypeCorrect` | `TypeOK` |

`LineageInvariant`: `Spec => []LineageInv`. Both properties are about stored runs, and
what makes them true is spread over an operation's reads, so the invariant follows the
operation. As long as nothing changed (`dirty`), what it has recorded is what the
registry has (`Unchanged`), what the run it comes from recorded is what the registry
has, too, once all its files have been checked (`Compared`), the files of a carried
result have been recorded or are still to be (`Stamped`), and a unit holds the texts
whose hashes were recorded (`Working`): so a result was made of what `source` says
(`Produced`), which for a carried one is true of the run it comes from and, by
`Compared`, of this one. `Unmarked` is the replay between its two saves. The two
properties are themselves part of the invariant: what a resume carries over is known to
be sound only because the stored run was.

`PlanGraphsProofs` (every dependency graph, cyclic or malformed, of any size):

| theorem | property |
| --- | --- |
| `LevelsAreOrdered` | `LevelsOrdered` |
| `PlanIsReference` | `MatchesReference` |
| `GateAndPlannerAgree` | `GateAgrees` |

`PlannerInvariant` gives the counters their meaning: for unique ids `indegree` of a
channel is the number of entries of its `dependsOn` that remain (`Counted`), so
that a round places exactly the channels that wait for none; the placed ones are
closed under dependencies, and each waits for one of the level before (`Earliest`).
Nothing in the walks names an order of the channels. What takes its place is
`Founded`, every nonempty set of them has one that depends on none of it, and its
contrary `Stuck`, some nonempty set has none. A round without a channel
to place has found the latter, and no levelling exists then, because a channel of
lowest rank in that set cannot be. `GateInvariant` does the same for the validator's
queue; there a channel is visited once each of its ids is, so that a repeated entry
leaves its counter above zero, which is why the agreement in that direction asks
for lists without repeats.

`StoresProofs` (any number of channels, depths, keys and exports):

| theorem | property |
| --- | --- |
| `ReadersSeeNewest` | `ReadsNewest` |
| `VerifiedBundlesAreWhole` | `VerifiedIsWhole` |

`BundlesInvariant`: `BundleSpec => []BundleInv`. `DocBook` is what the document holds
by where its writer is. `RawBook` says that every key holds, at any time, one of the
newest of the answers given under it (`HoldsNewest`), and that a result with a
reference, whether in the list, the synthesis or about to be recorded, is of an answer
given in this run unless it was carried (`Answered`); that its key then holds something
as new follows. `MemoryBook` says what an export has in
memory after so many files, all of one kind, and `SignedBook` that only whole exports
are signed: so a directory whose contents are those that were signed is whole, even
when other exports wrote into it. `AloneBook` is for the converse, that an export
nobody interferes with verifies.

The same module, for any number of processes, fetches, runs, files, resolutions and specs:

| theorem | property |
| --- | --- |
| `KeyIsForGood` | `KeyStays` |
| `ForeignRunsVouched` | `ProvenanceVouches` |
| `ReferencesPinned` | `SpecPinned` |

A fetch that has passed the checks keeps what it received and the key it compared
it with, and the files before the one it is at are sound unless another fetch of the
same reference has one open; provenance is written last. A settled cache entry is
never written again: the only resolutions that write are those that began without it.
`ResolveInv` adds who can have met whom in the file: a resolution that did not open it
met nobody, so that a damaged entry with nobody writing and nobody dead is one that two
writes of different texts have left.

The same module, for any stored runs, prices and windows, and any comparison of outputs
that tells equal ones:

| theorem | property |
| --- | --- |
| `AggregatesAddUp` | `StatsAddUp` |
| `DiffsAreSound` | `DiffSound` |

These are facts about operators, and of the state they need only that it is a list of
runs (`RunsAreStored`). Days, pipelines and providers are classes of runs or results, and
`TotalByClass` adds them up (`DaysAddUp`, `PipelinesAddUp`, `ProvidersAddUp`). The newest
result of a channel, which the properties pick as the greatest index, is the one that the
code's map is left with (`LastIsNewest`), so that nothing differs exactly when the newest
results agree (`NothingDiffers`, `IdenticalIsSame`). A total takes one result per channel,
hence a part of those the statistics sum up, and all of them when no channel ran twice
(`TotalWithinRunCost`).

`ServicesProofs` (any number of channels, deliveries, requests, transports and calls; any
clients, tokens, pipelines and configurations of the combined server; any lists of
providers, numbers of runs, answers and weights):

| theorem | property |
| --- | --- |
| `CallbacksOnce` | `AcceptedOnce` |
| `KeysAskedFor` | `UnknownOnlyIfAsked` |
| `SessionsReached` | `NoOrphan` |
| `CallsStop` | `StopsForGood` |
| `CallersGated` | `Gated` |
| `RepliesNameRuns` | `RunsAccounted` |
| `RankingIsSound` | `RankingSound` |

`NonceSpent` counts one acceptance per restart and one more only while the nonce is
remembered. `KeyCacheInv` follows each request to the provider and back, and keeps
what it looks up equal to an answer that somebody was given. `SessionsInv` makes the
table a list of transports without repeats that agrees with where each of them is.
`CallInv` counts the requests of a call by its pauses. In `SurfaceInv`, `Admitted`
says how far a request can have come by what its caller holds, and `RouteAnswers`
what its handler may answer.

`AggsAreOfRuns`: `SelectSpec => []Book` says that the counters of each provider are the
sums over its own log (`Summed`), and that every provider before the last has run as often
as asked. What remains is arithmetic. Fractions with positive denominators are a total
order that adding keeps and weighing does, too, a weight of 0 making all equal
(`LeqOrders`, `Weighed`, `TimesKeeps`, `PlusOrders`) and that a
share of the worst turns round (`InvertedTurns`; the worst exists by `GreatestExists`, and
is the same for all). So each part of a score goes by the respect it is about
(`PartsOrder`), and who did worse in one and better in none has the lower score
(`DominatedIsBehind`); a provider that only threw has at most the weights of cost and
latency, one whose runs all passed at least that of validity (`ThrownIsBehind`), and
where the two are equal the order of the list decides. `Ahead` is
a strict total order whatever the scores are, and counting who is ahead numbers the
providers from one on (`PlacesOrder`).

Only model-checked, and why:

- everything under fairness: `Settles` (of both executors), `BothEnd`, the liveness
  part of `RefinesContract`. Liveness is out of this prover's reach.
- `DiffExplains`: the walk of `OutputDiff` over two outputs is a recursive operator, of
  which this prover knows nothing, and what it computes for every depth is induction over
  data. `DiffSound` is proved for any comparison in its place that tells equal outputs.
- `CeilingIsHard` and the properties of the three other runs in which TLC finds a
  violation are false.

## Where the code and its documentation differ

Each of these has a run that exhibits it; `PROJECT.json` quotes the lines.

- `OneRunStore`: the combined server's MCP handler always stores runs in files,
  its REST side in sqlite when so configured (as the deployment guide does): a
  run made through one is not found through the other.
- `SecretKept`: `put` is a read-modify-write of one file, and loses the secret of
  one of two channels that are dispatched together. (Only callers that hand
  `executeChannel` a secret store get there; `run()` passes none.)
- `ForeignVerifies`: a stored foreign run has `provenance.json` next to the files
  that were signed, `verify-bundle` hashes it with them and reports a mismatch.
- `CeilingIsHard`: the synthesis is not counted against the cost ceiling.

Seen while modelling, without a run of their own.

In the executor: what a prompt gets as `{{channel_results.<id>.parsed}}`, which
`docs/dag.md:50` calls the "parsed (validated) output", need not be valid: output that
fails its schema, or a refusal that parses, is handed on as well
(`PipelineExecutor.ts:211`, `JsonSchemaValidator.ts:55`). An answer is stored only when the repair loop has returned, so
that it leaves no raw output when a repair call throws; a failed repair call is
logged as an initial try or a retry; usage is that of the last answer only. A
synthesis that fails at depth 1 and succeeds at depth 2 leaves a run that is
`completed`, and so does an abort before the first channel. The raw text of a
carried channel is looked up under the new run, found empty, and exported empty.
When a synthesis replaces that of the depth before, the text of the latter stays
under its key until something overwrites it, with no result that refers to it; another
channel of that key then refers to that text.
Repeated ids are misordered silently; a dependency listed twice is planned by
the executor and a cycle for the validator. After `run()` rejects, channels of
the level still run and are paid for; backoffs and retries go on after an abort.

In runs and stores: a definition that changes between `resume()`'s checks and
`run()`'s reads is executed unchecked (its hashes are then recorded, which is
why the next resume refuses it). A replay is saved unmarked first, and a
failure before the second save leaves it so. A git registry remembers a failed
`prepare()` for good. `listRuns` of the filesystem store lists
`callback-secrets` and `foreign` as runs.

In exports and federation: two processes that resolve a reference at the same time, while
the host replaces its spec, can leave a cache entry that is neither, and every later
resolution fails with `cache_corrupt` until somebody removes it. A redacted signed bundle cannot be served under its
reference; an entry that is already present is reported with the reference for a
path (`FederationClient.ts:84`); a served spec is the current one whatever
version is asked for.

In services: an initialize that is in flight when `closeAll` has returned adds a
session that nobody closes. `rerun_channel` with an unknown channel runs the
whole pipeline and then answers with an error that does not name the run. The task
of an A2A client carries an artifact with `data: null` when the synthesis failed. The
adapter's timer runs on through 429 pauses and does not interrupt them; the
Anthropic adapter has neither timer nor signal. In the selector, a provider whose
runs all threw gets the best score for cost and latency, which with the weights of the
documented override equals the score for passing every run; the diff's total leaves
out earlier depths.

## What is not modelled

Inside the modelled components: telemetry (its failures are swallowed and
nothing reads it back), prompt rendering, timestamps and latencies other than
the aggregated ones, the length of backoffs, weights of a selection that are negative
or no numbers, the retries the Anthropic SDK makes by itself, the validator's stateless checks,
the projected tables of the sqlite store (the aggregates are computed from the
same results), request and response formats of the adapters, the claims of a
token (one outcome: good or not), the order and layout of tables and the cut of
the list of failed channels, the interactive command line. Hash functions and
signatures are taken to be collision-free and unforgeable: two hashes are equal
when what was hashed is, and only the key's owner makes its signatures.

Components that are not modelled: *telemetry*, which decides nothing in a run;
*prompt rendering and hashing* and the *spec schemas*, which are text functions
and type declarations whose values are the constants of the modules. Of
*`openapi.ts`* nothing is modelled: it is one document. Of the CLI, what its
commands drive is modelled where it is driven; the argument parsing is not.

## Plan

Done: the core, its compositions and its proofs; resume, replay and changing
definitions; stores, bundles and federation; the services; the analysis and the
selection; and the theorems about every invariant but one and every action property.

What could follow: the projected tables of the sqlite store as a second source of the
aggregates, with the claim that both agree; the walk of `OutputDiff` as a recursive
function over outputs of bounded depth, so that `DiffExplains` could be stated as a
theorem for each depth.

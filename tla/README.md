# lingualdub in TLA+

lingualdub is a Python framework for dubbing pipelines in African languages:
speech recognition, translation and speech synthesis components are assembled
into a pipeline and run over segments of speech. This directory models the
parts whose correctness depends on order, failure, shared state and
concurrency. Every definition is translated from the code under
`src/lingualdub/`; paths below are relative to it. `PROJECT.json` maps each
definition to its lines, and lists the hazards of the code, each at its line.

Contents: 1 the system, 2 the modules, 3 the runs, 4 what is proved,
5 Disagreements, 6 Not modelled.

## 1. The system

| Component | State | Operations | Talks to |
|---|---|---|---|
| Resource pool, `resources/pool.py` | idle queue, active set, creation count, condition variable | `acquire`, `release`, `close` | client threads, the resource factory |
| Worker supervisor, `engines/supervisor.py` | process, pending requests, restart count, shutdown flag | `start`, `send_request`, `ping`, `shutdown`, reader thread | client threads, worker processes through pipes |
| Life cycle, `lifecycle.py` | state, hook tables, execution order | `transition`, `register_*_hook`, `run_startup_hooks`, `shutdown` | hooks of the application and of plugins |
| Dependency container, `di/container.py` | registrations, singletons, overrides, active scope | `register`, `resolve`, `override`, `restore`, scopes | factories, plugins |
| Plugin registry, `extensions/plugin.py` | plugins and their states, startup order | `register_plugin`, `discover`, `initialize_all`, `shutdown_all` | life cycle, container |
| Registry, manifests, pipeline definition: `registry/`, `pipeline/config_loader.py`, `core/pipeline.py` | entries per key, resolve cache, validation cache | `register`, `resolve`, `scan`, `load`, `load_dict` | components, configuration |
| Middleware, `middleware/` | global and scoped hooks, cache of built chains, a shared clock | `register`, `remove`, `build_chain`, `run` | executor |
| Pipeline executor, `pipeline/executor.py` with `core/result.py` | running input, Result so far | `run` | stages (components), middleware |
| Resource manager and models, `utils/resource_manager.py`, `models/` | files in a cache directory, one lock per process | `get`, `download`, `delete` | the network, other processes |
| Time axis, `components/alignment/`, `components/av_sync/`, `tts/shared.py`, `eval/` | times, targets and files of segments | `run` of each component | one another, through the Result |
| Speech components, `components/`, with the engines | the Result they are given, files of the temporary directory | `run`, `degrade` | models, the cloud service, other processes |
| Voice store and packs, `voices/` | packs on disk, index of a process | `save`, `get`, `list_voices`, `refresh`, `extract_reference_audio` | servers |
| HTTP and MCP servers, `api/` | request history of a client | rate limit, token, speech, clone, list, translate | voice store, speech components |

How they interact. The application configures the framework (life cycle),
registers components, plugins and dependencies while it is CONFIGURING, and
runs startup hooks. A pipeline is assembled from components found in the
registry and run by the executor behind a chain of middleware; a component
that needs a heavy model leases it from a resource pool, sends a request to a
supervised worker process, or has its files downloaded. Components hand on a
Result and name files in the temporary directory; servers run the same
components for single requests, and keep voices in packs on disk. Shutdown
hooks tear all of this down.

Where it is hard:

* *threads*: the pool's condition variable, the supervisor's lock with its
  reader threads, caches that are filled outside the lock (container) or are
  switched off and on (registry, middleware);
* *processes*: workers that answer late, hang, or die between any two steps;
  files, voice packs and model directories shared by several processes;
* *failure half-way*: hooks, stages, plugins, manifest entries, segments and
  downloads of which one fails, with a policy for the others;
* *order*: topological startup, mirrored teardown, segments put together again
  after a stage that saw only some of them, files matched to segments by index;
* *what is carried along*: consent, warnings, status and words pass through
  components each of which constructs a new Result;
* *boundaries*: the thresholds of length, ratio and offset of six components
  on one time axis, the ends of a rate limiter's window.

What makes each component correct:

* pool: a live resource has one holder; the books match the leases; the limit
  holds; no wake-up is lost, so every `acquire` returns;
* supervisor: one worker; every call ends, with its own answer; no request is
  leaked; after `shutdown` no worker runs;
* life cycle: dependencies start first and stop last; teardown completes, once;
* container: one singleton per registration, none left of a replaced one, and
  errors of a cycle only where there is one;
* plugins: a failure takes its dependents with it and nobody else; an active
  plugin stands on active ones; a rollback takes nothing away that was there;
* registry and assembly: a cached answer is the one a lookup would give, a
  manifest registers what precedes its first wrong entry, and a pipeline that
  was constructed has what its stages require;
* middleware: a cached chain is current, and the pipeline runs only behind
  every `before()`;
* executor: a Result never hides what happened to it, and segments a stage
  does not process come out unchanged and in place;
* downloads: a returned path holds verified bytes, and nothing is fetched twice;
* time axis: segments keep their order and end in time, a file is that of its
  segment, and nothing that is not heard counts as good;
* speech components and servers: a task uses the files it wrote, no heard word
  is dropped without a warning or said twice, no voice is used without a
  consent on record.

## 2. The modules

| Module | Models |
|---|---|
| `LeasePool` | what a pool promises |
| `ResourcePool` | `ResourcePool` and `PooledResource` of `resources/pool.py` |
| `Supervisor` | `SubprocessSupervisor` with its reader threads and workers |
| `StartupOrder` | Kahn's algorithm, as `Lifecycle` and `PluginRegistry` use it |
| `Lifecycle` | `FrameworkLifecycle` |
| `PipelineExecutor` | `PipelineExecutor._run_stages`, `_run_per_segment_stage`, status rules of `Result` |
| `DependencyContainer` | `DependencyContainer` and `DependencyScope` |
| `PluginRegistry` | `PluginRegistry`, with the container its plugins register in |
| `ComponentRegistry` | `Registry` and the process-wide switch of the caches |
| `Assembly` | manifests, `load_dict` and `Pipeline`, on top of `ComponentRegistry` |
| `Middleware` | `MiddlewareRegistry`, `MiddlewareChain`, `TimingMiddleware` |
| `ModelFiles` | `ResourceManager.get`, `ModelManager.download` and `delete` |
| `WordAlignment` | the word time stamps of both forced aligners, as pure operators |
| `Dubbing` | the components that move times, on top of `WordAlignment` |
| `Results` | Resource, Result, Segment, consent and files as the speech components see them |
| `Recognition` | `run` of the recognizers, language identification and translators |
| `Synthesis` | `run` and `degrade` of the speaker embedding, the duration model, TTS and the blender |
| `Serving` | processes that run pipelines of those, and servers with voice packs |
| `*Proofs` | theorems and proofs about the module of that name; `PipelineRunProofs` about `Middleware` and `PipelineExecutor`, `StartupProofs` about `StartupOrder`, `Lifecycle`, `PluginRegistry` and `ModelFiles`, `PipelineProofs` about `Assembly` and `Dubbing` |
| `SequenceFacts` | lemmas about numbers and sequences that several proofs share |
| `MC*` | instances for TLC |

`Assembly` extends `ComponentRegistry`, `Dubbing` extends `WordAlignment`, and
`Serving` extends `Synthesis`, `Recognition` and `Results`. What one module
leaves open another fills in: a stage of `PipelineExecutor` and a hook of
`Middleware` do anything their protocol lets them; `Serving` runs the real
stages, and of the executor only the merging and the failure modes.

### ResourcePool, LeasePool

The lock is held from the start of `acquire` to its return or its wait, so
one turn of its loop is one step (`Iterate`): reuse an idle resource
(`ReuseIdle`), create one (`CreateNew`; `FactoryRaises` when the factory
fails), give up (`Refuse`), or join the condition's queue (`Sleep`). `pc` says
where a client is: `ready`, `asleep`, or `awake` (notified or timed out, and
without the lock yet). `waiters` is the queue of the condition: a thread that
times out is still in it until it has the lock, as in CPython, so a `notify`
can pick it and be lost to the others. `Notify` may pick any thread, though
CPython's picks the first; `close` wakes all.

`lease[c]` and `released[c]` are the wrapper client `c` last received. Clients
release through the wrapper (`with`, or `.release()`), which does nothing the
second time. `LeasePool` is what this promises: leases are exclusive, limited,
and ended by their holders. `DirectSpec` adds clients that call `release` of the
pool themselves (`DirectRelease`), of which the promise does not hold.

### Supervisor

A step is what a thread does between two points where another can interfere:
taking the lock, a pipe operation that may block, reading `_process` or
`_is_shutting_down` without the lock. The lock itself needs no variable: it
is kept over several steps only by a client that writes to stdin
(`LockFree`). The reader of every worker is a thread of its own
(`Bind`, `Loop`, `ReadLine`, `EndOfFile`, `Dispatch`, `Ended`,
`FailPending`): it looks up `_process` when it first runs, which may be later
than the next restart. Workers (`Reply`, `Crash`) are external: they answer
the oldest request, or do nothing, or die. Pipes are bounded (`StdinCap`,
`StdoutCap`). A worker's output that is no JSON, or has no id, is skipped by
the reader and left out; so is JSON that is no object, which ends the reader's
thread (`engines/supervisor.py:142`). `ping` is a `send_request`.

### Lifecycle, StartupOrder

One thread drives it; what interleaves is failure, and calls from within
hooks: registrations, `transition` and `shutdown` may come while hooks run
(`toStart`), after which startup goes on where it was. `Transition` makes any
move of the table, the last two included: `stopping` tells a `shutdown` that runs from
a state that a caller has set. Kahn's algorithm, which the
plugin registry has too, is a recursive function over its turns
(`StartupOrder`). `shutdown` is `Shutdown`
(the forced transition and the order), one `ShutdownHook` per hook, and
`Stopped`; `MissingShutdownHook` is the KeyError of a started hook without a
partner. `attempted` is the history of the shutdown hooks that were called.
`run_startup_hooks` is not called by a hook.

### PipelineExecutor

One step runs one stage and all the executor makes of its outcome: merging,
failure mode, routing. The initial states are all pipelines: any failure mode
and any set of languages per stage, with and without
`per_segment_language`, given a resource or a DEGRADED Result of another
pipeline. `Returns` is everything a stage may do with its input; a segment
records the stages that processed it, which is how the properties tell a
segment from its replacement. Universal stages (`*`, or no list) are those
that support every language. `can_handle` is taken to agree with
`supported_languages`. Segments that overlap or have equal start times do not
occur, except for the halves of a split one.
What `_run_per_segment_stage` picks out and puts together again is written with
the places of the segments (`Picked`); `sorted()`, to which it resorts when a stage
has changed the number of segments, is a stable insertion sort (`ByStart`).

### DependencyContainer

Threads resolve names while others register them anew (`Register`,
`RegisterInstance`, with `override=True`), put fakes on them and take them off, and
enter and leave scopes. Only the look at the caches at the start of `resolve()`
(`ResolveFast`, `ResolveSlow`) and the caching of a singleton hold the lock. A step
is the look-up of one name in overrides, registrations and caches, of which only
parts are locked, taken as one (`LookupFinds`, `LookupCircular`, `LookupMisses`), or
the end of a construction with its caching (`Construct`, `ConstructFails`): a
factory takes time, the dictionary operations around it do not.

`stack[t]` holds what thread `t` constructs: a frame per name, with the
registration it began under and the parameters still missing, on top of one
that stands for the caller. It is both `stack` of `_resolve_internal` and
Python's own. A registration is its generation and lifetime; `needs` is the
same for each generation. Instances are numbered where they are shared
(singletons, and scoped ones in a scope); `given`, `raced` and `circular` are
history. Factories do not call the container. A name is looked up at once:
that `restore` may empty the list of fakes between the two accesses of line
404 and 405 is left out. Closing scoped instances changes nothing here.

### PluginRegistry

`initialize_all` is `InitializeAll` (the topological order) and one step per
plugin: `SkipPlugin` for one that failed before or depends on a failure,
`OnStartupReturns`, or `OnStartupRaises` with the rollback of the services it
has put into the container. The rollback goes by the names that are new
(`RolledBack`); a service the plugin has replaced stays replaced. Either call
may be made again, in any state of the plugins; registrations, by
`register_plugin` or by `discover` of entry points of which some cannot be
loaded or have a name that is taken, may come between two hooks. `failFast` is
an initial choice. `shutdown_all` goes through `_startup_order` reversed, in
which a name may be twice.

### ComponentRegistry, Assembly

`register` under each of the three conflict policies and `resolve` with its
cache are single steps, as both hold the lock. `Rank` is `_version_tuple`, for
which "1.0" and "1.00" are equal. `SetCache` is the validation of a
`FrameworkConfig`, the last of which decides for the whole process. Invalidation
is skipped while the cache is off; `missed` remembers for which keys that
happened, and `CacheTruthful` says exactly what may be stale because of it.

`Assembly` adds the scan of manifests, entry by entry, each with what is wrong
with it, while the application registers entries of its own, and `load_dict`,
stage by stage. `validated` is the cache of `Pipeline`: a key made of the
stages' names and versions, and what the check came to. `PipelineSound` is about
every `Pipeline` that was constructed, checked or remembered.

### Middleware

The registry has no lock. An executor takes its chain from it in the steps of
`BuildChain`: it looks whether there is a cached one (`LookForChain`), and takes it
(`TakeChain`; the KeyError when it was cleared in between leaves the executor
without middleware) or lists the entries (`ListEntries`) and stores the chain
(`StoreChain`), while others register and remove. It then runs the chain in a thread
of its own, a hook at a step. `Order` is the place of a name among all (priority,
name) pairs, so no two names share one, and `Sorted` gives an entry the place that
as many others precede. Four variables are history: `overtaken` says which runs hold
a listing that is older than the registry, `outdated` that such a one was cached,
`standing` what was registered all the time that a chain is built, and `told` the
hooks a run called and how each ended (returned, answered with a Result, raised).
`ChainCurrent` excepts the outdated chain, `RegisteredIsCalled` does not.
`GateHolds` and `OutcomeEarned` are about `told`, `OwnTime` about the one `_start`
of a `TimingMiddleware` that runs share.

### ModelFiles

Clients are threads of processes; a process has one `ResourceManager` with its
lock. Of a file the content is kept as absent, empty, cut, foreign or whole:
`Stream` may deliver any of the first two or the whole and goes on, raises or
is interrupted; `Crash` ends a process between any two steps. `get` verifies
before it moves (`VerifyTemp`, `Move`), `_download_stream` only looks whether
anything came. `rmtree` of `delete` removes entry by entry what it has listed,
while downloads go on. `litter` is what stays behind.

### WordAlignment, Dubbing

Times are ticks of 25 ms and all thresholds are whole numbers of them. Of a
text the model keeps how long it takes to say and how it can be split. A step
is `run` of one component on the Result of the one before: `Align` (either
aligner), `Model`, `TimeDialogue` (optional), `Synthesise`, `Stretch`
(optional), `Merge`, `Evaluate`. An artifact is whose text it says and how
long it is. `source` is kept to compare with; it is any sequence of what
`Segment.__post_init__` accepts (`Inputs`), in any order and with overlaps, so that
`TimingOrderly` speaks of neighbours that do not overlap to begin with. A segment
carries from the start what later components write into its metadata, with the
values they read when nothing was written. The aligners' cursors (`Cursors`,
`Walked`, `Consumed`) are recursive functions, one turn of a loop per argument.

### Results, Recognition, Synthesis, Serving

A word is which of the words that were said it stands for, and its language; a text
is a sequence of words. This is enough to see a word dropped, said twice or out of
order through transcription, splitting into spans, clauses and chunks, translation
and synthesis. `run` of a component is an operator: the set of outcomes on an input
and the files, each a Result with the files written and read and the words that the
answer of a service left out (`lost`), or `Raises`. Voice, consent (of the Result,
of each segment, of the reference), the recording that a segment names as its
reference, warnings and the degraded status are carried as each component carries
them: most construct a new Result and hand on only some of it.

A component that is constructed in several ways is several stages: OmniVoice with
and without a reference of its own, voice-conditioned TTS with a reference that
consents, with one that does not, with an embedding, or with none.

In `Serving` a process is given a sequence of jobs: a pipeline, whose stages run one
after the other under the executor's failure modes (`StageReturns`, `StageRaises`),
or requests to a server: speech (`Resolve`, `Extract`, `Synthesize`, `Sent`), a
clone (`Truncate`, `Complete`), a listing, a translation with its three fallbacks. A
pipeline may speak in several stages. Files in the temporary directory are named by
rule, so that processes write the same ones: `disturbed` is what others have written
under a task's files. A `Crash` of a server may leave half a pack (`Torn`) and is
followed by a start, which reads the index again; a `save` that raises
(`SaveRaises`) may leave an archive without some of its members (`Partial`), and the
index as it was. The rate limiter prunes, counts and refuses as the code does,
requests without the token included.

## 3. The runs

| Run | Bounds | States | Checks |
|---|---|---|---|
| `resource_pool` | 4 clients, `max_size` 2, `min_idle` 1, 5 calls, 6 resources | 202 k | `NoLostWakeup`, refinement of `LeasePool` (`ImplementsLeases`), `CallsReturn` |
| `supervisor` | 2 clients, 1 restart, 1 start, 2 requests | 118 k | `OneWorker`, `OwnAnswer`, `ShutdownSticks`, `CallsReturn` |
| `supervisor_full_pipe` | stdin holds 1 request, 3 requests | violation | `CallsReturn` fails (Disagreements, 1) |
| `lifecycle` | 3 names up to permutation, 3 startup hooks | 360 k | `OrderSound`, `DependenciesUp`, `DependentsStopFirst`, `ShutdownCompletes` |
| `pipeline_executor` | 3 stages, 2 languages, 2 segments | 1.5 M | `StatusTruthful`, `ConsentKept`, `RoutingKeepsOthers` |
| `dependency_container` | 2 threads, 2 names, 1 scope, 2 calls, 1 change | 441 k | `SingletonAgreement`, `FreshUnlessRaced`, `CyclesDetected` |
| `assembly` | 2 keys, 3 versions, 4 implementations, 4 searches, 2 configurations | 1.1 M | `CacheTruthful`, `ManifestPrefixes`, `PipelineSound` |
| `plugins` | 3 plugins in 5 graphs, 2 services, 2 calls of `initialize_all` | 835 k | `FailuresIsolated`, `ActiveOnActive`, `ServicesKept` |
| `middleware` | 2 runs, 2 names in 2 scopes, 2 objects | 641 k | `ChainCurrent`, `GateHolds`, `OutcomeEarned` |
| `model_files` | 3 threads of 2 processes, 3 calls, a model of 2 files, 1 pinned file | 2.0 M | `ReturnedVerified`, `FetchedOnce` |
| `dubbing` | pairs of segments: 8 texts each, 3 lengths each, 3 gaps, 6 sets of cues, 5 speeches | 2.2 M | `WordsTile`, `TimingOrderly`, `NeverLate`, `StretchOwn`, `NoCreditForSilence` |
| `serving` | 29 pipelines, with and without consent, 2 processes, 3 voices, a limit of 1 in a window of 1 | 1.1 M | `OwnAudio`, `HeardIsSpoken`, `SpokenOnce`, `NoVoiceWithoutConsent`, `VoiceOfConsent`, `ListedIsReadable`, `RateHolds` |

Every property of a passing run has a mutant in `PROJECT.json`: a plausible
bug, written beside the definition it replaces and marked "Mutant", under
which TLC finds the property violated.

Eight more configurations are no runs: each asks for one property that a document
promises and the code does not keep, and TLC answers with a counterexample.

| Configuration | Property | Disagreement |
|---|---|---|
| `MCResourcePoolDirect.cfg` | `LeaseExclusive`, of `DirectSpec` | 2 |
| `MCSupervisorCrash.cfg` | `CrashesAreOwn` | 3 |
| `MCLifecycleLifo.cfg` | `LastRegisteredStopsFirst` | 4 |
| `MCPipelineExecutorSkip.cfg` | `SkipContinues` | 5 |
| `MCMiddlewareTime.cfg` | `OwnTime` | 6 |
| `MCMiddlewareLost.cfg` | `RegisteredIsCalled` | 7 |
| `MCServingVoices.cfg` | `EveryVoiceConsents` | 8 |
| `MCServingListed.cfg` | `ListedIsAvailable` | 9 |

Why the bounds are enough.

* *pool*: one client more than resources to have waiters, and a fourth to barge
  in while one is woken and another times out; five calls let one of them come
  back. Six resources let `close` and creation follow each other.
* *supervisor*: two clients to have one restart the worker while the other's
  crash is on its way, and two workers in a row to confuse readers.
* *life cycle*: three hooks give every shape of graph that matters: chain, fork,
  join, cycle with and without an outsider, unknown name. The names are
  numbered in the order in which startup hooks register (`NumberedInTurn`), as nothing
  else tells them apart.
* *executor*: three stages allow a failure before and after a success, and a
  result that has been degraded, then replaced, then skipped; two segments of
  two languages make every split between routed and skipped.
* *container*: two threads with a call each are what it takes to construct one
  name twice, and one change what it takes to replace it meanwhile; two names in
  six graphs meet every case of the look-up. Two changes were checked once (6.3
  million states) with the same result.
* *assembly*: two versions that compare equal and a higher one are what the
  policies and `latest` tell apart; an entry that is wrong stands between two
  that are not; a recogniser that comes in two languages under one name and
  version is what the validation key cannot see.
* *plugins*: three plugins for a chain, two dependents on one, one on two, and a
  cycle; the second call of `initialize_all` is the one that meets states left
  by the first.
* *middleware*: two runs to share one object, and for one to store a chain that
  the other takes; two objects make chains of up to two entries, of which either may
  fail, and let one be replaced or removed.
* *model files*: two threads race for one lock, the third in a process that does
  not have it; one required and one optional file are the two ways a transfer
  may end.
* *dubbing*: lengths, estimates, gaps and cues lie on both sides of every
  threshold (0.05 s, 0.1 s, 0.15 s, the ratios 1.35 and 1.75, 1.6 and 0.65 of
  the stretcher), and two segments are enough to collide; they may overlap in the
  transcript already, which nothing forbids.
* *serving*: the pipelines contain every component that ships, and each pair of
  neighbours the code assembles or the documents show, two that speak more than once,
  and three that are handed a voice unasked; two words, one of
  them foreign, make every way of cutting a text. One of the two processes is an
  HTTP server: two that both write packs are not in the run, and
  `ListedIsReadable` says so. A limit of one request in a window of one tick
  meets both ends of the window within the clock's two.

In the pool `close` is always possible, so that clients blocked for ever are
found by `CallsReturn` and not as a deadlock; `assembly` cannot stop either,
as configurations may be loaded for ever. All other runs set
`CHECK_DEADLOCK FALSE`, because their systems stop when the bounded calls are
used up, the pipeline has ended, or the framework has stopped.

### Fairness

* pool: a thread that was woken gets the lock; a timeout passes; the holder of
  a wrapper returns it (the `with` statement does). New calls are not fair.
* supervisor: threads inside a call are scheduled and timeouts pass, reader
  threads are scheduled, `shutdown` gets on with it. Nothing is assumed of the
  worker. `CallsReturn` holds while the requests that may be unanswered at one
  time fit into the pipe, and fails otherwise.
* life cycle: shutdown hooks come to an end. Startup hooks and
  the caller need not.
* the others: no liveness. A stage, a factory, a hook or a transfer may run for
  ever, and nothing in the code bounds it.

## 4. What is proved

The `*Proofs` modules hold theorems, for every value of the constants under the named
assumptions of the modules they extend (finite sets of clients or names, limits
in `Nat`, special values outside of the sets they stand beside).

| Module | Theorems | Argument |
|---|---|---|
| `ResourcePoolProofs` | `TypeCorrect`, `PoolInOrder`, `NeverLeasedTwice`, `BooksAlwaysBalance`, `NeverOverCapacity`, `NoWakeupIsLost`, `PoolImplementsLeases` | see below |
| `SupervisorProofs` | `TypeCorrect`, `NeverTwoWorkers`, `NothingLeaks`, `AnswersMatch`, `CrashesAreReported`, `ShutdownLasts` | see below |
| `StartupProofs` | `KahnSorts`, `StartupInvariant`, `OrderAlwaysSound`, `StartsAfterDependencies`, `StopsBeforeDependencies`, `StoppedIsFinal`, `PluginInvariant`, `FailuresStayLocal`, `ActiveNeedsActive`, `RollbackKeepsServices` | see below |
| `StartupProofs`, model files | `PathsAreVerified`, `ResourcesAreFetchedOnce`, `DownloadsAreComplete`, `FailuresLeaveNothing` | only a verified file is moved to a pinned place, which no `delete` lists (`Pins`); the lock is held from the second look to the end (`Locks`); an undisturbed download leaves what it has passed (`Passed`) |
| `PipelineRunProofs`, middleware | `CacheStaysCurrent`, `RunsInvariant`, `GateNeverOpen`, `OutcomesAreEarned` | see below |
| `PipelineRunProofs`, executor | `WarningsAccumulate`, `StatusNeverFlatters`, `ConsentNeverLost` | every value goes through `Merge` before it becomes the running Result, and `Sound` values stay sound under `Merge`, `Mark` and `degrade` |
| `PipelineRunProofs`, routing | `ExecutorInOrder`, `ExecutorTypes`, `RoutingKeepsTheRest` | see below |
| `DependencyContainerProofs` | `SingletonsAgree`, `SingletonsAreFresh`, `CyclesAreDetected` | what was given out since the registration is what is cached (`Cache`); a construction that was not raced is one of the current registration (`Constructions`); the names on a stack differ and lead by parameters from each to the next (`Linked`), so a pigeonhole bounds the path of a cycle |
| `PipelineProofs`, assembly | `AnswersAreCurrent`, `HighestVersionWins`, `EqualsAreKept`, `PipelinesFit`, `ManifestsLoadPrefixes` | a key the cache has missed is wrong at most about the latest version (`CacheSound`); entries kept together have one rank, the highest offered (`Ranked`); the key of the validation cache determines the outcome of the check (`Remembered`); the manifest under way is sound up to where it is read (`Readable`), and a registration supersedes what it drops (`RegisterStores`) |
| `PipelineProofs`, dubbing | `WordsAlwaysTile`, `TimingAlwaysOrderly`, `DubbedNeverLate`, `StretchesOwn`, `NoCreditWithoutSound` | see below |
| `ServingProofs` | `RateNeverExceeded`, `ListedCanBeRead`, `AudioStaysOwn`, `VoicesAreConsented`, `VoiceOfItsConsent`, `HeardWordsAreSpoken`, `WordsAreSpokenOnce` | see below |

*The pool.* `LeaseExclusive` is not inductive: from a state in which a resource
is both leased and idle, reusing it breaks exclusiveness. `PoolInv` takes it
together with `BooksBalance` and `Capacity`, and adds that a client inside
`acquire` holds nothing, because its old lease is forgotten when the new one is
granted. `PoolStep` shows that a step changes the pool in one of five ways
(reuse, create, return, empty, none), and one lemma for each shows that it keeps
`PoolInv`. `NoLostWakeup` is inductive on top of it: each way a thread leaves
`awake` without taking an idle resource needs the observation that it found
none. The refinement maps a client to the resource of its wrapper while that
is not released.

*The supervisor.* Nothing in the code says that a worker is dead when the next
one is spawned. The invariant numbers workers in the order of their spawning:
all before the one in `_process` have exited and all after it are unborn
(`Generations`). A client that writes does so to the current one, because it
holds the lock (`Calls`); a reader that goes on to fail requests has seen its
own worker dead (`Readers`), and a worker that runs during a shutdown is the
one being stopped (`Stopping`). `OneWorker`, `PendingExact`, `OwnAnswer`,
`CrashWakesCallers` and `ShutdownSticks` follow.

*Startup, teardown and plugins.* Kahn's loop is a recursive function, whose value
no prover computes. `KahnSorts` takes it apart: the function is determined by its
equation on the numbers up to its argument (`Unique`, by the least number at which
two solutions differ), so it may be unfolded turn by turn, and `TurnInv` is an
invariant of a turn: what is ordered and what waits are together all names, each
once, and what a name needs is ordered before it. When no name can be taken, those
that wait all need one that waits. On top of it, `StartupInv` says which hooks
have started, as a prefix of an order that was sound when it was made (`HooksInv`),
and that teardown goes through the started ones in the reverse (`TeardownInv`);
neither `DependenciesUp` nor `DependentsStopFirst` is inductive without the order.
For plugins, `PluginInv` takes together what a running call has still before it
(`CallInv`), that a plugin behind the call's place has failed exactly when its own
hook raised or a dependency failed (`FailureInv`), and that active plugins stand on
active ones up to that place (`ActiveInv`).

*Middleware.* `GateHolds` and `OutcomeEarned` speak of what a run was told, the
guards of what `phase` and `at` say. `RunFits` relates the two: in each phase, the
hooks told so far are those that lead there (every `before` up to `at`, every
`after` or `on_error` from the innermost to `at`, in this order, behind whatever
came first). `RunsInvariant` proves it for all runs, from one lemma per way of
moving on (`MovesKeepFit`). `CacheStaysCurrent` needs to know of every run between
listing and storing that its list is that of the registry unless it is in
`overtaken`, which `register` and `remove` keep by putting all such runs into it.

*Routing.* `RoutingKeepsOthers` compares the segments that are not for a stage before
and after it. When the stage returns as many segments as it was given, each goes back to
its place, which the counting of places must find (`PickedPlaces`). When it returns more
or fewer, the executor sorts by start time, and nothing is lost or reordered only if the
segments were in that order before: `OrderInv` says so of the running value and of the
Result, for whatever the stages return (`ReturnsOrderly`, `RecombineKeeps`).
`SortKeeps` is the lemma about the sort: it puts any segments in order, and leaves those
that a predicate picks out as they were if they were in order among themselves. It
inserts one segment at a time (`Inserted`, `NotForInserted`). The invariant also says
that a failure is of an earlier stage, so that a step that adds none and moves on is
a stage that succeeded.

*Dubbing.* None of the five properties is inductive: each speaks of one stage, and
rests on what the components before it have left. `Progress`, in `DubbingInv`, says
that for every stage. A segment keeps the times of the transcript until it is timed
(`Original`); what the duration model lets be compressed has a window, and a target
within it (`Ready`); the ends move by the tolerance at most and to where they snap
(`Placed`, `Snaps`). By arithmetic over the three thresholds every part that such a
segment is dubbed as ends in time (`FittedOnTime`), and by facts about `FlattenSeq`
each part has its file, in its place as long as none was skipped (`VoicedFiles`).
From then on a dubbed segment is in time, is marked when it was skipped, and has a
file otherwise (`Dubbed`), which stretching and merging keep because they rename no
file. `TimingOrderly` needs in addition that snapping is monotone, whatever the
cues, which is where "of two cues the earlier" matters (`SnappedMonotone`).
`WordsTile` is about operators: their cursors are recursive functions over the words
and letters, and bounds on them are carried from each word to the next
(`CursorsBounded`, `WalkedBounded`, `ConsumedBounded`), so that the words are in
order and inside their segment (`DistributedTiles`, `AnchoredTiles`).

*Serving.* `RateHolds` looks at every window of the past, the limiter only at its
queue. `RateInv` relates them: the queue is the end of what was admitted, all that
has left it was admitted before the window that ends now, and it is no longer than
the limit; of the admissions in a window that starts at one of them, the ones still
in the queue when the last was let in are then all of them. `ListedIsReadable` needs
the index to be true of the disk (`PackInv`): what the only server knows of is
complete, but for the pack it is writing at the moment and those at which a `save`
raised (`Partial`), and while it writes it lists nothing. Both rest on `TaskInv`, which
says what a process may be doing with which job, and on the assumptions about what a
process is asked for: only an HTTP server (`Limited`) clones voices, and the names of
people are no names that components give a voice.

*Files, voices and consent.* The `serving` run tries fifteen chains of components;
the theorems are about any chain, of any of the 27 stages in any order. `OwnAudio`
holds of pipelines that speak in any number of stages: two that write into one
directory give their files the same names (`Sharing`), and then a file holds what
one of the two made. `NoVoiceWithoutConsent` and the properties of words are about
pipelines that speak once (`SpeaksOnce`): a second stage of speech synthesis takes
the voice from a file of the first, over which another process may have written.
They rest on lemmas that say for every input what each component's `run` and
`degrade` can return: those that make no audio (`Mute`: recognition, language
identification, translation, duration modelling) hand on the artifacts and the
embedding they were given or drop them; speech synthesis (`Speaks`) adds files of
its own directory, none with two contents, in a voice it may use; the blender
(`Blends`) puts one file before the others; and in no Result is there a consent that
was not in the input. `StageContinues` and `DegradedContinues` put them together for
a stage of a pipeline. None of the three properties is inductive.
`NoVoiceWithoutConsent` is about audio that exists, but a component speaks in the
voice of an embedding or an artifact that some earlier stage left. So `Prepared`, in
`AudioInv`, says of a pipeline that has yet to speak that it has no audio but the
recording, and an embedding of a person only by right (`Ready`), and of any pipeline
that all its audio is the recording, a mixture, or speech by right (`Accounted`).
`OwnAudio` needs to know that an answer and a stage name only files that were just
written or held before (`Continues`, `Holds`), and that what one process writes
shows in `disturbed` of the others (`WrittenFiles`). For `VoiceOfConsent`,
`VoiceInv` says that from the extraction to the answer the one reference is the file
of the voice, in the voice of the pack that was found, unless another process has
written it. Which words the files hold plays no part in these three. What the
consent of a voice is looked up for are the recording and the references that
components check; the voices that a pipeline is handed `Unasked` (Disagreements, 8)
are excepted by name, and only in the stages that use them.

*Words.* `HeardIsSpoken` is about chains that hear before they speak (`SpeaksLast`):
one stage of speech synthesis, and after it none that recognizes or translates. Any
other chain may lose words by its order alone, as when a transcript is recognized
again from the dub. The transcript that a pipeline starts from has to agree with
itself (`Faithful`): components read the words of a segment from its text or from
its metadata, and a caller may give two that differ. Of each component a lemma says
what becomes of words: a translator, language identification or the duration model
hands on the words of its input, or its answer has left them out (`Retells`); speech
synthesis puts each into a file or into a segment that it warns of (`Renders`); what
comes later keeps the files (`Keeps`). `HeardInv` says where the words are in
between: in the segments while there is no speech (`Hearing`), in the audio from
then on (`HasSpoken`), or excused. A warning and an omission, once there, stay
(`ExcusedStill`), because the executor joins the warnings of each stage to those
before.

*The order of words.* `SpokenOnce` is about jobs that are `Straight`: the words of
the recording, or of the transcript or text that the job starts from, are in the
order in which they were said, each once, at most one stage speaks, and at most one
cuts texts into spans of one language. A transcript may of course say a word twice,
and language identification gives each part of a segment the words of the whole, by
which a second one would cut again; no pipeline that ships has two.
`MCPlansStraight` has TLC see that every job of the run that speaks once is
straight. The theorem is about all chains, `degrade()` included. It needs two orders
of segments: by the words of their texts alone (`Turned`), and by those of texts and
metadata together (`Ordered`), because language identification cuts by the metadata
and leaves segments that are only `Turned` (`SplittingTurns`, from `SpansInTurn`),
while translation and the duration model keep either (`Tidy`). Recognition makes
`Ordered` segments of any input in turn (`RecognizedOrdered`), and speech synthesis
makes of `Turned` ones audio that says the words in turn (the second half of
`Renders`), through clauses, parts and warnings. `SpokenInv` requires as much order
as the stages ahead still use (`Telling`), and of the audio that it is in turn
(`Voicing`). That flattening sequences in turn gives one in turn (`RisingFlat`)
rests on where an element of a flattened sequence comes from (`FlattenedOrder` in
`SequenceFacts`).

TLC has checked `TaskInv`, `AudioInv`, `VoiceInv`, `HeardInv` and `SpokenInv` on the
instance of `serving` before they were proved.

Proved properties that are in no run, as TLC has nothing to add to the proof:
`LeaseExclusive` (of `Spec`; TLC refutes it of `DirectSpec`), `BooksBalance` and
`Capacity` of the pool; `PendingExact` and `CrashWakesCallers` of the supervisor;
`StoppedForGood`; `WarningsKept`; `HighestServed` and `OneRankKept`;
`ReturnedDownloaded` and `NoLitter`.

Only model-checked: liveness (`CallsReturn`, `ShutdownCompletes`), which is out
of the prover's reach.

## 5. Disagreements

Where the code does other than a document, a comment or a test says. For the first
nine TLC has a counterexample: the first is a run, the next eight have the
configurations of section 3. The others were met while modelling. The properties of the
passing runs leave each of them out, and say so in their comments.

1. A full stdin pipe blocks `send_request` beyond its timeout with the lock in
   hand, and with it every other call (`engines/supervisor.py:213`; "Timeout in
   seconds", line 177). Run `supervisor_full_pipe`.
2. `pool.release(wrapper)` on a wrapper released before frees the lease of
   whoever has the resource by then (`resources/pool.py:295`); the docstring
   (line 283) takes a second release for harmless. `MCResourcePoolDirect.cfg`.
3. The reader of a dead worker reports a crash to requests of its healthy
   successor (`engines/supervisor.py:160`). `MCSupervisorCrash.cfg`.
4. Shutdown hooks do not run "in reverse registration order (LIFO)"
   (`lifecycle.py:434`, `499`) but in the reverse of the order in which their startup
   hooks ran (line 507), as `docs/lifecycle.md:55` has it. `MCLifecycleLifo.cfg`.
5. SKIP after DEGRADED raises `ConfigurationValidationError` out of `run`
   (`pipeline/executor.py:417`; `docs/milestones.md:84`). `MCPipelineExecutorSkip.cfg`.
6. One `TimingMiddleware` keeps one `_start` for all runs; the time of a run may
   count from the start of another (`middleware/timing_mw.py:36`), also when one run
   follows the other and its own `before` was not reached. `MCMiddlewareTime.cfg`.
7. `build_chain` takes no lock: middleware registered during the call is missing from
   the chain that is cached from then on, and a cache that is cleared during the call
   leaves the executor without any middleware, a consent gate included
   (`middleware/registry.py:188-198`, `pipeline/executor.py:91`). `MCMiddlewareLost.cfg`.
8. OmniVoice speaks like the recording that `metadata["reference_audio"]` of a
   segment or its own `ref_audio_path` names (`components/tts/omnivoice.py:144`), and
   voice-conditioned TTS by the embedding it was constructed with
   (`components/tts/voice_conditioned.py:218`), with no consent on record;
   `utils/consent.py:8` speaks of "all voice-related components". `MCServingVoices.cfg`.
9. A `save` over a voice pack that raises leaves an archive that cannot be read, and
   the voice in the index (`voices/pack.py:109-128`, `voices/store.py:44-45`); it is
   listed as available (`api/routes.py:147`). `MCServingListed.cfg`.
10. A startup hook without a shutdown hook of its name raises KeyError, which
    ends teardown (`lifecycle.py:516`); "all hooks are attempted" (line 504).
11. When a caller has moved the state to SHUTTING_DOWN by `transition`, which the table
    allows, `shutdown` returns at once (`lifecycle.py:545-547`), at exit too: no hook
    runs, and STOPPED is not reached, of which `docs/lifecycle.md:20` says that the
    `atexit` handler ensures it.
12. Two threads that resolve a SCOPED name in one scope may be given two
    instances (`di/container.py:448`).
13. `load` registers the entries before a wrong one, though it says that errors
    are raised "before any registration occurs" (`registry/manifest.py:258-261`).
14. The language check of a `Pipeline` is skipped when a pipeline of the same
    names and versions has passed with other languages (`core/pipeline.py:221`;
    the key is made in lines 177-190).
15. `initialize_all` that is repeated under `fail_fast` leaves plugins active
    above a failed dependency, and `_startup_order` has names twice
    (`extensions/plugin.py:489`).
16. The docstring of the executor counts `ConsentMiddleware` among the default
    middleware (`pipeline/executor.py:65-66`), and the code does not put it there
    (lines 98-105).
17. A download whose connection ends early is installed as the whole file
    (`models/downloader.py:79`); it is not compared with the expected size.
18. A registration made while the caches are switched off leaves the old answer
    in place for when they are on again (`registry/registry.py:183`).
19. A segment of no length is split into parts of no length, not skipped
    (`components/alignment/duration.py:106-111`).
20. `time_stretch.py:220,246` matches artifacts to segments by index: behind a
    skipped segment it stretches the wrong file, and a video in front is lost.
21. `target_duration` stays what it was before snapping, and the parts of a split
    segment are each compared with the target of the whole.
22. The neural aligner multiplies a frame index with the length of the whole
    segment, which puts all words but the first behind its end before they are
    clipped (`components/alignment/neural.py:256`; the comment in lines 266-267
    speaks of the frame's own time).
23. `utils/consent.py:5-9` "Prevents silent processing of voice data
    without consent across all voice-related components": Whisper, the local
    Sunbird recognizer and the blender look at no consent. The consent of one
    segment counts for all of them (`ensure_consent`).
24. The speaker embedding of a Result that a recognizer made is computed from its
    texts, because recognizers drop the artifacts
    (`components/speaker/embedding.py:174`).
25. Half a voice pack on disk hides a preset of that name from speech and not from
    listings (`voices/store.py:53`, `api/routes.py:59-62`).
26. MMS drops a text that has no tokens without a warning
    (`components/tts/mms_tts.py:171`).
27. Another process overwrites the output files of a task, and the reference audio
    of a voice (`components/tts/omnivoice.py:145`, `voices/pack.py:169`); so do two
    stages of one pipeline that write into one directory, as the placeholder TTS and
    voice-conditioned TTS do when each is used twice.
28. When the translation service answers with fewer lines than it was given, the
    segments beyond are dropped (`components/translation/sunbird.py:202`).
29. A text that begins with a phrase of the lexicon is translated as that phrase
    alone (`languages/lexicon.py`, "Exact or longest phrase match").
30. The fallback of voice-conditioned TTS copies the reference recording instead of
    speaking the text (`components/tts/voice_conditioned.py:54-89`).

Also met, with no document that says otherwise: when the first stage is skipped,
the second is given the empty initial Result and not the input; `degrade` is
given the offending value when a stage returned no Result; a shutdown hook
registered during `shutdown` is never called, and a startup that goes on after
`shutdown` starts what nobody stops. In the container, a singleton whose
construction began before its name was registered anew is cached all the same
(`FreshUnlessRaced` excepts this case); a singleton built while a parameter of it
was overridden keeps the fake after `restore`. A rollback of a plugin leaves a
service that the plugin has replaced in its hands. Of the rate limiter, a refused
request does not count, and one without the token does.

## 6. Not modelled

* *Conversational agent* (`agent/converse.py`): the server makes a new agent for
  every request and one thread drives its turn to the end; nothing in the program
  interrupts it.
* *Configuration* beyond the switch of the caches, *errors, types, command line,
  package initialisation*: values read once, wording, argument parsing.
* *Observability*: logs, counters and spans, which nothing in the program reads.
* *Evaluation of transcripts and voices* (`eval/flywheel.py`,
  `eval/speaker_similarity.py`), *expression, studio, validation helpers*, the
  *tables* of lexicons, presets, evaluation sets and model descriptors: formulas
  and data without state.
* *Test doubles* (`testing/`): not part of the running system.
* *Signal processing, neural models, ffmpeg, HTTP and the cloud*: external; the
  models let them do anything the calling code can be given.
* In modelled components: serialisation, logging, type checks of arguments, the
  `clear_*` helpers of tests, and what the headers of the modules name.
* Points left out of single definitions: hooks that run the startup hooks once more
  (`lifecycle.py`); a registration in the middle of listing the middleware of the two
  scopes (`middleware/registry.py:193-195`), which is one step; of the look-up in
  `di/container.py:407-436`, what happens between its parts, such as that `restore`
  empties the list of fakes between lines 404 and 405; the order by end and text of
  segments that start together, for the halves of a split one are alike
  (`pipeline/executor.py:673`); a worker's JSON that is no object
  (`engines/supervisor.py:142`); consent for Resources that are no recordings, and the
  `consent_basis` in the metadata of a Result, which no component writes
  (`utils/consent.py:56-68`, `88-92`); `reference_audio` that is present and None, which
  takes the component's own reference away (`omnivoice.py:144`); an embedding and a
  reference given to one voice-conditioned component at once.
* Not in any one model: an executor inside a worker process, a life cycle that
  drives real plugins. `PluginRegistry` has the container's services and the
  CONFIGURING state in it, which is all they share.

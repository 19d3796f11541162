----------------------------- MODULE Middleware -----------------------------
(***************************************************************************)
(* lingualdub.middleware: MiddlewareRegistry with its cache of built       *)
(* chains, MiddlewareChain.run() as PipelineExecutor.run() calls it, and   *)
(* TimingMiddleware, whose one start time all the runs share.              *)
(*                                                                         *)
(* An executor takes its chain from the registry when it is made, and runs *)
(* it in a thread of its own; middleware is registered, replaced and       *)
(* removed meanwhile.  The registry has no lock: build_chain() is four     *)
(* steps, one at each place where it looks at what they share; the listing *)
(* of the two dictionaries is one of them.  Otherwise a step is one hook,  *)
(* or the pipeline.  Hooks other than those of TimingMiddleware do         *)
(* anything the protocol lets them.                                        *)
(* What a context or a Result contains is left out; the pipeline's own     *)
(* behaviour is in PipelineExecutor.                                       *)
(***************************************************************************)
EXTENDS Naturals, Sequences, SequencesExt, FiniteSets

CONSTANTS Runs,           \* runs of the pipeline, each by an executor of its own
          Names,          \* names of middleware
          Order,          \* their order by (priority, name)
          Timing,         \* the name of TimingMiddleware
          MaxObjects      \* bound: middleware objects registered

ASSUME MiddlewareConstants == /\ IsFiniteSet(Names)
                              /\ Order \in [Names -> Nat] /\ IsInjective(Order)
                              /\ Timing \in Names
                              /\ MaxObjects \in Nat

VARIABLES globals,        \* _global: the object of each name, 0 for none
          scoped,         \* _scoped of the pipeline
          buildCache,     \* _build_cache of the pipeline: a chain, or NotBuilt
          cacheOn,        \* config.is_cache_enabled()
          objects,        \* objects made so far
          overtaken,      \* history: runs with a listing older than the registry
          outdated,       \* history: the cached chain was such a listing
          standing,       \* history: what was registered all the time a chain is built
          chain,          \* per run: the middleware of its chain
          phase,          \* where build_chain() or run() is
          at,             \* the place in the chain it is at
          told,           \* history: the hooks it called, and how they ended
          start,          \* per object: the run that set _start of TimingMiddleware
          timed           \* per run: the run whose start its time counts from

registryVars == <<globals, scoped, buildCache, cacheOn, objects>>
buildVars == <<overtaken, outdated, standing>>
runVars == <<chain, phase, at, told>>
timingVars == <<start, timed>>
vars == <<registryVars, buildVars, runVars, timingVars>>

Scopes == {"global", "pipeline"}
Building == {"cached", "uncached", "listed"}
Phases == Building \cup
          {"new", "before", "pipeline", "after", "error", "returned", "raised"}
NotBuilt == <<[name |-> "none", object |-> 0]>>
Nobody == "nobody"

Init == /\ globals = [n \in Names |-> 0]
        /\ scoped = [n \in Names |-> 0]
        /\ buildCache = NotBuilt
        /\ cacheOn \in BOOLEAN
        /\ objects = 0
        /\ overtaken = {} /\ outdated = FALSE /\ standing = [r \in Runs |-> {}]
        /\ chain = [r \in Runs |-> <<>>]
        /\ phase = [r \in Runs |-> "new"]
        /\ at = [r \in Runs |-> 0]
        /\ told = [r \in Runs |-> <<>>]
        /\ start = [o \in 1..MaxObjects |-> Nobody]
        /\ timed = [r \in Runs |-> Nobody]

-----------------------------------------------------------------------------
\* list_middleware(pipeline): the global ones and those of the pipeline by
\* priority and name; of two with the same name the global one is first.
Precedes(x, y) == \/ Order[x.name] < Order[y.name]
                  \/ x.name = y.name /\ x.scope < y.scope

Sorted(entries) ==
    LET At(i) == CHOOSE x \in entries : Cardinality({y \in entries : Precedes(y, x)}) = i - 1
    IN [i \in 1..Cardinality(entries) |-> [name |-> At(i).name, object |-> At(i).object]]

Bucket(objectOf, scope) ==
    {[name |-> n, object |-> objectOf[n], scope |-> scope] : n \in {m \in Names : objectOf[m] # 0}}

Listed == Sorted(Bucket(globals, 0) \cup Bucket(scoped, 1))
Registered == {n \in Names : globals[n] # 0 \/ scoped[n] # 0}

\* Mutant: the cache is cleared only while it is in use, as in Registry.
ClearIfEnabled == IF cacheOn THEN NotBuilt ELSE buildCache

Cleared == NotBuilt

\* What register() and remove() do to the cache, and to chains being built.
ClearCache == /\ buildCache' = Cleared
              /\ outdated' = FALSE
              /\ overtaken' = {r \in Runs : phase[r] = "listed"}
              /\ standing' = [r \in Runs |-> standing[r] \cap Registered']

\* register(middleware, scope, override)
Register(n, scope, override) ==
    /\ objects < MaxObjects
    /\ objects' = objects + 1
    /\ LET bucket == IF scope = "global" THEN globals ELSE scoped
           added == [bucket EXCEPT ![n] = objects + 1]
       IN /\ bucket[n] = 0 \/ override      \* else RegistrationConflictError
          /\ IF scope = "global" THEN globals' = added /\ UNCHANGED scoped
                                 ELSE scoped' = added /\ UNCHANGED globals
    /\ ClearCache
    /\ UNCHANGED <<cacheOn, runVars, timingVars>>

\* remove(name, scope); with scope=None from everywhere
RemoveMiddleware(n, scopes) ==
    /\ \/ "global" \in scopes /\ globals[n] # 0
       \/ "pipeline" \in scopes /\ scoped[n] # 0
    /\ globals' = IF "global" \in scopes THEN [globals EXCEPT ![n] = 0] ELSE globals
    /\ scoped' = IF "pipeline" \in scopes THEN [scoped EXCEPT ![n] = 0] ELSE scoped
    /\ ClearCache
    /\ UNCHANGED <<cacheOn, objects, runVars, timingVars>>

SetCache == /\ cacheOn' = ~cacheOn
            /\ UNCHANGED <<globals, scoped, buildCache, objects, buildVars, runVars, timingVars>>

\* PipelineExecutor(pipeline, middleware_registry=...): build_chain() asks
\* whether the cache is on and has a chain.
LookForChain(r) ==
    /\ phase[r] = "new"
    /\ phase' = [phase EXCEPT ![r] = IF cacheOn /\ buildCache # NotBuilt THEN "cached" ELSE "uncached"]
    /\ standing' = [standing EXCEPT ![r] = Registered]
    /\ UNCHANGED <<registryVars, overtaken, outdated, chain, at, told, timingVars>>

\* The executor has its chain; without entries its run() is the pipeline alone.
Ready(r, built) ==
    /\ chain' = [chain EXCEPT ![r] = built]
    /\ phase' = [phase EXCEPT ![r] = IF built = <<>> THEN "pipeline" ELSE "before"]
    /\ at' = [at EXCEPT ![r] = IF built = <<>> THEN 0 ELSE 1]
    /\ standing' = [standing EXCEPT ![r] = {}]
    /\ UNCHANGED told

\* A chain that was cleared since is a KeyError, and the executor, which catches
\* it, is left without any chain.
TakeChain(r) ==
    /\ phase[r] = "cached"
    /\ Ready(r, IF buildCache = NotBuilt THEN <<>> ELSE buildCache)
    /\ UNCHANGED <<registryVars, overtaken, outdated, timingVars>>

ListEntries(r) ==
    /\ phase[r] = "uncached"
    /\ chain' = [chain EXCEPT ![r] = Listed]
    /\ phase' = [phase EXCEPT ![r] = "listed"]
    /\ overtaken' = overtaken \ {r}
    /\ UNCHANGED <<registryVars, outdated, standing, at, told, timingVars>>

\* Whether the cache is on is looked up once more.
StoreChain(r) ==
    /\ phase[r] = "listed"
    /\ Ready(r, chain[r])
    /\ buildCache' = IF cacheOn THEN chain[r] ELSE buildCache
    /\ outdated' = IF cacheOn THEN r \in overtaken ELSE outdated
    /\ overtaken' = overtaken \ {r}
    /\ UNCHANGED <<globals, scoped, cacheOn, objects, timingVars>>

BuildChain(r) == LookForChain(r) \/ TakeChain(r) \/ ListEntries(r) \/ StoreChain(r)

-----------------------------------------------------------------------------
Hook(r) == chain[r][at[r]]
IsTiming(r) == Hook(r).name = Timing

\* self._start
Clock(r) == Hook(r).object

\* How a hook ends: it returns nothing, or a Result, or it raises.  Those of
\* TimingMiddleware never raise, and its before() never short-circuits.
Tell(r, hook, end) ==
    told' = [told EXCEPT ![r] = Append(@, [hook |-> hook, at |-> at[r], end |-> end])]

Goto(r, p, i) == phase' = [phase EXCEPT ![r] = p] /\ at' = [at EXCEPT ![r] = i]

\* The pipeline is next behind the innermost before().
Inwards(r) == IF at[r] = Len(chain[r]) THEN Goto(r, "pipeline", 0)
                                       ELSE Goto(r, "before", at[r] + 1)

\* _run_after() goes from the innermost outwards; run() returns behind it.
IntoAfter(r, i) == IF i = 0 THEN Goto(r, "returned", 0) ELSE Goto(r, "after", i)

\* _handle_error() asks every on_error, the innermost first.
IntoError(r) == IF chain[r] = <<>> THEN Goto(r, "raised", 0)
                                   ELSE Goto(r, "error", Len(chain[r]))

\* Mutant: a before() that raises is logged and passed over.
PassOver(r) == Inwards(r)

BeforeRaised(r) == IntoError(r)

Before(r) ==
    /\ phase[r] = "before"
    /\ \/ Tell(r, "before", "none") /\ Inwards(r)
       \/ ~IsTiming(r) /\ Tell(r, "before", "result") /\ IntoAfter(r, Len(chain[r]))
       \/ ~IsTiming(r) /\ Tell(r, "before", "raise") /\ BeforeRaised(r)
    /\ start' = IF IsTiming(r) THEN [start EXCEPT ![Clock(r)] = r] ELSE start
    /\ UNCHANGED <<registryVars, buildVars, chain, timed>>

\* pipeline_fn(context)
Pipeline(r) ==
    /\ phase[r] = "pipeline"
    /\ \/ Tell(r, "pipeline", "result") /\ IntoAfter(r, Len(chain[r]))
       \/ Tell(r, "pipeline", "raise") /\ IntoError(r)
    /\ UNCHANGED <<registryVars, buildVars, chain, timingVars>>

After(r) ==
    /\ phase[r] = "after"
    /\ \/ Tell(r, "after", "none") /\ IntoAfter(r, at[r] - 1)
       \/ ~IsTiming(r) /\ Tell(r, "after", "raise") /\ IntoError(r)
    /\ LET set == start[Clock(r)]
       IN timed' = IF ~IsTiming(r) THEN timed
                   ELSE [timed EXCEPT ![r] = IF set = Nobody THEN r ELSE set]
    /\ UNCHANGED <<registryVars, buildVars, chain, start>>

\* Mutant: an on_error() that raises ends the handling.
RaisingEnds(r, end) ==
    IF at[r] = 1 \/ end = "raise" THEN Goto(r, "raised", 0) ELSE Goto(r, "error", at[r] - 1)

\* No Result from on_error(): the next one is asked; behind the last one the
\* exception goes on.
Unhandled(r, end) == IF at[r] = 1 THEN Goto(r, "raised", 0) ELSE Goto(r, "error", at[r] - 1)

OnError(r) ==
    /\ phase[r] = "error"
    /\ \/ ~IsTiming(r) /\ Tell(r, "error", "result") /\ Goto(r, "returned", 0)
       \/ \E end \in {"none", "raise"} :
             /\ ~IsTiming(r) \/ end = "none"
             /\ Tell(r, "error", end) /\ Unhandled(r, end)
    /\ start' = IF IsTiming(r) THEN [start EXCEPT ![Clock(r)] = Nobody] ELSE start
    /\ UNCHANGED <<registryVars, buildVars, chain, timed>>

Step(r) == BuildChain(r) \/ Before(r) \/ Pipeline(r) \/ After(r) \/ OnError(r)

Next == \/ \E n \in Names :
              \/ \E scope \in Scopes, override \in BOOLEAN : Register(n, scope, override)
              \/ \E scopes \in SUBSET Scopes : RemoveMiddleware(n, scopes)
        \/ SetCache
        \/ \E r \in Runs : Step(r)

Spec == Init /\ [][Next]_vars

-----------------------------------------------------------------------------
Entry == [name : Names, object : 1..MaxObjects]
Call == [hook : {"before", "pipeline", "after", "error"}, at : Nat, end : {"none", "result", "raise"}]

\* The variables hold values of their types.
TypeOK == /\ {globals, scoped} \subseteq [Names -> 0..MaxObjects]
          /\ buildCache = NotBuilt \/ buildCache \in Seq(Entry)
          /\ cacheOn \in BOOLEAN
          /\ objects \in 0..MaxObjects
          /\ overtaken \in SUBSET Runs /\ outdated \in BOOLEAN
          /\ standing \in [Runs -> SUBSET Names]
          /\ chain \in [Runs -> Seq(Entry)] /\ phase \in [Runs -> Phases] /\ at \in [Runs -> Nat]
          /\ told \in [Runs -> Seq(Call)]
          /\ start \in [1..MaxObjects -> Runs \cup {Nobody}]
          /\ timed \in [Runs -> Runs \cup {Nobody}]

\* registry.py: whatever was registered, replaced and removed, and however the
\* cache was switched meanwhile, a chain kept in _build_cache is the one that
\* would be built now, unless the registry has changed between the listing of
\* its entries and the caching.
ChainCurrent == buildCache # NotBuilt /\ ~outdated => buildCache = Listed

\* "Combines global + pipeline-scoped middleware" (build_chain), and "After
\* registration mutation, cache invalidated => new content"
\* (tests/test_pev_boost.py): what is registered from the call to the return of
\* build_chain() is in the chain of the executor.
RegisteredIsCalled ==
    [][\A r \in Runs : phase[r] \in Building /\ phase'[r] \notin Building =>
          standing[r] \subseteq {chain'[r][i].name : i \in DOMAIN chain'[r]}]_vars

Hooks(r, hook) == {i \in DOMAIN told[r] : told[r][i].hook = hook}

\* base.py run(): the pipeline runs at most once, and only when every before()
\* of the chain, the consent gate's too, has returned without a Result, each
\* once and the outermost first.
GateHolds ==
    \A r \in Runs : \A k \in Hooks(r, "pipeline") :
        /\ k = Len(chain[r]) + 1
        /\ \A i \in 1..k-1 : told[r][i] = [hook |-> "before", at |-> i, end |-> "none"]

\* The last hooks a run called were those of the whole chain, innermost first.
EndedWith(r, hook, ends) ==
    LET n == Len(chain[r])  m == Len(told[r])
    IN /\ m >= n
       /\ \A j \in 1..n : /\ told[r][m - n + j].hook = hook
                          /\ told[r][m - n + j].at = n + 1 - j
                          /\ told[r][m - n + j].end \in ends

\* base.py run(): an exception leaves the chain only when every on_error() was
\* asked, the innermost first, and none of them had a Result, whatever they
\* raised themselves; a Result leaves it from the one on_error() that had it,
\* or when every after() has seen it.
OutcomeEarned ==
    \A r \in Runs :
        /\ phase[r] = "raised" => EndedWith(r, "error", {"none", "raise"})
        /\ phase[r] = "returned" =>
              \/ EndedWith(r, "after", {"none"})
              \/ LET last == Len(told[r])
                 IN /\ told[r][last].hook = "error" /\ told[r][last].end = "result"
                    /\ \A i \in Hooks(r, "error") : i < last => told[r][i].end # "result"

\* "Measures execution time" and "Clean up start to avoid stale value for next
\* run (middleware instance may be reused)" (timing_mw.py): the time in the
\* Result of a run counts from its own start.
OwnTime == \A r \in Runs : timed[r] \in {r, Nobody}
=============================================================================

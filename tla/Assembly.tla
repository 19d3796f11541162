----------------------------- MODULE Assembly ------------------------------
(***************************************************************************)
(* How a pipeline comes together: lingualdub.registry.manifest fills the   *)
(* component registry from manifests, lingualdub.pipeline.config_loader    *)
(* resolves the stages of a configuration, and core.pipeline.Pipeline      *)
(* checks that they fit and remembers what it has checked.                 *)
(*                                                                         *)
(* A manifest is a sequence of entries, each with what is wrong with it;   *)
(* scan() and load() go through it entry by entry while other threads      *)
(* register, resolve and load configurations, and load_dict() resolves     *)
(* stage by stage.  Parsing of JSON and YAML, the walk through the         *)
(* directories and the types of the fields are left out.                   *)
(***************************************************************************)
EXTENDS ComponentRegistry, SequencesExt

CONSTANTS Placeholder,    \* what an entry registers when imports are not verified
          Traits,         \* per implementation: name and version, requires,
                          \* provides, supported_languages
          Searches,       \* manifests a scan may come across, in order
          Configs,        \* pipeline configurations
          UserEntries     \* what the application registers itself, each version once

Faults == {"none", "schema", "import"}
ManifestEntries == [key : Keys, version : Versions, impl : Impls, fault : Faults]

ASSUME AssemblyConstants ==
    /\ Placeholder \in Impls /\ DOMAIN Traits = Impls \ {Placeholder}
    /\ Searches \subseteq Seq(Seq(ManifestEntries))
    /\ UserEntries \subseteq [key : Keys, version : Versions, impl : Impls]
    /\ \A c \in Configs : c.stages \in Seq([key : Keys, version : Queries])

VARIABLES search,         \* manifests the scan comes across
          strict,         \* load() of one manifest in place of scan()
          verify,         \* verify_imports
          at,             \* place of the next entry: manifest and index
          scan,           \* "running", "done", "raised" (left with an exception)
          loading,        \* load_dict() calls: configuration and stages resolved
          pipeline,       \* the last Pipeline constructed
          validated       \* _validate_cache

scanVars == <<search, strict, verify, at, scan>>
pipelineVars == <<loading, pipeline, validated>>
vars == <<registryVars, scanVars, pipelineVars>>

NoConfig == [stages |-> <<>>, source |-> "none", target |-> "none", routed |-> FALSE]
Idle == [config |-> NoConfig, stages |-> <<>>]

Init == /\ RegistryInit
        /\ search \in Searches
        /\ strict \in BOOLEAN /\ (strict => Len(search) = 1)
        /\ verify \in BOOLEAN
        /\ at = <<1, 1>>
        /\ scan = "running"
        /\ loading = Idle
        /\ pipeline = Idle
        /\ validated = {}

-----------------------------------------------------------------------------
Manifest == search[at[1]]
Current == Manifest[at[2]]

\* (kind, key, version) declared before in the same manifest
Duplicate(m, i) ==
    \E j \in 1..(i - 1) : m[j].key = m[i].key /\ m[j].version = m[i].version

\* _validate_entry, the duplicates, and the import
Bad(m, i) == \/ m[i].fault = "schema"
             \/ Duplicate(m, i)
             \/ verify /\ m[i].fault = "import"

Declared(entry) == IF verify THEN entry.impl ELSE Placeholder

Scanning == scan = "running" /\ at[1] <= Len(search)
Reading == Scanning /\ at[2] <= Len(Manifest)

NextManifest == at' = <<at[1] + 1, 1>>
NextEntry == at' = <<at[1], at[2] + 1>>

\* An entry that passes is registered at once.
LoadEntry ==
    /\ Reading /\ ~Bad(Manifest, at[2])
    /\ Register(Current.key, Current.version, Declared(Current))
    /\ NextEntry
    /\ UNCHANGED <<search, strict, verify, scan, pipelineVars>>

\* Mutant: the entry that is wrong is left out, and the next one is read.
SkipBadEntry ==
    /\ Reading /\ Bad(Manifest, at[2])
    /\ NextEntry
    /\ UNCHANGED <<search, strict, verify, scan, registryVars, pipelineVars>>

\* ManifestError: load() raises it, scan() goes on with the next manifest.
BadEntry ==
    /\ Reading /\ Bad(Manifest, at[2])
    /\ IF strict THEN scan' = "raised" /\ UNCHANGED at
       ELSE UNCHANGED scan /\ NextManifest
    /\ UNCHANGED <<search, strict, verify, registryVars, pipelineVars>>

\* The RegistryError of a conflict is no ManifestError: scan() ends as well.
ConflictingEntry ==
    /\ Reading /\ ~Bad(Manifest, at[2]) /\ Conflict(Current.key)
    /\ scan' = "raised"
    /\ UNCHANGED <<search, strict, verify, at, registryVars, pipelineVars>>

EndOfManifest ==
    /\ Scanning /\ at[2] > Len(Manifest)
    /\ NextManifest
    /\ UNCHANGED <<search, strict, verify, scan, registryVars, pipelineVars>>

EndOfScan ==
    /\ scan = "running" /\ at[1] > Len(search)
    /\ scan' = "done"
    /\ UNCHANGED <<search, strict, verify, at, registryVars, pipelineVars>>

-----------------------------------------------------------------------------
StartLoading(c) ==
    /\ loading = Idle
    /\ loading' = [config |-> c, stages |-> <<>>]
    /\ UNCHANGED <<registryVars, scanVars, pipeline, validated>>

Loads == loading # Idle
Wanted == loading.config.stages[Len(loading.stages) + 1]
StagesLeft == Loads /\ Len(loading.stages) < Len(loading.config.stages)

\* ConfigurationValidationError when nothing is registered,
\* ComponentContractError when what is registered is no component
StageFails ==
    /\ StagesLeft
    /\ LET w == Wanted
       IN \/ /\ ~Hit(w.key, w.version) /\ ~Known(w.key, w.version)
             /\ UNCHANGED registryVars
          \/ /\ Resolve(w.key, w.version)
             /\ Answer(w.key, w.version).impl = Placeholder
    /\ loading' = Idle
    /\ UNCHANGED <<scanVars, pipeline, validated>>

ResolveStage ==
    /\ StagesLeft
    /\ LET w == Wanted
       IN /\ Resolve(w.key, w.version)
          /\ Answer(w.key, w.version).impl # Placeholder
          /\ loading' = [loading EXCEPT !.stages =
                            Append(@, Answer(w.key, w.version).impl)]
    /\ UNCHANGED <<scanVars, pipeline, validated>>

\* Capabilities accumulate from stage to stage.
Provided(stages, i) == UNION {Traits[stages[j]].provides : j \in 1..(i - 1)}
Capable(stages) == \A i \in DOMAIN stages : Traits[stages[i]].requires \subseteq Provided(stages, i)

Speaks(stages, c) ==
    c.routed \/ \A i \in DOMAIN stages :
                   LET langs == Traits[stages[i]].languages
                   IN langs = {} \/ "*" \in langs \/ langs \cap {c.source, c.target} # {}

\* Mutant: the key of names and versions alone, as the comment on
\* _validate_cache has it.
NamesAlone(stages, c) ==
    <<[i \in DOMAIN stages |-> Traits[stages[i]].name], c.source, c.target, c.routed>>

\* The name of a stage stands for its name and its version.
CacheKey(stages, c) ==
    <<[i \in DOMAIN stages |-> LET t == Traits[stages[i]]
                               IN <<t.name, t.requires, t.provides>>],
      c.source, c.target, c.routed>>

\* Pipeline(...): __post_init__ with _validate_stage_compatibility()
Assemble ==
    /\ Loads /\ ~StagesLeft
    /\ LET c == loading.config
           stages == loading.stages
           remembered == cacheOn /\ CacheKey(stages, c) \in validated
           fits == Capable(stages) /\ Speaks(stages, c)
       IN IF remembered \/ fits
          THEN /\ pipeline' = loading
               /\ validated' = IF cacheOn THEN validated \cup {CacheKey(stages, c)}
                               ELSE validated
          ELSE UNCHANGED <<pipeline, validated>>  \* StageCompatibilityError
    /\ loading' = Idle
    /\ UNCHANGED <<registryVars, scanVars>>

-----------------------------------------------------------------------------
ApplicationRegisters ==
    \E e \in UserEntries :
        /\ e.version \notin offered[e.key]
        /\ Register(e.key, e.version, e.impl)
        /\ UNCHANGED <<scanVars, pipelineVars>>

ConfigurationLoaded ==
    \E override \in Settings : /\ LoadConfig(override)
                               /\ UNCHANGED <<scanVars, pipelineVars>>

Scan == LoadEntry \/ BadEntry \/ ConflictingEntry \/ EndOfManifest \/ EndOfScan

Load == StageFails \/ ResolveStage \/ Assemble

Next == \/ Scan \/ Load
        \/ \E c \in Configs : StartLoading(c)
        \/ ApplicationRegisters \/ ConfigurationLoaded

Spec == Init /\ [][Next]_vars

-----------------------------------------------------------------------------
Passed(x, j) == x < at[1] \/ (x = at[1] /\ j < at[2])

\* Nothing is wrong with the entries of a manifest up to the j-th.
Sound(m, j) == \A b \in 1..j : ~Bad(m, b)

Entered(e) == [version |-> e.version, impl |-> Declared(e)]

Stored(e) == \E i \in DOMAIN store[e.key] : store[e.key][i] = Entered(e)

Superseded(e) == /\ policy = "highest_version"
                 /\ \E i \in DOMAIN store[e.key] :
                       Rank[e.version] <= Rank[store[e.key][i].version]

FromApplication(k, r) == [key |-> k, version |-> r.version, impl |-> r.impl] \in UserEntries

FromManifest(k, r) ==
    \E x \in DOMAIN search : \E j \in DOMAIN search[x] :
        /\ Passed(x, j) /\ Sound(search[x], j)
        /\ search[x][j].key = k /\ Entered(search[x][j]) = r

\* Whatever is wrong with which manifest of a scan, and whoever registers in
\* between: the entries before the first bad one of a manifest are registered
\* (or superseded, under HIGHEST_VERSION) when the scan has passed them, and
\* the registry holds nothing but these and what the application registered,
\* so nothing of a bad entry or of those after it.
ManifestPrefixes ==
    /\ \A x \in DOMAIN search : \A j \in DOMAIN search[x] :
          Passed(x, j) /\ Sound(search[x], j) => Stored(search[x][j]) \/ Superseded(search[x][j])
    /\ \A k \in Keys : \A i \in DOMAIN store[k] :
          FromApplication(k, store[k][i]) \/ FromManifest(k, store[k][i])

\* Every stage of a Pipeline that was constructed is a component, and what it
\* requires is provided by the stages before it, whether the check was made or
\* remembered from an earlier Pipeline whose key agrees.
PipelineSound ==
    /\ \A i \in DOMAIN pipeline.stages : pipeline.stages[i] # Placeholder
    /\ Capable(pipeline.stages)

=============================================================================

------------------------- MODULE ComponentRegistry -------------------------
(***************************************************************************)
(* lingualdub.registry.registry.Registry and the cache flag of             *)
(* lingualdub.config.                                                      *)
(*                                                                         *)
(* Implementations are registered under a key and a version; resolve()     *)
(* remembers its answers in a cache, which is used and invalidated only    *)
(* while the process-wide flag of the last validated FrameworkConfig says  *)
(* so.  register() holds the lock from beginning to end, and so does       *)
(* resolve() from its second look on, so both are single steps.  A kind    *)
(* and a key are one name here; metadata, which nothing reads, is left     *)
(* out, and so are the checks of the arguments' types.                     *)
(***************************************************************************)
EXTENDS Naturals, Sequences, FiniteSets

CONSTANTS Keys,           \* (kind, key) pairs
          Versions,       \* version strings
          Rank,           \* _version_tuple: versions that compare equal share a rank
          Impls,          \* what is registered
          Environment,    \* LINGUALDUB_CACHE_ENABLED, or "unset"
          MaxEntries      \* bound: registrations kept per key

Latest == "latest"        \* version=None
Queries == Versions \cup {Latest}
Settings == {"unset", "true", "false"}

ASSUME RegistryConstants == /\ Rank \in [Versions -> Nat]
                            /\ Environment \in Settings
                            /\ Latest \notin Versions
                            /\ MaxEntries \in Nat

VARIABLES policy,         \* conflict_policy
          store,          \* _store: the registrations of each key, in order
          cache,          \* _resolve_cache
          cacheOn,        \* config._global_cache_enabled
          offered,        \* history: versions register() was given for each key
          missed          \* history: keys registered while the cache was off

registryVars == <<policy, store, cache, cacheOn, offered, missed>>

Policies == {"namespaced", "highest_version", "explicit"}
Entries == [version : Versions, impl : Impls]
NotCached == [version |-> Latest, impl |-> "nothing"]

RegistryInit == /\ policy \in Policies
                /\ store = [k \in Keys |-> <<>>]
                /\ cache = [k \in Keys |-> [q \in Queries |-> NotCached]]
                /\ cacheOn = TRUE
                /\ offered = [k \in Keys |-> {}]
                /\ missed = {}

-----------------------------------------------------------------------------
Highest(entries, i) ==
    /\ i \in DOMAIN entries
    /\ \A j \in DOMAIN entries : /\ Rank[entries[j].version] <= Rank[entries[i].version]
                                 /\ j < i => Rank[entries[j].version] < Rank[entries[i].version]

Matches(entries, q) ==
    IF q # Latest THEN {i \in DOMAIN entries : entries[i].version = q}
    ELSE IF policy = "highest_version" THEN {i \in DOMAIN entries : Highest(entries, i)}
    ELSE IF entries = <<>> THEN {} ELSE {Len(entries)}

Known(k, q) == Matches(store[k], q) # {}

\* What resolve() finds without its cache: the first entry that matches.
Lookup(k, q) == LET found == Matches(store[k], q)
                IN store[k][CHOOSE i \in found : \A j \in found : i <= j]

\* What list() says of a key.
Listed(k) == Lookup(k, Latest).version

Hit(k, q) == cacheOn /\ cache[k][q] # NotCached
Answer(k, q) == IF Hit(k, q) THEN cache[k][q] ELSE Lookup(k, q)

-----------------------------------------------------------------------------
Conflict(k) == policy = "explicit" /\ store[k] # <<>>

\* Under HIGHEST_VERSION: neither higher than all that is kept, nor its equal
\* under another name.
Discarded(k, v) ==
    /\ policy = "highest_version"
    /\ \E i \in DOMAIN store[k] :
          Rank[v] < Rank[store[k][i].version] \/ v = store[k][i].version

Superseding(k, v) ==
    /\ policy = "highest_version"
    /\ \A i \in DOMAIN store[k] : Rank[store[k][i].version] < Rank[v]

\* Mutant: under HIGHEST_VERSION as under the other policies.
ForgetKey(k, v) == [cache EXCEPT ![k] = [@ EXCEPT ![Latest] = NotCached, ![v] = NotCached]]

Invalidated(k, v) ==
    IF policy = "highest_version" THEN [x \in Keys |-> [q \in Queries |-> NotCached]]
    ELSE [cache EXCEPT ![k] = [@ EXCEPT ![Latest] = NotCached, ![v] = NotCached]]

Keep(k, v, impl) ==
    LET kept == IF Superseding(k, v) THEN <<>> ELSE store[k]
    IN /\ Len(kept) < MaxEntries
       /\ store' = [store EXCEPT ![k] = Append(kept, [version |-> v, impl |-> impl])]
       /\ cache' = IF cacheOn THEN Invalidated(k, v) ELSE cache
       /\ missed' = IF ~cacheOn THEN missed \cup {k}
                    ELSE IF policy = "highest_version" THEN {} ELSE missed \ {k}

\* register(kind, key, impl, version); a conflict raises instead.
Register(k, v, impl) ==
    /\ ~Conflict(k)
    /\ \/ ~Discarded(k, v) /\ Keep(k, v, impl)
       \/ Discarded(k, v) /\ UNCHANGED <<store, cache, missed>>
    /\ offered' = [offered EXCEPT ![k] = @ \cup {v}]
    /\ UNCHANGED <<policy, cacheOn>>

\* resolve(kind, key, version) of something known: the answer is remembered.
Resolve(k, q) ==
    /\ Hit(k, q) \/ Known(k, q)
    /\ cache' = IF cacheOn THEN [cache EXCEPT ![k][q] = Answer(k, q)] ELSE cache
    /\ UNCHANGED <<policy, store, cacheOn, offered, missed>>

\* load_config(): overrides beat the environment, which beats the default.
Effective(override) == IF override # "unset" THEN override = "true"
                       ELSE Environment # "false"

\* load_config(overrides), and validate() of a configuration frozen earlier,
\* which sets the flag again: whichever comes last holds for every registry.
LoadConfig(override) ==
    /\ cacheOn' = Effective(override)
    /\ UNCHANGED <<policy, store, cache, offered, missed>>

-----------------------------------------------------------------------------
RegistryTypeOK ==
    /\ policy \in Policies
    /\ store \in [Keys -> Seq(Entries)]
    /\ cache \in [Keys -> [Queries -> Entries \cup {NotCached}]]
    /\ cacheOn \in BOOLEAN
    /\ offered \in [Keys -> SUBSET Versions]
    /\ missed \subseteq Keys

\* A cached answer is the one a look at the registrations would give, for
\* every key but those registered while the cache was off and not since
\* (register() invalidates only what is in use).
CacheTruthful ==
    \A k \in Keys \ missed : \A q \in Queries :
        cache[k][q] # NotCached => Known(k, q) /\ cache[k][q] = Lookup(k, q)

\* Under HIGHEST_VERSION the entries kept for a key compare equal and have
\* different version strings, so that list() and resolve() agree.
OneRankKept ==
    policy = "highest_version" =>
        \A k \in Keys : \A i, j \in DOMAIN store[k] :
            /\ Rank[store[k][i].version] = Rank[store[k][j].version]
            /\ i # j => store[k][i].version # store[k][j].version

\* "the highest declared version wins" (registry/registry.py:71), however
\* registrations and look-ups are interleaved and whatever the cache holds,
\* but for keys the cache missed.
HighestServed ==
    policy = "highest_version" =>
        \A k \in Keys \ missed : \A v \in offered[k] :
            Known(k, Latest) /\ Rank[v] <= Rank[Answer(k, Latest).version]
=============================================================================

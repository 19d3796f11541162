--------------------------- MODULE PipelineProofs ---------------------------
(***************************************************************************)
(* How a pipeline is put together, and the time axis of one that dubs.     *)
(*                                                                         *)
(* Assembly.  For any registry, manifests and configurations: the caches   *)
(* tell what a look at the registrations would, the highest version wins,  *)
(* and every stage of a Pipeline has what it requires.  The argument: a    *)
(* key that the cache has missed is wrong at most about the latest         *)
(* version, unless under HIGHEST_VERSION, which forgets everything         *)
(* (CacheSound); entries kept together have one rank, which is the highest *)
(* that was offered (Ranked); and the key of the validation cache          *)
(* determines the outcome of the check (Remembered).  Of a manifest, what  *)
(* is sound and nothing else gets into the registry: what the scan has     *)
(* read of the manifest under way is sound (Readable), and what a          *)
(* registration drops is superseded by it (RegisterStores).                *)
(*                                                                         *)
(* Dubbing.  For any transcript, cues, words, frames and lengths: the      *)
(* words of a segment are laid end to end (Tiles); snapping is monotone    *)
(* (SnappedMonotone); and every stage leaves to the next what that rests   *)
(* on (Progress): a target within the window for what is compressed        *)
(* (Ready), ends that moved by the tolerance at most (Placed), and for     *)
(* every dubbed segment an end in time and a file, or else the mark of     *)
(* what was skipped (Dubbed).                                              *)
(***************************************************************************)
EXTENDS Assembly, Dubbing, SequenceFacts

Right(k, q) == cache[k][q] # NotCached => Known(k, q) /\ cache[k][q] = Lookup(k, q)

CacheSound == /\ CacheTruthful
              /\ policy # "highest_version" => \A k \in Keys : \A v \in Versions : Right(k, v)

Ranked == policy = "highest_version" =>
    \A k \in Keys :
        /\ \A i, j \in 1..Len(store[k]) :
              /\ Rank[store[k][i].version] = Rank[store[k][j].version]
              /\ i # j => store[k][i].version # store[k][j].version
        /\ \A v \in offered[k] : /\ store[k] # <<>>
                                 /\ \A i \in 1..Len(store[k]) : Rank[v] <= Rank[store[k][i].version]

Working == Impls \ {Placeholder}
Loadings == [config : Configs \cup {NoConfig}, stages : Seq(Working)]

LoadingTypeOK == /\ search \in Searches
                 /\ at \in (Nat \ {0}) \X (Nat \ {0})
                 /\ loading \in Loadings
                 /\ pipeline \in Loadings

Remembered == \A x \in validated :
    \E stages \in Seq(Working), c \in Configs \cup {NoConfig} :
        x = CacheKey(stages, c) /\ Capable(stages)

RegistryInv == RegistryTypeOK /\ CacheSound /\ Ranked

Inv == RegistryInv /\ LoadingTypeOK /\ Remembered /\ PipelineSound

-----------------------------------------------------------------------------
\* The places of the entries of a key
LEMMA Places ==
  ASSUME RegistryTypeOK, NEW k \in Keys
  PROVE  /\ store[k] \in Seq(Entries) /\ Len(store[k]) \in Nat
         /\ DOMAIN store[k] = 1..Len(store[k])
         /\ \A i \in 1..Len(store[k]) : /\ store[k][i] \in Entries
                                        /\ store[k][i].version \in Versions
                                        /\ Rank[store[k][i].version] \in Nat
         /\ store[k] # <<>> => Len(store[k]) \in 1..Len(store[k])
<1>1. store[k] \in Seq(Entries)
  BY DEF RegistryTypeOK
<1>2. \A e \in Entries : e.version \in Versions /\ Rank[e.version] \in Nat
  BY RegistryConstants DEF Entries
<1>3. QED  BY <1>1, <1>2, LenProperties, EmptySeq, ElementOfSeq

LEMMA PlacesAfter ==
  ASSUME RegistryTypeOK', NEW k \in Keys
  PROVE  /\ DOMAIN store'[k] = 1..Len(store'[k])
         /\ \A i \in 1..Len(store'[k]) : Rank[store'[k][i].version] \in Nat
<1>1. store'[k] \in Seq(Entries)
  BY DEF RegistryTypeOK
<1>2. \A e \in Entries : Rank[e.version] \in Nat
  BY RegistryConstants DEF Entries
<1>3. QED  BY <1>1, <1>2, LenProperties, ElementOfSeq

\* What resolve() finds is one of the entries that match.
LEMMA Found ==
  ASSUME RegistryTypeOK, NEW k \in Keys, NEW q \in Queries, Known(k, q)
  PROVE  \E i \in Matches(store[k], q) : i \in 1..Len(store[k]) /\ Lookup(k, q) = store[k][i]
                                         /\ \A j \in Matches(store[k], q) : i <= j
<1> DEFINE M == Matches(store[k], q)
<1>1. M \subseteq 1..Len(store[k]) /\ M # {}
  <2>1. Matches(store[k], q) \subseteq 1..Len(store[k])
    BY Places DEF Matches
  <2>2. QED  BY <2>1 DEF Known
<1> HIDE DEF M
<1>2. \E i \in M : \A j \in M : i <= j
  <2>1. M \subseteq Nat \ {0}
    BY <1>1, Places
  <2>2. QED  BY <1>1, <2>1, Least
<1>3. (CHOOSE i \in M : \A j \in M : i <= j) \in M
      /\ \A j \in M : (CHOOSE i \in M : \A j2 \in M : i <= j2) <= j
  BY <1>2
<1>4. Lookup(k, q) = store[k][CHOOSE i \in M : \A j \in M : i <= j]
  BY DEF Lookup, M
<1>5. QED  BY <1>1, <1>3, <1>4 DEF M

\* Under HIGHEST_VERSION the latest is the first entry.
LEMMA FirstIsHighest ==
  ASSUME RegistryInv, NEW k \in Keys, policy = "highest_version", store[k] # <<>>
  PROVE  Known(k, Latest) /\ Lookup(k, Latest) = store[k][1]
<1> DEFINE M == Matches(store[k], Latest)
<1>1. /\ Len(store[k]) \in 1..Len(store[k]) /\ DOMAIN store[k] = 1..Len(store[k])
      /\ \A i \in 1..Len(store[k]) : Rank[store[k][i].version] \in Nat
  BY Places DEF RegistryInv
<1>2. 1 \in 1..Len(store[k]) /\ \A i \in 1..Len(store[k]) : i \in Nat /\ 1 <= i
  BY <1>1
<1>3. \A i, j \in 1..Len(store[k]) : Rank[store[k][i].version] = Rank[store[k][j].version]
  BY DEF RegistryInv, Ranked
<1>4. M = {i \in 1..Len(store[k]) : Highest(store[k], i)}
  BY <1>1 DEF Matches
<1>5. Highest(store[k], 1)
  <2>1. \A j \in 1..Len(store[k]) : Rank[store[k][j].version] <= Rank[store[k][1].version] /\ ~(j < 1)
    BY <1>1, <1>2, <1>3
  <2>2. QED  BY <1>1, <1>2, <2>1 DEF Highest
<1>6. ASSUME NEW i \in M  PROVE i = 1
  <2>1. i \in 1..Len(store[k]) /\ Highest(store[k], i)
    BY <1>4
  <2>2. SUFFICES ASSUME 1 < i  PROVE FALSE
    BY <1>2, <2>1
  <2>3. Rank[store[k][1].version] < Rank[store[k][i].version]
    BY <1>1, <1>2, <2>1, <2>2 DEF Highest
  <2>4. QED  BY <1>1, <1>2, <1>3, <2>1, <2>3
<1>7. M = {1}
  BY <1>2, <1>4, <1>5, <1>6
<1>8. Known(k, Latest)
  BY <1>7 DEF Known
<1>9. QED  BY <1>7, <1>8, Found DEF RegistryInv, Queries

-----------------------------------------------------------------------------
\* What a registration that is kept does to the entries of its key
LEMMA KeptLast ==
  ASSUME RegistryTypeOK, NEW k \in Keys, NEW v \in Versions, NEW impl \in Impls, Keep(k, v, impl),
         ~Superseding(k, v)
  PROVE  /\ store' = [store EXCEPT ![k] = Append(store[k], [version |-> v, impl |-> impl])]
         /\ Len(store'[k]) = Len(store[k]) + 1
         /\ \A i \in 1..Len(store[k]) : store'[k][i] = store[k][i]
         /\ store'[k][Len(store[k]) + 1] = [version |-> v, impl |-> impl]
         /\ store'[k] \in Seq(Entries) /\ store'[k] # <<>>
<1>1. store[k] \in Seq(Entries) /\ [version |-> v, impl |-> impl] \in Entries
  BY Places DEF Entries
<1>2. store' = [store EXCEPT ![k] = Append(store[k], [version |-> v, impl |-> impl])]
  BY DEF Keep
<1>3. store'[k] = Append(store[k], [version |-> v, impl |-> impl])
  BY <1>2 DEF RegistryTypeOK
<1>4. QED  BY <1>1, <1>2, <1>3, AppendProperties

LEMMA Replaced ==
  ASSUME RegistryTypeOK, NEW k \in Keys, NEW v \in Versions, NEW impl \in Impls, Keep(k, v, impl),
         Superseding(k, v)
  PROVE  /\ store' = [store EXCEPT ![k] = <<[version |-> v, impl |-> impl]>>]
         /\ store'[k] = <<[version |-> v, impl |-> impl]>>
         /\ store'[k] \in Seq(Entries)
<1>1. [version |-> v, impl |-> impl] \in Entries
  BY DEF Entries
<1>2. store' = [store EXCEPT ![k] = Append(<<>>, [version |-> v, impl |-> impl])]
  BY DEF Keep
<1>3. Append(<<>>, [version |-> v, impl |-> impl]) = <<[version |-> v, impl |-> impl]>>
  OBVIOUS
<1>4. QED  BY <1>1, <1>2, <1>3 DEF RegistryTypeOK

LEMMA RegisterTypes ==
  ASSUME RegistryTypeOK, NEW k \in Keys, NEW v \in Versions, NEW impl \in Impls, Register(k, v, impl)
  PROVE  RegistryTypeOK'
<1>1. policy' = policy /\ cacheOn' = cacheOn /\ offered' = [offered EXCEPT ![k] = @ \cup {v}]
  BY DEF Register
<1>2. offered' \in [Keys -> SUBSET Versions]
  BY <1>1 DEF RegistryTypeOK
<1>3. CASE UNCHANGED <<store, cache, missed>>
  BY <1>1, <1>2, <1>3 DEF RegistryTypeOK
<1>4. CASE Keep(k, v, impl)
  <2>1. store' \in [Keys -> Seq(Entries)]
    BY <1>4, KeptLast, Replaced DEF RegistryTypeOK
  <2>2. cache' \in [Keys -> [Queries -> Entries \cup {NotCached}]]
    BY <1>4 DEF Keep, Invalidated, RegistryTypeOK
  <2>3. missed' \subseteq Keys
    BY <1>4 DEF Keep, RegistryTypeOK
  <2>4. QED  BY <1>1, <1>2, <2>1, <2>2, <2>3 DEF RegistryTypeOK
<1>5. QED  BY <1>3, <1>4 DEF Register

LEMMA RegisterRanked ==
  ASSUME RegistryTypeOK, Ranked, NEW k \in Keys, NEW v \in Versions, NEW impl \in Impls,
         Register(k, v, impl)
  PROVE  Ranked'
<1>1. policy' = policy /\ offered' = [offered EXCEPT ![k] = @ \cup {v}] /\ Rank[v] \in Nat
  BY RegistryConstants DEF Register
<1>2. SUFFICES ASSUME policy = "highest_version", NEW x \in Keys
      PROVE  /\ \A i, j \in 1..Len(store'[x]) :
                   /\ Rank[store'[x][i].version] = Rank[store'[x][j].version]
                   /\ i # j => store'[x][i].version # store'[x][j].version
             /\ \A u \in offered'[x] :
                   /\ store'[x] # <<>>
                   /\ \A i \in 1..Len(store'[x]) : Rank[u] <= Rank[store'[x][i].version]
  BY <1>1 DEF Ranked
<1>3. /\ \A i, j \in 1..Len(store[x]) :
            /\ Rank[store[x][i].version] = Rank[store[x][j].version]
            /\ i # j => store[x][i].version # store[x][j].version
      /\ \A u \in offered[x] :
            /\ store[x] # <<>>
            /\ \A i \in 1..Len(store[x]) : Rank[u] <= Rank[store[x][i].version]
  BY <1>2 DEF Ranked
<1>4. CASE x # k
  <2>1. store'[x] = store[x] /\ offered'[x] = offered[x]
    BY <1>1, <1>4 DEF Register, Keep, RegistryTypeOK
  <2>2. QED  BY <1>3, <2>1
<1>5. CASE x = k
  <2>1. /\ offered'[k] = offered[k] \cup {v} /\ DOMAIN store[k] = 1..Len(store[k]) /\ Len(store[k]) \in Nat
        /\ \A i \in 1..Len(store[k]) : Rank[store[k][i].version] \in Nat
        /\ \A u \in offered[k] : Rank[u] \in Nat
    BY <1>1, Places, RegistryConstants DEF RegistryTypeOK
  <2>2. CASE Discarded(k, v) /\ store' = store
    <3>1. PICK i \in 1..Len(store[k]) : Rank[v] <= Rank[store[k][i].version]
      BY <1>1, <2>1, <2>2 DEF Discarded
    <3>2. store[k] # <<>> /\ \A j \in 1..Len(store[k]) : Rank[v] <= Rank[store[k][j].version]
      <4>1. Len(store[k]) # 0
        BY <2>1, <3>1
      <4>2. QED  BY <1>3, <1>5, <3>1, <4>1, EmptySeq, Places
    <3>3. QED  BY <1>3, <1>5, <2>1, <2>2, <3>2
  <2>3. CASE ~Discarded(k, v) /\ Keep(k, v, impl) /\ Superseding(k, v)
    <3>1. store'[k] = <<[version |-> v, impl |-> impl]>>
      BY <2>3, Replaced
    <3>2. Len(store'[k]) = 1 /\ store'[k][1].version = v /\ store'[k] # <<>>
      BY <3>1
    <3>3. \A i \in 1..Len(store'[k]) : i = 1
      BY <3>2
    <3>4. \A u \in offered[k] : Rank[u] <= Rank[v]
      <4>1. SUFFICES ASSUME NEW u \in offered[k]  PROVE Rank[u] <= Rank[v]
        OBVIOUS
      <4>2. store[k] # <<>> /\ \A i \in 1..Len(store[k]) : Rank[u] <= Rank[store[k][i].version]
        BY <1>3, <1>5
      <4>3. Len(store[k]) \in 1..Len(store[k])
        BY <4>2, Places
      <4>4. Rank[store[k][Len(store[k])].version] < Rank[v]
        BY <2>1, <2>3, <4>3 DEF Superseding
      <4>5. QED  BY <1>1, <2>1, <4>2, <4>3, <4>4
    <3>5. QED  BY <1>1, <1>5, <2>1, <3>2, <3>3, <3>4
  <2>4. CASE ~Discarded(k, v) /\ Keep(k, v, impl) /\ ~Superseding(k, v)
    <3> DEFINE n == Len(store[k])
    <3>1. /\ Len(store'[k]) = n + 1 /\ store'[k][n + 1].version = v /\ store'[k] # <<>>
          /\ \A i \in 1..n : store'[k][i] = store[k][i]
      <4>1. /\ Len(store'[k]) = Len(store[k]) + 1 /\ store'[k] # <<>>
            /\ \A i \in 1..Len(store[k]) : store'[k][i] = store[k][i]
            /\ store'[k][Len(store[k]) + 1] = [version |-> v, impl |-> impl]
        BY <2>4, KeptLast
      <4>2. QED  BY <4>1
    <3>2. PICK i0 \in 1..n : ~(Rank[store[k][i0].version] < Rank[v])
      BY <1>2, <2>1, <2>4 DEF Superseding
    <3>3. \A i \in 1..n : ~(Rank[v] < Rank[store[k][i].version]) /\ v # store[k][i].version
      BY <1>2, <2>1, <2>4 DEF Discarded
    <3>4. \A i \in 1..n : Rank[store[k][i].version] = Rank[v]
      BY <1>1, <1>3, <1>5, <2>1, <3>2, <3>3
    <3> HIDE DEF n
    <3>5. \A i \in 1..(n + 1) : (i \in 1..n \/ i = n + 1) /\ n \in Nat
      BY <2>1 DEF n
    <3>6. \A i \in 1..(n + 1) : Rank[store'[k][i].version] = Rank[v]
      BY <3>1, <3>4, <3>5
    <3>7. \A i, j \in 1..(n + 1) : i # j => store'[k][i].version # store'[k][j].version
      <4>1. \A i, j \in 1..n : i # j => store[k][i].version # store[k][j].version
        BY <1>3, <1>5 DEF n
      <4>2. QED  BY <3>1, <3>3, <3>5, <4>1
    <3>8. \A u \in offered[k] : Rank[u] <= Rank[v]
      BY <1>3, <1>5, <3>2, <3>4 DEF n
    <3>9. Rank[v] <= Rank[v]
      BY <1>1
    <3>10. QED  BY <1>5, <2>1, <3>1, <3>6, <3>7, <3>8, <3>9
  <2>5. QED  BY <2>2, <2>3, <2>4 DEF Register
<1>6. QED  BY <1>4, <1>5

-----------------------------------------------------------------------------
\* A look-up is the same while the entries of its key are.
LEMMA SameEntries ==
  ASSUME NEW k \in Keys, NEW q \in Queries, policy' = policy, store'[k] = store[k]
  PROVE  (Known(k, q))' = Known(k, q) /\ (Lookup(k, q))' = Lookup(k, q)
BY DEF Known, Lookup, Matches

\* The least number of a set is the only one.
LEMMA LeastChosen ==
  ASSUME NEW M, M \subseteq Nat, NEW i \in M, \A j \in M : i <= j
  PROVE  (CHOOSE x \in M : \A j \in M : x <= j) = i
<1>1. (CHOOSE x \in M : \A j \in M : x <= j) \in M
      /\ \A j \in M : (CHOOSE x \in M : \A j2 \in M : x <= j2) <= j
  OBVIOUS
<1>2. \A x \in M : x \in Nat
  OBVIOUS
<1> DEFINE c == CHOOSE x \in M : \A j \in M : x <= j
<1> HIDE DEF c
<1>3. c \in M /\ c <= i /\ i <= c
  BY <1>1 DEF c
<1>4. c = i
  BY <1>2, <1>3
<1>5. QED  BY <1>4 DEF c

\* What is appended does not change what an exact version resolves to.
LEMMA ExactVersionStays ==
  ASSUME RegistryTypeOK, NEW k \in Keys, NEW v \in Versions, NEW impl \in Impls,
         Keep(k, v, impl), ~Superseding(k, v), NEW u \in Versions, Known(k, u)
  PROVE  (Known(k, u))' /\ (Lookup(k, u))' = Lookup(k, u)
<1> DEFINE n == Len(store[k])
<1> DEFINE M == {i \in 1..n : store[k][i].version = u}
<1> DEFINE N == {i \in 1..(n + 1) : store'[k][i].version = u}
<1>1. n \in Nat /\ u # Latest
  BY Places, RegistryConstants
<1>2. Matches(store[k], u) = M
  BY <1>1, Places DEF Matches
<1>3. /\ Len(store'[k]) = n + 1 /\ store'[k] \in Seq(Entries)
      /\ \A i \in 1..n : store'[k][i] = store[k][i]
  BY KeptLast
<1>4. DOMAIN store'[k] = 1..(n + 1)
  BY <1>3, LenProperties
<1>5. (Matches(store[k], u))' = N
  BY <1>1, <1>4 DEF Matches
<1>6. PICK i \in M : Lookup(k, u) = store[k][i] /\ \A j \in M : i <= j
  BY <1>2, Found DEF Queries
<1>7. i \in 1..n /\ i \in N /\ store'[k][i] = store[k][i]
  BY <1>1, <1>3
<1>8. \A j \in N : i <= j
  <2>1. \A j \in N : j \in M \/ j = n + 1
    BY <1>1, <1>3
  <2>2. QED  BY <1>1, <1>6, <1>7, <2>1
<1>9. N \subseteq Nat
  BY <1>1
<1>10. (CHOOSE x \in N : \A j \in N : x <= j) = i
  <2> HIDE DEF N
  <2>1. QED  BY <1>7, <1>8, <1>9, LeastChosen
<1>11. (Known(k, u))'
  BY <1>5, <1>7 DEF Known
<1>12. (Lookup(k, u))' = store'[k][CHOOSE x \in N : \A j \in N : x <= j]
  BY <1>5 DEF Lookup
<1>13. QED  BY <1>6, <1>7, <1>10, <1>11, <1>12

LEMMA RegisterCached ==
  ASSUME RegistryTypeOK, CacheSound, NEW k \in Keys, NEW v \in Versions, NEW impl \in Impls,
         Register(k, v, impl)
  PROVE  CacheSound'
<1>1. policy' = policy /\ \A x \in Keys \ {k} : store'[x] = store[x]
  BY DEF Register, Keep, RegistryTypeOK
<1>2. ASSUME NEW x \in Keys, NEW q \in Queries, x # k, Right(x, q), cache'[x][q] = cache[x][q]
      PROVE  (Right(x, q))'
  BY <1>1, <1>2, SameEntries DEF Right
<1>3. CASE UNCHANGED <<store, cache, missed>>
  <2>1. \A x \in Keys : \A q \in Queries : (Right(x, q))' = Right(x, q)
    BY <1>1, <1>3, SameEntries DEF Right
  <2>2. QED  BY <1>1, <1>3, <2>1 DEF CacheSound, CacheTruthful, Right, Queries
<1>4. CASE Keep(k, v, impl) /\ policy = "highest_version" /\ cacheOn
  <2>1. \A x \in Keys : \A q \in Queries : cache'[x][q] = NotCached
    BY <1>4 DEF Keep, Invalidated
  <2>2. QED  BY <1>1, <1>4, <2>1 DEF CacheSound, CacheTruthful
<1>5. CASE Keep(k, v, impl) /\ policy = "highest_version" /\ ~cacheOn
  <2>1. cache' = cache /\ missed' = missed \cup {k}
    BY <1>5 DEF Keep
  <2>2. \A x \in Keys \ missed' : \A q \in Queries : x # k /\ Right(x, q)
    BY <2>1 DEF CacheSound, CacheTruthful, Right
  <2>3. \A x \in Keys \ missed' : \A q \in Queries : (Right(x, q))'
    BY <1>2, <2>1, <2>2
  <2>4. QED  BY <1>1, <1>5, <2>3 DEF CacheSound, CacheTruthful, Right
<1>6. CASE Keep(k, v, impl) /\ policy # "highest_version"
  <2>1. ~Superseding(k, v)
    BY <1>6 DEF Superseding
  <2>2. /\ \A x \in Keys : \A q \in Queries : cache'[x][q] \in {cache[x][q], NotCached}
        /\ \A x \in Keys \ {k} : cache'[x] = cache[x]
        /\ cacheOn => cache'[k][Latest] = NotCached
        /\ cacheOn => missed' = missed \ {k}
        /\ ~cacheOn => missed' = missed \cup {k}
    BY <1>6 DEF Keep, Invalidated, RegistryTypeOK, Queries
  <2>3. ASSUME NEW x \in Keys, NEW u \in Versions  PROVE (Right(x, u))'
    <3>1. Right(x, u) /\ u \in Queries
      BY <1>6 DEF CacheSound, Queries
    <3>2. CASE x # k
      BY <1>2, <2>2, <3>1, <3>2
    <3>3. CASE x = k
      BY <1>6, <2>1, <2>2, <3>1, <3>3, ExactVersionStays DEF Right
    <3>4. QED  BY <3>2, <3>3
  <2>4. ASSUME NEW x \in Keys \ missed'  PROVE (Right(x, Latest))'
    <3>1. CASE x # k
      <4>1. Right(x, Latest) /\ Latest \in Queries
        BY <2>2, <2>4, <3>1 DEF CacheSound, CacheTruthful, Right, Queries
      <4>2. QED  BY <1>2, <2>2, <3>1, <4>1
    <3>2. CASE x = k
      BY <2>2, <2>4, <3>2 DEF Right
    <3>3. QED  BY <3>1, <3>2
  <2>5. \A x \in Keys \ missed' : \A q \in Queries : (Right(x, q))'
    BY <2>3, <2>4 DEF Queries
  <2>6. QED  BY <1>1, <2>3, <2>5 DEF CacheSound, CacheTruthful, Right
<1>7. QED  BY <1>3, <1>4, <1>5, <1>6 DEF Register

-----------------------------------------------------------------------------
\* An answer is what a look at the registrations gives, or is in the cache.
LEMMA AnswerTyped ==
  ASSUME RegistryTypeOK, NEW k \in Keys, NEW q \in Queries, Hit(k, q) \/ Known(k, q)
  PROVE  Answer(k, q) \in Entries
<1>1. CASE Hit(k, q)
  BY <1>1 DEF Answer, Hit, RegistryTypeOK
<1>2. CASE ~Hit(k, q)
  BY <1>2, Found, Places DEF Answer
<1>3. QED  BY <1>1, <1>2

LEMMA ResolveKeeps ==
  ASSUME RegistryInv, NEW k \in Keys, NEW q \in Queries, Resolve(k, q)
  PROVE  RegistryInv'
<1> USE DEF RegistryInv
<1>1. UNCHANGED <<policy, store, cacheOn, offered, missed>>
  BY DEF Resolve
<1>2. \A x \in Keys : \A p \in Queries : (Known(x, p))' = Known(x, p) /\ (Lookup(x, p))' = Lookup(x, p)
  BY <1>1, SameEntries
<1>3. Ranked'
  BY <1>1 DEF Ranked
<1>4. CASE cache' = cache
  <2>1. RegistryTypeOK'
    BY <1>1, <1>4 DEF RegistryTypeOK
  <2>2. \A x \in Keys : \A p \in Queries : (Right(x, p))' = Right(x, p)
    BY <1>2, <1>4 DEF Right
  <2>3. QED  BY <1>1, <1>3, <2>1, <2>2 DEF CacheSound, CacheTruthful, Right, Queries
<1>5. CASE ~Hit(k, q) /\ cacheOn
  <2>1. Known(k, q) /\ cache' = [cache EXCEPT ![k][q] = Lookup(k, q)]
    BY <1>5 DEF Resolve, Answer
  <2>2. Lookup(k, q) \in Entries
    BY <1>5, <2>1, AnswerTyped DEF Answer
  <2>3. RegistryTypeOK'
    BY <1>1, <2>1, <2>2 DEF RegistryTypeOK
  <2>4. /\ cache'[k][q] = Lookup(k, q)
        /\ \A x \in Keys : \A p \in Queries : (x # k \/ p # q) => cache'[x][p] = cache[x][p]
    BY <2>1 DEF RegistryTypeOK
  <2>5. \A x \in Keys : \A p \in Queries : Right(x, p) => (Right(x, p))'
    BY <1>2, <2>1, <2>4 DEF Right
  <2>6. QED  BY <1>1, <1>3, <2>3, <2>5 DEF CacheSound, CacheTruthful, Right, Queries
<1>6. CASE Hit(k, q) /\ cacheOn
  <2>1. cache' = [cache EXCEPT ![k][q] = cache[k][q]]
    BY <1>6 DEF Resolve, Answer
  <2>2. cache' = cache
    BY <2>1 DEF RegistryTypeOK
  <2>3. QED  BY <1>4, <2>2
<1>7. QED  BY <1>4, <1>5, <1>6 DEF Resolve

LEMMA RegistryUntouched ==
  ASSUME RegistryInv, UNCHANGED <<policy, store, cache, offered, missed>>, cacheOn' \in BOOLEAN
  PROVE  RegistryInv'
<1>1. \A x \in Keys : \A p \in Queries : (Right(x, p))' = Right(x, p)
  BY SameEntries DEF Right
<1>2. RegistryTypeOK' /\ Ranked'
  BY DEF RegistryInv, RegistryTypeOK, Ranked
<1>3. CacheSound'
  BY <1>1 DEF RegistryInv, CacheSound, CacheTruthful, Right, Queries
<1>4. QED  BY <1>2, <1>3 DEF RegistryInv

\* The key of the validation cache tells capable stages from others.
LEMMA KeyDecides ==
  ASSUME NEW s \in Seq(Working), NEW t \in Seq(Working), NEW c, NEW d,
         CacheKey(s, c) = CacheKey(t, d), Capable(s)
  PROVE  Capable(t)
<1> DEFINE K(x) == [i \in DOMAIN x |-> <<Traits[x[i]].name, Traits[x[i]].requires, Traits[x[i]].provides>>]
<1>1. K(s) = K(t)
  BY DEF CacheKey
<1>2. DOMAIN s = DOMAIN t
  BY <1>1
<1>3. ASSUME NEW i \in DOMAIN s
      PROVE Traits[s[i]].requires = Traits[t[i]].requires /\ Traits[s[i]].provides = Traits[t[i]].provides
  <2>1. K(s)[i] = K(t)[i]
    BY <1>1
  <2>2. QED  BY <1>2, <2>1
<1>4. DOMAIN s = 1..Len(s) /\ Len(s) \in Nat
  BY LenProperties
<1>5. ASSUME NEW i \in DOMAIN t  PROVE Provided(s, i) = Provided(t, i)
  <2>1. \A j \in 1..(i - 1) : j \in DOMAIN s
    BY <1>2, <1>4
  <2>2. QED  BY <1>3, <2>1 DEF Provided
<1>6. QED  BY <1>2, <1>3, <1>5 DEF Capable

-----------------------------------------------------------------------------
LEMMA RegisterKeeps ==
  ASSUME RegistryInv, NEW k \in Keys, NEW v \in Versions, NEW impl \in Impls, Register(k, v, impl)
  PROVE  RegistryInv'
BY RegisterTypes, RegisterRanked, RegisterCached DEF RegistryInv

\* What is loaded and what was checked stay as they are.
LEMMA PipelineUntouched ==
  ASSUME LoadingTypeOK, Remembered, PipelineSound, UNCHANGED <<pipelineVars, search>>,
         at' \in (Nat \ {0}) \X (Nat \ {0})
  PROVE  LoadingTypeOK' /\ Remembered' /\ PipelineSound'
<1>1. LoadingTypeOK'
  BY DEF LoadingTypeOK, pipelineVars
<1>2. Remembered'
  BY DEF Remembered, pipelineVars
<1>3. PipelineSound'
  BY DEF PipelineSound, pipelineVars
<1>4. QED  BY <1>1, <1>2, <1>3

LEMMA CurrentTyped ==
  ASSUME LoadingTypeOK, Reading
  PROVE  /\ Current.key \in Keys /\ Current.version \in Versions /\ Declared(Current) \in Impls
<1>1. search \in Seq(Seq(ManifestEntries)) /\ at[1] \in Nat \ {0} /\ at[2] \in Nat \ {0}
  BY AssemblyConstants DEF LoadingTypeOK
<1>2. at[1] \in 1..Len(search) /\ at[2] \in 1..Len(Manifest)
  <2>1. at[1] <= Len(search) /\ at[2] <= Len(Manifest)
    BY DEF Reading, Scanning
  <2>2. at[1] \in 1..Len(search)
    BY <1>1, <2>1, LenProperties
  <2>3. Manifest \in Seq(ManifestEntries)
    BY <1>1, <2>2, ElementOfSeq DEF Manifest
  <2>4. QED  BY <1>1, <2>1, <2>2, <2>3, LenProperties
<1>3. Manifest \in Seq(ManifestEntries)
  BY <1>1, <1>2, ElementOfSeq DEF Manifest
<1>4. Current \in ManifestEntries
  BY <1>2, <1>3, ElementOfSeq DEF Current
<1>5. QED  BY <1>4, AssemblyConstants DEF ManifestEntries, Declared

LEMMA WantedTyped ==
  ASSUME LoadingTypeOK, StagesLeft
  PROVE  /\ Wanted.key \in Keys /\ Wanted.version \in Queries
         /\ loading.stages \in Seq(Working) /\ loading.config \in Configs
<1>1. loading.stages \in Seq(Working) /\ loading.config \in Configs \cup {NoConfig}
  BY DEF LoadingTypeOK, Loadings
<1>2. Len(loading.stages) \in Nat /\ Len(loading.stages) < Len(loading.config.stages)
  BY <1>1, LenProperties DEF StagesLeft
<1>3. loading.config \in Configs
  <2>1. ASSUME loading.config = NoConfig  PROVE FALSE
    <3>1. Len(loading.config.stages) = 0
      BY <2>1 DEF NoConfig
    <3>2. QED  BY <1>2, <3>1
  <2>2. QED  BY <1>1, <2>1
<1>4. loading.config.stages \in Seq([key : Keys, version : Queries])
  BY <1>3, AssemblyConstants
<1>5. Len(loading.stages) + 1 \in 1..Len(loading.config.stages)
  BY <1>2, <1>4, LenProperties
<1>6. Wanted \in [key : Keys, version : Queries]
  BY <1>4, <1>5, ElementOfSeq DEF Wanted
<1>7. QED  BY <1>1, <1>3, <1>6

LEMMA EveryStep ==
  ASSUME Inv, [Next]_vars
  PROVE  Inv'
<1> USE DEF Inv
<1>1. at[1] + 1 \in Nat \ {0} /\ at[2] + 1 \in Nat \ {0} /\ at[1] \in Nat \ {0}
      /\ at \in (Nat \ {0}) \X (Nat \ {0})
  BY DEF LoadingTypeOK
<1>2. NextManifest => at' \in (Nat \ {0}) \X (Nat \ {0})
  BY <1>1 DEF NextManifest
<1>3. NextEntry => at' \in (Nat \ {0}) \X (Nat \ {0})
  BY <1>1 DEF NextEntry
<1>4. registryVars' = registryVars => RegistryInv'
  <2>1. cacheOn \in BOOLEAN
    BY DEF RegistryInv, RegistryTypeOK
  <2>2. QED  BY <2>1, RegistryUntouched DEF registryVars
<1>5. Idle \in Loadings
  BY EmptySeq DEF Idle, Loadings
<1>6. CASE LoadEntry
  <2>1. RegistryInv'
    BY <1>6, CurrentTyped, RegisterKeeps DEF LoadEntry
  <2>2. QED  BY <1>3, <1>6, <2>1, PipelineUntouched DEF LoadEntry
<1>7. CASE BadEntry \/ ConflictingEntry \/ EndOfManifest \/ EndOfScan
  <2>1. /\ registryVars' = registryVars /\ UNCHANGED <<pipelineVars, search>>
        /\ at' \in (Nat \ {0}) \X (Nat \ {0})
    BY <1>1, <1>2, <1>7 DEF BadEntry, ConflictingEntry, EndOfManifest, EndOfScan
  <2>2. QED  BY <1>4, <2>1, PipelineUntouched
<1>8. CASE \E c \in Configs : StartLoading(c)
  <2>1. loading' \in Loadings
    <3>1. PICK c \in Configs : loading' = [config |-> c, stages |-> <<>>]
      BY <1>8 DEF StartLoading
    <3>2. QED  BY <3>1, EmptySeq DEF Loadings
  <2>2. /\ registryVars' = registryVars
        /\ UNCHANGED <<search, at, pipeline, validated>>
    BY <1>8 DEF StartLoading, scanVars
  <2>3. LoadingTypeOK'
    BY <2>1, <2>2 DEF LoadingTypeOK
  <2>4. Remembered' /\ PipelineSound'
    BY <2>2 DEF Remembered, PipelineSound
  <2>5. QED  BY <1>4, <2>2, <2>3, <2>4
<1>9. CASE StageFails
  <2>1. Wanted.key \in Keys /\ Wanted.version \in Queries
    BY <1>9, WantedTyped DEF StageFails
  <2>2. RegistryInv'
    BY <1>4, <1>9, <2>1, ResolveKeeps DEF StageFails
  <2>3. loading' \in Loadings /\ UNCHANGED <<search, at, pipeline, validated>>
    BY <1>5, <1>9 DEF StageFails, scanVars
  <2>4. LoadingTypeOK'
    BY <2>3 DEF LoadingTypeOK
  <2>5. Remembered' /\ PipelineSound'
    BY <2>3 DEF Remembered, PipelineSound
  <2>6. QED  BY <2>2, <2>4, <2>5
<1>10. CASE ResolveStage
  <2>1. /\ Wanted.key \in Keys /\ Wanted.version \in Queries
        /\ loading.stages \in Seq(Working)
    BY <1>10, WantedTyped DEF ResolveStage
  <2>2. RegistryInv'
    BY <1>10, <2>1, ResolveKeeps DEF ResolveStage
  <2>3. Answer(Wanted.key, Wanted.version).impl \in Working
    <3>1. Answer(Wanted.key, Wanted.version) \in Entries
      BY <1>10, <2>1, AnswerTyped DEF ResolveStage, Resolve, RegistryInv
    <3>2. QED  BY <1>10, <3>1 DEF ResolveStage, Entries, Working
  <2>4. loading' \in Loadings /\ UNCHANGED <<search, at, pipeline, validated>>
    <3>1. Append(loading.stages, Answer(Wanted.key, Wanted.version).impl) \in Seq(Working)
      BY <2>1, <2>3, AppendProperties
    <3>2. loading' = [loading EXCEPT !.stages = Append(loading.stages, Answer(Wanted.key, Wanted.version).impl)]
      BY <1>10 DEF ResolveStage
    <3>3. QED  BY <1>10, <3>1, <3>2 DEF ResolveStage, scanVars, LoadingTypeOK, Loadings
  <2>5. LoadingTypeOK'
    BY <2>4 DEF LoadingTypeOK
  <2>6. Remembered' /\ PipelineSound'
    BY <2>4 DEF Remembered, PipelineSound
  <2>7. QED  BY <2>2, <2>5, <2>6
<1>11. CASE Assemble
  <2> DEFINE c == loading.config
  <2> DEFINE stages == loading.stages
  <2>1. c \in Configs \cup {NoConfig} /\ stages \in Seq(Working) /\ loading \in Loadings
    BY DEF LoadingTypeOK, Loadings
  <2>2. /\ registryVars' = registryVars /\ UNCHANGED <<search, at>> /\ loading' = Idle
        /\ \/ UNCHANGED <<pipeline, validated>>
           \/ /\ pipeline' = loading /\ validated' \subseteq validated \cup {CacheKey(stages, c)}
              /\ CacheKey(stages, c) \in validated \/ Capable(stages)
    BY <1>11 DEF Assemble, scanVars
  <2>3. LoadingTypeOK'
    BY <1>5, <2>1, <2>2 DEF LoadingTypeOK
  <2>4. CASE UNCHANGED <<pipeline, validated>>
    <3>1. Remembered' /\ PipelineSound'
      BY <2>4 DEF Remembered, PipelineSound
    <3>2. QED  BY <1>4, <2>2, <2>3, <3>1
  <2>5. CASE /\ pipeline' = loading /\ validated' \subseteq validated \cup {CacheKey(stages, c)}
             /\ CacheKey(stages, c) \in validated \/ Capable(stages)
    <3>1. Capable(stages)
      BY <2>1, <2>5, KeyDecides DEF Remembered
    <3>2. Remembered'
      BY <2>1, <2>5, <3>1 DEF Remembered
    <3>3. PipelineSound'
      <4>1. \A i \in DOMAIN stages : stages[i] # Placeholder
        BY <2>1 DEF Working
      <4>2. pipeline'.stages = stages
        BY <2>5
      <4>3. QED  BY <3>1, <4>1, <4>2 DEF PipelineSound
    <3>4. QED  BY <1>4, <2>2, <2>3, <3>2, <3>3
  <2>6. QED  BY <2>2, <2>4, <2>5
<1>12. CASE ApplicationRegisters
  <2>1. PICK e \in UserEntries : Register(e.key, e.version, e.impl) /\ UNCHANGED <<scanVars, pipelineVars>>
    BY <1>12 DEF ApplicationRegisters
  <2>2. e.key \in Keys /\ e.version \in Versions /\ e.impl \in Impls
    BY AssemblyConstants
  <2>3. RegistryInv'
    BY <2>1, <2>2, RegisterKeeps
  <2>4. UNCHANGED <<pipelineVars, search>> /\ at' = at
    BY <2>1 DEF scanVars
  <2>5. QED  BY <1>1, <2>3, <2>4, PipelineUntouched
<1>13. CASE ConfigurationLoaded
  <2>1. /\ UNCHANGED <<policy, store, cache, offered, missed>> /\ cacheOn' \in BOOLEAN
        /\ UNCHANGED <<pipelineVars, search>> /\ at' = at
    BY <1>13 DEF ConfigurationLoaded, LoadConfig, Effective, scanVars
  <2>2. QED  BY <1>1, <2>1, RegistryUntouched, PipelineUntouched
<1>14. CASE UNCHANGED vars
  <2>1. registryVars' = registryVars /\ UNCHANGED <<pipelineVars, search>> /\ at' = at
    BY <1>14 DEF vars, scanVars
  <2>2. QED  BY <1>1, <1>4, <2>1, PipelineUntouched
<1>15. QED
  BY <1>6, <1>7, <1>8, <1>9, <1>10, <1>11, <1>12, <1>13, <1>14 DEF Next, Scan, Load

LEMMA Initially == Init => Inv
<1> SUFFICES ASSUME Init  PROVE Inv
  OBVIOUS
<1>1. /\ RegistryInit /\ search \in Searches /\ at = <<1, 1>> /\ loading = Idle /\ pipeline = Idle
      /\ validated = {}
  BY DEF Init
<1>2. RegistryTypeOK /\ CacheSound
  BY <1>1, EmptySeq DEF RegistryInit, RegistryTypeOK, CacheSound, CacheTruthful, Right, Queries
<1>3. Ranked
  BY <1>1 DEF RegistryInit, Ranked
<1>4. Idle \in Loadings /\ Idle.stages = <<>>
  BY EmptySeq DEF Idle, Loadings
<1>5. LoadingTypeOK /\ Remembered
  BY <1>1, <1>4 DEF LoadingTypeOK, Remembered
<1>6. PipelineSound
  BY <1>1, <1>4 DEF PipelineSound, Capable
<1>7. QED  BY <1>2, <1>3, <1>5, <1>6 DEF Inv, RegistryInv

LEMMA Always == Spec => []Inv
<1>1. Inv /\ [Next]_vars => Inv'
  BY EveryStep
<1>2. QED  BY Initially, <1>1, PTL DEF Spec

-----------------------------------------------------------------------------
\* The manifest under way is sound up to where it is read.
Readable == Scanning => at[2] - 1 <= Len(Manifest) /\ Sound(Manifest, at[2] - 1)

PrefixInv == Readable /\ ManifestPrefixes

\* A registration adds its entry or is superseded, and what it drops is
\* superseded by it.
LEMMA RegisterStores ==
  ASSUME RegistryTypeOK, NEW k \in Keys, NEW v \in Versions, NEW impl \in Impls, Register(k, v, impl)
  PROVE  /\ policy' = policy
         /\ \A x \in Keys : \A i \in DOMAIN store'[x] :
               \/ x = k /\ store'[x][i] = [version |-> v, impl |-> impl]
               \/ \E j \in DOMAIN store[x] : store'[x][i] = store[x][j]
         /\ \A x \in Keys : \A i \in DOMAIN store[x] :
               \E j \in DOMAIN store'[x] :
                  \/ store'[x][j] = store[x][i]
                  \/ /\ policy = "highest_version"
                     /\ Rank[store[x][i].version] <= Rank[store'[x][j].version]
         /\ \E j \in DOMAIN store'[k] :
               \/ store'[k][j] = [version |-> v, impl |-> impl]
               \/ policy = "highest_version" /\ Rank[v] <= Rank[store'[k][j].version]
<1> DEFINE new == [version |-> v, impl |-> impl]
<1>1. policy' = policy /\ Rank[v] \in Nat
  BY RegistryConstants DEF Register
<1>2. CASE Discarded(k, v) /\ UNCHANGED store
  <2>1. PICK i \in DOMAIN store[k] : Rank[v] < Rank[store[k][i].version] \/ v = store[k][i].version
    BY <1>2 DEF Discarded
  <2>2. Rank[v] <= Rank[store[k][i].version]
    BY <1>1, <2>1, Places
  <2>3. policy = "highest_version"
    BY <1>2 DEF Discarded
  <2>4. QED  BY <1>1, <1>2, <2>2, <2>3
<1>3. CASE Keep(k, v, impl) /\ ~Superseding(k, v)
  <2>1. /\ store' = [store EXCEPT ![k] = Append(store[k], new)]
        /\ Len(store'[k]) = Len(store[k]) + 1
        /\ \A i \in 1..Len(store[k]) : store'[k][i] = store[k][i]
        /\ store'[k][Len(store[k]) + 1] = new /\ store'[k] \in Seq(Entries)
    BY <1>3, KeptLast
  <2>2. /\ DOMAIN store[k] = 1..Len(store[k]) /\ Len(store[k]) \in Nat
        /\ DOMAIN store'[k] = 1..(Len(store[k]) + 1)
    BY <2>1, Places, LenProperties
  <2>3. \A x \in Keys : x # k => store'[x] = store[x]
    BY <2>1 DEF RegistryTypeOK
  <2>4. ASSUME NEW x \in Keys, NEW i \in DOMAIN store'[x]
        PROVE  \/ x = k /\ store'[x][i] = new
               \/ \E j \in DOMAIN store[x] : store'[x][i] = store[x][j]
    <3>1. CASE x = k
      <4>1. i \in 1..Len(store[k]) \/ i = Len(store[k]) + 1
        BY <2>2, <3>1
      <4>2. QED  BY <2>1, <2>2, <3>1, <4>1
    <3>2. QED  BY <2>3, <3>1
  <2>5. ASSUME NEW x \in Keys, NEW i \in DOMAIN store[x]
        PROVE  \E j \in DOMAIN store'[x] : store'[x][j] = store[x][i]
    <3>1. CASE x = k
      <4>1. i \in DOMAIN store'[k] /\ store'[k][i] = store[k][i]
        BY <2>1, <2>2, <3>1
      <4>2. QED  BY <3>1, <4>1
    <3>2. QED  BY <2>3, <3>1
  <2>6. Len(store[k]) + 1 \in DOMAIN store'[k] /\ store'[k][Len(store[k]) + 1] = new
    BY <2>1, <2>2
  <2> HIDE DEF new
  <2>7. QED  BY <1>1, <2>4, <2>5, <2>6 DEF new
<1>4. CASE Keep(k, v, impl) /\ Superseding(k, v)
  <2>1. store' = [store EXCEPT ![k] = <<new>>] /\ store'[k] = <<new>>
    BY <1>4, Replaced
  <2>2. \A x \in Keys : x # k => store'[x] = store[x]
    BY <2>1 DEF RegistryTypeOK
  <2> HIDE DEF new
  <2>3. DOMAIN store'[k] = {1} /\ store'[k][1] = new
    BY <2>1
  <2>4. ASSUME NEW i \in DOMAIN store[k]
        PROVE  policy = "highest_version" /\ Rank[store[k][i].version] <= Rank[new.version]
    <3>1. policy = "highest_version" /\ Rank[store[k][i].version] < Rank[v]
      BY <1>4 DEF Superseding
    <3>2. Rank[store[k][i].version] \in Nat /\ new.version = v
      BY Places DEF new
    <3>3. QED  BY <1>1, <3>1, <3>2
  <2>5. ASSUME NEW x \in Keys, NEW i \in DOMAIN store'[x]
        PROVE  \/ x = k /\ store'[x][i] = new
               \/ \E j \in DOMAIN store[x] : store'[x][i] = store[x][j]
    BY <2>2, <2>3
  <2>6. ASSUME NEW x \in Keys, NEW i \in DOMAIN store[x]
        PROVE  \E j \in DOMAIN store'[x] :
                  \/ store'[x][j] = store[x][i]
                  \/ /\ policy = "highest_version"
                     /\ Rank[store[x][i].version] <= Rank[store'[x][j].version]
    BY <2>2, <2>3, <2>4
  <2>7. QED  BY <1>1, <2>3, <2>5, <2>6 DEF new
<1>5. QED  BY <1>2, <1>3, <1>4 DEF Register

\* What was registered or superseded stays so.
LEMMA StaysStored ==
  ASSUME RegistryTypeOK, NEW k \in Keys, NEW v \in Versions, NEW impl \in Impls, Register(k, v, impl),
         verify' = verify, NEW e \in ManifestEntries, Stored(e) \/ Superseded(e)
  PROVE  Stored(e)' \/ Superseded(e)'
<1>1. e.key \in Keys /\ e.version \in Versions /\ Rank[e.version] \in Nat
  BY RegistryConstants DEF ManifestEntries
<1>2. Entered(e)' = Entered(e)
  BY DEF Entered, Declared
<1>3. PICK i \in DOMAIN store[e.key] :
        \/ store[e.key][i] = Entered(e)
        \/ policy = "highest_version" /\ Rank[e.version] <= Rank[store[e.key][i].version]
  BY DEF Stored, Superseded
<1>4. PICK j \in DOMAIN store'[e.key] :
        \/ store'[e.key][j] = store[e.key][i]
        \/ policy = "highest_version" /\ Rank[store[e.key][i].version] <= Rank[store'[e.key][j].version]
  BY <1>1, RegisterStores
<1>5. Rank[store[e.key][i].version] \in Nat /\ Rank[store'[e.key][j].version] \in Nat
  <2>1. RegistryTypeOK'
    BY RegisterTypes
  <2>2. \A n \in 1..Len(store'[e.key]) : Rank[store'[e.key][n].version] \in Nat
    BY <1>1, <2>1, PlacesAfter
  <2>3. DOMAIN store'[e.key] = 1..Len(store'[e.key])
    BY <1>1, <2>1, PlacesAfter
  <2>4. Rank[store[e.key][i].version] \in Nat
    BY <1>1, Places
  <2>5. QED  BY <2>2, <2>3, <2>4
<1>6. Entered(e).version = e.version
  BY DEF Entered
<1>7. policy' = policy
  BY RegisterStores
<1>8. CASE store'[e.key][j] = Entered(e)
  BY <1>2, <1>8 DEF Stored
<1>9. CASE policy = "highest_version" /\ Rank[e.version] <= Rank[store'[e.key][j].version]
  BY <1>7, <1>9 DEF Superseded
<1>10. QED  BY <1>1, <1>3, <1>4, <1>5, <1>6, <1>8, <1>9

LEMMA SearchTyped ==
  ASSUME LoadingTypeOK
  PROVE  /\ DOMAIN search = 1..Len(search) /\ Len(search) \in Nat
         /\ \A x \in DOMAIN search :
               /\ DOMAIN search[x] = 1..Len(search[x]) /\ Len(search[x]) \in Nat
               /\ \A j \in DOMAIN search[x] : search[x][j] \in ManifestEntries
         /\ at[1] \in Nat \ {0} /\ at[2] \in Nat \ {0}
<1>1. search \in Seq(Seq(ManifestEntries))
  BY AssemblyConstants DEF LoadingTypeOK
<1>2. DOMAIN search = 1..Len(search) /\ Len(search) \in Nat
  BY <1>1, LenProperties
<1>3. \A x \in DOMAIN search : search[x] \in Seq(ManifestEntries)
  BY <1>1, <1>2, ElementOfSeq
<1>4. \A x \in DOMAIN search :
         /\ DOMAIN search[x] = 1..Len(search[x]) /\ Len(search[x]) \in Nat
         /\ \A j \in DOMAIN search[x] : search[x][j] \in ManifestEntries
  BY <1>3, LenProperties, ElementOfSeq
<1>5. QED  BY <1>2, <1>4 DEF LoadingTypeOK

LEMMA SameManifests ==
  ASSUME UNCHANGED <<search, verify>>
  PROVE  /\ \A x, j : Sound(search[x], j)' <=> Sound(search[x], j)
         /\ \A x, j : Entered(search[x][j])' = Entered(search[x][j])
BY DEF Sound, Bad, Duplicate, Entered, Declared

Arrived(x, j) == Stored(search[x][j]) \/ Superseded(search[x][j])
Accounted(k, i) == FromApplication(k, store[k][i]) \/ FromManifest(k, store[k][i])

\* ManifestPrefixes in parts
LEMMA Parts ==
  ManifestPrefixes <=>
     /\ \A x \in DOMAIN search : \A j \in DOMAIN search[x] :
           Passed(x, j) /\ Sound(search[x], j) => Arrived(x, j)
     /\ \A k \in Keys : \A i \in DOMAIN store[k] : Accounted(k, i)
BY DEF ManifestPrefixes, Arrived, Accounted

\* What came from a manifest still does when the scan has gone on.
LEMMA StaysFromManifest ==
  ASSUME UNCHANGED <<search, verify>>,
         \A x \in DOMAIN search : \A j \in DOMAIN search[x] : Passed(x, j) => Passed(x, j)',
         NEW k, NEW r, FromManifest(k, r)
  PROVE  FromManifest(k, r)'
<1>0. PICK x \in DOMAIN search : \E j \in DOMAIN search[x] :
        /\ Passed(x, j) /\ Sound(search[x], j)
        /\ search[x][j].key = k /\ Entered(search[x][j]) = r
  BY DEF FromManifest
<1>1. PICK j \in DOMAIN search[x] :
        /\ Passed(x, j) /\ Sound(search[x], j)
        /\ search[x][j].key = k /\ Entered(search[x][j]) = r
  BY <1>0
<1>2. /\ x \in DOMAIN search' /\ j \in DOMAIN search'[x]
      /\ Passed(x, j)' /\ Sound(search[x], j)'
      /\ search'[x][j].key = k /\ Entered(search[x][j])' = r
  BY <1>1, SameManifests
<1>3. QED  BY <1>2 DEF FromManifest

\* A step of the scan or of the application that registers
LEMMA RegisteringKeepsPrefixes ==
  ASSUME LoadingTypeOK, RegistryTypeOK, ManifestPrefixes, UNCHANGED <<search, verify>>,
         NEW k \in Keys, NEW v \in Versions, NEW impl \in Impls, Register(k, v, impl),
         \A x \in DOMAIN search : \A j \in DOMAIN search[x] : Passed(x, j) => Passed(x, j)',
         \A x \in DOMAIN search : \A j \in DOMAIN search[x] :
            Passed(x, j)' => \/ Passed(x, j)
                             \/ /\ search[x][j].key = k
                                /\ Entered(search[x][j]) = [version |-> v, impl |-> impl],
         \/ FromApplication(k, [version |-> v, impl |-> impl])
         \/ FromManifest(k, [version |-> v, impl |-> impl])'
  PROVE  ManifestPrefixes'
<1>1. ASSUME NEW x \in DOMAIN search, NEW j \in DOMAIN search[x], Passed(x, j)', Sound(search[x], j)
      PROVE  Arrived(x, j)'
  <2>1. PICK e \in ManifestEntries : e = search[x][j]
    BY SearchTyped
  <2>2. Stored(e)' \/ Superseded(e)'
    <3>1. CASE Passed(x, j)
      <4>1. Stored(e) \/ Superseded(e)
        BY <1>1, <2>1, <3>1, Parts DEF Arrived
      <4>2. QED  BY <4>1, StaysStored
    <3>2. CASE e.key = k /\ Entered(e) = [version |-> v, impl |-> impl]
      <4>1. PICK i \in DOMAIN store'[k] :
              \/ store'[k][i] = [version |-> v, impl |-> impl]
              \/ policy = "highest_version" /\ Rank[v] <= Rank[store'[k][i].version]
        BY RegisterStores
      <4>2. e.version = v /\ policy' = policy /\ Entered(e)' = Entered(e)
        BY <3>2, RegisterStores DEF Entered, Declared
      <4>3. QED  BY <3>2, <4>1, <4>2 DEF Stored, Superseded
    <3>3. QED  BY <1>1, <2>1, <3>1, <3>2
  <2>3. QED  BY <2>1, <2>2 DEF Arrived, Stored, Superseded, Entered, Declared
<1>2. ASSUME NEW x \in Keys, NEW i \in DOMAIN store'[x]
      PROVE  Accounted(x, i)'
  <2>1. PICK r : r = store'[x][i]
    OBVIOUS
  <2>2. FromApplication(x, r) \/ FromManifest(x, r)'
    <3>1. CASE x = k /\ r = [version |-> v, impl |-> impl]
      BY <3>1
    <3>2. ASSUME NEW j \in DOMAIN store[x], r = store[x][j]
          PROVE  FromApplication(x, r) \/ FromManifest(x, r)'
      <4>1. FromApplication(x, r) \/ FromManifest(x, r)
        BY <3>2, Parts DEF Accounted
      <4>2. QED  BY <4>1, StaysFromManifest
    <3>3. QED  BY <2>1, <3>1, <3>2, RegisterStores
  <2>3. QED  BY <2>1, <2>2 DEF Accounted, FromApplication, FromManifest
<1>3. QED  BY <1>1, <1>2, SameManifests DEF ManifestPrefixes, Arrived, Accounted

\* A step that registers nothing, and passes only what is not sound
LEMMA IdleKeepsPrefixes ==
  ASSUME ManifestPrefixes, UNCHANGED <<search, verify, policy, store>>,
         \A x \in DOMAIN search : \A j \in DOMAIN search[x] : Passed(x, j) => Passed(x, j)',
         \A x \in DOMAIN search : \A j \in DOMAIN search[x] :
            Passed(x, j)' => Passed(x, j) \/ ~Sound(search[x], j)
  PROVE  ManifestPrefixes'
<1>1. ASSUME NEW x \in DOMAIN search, NEW j \in DOMAIN search[x], Passed(x, j)', Sound(search[x], j)
      PROVE  Arrived(x, j)'
  <2>1. Arrived(x, j)
    BY <1>1, Parts
  <2>2. QED  BY <2>1 DEF Arrived, Stored, Superseded, Entered, Declared
<1>2. ASSUME NEW k \in Keys, NEW i \in DOMAIN store[k]
      PROVE  Accounted(k, i)'
  <2>1. PICK r : r = store[k][i]
    OBVIOUS
  <2>2. FromApplication(k, r) \/ FromManifest(k, r)
    BY <2>1, Parts DEF Accounted
  <2>3. FromApplication(k, r) \/ FromManifest(k, r)'
    BY <2>2, StaysFromManifest
  <2>4. QED  BY <2>1, <2>3 DEF Accounted, FromApplication, FromManifest
<1>3. QED  BY <1>1, <1>2, SameManifests DEF ManifestPrefixes, Arrived, Accounted

\* Where the scan goes
LEMMA Onwards ==
  ASSUME LoadingTypeOK, NextEntry \/ NextManifest \/ UNCHANGED at
  PROVE  \A x \in DOMAIN search : \A j \in DOMAIN search[x] : Passed(x, j) => Passed(x, j)'
<1>1. /\ DOMAIN search = 1..Len(search) /\ Len(search) \in Nat /\ at[1] \in Nat /\ at[2] \in Nat
      /\ \A x \in DOMAIN search : DOMAIN search[x] = 1..Len(search[x]) /\ Len(search[x]) \in Nat
  BY SearchTyped
<1>2. QED  BY <1>1 DEF NextEntry, NextManifest, Passed

LEMMA PrefixInduction == ASSUME Inv, PrefixInv, [Next]_vars  PROVE PrefixInv'
<1>1. LoadingTypeOK /\ RegistryTypeOK /\ Readable /\ ManifestPrefixes
  BY DEF Inv, RegistryInv, PrefixInv
<1>2. /\ DOMAIN search = 1..Len(search) /\ Len(search) \in Nat
      /\ at[1] \in Nat \ {0} /\ at[2] \in Nat \ {0}
  BY <1>1, SearchTyped
<1>3. Scanning => /\ at[1] \in DOMAIN search /\ Len(Manifest) \in Nat
                  /\ DOMAIN Manifest = 1..Len(Manifest)
  <2>1. Scanning => at[1] \in DOMAIN search
    BY <1>2 DEF Scanning
  <2>2. QED  BY <1>1, <2>1, SearchTyped DEF Manifest
<1>4. CASE LoadEntry
  <2>1. /\ Scanning /\ at[2] <= Len(Manifest) /\ ~Bad(Manifest, at[2]) /\ at' = <<at[1], at[2] + 1>>
        /\ Register(Current.key, Current.version, Declared(Current)) /\ UNCHANGED <<search, verify, scan>>
    BY <1>4 DEF LoadEntry, Reading, NextEntry
  <2>2. Current.key \in Keys /\ Current.version \in Versions /\ Declared(Current) \in Impls
    BY <1>1, <1>4, CurrentTyped DEF LoadEntry
  <2>3. Sound(Manifest, at[2]) /\ at[2] \in DOMAIN Manifest
    BY <1>1, <1>2, <1>3, <2>1 DEF Readable, Sound
  <2>4. PICK m \in DOMAIN search : m = at[1]
    BY <1>3, <2>1
  <2>5. PICK n \in DOMAIN search[m] : n = at[2]
    BY <2>3, <2>4 DEF Manifest
  <2>6. PICK e \in ManifestEntries : e = search[m][n]
    BY <1>1, SearchTyped
  <2>7. /\ e = Current /\ at' = <<m, n + 1>> /\ m \in Nat /\ n \in Nat
        /\ Sound(search[m], n) /\ n <= Len(search[m])
    BY <1>2, <2>1, <2>3, <2>4, <2>5, <2>6 DEF Current, Manifest
  <2>8. PICK k \in Keys, v \in Versions, impl \in Impls :
             k = e.key /\ v = e.version /\ impl = Declared(e)
    BY <2>2, <2>7
  <2>9. /\ Register(k, v, impl) /\ Entered(e) = [version |-> v, impl |-> impl]
    BY <2>1, <2>7, <2>8 DEF Entered
  <2>10. /\ Passed(m, n)' /\ Sound(search[m], n)'
         /\ Entered(search[m][n])' = [version |-> v, impl |-> impl]
    <3>1. at'[1] = m /\ at'[2] = n + 1
      BY <2>7
    <3>2. Passed(m, n)'
      BY <2>7, <3>1 DEF Passed
    <3>3. QED  BY <2>1, <2>6, <2>7, <2>9, <3>2, SameManifests
  <2>11. FromManifest(k, [version |-> v, impl |-> impl])'
    BY <2>1, <2>6, <2>8, <2>10 DEF FromManifest
  <2>12. Readable'
    <3>1. at'[1] = m /\ at'[2] - 1 = n /\ search' = search
      BY <2>1, <2>7
    <3>2. Sound(search[m], at[2] - 1)'
      BY <2>10, <3>1 DEF Sound
    <3>3. QED  BY <2>7, <3>1, <3>2 DEF Readable, Manifest, Sound
  <2>13. ASSUME NEW x \in DOMAIN search, NEW j \in DOMAIN search[x], Passed(x, j)', ~Passed(x, j)
         PROVE  search[x][j] = e
    <3>1. j \in Nat /\ x \in Nat
      BY <1>1, <1>2, SearchTyped
    <3>2. at'[1] = m /\ at'[2] = n + 1 /\ at[1] = m /\ at[2] = n
      BY <2>4, <2>5, <2>7
    <3>3. x = m /\ j = n
      BY <2>7, <2>13, <3>1, <3>2 DEF Passed
    <3>4. QED  BY <2>6, <3>3
  <2>14. \A x \in DOMAIN search : \A j \in DOMAIN search[x] : Passed(x, j) => Passed(x, j)'
    BY <1>1, <2>1, Onwards DEF NextEntry
  <2>15. ManifestPrefixes'
    <3>1. \A x \in DOMAIN search : \A j \in DOMAIN search[x] :
             Passed(x, j)' => \/ Passed(x, j)
                              \/ /\ search[x][j].key = k
                                 /\ Entered(search[x][j]) = [version |-> v, impl |-> impl]
      BY <2>8, <2>9, <2>13
    <3>2. QED  BY <1>1, <2>1, <2>9, <2>11, <2>14, <3>1, RegisteringKeepsPrefixes
  <2>16. QED  BY <2>12, <2>15 DEF PrefixInv
<1>5. CASE BadEntry \/ EndOfManifest
  <2>1. /\ Scanning /\ UNCHANGED <<search, verify, policy, store>>
        /\ at[2] > Len(Manifest) \/ Bad(Manifest, at[2])
        /\ \/ NextManifest /\ scan' = scan
           \/ UNCHANGED at /\ scan' = "raised"
    BY <1>5 DEF BadEntry, EndOfManifest, Reading, registryVars
  <2>2. ASSUME NEW x \in DOMAIN search, NEW j \in DOMAIN search[x], Passed(x, j)', ~Passed(x, j)
        PROVE  ~Sound(search[x], j)
    <3>1. j \in Nat \ {0} /\ x \in Nat
      BY <1>1, <1>2, SearchTyped
    <3>2. x = at[1] /\ at[2] <= j
      <4>1. at'[1] = at[1] + 1 /\ at'[2] = 1
        BY <2>1, <2>2 DEF Passed, NextManifest
      <4>2. QED  BY <1>2, <2>2, <3>1, <4>1 DEF Passed
    <3>3. j <= Len(Manifest)
      BY <1>3, <2>1, <3>2 DEF Manifest
    <3>4. at[2] \in 1..j /\ Bad(Manifest, at[2])
      BY <1>2, <1>3, <2>1, <3>1, <3>2, <3>3
    <3>5. QED  BY <3>2, <3>4 DEF Sound, Manifest
  <2>3. \A x \in DOMAIN search : \A j \in DOMAIN search[x] : Passed(x, j) => Passed(x, j)'
    BY <1>1, <2>1, Onwards
  <2>4. ManifestPrefixes'
    BY <1>1, <2>1, <2>2, <2>3, IdleKeepsPrefixes
  <2>5. Readable'
    <3>1. CASE NextManifest /\ scan' = scan
      <4>1. SUFFICES ASSUME Scanning'
            PROVE  at'[2] - 1 <= Len(Manifest') /\ Sound(Manifest, at[2] - 1)'
        BY DEF Readable
      <4>2. at'[1] = at[1] + 1 /\ at'[2] - 1 = 0
        BY <3>1 DEF NextManifest
      <4>3. Len(Manifest') \in Nat
        BY <1>1, <1>2, <2>1, <4>1, <4>2, SearchTyped DEF Scanning, Manifest
      <4>4. Sound(Manifest, at[2] - 1)'
        BY <4>2 DEF Sound
      <4>5. QED  BY <4>2, <4>3, <4>4
    <3>2. CASE scan' = "raised"
      BY <3>2 DEF Readable, Scanning
    <3>3. QED  BY <2>1, <3>1, <3>2
  <2>6. QED  BY <2>4, <2>5 DEF PrefixInv
<1>6. ASSUME UNCHANGED <<search, verify, at, policy, store>>, scan' \in {scan, "raised", "done"}
      PROVE  PrefixInv'
  <2>1. /\ \A x, j : Passed(x, j)' <=> Passed(x, j)
    BY <1>6 DEF Passed
  <2>2. ManifestPrefixes'
    BY <1>1, <1>6, <2>1, IdleKeepsPrefixes
  <2>3. Readable'
    BY <1>1, <1>6, SameManifests DEF Readable, Scanning, Manifest
  <2>4. QED  BY <2>2, <2>3 DEF PrefixInv
<1>7. CASE ApplicationRegisters
  <2>1. PICK e \in UserEntries : Register(e.key, e.version, e.impl) /\ UNCHANGED scanVars
    BY <1>7 DEF ApplicationRegisters
  <2>2. /\ e.key \in Keys /\ e.version \in Versions /\ e.impl \in Impls
        /\ FromApplication(e.key, [version |-> e.version, impl |-> e.impl])
    BY AssemblyConstants DEF FromApplication
  <2>3. \A x, j : Passed(x, j)' <=> Passed(x, j)
    BY <2>1 DEF Passed, scanVars
  <2>4. ManifestPrefixes'
    BY <1>1, <2>1, <2>2, <2>3, RegisteringKeepsPrefixes DEF scanVars
  <2>5. Readable'
    BY <1>1, <2>1, SameManifests DEF Readable, Scanning, Manifest, scanVars
  <2>6. QED  BY <2>4, <2>5 DEF PrefixInv
<1>8. CASE ConflictingEntry \/ EndOfScan \/ ConfigurationLoaded \/ UNCHANGED vars
  BY <1>6, <1>8 DEF ConflictingEntry, EndOfScan, ConfigurationLoaded, LoadConfig, vars,
                    registryVars, scanVars
<1>9. CASE Load \/ \E c \in Configs : StartLoading(c)
  <2>1. UNCHANGED <<search, verify, at, policy, store, scan>>
    BY <1>9 DEF Load, StageFails, ResolveStage, Resolve, Assemble, StartLoading, registryVars, scanVars
  <2>2. QED  BY <1>6, <2>1
<1>10. QED  BY <1>4, <1>5, <1>7, <1>8, <1>9 DEF Next, Scan

-----------------------------------------------------------------------------
\* However registrations, look-ups, scans and switches of the cache flag are
\* interleaved, a cached answer of Registry.resolve() is what the
\* registrations give, but for keys that were registered with the cache off.
THEOREM AnswersAreCurrent == Spec => []CacheTruthful
<1>1. Inv => CacheTruthful
  BY DEF Inv, RegistryInv, CacheSound
<1>2. QED  BY Always, <1>1, PTL

\* Under HIGHEST_VERSION resolve() without a version gives the highest of all
\* that register() was ever given for the key.
THEOREM HighestVersionWins == Spec => []HighestServed
<1>1. Inv => HighestServed
  <2>1. SUFFICES ASSUME Inv, policy = "highest_version", NEW k \in Keys \ missed, NEW v \in offered[k]
        PROVE Known(k, Latest) /\ Rank[v] <= Rank[Answer(k, Latest).version]
    BY DEF HighestServed
  <2>2. store[k] # <<>> /\ \A i \in 1..Len(store[k]) : Rank[v] <= Rank[store[k][i].version]
    BY <2>1 DEF Inv, RegistryInv, Ranked
  <2>3. Len(store[k]) \in Nat /\ Len(store[k]) \in 1..Len(store[k])
    BY <2>2, Places DEF Inv, RegistryInv
  <2>4. 1 \in 1..Len(store[k])
    BY <2>3
  <2>5. Known(k, Latest) /\ Lookup(k, Latest) = store[k][1]
    BY <2>1, <2>2, FirstIsHighest DEF Inv
  <2>6. Answer(k, Latest) = Lookup(k, Latest)
    BY <2>1 DEF Answer, Hit, Inv, RegistryInv, CacheSound, CacheTruthful, Queries
  <2>7. QED  BY <2>2, <2>4, <2>5, <2>6
<1>2. QED  BY Always, <1>1, PTL

\* The entries that Registry keeps of a key under HIGHEST_VERSION compare
\* equal, so that list() and resolve() agree about it.
THEOREM EqualsAreKept == Spec => []OneRankKept
<1>1. Inv => OneRankKept
  <2>1. SUFFICES ASSUME Inv, policy = "highest_version", NEW k \in Keys,
                        NEW i \in DOMAIN store[k], NEW j \in DOMAIN store[k]
        PROVE /\ Rank[store[k][i].version] = Rank[store[k][j].version]
              /\ i # j => store[k][i].version # store[k][j].version
    BY DEF OneRankKept
  <2>2. DOMAIN store[k] = 1..Len(store[k])
    BY Places DEF Inv, RegistryInv
  <2>3. QED  BY <2>1, <2>2 DEF Inv, RegistryInv, Ranked
<1>2. QED  BY Always, <1>1, PTL

\* Every stage of a Pipeline that was constructed is a component and finds
\* what it requires, whether _validate_stage_compatibility() made the check or
\* remembered it.
THEOREM PipelinesFit == Spec => []PipelineSound
<1>1. Inv => PipelineSound
  BY DEF Inv
<1>2. QED  BY Always, <1>1, PTL

\* Whatever is wrong with which manifest, the entries before its first bad one
\* are registered or superseded once scan() or load() has passed them, and the
\* registry holds nothing else but what the application registered itself.
THEOREM ManifestsLoadPrefixes == Spec => []ManifestPrefixes
<1>1. Init => PrefixInv
  <2> SUFFICES ASSUME Init  PROVE PrefixInv
    OBVIOUS
  <2>1. at = <<1, 1>> /\ search \in Searches /\ \A k \in Keys : store[k] = <<>>
    BY DEF Init, RegistryInit
  <2>2. LoadingTypeOK
    BY Initially DEF Inv
  <2>3. Readable
    <3>1. Scanning => Len(Manifest) \in Nat
      BY <2>1, <2>2, SearchTyped DEF Scanning, Manifest
    <3>2. at[2] - 1 = 0 /\ Sound(Manifest, 0)
      BY <2>1 DEF Sound
    <3>3. QED  BY <3>1, <3>2 DEF Readable
  <2>4. \A x \in DOMAIN search : \A j \in DOMAIN search[x] : ~Passed(x, j)
    BY <2>1, <2>2, SearchTyped DEF Passed
  <2>5. QED  BY <2>1, <2>3, <2>4 DEF PrefixInv, ManifestPrefixes
<1>2. Inv /\ PrefixInv /\ [Next]_vars => PrefixInv'
  BY PrefixInduction
<1>3. PrefixInv => ManifestPrefixes
  BY DEF PrefixInv
<1>4. QED  BY Always, <1>1, <1>2, <1>3, PTL DEF Spec

-----------------------------------------------------------------------------
(* The words of a segment                                                    *)

LEMMA Share ==
  ASSUME NEW a \in Nat, NEW n \in Nat, NEW t \in Nat, t >= 1
  PROVE  (a * n) \div t \in Nat
<1>1. a * n \in Nat
  OBVIOUS
<1> DEFINE p == a * n
<1> HIDE DEF p
<1>2. p \in Nat
  BY <1>1 DEF p
<1>3. p \div t \in Nat
  BY <1>2
<1>4. QED  BY <1>3 DEF p

\* A word is over behind the one before it, and within the segment.
LEMMA EndOfBounded ==
  ASSUME NEW ws \in Seq(Seq(Letters)), NEW i \in 1..Len(ws), NEW start \in Nat, NEW end \in Nat,
         NEW cursor \in start..end
  PROVE  EndOf(ws, i, cursor, start, end) \in cursor..end
<1> DEFINE total == Larger(Len(FlattenSeq(ws)), 1)
           share == ((end - start) * Len(ws[i])) \div total
<1>1. Len(FlattenSeq(ws)) \in Nat
  <2>1. FlattenSeq(ws) \in Seq(Letters)
    BY Flattened
  <2>2. QED  BY <2>1, LenProperties
<1>2. total \in Nat /\ total >= 1
  BY <1>1 DEF Larger
<1>3. Len(ws[i]) \in Nat
  BY ElementOfSeq, LenProperties
<1>4. end - start \in Nat
  OBVIOUS
<1>5. share \in Nat
  <2> HIDE DEF total
  <2>1. QED  BY <1>2, <1>3, <1>4, Share
<1>6. EndOf(ws, i, cursor, start, end) = IF i = Len(ws) THEN end ELSE Smaller(cursor + share, end)
  BY DEF EndOf
<1> HIDE DEF share
<1>7. Smaller(cursor + share, end) \in cursor..end
  BY <1>5 DEF Smaller
<1>8. QED  BY <1>6, <1>7

\* The cursor goes from the start of the segment to its end.
LEMMA CursorsBounded ==
  ASSUME NEW ws \in Seq(Seq(Letters)), NEW start \in Nat, NEW end \in Nat, start <= end
  PROVE  LET c == Cursors(ws, start, end)
         IN  /\ c[0] = start /\ (Len(ws) # 0 => c[Len(ws)] = end)
             /\ \A i \in 0..Len(ws) : c[i] \in start..end
             /\ \A i \in 1..Len(ws) : c[i-1] <= c[i]
<1> DEFINE N == Len(ws)
           X == start..end
           body(f) == [i \in 0..N |-> IF i = 0 THEN start ELSE EndOf(ws, i, f[i-1], start, end)]
           g == [p \in Nat \X X |-> IF p[1] \in 1..N THEN EndOf(ws, p[1], p[2], start, end)
                                    ELSE p[2]]
<1>1. N \in Nat /\ start \in X
  BY LenProperties
<1>2. Cursors(ws, start, end) = CHOOSE f : f = body(f)
  BY DEF Cursors
<1>3. ASSUME NEW n \in Nat, NEW x \in X
      PROVE  /\ g[<<n, x>>] = IF n \in 1..N THEN EndOf(ws, n, x, start, end) ELSE x
             /\ g[<<n, x>>] \in X
  <2>1. g[<<n, x>>] = IF n \in 1..N THEN EndOf(ws, n, x, start, end) ELSE x
    OBVIOUS
  <2>2. n \in 1..N => EndOf(ws, n, x, start, end) \in x..end
    BY EndOfBounded
  <2> HIDE DEF g
  <2>3. QED  BY <2>1, <2>2
<1>4. PICK f \in [0..N -> X] : Iterates(f, N, start, g)
  <2> HIDE DEF g, N, X
  <2>1. Closed(g, X)
    BY <1>3 DEF Closed
  <2>2. QED  BY <1>1, <2>1, Recursion
<1>5. f = body(f)
  <2>1. ASSUME NEW i \in 0..N
        PROVE  f[i] = IF i = 0 THEN start ELSE EndOf(ws, i, f[i-1], start, end)
    <3>1. CASE i = 0
      BY <1>4, <3>1 DEF Iterates
    <3>2. CASE i # 0
      <4>1. i \in 1..N /\ i - 1 \in 0..N /\ i \in Nat
        BY <1>1, <3>2
      <4> HIDE DEF g
      <4>2. f[i] = g[<<i, f[i-1]>>] /\ f[i-1] \in X
        BY <1>4, <4>1 DEF Iterates
      <4>3. QED  BY <1>3, <3>2, <4>1, <4>2
    <3>3. QED  BY <3>1, <3>2
  <2> HIDE DEF g, X, N
  <2>2. QED  BY <1>4, <2>1
<1> DEFINE c == CHOOSE h : h = body(h)
<1>6. c = body(c)
  <2> HIDE DEF body
  <2>1. QED  BY <1>5
<1> HIDE DEF c
<1>7. c[0] = start /\ \A i \in 1..N : c[i] = EndOf(ws, i, c[i-1], start, end)
  <2> DEFINE b == body(c)
  <2>1. b[0] = start /\ \A i \in 1..N : b[i] = EndOf(ws, i, c[i-1], start, end)
    BY <1>1
  <2> HIDE DEF b
  <2>2. QED  BY <1>6, <2>1 DEF b
<1> DEFINE P == {n \in 0..N : c[n] \in X}
<1> HIDE DEF body, g
<1>8. 0 \in P
  BY <1>1, <1>7
<1>9. ASSUME NEW n \in 0..N, n \in P, n < N  PROVE n + 1 \in P
  <2>1. n + 1 \in 1..N /\ n + 1 \in 0..N /\ (n + 1) - 1 = n
    BY <1>1, <1>9
  <2>2. c[n+1] = EndOf(ws, n + 1, c[n], start, end) /\ c[n] \in start..end
    BY <1>7, <1>9, <2>1
  <2>3. c[n+1] \in c[n]..end
    <3> DEFINE x == c[n]  m == n + 1
    <3>1. x \in start..end /\ m \in 1..Len(ws) /\ c[n+1] = EndOf(ws, m, x, start, end)
      BY <2>1, <2>2
    <3> HIDE DEF x, m, P
    <3>2. EndOf(ws, m, x, start, end) \in x..end
      BY <3>1, EndOfBounded
    <3>3. QED  BY <3>1, <3>2 DEF x
  <2>4. c[n+1] \in X
    BY <2>2, <2>3
  <2>5. QED  BY <2>1, <2>4
<1>10. \A n \in 0..N : c[n] \in X
  <2> HIDE DEF P
  <2>1. 0..N \subseteq P
    BY <1>1, <1>8, <1>9, Induction
  <2>2. QED  BY <2>1 DEF P
<1>11. ASSUME NEW i \in 1..N  PROVE c[i-1] <= c[i] /\ (i = N => c[i] = end)
  <2>1. i - 1 \in 0..N /\ i \in 0..N
    BY <1>1
  <2>2. c[i-1] \in start..end /\ c[i] = EndOf(ws, i, c[i-1], start, end)
    BY <1>7, <1>10, <2>1
  <2>3. c[i] \in c[i-1]..end /\ (i = N => c[i] = end)
    <3> DEFINE x == c[i-1]
    <3>1. x \in start..end /\ i \in 1..Len(ws) /\ c[i] = EndOf(ws, i, x, start, end)
      BY <2>2
    <3> HIDE DEF x, P
    <3>2. EndOf(ws, i, x, start, end) \in x..end
      BY <3>1, EndOfBounded
    <3>3. c[i] \in x..end
      BY <3>1, <3>2
    <3>4. i = N => c[i] = end
      BY <3>1 DEF EndOf
    <3>5. QED  BY <3>3, <3>4 DEF x
  <2>4. QED  BY <2>2, <2>3
<1>12. N # 0 => N \in 1..N
  BY <1>1
<1>13. QED  BY <1>2, <1>7, <1>10, <1>11, <1>12 DEF c

\* What the time stamps of n words have to be
Tiles(stamps, n, start, end) ==
    /\ stamps = [i \in 1..n |-> stamps[i]]
    /\ n # 0 => stamps[1].start >= start /\ stamps[n].end = end
    /\ \A k \in 1..n : stamps[k].start <= stamps[k].end
    /\ \A k \in 2..n : stamps[k].start = stamps[k-1].end

LEMMA DistributedTiles ==
  ASSUME NEW ws \in Seq(Seq(Letters)), NEW start \in Nat, NEW end \in Nat, start <= end
  PROVE  Tiles(Distributed(ws, start, end), Len(ws), start, end)
<1> DEFINE c == Cursors(ws, start, end)
           N == Len(ws)
           d == [i \in 1..N |-> [start |-> c[i-1], end |-> c[i]]]
<1>1. N \in Nat /\ DOMAIN ws = 1..N
  BY LenProperties
<1>2. /\ c[0] = start /\ (N # 0 => c[N] = end)
      /\ \A i \in 1..N : c[i-1] <= c[i]
  BY CursorsBounded
<1>3. Distributed(ws, start, end) = d
  BY <1>1 DEF Distributed
<1>4. \A i \in 1..N : d[i].start = c[i-1] /\ d[i].end = c[i]
  OBVIOUS
<1>5. d = [i \in 1..N |-> d[i]]
  OBVIOUS
<1> HIDE DEF c, d
<1>6. N # 0 => 1 \in 1..N /\ N \in 1..N /\ 1 - 1 = 0
  BY <1>1
<1>7. N # 0 => d[1].start >= start /\ d[N].end = end
  BY <1>2, <1>4, <1>6
<1>8. \A k \in 1..N : d[k].start <= d[k].end
  BY <1>2, <1>4
<1>9. \A k \in 2..N : d[k].start = d[k-1].end
  <2> TAKE k \in 2..N
  <2>1. k \in 1..N /\ k - 1 \in 1..N
    BY <1>1
  <2>2. QED  BY <1>4, <2>1
<1>10. QED  BY <1>3, <1>5, <1>7, <1>8, <1>9 DEF Tiles

\* A letter takes no frame before the one consumed last, and never frame 0.
LEMMA TakenBounded ==
  ASSUME NEW frames \in Seq(Letters \cup {Blank}), NEW letter,
         NEW consumed \in 0..Len(frames) + 1
  PROVE  /\ Taken(frames, letter, consumed) \in 1..Len(frames) + 1
         /\ consumed <= Taken(frames, letter, consumed)
<1> DEFINE M == Len(frames)
           later == {f \in Emissions(frames) : f > consumed /\ frames[f] = letter}
<1>1. M \in Nat /\ DOMAIN frames = 1..M
  BY LenProperties
<1>2. later \subseteq 1..M /\ \A f \in later : f > consumed
  BY <1>1 DEF Emissions
<1>3. Taken(frames, letter, consumed) =
        IF consumed \in 1..M /\ frames[consumed] = letter THEN consumed
        ELSE IF later = {} THEN M + 1
        ELSE CHOOSE f \in later : \A h \in later : f <= h
  BY <1>1 DEF Taken
<1> HIDE DEF later
<1>4. later # {} => (CHOOSE f \in later : \A h \in later : f <= h) \in later
  <2>1. later \subseteq Nat \ {0}
    BY <1>1, <1>2
  <2>2. later # {} => \E f \in later : \A h \in later : f <= h
    BY <2>1, Least
  <2>3. QED  BY <2>2
<1>5. CASE consumed \in 1..M /\ frames[consumed] = letter
  BY <1>1, <1>3, <1>5
<1>6. CASE ~(consumed \in 1..M /\ frames[consumed] = letter) /\ later = {}
  BY <1>1, <1>3, <1>6
<1>7. CASE ~(consumed \in 1..M /\ frames[consumed] = letter) /\ later # {}
  <2>1. Taken(frames, letter, consumed) \in later
    BY <1>3, <1>4, <1>7
  <2> DEFINE x == Taken(frames, letter, consumed)
  <2>2. x \in 1..M /\ x > consumed
    BY <1>2, <2>1
  <2> HIDE DEF x
  <2>3. x \in 1..M + 1 /\ consumed <= x
    BY <1>1, <2>2
  <2>4. QED  BY <2>3 DEF x
<1>8. QED  BY <1>5, <1>6, <1>7

\* The letters of a word take frames in order.
LEMMA WalkedBounded ==
  ASSUME NEW frames \in Seq(Letters \cup {Blank}), NEW word \in Seq(Letters), word # <<>>,
         NEW from \in 0..Len(frames) + 1
  PROVE  LET w == Walked(frames, word, from)
         IN  /\ w[1] \in 1..Len(frames) + 1 /\ w[Len(word)] \in 1..Len(frames) + 1
             /\ from <= w[1] /\ w[1] <= w[Len(word)]
<1> DEFINE N == Len(word)
           M == Len(frames)
           X == 0..M + 1
           body(f) == [k \in 0..N |-> IF k = 0 THEN from ELSE Taken(frames, word[k], f[k-1])]
           g == [p \in Nat \X X |-> IF p[1] \in 1..N THEN Taken(frames, word[p[1]], p[2]) ELSE p[2]]
<1>1. N \in Nat /\ N # 0 /\ M \in Nat /\ from \in X
  BY LenProperties, EmptySeq
<1>2. Walked(frames, word, from) = CHOOSE f : f = body(f)
  BY DEF Walked
<1>3. ASSUME NEW n \in Nat, NEW x \in X
      PROVE  /\ g[<<n, x>>] = IF n \in 1..N THEN Taken(frames, word[n], x) ELSE x
             /\ g[<<n, x>>] \in X
  <2>1. g[<<n, x>>] = IF n \in 1..N THEN Taken(frames, word[n], x) ELSE x
    OBVIOUS
  <2>2. Taken(frames, word[n], x) \in 1..M + 1
    BY TakenBounded
  <2> HIDE DEF g
  <2>3. QED  BY <1>1, <2>1, <2>2
<1>4. PICK f \in [0..N -> X] : Iterates(f, N, from, g)
  <2> HIDE DEF g, N, X
  <2>1. Closed(g, X)
    BY <1>3 DEF Closed
  <2>2. QED  BY <1>1, <2>1, Recursion
<1>5. f = body(f)
  <2>1. ASSUME NEW k \in 0..N
        PROVE  f[k] = IF k = 0 THEN from ELSE Taken(frames, word[k], f[k-1])
    <3>1. CASE k = 0
      BY <1>4, <3>1 DEF Iterates
    <3>2. CASE k # 0
      <4>1. k \in 1..N /\ k - 1 \in 0..N /\ k \in Nat
        BY <1>1, <3>2
      <4> HIDE DEF g
      <4>2. f[k] = g[<<k, f[k-1]>>] /\ f[k-1] \in X
        BY <1>4, <4>1 DEF Iterates
      <4>3. QED  BY <1>3, <3>2, <4>1, <4>2
    <3>3. QED  BY <3>1, <3>2
  <2> HIDE DEF g, X, N
  <2>2. QED  BY <1>4, <2>1
<1> DEFINE w == CHOOSE h : h = body(h)
<1>6. w = body(w)
  <2> HIDE DEF body
  <2>1. QED  BY <1>5
<1> HIDE DEF w
<1>7. w[0] = from /\ \A k \in 1..N : w[k] = Taken(frames, word[k], w[k-1])
  <2> DEFINE b == body(w)
  <2>1. b[0] = from /\ \A k \in 1..N : b[k] = Taken(frames, word[k], w[k-1])
    BY <1>1
  <2> HIDE DEF b
  <2>2. QED  BY <1>6, <2>1 DEF b
<1> HIDE DEF body, g
<1>8. w[1] \in 1..M + 1 /\ from <= w[1]
  <2>1. w[1] = Taken(frames, word[1], from)
    <3>1. 1 \in 1..N /\ 1 - 1 = 0
      BY <1>1
    <3>2. QED  BY <1>7, <3>1
  <2>2. Taken(frames, word[1], from) \in 1..M + 1 /\ from <= Taken(frames, word[1], from)
    BY TakenBounded
  <2>3. QED  BY <2>1, <2>2
<1> DEFINE P == {n \in 0..N : n # 0 => w[n] \in 1..M + 1 /\ w[1] <= w[n]}
<1>9. 0 \in P
  BY <1>1
<1>10. ASSUME NEW n \in 0..N, n \in P, n < N  PROVE n + 1 \in P
  <2>1. n + 1 \in 1..N /\ n + 1 \in 0..N /\ (n + 1) - 1 = n
    BY <1>1, <1>10
  <2>2. CASE n = 0
    <3>1. n + 1 = 1
      BY <2>2
    <3>2. w[n+1] \in 1..M + 1 /\ w[1] <= w[n+1]
      BY <1>1, <1>8, <3>1
    <3>3. QED  BY <2>1, <3>2
  <2>3. CASE n # 0
    <3> DEFINE x == w[n]  l == word[n+1]
    <3>1. x \in 1..M + 1 /\ w[1] <= x /\ w[n+1] = Taken(frames, l, x)
      BY <1>7, <1>10, <2>1, <2>3
    <3>2. x \in 0..Len(frames) + 1
      BY <1>1, <3>1
    <3> HIDE DEF x, l, P
    <3>3. Taken(frames, l, x) \in 1..M + 1 /\ x <= Taken(frames, l, x)
      BY <3>2, TakenBounded
    <3>4. w[n+1] \in 1..M + 1 /\ w[1] <= w[n+1]
      BY <1>1, <1>8, <3>1, <3>3
    <3>5. QED  BY <2>1, <3>4 DEF P
  <2>4. QED  BY <2>2, <2>3
<1>11. w[N] \in 1..M + 1 /\ w[1] <= w[N]
  <2> HIDE DEF P
  <2>1. 0..N \subseteq P
    BY <1>1, <1>9, <1>10, Induction
  <2>2. N \in P
    BY <1>1, <2>1
  <2>3. QED  BY <1>1, <2>2 DEF P
<1>12. QED  BY <1>2, <1>8, <1>11 DEF w

\* The words take frames in order.
LEMMA ConsumedBounded ==
  ASSUME NEW frames \in Seq(Letters \cup {Blank}), NEW ws \in Seq(Seq(Letters) \ {<<>>})
  PROVE  LET past == Consumed(ws, frames)
         IN  /\ \A i \in 0..Len(ws) : past[i] \in 0..Len(frames) + 1
             /\ \A i \in 1..Len(ws) : /\ Walked(frames, ws[i], past[i-1])[1] \in 1..Len(frames) + 1
                                      /\ past[i-1] <= Walked(frames, ws[i], past[i-1])[1]
                                      /\ Walked(frames, ws[i], past[i-1])[1] <= past[i]
<1> DEFINE N == Len(ws)
           X == 0..Len(frames) + 1
           step(i, x) == Walked(frames, ws[i], x)[Len(ws[i])]
           body(f) == [i \in 0..N |->
                         IF i = 0 THEN 0 ELSE Walked(frames, ws[i], f[i-1])[Len(ws[i])]]
           g == [p \in Nat \X X |-> IF p[1] \in 1..N THEN step(p[1], p[2]) ELSE p[2]]
<1>1. N \in Nat /\ Len(frames) \in Nat /\ 0 \in X
  BY LenProperties
<1>2. Consumed(ws, frames) = CHOOSE f : f = body(f)
  BY DEF Consumed
<1>3. ASSUME NEW n \in 1..N, NEW x \in X
      PROVE  /\ Walked(frames, ws[n], x)[1] \in 1..Len(frames) + 1
             /\ step(n, x) \in 1..Len(frames) + 1
             /\ x <= Walked(frames, ws[n], x)[1] /\ Walked(frames, ws[n], x)[1] <= step(n, x)
  <2> DEFINE word == ws[n]
  <2>1. word \in Seq(Letters) /\ word # <<>>
    BY ElementOfSeq
  <2> HIDE DEF word
  <2>2. /\ Walked(frames, word, x)[1] \in 1..Len(frames) + 1
        /\ Walked(frames, word, x)[Len(word)] \in 1..Len(frames) + 1
        /\ x <= Walked(frames, word, x)[1]
        /\ Walked(frames, word, x)[1] <= Walked(frames, word, x)[Len(word)]
    BY <2>1, WalkedBounded
  <2>3. QED  BY <2>2 DEF word
<1>4. ASSUME NEW n \in Nat, NEW x \in X
      PROVE  /\ g[<<n, x>>] = IF n \in 1..N THEN step(n, x) ELSE x
             /\ g[<<n, x>>] \in X
  <2>1. g[<<n, x>>] = IF n \in 1..N THEN step(n, x) ELSE x
    OBVIOUS
  <2>2. n \in 1..N => step(n, x) \in 1..Len(frames) + 1
    BY <1>3
  <2> HIDE DEF g, step
  <2>3. QED  BY <1>1, <2>1, <2>2
<1>5. PICK f \in [0..N -> X] : Iterates(f, N, 0, g)
  <2> HIDE DEF g, N, X
  <2>1. Closed(g, X)
    BY <1>4 DEF Closed
  <2>2. QED  BY <1>1, <2>1, Recursion
<1>6. f = body(f)
  <2>1. ASSUME NEW i \in 0..N
        PROVE  f[i] = IF i = 0 THEN 0 ELSE step(i, f[i-1])
    <3>1. CASE i = 0
      BY <1>5, <3>1 DEF Iterates
    <3>2. CASE i # 0
      <4>1. i \in 1..N /\ i - 1 \in 0..N /\ i \in Nat
        BY <1>1, <3>2
      <4> HIDE DEF g, step
      <4>2. f[i] = g[<<i, f[i-1]>>] /\ f[i-1] \in X
        BY <1>5, <4>1 DEF Iterates
      <4>3. QED  BY <1>4, <3>2, <4>1, <4>2
    <3>3. QED  BY <3>1, <3>2
  <2> HIDE DEF g, X, N
  <2>2. QED  BY <1>5, <2>1
<1> DEFINE c == CHOOSE h : h = body(h)
<1>7. c = body(c)
  <2> HIDE DEF body
  <2>1. QED  BY <1>6
<1> HIDE DEF c
<1>8. c[0] = 0 /\ \A i \in 1..N : c[i] = step(i, c[i-1])
  <2> DEFINE b == body(c)
  <2>1. b[0] = 0 /\ \A i \in 1..N : b[i] = step(i, c[i-1])
    BY <1>1
  <2> HIDE DEF b
  <2>2. QED  BY <1>7, <2>1 DEF b
<1> DEFINE P == {n \in 0..N : c[n] \in X}
<1> HIDE DEF body, g
<1>9. 0 \in P
  BY <1>1, <1>8
<1>10. ASSUME NEW n \in 0..N, n \in P, n < N  PROVE n + 1 \in P
  <2>1. n + 1 \in 1..N /\ n + 1 \in 0..N /\ (n + 1) - 1 = n
    BY <1>1, <1>10
  <2>2. c[n] \in X /\ c[n+1] = step(n + 1, c[n])
    BY <1>8, <1>10, <2>1
  <2>3. step(n + 1, c[n]) \in 1..Len(frames) + 1
    BY <1>3, <2>1, <2>2
  <2> HIDE DEF step
  <2>4. c[n+1] \in X
    BY <1>1, <2>2, <2>3
  <2>5. QED  BY <2>1, <2>4
<1>11. \A n \in 0..N : c[n] \in X
  <2> HIDE DEF P
  <2>1. 0..N \subseteq P
    BY <1>1, <1>9, <1>10, Induction
  <2>2. QED  BY <2>1 DEF P
<1>12. ASSUME NEW i \in 1..N
       PROVE  /\ Walked(frames, ws[i], c[i-1])[1] \in 1..Len(frames) + 1
              /\ c[i-1] <= Walked(frames, ws[i], c[i-1])[1]
              /\ Walked(frames, ws[i], c[i-1])[1] <= c[i]
  <2>1. i - 1 \in 0..N
    BY <1>1
  <2>2. c[i-1] \in X
    BY <1>11, <2>1
  <2>3. c[i] = step(i, c[i-1])
    BY <1>8
  <2> HIDE DEF X
  <2>4. QED  BY <1>3, <2>2, <2>3
<1>13. QED  BY <1>2, <1>11, <1>12 DEF c

\* The words start in frames that follow one another.
LEMMA SpansInOrder ==
  ASSUME NEW frames \in Seq(Letters \cup {Blank}), NEW ws \in Seq(Seq(Letters) \ {<<>>}),
         Spans(ws, frames) # <<>>
  PROVE  /\ \A i \in 1..Len(ws) : Spans(ws, frames)[i] \in Nat
         /\ \A i \in 1..Len(ws) - 1 : Spans(ws, frames)[i] <= Spans(ws, frames)[i+1]
<1> DEFINE N == Len(ws)
           past == Consumed(ws, frames)
           first(i) == Walked(frames, ws[i], past[i-1])[1]
           spans == [i \in 1..N |-> first(i) - 1]
<1>1. N \in Nat /\ DOMAIN ws = 1..N /\ Len(frames) \in Nat
  BY LenProperties
<1>2. Spans(ws, frames) = spans
  BY <1>1 DEF Spans
<1>3. /\ \A i \in 0..N : past[i] \in 0..Len(frames) + 1
      /\ \A i \in 1..N : first(i) \in 1..Len(frames) + 1 /\ past[i-1] <= first(i) /\ first(i) <= past[i]
  BY ConsumedBounded
<1> HIDE DEF past, first
<1>4. \A i \in 1..N : spans[i] = first(i) - 1
  OBVIOUS
<1> HIDE DEF spans
<1>5. \A i \in 1..N : spans[i] \in Nat
  BY <1>1, <1>3, <1>4
<1>6. ASSUME NEW i \in 1..N - 1  PROVE spans[i] <= spans[i+1]
  <2>1. i \in 1..N /\ i + 1 \in 1..N /\ (i + 1) - 1 = i /\ i \in 0..N
    BY <1>1
  <2>2. first(i) <= past[i] /\ past[i] <= first(i + 1)
    BY <1>3, <2>1
  <2>3. first(i) \in Int /\ first(i + 1) \in Int /\ past[i] \in Int
    BY <1>1, <1>3, <2>1
  <2>4. spans[i] = first(i) - 1 /\ spans[i+1] = first(i + 1) - 1
    BY <1>4, <2>1
  <2>5. QED  BY <2>2, <2>3, <2>4
<1>7. QED  BY <1>2, <1>5, <1>6

\* An anchor is one of the ends of the segment, and follows the frames.
LEMMA AnchorsInOrder ==
  ASSUME NEW f \in Nat, NEW h \in Nat, f <= h, NEW start \in Nat, NEW end \in Nat, start <= end
  PROVE  /\ Anchor(f, start, end) \in start..end
         /\ Anchor(f, start, end) <= Anchor(h, start, end)
<1> DEFINE d == end - start
<1>1. d \in Nat /\ start + d = end
  OBVIOUS
<1>2. \A n \in Nat : n * d \in Nat /\ (n = 0 => n * d = 0) /\ (n # 0 => n * d >= d)
  <2> TAKE n \in Nat
  <2> HIDE DEF d
  <2>1. n * d \in Nat /\ 0 * d = 0
    BY <1>1
  <2>2. n # 0 => n * d >= d
    <3>1. n # 0 => n - 1 \in Nat /\ n * d = (n - 1) * d + d
      BY <1>1
    <3>2. n # 0 => (n - 1) * d \in Nat
      BY <1>1, <3>1
    <3>3. QED  BY <1>1, <3>1, <3>2
  <2>3. QED  BY <2>1, <2>2
<1>3. \A n \in Nat : Anchor(n, start, end) = IF n = 0 THEN start ELSE end
  <2> TAKE n \in Nat
  <2>1. Anchor(n, start, end) = start + Smaller(n * d, d)
    BY DEF Anchor
  <2> DEFINE p == n * d
  <2>2. p \in Nat /\ (n = 0 => p = 0) /\ (n # 0 => p >= d)
    BY <1>2
  <2> HIDE DEF p, d
  <2>3. n = 0 => Smaller(p, d) = 0
    BY <1>1, <2>2 DEF Smaller
  <2>4. n # 0 => Smaller(p, d) = d
    BY <1>1, <2>2 DEF Smaller
  <2>5. Anchor(n, start, end) = start + Smaller(p, d)
    BY <2>1 DEF p
  <2>6. QED  BY <1>1, <2>3, <2>4, <2>5
<1>4. QED  BY <1>3

LEMMA AnchoredTiles ==
  ASSUME NEW frames \in Seq(Letters \cup {Blank}), NEW ws \in Seq(Seq(Letters) \ {<<>>}),
         NEW start \in Nat, NEW end \in Nat, start <= end
  PROVE  Tiles(Anchored(ws, frames, start, end), Len(ws), start, end)
<1> DEFINE N == Len(ws)
           spans == Spans(ws, frames)
           anchor(i) == Anchor(spans[i], start, end)
           d == [i \in 1..N |-> [start |-> anchor(i),
                                  end |-> IF i = N THEN end ELSE anchor(i + 1)]]
<1>1. N \in Nat /\ DOMAIN ws = 1..N /\ ws \in Seq(Seq(Letters))
  <2>1. N \in Nat /\ DOMAIN ws = 1..N /\ ws \in [1..N -> Seq(Letters) \ {<<>>}]
    BY LenProperties
  <2>2. ws \in [1..N -> Seq(Letters)]
    BY <2>1
  <2>3. QED  BY <2>1, <2>2
<1>2. CASE ws = <<>> \/ spans = <<>>
  <2>1. Anchored(ws, frames, start, end) = Distributed(ws, start, end)
    BY <1>2 DEF Anchored
  <2>2. QED  BY <1>1, <2>1, DistributedTiles
<1>3. CASE ~(ws = <<>> \/ spans = <<>>)
  <2>1. Anchored(ws, frames, start, end) = d
    BY <1>1, <1>3 DEF Anchored
  <2>2. /\ \A i \in 1..N : spans[i] \in Nat
        /\ \A i \in 1..N - 1 : spans[i] <= spans[i+1]
    BY <1>3, SpansInOrder
  <2> HIDE DEF spans
  <2>3. \A i \in 1..N : anchor(i) \in start..end
    <3> TAKE i \in 1..N
    <3>1. spans[i] \in Nat /\ spans[i] <= spans[i]
      BY <2>2
    <3>2. QED  BY <3>1, AnchorsInOrder
  <2>4. \A i \in 1..N - 1 : anchor(i) <= anchor(i + 1)
    <3> TAKE i \in 1..N - 1
    <3>1. i \in 1..N /\ i + 1 \in 1..N
      BY <1>1
    <3>2. spans[i] \in Nat /\ spans[i+1] \in Nat /\ spans[i] <= spans[i+1]
      BY <2>2, <3>1
    <3>3. QED  BY <3>2, AnchorsInOrder
  <2> HIDE DEF anchor
  <2>5. \A i \in 1..N : d[i].start = anchor(i) /\ d[i].end = IF i = N THEN end ELSE anchor(i + 1)
    OBVIOUS
  <2>6. d = [i \in 1..N |-> d[i]]
    OBVIOUS
  <2> HIDE DEF d
  <2>7. N # 0 => d[1].start >= start /\ d[N].end = end
    <3>1. N # 0 => 1 \in 1..N /\ N \in 1..N
      BY <1>1
    <3>2. QED  BY <2>3, <2>5, <3>1
  <2>8. \A k \in 1..N : d[k].start <= d[k].end
    <3> TAKE k \in 1..N
    <3>1. CASE k = N
      BY <2>3, <2>5, <3>1
    <3>2. CASE k # N
      <4>1. k \in 1..N - 1
        <5>1. N \in Nat
          BY <1>1
        <5> HIDE DEF N
        <5>2. QED  BY <3>2, <5>1
      <4>2. anchor(k) <= anchor(k + 1)
        BY <2>4, <4>1
      <4>3. d[k].start = anchor(k) /\ d[k].end = anchor(k + 1)
        BY <2>5, <3>2
      <4>4. QED  BY <4>2, <4>3
    <3>3. QED  BY <3>1, <3>2
  <2>9. \A k \in 2..N : d[k].start = d[k-1].end
    <3> TAKE k \in 2..N
    <3>1. k \in 1..N /\ k - 1 \in 1..N /\ k - 1 # N /\ (k - 1) + 1 = k
      BY <1>1
    <3>2. d[k-1].end = anchor((k - 1) + 1)
      BY <2>5, <3>1
    <3>3. QED  BY <2>5, <3>1, <3>2
  <2>10. QED  BY <2>1, <2>6, <2>7, <2>8, <2>9 DEF Tiles
<1>4. QED  BY <1>2, <1>3

-----------------------------------------------------------------------------
(* Snapping                                                                  *)

Near(t) == {c \in cues : Distance(c, t) <= SnapTolerance}
NearerTo(t, c, d) == Distance(c, t) < Distance(d, t) \/ (Distance(c, t) = Distance(d, t) /\ c <= d)

LEMMA Distances ==
  ASSUME NEW a \in Nat, NEW b \in Nat
  PROVE  Distance(a, b) \in Nat /\ Distance(a, b) = IF a < b THEN b - a ELSE a - b
BY DEF Distance

\* There is a nearest cue when one is near enough.
LEMMA Nearest ==
  ASSUME cues \subseteq Nat, NEW t \in Nat
  PROVE  IF Near(t) = {} THEN Snapped(t) = t
         ELSE Snapped(t) \in Near(t) /\ \A d \in Near(t) : NearerTo(t, Snapped(t), d)
<1> DEFINE near == Near(t)
<1>1. Snapped(t) = IF near = {} THEN t ELSE CHOOSE c \in near : \A d \in near : NearerTo(t, c, d)
  BY DEF Snapped, Near, NearerTo
<1>2. near \subseteq Nat
  BY DEF Near
<1> HIDE DEF near
<1>3. CASE near # {}
  <2> DEFINE M == {Distance(c, t) + 1 : c \in near}
  <2>1. M \subseteq Nat \ {0} /\ M # {}
    <3>1. \A c \in near : Distance(c, t) + 1 \in Nat \ {0}
      <4> TAKE c \in near
      <4>1. Distance(c, t) \in Nat
        BY <1>2, Distances
      <4>2. QED  BY <4>1
    <3>2. QED  BY <1>3, <3>1
  <2>2. PICK m \in M : \A j \in M : m <= j
    <3> HIDE DEF M
    <3>1. QED  BY <2>1, Least
  <2>3. PICK c0 \in near : m = Distance(c0, t) + 1
    OBVIOUS
  <2>4. \A d \in near : Distance(c0, t) <= Distance(d, t)
    <3> TAKE d \in near
    <3>1. Distance(d, t) + 1 \in M
      OBVIOUS
    <3> HIDE DEF M
    <3>2. Distance(c0, t) + 1 <= Distance(d, t) + 1
      BY <2>2, <2>3, <3>1
    <3>3. Distance(c0, t) \in Nat /\ Distance(d, t) \in Nat
      BY <1>2, Distances
    <3>4. QED  BY <3>2, <3>3
  <2> DEFINE E == {c \in near : Distance(c, t) = Distance(c0, t)}
             F == {c + 1 : c \in E}
  <2>5. F \subseteq Nat \ {0} /\ F # {}
    <3>1. E \subseteq Nat /\ c0 \in E
      BY <1>2
    <3>2. \A c \in E : c + 1 \in Nat \ {0}
      BY <3>1
    <3> HIDE DEF E
    <3>3. QED  BY <3>1, <3>2
  <2>6. PICK k \in F : \A j \in F : k <= j
    <3> HIDE DEF F
    <3>1. QED  BY <2>5, Least
  <2>7. PICK c \in E : k = c + 1
    OBVIOUS
  <2>8. c \in near /\ Distance(c, t) = Distance(c0, t)
    OBVIOUS
  <2>9. ASSUME NEW d \in near  PROVE NearerTo(t, c, d)
    <3>1. Distance(c, t) <= Distance(d, t) /\ Distance(c, t) \in Nat /\ Distance(d, t) \in Nat
      BY <1>2, <2>4, <2>8, Distances
    <3>2. CASE Distance(c, t) = Distance(d, t)
      <4>1. d + 1 \in F
        BY <2>8, <3>2
      <4> HIDE DEF F, E
      <4>2. c + 1 <= d + 1
        BY <2>6, <2>7, <4>1
      <4>3. c \in Nat /\ d \in Nat
        BY <1>2, <2>8
      <4>4. QED  BY <3>2, <4>2, <4>3 DEF NearerTo
    <3>3. CASE Distance(c, t) # Distance(d, t)
      BY <3>1, <3>3 DEF NearerTo
    <3>4. QED  BY <3>2, <3>3
  <2>10. (CHOOSE x \in near : \A d \in near : NearerTo(t, x, d)) \in near
         /\ \A d \in near : NearerTo(t, CHOOSE x \in near : \A y \in near : NearerTo(t, x, y), d)
    <3> HIDE DEF M, E, F
    <3>1. QED  BY <2>8, <2>9
  <2>11. QED  BY <1>1, <1>3, <2>10 DEF near
<1>4. CASE near = {}
  BY <1>1, <1>4 DEF near
<1>5. QED  BY <1>3, <1>4

\* A time is snapped by no more than the tolerance.
LEMMA SnappedWithin ==
  ASSUME cues \subseteq Nat, NEW t \in Nat
  PROVE  /\ Snapped(t) \in Nat
         /\ Snapped(t) <= t + SnapTolerance /\ t <= Snapped(t) + SnapTolerance
<1> DEFINE c == Snapped(t)
<1>1. CASE Near(t) = {}
  <2>1. c = t
    BY <1>1, Nearest
  <2>2. QED  BY <2>1 DEF SnapTolerance
<1>2. CASE Near(t) # {}
  <2>1. c \in Near(t)
    BY <1>2, Nearest
  <2> HIDE DEF c
  <2>2. c \in Nat /\ Distance(c, t) <= SnapTolerance
    BY <2>1 DEF Near
  <2>3. c <= t + SnapTolerance /\ t <= c + SnapTolerance
    BY <2>2 DEF Distance, SnapTolerance
  <2>4. QED  BY <2>2, <2>3 DEF c
<1>3. QED  BY <1>1, <1>2

\* Snapping keeps the order of times.
LEMMA SnappedMonotone ==
  ASSUME cues \subseteq Nat, NEW t \in Nat, NEW u \in Nat, t <= u
  PROVE  Snapped(t) <= Snapped(u)
<1> DEFINE a == Snapped(t)  b == Snapped(u)
<1>1. a \in Nat /\ b \in Nat
  BY SnappedWithin
<1>2. CASE t = u
  BY <1>1, <1>2
<1>3. CASE t < u
  <2>1. /\ IF Near(t) = {} THEN a = t ELSE a \in Near(t) /\ \A d \in Near(t) : NearerTo(t, a, d)
        /\ IF Near(u) = {} THEN b = u ELSE b \in Near(u) /\ \A d \in Near(u) : NearerTo(u, b, d)
    BY Nearest
  <2> HIDE DEF a, b
  <2>2. \A v \in Nat : \A c \in Near(v) : c \in cues /\ Distance(c, v) <= SnapTolerance
    BY DEF Near
  <2>3. \A v \in Nat : \A c \in cues : Distance(c, v) <= SnapTolerance => c \in Near(v)
    BY DEF Near
  <2>4. SUFFICES ASSUME b < a  PROVE FALSE
    BY <1>1 DEF a, b
  <2>5. CASE Near(t) = {} /\ Near(u) = {}
    BY <1>1, <1>3, <2>1, <2>4, <2>5
  <2>6. CASE Near(t) = {} /\ Near(u) # {}
    <3>1. a = t /\ b \in cues /\ Distance(b, u) <= SnapTolerance
      BY <2>1, <2>2, <2>6
    <3>2. Distance(b, t) <= SnapTolerance
      BY <1>1, <1>3, <2>4, <3>1 DEF Distance, SnapTolerance
    <3>3. QED  BY <2>3, <2>6, <3>1, <3>2
  <2>7. CASE Near(t) # {} /\ Near(u) = {}
    <3>1. b = u /\ a \in cues /\ Distance(a, t) <= SnapTolerance
      BY <2>1, <2>2, <2>7
    <3>2. Distance(a, u) <= SnapTolerance
      BY <1>1, <1>3, <2>4, <3>1 DEF Distance, SnapTolerance
    <3>3. QED  BY <2>3, <2>7, <3>1, <3>2
  <2>8. CASE Near(t) # {} /\ Near(u) # {}
    <3>1. /\ a \in cues /\ Distance(a, t) <= SnapTolerance
          /\ b \in cues /\ Distance(b, u) <= SnapTolerance
      BY <2>1, <2>2, <2>8
    <3>2. /\ Distance(b, t) <= SnapTolerance => NearerTo(t, a, b)
          /\ Distance(a, u) <= SnapTolerance => NearerTo(u, b, a)
      BY <2>1, <2>3, <2>8, <3>1
    <3>3. /\ Distance(a, t) = (IF a < t THEN t - a ELSE a - t)
          /\ Distance(b, t) = (IF b < t THEN t - b ELSE b - t)
          /\ Distance(a, u) = (IF a < u THEN u - a ELSE a - u)
          /\ Distance(b, u) = (IF b < u THEN u - b ELSE b - u)
      BY DEF Distance
    <3>4. QED  BY <1>1, <1>3, <2>4, <3>1, <3>2, <3>3 DEF NearerTo, SnapTolerance
  <2>9. QED  BY <2>5, <2>6, <2>7, <2>8
<1>4. QED  BY <1>2, <1>3

-----------------------------------------------------------------------------
(* A segment on its way                                                      *)

Strategies == {"none", "compress", "split", "skip"}
Cuts == [start : Nat, end : Nat, of : Nat, clauses : Nat \ {0}, pauses : BOOLEAN, estimate : Nat,
         ratio : Nat \X Nat, target : Nat, unfit : BOOLEAN, strategy : Strategies, part : Nat,
         offset : Int]
Files == [of : Int, part : Int, length : Int]

\* The segment that was cut from the i-th one of the transcript is at its place ...
CutOf(s, i) == s \in Cuts /\ s.of = i
Original(s, i) == CutOf(s, i) /\ s.start = source[i].start /\ s.end = source[i].end

\* ... and what is compressed has a window, and a target within it.
WithinWindow(s, i) ==
    AtMost(s.ratio, 135) => Duration(source[i]) >= NearZero /\ s.target <= Duration(source[i])
Ready(s, i) == Original(s, i) /\ WithinWindow(s, i)

\* Snapping moves an end by the tolerance at most, ...
Placed(s, i) == /\ CutOf(s, i) /\ WithinWindow(s, i) /\ s.start <= s.end
                /\ s.start <= source[i].start + SnapTolerance
                /\ s.end <= source[i].end + SnapTolerance

\* ... to where it snaps, or not at all.
Ends(s, from, to) == s.start = from /\ s.end = to
SnapsTo(s, i, from, to) == IF Reverts(from, to) THEN Ends(s, source[i].start, source[i].end)
                           ELSE Ends(s, from, to)
Snaps(s, i) == SnapsTo(s, i, Snapped(source[i].start), Snapped(source[i].end))

\* A dubbed segment
OnTime(s) == s.of \in 1..Len(source) /\ s.end <= source[s.of].end + EndTolerance
SkippedUnfit(s) == s.strategy = "skip" => s.unfit

LEMMA InputFacts ==
  ASSUME source \in Seq(Inputs), NEW i \in 1..Len(source)
  PROVE  /\ source[i] \in Inputs /\ i \in Nat
         /\ source[i].start \in Nat /\ source[i].end \in Nat /\ source[i].start <= source[i].end
         /\ source[i].clauses \in Nat \ {0} /\ source[i].pauses \in BOOLEAN
         /\ source[i].estimate \in Nat
<1>1. source[i] \in Inputs /\ i \in Nat
  BY ElementOfSeq
<1>2. QED  BY <1>1 DEF Inputs

LEMMA TranscribedOriginal ==
  ASSUME source \in Seq(Inputs), NEW i \in 1..Len(source)
  PROVE  Original(Transcribed(i), i)
<1> DEFINE s == source[i]
<1>1. /\ s.start \in Nat /\ s.end \in Nat /\ s.start <= s.end /\ i \in Nat
      /\ s.clauses \in Nat \ {0} /\ s.pauses \in BOOLEAN /\ s.estimate \in Nat
  BY InputFacts
<1>2. Duration(s) \in Nat
  BY <1>1 DEF Duration
<1>3. QED  BY <1>1, <1>2 DEF Original, CutOf, Transcribed, Cuts, Strategies

LEMMA CutFacts ==
  ASSUME NEW s \in Cuts
  PROVE  /\ s.start \in Nat /\ s.end \in Nat /\ s.of \in Nat /\ s.clauses \in Nat \ {0}
         /\ s.pauses \in BOOLEAN /\ s.estimate \in Nat /\ s.target \in Nat
         /\ s.ratio \in Nat \X Nat /\ s.unfit \in BOOLEAN /\ s.strategy \in Strategies
         /\ s.part \in Nat /\ s.offset \in Int
BY DEF Cuts

\* Only a segment with a window is compressed, and to that window at most.
LEMMA ModelledReady ==
  ASSUME source \in Seq(Inputs), NEW i \in 1..Len(source), NEW s, Original(s, i)
  PROVE  Ready(Modelled(s), i)
<1> DEFINE d == Duration(source[i])
           r == IF d < NearZero THEN <<99, 1>> ELSE <<s.estimate, d>>
           m == Modelled(s)
<1>1. s \in Cuts /\ s.of = i /\ s.start = source[i].start /\ s.end = source[i].end
  BY DEF Original, CutOf
<1>2. d \in Nat /\ Duration(s) = d /\ s.estimate \in Nat
  BY <1>1, InputFacts, CutFacts DEF Duration
<1>3. m = [s EXCEPT !.ratio = r, !.target = Target(s.estimate, d), !.unfit = d < NearZero]
  BY <1>2 DEF Modelled
<1> HIDE DEF d, m
<1>4. r \in Nat \X Nat
  BY <1>2
<1>5. Target(s.estimate, d) \in Nat
  BY <1>2 DEF Target
<1>6. (d < NearZero) \in BOOLEAN
  OBVIOUS
<1> HIDE DEF r
<1>7. m \in Cuts
  BY <1>1, <1>3, <1>4, <1>5, <1>6 DEF Cuts
<1>8. /\ m.of = i /\ m.start = source[i].start /\ m.end = source[i].end
      /\ m.ratio = r /\ m.target = Target(s.estimate, d)
  BY <1>1, <1>3 DEF Cuts
<1>9. ASSUME AtMost(r, 135)  PROVE d >= NearZero /\ Target(s.estimate, d) <= d
  <2>1. ~(d < NearZero)
    <3>1. ASSUME d < NearZero  PROVE FALSE
      <4>1. r[1] = 99 /\ r[2] = 1
        BY <3>1 DEF r
      <4>2. QED  BY <1>9, <4>1 DEF AtMost
    <3>2. QED  BY <3>1
  <2>2. QED  BY <1>2, <2>1 DEF Target, NearZero
<1>10. QED
  BY <1>7, <1>8, <1>9 DEF Ready, Original, CutOf, WithinWindow, d, m

LEMMA ReadyPlaced ==
  ASSUME source \in Seq(Inputs), NEW i \in 1..Len(source), NEW s, Ready(s, i)
  PROVE  Placed(s, i)
<1>1. /\ source[i].start \in Nat /\ source[i].end \in Nat /\ source[i].start <= source[i].end
      /\ s.start = source[i].start /\ s.end = source[i].end
  BY InputFacts DEF Ready, Original
<1>2. s.start <= source[i].start + SnapTolerance /\ s.end <= source[i].end + SnapTolerance
  BY <1>1 DEF SnapTolerance
<1>3. QED  BY <1>1, <1>2 DEF Ready, Original, Placed

Moved(s, from, to) == [s EXCEPT !.start = from, !.end = to]

LEMMA TimedPlaced ==
  ASSUME source \in Seq(Inputs), cues \subseteq Nat, NEW i \in 1..Len(source), NEW s, Ready(s, i)
  PROVE  Placed(Timed(s), i) /\ Snaps(Timed(s), i)
<1> DEFINE from == Snapped(source[i].start)
           to == Snapped(source[i].end)
           m == Moved(s, from, to)
<1>1. /\ s \in Cuts /\ s.of = i /\ s.start = source[i].start /\ s.end = source[i].end
      /\ WithinWindow(s, i)
  BY DEF Ready, Original, CutOf
<1>2. source[i].start \in Nat /\ source[i].end \in Nat
  BY InputFacts
<1>3. Timed(s) = IF Reverts(from, to) THEN s ELSE m
  BY <1>1 DEF Timed, Moved
<1>4. /\ from \in Nat /\ from <= source[i].start + SnapTolerance
      /\ to \in Nat /\ to <= source[i].end + SnapTolerance
  BY <1>2, SnappedWithin
<1> HIDE DEF from, to
<1>5. CASE Reverts(from, to)
  <2>1. Timed(s) = s
    BY <1>3, <1>5
  <2>2. Placed(s, i)
    BY ReadyPlaced
  <2>3. Snaps(s, i)
    BY <1>1, <1>5 DEF Snaps, SnapsTo, Ends, from, to
  <2>4. QED  BY <2>1, <2>2, <2>3
<1>6. CASE ~Reverts(from, to)
  <2>1. Timed(s) = m
    BY <1>3, <1>6
  <2>2. m \in Cuts /\ m.of = i /\ m.start = from /\ m.end = to /\ m.ratio = s.ratio
        /\ m.target = s.target
    BY <1>1, <1>4 DEF Cuts, Moved
  <2> HIDE DEF m
  <2>3. from <= to
    BY <1>4, <1>6 DEF Reverts
  <2>4. WithinWindow(m, i)
    BY <1>1, <2>2 DEF WithinWindow
  <2>5. Placed(m, i)
    BY <1>4, <2>2, <2>3, <2>4 DEF Placed, CutOf
  <2>6. Snaps(m, i)
    BY <1>6, <2>2 DEF Snaps, SnapsTo, Ends, from, to
  <2>7. QED  BY <2>1, <2>5, <2>6
<1>7. QED  BY <1>5, <1>6

\* c equal parts of a window are within it.
LEMMA PartsWithin ==
  ASSUME NEW d \in Nat, NEW c \in Nat \ {0}, NEW k \in 0..c
  PROVE  k * (d \div c) \in Nat /\ k * (d \div c) <= d
<1> DEFINE q == d \div c
<1>1. q \in Nat /\ c * q <= d
  OBVIOUS
<1> HIDE DEF q
<1>2. k * q \in Nat /\ (c - k) * q \in Nat
  <2>1. k \in Nat /\ c - k \in Nat
    OBVIOUS
  <2>2. QED  BY <1>1, <2>1
<1>3. c * q = k * q + (c - k) * q
  BY <1>1
<1>4. c * q \in Nat
  BY <1>1
<1> DEFINE x == k * q  y == (c - k) * q  z == c * q
<1>5. x \in Nat /\ y \in Nat /\ z = x + y /\ z <= d
  BY <1>1, <1>2, <1>3
<1> HIDE DEF x, y, z
<1>6. x \in Nat /\ x <= d
  BY <1>5
<1>7. QED  BY <1>6 DEF x, q

\* Whatever part a segment is dubbed as, it is no later than the evaluator tolerates.
LEMMA PartOf ==
  ASSUME source \in Seq(Inputs), NEW i \in 1..Len(source), NEW s \in Cuts, s.of = i,
         NEW k \in Nat, NEW from \in Nat, NEW to \in Nat, to <= source[i].end + EndTolerance
  PROVE  /\ Part(s, k, from, to) \in Cuts /\ Part(s, k, from, to).strategy = Strategy(s)
         /\ OnTime(Part(s, k, from, to))
<1> DEFINE p == Part(s, k, from, to)
<1>1. Strategy(s) \in Strategies
  BY DEF Strategy, Strategies
<1>2. p \in Cuts /\ p.strategy = Strategy(s) /\ p.of = i /\ p.end = to
  BY <1>1 DEF Part, Cuts
<1> HIDE DEF p
<1>3. OnTime(p)
  BY <1>2 DEF OnTime
<1>4. QED  BY <1>2, <1>3 DEF p

LEMMA CompressedInTime ==
  ASSUME NEW a \in Nat, NEW b \in Nat, b - a >= NearZero,
         NEW start \in Nat, start <= a + SnapTolerance, NEW target \in Nat, target <= b - a
  PROVE  /\ start + Larger(target, MinAudio) \in Nat
         /\ start + Larger(target, MinAudio) <= b + EndTolerance
BY DEF Larger, MinAudio, EndTolerance, SnapTolerance, NearZero

LEMMA PartInTime ==
  ASSUME NEW b \in Nat, NEW start \in Nat, NEW end \in Nat, end <= b + SnapTolerance,
         NEW x \in Nat, x <= end - start
  PROVE  start + x \in Nat /\ start + x <= b + EndTolerance
BY DEF EndTolerance, SnapTolerance

LEMMA FittedOnTime ==
  ASSUME source \in Seq(Inputs), NEW i \in 1..Len(source), NEW s, Placed(s, i)
  PROVE  /\ Fitted(s) \in Seq(Cuts)
         /\ \A k \in 1..Len(Fitted(s)) : OnTime(Fitted(s)[k]) /\ SkippedUnfit(Fitted(s)[k])
<1>1. /\ s \in Cuts /\ s.of = i /\ WithinWindow(s, i) /\ s.start <= s.end
      /\ s.start <= source[i].start + SnapTolerance /\ s.end <= source[i].end + SnapTolerance
  BY DEF Placed, CutOf
<1>2. /\ source[i].start \in Nat /\ source[i].end \in Nat /\ source[i].start <= source[i].end
      /\ s.start \in Nat /\ s.end \in Nat /\ s.target \in Nat /\ s.clauses \in Nat \ {0}
  BY <1>1, InputFacts, CutFacts
<1>3. Strategy(s) \in {"compress", "split", "skip"}
  BY DEF Strategy
<1>4. CASE Strategy(s) = "compress"
  <2> DEFINE to == s.start + Larger(s.target, MinAudio)
             p == Part(s, 1, s.start, to)
  <2>1. Fitted(s) = <<p>>
    BY <1>4 DEF Fitted
  <2>2. AtMost(s.ratio, 135)
    BY <1>4 DEF Strategy
  <2>3. /\ source[i].end - source[i].start >= NearZero
        /\ s.target <= source[i].end - source[i].start
    BY <1>1, <2>2 DEF WithinWindow, Duration
  <2>4. to \in Nat /\ to <= source[i].end + EndTolerance
    BY <1>1, <1>2, <2>3, CompressedInTime
  <2> HIDE DEF to
  <2>5. p \in Cuts /\ OnTime(p) /\ p.strategy = "compress"
    BY <1>1, <1>2, <1>4, <2>4, PartOf
  <2> HIDE DEF p
  <2>6. <<p>> \in Seq(Cuts) /\ Len(<<p>>) = 1 /\ <<p>>[1] = p
    BY <2>5
  <2>7. QED  BY <2>1, <2>5, <2>6 DEF SkippedUnfit
<1>5. CASE Strategy(s) = "split"
  <2> DEFINE c == s.clauses
             part(k) == Part(s, k, PartEnd(s, k - 1), PartEnd(s, k))
             f == [k \in 1..c |-> part(k)]
  <2>1. Fitted(s) = f
    BY <1>5 DEF Fitted
  <2>2. ASSUME NEW k \in 0..c
        PROVE  PartEnd(s, k) \in Nat /\ PartEnd(s, k) <= source[i].end + EndTolerance
    <3> DEFINE d == Duration(s)  x == k * (d \div c)
    <3>1. d \in Nat /\ d = s.end - s.start
      BY <1>1, <1>2 DEF Duration
    <3> HIDE DEF d
    <3>2. x \in Nat /\ x <= d
      BY <1>2, <3>1, PartsWithin
    <3>3. PartEnd(s, k) = s.start + x
      BY DEF PartEnd, d
    <3> HIDE DEF x
    <3>4. s.start + x \in Nat /\ s.start + x <= source[i].end + EndTolerance
      BY <1>1, <1>2, <3>1, <3>2, PartInTime
    <3>5. QED  BY <3>3, <3>4
  <2>3. ASSUME NEW k \in 1..c
        PROVE  part(k) \in Cuts /\ OnTime(part(k)) /\ part(k).strategy = "split"
    <3>1. k \in Nat /\ k \in 0..c /\ k - 1 \in 0..c
      BY <1>2
    <3>2. /\ PartEnd(s, k - 1) \in Nat /\ PartEnd(s, k) \in Nat
          /\ PartEnd(s, k) <= source[i].end + EndTolerance
      BY <2>2, <3>1
    <3>3. QED  BY <1>1, <1>5, <3>1, <3>2, PartOf
  <2> HIDE DEF part
  <2>4. f \in [1..c -> Cuts] /\ \A k \in 1..c : f[k] = part(k)
    BY <2>3
  <2> HIDE DEF f
  <2>5. f \in Seq(Cuts) /\ Len(f) = c
    <3> DEFINE S == Cuts
    <3>1. c \in Nat /\ f \in [1..c -> S]
      BY <1>2, <2>4
    <3> HIDE DEF c, S
    <3>2. f \in Seq(S)
      BY <3>1
    <3>3. Len(f) = c
      BY <3>1, <3>2, LenProperties
    <3>4. QED  BY <3>2, <3>3 DEF S
  <2>6. QED  BY <2>1, <2>3, <2>4, <2>5 DEF SkippedUnfit
<1>6. CASE Strategy(s) = "skip"
  <2> DEFINE p == Part(s, 1, s.start, s.end)
             u == Unfit(p)
  <2>1. Fitted(s) = <<u>>
    BY <1>6 DEF Fitted
  <2>2. s.end <= source[i].end + EndTolerance
    BY <1>1, <1>2 DEF SnapTolerance, EndTolerance
  <2>3. p \in Cuts /\ OnTime(p)
    BY <1>1, <1>2, <2>2, PartOf
  <2> HIDE DEF p
  <2>4. u \in Cuts /\ u.unfit = TRUE /\ u.of = p.of /\ u.end = p.end
    BY <2>3 DEF Unfit, Cuts
  <2>5. OnTime(u) /\ SkippedUnfit(u)
    BY <2>3, <2>4 DEF OnTime, SkippedUnfit
  <2> HIDE DEF u
  <2>6. <<u>> \in Seq(Cuts) /\ Len(<<u>>) = 1 /\ <<u>>[1] = u
    BY <2>4
  <2>7. QED  BY <2>1, <2>5, <2>6
<1>7. QED  BY <1>3, <1>4, <1>5, <1>6

-----------------------------------------------------------------------------
(* The pipeline                                                              *)

Stages == {"transcribed", "aligned", "modelled", "timed", "dubbed", "stretched", "merged", "scored"}
Prepared == stage \in {"transcribed", "aligned", "modelled", "timed"}

Given == /\ source \in Seq(Inputs) /\ cues \subseteq Nat /\ video \in BOOLEAN
         /\ speech.words \in Seq(Seq(Letters) \ {<<>>})
         /\ speech.frames \in Seq(Letters \cup {Blank})

DubbingTypeOK == /\ stage \in Stages /\ Given
                 /\ segs \in Seq(Cuts) /\ artifacts \in Seq(Files)

\* What is dubbed has a file that says the text of its segment.
Heard(s, files) == s.strategy # "skip" => \E k \in 1..Len(files) : files[k].of = s.of

\* The files of the segments in front of the first one skipped are in their places.
Says(a, s) == a.of = s.of /\ a.part = s.part
SpokenUpTo(i) == \A k \in 1..i : segs[k].strategy # "skip"
FilesInOrder == ~video => \A i \in 1..Len(segs) :
                   SpokenUpTo(i) => i <= Len(artifacts) /\ Says(artifacts[i], segs[i])

Dubbed(s, files) == OnTime(s) /\ SkippedUnfit(s) /\ Heard(s, files)

Progress ==
    /\ Prepared => Len(segs) = Len(source) /\ artifacts = IF video THEN <<Film>> ELSE <<>>
    /\ stage \in {"transcribed", "aligned"} => \A i \in 1..Len(segs) : Original(segs[i], i)
    /\ stage = "modelled" => \A i \in 1..Len(segs) : Ready(segs[i], i)
    /\ stage = "timed" => \A i \in 1..Len(segs) : Placed(segs[i], i) /\ Snaps(segs[i], i)
    /\ IsDubbed => \A i \in 1..Len(segs) : Dubbed(segs[i], artifacts)
    /\ stage = "dubbed" => FilesInOrder

DubbingInv == DubbingTypeOK /\ Progress /\ WordsTile /\ StretchOwn /\ NoCreditForSilence

LEMMA SegmentPlaces ==
  ASSUME DubbingTypeOK
  PROVE  /\ Len(segs) \in Nat /\ DOMAIN segs = 1..Len(segs)
         /\ Len(source) \in Nat /\ DOMAIN source = 1..Len(source)
         /\ Len(artifacts) \in Nat /\ DOMAIN artifacts = 1..Len(artifacts)
         /\ \A i \in 1..Len(segs) : segs[i] \in Cuts
         /\ \A i \in 1..Len(artifacts) : artifacts[i] \in Files
<1>1. segs \in Seq(Cuts) /\ source \in Seq(Inputs) /\ artifacts \in Seq(Files)
  BY DEF DubbingTypeOK, Given
<1>2. Len(segs) \in Nat /\ DOMAIN segs = 1..Len(segs) /\ \A i \in 1..Len(segs) : segs[i] \in Cuts
  BY <1>1, LenProperties, ElementOfSeq
<1>3. Len(source) \in Nat /\ DOMAIN source = 1..Len(source)
  BY <1>1, LenProperties
<1>4. /\ Len(artifacts) \in Nat /\ DOMAIN artifacts = 1..Len(artifacts)
      /\ \A i \in 1..Len(artifacts) : artifacts[i] \in Files
  BY <1>1, LenProperties, ElementOfSeq
<1>5. QED  BY <1>2, <1>3, <1>4

\* A sequence that is built element by element
LEMMA Built ==
  ASSUME NEW S, NEW n \in Nat, NEW f, f = [i \in 1..n |-> f[i]], \A i \in 1..n : f[i] \in S
  PROVE  f \in Seq(S) /\ Len(f) = n
<1>1. f \in [1..n -> S]
  OBVIOUS
<1>2. f \in Seq(S)
  BY <1>1
<1>3. QED  BY <1>1, <1>2, LenProperties

LEMMA DubbingInitInv == DubbingInit => DubbingInv
<1> SUFFICES ASSUME DubbingInit  PROVE DubbingInv
  OBVIOUS
<1>1. Given
  <2>1. source \in Seq(Inputs) /\ cues \subseteq Nat /\ video \in BOOLEAN
    BY DubbingConstants DEF DubbingInit
  <2>2. speech.words \in Seq(Seq(Letters) \ {<<>>}) /\ speech.frames \in Seq(Letters \cup {Blank})
    BY DubbingConstants DEF DubbingInit
  <2>3. QED  BY <2>1, <2>2 DEF Given
<1>2. Len(source) \in Nat /\ DOMAIN source = 1..Len(source)
  BY <1>1, LenProperties DEF Given
<1>3. /\ segs = [i \in 1..Len(source) |-> Transcribed(i)] /\ stage = "transcribed"
      /\ artifacts = IF video THEN <<Film>> ELSE <<>>
  BY <1>2 DEF DubbingInit
<1>4. \A i \in 1..Len(source) : segs[i] = Transcribed(i) /\ Original(segs[i], i) /\ segs[i] \in Cuts
  <2> TAKE i \in 1..Len(source)
  <2>1. segs[i] = Transcribed(i)
    BY <1>3
  <2>2. Original(Transcribed(i), i)
    BY <1>1, TranscribedOriginal DEF Given
  <2>3. QED  BY <2>1, <2>2 DEF Original, CutOf
<1>5. segs \in Seq(Cuts) /\ Len(segs) = Len(source)
  <2>1. segs = [i \in 1..Len(source) |-> segs[i]]
    BY <1>3
  <2>2. QED  BY <1>2, <1>4, <2>1, Built
<1>6. artifacts \in Seq(Files)
  <2>1. Film \in Files
    BY DEF Film, Files
  <2>2. <<Film>> \in Seq(Files) /\ <<>> \in Seq(Files)
    BY <2>1, EmptySeq
  <2>3. QED  BY <1>3, <2>2
<1>7. DubbingTypeOK
  BY <1>1, <1>3, <1>5, <1>6 DEF DubbingTypeOK, Stages
<1>8. Progress
  BY <1>3, <1>4, <1>5 DEF Progress, IsDubbed
<1>9. WordsTile /\ StretchOwn /\ NoCreditForSilence
  BY <1>3 DEF WordsTile, StretchOwn, NoCreditForSilence
<1>10. QED  BY <1>7, <1>8, <1>9 DEF DubbingInv

LEMMA TilesSay ==
  ASSUME NEW stamps, NEW n \in Nat, NEW start, NEW end, Tiles(stamps, n, start, end), stamps # <<>>
  PROVE  /\ stamps[1].start >= start /\ Last(stamps).end = end
         /\ \A k \in DOMAIN stamps : stamps[k].start <= stamps[k].end
         /\ \A k \in DOMAIN stamps \ {1} : stamps[k].start = stamps[k-1].end
<1>1. stamps = [i \in 1..n |-> stamps[i]]
  BY DEF Tiles
<1>2. IsSeq(stamps) /\ Len(stamps) = n /\ DOMAIN stamps = 1..n
  BY <1>1, SeqBuilt
<1>3. n # 0
  BY <1>2, SeqFacts
<1>4. Last(stamps) = stamps[n]
  BY <1>2 DEF Last
<1>5. \A k \in 1..n : k # 1 => k \in 2..n
  OBVIOUS
<1>6. QED  BY <1>2, <1>3, <1>4, <1>5 DEF Tiles

LEMMA AlignInv ==
  ASSUME DubbingInv, Align
  PROVE  DubbingInv'
<1>1. /\ stage = "transcribed" /\ stage' = "aligned"
      /\ UNCHANGED <<source, speech, cues, video, segs, artifacts>>
  BY DEF Align
<1>2. DubbingTypeOK /\ Progress
  BY DEF DubbingInv
<1>3. DubbingTypeOK'
  BY <1>1, <1>2 DEF DubbingTypeOK, Given, Stages
<1>4. Progress'
  BY <1>1, <1>2 DEF Progress, IsDubbed, Prepared, Original, CutOf
<1>5. /\ Len(segs) \in Nat /\ DOMAIN segs = 1..Len(segs) /\ Len(segs) = Len(source)
      /\ \A i \in 1..Len(segs) : Original(segs[i], i)
  BY <1>1, <1>2, SegmentPlaces DEF Progress, Prepared
<1>6. ASSUME NEW i \in 1..Len(segs)
      PROVE  DOMAIN words' = 1..Len(segs)
             /\ Tiles(words'[i], Len(speech.words), segs[i].start, segs[i].end)
  <2>1. /\ segs[i].start \in Nat /\ segs[i].end \in Nat /\ segs[i].start <= segs[i].end
    BY <1>2, <1>5, InputFacts DEF Original, DubbingTypeOK, Given
  <2> DEFINE ws == speech.words  fs == speech.frames  a == segs[i].start  b == segs[i].end
  <2>2. ws \in Seq(Seq(Letters) \ {<<>>}) /\ fs \in Seq(Letters \cup {Blank})
    BY <1>2 DEF DubbingTypeOK, Given
  <2>3. ws \in Seq(Seq(Letters))
    <3> HIDE DEF ws
    <3>1. Len(ws) \in Nat /\ ws \in [1..Len(ws) -> Seq(Letters) \ {<<>>}]
      BY <2>2, LenProperties
    <3>2. ws \in [1..Len(ws) -> Seq(Letters)]
      BY <3>1
    <3>3. QED  BY <3>1, <3>2
  <2>4. /\ Tiles(Distributed(ws, a, b), Len(ws), a, b)
        /\ Tiles(Anchored(ws, fs, a, b), Len(ws), a, b)
    <3> HIDE DEF ws, fs, a, b
    <3>1. a \in Nat /\ b \in Nat /\ a <= b
      BY <2>1 DEF a, b
    <3>2. QED  BY <2>2, <2>3, <3>1, DistributedTiles, AnchoredTiles
  <2>5. CASE words' = [j \in DOMAIN segs |-> Distributed(ws, segs[j].start, segs[j].end)]
    <3>1. words'[i] = Distributed(ws, a, b) /\ DOMAIN words' = 1..Len(segs)
      BY <1>5, <2>5
    <3> HIDE DEF ws, fs, a, b
    <3>2. Tiles(words'[i], Len(ws), a, b)
      BY <2>4, <3>1
    <3>3. QED  BY <3>1, <3>2 DEF ws, a, b
  <2>6. CASE words' = [j \in DOMAIN segs |-> Anchored(ws, fs, segs[j].start, segs[j].end)]
    <3>1. words'[i] = Anchored(ws, fs, a, b) /\ DOMAIN words' = 1..Len(segs)
      BY <1>5, <2>6
    <3> HIDE DEF ws, fs, a, b
    <3>2. Tiles(words'[i], Len(ws), a, b)
      BY <2>4, <3>1
    <3>3. QED  BY <3>1, <3>2 DEF ws, a, b
  <2>7. QED  BY <2>5, <2>6 DEF Align
<1>7. WordsTile'
  <2> SUFFICES ASSUME NEW i \in DOMAIN words', words'[i] # <<>>
               PROVE  /\ words'[i][1].start >= segs'[i].start
                      /\ Last(words'[i]).end = segs'[i].end
                      /\ \A k \in DOMAIN words'[i] : words'[i][k].start <= words'[i][k].end
                      /\ \A k \in DOMAIN words'[i] \ {1} :
                            words'[i][k].start = words'[i][k-1].end
    BY DEF WordsTile
  <2>1. i \in 1..Len(segs)
    <3>1. DOMAIN words' = 1..Len(segs)
      BY <1>5 DEF Align
    <3>2. QED  BY <3>1
  <2>2. Tiles(words'[i], Len(speech.words), segs[i].start, segs[i].end)
    BY <1>6, <2>1
  <2>3. Len(speech.words) \in Nat
    BY <1>2, LenProperties DEF DubbingTypeOK, Given
  <2> DEFINE stamps == words'[i]  n == Len(speech.words)
             a == segs[i].start  b == segs[i].end
  <2>4. segs'[i].start = a /\ segs'[i].end = b
    BY <1>1
  <2>5. stamps # <<>> /\ Tiles(stamps, n, a, b) /\ n \in Nat
    BY <2>2, <2>3
  <2> HIDE DEF stamps, n, a, b
  <2>6. /\ stamps[1].start >= a /\ Last(stamps).end = b
        /\ \A k \in DOMAIN stamps : stamps[k].start <= stamps[k].end
        /\ \A k \in DOMAIN stamps \ {1} : stamps[k].start = stamps[k-1].end
    BY <2>5, TilesSay
  <2>7. QED  BY <2>4, <2>6 DEF stamps
<1>8. StretchOwn' /\ NoCreditForSilence'
  BY <1>1 DEF StretchOwn, NoCreditForSilence
<1>9. QED  BY <1>3, <1>4, <1>7, <1>8 DEF DubbingInv

LEMMA ModelInv ==
  ASSUME DubbingInv, Model
  PROVE  DubbingInv'
<1>1. /\ stage = "aligned" /\ stage' = "modelled"
      /\ UNCHANGED <<source, speech, cues, video, artifacts>>
  BY DEF Model
<1>2. DubbingTypeOK /\ Progress
  BY DEF DubbingInv
<1>3. /\ Len(segs) \in Nat /\ DOMAIN segs = 1..Len(segs) /\ Len(segs) = Len(source)
      /\ \A i \in 1..Len(segs) : Original(segs[i], i)
      /\ artifacts = IF video THEN <<Film>> ELSE <<>>
  BY <1>1, <1>2, SegmentPlaces DEF Progress, Prepared
<1>4. segs' = [i \in 1..Len(segs) |-> Modelled(segs[i])]
  BY <1>3 DEF Model
<1>5. \A i \in 1..Len(segs) : Ready(segs'[i], i) /\ segs'[i] \in Cuts
  <2> TAKE i \in 1..Len(segs)
  <2>1. segs'[i] = Modelled(segs[i])
    BY <1>4
  <2>2. Ready(Modelled(segs[i]), i)
    BY <1>2, <1>3, ModelledReady DEF DubbingTypeOK, Given
  <2>3. QED  BY <2>1, <2>2 DEF Ready, Original, CutOf
<1>6. segs' \in Seq(Cuts) /\ Len(segs') = Len(segs)
  <2>1. segs' = [i \in 1..Len(segs) |-> segs'[i]]
    BY <1>4
  <2> DEFINE f == segs'
  <2>2. f = [i \in 1..Len(segs) |-> f[i]] /\ \A i \in 1..Len(segs) : f[i] \in Cuts
    BY <1>5, <2>1
  <2> HIDE DEF f
  <2>3. f \in Seq(Cuts) /\ Len(f) = Len(segs)
    BY <1>3, <2>2, Built
  <2>4. QED  BY <2>3 DEF f
<1>7. DubbingTypeOK'
  BY <1>1, <1>2, <1>6 DEF DubbingTypeOK, Given, Stages
<1>8. (\A i \in 1..Len(segs) : Ready(segs[i], i))'
  BY <1>1, <1>5, <1>6 DEF Ready, Original, CutOf, WithinWindow
<1>9. Progress'
  BY <1>1, <1>3, <1>6, <1>8 DEF Progress, IsDubbed, Prepared
<1>10. WordsTile' /\ StretchOwn' /\ NoCreditForSilence'
  BY <1>1 DEF WordsTile, StretchOwn, NoCreditForSilence
<1>11. QED  BY <1>7, <1>9, <1>10 DEF DubbingInv

LEMMA TimeDialogueInv ==
  ASSUME DubbingInv, TimeDialogue
  PROVE  DubbingInv'
<1>1. /\ stage = "modelled" /\ stage' = "timed"
      /\ UNCHANGED <<source, speech, cues, video, artifacts>>
  BY DEF TimeDialogue
<1>2. DubbingTypeOK /\ Progress
  BY DEF DubbingInv
<1>3. /\ Len(segs) \in Nat /\ DOMAIN segs = 1..Len(segs) /\ Len(segs) = Len(source)
      /\ \A i \in 1..Len(segs) : Ready(segs[i], i)
      /\ artifacts = IF video THEN <<Film>> ELSE <<>>
  BY <1>1, <1>2, SegmentPlaces DEF Progress, Prepared
<1>4. segs' = [i \in 1..Len(segs) |-> Timed(segs[i])]
  BY <1>3 DEF TimeDialogue
<1>5. \A i \in 1..Len(segs) : Placed(segs'[i], i) /\ Snaps(segs'[i], i) /\ segs'[i] \in Cuts
  <2> TAKE i \in 1..Len(segs)
  <2>1. segs'[i] = Timed(segs[i])
    BY <1>4
  <2>2. Placed(Timed(segs[i]), i) /\ Snaps(Timed(segs[i]), i)
    BY <1>2, <1>3, TimedPlaced DEF DubbingTypeOK, Given
  <2>3. QED  BY <2>1, <2>2 DEF Placed, CutOf
<1>6. segs' \in Seq(Cuts) /\ Len(segs') = Len(segs)
  <2>1. segs' = [i \in 1..Len(segs) |-> segs'[i]]
    BY <1>4
  <2> DEFINE f == segs'
  <2>2. f = [i \in 1..Len(segs) |-> f[i]] /\ \A i \in 1..Len(segs) : f[i] \in Cuts
    BY <1>5, <2>1
  <2> HIDE DEF f
  <2>3. f \in Seq(Cuts) /\ Len(f) = Len(segs)
    BY <1>3, <2>2, Built
  <2>4. QED  BY <2>3 DEF f
<1>7. DubbingTypeOK'
  BY <1>1, <1>2, <1>6 DEF DubbingTypeOK, Given, Stages
<1>8. (\A i \in 1..Len(segs) : Placed(segs[i], i) /\ Snaps(segs[i], i))'
  <2> SUFFICES ASSUME NEW i \in 1..Len(segs')  PROVE (Placed(segs[i], i) /\ Snaps(segs[i], i))'
    OBVIOUS
  <2>1. Placed(segs'[i], i) /\ Snaps(segs'[i], i)
    BY <1>5, <1>6
  <2>2. Placed(segs[i], i)'
    BY <1>1, <2>1 DEF Placed, CutOf, WithinWindow
  <2>3. Snaps(segs[i], i)'
    <3>1. source' = source /\ cues' = cues
      BY <1>1
    <3>2. ASSUME NEW t  PROVE Snapped(t)' = Snapped(t)
      BY <3>1 DEF Snapped
    <3>3. /\ Snapped(source[i].start)' = Snapped(source[i].start)
          /\ Snapped(source[i].end)' = Snapped(source[i].end)
      BY <3>1, <3>2
    <3>4. QED  BY <2>1, <3>1, <3>3 DEF Snaps, SnapsTo, Ends
  <2>4. QED  BY <2>2, <2>3
<1>9. Progress'
  BY <1>1, <1>3, <1>6, <1>8 DEF Progress, IsDubbed, Prepared
<1>10. WordsTile' /\ StretchOwn' /\ NoCreditForSilence'
  BY <1>1 DEF WordsTile, StretchOwn, NoCreditForSilence
<1>11. QED  BY <1>7, <1>9, <1>10 DEF DubbingInv

\* The files of a sequence of segments: of each its own, and in the places of the
\* segments as long as none is skipped.
Voiced(ss) ==
    FlattenSeq([i \in DOMAIN ss |-> IF ss[i].strategy = "skip" THEN <<>> ELSE FileOf(ss[i])])

LEMMA VoicedFiles ==
  ASSUME NEW ss \in Seq(Cuts)
  PROVE  /\ Voiced(ss) \in Seq(Files)
         /\ \A i \in 1..Len(ss) : Heard(ss[i], Voiced(ss))
         /\ \A i \in 1..Len(ss) : (\A k \in 1..i : ss[k].strategy # "skip") =>
               i <= Len(Voiced(ss)) /\ Says(Voiced(ss)[i], ss[i])
<1> DEFINE g == [i \in DOMAIN ss |-> IF ss[i].strategy = "skip" THEN <<>> ELSE FileOf(ss[i])]
           v == FlattenSeq(g)
           n == Len(ss)
<1>1. n \in Nat /\ DOMAIN ss = 1..n /\ \A i \in 1..n : ss[i] \in Cuts
  BY LenProperties, ElementOfSeq
<1>2. v = Voiced(ss)
  BY DEF Voiced
<1>3. ASSUME NEW i \in 1..n
      PROVE  /\ FileOf(ss[i]) \in Seq(Files) /\ Len(FileOf(ss[i])) = 1
             /\ Says(FileOf(ss[i])[1], ss[i])
  <2> DEFINE a == [of |-> ss[i].of, part |-> ss[i].part,
                   length |-> IF Duration(ss[i]) = 0 THEN MinAudio ELSE Duration(ss[i])]
  <2>1. FileOf(ss[i]) = <<a>>
    BY DEF FileOf
  <2>2. /\ ss[i].of \in Nat /\ ss[i].part \in Nat
        /\ ss[i].start \in Nat /\ ss[i].end \in Nat
    BY <1>1, CutFacts
  <2>3. Duration(ss[i]) \in Int /\ MinAudio \in Int
    BY <2>2 DEF Duration, MinAudio
  <2>4. a \in Files /\ Says(a, ss[i])
    BY <2>2, <2>3 DEF Files, Says
  <2> HIDE DEF a
  <2>5. <<a>> \in Seq(Files) /\ Len(<<a>>) = 1 /\ <<a>>[1] = a
    BY <2>4
  <2>6. QED  BY <2>1, <2>4, <2>5
<1>4. \A i \in 1..n : /\ ss[i].strategy # "skip" => g[i] = FileOf(ss[i])
                      /\ ss[i].strategy = "skip" => g[i] = <<>>
  BY <1>1
<1>5. g = [i \in 1..n |-> g[i]]
  BY <1>1
<1> HIDE DEF g, n
<1>6. \A i \in 1..n : g[i] \in Seq(Files)
  BY <1>3, <1>4, EmptySeq
<1>7. g \in Seq(Seq(Files)) /\ Len(g) = n
  BY <1>1, <1>5, <1>6, Built
<1>8. /\ v \in Seq(Files)
      /\ \A i \in 1..Len(g) : \A j \in 1..Len(g[i]) : \E k \in 1..Len(v) : v[k] = g[i][j]
  BY <1>7, Flattened
<1>9. ASSUME NEW i \in 1..n
      PROVE  Heard(ss[i], v)
  <2> SUFFICES ASSUME ss[i].strategy # "skip"
               PROVE  \E k \in 1..Len(v) : v[k].of = ss[i].of
    BY DEF Heard
  <2>1. Len(g[i]) = 1 /\ g[i][1].of = ss[i].of
    BY <1>3, <1>4 DEF Says
  <2>2. \E k \in 1..Len(v) : v[k] = g[i][1]
    <3>1. 1 \in 1..Len(g[i]) /\ i \in 1..Len(g)
      BY <1>7, <2>1
    <3> HIDE DEF v
    <3>2. QED  BY <1>8, <3>1
  <2>3. QED  BY <2>1, <2>2
<1>10. ASSUME NEW i \in 1..n, \A k \in 1..i : ss[k].strategy # "skip"
       PROVE  i <= Len(v) /\ Says(v[i], ss[i])
  <2>1. i \in 0..Len(g) /\ i \in 1..i /\ \A k \in 1..i : k \in 1..n
    BY <1>1, <1>7
  <2>2. \A k \in 1..i : Len(g[k]) = 1 /\ Says(g[k][1], ss[k])
    BY <1>3, <1>4, <1>10, <2>1
  <2>3. i <= Len(v) /\ \A k \in 1..i : v[k] = g[k][1]
    BY <1>7, <2>1, <2>2, FlattenedOnes
  <2>4. QED  BY <2>1, <2>2, <2>3
<1> HIDE DEF v
<1>11. QED  BY <1>2, <1>8, <1>9, <1>10 DEF n

\* What is heard stays heard when files are added in front.
LEMMA HeardBehind ==
  ASSUME NEW a \in Seq(Files), NEW b \in Seq(Files), NEW s, Heard(s, b)
  PROVE  Heard(s, a \o b)
<1> SUFFICES ASSUME s.strategy # "skip"
             PROVE  \E k \in 1..Len(a \o b) : (a \o b)[k].of = s.of
  BY DEF Heard
<1>1. PICK j \in 1..Len(b) : b[j].of = s.of
  BY DEF Heard
<1>2. /\ Len(a) \in Nat /\ Len(b) \in Nat
      /\ Len(a \o b) = Len(a) + Len(b) /\ (a \o b)[Len(a) + j] = b[j]
  BY Concatenated, LenProperties
<1>3. Len(a) + j \in 1..Len(a \o b)
  BY <1>2
<1>4. QED  BY <1>1, <1>2, <1>3

LEMMA SynthesiseInv ==
  ASSUME DubbingInv, Synthesise
  PROVE  DubbingInv'
<1>1. /\ stage \in {"modelled", "timed"} /\ stage' = "dubbed"
      /\ UNCHANGED <<source, speech, cues, video>>
  BY DEF Synthesise
<1>2. DubbingTypeOK /\ Progress
  BY DEF DubbingInv
<1>3. /\ Len(segs) \in Nat /\ DOMAIN segs = 1..Len(segs) /\ Len(segs) = Len(source)
      /\ \A i \in 1..Len(segs) : Placed(segs[i], i)
      /\ artifacts = IF video THEN <<Film>> ELSE <<>>
  <2>1. /\ Len(segs) \in Nat /\ DOMAIN segs = 1..Len(segs) /\ Len(segs) = Len(source)
        /\ artifacts = IF video THEN <<Film>> ELSE <<>>
    BY <1>1, <1>2, SegmentPlaces DEF Progress, Prepared
  <2>2. ASSUME NEW i \in 1..Len(segs)
        PROVE  Placed(segs[i], i)
    <3>1. CASE stage = "modelled"
      BY <1>2, <2>1, <3>1, ReadyPlaced DEF Progress, DubbingTypeOK, Given
    <3>2. CASE stage = "timed"
      BY <1>2, <3>2 DEF Progress
    <3>3. QED  BY <1>1, <3>1, <3>2
  <2>3. QED  BY <2>1, <2>2
<1> DEFINE ss == [i \in DOMAIN segs |-> Fitted(segs[i])]
           n == Len(segs)
<1>4. ASSUME NEW i \in 1..n
      PROVE  /\ ss[i] \in Seq(Cuts)
             /\ \A k \in 1..Len(ss[i]) : OnTime(ss[i][k]) /\ SkippedUnfit(ss[i][k])
  <2>1. ss[i] = Fitted(segs[i])
    BY <1>3
  <2>2. QED  BY <1>2, <1>3, <2>1, FittedOnTime DEF DubbingTypeOK, Given
<1>5. ss = [i \in 1..n |-> ss[i]] /\ segs' = FlattenSeq(ss) /\ n \in Nat
  BY <1>3 DEF Synthesise
<1> HIDE DEF ss, n
<1>6. ss \in Seq(Seq(Cuts)) /\ Len(ss) = n
  BY <1>4, <1>5, Built
<1>7. /\ segs' \in Seq(Cuts)
      /\ \A k \in 1..Len(segs') :
            \E i \in 1..Len(ss) : \E j \in 1..Len(ss[i]) : segs'[k] = ss[i][j]
  <2> DEFINE S == Cuts  all == FlattenSeq(ss)
  <2> HIDE DEF S
  <2>1. ss \in Seq(Seq(S))
    BY <1>6 DEF S
  <2>2. /\ all \in Seq(S)
        /\ \A k \in 1..Len(all) :
              \E i \in 1..Len(ss) : \E j \in 1..Len(ss[i]) : all[k] = ss[i][j]
    BY <2>1, Flattened
  <2> HIDE DEF all
  <2>3. segs' = all
    BY <1>5 DEF all
  <2>4. QED  BY <2>2, <2>3 DEF S
<1>8. \A k \in 1..Len(segs') : OnTime(segs'[k]) /\ SkippedUnfit(segs'[k])
  <2> SUFFICES ASSUME NEW k \in 1..Len(segs')
               PROVE  OnTime(segs'[k]) /\ SkippedUnfit(segs'[k])
    OBVIOUS
  <2>1. PICK i \in 1..n : \E j \in 1..Len(ss[i]) : segs'[k] = ss[i][j]
    BY <1>6, <1>7
  <2>2. QED  BY <1>4, <2>1
<1>9. artifacts' = artifacts \o Voiced(segs')
  BY DEF Synthesise, Voiced
<1>10. artifacts \in Seq(Files)
  BY <1>2 DEF DubbingTypeOK
<1> DEFINE ss2 == segs'
<1>11. /\ Voiced(ss2) \in Seq(Files)
       /\ \A i \in 1..Len(ss2) : Heard(ss2[i], Voiced(ss2))
       /\ \A i \in 1..Len(ss2) : (\A k \in 1..i : ss2[k].strategy # "skip") =>
               i <= Len(Voiced(ss2)) /\ Says(Voiced(ss2)[i], ss2[i])
  <2>1. ss2 \in Seq(Cuts)
    BY <1>7
  <2> HIDE DEF ss2
  <2>2. QED  BY <2>1, VoicedFiles
<1>12. /\ artifacts' \in Seq(Files)
       /\ \A i \in 1..Len(segs') : Heard(segs'[i], artifacts')
  BY <1>9, <1>10, <1>11, Concatenated, HeardBehind
<1>13. DubbingTypeOK'
  BY <1>1, <1>2, <1>7, <1>12 DEF DubbingTypeOK, Given, Stages
<1>14. FilesInOrder'
  <2> SUFFICES ASSUME ~video, NEW i \in 1..Len(segs'),
                      \A k \in 1..i : segs'[k].strategy # "skip"
               PROVE  i <= Len(artifacts') /\ Says(artifacts'[i], segs'[i])
    BY <1>1 DEF FilesInOrder, SpokenUpTo, Says
  <2>1. artifacts = <<>>
    BY <1>3
  <2> DEFINE v == Voiced(segs')
  <2>2. v \in Seq(Files) /\ artifacts' = <<>> \o v
    BY <1>9, <1>11, <2>1
  <2>3. i <= Len(v) /\ Says(v[i], segs'[i])
    BY <1>11
  <2> HIDE DEF v
  <2>4. artifacts' = v
    BY <2>2, ConcatEmptySeq
  <2>5. QED  BY <2>3, <2>4
<1>15. (\A i \in 1..Len(segs) : Dubbed(segs[i], artifacts))'
  BY <1>1, <1>8, <1>12 DEF Dubbed, OnTime, SkippedUnfit, Heard
<1>16. Progress'
  BY <1>1, <1>14, <1>15 DEF Progress, IsDubbed, Prepared
<1>17. WordsTile' /\ StretchOwn' /\ NoCreditForSilence'
  BY <1>1 DEF WordsTile, StretchOwn, NoCreditForSilence
<1>18. QED  BY <1>13, <1>16, <1>17 DEF DubbingInv

LEMMA StretchedLength ==
  ASSUME NEW length \in Int, NEW target \in Nat
  PROVE  Stretched(length, target) \in Int
BY DEF Stretched

\* A stretched file says what it said.
LEMMA FitKeeps ==
  ASSUME NEW a \in Files, NEW target \in Nat
  PROVE  Fit(a, target) \in Files /\ Fit(a, target).of = a.of
<1>1. a.of \in Int /\ a.part \in Int /\ a.length \in Int
  BY DEF Files
<1>2. Stretched(a.length, target) \in Int
  BY <1>1, StretchedLength
<1>3. QED  BY <1>1, <1>2 DEF Fit, Files

LEMMA AudioSaysText ==
  ASSUME NEW a, NEW s, OnTime(s), a.of = s.of
  PROVE  IsAudio(a) /\ a # Nothing
<1>1. s.of # 0 /\ s.of # -1
  BY DEF OnTime
<1>2. a # Film
  BY <1>1 DEF Film
<1>3. a # Nothing
  BY <1>1 DEF Nothing
<1>4. QED  BY <1>2, <1>3 DEF IsAudio

LEMMA StretchInv ==
  ASSUME DubbingInv, Stretch
  PROVE  DubbingInv'
<1> DEFINE g == [i \in DOMAIN segs |-> IF Matching(i) = Nothing THEN <<>>
                                        ELSE <<Fit(Matching(i), segs[i].target)>>]
           fitted == FlattenSeq(g)
           rest == SubSeq(artifacts, Len(segs) + 1, Len(artifacts))
           n == Len(segs)
           m == Len(artifacts)
<1>1. /\ stage = "dubbed" /\ stage' = "stretched"
      /\ UNCHANGED <<source, speech, cues, video, segs>>
      /\ matched' = [i \in DOMAIN segs |-> Matching(i)]
  BY DEF Stretch
<1>2. artifacts' = IF fitted \o rest = <<>> THEN artifacts ELSE fitted \o rest
  BY DEF Stretch
<1>3. DubbingTypeOK /\ Progress
  BY DEF DubbingInv
<1>4. /\ n \in Nat /\ DOMAIN segs = 1..n /\ m \in Nat
      /\ \A i \in 1..n : segs[i] \in Cuts
      /\ \A i \in 1..m : artifacts[i] \in Files
  BY <1>3, SegmentPlaces
<1>5. \A i \in 1..n : Dubbed(segs[i], artifacts)
  BY <1>1, <1>3 DEF Progress, IsDubbed
<1>6. g = [i \in 1..n |-> g[i]]
      /\ \A i \in 1..n : g[i] = IF Matching(i) = Nothing THEN <<>>
                                ELSE <<Fit(Matching(i), segs[i].target)>>
  BY <1>4
<1>7. rest \in Seq(Files) /\ Len(rest) = (IF n + 1 <= m THEN m - (n + 1) + 1 ELSE 0)
      /\ \A i \in 1..m - (n + 1) + 1 : rest[i] = artifacts[n + 1 + i - 1]
  <2> DEFINE S == Files  lo == n + 1
  <2> HIDE DEF S, n, m, lo
  <2>1. lo \in Int /\ m \in Int /\ \A i \in lo..m : artifacts[i] \in S
    BY <1>4 DEF lo, S
  <2>2. /\ SubSeq(artifacts, lo, m) \in Seq(S)
        /\ Len(SubSeq(artifacts, lo, m)) = IF lo <= m THEN m - lo + 1 ELSE 0
        /\ \A i \in 1..m - lo + 1 : SubSeq(artifacts, lo, m)[i] = artifacts[lo + i - 1]
    BY <2>1, SubSeqProperties
  <2>3. rest = SubSeq(artifacts, lo, m)
    BY DEF lo, n, m
  <2>4. QED  BY <2>2, <2>3 DEF S, lo
<1> HIDE DEF g, n, m, rest
<1>8. ASSUME NEW i \in 1..n, Matching(i) # Nothing
      PROVE  /\ i \in 1..m /\ Matching(i) = artifacts[i]
             /\ Fit(Matching(i), segs[i].target) \in Files
             /\ Fit(Matching(i), segs[i].target).of = artifacts[i].of
  <2>1. i <= m /\ Matching(i) = artifacts[i]
    BY <1>8 DEF Matching, m
  <2>2. i \in 1..m /\ artifacts[i] \in Files /\ segs[i].target \in Nat
    BY <1>4, <2>1, CutFacts
  <2>3. QED  BY <2>1, <2>2, FitKeeps
<1>9. ASSUME NEW i \in 1..n
      PROVE  g[i] \in Seq(Files)
  <2>1. CASE Matching(i) = Nothing
    BY <1>6, <2>1, EmptySeq
  <2>2. CASE Matching(i) # Nothing
    <3> DEFINE a == Fit(Matching(i), segs[i].target)
    <3>1. g[i] = <<a>> /\ a \in Files
      BY <1>6, <1>8, <2>2
    <3> HIDE DEF a
    <3>2. QED  BY <3>1
  <2>3. QED  BY <2>1, <2>2
<1>10. g \in Seq(Seq(Files)) /\ Len(g) = n
  BY <1>4, <1>6, <1>9, Built
<1>11. /\ fitted \in Seq(Files)
       /\ \A i \in 1..n : \A j \in 1..Len(g[i]) : \E k \in 1..Len(fitted) : fitted[k] = g[i][j]
  BY <1>10, Flattened
<1> HIDE DEF fitted
<1>12. /\ fitted \o rest \in Seq(Files) /\ Len(fitted) \in Nat /\ Len(rest) \in Nat
       /\ Len(fitted \o rest) = Len(fitted) + Len(rest)
       /\ \A i \in 1..Len(fitted) : (fitted \o rest)[i] = fitted[i]
       /\ \A i \in 1..Len(rest) : (fitted \o rest)[Len(fitted) + i] = rest[i]
  BY <1>7, <1>11, Concatenated, LenProperties
<1>13. artifacts' \in Seq(Files)
  BY <1>2, <1>3, <1>12 DEF DubbingTypeOK
<1>14. ASSUME NEW i \in 1..n
       PROVE  Heard(segs[i], artifacts')
  <2>1. CASE fitted \o rest = <<>>
    BY <1>2, <1>5, <2>1 DEF Dubbed
  <2>2. CASE fitted \o rest # <<>>
    <3> SUFFICES ASSUME segs[i].strategy # "skip"
                 PROVE  \E k \in 1..Len(fitted \o rest) : (fitted \o rest)[k].of = segs[i].of
      BY <1>2, <2>2 DEF Heard
    <3>1. PICK k \in 1..m : artifacts[k].of = segs[i].of
      BY <1>5 DEF Dubbed, Heard, m
    <3>2. IsAudio(artifacts[k]) /\ artifacts[k] # Nothing
      BY <1>5, <3>1, AudioSaysText DEF Dubbed
    <3>3. CASE k <= n
      <4>1. k \in 1..n
        BY <1>4, <3>3
      <4>2. Matching(k) = artifacts[k]
        BY <1>4, <3>2 DEF Matching, m
      <4> DEFINE a == Fit(Matching(k), segs[k].target)
      <4>3. g[k] = <<a>> /\ a.of = segs[i].of
        BY <1>6, <1>8, <3>1, <3>2, <4>1, <4>2
      <4> HIDE DEF a
      <4>4. 1 \in 1..Len(g[k]) /\ g[k][1] = a
        BY <4>3
      <4>5. PICK j \in 1..Len(fitted) : fitted[j] = a
        BY <1>11, <4>1, <4>4
      <4>6. j \in 1..Len(fitted \o rest) /\ (fitted \o rest)[j] = a
        BY <1>12, <4>5
      <4>7. QED  BY <4>3, <4>6
    <3>4. CASE ~(k <= n)
      <4> DEFINE j == k - n
      <4>1. j \in 1..m - (n + 1) + 1 /\ n + 1 + j - 1 = k /\ n + 1 <= m
        BY <1>4, <3>4
      <4>2. j \in 1..Len(rest) /\ rest[j] = artifacts[k]
        BY <1>7, <4>1
      <4> HIDE DEF j
      <4>3. /\ Len(fitted) + j \in 1..Len(fitted \o rest)
            /\ (fitted \o rest)[Len(fitted) + j] = artifacts[k]
        BY <1>12, <4>2
      <4>4. QED  BY <3>1, <4>3
    <3>5. QED  BY <3>3, <3>4
  <2>3. QED  BY <2>1, <2>2
<1>15. DubbingTypeOK'
  BY <1>1, <1>3, <1>13 DEF DubbingTypeOK, Given, Stages
<1>16. (\A i \in 1..Len(segs) : Dubbed(segs[i], artifacts))'
  BY <1>1, <1>5, <1>14 DEF Dubbed, OnTime, SkippedUnfit, Heard, n
<1>17. Progress'
  BY <1>1, <1>16 DEF Progress, IsDubbed, Prepared
<1>18. StretchOwn'
  <2> SUFFICES ASSUME NEW i \in 1..n, ~video, \A k \in 1..i : segs[k].strategy # "skip"
               PROVE  matched'[i].of = segs[i].of /\ matched'[i].part = segs[i].part
    BY <1>1, <1>4 DEF StretchOwn
  <2>1. i <= Len(artifacts) /\ Says(artifacts[i], segs[i])
    BY <1>1, <1>3 DEF Progress, FilesInOrder, SpokenUpTo, n
  <2>2. IsAudio(artifacts[i])
    BY <1>5, <2>1, AudioSaysText DEF Dubbed, Says
  <2>3. matched'[i] = artifacts[i]
    BY <1>1, <1>4, <2>1, <2>2 DEF Matching
  <2>4. QED  BY <2>1, <2>3 DEF Says
<1>19. WordsTile' /\ NoCreditForSilence'
  BY <1>1 DEF WordsTile, NoCreditForSilence
<1>20. QED  BY <1>15, <1>17, <1>18, <1>19 DEF DubbingInv

AtOffset(s, offset) == [s EXCEPT !.offset = offset]

LEMMA MergeInv ==
  ASSUME DubbingInv, Merge
  PROVE  DubbingInv'
<1> DEFINE n == Len(segs)  m == Len(artifacts)
<1>1. /\ stage \in {"dubbed", "stretched"} /\ stage' = "merged"
      /\ artifacts' = Append(artifacts, Film)
      /\ UNCHANGED <<source, speech, cues, video>>
  BY DEF Merge
<1>2. DubbingTypeOK /\ Progress
  BY DEF DubbingInv
<1>3. n \in Nat /\ DOMAIN segs = 1..n /\ m \in Nat /\ \A i \in 1..n : segs[i] \in Cuts
  BY <1>2, SegmentPlaces
<1>4. \A i \in 1..n : Dubbed(segs[i], artifacts)
  BY <1>1, <1>2 DEF Progress, IsDubbed
<1>5. segs' = [i \in 1..n |-> AtOffset(segs[i], Duration(segs[i]) - segs[i].target)]
  BY <1>3 DEF Merge, AtOffset
<1>6. ASSUME NEW i \in 1..n
      PROVE  /\ segs'[i] \in Cuts /\ segs'[i].of = segs[i].of /\ segs'[i].end = segs[i].end
             /\ segs'[i].strategy = segs[i].strategy /\ segs'[i].unfit = segs[i].unfit
  <2> DEFINE x == Duration(segs[i]) - segs[i].target
  <2>1. segs'[i] = AtOffset(segs[i], x)
    BY <1>5
  <2>2. x \in Int
    BY <1>3, CutFacts DEF Duration
  <2> HIDE DEF x
  <2>3. QED  BY <1>3, <2>1, <2>2 DEF AtOffset, Cuts
<1>7. segs' \in Seq(Cuts) /\ Len(segs') = n
  <2> DEFINE f == segs'
  <2>1. f = [i \in 1..n |-> f[i]] /\ \A i \in 1..n : f[i] \in Cuts
    BY <1>5, <1>6
  <2> HIDE DEF f
  <2>2. f \in Seq(Cuts) /\ Len(f) = n
    BY <1>3, <2>1, Built
  <2>3. QED  BY <2>2 DEF f
<1>8. /\ artifacts' \in Seq(Files) /\ Len(artifacts') = m + 1
      /\ \A k \in 1..m : artifacts'[k] = artifacts[k]
  <2>1. Film \in Files
    BY DEF Film, Files
  <2>2. artifacts \in Seq(Files)
    BY <1>2 DEF DubbingTypeOK
  <2>3. QED  BY <1>1, <2>1, <2>2, Appended
<1>9. ASSUME NEW i \in 1..n
      PROVE  Heard(segs'[i], artifacts')
  <2> SUFFICES ASSUME segs[i].strategy # "skip"
               PROVE  \E k \in 1..Len(artifacts') : artifacts'[k].of = segs[i].of
    BY <1>6 DEF Heard
  <2>1. PICK k \in 1..m : artifacts[k].of = segs[i].of
    BY <1>4 DEF Dubbed, Heard
  <2>2. k \in 1..m + 1
    BY <1>3
  <2>3. QED  BY <1>8, <2>1, <2>2
<1>10. DubbingTypeOK'
  BY <1>1, <1>2, <1>7, <1>8 DEF DubbingTypeOK, Given, Stages
<1>11. (\A i \in 1..Len(segs) : Dubbed(segs[i], artifacts))'
  BY <1>1, <1>4, <1>6, <1>7, <1>9 DEF Dubbed, OnTime, SkippedUnfit, Heard
<1>12. Progress'
  BY <1>1, <1>11 DEF Progress, IsDubbed, Prepared
<1>13. WordsTile' /\ StretchOwn' /\ NoCreditForSilence'
  BY <1>1 DEF WordsTile, StretchOwn, NoCreditForSilence
<1>14. QED  BY <1>10, <1>12, <1>13 DEF DubbingInv

LEMMA EvaluateInv ==
  ASSUME DubbingInv, Evaluate
  PROVE  DubbingInv'
<1>1. /\ stage = "merged" /\ stage' = "scored"
      /\ UNCHANGED <<source, speech, cues, video, segs, artifacts>>
  BY DEF Evaluate
<1>2. DubbingTypeOK /\ Progress
  BY DEF DubbingInv
<1>3. /\ DOMAIN segs = 1..Len(segs) /\ DOMAIN artifacts = 1..Len(artifacts)
  BY <1>2, SegmentPlaces
<1>4. \A i \in 1..Len(segs) : Dubbed(segs[i], artifacts)
  BY <1>1, <1>2 DEF Progress, IsDubbed
<1>5. ASSUME NEW i, Judged(i)
      PROVE  \E a \in Range(artifacts) : a.of = i
  <2>1. PICK s \in Range(segs) : s.of = i /\ ~s.unfit
    BY <1>5 DEF Judged, Group, Penalised
  <2>2. PICK k \in 1..Len(segs) : s = segs[k]
    BY <1>3 DEF Range
  <2>3. Heard(segs[k], artifacts) /\ SkippedUnfit(segs[k])
    BY <1>4 DEF Dubbed
  <2>4. PICK j \in 1..Len(artifacts) : artifacts[j].of = i
    BY <2>1, <2>2, <2>3 DEF Heard, SkippedUnfit
  <2>5. artifacts[j] \in Range(artifacts)
    BY <1>3 DEF Range
  <2>6. QED  BY <2>4, <2>5
<1>6. NoCreditForSilence'
  <2>1. \A i \in timely' \cup inSync' : Judged(i)
    BY DEF Evaluate, InTime, InSync
  <2>2. QED  BY <1>1, <1>5, <2>1 DEF NoCreditForSilence
<1>7. DubbingTypeOK'
  BY <1>1, <1>2 DEF DubbingTypeOK, Given, Stages
<1>8. Progress'
  BY <1>1, <1>4 DEF Progress, IsDubbed, Prepared, Dubbed, OnTime, SkippedUnfit, Heard
<1>9. WordsTile' /\ StretchOwn'
  BY <1>1 DEF WordsTile, StretchOwn
<1>10. QED  BY <1>6, <1>7, <1>8, <1>9 DEF DubbingInv

LEMMA DubbingStutter ==
  ASSUME DubbingInv, UNCHANGED dubbingVars
  PROVE  DubbingInv'
<1>1. UNCHANGED <<stage, source, speech, cues, video, segs, artifacts, words, matched, timely, inSync>>
  BY DEF dubbingVars
<1>2. DubbingTypeOK'
  BY <1>1 DEF DubbingInv, DubbingTypeOK, Given
<1>3. Progress'
  <2>1. Progress
    BY DEF DubbingInv
  <2>2. ASSUME NEW s, NEW i
        PROVE  /\ Original(s, i)' = Original(s, i) /\ Ready(s, i)' = Ready(s, i)
               /\ Placed(s, i)' = Placed(s, i) /\ Snaps(s, i)' = Snaps(s, i)
               /\ OnTime(s)' = OnTime(s)
    <3>1. Original(s, i)' = Original(s, i) /\ OnTime(s)' = OnTime(s)
      BY <1>1 DEF Original, CutOf, OnTime
    <3>2. WithinWindow(s, i)' = WithinWindow(s, i)
      BY <1>1 DEF WithinWindow
    <3>3. Ready(s, i)' = Ready(s, i) /\ Placed(s, i)' = Placed(s, i)
      BY <1>1, <3>1, <3>2 DEF Ready, Placed, CutOf
    <3>4. ASSUME NEW t  PROVE Snapped(t)' = Snapped(t)
      BY <1>1 DEF Snapped
    <3>5. Snaps(s, i)' = Snaps(s, i)
      BY <1>1, <3>4 DEF Snaps, SnapsTo, Ends
    <3>6. QED  BY <3>1, <3>3, <3>5
  <2>3. FilesInOrder' = FilesInOrder
    BY <1>1 DEF FilesInOrder, SpokenUpTo
  <2>4. QED  BY <1>1, <2>1, <2>2, <2>3 DEF Progress, Prepared, IsDubbed, Dubbed
<1>4. WordsTile' /\ StretchOwn' /\ NoCreditForSilence'
  BY <1>1 DEF DubbingInv, WordsTile, StretchOwn, NoCreditForSilence
<1>5. QED  BY <1>2, <1>3, <1>4 DEF DubbingInv

-----------------------------------------------------------------------------
(* The theorems about the time axis                                          *)

LEMMA DubbingStep ==
  ASSUME DubbingInv, [DubbingNext]_dubbingVars
  PROVE  DubbingInv'
BY AlignInv, ModelInv, TimeDialogueInv, SynthesiseInv, StretchInv, MergeInv, EvaluateInv,
   DubbingStutter DEF DubbingNext

\* From the transcript to the score every component keeps what the next one rests on.
THEOREM DubbingKeepsInv == DubbingSpec => []DubbingInv
<1>1. DubbingInit => DubbingInv
  BY DubbingInitInv
<1>2. DubbingInv /\ [DubbingNext]_dubbingVars => DubbingInv'
  BY DubbingStep
<1>3. QED  BY <1>1, <1>2, PTL DEF DubbingSpec

\* The ends go where they snap, or stay.
Lands(s, a, b, from, to) == IF Reverts(from, to) THEN Ends(s, a, b) ELSE Ends(s, from, to)

LEMMA Neighbours ==
  ASSUME NEW a \in Nat, NEW b \in Nat, NEW c \in Nat, NEW d \in Nat,
         NEW sa \in Nat, NEW sb \in Nat, NEW sc \in Nat, NEW sd \in Nat,
         sb <= sc, b <= c, sb <= b + SnapTolerance, c <= sc + SnapTolerance,
         NEW s, NEW u, Lands(s, a, b, sa, sb), Lands(u, c, d, sc, sd)
  PROVE  \/ s.end <= u.start
         \/ /\ \/ Ends(s, a, b) /\ sa >= sb
               \/ Ends(u, c, d) /\ sc >= sd
            /\ s.end - u.start <= SnapTolerance
<1>1. SnapTolerance \in Nat
  BY DEF SnapTolerance
<1>2. CASE Reverts(sa, sb) /\ Reverts(sc, sd)
  BY <1>2 DEF Lands, Ends
<1>3. CASE Reverts(sa, sb) /\ ~Reverts(sc, sd)
  <2>1. s.end = b /\ u.start = sc /\ Ends(s, a, b) /\ sa >= sb
    BY <1>3 DEF Lands, Ends, Reverts
  <2>2. b - sc <= SnapTolerance
    BY <1>1
  <2>3. QED  BY <2>1, <2>2
<1>4. CASE ~Reverts(sa, sb) /\ Reverts(sc, sd)
  <2>1. s.end = sb /\ u.start = c /\ Ends(u, c, d) /\ sc >= sd
    BY <1>4 DEF Lands, Ends, Reverts
  <2>2. sb - c <= SnapTolerance
    BY <1>1
  <2>3. QED  BY <2>1, <2>2
<1>5. CASE ~Reverts(sa, sb) /\ ~Reverts(sc, sd)
  BY <1>5 DEF Lands, Ends, Reverts
<1>6. QED  BY <1>2, <1>3, <1>4, <1>5

LEMMA TimedOrderly ==
  ASSUME DubbingInv
  PROVE  TimingOrderly
<1> SUFFICES ASSUME stage = "timed"
             PROVE  TimingOrderly
  BY DEF TimingOrderly
<1>1. /\ source \in Seq(Inputs) /\ cues \subseteq Nat /\ Len(segs) = Len(source)
      /\ Len(segs) \in Nat /\ DOMAIN segs = 1..Len(segs)
      /\ \A i \in 1..Len(segs) : Snaps(segs[i], i)
  BY SegmentPlaces DEF DubbingInv, Progress, Prepared, DubbingTypeOK, Given
<1>2. ASSUME NEW i \in 1..Len(segs)
      PROVE  /\ source[i].start \in Nat /\ source[i].end \in Nat
             /\ source[i].start <= source[i].end
             /\ Snapped(source[i].start) \in Nat /\ Snapped(source[i].end) \in Nat
             /\ Snapped(source[i].end) <= source[i].end + SnapTolerance
             /\ source[i].start <= Snapped(source[i].start) + SnapTolerance
  BY <1>1, InputFacts, SnappedWithin
<1>3. ASSUME NEW i \in DOMAIN segs, Duration(source[i]) > 0
      PROVE  Duration(segs[i]) > 0
  <2>1. i \in 1..Len(segs)
    BY <1>1
  <2>2. Snaps(segs[i], i)
    BY <1>1, <2>1
  <2>3. CASE Reverts(Snapped(source[i].start), Snapped(source[i].end))
    <3>1. segs[i].start = source[i].start /\ segs[i].end = source[i].end
      BY <2>2, <2>3 DEF Snaps, SnapsTo, Ends
    <3>2. QED  BY <1>3, <3>1 DEF Duration
  <2>4. CASE ~Reverts(Snapped(source[i].start), Snapped(source[i].end))
    <3>1. segs[i].start = Snapped(source[i].start) /\ segs[i].end = Snapped(source[i].end)
      BY <2>2, <2>4 DEF Snaps, SnapsTo, Ends
    <3>2. QED  BY <1>2, <2>1, <2>4, <3>1 DEF Duration, Reverts
  <2>5. QED  BY <2>3, <2>4
<1> DEFINE TakenBack(k) == /\ segs[k].start = source[k].start /\ segs[k].end = source[k].end
                           /\ Snapped(source[k].start) >= Snapped(source[k].end)
<1>4. ASSUME NEW i \in 1..Len(segs) - 1, source[i].end <= source[i+1].start
      PROVE  \/ segs[i].end <= segs[i+1].start
             \/ /\ TakenBack(i) \/ TakenBack(i+1)
                /\ segs[i].end - segs[i+1].start <= SnapTolerance
  <2> DEFINE a == source[i].start    b == source[i].end
             c == source[i+1].start  d == source[i+1].end
             sa == Snapped(a)        sb == Snapped(b)
             sc == Snapped(c)        sd == Snapped(d)
             s == segs[i]            u == segs[i+1]
  <2>1. i \in 1..Len(segs) /\ i + 1 \in 1..Len(segs)
    BY <1>1
  <2>2. /\ a \in Nat /\ b \in Nat /\ c \in Nat /\ d \in Nat
        /\ sa \in Nat /\ sb \in Nat /\ sc \in Nat /\ sd \in Nat
        /\ sb <= b + SnapTolerance /\ c <= sc + SnapTolerance /\ b <= c
    BY <1>2, <1>4, <2>1
  <2>3. Lands(s, a, b, sa, sb) /\ Lands(u, c, d, sc, sd)
    BY <1>1, <2>1 DEF Snaps, SnapsTo, Lands
  <2>4. sb <= sc
    <3> HIDE DEF b, c
    <3>1. QED  BY <1>1, <2>2, SnappedMonotone
  <2>5. /\ Ends(s, a, b) /\ sa >= sb => TakenBack(i)
        /\ Ends(u, c, d) /\ sc >= sd => TakenBack(i+1)
    BY DEF Ends
  <2> HIDE DEF a, b, c, d, sa, sb, sc, sd, s, u, TakenBack
  <2>6. \/ s.end <= u.start
        \/ /\ \/ Ends(s, a, b) /\ sa >= sb
              \/ Ends(u, c, d) /\ sc >= sd
           /\ s.end - u.start <= SnapTolerance
    BY <2>2, <2>3, <2>4, Neighbours
  <2>7. QED  BY <2>5, <2>6 DEF s, u
<1>5. QED  BY <1>3, <1>4 DEF TimingOrderly

\* Both aligners lay the words of every segment end to end up to its end, whatever
\* is said and whatever frames the model emits.
THEOREM WordsAlwaysTile == DubbingSpec => []WordsTile
<1>1. DubbingInv => WordsTile
  BY DEF DubbingInv
<1>2. QED  BY <1>1, DubbingKeepsInv, PTL

\* Snapping to any set of cues keeps the segments of any transcript long and in order.
THEOREM TimingAlwaysOrderly == DubbingSpec => []TimingOrderly
<1>1. DubbingInv => TimingOrderly
  BY TimedOrderly
<1>2. QED  BY <1>1, DubbingKeepsInv, PTL

\* The thresholds of the three components add up to what the evaluator tolerates,
\* for segments, cues and estimates of every length.
THEOREM DubbedNeverLate == DubbingSpec => []NeverLate
<1>1. DubbingInv => NeverLate
  <2> SUFFICES ASSUME DubbingInv, IsDubbed, NEW i \in DOMAIN segs
               PROVE  segs[i].end <= source[segs[i].of].end + EndTolerance
    BY DEF NeverLate
  <2>1. i \in 1..Len(segs)
    BY SegmentPlaces DEF DubbingInv
  <2>2. QED  BY <2>1 DEF DubbingInv, Progress, Dubbed, OnTime
<1>2. QED  BY <1>1, DubbingKeepsInv, PTL

\* Without a video and up to the first skipped segment, the file stretched for a
\* segment is its own.
THEOREM StretchesOwn == DubbingSpec => []StretchOwn
<1>1. DubbingInv => StretchOwn
  BY DEF DubbingInv
<1>2. QED  BY <1>1, DubbingKeepsInv, PTL

\* Whatever the evaluators count as in time or in sync, a file says it.
THEOREM NoCreditWithoutSound == DubbingSpec => []NoCreditForSilence
<1>1. DubbingInv => NoCreditForSilence
  BY DEF DubbingInv
<1>2. QED  BY <1>1, DubbingKeepsInv, PTL
=============================================================================

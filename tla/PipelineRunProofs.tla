------------------------- MODULE PipelineRunProofs -------------------------
(***************************************************************************)
(* A run of a pipeline: the chain of middleware around it, and the loop    *)
(* over its stages within.                                                 *)
(*                                                                         *)
(* For any middleware, runs and orders: a chain that is cached is the one  *)
(* that would be built now, unless the registry has overtaken its          *)
(* building; the pipeline runs only behind every before() of the chain;    *)
(* and an outcome leaves it only as run() says.  The invariant (RunsInv)   *)
(* relates the hooks a run has called to where it is: on its way inwards   *)
(* these are the before() so far, and on its way outwards the last of them *)
(* are those of the entries it has passed (RunFits).  Of the cache it is   *)
(* that the listings the executors still hold are current (CacheInv).      *)
(*                                                                         *)
(* For any number of stages, languages and segments, whatever the stages   *)
(* return and in whatever order they fail: warnings are kept, the status   *)
(* does not flatter, and the consent reaches every stage and the final     *)
(* Result.  The argument: every Result goes through Merge() before it      *)
(* becomes the running one, and every mark is checked by replace().        *)
(* And a stage that is routed the segments it supports keeps the others.   *)
(* Why: whatever the stages return, the segments of the running value are  *)
(* in the order of their start times (OrderInv), so that a stable sort by  *)
(* start time, which the executor resorts to once a stage has split or     *)
(* merged segments, leaves those that were not for the stage as they were. *)
(***************************************************************************)
EXTENDS Middleware, PipelineExecutor, SequenceFacts

Scoped == [name : Names, object : 1..MaxObjects, scope : {0, 1}]

\* Of any finite number of entries, each has a place of its own.
LEMMA SortedType ==
  ASSUME NEW E, IsFiniteSet(E), E \subseteq Scoped,
         \A x, y \in E : x.name = y.name /\ x.scope = y.scope => x = y
  PROVE  Sorted(E) \in Seq(Entry)
<1> DEFINE n == Cardinality(E)
           B(x) == {y \in E : Precedes(y, x)}
           rank == [x \in E |-> Cardinality(B(x))]
<1>1. n \in Nat /\ \A x : IsFiniteSet(B(x)) /\ Cardinality(B(x)) \in Nat /\ Cardinality(B(x)) <= n
  <2>1. \A x : B(x) \in SUBSET E
    OBVIOUS
  <2> HIDE DEF B
  <2>2. QED  BY <2>1, FS_Subset, FS_CardinalityType
<1>2. \A x \in E : Order[x.name] \in Nat /\ x.scope \in {0, 1} /\ ~Precedes(x, x)
  BY MiddlewareConstants DEF Scoped, Precedes
<1>3. \A x, y \in E : x = y \/ Precedes(x, y) \/ Precedes(y, x)
  <2> SUFFICES ASSUME NEW x \in E, NEW y \in E, x # y  PROVE Precedes(x, y) \/ Precedes(y, x)
    OBVIOUS
  <2>1. CASE x.name = y.name
    BY <1>2, <2>1 DEF Precedes
  <2>2. CASE x.name # y.name
    <3>1. Order[x.name] # Order[y.name]
      BY <2>2, MiddlewareConstants DEF Scoped, IsInjective
    <3>2. QED  BY <1>2, <3>1 DEF Precedes
  <2>3. QED  BY <2>1, <2>2
<1>4. \A x, y, z \in E : Precedes(x, y) /\ Precedes(y, z) => Precedes(x, z)
  BY <1>2 DEF Precedes
<1>5. ASSUME NEW x \in E, NEW y \in E, Precedes(x, y)
      PROVE  Cardinality(B(x)) < Cardinality(B(y))
  <2>1. B(x) \in SUBSET B(y) /\ B(x) # B(y)
    BY <1>2, <1>4, <1>5
  <2> HIDE DEF B
  <2>2. QED  BY <1>1, <2>1, FS_Subset
<1>6. ASSUME NEW x \in E  PROVE Cardinality(B(x)) < n
  <2>1. B(x) \in SUBSET E /\ B(x) # E
    BY <1>2
  <2> HIDE DEF B
  <2>2. QED  BY <1>1, <2>1, FS_Subset
<1>7. rank \in Injection(E, 0..n-1)
  <2> HIDE DEF B
  <2>1. rank \in [E -> 0..n-1]
    BY <1>1, <1>6
  <2>2. ASSUME NEW x \in E, NEW y \in E, rank[x] = rank[y]  PROVE x = y
    <3>1. Cardinality(B(x)) = Cardinality(B(y))
      BY <2>2
    <3>2. QED  BY <1>1, <1>3, <1>5, <3>1
  <2>3. QED  BY <2>1, <2>2 DEF Injection, IsInjective
<1>8. IsFiniteSet(0..n-1) /\ Cardinality(0..n-1) = n
  <2>1. 0 \in Int /\ n - 1 \in Int
    BY <1>1
  <2> HIDE DEF n
  <2>2. IsFiniteSet(0..n-1) /\ Cardinality(0..n-1) = IF 0 > n - 1 THEN 0 ELSE (n - 1) - 0 + 1
    BY <2>1, FS_Interval
  <2>3. QED  BY <1>1, <2>2
<1>9. rank \in Surjection(E, 0..n-1)
  <2> HIDE DEF rank
  <2>1. Cardinality(E) = Cardinality(0..n-1)
    BY <1>8
  <2>2. QED  BY <1>7, <1>8, <2>1, FS_Injection
<1> DEFINE At(i) == CHOOSE x \in E : Cardinality({y \in E : Precedes(y, x)}) = i - 1
<1>10. ASSUME NEW i \in 1..n  PROVE At(i) \in E
  <2>1. i - 1 \in 0..n-1
    BY <1>1
  <2>2. \E x \in E : rank[x] = i - 1
    BY <1>9, <2>1 DEF Surjection
  <2>3. QED  BY <2>2
<1>11. Sorted(E) = [i \in 1..n |-> [name |-> At(i).name, object |-> At(i).object]]
  BY DEF Sorted
<1>12. \A i \in 1..n : [name |-> At(i).name, object |-> At(i).object] \in Entry
  <2> HIDE DEF At
  <2>1. QED  BY <1>10 DEF Scoped, Entry
<1> HIDE DEF At
<1>13. Sorted(E) \in [1..n -> Entry]
  BY <1>11, <1>12
<1>14. QED  BY <1>1, <1>13, SeqDef

LEMMA BucketFinite ==
  ASSUME NEW f \in [Names -> 0..MaxObjects], NEW s \in {0, 1}
  PROVE  /\ IsFiniteSet(Bucket(f, s)) /\ Bucket(f, s) \subseteq Scoped
         /\ \A x \in Bucket(f, s) : x.scope = s /\ x.object = f[x.name]
<1> DEFINE D == {m \in Names : f[m] # 0}
           g == [n \in D |-> [name |-> n, object |-> f[n], scope |-> s]]
<1>1. IsFiniteSet(D)
  BY MiddlewareConstants, FS_Subset
<1>2. Bucket(f, s) = {g[n] : n \in D}
  BY DEF Bucket
<1>3. g \in Surjection(D, Bucket(f, s))
  <2> HIDE DEF D
  <2>1. QED  BY <1>2 DEF Surjection
<1>4. IsFiniteSet(Bucket(f, s))
  <2> HIDE DEF g, D
  <2>1. QED  BY <1>1, <1>3, FS_Surjection
<1>5. \A n \in D : f[n] \in 1..MaxObjects
  BY MiddlewareConstants
<1>6. Bucket(f, s) \subseteq Scoped /\ \A x \in Bucket(f, s) : x.scope = s /\ x.object = f[x.name]
  BY <1>5 DEF Bucket, Scoped
<1>7. QED  BY <1>4, <1>6

LEMMA ListedType == TypeOK => Listed \in Seq(Entry)
<1> SUFFICES ASSUME TypeOK  PROVE Listed \in Seq(Entry)
  OBVIOUS
<1> DEFINE E == Bucket(globals, 0) \cup Bucket(scoped, 1)
<1>1. /\ IsFiniteSet(Bucket(globals, 0)) /\ Bucket(globals, 0) \subseteq Scoped
      /\ \A x \in Bucket(globals, 0) : x.scope = 0 /\ x.object = globals[x.name]
  BY BucketFinite DEF TypeOK
<1>2. /\ IsFiniteSet(Bucket(scoped, 1)) /\ Bucket(scoped, 1) \subseteq Scoped
      /\ \A x \in Bucket(scoped, 1) : x.scope = 1 /\ x.object = scoped[x.name]
  BY BucketFinite DEF TypeOK
<1>3. IsFiniteSet(E) /\ E \subseteq Scoped
  BY <1>1, <1>2, FS_Union
<1>4. ASSUME NEW x \in E, NEW y \in E, x.name = y.name, x.scope = y.scope  PROVE x = y
  <2>1. x \in Scoped /\ y \in Scoped /\ x.object = y.object
    BY <1>1, <1>2, <1>4
  <2>2. QED  BY <1>4, <2>1 DEF Scoped
<1> HIDE DEF E
<1>5. Sorted(E) \in Seq(Entry)
  BY <1>3, <1>4, SortedType
<1>6. QED  BY <1>5 DEF Listed, E

-----------------------------------------------------------------------------
(* One run: what it has been told (s), the length of its chain (n), and      *)
(* where it is (phase p and place i)                                         *)

\* What a run has been told before its pipeline is called.
Passed(i) == [hook |-> "before", at |-> i, end |-> "none"]
AllPassed(s, n) == Len(s) = n /\ \A i \in 1..n : s[i] = Passed(i)
Gated(s, n) == \A k \in 1..Len(s) : s[k].hook = "pipeline" =>
                 k = n + 1 /\ \A i \in 1..k-1 : s[i] = Passed(i)

\* The last calls were those of the entries n, n - 1, ..., i + 1.
Ended(s, n, i, hook, ends) ==
  LET m == Len(s)
  IN  /\ m >= n - i
      /\ \A j \in 1..n-i : /\ s[m - (n - i) + j].hook = hook /\ s[m - (n - i) + j].at = n + 1 - j
                           /\ s[m - (n - i) + j].end \in ends

NoneHandled(s, m) == \A k \in 1..m : s[k].hook = "error" => s[k].end # "result"
Handled(s) == LET m == Len(s)
              IN  m > 0 /\ s[m].hook = "error" /\ s[m].end = "result" /\ NoneHandled(s, m - 1)

RunFits(s, n, p, i) ==
  /\ p \in {"new", "cached", "uncached", "listed"} => s = <<>>
  /\ p \in {"before", "after", "error"} => i \in 1..n
  /\ p = "before" => AllPassed(s, i - 1)
  /\ p = "pipeline" => AllPassed(s, n)
  /\ Gated(s, n)
  /\ p = "after" => Ended(s, n, i, "after", {"none"})
  /\ p = "error" => Ended(s, n, i, "error", {"none", "raise"})
  /\ p = "raised" => Ended(s, n, 0, "error", {"none", "raise"})
  /\ p = "returned" => Ended(s, n, 0, "after", {"none"}) \/ Handled(s)
  /\ p # "returned" => NoneHandled(s, Len(s))

\* How the call e moves a run from (p, i) to (q, j)
Moves(n, p, i, e, q, j) ==
  \/ /\ p = "before" /\ e = Passed(i)
     /\ (i = n /\ q = "pipeline") \/ (i # n /\ q = "before" /\ j = i + 1)
  \/ /\ p \in {"before", "pipeline"} /\ e.end = "result"
     /\ (n = 0 /\ q = "returned") \/ (n # 0 /\ q = "after" /\ j = n)
  \/ /\ p = "after" /\ e = [hook |-> "after", at |-> i, end |-> "none"]
     /\ (i = 1 /\ q = "returned") \/ (i # 1 /\ q = "after" /\ j = i - 1)
  \/ /\ p \in {"before", "pipeline", "after"} /\ e.end = "raise"
     /\ (n = 0 /\ q = "raised") \/ (n # 0 /\ q = "error" /\ j = n)
  \/ p = "error" /\ e = [hook |-> "error", at |-> i, end |-> "result"] /\ q = "returned"
  \/ /\ p = "error" /\ e.hook = "error" /\ e.at = i /\ e.end \in {"none", "raise"}
     /\ (i = 1 /\ q = "raised") \/ (i # 1 /\ q = "error" /\ j = i - 1)

LEMMA CallAdded ==
  ASSUME NEW s \in Seq(Call), NEW e \in Call
  PROVE  /\ Append(s, e) \in Seq(Call) /\ Len(s) \in Nat /\ Len(Append(s, e)) = Len(s) + 1
         /\ \A i \in 1..Len(s) : Append(s, e)[i] = s[i]
         /\ Append(s, e)[Len(s) + 1] = e
BY AppendProperties, LenProperties

LEMMA EndedGrows ==
  ASSUME NEW s \in Seq(Call), NEW e \in Call, NEW n \in Nat, NEW i \in 1..n, NEW ends,
         Ended(s, n, i, e.hook, ends), e.at = i, e.end \in ends
  PROVE  Ended(Append(s, e), n, i - 1, e.hook, ends)
<1> DEFINE t == Append(s, e)  m == Len(s)  l == n - i
<1>1. /\ m \in Nat /\ Len(t) = m + 1 /\ t[m + 1] = e /\ \A k \in 1..m : t[k] = s[k]
      /\ l \in Nat /\ n - (i - 1) = l + 1 /\ m >= l
      /\ \A j \in 1..l : /\ s[m - l + j].hook = e.hook /\ s[m - l + j].at = n + 1 - j
                         /\ s[m - l + j].end \in ends
  BY CallAdded DEF Ended
<1> HIDE DEF t, m, l
<1>2. ASSUME NEW j \in 1..l+1
      PROVE  /\ t[(m + 1) - (l + 1) + j].hook = e.hook /\ t[(m + 1) - (l + 1) + j].at = n + 1 - j
             /\ t[(m + 1) - (l + 1) + j].end \in ends
  <2>1. CASE j = l + 1
    <3>1. (m + 1) - (l + 1) + j = m + 1 /\ n + 1 - j = i
      BY <1>1, <2>1 DEF l
    <3>2. QED  BY <1>1, <3>1
  <2>2. CASE j # l + 1
    <3>1. (m + 1) - (l + 1) + j = m - l + j /\ m - l + j \in 1..m /\ j \in 1..l
      BY <1>1, <2>2
    <3>2. QED  BY <1>1, <3>1
  <2>3. QED  BY <2>1, <2>2
<1>3. Len(t) = m + 1 /\ n - (i - 1) = l + 1 /\ m + 1 >= l + 1
  BY <1>1
<1> DEFINE u == m + 1  v == l + 1
<1>4. /\ Len(t) = u /\ n - (i - 1) = v /\ u >= v
      /\ \A j \in 1..v : /\ t[u - v + j].hook = e.hook /\ t[u - v + j].at = n + 1 - j
                         /\ t[u - v + j].end \in ends
  BY <1>2, <1>3
<1> HIDE DEF u, v
<1>5. Ended(t, n, i - 1, e.hook, ends)
  BY <1>4 DEF Ended
<1>6. QED  BY <1>5 DEF t

LEMMA NoneToEnd ==
  ASSUME NEW s \in Seq(Call), NEW n \in Nat, NEW hook, NEW ends
  PROVE  Ended(s, n, n, hook, ends)
<1>1. n - n = 0 /\ Len(s) \in Nat /\ 1..0 = {}
  BY LenProperties
<1>2. QED  BY <1>1 DEF Ended

\* Every hook leaves the run where it should be.
LEMMA MovesKeepFit ==
  ASSUME NEW s \in Seq(Call), NEW n \in Nat, NEW p \in Phases, NEW i \in Nat, RunFits(s, n, p, i),
         NEW e \in Call, e.hook = p, NEW q, NEW j \in Nat, Moves(n, p, i, e, q, j)
  PROVE  RunFits(Append(s, e), n, q, j)
<1> DEFINE t == Append(s, e)  m == Len(s)
<1>1. /\ t \in Seq(Call) /\ m \in Nat /\ Len(t) = m + 1 /\ t[m + 1] = e
      /\ \A k \in 1..m : t[k] = s[k]
  BY CallAdded
<1> HIDE DEF t, m
<1>2. Gated(t, n)
  <2> SUFFICES ASSUME NEW k \in 1..m+1, t[k].hook = "pipeline"
               PROVE  k = n + 1 /\ \A l \in 1..k-1 : t[l] = Passed(l)
    BY <1>1 DEF Gated
  <2>1. CASE k = m + 1
    <3>1. AllPassed(s, n)
      BY <1>1, <2>1 DEF RunFits
    <3>2. QED  BY <1>1, <2>1, <3>1 DEF AllPassed, m
  <2>2. CASE k \in 1..m
    <3>1. k = n + 1 /\ \A l \in 1..k-1 : s[l] = Passed(l)
      BY <1>1, <2>2 DEF RunFits, Gated, m
    <3>2. QED  BY <1>1, <2>2, <3>1
  <2>3. QED  BY <1>1, <2>1, <2>2
<1>3. NoneHandled(s, m) /\ (e.hook # "error" \/ e.end # "result" => NoneHandled(t, m + 1))
  <2>1. NoneHandled(s, m)
    BY DEF RunFits, Moves, m
  <2>2. \A k \in 1..m+1 : k \in 1..m \/ k = m + 1
    BY <1>1
  <2>3. QED  BY <1>1, <2>1, <2>2 DEF NoneHandled
<1>4. q \notin {"new", "cached", "uncached", "listed"}
  BY DEF Moves
<1>5. CASE p = "before" /\ e = Passed(i)
  <2>1. AllPassed(t, i)
    <3>1. i \in 1..n /\ m = i - 1 /\ \A k \in 1..i-1 : s[k] = Passed(k)
      BY <1>5 DEF RunFits, AllPassed, m
    <3>2. \A k \in 1..i : k = i \/ k \in 1..i-1
      BY <3>1
    <3>3. QED  BY <1>1, <1>5, <3>1, <3>2 DEF AllPassed
  <2>2. (i = n /\ q = "pipeline") \/ (i # n /\ q = "before" /\ j = i + 1)
    BY <1>5 DEF Moves, Passed
  <2>3. i \in 1..n /\ (i + 1) - 1 = i
    BY <1>5 DEF RunFits
  <2>4. NoneHandled(t, Len(t))
    BY <1>1, <1>3, <1>5
  <2>5. QED  BY <1>2, <2>1, <2>2, <2>3, <2>4 DEF RunFits, t
<1>6. CASE p \in {"before", "pipeline"} /\ e.end = "result"
  <2>1. (n = 0 /\ q = "returned") \/ (n # 0 /\ q = "after" /\ j = n)
    BY <1>6 DEF Moves, Passed
  <2>2. Ended(t, n, n, "after", {"none"}) /\ NoneHandled(t, Len(t))
    BY <1>1, <1>3, <1>6, NoneToEnd
  <2>3. QED  BY <1>2, <2>1, <2>2 DEF RunFits, t
<1>7. CASE p = "after" /\ e = [hook |-> "after", at |-> i, end |-> "none"]
  <2>1. (i = 1 /\ q = "returned") \/ (i # 1 /\ q = "after" /\ j = i - 1)
    BY <1>7 DEF Moves
  <2>2. i \in 1..n /\ Ended(s, n, i, "after", {"none"})
    BY <1>7 DEF RunFits
  <2>3. Ended(t, n, i - 1, "after", {"none"})
    BY <1>7, <2>2, EndedGrows DEF t
  <2>4. NoneHandled(t, Len(t)) /\ (i # 1 => i - 1 \in 1..n) /\ 1 - 1 = 0
    BY <1>1, <1>3, <1>7, <2>2
  <2>5. QED  BY <1>2, <2>1, <2>3, <2>4 DEF RunFits, t
<1>8. CASE p \in {"before", "pipeline", "after"} /\ e.end = "raise"
  <2>1. (n = 0 /\ q = "raised") \/ (n # 0 /\ q = "error" /\ j = n)
    BY <1>8 DEF Moves, Passed
  <2>2. Ended(t, n, n, "error", {"none", "raise"}) /\ NoneHandled(t, Len(t))
    BY <1>1, <1>3, <1>8, NoneToEnd
  <2>3. QED  BY <1>2, <2>1, <2>2 DEF RunFits, t
<1>9. CASE p = "error" /\ e.end = "result"
  <2>1. q = "returned"
    BY <1>9 DEF Moves
  <2>2. NoneHandled(t, m)
    BY <1>1, <1>3 DEF NoneHandled
  <2>3. Handled(t)
    <3>1. (m + 1) - 1 = m /\ m + 1 > 0
      BY <1>1
    <3>2. QED  BY <1>1, <1>9, <2>2, <3>1 DEF Handled
  <2>4. QED  BY <1>2, <2>1, <2>3 DEF RunFits, t
<1>10. CASE p = "error" /\ e.end \in {"none", "raise"}
  <2>1. (i = 1 /\ q = "raised") \/ (i # 1 /\ q = "error" /\ j = i - 1)
    BY <1>10 DEF Moves
  <2>2. i \in 1..n /\ Ended(s, n, i, "error", {"none", "raise"}) /\ e.at = i
    BY <1>10 DEF RunFits, Moves
  <2>3. Ended(t, n, i - 1, "error", {"none", "raise"})
    BY <1>10, <2>2, EndedGrows DEF t
  <2>4. NoneHandled(t, Len(t)) /\ (i # 1 => i - 1 \in 1..n) /\ 1 - 1 = 0
    BY <1>1, <1>3, <1>10, <2>2
  <2>5. QED  BY <1>2, <2>1, <2>3, <2>4 DEF RunFits, t
<1>11. QED
  BY <1>5, <1>6, <1>7, <1>8, <1>9, <1>10 DEF Moves, Passed

-----------------------------------------------------------------------------
(* All runs                                                                  *)

RunsInv ==
  /\ TypeOK
  /\ \A r \in Runs : RunFits(told[r], Len(chain[r]), phase[r], at[r])

\* What Before, Pipeline, After and OnError have in common
HookCalled(r) ==
  \E e \in Call, q \in Phases, j \in Nat :
    /\ e.hook = phase[r] /\ e.at = at[r]
    /\ Moves(Len(chain[r]), phase[r], at[r], e, q, j)
    /\ told' = [told EXCEPT ![r] = Append(told[r], e)]
    /\ phase' = [phase EXCEPT ![r] = q] /\ at' = [at EXCEPT ![r] = j]
    /\ chain' = chain /\ UNCHANGED <<registryVars, buildVars>>

LEMMA HooksMove ==
  ASSUME RunsInv, NEW r \in Runs, Before(r) \/ Pipeline(r) \/ After(r) \/ OnError(r)
  PROVE  HookCalled(r)
<1> DEFINE n == Len(chain[r])  i == at[r]
           C(hook, end) == [hook |-> hook, at |-> at[r], end |-> end]
<1>1. /\ n \in Nat /\ i \in Nat /\ (chain[r] = <<>> <=> n = 0)
      /\ phase[r] \in {"before", "after", "error"} => i \in 1..n
      /\ chain[r] \in Seq(Entry)
  BY EmptySeq, LenProperties DEF RunsInv, RunFits, TypeOK
<1>2. \A hook \in {"before", "pipeline", "after", "error"}, end \in {"none", "result", "raise"} :
        C(hook, end) \in Call
  BY <1>1 DEF Call
<1>3. \A e, q, j : Moves(n, phase[r], i, e, q, j) <=> Moves(Len(chain[r]), phase[r], at[r], e, q, j)
  OBVIOUS
<1> HIDE DEF n
<1>4. CASE Before(r)
  <2>1. phase[r] = "before" /\ chain' = chain /\ (UNCHANGED <<registryVars, buildVars>>)
    BY <1>4 DEF Before
  <2>2. CASE Tell(r, "before", "none") /\ Inwards(r)
    <3> DEFINE q == IF i = n THEN "pipeline" ELSE "before"
               j == IF i = n THEN 0 ELSE i + 1
    <3>1. Moves(n, "before", i, C("before", "none"), q, j) /\ q \in Phases /\ j \in Nat
      BY <1>1 DEF Moves, Passed, Phases
    <3>2. phase' = [phase EXCEPT ![r] = q] /\ at' = [at EXCEPT ![r] = j]
          /\ told' = [told EXCEPT ![r] = Append(told[r], C("before", "none"))]
      BY <2>2 DEF Tell, Inwards, Goto, n
    <3>3. QED  BY <1>2, <1>3, <2>1, <3>1, <3>2 DEF HookCalled
  <2>3. CASE Tell(r, "before", "result") /\ IntoAfter(r, Len(chain[r]))
    <3>1. Moves(n, "before", i, C("before", "result"), "after", n)
      BY <1>1, <2>1 DEF Moves
    <3>2. phase' = [phase EXCEPT ![r] = "after"] /\ at' = [at EXCEPT ![r] = n]
          /\ told' = [told EXCEPT ![r] = Append(told[r], C("before", "result"))]
      BY <1>1, <2>1, <2>3 DEF Tell, IntoAfter, Goto, n
    <3>3. QED  BY <1>1, <1>2, <1>3, <2>1, <3>1, <3>2 DEF HookCalled, Phases
  <2>4. CASE Tell(r, "before", "raise") /\ BeforeRaised(r)
    <3>1. Moves(n, "before", i, C("before", "raise"), "error", n)
      BY <1>1, <2>1 DEF Moves
    <3>2. phase' = [phase EXCEPT ![r] = "error"] /\ at' = [at EXCEPT ![r] = n]
          /\ told' = [told EXCEPT ![r] = Append(told[r], C("before", "raise"))]
      BY <1>1, <2>1, <2>4 DEF Tell, BeforeRaised, IntoError, Goto, n
    <3>3. QED  BY <1>1, <1>2, <1>3, <2>1, <3>1, <3>2 DEF HookCalled, Phases
  <2>5. QED  BY <1>4, <2>2, <2>3, <2>4 DEF Before
<1>5. CASE Pipeline(r)
  <2>1. phase[r] = "pipeline" /\ chain' = chain /\ (UNCHANGED <<registryVars, buildVars>>)
    BY <1>5 DEF Pipeline
  <2>2. CASE Tell(r, "pipeline", "result") /\ IntoAfter(r, Len(chain[r]))
    <3> DEFINE q == IF n = 0 THEN "returned" ELSE "after"
    <3>1. Moves(n, "pipeline", i, C("pipeline", "result"), q, n) /\ q \in Phases
      BY <1>1 DEF Moves, Phases
    <3>2. phase' = [phase EXCEPT ![r] = q] /\ at' = [at EXCEPT ![r] = n]
          /\ told' = [told EXCEPT ![r] = Append(told[r], C("pipeline", "result"))]
      BY <2>2 DEF Tell, IntoAfter, Goto, n
    <3>3. QED  BY <1>1, <1>2, <1>3, <2>1, <3>1, <3>2 DEF HookCalled
  <2>3. CASE Tell(r, "pipeline", "raise") /\ IntoError(r)
    <3> DEFINE q == IF n = 0 THEN "raised" ELSE "error"
    <3>1. Moves(n, "pipeline", i, C("pipeline", "raise"), q, n) /\ q \in Phases
      BY <1>1 DEF Moves, Phases
    <3>2. phase' = [phase EXCEPT ![r] = q] /\ at' = [at EXCEPT ![r] = n]
          /\ told' = [told EXCEPT ![r] = Append(told[r], C("pipeline", "raise"))]
      BY <1>1, <2>3 DEF Tell, IntoError, Goto, n
    <3>3. QED  BY <1>1, <1>2, <1>3, <2>1, <3>1, <3>2 DEF HookCalled
  <2>4. QED  BY <1>5, <2>2, <2>3 DEF Pipeline
<1>6. CASE After(r)
  <2>1. phase[r] = "after" /\ chain' = chain /\ (UNCHANGED <<registryVars, buildVars>>)
    BY <1>6 DEF After
  <2>2. CASE Tell(r, "after", "none") /\ IntoAfter(r, at[r] - 1)
    <3> DEFINE q == IF i = 1 THEN "returned" ELSE "after"
    <3>1. Moves(n, "after", i, C("after", "none"), q, i - 1) /\ q \in Phases /\ i - 1 \in Nat
      BY <1>1, <2>1 DEF Moves, Phases
    <3>2. phase' = [phase EXCEPT ![r] = q] /\ at' = [at EXCEPT ![r] = i - 1]
          /\ told' = [told EXCEPT ![r] = Append(told[r], C("after", "none"))]
      BY <1>1, <2>1, <2>2 DEF Tell, IntoAfter, Goto
    <3>3. QED  BY <1>1, <1>2, <1>3, <2>1, <3>1, <3>2 DEF HookCalled
  <2>3. CASE Tell(r, "after", "raise") /\ IntoError(r)
    <3>1. Moves(n, "after", i, C("after", "raise"), "error", n)
      BY <1>1, <2>1 DEF Moves
    <3>2. phase' = [phase EXCEPT ![r] = "error"] /\ at' = [at EXCEPT ![r] = n]
          /\ told' = [told EXCEPT ![r] = Append(told[r], C("after", "raise"))]
      BY <1>1, <2>1, <2>3 DEF Tell, IntoError, Goto, n
    <3>3. QED  BY <1>1, <1>2, <1>3, <2>1, <3>1, <3>2 DEF HookCalled, Phases
  <2>4. QED  BY <1>6, <2>2, <2>3 DEF After
<1>7. CASE OnError(r)
  <2>1. phase[r] = "error" /\ chain' = chain /\ (UNCHANGED <<registryVars, buildVars>>)
    BY <1>7 DEF OnError
  <2>2. CASE Tell(r, "error", "result") /\ Goto(r, "returned", 0)
    <3>1. Moves(n, "error", i, C("error", "result"), "returned", 0)
      BY DEF Moves
    <3>2. phase' = [phase EXCEPT ![r] = "returned"] /\ at' = [at EXCEPT ![r] = 0]
          /\ told' = [told EXCEPT ![r] = Append(told[r], C("error", "result"))]
      BY <2>2 DEF Tell, Goto
    <3>3. QED  BY <1>2, <1>3, <2>1, <3>1, <3>2 DEF HookCalled, Phases
  <2>3. ASSUME NEW end \in {"none", "raise"}, Tell(r, "error", end), Unhandled(r, end)
        PROVE  HookCalled(r)
    <3> DEFINE q == IF i = 1 THEN "raised" ELSE "error"
    <3>1. Moves(n, "error", i, C("error", end), q, i - 1) /\ q \in Phases /\ i - 1 \in Nat
      BY <1>1, <2>1 DEF Moves, Phases
    <3>2. phase' = [phase EXCEPT ![r] = q] /\ at' = [at EXCEPT ![r] = i - 1]
          /\ told' = [told EXCEPT ![r] = Append(told[r], C("error", end))]
      BY <1>1, <2>1, <2>3 DEF Tell, Unhandled, Goto
    <3>3. QED  BY <1>1, <1>2, <1>3, <2>1, <3>1, <3>2 DEF HookCalled
  <2>4. QED  BY <1>7, <2>2, <2>3 DEF OnError
<1>8. QED  BY <1>4, <1>5, <1>6, <1>7

LEMMA RunsInit == Init => RunsInv
<1> SUFFICES ASSUME Init  PROVE RunsInv
  OBVIOUS
<1>1. <<>> \in Seq(Entry) /\ <<>> \in Seq(Call) /\ Len(<<>>) = 0
  OBVIOUS
<1>2. 0 \in 0..MaxObjects /\ 0 \in Nat
  BY MiddlewareConstants
<1>3. TypeOK
  BY <1>1, <1>2 DEF Init, TypeOK, Phases, Building
<1>4. RunFits(<<>>, 0, "new", 0)
  BY <1>1 DEF RunFits, Gated, NoneHandled
<1>5. QED  BY <1>1, <1>3, <1>4 DEF Init, RunsInv

LEMMA CallsKeepRuns ==
  ASSUME RunsInv, NEW r \in Runs, HookCalled(r),
         start' \in [1..MaxObjects -> Runs \cup {Nobody}], timed' \in [Runs -> Runs \cup {Nobody}]
  PROVE  RunsInv'
<1>1. PICK e \in Call, q \in Phases, j \in Nat :
        /\ e.hook = phase[r] /\ e.at = at[r]
        /\ Moves(Len(chain[r]), phase[r], at[r], e, q, j)
        /\ told' = [told EXCEPT ![r] = Append(told[r], e)]
        /\ phase' = [phase EXCEPT ![r] = q] /\ at' = [at EXCEPT ![r] = j]
        /\ chain' = chain /\ UNCHANGED <<registryVars, buildVars>>
  BY DEF HookCalled
<1>2. /\ told[r] \in Seq(Call) /\ Len(chain[r]) \in Nat /\ phase[r] \in Phases /\ at[r] \in Nat
      /\ RunFits(told[r], Len(chain[r]), phase[r], at[r])
  BY LenProperties DEF RunsInv, TypeOK
<1>3. RunFits(Append(told[r], e), Len(chain[r]), q, j) /\ Append(told[r], e) \in Seq(Call)
  BY <1>1, <1>2, MovesKeepFit, CallAdded
<1>4. TypeOK'
  BY <1>1, <1>3 DEF RunsInv, TypeOK, registryVars, buildVars
<1>5. ASSUME NEW s \in Runs  PROVE RunFits(told'[s], Len(chain'[s]), phase'[s], at'[s])
  <2>1. CASE s = r
    BY <1>1, <1>3, <2>1 DEF RunsInv, TypeOK
  <2>2. CASE s # r
    BY <1>1, <2>2 DEF RunsInv, TypeOK
  <2>3. QED  BY <2>1, <2>2
<1>6. QED  BY <1>4, <1>5 DEF RunsInv

\* Who uses an object's clock is at an object that was registered.
LEMMA ClocksType ==
  ASSUME RunsInv, NEW r \in Runs, Before(r) \/ Pipeline(r) \/ After(r) \/ OnError(r)
  PROVE  /\ start' \in [1..MaxObjects -> Runs \cup {Nobody}] /\ timed' \in [Runs -> Runs \cup {Nobody}]
         /\ phase[r] \in {"before", "after", "error"} =>
              at[r] \in 1..Len(chain[r]) /\ Hook(r) \in Entry /\ Clock(r) \in 1..MaxObjects
<1>1. phase[r] \in {"before", "after", "error"} =>
        at[r] \in 1..Len(chain[r]) /\ Hook(r) \in Entry /\ Clock(r) \in 1..MaxObjects
  <2> SUFFICES ASSUME phase[r] \in {"before", "after", "error"}
               PROVE  at[r] \in 1..Len(chain[r]) /\ Hook(r) \in Entry /\ Clock(r) \in 1..MaxObjects
    OBVIOUS
  <2>1. chain[r] \in Seq(Entry) /\ at[r] \in 1..Len(chain[r])
    BY DEF RunsInv, RunFits, TypeOK
  <2>2. Hook(r) \in Entry
    BY <2>1, ElementOfSeq DEF Hook
  <2>3. QED  BY <2>1, <2>2 DEF Clock, Entry
<1>2. start \in [1..MaxObjects -> Runs \cup {Nobody}] /\ timed \in [Runs -> Runs \cup {Nobody}]
  BY DEF RunsInv, TypeOK
<1>3. CASE Before(r) \/ OnError(r)
  BY <1>1, <1>2, <1>3 DEF Before, OnError
<1>4. CASE Pipeline(r)
  BY <1>1, <1>2, <1>4 DEF Pipeline, timingVars
<1>5. CASE After(r)
  <2>1. start[Clock(r)] \in Runs \cup {Nobody}
    BY <1>1, <1>2, <1>5 DEF After
  <2>2. QED  BY <1>1, <1>2, <1>5, <2>1 DEF After
<1>6. QED  BY <1>3, <1>4, <1>5

\* An executor that has its chain has not been told anything.
LEMMA ReadyFits ==
  ASSUME RunsInv, NEW r \in Runs, phase[r] \in {"cached", "listed"},
         NEW built \in Seq(Entry), Ready(r, built),
         UNCHANGED <<globals, scoped, cacheOn, objects, timingVars>>,
         buildCache' = NotBuilt \/ buildCache' \in Seq(Entry),
         outdated' \in BOOLEAN, overtaken' \in SUBSET Runs
  PROVE  RunsInv'
<1>1. /\ chain' = [chain EXCEPT ![r] = built]
      /\ phase' = [phase EXCEPT ![r] = IF built = <<>> THEN "pipeline" ELSE "before"]
      /\ at' = [at EXCEPT ![r] = IF built = <<>> THEN 0 ELSE 1]
      /\ standing' = [standing EXCEPT ![r] = {}]
      /\ told' = told
  BY DEF Ready
<1>3. Len(built) \in Nat /\ (built # <<>> => Len(built) # 0) /\ Len(<<>>) = 0
  BY EmptySeq, LenProperties
<1>4. told[r] = <<>>
  BY <1>1 DEF RunsInv, RunFits
<1>5. RunFits(<<>>, Len(built), IF built = <<>> THEN "pipeline" ELSE "before", IF built = <<>> THEN 0 ELSE 1)
  <2>1. 1 - 1 = 0 /\ 1..0 = {} /\ AllPassed(<<>>, 0)
    BY <1>3 DEF AllPassed
  <2>2. CASE built = <<>>
    BY <1>3, <2>1, <2>2 DEF RunFits, Gated, NoneHandled
  <2>3. CASE built # <<>>
    <3>1. 1 \in 1..Len(built)
      BY <1>3, <2>3
    <3>2. QED  BY <1>3, <2>1, <2>3, <3>1 DEF RunFits, Gated, NoneHandled
  <2>4. QED  BY <2>2, <2>3
<1>6. TypeOK'
  <2>1. standing' \in [Runs -> SUBSET Names]
    BY <1>1 DEF RunsInv, TypeOK
  <2>2. QED  BY <1>1, <2>1 DEF RunsInv, TypeOK, Phases, timingVars
<1>7. ASSUME NEW s \in Runs  PROVE RunFits(told'[s], Len(chain'[s]), phase'[s], at'[s])
  <2>1. CASE s = r
    BY <1>1, <1>4, <1>5, <2>1 DEF RunsInv, TypeOK
  <2>2. CASE s # r
    BY <1>1, <2>2 DEF RunsInv, TypeOK
  <2>3. QED  BY <2>1, <2>2
<1>8. QED  BY <1>6, <1>7 DEF RunsInv

\* Before that it is told nothing either, whatever it has listed.
LEMMA BuildingFits ==
  ASSUME RunsInv, NEW r \in Runs, phase[r] \in {"new", "uncached"},
         NEW p \in Building, phase' = [phase EXCEPT ![r] = p],
         NEW listed \in Seq(Entry), chain' = [chain EXCEPT ![r] = listed],
         UNCHANGED <<at, told>>, TypeOK'
  PROVE  RunsInv'
<1>1. told[r] = <<>>
  BY DEF RunsInv, RunFits
<1>2. RunFits(<<>>, Len(listed), p, at[r])
  <2>1. p \notin {"before", "pipeline", "after", "error", "raised", "returned"} /\ Len(<<>>) = 0
    BY DEF Building
  <2>2. QED  BY <2>1 DEF RunFits, Gated, NoneHandled
<1>3. ASSUME NEW s \in Runs  PROVE RunFits(told'[s], Len(chain'[s]), phase'[s], at'[s])
  <2>1. CASE s = r
    BY <1>1, <1>2, <2>1 DEF RunsInv, TypeOK
  <2>2. CASE s # r
    BY <2>2 DEF RunsInv, TypeOK
  <2>3. QED  BY <2>1, <2>2
<1>4. QED  BY <1>3 DEF RunsInv

LEMMA ChainBuilt == ASSUME RunsInv, NEW r \in Runs, BuildChain(r)  PROVE RunsInv'
<1>0. TypeOK
  BY DEF RunsInv
<1>1. CASE LookForChain(r)
  <2> DEFINE p == IF cacheOn /\ buildCache # NotBuilt THEN "cached" ELSE "uncached"
  <2>1. /\ phase[r] = "new" /\ phase' = [phase EXCEPT ![r] = p] /\ p \in Building /\ p \in Phases
        /\ standing' = [standing EXCEPT ![r] = Registered]
        /\ UNCHANGED <<registryVars, overtaken, outdated, chain, at, told, timingVars>>
    BY <1>1 DEF LookForChain, Building, Phases
  <2> HIDE DEF p
  <2>2. chain' = [chain EXCEPT ![r] = chain[r]] /\ chain[r] \in Seq(Entry)
    BY <1>0, <2>1 DEF TypeOK
  <2>3. Registered \subseteq Names
    BY DEF Registered
  <2>4. phase' \in [Runs -> Phases] /\ standing' \in [Runs -> SUBSET Names]
    BY <1>0, <2>1, <2>3 DEF TypeOK
  <2>5. TypeOK'
    BY <1>0, <2>1, <2>4 DEF TypeOK, registryVars, timingVars
  <2>6. QED  BY <2>1, <2>2, <2>5, BuildingFits
<1>2. CASE TakeChain(r)
  <2> DEFINE built == IF buildCache = NotBuilt THEN <<>> ELSE buildCache
  <2>1. /\ phase[r] \in {"cached", "listed"} /\ Ready(r, built)
        /\ UNCHANGED <<registryVars, overtaken, outdated, timingVars>>
    BY <1>2 DEF TakeChain
  <2>2. built \in Seq(Entry)
    BY <1>0 DEF TypeOK
  <2> HIDE DEF built
  <2>3. /\ UNCHANGED <<globals, scoped, cacheOn, objects, timingVars>>
        /\ buildCache' = NotBuilt \/ buildCache' \in Seq(Entry)
        /\ outdated' \in BOOLEAN /\ overtaken' \in SUBSET Runs
    BY <1>0, <2>1 DEF TypeOK, registryVars
  <2>4. QED  BY <2>1, <2>2, <2>3, ReadyFits
<1>3. CASE ListEntries(r)
  <2>1. /\ phase[r] = "uncached" /\ phase' = [phase EXCEPT ![r] = "listed"]
        /\ chain' = [chain EXCEPT ![r] = Listed] /\ overtaken' = overtaken \ {r}
        /\ UNCHANGED <<registryVars, outdated, standing, at, told, timingVars>>
    BY <1>3 DEF ListEntries
  <2>2. Listed \in Seq(Entry) /\ "listed" \in Building /\ "listed" \in Phases
    BY <1>0, ListedType DEF Building, Phases
  <2>3. /\ phase' \in [Runs -> Phases] /\ chain' \in [Runs -> Seq(Entry)]
        /\ overtaken' \in SUBSET Runs
    BY <1>0, <2>1, <2>2 DEF TypeOK
  <2>4. TypeOK'
    BY <1>0, <2>1, <2>3 DEF TypeOK, registryVars, timingVars
  <2>5. QED  BY <2>1, <2>2, <2>4, BuildingFits
<1>4. CASE StoreChain(r)
  <2>1. /\ phase[r] \in {"cached", "listed"} /\ Ready(r, chain[r])
        /\ buildCache' = (IF cacheOn THEN chain[r] ELSE buildCache)
        /\ outdated' = (IF cacheOn THEN r \in overtaken ELSE outdated)
        /\ overtaken' = overtaken \ {r}
        /\ UNCHANGED <<globals, scoped, cacheOn, objects, timingVars>>
    BY <1>4 DEF StoreChain
  <2>2. chain[r] \in Seq(Entry)
    BY <1>0 DEF TypeOK
  <2>3. /\ buildCache' = NotBuilt \/ buildCache' \in Seq(Entry)
        /\ outdated' \in BOOLEAN /\ overtaken' \in SUBSET Runs
    <3>1. outdated' \in BOOLEAN
      <4>1. (r \in overtaken) \in BOOLEAN /\ outdated \in BOOLEAN
        BY <1>0 DEF TypeOK
      <4>2. QED  BY <2>1, <4>1
    <3>2. buildCache' = NotBuilt \/ buildCache' \in Seq(Entry)
      BY <1>0, <2>1, <2>2 DEF TypeOK
    <3>3. QED  BY <1>0, <2>1, <3>1, <3>2 DEF TypeOK
  <2>4. QED  BY <2>1, <2>2, <2>3, ReadyFits
<1>5. QED  BY <1>1, <1>2, <1>3, <1>4 DEF BuildChain

LEMMA RunsInduction == RunsInv /\ [Next]_vars => RunsInv'
<1> SUFFICES ASSUME RunsInv, [Next]_vars  PROVE RunsInv'
  OBVIOUS
<1>0. ASSUME ClearCache
      PROVE  /\ buildCache' = NotBuilt /\ outdated' \in BOOLEAN /\ overtaken' \in SUBSET Runs
             /\ standing' \in [Runs -> SUBSET Names]
  BY <1>0 DEF ClearCache, Cleared, RunsInv, TypeOK
<1>1. CASE UNCHANGED <<runVars, timingVars>> /\ TypeOK'
  BY <1>1 DEF RunsInv, runVars
<1>2. ASSUME NEW n \in Names, NEW scope \in Scopes, NEW override \in BOOLEAN, Register(n, scope, override)
      PROVE  RunsInv'
  <2>1. objects + 1 \in 0..MaxObjects
    BY <1>2, MiddlewareConstants DEF Register, RunsInv, TypeOK
  <2>2. TypeOK'
    <3>1. \A f \in [Names -> 0..MaxObjects] : [f EXCEPT ![n] = objects + 1] \in [Names -> 0..MaxObjects]
      BY <2>1
    <3>2. globals \in [Names -> 0..MaxObjects] /\ scoped \in [Names -> 0..MaxObjects]
      BY DEF RunsInv, TypeOK
    <3>3. globals' \in [Names -> 0..MaxObjects] /\ scoped' \in [Names -> 0..MaxObjects]
      <4>1. CASE scope = "global"
        <5>1. globals' = [globals EXCEPT ![n] = objects + 1] /\ scoped' = scoped
          BY <1>2, <4>1 DEF Register
        <5>2. QED  BY <3>1, <3>2, <5>1
      <4>2. CASE scope # "global"
        <5>1. scoped' = [scoped EXCEPT ![n] = objects + 1] /\ globals' = globals
          BY <1>2, <4>2 DEF Register
        <5>2. QED  BY <3>1, <3>2, <5>1
      <4>3. QED  BY <4>1, <4>2
    <3>4. objects' \in 0..MaxObjects /\ ClearCache /\ UNCHANGED <<cacheOn, runVars, timingVars>>
      BY <1>2, <2>1 DEF Register
    <3>5. QED  BY <1>0, <3>3, <3>4 DEF RunsInv, TypeOK, runVars, timingVars
  <2>3. QED  BY <1>1, <1>2, <2>2 DEF Register
<1>3. ASSUME NEW n \in Names, NEW scopes \in SUBSET Scopes, RemoveMiddleware(n, scopes)  PROVE RunsInv'
  <2>1. 0 \in 0..MaxObjects
    BY MiddlewareConstants
  <2>2. TypeOK'
    <3>1. /\ ClearCache /\ UNCHANGED <<cacheOn, objects, runVars, timingVars>>
          /\ globals' \in [Names -> 0..MaxObjects] /\ scoped' \in [Names -> 0..MaxObjects]
      BY <1>3, <2>1 DEF RemoveMiddleware, RunsInv, TypeOK
    <3>2. QED  BY <1>0, <3>1 DEF RunsInv, TypeOK, runVars, timingVars
  <2>3. QED  BY <1>1, <1>3, <2>2 DEF RemoveMiddleware
<1>4. CASE SetCache \/ UNCHANGED vars
  <2>1. TypeOK'
    BY <1>4 DEF SetCache, vars, registryVars, buildVars, RunsInv, TypeOK, runVars, timingVars
  <2>2. QED  BY <1>1, <1>4, <2>1 DEF SetCache, vars
<1>5. ASSUME NEW r \in Runs, BuildChain(r)  PROVE RunsInv'
  BY <1>5, ChainBuilt
<1>6. ASSUME NEW r \in Runs, Before(r) \/ Pipeline(r) \/ After(r) \/ OnError(r)  PROVE RunsInv'
  BY <1>6, HooksMove, ClocksType, CallsKeepRuns
<1>7. QED  BY <1>2, <1>3, <1>4, <1>5, <1>6 DEF Next, Step

\* The inductive invariant: where a run is fits to the hooks it has called.
THEOREM RunsInvariant == Spec => []RunsInv
BY RunsInit, RunsInduction, PTL DEF Spec

\* base.py run(): the pipeline runs behind every before(), and at most once.
THEOREM GateNeverOpen == Spec => []GateHolds
<1>1. ASSUME RunsInv, NEW r \in Runs, NEW k \in Hooks(r, "pipeline")
      PROVE  /\ k = Len(chain[r]) + 1
             /\ \A i \in 1..k-1 : told[r][i] = [hook |-> "before", at |-> i, end |-> "none"]
  <2>1. k \in 1..Len(told[r]) /\ told[r][k].hook = "pipeline"
    BY <1>1, LenProperties DEF Hooks, RunsInv, TypeOK
  <2>2. QED  BY <1>1, <2>1 DEF RunsInv, RunFits, Gated, Passed
<1>2. RunsInv => GateHolds
  BY <1>1 DEF GateHolds
<1>3. QED  BY <1>2, RunsInvariant, PTL

\* base.py run(), _run_after() and _handle_error(): an exception leaves the chain
\* when every on_error() was asked, a Result when every after() has seen it or
\* the on_error() that had it was the first to have one.
THEOREM OutcomesAreEarned == Spec => []OutcomeEarned
<1>1. ASSUME RunsInv, NEW r \in Runs, phase[r] = "raised"
      PROVE  EndedWith(r, "error", {"none", "raise"})
  <2>1. Ended(told[r], Len(chain[r]), 0, "error", {"none", "raise"})
    BY <1>1 DEF RunsInv, RunFits
  <2>2. Len(chain[r]) - 0 = Len(chain[r])
    BY <1>1, LenProperties DEF RunsInv, TypeOK
  <2>3. QED  BY <2>1, <2>2 DEF Ended, EndedWith
<1>2. ASSUME RunsInv, NEW r \in Runs, phase[r] = "returned"
      PROVE  \/ EndedWith(r, "after", {"none"})
             \/ LET last == Len(told[r])
                IN /\ told[r][last].hook = "error" /\ told[r][last].end = "result"
                   /\ \A i \in Hooks(r, "error") : i < last => told[r][i].end # "result"
  <2>1. Ended(told[r], Len(chain[r]), 0, "after", {"none"}) \/ Handled(told[r])
    BY <1>2 DEF RunsInv, RunFits
  <2>2. Len(chain[r]) - 0 = Len(chain[r]) /\ Len(told[r]) \in Nat /\ DOMAIN told[r] = 1..Len(told[r])
    BY <1>2, LenProperties DEF RunsInv, TypeOK
  <2>3. CASE Ended(told[r], Len(chain[r]), 0, "after", {"none"})
    BY <2>2, <2>3 DEF Ended, EndedWith
  <2>4. CASE Handled(told[r])
    <3>1. ASSUME NEW i \in Hooks(r, "error"), i < Len(told[r])  PROVE told[r][i].end # "result"
      <4>1. i \in 1..Len(told[r])-1 /\ told[r][i].hook = "error"
        BY <2>2, <3>1 DEF Hooks
      <4>2. QED  BY <2>4, <4>1 DEF Handled, NoneHandled
    <3>2. QED  BY <2>4, <3>1 DEF Handled
  <2>5. QED  BY <2>1, <2>3, <2>4
<1>3. RunsInv => OutcomeEarned
  BY <1>1, <1>2 DEF OutcomeEarned
<1>4. QED  BY <1>3, RunsInvariant, PTL

-----------------------------------------------------------------------------
(* The cache                                                                 *)

\* What the runs that have listed the entries hold is current as well, unless
\* the registry has changed since.
ListingsCurrent ==
  \A r \in Runs : phase[r] = "listed" /\ r \notin overtaken => chain[r] = Listed

CacheInv == ChainCurrent /\ ListingsCurrent

LEMMA CacheInduction == RunsInv /\ CacheInv /\ [Next]_vars => CacheInv'
<1> SUFFICES ASSUME RunsInv, CacheInv, [Next]_vars  PROVE CacheInv'
  OBVIOUS
<1>0. /\ chain \in [Runs -> Seq(Entry)] /\ phase \in [Runs -> Phases]
      /\ overtaken \in SUBSET Runs /\ outdated \in BOOLEAN
  BY DEF RunsInv, TypeOK
<1>1. (UNCHANGED <<globals, scoped>>) => Listed' = Listed
  BY DEF Listed
<1> HIDE DEF Listed
<1>2. CASE ClearCache /\ UNCHANGED runVars
  BY <1>2 DEF ClearCache, Cleared, runVars, CacheInv, ChainCurrent, ListingsCurrent
<1>3. CASE /\ UNCHANGED <<globals, scoped, buildCache, overtaken, outdated, chain>>
           /\ \A r \in Runs : phase'[r] = "listed" => phase[r] = "listed"
  <2>1. ChainCurrent'
    BY <1>1, <1>3 DEF CacheInv, ChainCurrent
  <2>2. ListingsCurrent'
    BY <1>1, <1>3 DEF CacheInv, ListingsCurrent
  <2>3. QED  BY <2>1, <2>2 DEF CacheInv
<1>4. CASE SetCache \/ UNCHANGED vars
  BY <1>3, <1>4 DEF SetCache, vars, registryVars, buildVars, runVars
<1>5. ASSUME NEW r \in Runs, Before(r) \/ Pipeline(r) \/ After(r) \/ OnError(r)  PROVE CacheInv'
  <2>1. PICK e \in Call, q \in Phases, j \in Nat :
          /\ Moves(Len(chain[r]), phase[r], at[r], e, q, j)
          /\ phase' = [phase EXCEPT ![r] = q]
          /\ chain' = chain /\ UNCHANGED <<registryVars, buildVars>>
    BY <1>5, HooksMove DEF HookCalled
  <2>2. q # "listed"
    BY <2>1 DEF Moves
  <2>3. \A s \in Runs : phase'[s] = "listed" => phase[s] = "listed"
    BY <1>0, <2>1, <2>2
  <2>4. QED  BY <1>3, <2>1, <2>3 DEF registryVars, buildVars
<1>6. ASSUME NEW r \in Runs, LookForChain(r)  PROVE CacheInv'
  <2>1. \A s \in Runs : phase'[s] = "listed" => phase[s] = "listed"
    BY <1>0, <1>6 DEF LookForChain
  <2>2. QED  BY <1>3, <1>6, <2>1 DEF LookForChain, registryVars
<1>7. ASSUME NEW r \in Runs, TakeChain(r)  PROVE CacheInv'
  <2>1. /\ \A s \in Runs : s # r => chain'[s] = chain[s] /\ phase'[s] = phase[s]
        /\ phase'[r] # "listed"
        /\ UNCHANGED <<globals, scoped, buildCache, overtaken, outdated>>
    BY <1>0, <1>7 DEF TakeChain, Ready, registryVars
  <2>2. ChainCurrent'
    BY <1>1, <2>1 DEF CacheInv, ChainCurrent
  <2>3. ListingsCurrent'
    BY <1>1, <2>1 DEF CacheInv, ListingsCurrent
  <2>4. QED  BY <2>2, <2>3 DEF CacheInv
<1>8. ASSUME NEW r \in Runs, ListEntries(r)  PROVE CacheInv'
  <2>1. /\ chain'[r] = Listed /\ overtaken' = overtaken \ {r}
        /\ \A s \in Runs : s # r => chain'[s] = chain[s] /\ phase'[s] = phase[s]
        /\ UNCHANGED <<globals, scoped, buildCache, outdated>>
    BY <1>0, <1>8 DEF ListEntries, registryVars
  <2>2. ChainCurrent'
    BY <1>1, <2>1 DEF CacheInv, ChainCurrent
  <2>3. ListingsCurrent'
    BY <1>1, <2>1 DEF CacheInv, ListingsCurrent
  <2>4. QED  BY <2>2, <2>3 DEF CacheInv
<1>9. ASSUME NEW r \in Runs, StoreChain(r)  PROVE CacheInv'
  <2>1. /\ phase[r] = "listed" /\ overtaken' = overtaken \ {r}
        /\ \A s \in Runs : s # r => chain'[s] = chain[s] /\ phase'[s] = phase[s]
        /\ phase'[r] # "listed"
        /\ buildCache' = (IF cacheOn THEN chain[r] ELSE buildCache)
        /\ outdated' = (IF cacheOn THEN r \in overtaken ELSE outdated)
        /\ UNCHANGED <<globals, scoped>>
    BY <1>0, <1>9 DEF StoreChain, Ready
  <2>2. ChainCurrent'
    BY <1>1, <2>1 DEF CacheInv, ChainCurrent, ListingsCurrent
  <2>3. ListingsCurrent'
    BY <1>1, <2>1 DEF CacheInv, ListingsCurrent
  <2>4. QED  BY <2>2, <2>3 DEF CacheInv
<1>10. QED
  BY <1>2, <1>4, <1>5, <1>6, <1>7, <1>8, <1>9 DEF Next, Step, BuildChain, Register, RemoveMiddleware

\* registry.py: a cached chain is the one that would be built now, unless the
\* registry changed between the listing of its entries and the caching: for any
\* number of executors that build their chains meanwhile.
THEOREM CacheStaysCurrent == Spec => []ChainCurrent
<1>1. Init => CacheInv
  BY DEF Init, CacheInv, ChainCurrent, ListingsCurrent
<1>2. CacheInv => ChainCurrent
  BY DEF CacheInv
<1>3. QED  BY <1>1, <1>2, CacheInduction, RunsInvariant, PTL DEF Spec

-----------------------------------------------------------------------------
\* A record of the fields of Value(), with a status that can be compared.
Fields == {"kind", "status", "warnings", "consent", "segs"}
IsValue(v) == DOMAIN v = Fields /\ v.status \in Statuses

Known(warnings) == \A f \in failures : f \in warnings
Severe(status) == \A f \in failures : status >= (IF f[1] = "degraded" THEN Degraded ELSE Partial)
Consents(v) == consented => v.consent = TRUE

\* A value fit to be the running Result
Sound(v) == IsValue(v) /\ Known(v.warnings) /\ Severe(v.status) /\ Consents(v)

Inv == Sound(result) /\ IsValue(current) /\ (current.kind # "other" => Consents(current))

-----------------------------------------------------------------------------
LEMMA Values4 ==
  ASSUME NEW k, NEW s \in Statuses, NEW w, NEW c, NEW g
  PROVE  /\ IsValue(Value(k, s, w, c, g))
         /\ Value(k, s, w, c, g).kind = k /\ Value(k, s, w, c, g).status = s
         /\ Value(k, s, w, c, g).warnings = w /\ Value(k, s, w, c, g).consent = c
         /\ Value(k, s, w, c, g).segs = g
BY DEF IsValue, Value, Fields

LEMMA MergeFields ==
  ASSUME NEW v, DOMAIN v = Fields
  PROVE  /\ DOMAIN Merge(v) = Fields /\ Merge(v).kind = v.kind
         /\ Merge(v).status = Worse(result.status, v.status)
         /\ Merge(v).warnings = result.warnings \cup v.warnings
         /\ Merge(v).consent = (v.consent \/ consented)
BY DEF Merge, Fields

LEMMA MarkFields ==
  ASSUME NEW v, DOMAIN v = Fields, NEW t, NEW f
  PROVE  /\ DOMAIN Mark(v, t, f) = Fields /\ Mark(v, t, f).kind = v.kind
         /\ Mark(v, t, f).status = t /\ Mark(v, t, f).warnings = v.warnings \cup {f}
         /\ Mark(v, t, f).consent = v.consent
BY DEF Mark, Fields

LEMMA Worst ==
  ASSUME NEW s \in Statuses, NEW t \in Statuses
  PROVE  Worse(s, t) \in Statuses /\ Worse(s, t) >= s /\ Worse(s, t) >= t
BY DEF Worse, Statuses, Complete, Partial, Degraded, Failed

\* A Result merged with the run's is as sound.
LEMMA Merged ==
  ASSUME Inv, NEW v, IsValue(v), consented \in BOOLEAN
  PROVE  Sound(Merge(v)) /\ Merge(v).kind = v.kind
<1>1. v.status \in Statuses /\ result.status \in Statuses
  BY DEF IsValue, Inv, Sound
<1>2. Worse(result.status, v.status) \in Statuses /\ Worse(result.status, v.status) >= result.status
  BY <1>1, Worst
<1>3. /\ DOMAIN Merge(v) = Fields /\ Merge(v).kind = v.kind
      /\ Merge(v).status = Worse(result.status, v.status)
      /\ Merge(v).warnings = result.warnings \cup v.warnings
      /\ Merge(v).consent = (v.consent \/ consented)
  BY MergeFields DEF IsValue
<1>4. Known(Merge(v).warnings) /\ Consents(Merge(v))
  BY <1>3 DEF Known, Consents, Inv, Sound
<1>5. Severe(Merge(v).status)
  BY <1>1, <1>2, <1>3 DEF Severe, Inv, Sound, Statuses, Complete, Partial, Degraded, Failed
<1>6. QED  BY <1>2, <1>3, <1>4, <1>5 DEF Sound, IsValue

\* What replace() allows: no status becomes less severe.
LEMMA Marked ==
  ASSUME NEW v, IsValue(v), NEW s \in Statuses, NEW f, CanMark(v, s)
  PROVE  /\ IsValue(Mark(v, s, f)) /\ Mark(v, s, f).status = s /\ s >= v.status
         /\ Mark(v, s, f).warnings = v.warnings \cup {f}
         /\ Mark(v, s, f).consent = v.consent /\ Mark(v, s, f).kind = v.kind
<1>1. s >= v.status
  BY DEF CanMark, IsValue, Statuses, Complete, Partial, Degraded, Failed
<1>2. QED  BY <1>1, MarkFields DEF IsValue

LEMMA MarkedSound ==
  ASSUME NEW v, Sound(v), NEW s \in Statuses, NEW f, CanMark(v, s)
  PROVE  Sound(Mark(v, s, f))
<1>1. /\ IsValue(Mark(v, s, f)) /\ Mark(v, s, f).status = s /\ s >= v.status
      /\ Mark(v, s, f).warnings = v.warnings \cup {f} /\ Mark(v, s, f).consent = v.consent
  BY Marked DEF Sound
<1>2. Severe(s)
  BY <1>1 DEF Sound, IsValue, Severe, Statuses, Complete, Partial, Degraded, Failed
<1>3. QED  BY <1>1, <1>2 DEF Sound, Known, Consents

-----------------------------------------------------------------------------
LEMMA InitInv == ExecutorInit => Inv
<1> SUFFICES ASSUME ExecutorInit  PROVE Inv
  OBVIOUS
<1>1. Complete \in Statuses /\ Degraded \in Statuses /\ failures = {}
  BY DEF ExecutorInit, Statuses
<1>2. /\ IsValue(result) /\ result.consent = consented
  BY <1>1, Values4 DEF ExecutorInit
<1>3. IsValue(current) /\ current.consent = consented
  BY <1>1, Values4 DEF ExecutorInit, Inputs
<1>4. QED  BY <1>1, <1>2, <1>3 DEF Inv, Sound, Known, Severe, Consents

\* The running value of a run, while something else changes
LEMMA Kept ==
  ASSUME Inv, UNCHANGED <<result, current, failures, consented>>
  PROVE  Inv'
BY DEF Inv, Sound, IsValue, Known, Severe, Consents

LEMMA RaiseKeeps ==
  ASSUME Inv, NEW error, Raise(error), UNCHANGED <<pipeline, failures>>
  PROVE  Inv'
BY Kept DEF Raise, pipeline

LEMMA AcceptKeeps ==
  ASSUME Inv, NEW out, IsValue(out), out.kind = "result", Accept(out), UNCHANGED pipeline,
         consented \in BOOLEAN
  PROVE  Inv'
<1>1. Sound(Merge(out)) /\ Merge(out).kind = "result"
  BY Merged
<1>2. result' = Merge(out) /\ current' = Merge(out) /\ failures' = failures /\ consented' = consented
  BY DEF Accept, pipeline
<1>3. QED  BY <1>1, <1>2 DEF Inv, Sound, IsValue, Known, Severe, Consents

\* A stage that failed is counted with the warning and the status it leaves.
LEMMA FailureKeeps ==
  ASSUME NEW v, Sound(v), NEW s \in Statuses, NEW kind, NEW f, CanMark(v, s), f = <<kind, stage>>,
         s >= (IF kind = "degraded" THEN Degraded ELSE Partial),
         result' = Mark(v, s, f), failures' = failures \cup {f}, consented' = consented
  PROVE  Sound(result)'
<1>1. /\ IsValue(Mark(v, s, f)) /\ Mark(v, s, f).status = s /\ s >= v.status
      /\ Mark(v, s, f).warnings = v.warnings \cup {f} /\ Mark(v, s, f).consent = v.consent
      /\ Sound(Mark(v, s, f))
  BY Marked, MarkedSound DEF Sound
<1>2. f[1] = kind
  OBVIOUS
<1>3. Severe(s)
  BY <1>1 DEF Sound
<1>4. \A g \in failures' : s >= (IF g[1] = "degraded" THEN Degraded ELSE Partial)
  BY <1>2, <1>3 DEF Severe
<1>5. (result').status = s /\ (result').consent = v.consent /\ (result').warnings = v.warnings \cup {f}
  BY <1>1
<1>6. Severe(result.status)'
  BY <1>4, <1>5 DEF Severe
<1>7. Known(result.warnings)' /\ Consents(result)' /\ IsValue(result)'
  BY <1>1, <1>5 DEF Sound, IsValue, Known, Consents
<1>8. QED  BY <1>6, <1>7 DEF Sound

LEMMA SkipKeeps == ASSUME Inv, Skip, UNCHANGED pipeline  PROVE Inv'
<1>1. CASE CanMark(result, Partial)
  <2>1. /\ result' = Mark(result, Partial, <<"partial", stage>>) /\ current' = result'
        /\ failures' = failures \cup {<<"partial", stage>>} /\ consented' = consented
    BY <1>1 DEF Skip, pipeline
  <2>2. Partial \in Statuses /\ Partial >= Partial /\ Sound(result)
    BY DEF Inv, Statuses, Partial
  <2>3. Sound(result)'
    BY <1>1, <2>1, <2>2, FailureKeeps
  <2>4. QED  BY <2>1, <2>3 DEF Inv, Sound, IsValue, Consents
<1>2. CASE ~CanMark(result, Partial)
  BY <1>2, RaiseKeeps DEF Skip
<1>3. QED  BY <1>1, <1>2

LEMMA DegradeKeeps ==
  ASSUME Inv, NEW input, IsValue(input), consented \in BOOLEAN, UNCHANGED pipeline,
         DegradeReturns(input)
  PROVE  Inv'
<1>1. PICK out \in {Value("result", Degraded, {}, FALSE, input.segs),
                    Value("result", Worse(Degraded, input.status), input.warnings,
                          input.consent, input.segs),
                    NotAResult} :
        LET base == IF out.kind = "result" THEN Merge(out) ELSE result
        IN  IF CanMark(base, Degraded)
            THEN /\ result' = Mark(base, Degraded, <<"degraded", stage>>)
                 /\ current' = IF out.kind = "result" THEN base ELSE out
                 /\ Advance
                 /\ failures' = failures \cup {<<"degraded", stage>>}
            ELSE Raise("aborted") /\ UNCHANGED failures
  BY DEF DegradeReturns
<1>2. /\ Degraded \in Statuses /\ Complete \in Statuses /\ Degraded >= Degraded
      /\ input.status \in Statuses
  BY DEF Statuses, Degraded, IsValue
<1>3. Worse(Degraded, input.status) \in Statuses
  BY <1>2, Worst
<1>4. IsValue(out) /\ out.kind \in {"result", "other"}
  <2>1. CASE out = Value("result", Degraded, {}, FALSE, input.segs)
    BY <1>2, <2>1 DEF Value, IsValue, Fields
  <2>2. CASE out = Value("result", Worse(Degraded, input.status), input.warnings,
                         input.consent, input.segs)
    BY <1>3, <2>2, Values4
  <2>3. CASE out = NotAResult
    BY <1>2, <2>3 DEF NotAResult, Value, IsValue, Fields
  <2>4. QED  BY <1>1, <2>1, <2>2, <2>3
<1> DEFINE base == IF out.kind = "result" THEN Merge(out) ELSE result
<1>5. Sound(base) /\ (out.kind = "result" => base.kind = "result")
  BY <1>4, Merged DEF Inv
<1>6. CASE CanMark(base, Degraded)
  <2>1. /\ result' = Mark(base, Degraded, <<"degraded", stage>>)
        /\ current' = IF out.kind = "result" THEN base ELSE out
        /\ failures' = failures \cup {<<"degraded", stage>>} /\ consented' = consented
    BY <1>1, <1>6 DEF pipeline
  <2> HIDE DEF base
  <2>2. Sound(result)'
    BY <1>2, <1>5, <1>6, <2>1, FailureKeeps
  <2>3. IsValue(current)' /\ (current'.kind # "other" => Consents(current)')
    BY <1>4, <1>5, <2>1 DEF Sound, IsValue, Consents
  <2>4. QED  BY <2>2, <2>3 DEF Inv
<1>7. CASE ~CanMark(base, Degraded)
  BY <1>1, <1>7, RaiseKeeps
<1>8. QED  BY <1>6, <1>7

LEMMA NoDegradePathKeeps == ASSUME Inv, NoDegradePath, UNCHANGED pipeline  PROVE Inv'
<1> DEFINE s == IF result.status >= Degraded THEN result.status ELSE Partial
<1>1. /\ result' = Mark(result, s, <<"partial", stage>>) /\ current' = result'
      /\ failures' = failures \cup {<<"partial", stage>>} /\ consented' = consented
  BY DEF NoDegradePath, pipeline
<1>2. result.status \in Statuses /\ Sound(result)
  BY DEF Inv, Sound, IsValue
<1>3. s \in Statuses /\ s >= Partial /\ CanMark(result, s)
  BY <1>2 DEF CanMark, Statuses, Complete, Partial, Degraded, Failed
<1> HIDE DEF s
<1>4. Sound(result)'
  BY <1>1, <1>2, <1>3, FailureKeeps
<1>5. QED  BY <1>1, <1>4 DEF Inv, Sound, IsValue, Consents

LEMMA FailKeeps ==
  ASSUME Inv, NEW input, IsValue(input), consented \in BOOLEAN, UNCHANGED pipeline, Fail(input)
  PROVE  Inv'
<1>1. \/ \E error \in {"aborted"} : Raise(error) /\ UNCHANGED failures
      \/ Skip \/ DegradeReturns(input) \/ NoDegradePath
  BY DEF Fail
<1>2. QED  BY <1>1, RaiseKeeps, SkipKeeps, DegradeKeeps, NoDegradePathKeeps

-----------------------------------------------------------------------------
\* What a stage returns is a Result whose status can be compared.
LEMMA Returned ==
  ASSUME NEW input, IsValue(input), NEW out \in Returns(input)
  PROVE  IsValue(out) /\ out.kind = "result"
<1>1. ASSUME NEW s \in Statuses, NEW segs, out = Value("result", s, {}, FALSE, segs)
      PROVE  IsValue(out) /\ out.kind = "result"
  BY <1>1 DEF Value, IsValue, Fields
<1>2. ASSUME NEW s \in Statuses, NEW segs,
             out = Value("result", Worse(s, input.status), input.warnings, input.consent, segs)
      PROVE  IsValue(out) /\ out.kind = "result"
  <2>1. Worse(s, input.status) \in Statuses
    BY Worst DEF IsValue
  <2>2. QED  BY <1>2, <2>1, Values4
<1>3. \/ \E s \in Statuses, segs \in Processed(input.segs) :
             out = Value("result", s, {}, FALSE, segs)
      \/ \E s \in Statuses, segs \in Processed(input.segs) :
             out = Value("result", Worse(s, input.status), input.warnings, input.consent, segs)
  BY DEF Returns, Value
<1>4. QED  BY <1>1, <1>2, <1>3

LEMMA SegsFields ==
  ASSUME NEW v, IsValue(v), NEW g
  PROVE  IsValue([v EXCEPT !.segs = g]) /\ [v EXCEPT !.segs = g].kind = v.kind
BY DEF IsValue, Fields

LEMMA RunRoutedKeeps ==
  ASSUME Inv, RunRouted, UNCHANGED pipeline, consented \in BOOLEAN
  PROVE  Inv'
<1>1. IsValue(SubResult)
  BY Values4 DEF SubResult, Statuses
<1>2. PICK out \in Returns(SubResult) :
        LET whole == [out EXCEPT !.segs = Recombine(out.segs)]
        IN  IF CanMark(whole, RouteStatus)
            THEN Accept(Mark(whole, RouteStatus, RouteWarning))
            ELSE Fail(current)
  BY DEF RunRouted
<1> DEFINE whole == [out EXCEPT !.segs = Recombine(out.segs)]
<1>3. IsValue(whole) /\ whole.kind = "result" /\ RouteStatus \in Statuses
  BY <1>1, Returned, SegsFields DEF RouteStatus, Statuses
<1>4. CASE CanMark(whole, RouteStatus)
  <2>1. Accept(Mark(whole, RouteStatus, RouteWarning))
    BY <1>2, <1>4
  <2> HIDE DEF whole
  <2>2. /\ IsValue(Mark(whole, RouteStatus, RouteWarning))
        /\ Mark(whole, RouteStatus, RouteWarning).kind = "result"
    BY <1>3, <1>4, Marked
  <2>3. QED  BY <2>1, <2>2, AcceptKeeps
<1>5. CASE ~CanMark(whole, RouteStatus)
  BY <1>2, <1>5, FailKeeps DEF Inv
<1>6. QED  BY <1>4, <1>5

LEMMA RouteNothingKeeps ==
  ASSUME Inv, RouteNothing, UNCHANGED pipeline, consented \in BOOLEAN
  PROVE  Inv'
<1> DEFINE whole == [current EXCEPT !.segs = WithSkipped]
<1>1. CASE CanMark(current, Partial)
  <2>1. IsValue(whole) /\ whole.kind = "result" /\ Partial \in Statuses
    BY SegsFields DEF Inv, RouteNothing, Routed, Statuses
  <2>2. whole.status = current.status
    BY DEF Inv, IsValue, Fields
  <2>3. CanMark(whole, Partial) /\ Accept(Mark(whole, Partial, RouteWarning))
    BY <1>1, <2>2 DEF RouteNothing, CanMark
  <2> HIDE DEF whole
  <2>4. IsValue(Mark(whole, Partial, RouteWarning)) /\ Mark(whole, Partial, RouteWarning).kind = "result"
    BY <2>1, <2>3, Marked
  <2>5. QED  BY <2>3, <2>4, AcceptKeeps
<1>2. CASE ~CanMark(current, Partial)
  BY <1>2, FailKeeps DEF Inv, RouteNothing
<1>3. QED  BY <1>1, <1>2

LEMMA NextKeeps == ASSUME Inv, ExecutorNext, consented \in BOOLEAN  PROVE Inv'
<1>1. UNCHANGED pipeline
  BY DEF ExecutorNext
<1>2. IsValue(current) /\ IsValue(NotAResult)
  BY Values4 DEF Inv, NotAResult, Statuses
<1>3. CASE Run
  BY <1>1, <1>2, <1>3, Returned, AcceptKeeps DEF Run
<1>4. CASE RunRouted \/ RouteNothing
  BY <1>1, <1>4, RunRoutedKeeps, RouteNothingKeeps
<1>5. CASE Unroutable
  BY <1>1, <1>5, RaiseKeeps DEF Unroutable
<1>6. CASE StageRaises
  BY <1>1, <1>2, <1>6, FailKeeps, RaiseKeeps DEF StageRaises
<1>7. CASE StageReturnsOther
  BY <1>1, <1>2, <1>7, FailKeeps DEF StageReturnsOther
<1>8. QED  BY <1>3, <1>4, <1>5, <1>6, <1>7 DEF ExecutorNext

LEMMA Invariant == ExecutorSpec => [](Inv /\ consented \in BOOLEAN)
<1>1. ExecutorInit => Inv /\ consented \in BOOLEAN
  BY InitInv DEF ExecutorInit
<1>2. Inv /\ consented \in BOOLEAN /\ [ExecutorNext]_executorVars => (Inv /\ consented \in BOOLEAN)'
  BY NextKeeps, Kept DEF ExecutorNext, executorVars, pipeline
<1>3. QED  BY <1>1, <1>2, PTL DEF ExecutorSpec

\* A stage that was skipped or degraded is named in the warnings from then on.
THEOREM WarningsAccumulate == ExecutorSpec => []WarningsKept
<1>1. Inv => WarningsKept
  BY DEF Inv, Sound, Known, WarningsKept
<1>2. QED  BY Invariant, <1>1, PTL

\* The status is at least what the stages that failed have made of it.
THEOREM StatusNeverFlatters == ExecutorSpec => []StatusTruthful
<1>1. Inv => StatusTruthful
  BY DEF Inv, Sound, Severe, StatusTruthful
<1>2. QED  BY Invariant, <1>1, PTL

\* The consent_basis of the input is never lost on the way to a stage or to
\* the caller, except where degrade() returns something that is no Result.
THEOREM ConsentNeverLost == ExecutorSpec => []ConsentKept
<1>1. Inv => ConsentKept
  BY DEF Inv, Sound, Consents, ConsentKept
<1>2. QED  BY Invariant, <1>1, PTL

-----------------------------------------------------------------------------
(* Segments in the order of their start times                                *)

Seg == [start : 1..Segments, lang : Languages, by : SUBSET (1..Stages), skippedBy : 0..Stages]
InOrder(segs) == \A i, j \in 1..Len(segs) : i <= j => segs[i].start <= segs[j].start

LEMMA SegsAre == Segs = Seq(Seg) /\ \A e \in Seg : e.start \in Nat
BY ExecutorConstants DEF Segs, Seg

\* What Picked() has after each place.
Picks(f, s, places, S) ==
  /\ f \in [0..Len(s) -> Seq(S)] /\ f[0] = <<>>
  /\ \A i \in 1..Len(s) : f[i] = IF i \in places THEN Append(f[i-1], s[i]) ELSE f[i-1]

LEMMA PickedSteps ==
  ASSUME NEW S, NEW s \in Seq(S), NEW places
  PROVE  \E f : Picks(f, s, places, S) /\ Picked(s, places) = f[Len(s)]
<1> DEFINE N == Len(s)  ss == [i \in 1..N |-> IF i \in places THEN <<s[i]>> ELSE <<>>]
<1>1. N \in Nat /\ \A i \in 1..N : s[i] \in S
  BY LenProperties, ElementOfSeq
<1>2. ss \in Seq(Seq(S)) /\ Len(ss) = N /\ \A i \in 1..N : ss[i] = IF i \in places THEN <<s[i]>> ELSE <<>>
  BY <1>1
<1>3. Picked(s, places) = FlattenSeq(ss)
  BY DEF Picked
<1> HIDE DEF ss
<1>4. PICK f : Gathers(f, ss, S) /\ FlattenSeq(ss) = f[N]
  BY <1>2, FlattenSteps
<1>5. f \in [0..N -> Seq(S)] /\ f[0] = <<>>
  BY <1>2, <1>4 DEF Gathers
<1>6. ASSUME NEW i \in 1..N
      PROVE  f[i] = IF i \in places THEN Append(f[i-1], s[i]) ELSE f[i-1]
  <2>1. i - 1 \in 0..N
    BY <1>1
  <2>2. f[i-1] \in Seq(S) /\ f[i] = f[i-1] \o ss[i]
    BY <1>2, <1>4, <1>5, <2>1 DEF Gathers
  <2>3. CASE i \in places
    <3>1. f[i] = f[i-1] \o <<s[i]>>
      BY <1>2, <2>2, <2>3
    <3>2. f[i-1] \o <<s[i]>> = Append(f[i-1], s[i])
      <4> DEFINE u == f[i-1]  e == s[i]
      <4>1. u \in Seq(S) /\ e \in S
        BY <1>1, <2>2
      <4> HIDE DEF u, e, N
      <4>2. u \o <<e>> = Append(u, e)
        BY <4>1
      <4>3. QED  BY <4>2 DEF u, e
    <3>3. QED  BY <2>3, <3>1, <3>2
  <2>4. CASE i \notin places
    <3>1. f[i] = f[i-1] \o <<>>
      BY <1>2, <2>2, <2>4
    <3>2. QED  BY <2>2, <2>4, <3>1, ConcatEmptySeq
  <2>5. QED  BY <2>3, <2>4
<1>7. QED  BY <1>3, <1>4, <1>5, <1>6 DEF Picks

\* What is picked keeps its order.
LEMMA PickedInOrder ==
  ASSUME NEW s \in Seq(Seg), InOrder(s), NEW places
  PROVE  Picked(s, places) \in Seq(Seg) /\ InOrder(Picked(s, places))
<1> DEFINE N == Len(s)
           From(u, n) == \A k \in 1..Len(u) : \E i \in 1..n : u[k] = s[i]
<1>1. N \in Nat /\ (\A i \in 1..N : s[i] \in Seg) /\ (\A e \in Seg : e.start \in Nat)
  BY LenProperties, ElementOfSeq, SegsAre
<1>2. PICK f : Picks(f, s, places, Seg) /\ Picked(s, places) = f[N]
  BY PickedSteps
<1> DEFINE P == {n \in 0..N : InOrder(f[n]) /\ From(f[n], n)}
<1>3. 0 \in P
  BY <1>1, <1>2, EmptySeq DEF Picks, InOrder
<1>4. ASSUME NEW n \in 0..N, n \in P, n < N  PROVE n + 1 \in P
  <2> DEFINE u == f[n]  e == s[n+1]  v == f[n+1]
  <2>1. /\ n + 1 \in 1..N /\ n + 1 \in 0..N /\ (n + 1) - 1 = n /\ 1..n \subseteq 1..n+1
        /\ n + 1 \in 1..n+1 /\ \A i \in 1..n : i \in 1..N /\ i <= n + 1
    BY <1>1, <1>4
  <2>2. u \in Seq(Seg) /\ e \in Seg /\ v = IF n + 1 \in places THEN Append(u, e) ELSE u
    BY <1>1, <1>2, <2>1 DEF Picks
  <2>3. InOrder(u) /\ From(u, n)
    BY <1>4
  <2>4. \A k \in 1..Len(u) : u[k].start <= e.start
    BY <2>1, <2>3 DEF InOrder
  <2>5. From(u, n + 1)
    BY <2>1, <2>3
  <2>6. CASE n + 1 \in places
    <3> DEFINE w == Append(u, e)
    <3>1. /\ Len(u) \in Nat /\ Len(w) = Len(u) + 1 /\ w[Len(u) + 1] = e
          /\ \A k \in 1..Len(u) : w[k] = u[k]
      <4> HIDE DEF u, e
      <4>1. QED  BY <2>2, Appended, LenProperties
    <3> HIDE DEF w
    <3>2. \A k \in 1..Len(w) : k \in 1..Len(u) \/ k = Len(u) + 1
      <4> HIDE DEF u
      <4>1. QED  BY <3>1
    <3>3. From(w, n + 1)
      BY <2>1, <2>5, <3>1, <3>2
    <3>4. InOrder(w)
      <4> SUFFICES ASSUME NEW i \in 1..Len(w), NEW j \in 1..Len(w), i <= j
                   PROVE  w[i].start <= w[j].start
        BY DEF InOrder
      <4>1. e.start <= e.start
        BY <1>1, <2>2
      <4>2. CASE j \in 1..Len(u)
        <5>1. i \in 1..Len(u)
          <6> HIDE DEF u
          <6>1. QED  BY <3>1, <4>2
        <5>2. u[i].start <= u[j].start
          BY <2>3, <4>2, <5>1 DEF InOrder
        <5>3. QED  BY <3>1, <4>2, <5>1, <5>2
      <4>3. CASE j = Len(u) + 1
        <5>1. w[j] = e
          BY <3>1, <4>3
        <5>2. i \in 1..Len(u) => w[i].start <= e.start
          BY <2>4, <3>1
        <5>3. i = Len(u) + 1 => w[i].start <= e.start
          BY <3>1, <4>1
        <5>4. QED  BY <3>2, <5>1, <5>2, <5>3
      <4>4. QED  BY <3>2, <4>2, <4>3
    <3>5. v = w
      BY <2>2, <2>6 DEF w
    <3>6. QED  BY <2>1, <3>3, <3>4, <3>5
  <2>7. CASE n + 1 \notin places
    BY <2>1, <2>2, <2>3, <2>5, <2>7
  <2>8. QED  BY <2>6, <2>7
<1>5. N \in P
  <2> HIDE DEF P
  <2>1. 0..N \subseteq P
    BY <1>1, <1>3, <1>4, Induction
  <2>2. QED  BY <1>1, <2>1
<1>6. f[N] \in Seq(Seg)
  BY <1>1, <1>2 DEF Picks
<1>7. QED  BY <1>2, <1>5, <1>6

\* Each of the places picked has a place in the result: as many as are picked up to it.
UpTo(places, n) == Cardinality({j \in places : j <= n})

LEMMA PickedPlaces ==
  ASSUME NEW S, NEW s \in Seq(S), NEW places \in SUBSET (1..Len(s))
  PROVE  \A i \in places : /\ UpTo(places, i) \in 1..Len(Picked(s, places))
                           /\ Picked(s, places)[UpTo(places, i)] = s[i]
<1> DEFINE N == Len(s)
           Early(n) == {j \in places : j <= n}
           Placed(u, n) == /\ Len(u) = UpTo(places, n)
                           /\ \A i \in places : i <= n => /\ UpTo(places, i) \in 1..Len(u)
                                                          /\ u[UpTo(places, i)] = s[i]
<1>1. N \in Nat /\ \A i \in 1..N : s[i] \in S
  BY LenProperties, ElementOfSeq
<1>2. PICK f : Picks(f, s, places, S) /\ Picked(s, places) = f[N]
  BY PickedSteps
<1>3. \A n \in 0..N : IsFiniteSet(Early(n)) /\ UpTo(places, n) \in Nat
  <2> TAKE n \in 0..N
  <2>1. IsFiniteSet(1..N)
    BY <1>1, FS_Interval
  <2>2. Early(n) \in SUBSET (1..N)
    OBVIOUS
  <2> HIDE DEF Early
  <2>3. IsFiniteSet(Early(n)) /\ Cardinality(Early(n)) \in Nat
    BY <2>1, <2>2, FS_Subset, FS_CardinalityType
  <2>4. QED  BY <2>3 DEF UpTo, Early
<1> DEFINE P == {n \in 0..N : Placed(f[n], n)}
<1>4. 0 \in P
  <2>1. \A j \in places : ~(j <= 0)
    BY <1>1
  <2>2. Early(0) = {}
    BY <2>1
  <2>3. UpTo(places, 0) = 0
    BY <2>2, FS_EmptySet DEF UpTo
  <2>4. f[0] = <<>> /\ Len(<<>>) = 0 /\ 0 \in 0..N
    BY <1>1, <1>2, EmptySeq DEF Picks
  <2>5. QED  BY <2>1, <2>3, <2>4
<1>5. ASSUME NEW n \in 0..N, n \in P, n < N  PROVE n + 1 \in P
  <2> DEFINE u == f[n]  e == s[n+1]  v == f[n+1]
  <2>1. n + 1 \in 1..N /\ n + 1 \in 0..N /\ (n + 1) - 1 = n
    BY <1>1, <1>5
  <2>2. \A j \in places : j <= n + 1 <=> (j <= n \/ j = n + 1)
    BY <1>1, <2>1
  <2>3. u \in Seq(S) /\ e \in S /\ v = IF n + 1 \in places THEN Append(u, e) ELSE u
    BY <1>1, <1>2, <2>1 DEF Picks
  <2>4. Placed(u, n) /\ Len(u) \in Nat
    BY <1>5, <2>3, LenProperties
  <2>5. CASE n + 1 \in places
    <3> DEFINE w == Append(u, e)
    <3>1. /\ Len(w) = Len(u) + 1 /\ w[Len(u) + 1] = e /\ \A k \in 1..Len(u) : w[k] = u[k]
      <4> HIDE DEF u, e
      <4>1. QED  BY <2>3, Appended
    <3>2. Early(n + 1) = Early(n) \cup {n + 1} /\ n + 1 \notin Early(n)
      <4>1. ~(n + 1 <= n)
        BY <2>1
      <4>2. QED  BY <2>2, <2>5, <4>1
    <3>3. UpTo(places, n + 1) = UpTo(places, n) + 1
      <4> HIDE DEF Early
      <4>1. IsFiniteSet(Early(n))
        BY <1>3
      <4>2. Cardinality(Early(n + 1)) = Cardinality(Early(n)) + 1
        BY <3>2, <4>1, FS_AddElement
      <4>3. QED  BY <4>2 DEF UpTo, Early
    <3> HIDE DEF w
    <3>4. Len(w) = UpTo(places, n + 1)
      BY <2>4, <3>1, <3>3
    <3>5. ASSUME NEW i \in places, i <= n + 1
          PROVE  UpTo(places, i) \in 1..Len(w) /\ w[UpTo(places, i)] = s[i]
      <4>1. CASE i <= n
        <5>1. UpTo(places, i) \in 1..Len(u) /\ u[UpTo(places, i)] = s[i]
          BY <2>4, <4>1
        <5>2. 1..Len(u) \subseteq 1..Len(w)
          <6> HIDE DEF u, Placed
          <6>1. QED  BY <2>4, <3>1
        <5>3. QED  BY <3>1, <5>1, <5>2
      <4>2. CASE i = n + 1
        <5>1. UpTo(places, i) = Len(u) + 1
          BY <2>4, <3>3, <4>2
        <5>2. Len(u) + 1 \in 1..Len(w)
          <6> HIDE DEF u, Placed
          <6>1. QED  BY <2>4, <3>1
        <5>3. QED  BY <3>1, <4>2, <5>1, <5>2
      <4>3. QED  BY <1>1, <2>1, <3>5, <4>1, <4>2
    <3>6. v = w
      BY <2>3, <2>5 DEF w
    <3>7. QED  BY <2>1, <3>4, <3>5, <3>6
  <2>6. CASE n + 1 \notin places
    <3>1. Early(n + 1) = Early(n)
      BY <2>2, <2>6
    <3>2. UpTo(places, n + 1) = UpTo(places, n)
      BY <3>1 DEF UpTo
    <3>3. \A i \in places : i <= n + 1 => i <= n
      BY <1>1, <2>1, <2>6
    <3>4. QED  BY <2>1, <2>3, <2>4, <2>6, <3>2, <3>3
  <2>7. QED  BY <2>5, <2>6
<1>6. N \in P
  <2> HIDE DEF P
  <2>1. 0..N \subseteq P
    BY <1>1, <1>4, <1>5, Induction
  <2>2. QED  BY <1>1, <2>1
<1>7. \A i \in places : i <= N
  BY <1>1
<1>8. QED  BY <1>2, <1>6, <1>7

-----------------------------------------------------------------------------
(* The segments that are not for the stage                                   *)

Item(e) == IF Supports(e) THEN <<>> ELSE << <<e.start, e.lang, e.by>> >>
Items(segs) == [i \in 1..Len(segs) |-> Item(segs[i])]
Facts == (1..Segments) \X Languages \X (SUBSET (1..Stages))

LEMMA ItemType ==
  ASSUME NEW e \in Seg
  PROVE  Item(e) \in Seq(Facts)
<1>1. <<e.start, e.lang, e.by>> \in Facts
  BY DEF Seg, Facts
<1>2. \A x \in Facts : <<x>> \in Seq(Facts)
  OBVIOUS
<1>3. << <<e.start, e.lang, e.by>> >> \in Seq(Facts) /\ <<>> \in Seq(Facts)
  BY <1>1, <1>2
<1>4. QED  BY <1>3 DEF Item

LEMMA ItemsType ==
  ASSUME NEW s \in Seq(Seg)
  PROVE  /\ Items(s) \in Seq(Seq(Facts)) /\ Len(Items(s)) = Len(s)
         /\ \A i \in 1..Len(s) : Items(s)[i] = Item(s[i])
         /\ NotFor(s) = FlattenSeq(Items(s)) /\ NotFor(s) \in Seq(Facts)
<1>1. Len(s) \in Nat /\ \A i \in 1..Len(s) : s[i] \in Seg
  BY LenProperties, ElementOfSeq
<1>2. \A i \in 1..Len(s) : Item(s[i]) \in Seq(Facts)
  BY <1>1, ItemType
<1>3. Items(s) \in Seq(Seq(Facts)) /\ Len(Items(s)) = Len(s)
  BY <1>1, <1>2 DEF Items
<1>4. NotFor(s) = FlattenSeq(Items(s))
  BY DEF NotFor, Items, Item
<1>5. QED  BY <1>3, <1>4, Flattened DEF Items

LEMMA NotForConcat ==
  ASSUME NEW s \in Seq(Seg), NEW t \in Seq(Seg)
  PROVE  NotFor(s \o t) = NotFor(s) \o NotFor(t)
<1> DEFINE u == s \o t  m == Len(s)  n == Len(t)
<1>1. /\ u \in Seq(Seg) /\ m \in Nat /\ n \in Nat /\ Len(u) = m + n
      /\ \A i \in 1..m : u[i] = s[i]
      /\ \A i \in 1..n : u[m + i] = t[i]
  BY Concatenated, LenProperties
<1> HIDE DEF u
<1> DEFINE a == Items(s)  b == Items(t)  c == Items(u)
<1>2. /\ a \in Seq(Seq(Facts)) /\ b \in Seq(Seq(Facts)) /\ c \in Seq(Seq(Facts))
      /\ Len(a) = m /\ Len(b) = n /\ Len(c) = m + n
      /\ \A i \in 1..m : a[i] = Item(s[i])
      /\ \A i \in 1..n : b[i] = Item(t[i])
      /\ \A i \in 1..m+n : c[i] = Item(u[i])
  BY <1>1, ItemsType
<1> HIDE DEF a, b, c, m, n
<1>3. /\ a \o b \in Seq(Seq(Facts)) /\ Len(a \o b) = m + n
      /\ \A i \in 1..m : (a \o b)[i] = a[i]
      /\ \A i \in 1..n : (a \o b)[m + i] = b[i]
  <2>1. /\ a \o b \in Seq(Seq(Facts)) /\ Len(a \o b) = Len(a) + Len(b)
        /\ \A i \in 1..Len(a) : (a \o b)[i] = a[i]
        /\ \A i \in 1..Len(b) : (a \o b)[Len(a) + i] = b[i]
    <3>1. a \in Seq(Seq(Facts)) /\ b \in Seq(Seq(Facts))
      BY <1>2
    <3>2. QED  BY <3>1, Concatenated
  <2>2. QED  BY <1>2, <2>1
<1>4. ASSUME NEW k \in 1..m+n  PROVE c[k] = (a \o b)[k]
  <2>1. CASE k \in 1..m
    BY <1>1, <1>2, <1>3, <2>1
  <2>2. CASE k \notin 1..m
    <3>1. PICK i \in 1..n : k = m + i
      <4>1. k - m \in 1..n /\ k = m + (k - m)
        BY <1>1, <2>2
      <4>2. QED  BY <4>1
    <3>2. u[k] = t[i] /\ (a \o b)[k] = b[i]
      BY <1>1, <1>3, <3>1
    <3>3. QED  BY <1>2, <3>2
  <2>3. QED  BY <2>1, <2>2
<1>5. c = a \o b
  BY <1>2, <1>3, <1>4, SeqEqual
<1>6. FlattenSeq(a \o b) = FlattenSeq(a) \o FlattenSeq(b)
  BY <1>2, FlattenedConcat
<1>7. NotFor(s) = FlattenSeq(a) /\ NotFor(t) = FlattenSeq(b) /\ NotFor(u) = FlattenSeq(c)
  BY <1>1, ItemsType DEF a, b, c
<1>8. QED  BY <1>5, <1>6, <1>7 DEF u

LEMMA NotForOne ==
  ASSUME NEW e \in Seg
  PROVE  NotFor(<<e>>) = Item(e)
<1> DEFINE s == <<e>>
<1>1. s \in Seq(Seg) /\ Len(s) = 1 /\ s[1] = e
  OBVIOUS
<1> HIDE DEF s
<1>2. /\ Items(s) \in Seq(Seq(Facts)) /\ Len(Items(s)) = 1 /\ Items(s)[1] = Item(e)
      /\ NotFor(s) = FlattenSeq(Items(s))
  <2>1. s \in Seq(Seg) /\ 1 \in 1..Len(s)
    BY <1>1
  <2>2. /\ Items(s) \in Seq(Seq(Facts)) /\ Len(Items(s)) = Len(s)
        /\ \A i \in 1..Len(s) : Items(s)[i] = Item(s[i])
        /\ NotFor(s) = FlattenSeq(Items(s))
    BY <2>1, ItemsType
  <2>3. QED  BY <1>1, <2>1, <2>2
<1>3. Items(s) = <<Item(e)>>
  BY <1>2
<1>4. FlattenSeq(<<Item(e)>>) = Item(e)
  BY ItemType, FlattenedOne
<1>5. QED  BY <1>2, <1>3, <1>4 DEF s

LEMMA NotForNone ==
  ASSUME NEW s \in Seq(Seg), \A i \in 1..Len(s) : Supports(s[i])
  PROVE  NotFor(s) = <<>>
<1>1. /\ Items(s) \in Seq(Seq(Facts)) /\ NotFor(s) = FlattenSeq(Items(s))
      /\ \A i \in 1..Len(Items(s)) : Items(s)[i] = <<>>
  BY ItemsType DEF Item
<1>2. QED  BY <1>1, FlattenedNone

\* Sequences of the same length, with the same segments that are not for the stage
LEMMA NotForSame ==
  ASSUME NEW s \in Seq(Seg), NEW t \in Seq(Seg), Len(s) = Len(t),
         \A i \in 1..Len(s) : Item(s[i]) = Item(t[i])
  PROVE  NotFor(s) = NotFor(t)
<1>1. Items(s) = Items(t)
  BY DEF Items
<1>2. QED  BY <1>1, ItemsType

\* Picking all that are not for the stage, and maybe others, leaves them as they are.
LEMMA NotForPicked ==
  ASSUME NEW s \in Seq(Seg), NEW places,
         \A i \in 1..Len(s) : ~Supports(s[i]) => i \in places
  PROVE  NotFor(Picked(s, places)) = NotFor(s)
<1> DEFINE N == Len(s)
<1>1. N \in Nat /\ \A i \in 1..N : s[i] \in Seg
  BY LenProperties, ElementOfSeq
<1>2. PICK f : Picks(f, s, places, Seg) /\ Picked(s, places) = f[N]
  BY PickedSteps
<1>3. /\ Items(s) \in Seq(Seq(Facts)) /\ Len(Items(s)) = N
      /\ \A i \in 1..N : Items(s)[i] = Item(s[i])
      /\ NotFor(s) = FlattenSeq(Items(s))
  BY ItemsType
<1>4. PICK g : Gathers(g, Items(s), Facts) /\ NotFor(s) = g[N]
  BY <1>3, FlattenSteps
<1>5. g[0] = <<>> /\ g \in [0..N -> Seq(Facts)] /\ \A i \in 1..N : g[i] = g[i-1] \o Item(s[i])
  BY <1>3, <1>4 DEF Gathers
<1> DEFINE P == {n \in 0..N : NotFor(f[n]) = g[n]}
<1>6. 0 \in P
  <2>1. f[0] = <<>> /\ <<>> \in Seq(Seg) /\ Len(<<>>) = 0
    BY <1>2, EmptySeq DEF Picks
  <2>2. NotFor(<<>>) = <<>>
    <3> DEFINE z == <<>>
    <3>1. z \in Seq(Seg) /\ Len(z) = 0
      BY <2>1
    <3> HIDE DEF z
    <3>2. \A i \in 1..Len(z) : Supports(z[i])
      BY <3>1
    <3>3. NotFor(z) = <<>>
      BY <3>1, <3>2, NotForNone
    <3>4. QED  BY <3>3 DEF z
  <2>3. QED  BY <1>1, <1>5, <2>1, <2>2
<1>7. ASSUME NEW n \in 0..N, n \in P, n < N  PROVE n + 1 \in P
  <2> DEFINE u == f[n]  e == s[n+1]  v == f[n+1]
  <2>1. n + 1 \in 1..N /\ n + 1 \in 0..N /\ (n + 1) - 1 = n
    BY <1>1, <1>7
  <2>2. u \in Seq(Seg) /\ e \in Seg /\ v = IF n + 1 \in places THEN Append(u, e) ELSE u
    BY <1>1, <1>2, <2>1 DEF Picks
  <2>3. NotFor(u) = g[n] /\ g[n] \in Seq(Facts) /\ g[n+1] = g[n] \o Item(e)
    BY <1>5, <1>7, <2>1
  <2>4. NotFor(v) = g[n+1]
    <3>1. CASE n + 1 \in places
      <4> HIDE DEF u, e
      <4>1. Append(u, e) = u \o <<e>> /\ <<e>> \in Seq(Seg)
        BY <2>2
      <4>2. NotFor(u \o <<e>>) = NotFor(u) \o Item(e)
        BY <2>2, <4>1, NotForConcat, NotForOne
      <4>3. QED  BY <2>2, <2>3, <3>1, <4>1, <4>2
    <3>2. CASE n + 1 \notin places
      <4>1. Item(e) = <<>>
        BY <2>1, <3>2 DEF Item
      <4>2. g[n] \o <<>> = g[n]
        BY <2>3, ConcatEmptySeq
      <4>3. QED  BY <2>2, <2>3, <3>2, <4>1, <4>2
    <3>3. QED  BY <3>1, <3>2
  <2>5. QED  BY <2>1, <2>4
<1>8. N \in P
  <2> HIDE DEF P
  <2>1. 0..N \subseteq P
    BY <1>1, <1>6, <1>7, Induction
  <2>2. QED  BY <1>1, <2>1
<1>9. QED  BY <1>2, <1>4, <1>8

-----------------------------------------------------------------------------
(* Sorting                                                                   *)

\* An insertion splits the segments in two, at the last that does not start later.
Splits(segs, seg, a, b) ==
  /\ a \in Seq(Seg) /\ b \in Seq(Seg) /\ segs = a \o b
  /\ Insert(segs, seg) = (a \o <<seg>>) \o b
  /\ \A i \in 1..Len(b) : b[i].start > seg.start
  /\ Len(a) # 0 => a[Len(a)].start <= seg.start

LEMMA Inserted ==
  ASSUME NEW segs \in Seq(Seg), NEW seg \in Seg
  PROVE  \E a, b : Splits(segs, seg, a, b)
<1> DEFINE N == Len(segs)
           B == {i \in 1..N : segs[i].start <= seg.start}
           k == Max({0} \cup B)
           a == SubSeq(segs, 1, k)
           b == SubSeq(segs, k + 1, N)
<1>1. N \in Nat /\ (\A i \in 1..N : segs[i] \in Seg) /\ (\A e \in Seg : e.start \in Nat)
  BY LenProperties, ElementOfSeq, SegsAre
<1>2. k \in {0} \cup B /\ \A i \in {0} \cup B : k >= i
  <2>1. \E i \in {0} \cup B : \A j \in {0} \cup B : i >= j
    <3>1. CASE B = {}
      <4> HIDE DEF B
      <4>1. \A j \in {0} \cup B : j = 0
        BY <3>1
      <4>2. QED  BY <4>1
    <3>2. CASE B # {}
      <4>1. B \subseteq 1..N
        OBVIOUS
      <4> HIDE DEF B
      <4>2. PICK i \in B : \A j \in B : j <= i
        BY <1>1, <3>2, <4>1, Greatest
      <4>3. i \in Nat /\ i >= 0 /\ \A j \in B : i >= j
        BY <1>1, <4>1, <4>2
      <4>4. QED  BY <4>3
    <3>3. QED  BY <3>1, <3>2
  <2> HIDE DEF B
  <2>2. QED  BY <2>1 DEF Max
<1>3. k \in 0..N
  BY <1>1, <1>2
<1>4. Insert(segs, seg) = (a \o <<seg>>) \o b
  <2>1. (k + 1) - 1 = k
    BY <1>3
  <2> HIDE DEF k
  <2>2. InsertAt(segs, k + 1, seg) = SubSeq(segs, 1, (k + 1) - 1) \o <<seg>> \o SubSeq(segs, k + 1, N)
    BY DEF InsertAt
  <2>3. QED  BY <2>1, <2>2 DEF Insert, k
<1>5. /\ a \in Seq(Seg) /\ Len(a) = k /\ \A i \in 1..k : a[i] = segs[i]
      /\ b \in Seq(Seg) /\ Len(b) = N - k /\ \A i \in 1..N - k : b[i] = segs[k + i]
  <2> HIDE DEF k
  <2>1. a \in Seq(Seg) /\ Len(a) = k /\ \A i \in 1..k : a[i] = segs[i]
    <3>1. 1 \in 1..Len(segs) + 1 /\ k \in (1 - 1)..Len(segs)
      BY <1>1, <1>3
    <3>2. a \in Seq(Seg) /\ Len(a) = k - 1 + 1 /\ \A i \in 1..k - 1 + 1 : a[i] = segs[1 + i - 1]
      BY <3>1, SubSeqProperties
    <3>3. k - 1 + 1 = k /\ \A i \in 1..k : 1 + i - 1 = i
      BY <1>3
    <3> HIDE DEF a
    <3>4. QED  BY <3>2, <3>3
  <2>2. b \in Seq(Seg) /\ Len(b) = N - k /\ \A i \in 1..N - k : b[i] = segs[k + i]
    <3>1. k + 1 \in 1..Len(segs) + 1 /\ N \in ((k + 1) - 1)..Len(segs)
      BY <1>1, <1>3
    <3>2. /\ b \in Seq(Seg) /\ Len(b) = N - (k + 1) + 1
          /\ \A i \in 1..N - (k + 1) + 1 : b[i] = segs[(k + 1) + i - 1]
      BY <3>1, SubSeqProperties
    <3>3. N - (k + 1) + 1 = N - k /\ \A i \in 1..N - k : (k + 1) + i - 1 = k + i
      BY <1>1, <1>3
    <3> HIDE DEF b, N
    <3>4. QED  BY <3>2, <3>3
  <2>3. QED  BY <2>1, <2>2
<1> HIDE DEF a, b
<1>6. segs = a \o b
  <2> HIDE DEF k
  <2>1. /\ a \o b \in Seq(Seg) /\ Len(a \o b) = N
        /\ \A i \in 1..k : (a \o b)[i] = a[i]
        /\ \A i \in 1..N - k : (a \o b)[k + i] = b[i]
    <3>1. /\ a \o b \in Seq(Seg) /\ Len(a \o b) = Len(a) + Len(b)
          /\ \A i \in 1..Len(a) : (a \o b)[i] = a[i]
          /\ \A i \in 1..Len(b) : (a \o b)[Len(a) + i] = b[i]
      <4>1. a \in Seq(Seg) /\ b \in Seq(Seg)
        BY <1>5
      <4>2. QED  BY <4>1, Concatenated
    <3> HIDE DEF N
    <3>2. k + (N - k) = N
      BY <1>1, <1>3
    <3>3. QED  BY <1>5, <3>1, <3>2
  <2>2. ASSUME NEW i \in 1..N  PROVE segs[i] = (a \o b)[i]
    <3>1. CASE i \in 1..k
      BY <1>5, <2>1, <3>1
    <3>2. CASE i \notin 1..k
      <4>1. PICK j \in 1..N - k : i = k + j
        <5>1. i - k \in 1..N - k /\ i = k + (i - k)
          BY <1>1, <1>3, <3>2
        <5>2. QED  BY <5>1
      <4>2. QED  BY <1>5, <2>1, <4>1
    <3>3. QED  BY <3>1, <3>2
  <2>3. QED  BY <2>1, <2>2, SeqEqual
<1>7. ASSUME NEW i \in 1..Len(b)  PROVE b[i].start > seg.start
  <2>1. k + i \in 1..N /\ ~(k >= k + i) /\ b[i] = segs[k + i]
    <3>1. N \in Nat /\ k \in 0..N /\ Len(b) = N - k /\ i \in 1..N - k
      BY <1>1, <1>3, <1>5
    <3>2. b[i] = segs[k + i]
      BY <1>5, <3>1
    <3> HIDE DEF k, N
    <3>3. k + i \in 1..N /\ ~(k >= k + i)
      BY <3>1
    <3>4. QED  BY <3>2, <3>3
  <2>2. ~(segs[k + i].start <= seg.start)
    BY <1>2, <2>1
  <2> DEFINE e == segs[k + i]
  <2>3. e \in Seg /\ e.start \in Nat /\ seg.start \in Nat
    BY <1>1, <2>1
  <2>4. b[i] = e /\ ~(e.start <= seg.start)
    BY <2>1, <2>2
  <2> HIDE DEF e, b, k, N
  <2>5. QED  BY <2>3, <2>4
<1>8. ASSUME Len(a) # 0  PROVE a[Len(a)].start <= seg.start
  <2>1. \A i \in B : segs[i].start <= seg.start
    OBVIOUS
  <2> HIDE DEF k, B, a, N
  <2>2. Len(a) = k /\ k # 0 /\ k \in B
    BY <1>2, <1>5, <1>8
  <2>3. a[k] = segs[k]
    <3>1. k \in Nat
      BY <1>1, <1>3
    <3>2. k \in 1..k
      BY <2>2, <3>1
    <3>3. \A i \in 1..k : a[i] = segs[i]
      BY <1>5, Zenon
    <3>4. QED  BY <3>2, <3>3, Zenon
  <2>4. QED  BY <2>1, <2>2, <2>3
<1>9. Splits(segs, seg, a, b)
  BY <1>4, <1>5, <1>6, <1>7, <1>8 DEF Splits
<1>10. QED  BY <1>9

LEMMA InsertInOrder ==
  ASSUME NEW segs \in Seq(Seg), NEW seg \in Seg
  PROVE  /\ Insert(segs, seg) \in Seq(Seg)
         /\ InOrder(segs) => InOrder(Insert(segs, seg))
         /\ \A k \in 1..Len(Insert(segs, seg)) :
               Insert(segs, seg)[k] = seg \/ \E i \in 1..Len(segs) : Insert(segs, seg)[k] = segs[i]
<1>1. PICK a, b : Splits(segs, seg, a, b)
  BY Inserted
<1> DEFINE m == Len(a)  n == Len(b)  c == a \o <<seg>>  t == c \o b
<1>2. a \in Seq(Seg) /\ b \in Seq(Seg) /\ segs = a \o b /\ Insert(segs, seg) = t
  BY <1>1 DEF Splits
<1>3. m \in Nat /\ n \in Nat
  BY <1>2, LenProperties
<1>4. /\ Len(segs) = m + n
      /\ \A i \in 1..m : segs[i] = a[i]
      /\ \A j \in 1..n : segs[m + j] = b[j]
  BY <1>2, Concatenated
<1>5. /\ c \in Seq(Seg) /\ Len(c) = m + 1 /\ c[m + 1] = seg
      /\ \A i \in 1..m : c[i] = a[i]
  <2>1. <<seg>> \in Seq(Seg) /\ Len(<<seg>>) = 1 /\ <<seg>>[1] = seg /\ 1 \in 1..1
    OBVIOUS
  <2> DEFINE e == <<seg>>
  <2>2. e \in Seq(Seg) /\ Len(e) = 1 /\ e[1] = seg
    BY <2>1
  <2> HIDE DEF e
  <2>3. /\ a \o e \in Seq(Seg) /\ Len(a \o e) = m + Len(e)
        /\ \A i \in 1..m : (a \o e)[i] = a[i]
        /\ \A i \in 1..Len(e) : (a \o e)[m + i] = e[i]
    <3>1. a \in Seq(Seg) /\ e \in Seq(Seg)
      BY <1>2, <2>2
    <3>2. QED  BY <3>1, Concatenated
  <2>4. QED  BY <2>1, <2>2, <2>3 DEF e
<1> HIDE DEF c
<1>6. /\ t \in Seq(Seg) /\ Len(t) = (m + 1) + n
      /\ \A i \in 1..m + 1 : t[i] = c[i]
      /\ \A j \in 1..n : t[(m + 1) + j] = b[j]
  <2>1. c \in Seq(Seg) /\ b \in Seq(Seg)
    BY <1>2, <1>5
  <2>2. /\ c \o b \in Seq(Seg) /\ Len(c \o b) = Len(c) + Len(b)
        /\ \A i \in 1..Len(c) : (c \o b)[i] = c[i]
        /\ \A j \in 1..Len(b) : (c \o b)[Len(c) + j] = b[j]
    BY <2>1, Concatenated
  <2>3. QED  BY <1>5, <2>2
<1> HIDE DEF t
<1>7. /\ \A i \in 1..m : t[i] = segs[i]
      /\ t[m + 1] = seg
      /\ \A j \in 1..n : t[(m + 1) + j] = segs[m + j]
  <2>1. \A i \in 1..m : i \in 1..m + 1
    BY <1>3
  <2>2. m + 1 \in 1..m + 1
    BY <1>3
  <2>3. QED  BY <1>4, <1>5, <1>6, <2>1, <2>2
<1> HIDE DEF m, n
<1>8. /\ \A i \in 1..m : i \in 1..Len(segs)
      /\ \A j \in 1..n : m + j \in 1..Len(segs)
      /\ \A k \in 1..Len(t) : k \in 1..m \/ k = m + 1 \/ \E j \in 1..n : k = (m + 1) + j
  <2>1. \A k \in 1..Len(t) : k \in 1..m \/ k = m + 1 \/ (k - (m + 1) \in 1..n /\ k = (m + 1) + (k - (m + 1)))
    BY <1>3, <1>6
  <2>2. QED  BY <1>3, <1>4, <2>1
<1>9. ASSUME InOrder(segs)  PROVE InOrder(t)
  <2>1. \A i \in 1..m : t[i].start <= seg.start
    <3> SUFFICES ASSUME NEW i \in 1..m  PROVE t[i].start <= seg.start
      OBVIOUS
    <3>1. m \in 1..m /\ m # 0 /\ i <= m
      BY <1>3
    <3>2. segs[i].start <= segs[m].start /\ segs[m].start <= seg.start
      BY <1>1, <1>4, <1>8, <1>9, <3>1 DEF InOrder, Splits, m
    <3>3. segs[i].start \in Nat /\ segs[m].start \in Nat /\ seg.start \in Nat
      BY <1>8, <3>1, SegsAre, ElementOfSeq
    <3>4. QED  BY <1>7, <3>2, <3>3
  <2>2. \A j \in 1..n : seg.start <= t[(m + 1) + j].start
    <3> SUFFICES ASSUME NEW j \in 1..n  PROVE seg.start <= b[j].start
      BY <1>6
    <3>1. b[j].start > seg.start
      BY <1>1 DEF Splits, n
    <3>2. b[j].start \in Nat /\ seg.start \in Nat
      BY <1>2, SegsAre, ElementOfSeq DEF n
    <3>3. QED  BY <3>1, <3>2
  <2>3. \A k \in 1..Len(t) : t[k].start \in Nat
    BY <1>6, SegsAre, ElementOfSeq
  <2>4. seg.start \in Nat
    BY SegsAre
  <2> SUFFICES ASSUME NEW k \in 1..Len(t), NEW l \in 1..Len(t), k <= l
               PROVE  t[k].start <= t[l].start
    BY DEF InOrder
  <2>5. CASE k \in 1..m
    <3>1. CASE l \in 1..m
      BY <1>7, <1>8, <1>9, <2>5, <3>1 DEF InOrder
    <3>2. CASE l = m + 1
      BY <1>7, <2>1, <2>5, <3>2
    <3>3. ASSUME NEW j \in 1..n, l = (m + 1) + j  PROVE t[k].start <= t[l].start
      <4>1. t[k].start <= seg.start /\ seg.start <= t[l].start
        BY <2>1, <2>2, <2>5, <3>3
      <4>2. QED  BY <2>3, <2>4, <4>1
    <3>4. QED  BY <1>8, <3>1, <3>2, <3>3
  <2>6. CASE k = m + 1
    <3>1. CASE l \in 1..m
      BY <1>3, <2>6, <3>1
    <3>2. CASE l = m + 1
      BY <2>3, <2>6, <3>2
    <3>3. ASSUME NEW j \in 1..n, l = (m + 1) + j  PROVE t[k].start <= t[l].start
      BY <1>7, <2>2, <2>6, <3>3
    <3>4. QED  BY <1>8, <3>1, <3>2, <3>3
  <2>7. ASSUME NEW i \in 1..n, k = (m + 1) + i  PROVE t[k].start <= t[l].start
    <3>1. PICK j \in 1..n : l = (m + 1) + j
      <4>1. l \notin 1..m /\ l # m + 1
        BY <1>3, <2>7
      <4>2. QED  BY <1>8, <4>1
    <3>2. m + i <= m + j
      BY <1>3, <2>7, <3>1
    <3>3. segs[m + i].start <= segs[m + j].start
      BY <1>8, <1>9, <3>2 DEF InOrder
    <3>4. QED  BY <1>7, <2>7, <3>1, <3>3
  <2>8. QED  BY <1>8, <2>5, <2>6, <2>7
<1>10. ASSUME NEW k \in 1..Len(t)  PROVE t[k] = seg \/ \E i \in 1..Len(segs) : t[k] = segs[i]
  BY <1>7, <1>8
<1>11. QED  BY <1>2, <1>6, <1>9, <1>10

\* One for the stage is put anywhere among those that are not, another after them all.
LEMMA NotForInserted ==
  ASSUME NEW segs \in Seq(Seg), NEW seg \in Seg,
         \/ Supports(seg)
         \/ \A i \in 1..Len(segs) : ~Supports(segs[i]) => segs[i].start <= seg.start
  PROVE  NotFor(Insert(segs, seg)) = NotFor(segs) \o Item(seg)
<1>1. PICK a, b : Splits(segs, seg, a, b)
  BY Inserted
<1>2. /\ a \in Seq(Seg) /\ b \in Seq(Seg) /\ segs = a \o b
      /\ Insert(segs, seg) = (a \o <<seg>>) \o b
  BY <1>1 DEF Splits
<1> DEFINE x == NotFor(a)  y == Item(seg)  z == NotFor(b)
<1>3. x \in Seq(Facts) /\ y \in Seq(Facts) /\ z \in Seq(Facts)
  BY <1>2, ItemsType, ItemType
<1>4. NotFor(segs) = x \o z
  BY <1>2, NotForConcat
<1>5. NotFor(Insert(segs, seg)) = (x \o y) \o z
  <2> DEFINE e == <<seg>>
  <2>1. e \in Seq(Seg) /\ NotFor(e) = y
    BY NotForOne
  <2> HIDE DEF e, y
  <2>2. a \o e \in Seq(Seg)
    BY <1>2, <2>1, Concatenated
  <2>3. NotFor(a \o e) = x \o y
    BY <1>2, <2>1, NotForConcat
  <2>4. NotFor((a \o e) \o b) = NotFor(a \o e) \o z
    BY <1>2, <2>2, NotForConcat
  <2>5. QED  BY <1>2, <2>3, <2>4 DEF e
<1>6. CASE Supports(seg)
  <2>1. y = <<>>
    BY <1>6 DEF Item
  <2>2. x \o y = x /\ (x \o z) \o y = x \o z
    <3>1. x \o z \in Seq(Facts)
      BY <1>3, ConcatProperties
    <3> HIDE DEF x, z
    <3>2. QED  BY <1>3, <2>1, <3>1, ConcatEmptySeq
  <2>3. QED  BY <1>4, <1>5, <2>2
<1>7. CASE ~Supports(seg)
  <2>1. ASSUME NEW j \in 1..Len(b)  PROVE Supports(b[j])
    <3>1. Len(a) \in Nat /\ Len(segs) = Len(a) + Len(b) /\ Len(b) \in Nat /\ segs[Len(a) + j] = b[j]
      BY <1>2, Concatenated, LenProperties
    <3>2. Len(a) + j \in 1..Len(segs)
      BY <3>1
    <3>3. b[j].start > seg.start
      BY <1>1 DEF Splits
    <3>4. b[j].start \in Nat /\ seg.start \in Nat
      BY <1>2, SegsAre, ElementOfSeq
    <3>5. ~(b[j].start <= seg.start)
      BY <3>3, <3>4
    <3>6. QED  BY <1>7, <3>1, <3>2, <3>5
  <2>2. z = <<>>
    BY <1>2, <2>1, NotForNone
  <2>3. (x \o y) \o z = x \o y /\ x \o z = x
    <3>1. x \o y \in Seq(Facts)
      BY <1>3, ConcatProperties
    <3> HIDE DEF x, y, z
    <3>2. QED  BY <1>3, <2>2, <3>1, ConcatEmptySeq
  <2>4. QED  BY <1>4, <1>5, <2>3
<1>8. QED  BY <1>6, <1>7

\* sorted() inserts one segment after the other.
Sorts(f, s) == /\ f \in [0..Len(s) -> Seq(Seg)] /\ f[0] = <<>>
               /\ \A i \in 1..Len(s) : f[i] = Insert(f[i-1], s[i])

LEMMA SortedSteps ==
  ASSUME NEW s \in Seq(Seg)
  PROVE  \E f : Sorts(f, s) /\ ByStart(s) = f[Len(s)]
<1> DEFINE N == Len(s)
           X == Seq(Seg)
           body(h) == [n \in 0..N |-> IF n = 0 THEN <<>> ELSE Insert(h[n-1], s[n])]
           g == [p \in Nat \X X |-> IF p[1] \in 1..N THEN Insert(p[2], s[p[1]]) ELSE p[2]]
<1>1. N \in Nat /\ (\A i \in 1..N : s[i] \in Seg) /\ <<>> \in X
  BY LenProperties, ElementOfSeq
<1>2. ByStart(s) = (CHOOSE h : h = body(h))[N]
  BY DEF ByStart
<1>3. ASSUME NEW n \in Nat, NEW x \in X
      PROVE  g[<<n, x>>] = (IF n \in 1..N THEN Insert(x, s[n]) ELSE x) /\ g[<<n, x>>] \in X
  <2>1. g[<<n, x>>] = IF n \in 1..N THEN Insert(x, s[n]) ELSE x
    OBVIOUS
  <2>2. n \in 1..N => Insert(x, s[n]) \in X
    BY <1>1, InsertInOrder
  <2> HIDE DEF g, X
  <2>3. QED  BY <2>1, <2>2
<1>4. PICK f \in [0..N -> X] : Iterates(f, N, <<>>, g)
  <2> HIDE DEF g, N, X
  <2>1. Closed(g, X)
    BY <1>3 DEF Closed
  <2>2. QED  BY <1>1, <2>1, Recursion
<1>5. f[0] = <<>> /\ \A i \in 1..N : f[i] = Insert(f[i-1], s[i])
  <2> HIDE DEF g
  <2>1. f[0] = <<>>
    BY <1>4 DEF Iterates
  <2>2. ASSUME NEW i \in 1..N  PROVE f[i] = Insert(f[i-1], s[i])
    <3>1. i \in 0..N /\ i \in Nat /\ i - 1 \in 0..N
      BY <1>1
    <3>2. f[i] = g[<<i, f[i-1]>>] /\ f[i-1] \in X
      BY <1>4, <3>1 DEF Iterates
    <3>3. QED  BY <1>3, <3>1, <3>2
  <2>3. QED  BY <2>1, <2>2
<1>6. f = body(f)
  <2>1. \A n \in 0..N : f[n] = IF n = 0 THEN <<>> ELSE Insert(f[n-1], s[n])
    <3> SUFFICES ASSUME NEW n \in 0..N
                 PROVE  f[n] = IF n = 0 THEN <<>> ELSE Insert(f[n-1], s[n])
      OBVIOUS
    <3>1. n # 0 => n \in 1..N
      BY <1>1
    <3> HIDE DEF N
    <3>2. QED  BY <1>5, <3>1
  <2> HIDE DEF g, X, N
  <2>2. QED  BY <1>4, <2>1
<1> DEFINE c == CHOOSE h : h = body(h)
<1>7. c = body(c)
  <2> HIDE DEF body
  <2>1. QED  BY <1>6
<1> HIDE DEF c
<1>8. c[0] = <<>> /\ \A i \in 1..N : c[i] = Insert(c[i-1], s[i])
  <2> DEFINE b == body(c)
  <2>1. b[0] = <<>> /\ \A i \in 1..N : b[i] = Insert(c[i-1], s[i])
    BY <1>1
  <2> HIDE DEF b
  <2>2. QED  BY <1>7, <2>1 DEF b
<1>9. InStep(c, f, N)
  <2>1. c = [i \in 0..N |-> c[i]]
    <3> DEFINE b == body(c)
    <3>1. b = [i \in 0..N |-> b[i]]
      OBVIOUS
    <3> HIDE DEF b
    <3>2. QED  BY <1>7, <3>1 DEF b
  <2>2. f = [i \in 0..N |-> f[i]]
    BY <1>4
  <2>3. QED  BY <1>5, <1>8, <2>1, <2>2 DEF InStep
<1>10. c = f
  BY <1>1, <1>9, Unique
<1>11. ByStart(s) = f[N]
  BY <1>2, <1>10 DEF c
<1>12. QED  BY <1>4, <1>5, <1>11 DEF Sorts

\* Sorting leaves the segments that are not for the stage as they are, if they are in order.
LEMMA SortKeeps ==
  ASSUME NEW s \in Seq(Seg),
         \A i, j \in 1..Len(s) : i <= j /\ ~Supports(s[i]) /\ ~Supports(s[j])
                                   => s[i].start <= s[j].start
  PROVE  ByStart(s) \in Seq(Seg) /\ InOrder(ByStart(s)) /\ NotFor(ByStart(s)) = NotFor(s)
<1> DEFINE N == Len(s)
           From(u, n) == \A k \in 1..Len(u) : \E i \in 1..n : u[k] = s[i]
<1>1. N \in Nat /\ \A i \in 1..N : s[i] \in Seg
  BY LenProperties, ElementOfSeq
<1>2. PICK f : Sorts(f, s) /\ ByStart(s) = f[N]
  BY SortedSteps
<1>3. /\ Items(s) \in Seq(Seq(Facts)) /\ Len(Items(s)) = N
      /\ \A i \in 1..N : Items(s)[i] = Item(s[i])
      /\ NotFor(s) = FlattenSeq(Items(s))
  BY ItemsType
<1>4. PICK g : Gathers(g, Items(s), Facts) /\ NotFor(s) = g[N]
  BY <1>3, FlattenSteps
<1>5. g[0] = <<>> /\ g \in [0..N -> Seq(Facts)] /\ \A i \in 1..N : g[i] = g[i-1] \o Item(s[i])
  BY <1>3, <1>4 DEF Gathers
<1> DEFINE P == {n \in 0..N : InOrder(f[n]) /\ From(f[n], n) /\ NotFor(f[n]) = g[n]}
<1>6. 0 \in P
  <2> DEFINE z == f[0]
  <2>1. z \in Seq(Seg) /\ Len(z) = 0 /\ z = <<>>
    BY <1>1, <1>2, EmptySeq DEF Sorts
  <2>2. \A i \in 1..Len(z) : FALSE
    BY <2>1
  <2> HIDE DEF z
  <2>3. NotFor(z) = <<>> /\ InOrder(z)
    BY <2>1, <2>2, NotForNone DEF InOrder
  <2>4. QED  BY <1>1, <1>5, <2>2, <2>3 DEF z
<1>7. ASSUME NEW n \in 0..N, n \in P, n < N  PROVE n + 1 \in P
  <2> DEFINE u == f[n]  e == s[n+1]  v == f[n+1]
  <2>1. /\ n + 1 \in 1..N /\ n + 1 \in 0..N /\ (n + 1) - 1 = n /\ 1..n \subseteq 1..n+1
        /\ n + 1 \in 1..n+1 /\ \A i \in 1..n : i \in 1..N /\ i <= n + 1
    BY <1>1, <1>7
  <2>2. u \in Seq(Seg) /\ e \in Seg /\ v = Insert(u, e)
    BY <1>1, <1>2, <2>1 DEF Sorts
  <2>3. InOrder(u) /\ From(u, n) /\ NotFor(u) = g[n] /\ g[n+1] = g[n] \o Item(e)
    BY <1>5, <1>7, <2>1
  <2>4. ~Supports(e) => \A k \in 1..Len(u) : ~Supports(u[k]) => u[k].start <= e.start
    BY <2>1, <2>3
  <2>5. NotFor(v) = g[n+1]
    <3> HIDE DEF u, e, v
    <3>1. NotFor(Insert(u, e)) = NotFor(u) \o Item(e)
      BY <2>2, <2>4, NotForInserted
    <3>2. QED  BY <2>2, <2>3, <3>1
  <2>6. InOrder(v) /\ \A k \in 1..Len(v) : v[k] = e \/ \E i \in 1..Len(u) : v[k] = u[i]
    <3> HIDE DEF u, e, v
    <3>1. QED  BY <2>2, <2>3, InsertInOrder
  <2>7. From(v, n + 1)
    BY <2>1, <2>3, <2>6
  <2>8. QED  BY <2>1, <2>5, <2>6, <2>7
<1>8. N \in P
  <2> HIDE DEF P
  <2>1. 0..N \subseteq P
    BY <1>1, <1>6, <1>7, Induction
  <2>2. QED  BY <1>1, <2>1
<1>9. f[N] \in Seq(Seg)
  BY <1>1, <1>2 DEF Sorts
<1>10. QED  BY <1>2, <1>4, <1>8, <1>9

-----------------------------------------------------------------------------
(* What goes into a stage and comes out                                      *)

Kinds == {"resource", "result", "other"}

\* What is typed and in order
Orderly(v) == v \in Values(Kinds) /\ InOrder(v.segs)
OrderlyResult(v) == Orderly(v) /\ v.kind = "result"

\* What every step keeps
OrderInv == /\ ExecutorTypeOK
            /\ outcome = "running" => stage \in 1..Stages
            /\ \A f \in failures : f[2] < stage
            /\ InOrder(current.segs) /\ InOrder(result.segs)

LEMMA EmptyOrderly == <<>> \in Segs /\ InOrder(<<>>)
<1> DEFINE z == <<>>
<1>1. z \in Segs /\ Len(z) = 0
  BY SegsAre
<1> HIDE DEF z
<1>2. InOrder(z)
  BY <1>1 DEF InOrder
<1>3. QED  BY <1>1, <1>2 DEF z

LEMMA ValueOrderly ==
  ASSUME NEW kind \in Kinds, NEW s \in Statuses, NEW w \in SUBSET Warnings, NEW c \in BOOLEAN,
         NEW g \in Segs, InOrder(g)
  PROVE  /\ Orderly(Value(kind, s, w, c, g))
         /\ Value(kind, s, w, c, g).kind = kind /\ Value(kind, s, w, c, g).segs = g
BY DEF Orderly, Value, Values

LEMMA WorseStatus ==
  ASSUME NEW s \in Statuses, NEW t \in Statuses
  PROVE  Worse(s, t) \in Statuses
BY DEF Worse

LEMMA MergeOrderly ==
  ASSUME OrderInv, NEW v, Orderly(v)
  PROVE  Orderly(Merge(v)) /\ Merge(v).kind = v.kind /\ Merge(v).segs = v.segs
<1>1. /\ result.status \in Statuses /\ result.warnings \in SUBSET Warnings /\ consented \in BOOLEAN
      /\ v.status \in Statuses /\ v.warnings \in SUBSET Warnings /\ v.consent \in BOOLEAN
      /\ v \in Values(Kinds)
  BY DEF OrderInv, ExecutorTypeOK, Values, Orderly
<1>2. Worse(result.status, v.status) \in Statuses
  BY <1>1, WorseStatus
<1>3. result.warnings \cup v.warnings \in SUBSET Warnings /\ (v.consent \/ consented) \in BOOLEAN
  BY <1>1
<1>4. Merge(v) \in Values(Kinds) /\ Merge(v).kind = v.kind /\ Merge(v).segs = v.segs
  BY <1>1, <1>2, <1>3 DEF Merge, Values
<1>5. QED  BY <1>4 DEF Orderly

LEMMA MarkOrderly ==
  ASSUME NEW v, Orderly(v), NEW s \in Statuses, NEW f \in Warnings
  PROVE  /\ Orderly(Mark(v, s, f)) /\ Mark(v, s, f).kind = v.kind /\ Mark(v, s, f).segs = v.segs
BY DEF Orderly, Mark, Values

LEMMA SegsOrderly ==
  ASSUME NEW v, Orderly(v), NEW g \in Segs, InOrder(g)
  PROVE  LET w == [v EXCEPT !.segs = g]
         IN  Orderly(w) /\ w.kind = v.kind /\ w.segs = g
BY DEF Orderly, Values

LEMMA TranscriptsOrderly ==
  ASSUME NEW maker \in SUBSET (1..Stages), NEW g \in Transcripts(maker)
  PROVE  g \in Segs /\ InOrder(g)
<1>1. PICK langs \in [1..Segments -> Languages] :
         g = [i \in 1..Segments |-> [start |-> i, lang |-> langs[i], by |-> maker, skippedBy |-> NoStage]]
  BY DEF Transcripts
<1>2. \A i \in 1..Segments : g[i] \in Seg /\ g[i].start = i
  BY <1>1, ExecutorConstants DEF Seg, NoStage
<1>3. g \in Seq(Seg) /\ Len(g) = Segments
  BY <1>1, <1>2, ExecutorConstants
<1>4. QED  BY <1>2, <1>3, SegsAre, ExecutorConstants DEF InOrder

LEMMA ProcessOrderly ==
  ASSUME NEW g \in Segs, InOrder(g), stage \in 1..Stages
  PROVE  /\ Process(g) \in Segs /\ InOrder(Process(g)) /\ Len(Process(g)) = Len(g)
         /\ \A i \in 1..Len(g) : Process(g)[i].start = g[i].start /\ Process(g)[i].lang = g[i].lang
<1>1. Len(g) \in Nat /\ (\A i \in 1..Len(g) : g[i] \in Seg) /\ Segs = Seq(Seg)
  BY SegsAre, LenProperties, ElementOfSeq
<1>2. Process(g) = [i \in 1..Len(g) |-> [g[i] EXCEPT !.by = @ \cup {stage}]]
  BY DEF Process
<1>3. \A i \in 1..Len(g) : /\ Process(g)[i] \in Seg
                           /\ Process(g)[i].start = g[i].start /\ Process(g)[i].lang = g[i].lang
  <2> TAKE i \in 1..Len(g)
  <2> DEFINE p == g[i]
  <2>1. p \in Seg /\ Process(g)[i] = [p EXCEPT !.by = @ \cup {stage}]
    BY <1>1, <1>2
  <2> HIDE DEF p
  <2>2. [p EXCEPT !.by = @ \cup {stage}] \in Seg
    BY <2>1 DEF Seg
  <2>3. /\ [p EXCEPT !.by = @ \cup {stage}].start = p.start
        /\ [p EXCEPT !.by = @ \cup {stage}].lang = p.lang
    BY <2>1 DEF Seg
  <2>4. QED  BY <2>1, <2>2, <2>3 DEF p
<1>4. Process(g) \in Seq(Seg) /\ Len(Process(g)) = Len(g)
  BY <1>1, <1>2, <1>3
<1>5. QED  BY <1>1, <1>3, <1>4 DEF InOrder

LEMMA TwiceOrderly ==
  ASSUME NEW g \in Seq(Seg), g # <<>>, InOrder(g)
  PROVE  /\ <<Head(g)>> \o g \in Seq(Seg) /\ InOrder(<<Head(g)>> \o g)
         /\ Len(<<Head(g)>> \o g) = Len(g) + 1
         /\ \A k \in 1..Len(g) + 1 : \E i \in 1..Len(g) : (<<Head(g)>> \o g)[k] = g[i]
<1> DEFINE e == <<Head(g)>>  u == e \o g
<1>1. Len(g) \in Nat \ {0} /\ Head(g) = g[1] /\ 1 \in 1..Len(g) /\ g[1] \in Seg
  BY Split, ElementOfSeq
<1>2. e \in Seq(Seg) /\ Len(e) = 1 /\ e[1] = g[1]
  BY <1>1
<1> HIDE DEF e
<1>3. /\ u \in Seq(Seg) /\ Len(u) = Len(e) + Len(g)
      /\ \A i \in 1..Len(e) : u[i] = e[i]
      /\ \A i \in 1..Len(g) : u[Len(e) + i] = g[i]
  BY <1>2, Concatenated
<1> HIDE DEF u
<1> DEFINE spot(k) == IF k = 1 THEN 1 ELSE k - 1
<1>4. /\ Len(u) = Len(g) + 1
      /\ \A k \in 1..Len(g) + 1 : spot(k) \in 1..Len(g)
      /\ \A k, l \in 1..Len(g) + 1 : k <= l => spot(k) <= spot(l)
  BY <1>1, <1>2, <1>3
<1>5. \A k \in 1..Len(g) + 1 : u[k] = g[spot(k)]
  <2> SUFFICES ASSUME NEW k \in 1..Len(g) + 1  PROVE u[k] = g[spot(k)]
    OBVIOUS
  <2>1. CASE k = 1
    BY <1>2, <1>3, <2>1
  <2>2. CASE k # 1
    <3>1. k - 1 \in 1..Len(g) /\ 1 + (k - 1) = k
      BY <1>1, <2>2
    <3>2. QED  BY <1>2, <1>3, <2>2, <3>1
  <2>3. QED  BY <2>1, <2>2
<1> HIDE DEF spot
<1>6. InOrder(u)
  BY <1>4, <1>5 DEF InOrder
<1>7. QED  BY <1>3, <1>4, <1>5, <1>6 DEF u, e

LEMMA TailOrderly ==
  ASSUME NEW g \in Seq(Seg), g # <<>>, InOrder(g)
  PROVE  /\ Tail(g) \in Seq(Seg) /\ InOrder(Tail(g)) /\ Len(Tail(g)) = Len(g) - 1
         /\ \A k \in 1..Len(Tail(g)) : \E i \in 1..Len(g) : Tail(g)[k] = g[i]
<1> DEFINE t == Tail(g)
<1>1. /\ Len(g) \in Nat \ {0} /\ t \in Seq(Seg) /\ Len(t) = Len(g) - 1
      /\ \A i \in 1..Len(g) - 1 : t[i] = g[i + 1]
  BY Split
<1> HIDE DEF t
<1>2. \A i \in 1..Len(t) : i + 1 \in 1..Len(g) /\ t[i] = g[i + 1]
  BY <1>1
<1>3. \A i, j \in 1..Len(t) : i <= j => i + 1 <= j + 1
  BY <1>1
<1>4. InOrder(t)
  BY <1>2, <1>3 DEF InOrder
<1>5. QED  BY <1>1, <1>2, <1>4 DEF t

\* Whatever a stage makes of segments in order is in order; it is as long as
\* they are only if each was processed where it was.
LEMMA ProcessedOrderly ==
  ASSUME NEW g \in Segs, InOrder(g), stage \in 1..Stages, NEW h \in Processed(g)
  PROVE  /\ h \in Segs /\ InOrder(h)
         /\ g # <<>> => /\ Len(h) = Len(g) => h = Process(g)
                        /\ \A k \in 1..Len(h) : \E i \in 1..Len(g) : h[k].lang = g[i].lang
<1>1. Segs = Seq(Seg)
  BY SegsAre
<1>2. CASE g = <<>>
  <2>1. h \in Transcripts({stage}) /\ {stage} \in SUBSET (1..Stages)
    BY <1>2 DEF Processed
  <2>2. QED  BY <1>2, <2>1, TranscriptsOrderly
<1>3. CASE g # <<>>
  <2>1. h \in {Process(g), Process(<<Head(g)>> \o g), Process(Tail(g))}
    BY <1>3 DEF Processed
  <2>2. Len(g) \in Nat
    BY <1>1, LenProperties
  <2>3. CASE h = Process(g)
    BY <1>3, <2>3, ProcessOrderly
  <2>4. CASE h = Process(<<Head(g)>> \o g)
    <3> DEFINE u == <<Head(g)>> \o g
    <3>1. /\ u \in Segs /\ InOrder(u) /\ Len(u) = Len(g) + 1
          /\ \A k \in 1..Len(u) : \E i \in 1..Len(g) : u[k] = g[i]
      BY <1>1, <1>3, TwiceOrderly
    <3> HIDE DEF u
    <3>2. /\ h \in Segs /\ InOrder(h) /\ Len(h) = Len(u)
          /\ \A i \in 1..Len(u) : h[i].lang = u[i].lang
      BY <2>4, <3>1, ProcessOrderly DEF u
    <3>3. Len(h) # Len(g)
      BY <2>2, <3>1, <3>2
    <3>4. QED  BY <3>1, <3>2, <3>3
  <2>5. CASE h = Process(Tail(g))
    <3> DEFINE u == Tail(g)
    <3>1. /\ u \in Segs /\ InOrder(u) /\ Len(u) = Len(g) - 1
          /\ \A k \in 1..Len(u) : \E i \in 1..Len(g) : u[k] = g[i]
      BY <1>1, <1>3, TailOrderly
    <3> HIDE DEF u
    <3>2. /\ h \in Segs /\ InOrder(h) /\ Len(h) = Len(u)
          /\ \A i \in 1..Len(u) : h[i].lang = u[i].lang
      BY <2>5, <3>1, ProcessOrderly DEF u
    <3>3. Len(h) # Len(g)
      BY <2>2, <3>1, <3>2
    <3>4. QED  BY <3>1, <3>2, <3>3
  <2>6. QED  BY <2>1, <2>3, <2>4, <2>5
<1>4. QED  BY <1>2, <1>3

LEMMA ReturnsOrderly ==
  ASSUME NEW input, Orderly(input), stage \in 1..Stages, NEW out \in Returns(input)
  PROVE  OrderlyResult(out) /\ out.segs \in Processed(input.segs)
<1>1. /\ input.segs \in Segs /\ InOrder(input.segs) /\ input.status \in Statuses
      /\ input.warnings \in SUBSET Warnings /\ input.consent \in BOOLEAN /\ "result" \in Kinds
  BY DEF Orderly, Values, Kinds
<1>2. ASSUME NEW s \in Statuses, NEW segs \in Processed(input.segs),
             out = Value("result", s, {}, FALSE, segs)
      PROVE  OrderlyResult(out) /\ out.segs = segs
  <2>1. segs \in Segs /\ InOrder(segs)
    BY <1>1, ProcessedOrderly
  <2>2. QED  BY <1>1, <1>2, <2>1, ValueOrderly DEF OrderlyResult, Value
<1>3. ASSUME NEW s \in Statuses, NEW segs \in Processed(input.segs),
             out = Value("result", Worse(s, input.status), input.warnings, input.consent, segs)
      PROVE  OrderlyResult(out) /\ out.segs = segs
  <2>1. segs \in Segs /\ InOrder(segs)
    BY <1>1, ProcessedOrderly
  <2>2. Worse(s, input.status) \in Statuses
    BY <1>1, WorseStatus
  <2> DEFINE st == Worse(s, input.status)  w == input.warnings  c == input.consent
  <2>3. /\ out = Value("result", st, w, c, segs)
        /\ st \in Statuses /\ w \in SUBSET Warnings /\ c \in BOOLEAN
    BY <1>1, <1>3, <2>2
  <2> HIDE DEF st, w, c
  <2>4. Orderly(out) /\ out.kind = "result" /\ out.segs = segs
    BY <1>1, <2>1, <2>3, ValueOrderly
  <2>5. QED  BY <2>4 DEF OrderlyResult
<1>4. \/ \E s \in Statuses, segs \in Processed(input.segs) : out = Value("result", s, {}, FALSE, segs)
      \/ \E s \in Statuses, segs \in Processed(input.segs) :
            out = Value("result", Worse(s, input.status), input.warnings, input.consent, segs)
  BY DEF Returns, Value
<1>5. QED  BY <1>2, <1>3, <1>4

-----------------------------------------------------------------------------
(* Routing                                                                   *)

LEMMA WithSkippedOrderly ==
  ASSUME OrderInv, stage \in 1..Stages
  PROVE  /\ WithSkipped \in Seq(Seg) /\ InOrder(WithSkipped) /\ Len(WithSkipped) = Len(current.segs)
         /\ \A i \in 1..Len(current.segs) :
               /\ WithSkipped[i].start = current.segs[i].start
               /\ Item(WithSkipped[i]) = Item(current.segs[i])
               /\ Supports(WithSkipped[i]) <=> Supports(current.segs[i])
         /\ NotFor(WithSkipped) = NotFor(current.segs)
<1> DEFINE g == current.segs  w == WithSkipped
<1>1. g \in Seq(Seg) /\ InOrder(g)
  BY SegsAre DEF OrderInv, ExecutorTypeOK, Values
<1>2. Len(g) \in Nat /\ (\A i \in 1..Len(g) : g[i] \in Seg) /\ stage \in 0..Stages
  BY <1>1, LenProperties, ElementOfSeq, ExecutorConstants
<1>3. w = [i \in 1..Len(g) |-> MarkSkipped(g[i])]
  BY DEF WithSkipped
<1> HIDE DEF g, w
<1>4. ASSUME NEW p \in Seg
      PROVE  /\ MarkSkipped(p) \in Seg /\ MarkSkipped(p).start = p.start
             /\ MarkSkipped(p).lang = p.lang /\ MarkSkipped(p).by = p.by
  BY <1>2 DEF MarkSkipped, Seg
<1>5. \A i \in 1..Len(g) : /\ w[i] \in Seg /\ w[i].start = g[i].start
                           /\ w[i].lang = g[i].lang /\ w[i].by = g[i].by
  BY <1>2, <1>3, <1>4
<1>6. w \in Seq(Seg) /\ Len(w) = Len(g)
  BY <1>2, <1>3, <1>5
<1>7. \A i \in 1..Len(g) : Item(w[i]) = Item(g[i]) /\ (Supports(w[i]) <=> Supports(g[i]))
  BY <1>5 DEF Item, Supports
<1>8. InOrder(w)
  BY <1>1, <1>5, <1>6 DEF InOrder
<1>9. NotFor(w) = NotFor(g)
  BY <1>1, <1>6, <1>7, NotForSame
<1>10. QED  BY <1>5, <1>6, <1>7, <1>8, <1>9 DEF g, w

\* Putting processed and skipped segments together keeps order, and whatever is not for the stage.
LEMMA RecombineKeeps ==
  ASSUME OrderInv, stage \in 1..Stages, Supported # <<>>, NEW new \in Processed(Supported)
  PROVE  /\ Recombine(new) \in Segs /\ InOrder(Recombine(new))
         /\ NotFor(Recombine(new)) = NotFor(current.segs)
<1> DEFINE g == current.segs  w == WithSkipped  sub == Supported  N == Len(g)
<1>1. g \in Seq(Seg) /\ InOrder(g) /\ Segs = Seq(Seg) /\ N \in Nat
  BY SegsAre, LenProperties DEF OrderInv, ExecutorTypeOK, Values
<1>2. /\ w \in Seq(Seg) /\ InOrder(w) /\ Len(w) = N /\ NotFor(w) = NotFor(g)
      /\ \A i \in 1..N : /\ w[i] \in Seg /\ w[i].start = g[i].start /\ Item(w[i]) = Item(g[i])
                         /\ Supports(w[i]) <=> Supports(g[i])
  BY WithSkippedOrderly, ElementOfSeq
<1>3. Places \in SUBSET (1..N) /\ \A i \in 1..N : i \in Places <=> Supports(g[i])
  BY DEF Places
<1>4. sub = Picked(g, Places)
  BY DEF Supported
<1> HIDE DEF g, w, sub, N
<1>5. sub \in Seq(Seg) /\ InOrder(sub)
  BY <1>1, <1>4, PickedInOrder
<1>6. /\ \A i \in Places : UpTo(Places, i) \in 1..Len(sub) /\ sub[UpTo(Places, i)] = g[i]
  BY <1>1, <1>3, <1>4, PickedPlaces DEF N
<1>7. \A k \in 1..Len(sub) : Supports(sub[k])
  <2>1. PICK f : Picks(f, g, Places, Seg) /\ sub = f[N]
    BY <1>1, <1>4, PickedSteps DEF N
  <2> DEFINE P == {n \in 0..N : \A k \in 1..Len(f[n]) : Supports(f[n][k])}
  <2>2. 0 \in P
    BY <1>1, <2>1, EmptySeq DEF Picks
  <2>3. ASSUME NEW n \in 0..N, n \in P, n < N  PROVE n + 1 \in P
    <3> DEFINE u == f[n]  e == g[n+1]  v == f[n+1]
    <3>1. n + 1 \in 1..N /\ n + 1 \in 0..N /\ (n + 1) - 1 = n
      BY <1>1, <2>3
    <3>2. u \in Seq(Seg) /\ e \in Seg /\ v = IF n + 1 \in Places THEN Append(u, e) ELSE u
      BY <1>1, <2>1, <3>1, ElementOfSeq DEF Picks, N
    <3>3. \A k \in 1..Len(u) : Supports(u[k])
      BY <2>3
    <3>4. n + 1 \in Places => Supports(e)
      BY <1>3, <3>1
    <3> HIDE DEF u, e, v
    <3>5. /\ Len(u) \in Nat /\ Len(Append(u, e)) = Len(u) + 1 /\ Append(u, e)[Len(u) + 1] = e
          /\ \A k \in 1..Len(u) : Append(u, e)[k] = u[k]
      BY <3>2, Appended, LenProperties
    <3>6. \A k \in 1..Len(Append(u, e)) : k \in 1..Len(u) \/ k = Len(u) + 1
      BY <3>5
    <3>7. \A k \in 1..Len(v) : Supports(v[k])
      BY <3>2, <3>3, <3>4, <3>5, <3>6
    <3>8. QED  BY <3>1, <3>7 DEF v
  <2>4. N \in P
    <3> HIDE DEF P
    <3>1. 0..N \subseteq P
      BY <1>1, <2>2, <2>3, Induction
    <3>2. QED  BY <1>1, <3>1
  <2>5. QED  BY <2>1, <2>4
<1>8. /\ new \in Seq(Seg) /\ InOrder(new) /\ (Len(new) = Len(sub) => new = Process(sub))
      /\ \A k \in 1..Len(new) : \E i \in 1..Len(sub) : new[k].lang = sub[i].lang
  BY <1>1, <1>5, ProcessedOrderly DEF sub
<1>9. \A k \in 1..Len(new) : Supports(new[k])
  BY <1>7, <1>8 DEF Supports
<1>10. CASE Len(new) = Len(sub)
  <2> DEFINE spot(i) == Cardinality({j \in Places : j <= i})
             r == [i \in 1..N |-> IF i \in Places THEN new[spot(i)] ELSE w[i]]
  <2>1. Recombine(new) = r
    BY <1>10 DEF Recombine, sub, N, w, g
  <2>2. ASSUME NEW i \in 1..N
        PROVE  r[i] \in Seg /\ r[i].start = g[i].start /\ Item(r[i]) = Item(g[i])
    <3>1. CASE i \in Places
      <4>1. spot(i) = UpTo(Places, i) /\ r[i] = new[spot(i)]
        BY <3>1 DEF UpTo
      <4> HIDE DEF spot, r
      <4>2. spot(i) \in 1..Len(sub) /\ sub[spot(i)] = g[i]
        BY <1>6, <3>1, <4>1
      <4>3. new = Process(sub) /\ new[spot(i)].start = sub[spot(i)].start /\ new[spot(i)] \in Seg
        BY <1>1, <1>5, <1>8, <1>10, <4>2, ProcessOrderly, ElementOfSeq
      <4>4. Supports(r[i]) /\ Supports(g[i])
        <5>1. Supports(g[i])
          BY <1>3, <3>1
        <5> DEFINE k == spot(i)
        <5>2. k \in 1..Len(new) /\ r[i] = new[k]
          BY <1>10, <4>1, <4>2
        <5> HIDE DEF k
        <5>3. Supports(new[k])
          BY <1>9, <5>2
        <5>4. QED  BY <5>1, <5>2, <5>3 DEF Supports
      <4> DEFINE k == spot(i)
      <4>5. r[i] = new[k] /\ new[k] \in Seg /\ new[k].start = sub[k].start /\ sub[k] = g[i]
        BY <4>1, <4>2, <4>3
      <4> HIDE DEF k
      <4>6. Item(r[i]) = <<>> /\ Item(g[i]) = <<>>
        BY <4>4 DEF Item
      <4>7. r[i] \in Seg
        BY <4>5
      <4>8. r[i].start = g[i].start
        BY <4>5
      <4>9. Item(r[i]) = Item(g[i])
        BY <4>6
      <4>10. QED  BY <4>7, <4>8, <4>9
    <3>2. CASE i \notin Places
      <4>1. r[i] = w[i]
        BY <3>2
      <4>2. QED  BY <1>2, <4>1
    <3>3. QED  BY <3>1, <3>2
  <2>3. r = [i \in 1..N |-> r[i]]
    OBVIOUS
  <2> HIDE DEF r
  <2>4. r \in Seq(Seg) /\ Len(r) = N
    BY <1>1, <2>2, <2>3
  <2>5. InOrder(r)
    BY <1>1, <2>2, <2>4 DEF InOrder, N
  <2>6. NotFor(r) = NotFor(g)
    BY <1>1, <2>2, <2>4, NotForSame DEF N
  <2>7. QED  BY <1>1, <2>1, <2>4, <2>5, <2>6 DEF g
<1>11. CASE Len(new) # Len(sub)
  <2> DEFINE sk == Skipped  s == new \o sk
  <2>1. sk = Picked(w, (1..N) \ Places)
    BY DEF Skipped, w, N, g
  <2>2. Recombine(new) = ByStart(s)
    BY <1>11 DEF Recombine, sub
  <2> HIDE DEF sk
  <2>3. sk \in Seq(Seg) /\ InOrder(sk)
    BY <1>2, <2>1, PickedInOrder
  <2>4. NotFor(sk) = NotFor(g)
    <3>1. \A i \in 1..Len(w) : ~Supports(w[i]) => i \in (1..N) \ Places
      BY <1>2, <1>3
    <3>2. NotFor(sk) = NotFor(w)
      BY <1>2, <2>1, <3>1, NotForPicked
    <3>3. QED  BY <1>2, <3>2
  <2>5. /\ s \in Seq(Seg)
        /\ \A i \in 1..Len(new) : s[i] = new[i]
        /\ \A i \in 1..Len(sk) : s[Len(new) + i] = sk[i]
        /\ \A k \in 1..Len(s) : k \in 1..Len(new) \/ k - Len(new) \in 1..Len(sk)
    <3>1. new \in Seq(Seg) /\ sk \in Seq(Seg)
      BY <1>8, <2>3
    <3>2. QED  BY <3>1, Concatenated
  <2>6. NotFor(s) = NotFor(g)
    <3>1. NotFor(new) = <<>>
      BY <1>8, <1>9, NotForNone
    <3>2. NotFor(s) = NotFor(new) \o NotFor(sk)
      <4>1. new \in Seq(Seg) /\ sk \in Seq(Seg)
        BY <1>8, <2>3
      <4>2. QED  BY <4>1, NotForConcat
    <3>3. NotFor(sk) \in Seq(Facts)
      BY <2>3, ItemsType
    <3> DEFINE q == NotFor(sk)
    <3>4. q \in Seq(Facts) /\ NotFor(s) = <<>> \o q
      BY <3>1, <3>2, <3>3
    <3> HIDE DEF q, s
    <3>5. NotFor(s) = q
      BY <3>4, ConcatEmptySeq
    <3>6. QED  BY <2>4, <3>5 DEF q
  <2>7. ASSUME NEW i \in 1..Len(s), NEW j \in 1..Len(s), i <= j, ~Supports(s[i]), ~Supports(s[j])
        PROVE  s[i].start <= s[j].start
    <3> HIDE DEF s
    <3>1. Len(new) \in Nat
      BY <1>8, LenProperties
    <3>2. /\ i - Len(new) \in 1..Len(sk) /\ j - Len(new) \in 1..Len(sk)
      BY <1>9, <2>5, <2>7
    <3>3. /\ Len(new) + (i - Len(new)) = i /\ Len(new) + (j - Len(new)) = j
          /\ i - Len(new) <= j - Len(new)
      <4>1. i \in Int /\ j \in Int
        OBVIOUS
      <4>2. QED  BY <2>7, <3>1, <4>1
    <3>4. s[i] = sk[i - Len(new)] /\ s[j] = sk[j - Len(new)]
      BY <2>5, <3>2, <3>3
    <3>5. QED  BY <2>3, <3>2, <3>3, <3>4 DEF InOrder
  <2> HIDE DEF s
  <2>8. ByStart(s) \in Seq(Seg) /\ InOrder(ByStart(s)) /\ NotFor(ByStart(s)) = NotFor(s)
    BY <2>5, <2>7, SortKeeps
  <2>9. QED  BY <1>1, <2>2, <2>6, <2>8 DEF g
<1>12. QED  BY <1>10, <1>11

-----------------------------------------------------------------------------
(* The steps                                                                 *)

LEMMA OrderInit == ExecutorInit => OrderInv
<1> SUFFICES ASSUME ExecutorInit  PROVE OrderInv
  OBVIOUS
<1>1. Orderly(result) /\ result.kind = "result"
  BY EmptyOrderly, ValueOrderly DEF ExecutorInit, Kinds, Statuses, Value
<1>2. Orderly(current)
  <2>1. CASE current = Value("resource", Complete, {}, consented, <<>>)
    BY <2>1, EmptyOrderly, ValueOrderly DEF ExecutorInit, Kinds, Statuses
  <2>2. CASE \E segs \in Transcripts({}) : current = Value("result", Degraded, {}, consented, segs)
    <3>1. PICK segs \in Transcripts({}) : current = Value("result", Degraded, {}, consented, segs)
      BY <2>2
    <3>2. segs \in Segs /\ InOrder(segs)
      BY TranscriptsOrderly
    <3>3. QED  BY <3>1, <3>2, ValueOrderly DEF ExecutorInit, Kinds, Statuses
  <2>3. QED  BY <2>1, <2>2 DEF ExecutorInit, Inputs
<1>3. stage = 1 /\ 1 \in 1..Stages /\ 1 \in 1..(Stages + 1)
  BY ExecutorConstants DEF ExecutorInit
<1>4. mode \in [1..Stages -> Modes] /\ supports \in [1..Stages -> SUBSET Languages]
  BY DEF ExecutorInit
<1>5. result \in Values({"result"})
  BY <1>1 DEF Orderly, Values
<1>6. QED  BY <1>1, <1>2, <1>3, <1>4, <1>5 DEF ExecutorInit, OrderInv, ExecutorTypeOK, Orderly, Kinds

\* What is known of the state before a step
LEMMA RunningFacts ==
  ASSUME OrderInv, outcome = "running"
  PROVE  /\ stage \in 1..Stages /\ Orderly(current) /\ OrderlyResult(result)
         /\ stage + 1 \in 1..(Stages + 1) /\ stage + 1 # stage
         /\ stage + 1 \in 1..Stages \/ stage = Stages
         /\ \A k \in {"partial", "degraded", "routed"} : <<k, stage>> \in Warnings /\ <<k, stage>> \notin failures
<1>1. stage \in 1..Stages
  BY DEF OrderInv
<1>2. /\ stage + 1 \in 1..(Stages + 1) /\ stage + 1 # stage
      /\ stage + 1 \in 1..Stages \/ stage = Stages
  BY <1>1, ExecutorConstants
<1>3. Orderly(current) /\ OrderlyResult(result)
  BY DEF OrderInv, ExecutorTypeOK, Orderly, OrderlyResult, Kinds, Values
<1>4. \A k \in {"partial", "degraded", "routed"} : <<k, stage>> \in Warnings
  BY <1>1 DEF Warnings
<1>5. ~(stage < stage)
  BY <1>1
<1>6. \A k : <<k, stage>>[2] = stage
  OBVIOUS
<1>7. \A k : <<k, stage>> \notin failures
  BY <1>5, <1>6 DEF OrderInv
<1>8. QED  BY <1>1, <1>2, <1>3, <1>4, <1>7

LEMMA RaiseOrderly ==
  ASSUME OrderInv, UNCHANGED pipeline, UNCHANGED failures,
         NEW e \in {"aborted", "statusError"}, Raise(e)
  PROVE  OrderInv'
BY DEF OrderInv, ExecutorTypeOK, Raise, pipeline

\* Whichever way the loop advances
LEMMA AdvanceOrderly ==
  ASSUME OrderInv, outcome = "running", UNCHANGED pipeline, Advance,
         Orderly(current'), OrderlyResult(result'),
         \/ UNCHANGED failures
         \/ \E k \in {"partial", "degraded"} : failures' = failures \cup {<<k, stage>>}
  PROVE  OrderInv'
<1>1. /\ stage \in 1..Stages /\ stage + 1 \in 1..(Stages + 1)
      /\ stage + 1 \in 1..Stages \/ stage = Stages
      /\ \A k \in {"partial", "degraded"} : <<k, stage>> \in Warnings
  BY RunningFacts
<1>2. /\ mode' \in [1..Stages -> Modes] /\ supports' \in [1..Stages -> SUBSET Languages]
      /\ perSegment' \in BOOLEAN /\ consented' \in BOOLEAN
  BY DEF OrderInv, ExecutorTypeOK, pipeline
<1>3. stage' = stage + 1 /\ outcome' = IF stage = Stages THEN "returned" ELSE "running"
  BY DEF Advance
<1>4. outcome' \in {"running", "returned", "aborted", "statusError"}
  BY <1>3
<1>5. outcome' = "running" => stage' \in 1..Stages
  BY <1>1, <1>3
<1>6. failures' \subseteq Warnings
  <2>1. failures \subseteq Warnings
    BY DEF OrderInv, ExecutorTypeOK
  <2>2. QED  BY <1>1, <2>1
<1>7. \A f \in failures' : f[2] < stage'
  <2> TAKE f \in failures'
  <2>1. CASE f \in failures
    <3>1. f[2] < stage /\ f[2] \in 1..Stages
      BY <2>1 DEF OrderInv, ExecutorTypeOK, Warnings
    <3>2. QED  BY <1>1, <1>3, <3>1
  <2>2. CASE f \notin failures
    <3>1. f[2] = stage
      BY <2>2
    <3>2. QED  BY <1>1, <1>3, <3>1
  <2>3. QED  BY <2>1, <2>2
<1>8. current' \in Values({"resource", "result", "other"}) /\ InOrder(current.segs)'
  BY DEF Orderly, Kinds, InOrder
<1>9. result' \in Values({"result"}) /\ InOrder(result.segs)'
  BY DEF Orderly, OrderlyResult, Values, InOrder
<1>10. ExecutorTypeOK'
  BY <1>1, <1>2, <1>3, <1>4, <1>6, <1>8, <1>9 DEF ExecutorTypeOK
<1>11. QED  BY <1>5, <1>7, <1>8, <1>9, <1>10 DEF OrderInv

LEMMA AcceptOrderly ==
  ASSUME OrderInv, outcome = "running", UNCHANGED pipeline,
         NEW out, OrderlyResult(out), Accept(out)
  PROVE  OrderInv' /\ current'.segs = out.segs
<1>1. Orderly(Merge(out)) /\ Merge(out).kind = out.kind /\ Merge(out).segs = out.segs
  BY MergeOrderly DEF OrderlyResult
<1>2. current' = Merge(out) /\ result' = Merge(out)
  BY DEF Accept
<1>3. Orderly(current') /\ OrderlyResult(result')
  BY <1>1, <1>2 DEF OrderlyResult
<1>4. Advance /\ UNCHANGED failures
  BY DEF Accept
<1>5. OrderInv'
  BY <1>3, <1>4, AdvanceOrderly
<1>6. QED  BY <1>1, <1>2, <1>5

\* A failure that is not made good leaves the loop where it is; one that is
\* made good is one more failure.
FailedHere == stage' = stage \/ failures' # failures

LEMMA RaiseStays ==
  ASSUME OrderInv, outcome = "running", UNCHANGED pipeline, UNCHANGED failures,
         NEW e \in {"aborted", "statusError"}, Raise(e)
  PROVE  OrderInv' /\ FailedHere
BY RaiseOrderly DEF Raise, FailedHere

LEMMA MadeGood ==
  ASSUME OrderInv, outcome = "running", UNCHANGED pipeline, Advance,
         Orderly(current'), OrderlyResult(result'),
         NEW k \in {"partial", "degraded"}, failures' = failures \cup {<<k, stage>>}
  PROVE  OrderInv' /\ FailedHere
<1>1. OrderInv'
  BY AdvanceOrderly
<1>2. <<k, stage>> \notin failures
  BY RunningFacts
<1>3. QED  BY <1>1, <1>2 DEF FailedHere

LEMMA SkipOrderly ==
  ASSUME OrderInv, outcome = "running", UNCHANGED pipeline, Skip
  PROVE  OrderInv' /\ FailedHere
<1>1. CASE CanMark(result, Partial)
  <2> DEFINE r == Mark(result, Partial, <<"partial", stage>>)
  <2>1. /\ result' = r /\ current' = r /\ Advance
        /\ failures' = failures \cup {<<"partial", stage>>}
    BY <1>1 DEF Skip
  <2>2. OrderlyResult(result) /\ Partial \in Statuses /\ <<"partial", stage>> \in Warnings
    BY RunningFacts DEF Statuses
  <2>3. OrderlyResult(r) /\ Orderly(r)
    BY <2>2, MarkOrderly DEF OrderlyResult
  <2> HIDE DEF r
  <2>4. QED  BY <2>1, <2>3, MadeGood
<1>2. CASE ~CanMark(result, Partial)
  <2>1. Raise("statusError") /\ UNCHANGED failures
    BY <1>2 DEF Skip
  <2>2. QED  BY <2>1, RaiseStays
<1>3. QED  BY <1>1, <1>2

LEMMA DegradeOrderly ==
  ASSUME OrderInv, outcome = "running", UNCHANGED pipeline,
         NEW input, Orderly(input), DegradeReturns(input)
  PROVE  OrderInv' /\ FailedHere
<1> DEFINE fresh == Value("result", Degraded, {}, FALSE, input.segs)
           kept == Value("result", Worse(Degraded, input.status), input.warnings, input.consent, input.segs)
           base(out) == IF out.kind = "result" THEN Merge(out) ELSE result
           r(out) == Mark(base(out), Degraded, <<"degraded", stage>>)
<1>1. PICK out \in {fresh, kept, NotAResult} :
        IF CanMark(base(out), Degraded)
        THEN /\ result' = r(out)
             /\ current' = IF out.kind = "result" THEN base(out) ELSE out
             /\ Advance
             /\ failures' = failures \cup {<<"degraded", stage>>}
        ELSE Raise("aborted") /\ UNCHANGED failures
  BY DEF DegradeReturns
<1>2. /\ input.segs \in Segs /\ InOrder(input.segs) /\ input.status \in Statuses
      /\ input.warnings \in SUBSET Warnings /\ input.consent \in BOOLEAN
      /\ "result" \in Kinds /\ "other" \in Kinds /\ Degraded \in Statuses /\ Complete \in Statuses
  BY DEF Orderly, Values, Kinds, Statuses
<1>3. Orderly(fresh)
  BY <1>2, ValueOrderly
<1>4. Orderly(kept)
  <2> DEFINE s == Worse(Degraded, input.status)  w == input.warnings  c == input.consent
  <2>1. s \in Statuses /\ w \in SUBSET Warnings /\ c \in BOOLEAN
    BY <1>2, WorseStatus
  <2> HIDE DEF s, w, c
  <2>2. Orderly(Value("result", s, w, c, input.segs))
    BY <1>2, <2>1, ValueOrderly
  <2>3. QED  BY <2>2 DEF s, w, c
<1>5. Orderly(NotAResult)
  BY <1>2, EmptyOrderly, ValueOrderly DEF NotAResult
<1>6. Orderly(out)
  BY <1>1, <1>3, <1>4, <1>5
<1> HIDE DEF fresh, kept
<1>7. OrderlyResult(result) /\ <<"degraded", stage>> \in Warnings
  BY RunningFacts
<1>8. OrderlyResult(base(out))
  <2>1. CASE out.kind = "result"
    <3>1. Orderly(Merge(out)) /\ Merge(out).kind = "result"
      BY <1>6, <2>1, MergeOrderly
    <3>2. QED  BY <2>1, <3>1 DEF OrderlyResult
  <2>2. CASE out.kind # "result"
    BY <1>7, <2>2
  <2>3. QED  BY <2>1, <2>2
<1> DEFINE b == base(out)  m == r(out)
<1>9. OrderlyResult(m)
  <2>1. Orderly(b) /\ b.kind = "result" /\ m = Mark(b, Degraded, <<"degraded", stage>>)
    BY <1>8 DEF OrderlyResult
  <2> HIDE DEF b, m
  <2>2. QED  BY <1>2, <1>7, <2>1, MarkOrderly DEF OrderlyResult
<1>10. CASE CanMark(b, Degraded)
  <2>1. /\ result' = m /\ current' = IF out.kind = "result" THEN b ELSE out
        /\ Advance /\ failures' = failures \cup {<<"degraded", stage>>}
    BY <1>1, <1>10
  <2>2. Orderly(b)
    BY <1>8 DEF OrderlyResult
  <2> HIDE DEF b, m
  <2>3. Orderly(current') /\ OrderlyResult(result')
    BY <1>6, <1>9, <2>1, <2>2
  <2>4. QED  BY <2>1, <2>3, MadeGood
<1>11. CASE ~CanMark(b, Degraded)
  <2>1. Raise("aborted") /\ UNCHANGED failures
    BY <1>1, <1>11
  <2>2. QED  BY <2>1, RaiseStays
<1>12. QED  BY <1>10, <1>11

LEMMA NoPathOrderly ==
  ASSUME OrderInv, outcome = "running", UNCHANGED pipeline, NoDegradePath
  PROVE  OrderInv' /\ FailedHere
<1> DEFINE s == IF result.status >= Degraded THEN result.status ELSE Partial
           r == Mark(result, s, <<"partial", stage>>)
<1>1. /\ result' = r /\ current' = r /\ Advance
      /\ failures' = failures \cup {<<"partial", stage>>}
  BY DEF NoDegradePath
<1>2. OrderlyResult(result) /\ <<"partial", stage>> \in Warnings /\ s \in Statuses
  BY RunningFacts DEF Statuses, OrderlyResult, Orderly, Values
<1> HIDE DEF s
<1>3. OrderlyResult(r) /\ Orderly(r)
  BY <1>2, MarkOrderly DEF OrderlyResult
<1> HIDE DEF r
<1>4. QED  BY <1>1, <1>3, MadeGood

LEMMA FailOrderly ==
  ASSUME OrderInv, outcome = "running", UNCHANGED pipeline,
         NEW input, Orderly(input), Fail(input)
  PROVE  OrderInv' /\ FailedHere
<1>1. CASE Raise("aborted") /\ UNCHANGED failures
  BY <1>1, RaiseStays
<1>2. CASE Skip
  BY <1>2, SkipOrderly
<1>3. CASE DegradeReturns(input)
  BY <1>3, DegradeOrderly
<1>4. CASE NoDegradePath
  BY <1>4, NoPathOrderly
<1>5. QED  BY <1>1, <1>2, <1>3, <1>4 DEF Fail

\* What RoutingKeepsOthers says of a step
KeepsOthers == Routed /\ stage' = stage + 1 /\ failures' = failures
               => NotFor(current'.segs) = NotFor(current.segs)

LEMMA FailedKeeps ==
  ASSUME OrderInv, outcome = "running", FailedHere
  PROVE  KeepsOthers
BY RunningFacts DEF FailedHere, KeepsOthers

LEMMA RunOrderly ==
  ASSUME OrderInv, outcome = "running", UNCHANGED pipeline, Run
  PROVE  OrderInv' /\ KeepsOthers
<1>1. PICK out \in Returns(current) : ~Routed /\ Accept(out)
  BY DEF Run
<1>2. stage \in 1..Stages /\ Orderly(current)
  BY RunningFacts
<1>3. OrderlyResult(out)
  BY <1>2, ReturnsOrderly
<1>4. QED  BY <1>1, <1>3, AcceptOrderly DEF KeepsOthers

LEMMA RunRoutedOrderly ==
  ASSUME OrderInv, outcome = "running", UNCHANGED pipeline, RunRouted
  PROVE  OrderInv' /\ KeepsOthers
<1> DEFINE whole(out) == [out EXCEPT !.segs = Recombine(out.segs)]
<1>1. /\ Supported # <<>>
      /\ \E out \in Returns(SubResult) :
            IF CanMark(whole(out), RouteStatus)
            THEN Accept(Mark(whole(out), RouteStatus, RouteWarning))
            ELSE Fail(current)
  BY DEF RunRouted
<1>2. PICK out \in Returns(SubResult) :
            IF CanMark(whole(out), RouteStatus)
            THEN Accept(Mark(whole(out), RouteStatus, RouteWarning))
            ELSE Fail(current)
  BY <1>1
<1>3. stage \in 1..Stages /\ Orderly(current) /\ <<"routed", stage>> \in Warnings
  BY RunningFacts
<1>4. Supported \in Segs /\ InOrder(Supported)
  <2>1. current.segs \in Seq(Seg) /\ InOrder(current.segs)
    BY <1>3, SegsAre DEF Orderly, Values
  <2>2. QED  BY <2>1, SegsAre, PickedInOrder DEF Supported
<1>5. Orderly(SubResult) /\ SubResult.segs = Supported
  <2> DEFINE w == current.warnings  c == current.consent
  <2>1. w \in SUBSET Warnings /\ c \in BOOLEAN /\ "result" \in Kinds /\ Complete \in Statuses
    BY <1>3 DEF Orderly, Values, Kinds, Statuses
  <2>2. SubResult = Value("result", Complete, w, c, Supported)
    BY DEF SubResult
  <2> HIDE DEF w, c
  <2>3. QED  BY <1>4, <2>1, <2>2, ValueOrderly
<1>6. OrderlyResult(out) /\ out.segs \in Processed(Supported)
  <2> DEFINE input == SubResult
  <2>1. Orderly(input) /\ out \in Returns(input) /\ input.segs = Supported
    BY <1>5
  <2> HIDE DEF input
  <2>2. OrderlyResult(out) /\ out.segs \in Processed(input.segs)
    BY <1>3, <2>1, ReturnsOrderly
  <2>3. QED  BY <2>1, <2>2
<1> DEFINE g == Recombine(out.segs)  v == whole(out)  m == Mark(v, RouteStatus, RouteWarning)
<1>7. g \in Segs /\ InOrder(g) /\ NotFor(g) = NotFor(current.segs)
  BY <1>1, <1>3, <1>6, RecombineKeeps
<1>8. Orderly(v) /\ v.kind = "result" /\ v.segs = g
  <2>1. v = [out EXCEPT !.segs = g] /\ Orderly(out) /\ out.kind = "result"
    BY <1>6 DEF OrderlyResult
  <2> HIDE DEF g, v
  <2>2. QED  BY <1>7, <2>1, SegsOrderly
<1>9. OrderlyResult(m) /\ m.segs = g
  <2>1. RouteStatus \in Statuses /\ RouteWarning \in Warnings
    BY <1>3 DEF RouteStatus, RouteWarning, Statuses
  <2> HIDE DEF g, v
  <2>2. Orderly(m) /\ m.kind = v.kind /\ m.segs = v.segs
    BY <1>8, <2>1, MarkOrderly
  <2>3. QED  BY <1>8, <2>2 DEF OrderlyResult
<1>10. CASE CanMark(v, RouteStatus)
  <2>1. Accept(m)
    BY <1>2, <1>10
  <2> HIDE DEF g, v, m
  <2>2. OrderInv' /\ current'.segs = g
    BY <1>9, <2>1, AcceptOrderly
  <2>3. QED  BY <1>7, <2>2 DEF KeepsOthers
<1>11. CASE ~CanMark(v, RouteStatus)
  <2>1. Fail(current)
    BY <1>2, <1>11
  <2>2. QED  BY <1>3, <2>1, FailOrderly, FailedKeeps
<1>12. QED  BY <1>10, <1>11

LEMMA RouteNothingOrderly ==
  ASSUME OrderInv, outcome = "running", UNCHANGED pipeline, RouteNothing
  PROVE  OrderInv' /\ KeepsOthers
<1> DEFINE g == WithSkipped  v == [current EXCEPT !.segs = g]  m == Mark(v, Partial, RouteWarning)
<1>1. current.kind = "result" /\ (IF CanMark(current, Partial) THEN Accept(m) ELSE Fail(current))
  BY DEF RouteNothing, Routed
<1>2. stage \in 1..Stages /\ Orderly(current) /\ <<"routed", stage>> \in Warnings
  BY RunningFacts
<1>3. g \in Segs /\ InOrder(g) /\ NotFor(g) = NotFor(current.segs)
  BY <1>2, WithSkippedOrderly, SegsAre
<1> HIDE DEF g
<1>4. Orderly(v) /\ v.kind = "result" /\ v.segs = g
  BY <1>1, <1>2, <1>3, SegsOrderly
<1> HIDE DEF v
<1>5. OrderlyResult(m) /\ m.segs = g
  <2>1. Partial \in Statuses /\ RouteWarning \in Warnings
    BY <1>2 DEF RouteWarning, Statuses
  <2>2. Orderly(m) /\ m.kind = v.kind /\ m.segs = v.segs
    BY <1>4, <2>1, MarkOrderly
  <2>3. QED  BY <1>4, <2>2 DEF OrderlyResult
<1> HIDE DEF m
<1>6. CASE CanMark(current, Partial)
  <2>1. OrderInv' /\ current'.segs = g
    BY <1>1, <1>5, <1>6, AcceptOrderly
  <2>2. QED  BY <1>3, <2>1 DEF KeepsOthers
<1>7. CASE ~CanMark(current, Partial)
  <2>1. Fail(current)
    BY <1>1, <1>7
  <2>2. QED  BY <1>2, <2>1, FailOrderly, FailedKeeps
<1>8. QED  BY <1>6, <1>7

LEMMA UnroutableOrderly ==
  ASSUME OrderInv, outcome = "running", UNCHANGED pipeline, Unroutable
  PROVE  OrderInv' /\ KeepsOthers
<1>1. Raise("aborted") /\ UNCHANGED failures
  BY DEF Unroutable
<1>2. QED  BY <1>1, RaiseStays, FailedKeeps

LEMMA StageRaisesOrderly ==
  ASSUME OrderInv, outcome = "running", UNCHANGED pipeline, StageRaises
  PROVE  OrderInv' /\ KeepsOthers
<1>1. Orderly(current)
  BY RunningFacts
<1>2. CASE Fail(current)
  BY <1>1, <1>2, FailOrderly, FailedKeeps
<1>3. CASE Raise("aborted") /\ UNCHANGED failures
  BY <1>3, RaiseStays, FailedKeeps
<1>4. QED  BY <1>2, <1>3 DEF StageRaises

LEMMA ReturnsOtherOrderly ==
  ASSUME OrderInv, outcome = "running", UNCHANGED pipeline, StageReturnsOther
  PROVE  OrderInv' /\ KeepsOthers
<1> DEFINE input == IF Routed THEN current ELSE NotAResult
<1>1. Orderly(NotAResult)
  BY EmptyOrderly, ValueOrderly DEF NotAResult, Kinds, Statuses
<1>2. Orderly(input)
  BY <1>1, RunningFacts
<1>3. Fail(input)
  BY DEF StageReturnsOther
<1> HIDE DEF input
<1>4. QED  BY <1>2, <1>3, FailOrderly, FailedKeeps

LEMMA ExecutorStep ==
  ASSUME OrderInv, ExecutorNext
  PROVE  OrderInv' /\ KeepsOthers
<1>1. outcome = "running" /\ UNCHANGED pipeline
  BY DEF ExecutorNext
<1>2. CASE Run
  BY <1>1, <1>2, RunOrderly
<1>3. CASE RunRouted
  BY <1>1, <1>3, RunRoutedOrderly
<1>4. CASE RouteNothing
  BY <1>1, <1>4, RouteNothingOrderly
<1>5. CASE Unroutable
  BY <1>1, <1>5, UnroutableOrderly
<1>6. CASE StageRaises
  BY <1>1, <1>6, StageRaisesOrderly
<1>7. CASE StageReturnsOther
  BY <1>1, <1>7, ReturnsOtherOrderly
<1>8. QED  BY <1>2, <1>3, <1>4, <1>5, <1>6, <1>7 DEF ExecutorNext

\* The segments of whatever the stages are given, and of the Result, are in the
\* order of their start times, and each failure is of a stage already left.
THEOREM ExecutorInOrder == ExecutorSpec => []OrderInv
<1>1. OrderInv /\ UNCHANGED executorVars => OrderInv'
  BY DEF OrderInv, ExecutorTypeOK, executorVars, pipeline, InOrder
<1>2. OrderInv /\ [ExecutorNext]_executorVars => OrderInv'
  BY <1>1, ExecutorStep
<1>3. QED  BY OrderInit, <1>2, PTL DEF ExecutorSpec

\* Whatever the stages return, the loop keeps its stage, its running value and
\* its Result of their types: a value that is no Result never becomes the Result.
THEOREM ExecutorTypes == ExecutorSpec => []ExecutorTypeOK
BY ExecutorInOrder, PTL DEF OrderInv

\* Per-segment routing: a stage that succeeds loses, reorders or processes no
\* segment whose language it does not support.
THEOREM RoutingKeepsTheRest == ExecutorSpec => RoutingKeepsOthers
<1>1. OrderInv /\ [ExecutorNext]_executorVars => [KeepsOthers]_executorVars
  BY ExecutorStep
<1>2. QED  BY ExecutorInOrder, <1>1, PTL DEF ExecutorSpec, RoutingKeepsOthers, KeepsOthers

=============================================================================

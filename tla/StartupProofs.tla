---------------------------- MODULE StartupProofs ---------------------------
(***************************************************************************)
(* For any hooks and plugins, and any dependencies between them: what the  *)
(* order of Kahn's algorithm is, and what the life cycle and the plugin    *)
(* registry make of it when hooks fail, registrations come in between and  *)
(* calls are repeated.                                                     *)
(*                                                                         *)
(* The order is computed by recursion.  What that computes is proved by    *)
(* induction over the turns: the set of turns after which a fact holds has *)
(* 0 in it and n + 1 with n (Induction), as otherwise the set of the turns *)
(* it does not has a least one (Least).  Recursion and Unique say that the *)
(* recursive definition has exactly one solution.  Operators stand for the *)
(* facts (Ordered, RootsFirst, TurnInv, ...) that the lemmas pass on.      *)
(*                                                                         *)
(* The life cycle rests on StartupInv and the plugins on PluginInv, which  *)
(* are inductive: each is what has to be known of the lists that are left  *)
(* in the middle of a startup or a shutdown for the properties to hold     *)
(* when it is over.                                                        *)
(*                                                                         *)
(* The files a framework needs are there: for any number of threads and    *)
(* processes, files and models, what get() and download() have returned is *)
(* there, a process fetches a resource once, and only crashes and          *)
(* interrupts leave temporary files.  Nothing but a verified file is ever  *)
(* moved to the place of a file with a checksum, which delete() never      *)
(* removes (Pins); the lock of the process is held from the second look to *)
(* the end (Locks); and a download that no delete() disturbs leaves what   *)
(* it has passed (Passed).                                                 *)
(***************************************************************************)
EXTENDS Lifecycle, PluginRegistry, ModelFiles, SequenceFacts

\* The recursion in Kept, and what it comes to
KeptUpTo(s, T, f) ==
  f[0] = <<>> /\ \A i \in 1..Len(s) : f[i] = IF s[i] \in T THEN Append(f[i-1], s[i]) ELSE f[i-1]

LEMMA KeptRecursion ==
  ASSUME NEW S, NEW s \in Seq(S), NEW T
  PROVE  \E f \in [0..Len(s) -> Seq(S)] : KeptUpTo(s, T, f) /\ Kept(s, T) = f[Len(s)]
<1> DEFINE N == Len(s)
           X == Seq(S)
           Added(i, x) == IF s[i] \in T THEN Append(x, s[i]) ELSE x
           g == [p \in Nat \X X |-> IF p[1] \in 1..N THEN Added(p[1], p[2]) ELSE p[2]]
           body(f) == [i \in 0..N |-> IF i = 0 THEN <<>>
                                      ELSE IF s[i] \in T THEN Append(f[i-1], s[i]) ELSE f[i-1]]
<1>1. N \in Nat /\ \A i \in 1..N : s[i] \in S
  BY LenProperties, ElementOfSeq
<1>2. ASSUME NEW n \in Nat, NEW x \in X
      PROVE  g[<<n, x>>] = (IF n \in 1..N THEN Added(n, x) ELSE x) /\ g[<<n, x>>] \in X
  <2>1. g[<<n, x>>] = IF n \in 1..N THEN Added(n, x) ELSE x
    OBVIOUS
  <2>2. n \in 1..N => Append(x, s[n]) \in X
    BY <1>1
  <2>3. QED  BY <2>1, <2>2
<1>3. <<>> \in X
  OBVIOUS
<1>4. PICK f \in [0..N -> X] : Iterates(f, N, <<>>, g)
  <2> HIDE DEF g, N, X
  <2>1. Closed(g, X)
    BY <1>2 DEF Closed
  <2>2. QED  BY <1>1, <1>3, <2>1, Recursion
<1>5. f[0] = <<>> /\ \A i \in 1..N : f[i] = Added(i, f[i-1])
  <2> HIDE DEF g, X, Added
  <2>1. f[0] = <<>>
    BY <1>1, <1>4 DEF Iterates
  <2>2. ASSUME NEW i \in 1..N  PROVE f[i] = Added(i, f[i-1])
    <3>1. i \in 0..N /\ i # 0 /\ i \in Nat /\ i - 1 \in 0..N
      BY <1>1
    <3>2. f[i] = g[<<i, f[i-1]>>] /\ f[i-1] \in X
      BY <1>4, <3>1 DEF Iterates
    <3>3. QED  BY <1>2, <3>1, <3>2
  <2>3. QED  BY <2>1, <2>2
<1> HIDE DEF g, X
<1>6. ASSUME NEW h  PROVE h = body(h) <=> h = f
  <2>1. f = body(f)
    <3> HIDE DEF Added
    <3>1. \A i \in 0..N : f[i] = IF i = 0 THEN <<>> ELSE Added(i, f[i-1])
      BY <1>1, <1>5
    <3>2. QED  BY <1>4, <3>1 DEF Added
  <2>2. ASSUME h = body(h)  PROVE h = f
    <3> DEFINE e == body(h)
    <3>1. \A i \in 0..N : e[i] = IF i = 0 THEN <<>> ELSE Added(i, h[i-1])
      OBVIOUS
    <3>2. h[0] = <<>> /\ h = [i \in 0..N |-> h[i]]
      BY <1>1, <2>2
    <3>3. \A i \in 1..N : h[i] = Added(i, h[i-1])
      <4> TAKE i \in 1..N
      <4>1. i \in 0..N /\ i # 0
        BY <1>1
      <4> HIDE DEF e
      <4>2. e[i] = Added(i, h[i-1])
        BY <3>1, <4>1
      <4>3. QED  BY <2>2, <4>2 DEF e
    <3> HIDE DEF e, Added, body, N
    <3>4. f = [i \in 0..N |-> f[i]]
      BY <1>4
    <3>5. InStep(h, f, N)
      BY <1>5, <3>2, <3>3, <3>4 DEF InStep
    <3>6. QED  BY <1>1, <3>5, Unique
  <2>3. QED  BY <2>1, <2>2
<1>7. Kept(s, T) = f[N]
  <2>1. Kept(s, T) = (CHOOSE h : h = body(h))[N]
    BY DEF Kept
  <2> HIDE DEF body
  <2>2. (CHOOSE h : h = body(h)) = f
    BY <1>6
  <2>3. QED  BY <2>1, <2>2
<1>8. KeptUpTo(s, T, f)
  BY <1>5 DEF KeptUpTo
<1>9. QED  BY <1>7, <1>8 DEF X

LEMMA KeptProperties ==
  ASSUME NEW S, NEW s \in Seq(S), NEW T
  PROVE  /\ Kept(s, T) \in Seq(S) /\ ToSet(Kept(s, T)) = ToSet(s) \cap T
         /\ IsInjective(s) => IsInjective(Kept(s, T))
<1> DEFINE N == Len(s)
           Sofar(i) == {s[j] : j \in 1..i}
<1>1. N \in Nat /\ (\A i \in 1..N : s[i] \in S) /\ ToSet(s) = Sofar(N)
  BY Elements
<1>2. PICK f \in [0..N -> Seq(S)] : KeptUpTo(s, T, f) /\ Kept(s, T) = f[N]
  BY KeptRecursion
<1> DEFINE P == {i \in 0..N : ToSet(f[i]) = Sofar(i) \cap T /\ (IsInjective(s) => IsInjective(f[i]))}
<1>3. 0 \in P
  <2>1. ToSet(<<>>) = {} /\ IsInjective(<<>>)
    BY DEF ToSet, IsInjective
  <2>2. Sofar(0) = {}
    OBVIOUS
  <2>3. QED  BY <1>1, <1>2, <2>1, <2>2 DEF KeptUpTo
<1>4. ASSUME NEW n \in 0..N, n \in P, n < N  PROVE n + 1 \in P
  <2>1. n + 1 \in 1..N /\ n + 1 \in 0..N /\ (n + 1) - 1 = n /\ 1..n+1 = 1..n \cup {n+1} /\ n + 1 \notin 1..n
    BY <1>1, <1>4
  <2>2. f[n + 1] = IF s[n + 1] \in T THEN Append(f[n], s[n + 1]) ELSE f[n]
    BY <1>2, <2>1 DEF KeptUpTo
  <2>3. Sofar(n + 1) = Sofar(n) \cup {s[n + 1]}
    BY <2>1
  <2>4. f[n] \in Seq(S) /\ s[n + 1] \in S
    BY <1>1, <1>2, <2>1
  <2>5. ToSet(f[n]) = Sofar(n) \cap T /\ (IsInjective(s) => IsInjective(f[n]))
    BY <1>4
  <2>6. ASSUME IsInjective(s)  PROVE s[n + 1] \notin Sofar(n)
    <3>1. \A i, j \in 1..N : s[i] = s[j] => i = j
      BY <2>6, Elements
    <3>2. \A j \in 1..n : j \in 1..N /\ j # n + 1
      BY <1>1, <2>1
    <3>3. QED  BY <2>1, <3>1, <3>2
  <2>7. CASE s[n + 1] \in T
    <3> HIDE DEF Sofar
    <3>1. /\ ToSet(Append(f[n], s[n + 1])) = ToSet(f[n]) \cup {s[n + 1]}
          /\ IsInjective(f[n]) /\ s[n + 1] \notin ToSet(f[n]) => IsInjective(Append(f[n], s[n + 1]))
      BY <2>4, Appended
    <3>2. QED  BY <2>1, <2>2, <2>3, <2>5, <2>6, <2>7, <3>1
  <2>8. CASE s[n + 1] \notin T
    <3> HIDE DEF Sofar
    <3>1. QED  BY <2>1, <2>2, <2>3, <2>5, <2>8
  <2>9. QED  BY <2>7, <2>8
<1>5. N \in P
  <2> HIDE DEF P
  <2>1. 0..N \subseteq P
    BY <1>1, <1>3, <1>4, Induction
  <2>2. QED  BY <1>1, <2>1
<1>6. f[N] \in Seq(S)
  BY <1>1, <1>2
<1>7. QED
  <2> HIDE DEF Sofar, N
  <2>1. QED  BY <1>1, <1>2, <1>5, <1>6

\* A sequence without repetitions is as long as the one that lists the whole
\* set exactly when it lists the whole set.
Lists(s, R) == s \in Seq(R) /\ IsInjective(s) /\ ToSet(s) = R

LEMMA Counting ==
  ASSUME NEW R, NEW s, Lists(s, R), NEW t \in Seq(R), IsInjective(t)
  PROVE  Len(t) = Len(s) <=> ToSet(t) = R
<1> DEFINE m == Len(s)  n == Len(t)
<1> USE DEF Lists
<1>1. m \in Nat /\ n \in Nat /\ DOMAIN s = 1..m /\ DOMAIN t = 1..n
  BY Elements
<1>2. s \in [1..m -> R] /\ t \in [1..n -> R]
  BY LenProperties
<1>3. s \in Injection(1..m, R) /\ t \in Injection(1..n, R)
  BY <1>1, <1>2, Elements DEF Injection, IsInjective
<1>4. R = {s[i] : i \in 1..m} /\ ToSet(t) = {t[i] : i \in 1..n}
  BY Elements
<1>5. s \in Bijection(1..m, R)
  BY <1>2, <1>3, <1>4 DEF Bijection, Surjection
<1>6. IsFiniteSet(1..m) /\ Cardinality(1..m) = m /\ IsFiniteSet(1..n) /\ Cardinality(1..n) = n
  <2>1. m >= 0 /\ n >= 0 /\ m \in Int /\ n \in Int
    BY <1>1
  <2> HIDE DEF m, n
  <2>2. IsFiniteSet(1..m) /\ Cardinality(1..m) = IF 1 > m THEN 0 ELSE m - 1 + 1
    BY <2>1, FS_Interval
  <2>3. IsFiniteSet(1..n) /\ Cardinality(1..n) = IF 1 > n THEN 0 ELSE n - 1 + 1
    BY <2>1, FS_Interval
  <2>4. QED  BY <2>1, <2>2, <2>3
<1>7. IsFiniteSet(R) /\ Cardinality(R) = m
  BY <1>5, <1>6, FS_Bijection DEF ExistsBijection
<1>8. n = m <=> t \in Surjection(1..n, R)
  BY <1>3, <1>6, <1>7, FS_Injection
<1>9. t \in Surjection(1..n, R) <=> ToSet(t) = R
  BY <1>2, <1>4 DEF Surjection
<1>10. QED  BY <1>8, <1>9

-----------------------------------------------------------------------------
(* Kahn's algorithm                                                          *)

\* Each comes after all it needs.
Ordered(s, needs) == \A k \in 1..Len(s) : needs[s[k]] \subseteq {s[j] : j \in 1..k-1}

\* What needs nothing comes first.
RootsFirst(s, needs) ==
  \A i, j \in 1..Len(s) : i < j /\ needs[s[j]] = {} => needs[s[i]] = {}

\* After turn i, with the order so far and the queue: each whose needs have had
\* their turn has had it or is queued.
TurnInv(R, needs, i, order, queue) ==
  /\ order \in Seq(R) /\ queue \in Seq(R)
  /\ IsInjective(order) /\ IsInjective(queue) /\ ToSet(order) \cap ToSet(queue) = {}
  /\ ToSet(order) \cup ToSet(queue) = {n \in R : needs[n] \subseteq ToSet(order)}
  /\ Len(order) = i \/ queue = <<>>
  /\ Ordered(order, needs)
  /\ RootsFirst(order, needs) /\ RootsFirst(queue, needs)
  /\ \A m \in ToSet(order), n \in ToSet(queue) : needs[n] = {} => needs[m] = {}

LEMMA StartInv ==
  ASSUME NEW R, NEW s, Lists(s, R), NEW needs
  PROVE  \E q \in Seq(R) : /\ KahnStart(s, needs) = [order |-> <<>>, queue |-> q]
                           /\ TurnInv(R, needs, 0, <<>>, q)
<1> USE DEF Lists
<1> DEFINE q == Kept(s, {n \in ToSet(s) : needs[n] = {}})
<1>1. q \in Seq(R) /\ ToSet(q) = {n \in R : needs[n] = {}} /\ IsInjective(q)
  BY KeptProperties
<1>2. <<>> \in Seq(R) /\ Len(<<>>) = 0 /\ ToSet(<<>>) = {} /\ IsInjective(<<>>)
  BY DEF ToSet, IsInjective
<1>3. KahnStart(s, needs) = [order |-> <<>>, queue |-> q]
  BY DEF KahnStart
<1> HIDE DEF q
<1>4. \A i \in 1..Len(q) : needs[q[i]] = {}
  <2>1. \A i \in 1..Len(q) : q[i] \in ToSet(q)
    BY <1>1, Elements
  <2>2. QED  BY <1>1, <2>1
<1>5. RootsFirst(q, needs) /\ RootsFirst(<<>>, needs) /\ Ordered(<<>>, needs)
  BY <1>2, <1>4 DEF RootsFirst, Ordered
<1>6. TurnInv(R, needs, 0, <<>>, q)
  BY <1>1, <1>2, <1>5 DEF TurnInv
<1>7. QED  BY <1>1, <1>3, <1>6

LEMMA TurnKeepsInv ==
  ASSUME NEW R, NEW s, Lists(s, R), NEW needs,
         NEW i \in Nat, NEW done \in Seq(R), NEW waiting \in Seq(R),
         TurnInv(R, needs, i, done, waiting)
  PROVE  \E order \in Seq(R), queue \in Seq(R) :
            /\ KahnTurn(s, needs, [order |-> done, queue |-> waiting]) = [order |-> order, queue |-> queue]
            /\ TurnInv(R, needs, i + 1, order, queue)
<1>1. CASE waiting = <<>>
  <2>1. TurnInv(R, needs, i + 1, done, waiting)
    BY <1>1 DEF TurnInv
  <2>2. KahnTurn(s, needs, [order |-> done, queue |-> waiting]) = [order |-> done, queue |-> waiting]
    BY <1>1 DEF KahnTurn
  <2>3. QED  BY <2>1, <2>2
<1>2. CASE waiting # <<>>
  <2> DEFINE h == Head(waiting)  rest == Tail(waiting)
             order == Append(done, h)
             ready == {n \in R : h \in needs[n] /\ needs[n] \subseteq ToSet(order)}
             more == Kept(s, ready)
             queue == rest \o more
             m == Len(done)  l == Len(rest)
  <2>1. KahnTurn(s, needs, [order |-> done, queue |-> waiting]) = [order |-> order, queue |-> queue]
    BY <1>2 DEF KahnTurn, Lists
  <2>2. /\ IsInjective(done) /\ IsInjective(waiting) /\ ToSet(done) \cap ToSet(waiting) = {}
        /\ ToSet(done) \cup ToSet(waiting) = {n \in R : needs[n] \subseteq ToSet(done)}
        /\ m = i /\ Ordered(done, needs)
        /\ RootsFirst(done, needs) /\ RootsFirst(waiting, needs)
        /\ \A d \in ToSet(done), w \in ToSet(waiting) : needs[w] = {} => needs[d] = {}
    BY <1>2 DEF TurnInv
  <2>3. /\ h \in ToSet(waiting) /\ h = waiting[1] /\ rest \in Seq(R)
        /\ ToSet(waiting) = ToSet(rest) \cup {h} /\ h \notin ToSet(rest) /\ IsInjective(rest)
        /\ Len(waiting) = l + 1 /\ l \in Nat
        /\ \A k \in 1..l : rest[k] = waiting[k + 1]
    <3>1. /\ h \in ToSet(waiting) /\ h = waiting[1] /\ rest \in Seq(R)
          /\ ToSet(waiting) = ToSet(rest) \cup {h}
          /\ IsInjective(waiting) => h \notin ToSet(rest) /\ IsInjective(rest)
          /\ Len(waiting) \in Nat \ {0} /\ l = Len(waiting) - 1
          /\ \A k \in 1..Len(waiting) - 1 : rest[k] = waiting[k + 1]
      BY <1>2, Split
    <3> HIDE DEF h, rest, l
    <3>2. QED  BY <2>2, <3>1
  <2>4. h \in R /\ needs[h] \subseteq ToSet(done)
    BY <2>2, <2>3
  <2>5. /\ order \in Seq(R) /\ Len(order) = m + 1 /\ m \in Nat
        /\ \A k \in 1..m : order[k] = done[k] /\ done[k] \in ToSet(done)
        /\ order[m + 1] = h
        /\ ToSet(done) = {done[j] : j \in 1..m}
        /\ ToSet(order) = ToSet(done) \cup {h} /\ IsInjective(order)
    <3> HIDE DEF h
    <3>1. h \notin ToSet(done)
      BY <2>2, <2>3
    <3>2. m \in Nat /\ ToSet(done) = {done[j] : j \in 1..m} /\ \A k \in 1..m : done[k] \in ToSet(done)
      BY Elements
    <3>3. /\ order \in Seq(R) /\ Len(order) = m + 1
          /\ \A k \in 1..m : order[k] = done[k]
          /\ order[m + 1] = h
          /\ ToSet(order) = ToSet(done) \cup {h}
          /\ IsInjective(done) /\ h \notin ToSet(done) => IsInjective(order)
      BY <2>4, Appended
    <3> HIDE DEF order, m
    <3>4. QED  BY <2>2, <3>1, <3>2, <3>3
  <2> HIDE DEF h, rest, order, m, l
  <2>6. more \in Seq(R) /\ ToSet(more) = ready /\ IsInjective(more)
    BY KeptProperties DEF Lists
  <2>7. /\ ready \cap (ToSet(done) \cup ToSet(waiting)) = {} /\ ready \subseteq R
        /\ \A n \in ready : needs[n] # {}
    BY <2>2, <2>3
  <2>8. {n \in R : needs[n] \subseteq ToSet(order)}
          = {n \in R : needs[n] \subseteq ToSet(done)} \cup ready
    BY <2>5
  <2> HIDE DEF ready, more
  <2>9. /\ queue \in Seq(R) /\ ToSet(queue) = ToSet(rest) \cup ready /\ IsInjective(queue)
        /\ \A k \in 1..l : queue[k] = rest[k]
        /\ \A k \in 1..Len(queue) : k \notin 1..l => queue[k] \in ready
    <3>1. ToSet(rest) \cap ToSet(more) = {}
      BY <2>3, <2>6, <2>7
    <3>2. /\ queue \in Seq(R) /\ ToSet(queue) = ToSet(rest) \cup ready /\ IsInjective(queue)
          /\ \A k \in 1..l : queue[k] = rest[k]
          /\ \A k \in 1..Len(more) : queue[l + k] = more[k]
          /\ \A k \in 1..Len(queue) : k \in 1..l \/ k - l \in 1..Len(more)
      BY <2>3, <2>6, <3>1, Concatenated DEF l
    <3> HIDE DEF queue
    <3>3. ASSUME NEW k \in 1..Len(queue), k \notin 1..l  PROVE queue[k] \in ready
      <4>1. k - l \in 1..Len(more) /\ l + (k - l) = k
        BY <2>3, <3>2, <3>3
      <4>2. queue[k] = more[k - l]
        BY <3>2, <4>1
      <4>3. QED  BY <2>6, <4>1, <4>2, Elements
    <3>4. QED  BY <3>2, <3>3
  <2> HIDE DEF queue
  <2>10. ToSet(order) \cap ToSet(queue) = {}
    BY <2>2, <2>3, <2>5, <2>7, <2>9
  <2>11. ToSet(order) \cup ToSet(queue) = {n \in R : needs[n] \subseteq ToSet(order)}
    BY <2>2, <2>3, <2>5, <2>8, <2>9
  <2>12. Ordered(order, needs)
    <3>1. ASSUME NEW k \in 1..Len(order)  PROVE needs[order[k]] \subseteq {order[j] : j \in 1..k-1}
      <4>1. CASE k \in 1..m
        <5>1. needs[done[k]] \subseteq {done[j] : j \in 1..k-1}
          BY <2>2, <4>1 DEF Ordered, m
        <5>2. \A j \in 1..k-1 : done[j] = order[j]
          BY <2>5, <4>1
        <5>3. {done[j] : j \in 1..k-1} = {order[j] : j \in 1..k-1}
          BY <5>2
        <5>4. QED  BY <2>5, <4>1, <5>1, <5>3
      <4>2. CASE k = m + 1
        <5>1. k - 1 = m /\ order[k] = h
          BY <2>5, <4>2
        <5>2. {done[j] : j \in 1..m} = {order[j] : j \in 1..m}
          BY <2>5
        <5>3. QED  BY <2>4, <2>5, <5>1, <5>2
      <4>3. k \in 1..m \/ k = m + 1
        BY <2>5
      <4>4. QED  BY <4>1, <4>2, <4>3
    <3>2. QED  BY <3>1 DEF Ordered
  <2>13. RootsFirst(order, needs)
    <3>1. ASSUME NEW j \in 1..Len(order), NEW k \in 1..Len(order), j < k, needs[order[k]] = {}
          PROVE  needs[order[j]] = {}
      <4>1. j \in 1..m /\ (k \in 1..m \/ k = m + 1)
        BY <2>5, <3>1
      <4>2. CASE k \in 1..m
        <5>1. needs[done[k]] = {} /\ order[j] = done[j]
          BY <2>5, <3>1, <4>1, <4>2
        <5>2. QED  BY <2>2, <3>1, <4>1, <4>2, <5>1 DEF RootsFirst, m
      <4>3. CASE k = m + 1
        <5>1. needs[h] = {} /\ order[j] \in ToSet(done)
          BY <2>5, <3>1, <4>1, <4>3
        <5>2. QED  BY <2>2, <2>3, <5>1
      <4>4. QED  BY <4>1, <4>2, <4>3
    <3>2. QED  BY <3>1 DEF RootsFirst
  <2>14. RootsFirst(queue, needs)
    <3>1. ASSUME NEW j \in 1..Len(queue), NEW k \in 1..Len(queue), j < k, needs[queue[k]] = {}
          PROVE  needs[queue[j]] = {}
      <4>1. k \in 1..l
        BY <2>7, <2>9, <3>1
      <4>2. j \in 1..l
        BY <2>3, <3>1, <4>1
      <4>3. j + 1 \in 1..Len(waiting) /\ k + 1 \in 1..Len(waiting) /\ j + 1 < k + 1
        BY <2>3, <3>1, <4>1, <4>2
      <4>4. queue[j] = waiting[j + 1] /\ queue[k] = waiting[k + 1]
        BY <2>3, <2>9, <4>1, <4>2
      <4>5. needs[waiting[k + 1]] = {} => needs[waiting[j + 1]] = {}
        BY <2>2, <4>3 DEF RootsFirst
      <4>6. QED  BY <3>1, <4>4, <4>5
    <3>2. QED  BY <3>1 DEF RootsFirst
  <2>15. ASSUME NEW d \in ToSet(order), NEW w \in ToSet(queue), needs[w] = {}
         PROVE  needs[d] = {}
    <3>1. w \in ToSet(rest)
      BY <2>7, <2>9, <2>15
    <3>2. CASE d \in ToSet(done)
      BY <2>2, <2>3, <2>15, <3>1, <3>2
    <3>3. CASE d = h
      <4>1. PICK k \in 1..l : w = rest[k]
        BY <2>3, <3>1, Elements DEF l
      <4>2. k + 1 \in 1..Len(waiting) /\ 1 \in 1..Len(waiting) /\ 1 < k + 1 /\ w = waiting[k + 1]
        BY <2>3, <4>1
      <4>3. needs[waiting[k + 1]] = {} => needs[waiting[1]] = {}
        BY <2>2, <4>2 DEF RootsFirst
      <4>4. QED  BY <2>3, <2>15, <3>3, <4>2, <4>3
    <3>4. QED  BY <2>5, <3>2, <3>3
  <2>16. Len(order) = i + 1
    BY <2>2, <2>5
  <2>17. TurnInv(R, needs, i + 1, order, queue)
    BY <2>5, <2>9, <2>10, <2>11, <2>12, <2>13, <2>14, <2>15, <2>16 DEF TurnInv
  <2>18. QED  BY <2>1, <2>5, <2>9, <2>17
<1>3. QED  BY <1>1, <1>2

\* The recursion in KahnRun, and what it comes to
LEMMA KahnRecursion ==
  ASSUME NEW R, NEW s, Lists(s, R), NEW needs
  PROVE  \E order \in Seq(R), queue \in Seq(R) :
            Kahn(s, needs) = order /\ TurnInv(R, needs, Len(s), order, queue)
<1> DEFINE N == Len(s)
           X == [order : Seq(R), queue : Seq(R)]
           Holds(i, b) == \E order \in Seq(R), queue \in Seq(R) :
                             b = [order |-> order, queue |-> queue] /\ TurnInv(R, needs, i, order, queue)
           c == KahnStart(s, needs)
           Turn(b) == KahnTurn(s, needs, b)
           g == [p \in Nat \X X |-> IF Holds(p[1] - 1, p[2]) /\ p[1] # 0 THEN Turn(p[2]) ELSE p[2]]
           body(f) == [i \in 0..N |-> IF i = 0 THEN KahnStart(s, needs)
                                      ELSE KahnTurn(s, needs, f[i - 1])]
<1>1. N \in Nat
  BY Elements DEF Lists
<1>2. Holds(0, c) /\ c \in X
  <2>1. PICK q \in Seq(R) : c = [order |-> <<>>, queue |-> q] /\ TurnInv(R, needs, 0, <<>>, q)
    BY StartInv
  <2> HIDE DEF c
  <2>2. <<>> \in Seq(R)
    OBVIOUS
  <2>3. QED  BY <2>1, <2>2
<1>3. ASSUME NEW i \in Nat, NEW b \in X, Holds(i, b)  PROVE Holds(i + 1, Turn(b)) /\ Turn(b) \in X
  <2>1. PICK done \in Seq(R), waiting \in Seq(R) :
           b = [order |-> done, queue |-> waiting] /\ TurnInv(R, needs, i, done, waiting)
    BY <1>3
  <2>2. PICK order \in Seq(R), queue \in Seq(R) :
           /\ KahnTurn(s, needs, [order |-> done, queue |-> waiting]) = [order |-> order, queue |-> queue]
           /\ TurnInv(R, needs, i + 1, order, queue)
    BY <2>1, TurnKeepsInv
  <2>3. Turn(b) = [order |-> order, queue |-> queue]
    BY <2>1, <2>2
  <2> HIDE DEF Turn
  <2>4. QED  BY <2>2, <2>3
<1> HIDE DEF N, X, Holds, c, Turn
<1>4. \A n \in Nat, b \in X : g[<<n, b>>] = IF Holds(n - 1, b) /\ n # 0 THEN Turn(b) ELSE b
  OBVIOUS
<1> HIDE DEF g
<1>5. Closed(g, X)
  <2> SUFFICES ASSUME NEW n \in Nat, NEW b \in X  PROVE g[<<n, b>>] \in X
    BY DEF Closed
  <2>1. CASE Holds(n - 1, b) /\ n # 0
    <3>1. n - 1 \in Nat /\ g[<<n, b>>] = Turn(b)
      BY <1>4, <2>1
    <3>2. QED  BY <1>3, <2>1, <3>1
  <2>2. CASE ~(Holds(n - 1, b) /\ n # 0)
    BY <1>4, <2>2
  <2>3. QED  BY <2>1, <2>2
<1>6. PICK f \in [0..N -> X] : Iterates(f, N, c, g)
  BY <1>1, <1>2, <1>5, Recursion
<1>7. f[0] = c /\ (\A i \in 1..N : f[i] = g[<<i, f[i-1]>>]) /\ f = [i \in 0..N |-> f[i]]
  BY <1>6 DEF Iterates
<1> DEFINE P == {i \in 0..N : Holds(i, f[i])}
<1>8. 0 \in P
  BY <1>1, <1>2, <1>7
<1>9. ASSUME NEW n \in 0..N, n < N, Holds(n, f[n])
      PROVE  n + 1 \in 1..N /\ n + 1 \in 0..N /\ (n + 1) - 1 = n
             /\ f[n + 1] = Turn(f[n]) /\ Holds(n + 1, f[n + 1])
  <2>1. n + 1 \in 1..N /\ n + 1 \in 0..N /\ n + 1 \in Nat /\ n \in Nat /\ (n + 1) - 1 = n /\ n + 1 # 0
    BY <1>1, <1>9
  <2>2. f[n] \in X
    BY <1>6
  <2>3. f[n + 1] = g[<<n + 1, f[n]>>]
    BY <1>7, <2>1
  <2>4. f[n + 1] = Turn(f[n])
    BY <1>4, <1>9, <2>1, <2>2, <2>3
  <2>5. QED  BY <1>3, <1>9, <2>1, <2>2, <2>4
<1>10. ASSUME NEW n \in 0..N, n \in P, n < N  PROVE n + 1 \in P
  BY <1>9, <1>10
<1>11. \A i \in 0..N : Holds(i, f[i])
  <2> HIDE DEF P
  <2>1. 0..N \subseteq P
    BY <1>1, <1>8, <1>10, Induction
  <2>2. QED  BY <2>1 DEF P
<1>12. \A i \in 1..N : f[i] = Turn(f[i - 1])
  <2> TAKE i \in 1..N
  <2>1. i - 1 \in 0..N /\ i - 1 < N /\ (i - 1) + 1 = i
    BY <1>1
  <2>2. f[(i - 1) + 1] = Turn(f[i - 1])
    BY <1>9, <1>11, <2>1
  <2>3. QED  BY <2>1, <2>2
<1>13. ASSUME NEW h  PROVE h = body(h) <=> h = f
  <2>1. \A i \in 0..N : body(h)[i] = IF i = 0 THEN c ELSE Turn(h[i - 1])
    BY DEF c, Turn
  <2>2. body(h) = [i \in 0..N |-> body(h)[i]]
    OBVIOUS
  <2>3. ASSUME h = f  PROVE h = body(h)
    <3> DEFINE e == body(h)
    <3>1. \A i \in 0..N : e[i] = IF i = 0 THEN c ELSE Turn(h[i - 1])
      BY <2>1
    <3>2. e = [i \in 0..N |-> e[i]]
      BY <2>2
    <3> HIDE DEF e
    <3>3. \A i \in 0..N : e[i] = f[i]
      <4> TAKE i \in 0..N
      <4>1. i = 0 \/ i \in 1..N
        BY <1>1
      <4>2. QED  BY <1>7, <1>12, <2>3, <3>1, <4>1
    <3>4. e = f
      BY <1>7, <3>2, <3>3
    <3>5. QED  BY <2>3, <3>4 DEF e
  <2>4. ASSUME h = body(h)  PROVE h = f
    <3> HIDE DEF body
    <3>1. h = [i \in 0..N |-> h[i]]
      BY <2>2, <2>4
    <3>2. h[0] = c /\ \A i \in 1..N : h[i] = Turn(h[i - 1])
      <4>1. 0 \in 0..N /\ \A i \in 1..N : i \in 0..N /\ i # 0
        BY <1>1
      <4>2. QED  BY <2>1, <2>4, <4>1
    <3>3. InStep(h, f, N)
      BY <1>7, <1>12, <3>1, <3>2 DEF InStep
    <3>4. QED  BY <1>1, <3>3, Unique
  <2>5. QED  BY <2>3, <2>4
<1>14. KahnRun(s, needs) = f
  <2>1. KahnRun(s, needs) = CHOOSE h : h = body(h)
    BY DEF KahnRun, N
  <2> HIDE DEF body
  <2>2. (CHOOSE h : h = body(h)) = f
    BY <1>13
  <2>3. QED  BY <2>1, <2>2
<1>15. Kahn(s, needs) = f[N].order /\ Holds(N, f[N])
  BY <1>1, <1>11, <1>14 DEF Kahn, N
<1>16. QED  BY <1>15 DEF Holds, N

\* A finite set of those that all wait for each other cannot be ordered.
LEMMA NoOrderOfCycle ==
  ASSUME NEW R, NEW o \in Seq(R), NEW needs, Ordered(o, needs),
         NEW C, C # {}, C \subseteq ToSet(o), \A n \in C : needs[n] \cap C # {}
  PROVE  FALSE
<1> DEFINE M == {k \in 1..Len(o) : o[k] \in C}
<1>1. PICK n \in C : TRUE
  OBVIOUS
<1>2. n \in ToSet(o)
  BY <1>1
<1>3. \E k \in 1..Len(o) : o[k] = n
  <2>1. ToSet(o) = {o[k] : k \in 1..Len(o)}
    BY Elements
  <2>2. QED  BY <1>2, <2>1
<1>4. M # {} /\ M \subseteq Nat \ {0}
  BY <1>1, <1>3
<1> HIDE DEF M
<1>5. PICK k \in M : \A j \in M : k <= j
  BY <1>4, Least
<1>6. k \in 1..Len(o) /\ o[k] \in C
  BY <1>5 DEF M
<1>7. PICK d \in needs[o[k]] : d \in C
  BY <1>6
<1>8. PICK j \in 1..k-1 : d = o[j]
  BY <1>6, <1>7 DEF Ordered
<1>9. j \in M /\ j < k
  BY <1>6, <1>7, <1>8, Elements DEF M
<1>10. k \in Nat /\ j \in Nat /\ k <= j
  BY <1>5, <1>9, <1>4
<1>11. QED  BY <1>9, <1>10

\* For any graph without unknown names: the result has each name once, after all
\* it needs, those that need nothing first; and it is all of them exactly when
\* the graph has no cycle (_resolve_startup_order, of hooks and of plugins).
THEOREM KahnSorts ==
  ASSUME NEW R, NEW s, Lists(s, R),
         NEW needs, \A n \in R : needs[n] \subseteq R
  PROVE  LET o == Kahn(s, needs)
         IN  /\ o \in Seq(R) /\ IsInjective(o) /\ Ordered(o, needs) /\ RootsFirst(o, needs)
             /\ Len(o) = Len(s) <=> ToSet(o) = R
             /\ Len(o) # Len(s) <=> \E C \in SUBSET R : C # {} /\ \A n \in C : needs[n] \cap C # {}
<1>1. PICK o \in Seq(R), q \in Seq(R) : Kahn(s, needs) = o /\ TurnInv(R, needs, Len(s), o, q)
  BY KahnRecursion
<1>2. /\ IsInjective(o) /\ Ordered(o, needs) /\ RootsFirst(o, needs)
      /\ ToSet(o) \cap ToSet(q) = {}
      /\ ToSet(o) \cup ToSet(q) = {n \in R : needs[n] \subseteq ToSet(o)}
      /\ Len(o) = Len(s) \/ q = <<>>
  BY <1>1 DEF TurnInv
<1>3. Len(o) = Len(s) <=> ToSet(o) = R
  <2>1. IsInjective(o)
    BY <1>2
  <2>2. QED  BY <2>1, Counting
<1>4. ASSUME Len(o) # Len(s)  PROVE \E C \in SUBSET R : C # {} /\ \A n \in C : needs[n] \cap C # {}
  <2> DEFINE C == R \ ToSet(o)
  <2>1. ToSet(q) = {}
    BY <1>2, <1>4 DEF ToSet
  <2>2. ToSet(o) \subseteq R /\ C # {}
    BY <1>3, <1>4, Elements
  <2>3. \A n \in C : needs[n] \cap C # {}
    BY <1>2, <2>1
  <2>4. QED  BY <2>2, <2>3
<1>5. ASSUME NEW C \in SUBSET R, C # {}, \A n \in C : needs[n] \cap C # {}  PROVE Len(o) # Len(s)
  BY <1>2, <1>3, <1>5, NoOrderOfCycle
<1>6. QED  BY <1>1, <1>2, <1>3, <1>4, <1>5

LEMMA Listed ==
  ASSUME NEW S, NEW s \in Seq(S), IsInjective(s)
  PROVE  Lists(s, ToSet(s))
<1>1. s \in [1..Len(s) -> S] /\ Len(s) \in Nat
  BY LenProperties
<1>2. \A i \in 1..Len(s) : s[i] \in ToSet(s)
  BY Elements
<1>3. s \in [1..Len(s) -> ToSet(s)]
  BY <1>1, <1>2
<1>4. s \in Seq(ToSet(s))
  BY <1>1, <1>3, SeqDef
<1>5. QED  BY <1>4 DEF Lists

LEMMA Widened ==
  ASSUME NEW R, NEW S, R \subseteq S, NEW s \in Seq(R)
  PROVE  s \in Seq(S)
<1>1. s \in [1..Len(s) -> R] /\ Len(s) \in Nat
  BY LenProperties
<1>2. s \in [1..Len(s) -> S]
  BY <1>1
<1>3. QED  BY <1>1, <1>2, SeqDef

-----------------------------------------------------------------------------
(* The life cycle of the framework                                           *)

\* A name is registered once, the graph stays what it was for the hooks that
\* have run or wait, and these are in an order that suits it.
HooksInv ==
  /\ TypeOK
  /\ IsInjective(startupHooks) /\ IsInjective(shutdownHooks) /\ IsInjective(executed)
  /\ ToSet(executed) \cup ToSet(toStart) \subseteq Registered
  /\ IsInjective(toStart) /\ ToSet(executed) \cap ToSet(toStart) = {}
  /\ Ordered(executed, dependsOn)
  /\ \A k \in 1..Len(toStart) :
        dependsOn[toStart[k]] \subseteq ToSet(executed) \cup {toStart[j] : j \in 1..k-1}

LEMMA TeardownProperties ==
  ASSUME HooksInv
  PROVE  /\ TeardownOrder \in Seq(Names) /\ IsInjective(TeardownOrder)
         /\ \A i \in 1..Len(executed) : TeardownOrder[i] = executed[Len(executed) - i + 1]
         /\ \A a \in ToSet(executed), i \in 1..Len(TeardownOrder) :
               TeardownOrder[i] = a => i \in 1..Len(executed)
<1> DEFINE r == Reverse(executed)
           k == Kept(Reverse(shutdownHooks), Names \ ToSet(executed))
           n == Len(executed)
<1>1. /\ r \in Seq(Names) /\ Len(r) = n /\ ToSet(r) = ToSet(executed) /\ IsInjective(r)
      /\ n \in Nat /\ \A i \in 1..n : r[i] = executed[n - i + 1]
  BY Reversed, Elements DEF HooksInv, TypeOK
<1>2. Reverse(shutdownHooks) \in Seq(Names) /\ IsInjective(Reverse(shutdownHooks))
  BY Reversed DEF HooksInv, TypeOK
<1>3. k \in Seq(Names) /\ IsInjective(k) /\ ToSet(k) \cap ToSet(executed) = {}
  BY <1>2, KeptProperties
<1> HIDE DEF r, k, n
<1>4. /\ r \o k \in Seq(Names) /\ IsInjective(r \o k)
      /\ \A i \in 1..n : (r \o k)[i] = r[i]
      /\ \A i \in 1..Len(k) : (r \o k)[n + i] = k[i]
      /\ \A i \in 1..Len(r \o k) : i \in 1..n \/ i - n \in 1..Len(k)
  BY <1>1, <1>3, Concatenated
<1>5. ASSUME NEW a \in ToSet(executed), NEW i \in 1..Len(r \o k), (r \o k)[i] = a
      PROVE  i \in 1..n
  <2>1. ASSUME i - n \in 1..Len(k)  PROVE FALSE
    <3>1. n + (i - n) = i
      BY <1>1
    <3>2. k[i - n] = a
      BY <1>4, <1>5, <2>1, <3>1
    <3>3. QED  BY <1>3, <2>1, <3>2, Elements
  <2>2. QED  BY <1>4, <2>1
<1>6. TeardownOrder = r \o k
  BY DEF TeardownOrder, r, k
<1>7. QED  BY <1>1, <1>4, <1>5, <1>6 DEF n

LEMMA StartupOrderFound ==
  ASSUME TypeOK, IsInjective(startupHooks)
  PROVE  /\ Lists(startupHooks, Registered)
         /\ ~UnknownDependency =>
              /\ KahnOrder \in Seq(Registered) /\ IsInjective(KahnOrder)
              /\ Ordered(KahnOrder, dependsOn) /\ RootsFirst(KahnOrder, dependsOn)
              /\ Len(KahnOrder) = Len(startupHooks) <=> ToSet(KahnOrder) = Registered
              /\ Len(KahnOrder) # Len(startupHooks) <=> Cyclic
<1>1. Lists(startupHooks, Registered)
  BY Listed DEF TypeOK, Registered
<1>2. ASSUME ~UnknownDependency
      PROVE  /\ KahnOrder \in Seq(Registered) /\ IsInjective(KahnOrder)
             /\ Ordered(KahnOrder, dependsOn) /\ RootsFirst(KahnOrder, dependsOn)
             /\ Len(KahnOrder) = Len(startupHooks) <=> ToSet(KahnOrder) = Registered
             /\ Len(KahnOrder) # Len(startupHooks) <=> Cyclic
  <2>1. \A n \in Registered : dependsOn[n] \subseteq Registered
    BY <1>2 DEF UnknownDependency
  <2>2. QED  BY <1>1, <2>1, KahnSorts DEF KahnOrder, Cyclic
<1>3. QED  BY <1>1, <1>2

LEMMA OrderFoundSound == TypeOK /\ IsInjective(startupHooks) => OrderSound
<1> SUFFICES ASSUME TypeOK, IsInjective(startupHooks)  PROVE OrderSound
  OBVIOUS
<1>1. CASE UnknownDependency \/ Cyclic
  BY <1>1, StartupOrderFound DEF OrderSound, Unresolvable
<1>2. CASE ~(UnknownDependency \/ Cyclic)
  <2> DEFINE o == KahnOrder
  <2>1. /\ o \in Seq(Registered) /\ Ordered(o, dependsOn) /\ RootsFirst(o, dependsOn)
        /\ ~Unresolvable /\ ToSet(o) = Registered
    BY <1>2, StartupOrderFound DEF Unresolvable
  <2> HIDE DEF o
  <2>2. Len(o) \in Nat /\ Registered = {o[i] : i \in 1..Len(o)}
    BY <2>1, Elements
  <2>3. ASSUME NEW n \in Registered, NEW d \in dependsOn[n]  PROVE Before(o, d, n)
    <3>1. PICK k \in 1..Len(o) : n = o[k]
      BY <2>2
    <3>2. PICK j \in 1..k-1 : d = o[j]
      BY <2>1, <2>3, <3>1 DEF Ordered
    <3>3. j \in 1..Len(o) /\ j < k
      BY <2>2, <3>2
    <3>4. QED  BY <3>1, <3>2, <3>3 DEF Before
  <2>4. ASSUME NEW m \in Registered, NEW n \in Registered, dependsOn[m] = {}, dependsOn[n] # {}
        PROVE  Before(o, m, n)
    <3>1. PICK i \in 1..Len(o), j \in 1..Len(o) : m = o[i] /\ n = o[j]
      BY <2>2
    <3>2. ~(j < i) /\ i # j
      BY <2>1, <2>4, <3>1 DEF RootsFirst
    <3>3. i < j
      BY <2>2, <3>2
    <3>4. QED  BY <3>1, <3>3 DEF Before
  <2>5. QED  BY <1>2, <2>1, <2>3, <2>4 DEF OrderSound, o
<1>3. QED  BY <1>1, <1>2

\* There are hooks left to stop only while shutdown() runs.
TeardownNotDone == toStop # <<>> => stopping

\* Of two hooks that were started, the dependent's is called first: those that
\* are left to call keep that order, also towards those called already.
TeardownInv ==
  /\ TeardownNotDone
  /\ stopping \/ attempted # <<>> => state \in {"shuttingDown", "stopped"}
  /\ IsInjective(toStop)
  /\ stopping =>
       \A a, b \in ToSet(executed) : a \in dependsOn[b] =>
          /\ a \in ToSet(attempted) => Before(attempted, b, a)
          /\ a \in ToSet(toStop) => b \in ToSet(attempted) \/ Before(toStop, b, a)

StartupInv == HooksInv /\ TeardownInv

LEMMA InitStartupInv == Init => StartupInv
<1> SUFFICES ASSUME Init  PROVE StartupInv
  OBVIOUS
<1>1. <<>> \in Seq(Names) /\ Len(<<>>) = 0 /\ ToSet(<<>>) = {} /\ IsInjective(<<>>)
  BY DEF ToSet, IsInjective
<1>2. TypeOK
  BY <1>1 DEF Init, TypeOK, Allowed
<1>3. QED
  BY <1>1, <1>2 DEF Init, StartupInv, HooksInv, TeardownInv, TeardownNotDone, Ordered

\* What leaves the startup hooks and the running startup alone
LEMMA HooksStutter ==
  HooksInv /\ TypeOK' /\ IsInjective(shutdownHooks)'
  /\ UNCHANGED <<startupHooks, dependsOn, executed, toStart>> => HooksInv'
BY DEF HooksInv, Registered, Ordered

LEMMA TypeInduction == HooksInv /\ [Next]_vars => TypeOK'
<1> SUFFICES ASSUME HooksInv, [Next]_vars  PROVE TypeOK'
  OBVIOUS
<1>0. TypeOK
  BY DEF HooksInv
<1> USE DEF TypeOK
<1>1. CASE Transition
  BY <1>0, <1>1 DEF Transition, hookVars, Allowed
<1>2. CASE \E n \in Names, deps \in SUBSET Names : RegisterStartupHook(n, deps)
  BY <1>0, <1>2 DEF RegisterStartupHook
<1>3. CASE \E n \in Names : RegisterShutdownHook(n)
  BY <1>0, <1>3 DEF RegisterShutdownHook
<1>4. CASE RunStartupHooks
  <2>1. CASE Unresolvable
    BY <1>0, <1>4, <2>1 DEF RunStartupHooks, hookVars
  <2>2. CASE ~Unresolvable
    <3>1. KahnOrder \in Seq(Registered) /\ Registered \subseteq Names
      BY <2>2, StartupOrderFound, Elements DEF Unresolvable, HooksInv, Registered
    <3>2. KahnOrder \in Seq(Names)
      BY <3>1, Widened
    <3>3. QED  BY <1>0, <1>4, <2>2, <3>2 DEF RunStartupHooks, hookVars
  <2>3. QED  BY <2>1, <2>2
<1>5. CASE StartupHookReturns
  <2>1. Head(toStart) \in Names /\ Tail(toStart) \in Seq(Names)
    BY <1>0, <1>5 DEF StartupHookReturns
  <2>2. QED  BY <1>0, <1>5, <2>1 DEF StartupHookReturns, hookVars
<1>6. CASE StartupHookRaises
  BY <1>0, <1>6 DEF StartupHookRaises, hookVars
<1>7. CASE Shutdown
  BY <1>0, <1>7, TeardownProperties DEF Shutdown, hookVars, Allowed
<1>8. CASE ShutdownHook
  <2>1. Head(toStop) \in Names /\ Tail(toStop) \in Seq(Names)
    BY <1>0, <1>8 DEF ShutdownHook
  <2>2. QED  BY <1>0, <1>8, <2>1 DEF ShutdownHook, hookVars
<1>9. CASE MissingShutdownHook
  <2>1. <<>> \in Seq(Names)
    OBVIOUS
  <2>2. QED  BY <1>0, <1>9, <2>1 DEF MissingShutdownHook, hookVars
<1>10. CASE Stopped
  <2>1. "stopped" \in DOMAIN Allowed
    BY DEF Allowed
  <2>2. QED  BY <1>0, <1>10, <2>1 DEF Stopped, hookVars
<1>11. CASE UNCHANGED vars
  BY <1>0, <1>11 DEF vars, hookVars
<1>12. QED
  BY <1>1, <1>2, <1>3, <1>4, <1>5, <1>6, <1>7, <1>8, <1>9, <1>10, <1>11 DEF Next, InHook, InShutdown

LEMMA HooksInduction == HooksInv /\ [Next]_vars => HooksInv'
<1> SUFFICES ASSUME HooksInv, [Next]_vars  PROVE HooksInv'
  OBVIOUS
<1>0. TypeOK /\ TypeOK'
  BY TypeInduction DEF HooksInv
<1>1. CASE UNCHANGED <<startupHooks, dependsOn, executed, toStart>> /\ shutdownHooks' = shutdownHooks
  BY <1>0, <1>1, HooksStutter DEF HooksInv
<1>2. ASSUME NEW n \in Names, NEW deps \in SUBSET Names, RegisterStartupHook(n, deps)
      PROVE  HooksInv'
  <2>1. /\ startupHooks' = Append(startupHooks, n) /\ n \notin Registered
        /\ dependsOn' = [dependsOn EXCEPT ![n] = deps]
        /\ UNCHANGED <<shutdownHooks, executed, toStart>>
    BY <1>2 DEF RegisterStartupHook, Registered
  <2>2. Registered' = Registered \cup {n} /\ IsInjective(startupHooks')
    BY <1>0, <2>1, Appended DEF HooksInv, TypeOK, Registered
  <2>3. \A m \in Registered : dependsOn'[m] = dependsOn[m]
    BY <1>0, <2>1 DEF TypeOK
  <2>4. (\A k \in 1..Len(executed) : executed[k] \in Registered)
        /\ \A k \in 1..Len(toStart) : toStart[k] \in Registered
    BY <1>0, Elements DEF HooksInv, TypeOK
  <2>5. Ordered(executed', dependsOn')
    <3>1. Ordered(executed, dependsOn) /\ \A k \in 1..Len(executed) : dependsOn'[executed[k]] = dependsOn[executed[k]]
      BY <2>3, <2>4 DEF HooksInv
    <3>2. executed' = executed
      BY <2>1
    <3>3. ASSUME NEW k \in 1..Len(executed)
          PROVE  dependsOn'[executed[k]] \subseteq {executed[j] : j \in 1..k-1}
      <4>1. dependsOn[executed[k]] \subseteq {executed[j] : j \in 1..k-1}
        BY <3>1 DEF Ordered
      <4>2. dependsOn'[executed[k]] = dependsOn[executed[k]]
        BY <3>1
      <4>3. QED  BY <4>1, <4>2
    <3>4. Ordered(executed, dependsOn')
      BY <3>3 DEF Ordered
    <3>5. QED  BY <3>2, <3>4
  <2>6. \A k \in 1..Len(toStart') :
           dependsOn'[toStart'[k]] \subseteq ToSet(executed') \cup {toStart'[j] : j \in 1..k-1}
    BY <2>1, <2>3, <2>4 DEF HooksInv
  <2>7. QED  BY <1>0, <2>1, <2>2, <2>5, <2>6 DEF HooksInv
<1>3. ASSUME NEW n \in Names, RegisterShutdownHook(n)  PROVE HooksInv'
  <2>1. IsInjective(shutdownHooks')
    BY <1>0, <1>3, Appended DEF HooksInv, TypeOK, RegisterShutdownHook
  <2>2. QED  BY <1>0, <1>3, <2>1, HooksStutter DEF RegisterShutdownHook
<1>4. CASE RunStartupHooks /\ ~Unresolvable
  <2>1. executed' = <<>> /\ toStart' = KahnOrder /\ UNCHANGED hookVars
    BY <1>4 DEF RunStartupHooks
  <2>2. KahnOrder \in Seq(Registered) /\ IsInjective(KahnOrder) /\ Ordered(KahnOrder, dependsOn)
    BY <1>4, StartupOrderFound DEF HooksInv, Unresolvable
  <2>3. ToSet(KahnOrder) \subseteq Registered
    BY <2>2, Elements
  <2>4. ToSet(<<>>) = {} /\ IsInjective(<<>>) /\ Ordered(<<>>, dependsOn)
    BY DEF ToSet, IsInjective, Ordered
  <2>5. \A k \in 1..Len(KahnOrder) :
           dependsOn[KahnOrder[k]] \subseteq {} \cup {KahnOrder[j] : j \in 1..k-1}
    BY <2>2 DEF Ordered
  <2> HIDE DEF KahnOrder
  <2>6. QED  BY <1>0, <2>1, <2>2, <2>3, <2>4, <2>5 DEF HooksInv, hookVars, Registered
<1>5. CASE StartupHookReturns
  <2> DEFINE h == Head(toStart)  rest == Tail(toStart)  ran == Append(executed, h)
             m == Len(executed)  l == Len(rest)
  <2>1. /\ toStart # <<>> /\ executed' = ran /\ toStart' = rest
        /\ UNCHANGED <<startupHooks, dependsOn, shutdownHooks>>
    BY <1>5 DEF StartupHookReturns, hookVars
  <2>2. /\ h \in ToSet(toStart) /\ h = toStart[1] /\ rest \in Seq(Names)
        /\ ToSet(toStart) = ToSet(rest) \cup {h} /\ h \notin ToSet(rest) /\ IsInjective(rest)
        /\ Len(toStart) = l + 1 /\ l \in Nat
        /\ \A k \in 1..l : rest[k] = toStart[k + 1]
    <3>1. /\ h \in ToSet(toStart) /\ h = toStart[1] /\ rest \in Seq(Names)
          /\ ToSet(toStart) = ToSet(rest) \cup {h}
          /\ IsInjective(toStart) => h \notin ToSet(rest) /\ IsInjective(rest)
          /\ Len(toStart) \in Nat \ {0} /\ l = Len(toStart) - 1
          /\ \A k \in 1..Len(toStart) - 1 : rest[k] = toStart[k + 1]
      BY <1>0, <2>1, Split DEF TypeOK
    <3> HIDE DEF h, rest, l
    <3>2. QED  BY <3>1 DEF HooksInv
  <2>3. h \in Names /\ h \notin ToSet(executed) /\ dependsOn[h] \subseteq ToSet(executed)
    <3>1. h \in Names /\ h \notin ToSet(executed)
      BY <1>0, <2>2, Elements DEF HooksInv, TypeOK
    <3>2. 1 \in 1..Len(toStart) /\ 1..(1-1) = {}
      BY <2>2
    <3>3. QED  BY <2>2, <3>1, <3>2 DEF HooksInv
  <2>4. /\ ran \in Seq(Names) /\ Len(ran) = m + 1 /\ m \in Nat
        /\ \A k \in 1..m : ran[k] = executed[k]
        /\ ran[m + 1] = h
        /\ ToSet(executed) = {executed[j] : j \in 1..m}
        /\ ToSet(ran) = ToSet(executed) \cup {h}
        /\ IsInjective(ran)
    <3>1. /\ ran \in Seq(Names) /\ Len(ran) = m + 1
          /\ \A k \in 1..m : ran[k] = executed[k]
          /\ ran[m + 1] = h
          /\ ToSet(ran) = ToSet(executed) \cup {h}
          /\ IsInjective(executed) /\ h \notin ToSet(executed) => IsInjective(ran)
      BY <1>0, <2>3, Appended DEF TypeOK
    <3>2. m \in Nat /\ ToSet(executed) = {executed[j] : j \in 1..m}
      BY <1>0, Elements DEF TypeOK
    <3> HIDE DEF ran, h, m
    <3>3. QED  BY <2>3, <3>1, <3>2 DEF HooksInv
  <2> HIDE DEF h, rest, ran, m, l
  <2>5. Ordered(ran, dependsOn)
    <3>1. ASSUME NEW k \in 1..Len(ran)  PROVE dependsOn[ran[k]] \subseteq {ran[j] : j \in 1..k-1}
      <4>1. CASE k \in 1..m
        <5>1. dependsOn[executed[k]] \subseteq {executed[j] : j \in 1..k-1}
          BY <4>1 DEF HooksInv, Ordered, m
        <5>2. \A j \in 1..k-1 : executed[j] = ran[j]
          BY <2>4, <4>1
        <5>3. {executed[j] : j \in 1..k-1} = {ran[j] : j \in 1..k-1} /\ ran[k] = executed[k]
          BY <2>4, <4>1, <5>2
        <5>4. QED  BY <5>1, <5>3
      <4>2. CASE k = m + 1
        <5>1. k - 1 = m /\ ran[k] = h /\ \A j \in 1..m : executed[j] = ran[j]
          BY <2>4, <4>2
        <5>2. QED  BY <2>3, <2>4, <5>1
      <4>3. QED  BY <2>4, <4>1, <4>2
    <3>2. QED  BY <3>1 DEF Ordered
  <2>6. ASSUME NEW k \in 1..l
        PROVE  dependsOn[rest[k]] \subseteq ToSet(ran) \cup {rest[j] : j \in 1..k-1}
    <3>1. k + 1 \in 1..Len(toStart) /\ rest[k] = toStart[k + 1] /\ (k + 1) - 1 = k
      BY <2>2
    <3>2. dependsOn[rest[k]] \subseteq ToSet(executed) \cup {toStart[j] : j \in 1..k}
      BY <3>1 DEF HooksInv
    <3>3. ASSUME NEW j \in 1..k  PROVE toStart[j] = h \/ \E i \in 1..k-1 : toStart[j] = rest[i]
      <4>1. CASE j = 1
        BY <2>2, <4>1
      <4>2. CASE j # 1
        <5>1. j - 1 \in 1..k-1 /\ j - 1 \in 1..l /\ (j - 1) + 1 = j
          BY <2>2, <4>2
        <5>2. QED  BY <2>2, <5>1
      <4>3. QED  BY <4>1, <4>2
    <3>4. QED  BY <2>4, <3>2, <3>3
  <2>7. QED
    BY <1>0, <2>1, <2>2, <2>3, <2>4, <2>5, <2>6 DEF HooksInv, Registered, l
<1>6. CASE StartupHookRaises
  <2>1. toStart' = <<>> /\ UNCHANGED <<startupHooks, dependsOn, shutdownHooks, executed>>
    BY <1>6 DEF StartupHookRaises, hookVars
  <2>2. Len(<<>>) = 0 /\ ToSet(<<>>) = {} /\ IsInjective(<<>>)
    BY DEF ToSet, IsInjective
  <2>3. QED  BY <1>0, <2>1, <2>2 DEF HooksInv, Registered, Ordered
<1>7. CASE \/ Transition \/ (RunStartupHooks /\ Unresolvable) \/ Shutdown
           \/ ShutdownHook \/ MissingShutdownHook \/ Stopped \/ UNCHANGED vars
  <2>1. UNCHANGED <<startupHooks, dependsOn, executed, toStart>> /\ shutdownHooks' = shutdownHooks
    BY <1>7 DEF Transition, RunStartupHooks, Shutdown, ShutdownHook, MissingShutdownHook, Stopped,
                vars, hookVars
  <2>2. QED  BY <1>1, <2>1
<1>8. QED
  BY <1>2, <1>3, <1>4, <1>5, <1>6, <1>7 DEF Next, InHook, InShutdown

LEMMA NotDoneInduction == TeardownNotDone /\ [Next]_vars => TeardownNotDone'
<1> SUFFICES ASSUME TeardownNotDone, [Next]_vars  PROVE TeardownNotDone'
  OBVIOUS
<1> USE DEF TeardownNotDone
<1>1. CASE Transition
  BY <1>1 DEF Transition
<1>2. CASE Shutdown
  BY <1>2 DEF Shutdown
<1>3. CASE ShutdownHook
  BY <1>3 DEF ShutdownHook
<1>4. CASE MissingShutdownHook \/ Stopped
  BY <1>4 DEF MissingShutdownHook, Stopped
<1>5. CASE RunStartupHooks \/ InHook
  BY <1>5 DEF RunStartupHooks, InHook, StartupHookReturns, StartupHookRaises
<1>6. CASE \E n \in Names, deps \in SUBSET Names : RegisterStartupHook(n, deps)
  BY <1>6 DEF RegisterStartupHook
<1>7. CASE \E n \in Names : RegisterShutdownHook(n)
  BY <1>7 DEF RegisterShutdownHook
<1>8. CASE UNCHANGED vars
  BY <1>8 DEF vars
<1>9. QED  BY <1>1, <1>2, <1>3, <1>4, <1>5, <1>6, <1>7, <1>8 DEF Next, InShutdown

LEMMA BeforeKept ==
  ASSUME NEW S, NEW s \in Seq(S), NEW e \in S, NEW a, NEW b
  PROVE  /\ Before(s, a, b) => Before(Append(s, e), a, b)
         /\ a \in ToSet(s) => Before(Append(s, e), a, e)
<1> DEFINE t == Append(s, e)  n == Len(s)
<1>1. /\ Len(t) = n + 1 /\ t[n + 1] = e /\ \A i \in 1..n : t[i] = s[i]
  BY Appended
<1>2. n \in Nat /\ ToSet(s) = {s[i] : i \in 1..n}
  BY Elements
<1> HIDE DEF t, n
<1>3. ASSUME Before(s, a, b)  PROVE Before(t, a, b)
  <2>1. PICK i \in 1..n, j \in 1..n : i < j /\ s[i] = a /\ s[j] = b
    BY <1>3 DEF Before, n
  <2>2. i \in 1..Len(t) /\ j \in 1..Len(t) /\ t[i] = a /\ t[j] = b
    BY <1>1, <1>2, <2>1
  <2>3. QED  BY <2>1, <2>2 DEF Before
<1>4. ASSUME a \in ToSet(s)  PROVE Before(t, a, e)
  <2>1. PICK i \in 1..n : s[i] = a
    BY <1>2, <1>4
  <2>2. i \in 1..Len(t) /\ n + 1 \in 1..Len(t) /\ i < n + 1 /\ t[i] = a
    BY <1>1, <1>2, <2>1
  <2>3. QED  BY <1>1, <2>2 DEF Before
<1>5. QED  BY <1>3, <1>4 DEF t

\* Shutdown() lines the started hooks up in reverse.
LEMMA ShutdownStarts == StartupInv /\ Shutdown => TeardownInv'
<1> SUFFICES ASSUME StartupInv, Shutdown  PROVE TeardownInv'
  OBVIOUS
<1> DEFINE t == TeardownOrder  n == Len(executed)
<1>1. /\ toStop' = t /\ state' = "shuttingDown" /\ stopping'
      /\ UNCHANGED <<hookVars, executed, toStart, attempted>>
      /\ attempted = <<>>
  BY DEF StartupInv, TeardownInv, Shutdown
<1>2. /\ t \in Seq(Names) /\ IsInjective(t)
      /\ \A i \in 1..n : t[i] = executed[n - i + 1]
      /\ \A a \in ToSet(executed), i \in 1..Len(t) : t[i] = a => i \in 1..n
  BY TeardownProperties DEF StartupInv
<1>3. n \in Nat /\ executed \in Seq(Names) /\ Ordered(executed, dependsOn) /\ IsInjective(executed)
  BY Elements DEF StartupInv, HooksInv, TypeOK
<1>4. \A i, j \in 1..n : executed[i] = executed[j] => i = j
  BY <1>3, Elements
<1>5. ToSet(t) = {t[i] : i \in 1..Len(t)} /\ Len(t) \in Nat
  BY <1>2, Elements
<1>6. ToSet(executed) = {executed[i] : i \in 1..n} /\ ToSet(<<>>) = {}
  BY <1>3, Elements DEF ToSet
<1>7. n <= Len(t)
  <2>1. Len(t) = Len(Reverse(executed)) + Len(Kept(Reverse(shutdownHooks), Names \ ToSet(executed)))
        /\ Len(Reverse(executed)) = n
        /\ Len(Kept(Reverse(shutdownHooks), Names \ ToSet(executed))) \in Nat
    BY Reversed, KeptProperties, Concatenated, Elements DEF TeardownOrder, StartupInv, HooksInv, TypeOK
  <2>2. QED  BY <1>3, <2>1
<1> HIDE DEF t, n
<1>8. ASSUME NEW a \in ToSet(executed), NEW b \in ToSet(executed), a \in dependsOn[b], a \in ToSet(t)
      PROVE  Before(t, b, a)
  <2>1. PICK i \in 1..Len(t) : t[i] = a
    BY <1>5, <1>8
  <2>2. i \in 1..n /\ executed[n - i + 1] = a
    BY <1>2, <2>1
  <2>3. PICK k \in 1..n : executed[k] = b
    BY <1>6
  <2>4. PICK j \in 1..k-1 : executed[j] = a
    BY <1>3, <1>8, <2>3 DEF Ordered, n
  <2>5. n - i + 1 \in 1..n /\ j \in 1..n
    BY <1>3, <2>2, <2>3, <2>4
  <2>6. n - i + 1 = j
    BY <1>4, <2>2, <2>4, <2>5
  <2>7. n - k + 1 \in 1..n /\ n - k + 1 < i /\ n - (n - k + 1) + 1 = k /\ n - k + 1 \in 1..Len(t)
    BY <1>3, <1>5, <1>7, <2>2, <2>3, <2>4, <2>6
  <2>8. t[n - k + 1] = b
    BY <1>2, <2>3, <2>7
  <2>9. QED  BY <2>1, <2>7, <2>8 DEF Before
<1>9. QED  BY <1>1, <1>2, <1>6, <1>8 DEF TeardownInv, TeardownNotDone, hookVars

\* Each hook that is called was the first in the line.
LEMMA ShutdownGoesOn == StartupInv /\ ShutdownHook => TeardownInv'
<1> SUFFICES ASSUME StartupInv, ShutdownHook  PROVE TeardownInv'
  OBVIOUS
<1> DEFINE h == Head(toStop)  rest == Tail(toStop)  called == Append(attempted, h)  l == Len(rest)
<1>1. /\ toStop # <<>> /\ attempted' = called /\ toStop' = rest
      /\ UNCHANGED <<state, hookVars, executed, toStart, stopping>>
  BY DEF ShutdownHook
<1>2. toStop \in Seq(Names) /\ attempted \in Seq(Names) /\ IsInjective(toStop)
  BY DEF StartupInv, HooksInv, TypeOK, TeardownInv
<1>3. /\ h = toStop[1] /\ h \in Names /\ rest \in Seq(Names) /\ IsInjective(rest)
      /\ ToSet(toStop) = ToSet(rest) \cup {h} /\ h \notin ToSet(rest)
      /\ Len(toStop) = l + 1 /\ l \in Nat /\ \A k \in 1..l : rest[k] = toStop[k + 1]
  <2>1. /\ h = toStop[1] /\ h \in ToSet(toStop) /\ rest \in Seq(Names)
        /\ ToSet(toStop) = ToSet(rest) \cup {h}
        /\ IsInjective(toStop) => h \notin ToSet(rest) /\ IsInjective(rest)
        /\ Len(toStop) \in Nat \ {0} /\ l = Len(toStop) - 1
        /\ \A k \in 1..Len(toStop) - 1 : rest[k] = toStop[k + 1]
    BY <1>1, <1>2, Split
  <2>2. ToSet(toStop) \subseteq Names
    BY <1>2, Elements
  <2> HIDE DEF h, rest, l
  <2>3. QED  BY <1>2, <2>1, <2>2
<1>4. ToSet(called) = ToSet(attempted) \cup {h} /\ Len(called) = Len(attempted) + 1
  BY <1>2, <1>3, Appended
<1>5. \A x, y : /\ Before(attempted, x, y) => Before(called, x, y)
                /\ x \in ToSet(attempted) => Before(called, x, h)
  BY <1>2, <1>3, BeforeKept
<1>6. called # <<>>
  BY <1>2
<1> HIDE DEF h, rest, called
<1>7. ASSUME NEW a, NEW b, Before(toStop, b, a)
      PROVE  a # h /\ (b = h \/ Before(rest, b, a))
  <2>1. PICK i \in 1..l+1, j \in 1..l+1 : i < j /\ toStop[i] = b /\ toStop[j] = a
    BY <1>3, <1>7 DEF Before
  <2>2. \A x, y \in 1..l+1 : toStop[x] = toStop[y] => x = y
    BY <1>2, <1>3, Elements
  <2>3. a # h
    BY <1>3, <2>1, <2>2
  <2>4. CASE i = 1
    BY <1>3, <2>1, <2>3, <2>4
  <2>5. CASE i # 1
    <3>1. i - 1 \in 1..l /\ j - 1 \in 1..l /\ i - 1 < j - 1 /\ (i - 1) + 1 = i /\ (j - 1) + 1 = j
      BY <1>3, <2>1, <2>5
    <3>2. rest[i - 1] = b /\ rest[j - 1] = a
      BY <1>3, <2>1, <3>1
    <3>3. QED  BY <2>3, <3>1, <3>2 DEF Before, l
  <2>6. QED  BY <2>4, <2>5
<1>8. ASSUME NEW a \in ToSet(executed), NEW b \in ToSet(executed), a \in dependsOn[b], stopping
      PROVE  /\ a \in ToSet(called) => Before(called, b, a)
             /\ a \in ToSet(rest) => b \in ToSet(called) \/ Before(rest, b, a)
  <2>1. /\ a \in ToSet(attempted) => Before(attempted, b, a)
        /\ a \in ToSet(toStop) => b \in ToSet(attempted) \/ Before(toStop, b, a)
    BY <1>8 DEF StartupInv, TeardownInv
  <2>2. ASSUME a \in ToSet(called)  PROVE Before(called, b, a)
    <3>1. CASE a \in ToSet(attempted)
      BY <1>5, <2>1, <3>1
    <3>2. CASE a = h
      <4>1. b \in ToSet(attempted)
        BY <1>3, <1>7, <2>1, <3>2
      <4>2. QED  BY <1>5, <3>2, <4>1
    <3>3. QED  BY <1>4, <2>2, <3>1, <3>2
  <2>3. ASSUME a \in ToSet(rest)  PROVE b \in ToSet(called) \/ Before(rest, b, a)
    BY <1>3, <1>4, <1>7, <2>1, <2>3
  <2>4. QED  BY <2>2, <2>3
<1>9. stopping /\ state \in {"shuttingDown", "stopped"}
  BY <1>1 DEF StartupInv, TeardownInv, TeardownNotDone
<1>10. QED  BY <1>1, <1>3, <1>8, <1>9 DEF TeardownInv, TeardownNotDone, hookVars

LEMMA TeardownInduction == StartupInv /\ [Next]_vars => TeardownInv'
<1> SUFFICES ASSUME StartupInv, [Next]_vars  PROVE TeardownInv'
  OBVIOUS
<1>0. TeardownInv /\ HooksInv /\ TeardownNotDone'
  BY NotDoneInduction DEF StartupInv, TeardownInv
<1>1. CASE Shutdown
  BY <1>1, ShutdownStarts
<1>2. CASE ShutdownHook
  BY <1>2, ShutdownGoesOn
<1>3. CASE ~stopping /\ UNCHANGED <<state, stopping, toStop, attempted>>
  BY <1>0, <1>3 DEF TeardownInv
<1>4. CASE Transition
  <2>1. /\ UNCHANGED <<hookVars, executed, stopping, toStop, attempted>>
        /\ state \in {"shuttingDown", "stopped"} => state' \in {"shuttingDown", "stopped"}
    BY <1>4 DEF Transition, Allowed
  <2>2. QED  BY <1>0, <2>1 DEF TeardownInv, Before, hookVars
<1>5. ASSUME NEW n \in Names, NEW deps \in SUBSET Names, RegisterStartupHook(n, deps)
      PROVE  TeardownInv'
  <2>1. n \notin Registered /\ dependsOn' = [dependsOn EXCEPT ![n] = deps]
        /\ UNCHANGED <<state, executed, stopping, toStop, attempted>>
    BY <1>5 DEF RegisterStartupHook, Registered
  <2>2. \A b \in ToSet(executed) : dependsOn'[b] = dependsOn[b]
    BY <1>0, <2>1 DEF HooksInv, TypeOK
  <2>3. QED  BY <1>0, <2>1, <2>2 DEF TeardownInv, Before
<1>6. CASE (\E n \in Names : RegisterShutdownHook(n)) \/ UNCHANGED vars
  BY <1>0, <1>6 DEF RegisterShutdownHook, TeardownInv, Before, vars, hookVars
<1>7. CASE RunStartupHooks \/ InHook
  BY <1>3, <1>7 DEF RunStartupHooks, InHook, StartupHookReturns, StartupHookRaises, Idle
<1>8. CASE MissingShutdownHook
  <2>1. ToSet(<<>>) = {} /\ IsInjective(<<>>)
    BY DEF ToSet, IsInjective
  <2>2. QED  BY <1>0, <1>8, <2>1 DEF MissingShutdownHook, TeardownInv, Before, hookVars
<1>9. CASE Stopped
  BY <1>0, <1>9 DEF Stopped, TeardownInv
<1>10. QED
  BY <1>1, <1>2, <1>4, <1>5, <1>6, <1>7, <1>8, <1>9 DEF Next, InShutdown

\* The inductive invariant of the life cycle: what run_startup_hooks() and
\* run_shutdown_hooks() still have to call is always in an order that suits.
THEOREM StartupInvariant == Spec => []StartupInv
<1>1. StartupInv /\ [Next]_vars => StartupInv'
  BY HooksInduction, TeardownInduction DEF StartupInv
<1>2. QED  BY <1>1, InitStartupInv, PTL DEF Spec

\* Whatever was registered, and in whatever order: startup is refused exactly
\* for unknown and circular dependencies, and otherwise runs every hook after
\* those it depends on, the independent ones first (_resolve_startup_order).
THEOREM OrderAlwaysSound == Spec => []OrderSound
<1>1. StartupInv => OrderSound
  BY OrderFoundSound DEF StartupInv, HooksInv
<1>2. QED  BY <1>1, StartupInvariant, PTL

\* A startup hook only ever runs after all it depends on: registrations from
\* hooks and a shutdown() in between do not change that (run_startup_hooks).
THEOREM StartsAfterDependencies == Spec => []DependenciesUp
<1>1. ASSUME StartupInv  PROVE DependenciesUp
  <2>1. SUFFICES ASSUME toStart # <<>>  PROVE dependsOn[Head(toStart)] \subseteq ToSet(executed)
    BY DEF DependenciesUp
  <2>2. toStart \in Seq(Names) /\ Len(toStart) \in Nat \ {0} /\ Head(toStart) = toStart[1]
    BY <1>1, <2>1, Split DEF StartupInv, HooksInv, TypeOK
  <2>3. 1 \in 1..Len(toStart) /\ 1..(1-1) = {}
    BY <2>2
  <2>4. QED  BY <1>1, <2>2, <2>3 DEF StartupInv, HooksInv
<1>2. QED  BY <1>1, StartupInvariant, PTL

\* Of two hooks that were started, the dependent's shutdown hook is called
\* first, whichever hooks fail or are missing (run_shutdown_hooks).
THEOREM StopsBeforeDependencies == Spec => []DependentsStopFirst
<1>1. StartupInv => DependentsStopFirst
  BY DEF StartupInv, TeardownInv, DependentsStopFirst
<1>2. QED  BY <1>1, StartupInvariant, PTL

LEMMA NoStepFromStopped ==
  ASSUME TeardownNotDone, [Next]_vars, state = "stopped", ~stopping
  PROVE  UNCHANGED <<state, attempted>>
<1>1. toStop = <<>> /\ Allowed[state] = {}
  BY DEF TeardownNotDone, Allowed
<1>2. ~Transition /\ ~Shutdown /\ ~ShutdownHook /\ ~Stopped
  BY <1>1 DEF Transition, Shutdown, ShutdownHook, Stopped
<1>3. CASE MissingShutdownHook \/ RunStartupHooks \/ InHook
  BY <1>3 DEF MissingShutdownHook, RunStartupHooks, InHook, StartupHookReturns, StartupHookRaises
<1>4. CASE \E n \in Names, deps \in SUBSET Names : RegisterStartupHook(n, deps)
  BY <1>4 DEF RegisterStartupHook
<1>5. CASE \E n \in Names : RegisterShutdownHook(n)
  BY <1>5 DEF RegisterShutdownHook
<1>6. CASE UNCHANGED vars
  BY <1>6 DEF vars
<1>7. QED  BY <1>2, <1>3, <1>4, <1>5, <1>6 DEF Next, InShutdown

\* STOPPED is final: once shutdown() has returned, no call of the life cycle, in
\* whatever order and from whatever hook, leaves it or calls a shutdown hook
\* once more.
THEOREM StoppedIsFinal == Spec => StoppedForGood
<1>1. Init => TeardownNotDone
  BY DEF Init, TeardownNotDone
<1>2. TeardownNotDone /\ [Next]_vars => [state = "stopped" /\ ~stopping => UNCHANGED <<state, attempted>>]_vars
  BY NoStepFromStopped
<1>3. QED  BY <1>1, <1>2, NotDoneInduction, PTL DEF Spec, StoppedForGood
-----------------------------------------------------------------------------
(* The plugins                                                               *)

\* The recursion in Registering, and what it comes to
NamesUpTo(loaded, f) ==
  /\ f[0] = registered
  /\ \A i \in 1..Len(loaded) :
        f[i] = IF loaded[i] \in ToSet(f[i-1]) THEN f[i-1] ELSE Append(f[i-1], loaded[i])

LEMMA RegisteringRecursion ==
  ASSUME registered \in Seq(Plugins), NEW loaded \in Seq(Plugins)
  PROVE  \E f \in [0..Len(loaded) -> Seq(Plugins)] :
            NamesUpTo(loaded, f) /\ Registering(loaded) = f[Len(loaded)]
<1> DEFINE N == Len(loaded)
           X == Seq(Plugins)
           c == registered
           Added(i, x) == IF loaded[i] \in ToSet(x) THEN x ELSE Append(x, loaded[i])
           g == [p \in Nat \X X |-> IF p[1] \in 1..N THEN Added(p[1], p[2]) ELSE p[2]]
           body(f) == [i \in 0..N |-> IF i = 0 THEN registered
                                      ELSE IF loaded[i] \in ToSet(f[i - 1]) THEN f[i - 1]
                                      ELSE Append(f[i - 1], loaded[i])]
<1>1. N \in Nat /\ \A i \in 1..N : loaded[i] \in Plugins
  BY LenProperties, ElementOfSeq
<1>2. ASSUME NEW n \in Nat, NEW x \in X
      PROVE  g[<<n, x>>] = (IF n \in 1..N THEN Added(n, x) ELSE x) /\ g[<<n, x>>] \in X
  <2>1. g[<<n, x>>] = IF n \in 1..N THEN Added(n, x) ELSE x
    OBVIOUS
  <2>2. n \in 1..N => Append(x, loaded[n]) \in X
    BY <1>1
  <2>3. QED  BY <2>1, <2>2
<1>3. c \in X
  OBVIOUS
<1> HIDE DEF g, X, c
<1>4. PICK f \in [0..N -> X] : Iterates(f, N, c, g)
  <2> HIDE DEF N
  <2>1. Closed(g, X)
    BY <1>2 DEF Closed
  <2>2. QED  BY <1>1, <1>3, <2>1, Recursion
<1>5. f[0] = c /\ \A i \in 1..N : f[i] = Added(i, f[i-1])
  <2> HIDE DEF Added
  <2>1. f[0] = c
    BY <1>1, <1>4 DEF Iterates
  <2>2. ASSUME NEW i \in 1..N  PROVE f[i] = Added(i, f[i-1])
    <3>1. i \in 0..N /\ i # 0 /\ i \in Nat /\ i - 1 \in 0..N
      BY <1>1
    <3>2. f[i] = g[<<i, f[i-1]>>] /\ f[i-1] \in X
      BY <1>4, <3>1 DEF Iterates
    <3>3. QED  BY <1>2, <3>1, <3>2
  <2>3. QED  BY <2>1, <2>2
<1>6. ASSUME NEW h  PROVE h = body(h) <=> h = f
  <2>1. f = body(f)
    <3> HIDE DEF Added
    <3>1. \A i \in 0..N : f[i] = IF i = 0 THEN c ELSE Added(i, f[i-1])
      BY <1>1, <1>5
    <3>2. QED  BY <1>4, <3>1 DEF Added, c
  <2>2. ASSUME h = body(h)  PROVE h = f
    <3> DEFINE e == body(h)
    <3>1. \A i \in 0..N : e[i] = IF i = 0 THEN c ELSE Added(i, h[i-1])
      BY DEF c
    <3>2. h[0] = c /\ h = [i \in 0..N |-> h[i]]
      BY <1>1, <2>2 DEF c
    <3>3. \A i \in 1..N : h[i] = Added(i, h[i-1])
      <4> TAKE i \in 1..N
      <4>1. i \in 0..N /\ i # 0
        BY <1>1
      <4> HIDE DEF e
      <4>2. e[i] = Added(i, h[i-1])
        BY <3>1, <4>1
      <4>3. QED  BY <2>2, <4>2 DEF e
    <3> HIDE DEF e, Added, body, N
    <3>4. f = [i \in 0..N |-> f[i]]
      BY <1>4
    <3>5. InStep(h, f, N)
      BY <1>5, <3>2, <3>3, <3>4 DEF InStep
    <3>6. QED  BY <1>1, <3>5, Unique
  <2>3. QED  BY <2>1, <2>2
<1>7. Registering(loaded) = f[N]
  <2>1. Registering(loaded) = (CHOOSE h : h = body(h))[N]
    BY DEF Registering
  <2> HIDE DEF body
  <2>2. (CHOOSE h : h = body(h)) = f
    BY <1>6
  <2>3. QED  BY <2>1, <2>2
<1>8. NamesUpTo(loaded, f)
  BY <1>5 DEF NamesUpTo, c
<1>9. QED  BY <1>7, <1>8 DEF X

LEMMA RegisteringProperties ==
  ASSUME registered \in Seq(Plugins), IsInjective(registered), NEW loaded \in Seq(Plugins)
  PROVE  /\ Registering(loaded) \in Seq(Plugins) /\ IsInjective(Registering(loaded))
         /\ Members \subseteq ToSet(Registering(loaded))
<1> DEFINE N == Len(loaded)
<1>1. N \in Nat /\ \A i \in 1..N : loaded[i] \in Plugins
  BY LenProperties, ElementOfSeq
<1>2. PICK f \in [0..N -> Seq(Plugins)] : NamesUpTo(loaded, f) /\ Registering(loaded) = f[N]
  BY RegisteringRecursion
<1> DEFINE P == {i \in 0..N : IsInjective(f[i]) /\ Members \subseteq ToSet(f[i])}
<1>3. 0 \in P
  BY <1>1, <1>2 DEF NamesUpTo, Members
<1>4. ASSUME NEW n \in 0..N, n \in P, n < N  PROVE n + 1 \in P
  <2>1. n + 1 \in 1..N /\ n + 1 \in 0..N /\ (n + 1) - 1 = n
    BY <1>1, <1>4
  <2>2. f[n + 1] = IF loaded[n + 1] \in ToSet(f[n]) THEN f[n] ELSE Append(f[n], loaded[n + 1])
    BY <1>2, <2>1 DEF NamesUpTo
  <2>3. f[n] \in Seq(Plugins) /\ loaded[n + 1] \in Plugins
    BY <1>1, <1>2, <2>1
  <2>4. IsInjective(f[n]) /\ Members \subseteq ToSet(f[n])
    BY <1>4
  <2>5. /\ ToSet(Append(f[n], loaded[n + 1])) = ToSet(f[n]) \cup {loaded[n + 1]}
        /\ IsInjective(f[n]) /\ loaded[n + 1] \notin ToSet(f[n])
             => IsInjective(Append(f[n], loaded[n + 1]))
    BY <2>3, Appended
  <2>6. QED  BY <2>1, <2>2, <2>4, <2>5
<1>5. N \in P
  <2> HIDE DEF P
  <2>1. 0..N \subseteq P
    BY <1>1, <1>3, <1>4, Induction
  <2>2. QED  BY <1>1, <2>1
<1>6. QED  BY <1>1, <1>2, <1>5

\* One call at a time, with the plugins it has left in an order that suits it.
CallInv ==
  /\ PluginTypeOK
  /\ pluginsToStart = <<>> \/ pluginsToStop = <<>>
  /\ IsInjective(registered) /\ IsInjective(pluginsToStart)
  /\ \A k \in 1..Len(pluginsToStart) :
        pluginNeeds[pluginsToStart[k]]
          \subseteq (Members \ ToSet(pluginsToStart)) \cup {pluginsToStart[j] : j \in 1..k-1}
  /\ pluginsToStart # <<>> =>
       /\ runs > 0 /\ failed = {p \in Members : pluginState[p] = "failed"}
       /\ \A p \in ToSet(pluginsToStart), d \in Plugins \ ToSet(pluginsToStart) :
             d \in pluginNeeds[p] => pluginState[d] \in {"active", "failed"}
  /\ pluginsToStop # <<>> =>
       \A p \in Members : pluginState[p] \in {"registered", "stopped"} \/ p \in ToSet(pluginsToStop)
  /\ runs = 0 /\ pluginsToStop = <<>> =>
       \A p \in Members : pluginState[p] \in {"registered", "stopped"}

\* What register_plugin() and discover() have in common
NewPlugins ==
  /\ registered' \in Seq(Plugins) /\ IsInjective(registered') /\ Members \subseteq Members'
  /\ pluginState' = [p \in Plugins |-> IF p \in Members' \ Members THEN "registered" ELSE pluginState[p]]
  /\ UNCHANGED <<failFast, pluginNeeds, startupOrder, container, configuring,
                 pluginsToStart, failed, pluginsToStop, runs, raised>>

LEMMA Registers ==
  CallInv => /\ \A p \in Plugins : RegisterPlugin(p) => NewPlugins
             /\ \A loaded \in EntryPoints : Discover(loaded) => NewPlugins
<1> SUFFICES ASSUME CallInv
             PROVE  /\ \A p \in Plugins : RegisterPlugin(p) => NewPlugins
                    /\ \A loaded \in EntryPoints : Discover(loaded) => NewPlugins
  OBVIOUS
<1>0. registered \in Seq(Plugins) /\ IsInjective(registered) /\ pluginState \in [Plugins -> PluginStates]
  BY DEF CallInv, PluginTypeOK
<1>1. ASSUME NEW p \in Plugins, RegisterPlugin(p)  PROVE NewPlugins
  <2>1. /\ registered' = Append(registered, p) /\ p \notin Members
        /\ pluginState' = [pluginState EXCEPT ![p] = "registered"]
        /\ UNCHANGED <<failFast, pluginNeeds, startupOrder, container, configuring,
                       pluginsToStart, failed, pluginsToStop, runs, raised>>
    BY <1>1 DEF RegisterPlugin, callVars
  <2>2. /\ registered' \in Seq(Plugins) /\ IsInjective(registered') /\ Members' = Members \cup {p}
    BY <1>0, <2>1, Appended DEF Members
  <2>3. QED  BY <1>0, <2>1, <2>2 DEF NewPlugins
<1>2. ASSUME NEW loaded \in EntryPoints, Discover(loaded)  PROVE NewPlugins
  <2>1. loaded \in Seq(Plugins)
    BY PluginConstants
  <2>2. /\ registered' = Registering(loaded)
        /\ pluginState' = [p \in Plugins |-> IF p \in ToSet(Registering(loaded)) \ Members
                                             THEN "registered" ELSE pluginState[p]]
        /\ UNCHANGED <<failFast, pluginNeeds, startupOrder, container, configuring,
                       pluginsToStart, failed, pluginsToStop, runs, raised>>
    BY <1>2 DEF Discover, callVars
  <2>3. Members' = ToSet(Registering(loaded))
    BY <2>2 DEF Members
  <2>4. QED  BY <1>0, <2>1, <2>2, <2>3, RegisteringProperties DEF NewPlugins
<1>3. QED  BY <1>1, <1>2

\* The plugin whose turn it is: what it needs has had its turn.
LEMMA FirstInLine ==
  ASSUME CallInv, Starting
  PROVE  /\ Current \in Members /\ Current \in Plugins /\ Current \in ToSet(pluginsToStart)
         /\ Tail(pluginsToStart) \in Seq(Plugins) /\ IsInjective(Tail(pluginsToStart))
         /\ ToSet(pluginsToStart) = ToSet(Tail(pluginsToStart)) \cup {Current}
         /\ Current \notin ToSet(Tail(pluginsToStart))
         /\ pluginNeeds[Current] \subseteq Members \ ToSet(pluginsToStart)
         /\ \A d \in pluginNeeds[Current] : pluginState[d] \in {"active", "failed"}
         /\ Barred <=> \/ pluginState[Current] = "failed"
                       \/ \E d \in pluginNeeds[Current] : pluginState[d] = "failed"
         /\ \A k \in 1..Len(Tail(pluginsToStart)) :
               pluginNeeds[Tail(pluginsToStart)[k]]
                 \subseteq (Members \ ToSet(Tail(pluginsToStart)))
                             \cup {Tail(pluginsToStart)[j] : j \in 1..k-1}
<1> DEFINE s == pluginsToStart  c == Head(s)  t == Tail(s)  l == Len(t)
<1>0. /\ s \in Seq(Plugins) /\ s # <<>> /\ IsInjective(s) /\ ToSet(s) \subseteq Members
      /\ failed = {p \in Members : pluginState[p] = "failed"}
      /\ \A p \in ToSet(s), d \in Plugins \ ToSet(s) : d \in pluginNeeds[p] => pluginState[d] \in {"active", "failed"}
      /\ \A k \in 1..Len(s) : pluginNeeds[s[k]] \subseteq (Members \ ToSet(s)) \cup {s[j] : j \in 1..k-1}
      /\ Members \subseteq Plugins
  <2>1. Members \subseteq Plugins
    BY Elements DEF CallInv, PluginTypeOK, Members
  <2>2. QED  BY <2>1 DEF CallInv, PluginTypeOK, Starting
<1>1. /\ c \in ToSet(s) /\ c = s[1] /\ t \in Seq(Plugins)
      /\ ToSet(s) = ToSet(t) \cup {c} /\ c \notin ToSet(t) /\ IsInjective(t)
      /\ Len(s) = l + 1 /\ l \in Nat
      /\ \A k \in 1..l : t[k] = s[k + 1]
  <2>1. /\ c \in ToSet(s) /\ c = s[1] /\ t \in Seq(Plugins)
        /\ ToSet(s) = ToSet(t) \cup {c}
        /\ IsInjective(s) => c \notin ToSet(t) /\ IsInjective(t)
        /\ Len(s) \in Nat \ {0} /\ l = Len(s) - 1
        /\ \A k \in 1..Len(s) - 1 : t[k] = s[k + 1]
    BY <1>0, Split
  <2> HIDE DEF s, c, t, l
  <2>2. QED  BY <1>0, <2>1
<1> HIDE DEF s, c, t, l
<1>2. pluginNeeds[c] \subseteq Members \ ToSet(s)
  <2>1. 1 \in 1..Len(s) /\ 1..(1-1) = {}
    BY <1>1
  <2>2. QED  BY <1>0, <1>1, <2>1
<1>3. ASSUME NEW k \in 1..l
      PROVE  pluginNeeds[t[k]] \subseteq (Members \ ToSet(t)) \cup {t[j] : j \in 1..k-1}
  <2>1. k + 1 \in 1..Len(s) /\ t[k] = s[k + 1] /\ (k + 1) - 1 = k
    BY <1>1
  <2>2. pluginNeeds[t[k]] \subseteq (Members \ ToSet(s)) \cup {s[j] : j \in 1..k}
    BY <1>0, <2>1
  <2>3. ASSUME NEW j \in 1..k  PROVE s[j] = c \/ \E i \in 1..k-1 : s[j] = t[i]
    <3>1. CASE j = 1
      BY <1>1, <3>1
    <3>2. CASE j # 1
      <4>1. j - 1 \in 1..k-1 /\ j - 1 \in 1..l /\ (j - 1) + 1 = j
        BY <1>1, <3>2
      <4>2. QED  BY <1>1, <4>1
    <3>3. QED  BY <3>1, <3>2
  <2>4. ASSUME NEW d \in pluginNeeds[t[k]]
        PROVE  d \in Members \ ToSet(t) \/ \E i \in 1..k-1 : d = t[i]
    <3>1. CASE d \in Members \ ToSet(s)
      BY <1>1, <3>1
    <3>2. CASE \E j \in 1..k : d = s[j]
      BY <1>0, <1>1, <2>3, <3>2
    <3>3. QED  BY <2>2, <3>1, <3>2
  <2>5. QED  BY <2>4
<1>4. \A d \in pluginNeeds[c] : pluginState[d] \in {"active", "failed"}
  BY <1>0, <1>1, <1>2
<1>5. pluginNeeds[c] \cap failed # {} <=> \E d \in pluginNeeds[c] : pluginState[d] = "failed"
  BY <1>0, <1>2
<1>6. Current = c
  BY DEF Current, c, s
<1>7. QED
  BY <1>0, <1>1, <1>2, <1>3, <1>4, <1>5, <1>6 DEF Barred, s, t, l

LEMMA PluginTeardownProperties ==
  ASSUME CallInv
  PROVE  /\ PluginTeardown \in Seq(Plugins) /\ ToSet(PluginTeardown) = Members
         /\ Len(startupOrder) <= Len(PluginTeardown)
         /\ \A i \in 1..Len(startupOrder) :
               PluginTeardown[i] = startupOrder[Len(startupOrder) - i + 1]
<1> DEFINE r == Reverse(startupOrder)
           k == Kept(Reverse(registered), Members \ ToSet(startupOrder))
           n == Len(startupOrder)
<1>1. startupOrder \in Seq(Plugins) /\ registered \in Seq(Plugins) /\ ToSet(startupOrder) \subseteq Members
  BY DEF CallInv, PluginTypeOK
<1>2. /\ r \in Seq(Plugins) /\ Len(r) = n /\ n \in Nat /\ ToSet(r) = ToSet(startupOrder)
      /\ \A i \in 1..n : r[i] = startupOrder[n - i + 1]
  BY <1>1, Reversed, Elements
<1>3. k \in Seq(Plugins) /\ ToSet(k) = Members \ ToSet(startupOrder) /\ Len(k) \in Nat
  <2>1. Reverse(registered) \in Seq(Plugins) /\ ToSet(Reverse(registered)) = Members
    BY <1>1, Reversed DEF Members
  <2>2. k \in Seq(Plugins) /\ ToSet(k) = ToSet(Reverse(registered)) \cap (Members \ ToSet(startupOrder))
    BY <2>1, KeptProperties
  <2> HIDE DEF k
  <2>3. QED  BY <2>1, <2>2, Elements
<1> HIDE DEF r, k, n
<1>4. /\ r \o k \in Seq(Plugins) /\ ToSet(r \o k) = ToSet(r) \cup ToSet(k)
      /\ Len(r \o k) = Len(r) + Len(k) /\ \A i \in 1..Len(r) : (r \o k)[i] = r[i]
  <2>1. r \in Seq(Plugins) /\ k \in Seq(Plugins)
    BY <1>2, <1>3
  <2>2. QED  BY <2>1, Concatenated
<1>5. PluginTeardown = r \o k
  BY DEF PluginTeardown, r, k
<1>6. n <= Len(r \o k) /\ \A i \in 1..n : (r \o k)[i] = startupOrder[n - i + 1]
  BY <1>2, <1>3, <1>4
<1>7. ToSet(r \o k) = Members
  BY <1>1, <1>2, <1>3, <1>4
<1>8. QED  BY <1>4, <1>5, <1>6, <1>7 DEF n

LEMMA InitCallInv == PluginInit => CallInv
<1> SUFFICES ASSUME PluginInit  PROVE CallInv
  OBVIOUS
<1>1. <<>> \in Seq(Plugins) /\ Len(<<>>) = 0 /\ ToSet(<<>>) = {} /\ IsInjective(<<>>)
  BY DEF ToSet, IsInjective
<1>2. PluginTypeOK
  BY <1>1, PluginConstants DEF PluginInit, PluginTypeOK, PluginStates, Members
<1>3. QED  BY <1>1, <1>2 DEF PluginInit, CallInv, Members

LEMMA JoiningKeepsCalls == CallInv /\ NewPlugins => CallInv'
<1> SUFFICES ASSUME CallInv, NewPlugins  PROVE CallInv'
  OBVIOUS
<1>0. /\ PluginTypeOK
      /\ registered' \in Seq(Plugins) /\ IsInjective(registered') /\ Members \subseteq Members'
      /\ pluginState' = [p \in Plugins |-> IF p \in Members' \ Members THEN "registered" ELSE pluginState[p]]
      /\ UNCHANGED <<failFast, pluginNeeds, startupOrder, container, configuring,
                     pluginsToStart, failed, pluginsToStop, runs, raised>>
  BY DEF CallInv, NewPlugins
<1>1. Members' \subseteq Plugins /\ Members \subseteq Plugins
  BY <1>0, Elements DEF Members, PluginTypeOK
<1>2. (\A p \in Members : pluginState'[p] = pluginState[p])
      /\ \A p \in Members' \ Members : pluginState'[p] = "registered"
  BY <1>0, <1>1
<1>3. PluginTypeOK'
  BY <1>0, <1>1 DEF PluginTypeOK, PluginStates
<1>4. ASSUME NEW k \in 1..Len(pluginsToStart)
      PROVE  pluginNeeds[pluginsToStart[k]]
               \subseteq (Members' \ ToSet(pluginsToStart)) \cup {pluginsToStart[j] : j \in 1..k-1}
  BY <1>0 DEF CallInv
<1>5. ASSUME pluginsToStart # <<>>
      PROVE  /\ runs > 0 /\ failed = {p \in Members' : pluginState'[p] = "failed"}
             /\ \A p \in ToSet(pluginsToStart), d \in Plugins \ ToSet(pluginsToStart) :
                   d \in pluginNeeds[p] => pluginState'[d] \in {"active", "failed"}
  <2>1. /\ runs > 0 /\ failed = {p \in Members : pluginState[p] = "failed"}
        /\ \A p \in ToSet(pluginsToStart), d \in Plugins \ ToSet(pluginsToStart) :
              d \in pluginNeeds[p] => pluginState[d] \in {"active", "failed"}
    BY <1>5 DEF CallInv
  <2>2. \A d \in Plugins : pluginState[d] \in {"active", "failed"} => d \in Members
    BY <1>0 DEF PluginTypeOK
  <2>3. QED  BY <1>0, <1>2, <2>1, <2>2
<1>6. pluginsToStop # <<>> =>
        \A p \in Members' : pluginState'[p] \in {"registered", "stopped"} \/ p \in ToSet(pluginsToStop)
  BY <1>2 DEF CallInv
<1>7. runs = 0 /\ pluginsToStop = <<>> =>
        \A p \in Members' : pluginState'[p] \in {"registered", "stopped"}
  BY <1>2 DEF CallInv
<1>8. IsInjective(pluginsToStart) /\ (pluginsToStart = <<>> \/ pluginsToStop = <<>>)
  BY DEF CallInv
<1> QED  BY <1>0, <1>3, <1>4, <1>5, <1>6, <1>7, <1>8 DEF CallInv

LEMMA InitializeAllKeepsCalls == CallInv /\ InitializeAll => CallInv'
<1> SUFFICES ASSUME CallInv, InitializeAll  PROVE CallInv'
  OBVIOUS
<1> DEFINE o == Kahn(registered, pluginNeeds)
<1>1. /\ NoCall /\ ~PluginsUnresolvable
      /\ pluginsToStart' = o
      /\ failed' = {p \in Members : pluginState[p] = "failed"} /\ runs' = runs + 1
      /\ UNCHANGED <<failFast, pluginNeeds, registered, pluginState, startupOrder, container,
                     configuring, pluginsToStop, raised>>
  BY DEF InitializeAll
<1>2. PluginTypeOK /\ Lists(registered, Members) /\ IsInjective(registered)
  BY Listed DEF CallInv, PluginTypeOK, Members
<1>3. (\A p \in Members : pluginNeeds[p] \subseteq Members) /\ Len(o) = Len(registered)
  BY <1>1 DEF PluginsUnresolvable
<1>4. o \in Seq(Members) /\ IsInjective(o) /\ Ordered(o, pluginNeeds) /\ ToSet(o) = Members
  BY <1>2, <1>3, KahnSorts
<1>5. Members \subseteq Plugins /\ Members' = Members
  BY <1>1, <1>2, Elements DEF Members, PluginTypeOK
<1>6. o \in Seq(Plugins)
  BY <1>4, <1>5, Widened
<1> HIDE DEF o
<1>7. PluginTypeOK'
  BY <1>1, <1>2, <1>4, <1>5, <1>6 DEF PluginTypeOK
<1>8. pluginsToStop = <<>> /\ runs \in Nat
  BY <1>1, <1>2 DEF NoCall, PluginTypeOK
<1>9. \A k \in 1..Len(o) : pluginNeeds[o[k]] \subseteq (Members \ ToSet(o)) \cup {o[j] : j \in 1..k-1}
  BY <1>4 DEF Ordered
<1>10. ASSUME NEW p \in ToSet(o), NEW d \in Plugins \ ToSet(o), d \in pluginNeeds[p]  PROVE FALSE
  BY <1>3, <1>4, <1>10
<1>11. QED
  BY <1>1, <1>2, <1>4, <1>5, <1>7, <1>8, <1>9, <1>10 DEF CallInv

\* What SkipPlugin, OnStartupReturns and OnStartupRaises have in common
TurnTaken ==
  /\ pluginsToStart' = Tail(pluginsToStart) \/ (failFast /\ pluginsToStart' = <<>>)
  /\ \/ /\ pluginState' = [pluginState EXCEPT ![Current] = "failed"]
        /\ failed' = failed \cup {Current}
        /\ startupOrder' = startupOrder /\ raised' \in {raised, raised \cup {Current}}
        /\ Barred \/ Current \in raised'
     \/ /\ pluginState' = [pluginState EXCEPT ![Current] = "active"]
        /\ failed' = failed /\ raised' = raised \ {Current}
        /\ startupOrder' = Append(startupOrder, Current)
        /\ pluginsToStart' = Tail(pluginsToStart) /\ ~Barred
  /\ UNCHANGED <<failFast, pluginNeeds, registered, configuring, pluginsToStop, runs>>

LEMMA Initializes ==
  CallInv /\ Initialize =>
    /\ Starting /\ TurnTaken
    /\ container' \in [Services -> Plugins \cup {"nobody", "application"}]
    /\ \A s \in Services : container[s] # "nobody" => container'[s] # "nobody"
<1> SUFFICES ASSUME CallInv, Initialize
             PROVE  /\ Starting /\ TurnTaken
                    /\ container' \in [Services -> Plugins \cup {"nobody", "application"}]
                    /\ \A s \in Services : container[s] # "nobody" => container'[s] # "nobody"
  OBVIOUS
<1>0. container \in [Services -> Plugins \cup {"nobody", "application"}]
  BY DEF CallInv, PluginTypeOK
<1>1. Starting
  BY DEF Initialize, SkipPlugin, OnStartupReturns, OnStartupRaises
<1>2. Current \in Plugins /\ Current # "nobody"
  BY <1>1, FirstInLine, PluginConstants
<1>3. CASE SkipPlugin
  BY <1>0, <1>1, <1>3 DEF SkipPlugin, TurnTaken
<1>4. CASE OnStartupReturns
  <2>1. TurnTaken
    BY <1>4 DEF OnStartupReturns, TurnTaken
  <2>2. PICK services \in SUBSET Services :
           container' = [s \in Services |-> IF s \in services THEN Current ELSE container[s]]
    BY <1>4 DEF OnStartupReturns
  <2>3. QED  BY <1>0, <1>1, <1>2, <2>1, <2>2
<1>5. CASE OnStartupRaises
  <2>1. TurnTaken
    BY <1>5 DEF OnStartupRaises, TurnTaken
  <2>2. PICK services \in SUBSET Services : container' = RolledBack(services)
    BY <1>5 DEF OnStartupRaises
  <2>3. container' = [s \in Services |-> IF s \in Registrations \cap services THEN Current ELSE container[s]]
    BY <2>2 DEF RolledBack
  <2>4. QED  BY <1>0, <1>1, <1>2, <2>1, <2>3
<1>6. QED  BY <1>3, <1>4, <1>5 DEF Initialize

LEMMA TurnKeepsCalls ==
  ASSUME CallInv, Starting, TurnTaken, container' \in [Services -> Plugins \cup {"nobody", "application"}]
  PROVE  CallInv'
<1> DEFINE c == Current  t == Tail(pluginsToStart)
<1>1. /\ c \in Members /\ c \in Plugins /\ c \in ToSet(pluginsToStart)
      /\ t \in Seq(Plugins) /\ IsInjective(t)
      /\ ToSet(pluginsToStart) = ToSet(t) \cup {c} /\ c \notin ToSet(t)
      /\ pluginNeeds[c] \subseteq Members \ ToSet(pluginsToStart)
      /\ \A d \in pluginNeeds[c] : pluginState[d] \in {"active", "failed"}
      /\ \A k \in 1..Len(t) :
            pluginNeeds[t[k]] \subseteq (Members \ ToSet(t)) \cup {t[j] : j \in 1..k-1}
  BY FirstInLine
<1>2. PluginTypeOK /\ pluginsToStart # <<>> /\ pluginsToStop = <<>> /\ runs > 0
      /\ failed = {p \in Members : pluginState[p] = "failed"}
      /\ \A p \in ToSet(pluginsToStart), d \in Plugins \ ToSet(pluginsToStart) :
            d \in pluginNeeds[p] => pluginState[d] \in {"active", "failed"}
  BY DEF CallInv, Starting
<1>3. <<>> \in Seq(Plugins) /\ Len(<<>>) = 0 /\ ToSet(<<>>) = {} /\ IsInjective(<<>>)
  BY DEF ToSet, IsInjective
<1>4. Members' = Members /\ UNCHANGED <<failFast, pluginNeeds, registered, configuring, pluginsToStop, runs>>
  BY DEF TurnTaken, Members
<1>5. PICK v \in {"active", "failed"} : pluginState' = [pluginState EXCEPT ![c] = v]
  BY DEF TurnTaken
<1>6. pluginsToStart' \in {t, <<>>}
  BY DEF TurnTaken
<1>7. startupOrder' \in Seq(Plugins) /\ ToSet(startupOrder') \subseteq Members
  <2>1. startupOrder \in Seq(Plugins) /\ ToSet(startupOrder) \subseteq Members
    BY <1>2 DEF PluginTypeOK
  <2>2. Append(startupOrder, c) \in Seq(Plugins) /\ ToSet(Append(startupOrder, c)) = ToSet(startupOrder) \cup {c}
    BY <1>1, <2>1, Appended
  <2> HIDE DEF c
  <2>3. startupOrder' \in {startupOrder, Append(startupOrder, c)}
    BY DEF TurnTaken, c
  <2>4. QED  BY <1>1, <2>1, <2>2, <2>3
<1>8. failed' = {p \in Members : pluginState'[p] = "failed"} /\ raised' \subseteq Members
  <2>1. pluginState \in [Plugins -> PluginStates] /\ Members \subseteq Plugins /\ raised \subseteq Members
    BY <1>2, Elements DEF PluginTypeOK, Members
  <2>2. CASE pluginState' = [pluginState EXCEPT ![c] = "failed"] /\ failed' = failed \cup {c}
             /\ raised' \in {raised, raised \cup {c}}
    BY <1>1, <1>2, <2>1, <2>2
  <2>3. CASE /\ pluginState' = [pluginState EXCEPT ![c] = "active"] /\ failed' = failed
             /\ raised' = raised \ {c} /\ ~Barred
    <3>1. pluginState[c] # "failed"
      BY <2>3 DEF Barred
    <3>2. QED  BY <1>1, <1>2, <2>1, <2>3, <3>1
  <2>4. QED  BY <2>2, <2>3 DEF TurnTaken
<1> HIDE DEF c, t
<1>9. PluginTypeOK'
  <2>1. pluginState' \in [Plugins -> PluginStates]
    BY <1>2, <1>5 DEF PluginTypeOK, PluginStates
  <2>2. \A p \in Plugins : (pluginState'[p] = "unregistered") <=> (p \notin Members)
    BY <1>1, <1>2, <1>5 DEF PluginTypeOK
  <2>3. pluginsToStart' \in Seq(Plugins) /\ ToSet(pluginsToStart') \subseteq Members
    BY <1>1, <1>2, <1>3, <1>6 DEF PluginTypeOK
  <2>4. QED  BY <1>2, <1>4, <1>7, <1>8, <2>1, <2>2, <2>3 DEF PluginTypeOK
<1>10. /\ IsInjective(pluginsToStart')
       /\ \A k \in 1..Len(pluginsToStart') :
             pluginNeeds[pluginsToStart'[k]]
               \subseteq (Members \ ToSet(pluginsToStart')) \cup {pluginsToStart'[j] : j \in 1..k-1}
  BY <1>1, <1>3, <1>6
<1>11. ASSUME NEW p \in ToSet(pluginsToStart'), NEW d \in Plugins \ ToSet(pluginsToStart'), d \in pluginNeeds[p]
       PROVE  pluginState'[d] \in {"active", "failed"}
  <2>1. p \in ToSet(t) /\ d \notin ToSet(t)
    BY <1>3, <1>6, <1>11
  <2>2. d = c \/ pluginState[d] \in {"active", "failed"}
    BY <1>1, <1>2, <1>11, <2>1
  <2>3. QED  BY <1>2, <1>5, <2>2 DEF PluginTypeOK
<1>12. IsInjective(registered)
  BY DEF CallInv
<1>13. QED
  BY <1>2, <1>4, <1>8, <1>9, <1>10, <1>11, <1>12 DEF CallInv

LEMMA ShutdownAllKeepsCalls == CallInv /\ ShutdownAll => CallInv'
<1> SUFFICES ASSUME CallInv, ShutdownAll  PROVE CallInv'
  OBVIOUS
<1>1. /\ NoCall /\ pluginsToStop' = PluginTeardown
      /\ UNCHANGED <<failFast, pluginNeeds, registered, pluginState, startupOrder, container,
                     configuring, pluginsToStart, failed, runs, raised>>
  BY DEF ShutdownAll
<1>2. PluginTeardown \in Seq(Plugins) /\ ToSet(PluginTeardown) = Members
  BY PluginTeardownProperties
<1>3. Members' = Members /\ pluginsToStart = <<>>
  BY <1>1 DEF Members, NoCall
<1>4. PluginTypeOK'
  BY <1>1, <1>2, <1>3 DEF CallInv, PluginTypeOK
<1>5. PluginTeardown = <<>> => Members = {}
  BY <1>2 DEF ToSet
<1> HIDE DEF PluginTeardown
<1>6. QED  BY <1>1, <1>2, <1>3, <1>4, <1>5 DEF CallInv

LEMMA StopKeepsCalls == CallInv /\ StopPlugin => CallInv'
<1> SUFFICES ASSUME CallInv, StopPlugin  PROVE CallInv'
  OBVIOUS
<1> DEFINE h == Head(pluginsToStop)  t == Tail(pluginsToStop)
<1>1. /\ pluginsToStop # <<>> /\ pluginState' = [pluginState EXCEPT ![h] = "stopped"]
      /\ pluginsToStop' = t
      /\ startupOrder' \in {startupOrder, <<>>} /\ runs' \in {runs, 0}
      /\ UNCHANGED <<failFast, pluginNeeds, registered, container, configuring,
                     pluginsToStart, failed, raised>>
  BY DEF StopPlugin
<1>2. PluginTypeOK /\ pluginsToStart = <<>>
  BY <1>1 DEF CallInv
<1>3. /\ h \in ToSet(pluginsToStop) /\ t \in Seq(Plugins)
      /\ ToSet(pluginsToStop) = ToSet(t) \cup {h} /\ ToSet(pluginsToStop) \subseteq Members
  BY <1>1, <1>2, Split DEF PluginTypeOK
<1>4. Members' = Members /\ Members \subseteq Plugins
  BY <1>1, <1>2, Elements DEF Members, PluginTypeOK
<1>5. <<>> \in Seq(Plugins) /\ Len(<<>>) = 0 /\ ToSet(<<>>) = {}
  BY DEF ToSet
<1> HIDE DEF h, t
<1>6. \A p \in Members : pluginState'[p] = IF p = h THEN "stopped" ELSE pluginState[p]
  BY <1>1, <1>2, <1>4 DEF PluginTypeOK
<1>7. PluginTypeOK'
  <2>1. pluginState' \in [Plugins -> PluginStates]
    BY <1>1, <1>2 DEF PluginTypeOK, PluginStates
  <2>2. \A p \in Plugins : (pluginState'[p] = "unregistered") <=> (p \notin Members)
    BY <1>1, <1>2, <1>3 DEF PluginTypeOK
  <2>3. startupOrder' \in Seq(Plugins) /\ ToSet(startupOrder') \subseteq Members /\ runs' \in Nat
    <3>1. startupOrder \in Seq(Plugins) /\ ToSet(startupOrder) \subseteq Members /\ runs \in Nat
      BY <1>2 DEF PluginTypeOK
    <3>2. CASE startupOrder' = startupOrder
      BY <1>1, <3>1, <3>2
    <3>3. CASE startupOrder' = <<>>
      BY <1>1, <1>5, <3>1, <3>3
    <3>4. QED  BY <1>1, <3>2, <3>3
  <2>4. QED  BY <1>1, <1>2, <1>3, <1>4, <2>1, <2>2, <2>3 DEF PluginTypeOK
<1>8. \A p \in Members : pluginState'[p] \in {"registered", "stopped"} \/ p \in ToSet(t)
  BY <1>1, <1>3, <1>6 DEF CallInv
<1>9. t = <<>> => \A p \in Members : pluginState'[p] \in {"registered", "stopped"}
  BY <1>5, <1>8
<1>10. QED
  BY <1>1, <1>2, <1>4, <1>5, <1>7, <1>8, <1>9 DEF CallInv

LEMMA CallInduction == CallInv /\ [PluginNext]_pluginVars => CallInv'
<1> SUFFICES ASSUME CallInv, [PluginNext]_pluginVars  PROVE CallInv'
  OBVIOUS
<1>1. CASE (\E p \in Plugins : RegisterPlugin(p)) \/ \E loaded \in EntryPoints : Discover(loaded)
  BY <1>1, Registers, JoiningKeepsCalls
<1>2. CASE Configured \/ UNCHANGED pluginVars
  <2>1. /\ UNCHANGED <<failFast, pluginNeeds, registered, pluginState, startupOrder, container,
                       pluginsToStart, failed, pluginsToStop, runs, raised>>
        /\ configuring' \in {configuring, FALSE}
    BY <1>2 DEF Configured, pluginVars, callVars
  <2>2. Members' = Members
    BY <2>1 DEF Members
  <2>3. PluginTypeOK'
    BY <2>1, <2>2 DEF CallInv, PluginTypeOK
  <2>4. QED  BY <2>1, <2>2, <2>3 DEF CallInv
<1>3. CASE InitializeAll
  BY <1>3, InitializeAllKeepsCalls
<1>4. CASE Initialize
  BY <1>4, Initializes, TurnKeepsCalls
<1>5. CASE ShutdownAll
  BY <1>5, ShutdownAllKeepsCalls
<1>6. CASE StopPlugin
  BY <1>6, StopKeepsCalls
<1>7. QED  BY <1>1, <1>2, <1>3, <1>4, <1>5, <1>6 DEF PluginNext

\* Why a plugin has failed, and that it has when there is a reason
FailureInv ==
  pluginsToStop = <<>> =>
    /\ \A p \in Members : pluginState[p] = "failed" =>
          p \in raised \/ \E d \in pluginNeeds[p] : pluginState[d] = "failed"
    /\ ~failFast /\ runs > 0 =>
         \A p \in Members \ ToSet(pluginsToStart) : pluginState[p] # "registered" =>
            /\ pluginState[p] \in {"active", "failed"}
            /\ pluginNeeds[p] \subseteq Members \ ToSet(pluginsToStart)
            /\ p \in raised \/ (\E d \in pluginNeeds[p] : pluginState[d] = "failed")
                 => pluginState[p] = "failed"

\* p is in s, and there after (before) all that is d.
Latest(s, p, d) == \E j \in 1..Len(s) : s[j] = p /\ \A i \in 1..Len(s) : s[i] = d => i < j
Earliest(s, p, d) == \E j \in 1..Len(s) : s[j] = p /\ \A i \in 1..Len(s) : s[i] = d => j < i

\* An active plugin had its last startup after those it depends on, and has its
\* first shutdown before them.
ActiveInv ==
  ~(failFast /\ runs > 1) =>
    /\ failFast => \A p \in ToSet(pluginsToStart) : pluginState[p] # "active"
    /\ pluginsToStop = <<>> =>
         \A p \in Members \ ToSet(pluginsToStart) : pluginState[p] = "active" =>
           \A d \in pluginNeeds[p] : /\ d \notin ToSet(pluginsToStart) /\ pluginState[d] = "active"
                                     /\ Latest(startupOrder, p, d)
    /\ pluginsToStop # <<>> =>
         \A p \in Members : pluginState[p] = "active" =>
           \A d \in pluginNeeds[p] : pluginState[d] = "active" /\ Earliest(pluginsToStop, p, d)

PluginInv == CallInv /\ FailureInv /\ ActiveInv

LEMMA LatestKept ==
  ASSUME NEW S, NEW s \in Seq(S), NEW e \in S, NEW p, NEW d, d # e
  PROVE  /\ Latest(s, p, d) => Latest(Append(s, e), p, d)
         /\ Latest(Append(s, e), e, d)
<1> DEFINE t == Append(s, e)  n == Len(s)
<1>1. n \in Nat /\ Len(t) = n + 1 /\ t[n + 1] = e /\ \A i \in 1..n : t[i] = s[i]
  BY Appended, Elements
<1> HIDE DEF t, n
<1>2. \A i \in 1..n+1 : t[i] = d => i \in 1..n /\ s[i] = d
  BY <1>1
<1>3. ASSUME Latest(s, p, d)  PROVE Latest(t, p, d)
  <2>1. PICK j \in 1..n : s[j] = p /\ \A i \in 1..n : s[i] = d => i < j
    BY <1>3 DEF Latest, n
  <2>2. j \in 1..n+1 /\ t[j] = p /\ \A i \in 1..n+1 : t[i] = d => i < j
    BY <1>1, <1>2, <2>1
  <2>3. QED  BY <1>1, <2>2 DEF Latest
<1>4. Latest(t, e, d)
  <2>1. n + 1 \in 1..n+1 /\ t[n + 1] = e /\ \A i \in 1..n+1 : t[i] = d => i < n + 1
    BY <1>1, <1>2
  <2>2. QED  BY <1>1, <2>1 DEF Latest
<1>5. QED  BY <1>3, <1>4 DEF t

LEMMA EarliestInReverse ==
  ASSUME NEW S, NEW s \in Seq(S), NEW t \in Seq(S), Len(s) <= Len(t),
         \A i \in 1..Len(s) : t[i] = s[Len(s) - i + 1],
         NEW p, NEW d, Latest(s, p, d)
  PROVE  Earliest(t, p, d)
<1> DEFINE n == Len(s)  l == Len(t)
<1>1. n \in Nat /\ l \in Nat /\ n <= l
  BY Elements
<1> HIDE DEF n, l
<1>2. PICK j \in 1..n : s[j] = p /\ \A i \in 1..n : s[i] = d => i < j
  BY DEF Latest, n
<1>3. n - j + 1 \in 1..n /\ n - j + 1 \in 1..l /\ n - (n - j + 1) + 1 = j
  BY <1>1, <1>2
<1>4. t[n - j + 1] = p
  BY <1>2, <1>3 DEF n
<1>5. ASSUME NEW i \in 1..l, t[i] = d  PROVE n - j + 1 < i
  <2>1. CASE i \in 1..n
    <3>1. n - i + 1 \in 1..n /\ s[n - i + 1] = d
      BY <1>1, <1>5, <2>1 DEF n
    <3>2. n - i + 1 < j
      BY <1>2, <3>1
    <3>3. QED  BY <1>1, <2>1, <3>2
  <2>2. CASE i \notin 1..n
    BY <1>1, <1>2, <2>2
  <2>3. QED  BY <2>1, <2>2
<1>6. QED  BY <1>3, <1>4, <1>5 DEF Earliest, l

LEMMA EarliestInRest ==
  ASSUME NEW S, NEW s \in Seq(S), s # <<>>, NEW p, NEW d, Earliest(s, p, d), p # Head(s)
  PROVE  d # Head(s) /\ Earliest(Tail(s), p, d)
<1> DEFINE t == Tail(s)  n == Len(s)
<1>1. n \in Nat \ {0} /\ Head(s) = s[1] /\ Len(t) = n - 1 /\ \A i \in 1..n-1 : t[i] = s[i + 1]
  BY Split
<1> HIDE DEF t, n
<1>2. PICK j \in 1..n : s[j] = p /\ \A i \in 1..n : s[i] = d => j < i
  BY DEF Earliest, n
<1>3. j # 1 /\ 1 \in 1..n
  BY <1>1, <1>2
<1>4. d # Head(s)
  BY <1>1, <1>2, <1>3
<1>5. j - 1 \in 1..n-1 /\ (j - 1) + 1 = j
  BY <1>1, <1>2, <1>3
<1>6. ASSUME NEW i \in 1..n-1, t[i] = d  PROVE j - 1 < i
  <2>1. i + 1 \in 1..n /\ s[i + 1] = d
    BY <1>1, <1>6
  <2>2. QED  BY <1>2, <2>1
<1>7. Earliest(t, p, d)
  BY <1>1, <1>2, <1>5, <1>6 DEF Earliest
<1>8. QED  BY <1>4, <1>7 DEF t

LEMMA InitPluginInv == PluginInit => PluginInv
<1> SUFFICES ASSUME PluginInit  PROVE PluginInv
  OBVIOUS
<1>1. Members = {} /\ ToSet(pluginsToStart) = {}
  BY DEF PluginInit, Members, ToSet
<1>2. QED  BY <1>1, InitCallInv DEF PluginInv, FailureInv, ActiveInv

LEMMA JoiningKeepsRest == PluginInv /\ NewPlugins => FailureInv' /\ ActiveInv'
<1> SUFFICES ASSUME PluginInv, NewPlugins  PROVE FailureInv' /\ ActiveInv'
  OBVIOUS
<1>0. /\ PluginTypeOK /\ FailureInv /\ ActiveInv /\ Members \subseteq Members'
      /\ registered' \in Seq(Plugins)
      /\ pluginState' = [p \in Plugins |-> IF p \in Members' \ Members THEN "registered" ELSE pluginState[p]]
      /\ UNCHANGED <<failFast, pluginNeeds, startupOrder, pluginsToStart, pluginsToStop, runs, raised>>
  BY DEF PluginInv, CallInv, NewPlugins
<1>1. Members' \subseteq Plugins /\ Members \subseteq Plugins
  BY <1>0, Elements DEF Members, PluginTypeOK
<1>2. (\A p \in Members : pluginState'[p] = pluginState[p])
      /\ \A p \in Members' \ Members : pluginState'[p] = "registered"
  BY <1>0, <1>1
<1>3. \A p \in Plugins : pluginState[p] \in {"active", "failed"} => p \in Members
  BY <1>0 DEF PluginTypeOK
<1>4. \A p \in Members : \A d \in pluginNeeds[p] : d \in Plugins
  BY <1>0, <1>1 DEF PluginTypeOK
<1>5. \A p \in Plugins, v \in {"active", "failed"} : pluginState'[p] = v <=> pluginState[p] = v
  BY <1>0, <1>3
<1>6. FailureInv'
  <2> SUFFICES ASSUME pluginsToStop' = <<>>
               PROVE  /\ \A p \in Members' : pluginState'[p] = "failed" =>
                            p \in raised' \/ \E d \in pluginNeeds'[p] : pluginState'[d] = "failed"
                      /\ ~failFast' /\ runs' > 0 =>
                           \A p \in Members' \ ToSet(pluginsToStart') : pluginState'[p] # "registered" =>
                             /\ pluginState'[p] \in {"active", "failed"}
                             /\ pluginNeeds'[p] \subseteq Members' \ ToSet(pluginsToStart')
                             /\ p \in raised' \/ (\E d \in pluginNeeds'[p] : pluginState'[d] = "failed")
                                  => pluginState'[p] = "failed"
    BY DEF FailureInv
  <2>1. ASSUME NEW p \in Members', pluginState'[p] = "failed"
        PROVE  p \in raised \/ \E d \in pluginNeeds[p] : pluginState'[d] = "failed"
    <3>1. p \in Members /\ pluginState[p] = "failed" /\ pluginsToStop = <<>>
      BY <1>0, <1>2, <2>1
    <3>2. p \in raised \/ \E d \in pluginNeeds[p] : pluginState[d] = "failed"
      BY <1>0, <3>1 DEF FailureInv
    <3>3. \A d \in pluginNeeds[p] : pluginState'[d] = "failed" <=> pluginState[d] = "failed"
      BY <1>4, <1>5, <3>1
    <3>4. QED  BY <3>2, <3>3
  <2>2. ASSUME ~failFast, runs > 0, NEW p \in Members' \ ToSet(pluginsToStart), pluginState'[p] # "registered"
        PROVE  /\ pluginState'[p] \in {"active", "failed"}
               /\ pluginNeeds[p] \subseteq Members' \ ToSet(pluginsToStart)
               /\ p \in raised \/ (\E d \in pluginNeeds[p] : pluginState'[d] = "failed")
                    => pluginState'[p] = "failed"
    <3>1. p \in Members /\ pluginState'[p] = pluginState[p]
      BY <1>2, <2>2
    <3>2. pluginsToStop = <<>> /\ p \in Members \ ToSet(pluginsToStart) /\ pluginState[p] # "registered"
      BY <1>0, <2>2, <3>1
    <3>3. /\ pluginState[p] \in {"active", "failed"}
          /\ pluginNeeds[p] \subseteq Members \ ToSet(pluginsToStart)
          /\ p \in raised \/ (\E d \in pluginNeeds[p] : pluginState[d] = "failed")
               => pluginState[p] = "failed"
      BY <1>0, <2>2, <3>2 DEF FailureInv
    <3>4. \A d \in pluginNeeds[p] : pluginState'[d] = "failed" <=> pluginState[d] = "failed"
      BY <1>4, <1>5, <3>2
    <3>5. QED  BY <1>0, <3>1, <3>3, <3>4
  <2>3. QED  BY <1>0, <2>1, <2>2
<1>7. ActiveInv'
  <2>1. \A p \in Members' : pluginState'[p] = "active" => p \in Members /\ pluginState[p] = "active"
    BY <1>2
  <2>2. ToSet(pluginsToStart) \subseteq Members
    BY <1>0 DEF PluginTypeOK
  <2>3. \A p \in Members : pluginState[p] = "active" =>
          \A d \in pluginNeeds[p] : pluginState[d] = "active" => pluginState'[d] = "active"
    BY <1>4, <1>5
  <2>4. \A p \in ToSet(pluginsToStart) : pluginState'[p] = pluginState[p]
    BY <1>2, <2>2
  <2>5. QED  BY <1>0, <2>1, <2>3, <2>4 DEF ActiveInv
<1>8. QED  BY <1>6, <1>7

LEMMA InitializeAllKeepsRest == PluginInv /\ InitializeAll => FailureInv' /\ ActiveInv'
<1> SUFFICES ASSUME PluginInv, InitializeAll  PROVE FailureInv' /\ ActiveInv'
  OBVIOUS
<1> DEFINE o == Kahn(registered, pluginNeeds)
<1>1. /\ NoCall /\ ~PluginsUnresolvable /\ pluginsToStart' = o /\ runs' = runs + 1
      /\ UNCHANGED <<failFast, pluginNeeds, registered, pluginState, pluginsToStop, raised>>
  BY DEF InitializeAll
<1>2. CallInv /\ PluginTypeOK /\ Lists(registered, Members) /\ FailureInv /\ runs \in Nat
  BY Listed DEF PluginInv, CallInv, PluginTypeOK, Members
<1>3. (\A p \in Members : pluginNeeds[p] \subseteq Members) /\ Len(o) = Len(registered)
  BY <1>1 DEF PluginsUnresolvable
<1>4. ToSet(o) = Members /\ Members' = Members /\ pluginsToStop = <<>>
  BY <1>1, <1>2, <1>3, KahnSorts DEF Members, NoCall
<1> HIDE DEF o
<1>5. FailureInv'
  BY <1>1, <1>2, <1>4 DEF FailureInv
<1>6. ASSUME failFast, ~(runs' > 1), NEW p \in Members  PROVE pluginState[p] # "active"
  <2>1. runs = 0
    BY <1>1, <1>2, <1>6
  <2>2. QED  BY <1>2, <1>4, <1>6, <2>1 DEF CallInv
<1>7. ActiveInv'
  BY <1>1, <1>4, <1>6 DEF ActiveInv
<1>8. QED  BY <1>5, <1>7

LEMMA TurnKeepsRest == PluginInv /\ Starting /\ TurnTaken => FailureInv' /\ ActiveInv'
<1> SUFFICES ASSUME PluginInv, Starting, TurnTaken  PROVE FailureInv' /\ ActiveInv'
  OBVIOUS
<1> DEFINE c == Current  t == Tail(pluginsToStart)
<1>0. CallInv /\ PluginTypeOK /\ FailureInv /\ ActiveInv /\ pluginsToStop = <<>>
  BY DEF PluginInv, CallInv, Starting
<1>1. /\ c \in Members /\ c \in Plugins
      /\ ToSet(pluginsToStart) = ToSet(t) \cup {c} /\ c \notin ToSet(t)
      /\ pluginNeeds[c] \subseteq Members \ ToSet(pluginsToStart)
      /\ \A d \in pluginNeeds[c] : pluginState[d] \in {"active", "failed"}
      /\ Barred <=> \/ pluginState[c] = "failed"
                    \/ \E d \in pluginNeeds[c] : pluginState[d] = "failed"
  BY <1>0, FirstInLine
<1>2. /\ Members' = Members /\ ToSet(<<>>) = {} /\ Members \subseteq Plugins
      /\ UNCHANGED <<failFast, pluginNeeds, registered, pluginsToStop, runs>>
  BY <1>0, Elements DEF TurnTaken, Members, ToSet, PluginTypeOK
<1>3. pluginsToStart' = t \/ (failFast /\ pluginsToStart' = <<>>)
  BY DEF TurnTaken
<1>4. \/ /\ pluginState' = [pluginState EXCEPT ![c] = "failed"]
         /\ startupOrder' = startupOrder /\ raised' \in {raised, raised \cup {c}}
         /\ Barred \/ c \in raised'
      \/ /\ pluginState' = [pluginState EXCEPT ![c] = "active"]
         /\ raised' = raised \ {c} /\ startupOrder' = Append(startupOrder, c)
         /\ pluginsToStart' = t /\ ~Barred
  BY DEF TurnTaken
<1>5. \A p \in Members : pluginNeeds[p] \subseteq Plugins
  BY <1>0, <1>2 DEF PluginTypeOK
<1>6. startupOrder \in Seq(Plugins)
  BY <1>0 DEF PluginTypeOK
<1> HIDE DEF c, t
<1>7. \A p \in Plugins : p # c => pluginState'[p] = pluginState[p] /\ (p \in raised' <=> p \in raised)
  BY <1>0, <1>4 DEF PluginTypeOK
<1>8. /\ pluginState'[c] \in {"active", "failed"}
      /\ pluginState[c] = "failed" => pluginState'[c] = "failed" /\ raised \subseteq raised'
      /\ pluginState'[c] = "failed" => Barred \/ c \in raised'
      /\ pluginState'[c] = "active" =>
           ~Barred /\ c \notin raised' /\ startupOrder' = Append(startupOrder, c) /\ pluginsToStart' = t
  BY <1>0, <1>1, <1>4 DEF PluginTypeOK
<1>9. \A d \in pluginNeeds[c] : d # c /\ pluginState'[d] = pluginState[d]
  BY <1>1, <1>5, <1>7
<1>10. ASSUME NEW p \in Members, pluginState'[p] = "failed"
       PROVE  p \in raised' \/ \E d \in pluginNeeds[p] : pluginState'[d] = "failed"
  <2>1. pluginState[p] = "failed" =>
          p \in raised \/ \E d \in pluginNeeds[p] : pluginState[d] = "failed"
    BY <1>0, <1>10 DEF FailureInv
  <2>2. CASE p = c
    BY <1>1, <1>8, <1>9, <1>10, <2>1, <2>2
  <2>3. CASE p # c
    <3>1. pluginState[p] = "failed" /\ (p \in raised => p \in raised')
      BY <1>2, <1>7, <1>10, <2>3
    <3>2. ASSUME NEW d \in pluginNeeds[p], pluginState[d] = "failed"  PROVE pluginState'[d] = "failed"
      BY <1>5, <1>7, <1>8, <3>2
    <3>3. QED  BY <2>1, <3>1, <3>2
  <2>4. QED  BY <2>2, <2>3
<1>11. ASSUME ~failFast, runs > 0, NEW p \in Members \ ToSet(pluginsToStart'), pluginState'[p] # "registered"
       PROVE  /\ pluginState'[p] \in {"active", "failed"}
              /\ pluginNeeds[p] \subseteq Members \ ToSet(pluginsToStart')
              /\ p \in raised' \/ (\E d \in pluginNeeds[p] : pluginState'[d] = "failed")
                   => pluginState'[p] = "failed"
  <2>1. pluginsToStart' = t
    BY <1>3, <1>11
  <2>2. CASE p = c
    BY <1>1, <1>8, <1>9, <2>1, <2>2
  <2>3. CASE p # c
    <3>1. p \in Members \ ToSet(pluginsToStart) /\ pluginState'[p] = pluginState[p]
          /\ (p \in raised' <=> p \in raised)
      BY <1>1, <1>2, <1>7, <1>11, <2>1, <2>3
    <3>2. /\ pluginState[p] \in {"active", "failed"}
          /\ pluginNeeds[p] \subseteq Members \ ToSet(pluginsToStart)
          /\ p \in raised \/ (\E d \in pluginNeeds[p] : pluginState[d] = "failed")
               => pluginState[p] = "failed"
      BY <1>0, <1>11, <3>1 DEF FailureInv
    <3>3. \A d \in pluginNeeds[p] : pluginState'[d] = pluginState[d]
      BY <1>1, <1>2, <1>7, <3>2
    <3>4. pluginNeeds[p] \subseteq Members \ ToSet(t)
      BY <1>1, <3>2
    <3>5. QED  BY <2>1, <3>1, <3>2, <3>3, <3>4
  <2>4. QED  BY <2>2, <2>3
<1>12. FailureInv'
  BY <1>2, <1>10, <1>11 DEF FailureInv
<1>13. ASSUME ~(failFast /\ runs > 1)
       PROVE  /\ failFast => \A p \in ToSet(pluginsToStart) : pluginState[p] # "active"
              /\ \A p \in Members \ ToSet(pluginsToStart) : pluginState[p] = "active" =>
                   \A d \in pluginNeeds[p] : /\ d \notin ToSet(pluginsToStart) /\ pluginState[d] = "active"
                                             /\ Latest(startupOrder, p, d)
  BY <1>0, <1>13 DEF ActiveInv
<1>14. ASSUME ~(failFast /\ runs > 1), failFast, NEW p \in ToSet(pluginsToStart')
       PROVE  pluginState'[p] # "active"
  <2>1. p \in ToSet(t) /\ ToSet(pluginsToStart) \subseteq Members
    BY <1>0, <1>2, <1>3, <1>14 DEF PluginTypeOK
  <2>2. p \in ToSet(pluginsToStart) /\ p # c /\ p \in Plugins
    BY <1>1, <1>2, <2>1
  <2>3. QED  BY <1>7, <1>13, <1>14, <2>2
<1>15. ASSUME ~(failFast /\ runs > 1), NEW p \in Members \ ToSet(pluginsToStart'), pluginState'[p] = "active",
              NEW d \in pluginNeeds[p]
       PROVE  d \notin ToSet(pluginsToStart') /\ pluginState'[d] = "active" /\ Latest(startupOrder', p, d)
  <2>1. CASE p = c
    <3>1. d \notin ToSet(t) /\ pluginState[d] = "active" /\ d # c
      BY <1>1, <1>8, <1>9, <1>15, <2>1
    <3>2. Latest(Append(startupOrder, c), c, d)
      BY <1>1, <1>6, <3>1, LatestKept
    <3>3. QED  BY <1>8, <1>9, <1>15, <2>1, <3>1, <3>2
  <2>2. CASE p # c
    <3>1. pluginState[p] = "active" /\ p \in Members
      BY <1>2, <1>7, <1>15, <2>2
    <3>2. p \notin ToSet(pluginsToStart)
      BY <1>1, <1>3, <1>13, <1>15, <2>2, <3>1
    <3>3. d \notin ToSet(pluginsToStart) /\ pluginState[d] = "active" /\ Latest(startupOrder, p, d)
      BY <1>13, <1>15, <3>1, <3>2
    <3>4. d # c /\ d \in Plugins /\ d \notin ToSet(t)
      BY <1>1, <1>5, <3>1, <3>3
    <3>5. Latest(startupOrder', p, d)
      <4>1. Latest(Append(startupOrder, c), p, d)
        BY <1>1, <1>6, <3>3, <3>4, LatestKept
      <4>2. QED  BY <1>4, <3>3, <4>1
    <3>6. QED  BY <1>2, <1>3, <1>7, <3>3, <3>4, <3>5
  <2>3. QED  BY <2>1, <2>2
<1>16. ActiveInv'
  BY <1>0, <1>2, <1>14, <1>15 DEF ActiveInv
<1>17. QED  BY <1>12, <1>16

LEMMA ShutdownAllKeepsRest == PluginInv /\ ShutdownAll => FailureInv' /\ ActiveInv'
<1> SUFFICES ASSUME PluginInv, ShutdownAll  PROVE FailureInv' /\ ActiveInv'
  OBVIOUS
<1> DEFINE w == PluginTeardown
<1>1. /\ pluginsToStart = <<>> /\ pluginsToStop = <<>> /\ pluginsToStop' = w
      /\ UNCHANGED <<failFast, pluginNeeds, registered, pluginState, startupOrder, pluginsToStart, runs, raised>>
  BY DEF ShutdownAll, NoCall
<1>2. CallInv /\ ActiveInv /\ startupOrder \in Seq(Plugins)
  BY DEF PluginInv, CallInv, PluginTypeOK
<1>3. /\ w \in Seq(Plugins) /\ ToSet(w) = Members /\ Len(startupOrder) <= Len(w)
      /\ \A i \in 1..Len(startupOrder) : w[i] = startupOrder[Len(startupOrder) - i + 1]
  BY <1>2, PluginTeardownProperties
<1>4. Members' = Members /\ ToSet(<<>>) = {}
  BY <1>1 DEF Members, ToSet
<1>5. \A p, d : Latest(startupOrder, p, d) => Earliest(w, p, d)
  <2> HIDE DEF w
  <2>1. QED  BY <1>2, <1>3, EarliestInReverse
<1> HIDE DEF w
<1>6. w = <<>> => Members = {}
  BY <1>3, <1>4
<1>7. FailureInv'
  BY <1>1, <1>4, <1>6 DEF FailureInv
<1>8. ASSUME ~(failFast /\ runs > 1), NEW p \in Members, pluginState[p] = "active", NEW d \in pluginNeeds[p]
      PROVE  pluginState[d] = "active" /\ Earliest(w, p, d)
  <2>1. pluginState[d] = "active" /\ Latest(startupOrder, p, d)
    BY <1>1, <1>2, <1>4, <1>8 DEF ActiveInv
  <2>2. QED  BY <1>5, <2>1
<1>9. ActiveInv'
  BY <1>1, <1>4, <1>6, <1>8 DEF ActiveInv
<1>10. QED  BY <1>7, <1>9

LEMMA StopKeepsRest == PluginInv /\ StopPlugin => FailureInv' /\ ActiveInv'
<1> SUFFICES ASSUME PluginInv, StopPlugin  PROVE FailureInv' /\ ActiveInv'
  OBVIOUS
<1> DEFINE h == Head(pluginsToStop)  t == Tail(pluginsToStop)
<1>1. /\ pluginsToStop # <<>> /\ pluginState' = [pluginState EXCEPT ![h] = "stopped"]
      /\ pluginsToStop' = t
      /\ runs' = IF Len(pluginsToStop) = 1 THEN 0 ELSE runs
      /\ UNCHANGED <<failFast, pluginNeeds, registered, pluginsToStart>>
  BY DEF StopPlugin
<1>2. CallInv /\ CallInv' /\ ActiveInv /\ PluginTypeOK /\ pluginsToStop \in Seq(Plugins) /\ pluginsToStart = <<>>
  BY <1>1, StopKeepsCalls DEF PluginInv, CallInv, PluginTypeOK
<1>3. Members' = Members /\ Members \subseteq Plugins /\ ToSet(<<>>) = {}
  BY <1>1, <1>2, Elements DEF Members, PluginTypeOK, ToSet
<1>4. Len(t) = Len(pluginsToStop) - 1 /\ Len(pluginsToStop) \in Nat \ {0} /\ t \in Seq(Plugins)
  BY <1>1, <1>2, Split
<1>5. \A p, d : Earliest(pluginsToStop, p, d) /\ p # h => d # h /\ Earliest(t, p, d)
  BY <1>1, <1>2, EarliestInRest
<1> HIDE DEF h, t
<1>6. t = <<>> <=> Len(pluginsToStop) = 1
  BY <1>4, EmptySeq
<1>7. CASE t = <<>>
  <2>1. runs' = 0 /\ pluginsToStop' = <<>> /\ pluginsToStart' = <<>>
    BY <1>1, <1>2, <1>6, <1>7
  <2>2. \A p \in Members' : pluginState'[p] \in {"registered", "stopped"}
    BY <1>2, <2>1 DEF CallInv
  <2>3. FailureInv'
    BY <2>1, <2>2 DEF FailureInv
  <2>4. ActiveInv'
    BY <1>3, <2>1, <2>2 DEF ActiveInv
  <2>5. QED  BY <2>3, <2>4
<1>8. CASE t # <<>>
  <2>1. runs' = runs /\ pluginsToStop' # <<>>
    BY <1>1, <1>6, <1>8
  <2>2. ASSUME ~(failFast /\ runs > 1), NEW p \in Members, pluginState'[p] = "active", NEW d \in pluginNeeds[p]
        PROVE  pluginState'[d] = "active" /\ Earliest(t, p, d)
    <3>1. p # h /\ pluginState[p] = "active"
      BY <1>1, <1>2, <1>3, <2>2 DEF PluginTypeOK
    <3>2. pluginState[d] = "active" /\ Earliest(pluginsToStop, p, d)
      BY <1>1, <1>2, <2>2, <3>1 DEF ActiveInv
    <3>3. d # h /\ Earliest(t, p, d)
      BY <1>5, <3>1, <3>2
    <3>4. pluginState'[d] = pluginState[d]
      BY <1>1, <1>2, <3>3 DEF PluginTypeOK
    <3>5. QED  BY <3>2, <3>3, <3>4
  <2>3. FailureInv'
    BY <2>1 DEF FailureInv
  <2>4. ActiveInv'
    BY <1>1, <1>2, <1>3, <2>1, <2>2 DEF ActiveInv
  <2>5. QED  BY <2>3, <2>4
<1>9. QED  BY <1>7, <1>8

LEMMA PluginInduction == PluginInv /\ [PluginNext]_pluginVars => PluginInv'
<1> SUFFICES ASSUME PluginInv, [PluginNext]_pluginVars  PROVE PluginInv'
  OBVIOUS
<1>0. CallInv /\ CallInv'
  BY CallInduction DEF PluginInv
<1>1. CASE (\E p \in Plugins : RegisterPlugin(p)) \/ \E loaded \in EntryPoints : Discover(loaded)
  BY <1>0, <1>1, Registers, JoiningKeepsRest DEF PluginInv
<1>2. CASE Configured \/ UNCHANGED pluginVars
  <2>1. UNCHANGED <<failFast, pluginNeeds, registered, pluginState, startupOrder,
                    pluginsToStart, pluginsToStop, runs, raised>>
    BY <1>2 DEF Configured, pluginVars, callVars
  <2>2. Members' = Members
    BY <2>1 DEF Members
  <2>3. FailureInv' /\ ActiveInv'
    BY <2>1, <2>2 DEF PluginInv, FailureInv, ActiveInv, Latest, Earliest
  <2>4. QED  BY <1>0, <2>3 DEF PluginInv
<1>3. CASE InitializeAll
  BY <1>0, <1>3, InitializeAllKeepsRest DEF PluginInv
<1>4. CASE Initialize
  BY <1>0, <1>4, Initializes, TurnKeepsRest DEF PluginInv
<1>5. CASE ShutdownAll
  BY <1>0, <1>5, ShutdownAllKeepsRest DEF PluginInv
<1>6. CASE StopPlugin
  BY <1>0, <1>6, StopKeepsRest DEF PluginInv
<1>7. QED  BY <1>1, <1>2, <1>3, <1>4, <1>5, <1>6 DEF PluginNext

\* The inductive invariant of the plugins: in the middle of initialize_all() and
\* shutdown_all(), whatever was registered or called before.
THEOREM PluginInvariant == PluginSpec => []PluginInv
BY InitPluginInv, PluginInduction, PTL DEF PluginSpec

\* With fail_fast off, a failure stops what depends on it and nothing else, in
\* the first initialize_all() and in every later one (extensions/plugin.py).
THEOREM FailuresStayLocal == PluginSpec => []FailuresIsolated
<1>1. ASSUME PluginInv, NoCall, runs > 0, ~failFast, NEW p \in Members, pluginState[p] # "registered"
      PROVE  /\ pluginState[p] \in {"active", "failed"}
             /\ pluginState[p] = "failed" <=>
                  p \in raised \/ \E d \in pluginNeeds[p] : pluginState[d] = "failed"
  <2>1. pluginsToStop = <<>> /\ p \in Members \ ToSet(pluginsToStart)
    BY <1>1 DEF NoCall, ToSet
  <2>2. QED  BY <1>1, <2>1 DEF PluginInv, FailureInv
<1>2. PluginInv => FailuresIsolated
  BY <1>1 DEF FailuresIsolated
<1>3. QED  BY <1>2, PluginInvariant, PTL

\* What an active plugin depends on is active whenever initialize_all() is not
\* under way: in shutdown_all() too, which stops a plugin's dependents first
\* however often and in whatever order the plugins were started.
THEOREM ActiveNeedsActive == PluginSpec => []ActiveOnActive
<1>1. ASSUME PluginInv, pluginsToStart = <<>>, ~(failFast /\ runs > 1), NEW p \in Members,
             pluginState[p] = "active", NEW d \in pluginNeeds[p]
      PROVE  pluginState[d] = "active"
  <2>1. p \in Members \ ToSet(pluginsToStart)
    BY <1>1 DEF ToSet
  <2>2. QED  BY <1>1, <2>1 DEF PluginInv, ActiveInv
<1>2. PluginInv => ActiveOnActive
  BY <1>1 DEF ActiveOnActive
<1>3. QED  BY <1>2, PluginInvariant, PTL

\* A plugin whose on_startup raises loses what it added and nothing else: no
\* name that was in the container before is taken out (initialize_all).
THEOREM RollbackKeepsServices == PluginSpec => ServicesKept
<1>1. ASSUME CallInv, [PluginNext]_pluginVars
      PROVE  [\A s \in Services : container[s] # "nobody" => container'[s] # "nobody"]_pluginVars
  <2>1. CASE Initialize
    BY <1>1, <2>1, Initializes
  <2>2. CASE UNCHANGED pluginVars
    BY <2>2
  <2>3. CASE PluginNext /\ ~Initialize
    <3>1. container' = container
      BY <2>3 DEF PluginNext, RegisterPlugin, Discover, Configured, InitializeAll, ShutdownAll, StopPlugin
    <3>2. QED  BY <3>1
  <2>4. QED  BY <1>1, <2>1, <2>2, <2>3
<1>2. PluginInv => CallInv
  BY DEF PluginInv
<1>3. QED  BY <1>1, <1>2, PluginInvariant, PTL DEF PluginSpec, ServicesKept

-----------------------------------------------------------------------------
Types ==
    /\ files \in [Files -> Contents] /\ temps \in [Clients -> Contents]
    /\ pc \in [Clients -> Places] /\ file \in [Clients -> Files \cup {NoFile}]
    /\ outcome \in [Clients -> Outcomes] /\ todo \in [Clients -> Seq(Parts)]
    /\ disturbed \in [Clients -> BOOLEAN] /\ lock \in [Processes -> Clients \cup {Free}]
    /\ fetched \in [Processes -> SUBSET Files] /\ DOMAIN doomed = Clients

InLock == {"recheck", "temp", "stream", "verify", "move", "clean"}
Fetching == InLock \ {"recheck"}
OnFile(c) == pc[c] \notin {"idle", "delete"}

Stages ==
    \A c \in Clients :
        /\ OnFile(c) => file[c] \in Files
        /\ pc[c] \in {"lock", "recheck", "verify"} => ~OfModel(c)
        /\ outcome[c] # "none" => pc[c] = "idle"

\* What is moved to a file with a checksum, or was returned, is verified; no
\* rmtree() has such a file on its list.
Pins ==
    /\ \A c \in Clients :
          /\ outcome[c] = "path" => file[c] \in Pinned /\ files[file[c]] = "whole"
          /\ pc[c] = "move" /\ ~OfModel(c) => temps[c] = "whole"
          /\ pc[c] = "move" => temps[c] # "empty"
    /\ \A c \in Clients : \A e \in doomed[c] : \A f \in Pinned : e # Entry("file", f)

Locks ==
    /\ \A c \in Clients : pc[c] \in InLock /\ ~OfModel(c) => lock[Process[c]] = c
    /\ \A c \in Clients : pc[c] \in Fetching /\ ~OfModel(c) => file[c] \notin fetched[Process[c]]
    /\ \A p \in Processes : \A f \in Pinned : f \in fetched[p] => files[f] # "absent"

\* The required files a download() has behind it are there, and nobody is
\* about to delete them, unless it was disturbed.
Passed ==
    \A c \in Clients : ~disturbed[c] =>
        /\ (OnFile(c) /\ OfModel(c)) \/ outcome[c] = "model"
              => \A d \in Clients : pc[d] # "delete"
        /\ OnFile(c) /\ OfModel(c)
              => \A f \in Required : f = file[c] \/ f \in ToSet(todo[c]) \/ Present(f)
        /\ outcome[c] = "model" => Downloaded

Inv == Types /\ Stages /\ Pins /\ Locks /\ Passed /\ NoLitter

-----------------------------------------------------------------------------
LEMMA Heads ==
  ASSUME NEW S, NEW s \in Seq(S), s # <<>>
  PROVE  /\ Head(s) \in S /\ Tail(s) \in Seq(S)
         /\ \A f \in ToSet(s) : f = Head(s) \/ f \in ToSet(Tail(s))
<1>1. /\ Head(s) \in S /\ Tail(s) \in Seq(S) /\ Len(Tail(s)) = Len(s) - 1
      /\ Len(s) \in Nat /\ DOMAIN s = 1..Len(s) /\ Head(s) = s[1]
  BY HeadTailProperties, LenProperties
<1>2. DOMAIN Tail(s) = 1..(Len(s) - 1)
  BY <1>1, LenProperties
<1>3. ASSUME NEW i \in 1..Len(s), i # 1  PROVE s[i] \in ToSet(Tail(s))
  <2>1. i - 1 \in DOMAIN Tail(s)
    BY <1>1, <1>2, <1>3
  <2>2. Tail(s)[i - 1] = s[i]
    BY <1>1, <1>2, <1>3, <2>1
  <2>3. QED  BY <2>1, <2>2 DEF ToSet
<1>4. QED  BY <1>1, <1>3 DEF ToSet

LEMMA Constants ==
  /\ Process \in [Clients -> Processes] /\ Free \notin Clients
  /\ Pinned \cap Parts = {} /\ Files = Pinned \cup Parts /\ Required \subseteq Parts
  /\ Head(Model) \in Parts /\ Tail(Model) \in Seq(Parts)
  /\ \A f \in Parts : f = Head(Model) \/ f \in ToSet(Tail(Model))
<1>1. Model \in Seq(Parts) /\ Model # <<>> /\ Parts = ToSet(Model)
  BY ModelFilesConstants DEF Parts
<1>2. QED  BY <1>1, Heads, ModelFilesConstants DEF Files

LEMMA InitInv == FilesInit => Inv
<1>1. FilesInit => Types
  <2>1. FilesInit => todo \in [Clients -> Seq(Parts)]
    BY EmptySeq DEF FilesInit
  <2>2. QED  BY <2>1, Constants DEF FilesInit, Types, Contents, Places, Outcomes
<1>2. FilesInit => Stages /\ Pins /\ Locks /\ Passed /\ NoLitter
  BY DEF FilesInit, Stages, Pins, Locks, Passed, NoLitter, OnFile, InLock, Fetching
<1>3. QED  BY <1>1, <1>2 DEF Inv

\* A file that is there is only taken away by delete(); what replaces it is no
\* empty file, and the checked one where there is a checksum.
LEMMA Calling ==
  ASSUME Inv, NEW c \in Clients, NEW place \in {"look", "delete"}, NEW f \in Files \cup {NoFile},
         NEW rest \in Seq(Parts), Call(c, place, f, rest)
  PROVE  /\ pc' = [pc EXCEPT ![c] = place] /\ pc' \in [Clients -> Places]
         /\ file' = [file EXCEPT ![c] = f] /\ file' \in [Clients -> Files \cup {NoFile}]
         /\ todo' = [todo EXCEPT ![c] = rest] /\ todo' \in [Clients -> Seq(Parts)]
         /\ outcome' = [outcome EXCEPT ![c] = "none"] /\ outcome' \in [Clients -> Outcomes]
         /\ pc[c] = "idle" /\ UNCHANGED <<files, temps, litter, lock, fetched>>
         /\ NoLitter'
BY DEF Inv, Types, NoLitter, Call, Goto, Places, Outcomes

LEMMA GetKeeps == ASSUME Inv, NEW c \in Clients, Get(c)  PROVE Inv'
<1>1. PICK f \in Pinned : Call(c, "look", f, <<>>) /\ UNCHANGED <<doomed, disturbed>>
  BY DEF Get
<1>2. f \in Files /\ <<>> \in Seq(Parts) /\ f \notin Parts
  BY Constants, EmptySeq
<1>3. /\ pc' = [pc EXCEPT ![c] = "look"] /\ pc' \in [Clients -> Places]
      /\ file' = [file EXCEPT ![c] = f] /\ file' \in [Clients -> Files \cup {NoFile}]
      /\ todo' = [todo EXCEPT ![c] = <<>>] /\ todo' \in [Clients -> Seq(Parts)]
      /\ outcome' = [outcome EXCEPT ![c] = "none"] /\ outcome' \in [Clients -> Outcomes]
      /\ pc[c] = "idle" /\ UNCHANGED <<files, temps, litter, lock, fetched>>
      /\ NoLitter'
  BY <1>1, <1>2, Calling
<1>4. (Types /\ Stages)'
  BY <1>1, <1>2, <1>3 DEF Inv, Types, Stages, OnFile, OfModel
<1>5. (Pins /\ Locks)'
  BY <1>1, <1>2, <1>3 DEF Inv, Types, Pins, Locks, OfModel, InLock, Fetching
<1>6. Passed'
  BY <1>1, <1>2, <1>3 DEF Inv, Types, Passed, OnFile, OfModel, Present, Downloaded
<1>7. QED  BY <1>3, <1>4, <1>5, <1>6 DEF Inv

LEMMA DownloadKeeps == ASSUME Inv, NEW c \in Clients, Download(c)  PROVE Inv'
<1>1. /\ Call(c, "look", Head(Model), Tail(Model)) /\ doomed' = doomed
      /\ disturbed' = [disturbed EXCEPT ![c] = \E d \in Clients : pc[d] = "delete"]
  BY DEF Download
<1>2. Head(Model) \in Files /\ Head(Model) \in Parts /\ Tail(Model) \in Seq(Parts)
  BY Constants
<1>3. /\ pc' = [pc EXCEPT ![c] = "look"] /\ pc' \in [Clients -> Places]
      /\ file' = [file EXCEPT ![c] = Head(Model)] /\ file' \in [Clients -> Files \cup {NoFile}]
      /\ todo' = [todo EXCEPT ![c] = Tail(Model)] /\ todo' \in [Clients -> Seq(Parts)]
      /\ outcome' = [outcome EXCEPT ![c] = "none"] /\ outcome' \in [Clients -> Outcomes]
      /\ pc[c] = "idle" /\ UNCHANGED <<files, temps, litter, lock, fetched>>
      /\ NoLitter'
  BY <1>1, <1>2, Calling
<1>4. (Types /\ Stages)'
  BY <1>1, <1>2, <1>3 DEF Inv, Types, Stages, OnFile, OfModel
<1>5. (Pins /\ Locks)'
  BY <1>1, <1>2, <1>3 DEF Inv, Types, Pins, Locks, OfModel, InLock, Fetching
<1>6. Passed'
  <2>1. \A f \in Required : f = Head(Model) \/ f \in ToSet(Tail(Model))
    BY Constants
  <2>2. QED
    BY <1>1, <1>2, <1>3, <2>1 DEF Inv, Types, Passed, OnFile, OfModel, Present, Downloaded
<1>7. QED  BY <1>3, <1>4, <1>5, <1>6 DEF Inv

LEMMA DeleteKeeps == ASSUME Inv, NEW c \in Clients, Delete(c)  PROVE Inv'
<1>1. /\ Call(c, "delete", NoFile, <<>>) /\ doomed' = [doomed EXCEPT ![c] = Entries]
      /\ disturbed' = [d \in Clients |-> TRUE]
  BY DEF Delete
<1>2. <<>> \in Seq(Parts)
  BY EmptySeq
<1>3. /\ pc' = [pc EXCEPT ![c] = "delete"] /\ pc' \in [Clients -> Places]
      /\ file' = [file EXCEPT ![c] = NoFile] /\ file' \in [Clients -> Files \cup {NoFile}]
      /\ todo' = [todo EXCEPT ![c] = <<>>] /\ todo' \in [Clients -> Seq(Parts)]
      /\ outcome' = [outcome EXCEPT ![c] = "none"] /\ outcome' \in [Clients -> Outcomes]
      /\ pc[c] = "idle" /\ UNCHANGED <<files, temps, litter, lock, fetched>>
      /\ NoLitter'
  BY <1>1, <1>2, Calling
<1>4. (Types /\ Stages)'
  BY <1>1, <1>3 DEF Inv, Types, Stages, OnFile, OfModel
<1>5. \A e \in Entries : \A f \in Pinned : e # Entry("file", f)
  BY Constants DEF Entries, Entry
<1>6. (Pins /\ Locks)'
  BY <1>1, <1>3, <1>5 DEF Inv, Types, Pins, Locks, OfModel, InLock, Fetching
<1>7. Passed'
  BY <1>1, <1>3 DEF Passed
<1>8. QED  BY <1>3, <1>4, <1>6, <1>7 DEF Inv

-----------------------------------------------------------------------------
\* A download goes on with its next file, or ends.
LEMMA NextFileKeeps ==
  ASSUME Inv, NEW c \in Clients, NextFile(c), OnFile(c), OfModel(c),
         \A f \in Parts : Present(f) => Present(f)',
         \A f \in Required : f = file[c] => Present(f)',
         UNCHANGED <<doomed, disturbed>>
  PROVE  /\ pc' \in [Clients -> Places] /\ file' \in [Clients -> Files \cup {NoFile}]
         /\ todo' \in [Clients -> Seq(Parts)] /\ outcome' \in [Clients -> Outcomes]
         /\ Passed' /\ Stages'
         /\ pc'[c] \in {"idle", "look"} /\ outcome'[c] # "path"
         /\ \A d \in Clients \ {c} : pc'[d] = pc[d] /\ file'[d] = file[d] /\ outcome'[d] = outcome[d]
<1>0. /\ pc[c] # "idle" /\ outcome[c] = "none"
      /\ \A f \in Required : f \in Parts
  BY Constants DEF OnFile, Inv, Stages
<1>1. CASE todo[c] = <<>>
  <2>1. /\ pc' = [pc EXCEPT ![c] = "idle"] /\ outcome' = [outcome EXCEPT ![c] = "model"]
        /\ file' = file /\ todo' = todo
    BY <1>1 DEF NextFile, End, Goto
  <2>2. /\ pc' \in [Clients -> Places] /\ file' \in [Clients -> Files \cup {NoFile}]
        /\ todo' \in [Clients -> Seq(Parts)] /\ outcome' \in [Clients -> Outcomes]
    BY <2>1 DEF Inv, Types, Places, Outcomes
  <2>3. Stages'
    BY <2>1 DEF Inv, Types, Stages, OnFile, OfModel
  <2>4. ~disturbed[c] => \A f \in Required : f = file[c] \/ Present(f)
    BY <1>1 DEF Inv, Passed, ToSet
  <2>5. Passed'
    BY <1>0, <2>1, <2>4 DEF Inv, Types, Passed, OnFile, OfModel, Downloaded
  <2>6. QED  BY <2>1, <2>2, <2>3, <2>5 DEF Inv, Types
<1>2. CASE todo[c] # <<>>
  <2>1. /\ pc' = [pc EXCEPT ![c] = "look"] /\ outcome' = outcome
        /\ file' = [file EXCEPT ![c] = Head(todo[c])]
        /\ todo' = [todo EXCEPT ![c] = Tail(todo[c])]
    BY <1>2 DEF NextFile, Goto
  <2>2. /\ todo[c] \in Seq(Parts)
        /\ Head(todo[c]) \in Parts /\ Head(todo[c]) \in Files /\ Tail(todo[c]) \in Seq(Parts)
        /\ \A f \in ToSet(todo[c]) : f = Head(todo[c]) \/ f \in ToSet(Tail(todo[c]))
    <3>1. todo[c] \in Seq(Parts)
      BY DEF Inv, Types
    <3>2. QED  BY <1>2, <3>1, Heads, Constants
  <2>3. /\ pc' \in [Clients -> Places] /\ file' \in [Clients -> Files \cup {NoFile}]
        /\ todo' \in [Clients -> Seq(Parts)] /\ outcome' \in [Clients -> Outcomes]
    BY <2>1, <2>2 DEF Inv, Types, Places
  <2>4. Stages'
    BY <1>0, <2>1, <2>2 DEF Inv, Types, Stages, OnFile, OfModel
  <2>5. Passed'
    <3>1. /\ pc'[c] = "look" /\ file'[c] = Head(todo[c]) /\ todo'[c] = Tail(todo[c])
          /\ \A d \in Clients \ {c} : pc'[d] = pc[d] /\ file'[d] = file[d] /\ todo'[d] = todo[d]
      BY <2>1 DEF Inv, Types
    <3>2. \A d \in Clients : pc'[d] = "delete" => pc[d] = "delete"
      BY <3>1
    <3>3. \A d \in Clients : OnFile(d)' /\ OfModel(d)' => OnFile(d) /\ OfModel(d)
      BY <3>1 DEF OnFile, OfModel
    <3>4. \A f \in Required : Present(f) => Present(f)'
      BY <1>0
    <3>5. ASSUME NEW d \in Clients, ~disturbed'[d], OnFile(d)', OfModel(d)', NEW f \in Required
          PROVE  f = file'[d] \/ f \in ToSet(todo'[d]) \/ Present(f)'
      <4>1. f = file[d] \/ f \in ToSet(todo[d]) \/ Present(f)
        BY <3>3, <3>5 DEF Inv, Passed
      <4>2. CASE d = c
        BY <2>2, <3>1, <3>4, <4>1, <4>2
      <4>3. CASE d # c
        BY <3>1, <3>4, <4>1, <4>3
      <4>4. QED  BY <4>2, <4>3
    <3>6. Downloaded => Downloaded'
      BY <3>4 DEF Downloaded
    <3>7. QED  BY <2>1, <3>2, <3>3, <3>5, <3>6 DEF Inv, Passed
  <2>6. QED  BY <1>0, <2>1, <2>3, <2>4, <2>5 DEF Inv, Types
<1>3. QED  BY <1>1, <1>2

\* Steps that change no file of the cache and end no call with success.
LEMMA MovesOn ==
  ASSUME Inv, NEW c \in Clients, OnFile(c),
         UNCHANGED <<files, file, todo, doomed, disturbed>>,
         pc' \in [Clients -> Places], pc'[c] # "delete",
         \A d \in Clients \ {c} : pc'[d] = pc[d],
         outcome' = outcome \/ outcome' = [outcome EXCEPT ![c] = "failed"]
            \/ (~OfModel(c) /\ outcome' \in {[outcome EXCEPT ![c] = how] : how \in {"path", "checksum"}}),
         outcome'[c] # "none" => pc'[c] = "idle",
         pc'[c] \in {"lock", "recheck", "verify"} => ~OfModel(c)
  PROVE  Passed' /\ Stages' /\ outcome' \in [Clients -> Outcomes]
<1>1. outcome' \in [Clients -> Outcomes]
  BY DEF Inv, Types, Outcomes
<1>2. Stages'
  BY DEF Inv, Types, Stages, OnFile, OfModel
<1>3. Passed'
  <2>1. \A d \in Clients : OnFile(d)' => OnFile(d)
    BY DEF OnFile
  <2>2. \A d \in Clients : outcome'[d] = "model" => outcome[d] = "model"
    BY DEF Inv, Types
  <2>3. \A d \in Clients : pc'[d] = "delete" => pc[d] = "delete"
    OBVIOUS
  <2>4. QED  BY <2>1, <2>2, <2>3 DEF Inv, Passed, OfModel, Present, Downloaded
<1>4. QED  BY <1>1, <1>2, <1>3

\* Steps before the transfer.
LEMMA LookKeeps == ASSUME Inv, NEW c \in Clients, Look(c)  PROVE Inv'
<1>1. pc[c] = "look" /\ UNCHANGED <<files, temps, litter, lock, doomed, disturbed, fetched, calls>>
  BY DEF Look
<1>2. OnFile(c) /\ (OfModel(c) \/ file[c] \in Pinned)
  BY <1>1, Constants DEF OnFile, OfModel, Inv, Stages
<1>3. CASE /\ ~OfModel(c) /\ UNCHANGED <<file, todo>>
           /\ FromCache(c) \/ (Goto(c, "lock") /\ outcome' = outcome)
  <2>1. /\ pc' \in [Clients -> Places] /\ pc'[c] # "delete"
        /\ pc'[c] \in {"idle", "lock"}
        /\ \A d \in Clients \ {c} : pc'[d] = pc[d]
    BY <1>1, <1>3 DEF FromCache, End, Goto, Inv, Types, Places
  <2>2. /\ outcome' = outcome
              \/ outcome' \in {[outcome EXCEPT ![c] = how] : how \in {"path", "checksum"}}
        /\ outcome'[c] # "none" => pc'[c] = "idle"
        /\ outcome'[c] = "path" => files[file[c]] = "whole"
    BY <1>1, <1>3 DEF FromCache, Verify, End, Goto, Inv, Types, Stages
  <2>3. Passed' /\ Stages' /\ outcome' \in [Clients -> Outcomes]
    BY <1>1, <1>2, <1>3, <2>1, <2>2, MovesOn
  <2>4. (Types /\ NoLitter)'
    BY <1>1, <1>3, <2>1, <2>3 DEF Inv, Types, NoLitter
  <2>5. \A d \in Clients : outcome'[d] = "path" => file[d] \in Pinned /\ files[file[d]] = "whole"
    <3>1. ASSUME NEW d \in Clients \ {c}  PROVE outcome'[d] = outcome[d]
      BY <2>2 DEF Inv, Types
    <3>2. outcome'[c] = "path" => file[c] \in Pinned /\ files[file[c]] = "whole"
      BY <1>2, <1>3, <2>2
    <3>3. QED  BY <3>1, <3>2 DEF Inv, Pins
  <2>6. Pins'
    BY <1>1, <1>3, <2>1, <2>5 DEF Inv, Pins, OfModel
  <2>7. \A d \in Clients : pc'[d] \in InLock => pc'[d] = pc[d]
    BY <2>1 DEF InLock
  <2>8. Locks'
    BY <1>1, <1>3, <2>7 DEF Inv, Locks, OfModel, InLock, Fetching
  <2>9. QED  BY <2>3, <2>4, <2>6, <2>8 DEF Inv
<1>4. CASE OfModel(c) /\ Present(file[c]) /\ NextFile(c)
  <2>1. (\A f \in Parts : Present(f) => Present(f)') /\ (\A f \in Required : f = file[c] => Present(f)')
    BY <1>1, <1>4 DEF Present
  <2>2. /\ pc' \in [Clients -> Places] /\ file' \in [Clients -> Files \cup {NoFile}]
        /\ todo' \in [Clients -> Seq(Parts)] /\ outcome' \in [Clients -> Outcomes]
        /\ Passed' /\ Stages'
        /\ pc'[c] \in {"idle", "look"} /\ outcome'[c] # "path"
        /\ \A d \in Clients \ {c} : pc'[d] = pc[d] /\ file'[d] = file[d] /\ outcome'[d] = outcome[d]
    BY <1>1, <1>2, <1>4, <2>1, NextFileKeeps
  <2>3. (Types /\ NoLitter)'
    BY <1>1, <2>2 DEF Inv, Types, NoLitter
  <2>4. Pins'
    BY <1>1, <2>2 DEF Inv, Types, Pins, OfModel
  <2>5. Locks'
    BY <1>1, <2>2 DEF Inv, Types, Locks, OfModel, InLock, Fetching
  <2>6. QED  BY <2>2, <2>3, <2>4, <2>5 DEF Inv
<1>5. CASE OfModel(c) /\ Goto(c, "temp") /\ UNCHANGED <<outcome, file, todo>>
  <2>1. pc' = [pc EXCEPT ![c] = "temp"] /\ pc' \in [Clients -> Places]
    BY <1>5 DEF Goto, Inv, Types, Places
  <2>2. outcome[c] = "none"
    BY <1>1 DEF Inv, Stages
  <2>3. Passed' /\ Stages'
    BY <1>1, <1>2, <1>5, <2>1, <2>2, MovesOn DEF Inv, Types
  <2>4. (Types /\ NoLitter)'
    BY <1>1, <1>5, <2>1 DEF Inv, Types, NoLitter
  <2>5. Pins'
    BY <1>1, <1>5, <2>1 DEF Inv, Types, Pins, OfModel
  <2>6. Locks'
    BY <1>1, <1>5, <2>1 DEF Inv, Types, Locks, OfModel, InLock, Fetching
  <2>7. QED  BY <2>3, <2>4, <2>5, <2>6 DEF Inv
<1>6. QED  BY <1>3, <1>4, <1>5 DEF Look

\* A step of client c to another place, with no other effect than on its
\* temporary file and its lock.
LEMMA PlaceKeeps ==
  ASSUME Inv, NEW c \in Clients, OnFile(c), NEW place \in Places \ {"idle", "delete"},
         Goto(c, place), UNCHANGED <<files, litter, file, todo, doomed, outcome, disturbed, fetched>>,
         temps' \in [Clients -> Contents], \A d \in Clients \ {c} : temps'[d] = temps[d],
         lock' \in [Processes -> Clients \cup {Free}],
         \A d \in Clients \ {c} : pc[d] \in InLock /\ ~OfModel(d) => lock'[Process[d]] = d,
         place \in InLock /\ ~OfModel(c) => lock'[Process[c]] = c,
         place \in {"lock", "recheck", "verify"} => ~OfModel(c),
         place = "move" /\ ~OfModel(c) => temps'[c] = "whole",
         place = "move" => temps'[c] # "empty",
         place \in Fetching /\ ~OfModel(c) => file[c] \notin fetched[Process[c]]
  PROVE  Inv'
<1>1. /\ pc' = [pc EXCEPT ![c] = place] /\ pc' \in [Clients -> Places]
      /\ pc'[c] = place /\ \A d \in Clients \ {c} : pc'[d] = pc[d]
  BY DEF Goto, Inv, Types
<1>2. outcome[c] = "none"
  BY DEF OnFile, Inv, Stages
<1>3. Passed' /\ Stages'
  BY <1>1, <1>2, MovesOn
<1>4. (Types /\ NoLitter)'
  BY <1>1 DEF Inv, Types, NoLitter
<1>5. Pins'
  BY <1>1 DEF Inv, Pins, OfModel
<1>6. Locks'
  BY <1>1 DEF Inv, Locks, OfModel, InLock, Fetching
<1>7. QED  BY <1>3, <1>4, <1>5, <1>6 DEF Inv

LEMMA AcquireKeeps == ASSUME Inv, NEW c \in Clients, Acquire(c)  PROVE Inv'
<1>1. /\ pc[c] = "lock" /\ OnFile(c) /\ ~OfModel(c) /\ Process[c] \in Processes
      /\ lock' = [lock EXCEPT ![Process[c]] = c] /\ lock[Process[c]] = Free /\ Free \notin Clients
  BY Constants DEF Acquire, OnFile, Inv, Stages
<1>2. lock' \in [Processes -> Clients \cup {Free}] /\ lock'[Process[c]] = c
  BY <1>1 DEF Inv, Types
<1>3. \A d \in Clients \ {c} : pc[d] \in InLock /\ ~OfModel(d) => lock'[Process[d]] = d
  BY <1>1, Constants DEF Inv, Types, Locks
<1>4. QED  BY <1>1, <1>2, <1>3, PlaceKeeps DEF Acquire, Places, Fetching, InLock, Inv, Types

LEMMA ReleaseKeeps ==
  ASSUME Inv, NEW c \in Clients, Release(c)
  PROVE  /\ lock' \in [Processes -> Clients \cup {Free}]
         /\ \A d \in Clients \ {c} : pc[d] \in InLock /\ ~OfModel(d) => lock'[Process[d]] = d
BY Constants DEF Release, Inv, Types, Locks

LEMMA RecheckKeeps == ASSUME Inv, NEW c \in Clients, Recheck(c)  PROVE Inv'
<1>1. /\ pc[c] = "recheck" /\ OnFile(c) /\ ~OfModel(c) /\ file[c] \in Pinned
      /\ UNCHANGED <<files, temps, litter, file, todo, doomed, disturbed, fetched>>
      /\ lock[Process[c]] = c /\ Process[c] \in Processes
  BY Constants DEF Recheck, OnFile, OfModel, InLock, Inv, Stages, Locks
<1>2. CASE files[file[c]] # "absent"
  <2>1. FromCache(c) /\ Release(c)
    BY <1>2 DEF Recheck, CachedMeanwhile
  <2>2. /\ pc' \in [Clients -> Places] /\ pc'[c] = "idle"
        /\ \A d \in Clients \ {c} : pc'[d] = pc[d]
    BY <2>1 DEF FromCache, End, Goto, Inv, Types, Places
  <2>3. /\ outcome' \in {[outcome EXCEPT ![c] = how] : how \in {"path", "checksum"}}
        /\ outcome'[c] = "path" => files[file[c]] = "whole"
    BY <2>1 DEF FromCache, Verify, End, Inv, Types
  <2>4. Passed' /\ Stages' /\ outcome' \in [Clients -> Outcomes]
    BY <1>1, <2>2, <2>3, MovesOn
  <2>5. /\ lock' \in [Processes -> Clients \cup {Free}]
        /\ \A d \in Clients \ {c} : pc[d] \in InLock /\ ~OfModel(d) => lock'[Process[d]] = d
    BY <2>1, ReleaseKeeps
  <2>6. (Types /\ NoLitter)'
    BY <1>1, <2>2, <2>4, <2>5 DEF Inv, Types, NoLitter
  <2>7. Pins'
    BY <1>1, <2>2, <2>3 DEF Inv, Types, Pins, OfModel
  <2>8. Locks'
    BY <1>1, <2>2, <2>5 DEF Inv, Locks, OfModel, InLock, Fetching
  <2>9. QED  BY <2>4, <2>6, <2>7, <2>8 DEF Inv
<1>3. CASE files[file[c]] = "absent"
  <2>1. Goto(c, "temp") /\ UNCHANGED <<outcome, lock>>
    BY <1>3 DEF Recheck, CachedMeanwhile
  <2>2. file[c] \notin fetched[Process[c]]
    BY <1>1, <1>3 DEF Inv, Locks
  <2>3. \A d \in Clients : pc[d] \in InLock /\ ~OfModel(d) => lock[Process[d]] = d
    BY DEF Inv, Locks
  <2>4. QED  BY <1>1, <2>1, <2>2, <2>3, PlaceKeeps DEF Places, Fetching, InLock, Inv, Types
<1>4. QED  BY <1>2, <1>3

-----------------------------------------------------------------------------
\* What client c is, while it fetches.
LEMMA Fetches ==
  ASSUME Inv, NEW c \in Clients, pc[c] \in Fetching
  PROVE  /\ OnFile(c) /\ file[c] \in Files /\ (OfModel(c) \/ file[c] \in Pinned)
         /\ ~OfModel(c) => lock[Process[c]] = c /\ file[c] \notin fetched[Process[c]]
         /\ outcome[c] = "none"
         /\ \A d \in Clients : pc[d] \in InLock /\ ~OfModel(d) => lock[Process[d]] = d
         /\ lock \in [Processes -> Clients \cup {Free}] /\ temps \in [Clients -> Contents]
BY Constants DEF Fetching, InLock, OnFile, OfModel, Inv, Types, Stages, Locks

LEMMA MakeTempKeeps == ASSUME Inv, NEW c \in Clients, MakeTemp(c)  PROVE Inv'
<1>1. /\ pc[c] \in Fetching
      /\ temps' = [temps EXCEPT ![c] = "empty"] \/ UNCHANGED temps
      /\ Goto(c, "stream") \/ Goto(c, "clean")
  BY DEF MakeTemp, Fetching, InLock
<1>2. temps' \in [Clients -> Contents] /\ \A d \in Clients \ {c} : temps'[d] = temps[d]
  BY <1>1, Fetches DEF Contents
<1>3. QED  BY <1>1, <1>2, Fetches, PlaceKeeps DEF MakeTemp, Places

LEMMA StreamKeeps == ASSUME Inv, NEW c \in Clients, Stream(c)  PROVE Inv'
<1>1. pc[c] \in Fetching
  BY DEF Stream, Fetching, InLock
<1>2. PICK got \in {"empty", "cut", "whole"} :
          /\ temps' \in {[temps EXCEPT ![c] = got]}
                          \cup IF temps[c] = "absent" THEN {temps} ELSE {}
          /\ \/ Goto(c, "clean")
             \/ ~OfModel(c) /\ Goto(c, "verify")
             \/ OfModel(c) /\ got # "empty" /\ Goto(c, "move")
  BY DEF Stream
<1>3. /\ temps' \in [Clients -> Contents] /\ \A d \in Clients \ {c} : temps'[d] = temps[d]
      /\ got # "empty" => temps'[c] # "empty"
  BY <1>1, <1>2, Fetches DEF Contents
<1>4. QED  BY <1>1, <1>2, <1>3, Fetches, PlaceKeeps DEF Stream, Places

LEMMA VerifyTempKeeps == ASSUME Inv, NEW c \in Clients, VerifyTemp(c)  PROVE Inv'
<1>1. pc[c] \in Fetching /\ ~OfModel(c) /\ temps' = temps
  BY DEF VerifyTemp, Fetching, InLock, Inv, Stages
<1>2. CASE temps[c] = "whole"
  BY <1>1, <1>2, Fetches, PlaceKeeps DEF VerifyTemp, Places
<1>3. CASE temps[c] # "whole"
  BY <1>1, <1>3, Fetches, PlaceKeeps DEF VerifyTemp, Places
<1>4. QED  BY <1>2, <1>3

\* A file of the cache is only ever replaced by one that is not empty, and a
\* file with a checksum by the file that has it.
LEMMA MoveKeeps == ASSUME Inv, NEW c \in Clients, Move(c)  PROVE Inv'
<1>1. pc[c] = "move" /\ pc[c] \in Fetching /\ UNCHANGED <<litter, doomed, disturbed>>
  BY DEF Move, Fetching, InLock
<1>2. CASE temps[c] = "absent"
  BY <1>1, <1>2, Fetches, PlaceKeeps DEF Move, Places
<1>3. CASE temps[c] # "absent"
  <2>1. /\ files' = [files EXCEPT ![file[c]] = temps[c]]
        /\ temps' = [temps EXCEPT ![c] = "absent"]
        /\ fetched' = [fetched EXCEPT ![Process[c]] = @ \cup {file[c]}]
        /\ OfModel(c) => NextFile(c)
        /\ ~OfModel(c) => End(c, "path") /\ UNCHANGED <<file, todo>>
        /\ Release(c)
    BY <1>3 DEF Move
  <2>2. /\ OnFile(c) /\ file[c] \in Files /\ (OfModel(c) \/ file[c] \in Pinned)
        /\ ~OfModel(c) => lock[Process[c]] = c /\ file[c] \notin fetched[Process[c]]
        /\ outcome[c] = "none" /\ Process[c] \in Processes
    BY <1>1, Fetches, Constants
  <2>3. temps[c] # "empty" /\ (~OfModel(c) => temps[c] = "whole")
    BY <1>1 DEF Inv, Pins
  <2>4. /\ files' \in [Files -> Contents] /\ temps' \in [Clients -> Contents]
        /\ fetched' \in [Processes -> SUBSET Files]
        /\ files'[file[c]] = temps[c]
        /\ \A f \in Files \ {file[c]} : files'[f] = files[f]
        /\ \A d \in Clients \ {c} : temps'[d] = temps[d]
    BY <2>1, <2>2 DEF Inv, Types, Contents
  <2>5. /\ lock' \in [Processes -> Clients \cup {Free}]
        /\ \A d \in Clients \ {c} : pc[d] \in InLock /\ ~OfModel(d) => lock'[Process[d]] = d
    BY <2>1, ReleaseKeeps
  <2>6. /\ \A f \in Files : Present(f) => Present(f)'
        /\ \A f \in Required : f = file[c] => Present(f)'
    BY <1>3, <2>3, <2>4, <2>2 DEF Present
  <2>7. /\ pc' \in [Clients -> Places] /\ file' \in [Clients -> Files \cup {NoFile}]
        /\ todo' \in [Clients -> Seq(Parts)] /\ outcome' \in [Clients -> Outcomes]
        /\ Passed' /\ Stages'
        /\ pc'[c] \in {"idle", "look"}
        /\ outcome'[c] = "path" => ~OfModel(c) /\ file'[c] = file[c]
        /\ \A d \in Clients \ {c} : pc'[d] = pc[d] /\ file'[d] = file[d] /\ outcome'[d] = outcome[d]
    <3>1. CASE OfModel(c)
      <4>1. \A f \in Parts : Present(f) => Present(f)'
        BY <2>6, Constants
      <4>2. QED  BY <1>1, <2>1, <2>2, <2>6, <3>1, <4>1, NextFileKeeps
    <3>2. CASE ~OfModel(c)
      <4>1. /\ pc' = [pc EXCEPT ![c] = "idle"] /\ outcome' = [outcome EXCEPT ![c] = "path"]
            /\ file' = file /\ todo' = todo
        BY <2>1, <3>2 DEF End, Goto
      <4>2. pc' \in [Clients -> Places] /\ outcome' \in [Clients -> Outcomes]
        BY <4>1 DEF Inv, Types, Places, Outcomes
      <4>3. Stages'
        BY <4>1 DEF Inv, Types, Stages, OnFile, OfModel
      <4>4. Passed'
        <5>1. \A f \in Required : Present(f) => Present(f)'
          BY <2>6, Constants
        <5>2. \A d \in Clients : /\ OnFile(d)' => OnFile(d)
                                 /\ pc'[d] = "delete" => pc[d] = "delete"
                                 /\ outcome'[d] = "model" => outcome[d] = "model"
          BY <4>1 DEF OnFile, Inv, Types
        <5>3. QED  BY <1>1, <4>1, <5>1, <5>2 DEF Inv, Passed, OfModel, Downloaded
      <4>5. QED  BY <3>2, <4>1, <4>2, <4>3, <4>4 DEF Inv, Types
    <3>3. QED  BY <3>1, <3>2
  <2>8. (Types /\ NoLitter)'
    BY <1>1, <2>4, <2>5, <2>7 DEF Inv, Types, NoLitter
  <2>9. Pins'
    <3>1. ASSUME NEW d \in Clients, outcome'[d] = "path"
          PROVE  file'[d] \in Pinned /\ files'[file'[d]] = "whole"
      <4>1. CASE d = c
        BY <2>2, <2>3, <2>4, <2>7, <3>1, <4>1
      <4>2. CASE d # c
        <5>1. file'[d] = file[d] /\ file[d] \in Pinned /\ files[file[d]] = "whole"
          BY <2>7, <3>1, <4>2 DEF Inv, Pins
        <5>2. CASE file[d] = file[c]
          BY <2>3, <2>4, <5>1, <5>2, Constants DEF OfModel
        <5>3. CASE file[d] # file[c]
          BY <2>4, <5>1, <5>3, Constants
        <5>4. QED  BY <5>2, <5>3
      <4>3. QED  BY <4>1, <4>2
    <3>2. \A d \in Clients : pc'[d] = "move" => /\ d # c /\ pc[d] = "move" /\ temps'[d] = temps[d]
                                                /\ file'[d] = file[d]
      BY <2>4, <2>7
    <3>3. QED  BY <1>1, <3>1, <3>2 DEF Inv, Pins, OfModel
  <2>10. Locks'
    <3>1. \A d \in Clients : pc'[d] \in InLock => d # c /\ pc[d] \in InLock /\ file'[d] = file[d]
      BY <2>7 DEF InLock
    <3>2. \A d \in Clients : pc'[d] \in InLock /\ ~OfModel(d)' => lock'[Process[d]] = d
      BY <2>5, <3>1 DEF OfModel
    <3>3. ASSUME NEW d \in Clients, pc'[d] \in Fetching, ~OfModel(d)'
          PROVE  file'[d] \notin fetched'[Process[d]]
      <4>1. d # c /\ pc[d] \in Fetching /\ file'[d] = file[d] /\ ~OfModel(d) /\ Process[d] \in Processes
        BY <2>7, <3>3, Constants DEF Fetching, InLock, OfModel
      <4>2. file[d] \notin fetched[Process[d]] /\ lock[Process[d]] = d
        BY <4>1, Fetches
      <4>3. Process[d] = Process[c] => file[d] # file[c]
        BY <2>2, <4>1, <4>2 DEF OfModel
      <4>4. QED  BY <2>1, <2>2, <4>1, <4>2, <4>3 DEF Inv, Types
    <3>4. ASSUME NEW p \in Processes, NEW f \in Pinned, f \in fetched'[p]
          PROVE  files'[f] # "absent"
      <4>1. CASE f = file[c]
        BY <1>3, <2>4, <4>1
      <4>2. CASE f # file[c]
        <5>1. f \in fetched[p]
          BY <2>1, <3>4, <4>2 DEF Inv, Types
        <5>2. QED  BY <2>4, <4>2, <5>1, Constants DEF Inv, Locks
      <4>3. QED  BY <4>1, <4>2
    <3>5. QED  BY <3>2, <3>3, <3>4 DEF Locks
  <2>11. QED  BY <2>7, <2>8, <2>9, <2>10 DEF Inv
<1>4. QED  BY <1>2, <1>3

\* The temporary file of a client that gives up is removed.
LEMMA CleanKeeps == ASSUME Inv, NEW c \in Clients, Clean(c)  PROVE Inv'
<1>1. /\ pc[c] \in Fetching /\ UNCHANGED <<files, doomed, disturbed, fetched>>
      /\ temps' = [temps EXCEPT ![c] = "absent"]
      /\ litter' = litter \cup Left(c, temps', "failed") /\ Release(c)
  BY DEF Clean, Unlinked, Fetching, InLock
<1>2. /\ OnFile(c) /\ file[c] \in Files /\ (OfModel(c) \/ file[c] \in Pinned)
      /\ outcome[c] = "none" /\ temps \in [Clients -> Contents]
  BY <1>1, Fetches
<1>3. /\ temps' \in [Clients -> Contents] /\ temps'[c] = "absent" /\ litter' = litter
      /\ \A d \in Clients \ {c} : temps'[d] = temps[d]
  BY <1>1, <1>2 DEF Left, Contents
<1>4. /\ lock' \in [Processes -> Clients \cup {Free}]
      /\ \A d \in Clients \ {c} : pc[d] \in InLock /\ ~OfModel(d) => lock'[Process[d]] = d
  BY <1>1, ReleaseKeeps
<1>5. /\ pc' \in [Clients -> Places] /\ file' \in [Clients -> Files \cup {NoFile}]
      /\ todo' \in [Clients -> Seq(Parts)] /\ outcome' \in [Clients -> Outcomes]
      /\ Passed' /\ Stages'
      /\ pc'[c] \in {"idle", "look"} /\ outcome'[c] # "path"
      /\ \A d \in Clients \ {c} : pc'[d] = pc[d] /\ file'[d] = file[d] /\ outcome'[d] = outcome[d]
  <2>1. CASE file[c] \in Pinned \cup Required
    <3>1. End(c, "failed") /\ UNCHANGED <<file, todo>>
      BY <2>1 DEF Clean, Indispensable
    <3>2. /\ pc' \in [Clients -> Places] /\ pc'[c] = "idle"
          /\ \A d \in Clients \ {c} : pc'[d] = pc[d]
          /\ outcome' = [outcome EXCEPT ![c] = "failed"] /\ outcome'[c] = "failed"
      BY <3>1 DEF End, Goto, Inv, Types, Places
    <3>3. Passed' /\ Stages' /\ outcome' \in [Clients -> Outcomes]
      BY <1>1, <1>2, <3>1, <3>2, MovesOn
    <3>4. QED  BY <3>1, <3>2, <3>3 DEF Inv, Types
  <2>2. CASE file[c] \notin Pinned \cup Required
    <3>1. NextFile(c) /\ OfModel(c)
      BY <1>2, <2>2 DEF Clean, Indispensable
    <3>2. (\A f \in Parts : Present(f) => Present(f)') /\ (\A f \in Required : f = file[c] => Present(f)')
      BY <1>1, <2>2 DEF Present
    <3>3. QED  BY <1>1, <1>2, <3>1, <3>2, NextFileKeeps
  <2>3. QED  BY <2>1, <2>2
<1>6. (Types /\ NoLitter)'
  BY <1>1, <1>3, <1>4, <1>5 DEF Inv, Types, NoLitter
<1>7. Pins'
  BY <1>1, <1>3, <1>5 DEF Inv, Pins, OfModel
<1>8. Locks'
  BY <1>1, <1>4, <1>5 DEF Inv, Locks, OfModel, InLock, Fetching
<1>9. QED  BY <1>5, <1>6, <1>7, <1>8 DEF Inv

LEMMA InterruptKeeps == ASSUME Inv, NEW c \in Clients, Interrupt(c)  PROVE Inv'
<1>1. /\ pc[c] \in Fetching /\ UNCHANGED <<files, file, todo, doomed, disturbed, fetched>>
      /\ temps' = [temps EXCEPT ![c] = "absent"] /\ End(c, "failed") /\ Release(c)
  BY DEF Interrupt, Unlinked, Fetching, InLock
<1>2. OnFile(c) /\ temps \in [Clients -> Contents]
  BY <1>1, Fetches
<1>3. /\ temps' \in [Clients -> Contents] /\ temps'[c] = "absent"
      /\ \A d \in Clients \ {c} : temps'[d] = temps[d]
  BY <1>1, <1>2 DEF Contents
<1>4. NoLitter'
  <2>1. CASE OfModel(c)
    <3>1. litter' = litter \cup Left(c, temps, "interrupt")
      BY <2>1 DEF Interrupt
    <3>2. QED  BY <2>1, <3>1 DEF Left, OfModel, Inv, NoLitter
  <2>2. CASE ~OfModel(c)
    <3>1. litter' = litter \cup Left(c, temps', "interrupt")
      BY <2>2 DEF Interrupt
    <3>2. QED  BY <1>3, <3>1 DEF Left, Inv, NoLitter
  <2>3. QED  BY <2>1, <2>2
<1>5. /\ pc' \in [Clients -> Places] /\ pc'[c] = "idle"
      /\ \A d \in Clients \ {c} : pc'[d] = pc[d]
      /\ outcome' = [outcome EXCEPT ![c] = "failed"] /\ outcome'[c] = "failed"
  BY <1>1 DEF End, Goto, Inv, Types, Places
<1>6. Passed' /\ Stages' /\ outcome' \in [Clients -> Outcomes]
  BY <1>1, <1>2, <1>5, MovesOn
<1>7. /\ lock' \in [Processes -> Clients \cup {Free}]
      /\ \A d \in Clients \ {c} : pc[d] \in InLock /\ ~OfModel(d) => lock'[Process[d]] = d
  BY <1>1, ReleaseKeeps
<1>8. Types'
  BY <1>1, <1>3, <1>5, <1>6, <1>7 DEF Inv, Types
<1>9. Pins'
  BY <1>1, <1>3, <1>5 DEF Inv, Types, Pins, OfModel
<1>10. Locks'
  BY <1>1, <1>5, <1>7 DEF Inv, Locks, OfModel, InLock, Fetching
<1>11. QED  BY <1>4, <1>6, <1>8, <1>9, <1>10 DEF Inv

-----------------------------------------------------------------------------
\* The clients of a process that dies are idle, and its lock is gone with it.
LEMMA CrashKeeps == ASSUME Inv, NEW p \in Processes, Crash(p)  PROVE Inv'
<1> DEFINE lost == {c \in Clients : Process[c] = p}
<1>1. /\ litter' = litter \cup UNION {Left(c, temps, "crash") : c \in lost}
      /\ temps' = [c \in Clients |-> IF c \in lost THEN "absent" ELSE temps[c]]
      /\ pc' = [c \in Clients |-> IF c \in lost THEN "idle" ELSE pc[c]]
      /\ outcome' = [c \in Clients |-> IF c \in lost THEN "none" ELSE outcome[c]]
      /\ doomed' = [c \in Clients |-> IF c \in lost THEN {} ELSE doomed[c]]
      /\ lock' = [lock EXCEPT ![p] = Free]
      /\ UNCHANGED <<files, file, todo, disturbed, fetched>>
  BY DEF Crash
<1>2. \A c \in Clients \ lost : Process[c] # p /\ Process[c] \in Processes
  BY Constants
<1> HIDE DEF lost
<1>3. Types'
  BY <1>1 DEF Inv, Types, Contents, Places, Outcomes
<1>4. Stages'
  BY <1>1 DEF Inv, Types, Stages, OnFile, OfModel
<1>5. Pins'
  BY <1>1 DEF Inv, Types, Pins, OfModel
<1>6. Locks'
  BY <1>1, <1>2 DEF Inv, Types, Locks, OfModel, InLock, Fetching
<1>7. Passed'
  <2>1. \A c \in Clients : /\ OnFile(c)' => OnFile(c)
                           /\ outcome'[c] = "model" => outcome[c] = "model"
                           /\ pc'[c] = "delete" => pc[c] = "delete"
    BY <1>1 DEF OnFile
  <2>2. QED  BY <1>1, <2>1 DEF Inv, Passed, OfModel, Present, Downloaded
<1>8. NoLitter'
  BY <1>1 DEF Inv, NoLitter, Left
<1>9. QED  BY <1>3, <1>4, <1>5, <1>6, <1>7, <1>8 DEF Inv

\* rmtree() takes files of the model only, and from no undisturbed download.
LEMMA DeleteEntryKeeps == ASSUME Inv, NEW c \in Clients, DeleteEntry(c)  PROVE Inv'
<1>1. PICK e \in doomed[c] :
          /\ doomed' = [doomed EXCEPT ![c] = @ \ {e}]
          /\ files' = [f \in Files |-> IF e = Entry("file", f) THEN "absent" ELSE files[f]]
          /\ temps' = [d \in Clients |->
                          IF e = Entry("temp", d) /\ OfModel(d) THEN "absent" ELSE temps[d]]
          /\ litter' = {l \in litter : e # Entry("litter", l)}
          /\ \/ UNCHANGED <<pc, outcome>>
             \/ e \notin Entries /\ End(c, "failed")
  BY DEF DeleteEntry
<1>2. pc[c] = "delete" /\ UNCHANGED <<lock, file, todo, disturbed, fetched>>
  BY DEF DeleteEntry
<1>3. \A f \in Pinned : f \in Files /\ files'[f] = files[f]
  BY <1>1, Constants DEF Inv, Pins
<1>4. \/ pc' = pc /\ outcome' = outcome
      \/ pc' = [pc EXCEPT ![c] = "idle"] /\ outcome' = [outcome EXCEPT ![c] = "failed"]
  BY <1>1 DEF End, Goto
<1>5. Types'
  <2>1. files' \in [Files -> Contents] /\ temps' \in [Clients -> Contents]
    BY <1>1 DEF Inv, Types, Contents
  <2>2. pc' \in [Clients -> Places] /\ outcome' \in [Clients -> Outcomes]
    BY <1>4 DEF Inv, Types, Places, Outcomes
  <2>3. DOMAIN doomed' = Clients
    BY <1>1 DEF Inv, Types
  <2>4. QED  BY <1>2, <2>1, <2>2, <2>3 DEF Inv, Types
<1>6. Stages'
  BY <1>2, <1>4 DEF Inv, Types, Stages, OnFile, OfModel
<1>7. Pins'
  <2>1. \A d \in Clients : doomed'[d] \subseteq doomed[d]
    BY <1>1 DEF Inv, Types
  <2>2. \A d \in Clients : /\ ~OfModel(d) => temps'[d] = temps[d]
                           /\ temps'[d] = "empty" => temps[d] = "empty"
    BY <1>1
  <2>3. \A d \in Clients : /\ outcome'[d] = "path" => outcome[d] = "path"
                           /\ pc'[d] = "move" => pc[d] = "move"
    BY <1>4 DEF Inv, Types
  <2>4. QED  BY <1>2, <1>3, <2>1, <2>2, <2>3 DEF Inv, Pins, OfModel
<1>8. Locks'
  BY <1>2, <1>3, <1>4 DEF Inv, Types, Locks, OfModel, InLock, Fetching
<1>9. Passed'
  <2>1. \A d \in Clients : /\ outcome'[d] = "model" => outcome[d] = "model"
                           /\ OnFile(d)' => OnFile(d)
    BY <1>4 DEF OnFile, Inv, Types
  <2>2. \A d \in Clients : ~disturbed[d] => ~(OnFile(d) /\ OfModel(d)) /\ outcome[d] # "model"
    BY <1>2 DEF Inv, Passed
  <2>3. QED  BY <1>2, <2>1, <2>2 DEF Passed, OfModel
<1>10. NoLitter'
  BY <1>1 DEF Inv, NoLitter
<1>11. QED  BY <1>5, <1>6, <1>7, <1>8, <1>9, <1>10 DEF Inv

LEMMA DeleteDirectoryKeeps == ASSUME Inv, NEW c \in Clients, DeleteDirectory(c)  PROVE Inv'
<1>1. /\ pc[c] = "delete" /\ pc' = [pc EXCEPT ![c] = "idle"]
      /\ outcome' \in {[outcome EXCEPT ![c] = how] : how \in {"deleted", "failed"}}
      /\ UNCHANGED <<files, temps, litter, lock, file, todo, doomed, disturbed, fetched>>
  BY DEF DeleteDirectory, End, Goto
<1>2. (Types /\ NoLitter)'
  BY <1>1 DEF Inv, Types, NoLitter, Places, Outcomes
<1>3. Stages'
  BY <1>1 DEF Inv, Types, Stages, OnFile, OfModel
<1>4. (Pins /\ Locks)'
  BY <1>1 DEF Inv, Types, Pins, Locks, OfModel, InLock, Fetching
<1>5. Passed'
  <2>1. \A d \in Clients : /\ outcome'[d] = "model" => outcome[d] = "model"
                           /\ OnFile(d)' => OnFile(d)
                           /\ pc'[d] = "delete" => pc[d] = "delete"
    BY <1>1 DEF OnFile, Inv, Types
  <2>2. QED  BY <1>1, <2>1 DEF Inv, Passed, OfModel, Present, Downloaded
<1>6. QED  BY <1>2, <1>3, <1>4, <1>5 DEF Inv

LEMMA Stuttering == ASSUME Inv, UNCHANGED fileVars  PROVE Inv'
BY DEF fileVars, Inv, Types, Stages, Pins, Locks, Passed, NoLitter, OnFile, OfModel, Present, Downloaded

LEMMA Inductive == ASSUME Inv, [FilesNext]_fileVars  PROVE Inv'
<1>1. ASSUME NEW c \in Clients, Get(c) \/ Download(c) \/ Delete(c) \/ Interrupt(c)  PROVE Inv'
  BY <1>1, GetKeeps, DownloadKeeps, DeleteKeeps, InterruptKeeps
<1>2. ASSUME NEW c \in Clients, Step(c)  PROVE Inv'
  BY <1>2, LookKeeps, AcquireKeeps, RecheckKeeps, MakeTempKeeps, StreamKeeps, VerifyTempKeeps,
     MoveKeeps, CleanKeeps, DeleteEntryKeeps, DeleteDirectoryKeeps DEF Step
<1>3. ASSUME NEW p \in Processes, Crash(p)  PROVE Inv'
  BY <1>3, CrashKeeps
<1>4. QED  BY <1>1, <1>2, <1>3, Stuttering DEF FilesNext

LEMMA Invariant == FilesSpec => []Inv
<1>1. Inv /\ [FilesNext]_fileVars => Inv'
  BY Inductive
<1>2. QED  BY InitInv, <1>1, PTL DEF FilesSpec

\* A path that get() has returned leads to the verified file from then on.
THEOREM PathsAreVerified == FilesSpec => []ReturnedVerified
<1>1. Inv => ReturnedVerified
  BY DEF Inv, Pins, ReturnedVerified
<1>2. QED  BY Invariant, <1>1, PTL

\* A download() that returned has left every required file, until a delete().
THEOREM DownloadsAreComplete == FilesSpec => []ReturnedDownloaded
<1>1. Inv => ReturnedDownloaded
  BY DEF Inv, Passed, ReturnedDownloaded
<1>2. QED  BY Invariant, <1>1, PTL

\* Only crashes, and interrupted downloads of a model, leave temporary files.
THEOREM FailuresLeaveNothing == FilesSpec => []NoLitter
<1>1. Inv => NoLitter
  BY DEF Inv
<1>2. QED  BY Invariant, <1>1, PTL

\* No two threads of a process fetch the same resource with success: the second
\* look in get(), with the lock held, sees what the first thread has fetched.
THEOREM ResourcesAreFetchedOnce == FilesSpec => FetchedOnce
<1> DEFINE Once == \A c \in Clients :
      file[c] \in Pinned /\ pc[c] = "stream" /\ pc'[c] # "stream" => file[c] \notin fetched[Process[c]]
<1>1. Inv => Once
  BY Constants DEF Inv, Locks, Fetching, InLock, OfModel
<1>2. Inv => [Once]_fileVars
  BY <1>1
<1> HIDE DEF Once
<1>3. FilesSpec => [][Once]_fileVars
  BY Invariant, <1>2, PTL
<1>4. QED  BY <1>3 DEF FetchedOnce, Once

=============================================================================

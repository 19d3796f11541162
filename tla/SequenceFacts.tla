---------------------------- MODULE SequenceFacts ---------------------------
(***************************************************************************)
(* What the proofs of several components need of numbers and sequences and *)
(* the library does not state: induction and recursion over the numbers up *)
(* to a bound, the elements of a sequence as a set, and those of sequences *)
(* that are put together.                                                  *)
(***************************************************************************)
EXTENDS Integers, Sequences, SequencesExt, FiniteSets, FiniteSetTheorems, SequenceTheorems,
        WellFoundedInduction, TLAPS

-----------------------------------------------------------------------------
(* Induction and recursion over numbers, with sets in place of predicates    *)

LEMMA Least ==
  ASSUME NEW M, M \subseteq Nat \ {0}, M # {}
  PROVE  \E i \in M : \A j \in M : i <= j
<1> DEFINE T == {1..i : i \in M}
<1>1. \A i \in M : 1..i \in FiniteSubsetsOf(Nat)
  BY FS_Interval DEF FiniteSubsetsOf
<1>2. T \subseteq FiniteSubsetsOf(Nat) /\ T # {}
  BY <1>1
<1>3. IsWellFoundedOn(StrictSubsetOrdering(Nat), FiniteSubsetsOf(Nat))
  BY FS_StrictSubsetOrderingWellFounded
<1>4. PICK x \in T : \A y \in T : ~ (<<y, x>> \in StrictSubsetOrdering(Nat))
  BY <1>2, <1>3, WFMin
<1>5. PICK i \in M : x = 1..i
  BY DEF T
<1>6. ASSUME NEW j \in M, ~(i <= j)  PROVE FALSE
  <2>1. i \in Nat /\ j \in Nat /\ j < i /\ i \in 1..i /\ i \notin 1..j /\ 1..j \subseteq 1..i
    BY <1>6
  <2>2. <<1..j, 1..i>> \in StrictSubsetOrdering(Nat)
    BY <2>1 DEF StrictSubsetOrdering
  <2>3. QED  BY <1>4, <1>5, <2>2
<1>7. QED  BY <1>6

\* What holds of 0, and of n + 1 with n, holds up to N.
LEMMA Induction ==
  ASSUME NEW N \in Nat, NEW P, 0 \in P, \A n \in 0..N : n \in P /\ n < N => n + 1 \in P
  PROVE  0..N \subseteq P
<1> DEFINE M == (0..N) \ P
<1>1. M \subseteq Nat \ {0}
  OBVIOUS
<1>2. ASSUME M # {}  PROVE FALSE
  <2> HIDE DEF M
  <2>1. PICK i \in M : \A j \in M : i <= j
    BY <1>1, <1>2, Least
  <2> USE DEF M
  <2>2. i - 1 \in 0..N /\ i - 1 \in P
    BY <2>1
  <2>3. QED  BY <2>1, <2>2
<1>3. QED  BY <1>2

\* A recursion over the numbers up to N has a solution.
Iterates(f, n, c, g) == f[0] = c /\ \A i \in 1..n : f[i] = g[<<i, f[i-1]>>]
Closed(g, X) == \A n \in Nat, x \in X : g[<<n, x>>] \in X

LEMMA Recursion ==
  ASSUME NEW X, NEW c \in X, NEW g, Closed(g, X), NEW N \in Nat
  PROVE  \E f \in [0..N -> X] : Iterates(f, N, c, g)
<1> USE DEF Closed, Iterates
<1> DEFINE Solves(f, n) == Iterates(f, n, c, g)
           P == {n \in 0..N : \E f \in [0..n -> X] : Solves(f, n)}
<1>1. 0 \in P
  <2> DEFINE e == [i \in 0..0 |-> c]
  <2>1. e \in [0..0 -> X] /\ Solves(e, 0)
    OBVIOUS
  <2> HIDE DEF e, Solves
  <2>2. QED  BY <2>1
<1>2. ASSUME NEW n \in 0..N, n \in P, n < N  PROVE n + 1 \in P
  <2>1. PICK f \in [0..n -> X] : Solves(f, n)
    BY <1>2
  <2> DEFINE h == [i \in 0..n+1 |-> IF i = n + 1 THEN g[<<i, f[n]>>] ELSE f[i]]
  <2>2. h \in [0..n+1 -> X]
    BY <2>1
  <2>3. \A i \in 0..n : h[i] = f[i]
    OBVIOUS
  <2>4. h[n+1] = g[<<n+1, h[n]>>]
    OBVIOUS
  <2>5. Solves(h, n + 1)
    <3> HIDE DEF h
    <3>1. h[0] = c
      BY <2>1, <2>3
    <3>2. ASSUME NEW i \in 1..n+1  PROVE h[i] = g[<<i, h[i-1]>>]
      <4>1. CASE i = n + 1
        <5>1. i - 1 = n
          BY <4>1
        <5>2. QED  BY <2>4, <4>1, <5>1
      <4>2. CASE i \in 1..n
        <5>1. i \in 0..n /\ i - 1 \in 0..n
          BY <4>2
        <5>2. QED  BY <2>1, <2>3, <4>2, <5>1
      <4>3. QED  BY <4>1, <4>2
    <3>3. QED  BY <3>1, <3>2
  <2>6. n + 1 \in 0..N /\ h \in [0..n+1 -> X] /\ Solves(h, n + 1)
    BY <1>2, <2>2, <2>5
  <2>7. QED
    <3> HIDE DEF h, Solves
    <3>1. QED  BY <2>6
<1>3. N \in P
  <2> HIDE DEF P
  <2>1. 0..N \subseteq P
    BY <1>1, <1>2, Induction
  <2>2. QED  BY <2>1
<1>4. QED  BY <1>3

\* ... and only one: two functions that agree on 0, and on each number when
\* they agree on the one before it, are the same.
InStep(f, h, n) == /\ f = [i \in 0..n |-> f[i]] /\ h = [i \in 0..n |-> h[i]] /\ f[0] = h[0]
                   /\ \A i \in 1..n : f[i-1] = h[i-1] => f[i] = h[i]

LEMMA Unique ==
  ASSUME NEW N \in Nat, NEW f, NEW h, InStep(f, h, N)
  PROVE  f = h
<1> USE DEF InStep
<1> DEFINE P == {i \in 0..N : f[i] = h[i]}
<1>1. 0 \in P
  OBVIOUS
<1>2. ASSUME NEW n \in 0..N, n \in P, n < N  PROVE n + 1 \in P
  <2>1. n + 1 \in 1..N /\ n + 1 \in 0..N /\ (n + 1) - 1 = n
    BY <1>2
  <2>2. f[n] = h[n]
    BY <1>2
  <2>3. QED  BY <2>1, <2>2
<1>3. 0..N \subseteq P
  <2> HIDE DEF P
  <2>1. QED  BY <1>1, <1>2, Induction
<1>4. QED  BY <1>3

-----------------------------------------------------------------------------
(* Sequences as sets                                                         *)

LEMMA Elements ==
  ASSUME NEW S, NEW s \in Seq(S)
  PROVE  /\ Len(s) \in Nat /\ DOMAIN s = 1..Len(s)
         /\ ToSet(s) = {s[i] : i \in 1..Len(s)} /\ ToSet(s) \subseteq S
         /\ \A i \in 1..Len(s) : s[i] \in ToSet(s)
         /\ IsInjective(s) <=> \A i, j \in 1..Len(s) : s[i] = s[j] => i = j
         /\ s = <<>> <=> Len(s) = 0
<1>1. Len(s) \in Nat /\ DOMAIN s = 1..Len(s) /\ \A i \in 1..Len(s) : s[i] \in S
  BY LenProperties, ElementOfSeq
<1>2. s = <<>> <=> Len(s) = 0
  BY EmptySeq, <1>1
<1>3. QED  BY <1>1, <1>2 DEF ToSet, IsInjective

LEMMA Appended ==
  ASSUME NEW S, NEW s \in Seq(S), NEW e \in S
  PROVE  /\ Append(s, e) \in Seq(S) /\ Len(Append(s, e)) = Len(s) + 1
         /\ \A i \in 1..Len(s) : Append(s, e)[i] = s[i]
         /\ Append(s, e)[Len(s) + 1] = e
         /\ ToSet(Append(s, e)) = ToSet(s) \cup {e}
         /\ IsInjective(s) /\ e \notin ToSet(s) => IsInjective(Append(s, e))
<1> DEFINE t == Append(s, e)
<1>1. /\ t \in Seq(S) /\ Len(t) = Len(s) + 1 /\ Len(s) \in Nat
      /\ \A i \in 1..Len(s) : t[i] = s[i]
      /\ t[Len(s) + 1] = e
  BY AppendProperties, Elements
<1> HIDE DEF t
<1>2. \A i \in 1..Len(t) : i \in 1..Len(s) \/ i = Len(s) + 1
  BY <1>1
<1>3. ToSet(t) = ToSet(s) \cup {e}
  <2>1. ToSet(t) = {t[i] : i \in 1..Len(t)} /\ ToSet(s) = {s[i] : i \in 1..Len(s)}
    BY <1>1, Elements
  <2>2. Len(s) + 1 \in 1..Len(t) /\ 1..Len(s) \subseteq 1..Len(t)
    BY <1>1
  <2>3. QED  BY <1>1, <1>2, <2>1, <2>2
<1>4. ASSUME IsInjective(s), e \notin ToSet(s)  PROVE IsInjective(t)
  <2>1. \A i, j \in 1..Len(s) : s[i] = s[j] => i = j
    BY <1>4, Elements
  <2>2. \A i \in 1..Len(s) : s[i] # e
    BY <1>4, Elements
  <2>3. \A i, j \in 1..Len(t) : t[i] = t[j] => i = j
    BY <1>1, <1>2, <2>1, <2>2
  <2>4. QED  BY <1>1, <2>3, Elements
<1>5. QED  BY <1>1, <1>3, <1>4 DEF t

LEMMA Concatenated ==
  ASSUME NEW S, NEW s \in Seq(S), NEW t \in Seq(S)
  PROVE  /\ s \o t \in Seq(S) /\ Len(s \o t) = Len(s) + Len(t)
         /\ \A i \in 1..Len(s) : (s \o t)[i] = s[i]
         /\ \A i \in 1..Len(t) : (s \o t)[Len(s) + i] = t[i]
         /\ \A k \in 1..Len(s \o t) : k \in 1..Len(s) \/ k - Len(s) \in 1..Len(t)
         /\ ToSet(s \o t) = ToSet(s) \cup ToSet(t)
         /\ IsInjective(s) /\ IsInjective(t) /\ ToSet(s) \cap ToSet(t) = {} => IsInjective(s \o t)
<1> DEFINE u == s \o t  m == Len(s)  n == Len(t)
<1>1. u \in Seq(S) /\ Len(u) = m + n /\ m \in Nat /\ n \in Nat
  BY ConcatProperties, Elements
<1>2. \A i \in 1..m+n : u[i] = IF i <= m THEN s[i] ELSE t[i - m]
  BY ConcatProperties
<1> HIDE DEF u
<1>3. \A i \in 1..m : u[i] = s[i] /\ i \in 1..m+n
  BY <1>1, <1>2
<1>4. \A i \in 1..n : u[m + i] = t[i] /\ m + i \in 1..m+n
  <2> TAKE i \in 1..n
  <2>1. m + i \in 1..m+n /\ ~(m + i <= m) /\ (m + i) - m = i
    BY <1>1
  <2>2. QED  BY <1>2, <2>1
<1>5. \A k \in 1..m+n : k \in 1..m \/ k - m \in 1..n
  BY <1>1
<1>6. \A k \in 1..m+n : \/ k \in 1..m /\ u[k] = s[k]
                        \/ k - m \in 1..n /\ u[k] = t[k - m] /\ k \notin 1..m
  <2> TAKE k \in 1..m+n
  <2>1. CASE k <= m
    <3>1. k \in 1..m
      BY <1>1, <2>1
    <3>2. QED  BY <1>3, <3>1
  <2>2. CASE ~(k <= m)
    <3>1. k - m \in 1..n /\ k \notin 1..m
      BY <1>1, <2>2
    <3>2. QED  BY <1>2, <2>2, <3>1
  <2>3. QED  BY <2>1, <2>2
<1>7. /\ ToSet(u) = {u[i] : i \in 1..m+n}
      /\ ToSet(s) = {s[i] : i \in 1..m} /\ ToSet(t) = {t[i] : i \in 1..n}
  BY <1>1, Elements
<1>8. ToSet(u) = ToSet(s) \cup ToSet(t)
  <2>1. ToSet(u) \subseteq ToSet(s) \cup ToSet(t)
    BY <1>6, <1>7
  <2>2. ToSet(s) \subseteq ToSet(u)
    BY <1>3, <1>7
  <2>3. ToSet(t) \subseteq ToSet(u)
    BY <1>4, <1>7
  <2>4. QED  BY <2>1, <2>2, <2>3
<1>9. ASSUME IsInjective(s), IsInjective(t), ToSet(s) \cap ToSet(t) = {}
      PROVE  IsInjective(u)
  <2>1. /\ \A i, j \in 1..m : s[i] = s[j] => i = j
        /\ \A i, j \in 1..n : t[i] = t[j] => i = j
        /\ \A i \in 1..m, j \in 1..n : s[i] # t[j]
    <3>1. \A i, j \in 1..m : s[i] = s[j] => i = j
      BY <1>9, Elements
    <3>2. \A i, j \in 1..n : t[i] = t[j] => i = j
      BY <1>9, Elements
    <3>3. \A i \in 1..m, j \in 1..n : s[i] # t[j]
      BY <1>7, <1>9
    <3>4. QED  BY <3>1, <3>2, <3>3
  <2>2. ASSUME NEW i \in 1..m+n, NEW j \in 1..m+n, u[i] = u[j]  PROVE i = j
    <3>1. CASE i \in 1..m /\ j \in 1..m
      BY <1>3, <2>1, <2>2, <3>1
    <3>2. CASE i - m \in 1..n /\ j - m \in 1..n /\ i \notin 1..m /\ j \notin 1..m
      <4>1. i - m = j - m
        BY <1>6, <2>1, <2>2, <3>2
      <4>2. QED  BY <1>1, <4>1
    <3>3. CASE \/ i \in 1..m /\ j \notin 1..m
               \/ j \in 1..m /\ i \notin 1..m
      BY <1>3, <1>6, <2>1, <2>2, <3>3
    <3>4. QED  BY <1>5, <3>1, <3>2, <3>3
  <2>3. QED  BY <1>1, <2>2, Elements
<1>10. \A k \in 1..Len(u) : k \in 1..m \/ k - m \in 1..n
  BY <1>1, <1>5
<1>11. QED  BY <1>1, <1>3, <1>4, <1>8, <1>9, <1>10 DEF u

LEMMA Split ==
  ASSUME NEW S, NEW s \in Seq(S), s # <<>>
  PROVE  /\ Len(s) \in Nat \ {0} /\ Head(s) = s[1] /\ Head(s) \in ToSet(s)
         /\ Tail(s) \in Seq(S) /\ Len(Tail(s)) = Len(s) - 1
         /\ \A i \in 1..Len(s) - 1 : Tail(s)[i] = s[i + 1]
         /\ ToSet(s) = ToSet(Tail(s)) \cup {Head(s)}
         /\ IsInjective(s) => Head(s) \notin ToSet(Tail(s)) /\ IsInjective(Tail(s))
<1> DEFINE t == Tail(s)
<1>1. /\ Len(s) \in Nat \ {0} /\ Head(s) = s[1] /\ 1 \in 1..Len(s)
      /\ t \in Seq(S) /\ Len(t) = Len(s) - 1
      /\ \A i \in 1..Len(s) - 1 : t[i] = s[i + 1]
  BY HeadTailProperties, EmptySeq
<1> HIDE DEF t
<1>2. ToSet(s) = {s[i] : i \in 1..Len(s)} /\ ToSet(t) = {t[i] : i \in 1..Len(s) - 1}
  BY <1>1, Elements
<1>3. ToSet(s) = ToSet(t) \cup {s[1]}
  <2>1. \A i \in 1..Len(s) : i = 1 \/ (i - 1 \in 1..Len(s) - 1 /\ s[i] = t[i - 1])
    <3> TAKE i \in 1..Len(s)
    <3>1. i = 1 \/ (i - 1 \in 1..Len(s) - 1 /\ (i - 1) + 1 = i)
      BY <1>1
    <3>2. QED  BY <1>1, <3>1
  <2>2. \A i \in 1..Len(s) - 1 : i + 1 \in 1..Len(s)
    BY <1>1
  <2>3. ToSet(s) \subseteq ToSet(t) \cup {s[1]}
    BY <1>2, <2>1
  <2>4. ToSet(t) \cup {s[1]} \subseteq ToSet(s)
    BY <1>1, <1>2, <2>2
  <2>5. QED  BY <2>3, <2>4
<1>4. ASSUME IsInjective(s)  PROVE s[1] \notin ToSet(t) /\ IsInjective(t)
  <2>1. \A i, j \in 1..Len(s) : s[i] = s[j] => i = j
    BY <1>4, Elements
  <2>2. \A i \in 1..Len(s) - 1 : i + 1 \in 1..Len(s) /\ i + 1 # 1
    BY <1>1
  <2>3. s[1] \notin ToSet(t)
    BY <1>1, <1>2, <2>1, <2>2
  <2>4. \A i, j \in 1..Len(s) - 1 : t[i] = t[j] => i = j
    <3> TAKE i, j \in 1..Len(s) - 1
    <3>1. t[i] = t[j] => i + 1 = j + 1
      BY <1>1, <2>1, <2>2
    <3>2. QED  BY <1>1, <3>1
  <2>5. QED  BY <1>1, <2>3, <2>4, Elements
<1>5. QED  BY <1>1, <1>2, <1>3, <1>4 DEF t

LEMMA Reversed ==
  ASSUME NEW S, NEW s \in Seq(S)
  PROVE  /\ Reverse(s) \in Seq(S) /\ Len(Reverse(s)) = Len(s)
         /\ \A i \in 1..Len(s) : Reverse(s)[i] = s[Len(s) - i + 1]
         /\ ToSet(Reverse(s)) = ToSet(s)
         /\ IsInjective(s) => IsInjective(Reverse(s))
<1> DEFINE r == Reverse(s)
<1>1. /\ r \in Seq(S) /\ Len(r) = Len(s) /\ Len(s) \in Nat
      /\ \A i \in 1..Len(s) : r[i] = s[Len(s) - i + 1]
  BY Elements DEF Reverse
<1> HIDE DEF r
<1>2. \A i \in 1..Len(s) : Len(s) - i + 1 \in 1..Len(s) /\ Len(s) - (Len(s) - i + 1) + 1 = i
  BY <1>1
<1>3. ToSet(r) = {r[i] : i \in 1..Len(s)} /\ ToSet(s) = {s[i] : i \in 1..Len(s)}
  BY <1>1, Elements
<1>4. ToSet(r) = ToSet(s)
  <2>1. ToSet(r) \subseteq ToSet(s)
    BY <1>1, <1>2, <1>3
  <2>2. \A i \in 1..Len(s) : s[i] = r[Len(s) - i + 1]
    BY <1>1, <1>2
  <2>3. QED  BY <1>2, <1>3, <2>1, <2>2
<1>5. ASSUME IsInjective(s)  PROVE IsInjective(r)
  <2>1. \A i, j \in 1..Len(s) : s[i] = s[j] => i = j
    BY <1>5, Elements
  <2>2. \A i, j \in 1..Len(s) : r[i] = r[j] => i = j
    <3> TAKE i, j \in 1..Len(s)
    <3>1. r[i] = r[j] => Len(s) - i + 1 = Len(s) - j + 1
      BY <1>1, <1>2, <2>1
    <3>2. QED  BY <1>1, <3>1
  <2>3. QED  BY <1>1, <2>2, Elements
<1>6. QED  BY <1>1, <1>4, <1>5 DEF r

\* A set of numbers up to N has a largest.
LEMMA Greatest ==
  ASSUME NEW N \in Nat, NEW M, M \subseteq 1..N, M # {}
  PROVE  \E i \in M : \A j \in M : j <= i
<1> DEFINE T == {N + 1 - i : i \in M}
<1>1. T \subseteq Nat \ {0} /\ T # {}
  <2>1. \A i \in M : N + 1 - i \in Nat \ {0}
    OBVIOUS
  <2>2. QED  BY <2>1
<1>2. PICK k \in T : \A j \in T : k <= j
  <2> HIDE DEF T
  <2>1. QED  BY <1>1, Least
<1>3. PICK i \in M : k = N + 1 - i
  OBVIOUS
<1>4. ASSUME NEW j \in M  PROVE j <= i
  <2>1. N + 1 - j \in T
    OBVIOUS
  <2>2. i \in Int /\ j \in Int
    OBVIOUS
  <2> HIDE DEF T
  <2>3. N + 1 - i <= N + 1 - j
    BY <1>2, <1>3, <2>1
  <2>4. QED  BY <2>2, <2>3
<1>5. QED  BY <1>4

\* A flattened sequence is what one gets by appending one sequence after another.
Gathers(f, ss, S) == /\ f \in [0..Len(ss) -> Seq(S)] /\ f[0] = <<>>
                     /\ \A i \in 1..Len(ss) : f[i] = f[i-1] \o ss[i]

LEMMA FlattenSteps ==
  ASSUME NEW S, NEW ss \in Seq(Seq(S))
  PROVE  \E f : Gathers(f, ss, S) /\ FlattenSeq(ss) = f[Len(ss)]
<1> DEFINE N == Len(ss)
           X == Seq(S)
           body(h) == [i \in 1..N |-> IF i = 1 THEN ss[i] ELSE h[i-1] \o ss[i]]
           g == [p \in Nat \X X |-> IF p[1] \in 1..N THEN p[2] \o ss[p[1]] ELSE p[2]]
<1>1. N \in Nat /\ \A i \in 1..N : ss[i] \in Seq(S)
  BY LenProperties, ElementOfSeq
<1>2. CASE N = 0
  <2> DEFINE f == [i \in 0..N |-> <<>>]
  <2>1. ss = <<>> /\ FlattenSeq(ss) = ss
    BY <1>2, EmptySeq DEF FlattenSeq
  <2>2. f \in [0..N -> Seq(S)] /\ f[0] = <<>> /\ f[N] = <<>> /\ 1..N = {}
    BY <1>2, EmptySeq
  <2> HIDE DEF f
  <2>3. Gathers(f, ss, S) /\ FlattenSeq(ss) = f[N]
    BY <2>1, <2>2 DEF Gathers
  <2>4. QED  BY <2>3
<1>3. CASE N # 0
  <2>1. FlattenSeq(ss) = (CHOOSE h : h = body(h))[N]
    BY <1>3 DEF FlattenSeq
  <2>2. ASSUME NEW n \in Nat, NEW x \in X
        PROVE  g[<<n, x>>] = (IF n \in 1..N THEN x \o ss[n] ELSE x) /\ g[<<n, x>>] \in X
    <3>1. g[<<n, x>>] = IF n \in 1..N THEN x \o ss[n] ELSE x
      OBVIOUS
    <3>2. n \in 1..N => x \o ss[n] \in X
      BY <1>1, ConcatProperties
    <3>3. QED  BY <3>1, <3>2
  <2>3. PICK f \in [0..N -> X] : Iterates(f, N, <<>>, g)
    <3>1. <<>> \in X
      OBVIOUS
    <3> HIDE DEF g, N, X
    <3>2. Closed(g, X)
      BY <2>2 DEF Closed
    <3>3. QED  BY <1>1, <3>1, <3>2, Recursion
  <2>4. f[0] = <<>> /\ \A i \in 1..N : f[i] = f[i-1] \o ss[i] /\ f[i] \in Seq(S)
    <3> HIDE DEF g
    <3>1. f[0] = <<>>
      BY <1>1, <2>3 DEF Iterates
    <3>2. ASSUME NEW i \in 1..N  PROVE f[i] = f[i-1] \o ss[i] /\ f[i] \in Seq(S)
      <4>1. i \in 0..N /\ i \in Nat /\ i - 1 \in 0..N
        BY <1>1
      <4>2. f[i] = g[<<i, f[i-1]>>] /\ f[i-1] \in X /\ f[i] \in X
        BY <2>3, <4>1 DEF Iterates
      <4>3. QED  BY <2>2, <4>1, <4>2
    <3>3. QED  BY <3>1, <3>2
  <2> HIDE DEF g
  <2> DEFINE e == [i \in 1..N |-> f[i]]
  <2>5. e = body(e)
    <3>1. ASSUME NEW i \in 1..N  PROVE f[i] = IF i = 1 THEN ss[i] ELSE e[i-1] \o ss[i]
      <4>1. CASE i = 1
        <5>1. f[i] = <<>> \o ss[i]
          <6>1. f[i] = f[i-1] \o ss[i]
            BY <2>4
          <6>2. i - 1 = 0
            BY <4>1
          <6> HIDE DEF X, N
          <6>3. QED  BY <2>4, <6>1, <6>2
        <5>2. <<>> \o ss[i] = ss[i]
          <6>1. ss[i] \in Seq(S)
            BY <1>1
          <6> HIDE DEF N, X
          <6>2. QED  BY <6>1, ConcatEmptySeq
        <5>3. QED  BY <4>1, <5>1, <5>2
      <4>2. CASE i # 1
        <5>1. i - 1 \in 1..N
          BY <1>1, <4>2
        <5>2. e[i-1] = f[i-1]
          BY <5>1
        <5>3. QED  BY <2>4, <4>2, <5>2
      <4>3. QED  BY <4>1, <4>2
    <3>2. QED  BY <3>1
  <2>6. \A h : h = body(h) => h = e
    <3> SUFFICES ASSUME NEW h, h = body(h)  PROVE h = e
      OBVIOUS
    <3> DEFINE h0 == [i \in 0..N |-> IF i = 0 THEN <<>> ELSE h[i]]
    <3>1. \A i \in 1..N : h[i] = IF i = 1 THEN ss[i] ELSE h[i-1] \o ss[i]
      <4> DEFINE b == body(h)
      <4>1. \A i \in 1..N : b[i] = IF i = 1 THEN ss[i] ELSE h[i-1] \o ss[i]
        OBVIOUS
      <4> HIDE DEF b
      <4>2. QED  BY <4>1 DEF b
    <3>2. \A i \in 1..N : e[i] = IF i = 1 THEN ss[i] ELSE e[i-1] \o ss[i]
      <4> DEFINE b == body(e)
      <4>1. \A i \in 1..N : b[i] = IF i = 1 THEN ss[i] ELSE e[i-1] \o ss[i]
        OBVIOUS
      <4> HIDE DEF b, e
      <4>2. QED  BY <2>5, <4>1 DEF b
    <3>3. h = [i \in 1..N |-> h[i]] /\ e = [i \in 1..N |-> e[i]]
      OBVIOUS
    <3> DEFINE P == {n \in 0..N : n # 0 => h[n] = e[n]}
    <3> HIDE DEF e, body
    <3>4. 0 \in P
      BY <1>1
    <3>5. ASSUME NEW n \in 0..N, n \in P, n < N  PROVE n + 1 \in P
      <4>1. n + 1 \in 1..N /\ n + 1 \in 0..N /\ (n + 1) - 1 = n /\ (n # 0 => n + 1 # 1 /\ n \in 1..N)
        BY <1>1, <3>5
      <4>2. h[n+1] = e[n+1]
        BY <3>1, <3>2, <3>5, <4>1
      <4>3. QED  BY <4>1, <4>2
    <3>6. 0..N \subseteq P
      <4> HIDE DEF P
      <4>1. QED  BY <1>1, <3>4, <3>5, Induction
    <3>7. \A i \in 1..N : h[i] = e[i]
      BY <1>1, <3>6
    <3>8. QED
      <4> HIDE DEF P
      <4>1. QED  BY <3>3, <3>7
  <2>7. FlattenSeq(ss) = e[N]
    <3>1. (CHOOSE h : h = body(h)) = body(CHOOSE h : h = body(h))
      <4> HIDE DEF body, e
      <4>1. QED  BY <2>5
    <3> HIDE DEF body, e
    <3>2. (CHOOSE h : h = body(h)) = e
      BY <2>6, <3>1
    <3>3. QED  BY <2>1, <3>2
  <2>8. FlattenSeq(ss) = f[N]
    BY <1>1, <1>3, <2>7
  <2>9. Gathers(f, ss, S)
    BY <2>3, <2>4 DEF Gathers
  <2>10. QED  BY <2>8, <2>9
<1>4. QED  BY <1>2, <1>3

\* The elements of a flattened sequence are those of its sequences.
LEMMA Flattened ==
  ASSUME NEW S, NEW ss \in Seq(Seq(S))
  PROVE  /\ FlattenSeq(ss) \in Seq(S)
         /\ \A k \in 1..Len(FlattenSeq(ss)) :
               \E i \in 1..Len(ss) : \E j \in 1..Len(ss[i]) : FlattenSeq(ss)[k] = ss[i][j]
         /\ \A i \in 1..Len(ss) : \A j \in 1..Len(ss[i]) :
               \E k \in 1..Len(FlattenSeq(ss)) : FlattenSeq(ss)[k] = ss[i][j]
<1> DEFINE N == Len(ss)
           From(s, n) == \A k \in 1..Len(s) :
                            \E i \in 1..n : \E j \in 1..Len(ss[i]) : s[k] = ss[i][j]
           All(s, n) == \A i \in 1..n : \A j \in 1..Len(ss[i]) :
                            \E k \in 1..Len(s) : s[k] = ss[i][j]
<1>1. N \in Nat /\ \A i \in 1..N : ss[i] \in Seq(S)
  BY LenProperties, ElementOfSeq
<1>2. PICK f : Gathers(f, ss, S) /\ FlattenSeq(ss) = f[N]
  BY FlattenSteps
<1> DEFINE P == {n \in 0..N : From(f[n], n) /\ All(f[n], n)}
<1>3. 0 \in P
  <2>1. f[0] = <<>> /\ Len(<<>>) = 0
    BY <1>2, EmptySeq DEF Gathers
  <2>2. From(f[0], 0) /\ All(f[0], 0)
    BY <2>1
  <2>3. QED  BY <1>1, <2>2
<1>4. ASSUME NEW n \in 0..N, n \in P, n < N  PROVE n + 1 \in P
  <2> DEFINE u == f[n]  v == ss[n+1]  w == f[n+1]
  <2>1. /\ n + 1 \in 1..N /\ n + 1 \in 0..N /\ (n + 1) - 1 = n
        /\ 1..n \subseteq 1..n+1 /\ n + 1 \in 1..n+1
        /\ \A i \in 1..n+1 : i \in 1..n \/ i = n + 1
    BY <1>1, <1>4
  <2>2. u \in Seq(S) /\ v \in Seq(S) /\ w = u \o v
    BY <1>1, <1>2, <2>1 DEF Gathers
  <2>3. From(u, n) /\ All(u, n)
    BY <1>4
  <2>4. /\ \A i \in 1..Len(u) : w[i] = u[i] /\ i \in 1..Len(w)
        /\ \A i \in 1..Len(v) : w[Len(u) + i] = v[i] /\ Len(u) + i \in 1..Len(w)
        /\ \A k \in 1..Len(w) : \/ k \in 1..Len(u)
                                \/ k - Len(u) \in 1..Len(v) /\ Len(u) + (k - Len(u)) = k
    <3> HIDE DEF u, v, w
    <3>1. /\ Len(u \o v) = Len(u) + Len(v)
          /\ \A i \in 1..Len(u) : (u \o v)[i] = u[i]
          /\ \A i \in 1..Len(v) : (u \o v)[Len(u) + i] = v[i]
          /\ \A k \in 1..Len(u \o v) : k \in 1..Len(u) \/ k - Len(u) \in 1..Len(v)
      BY <2>2, Concatenated
    <3>2. Len(u) \in Nat /\ Len(v) \in Nat
      BY <2>2, LenProperties
    <3>3. QED  BY <2>2, <3>1, <3>2
  <2>5. ASSUME NEW k \in 1..Len(w)
        PROVE  \E i \in 1..n+1 : \E j \in 1..Len(ss[i]) : w[k] = ss[i][j]
    <3>1. CASE k \in 1..Len(u)
      <4>1. w[k] = u[k] /\ \E i \in 1..n : \E j \in 1..Len(ss[i]) : u[k] = ss[i][j]
        BY <2>3, <2>4, <3>1
      <4>2. QED  BY <2>1, <4>1
    <3>2. CASE k - Len(u) \in 1..Len(v) /\ Len(u) + (k - Len(u)) = k
      <4>1. w[k] = v[k - Len(u)]
        BY <2>4, <3>2
      <4>2. QED  BY <2>1, <3>2, <4>1
    <3>3. QED  BY <2>4, <3>1, <3>2
  <2>6. ASSUME NEW i \in 1..n+1, NEW j \in 1..Len(ss[i])
        PROVE  \E k \in 1..Len(w) : w[k] = ss[i][j]
    <3>1. CASE i \in 1..n
      <4>1. PICK k \in 1..Len(u) : u[k] = ss[i][j]
        BY <2>3, <3>1
      <4>2. QED  BY <2>4, <4>1
    <3>2. CASE i = n + 1
      BY <2>4, <3>2
    <3>3. QED  BY <2>1, <3>1, <3>2
  <2>7. From(w, n + 1) /\ All(w, n + 1)
    BY <2>5, <2>6
  <2>8. QED  BY <2>1, <2>7
<1>5. From(f[N], N) /\ All(f[N], N)
  <2> HIDE DEF P
  <2>1. 0..N \subseteq P
    BY <1>1, <1>3, <1>4, Induction
  <2>2. N \in P
    BY <1>1, <2>1
  <2>3. QED  BY <2>2 DEF P
<1>6. f[N] \in Seq(S)
  BY <1>1, <1>2 DEF Gathers
<1>7. QED  BY <1>2, <1>5, <1>6

\* Of two elements of a flattened sequence, the first is of an earlier one of its
\* sequences, or comes first in the same.
Follow(ss, x, y) == \E i, j \in 1..Len(ss) : \E k \in 1..Len(ss[i]), l \in 1..Len(ss[j]) :
                       x = ss[i][k] /\ y = ss[j][l] /\ (i < j \/ (i = j /\ k < l))

LEMMA FlattenedOrder ==
  ASSUME NEW S, NEW ss \in Seq(Seq(S))
  PROVE  \A p, q \in 1..Len(FlattenSeq(ss)) :
            p < q => Follow(ss, FlattenSeq(ss)[p], FlattenSeq(ss)[q])
<1> DEFINE N == Len(ss)
           From(s, n) == \A p \in 1..Len(s) :
                            \E i \in 1..n : \E k \in 1..Len(ss[i]) : s[p] = ss[i][k]
           Two(s, n, p, q) == \E i, j \in 1..n : \E k \in 1..Len(ss[i]), l \in 1..Len(ss[j]) :
                                 /\ s[p] = ss[i][k] /\ s[q] = ss[j][l]
                                 /\ i < j \/ (i = j /\ k < l)
           InOrder(s, n) == \A p, q \in 1..Len(s) : p < q => Two(s, n, p, q)
<1>1. N \in Nat /\ \A i \in 1..N : ss[i] \in Seq(S)
  BY LenProperties, ElementOfSeq
<1>2. PICK f : Gathers(f, ss, S) /\ FlattenSeq(ss) = f[N]
  BY FlattenSteps
<1> DEFINE P == {n \in 0..N : From(f[n], n) /\ InOrder(f[n], n)}
<1>3. 0 \in P
  <2>1. f[0] = <<>> /\ Len(<<>>) = 0
    BY <1>2, EmptySeq DEF Gathers
  <2>2. From(f[0], 0) /\ InOrder(f[0], 0)
    BY <2>1
  <2>3. QED  BY <1>1, <2>2
<1>4. ASSUME NEW n \in 0..N, n \in P, n < N  PROVE n + 1 \in P
  <2> DEFINE u == f[n]  v == ss[n+1]  w == f[n+1]
  <2>1. /\ n + 1 \in 1..N /\ n + 1 \in 0..N /\ (n + 1) - 1 = n
        /\ 1..n \subseteq 1..n+1 /\ n + 1 \in 1..n+1 /\ \A i \in 1..n : i < n + 1
    BY <1>1, <1>4
  <2>2. u \in Seq(S) /\ v \in Seq(S) /\ w = u \o v
    BY <1>1, <1>2, <2>1 DEF Gathers
  <2>3. From(u, n) /\ InOrder(u, n)
    BY <1>4
  <2>4. /\ Len(u) \in Nat /\ Len(v) \in Nat
        /\ \A i \in 1..Len(u) : w[i] = u[i]
        /\ \A i \in 1..Len(v) : w[Len(u) + i] = v[i]
        /\ \A k \in 1..Len(w) : \/ k \in 1..Len(u)
                                \/ k - Len(u) \in 1..Len(v) /\ Len(u) + (k - Len(u)) = k
    <3> HIDE DEF u, v, w
    <3>1. /\ Len(u \o v) = Len(u) + Len(v)
          /\ \A i \in 1..Len(u) : (u \o v)[i] = u[i]
          /\ \A i \in 1..Len(v) : (u \o v)[Len(u) + i] = v[i]
          /\ \A k \in 1..Len(u \o v) : k \in 1..Len(u) \/ k - Len(u) \in 1..Len(v)
      BY <2>2, Concatenated
    <3>2. Len(u) \in Nat /\ Len(v) \in Nat
      BY <2>2, LenProperties
    <3>3. QED  BY <2>2, <3>1, <3>2
  <2>5. From(w, n + 1)
    <3> SUFFICES ASSUME NEW k \in 1..Len(w)
                 PROVE  \E i \in 1..n+1 : \E j \in 1..Len(ss[i]) : w[k] = ss[i][j]
      OBVIOUS
    <3>1. CASE k \in 1..Len(u)
      <4>1. w[k] = u[k] /\ \E i \in 1..n : \E j \in 1..Len(ss[i]) : u[k] = ss[i][j]
        BY <2>3, <2>4, <3>1
      <4>2. QED  BY <2>1, <4>1
    <3>2. CASE k - Len(u) \in 1..Len(v) /\ Len(u) + (k - Len(u)) = k
      <4>1. w[k] = v[k - Len(u)]
        BY <2>4, <3>2
      <4>2. QED  BY <2>1, <3>2, <4>1
    <3>3. QED  BY <2>4, <3>1, <3>2
  <2>6. ASSUME NEW p \in 1..Len(w), NEW q \in 1..Len(w), p < q  PROVE Two(w, n + 1, p, q)
    <3>1. CASE q \in 1..Len(u)
      <4>1. p \in 1..Len(u)
        BY <2>4, <2>6, <3>1
      <4>2. PICK i \in 1..n, j \in 1..n : \E k \in 1..Len(ss[i]), l \in 1..Len(ss[j]) :
               u[p] = ss[i][k] /\ u[q] = ss[j][l] /\ (i < j \/ (i = j /\ k < l))
        BY <2>3, <2>6, <3>1, <4>1
      <4>3. w[p] = u[p] /\ w[q] = u[q]
        BY <2>4, <3>1, <4>1
      <4>4. i \in 1..n+1 /\ j \in 1..n+1
        BY <2>1
      <4> HIDE DEF u, w
      <4>5. QED  BY <4>2, <4>3, <4>4
    <3>2. CASE p \in 1..Len(u) /\ q - Len(u) \in 1..Len(v) /\ Len(u) + (q - Len(u)) = q
      <4>1. PICK i \in 1..n : \E k \in 1..Len(ss[i]) : u[p] = ss[i][k]
        BY <2>3, <3>2
      <4>2. w[p] = u[p] /\ w[q] = ss[n + 1][q - Len(u)]
        BY <2>4, <3>2
      <4>3. i \in 1..n+1 /\ n + 1 \in 1..n+1 /\ i < n + 1
        BY <2>1
      <4>4. q - Len(u) \in 1..Len(ss[n + 1])
        BY <3>2
      <4> HIDE DEF u, w
      <4>5. QED  BY <4>1, <4>2, <4>3, <4>4
    <3>3. CASE /\ p - Len(u) \in 1..Len(v) /\ Len(u) + (p - Len(u)) = p
               /\ q - Len(u) \in 1..Len(v) /\ Len(u) + (q - Len(u)) = q
      <4>1. w[p] = ss[n + 1][p - Len(u)] /\ w[q] = ss[n + 1][q - Len(u)]
        BY <2>4, <3>3
      <4>2. p - Len(u) \in 1..Len(ss[n + 1]) /\ q - Len(u) \in 1..Len(ss[n + 1])
        BY <3>3
      <4>3. p - Len(u) < q - Len(u)
        <5> HIDE DEF u, v, w
        <5>1. p \in Int /\ q \in Int /\ Len(u) \in Int
          BY <2>4, <2>6
        <5>2. QED  BY <2>6, <5>1
      <4> HIDE DEF u, w
      <4>4. QED  BY <2>1, <4>1, <4>2, <4>3
    <3>4. QED  BY <2>4, <2>6, <3>1, <3>2, <3>3
  <2>7. InOrder(w, n + 1)
    BY <2>6
  <2>8. QED  BY <2>1, <2>5, <2>7
<1>5. InOrder(f[N], N)
  <2> HIDE DEF P
  <2>1. 0..N \subseteq P
    BY <1>1, <1>3, <1>4, Induction
  <2>2. N \in P
    BY <1>1, <2>1
  <2>3. QED  BY <2>2 DEF P
<1>6. InOrder(FlattenSeq(ss), N)
  <2> HIDE DEF InOrder
  <2>1. QED  BY <1>2, <1>5
<1>7. \A p, q : Two(FlattenSeq(ss), N, p, q) => Follow(ss, FlattenSeq(ss)[p], FlattenSeq(ss)[q])
  BY DEF Follow
<1>8. QED  BY <1>6, <1>7

\* As long as there is one element in each of the sequences, an element keeps its place.
LEMMA FlattenedOnes ==
  ASSUME NEW S, NEW ss \in Seq(Seq(S)), NEW n \in 0..Len(ss), \A i \in 1..n : Len(ss[i]) = 1
  PROVE  n <= Len(FlattenSeq(ss)) /\ \A i \in 1..n : FlattenSeq(ss)[i] = ss[i][1]
<1> DEFINE N == Len(ss)
           Kept(s, m) == /\ s \in Seq(S) /\ \A i \in 1..n : i <= m => s[i] = ss[i][1]
                         /\ IF m <= n THEN Len(s) = m ELSE n <= Len(s)
<1>1. N \in Nat /\ (\A i \in 1..N : ss[i] \in Seq(S)) /\ n \in Nat /\ n <= N
  BY LenProperties, ElementOfSeq
<1>2. PICK f : Gathers(f, ss, S) /\ FlattenSeq(ss) = f[N]
  BY FlattenSteps
<1> DEFINE P == {m \in 0..N : Kept(f[m], m)}
<1>3. 0 \in P
  <2>1. f[0] = <<>> /\ Len(<<>>) = 0 /\ <<>> \in Seq(S)
    BY <1>2, EmptySeq DEF Gathers
  <2>2. Kept(f[0], 0)
    BY <1>1, <2>1
  <2>3. QED  BY <1>1, <2>2
<1>4. ASSUME NEW m \in 0..N, m \in P, m < N  PROVE m + 1 \in P
  <2> DEFINE u == f[m]  v == ss[m+1]  w == f[m+1]
  <2>1. m + 1 \in 1..N /\ m + 1 \in 0..N /\ (m + 1) - 1 = m
    BY <1>1, <1>4
  <2>2. u \in Seq(S) /\ v \in Seq(S) /\ w = u \o v
    BY <1>1, <1>2, <2>1 DEF Gathers
  <2>3. Kept(u, m)
    BY <1>4
  <2>4. /\ w \in Seq(S) /\ Len(w) = Len(u) + Len(v)
        /\ Len(u) \in Nat /\ Len(v) \in Nat
        /\ \A i \in 1..Len(u) : w[i] = u[i]
        /\ \A i \in 1..Len(v) : w[Len(u) + i] = v[i]
    <3> HIDE DEF u, v, w
    <3>1. QED  BY <2>2, Concatenated, LenProperties
  <2>5. ASSUME NEW i \in 1..n, i <= m + 1  PROVE w[i] = ss[i][1]
    <3>1. CASE i <= m
      <4>1. i \in 1..Len(u) /\ u[i] = ss[i][1]
        <5>1. IF m <= n THEN Len(u) = m ELSE n <= Len(u)
          BY <2>3
        <5>2. u[i] = ss[i][1]
          BY <2>3, <3>1
        <5> HIDE DEF u, v, w
        <5>3. QED  BY <1>1, <2>4, <3>1, <5>1, <5>2
      <4> HIDE DEF u, v, w
      <4>2. QED  BY <2>4, <4>1
    <3>2. CASE i = m + 1
      <4>1. m <= n /\ Len(u) = m /\ Len(v) = 1 /\ i = Len(u) + 1 /\ 1 \in 1..Len(v) /\ v = ss[i]
        <5>1. IF m <= n THEN Len(u) = m ELSE n <= Len(u)
          BY <2>3
        <5>2. v = ss[i] /\ Len(ss[i]) = 1
          BY <3>2
        <5> HIDE DEF u, v, w
        <5>3. QED  BY <1>1, <3>2, <5>1, <5>2
      <4> HIDE DEF u, v, w
      <4>2. w[Len(u) + 1] = v[1]
        BY <2>4, <4>1
      <4>3. QED  BY <4>1, <4>2
    <3>3. QED  BY <1>1, <2>1, <2>5, <3>1, <3>2
  <2>6. IF m + 1 <= n THEN Len(w) = m + 1 ELSE n <= Len(w)
    <3>1. m + 1 <= n => m + 1 \in 1..n /\ Len(v) = 1 /\ Len(u) = m
      BY <1>1, <2>1, <2>3
    <3>2. ~(m + 1 <= n) => n <= Len(u)
      <4>1. IF m <= n THEN Len(u) = m ELSE n <= Len(u)
        BY <2>3
      <4> HIDE DEF u, v, w
      <4>2. QED  BY <1>1, <2>4, <4>1
    <3>3. Len(w) = Len(u) + Len(v) /\ Len(u) \in Nat /\ Len(v) \in Nat
      BY <2>4
    <3> HIDE DEF u, v, w, N, P, Kept
    <3>4. CASE m + 1 <= n
      BY <3>1, <3>3, <3>4
    <3>5. CASE ~(m + 1 <= n)
      <4>1. n <= Len(w)
        BY <1>1, <3>2, <3>3, <3>5
      <4>2. QED  BY <3>5, <4>1
    <3>6. QED  BY <3>4, <3>5
  <2>7. Kept(w, m + 1)
    <3>1. w \in Seq(S)
      BY <2>4
    <3> HIDE DEF w
    <3>2. QED  BY <2>5, <2>6, <3>1
  <2>8. QED  BY <2>1, <2>7
<1>5. Kept(f[N], N)
  <2> HIDE DEF P
  <2>1. 0..N \subseteq P
    BY <1>1, <1>3, <1>4, Induction
  <2>2. N \in P
    BY <1>1, <2>1
  <2>3. QED  BY <2>2 DEF P
<1>6. \A i \in 1..n : i <= N
  BY <1>1
<1>7. n <= Len(f[N])
  BY <1>1, <1>5
<1>8. QED  BY <1>2, <1>5, <1>6, <1>7

\* Of sequences put together, the flattened ones are put together.
LEMMA FlattenedBoth ==
  \A S : \A ss, tt \in Seq(Seq(S)) : FlattenSeq(ss \o tt) = FlattenSeq(ss) \o FlattenSeq(tt)
<1> SUFFICES ASSUME NEW S
             PROVE  \A ss, tt \in Seq(Seq(S)) :
                       FlattenSeq(ss \o tt) = FlattenSeq(ss) \o FlattenSeq(tt)
  OBVIOUS
<1>1. ASSUME NEW x \in Seq(S), NEW y \in Seq(S), NEW z \in Seq(S)
      PROVE  (x \o y) \o z = x \o (y \o z)
  BY ConcatAssociative
<1> SUFFICES ASSUME NEW ss \in Seq(Seq(S)), NEW tt \in Seq(Seq(S))
             PROVE  FlattenSeq(ss \o tt) = FlattenSeq(ss) \o FlattenSeq(tt)
  OBVIOUS
<1> DEFINE m == Len(ss)  n == Len(tt)  uu == ss \o tt
<1>2. /\ m \in Nat /\ n \in Nat /\ uu \in Seq(Seq(S)) /\ Len(uu) = m + n
      /\ \A i \in 1..m : uu[i] = ss[i]
      /\ \A i \in 1..n : uu[m + i] = tt[i]
      /\ \A i \in 1..n : tt[i] \in Seq(S)
  BY Concatenated, LenProperties, ElementOfSeq
<1>3. PICK f : Gathers(f, ss, S) /\ FlattenSeq(ss) = f[m]
  BY FlattenSteps
<1>4. PICK g : Gathers(g, tt, S) /\ FlattenSeq(tt) = g[n]
  BY FlattenSteps
<1>5. PICK h : Gathers(h, uu, S) /\ FlattenSeq(uu) = h[m + n]
  <2> HIDE DEF uu
  <2>1. QED  BY <1>2, FlattenSteps
<1> HIDE DEF m, n, uu
<1>6. h[m] = f[m]
  <2> DEFINE P == {i \in 0..m : h[i] = f[i]}
  <2>1. 0 \in P
    BY <1>2, <1>3, <1>5 DEF Gathers
  <2>2. ASSUME NEW i \in 0..m, i \in P, i < m  PROVE i + 1 \in P
    <3>1. i + 1 \in 1..m /\ i + 1 \in 0..m /\ i + 1 \in 1..m+n /\ (i + 1) - 1 = i
      BY <1>2, <2>2
    <3>2. h[i+1] = h[i] \o ss[i+1] /\ f[i+1] = f[i] \o ss[i+1]
      BY <1>2, <1>3, <1>5, <3>1 DEF Gathers, m
    <3>3. QED  BY <2>2, <3>1, <3>2
  <2>3. m \in P
    <3> HIDE DEF P
    <3>1. 0..m \subseteq P
      BY <1>2, <2>1, <2>2, Induction
    <3>2. QED  BY <1>2, <3>1
  <2>4. QED  BY <2>3
<1>7. h[m + n] = f[m] \o g[n]
  <2> DEFINE P == {i \in 0..n : \A k \in Nat : k = m + i => h[k] = f[m] \o g[i]}
  <2>1. 0 \in P
    <3>1. g[0] = <<>> /\ f[m] \in Seq(S)
      <4>1. m \in 0..m
        BY <1>2
      <4>2. QED  BY <1>3, <1>4, <4>1 DEF Gathers, m
    <3>2. f[m] \o <<>> = f[m]
      BY <3>1, ConcatEmptySeq
    <3>3. 0 \in 0..n /\ \A k \in Nat : k = m + 0 => k = m
      BY <1>2
    <3>4. QED  BY <1>6, <3>1, <3>2, <3>3
  <2>2. ASSUME NEW i \in 0..n, i \in P, i < n  PROVE i + 1 \in P
    <3>1. /\ i + 1 \in 1..n /\ i + 1 \in 0..n /\ (i + 1) - 1 = i
          /\ m + (i + 1) \in 1..m+n /\ (m + (i + 1)) - 1 = m + i
      BY <1>2, <2>2
    <3>2. ASSUME NEW k \in Nat, k = m + (i + 1)  PROVE h[k] = (f[m] \o g[i]) \o tt[i+1]
      <4>1. k \in 1..m+n /\ k - 1 = m + i /\ k - 1 \in Nat /\ uu[k] = tt[i+1]
        BY <1>2, <3>1, <3>2
      <4>2. h[k] = h[k-1] \o uu[k]
        BY <1>2, <1>5, <4>1 DEF Gathers
      <4>3. h[k-1] = f[m] \o g[i]
        BY <2>2, <4>1
      <4>4. QED  BY <4>1, <4>2, <4>3
    <3>3. g[i+1] = g[i] \o tt[i+1] /\ g[i] \in Seq(S) /\ f[m] \in Seq(S) /\ tt[i+1] \in Seq(S)
      <4>1. m \in 0..m /\ i \in 0..n
        BY <1>2
      <4>2. f[m] \in Seq(S)
        BY <1>3, <4>1 DEF Gathers, m
      <4>3. g[i+1] = g[i] \o tt[i+1] /\ g[i] \in Seq(S)
        BY <1>4, <3>1, <4>1 DEF Gathers, n
      <4>4. QED  BY <1>2, <3>1, <4>2, <4>3
    <3>4. (f[m] \o g[i]) \o tt[i+1] = f[m] \o (g[i] \o tt[i+1])
      BY <1>1, <3>3, Zenon
    <3>5. QED  BY <3>1, <3>2, <3>3, <3>4
  <2>3. n \in P
    <3> HIDE DEF P
    <3>1. 0..n \subseteq P
      BY <1>2, <2>1, <2>2, Induction
    <3>2. QED  BY <1>2, <3>1
  <2>4. m + n \in Nat
    BY <1>2
  <2>5. QED  BY <2>3, <2>4
<1>8. QED  BY <1>3, <1>4, <1>5, <1>7 DEF uu

LEMMA FlattenedConcat ==
  ASSUME NEW S, NEW ss \in Seq(Seq(S)), NEW tt \in Seq(Seq(S))
  PROVE  FlattenSeq(ss \o tt) = FlattenSeq(ss) \o FlattenSeq(tt)
BY FlattenedBoth, Zenon

LEMMA FlattenedOne ==
  ASSUME NEW S, NEW s \in Seq(S)
  PROVE  FlattenSeq(<<s>>) = s
<1>1. <<s>> \in Seq(Seq(S)) /\ Len(<<s>>) = 1 /\ <<s>>[1] = s
  OBVIOUS
<1>2. PICK f : Gathers(f, <<s>>, S) /\ FlattenSeq(<<s>>) = f[1]
  BY <1>1, FlattenSteps
<1>3. f[0] = <<>> /\ f[1] = f[0] \o s
  <2>1. 1 \in 1..1 /\ 1 - 1 = 0
    OBVIOUS
  <2>2. QED  BY <1>1, <1>2, <2>1 DEF Gathers
<1>4. <<>> \o s = s
  BY ConcatEmptySeq
<1>5. QED  BY <1>2, <1>3, <1>4

LEMMA FlattenedNone ==
  ASSUME NEW S, NEW ss \in Seq(Seq(S)), \A i \in 1..Len(ss) : ss[i] = <<>>
  PROVE  FlattenSeq(ss) = <<>>
<1>1. FlattenSeq(ss) \in Seq(S)
  BY Flattened
<1>2. ASSUME NEW k \in 1..Len(FlattenSeq(ss))  PROVE FALSE
  <2>1. PICK i \in 1..Len(ss) : \E j \in 1..Len(ss[i]) : FlattenSeq(ss)[k] = ss[i][j]
    BY Flattened
  <2>2. Len(ss[i]) = 0 /\ 1..0 = {}
    BY EmptySeq
  <2>3. QED  BY <2>1, <2>2
<1>3. Len(FlattenSeq(ss)) = 0
  <2>1. Len(FlattenSeq(ss)) \in Nat
    BY <1>1, LenProperties
  <2>2. QED  BY <1>2, <2>1
<1>4. QED  BY <1>1, <1>3, Elements

-----------------------------------------------------------------------------
(* Sequences of whatever it is                                              *)

IsSeq(s) == s \in Seq(Range(s))

LEMMA SeqFacts ==
  ASSUME NEW s, IsSeq(s)
  PROVE  /\ Len(s) \in Nat /\ DOMAIN s = 1..Len(s)
         /\ Range(s) = {s[i] : i \in 1..Len(s)}
         /\ s = <<>> <=> Len(s) = 0
BY Elements DEF IsSeq, Range

LEMMA SeqIn ==
  ASSUME NEW S, NEW s \in Seq(S)
  PROVE  IsSeq(s) /\ Range(s) \subseteq S /\ Len(s) \in Nat /\ DOMAIN s = 1..Len(s)
<1>1. Len(s) \in Nat /\ s \in [1..Len(s) -> S]
  BY LenProperties
<1>2. s \in [1..Len(s) -> Range(s)] /\ Range(s) \subseteq S
  BY <1>1 DEF Range
<1>3. QED  BY <1>1, <1>2 DEF IsSeq

LEMMA SeqBuilt ==
  ASSUME NEW n \in Nat, NEW s, s = [i \in 1..n |-> s[i]]
  PROVE  IsSeq(s) /\ Len(s) = n
<1>1. s \in [1..n -> Range(s)]
  BY DEF Range
<1>2. s \in Seq(Range(s))
  BY <1>1
<1>3. QED  BY <1>1, <1>2, LenProperties DEF IsSeq

LEMMA SeqEmpty == IsSeq(<<>>) /\ Len(<<>>) = 0 /\ Range(<<>>) = {} /\ DOMAIN <<>> = {}
<1>1. <<>> \in Seq({}) /\ Len(<<>>) = 0
  BY EmptySeq
<1>2. IsSeq(<<>>)
  BY <1>1, SeqIn
<1>3. DOMAIN <<>> = 1..0 /\ 1..0 = {}
  BY <1>1, <1>2, SeqFacts
<1>4. QED  BY <1>1, <1>2, <1>3 DEF Range

LEMMA SeqOne ==
  ASSUME NEW e
  PROVE  IsSeq(<<e>>) /\ Len(<<e>>) = 1 /\ Range(<<e>>) = {e} /\ <<e>>[1] = e
<1>1. <<e>> \in Seq({e}) /\ Len(<<e>>) = 1 /\ <<e>>[1] = e
  OBVIOUS
<1>2. IsSeq(<<e>>) /\ Range(<<e>>) = {<<e>>[i] : i \in 1..1}
  BY <1>1, SeqIn, SeqFacts
<1>3. 1..1 = {1}
  OBVIOUS
<1>4. QED  BY <1>1, <1>2, <1>3

LEMMA SeqConcat ==
  ASSUME NEW s, NEW t, IsSeq(s), IsSeq(t)
  PROVE  /\ IsSeq(s \o t) /\ Len(s \o t) = Len(s) + Len(t)
         /\ Range(s \o t) = Range(s) \cup Range(t)
         /\ \A i \in 1..Len(s) : (s \o t)[i] = s[i]
         /\ \A i \in 1..Len(t) : (s \o t)[Len(s) + i] = t[i]
<1> DEFINE S == Range(s) \cup Range(t)
<1>1. s \in Seq(S) /\ t \in Seq(S)
  <2>1. /\ Len(s) \in Nat /\ s \in [1..Len(s) -> Range(s)]
        /\ Len(t) \in Nat /\ t \in [1..Len(t) -> Range(t)]
    BY LenProperties DEF IsSeq
  <2>2. s \in [1..Len(s) -> S] /\ t \in [1..Len(t) -> S]
    BY <2>1
  <2> HIDE DEF S
  <2>3. QED  BY <2>1, <2>2
<1> HIDE DEF S
<1>2. /\ s \o t \in Seq(S) /\ Len(s \o t) = Len(s) + Len(t)
      /\ \A i \in 1..Len(s) : (s \o t)[i] = s[i]
      /\ \A i \in 1..Len(t) : (s \o t)[Len(s) + i] = t[i]
      /\ ToSet(s \o t) = ToSet(s) \cup ToSet(t)
  BY <1>1, Concatenated
<1>3. IsSeq(s \o t)
  BY <1>2, SeqIn
<1>4. /\ ToSet(s \o t) = Range(s \o t) /\ ToSet(s) = Range(s) /\ ToSet(t) = Range(t)
  BY DEF ToSet, Range
<1>5. QED  BY <1>2, <1>3, <1>4

LEMMA SeqTail ==
  ASSUME NEW s, IsSeq(s), s # <<>>
  PROVE  /\ Head(s) = s[1] /\ IsSeq(Tail(s)) /\ Len(Tail(s)) = Len(s) - 1 /\ Len(s) >= 1
         /\ \A i \in 1..Len(s) - 1 : Tail(s)[i] = s[i + 1]
<1>1. /\ Len(s) \in Nat \ {0} /\ Head(s) = s[1]
      /\ Tail(s) \in Seq(Range(s)) /\ Len(Tail(s)) = Len(s) - 1
      /\ \A i \in 1..Len(s) - 1 : Tail(s)[i] = s[i + 1]
  BY Split DEF IsSeq
<1>2. IsSeq(Tail(s))
  BY <1>1, SeqIn
<1>3. Len(s) >= 1
  BY <1>1
<1>4. QED  BY <1>1, <1>2, <1>3

LEMMA SeqPart ==
  ASSUME NEW s, IsSeq(s), NEW m \in 1..Len(s) + 1, NEW n \in m - 1..Len(s)
  PROVE  IsSeq(SubSeq(s, m, n)) /\ Len(SubSeq(s, m, n)) = n - m + 1
<1>1. SubSeq(s, m, n) \in Seq(Range(s)) /\ Len(SubSeq(s, m, n)) = n - m + 1
  BY SubSeqProperties DEF IsSeq
<1>2. QED  BY <1>1, SeqIn

LEMMA SeqOfSeqs ==
  ASSUME NEW ss, IsSeq(ss), \A i \in DOMAIN ss : IsSeq(ss[i])
  PROVE  /\ Len(ss) \in Nat /\ DOMAIN ss = 1..Len(ss)
         /\ \E S : ss \in Seq(Seq(S))
<1> DEFINE S == UNION {Range(ss[i]) : i \in DOMAIN ss}
<1>1. Len(ss) \in Nat /\ DOMAIN ss = 1..Len(ss) /\ ss = [i \in 1..Len(ss) |-> ss[i]]
  BY SeqFacts, LenProperties DEF IsSeq
<1>2. \A i \in 1..Len(ss) : ss[i] \in Seq(S)
  <2> TAKE i \in 1..Len(ss)
  <2>1. Len(ss[i]) \in Nat /\ ss[i] \in [1..Len(ss[i]) -> Range(ss[i])]
    BY <1>1, LenProperties DEF IsSeq
  <2>2. Range(ss[i]) \subseteq S
    BY <1>1
  <2> HIDE DEF S
  <2>3. ss[i] \in [1..Len(ss[i]) -> S]
    BY <2>1, <2>2
  <2>4. QED  BY <2>1, <2>3
<1>3. ss \in Seq(Seq(S))
  <2> HIDE DEF S
  <2>1. ss \in [1..Len(ss) -> Seq(S)]
    BY <1>1, <1>2
  <2>2. QED  BY <1>1, <2>1
<1> HIDE DEF S
<1>4. QED  BY <1>1, <1>3

LEMMA SeqFlat ==
  ASSUME NEW ss, IsSeq(ss), \A i \in DOMAIN ss : IsSeq(ss[i])
  PROVE  /\ IsSeq(FlattenSeq(ss))
         /\ \A x \in Range(FlattenSeq(ss)) : \E i \in DOMAIN ss : x \in Range(ss[i])
         /\ \A i \in DOMAIN ss : Range(ss[i]) \subseteq Range(FlattenSeq(ss))
<1>1. Len(ss) \in Nat /\ DOMAIN ss = 1..Len(ss)
  BY SeqOfSeqs
<1>3. PICK S : ss \in Seq(Seq(S))
  BY SeqOfSeqs
<1>4. /\ FlattenSeq(ss) \in Seq(S)
      /\ \A k \in 1..Len(FlattenSeq(ss)) :
            \E i \in 1..Len(ss) : \E j \in 1..Len(ss[i]) : FlattenSeq(ss)[k] = ss[i][j]
      /\ \A i \in 1..Len(ss) : \A j \in 1..Len(ss[i]) :
            \E k \in 1..Len(FlattenSeq(ss)) : FlattenSeq(ss)[k] = ss[i][j]
  BY <1>3, Flattened
<1>5. IsSeq(FlattenSeq(ss))
  BY <1>4, SeqIn
<1>6. \A x \in Range(FlattenSeq(ss)) : \E i \in DOMAIN ss : x \in Range(ss[i])
  <2> TAKE x \in Range(FlattenSeq(ss))
  <2>1. PICK k \in 1..Len(FlattenSeq(ss)) : x = FlattenSeq(ss)[k]
    BY <1>5, SeqFacts
  <2>2. PICK i \in 1..Len(ss) : \E j \in 1..Len(ss[i]) : x = ss[i][j]
    BY <1>4, <2>1
  <2>3. x \in Range(ss[i])
    BY <1>1, <2>2, SeqFacts
  <2>4. QED  BY <1>1, <2>3
<1>7. \A i \in DOMAIN ss : Range(ss[i]) \subseteq Range(FlattenSeq(ss))
  <2> SUFFICES ASSUME NEW i \in DOMAIN ss, NEW x \in Range(ss[i])
               PROVE  x \in Range(FlattenSeq(ss))
    OBVIOUS
  <2>1. PICK j \in 1..Len(ss[i]) : x = ss[i][j]
    BY SeqFacts
  <2>2. PICK k \in 1..Len(FlattenSeq(ss)) : FlattenSeq(ss)[k] = x
    BY <1>1, <1>4, <2>1
  <2>3. QED  BY <1>5, <2>2, SeqFacts
<1>8. QED  BY <1>5, <1>6, <1>7

LEMMA SeqFlatOrder ==
  ASSUME NEW ss, IsSeq(ss), \A i \in DOMAIN ss : IsSeq(ss[i])
  PROVE  \A p, q \in DOMAIN FlattenSeq(ss) : p < q =>
            \E i, j \in DOMAIN ss : \E k \in DOMAIN ss[i], l \in DOMAIN ss[j] :
               /\ FlattenSeq(ss)[p] = ss[i][k] /\ FlattenSeq(ss)[q] = ss[j][l]
               /\ i < j \/ (i = j /\ k < l)
<1>1. Len(ss) \in Nat /\ DOMAIN ss = 1..Len(ss)
  BY SeqOfSeqs
<1>2. PICK S : ss \in Seq(Seq(S))
  BY SeqOfSeqs
<1>3. \A i \in DOMAIN ss : DOMAIN ss[i] = 1..Len(ss[i])
  BY SeqFacts
<1> DEFINE F == FlattenSeq(ss)
<1>4. F \in Seq(S)
  BY <1>2, Flattened
<1>5. DOMAIN F = 1..Len(F)
  <2> HIDE DEF F
  <2>1. QED  BY <1>4, SeqIn
<1>6. \A p, q \in 1..Len(F) : p < q => Follow(ss, F[p], F[q])
  BY <1>2, FlattenedOrder
<1> HIDE DEF F
<1>7. ASSUME NEW p \in DOMAIN F, NEW q \in DOMAIN F, p < q
      PROVE  \E i, j \in DOMAIN ss : \E k \in DOMAIN ss[i], l \in DOMAIN ss[j] :
                /\ F[p] = ss[i][k] /\ F[q] = ss[j][l]
                /\ i < j \/ (i = j /\ k < l)
  <2>1. PICK i \in 1..Len(ss), j \in 1..Len(ss) :
           \E k \in 1..Len(ss[i]), l \in 1..Len(ss[j]) :
              F[p] = ss[i][k] /\ F[q] = ss[j][l] /\ (i < j \/ (i = j /\ k < l))
    BY <1>5, <1>6, <1>7 DEF Follow
  <2>2. i \in DOMAIN ss /\ j \in DOMAIN ss
        /\ DOMAIN ss[i] = 1..Len(ss[i]) /\ DOMAIN ss[j] = 1..Len(ss[j])
    BY <1>1, <1>3
  <2>3. QED  BY <2>1, <2>2
<1>8. QED  BY <1>7 DEF F

=============================================================================

------------------------- MODULE ResourcePoolProofs -------------------------
(***************************************************************************)
(* For any clients, resources and limits: the pool keeps its books, never  *)
(* leases a live instance twice, stays within max_size and loses no        *)
(* wake-up.  The argument: every step of Next changes the pool in one of   *)
(* five ways (PoolStep), and each of them preserves PoolInv; the waiting   *)
(* threads are then counted on top of it (WaitInv).                        *)
(***************************************************************************)
EXTENDS ResourcePool, FiniteSetTheorems, SequenceTheorems, TLAPS

\* The five ways a step may change the pool.
Reused(c) == /\ ~Held(c)
             /\ idle # <<>> /\ Head(idle) \notin active
             /\ idle' = Tail(idle)
             /\ active' = active \cup {Head(idle)}
             /\ lease' = [lease EXCEPT ![c] = Head(idle)]
             /\ released' = [released EXCEPT ![c] = FALSE]
             /\ totalCreated' = totalCreated

Created(c) == /\ ~Held(c)
              /\ idle = <<>> /\ idle' = idle
              /\ CanCreate
              /\ \E raw \in Fresh : /\ active' = active \cup {raw}
                                    /\ lease' = [lease EXCEPT ![c] = raw]
              /\ released' = [released EXCEPT ![c] = FALSE]
              /\ totalCreated' = totalCreated + 1

Returned(c) == /\ Held(c)
               /\ lease[c] \in active
               /\ active' = active \ {lease[c]}
               /\ idle' = Append(idle, lease[c])
               /\ released' = [released EXCEPT ![c] = TRUE]
               /\ UNCHANGED <<lease, totalCreated>>

Emptied == idle' = <<>> /\ UNCHANGED <<active, lease, released, totalCreated>>

\* A client inside acquire() holds nothing, and the pool is in order.
PoolInv == /\ \A c \in Clients : pc[c] # "ready" \/ c \in waiters => ~Held(c)
           /\ IsFiniteSet(active)
           /\ BooksBalance
           /\ LeaseExclusive
           /\ Capacity

-----------------------------------------------------------------------------
LEMMA SeqFacts ==
  ASSUME NEW S, NEW s \in Seq(S)
  PROVE  /\ Len(s) \in Nat
         /\ \A i \in 1..Len(s) : s[i] \in S
         /\ s # <<>> => /\ Tail(s) \in Seq(S)
                        /\ Len(s) >= 1 /\ Len(Tail(s)) = Len(s) - 1
                        /\ \A i \in 1..Len(Tail(s)) : Tail(s)[i] = s[i + 1]
                        /\ Head(s) = s[1]
         /\ \A x \in S : /\ Append(s, x) \in Seq(S)
                         /\ Len(Append(s, x)) = Len(s) + 1
                         /\ \A i \in 1..Len(s) : Append(s, x)[i] = s[i]
                         /\ Append(s, x)[Len(s) + 1] = x
  <1>1. Len(s) \in Nat /\ \A i \in 1..Len(s) : s[i] \in S
    BY LenProperties
  <1>2. s # <<>> => /\ Tail(s) \in Seq(S)
                    /\ Len(s) >= 1 /\ Len(Tail(s)) = Len(s) - 1
                    /\ \A i \in 1..Len(Tail(s)) : Tail(s)[i] = s[i + 1]
                    /\ Head(s) = s[1]
    BY HeadTailProperties, EmptySeq
  <1>3. \A x \in S : /\ Append(s, x) \in Seq(S)
                     /\ Len(Append(s, x)) = Len(s) + 1
                     /\ \A i \in 1..Len(s) : Append(s, x)[i] = s[i]
                     /\ Append(s, x)[Len(s) + 1] = x
    BY <1>1
  <1>4. QED  BY <1>1, <1>2, <1>3

LEMMA FreshIsNew ==
  ASSUME Fresh # {}
  PROVE  /\ NewRaw \in Fresh
         /\ NewRaw \in Raw \ (active \cup Idle)
         /\ \A c \in Clients : NewRaw # lease[c]
  BY DEF NewRaw, Fresh

-----------------------------------------------------------------------------
\* Type correctness.

LEMMA TypeInit == Init => TypeOK
  <1> SUFFICES ASSUME Init PROVE TypeOK
    OBVIOUS
  <1>1. PICK n \in 0..MinIdle : /\ WarmUps(n) # {}
                                /\ idle = CHOOSE s \in WarmUps(n) : TRUE
                                /\ totalCreated = n
    BY DEF Init
  <1>2. idle \in WarmUps(n)
    BY <1>1
  <1>3. n \in Nat
    BY PoolConstants
  <1>4. idle \in Seq(Raw)
    BY <1>2, <1>3, SeqDef DEF WarmUps
  <1>5. QED
    BY <1>1, <1>3, <1>4, PoolConstants DEF Init, TypeOK, Timeouts

LEMMA TypeLend ==
  ASSUME TypeOK, NEW c \in Clients, NEW raw \in Raw, NEW made \in Nat,
         Lend(c, raw, made)
  PROVE  /\ active' \in SUBSET Raw
         /\ lease' \in [Clients -> Raw \cup {NoRaw}]
         /\ released' \in [Clients -> BOOLEAN]
         /\ totalCreated' \in Nat
  BY FreshIsNew DEF Lend, TypeOK, Fresh

LEMMA TypeIterate ==
  ASSUME TypeOK, NEW c \in Clients, NEW limit \in Timeouts, NEW late \in BOOLEAN,
         Iterate(c, limit, late)
  PROVE  /\ idle' \in Seq(Raw)
         /\ active' \in SUBSET Raw
         /\ lease' \in [Clients -> Raw \cup {NoRaw}]
         /\ released' \in [Clients -> BOOLEAN]
         /\ totalCreated' \in Nat
         /\ waiters' \in SUBSET Clients
         /\ pc' \in [Clients -> {"ready", "asleep", "awake"}]
         /\ timeout' \in [Clients -> Timeouts]
         /\ expired' \in [Clients -> BOOLEAN]
  <1>1. CASE Leave(c) /\ ReuseIdle(c)
    <2>1. Head(idle) \in Raw /\ Tail(idle) \in Seq(Raw)
      BY <1>1, HeadTailProperties DEF TypeOK, ReuseIdle
    <2>2. QED
      BY <1>1, <2>1, TypeLend DEF TypeOK, Leave, ReuseIdle, Timeouts
  <1>2. CASE Leave(c) /\ CreateNew(c)
    <2>1. NewRaw \in Raw
      BY <1>2, FreshIsNew DEF CreateNew
    <2>2. QED
      BY <1>2, <2>1, TypeLend DEF TypeOK, Leave, CreateNew, Timeouts
  <1>3. CASE Leave(c) /\ (FactoryRaises \/ Refuse(limit, late))
    BY <1>3 DEF TypeOK, Leave, FactoryRaises, Refuse, poolVars, Timeouts
  <1>4. CASE Sleep(c, limit, late)
    BY <1>4 DEF TypeOK, Sleep, poolVars
  <1>5. QED
    BY <1>1, <1>2, <1>3, <1>4 DEF Iterate

LEMMA TypeRelease ==
  ASSUME TypeOK, NEW c \in Clients, PoolRelease(c)
  PROVE  TypeOK'
  <1>1. CASE lease[c] \in active
    <2>1. lease[c] \in Raw
      BY <1>1 DEF TypeOK
    <2>2. idle' \in Seq(Raw)
      BY <1>1, <2>1, SeqFacts DEF TypeOK, PoolRelease
    <2>3. /\ waiters' \in SUBSET Clients
          /\ pc' \in [Clients -> {"ready", "asleep", "awake"}]
      BY <1>1 DEF TypeOK, PoolRelease, Notify
    <2>4. QED
      BY <1>1, <2>2, <2>3 DEF TypeOK, PoolRelease
  <1>2. CASE lease[c] \notin active
    BY <1>2 DEF TypeOK, PoolRelease
  <1>3. QED
    BY <1>1, <1>2

LEMMA TypeNext == TypeOK /\ [Next]_vars => TypeOK'
  <1> SUFFICES ASSUME TypeOK, [Next]_vars PROVE TypeOK'
    OBVIOUS
  <1>1. ASSUME NEW c \in Clients, NEW limit \in Timeouts, Acquire(c, limit)
        PROVE  TypeOK'
    <2>1. Iterate(c, limit, FALSE) /\ FALSE \in BOOLEAN
      BY <1>1 DEF Acquire
    <2>2. calls' \in 0..MaxCalls
      BY <1>1, PoolConstants DEF TypeOK, Acquire
    <2>3. QED
      BY <2>1, <2>2, TypeIterate DEF TypeOK
  <1>2. ASSUME NEW c \in Clients, Resume(c)
        PROVE  TypeOK'
    <2>1. timeout[c] \in Timeouts /\ expired[c] \in BOOLEAN
      BY DEF TypeOK
    <2>2. QED
      BY <1>2, <2>1, TypeIterate DEF TypeOK, Resume
  <1>3. ASSUME NEW c \in Clients, Expire(c)
        PROVE  TypeOK'
    BY <1>3 DEF TypeOK, Expire, poolVars
  <1>4. ASSUME NEW c \in Clients, WrapperRelease(c)
        PROVE  TypeOK'
    <2>1. CASE released[c]
      BY <1>4, <2>1 DEF TypeOK, WrapperRelease, vars
    <2>2. CASE ~released[c]
      BY <1>4, <2>2, TypeRelease DEF WrapperRelease
    <2>3. QED
      BY <2>1, <2>2
  <1>5. CASE Close
    BY <1>5 DEF TypeOK, Close
  <1>6. CASE UNCHANGED vars
    BY <1>6 DEF TypeOK, vars
  <1>7. QED
    BY <1>1, <1>2, <1>3, <1>4, <1>5, <1>6 DEF Next, Step

\* Every variable of the pool keeps its type in every reachable state.
THEOREM TypeCorrect == Spec => []TypeOK
  BY TypeInit, TypeNext, PTL DEF Spec

-----------------------------------------------------------------------------
\* The books of the pool.

LEMMA IterateStep ==
  ASSUME TypeOK, BooksBalance, NEW c \in Clients, ~Held(c),
         NEW limit, NEW late, Iterate(c, limit, late)
  PROVE  /\ Reused(c) \/ Created(c) \/ UNCHANGED poolVars
         /\ \A d \in Clients \ {c} : pc'[d] = pc[d]
         /\ \A d \in Clients \ {c} : d \in waiters' => d \in waiters
         /\ Held(c)' => pc'[c] = "ready" /\ c \notin waiters'
  <1>1. /\ \A d \in Clients \ {c} : pc'[d] = pc[d]
        /\ \A d \in Clients \ {c} : d \in waiters' => d \in waiters
    BY DEF Iterate, Leave, Sleep, TypeOK
  <1>2. CASE Leave(c) /\ ReuseIdle(c)
    <2>1. Head(idle) \in Idle /\ Head(idle) \in Raw
      BY <1>2, SeqFacts DEF TypeOK, ReuseIdle, Idle
    <2>2. Head(idle) \notin active
      BY <2>1 DEF BooksBalance
    <2>3. Reused(c)
      BY <1>2, <2>2 DEF ReuseIdle, Lend, Reused, TypeOK
    <2>4. pc'[c] = "ready" /\ c \notin waiters'
      BY <1>2 DEF Leave, TypeOK
    <2>5. QED
      BY <1>1, <2>3, <2>4
  <1>3. CASE Leave(c) /\ CreateNew(c)
    <2>1. NewRaw \in Fresh /\ NewRaw \notin active
      BY <1>3, FreshIsNew DEF CreateNew
    <2>2. /\ active' = active \cup {NewRaw}
          /\ lease' = [lease EXCEPT ![c] = NewRaw]
          /\ totalCreated' = totalCreated + 1
          /\ released' = [released EXCEPT ![c] = FALSE]
      BY <1>3, <2>1 DEF CreateNew, Lend, TypeOK
    <2>3. Created(c)
      BY <1>3, <2>1, <2>2 DEF CreateNew, Created
    <2>4. pc'[c] = "ready" /\ c \notin waiters'
      BY <1>3 DEF Leave, TypeOK
    <2>5. QED
      BY <1>1, <2>3, <2>4
  <1>4. CASE Leave(c) /\ (FactoryRaises \/ Refuse(limit, late))
    BY <1>1, <1>4 DEF Leave, FactoryRaises, Refuse, TypeOK
  <1>5. CASE Sleep(c, limit, late)
    BY <1>1, <1>5 DEF Sleep, poolVars, Held
  <1>6. QED
    BY <1>2, <1>3, <1>4, <1>5 DEF Iterate

\* Every step changes the pool in one of five ways and keeps clients inside
\* acquire() without a lease.
LEMMA PoolStep ==
  ASSUME TypeOK, PoolInv, [Next]_vars
  PROVE  /\ \/ \E c \in Clients : Reused(c) \/ Created(c) \/ Returned(c)
            \/ Emptied
            \/ UNCHANGED poolVars
         /\ \A c \in Clients : pc'[c] # "ready" \/ c \in waiters' => ~Held(c)'
  <1>1. ASSUME NEW c \in Clients, NEW limit, NEW late, ~Held(c), Iterate(c, limit, late)
        PROVE  /\ Reused(c) \/ Created(c) \/ UNCHANGED poolVars
               /\ \A d \in Clients : pc'[d] # "ready" \/ d \in waiters' => ~Held(d)'
    <2>1. /\ Reused(c) \/ Created(c) \/ UNCHANGED poolVars
          /\ \A d \in Clients \ {c} : pc'[d] = pc[d]
          /\ \A d \in Clients \ {c} : d \in waiters' => d \in waiters
          /\ Held(c)' => pc'[c] = "ready" /\ c \notin waiters'
      BY <1>1, IterateStep DEF PoolInv
    <2>2. \A d \in Clients \ {c} : released'[d] = released[d]
      BY <2>1 DEF Reused, Created, poolVars, TypeOK
    <2>3. QED
      BY <2>1, <2>2 DEF PoolInv, Held
  <1>2. ASSUME NEW c \in Clients, NEW limit \in Timeouts, Acquire(c, limit)
        PROVE  /\ Reused(c) \/ Created(c) \/ UNCHANGED poolVars
               /\ \A d \in Clients : pc'[d] # "ready" \/ d \in waiters' => ~Held(d)'
    BY <1>1, <1>2 DEF Acquire
  <1>3. ASSUME NEW c \in Clients, Resume(c)
        PROVE  /\ Reused(c) \/ Created(c) \/ UNCHANGED poolVars
               /\ \A d \in Clients : pc'[d] # "ready" \/ d \in waiters' => ~Held(d)'
    <2>1. ~Held(c) /\ Iterate(c, timeout[c], expired[c])
      BY <1>3 DEF Resume, PoolInv
    <2>2. QED
      BY <1>1, <2>1
  <1>4. ASSUME NEW c \in Clients, Expire(c)
        PROVE  /\ UNCHANGED poolVars
               /\ \A d \in Clients : pc'[d] # "ready" \/ d \in waiters' => ~Held(d)'
    BY <1>4 DEF Expire, poolVars, PoolInv, Held, TypeOK
  <1>5. ASSUME NEW c \in Clients, WrapperRelease(c)
        PROVE  /\ Returned(c) \/ UNCHANGED poolVars
               /\ \A d \in Clients : pc'[d] # "ready" \/ d \in waiters' => ~Held(d)'
    <2>1. CASE released[c] \/ lease[c] \notin active
      BY <1>5, <2>1 DEF WrapperRelease, PoolRelease, vars, poolVars, PoolInv, Held
    <2>2. CASE ~released[c] /\ lease[c] \in active
      <3>1. Returned(c)
        BY <1>5, <2>2 DEF WrapperRelease, PoolRelease, Returned, Held
      <3>2. \A d \in Clients : pc'[d] # "ready" \/ d \in waiters'
                              => pc[d] # "ready" \/ d \in waiters
        BY <1>5, <2>2 DEF WrapperRelease, PoolRelease, Notify, TypeOK
      <3>3. QED
        BY <3>1, <3>2 DEF PoolInv, Returned, Held, TypeOK
    <2>3. QED
      BY <2>1, <2>2
  <1>6. CASE Close
    BY <1>6 DEF Close, Emptied, PoolInv, Held, TypeOK
  <1>7. CASE UNCHANGED vars
    BY <1>7 DEF vars, poolVars, PoolInv, Held
  <1>8. QED
    BY <1>2, <1>3, <1>4, <1>5, <1>6, <1>7 DEF Next, Step

LEMMA ReusedKeeps ==
  ASSUME TypeOK, PoolInv, NEW c \in Clients, Reused(c)
  PROVE  (IsFiniteSet(active) /\ BooksBalance /\ LeaseExclusive /\ Capacity)'
  <1> DEFINE raw == Head(idle)
  <1>1. /\ Len(idle) \in Nat /\ Len(idle) >= 1 /\ Len(idle') = Len(idle) - 1
        /\ raw = idle[1] /\ raw \in Raw
        /\ \A i \in 1..Len(idle') : idle'[i] = idle[i + 1]
    BY SeqFacts DEF Reused, TypeOK
  <1>2. \A i, j \in 1..Len(idle) : idle[i] = idle[j] => i = j
    BY DEF PoolInv, BooksBalance
  <1>3. \A i \in 1..Len(idle') : i + 1 \in 1..Len(idle) /\ i + 1 # 1
    BY <1>1
  <1>4. Idle' \subseteq Idle /\ raw \in Idle /\ raw \notin Idle'
    BY <1>1, <1>2, <1>3 DEF Idle
  <1>5. /\ IsFiniteSet(active')
        /\ Cardinality(active') = Cardinality(active) + 1
        /\ Cardinality(active) \in Nat
    BY FS_AddElement, FS_CardinalityType DEF Reused, PoolInv
  <1>6. Capacity'
    BY <1>1, <1>5, PoolConstants DEF PoolInv, Capacity, Reused, TypeOK
  <1>7. \A d \in Clients : /\ lease'[d] = IF d = c THEN raw ELSE lease[d]
                           /\ ~released'[d] <=> (d = c \/ ~released[d])
    BY DEF Reused, TypeOK, Held
  <1>8. /\ \A d \in Clients : ~released'[d] => lease'[d] \in active'
        /\ \A r \in active' : \E d \in Clients : ~released'[d] /\ lease'[d] = r
    BY <1>7 DEF PoolInv, BooksBalance, Reused, Held
  <1>9. \A i, j \in 1..Len(idle') : idle'[i] = idle'[j] => i = j
    BY <1>1, <1>2, <1>3
  <1>10. BooksBalance'
    BY <1>4, <1>8, <1>9 DEF PoolInv, BooksBalance, Reused, Held
  <1>11. LeaseExclusive'
    BY <1>7 DEF PoolInv, LeaseExclusive, BooksBalance, Reused, Held
  <1>12. QED
    BY <1>5, <1>6, <1>10, <1>11

LEMMA CreatedKeeps ==
  ASSUME TypeOK, PoolInv, NEW c \in Clients, Created(c)
  PROVE  (IsFiniteSet(active) /\ BooksBalance /\ LeaseExclusive /\ Capacity)'
  <1>1. PICK raw \in Fresh : /\ active' = active \cup {raw}
                             /\ lease' = [lease EXCEPT ![c] = raw]
    BY DEF Created
  <1>2. raw \notin active /\ idle = <<>> /\ idle' = <<>> /\ Len(idle) = 0 /\ Idle' = {}
    BY <1>1, SeqFacts DEF Fresh, Created, Idle, TypeOK
  <1>3. /\ IsFiniteSet(active')
        /\ Cardinality(active') = Cardinality(active) + 1
        /\ Cardinality(active) \in Nat
    BY <1>1, <1>2, FS_AddElement, FS_CardinalityType DEF PoolInv
  <1>4. Cardinality(active) < MaxSize
    BY <1>2, <1>3, PoolConstants DEF Created, CanCreate, PoolInv, Capacity, TypeOK
  <1>5. Capacity'
    BY <1>2, <1>3, <1>4, PoolConstants DEF Created, PoolInv, Capacity, TypeOK
  <1>6. \A d \in Clients : /\ lease'[d] = IF d = c THEN raw ELSE lease[d]
                           /\ ~released'[d] <=> (d = c \/ ~released[d])
    BY <1>1 DEF Created, TypeOK, Held
  <1>7. /\ \A d \in Clients : ~released'[d] => lease'[d] \in active'
        /\ \A r \in active' : \E d \in Clients : ~released'[d] /\ lease'[d] = r
    BY <1>1, <1>6 DEF PoolInv, BooksBalance, Created, Held
  <1>8. BooksBalance'
    BY <1>2, <1>7 DEF BooksBalance, Held
  <1>9. LeaseExclusive'
    BY <1>2, <1>6 DEF PoolInv, LeaseExclusive, BooksBalance, Held
  <1>10. QED
    BY <1>3, <1>5, <1>8, <1>9

LEMMA ReturnedKeeps ==
  ASSUME TypeOK, PoolInv, NEW c \in Clients, Returned(c)
  PROVE  (IsFiniteSet(active) /\ BooksBalance /\ LeaseExclusive /\ Capacity)'
  <1> DEFINE raw == lease[c]
  <1>1. /\ Len(idle) \in Nat /\ Len(idle') = Len(idle) + 1 /\ raw \in Raw
        /\ \A i \in 1..Len(idle) : idle'[i] = idle[i]
        /\ idle'[Len(idle) + 1] = raw
    BY SeqFacts DEF Returned, TypeOK
  <1>2. Idle' = Idle \cup {raw} /\ raw \notin Idle
    <2>1. \A i \in 1..Len(idle') : i \in 1..Len(idle) \/ i = Len(idle) + 1
      BY <1>1
    <2>2. Len(idle) + 1 \in 1..Len(idle') /\ \A i \in 1..Len(idle) : i \in 1..Len(idle')
      BY <1>1
    <2>3. QED
      BY <1>1, <2>1, <2>2 DEF Idle, PoolInv, BooksBalance, Returned
  <1>3. /\ IsFiniteSet(active')
        /\ Cardinality(active') = Cardinality(active) - 1
        /\ Cardinality(active) \in Nat
    BY FS_RemoveElement, FS_CardinalityType DEF Returned, PoolInv
  <1>4. Capacity'
    BY <1>1, <1>3, PoolConstants DEF PoolInv, Capacity, Returned, TypeOK
  <1>5. \A d \in Clients : /\ lease'[d] = lease[d]
                           /\ ~released'[d] <=> (d # c /\ ~released[d])
    BY DEF Returned, TypeOK, Held
  <1>6. \A d \in Clients : Held(d) /\ lease[d] = raw => d = c
    BY DEF PoolInv, LeaseExclusive, Returned
  <1>7. /\ \A d \in Clients : ~released'[d] => lease'[d] \in active'
        /\ \A r \in active' : \E d \in Clients : ~released'[d] /\ lease'[d] = r
    BY <1>5, <1>6 DEF PoolInv, BooksBalance, Returned, Held
  <1>8. \A i, j \in 1..Len(idle') : idle'[i] = idle'[j] => i = j
    <2>1. \A i \in 1..Len(idle) : idle[i] # raw
      BY <1>2 DEF Idle
    <2>2. QED
      BY <1>1, <2>1 DEF PoolInv, BooksBalance
  <1>9. BooksBalance'
    BY <1>2, <1>7, <1>8 DEF PoolInv, BooksBalance, Returned, Held
  <1>10. LeaseExclusive'
    BY <1>5 DEF PoolInv, LeaseExclusive, Held
  <1>11. QED
    BY <1>3, <1>4, <1>9, <1>10

LEMMA EmptiedKeeps ==
  ASSUME TypeOK, PoolInv, Emptied
  PROVE  (IsFiniteSet(active) /\ BooksBalance /\ LeaseExclusive /\ Capacity)'
  <1>1. Len(idle) \in Nat /\ Len(idle') = 0 /\ Idle' = {}
    BY SeqFacts DEF Emptied, Idle, TypeOK
  <1>2. Cardinality(active) \in Nat
    BY FS_CardinalityType DEF PoolInv
  <1>3. Capacity'
    BY <1>1, <1>2, PoolConstants DEF PoolInv, Capacity, Emptied, TypeOK
  <1>4. BooksBalance' /\ LeaseExclusive'
    BY <1>1 DEF PoolInv, BooksBalance, LeaseExclusive, Emptied, Held
  <1>5. QED
    BY <1>3, <1>4 DEF PoolInv, Emptied

LEMMA PoolInit == Init => PoolInv
  <1> SUFFICES ASSUME Init PROVE PoolInv
    OBVIOUS
  <1>1. PICK n \in 0..MinIdle : /\ WarmUps(n) # {}
                                /\ idle = CHOOSE s \in WarmUps(n) : TRUE
                                /\ totalCreated = n
    BY DEF Init
  <1>2. n \in Nat /\ n <= MaxSize /\ idle \in WarmUps(n)
    BY <1>1, PoolConstants
  <1>3. Len(idle) = n
    <2>1. idle \in Seq(Raw) /\ DOMAIN idle = 1..n
      BY <1>2, TypeInit DEF TypeOK, WarmUps
    <2>2. QED
      BY <1>2, <2>1, LenProperties
  <1>4. IsFiniteSet(active) /\ Cardinality(active) = 0
    BY FS_EmptySet DEF Init
  <1>5. Capacity
    BY <1>1, <1>2, <1>3, <1>4, PoolConstants DEF Capacity
  <1>6. BooksBalance
    BY <1>2, <1>3 DEF BooksBalance, WarmUps, Init, Held
  <1>7. QED
    BY <1>4, <1>5, <1>6 DEF PoolInv, Init, LeaseExclusive, Held

LEMMA PoolNext == TypeOK /\ PoolInv /\ [Next]_vars => PoolInv'
  <1> SUFFICES ASSUME TypeOK, PoolInv, [Next]_vars PROVE PoolInv'
    OBVIOUS
  <1>1. CASE UNCHANGED poolVars
    <2>1. \A c \in Clients : pc'[c] # "ready" \/ c \in waiters' => ~Held(c)'
      BY PoolStep
    <2>2. (IsFiniteSet(active) /\ BooksBalance /\ LeaseExclusive /\ Capacity)'
      BY <1>1 DEF PoolInv, poolVars, BooksBalance, LeaseExclusive, Capacity, Idle, Held
    <2>3. QED
      BY <2>1, <2>2 DEF PoolInv
  <1>2. CASE ~ UNCHANGED poolVars
    <2>1. \A c \in Clients : pc'[c] # "ready" \/ c \in waiters' => ~Held(c)'
      BY PoolStep
    <2>2. (IsFiniteSet(active) /\ BooksBalance /\ LeaseExclusive /\ Capacity)'
      BY <1>2, PoolStep, ReusedKeeps, CreatedKeeps, ReturnedKeeps, EmptiedKeeps
    <2>3. QED
      BY <2>1, <2>2 DEF PoolInv
  <1>3. QED
    BY <1>1, <1>2

THEOREM PoolInOrder == Spec => [](TypeOK /\ PoolInv)
  BY TypeInit, TypeNext, PoolInit, PoolNext, PTL DEF Spec

\* No live instance is ever leased to two clients at once.
THEOREM NeverLeasedTwice == Spec => []LeaseExclusive
  <1>1. PoolInv => LeaseExclusive
    BY DEF PoolInv
  <1>2. QED
    BY <1>1, PoolInOrder, PTL

\* The books agree with the wrappers that are out.
THEOREM BooksAlwaysBalance == Spec => []BooksBalance
  <1>1. PoolInv => BooksBalance
    BY DEF PoolInv
  <1>2. QED
    BY <1>1, PoolInOrder, PTL

\* There are never more than max_size live resources.
THEOREM NeverOverCapacity == Spec => []Capacity
  <1>1. PoolInv => Capacity
    BY DEF PoolInv
  <1>2. QED
    BY <1>1, PoolInOrder, PTL

-----------------------------------------------------------------------------
\* The waiting threads.

Woken == {c \in Clients : pc[c] = "awake" /\ c \notin waiters}

LEMMA WaitIterate ==
  ASSUME TypeOK, PoolInv, NoLostWakeup, NEW c \in Clients, ~Held(c),
         NEW limit, NEW late, Iterate(c, limit, late)
  PROVE  NoLostWakeup'
  <1>1. /\ Len(idle) \in Nat /\ Cardinality(active) \in Nat
        /\ idle = <<>> => Len(idle) = 0
        /\ idle # <<>> => Len(idle) >= 1 /\ Len(Tail(idle)) = Len(idle) - 1
    BY SeqFacts, EmptySeq, FS_CardinalityType DEF TypeOK, PoolInv
  <1>2. /\ \A d \in Clients \ {c} : pc'[d] = pc[d] /\ (d \in waiters' <=> d \in waiters)
        /\ pc'[c] \in {"ready", "asleep"}
        /\ pc'[c] = "asleep" => c \in waiters'
    BY DEF Iterate, Leave, Sleep, TypeOK
  <1>3. \A d \in Clients : pc'[d] = "asleep" => d \in waiters'
    BY <1>2 DEF NoLostWakeup
  <1>4. /\ IsFiniteSet(Woken) /\ Cardinality(Woken) \in Nat
        /\ Woken' = Woken \ {c} /\ Cardinality(Woken') \in Nat
        /\ Cardinality(Woken') >= Cardinality(Woken) - 1
    <2>1. IsFiniteSet(Woken)
      BY PoolConstants, FS_Subset DEF Woken
    <2>2. Woken' = Woken \ {c}
      BY <1>2 DEF Woken
    <2>3. QED
      <3>1. IsFiniteSet(Woken')
        BY <2>1, <2>2, FS_RemoveElement
      <3>2. Cardinality(Woken \ {c}) >= Cardinality(Woken) - 1
        <4>1. Cardinality(Woken) \in Nat
          BY <2>1, FS_CardinalityType
        <4>2. Cardinality(Woken \ {c}) =
                 IF c \in Woken THEN Cardinality(Woken) - 1 ELSE Cardinality(Woken)
          BY <2>1, FS_RemoveElement
        <4>3. QED
          BY <4>1, <4>2
      <3>3. QED
        BY <2>1, <2>2, <3>1, <3>2, FS_CardinalityType
  <1>5. waiters # {} => Cardinality(active) + Len(idle) >= MaxSize /\ Len(idle) <= Cardinality(Woken)
    BY DEF NoLostWakeup, Woken
  <1>6. waiters # {} => ~CanCreate
    BY <1>1, <1>5, PoolConstants DEF CanCreate, PoolInv, Capacity, TypeOK
  <1>7. ASSUME waiters' # {}
        PROVE  /\ Cardinality(active') + Len(idle') >= MaxSize
               /\ Len(idle') <= Cardinality(Woken')
    <2>1. CASE Leave(c) /\ ReuseIdle(c)
      <3>1. Reused(c)
        <4>1. Head(idle) \in Idle
          BY <2>1, SeqFacts DEF ReuseIdle, Idle, TypeOK
        <4>2. Head(idle) \notin active
          BY <4>1 DEF PoolInv, BooksBalance
        <4>3. QED
          BY <2>1, <4>2 DEF ReuseIdle, Lend, Reused, TypeOK
      <3>2. Cardinality(active') = Cardinality(active) + 1 /\ Len(idle') = Len(idle) - 1
        BY <1>1, <3>1, FS_AddElement DEF Reused, PoolInv
      <3>3. waiters # {}
        BY <1>7, <2>1 DEF Leave
      <3>4. QED
        BY <1>1, <1>4, <1>5, <3>2, <3>3, PoolConstants
    <2>2. CASE Leave(c) /\ (CreateNew(c) \/ FactoryRaises)
      BY <1>6, <1>7, <2>2 DEF Leave, CreateNew, FactoryRaises
    <2>3. CASE Leave(c) /\ Refuse(limit, late)
      BY <1>1, <1>4, <1>5, <1>7, <2>3 DEF Leave, Refuse, poolVars
    <2>4. CASE Sleep(c, limit, late)
      BY <1>1, <1>4, <2>4, PoolConstants DEF Sleep, CanCreate, poolVars
    <2>5. QED
      BY <2>1, <2>2, <2>3, <2>4 DEF Iterate
  <1>8. QED
    BY <1>3, <1>7 DEF NoLostWakeup, Woken

LEMMA WaitRelease ==
  ASSUME TypeOK, PoolInv, NoLostWakeup, NEW c \in Clients,
         PoolRelease(c), lease[c] \in active
  PROVE  NoLostWakeup'
  <1>1. /\ Len(idle) \in Nat /\ Len(idle') = Len(idle) + 1
        /\ Cardinality(active) \in Nat /\ Cardinality(active') = Cardinality(active) - 1
    <2>1. Len(idle) \in Nat /\ Len(idle') = Len(idle) + 1
      BY SeqFacts DEF TypeOK, PoolRelease
    <2>2. IsFiniteSet(active) /\ active' = active \ {lease[c]}
      BY DEF PoolInv, PoolRelease
    <2>3. QED
      BY <2>1, <2>2, FS_RemoveElement, FS_CardinalityType
  <1>2. CASE waiters = {}
    BY <1>2 DEF PoolRelease, Notify, NoLostWakeup
  <1>3. CASE waiters # {}
    <2>1. PICK w \in waiters : waiters' = waiters \ {w} /\ pc' = [pc EXCEPT ![w] = "awake"]
      BY <1>3 DEF PoolRelease, Notify
    <2>2. w \in Clients /\ w \notin Woken /\ Woken' = Woken \cup {w}
      BY <2>1 DEF Woken, TypeOK
    <2>3. Cardinality(Woken) \in Nat /\ Cardinality(Woken') = Cardinality(Woken) + 1
      <3>1. IsFiniteSet(Woken)
        BY PoolConstants, FS_Subset DEF Woken
      <3>2. QED
        BY <2>2, <3>1, FS_AddElement, FS_CardinalityType
    <2>4. \A d \in Clients : pc'[d] = "asleep" => d \in waiters'
      BY <2>1 DEF NoLostWakeup, TypeOK
    <2>5. Cardinality(active) + Len(idle) >= MaxSize /\ Len(idle) <= Cardinality(Woken)
      BY <1>3 DEF NoLostWakeup, Woken
    <2>6. /\ Cardinality(active') + Len(idle') >= MaxSize
          /\ Len(idle') <= Cardinality(Woken')
      BY <1>1, <2>3, <2>5, PoolConstants
    <2>7. QED
      BY <2>4, <2>6 DEF NoLostWakeup, Woken
  <1>4. QED
    BY <1>2, <1>3

LEMMA WaitNext == TypeOK /\ PoolInv /\ NoLostWakeup /\ [Next]_vars => NoLostWakeup'
  <1> SUFFICES ASSUME TypeOK, PoolInv, NoLostWakeup, [Next]_vars PROVE NoLostWakeup'
    OBVIOUS
  <1>1. ASSUME NEW c \in Clients, NEW limit \in Timeouts, Acquire(c, limit)
        PROVE  NoLostWakeup'
    BY <1>1, WaitIterate DEF Acquire
  <1>2. ASSUME NEW c \in Clients, Resume(c)
        PROVE  NoLostWakeup'
    BY <1>2, WaitIterate DEF Resume, PoolInv
  <1>3. ASSUME NEW c \in Clients, Expire(c)
        PROVE  NoLostWakeup'
    <2>1. Woken' = Woken
      BY <1>3 DEF Expire, Woken, NoLostWakeup, TypeOK
    <2>2. QED
      BY <1>3, <2>1 DEF Expire, NoLostWakeup, Woken, poolVars, TypeOK
  <1>4. ASSUME NEW c \in Clients, WrapperRelease(c)
        PROVE  NoLostWakeup'
    <2>1. CASE released[c] \/ lease[c] \notin active
      BY <1>4, <2>1 DEF WrapperRelease, PoolRelease, vars, NoLostWakeup
    <2>2. CASE ~released[c] /\ lease[c] \in active
      BY <1>4, <2>2, WaitRelease DEF WrapperRelease
    <2>3. QED
      BY <2>1, <2>2
  <1>5. CASE Close
    BY <1>5 DEF Close, NoLostWakeup, TypeOK
  <1>6. CASE UNCHANGED vars
    BY <1>6 DEF NoLostWakeup, vars
  <1>7. QED
    BY <1>1, <1>2, <1>3, <1>4, <1>5, <1>6 DEF Next, Step

\* A resource never lies idle beside a sleeping thread that nobody will wake.
THEOREM NoWakeupIsLost == Spec => []NoLostWakeup
  <1>1. Init => NoLostWakeup
    BY DEF Init, NoLostWakeup
  <1>2. QED
    BY <1>1, WaitNext, PoolInOrder, PTL DEF Spec

-----------------------------------------------------------------------------
\* Refinement of LeasePool.

bar == [c \in Clients |-> IF Held(c) THEN lease[c] ELSE NoRaw]

LEMMA SameCardinality == ASSUME NEW S PROVE Leases!Cardinality(S) = Cardinality(S)
  BY DEF Leases!Cardinality, Cardinality

LEMMA LeasedIsActive == TypeOK /\ PoolInv => Leases!Leased = active
  BY PoolConstants DEF Leases!Leased, PoolInv, BooksBalance, TypeOK, Held

LEMMA RefinesStep == TypeOK /\ PoolInv /\ [Next]_vars => Leases!Next \/ UNCHANGED bar
  <1> SUFFICES ASSUME TypeOK, PoolInv, [Next]_vars PROVE Leases!Next \/ UNCHANGED bar
    OBVIOUS
  <1>1. Leases!Leased = active /\ Cardinality(active) \in Nat /\ Len(idle) \in Nat
    BY LeasedIsActive, FS_CardinalityType, SeqFacts DEF PoolInv, TypeOK
  <1>2. ASSUME NEW c \in Clients, NEW raw \in Raw \ active, ~Held(c),
               Cardinality(active) < MaxSize,
               lease' = [lease EXCEPT ![c] = raw],
               released' = [released EXCEPT ![c] = FALSE]
        PROVE  Leases!Grant(c)
    <2>1. bar[c] = NoRaw /\ bar' = [bar EXCEPT ![c] = raw]
      BY <1>2 DEF bar, Held, TypeOK
    <2>2. Leases!Cardinality(Leases!Leased) < MaxSize
      BY <1>1, <1>2, SameCardinality
    <2>3. QED
      BY <1>1, <1>2, <2>1, <2>2 DEF Leases!Grant, bar
  <1>3. ASSUME NEW c \in Clients, Reused(c)
        PROVE  Leases!Grant(c)
    <2>1. Head(idle) \in Raw \ active /\ Len(idle) >= 1
      BY <1>3, SeqFacts DEF Reused, TypeOK
    <2>2. Cardinality(active) < MaxSize
      BY <1>1, <2>1, PoolConstants DEF PoolInv, Capacity
    <2>3. QED
      BY <1>2, <1>3, <2>1, <2>2 DEF Reused
  <1>4. ASSUME NEW c \in Clients, Created(c)
        PROVE  Leases!Grant(c)
    <2>1. PICK raw \in Fresh : lease' = [lease EXCEPT ![c] = raw]
      BY <1>4 DEF Created
    <2>2. Len(idle) = 0
      BY <1>4, EmptySeq DEF Created
    <2>3. Cardinality(active) < MaxSize
      BY <1>1, <1>4, <2>2, PoolConstants DEF Created, CanCreate, PoolInv, Capacity, TypeOK
    <2>4. raw \in Raw \ active
      BY DEF Fresh
    <2>5. QED
      BY <1>2, <1>4, <2>1, <2>3, <2>4 DEF Created
  <1>5. ASSUME NEW c \in Clients, Returned(c)
        PROVE  Leases!Return(c)
    <2>1. bar[c] # NoRaw /\ bar' = [bar EXCEPT ![c] = NoRaw]
      BY <1>5, PoolConstants DEF Returned, bar, Held, TypeOK
    <2>2. QED
      BY <2>1 DEF Leases!Return, bar
  <1>6. CASE Emptied \/ UNCHANGED poolVars
    BY <1>6 DEF Emptied, poolVars, bar, Held
  <1>7. QED
    BY <1>3, <1>4, <1>5, <1>6, PoolStep DEF Leases!Next

\* ResourcePool implements the abstract lease service.
THEOREM PoolImplementsLeases == Spec => ImplementsLeases
  <1>1. Init => Leases!Init
    BY DEF Init, Leases!Init, Held
  <1>2. TypeOK /\ PoolInv /\ [Next]_vars => [Leases!Next]_bar
    BY RefinesStep
  <1>3. QED
    BY <1>1, <1>2, PoolInOrder, PTL DEF Spec, ImplementsLeases, Leases!Spec, bar
=============================================================================

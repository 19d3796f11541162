---------------------- MODULE DependencyContainerProofs ----------------------
(***************************************************************************)
(* For any number of threads, names and scopes: everybody is given the     *)
(* same singleton, and a cached one is of the current registration unless  *)
(* the registration was changed under a construction.  The argument: what  *)
(* was given out since the registration is what is cached (Cache), and a   *)
(* construction that was not raced is one of the current registration      *)
(* (Constructions).  Circular dependencies and no others are refused: the  *)
(* names on a stack are different ones and lead by parameters from each to *)
(* the next (Linked), so that they are not more than there are names, and  *)
(* one of them looked up again closes a cycle (CycleClosed).               *)
(***************************************************************************)
EXTENDS DependencyContainer, FiniteSetTheorems, SequenceTheorems, TLAPS

Fakes == [of : Names, generation : {0}, no : Nat]
AnyRegistration == [generation : Nat, lifetime : Lifetimes]
AnyFrame == [name : Names \cup {"caller"}, reg : AnyRegistration, todo : SUBSET Names]

Shape == /\ activeScope \in Scopes \cup {NoScope}
         /\ scope \in [Threads -> Scopes \cup {NoScope}]
         /\ needs \in [Names -> SUBSET Names]
         /\ registrations \in [Names -> AnyRegistration]
         /\ overrides \in [Names -> Seq(Fakes)]
         /\ stack \in [Threads -> Seq(AnyFrame)]
         /\ DOMAIN singletons = Names
         /\ DOMAIN given = Scopes \cup {"container"}
         /\ \A p \in Scopes \cup {"container"} : DOMAIN given[p] = Names

\* All that was given out is what the cache holds.
Cache == \A n \in Names : \A i \in given["container"][n] : i = singletons[n] /\ i # Nothing

\* The caller's frame waits for its name; a name that was not raced is
\* constructed from its current registration.
GoodStack(s) ==
    /\ s # <<>> => s[1].todo # {}
    /\ \A i \in 1..Len(s) : s[i].name \in Names \ raced => s[i].reg = registrations[s[i].name]

Constructions == \A t \in Threads : GoodStack(stack[t])

Inv == Shape /\ Cache /\ Constructions /\ FreshUnlessRaced

-----------------------------------------------------------------------------
LEMMA Constants ==
  /\ Needs \subseteq [Names -> SUBSET Names] /\ "caller" \notin Names
  /\ "container" \notin Scopes /\ NoScope # "container" /\ NoScope \notin Scopes
BY ContainerConstants DEF NoScope

LEMMA FrontIndices ==
  ASSUME NEW n \in Nat, n # 0
  PROVE  /\ n - 1 - 1 + 1 = n - 1
         /\ (IF 1 <= n - 1 THEN n - 1 - 1 + 1 ELSE 0) = n - 1
         /\ \A i \in 1..(n - 1) : 1 + i - 1 = i
<1>1. n - 1 - 1 + 1 = n - 1
  OBVIOUS
<1>2. (IF 1 <= n - 1 THEN n - 1 - 1 + 1 ELSE 0) = n - 1
  OBVIOUS
<1>3. QED  BY <1>1, <1>2

LEMMA Ends ==
  ASSUME NEW S, NEW s \in Seq(S), s # <<>>
  PROVE  /\ Len(s) \in Nat /\ Len(s) >= 1 /\ 1 \in 1..Len(s) /\ Len(s) \in 1..Len(s)
         /\ \A i \in 1..Len(s) : s[i] \in S
         /\ Last(s) \in S /\ Last(s) = s[Len(s)]
         /\ Front(s) \in Seq(S) /\ Len(Front(s)) = Len(s) - 1
         /\ \A i \in 1..(Len(s) - 1) : Front(s)[i] = s[i]
<1>1. Len(s) \in Nat /\ Len(s) # 0 /\ \A i \in 1..Len(s) : s[i] \in S
  BY LenProperties, EmptySeq, ElementOfSeq
<1>2. Last(s) = s[Len(s)] /\ Last(s) \in S
  BY <1>1 DEF Last
<1>3. /\ Front(s) \in Seq(S) /\ Len(Front(s)) = Len(s) - 1
      /\ \A i \in 1..(Len(s) - 1) : Front(s)[i] = s[i]
  <2>1. 1 \in Int /\ Len(s) - 1 \in Int /\ \A i \in 1..(Len(s) - 1) : s[i] \in S
    BY <1>1
  <2>2. /\ SubSeq(s, 1, Len(s) - 1) \in Seq(S)
        /\ Len(SubSeq(s, 1, Len(s) - 1)) = IF 1 <= Len(s) - 1 THEN Len(s) - 1 - 1 + 1 ELSE 0
        /\ \A i \in 1..(Len(s) - 1 - 1 + 1) : SubSeq(s, 1, Len(s) - 1)[i] = s[1 + i - 1]
    BY <2>1, SubSeqProperties
  <2>3. /\ Len(s) - 1 - 1 + 1 = Len(s) - 1
        /\ (IF 1 <= Len(s) - 1 THEN Len(s) - 1 - 1 + 1 ELSE 0) = Len(s) - 1
        /\ \A i \in 1..(Len(s) - 1) : 1 + i - 1 = i
    BY <1>1, FrontIndices
  <2>4. Front(s) = SubSeq(s, 1, Len(s) - 1)
    BY DEF Front
  <2>5. Len(Front(s)) = Len(s) - 1 /\ Front(s) \in Seq(S)
    BY <2>2, <2>3, <2>4
  <2>6. \A i \in 1..(Len(s) - 1) : Front(s)[i] = s[i]
    BY <2>2, <2>3, <2>4
  <2>7. QED  BY <2>5, <2>6
<1>4. QED  BY <1>1, <1>2, <1>3

LEMMA FakeStacks ==
  ASSUME NEW s \in Seq(Fakes), s # <<>>
  PROVE  Last(s).generation = 0 /\ Front(s) \in Seq(Fakes)
<1>1. Last(s) \in Fakes /\ Front(s) \in Seq(Fakes)
  BY Ends
<1>2. QED  BY <1>1 DEF Fakes

LEMMA FrontGood ==
  ASSUME NEW s \in Seq(AnyFrame), s # <<>>, GoodStack(s), Last(s).todo = {}
  PROVE  Front(s) \in Seq(AnyFrame) /\ Front(s) # <<>> /\ GoodStack(Front(s))
<1>1. /\ Len(s) \in Nat /\ Len(s) >= 1 /\ Last(s) = s[Len(s)]
      /\ Front(s) \in Seq(AnyFrame) /\ Len(Front(s)) = Len(s) - 1
      /\ \A i \in 1..(Len(s) - 1) : Front(s)[i] = s[i]
  BY Ends
<1>2. Len(s) # 1
  BY <1>1 DEF GoodStack
<1>3. Front(s) # <<>> /\ 1 \in 1..(Len(s) - 1) /\ \A i \in 1..(Len(s) - 1) : i \in 1..Len(s)
  BY <1>1, <1>2, EmptySeq
<1>4. QED  BY <1>1, <1>3 DEF GoodStack

LEMMA AnsweredGood ==
  ASSUME NEW s \in Seq(AnyFrame), s # <<>>, GoodStack(s)
  PROVE  Answered(s) \in Seq(AnyFrame) /\ GoodStack(Answered(s))
<1>1. CASE Len(s) = 1
  BY <1>1, EmptySeq DEF Answered, GoodStack
<1>2. CASE Len(s) # 1
  <2> DEFINE last == s[Len(s)]
             new == [last EXCEPT !.todo = last.todo \ {CHOOSE n \in last.todo : TRUE}]
  <2>1. /\ Len(s) \in 1..Len(s) /\ 1 \in 1..Len(s) /\ last \in AnyFrame
    BY Ends
  <2>2. new \in AnyFrame /\ new.name = last.name /\ new.reg = last.reg
    BY <2>1 DEF AnyFrame
  <2>3. Answered(s) = [s EXCEPT ![Len(s)] = new]
    BY <1>2, <2>1 DEF Answered
  <2> HIDE DEF new
  <2>4. /\ Answered(s) \in Seq(AnyFrame) /\ Len(Answered(s)) = Len(s)
        /\ \A j \in 1..Len(s) : Answered(s)[j] = IF j = Len(s) THEN new ELSE s[j]
    BY <2>1, <2>2, <2>3, ExceptSeq
  <2>5. QED  BY <1>2, <2>1, <2>2, <2>4 DEF GoodStack
<1>3. QED  BY <1>1, <1>2

LEMMA AppendGood ==
  ASSUME NEW s \in Seq(AnyFrame), s # <<>>, GoodStack(s), NEW n \in Names, Shape
  PROVE  LET longer == Append(s, Frame(n, registrations[n], needs[n]))
         IN  longer \in Seq(AnyFrame) /\ GoodStack(longer)
<1> DEFINE new == Frame(n, registrations[n], needs[n])
<1>1. new \in AnyFrame /\ new.name = n /\ new.reg = registrations[n]
  BY DEF Frame, AnyFrame, Shape
<1> HIDE DEF new
<1>2. /\ Append(s, new) \in Seq(AnyFrame) /\ Len(Append(s, new)) = Len(s) + 1 /\ Len(s) \in Nat
      /\ Append(s, new)[Len(s) + 1] = new
      /\ \A i \in 1..Len(s) : Append(s, new)[i] = s[i]
      /\ 1 \in 1..Len(s)
  BY <1>1, Ends, AppendProperties
<1>3. GoodStack(Append(s, new))
  BY <1>1, <1>2 DEF GoodStack
<1>4. QED  BY <1>2, <1>3 DEF new

LEMMA InitInv == Init => Inv
<1> SUFFICES ASSUME Init  PROVE Inv
  OBVIOUS
<1>1. Shape
  <2>1. registrations \in [Names -> AnyRegistration] /\ needs \in [Names -> SUBSET Names]
    BY Constants DEF Init, AnyRegistration
  <2>2. overrides \in [Names -> Seq(Fakes)] /\ stack \in [Threads -> Seq(AnyFrame)]
    BY EmptySeq DEF Init
  <2>3. QED  BY <2>1, <2>2 DEF Init, Shape
<1>2. Cache /\ FreshUnlessRaced
  BY DEF Init, Cache, FreshUnlessRaced
<1>3. Constructions
  <2>1. Len(<<>>) = 0 /\ 1..0 = {}
    BY EmptySeq
  <2>2. QED  BY <2>1 DEF Init, Constructions, GoodStack
<1>4. QED  BY <1>1, <1>2, <1>3 DEF Inv

LEMMA Stuttering == ASSUME Inv, UNCHANGED vars  PROVE Inv'
<1>1. /\ UNCHANGED <<needs, registrations, singletons, overrides, activeScope, scope, stack, given, raced>>
  BY DEF vars, containerVars, scopeVars, threadVars, history
<1>2. QED  BY <1>1 DEF Inv, Shape, Cache, Constructions, GoodStack, FreshUnlessRaced

-----------------------------------------------------------------------------
\* A name under construction while it is registered is raced from then on.
LEMMA RenewKeeps ==
  ASSUME Inv, NEW n \in Names, Renew(n), NEW lifetime \in Lifetimes,
         registrations' = [registrations EXCEPT ![n] =
                              [generation |-> @.generation + 1, lifetime |-> lifetime]],
         UNCHANGED <<needs, overrides, activeScope, scope, stack>>,
         DOMAIN singletons' = Names,
         \A m \in Names \ {n} : singletons'[m] = singletons[m],
         singletons'[n] # Nothing => singletons'[n].generation = registrations[n].generation + 1
  PROVE  Inv'
<1>1. /\ given' = [p \in DOMAIN given |-> [given[p] EXCEPT ![n] = {}]]
      /\ raced' = IF \E t \in Threads : n \in OnStack(t) THEN raced \cup {n} ELSE raced
  BY DEF Renew
<1>2. /\ registrations' \in [Names -> AnyRegistration]
      /\ \A m \in Names \ {n} : registrations'[m] = registrations[m]
      /\ registrations'[n].generation = registrations[n].generation + 1
  <2>1. registrations[n].generation \in Nat /\ registrations \in [Names -> AnyRegistration]
    BY DEF Inv, Shape, AnyRegistration
  <2>2. [generation |-> registrations[n].generation + 1, lifetime |-> lifetime] \in AnyRegistration
    BY <2>1 DEF AnyRegistration
  <2>3. QED  BY <2>1, <2>2
<1>3. Shape'
  BY <1>1, <1>2 DEF Inv, Shape
<1>4. Cache'
  <2>1. \A m \in Names \ {n} : given'["container"][m] = given["container"][m]
    BY <1>1 DEF Inv, Shape
  <2>2. given'["container"][n] = {}
    BY <1>1 DEF Inv, Shape
  <2>3. QED  BY <2>1, <2>2 DEF Inv, Cache
<1>5. Constructions'
  <2> SUFFICES ASSUME NEW t \in Threads  PROVE GoodStack(stack[t])'
    BY DEF Constructions
  <2>1. stack'[t] = stack[t] /\ GoodStack(stack[t])
    BY DEF Inv, Constructions
  <2>2. ASSUME NEW i \in 1..Len(stack[t]), stack[t][i].name \in Names \ raced'
        PROVE  stack[t][i].reg = registrations'[stack[t][i].name]
    <3>1. stack[t][i].name # n
      BY <1>1, <2>2 DEF OnStack
    <3>2. stack[t][i].name \in Names \ raced
      BY <1>1, <2>2
    <3>3. QED  BY <1>2, <2>1, <3>1, <3>2 DEF GoodStack
  <2>3. QED  BY <2>1, <2>2 DEF GoodStack
<1>6. FreshUnlessRaced'
  <2>1. \A m \in Names : m \notin raced' => m \notin raced
    BY <1>1
  <2>2. QED  BY <1>2, <2>1 DEF Inv, FreshUnlessRaced
<1>7. QED  BY <1>3, <1>4, <1>5, <1>6 DEF Inv

LEMMA RegisterKeeps ==
  ASSUME Inv, NEW n \in Names, NEW lifetime \in Lifetimes, Register(n, lifetime)
  PROVE  Inv'
<1>1. /\ Renew(n) /\ singletons' = [singletons EXCEPT ![n] = Nothing]
      /\ registrations' = [registrations EXCEPT ![n] =
                              [generation |-> @.generation + 1, lifetime |-> lifetime]]
      /\ UNCHANGED <<needs, overrides, activeScope, scope, stack>>
  BY DEF Register, threadVars
<1>2. /\ DOMAIN singletons' = Names /\ \A m \in Names \ {n} : singletons'[m] = singletons[m]
      /\ singletons'[n] = Nothing
  BY <1>1 DEF Inv, Shape
<1>3. QED  BY <1>1, <1>2, RenewKeeps

LEMMA RegisterInstanceKeeps ==
  ASSUME Inv, NEW n \in Names, RegisterInstance(n)
  PROVE  Inv'
<1>1. /\ Renew(n)
      /\ singletons' = [singletons EXCEPT ![n] = Instance(n, registrations'[n].generation, built'[n])]
      /\ registrations' = [registrations EXCEPT ![n] =
                              [generation |-> @.generation + 1, lifetime |-> "singleton"]]
      /\ UNCHANGED <<needs, overrides, activeScope, scope, stack>>
  BY DEF RegisterInstance, threadVars, scopeVars
<1>2. registrations'[n].generation = registrations[n].generation + 1
  BY <1>1 DEF Inv, Shape
<1>3. /\ DOMAIN singletons' = Names /\ \A m \in Names \ {n} : singletons'[m] = singletons[m]
      /\ singletons'[n].generation = registrations[n].generation + 1
  BY <1>1, <1>2 DEF Inv, Shape, Instance
<1>4. "singleton" \in Lifetimes
  BY DEF Lifetimes
<1>5. QED  BY <1>1, <1>3, <1>4, RenewKeeps

LEMMA OverridesKeep ==
  ASSUME Inv, NEW n \in Names, Override(n) \/ Restore(n)
  PROVE  Inv'
<1>1. UNCHANGED <<needs, registrations, singletons, activeScope, scope, stack, given, raced>>
  BY DEF Override, Restore, scopeVars, threadVars, history
<1>2. overrides' \in [Names -> Seq(Fakes)]
  <2>0. overrides \in [Names -> Seq(Fakes)]
    BY DEF Inv, Shape
  <2>1. CASE Override(n)
    <3>1. Len(overrides[n]) + 1 \in Nat
      BY <2>0, LenProperties
    <3>2. Fake(n, Len(overrides[n]) + 1) \in Fakes
      BY <3>1 DEF Fake, Instance, Fakes
    <3>3. Append(overrides[n], Fake(n, Len(overrides[n]) + 1)) \in Seq(Fakes)
      BY <2>0, <3>2, AppendProperties
    <3>4. QED  BY <2>0, <2>1, <3>3 DEF Override
  <2>2. CASE Restore(n)
    <3>1. overrides[n] # <<>> /\ overrides' = [overrides EXCEPT ![n] = Front(@)]
      BY <2>2 DEF Restore
    <3>2. QED  BY <2>0, <3>1, FakeStacks
  <2>3. QED  BY <2>1, <2>2
<1>3. QED
  BY <1>1, <1>2 DEF Inv, Shape, Cache, Constructions, GoodStack, FreshUnlessRaced

LEMMA ScopesKeep ==
  ASSUME Inv, NEW s \in Scopes, EnterScope(s) \/ ExitScope(s)
  PROVE  Inv'
<1>1. /\ UNCHANGED <<needs, registrations, singletons, overrides, scope, stack, raced>>
      /\ activeScope' \in Scopes \cup {NoScope}
      /\ given' = given \/ given' = [given EXCEPT ![s] = [n \in Names |-> {}]]
  BY DEF EnterScope, ExitScope, containerVars, threadVars, history
<1>2. /\ DOMAIN given' = Scopes \cup {"container"} /\ given'["container"] = given["container"]
      /\ \A p \in Scopes \cup {"container"} : DOMAIN given'[p] = Names
  BY <1>1, Constants DEF Inv, Shape
<1>3. Shape'
  BY <1>1, <1>2 DEF Inv, Shape
<1>4. (Cache /\ Constructions /\ FreshUnlessRaced)'
  BY <1>1, <1>2 DEF Inv, Cache, Constructions, GoodStack, FreshUnlessRaced
<1>5. QED  BY <1>3, <1>4 DEF Inv

-----------------------------------------------------------------------------
\* What is given out is either for the scope of the caller or a cached singleton.
LEMMA GiveKeeps ==
  ASSUME Inv, NEW n, NEW place \in Scopes \cup {NoScope, "container"}, NEW i, Give(n, place, i),
         i.generation # 0 => place # NoScope,
         UNCHANGED <<needs, registrations, overrides, activeScope>>,
         DOMAIN singletons' = Names, scope' \in [Threads -> Scopes \cup {NoScope}],
         stack' \in [Threads -> Seq(AnyFrame)], \A t \in Threads : GoodStack(stack'[t]),
         \A m \in Names : singletons[m] # Nothing => singletons'[m] = singletons[m],
         i.generation # 0 /\ n \in Names /\ place = "container" => i = singletons'[n] /\ i # Nothing,
         FreshUnlessRaced'
  PROVE  Inv'
<1>1. /\ given' = IF i.generation = 0 THEN given ELSE [given EXCEPT ![place][n] = @ \cup {i}]
      /\ raced' = raced
  BY DEF Give
<1>2. /\ DOMAIN given' = Scopes \cup {"container"}
      /\ \A p \in Scopes \cup {"container"} : DOMAIN given'[p] = Names
  BY <1>1 DEF Inv, Shape
<1>3. Shape'
  BY <1>2 DEF Inv, Shape
<1>4. Cache'
  <2> SUFFICES ASSUME NEW m \in Names, NEW j \in given'["container"][m]
               PROVE  j = singletons'[m] /\ j # Nothing
    BY DEF Cache
  <2>1. CASE j \in given["container"][m]
    BY <2>1 DEF Inv, Cache
  <2>2. CASE j \notin given["container"][m]
    <3>1. i.generation # 0 /\ place = "container" /\ m = n /\ j = i
      BY <1>1, <2>2 DEF Inv, Shape
    <3>2. QED  BY <3>1
  <2>3. QED  BY <2>1, <2>2
<1>5. Constructions'
  BY <1>1 DEF Constructions, GoodStack
<1>6. QED  BY <1>3, <1>4, <1>5 DEF Inv

\* A look-up finds a fake, or what is cached for the lifetime of the name.
LEMMA FoundIs ==
  ASSUME Inv, NEW n \in Names, NEW s \in Scopes \cup {NoScope}, Found(n, s) # Nothing
  PROVE  /\ Place(registrations[n].lifetime, s) \in Scopes \cup {NoScope, "container"}
         /\ Found(n, s).generation # 0 =>
               /\ Place(registrations[n].lifetime, s) # NoScope
               /\ Place(registrations[n].lifetime, s) = "container" => Found(n, s) = singletons[n]
<1>1. Place(registrations[n].lifetime, s) \in Scopes \cup {NoScope, "container"}
  BY DEF Place
<1>2. CASE overrides[n] # <<>>
  <2>1. overrides[n] \in Seq(Fakes)
    BY DEF Inv, Shape
  <2>2. Found(n, s).generation = 0
    BY <1>2, <2>1, FakeStacks DEF Found
  <2>3. QED  BY <1>1, <2>2
<1>3. CASE overrides[n] = <<>>
  <2>1. Found(n, s) = Cached(n, s)
    BY <1>3 DEF Found
  <2>2. CASE registrations[n].lifetime = "singleton"
    BY <1>1, <2>1, <2>2, Constants DEF Cached, Place
  <2>3. CASE registrations[n].lifetime # "singleton"
    <3>1. s # NoScope
      BY <2>1, <2>3 DEF Cached
    <3>2. QED  BY <1>1, <2>3, <3>1, Constants DEF Place
  <2>4. QED  BY <2>2, <2>3
<1>4. QED  BY <1>2, <1>3

\* Steps of a thread that give nothing out.
LEMMA ThreadKeeps ==
  ASSUME Inv, UNCHANGED <<needs, registrations, singletons, overrides, activeScope, given, raced>>,
         scope' \in [Threads -> Scopes \cup {NoScope}],
         stack' \in [Threads -> Seq(AnyFrame)], \A t \in Threads : GoodStack(stack'[t])
  PROVE  Inv'
BY DEF Inv, Shape, Cache, Constructions, GoodStack, FreshUnlessRaced

\* The stacks after a step of thread t
LEMMA Stacked ==
  ASSUME Inv, NEW t \in Threads, NEW s \in Seq(AnyFrame), GoodStack(s),
         stack' = [stack EXCEPT ![t] = s]
  PROVE  stack' \in [Threads -> Seq(AnyFrame)] /\ \A u \in Threads : GoodStack(stack'[u])
BY DEF Inv, Shape, Constructions

LEMMA Left ==
  ASSUME Inv, NEW t \in Threads, Leave(t)
  PROVE  /\ stack' \in [Threads -> Seq(AnyFrame)] /\ \A u \in Threads : GoodStack(stack'[u])
         /\ scope' \in [Threads -> Scopes \cup {NoScope}]
<1>1. <<>> \in Seq(AnyFrame) /\ GoodStack(<<>>)
  BY EmptySeq DEF GoodStack
<1>2. QED  BY <1>1, Stacked DEF Leave, Inv, Shape

LEMMA Answers ==
  ASSUME Inv, NEW t \in Threads, NEW s \in Seq(AnyFrame), s # <<>>, GoodStack(s), Answer(t, s)
  PROVE  /\ stack' \in [Threads -> Seq(AnyFrame)] /\ \A u \in Threads : GoodStack(stack'[u])
         /\ scope' \in [Threads -> Scopes \cup {NoScope}]
<1>1. Answered(s) \in Seq(AnyFrame) /\ GoodStack(Answered(s))
  BY AnsweredGood
<1>2. CASE Len(s) = 1
  BY <1>2, Left DEF Answer
<1>3. CASE Len(s) # 1
  BY <1>1, <1>3, Stacked DEF Answer, Inv, Shape
<1>4. QED  BY <1>2, <1>3

LEMMA ResolveKeeps == ASSUME Inv, NEW t \in Threads, Resolve(t)  PROVE Inv'
<1>1. ASSUME NEW n \in Names, ResolveFast(t, n)  PROVE Inv'
  <2>1. /\ Found(n, activeScope) # Nothing
        /\ Give(n, Place(registrations[n].lifetime, activeScope), Found(n, activeScope))
        /\ UNCHANGED <<needs, registrations, singletons, overrides, activeScope, scope, stack>>
    BY <1>1 DEF ResolveFast, Call, containerVars, scopeVars, threadVars
  <2>2. activeScope \in Scopes \cup {NoScope}
    BY DEF Inv, Shape
  <2>3. /\ DOMAIN singletons' = Names /\ scope' \in [Threads -> Scopes \cup {NoScope}]
        /\ stack' \in [Threads -> Seq(AnyFrame)] /\ \A u \in Threads : GoodStack(stack'[u])
        /\ \A m \in Names : singletons[m] # Nothing => singletons'[m] = singletons[m]
    BY <2>1 DEF Inv, Shape, Constructions
  <2>4. FreshUnlessRaced'
    BY <2>1 DEF Give, Inv, FreshUnlessRaced
  <2>5. QED  BY <2>1, <2>2, <2>3, <2>4, FoundIs, GiveKeeps
<1>2. ASSUME NEW n \in Names, NEW s \in Scopes \cup {NoScope}, Enter(t, n, s), Call(t)  PROVE Inv'
  <2>1. /\ UNCHANGED <<needs, registrations, singletons, overrides, activeScope, given, raced>>
        /\ stack' = [stack EXCEPT ![t] = <<Caller(n)>>] /\ scope' = [scope EXCEPT ![t] = s]
    BY <1>2 DEF Enter, Call, containerVars, scopeVars, history
  <2>2. Caller(n) \in AnyFrame /\ Caller(n).todo = {n} /\ Caller(n).name = "caller"
    BY DEF Caller, Frame, AnyFrame, Inv, Shape
  <2>3. /\ <<Caller(n)>> \in Seq(AnyFrame) /\ Len(<<Caller(n)>>) = 1
        /\ <<Caller(n)>>[1] = Caller(n)
    BY <2>2
  <2>4. GoodStack(<<Caller(n)>>)
    BY <2>2, <2>3, Constants DEF GoodStack
  <2>5. stack' \in [Threads -> Seq(AnyFrame)] /\ \A u \in Threads : GoodStack(stack'[u])
    BY <2>1, <2>3, <2>4, Stacked
  <2>6. QED  BY <2>1, <2>5, ThreadKeeps DEF Inv, Shape
<1>3. PICK n \in Names : \/ ResolveFast(t, n) \/ ResolveSlow(t, n)
                         \/ \E s \in Scopes : ScopeResolve(t, s, n)
  BY DEF Resolve
<1>4. activeScope \in Scopes \cup {NoScope}
  BY DEF Inv, Shape
<1>5. QED  BY <1>1, <1>2, <1>3, <1>4 DEF ResolveSlow, ScopeResolve

\* The name a thread looks up
LEMMA Targets ==
  ASSUME Inv, NEW t \in Threads, Looking(t)
  PROVE  /\ stack[t] \in Seq(AnyFrame) /\ stack[t] # <<>> /\ GoodStack(stack[t])
         /\ Target(t) \in Names /\ scope[t] \in Scopes \cup {NoScope}
<1>1. /\ stack[t] \in Seq(AnyFrame) /\ stack[t] # <<>> /\ GoodStack(stack[t])
      /\ scope[t] \in Scopes \cup {NoScope}
  BY DEF Looking, Inv, Shape, Constructions
<1>2. Last(stack[t]) \in AnyFrame
  BY <1>1, Ends
<1>3. Last(stack[t]).todo \subseteq Names /\ Last(stack[t]).todo # {}
  BY <1>2 DEF AnyFrame, Looking
<1>4. Target(t) \in Names
  BY <1>3 DEF Target
<1>5. QED  BY <1>1, <1>4

LEMMA LookupKeeps ==
  ASSUME Inv, NEW t \in Threads, LookupFinds(t) \/ LookupCircular(t) \/ LookupMisses(t)
  PROVE  Inv'
<1>1. /\ stack[t] \in Seq(AnyFrame) /\ stack[t] # <<>> /\ GoodStack(stack[t])
      /\ Target(t) \in Names /\ scope[t] \in Scopes \cup {NoScope}
  BY Targets DEF LookupFinds, LookupCircular, LookupMisses
<1>2. CASE LookupFinds(t)
  <2> DEFINE n == Target(t)  s == scope[t]
  <2>1. /\ Found(n, s) # Nothing /\ Give(n, Place(registrations[n].lifetime, s), Found(n, s))
        /\ Answer(t, stack[t])
        /\ UNCHANGED <<needs, registrations, singletons, overrides, activeScope>>
    BY <1>2 DEF LookupFinds, containerVars, scopeVars
  <2>2. /\ stack' \in [Threads -> Seq(AnyFrame)] /\ \A u \in Threads : GoodStack(stack'[u])
        /\ scope' \in [Threads -> Scopes \cup {NoScope}]
    BY <1>1, <2>1, Answers
  <2>3. /\ DOMAIN singletons' = Names
        /\ \A m \in Names : singletons[m] # Nothing => singletons'[m] = singletons[m]
    BY <2>1 DEF Inv, Shape
  <2>4. FreshUnlessRaced'
    BY <2>1 DEF Give, Inv, FreshUnlessRaced
  <2> HIDE DEF n, s
  <2>5. n \in Names /\ s \in Scopes \cup {NoScope}
    BY <1>1 DEF n, s
  <2>6. QED  BY <2>1, <2>2, <2>3, <2>4, <2>5, FoundIs, GiveKeeps
<1>3. CASE LookupCircular(t)
  <2>1. /\ Leave(t)
        /\ UNCHANGED <<needs, registrations, singletons, overrides, activeScope, given, raced>>
    BY <1>3 DEF LookupCircular, containerVars, scopeVars
  <2>2. QED  BY <2>1, Left, ThreadKeeps
<1>4. CASE LookupMisses(t)
  <2> DEFINE longer == Append(stack[t], Frame(Target(t), registrations[Target(t)], needs[Target(t)]))
  <2>1. /\ stack' = [stack EXCEPT ![t] = longer] /\ scope' = scope
        /\ UNCHANGED <<needs, registrations, singletons, overrides, activeScope, given, raced>>
    BY <1>4 DEF LookupMisses, containerVars, scopeVars, history
  <2>2. longer \in Seq(AnyFrame) /\ GoodStack(longer)
    BY <1>1, AppendGood DEF Inv
  <2> HIDE DEF longer
  <2>3. stack' \in [Threads -> Seq(AnyFrame)] /\ \A u \in Threads : GoodStack(stack'[u])
    BY <2>1, <2>2, Stacked
  <2>4. QED  BY <2>1, <2>3, ThreadKeeps DEF Inv, Shape
<1>5. QED  BY <1>2, <1>3, <1>4

\* The instance of the thread that was first is kept and given to the second.
LEMMA ConstructKeeps == ASSUME Inv, NEW t \in Threads, Construct(t)  PROVE Inv'
<1> DEFINE frame == Last(stack[t])
           new == Instance(frame.name, frame.reg.generation, built'[frame.name])
<1>1. /\ stack[t] \in Seq(AnyFrame) /\ stack[t] # <<>> /\ GoodStack(stack[t]) /\ frame.todo = {}
      /\ scope[t] \in Scopes \cup {NoScope}
      /\ Answer(t, Front(stack[t]))
      /\ UNCHANGED <<needs, registrations, overrides, activeScope>>
  BY DEF Construct, Constructing, Inv, Shape, Constructions
<1>2. /\ stack' \in [Threads -> Seq(AnyFrame)] /\ \A u \in Threads : GoodStack(stack'[u])
      /\ scope' \in [Threads -> Scopes \cup {NoScope}]
  <2>1. Front(stack[t]) \in Seq(AnyFrame) /\ Front(stack[t]) # <<>> /\ GoodStack(Front(stack[t]))
    BY <1>1, FrontGood
  <2>2. QED  BY <1>1, <2>1, Answers
<1>3. frame.name \in Names \ raced => frame.reg = registrations[frame.name]
  BY <1>1, Ends DEF GoodStack
<1>4. \/ frame.reg.lifetime = "singleton" /\ CacheSingleton(frame.name, new)
      \/ scope[t] # NoScope /\ CacheInScope(frame.name, scope[t], new) /\ singletons' = singletons
      \/ singletons' = singletons /\ given' = given /\ raced' = raced
  BY DEF Construct, history
<1>5. new.generation = frame.reg.generation
  BY DEF Instance
<1> HIDE DEF frame, new
<1>6. CASE frame.reg.lifetime = "singleton" /\ CacheSingleton(frame.name, new)
  <2> DEFINE n == frame.name
  <2>1. /\ singletons' = IF singletons[n] = Nothing
                         THEN [singletons EXCEPT ![n] = new] ELSE singletons
        /\ Give(n, "container", singletons'[n]) /\ raced' = raced
    BY <1>6 DEF CacheSingleton, Give
  <2>2. /\ DOMAIN singletons' = Names
        /\ \A m \in Names : singletons[m] # Nothing => singletons'[m] = singletons[m]
    BY <2>1 DEF Inv, Shape
  <2>3. singletons'[n].generation # 0 /\ n \in Names => singletons'[n] # Nothing
    BY DEF Nothing, Instance
  <2>4. FreshUnlessRaced'
    <3> SUFFICES ASSUME NEW m \in Names, m \notin raced, registrations[m].lifetime = "singleton",
                        singletons'[m] # Nothing
                 PROVE  singletons'[m].generation = registrations[m].generation
      BY <1>1, <2>1 DEF FreshUnlessRaced
    <3>1. CASE singletons'[m] = singletons[m]
      BY <3>1 DEF Inv, FreshUnlessRaced
    <3>2. CASE singletons'[m] # singletons[m]
      <4>1. m = n /\ singletons'[m] = new
        BY <2>1, <3>2 DEF Inv, Shape
      <4>2. QED  BY <1>3, <1>5, <4>1
    <3>3. QED  BY <3>1, <3>2
  <2> HIDE DEF n
  <2>5. QED  BY <1>1, <1>2, <2>1, <2>2, <2>3, <2>4, GiveKeeps, Constants
<1>7. CASE scope[t] # NoScope /\ CacheInScope(frame.name, scope[t], new) /\ singletons' = singletons
  <2>1. Give(frame.name, scope[t], new) /\ raced' = raced
    BY <1>7 DEF CacheInScope, Give
  <2>2. FreshUnlessRaced'
    BY <1>1, <1>7, <2>1 DEF Inv, FreshUnlessRaced
  <2>3. DOMAIN singletons' = Names /\ scope[t] # "container"
    BY <1>1, <1>7, Constants DEF Inv, Shape
  <2>4. QED  BY <1>1, <1>2, <1>7, <2>1, <2>2, <2>3, GiveKeeps
<1>8. CASE singletons' = singletons /\ given' = given /\ raced' = raced
  BY <1>1, <1>2, <1>8, ThreadKeeps
<1>9. QED  BY <1>4, <1>6, <1>7, <1>8

LEMMA ConstructFailsKeeps == ASSUME Inv, NEW t \in Threads, ConstructFails(t)  PROVE Inv'
<1>1. /\ Leave(t)
      /\ UNCHANGED <<needs, registrations, singletons, overrides, activeScope, given, raced>>
  BY DEF ConstructFails, containerVars, scopeVars, history
<1>2. QED  BY <1>1, Left, ThreadKeeps

-----------------------------------------------------------------------------
LEMMA Inductive == ASSUME Inv, [Next]_vars  PROVE Inv'
<1>1. ASSUME NEW t \in Threads, Resolve(t) \/ Within(t)  PROVE Inv'
  BY <1>1, ResolveKeeps, LookupKeeps, ConstructKeeps, ConstructFailsKeeps DEF Within
<1>2. ASSUME NEW n \in Names, NEW l \in Lifetimes, Register(n, l)  PROVE Inv'
  BY <1>2, RegisterKeeps
<1>3. ASSUME NEW n \in Names, RegisterInstance(n) \/ Override(n) \/ Restore(n)  PROVE Inv'
  BY <1>3, RegisterInstanceKeeps, OverridesKeep
<1>4. ASSUME NEW s \in Scopes, EnterScope(s) \/ ExitScope(s)  PROVE Inv'
  BY <1>4, ScopesKeep
<1>5. QED  BY <1>1, <1>2, <1>3, <1>4, Stuttering DEF Next

LEMMA Invariant == Spec => []Inv
<1>1. Inv /\ [Next]_vars => Inv'
  BY Inductive
<1>2. QED  BY InitInv, <1>1, PTL DEF Spec

\* Between two registrations of a name everybody is given the same singleton,
\* however many threads have constructed one at the same time.
THEOREM SingletonsAgree == Spec => []SingletonAgreement
<1>1. ASSUME Inv  PROVE SingletonAgreement
  <2> SUFFICES ASSUME NEW n \in Names  PROVE Cardinality(given["container"][n]) <= 1
    BY DEF SingletonAgreement
  <2>1. given["container"][n] = {} \/ given["container"][n] = {singletons[n]}
    BY <1>1 DEF Inv, Cache
  <2>2. CASE given["container"][n] = {}
    BY <2>2, FS_EmptySet
  <2>3. CASE given["container"][n] = {singletons[n]}
    <3>1. Cardinality({singletons[n]}) = 1
      BY FS_Singleton
    <3>2. QED  BY <2>3, <3>1
  <2>4. QED  BY <2>1, <2>2, <2>3
<1>2. QED  BY Invariant, <1>1, PTL

\* A cached singleton is one of the current registration of its name, unless
\* that was replaced while a thread was constructing it.
THEOREM SingletonsAreFresh == Spec => []FreshUnlessRaced
<1>1. Inv => FreshUnlessRaced
  BY DEF Inv
<1>2. QED  BY Invariant, <1>1, PTL

-----------------------------------------------------------------------------
\* The names a thread constructs, from the one its caller asked for, lead by
\* parameters from one to the next, and no name is among them twice.
Linked(graph, s) ==
    /\ \A i \in 1..Len(s) : s[i].name = "caller" <=> i = 1
    /\ s # <<>> => \E n \in Names : s[1].todo = {n} /\ (Len(s) > 1 => s[2].name = n)
    /\ \A i \in 2..Len(s) : s[i].todo \subseteq graph[s[i].name]
    /\ \A i \in 2..Len(s) - 1 : s[i+1].name \in graph[s[i].name]
    /\ \A i, j \in 1..Len(s) : s[i].name = s[j].name => i = j

CycleInv == /\ \A t \in Threads : Linked(needs, stack[t])
            /\ \A n \in circular : LeadsToCycle(needs, n)

\* The places of a stack of two frames or more
LEMMA DeepPlaces ==
  ASSUME NEW n \in Nat, n >= 1, n # 1
  PROVE  /\ n > 1 /\ 1 \in 1..n /\ 2 \in 1..n
         /\ \A i \in 2..n : i \in 1..n
         /\ \A i \in 2..n - 1 : i \in 1..n /\ i + 1 \in 1..n
OBVIOUS

LEMMA EmptyLinked == \A graph : Linked(graph, <<>>)
BY EmptySeq DEF Linked

LEMMA FrontLinked ==
  ASSUME NEW graph, NEW s \in Seq(AnyFrame), s # <<>>, Linked(graph, s)
  PROVE  Linked(graph, Front(s))
<1>1. /\ Len(s) \in Nat /\ Len(s) >= 1 /\ Front(s) \in Seq(AnyFrame) /\ Len(Front(s)) = Len(s) - 1
      /\ \A i \in 1..(Len(s) - 1) : Front(s)[i] = s[i]
  BY Ends
<1>2. CASE Len(s) = 1
  BY <1>1, <1>2, EmptySeq, EmptyLinked
<1>3. CASE Len(s) # 1
  <2>1. 1 \in 1..(Len(s) - 1) /\ Len(s) > 1
    BY <1>1, <1>3
  <2>2. Len(s) - 1 > 1 => 2 \in 1..(Len(s) - 1)
    BY <1>1
  <2>3. \A i \in 2..(Len(s) - 1) : i \in 1..(Len(s) - 1) /\ i \in 2..Len(s)
    BY <1>1
  <2>4. \A i \in 2..(Len(s) - 1) - 1 : i \in 1..(Len(s) - 1) /\ i + 1 \in 1..(Len(s) - 1)
                                       /\ i \in 2..Len(s) - 1
    BY <1>1
  <2>5. \A i \in 1..(Len(s) - 1) : i \in 1..Len(s)
    BY <1>1
  <2>6. QED  BY <1>1, <2>1, <2>2, <2>3, <2>4, <2>5 DEF Linked
<1>4. QED  BY <1>2, <1>3

LEMMA AnsweredLinked ==
  ASSUME NEW graph, NEW s \in Seq(AnyFrame), s # <<>>, Linked(graph, s)
  PROVE  Linked(graph, Answered(s))
<1>1. CASE Len(s) = 1
  BY <1>1, EmptyLinked DEF Answered
<1>2. CASE Len(s) # 1
  <2> DEFINE last == s[Len(s)]
             new == [last EXCEPT !.todo = last.todo \ {CHOOSE n \in last.todo : TRUE}]
  <2>1. Len(s) \in Nat /\ Len(s) >= 1 /\ Len(s) \in 1..Len(s) /\ last \in AnyFrame
    BY Ends
  <2>2. new \in AnyFrame /\ new.name = last.name /\ new.todo \subseteq last.todo
    BY <2>1 DEF AnyFrame
  <2>3. Answered(s) = [s EXCEPT ![Len(s)] = new]
    BY <1>2, <2>1 DEF Answered
  <2> HIDE DEF new
  <2>4. /\ Answered(s) \in Seq(AnyFrame) /\ Len(Answered(s)) = Len(s)
        /\ \A j \in 1..Len(s) : Answered(s)[j] = IF j = Len(s) THEN new ELSE s[j]
    BY <2>1, <2>2, <2>3, ExceptSeq
  <2>5. \A j \in 1..Len(s) : /\ Answered(s)[j].name = s[j].name
                             /\ Answered(s)[j].todo \subseteq s[j].todo
                             /\ j # Len(s) => Answered(s)[j] = s[j]
    BY <2>2, <2>4
  <2>6. /\ Len(s) > 1 /\ 1 \in 1..Len(s) /\ 2 \in 1..Len(s)
        /\ \A i \in 2..Len(s) : i \in 1..Len(s)
        /\ \A i \in 2..Len(s) - 1 : i \in 1..Len(s) /\ i + 1 \in 1..Len(s)
    BY <1>2, <2>1, DeepPlaces
  <2>7. Answered(s) # <<>> /\ s # <<>>
    BY <2>1, <2>4, EmptySeq
  <2> DEFINE a == Answered(s)
  <2> HIDE DEF a
  <2>8. /\ Len(a) = Len(s) /\ a # <<>>
        /\ \A j \in 1..Len(s) : /\ a[j].name = s[j].name /\ a[j].todo \subseteq s[j].todo
                                /\ j # Len(s) => a[j] = s[j]
    BY <2>4, <2>5, <2>7 DEF a
  <2>9. /\ \A i \in 1..Len(a) : a[i].name = "caller" <=> i = 1
        /\ \A i, j \in 1..Len(a) : a[i].name = a[j].name => i = j
    BY <2>8 DEF Linked
  <2>10. \E n \in Names : a[1].todo = {n} /\ (Len(a) > 1 => a[2].name = n)
    <3>1. a[1] = s[1] /\ a[2].name = s[2].name
      BY <2>6, <2>8
    <3>2. QED  BY <2>6, <2>7, <2>8, <3>1 DEF Linked
  <2>11. \A i \in 2..Len(a) : a[i].todo \subseteq graph[a[i].name]
    BY <2>6, <2>8 DEF Linked
  <2>12. \A i \in 2..Len(a) - 1 : a[i+1].name \in graph[a[i].name]
    BY <2>6, <2>8 DEF Linked
  <2>13. Linked(graph, a)
    BY <2>9, <2>10, <2>11, <2>12 DEF Linked
  <2>14. QED  BY <2>13 DEF a
<1>3. QED  BY <1>1, <1>2

\* The name looked up is a parameter of the one under construction, or the one
\* the caller asked for.
LEMMA NextLinked ==
  ASSUME NEW graph, NEW s \in Seq(AnyFrame), s # <<>>, Linked(graph, s), NEW n \in Last(s).todo
  PROVE  /\ n \in Names
         /\ Len(s) = 1 => s[1].todo = {n}
         /\ Len(s) > 1 => n \in graph[s[Len(s)].name]
<1>1. /\ Len(s) \in Nat /\ Len(s) >= 1 /\ Last(s) = s[Len(s)] /\ Last(s) \in AnyFrame
  BY Ends
<1>2. n \in Names
  BY <1>1 DEF AnyFrame
<1>3. Len(s) > 1 => n \in graph[s[Len(s)].name]
  BY <1>1 DEF Linked
<1>4. Len(s) = 1 => s[1].todo = {n}
  BY <1>1 DEF Linked
<1>5. QED  BY <1>2, <1>3, <1>4

LEMMA AppendLinked ==
  ASSUME NEW graph, NEW s \in Seq(AnyFrame), s # <<>>, Linked(graph, s), NEW n \in Last(s).todo,
         \A i \in 1..Len(s) : s[i].name # n, NEW new \in AnyFrame, new.name = n, new.todo = graph[n]
  PROVE  Linked(graph, Append(s, new))
<1> DEFINE l == Append(s, new)
<1>1. /\ l \in Seq(AnyFrame) /\ Len(l) = Len(s) + 1 /\ Len(s) \in Nat /\ Len(s) >= 1
      /\ l[Len(s) + 1] = new /\ \A i \in 1..Len(s) : l[i] = s[i]
      /\ 1 \in 1..Len(s)
  BY Ends, AppendProperties
<1>2. /\ n \in Names /\ n # "caller"
      /\ Len(s) = 1 => s[1].todo = {n}
      /\ Len(s) > 1 => n \in graph[s[Len(s)].name]
  BY NextLinked, Constants
<1> HIDE DEF l
<1>3. ASSUME NEW i \in 1..Len(l)  PROVE l[i].name = "caller" <=> i = 1
  <2>1. CASE i = Len(s) + 1
    BY <1>1, <1>2, <2>1
  <2>2. CASE i # Len(s) + 1
    <3>1. i \in 1..Len(s)
      BY <1>1, <2>2
    <3>2. QED  BY <1>1, <3>1 DEF Linked
  <2>3. QED  BY <2>1, <2>2
<1>4. \E m \in Names : l[1].todo = {m} /\ (Len(l) > 1 => l[2].name = m)
  <2>1. CASE Len(s) = 1
    BY <1>1, <1>2, <2>1
  <2>2. CASE Len(s) # 1
    <3>1. Len(s) > 1 /\ 2 \in 1..Len(s)
      BY <1>1, <2>2, DeepPlaces
    <3>2. QED  BY <1>1, <3>1 DEF Linked
  <2>3. QED  BY <2>1, <2>2
<1>5. ASSUME NEW i \in 2..Len(l)  PROVE l[i].todo \subseteq graph[l[i].name]
  <2>1. CASE i = Len(s) + 1
    BY <1>1, <2>1
  <2>2. CASE i # Len(s) + 1
    <3>1. i \in 1..Len(s) /\ i \in 2..Len(s)
      BY <1>1, <2>2
    <3>2. QED  BY <1>1, <3>1 DEF Linked
  <2>3. QED  BY <2>1, <2>2
<1>6. ASSUME NEW i \in 2..Len(l) - 1  PROVE l[i+1].name \in graph[l[i].name]
  <2>1. CASE i = Len(s)
    <3>1. Len(s) > 1 /\ l[i] = s[Len(s)] /\ l[i+1] = new
      BY <1>1, <2>1
    <3>2. QED  BY <1>2, <3>1
  <2>2. CASE i # Len(s)
    <3>1. i \in 1..Len(s) /\ i + 1 \in 1..Len(s) /\ i \in 2..Len(s) - 1
      BY <1>1, <2>2
    <3>2. QED  BY <1>1, <3>1 DEF Linked
  <2>3. QED  BY <2>1, <2>2
<1>7. ASSUME NEW i \in 1..Len(l), NEW j \in 1..Len(l), l[i].name = l[j].name  PROVE i = j
  <2>1. \A k \in 1..Len(l) : k \in 1..Len(s) \/ k = Len(s) + 1
    BY <1>1
  <2>2. \A k \in 1..Len(s) : l[k].name # n /\ l[k] = s[k]
    BY <1>1
  <2>3. l[Len(s) + 1].name = n
    BY <1>1
  <2>4. QED  BY <1>7, <2>1, <2>2, <2>3 DEF Linked
<1>8. Linked(graph, l)
  BY <1>3, <1>4, <1>5, <1>6, <1>7 DEF Linked
<1>9. QED  BY <1>8 DEF l

\* A name looked up while it is constructed closes a cycle.
LEMMA CycleClosed ==
  ASSUME NEW graph \in [Names -> SUBSET Names], NEW s \in Seq(AnyFrame), s # <<>>, Linked(graph, s),
         NEW n \in Last(s).todo, NEW c \in 1..Len(s), s[c].name = n
  PROVE  \A m \in Head(s).todo : LeadsToCycle(graph, m)
<1>1. /\ Len(s) \in Nat /\ Len(s) >= 1 /\ 1 \in 1..Len(s) /\ Head(s) = s[1]
      /\ \A i \in 1..Len(s) : s[i] \in AnyFrame
  BY Ends, HeadTailProperties
<1>2. /\ n \in Names /\ n # "caller"
      /\ Len(s) > 1 => n \in graph[s[Len(s)].name]
  BY NextLinked, Constants
<1>3. c # 1 /\ Len(s) > 1
  <2>1. s[1].name = "caller"
    BY <1>1 DEF Linked
  <2>2. QED  BY <1>1, <1>2, <2>1
<1> DEFINE k == Len(s) - 1
           path == [i \in 1..k |-> s[i+1].name]
<1>4. ASSUME NEW i \in 1..k  PROVE s[i+1].name \in Names /\ i + 1 \in 1..Len(s)
  <2>1. i + 1 \in 1..Len(s) /\ i + 1 # 1
    BY <1>1
  <2>2. QED  BY <1>1, <2>1 DEF Linked, AnyFrame
<1>5. path \in [1..k -> Names]
  BY <1>4
<1>6. IsInjective(path)
  <2>1. ASSUME NEW i \in 1..k, NEW j \in 1..k, path[i] = path[j]  PROVE i = j
    <3>1. i + 1 = j + 1
      BY <1>4, <2>1 DEF Linked
    <3>2. QED  BY <3>1
  <2>2. QED  BY <2>1 DEF IsInjective
<1>7. k \in 1..Cardinality(Names)
  <2>1. path \in Injection(1..k, Names)
    BY <1>5, <1>6 DEF IsInjective, Injection
  <2>2. IsFiniteSet(Names) /\ Cardinality(Names) \in Nat
    BY ContainerConstants, FS_CardinalityType
  <2> HIDE DEF path
  <2>3. Cardinality(1..k) <= Cardinality(Names)
    BY <2>1, <2>2, FS_Injection
  <2>4. Cardinality(1..k) = k
    <3>1. k \in Nat /\ k >= 1
      BY <1>1, <1>3
    <3> HIDE DEF k
    <3>2. Cardinality(1..k) = IF 1 > k THEN 0 ELSE k - 1 + 1
      BY <3>1, FS_Interval
    <3>3. QED  BY <3>1, <3>2
  <2>5. QED  BY <1>1, <1>3, <2>2, <2>3, <2>4
<1>8. ASSUME NEW m \in s[1].todo  PROVE path[1] = m
  <2>1. s[2].name = m
    BY <1>1, <1>3, <1>8 DEF Linked
  <2>2. 1 \in 1..k
    BY <1>1, <1>3
  <2>3. QED  BY <2>1, <2>2
<1>9. ASSUME NEW i \in 1..k-1  PROVE path[i+1] \in graph[path[i]]
  <2>1. i \in 1..k /\ i + 1 \in 1..k /\ i + 1 \in 2..Len(s) - 1
    BY <1>1
  <2>2. QED  BY <2>1 DEF Linked
<1>10. \E i \in 1..k : path[i] \in graph[path[k]]
  <2>1. c - 1 \in 1..k /\ c - 1 + 1 = c /\ k \in 1..k /\ k + 1 = Len(s)
    BY <1>1, <1>3
  <2>2. path[c - 1] = n /\ path[k] = s[Len(s)].name
    BY <2>1
  <2>3. path[c - 1] \in graph[path[k]]
    BY <1>2, <1>3, <2>2
  <2>4. QED  BY <2>1, <2>3
<1> HIDE DEF path, k
<1>11. QED  BY <1>1, <1>5, <1>6, <1>7, <1>8, <1>9, <1>10 DEF LeadsToCycle

\* The stacks after a step of thread t that is not an answer to it
LEMMA CycleKept ==
  ASSUME CycleInv, Shape, NEW t \in Threads, NEW s, stack' = [stack EXCEPT ![t] = s], Linked(needs, s),
         UNCHANGED <<needs, circular>>
  PROVE  CycleInv'
<1>1. \A u \in Threads : stack'[u] = IF u = t THEN s ELSE stack[u]
  BY DEF Shape
<1>2. QED  BY <1>1 DEF CycleInv

LEMMA StacksTyped ==
  ASSUME Shape, NEW t \in Threads
  PROVE  stack[t] \in Seq(AnyFrame) /\ needs \in [Names -> SUBSET Names]
BY DEF Shape

LEMMA AnswerLinked ==
  ASSUME CycleInv, Shape, NEW t \in Threads, NEW s \in Seq(AnyFrame), s # <<>>, Linked(needs, s),
         Answer(t, s), UNCHANGED <<needs, circular>>
  PROVE  CycleInv'
<1>1. CASE Len(s) = 1
  BY <1>1, EmptyLinked, CycleKept DEF Answer, Leave
<1>2. CASE Len(s) # 1
  BY <1>2, AnsweredLinked, CycleKept DEF Answer
<1>3. QED  BY <1>1, <1>2

LEMMA CycleInduction == ASSUME Inv, CycleInv, [Next]_vars  PROVE CycleInv'
<1>1. Shape /\ Shape' /\ Constructions
  BY Inductive DEF Inv
<1>2. CASE UNCHANGED <<needs, stack, circular>>
  BY <1>2 DEF CycleInv
<1>3. ASSUME NEW t \in Threads, NEW n \in Names, NEW s, Enter(t, n, s), UNCHANGED needs
      PROVE  CycleInv'
  <2>1. Linked(needs, <<Caller(n)>>)
    <3>1. /\ Len(<<Caller(n)>>) = 1 /\ <<Caller(n)>>[1] = Caller(n)
          /\ Caller(n).name = "caller" /\ Caller(n).todo = {n}
      BY DEF Caller, Frame
    <3>2. QED  BY <3>1 DEF Linked
  <2>2. stack' = [stack EXCEPT ![t] = <<Caller(n)>>] /\ circular' = circular
    BY <1>3 DEF Enter, history
  <2>3. QED  BY <1>1, <1>3, <2>1, <2>2, CycleKept
<1>4. ASSUME NEW t \in Threads, LookupFinds(t)  PROVE CycleInv'
  <2>1. /\ Looking(t) /\ Answer(t, stack[t]) /\ UNCHANGED <<needs, circular>>
    BY <1>4 DEF LookupFinds, Give, containerVars
  <2>2. stack[t] # <<>> /\ stack[t] \in Seq(AnyFrame) /\ Linked(needs, stack[t])
    BY <1>1, <2>1, StacksTyped DEF Looking, CycleInv
  <2>3. QED  BY <1>1, <2>1, <2>2, AnswerLinked
<1>5. ASSUME NEW t \in Threads, LookupCircular(t)  PROVE CycleInv'
  <2>1. /\ Looking(t) /\ Target(t) \in OnStack(t) /\ UNCHANGED needs
        /\ circular' = circular \cup Head(stack[t]).todo
        /\ stack' = [stack EXCEPT ![t] = <<>>]
    BY <1>5 DEF LookupCircular, Leave, containerVars
  <2>2. /\ stack[t] # <<>> /\ stack[t] \in Seq(AnyFrame) /\ Linked(needs, stack[t])
        /\ Target(t) \in Last(stack[t]).todo
    BY <1>1, <2>1, StacksTyped DEF Looking, CycleInv, Target
  <2>3. PICK c \in 1..Len(stack[t]) : stack[t][c].name = Target(t)
    BY <2>1 DEF OnStack
  <2>4. \A m \in Head(stack[t]).todo : LeadsToCycle(needs, m)
    BY <1>1, <2>2, <2>3, StacksTyped, CycleClosed
  <2>5. \A u \in Threads : Linked(needs, stack'[u])
    <3>1. \A u \in Threads : stack'[u] = IF u = t THEN <<>> ELSE stack[u]
      BY <1>1, <2>1 DEF Shape
    <3>2. QED  BY <3>1, EmptyLinked DEF CycleInv
  <2>6. \A m \in circular' : LeadsToCycle(needs, m)
    BY <2>1, <2>4 DEF CycleInv
  <2>7. QED  BY <2>1, <2>5, <2>6 DEF CycleInv
<1>6. ASSUME NEW t \in Threads, LookupMisses(t)  PROVE CycleInv'
  <2> DEFINE n == Target(t)
             new == Frame(n, registrations[n], needs[n])
  <2>1. /\ Looking(t) /\ n \notin OnStack(t) /\ stack' = [stack EXCEPT ![t] = Append(stack[t], new)]
        /\ UNCHANGED <<needs, circular>>
    BY <1>6 DEF LookupMisses, containerVars, history
  <2>2. /\ stack[t] # <<>> /\ stack[t] \in Seq(AnyFrame) /\ Linked(needs, stack[t])
        /\ n \in Last(stack[t]).todo /\ n \in Names
    BY <1>1, <2>1, StacksTyped, Targets DEF Looking, CycleInv, Target
  <2>3. \A i \in 1..Len(stack[t]) : stack[t][i].name # n
    BY <2>1 DEF OnStack
  <2>4. new \in AnyFrame /\ new.name = n /\ new.todo = needs[n]
    BY <1>1, <2>2 DEF Frame, AnyFrame, Shape
  <2> HIDE DEF n, new
  <2>5. Linked(needs, Append(stack[t], new))
    BY <2>2, <2>3, <2>4, AppendLinked
  <2>6. QED  BY <1>1, <2>1, <2>5, CycleKept
<1>7. ASSUME NEW t \in Threads, Construct(t)  PROVE CycleInv'
  <2>1. /\ Constructing(t) /\ Answer(t, Front(stack[t])) /\ UNCHANGED needs
    BY <1>7 DEF Construct
  <2>2. circular' = circular
    BY <1>7 DEF Construct, CacheSingleton, CacheInScope, Give, history
  <2>3. /\ stack[t] # <<>> /\ stack[t] \in Seq(AnyFrame) /\ Linked(needs, stack[t])
        /\ GoodStack(stack[t]) /\ Last(stack[t]).todo = {}
    BY <1>1, <2>1, StacksTyped DEF Constructing, Constructions, CycleInv
  <2>4. Front(stack[t]) \in Seq(AnyFrame) /\ Front(stack[t]) # <<>> /\ Linked(needs, Front(stack[t]))
    BY <2>3, FrontGood, FrontLinked
  <2>5. QED  BY <1>1, <2>1, <2>2, <2>4, AnswerLinked
<1>8. ASSUME NEW t \in Threads, ConstructFails(t)  PROVE CycleInv'
  <2>1. stack' = [stack EXCEPT ![t] = <<>>] /\ UNCHANGED <<needs, circular>>
    BY <1>8 DEF ConstructFails, Leave, containerVars, history
  <2>2. QED  BY <1>1, <2>1, EmptyLinked, CycleKept
<1>9. ASSUME NEW t \in Threads, Resolve(t)  PROVE CycleInv'
  <2>1. PICK n \in Names : \/ ResolveFast(t, n) \/ ResolveSlow(t, n)
                           \/ \E s \in Scopes : ScopeResolve(t, s, n)
    BY <1>9 DEF Resolve
  <2>2. CASE ResolveFast(t, n)
    BY <1>2, <2>2 DEF ResolveFast, Call, Give, containerVars, threadVars
  <2>3. CASE ResolveSlow(t, n) \/ \E s \in Scopes : ScopeResolve(t, s, n)
    BY <1>3, <2>3 DEF ResolveSlow, ScopeResolve, Call, containerVars
  <2>4. QED  BY <2>1, <2>2, <2>3
<1>10. ASSUME NEW n \in Names, NEW l \in Lifetimes, Register(n, l)  PROVE CycleInv'
  BY <1>2, <1>10 DEF Register, Renew, threadVars
<1>11. ASSUME NEW n \in Names, RegisterInstance(n) \/ Override(n) \/ Restore(n)  PROVE CycleInv'
  BY <1>2, <1>11 DEF RegisterInstance, Override, Restore, Renew, threadVars, history
<1>12. ASSUME NEW s \in Scopes, EnterScope(s) \/ ExitScope(s)  PROVE CycleInv'
  BY <1>2, <1>12 DEF EnterScope, ExitScope, containerVars, threadVars, history
<1>13. CASE UNCHANGED vars
  BY <1>2, <1>13 DEF vars, containerVars, threadVars, history
<1>14. QED
  BY <1>4, <1>5, <1>6, <1>7, <1>8, <1>9, <1>10, <1>11, <1>12, <1>13 DEF Next, Within

\* resolve() refuses circular parameters and no others, whatever other threads
\* construct at the time, and constructs no name within itself.
THEOREM CyclesAreDetected == Spec => []CyclesDetected
<1>1. Init => CycleInv
  <2>1. Init => /\ \A t \in Threads : stack[t] = <<>>
                /\ circular = {}
    BY DEF Init
  <2>2. QED  BY <2>1, EmptyLinked DEF CycleInv
<1>2. Inv /\ CycleInv /\ [Next]_vars => CycleInv'
  BY CycleInduction
<1>3. CycleInv => CyclesDetected
  BY DEF CycleInv, CyclesDetected, Linked
<1>4. QED  BY Invariant, <1>1, <1>2, <1>3, PTL DEF Spec
=============================================================================

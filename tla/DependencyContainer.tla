------------------------ MODULE DependencyContainer ------------------------
(***************************************************************************)
(* lingualdub.di.container: DependencyContainer and DependencyScope.       *)
(*                                                                         *)
(* Threads resolve names while names are registered anew and overridden    *)
(* and scopes are entered and left.  An instance is built outside the      *)
(* lock: a step of resolve() is the look-up of one name in the overrides,  *)
(* the registrations and the caches, which is taken for one step though no *)
(* lock is held over it, or the end of one construction with its caching.  *)
(* A registration is its generation (how often the name was registered)    *)
(* and its lifetime; the parameters of a factory that name other           *)
(* registrations are the same in each generation.  Factories do not call   *)
(* the container themselves.  The validation of arguments, is_...() and    *)
(* list_...() and the helper clear() of tests are left out.                *)
(***************************************************************************)
EXTENDS Naturals, Sequences, FiniteSets, SequencesExt

CONSTANTS Threads,        \* threads calling resolve()
          Names,          \* registered names
          Needs,          \* which parameters the factories may have
          Scopes,         \* scopes, each entered once
          MaxChanges,     \* bound: registrations and overrides
          MaxCalls        \* bound: calls of resolve()

ASSUME ContainerConstants ==
    /\ IsFiniteSet(Names)
    /\ Needs \subseteq [Names -> SUBSET Names]
    /\ "caller" \notin Names /\ {"no scope", "container"} \cap Scopes = {}
    /\ MaxChanges \in Nat /\ MaxCalls \in Nat

VARIABLES needs,          \* parameters of each factory that are registered names
          registrations,  \* _registrations
          singletons,     \* _singletons
          overrides,      \* _overrides: a stack of fakes per name
          activeScope,    \* _active_scope
          scoped,         \* _instances of each scope
          entered,        \* scopes entered so far
          stack,          \* per thread: its call, and the names it is constructing
          scope,          \* `scope` of its call
          built,          \* shared instances built of each name
          changes, calls, \* made so far, for the bounds
          given,          \* history: shared instances given out since the registration,
                          \* by the container, and in each scope until it ends
          raced,          \* history: names registered while one was constructed
          circular        \* history: names whose resolve() found a cycle

containerVars == <<needs, registrations, singletons, overrides>>
scopeVars == <<activeScope, scoped, entered>>
threadVars == <<stack, scope>>
history == <<given, raced, circular>>
vars == <<containerVars, scopeVars, threadVars, built, changes, calls, history>>

Lifetimes == {"singleton", "scoped", "transient"}
NoScope == "no scope"

\* Instances are told apart by number, fakes have generation 0.
Instance(n, g, no) == [of |-> n, generation |-> g, no |-> no]
Fake(n, depth) == Instance(n, 0, depth)
Nothing == Instance("nothing", 0, 0)

Init == /\ needs \in Needs
        /\ registrations \in [Names -> [generation : {1}, lifetime : Lifetimes]]
        /\ singletons = [n \in Names |-> Nothing]
        /\ overrides = [n \in Names |-> <<>>]
        /\ activeScope = NoScope
        /\ scoped = [s \in Scopes |-> [n \in Names |-> Nothing]]
        /\ entered = {}
        /\ stack = [t \in Threads |-> <<>>]
        /\ scope = [t \in Threads |-> NoScope]
        /\ built = [n \in Names |-> 0]
        /\ changes = 0 /\ calls = 0
        /\ given = [p \in Scopes \cup {"container"} |-> [n \in Names |-> {}]]
        /\ raced = {} /\ circular = {}

-----------------------------------------------------------------------------
OnStack(t) == {stack[t][i].name : i \in 1..Len(stack[t])}

Change == changes < MaxChanges /\ changes' = changes + 1

\* A name is registered anew.
Renew(n) == /\ given' = [p \in DOMAIN given |-> [given[p] EXCEPT ![n] = {}]]
            /\ raced' = IF \E t \in Threads : n \in OnStack(t)
                        THEN raced \cup {n} ELSE raced
            /\ UNCHANGED circular

\* Mutant: the cached singleton of a replaced registration stays.
RegisterKeeping(n, lifetime) ==
    /\ Change
    /\ registrations' = [registrations EXCEPT ![n] =
                            [generation |-> @.generation + 1, lifetime |-> lifetime]]
    /\ Renew(n)
    /\ UNCHANGED <<needs, singletons, overrides, scopeVars, threadVars, built, calls>>

\* register(name, implementation, lifetime, override=True)
Register(n, lifetime) ==
    /\ Change
    /\ registrations' = [registrations EXCEPT ![n] =
                            [generation |-> @.generation + 1, lifetime |-> lifetime]]
    /\ singletons' = [singletons EXCEPT ![n] = Nothing]
    /\ scoped' = IF activeScope = NoScope THEN scoped
                 ELSE [scoped EXCEPT ![activeScope][n] = Nothing]
    /\ Renew(n)
    /\ UNCHANGED <<needs, overrides, activeScope, entered, threadVars, built, calls>>

\* register_instance(name, instance, override=True)
RegisterInstance(n) ==
    /\ Change
    /\ registrations' = [registrations EXCEPT ![n] =
                            [generation |-> @.generation + 1, lifetime |-> "singleton"]]
    /\ built' = [built EXCEPT ![n] = @ + 1]
    /\ singletons' = [singletons EXCEPT ![n] =
                         Instance(n, registrations'[n].generation, built'[n])]
    /\ Renew(n)
    /\ UNCHANGED <<needs, overrides, scopeVars, threadVars, calls>>

Override(n) ==
    /\ Change
    /\ overrides' = [overrides EXCEPT ![n] = Append(@, Fake(n, Len(@) + 1))]
    /\ UNCHANGED <<needs, registrations, singletons, scopeVars, threadVars, built, calls, history>>

Restore(n) ==
    /\ overrides[n] # <<>>
    /\ overrides' = [overrides EXCEPT ![n] = Front(@)]
    /\ UNCHANGED <<needs, registrations, singletons, scopeVars, threadVars, built, changes, calls, history>>

\* A second scope at a time is refused.
EnterScope(s) == /\ activeScope = NoScope /\ s \notin entered
                 /\ activeScope' = s
                 /\ entered' = entered \cup {s}
                 /\ UNCHANGED <<containerVars, scoped, threadVars, built, changes, calls, history>>

\* The instances of the scope are closed and forgotten.
ExitScope(s) == /\ activeScope = s
                /\ scoped' = [scoped EXCEPT ![s] = [n \in Names |-> Nothing]]
                /\ activeScope' = NoScope
                /\ given' = [given EXCEPT ![s] = [n \in Names |-> {}]]
                /\ UNCHANGED <<containerVars, entered, threadVars, built, changes, calls, raced, circular>>

-----------------------------------------------------------------------------
\* What a look-up of n finds for a call with scope s: its fake, or a cached
\* instance.
Cached(n, s) ==
    CASE registrations[n].lifetime = "singleton" -> singletons[n]
      [] registrations[n].lifetime = "scoped" /\ s # NoScope -> scoped[s][n]
      [] OTHER -> Nothing

Found(n, s) == IF overrides[n] # <<>> THEN Last(overrides[n]) ELSE Cached(n, s)

\* An instance goes to a caller or into a constructor: it is shared within
\* `place`, unless it is a fake.
Give(n, place, instance) ==
    /\ given' = IF instance.generation = 0 THEN given
                ELSE [given EXCEPT ![place][n] = @ \cup {instance}]
    /\ UNCHANGED <<raced, circular>>

Place(lifetime, s) == IF lifetime = "singleton" THEN "container" ELSE s

\* A frame of the stack: a name under construction, with its registration and
\* the parameters still to be resolved.  The lowest one stands for the caller.
Frame(n, reg, todo) == [name |-> n, reg |-> reg, todo |-> todo]
Caller(n) == Frame("caller", registrations[n], {n})

Idle(t) == stack[t] = <<>>

Call(t) == /\ Idle(t) /\ calls < MaxCalls
           /\ calls' = calls + 1
           /\ UNCHANGED <<containerVars, scopeVars, built, changes>>

\* resolve(): the fast path, with the lock held.
ResolveFast(t, n) ==
    LET found == Found(n, activeScope)
    IN  /\ Call(t)
        /\ found # Nothing
        /\ Give(n, Place(registrations[n].lifetime, activeScope), found)
        /\ UNCHANGED threadVars

Enter(t, n, s) == /\ stack' = [stack EXCEPT ![t] = <<Caller(n)>>]
                  /\ scope' = [scope EXCEPT ![t] = s]
                  /\ UNCHANGED history

\* Nothing cached: the call goes on without the lock.
ResolveSlow(t, n) == /\ Call(t)
                     /\ Found(n, activeScope) = Nothing
                     /\ Enter(t, n, activeScope)

\* scope.resolve(), inside its with block, or outside while no scope is active.
ScopeResolve(t, s, n) == /\ Call(t)
                         /\ activeScope \in {s, NoScope}
                         /\ Enter(t, n, s)

\* The name thread t looks up: the next parameter of what it constructs.
Looking(t) == stack[t] # <<>> /\ Last(stack[t]).todo # {}
Target(t) == CHOOSE n \in Last(stack[t]).todo : TRUE

\* It is answered: to the caller, whose call ends, or to the constructor.
Answered(frames) ==
    IF Len(frames) = 1 THEN <<>>
    ELSE [frames EXCEPT ![Len(frames)].todo = @ \ {CHOOSE n \in @ : TRUE}]

Leave(t) == /\ stack' = [stack EXCEPT ![t] = <<>>]
            /\ scope' = [scope EXCEPT ![t] = NoScope]

Answer(t, frames) == IF Len(frames) = 1 THEN Leave(t)
                     ELSE /\ stack' = [stack EXCEPT ![t] = Answered(frames)]
                          /\ UNCHANGED scope

LookupFinds(t) == /\ Looking(t)
                  /\ LET found == Found(Target(t), scope[t])
                     IN  /\ found # Nothing
                         /\ Give(Target(t), Place(registrations[Target(t)].lifetime, scope[t]),
                                 found)
                  /\ Answer(t, stack[t])
                  /\ UNCHANGED <<containerVars, scopeVars, built, changes, calls>>

\* Mutant: one resolution stack for all threads.
SharedCircular(t) == /\ Looking(t)
                     /\ Found(Target(t), scope[t]) = Nothing
                     /\ \E u \in Threads : Target(t) \in OnStack(u)
                     /\ circular' = circular \cup Head(stack[t]).todo
                     /\ Leave(t)
                     /\ UNCHANGED <<containerVars, scopeVars, built, changes, calls, given, raced>>

\* A ResolutionError ends the whole call.
LookupCircular(t) == /\ Looking(t)
                     /\ Found(Target(t), scope[t]) = Nothing
                     /\ Target(t) \in OnStack(t)
                     /\ circular' = circular \cup Head(stack[t]).todo
                     /\ Leave(t)
                     /\ UNCHANGED <<containerVars, scopeVars, built, changes, calls, given, raced>>

\* Its construction begins.
LookupMisses(t) == /\ Looking(t)
                   /\ Found(Target(t), scope[t]) = Nothing
                   /\ Target(t) \notin OnStack(t)
                   /\ stack' = [stack EXCEPT ![t] = Append(@,
                         Frame(Target(t), registrations[Target(t)], needs[Target(t)]))]
                   /\ UNCHANGED <<containerVars, scopeVars, scope, built, changes, calls, history>>

\* All parameters are there: _construct() calls the factory.
Constructing(t) == stack[t] # <<>> /\ Last(stack[t]).todo = {}

\* Mutant: the cache is not looked at again.
CacheBlindly(n, instance) == /\ singletons' = [singletons EXCEPT ![n] = instance]
                             /\ Give(n, "container", instance)

\* The singleton another thread has built in the meantime takes precedence.
CacheSingleton(n, instance) ==
    /\ singletons' = IF singletons[n] = Nothing
                     THEN [singletons EXCEPT ![n] = instance] ELSE singletons
    /\ Give(n, "container", singletons'[n])

CacheInScope(n, s, instance) ==
    /\ scoped' = [scoped EXCEPT ![s][n] = instance]
    /\ Give(n, s, instance)

\* The factory returns, and the instance is cached as the registration says
\* under which its construction began.
Construct(t) ==
    LET frame == Last(stack[t])
        shared == \/ frame.reg.lifetime = "singleton"
                  \/ frame.reg.lifetime = "scoped" /\ scope[t] # NoScope
        instance == Instance(frame.name, frame.reg.generation, built'[frame.name])
    IN  /\ Constructing(t)
        /\ built' = IF shared THEN [built EXCEPT ![frame.name] = @ + 1] ELSE built
        /\ \/ /\ frame.reg.lifetime = "singleton"
              /\ CacheSingleton(frame.name, instance)
              /\ UNCHANGED scoped
           \/ /\ shared /\ frame.reg.lifetime = "scoped"
              /\ CacheInScope(frame.name, scope[t], instance)
              /\ UNCHANGED singletons
           \/ ~shared /\ UNCHANGED <<singletons, scoped, history>>
        /\ Answer(t, Front(stack[t]))
        /\ UNCHANGED <<needs, registrations, overrides, activeScope, entered, changes, calls>>

\* The factory raises.
ConstructFails(t) ==
    /\ Constructing(t) /\ Leave(t)
    /\ UNCHANGED <<containerVars, scopeVars, built, changes, calls, history>>

Resolve(t) == \E n \in Names : \/ ResolveFast(t, n) \/ ResolveSlow(t, n)
                               \/ \E s \in Scopes : ScopeResolve(t, s, n)

Within(t) == \/ LookupFinds(t) \/ LookupCircular(t) \/ LookupMisses(t)
             \/ Construct(t) \/ ConstructFails(t)

Next == \/ \E t \in Threads : Resolve(t) \/ Within(t)
        \/ \E n \in Names : \/ \E l \in Lifetimes : Register(n, l)
                            \/ RegisterInstance(n) \/ Override(n) \/ Restore(n)
        \/ \E s \in Scopes : EnterScope(s) \/ ExitScope(s)

Spec == Init /\ [][Next]_vars

-----------------------------------------------------------------------------
Instances == [of : Names, generation : 0..(MaxChanges + 1), no : Nat]
Registration == [generation : 1..(MaxChanges + 1), lifetime : Lifetimes]
Frames == [name : Names \cup {"caller"}, reg : Registration, todo : SUBSET Names]

TypeOK == /\ needs \in Needs
          /\ registrations \in [Names -> Registration]
          /\ singletons \in [Names -> Instances \cup {Nothing}]
          /\ overrides \in [Names -> Seq(Instances)]
          /\ activeScope \in Scopes \cup {NoScope}
          /\ scoped \in [Scopes -> [Names -> Instances \cup {Nothing}]]
          /\ entered \subseteq Scopes
          /\ stack \in [Threads -> Seq(Frames)]
          /\ \A t \in Threads : Len(stack[t]) <= Cardinality(Names) + 1
          /\ scope \in [Threads -> Scopes \cup {NoScope}]
          /\ built \in [Names -> Nat]
          /\ changes \in 0..MaxChanges /\ calls \in 0..MaxCalls
          /\ given \in [Scopes \cup {"container"} -> [Names -> SUBSET Instances]]
          /\ raced \subseteq Names /\ circular \subseteq Names

\* "Concurrent resolves are safe" (module docstring): between two registrations of
\* a name, whoever resolves or is injected it is given the same singleton,
\* though several threads may have built one at the same time.
SingletonAgreement == \A n \in Names : Cardinality(given["container"][n]) <= 1

\* A cached singleton is one of the current registration, except when a thread
\* was constructing it at the time the name was registered anew.
FreshUnlessRaced == \A n \in Names :
    /\ n \notin raced /\ registrations[n].lifetime = "singleton"
    /\ singletons[n] # Nothing
    => singletons[n].generation = registrations[n].generation

\* Parameters lead from n, by different names, back to one of them.
LeadsToCycle(graph, n) ==
    \E k \in 1..Cardinality(Names) : \E path \in [1..k -> Names] :
        /\ path[1] = n /\ IsInjective(path)
        /\ \A i \in 1..k-1 : path[i+1] \in graph[path[i]]
        /\ \E i \in 1..k : path[i] \in graph[path[k]]

\* Circular dependencies, and no others, are refused: what another thread is
\* constructing makes no cycle, and no call constructs a name within itself.
CyclesDetected ==
    /\ \A n \in circular : LeadsToCycle(needs, n)
    /\ \A t \in Threads : \A i, j \in 1..Len(stack[t]) :
          stack[t][i].name = stack[t][j].name => i = j
=============================================================================

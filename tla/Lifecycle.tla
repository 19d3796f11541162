----------------------------- MODULE Lifecycle ------------------------------
(***************************************************************************)
(* lingualdub.lifecycle: FrameworkLifecycle.                               *)
(*                                                                         *)
(* One thread drives the life cycle.  A step is a call it makes, or one    *)
(* hook of run_startup_hooks() or shutdown(); shutdown() may be called     *)
(* while a startup hook runs, by the hook itself or by a signal handler,   *)
(* and startup goes on where it was when shutdown() returns.  Hooks may    *)
(* register hooks and call transition() and shutdown(); one that runs the  *)
(* startup hooks once more is left out.  A startup hook and a shutdown     *)
(* hook belong together when they have the same name.                      *)
(* The history list, the logging, the validation of names and the test     *)
(* helpers clear_startup_hooks() and clear_shutdown_hooks() are left out.  *)
(***************************************************************************)
EXTENDS StartupOrder, FiniteSets

CONSTANTS Names,    \* hook names
          MaxHooks  \* bound: startup hooks registered

ASSUME LifecycleConstants == MaxHooks \in Nat

VARIABLES state,         \* _state
          startupHooks,  \* _startup_hook_order, the keys of _startup_hooks
          dependsOn,     \* the depends_on lists in _startup_hooks
          shutdownHooks, \* _shutdown_hook_order, the keys of _shutdown_hooks
          executed,      \* _startup_execution_order
          toStart,       \* run_startup_hooks(): the running hook and the next
          stopping,      \* shutdown() is running
          toStop,        \* shutdown(): the hooks not called yet
          attempted      \* shutdown hooks called, in order

hookVars == <<startupHooks, dependsOn, shutdownHooks>>
vars == <<state, hookVars, executed, toStart, stopping, toStop, attempted>>

Allowed == [uninitialized |-> {"configuring"}, configuring  |-> {"configured"},
            configured    |-> {"initializing"}, initializing |-> {"ready"},
            ready         |-> {"running", "shuttingDown"},
            running       |-> {"ready", "shuttingDown"},
            shuttingDown  |-> {"stopped"}, stopped |-> {}]

Init == /\ state = "uninitialized"
        /\ startupHooks = <<>>
        /\ dependsOn = [n \in Names |-> {}]
        /\ shutdownHooks = <<>>
        /\ executed = <<>> /\ toStart = <<>>
        /\ stopping = FALSE /\ toStop = <<>> /\ attempted = <<>>

\* The thread is in no hook: neither loop is running.
Idle == toStart = <<>> /\ ~stopping

\* transition(target), also from a hook.  A caller may make the last two moves
\* itself: it has then stopped without a shutdown hook being called.
Transition == /\ \E target \in Allowed[state] : state' = target
              /\ UNCHANGED <<hookVars, executed, toStart, stopping, toStop, attempted>>

-----------------------------------------------------------------------------
\* Also from a hook: it then waits for the next run_startup_hooks().
RegisterStartupHook(name, deps) ==
    /\ Len(startupHooks) < MaxHooks
    /\ name \notin ToSet(startupHooks)
    /\ startupHooks' = Append(startupHooks, name)
    /\ dependsOn' = [dependsOn EXCEPT ![name] = deps]
    /\ UNCHANGED <<state, shutdownHooks, executed, toStart, stopping, toStop, attempted>>

\* Also from a hook.  One registered once shutdown() has begun is accepted too,
\* and never called unless a startup hook has its name.
RegisterShutdownHook(name) ==
    /\ name \notin ToSet(shutdownHooks)
    /\ shutdownHooks' = Append(shutdownHooks, name)
    /\ UNCHANGED <<state, startupHooks, dependsOn, executed, toStart, stopping, toStop,
                   attempted>>

-----------------------------------------------------------------------------
\* _resolve_startup_order()
Registered == ToSet(startupHooks)
UnknownDependency == \E n \in Registered : ~(dependsOn[n] \subseteq Registered)

\* Mutant: a hook is queued with the first of its dependencies.
KahnEager ==
    LET kahn[i \in 0..Len(startupHooks)] ==
          IF i = 0 THEN [order |-> <<>>, queue |-> SelectSeq(startupHooks, LAMBDA n : dependsOn[n] = {})]
          ELSE IF kahn[i - 1].queue = <<>> THEN kahn[i - 1]
          ELSE LET current == Head(kahn[i - 1].queue)
                   Ready(n) == current \in dependsOn[n] /\ n \notin ToSet(kahn[i - 1].order)
               IN  [order |-> Append(kahn[i - 1].order, current),
                    queue |-> Tail(kahn[i - 1].queue) \o SelectSeq(startupHooks, Ready)]
    IN  kahn[Len(startupHooks)].order

KahnOrder == Kahn(startupHooks, dependsOn)

\* An unknown dependency or a cycle is an error.
Unresolvable == UnknownDependency \/ Len(KahnOrder) # Len(startupHooks)

\* run_startup_hooks() up to its loop.  An error leaves everything as it was.
RunStartupHooks ==
    /\ Idle
    /\ IF Unresolvable THEN UNCHANGED <<executed, toStart>>
                       ELSE executed' = <<>> /\ toStart' = KahnOrder
    /\ UNCHANGED <<state, hookVars, stopping, toStop, attempted>>

StartupHookReturns == /\ toStart # <<>> /\ ~stopping
                      /\ executed' = Append(executed, Head(toStart))
                      /\ toStart' = Tail(toStart)
                      /\ UNCHANGED <<state, hookVars, stopping, toStop, attempted>>

\* Mutant: a failing hook is skipped.
SkipFailingHook == /\ toStart # <<>> /\ ~stopping
                   /\ toStart' = Tail(toStart)
                   /\ UNCHANGED <<state, hookVars, executed, stopping, toStop, attempted>>

\* InitializationError: no further hooks run.
StartupHookRaises == /\ toStart # <<>> /\ ~stopping
                     /\ toStart' = <<>>
                     /\ UNCHANGED <<state, hookVars, executed, stopping, toStop, attempted>>

-----------------------------------------------------------------------------
\* Mutant: what was started is stopped in the order it was started in.
ForwardTeardown == executed \o Kept(Reverse(shutdownHooks), Names \ ToSet(executed))

\* run_shutdown_hooks(): what was started is stopped in reverse; then the
\* other shutdown hooks, last registered first.
TeardownOrder ==
    Reverse(executed) \o Kept(Reverse(shutdownHooks), Names \ ToSet(executed))

\* shutdown(): the transition is forced where Allowed has none.  It returns at
\* once when the state is one of the last two, whoever has made it so.
Shutdown == /\ state \notin {"shuttingDown", "stopped"}
            /\ state' = "shuttingDown"
            /\ stopping' = TRUE
            /\ toStop' = TeardownOrder
            /\ UNCHANGED <<hookVars, executed, toStart, attempted>>

\* A hook that returns or raises: the loop goes on either way.
ShutdownHook == /\ toStop # <<>> /\ Head(toStop) \in ToSet(shutdownHooks)
                /\ attempted' = Append(attempted, Head(toStop))
                /\ toStop' = Tail(toStop)
                /\ UNCHANGED <<state, hookVars, executed, toStart, stopping>>

\* Mutant: the KeyError of a missing hook is not caught.
MissingHookEscapes == FALSE /\ UNCHANGED vars

\* self._shutdown_hooks[name] raises KeyError, outside the loop's try: it ends
\* the loop, and shutdown() swallows it.
MissingShutdownHook == /\ toStop # <<>> /\ Head(toStop) \notin ToSet(shutdownHooks)
                       /\ toStop' = <<>>
                       /\ UNCHANGED <<state, hookVars, executed, toStart, stopping, attempted>>

Stopped == /\ stopping /\ toStop = <<>>
           /\ state' = "stopped"
           /\ stopping' = FALSE
           /\ UNCHANGED <<hookVars, executed, toStart, toStop, attempted>>

InHook == StartupHookReturns \/ StartupHookRaises
InShutdown == ShutdownHook \/ MissingShutdownHook \/ Stopped

Next == \/ Transition
        \/ \E n \in Names, deps \in SUBSET Names : RegisterStartupHook(n, deps)
        \/ \E n \in Names : RegisterShutdownHook(n)
        \/ RunStartupHooks \/ InHook
        \/ Shutdown \/ InShutdown

Spec == Init /\ [][Next]_vars

\* Shutdown hooks come to an end; nothing is assumed of the caller.
FairSpec == Spec /\ WF_vars(InShutdown)

-----------------------------------------------------------------------------
TypeOK == /\ state \in DOMAIN Allowed
          /\ startupHooks \in Seq(Names)
          /\ dependsOn \in [Names -> SUBSET Names]
          /\ shutdownHooks \in Seq(Names)
          /\ executed \in Seq(Names)
          /\ toStart \in Seq(Names)
          /\ stopping \in BOOLEAN
          /\ toStop \in Seq(Names)
          /\ attempted \in Seq(Names)

Before(s, a, b) == \E i, j \in 1..Len(s) : i < j /\ s[i] = a /\ s[j] = b

\* Reference: a set of hooks that all wait for each other.
Cyclic == \E S \in SUBSET Registered :
             S # {} /\ \A n \in S : dependsOn[n] \cap S # {}

\* Whatever was registered, in whatever order: startup is refused exactly for
\* unknown and circular dependencies.  Otherwise every hook runs once, after
\* all it depends on, and hooks without dependencies before all others.
OrderSound ==
    IF UnknownDependency \/ Cyclic THEN Unresolvable
    ELSE LET order == KahnOrder
         IN  /\ ~Unresolvable
             /\ ToSet(order) = Registered
             /\ \A n \in Registered : \A d \in dependsOn[n] : Before(order, d, n)
             /\ \A m, n \in Registered :
                   dependsOn[m] = {} /\ dependsOn[n] # {} => Before(order, m, n)

\* A startup hook only ever runs after everything it depends on has started in
\* the same run: also when a hook failed, or shutdown() came in between.
DependenciesUp ==
    toStart # <<>> => dependsOn[Head(toStart)] \subseteq ToSet(executed)

\* Nothing is stopped before what depends on it: of two hooks that were
\* started, the dependent's shutdown hook is called first ("reverse startup
\* execution order (topological execution, not registration)",
\* docs/lifecycle.md), whatever other hooks fail, are missing or come late.
DependentsStopFirst ==
    stopping =>
        \A a, b \in ToSet(executed) \cap ToSet(attempted) :
            a \in dependsOn[b] => Before(attempted, b, a)

\* "Shutdown hooks run in reverse registration order (LIFO)"
\* (register_shutdown_hook, run_shutdown_hooks).
LastRegisteredStopsFirst ==
    \A a, b \in ToSet(attempted) :
        Before(attempted, a, b) => Before(shutdownHooks, b, a)

\* Once it has stopped and shutdown() has returned, the framework stays stopped
\* and its hooks are not called again.
StoppedForGood ==
    [][state = "stopped" /\ ~stopping => UNCHANGED <<state, attempted>>]_vars

\* "state still proceeds to STOPPED" (shutdown): a shutdown() that has begun
\* comes to its end, whatever its hooks do, raise or change.
ShutdownCompletes == stopping ~> (~stopping /\ state = "stopped")
=============================================================================

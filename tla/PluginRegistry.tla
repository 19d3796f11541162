--------------------------- MODULE PluginRegistry ---------------------------
(***************************************************************************)
(* lingualdub.extensions.plugin: PluginRegistry.                           *)
(*                                                                         *)
(* initialize_all() starts the plugins in dependency order, each of which  *)
(* puts services into the container, and shutdown_all() stops them.  A     *)
(* step is one hook of a plugin with what the registry does around it.     *)
(* Hooks may raise at any point, and may replace a service that is there   *)
(* (override=True).  Either call may be made again.  A plugin may be       *)
(* registered between two hooks, by a hook or another thread, when there   *)
(* is no life cycle or it is still CONFIGURING.  discover() registers what *)
(* it can load and goes on.  clear(), a testing utility, is left out.      *)
(***************************************************************************)
EXTENDS StartupOrder, FiniteSets

CONSTANTS Plugins,        \* plugin names
          EntryPoints,    \* which entry points discover() may load, in which order
          Graphs,         \* which depends_on the plugins may have
          Services,       \* names in the DependencyContainer
          MaxRuns         \* bound: calls of initialize_all()

ASSUME PluginConstants == /\ EntryPoints \subseteq Seq(Plugins)
                          /\ Graphs \subseteq [Plugins -> SUBSET Plugins]
                          /\ {"nobody", "application"} \cap Plugins = {}
                          /\ MaxRuns \in Nat

VARIABLES failFast,        \* fail_fast
          pluginNeeds,     \* depends_on of every plugin
          registered,      \* _plugins, in order
          pluginState,     \* state of each plugin
          startupOrder,    \* _startup_order
          container,       \* who registered each service last
          configuring,     \* no life cycle, or its state is CONFIGURING
          pluginsToStart,  \* initialize_all(): names left in `order`
          failed,          \* initialize_all(): `failed`
          pluginsToStop,   \* shutdown_all(): names left in `order`
          runs,            \* calls of initialize_all() since the last shutdown
          raised           \* history: plugins whose on_startup raised

callVars == <<pluginsToStart, failed, pluginsToStop>>
pluginVars == <<failFast, pluginNeeds, registered, pluginState, startupOrder,
                container, configuring, callVars, runs, raised>>

PluginStates == {"unregistered", "registered", "active", "failed", "stopped"}
Members == ToSet(registered)
NoCall == pluginsToStart = <<>> /\ pluginsToStop = <<>>

PluginInit ==
    /\ failFast \in BOOLEAN
    /\ pluginNeeds \in Graphs
    /\ registered = <<>>
    /\ pluginState = [p \in Plugins |-> "unregistered"]
    /\ startupOrder = <<>>
    /\ container \in [Services -> {"nobody", "application"}]
    /\ configuring = TRUE
    /\ pluginsToStart = <<>> /\ failed = {} /\ pluginsToStop = <<>>
    /\ runs = 0
    /\ raised = {}

-----------------------------------------------------------------------------
\* register_plugin(plugin); another one of its name is a conflict.
RegisterPlugin(p) ==
    /\ configuring /\ p \notin Members
    /\ registered' = Append(registered, p)
    /\ pluginState' = [pluginState EXCEPT ![p] = "registered"]
    /\ UNCHANGED <<failFast, pluginNeeds, startupOrder, container, configuring,
                   callVars, runs, raised>>

\* The names after the loop of discover(): one that is taken is passed over.
Registering(loaded) ==
    LET names[i \in 0..Len(loaded)] ==
          IF i = 0 THEN registered
          ELSE IF loaded[i] \in ToSet(names[i - 1]) THEN names[i - 1]
          ELSE Append(names[i - 1], loaded[i])
    IN  names[Len(loaded)]

\* discover(): of the entry points that can be queried and loaded, those whose
\* name is not taken by then are registered; out of CONFIGURING, none is.  What
\* another thread registers in between is a RegisterPlugin before or after it.
Discover(loaded) ==
    /\ configuring
    /\ registered' = Registering(loaded)
    /\ pluginState' = [p \in Plugins |->
                          IF p \in ToSet(Registering(loaded)) \ Members THEN "registered"
                          ELSE pluginState[p]]
    /\ UNCHANGED <<failFast, pluginNeeds, startupOrder, container, configuring,
                   callVars, runs, raised>>

\* The framework leaves CONFIGURING.
Configured == /\ configuring /\ configuring' = FALSE
              /\ UNCHANGED <<failFast, pluginNeeds, registered, pluginState, startupOrder,
                             container, callVars, runs, raised>>

PluginsUnresolvable == \/ \E p \in Members : ~(pluginNeeds[p] \subseteq Members)
                       \/ Len(Kahn(registered, pluginNeeds)) # Len(registered)

\* initialize_all() up to its loop; an unknown dependency or a cycle raises.
InitializeAll ==
    /\ NoCall /\ registered # <<>> /\ runs < MaxRuns
    /\ ~PluginsUnresolvable
    /\ pluginsToStart' = Kahn(registered, pluginNeeds)
    /\ failed' = {p \in Members : pluginState[p] = "failed"}
    /\ runs' = runs + 1
    /\ UNCHANGED <<failFast, pluginNeeds, registered, pluginState, startupOrder, container,
                   configuring, pluginsToStop, raised>>

Starting == pluginsToStart # <<>> /\ pluginsToStop = <<>>
Current == Head(pluginsToStart)
Barred == pluginState[Current] = "failed" \/ pluginNeeds[Current] \cap failed # {}

\* Mutant: what is skipped is not counted as failed.
SkipForgetful ==
    /\ Starting /\ Barred
    /\ pluginState' = [pluginState EXCEPT ![Current] = "failed"]
    /\ pluginsToStart' = Tail(pluginsToStart)
    /\ UNCHANGED <<failFast, pluginNeeds, registered, startupOrder, container,
                   configuring, failed, pluginsToStop, runs, raised>>

\* A plugin that failed in an earlier call, or depends on one that failed.
SkipPlugin ==
    /\ Starting /\ Barred
    /\ pluginState' = [pluginState EXCEPT ![Current] = "failed"]
    /\ failed' = failed \cup {Current}
    /\ pluginsToStart' = Tail(pluginsToStart)
    /\ UNCHANGED <<failFast, pluginNeeds, registered, startupOrder, container,
                   configuring, pluginsToStop, runs, raised>>

OnStartupReturns ==
    /\ Starting /\ ~Barred
    /\ \E services \in SUBSET Services :
          container' = [s \in Services |-> IF s \in services THEN Current ELSE container[s]]
    /\ pluginState' = [pluginState EXCEPT ![Current] = "active"]
    /\ startupOrder' = Append(startupOrder, Current)
    /\ pluginsToStart' = Tail(pluginsToStart)
    /\ raised' = raised \ {Current}
    /\ UNCHANGED <<failFast, pluginNeeds, registered, configuring, failed, pluginsToStop, runs>>

Registrations == {s \in Services : container[s] # "nobody"}

\* Mutant: everything the plugin has registered is taken out.
RemoveOwn(services) ==
    [s \in Services |-> IF s \in services THEN "nobody" ELSE container[s]]

\* The container after the names in post_keys - pre_keys were taken out.
RolledBack(services) ==
    [s \in Services |-> IF s \in Registrations \cap services THEN Current ELSE container[s]]

\* on_startup registers some services and raises: what it added is removed.
OnStartupRaises ==
    /\ Starting /\ ~Barred
    /\ \E services \in SUBSET Services : container' = RolledBack(services)
    /\ pluginState' = [pluginState EXCEPT ![Current] = "failed"]
    /\ failed' = failed \cup {Current}
    /\ pluginsToStart' = IF failFast THEN <<>> ELSE Tail(pluginsToStart)
    /\ raised' = raised \cup {Current}
    /\ UNCHANGED <<failFast, pluginNeeds, registered, startupOrder, configuring, pluginsToStop, runs>>

-----------------------------------------------------------------------------
\* Mutant: in the order of their startup.
StartupOrderAgain ==
    startupOrder \o Kept(Reverse(registered), Members \ ToSet(startupOrder))

\* _startup_order reversed, then whatever is missing in it; a name may be in
\* it twice.
PluginTeardown ==
    Reverse(startupOrder) \o Kept(Reverse(registered), Members \ ToSet(startupOrder))

ShutdownAll ==
    /\ NoCall /\ registered # <<>>
    /\ pluginsToStop' = PluginTeardown
    /\ UNCHANGED <<failFast, pluginNeeds, registered, pluginState, startupOrder, container,
                   configuring, pluginsToStart, failed, runs, raised>>

\* on_shutdown of the next plugin, unless it is stopped; it may raise.
StopPlugin ==
    /\ pluginsToStop # <<>>
    /\ pluginState' = [pluginState EXCEPT ![Head(pluginsToStop)] = "stopped"]
    /\ pluginsToStop' = Tail(pluginsToStop)
    /\ startupOrder' = IF Len(pluginsToStop) = 1 THEN <<>> ELSE startupOrder
    /\ runs' = IF Len(pluginsToStop) = 1 THEN 0 ELSE runs
    /\ UNCHANGED <<failFast, pluginNeeds, registered, container, configuring,
                   pluginsToStart, failed, raised>>

Initialize == SkipPlugin \/ OnStartupReturns \/ OnStartupRaises

PluginNext == \/ \E p \in Plugins : RegisterPlugin(p)
              \/ \E loaded \in EntryPoints : Discover(loaded)
              \/ Configured \/ InitializeAll \/ Initialize \/ ShutdownAll \/ StopPlugin

PluginSpec == PluginInit /\ [][PluginNext]_pluginVars

-----------------------------------------------------------------------------
PluginTypeOK ==
    /\ failFast \in BOOLEAN /\ configuring \in BOOLEAN /\ runs \in Nat
    /\ pluginNeeds \in [Plugins -> SUBSET Plugins]
    /\ {registered, startupOrder, pluginsToStart, pluginsToStop} \subseteq Seq(Plugins)
    /\ pluginState \in [Plugins -> PluginStates]
    /\ \A p \in Plugins : (pluginState[p] = "unregistered") <=> (p \notin Members)
    /\ ToSet(startupOrder) \cup ToSet(pluginsToStart) \cup ToSet(pluginsToStop) \subseteq Members
    /\ container \in [Services -> Plugins \cup {"nobody", "application"}]
    /\ failed \cup raised \subseteq Members

\* Once initialize_all() has returned with fail_fast off, a plugin has failed
\* exactly when its on_startup raised or one it depends on has failed,
\* "directly or transitively" (extensions/plugin.py:391); every other one is
\* active, if it was registered in time.
FailuresIsolated ==
    NoCall /\ runs > 0 /\ ~failFast =>
        \A p \in Members : pluginState[p] # "registered" =>
            /\ pluginState[p] \in {"active", "failed"}
            /\ pluginState[p] = "failed" <=>
                 \/ p \in raised
                 \/ \E d \in pluginNeeds[p] : pluginState[d] = "failed"

\* Whatever an active plugin depends on is active, through failures, repeated
\* initialize_all() and all of shutdown_all(), which stops dependents first.
\* Except after initialize_all() was repeated with fail_fast on: where it stops
\* half-way, plugins of the first call stay active above a failed dependency,
\* and _startup_order has the others twice.
ActiveOnActive ==
    pluginsToStart = <<>> /\ ~(failFast /\ runs > 1) =>
        \A p \in Members : pluginState[p] = "active" =>
            \A d \in pluginNeeds[p] : pluginState[d] = "active"

\* The rollback of a plugin that fails never takes away a service that was
\* there before it started, even one the plugin has replaced.
ServicesKept ==
    [][\A s \in Services : container[s] # "nobody" => container'[s] # "nobody"]_pluginVars
=============================================================================

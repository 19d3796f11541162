-------------------------- MODULE MCPluginRegistry --------------------------
(* Model-checking instance of PluginRegistry: three plugins, independent, in *)
(* a chain, two on one, one on two, and with a cycle.                        *)
EXTENDS PluginRegistry, TLC

CONSTANTS a, b, c

Needs(x, y, z) == a :> x @@ b :> y @@ c :> z
Dependencies == { Needs({}, {}, {}), Needs({}, {a}, {b}), Needs({}, {a}, {a}),
                  Needs({}, {}, {a, b}), Needs({b}, {a}, {}) }

\* One name may be an entry point of two packages.
Loadable == {<<>>, <<a, b>>, <<c, a, c>>, <<b, c, a>>}
=============================================================================

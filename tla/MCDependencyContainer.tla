----------------------- MODULE MCDependencyContainer -----------------------
(* Model-checking instance of DependencyContainer.  Two names: independent,  *)
(* a chain, a cycle, and a name that needs itself.                           *)
EXTENDS DependencyContainer, TLC

CONSTANTS a, b

Graphs == { (a :> x @@ b :> y) : x \in {{}, {b}, {a, b}}, y \in {{}, {a}} }
Symmetry == Permutations(Threads)
=============================================================================

---------------------------- MODULE MCMiddleware ----------------------------
\* Two runs, TimingMiddleware and one middleware outside it, as the consent gate
\* is; each of the two may be registered for all pipelines and for this one.
EXTENDS Middleware

MCOrder == [n \in Names |-> IF n = Timing THEN 20 ELSE 5]
MCSymmetry == Permutations(Runs)
=============================================================================

---------------------------- MODULE MCSupervisor ----------------------------
(* Model-checking instance of Supervisor.  Clients are interchangeable.      *)
EXTENDS Supervisor, TLC

Symmetry == Permutations(Clients)
=============================================================================

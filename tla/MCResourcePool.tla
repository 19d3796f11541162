--------------------------- MODULE MCResourcePool ---------------------------
(* Model-checking instance of ResourcePool: more clients than resources, so  *)
(* that two can queue while a third barges in.  Raw has an identity for      *)
(* every object that can be referred to at once: the factory never runs out. *)
EXTENDS ResourcePool

ASSUME EnoughIdentities == Cardinality(Raw) >= MaxSize + Cardinality(Clients)
=============================================================================

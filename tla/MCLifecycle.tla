---------------------------- MODULE MCLifecycle -----------------------------
(* Model-checking instance of Lifecycle.  Three names are enough for a       *)
(* diamond, a cycle, an unknown dependency and a hook of either kind alone.  *)
(* Nothing tells them apart: they are numbered as startup hooks register.    *)
EXTENDS Lifecycle

NumberedInTurn == \A i \in DOMAIN startupHooks : startupHooks[i] = i
=============================================================================

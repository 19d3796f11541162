------------------------------ MODULE LeasePool ------------------------------
(***************************************************************************)
(* What ResourcePool promises its callers, with none of its machinery: a   *)
(* live instance is leased to one client at a time, at most MaxSize leases *)
(* are out, and a lease ends only when its own client gives it back.       *)
(***************************************************************************)
EXTENDS Naturals, FiniteSets

CONSTANTS Clients, Raw, MaxSize, NoRaw

VARIABLE held   \* held[c]: the instance leased to c, or NoRaw

Leased == {held[c] : c \in Clients} \ {NoRaw}

Init == held = [c \in Clients |-> NoRaw]

Grant(c) == /\ held[c] = NoRaw
            /\ Cardinality(Leased) < MaxSize
            /\ \E raw \in Raw \ Leased : held' = [held EXCEPT ![c] = raw]

Return(c) == /\ held[c] # NoRaw
             /\ held' = [held EXCEPT ![c] = NoRaw]

Next == \E c \in Clients : Grant(c) \/ Return(c)

Spec == Init /\ [][Next]_held
==============================================================================

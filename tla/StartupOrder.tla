---------------------------- MODULE StartupOrder ----------------------------
(* Kahn's algorithm as the life cycle and the plugin registry both have it:  *)
(* what becomes ready together is queued in the order of registration.  It   *)
(* ends early, with fewer names than were registered, when there is a cycle. *)
EXTENDS Naturals, Sequences, SequencesExt

\* Those of s that are in S, in the order of s
Kept(s, S) ==
    LET kept[i \in 0..Len(s)] == IF i = 0 THEN <<>>
                                 ELSE IF s[i] \in S THEN Append(kept[i - 1], s[i])
                                 ELSE kept[i - 1]
    IN  kept[Len(s)]

\* Before the loop: nothing has its turn yet, and what needs nothing is queued.
KahnStart(registered, needs) ==
    [order |-> <<>>, queue |-> Kept(registered, {n \in ToSet(registered) : needs[n] = {}})]

\* One turn: the head of the queue is next, and those are queued for which it
\* was the last that was missing.
KahnTurn(registered, needs, before) ==
    LET current == Head(before.queue)
        order == Append(before.order, current)
        ready == {n \in ToSet(registered) : /\ current \in needs[n]
                                            /\ needs[n] \subseteq ToSet(order)}
    IN  IF before.queue = <<>> THEN before
        ELSE [order |-> order, queue |-> Tail(before.queue) \o Kept(registered, ready)]

\* The order found and the queue, after each turn
KahnRun(registered, needs) ==
    LET kahn[i \in 0..Len(registered)] ==
          IF i = 0 THEN KahnStart(registered, needs)
          ELSE KahnTurn(registered, needs, kahn[i - 1])
    IN  kahn

Kahn(registered, needs) == KahnRun(registered, needs)[Len(registered)].order
=============================================================================

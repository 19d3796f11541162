------------------------------ MODULE MCDubbing ------------------------------
EXTENDS Dubbing, TLC

Phrases == {[estimate |-> e, clauses |-> 1, pauses |-> p] : e \in {12, 26}, p \in BOOLEAN}
           \cup {[estimate |-> e, clauses |-> c, pauses |-> TRUE] : e \in {20, 60}, c \in {2, 3}}

Segment(phrase, start, duration) == phrase @@ [start |-> start, end |-> start + duration]

MCSources ==
    {<<Segment(p, 4, d), Segment(q, 4 + d + gap, e)>> :
        p \in Phrases, q \in Phrases, d \in {0, 3, 16}, e \in {2, 16, 40}, gap \in {-2, 0, 6}}

MCCues == {{}, {6}, {10}, {6, 14}, {10, 22}, {4, 12, 24}}

MCSpeeches ==
    {[words |-> <<<<"a", "b">>, <<"c">>>>, frames |-> f] :
        f \in {<<"a", "b", "-", "c">>, <<"-", "a", "b", "c">>, <<"a", "-", "c", "c">>}}
    \cup {[words |-> <<<<"a">>, <<"a", "b">>>>, frames |-> <<"a", "-", "a", "b">>],
          [words |-> <<>>, frames |-> <<"-", "-">>]}
=============================================================================

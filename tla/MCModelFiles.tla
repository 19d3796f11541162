---------------------------- MODULE MCModelFiles ----------------------------
\* Two threads of one process and one of another; a model of two files, the
\* second optional, and one resource.
EXTENDS ModelFiles

MCProcess == [c \in Clients |-> IF c = "c3" THEN "p2" ELSE "p1"]
MCModel == <<"weights", "tokens">>
=============================================================================

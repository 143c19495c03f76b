----------------------------- MODULE MCService ------------------------------
(***************************************************************************)
(* An instance of Service for TLC: two consumers, two messages, and the    *)
(* poller standing for the other two jobs, which run like it.              *)
(***************************************************************************)
EXTENDS Service

CONSTANTS s1, s2, w1

Both == <<s1, s2>>

\* All of the messages are for the consumer started first.
First == [m \in Messages |-> s1]
=============================================================================

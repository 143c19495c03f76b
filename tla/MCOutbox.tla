------------------------------ MODULE MCOutbox ------------------------------
(***************************************************************************)
(* Instances of Outbox for TLC: one command and one result, or the         *)
(* result alone.                                                           *)
(***************************************************************************)
EXTENDS Outbox

CONSTANTS c1, e1, p1, p2

KindOf == [i \in Messages |-> IF i = c1 THEN "COMMAND" ELSE "RESULT"]
=============================================================================

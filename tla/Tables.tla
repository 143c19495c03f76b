------------------------------- MODULE Tables -------------------------------
(***************************************************************************)
(* PostgreSQL tables as partial functions: the DOMAIN is the set of        *)
(* primary keys present, the value at a key is the row.                    *)
(***************************************************************************)

EmptyTable == [k \in {} |-> k]

\* INSERT of a new key, or UPDATE of the row that has it.
Put(table, key, row) ==
    [k \in DOMAIN table \cup {key} |-> IF k = key THEN row ELSE table[k]]

\* DELETE of one key.
Drop(table, key) == [k \in DOMAIN table \ {key} |-> table[k]]
=============================================================================

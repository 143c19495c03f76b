----------------------------- MODULE Authority ------------------------------
(***************************************************************************)
(* What rw-active-sessions promises to rw-bot, without inbox, outbox,      *)
(* top-up and reconciler: each operation it was asked about gets one       *)
(* verdict, whoever wins the race to give it; nothing but that verdict is  *)
(* ever told; and only a VERIFIED verdict hands out a session, to a        *)
(* Telegram user who holds no other, or renews one of the same balance.    *)
(***************************************************************************)
EXTENDS Tables, Integers

CONSTANT Commands \* verify commands: records with op, session, user, balance

VARIABLES
    cases, \* what was asked and the verdict, by operation
    held,  \* active sessions: holder, balance and version
    told   \* pairs <<operation, verdict>> rw-bot can have read

vars == <<cases, held, told>>

Init ==
    /\ cases = EmptyTable
    /\ held = EmptyTable
    /\ told = {}

Pending(op) == op \in DOMAIN cases /\ cases[op].status = "PENDING"

Ask(c) ==
    /\ c.op \notin DOMAIN cases
    /\ cases' = Put(cases, c.op, [cmd |-> c, status |-> "PENDING"])
    /\ UNCHANGED <<held, told>>

Close(op, status) ==
    /\ Pending(op)
    /\ cases' = Put(cases, op, [cmd |-> cases[op].cmd, status |-> status])

\* Mutant: other sessions are not looked for.
HoldsOther_Never(c) == FALSE

HoldsOther(c) == \E s \in DOMAIN held \ {c.session} : held[s].user = c.user

Grant(op) ==
    LET c == cases[op].cmd
    IN  /\ Close(op, "VERIFIED")
        /\ ~HoldsOther(c)
        /\ c.session \notin DOMAIN held
        /\ held' = Put(held, c.session,
                       [user |-> c.user, balance |-> c.balance, version |-> 1])
        /\ UNCHANGED told

Renew(op) ==
    LET s == cases[op].cmd.session
    IN  /\ Close(op, "VERIFIED")
        /\ ~HoldsOther(cases[op].cmd)
        /\ s \in DOMAIN held
        /\ held[s].balance = cases[op].cmd.balance
        /\ held' = Put(held, s, [user |-> held[s].user, balance |-> held[s].balance,
                                 version |-> held[s].version + 1])
        /\ UNCHANGED told

Refuse(op) ==
    /\ Close(op, "REJECTED") \/ Close(op, "EXPIRED")
    /\ UNCHANGED <<held, told>>

Tell(op) ==
    /\ op \in DOMAIN cases
    /\ cases[op].status # "PENDING"
    /\ told' = told \cup {<<op, cases[op].status>>}
    /\ UNCHANGED <<cases, held>>

Next ==
    \/ \E c \in Commands : Ask(c)
    \/ \E op \in DOMAIN cases : Grant(op) \/ Renew(op) \/ Refuse(op) \/ Tell(op)

Spec == Init /\ [][Next]_vars
=============================================================================

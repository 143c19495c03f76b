-------------------------------- MODULE Flow --------------------------------
(***************************************************************************)
(* What rw-bot promises about activation, without invites' expiry, inbox,  *)
(* outbox, pollers and dialog states: a user who is bound to a session may *)
(* try to activate it, one try at a time; a try that has been paid is put  *)
(* to the authority; and a session is shown as active only when a try was  *)
(* waiting for the verdict and heard that it is positive.  A try that ends *)
(* stays as it is, whatever is heard later.                                *)
(***************************************************************************)
EXTENDS Tables, Integers

CONSTANTS Users, Balances, SessionIDs, Ops

VARIABLES
    bound, \* inactive sessions: user and balance, by session
    tries, \* activation attempts: session, paid and status, by operation
    shown, \* sessions shown as active: user and balance, by session
    asked, \* operations whose verify command is on NATS
    heard  \* pairs <<operation, result>> on NATS

vars == <<bound, tries, shown, asked, heard>>

Open == {"OPEN", "VERIFYING"}
Results == {"activated", "rejected"}

TypeOK ==
    /\ DOMAIN bound \subseteq SessionIDs
    /\ \A s \in DOMAIN bound : bound[s] \in [user : Users, balance : Balances]
    /\ DOMAIN tries \subseteq Ops
    /\ \A o \in DOMAIN tries :
          tries[o] \in [session : SessionIDs, paid : BOOLEAN,
                        status : Open \cup {"ACTIVE", "REJECTED", "EXPIRED"}]
    /\ DOMAIN shown \subseteq SessionIDs
    /\ \A s \in DOMAIN shown : shown[s] \in [user : Users, balance : Balances]
    /\ asked \subseteq Ops
    /\ heard \subseteq Ops \X Results

Init ==
    /\ bound = EmptyTable
    /\ tries = EmptyTable
    /\ shown = EmptyTable
    /\ asked = {}
    /\ heard = {}

\* A user has one inactive session at a time, and perhaps an active one.
Bind(u, b, s) ==
    /\ \A r \in DOMAIN bound : bound[r].user # u
    /\ s \notin DOMAIN bound \cup DOMAIN shown
    /\ bound' = Put(bound, s, [user |-> u, balance |-> b])
    /\ UNCHANGED <<tries, shown, asked, heard>>

Begin(s, o) ==
    /\ s \in DOMAIN bound
    /\ \A q \in DOMAIN tries : tries[q].session = s => tries[q].status \notin Open
    /\ o \notin DOMAIN tries
    /\ tries' = Put(tries, o, [session |-> s, paid |-> FALSE, status |-> "OPEN"])
    /\ UNCHANGED <<bound, shown, asked, heard>>

Pay(o) ==
    /\ o \in DOMAIN tries /\ tries[o].status = "OPEN"
    /\ tries' = [tries EXCEPT ![o].status = "VERIFYING", ![o].paid = TRUE]
    /\ UNCHANGED <<bound, shown, asked, heard>>

\* The verify command goes out, even if the bot has given up meanwhile.
Ask(o) ==
    /\ o \in DOMAIN tries /\ tries[o].paid
    /\ asked' = asked \cup {o}
    /\ UNCHANGED <<bound, tries, shown, heard>>

\* No other session of its user is active.
Applicable(s) == \A r \in DOMAIN shown : shown[r].user # bound[s].user

\* The result is heard while the try waits for it.
Awaits(o, result) == tries[o].status = "VERIFYING" /\ <<o, result>> \in heard

Activate(o) ==
    LET s == tries[o].session
    IN  /\ o \in DOMAIN tries /\ Awaits(o, "activated")
        /\ s \in DOMAIN bound /\ Applicable(s)
        /\ tries' = [tries EXCEPT ![o].status = "ACTIVE"]
        /\ shown' = Put(shown, s, bound[s])
        /\ bound' = Drop(bound, s)
        /\ UNCHANGED <<asked, heard>>

\* Refused by top-up before payment, or by the authority after it.
Reject(o) ==
    /\ o \in DOMAIN tries
    /\ tries[o].status = "OPEN" \/ Awaits(o, "rejected")
    /\ tries' = [tries EXCEPT ![o].status = "REJECTED"]
    /\ UNCHANGED <<bound, shown, asked, heard>>

Expire(os) ==
    /\ os # {} /\ \A o \in os : o \in DOMAIN tries /\ tries[o].status \in Open
    /\ tries' = [o \in DOMAIN tries |->
          IF o \in os THEN [tries[o] EXCEPT !.status = "EXPIRED"] ELSE tries[o]]
    /\ UNCHANGED <<bound, shown, asked, heard>>

\* The environment: an operation that was asked about gets one result.
Hear(o, result) ==
    /\ o \in asked
    /\ \A r \in Results : <<o, r>> \in heard => r = result
    /\ heard' = heard \cup {<<o, result>>}
    /\ UNCHANGED <<bound, tries, shown, asked>>

Try(o) == Pay(o) \/ Ask(o) \/ Activate(o) \/ Reject(o)

\* The steps of the bot itself.
Steps ==
    \/ \E u \in Users, b \in Balances, s \in SessionIDs : Bind(u, b, s)
    \/ \E s \in SessionIDs, o \in Ops : Begin(s, o)
    \/ \E o \in Ops : Try(o)
    \/ \E os \in SUBSET Ops : Expire(os)

Next == Steps \/ \E o \in Ops, r \in Results : Hear(o, r)

Spec == Init /\ [][Next]_vars
=============================================================================

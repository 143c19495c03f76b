-------------------------------- MODULE Bot ---------------------------------
(***************************************************************************)
(* rw-bot: invites, bound but inactive sessions, activation attempts and   *)
(* the projection of active sessions (internal/bot/adapter/postgres/       *)
(* flow.go, driven by internal/bot/app/activation.go).                     *)
(*                                                                         *)
(* A user consumes an invite and gets an inactive session; sending a       *)
(* wallet begins an attempt, which asks top-up for a reservation, waits    *)
(* for the payment claim, asks rw-active-sessions for the verdict and ends *)
(* ACTIVE, REJECTED or EXPIRED.  The session's dialog state follows.       *)
(*                                                                         *)
(* The handlers of NATS messages lock the attempt, then its session, and   *)
(* are one action each, as is the one statement of ExpireAttempts.         *)
(* ConsumeInvite reads the projection without a lock, so that read is an   *)
(* action of its own.  Time shows as flags set when a deadline is passed.  *)
(* A message that fails verification or validation is rolled back: it      *)
(* changes nothing and may as well not have arrived.                       *)
(***************************************************************************)
EXTENDS Message, FiniteSets

CONSTANTS
    InviteCommands, \* invite.create commands: records [id, op, balance]
    Users,          \* Telegram users
    SessionIDs,     \* UUIDs for sessions
    Ops,            \* UUIDs for operations, one per attempt
    Txs,            \* transaction IDs
    Copies,         \* tells apart messages with one content and several IDs
    Pollers,        \* running instances of the service
    ReconcileBatch  \* LIMIT of one pass of ExpireAttempts

ASSUME BotAssumption ==
    /\ \A c, d \in InviteCommands : c.id = d.id => c = d
    /\ ReconcileBatch \in Nat \ {0}

VARIABLES
    invites,    \* invites, by the operation that created them
    inactive,   \* inactive_sessions, by session ID
    attempts,   \* activation_attempts, by operation ID
    projection, \* active_session_projection, by session ID
    inbox,      \* message_inbox
    outbox,     \* message_outbox
    sent,       \* IDs of outbox rows handed to NATS
    mail,       \* messages of top-up and rw-active-sessions on NATS
    reading     \* per poller: a ConsumeInvite that has read the projection

vars == <<invites, inactive, attempts, projection, inbox, outbox, sent, mail, reading>>

-----------------------------------------------------------------------------
(* Types                                                                   *)

Tokens   == {c.op : c \in InviteCommands}
Balances == {c.balance : c \in InviteCommands}

Awaiting == {"AWAITING_RESERVATION", "AWAITING_PAYMENT", "AWAITING_VERIFICATION"}
Ended    == {"ACTIVE", "REJECTED", "EXPIRED"}

NoAttempt == "none"
NoTx      == "none"

Mail ==
    [kind : {"reserved", "reserve_rejected", "activated", "rejected"},
     op : Ops, tx : {NoTx}, copy : Copies]
    \cup [kind : {"payment"}, op : Ops, tx : Txs, copy : Copies]

Invite == [balance : Balances, status : {"ACTIVE", "CONSUMED"}, expired : BOOLEAN]

InactiveSession ==
    [user : Users, balance : Balances, token : Tokens,
     dialog : Awaiting \cup {"AWAITING_WALLET", "REJECTED"},
     attempt : Ops \cup {NoAttempt}]

\* offered: external_reservation_id and the offer's times are set.
Attempt ==
    [session : SessionIDs, status : Awaiting \cup Ended, reserve : Nat, verify : Nat,
     tx : Txs \cup {NoTx}, offered : BOOLEAN, overdue : BOOLEAN]

Active == [user : Users, balance : Balances, token : Tokens]

OutboxRow ==
    [kind : {"COMMAND", "RESULT"}, about : Ops \cup Tokens,
     status : {"PENDING", "PUBLISHED"} \cup OutboxTerminal]

Reading == [user : Users, token : Tokens]
NotReading == [user |-> "none", token |-> "none"]

TypeOK ==
    /\ DOMAIN invites \subseteq Tokens
    /\ \A t \in DOMAIN invites : invites[t] \in Invite
    /\ DOMAIN inactive \subseteq SessionIDs
    /\ \A s \in DOMAIN inactive : inactive[s] \in InactiveSession
    /\ DOMAIN attempts \subseteq Ops
    /\ \A o \in DOMAIN attempts : attempts[o] \in Attempt
    /\ DOMAIN projection \subseteq SessionIDs
    /\ \A s \in DOMAIN projection : projection[s] \in Active
    /\ DOMAIN inbox \subseteq Mail \cup {c.id : c \in InviteCommands}
    /\ \A m \in DOMAIN inbox : inbox[m] \in InboxRow
    /\ outbox \in Seq(OutboxRow)
    /\ sent \subseteq Nat
    /\ mail \subseteq Mail
    /\ reading \in [Pollers -> Reading \cup {NotReading}]

Init ==
    /\ invites = EmptyTable
    /\ inactive = EmptyTable
    /\ attempts = EmptyTable
    /\ projection = EmptyTable
    /\ inbox = EmptyTable
    /\ outbox = <<>>
    /\ sent = {}
    /\ mail = {}
    /\ reading = [p \in Pollers |-> NotReading]

Row(kind, about) == [kind |-> kind, about |-> about, status |-> "PENDING"]

-----------------------------------------------------------------------------
(* Invites                                                                 *)

\* CreateInvite of a new message ID.  A second one for an operation
\* violates the unique key and is rolled back.
CreateInvite(c) ==
    /\ Accepted(inbox, c.id)
    /\ c.op \notin DOMAIN invites
    /\ inbox' = CompleteInbox(RegisterInbox(inbox, c.id), {c.id}, NextID(outbox))
    /\ outbox' = InsertOutbox(outbox, Row("RESULT", c.op))
    /\ invites' = Put(invites, c.op,
            [balance |-> c.balance, status |-> "ACTIVE", expired |-> FALSE])
    /\ UNCHANGED <<inactive, attempts, projection, sent, mail, reading>>

RepeatCreateInvite(c) ==
    /\ HasResult(inbox, c.id)
    /\ outbox' = RequeueOutbox(outbox, inbox[c.id].result)
    /\ UNCHANGED <<invites, inactive, attempts, projection, inbox, sent, mail, reading>>

IsActive(u) == \E s \in DOMAIN projection : projection[s].user = u

IsBound(u) == \E s \in DOMAIN inactive : inactive[s].user = u

\* ConsumeInvite, first statement: no active session is found for the user.
\* (If one is found the invite is left alone.)
ReadProjection(p, u, t) ==
    /\ reading[p] = NotReading
    /\ ~IsActive(u)
    /\ reading' = [reading EXCEPT ![p] = [user |-> u, token |-> t]]
    /\ UNCHANGED <<invites, inactive, attempts, projection, inbox, outbox, sent, mail>>

\* Mutant: the row is not read FOR UPDATE and its status not looked at.
InviteUsable_AnyStatus(t) == t \in DOMAIN invites /\ ~invites[t].expired

InviteUsable(t) ==
    t \in DOMAIN invites /\ invites[t].status = "ACTIVE" /\ ~invites[t].expired

\* ConsumeInvite, the rest: no inactive session of the user, a usable invite.
ConsumeInvite(p, s) ==
    LET u == reading[p].user
        t == reading[p].token
    IN  /\ reading[p] # NotReading
        /\ ~IsBound(u)
        /\ InviteUsable(t)
        /\ s \in SessionIDs \ (DOMAIN inactive \cup DOMAIN projection)
        /\ inactive' = Put(inactive, s,
                [user |-> u, balance |-> invites[t].balance, token |-> t,
                 dialog |-> "AWAITING_WALLET", attempt |-> NoAttempt])
        /\ invites' = [invites EXCEPT ![t].status = "CONSUMED"]
        /\ reading' = [reading EXCEPT ![p] = NotReading]
        /\ UNCHANGED <<attempts, projection, inbox, outbox, sent, mail>>

\* ConsumeInvite that finds an inactive session or no usable invite, or is
\* cut off by a crash.
AbandonConsume(p) ==
    /\ reading[p] # NotReading
    /\ reading' = [reading EXCEPT ![p] = NotReading]
    /\ UNCHANGED <<invites, inactive, attempts, projection, inbox, outbox, sent, mail>>

-----------------------------------------------------------------------------
(* Attempts                                                                *)

\* Mutant: a second wallet is accepted at any time.
MayBegin_Always(s) == TRUE

MayBegin(s) == inactive[s].dialog \in {"AWAITING_WALLET", "REJECTED"}

\* BeginActivation, by a poller that is not busy with an invite.
BeginActivation(p, s, o) ==
    /\ reading[p] = NotReading
    /\ s \in DOMAIN inactive
    /\ MayBegin(s)
    /\ o \in Ops \ DOMAIN attempts
    /\ outbox' = InsertOutbox(outbox, Row("COMMAND", o))
    /\ attempts' = Put(attempts, o,
            [session |-> s, status |-> "AWAITING_RESERVATION",
             reserve |-> NextID(outbox), verify |-> 0, tx |-> NoTx,
             offered |-> FALSE, overdue |-> FALSE])
    /\ inactive' = [inactive EXCEPT ![s].dialog = "AWAITING_RESERVATION",
                                    ![s].attempt = o]
    /\ UNCHANGED <<invites, projection, inbox, sent, mail, reading>>

\* A message whose ID is new, about an attempt in the given status.
Arrives(m, kind, status) ==
    /\ m \in mail
    /\ m.kind = kind
    /\ Accepted(inbox, m)
    /\ m.op \in DOMAIN attempts
    /\ attempts[m.op].status = status

Acknowledge(m) == inbox' = AcknowledgeInbox(RegisterInbox(inbox, m), m)

\* Mutant: the command is not confirmed.
Answered_LeftOpen(id) == outbox

\* The command this message answers is done with.
Answered(id) == ConfirmOutbox(outbox, id)

SetDialog(s, dialog) == [inactive EXCEPT ![s].dialog = dialog]

ApplyReserved(m) ==
    LET a == attempts[m.op]
    IN  /\ Arrives(m, "reserved", "AWAITING_RESERVATION")
        /\ a.session \in DOMAIN inactive
        /\ attempts' = [attempts EXCEPT ![m.op].status = "AWAITING_PAYMENT",
                            ![m.op].offered = TRUE, ![m.op].overdue = FALSE]
        /\ inactive' = SetDialog(a.session, "AWAITING_PAYMENT")
        /\ outbox' = Answered(a.reserve)
        /\ Acknowledge(m)
        /\ UNCHANGED <<invites, projection, sent, mail, reading>>

ApplyReserveRejected(m) ==
    LET a == attempts[m.op]
    IN  /\ Arrives(m, "reserve_rejected", "AWAITING_RESERVATION")
        /\ a.session \in DOMAIN inactive
        /\ attempts' = [attempts EXCEPT ![m.op].status = "REJECTED"]
        /\ inactive' = SetDialog(a.session, "REJECTED")
        /\ outbox' = Answered(a.reserve)
        /\ Acknowledge(m)
        /\ UNCHANGED <<invites, projection, sent, mail, reading>>

\* The partial unique index on (network, transaction_id).
TxUnused(tx) == \A o \in DOMAIN attempts : attempts[o].tx # tx

ApplyPayment(m) ==
    LET a == attempts[m.op]
    IN  /\ Arrives(m, "payment", "AWAITING_PAYMENT")
        /\ a.session \in DOMAIN inactive
        /\ TxUnused(m.tx)
        /\ outbox' = InsertOutbox(outbox, Row("COMMAND", m.op))
        /\ attempts' = [attempts EXCEPT ![m.op].status = "AWAITING_VERIFICATION",
                            ![m.op].verify = NextID(outbox), ![m.op].tx = m.tx,
                            ![m.op].overdue = FALSE]
        /\ inactive' = SetDialog(a.session, "AWAITING_VERIFICATION")
        /\ Acknowledge(m)
        /\ UNCHANGED <<invites, projection, sent, mail, reading>>

\* Mutant: the DELETE is missing.
Unlisted_Forgotten(s) == inactive

\* The inactive session is deleted.
Unlisted(s) == Drop(inactive, s)

\* CompleteActivation with a positive verdict.  The projection's unique key
\* on the Telegram user makes it fail while another session is active.
CompleteActivated(m) ==
    LET a == attempts[m.op]
        s == a.session
    IN  /\ Arrives(m, "activated", "AWAITING_VERIFICATION")
        /\ s \in DOMAIN inactive
        /\ ~\E t \in DOMAIN projection \ {s} : projection[t].user = inactive[s].user
        /\ projection' = Put(projection, s,
                [user |-> inactive[s].user, balance |-> inactive[s].balance,
                 token |-> inactive[s].token])
        /\ attempts' = [attempts EXCEPT ![m.op].status = "ACTIVE"]
        /\ inactive' = Unlisted(s)
        /\ outbox' = Answered(a.verify)
        /\ Acknowledge(m)
        /\ UNCHANGED <<invites, sent, mail, reading>>

\* CompleteActivation with a rejection.
CompleteRejected(m) ==
    LET a == attempts[m.op]
    IN  /\ Arrives(m, "rejected", "AWAITING_VERIFICATION")
        /\ a.session \in DOMAIN inactive
        /\ attempts' = [attempts EXCEPT ![m.op].status = "REJECTED"]
        /\ inactive' = SetDialog(a.session, "REJECTED")
        /\ outbox' = Answered(a.verify)
        /\ Acknowledge(m)
        /\ UNCHANGED <<invites, projection, sent, mail, reading>>

\* The status each kind of message is for.
Expected(kind) ==
    CASE kind \in {"reserved", "reserve_rejected"} -> "AWAITING_RESERVATION"
      [] kind = "payment"                          -> "AWAITING_PAYMENT"
      [] kind \in {"activated", "rejected"}        -> "AWAITING_VERIFICATION"

\* Any of the handlers, for an attempt that is not, or no longer, waiting
\* for this.  ApplyPayment cannot read an attempt without an offer: it
\* fails, and the message is not registered.
IgnoreUnexpected(m) ==
    /\ m \in mail
    /\ Accepted(inbox, m)
    /\ m.op \in DOMAIN attempts
    /\ attempts[m.op].status # Expected(m.kind)
    /\ m.kind = "payment" => attempts[m.op].offered
    /\ inbox' = RejectInbox(RegisterInbox(inbox, m), m)
    /\ UNCHANGED <<invites, inactive, attempts, projection, outbox, sent, mail, reading>>

\* Mutants: only the attempts that wait for a payment are looked at; the
\* status is not looked at.
Expirable_PaymentOnly(o) ==
    attempts[o].status = "AWAITING_PAYMENT" /\ attempts[o].overdue

Expirable_AnyStatus(o) == attempts[o].overdue

Expirable(o) == attempts[o].status \in Awaiting /\ attempts[o].overdue

\* Mutant: the dialog gets the status of the attempt.
DialogAfterExpiry_AsAttempt(s, taken) ==
    IF \E o \in taken : attempts[o].session = s THEN "EXPIRED" ELSE inactive[s].dialog

DialogAfterExpiry(s, taken) ==
    IF \E o \in taken : attempts[o].session = s THEN "REJECTED" ELSE inactive[s].dialog

\* The one statement of ExpireAttempts.
ExpireAttempts ==
    LET due == {o \in DOMAIN attempts : Expirable(o)}
    IN  \E taken \in (SUBSET due) \ {{}} :
           /\ Cardinality(taken) <= ReconcileBatch
           /\ attempts' = [o \in DOMAIN attempts |->
                IF o \in taken THEN [attempts[o] EXCEPT !.status = "EXPIRED"]
                               ELSE attempts[o]]
           /\ inactive' = [s \in DOMAIN inactive |->
                [inactive[s] EXCEPT !.dialog = DialogAfterExpiry(s, taken)]]
           /\ UNCHANGED <<invites, projection, inbox, outbox, sent, mail, reading>>

-----------------------------------------------------------------------------
(* Publisher and time                                                      *)

Publish(i) ==
    /\ outbox[i].status = "PENDING"
    /\ sent' = sent \cup {i}
    /\ \/ outbox' = [outbox EXCEPT ![i].status = "PUBLISHED"]
       \/ i \notin sent /\ UNCHANGED outbox
    /\ UNCHANGED <<invites, inactive, attempts, projection, inbox, mail, reading>>

\* publishBatch finds the row past its expiry.
KillExpired(i) ==
    /\ outbox[i].status \notin OutboxTerminal
    /\ outbox' = [outbox EXCEPT ![i].status = "DEAD"]
    /\ UNCHANGED <<invites, inactive, attempts, projection, inbox, sent, mail, reading>>

RunOver(o) ==
    /\ ~attempts[o].overdue
    /\ attempts[o].status \in Awaiting
    /\ attempts' = [attempts EXCEPT ![o].overdue = TRUE]
    /\ UNCHANGED <<invites, inactive, projection, inbox, outbox, sent, mail, reading>>

InviteRunsOut(t) ==
    /\ ~invites[t].expired
    /\ invites' = [invites EXCEPT ![t].expired = TRUE]
    /\ UNCHANGED <<inactive, attempts, projection, inbox, outbox, sent, mail, reading>>

-----------------------------------------------------------------------------
(* Top-up and rw-active-sessions, external here                            *)

\* Top-up answers a reserve command it was sent, perhaps more than once, and
\* claims a payment for a reservation it has made.
TopupSays(m) ==
    \/ m.kind \in {"reserved", "reserve_rejected"} /\ attempts[m.op].reserve \in sent
    \/ m.kind = "payment" /\ \E n \in mail : n.kind = "reserved" /\ n.op = m.op

\* rw-active-sessions answers a verify command, always with the same verdict,
\* and as one message (module Activation has the authority itself).
AuthoritySays(m) ==
    /\ m.kind \in {"activated", "rejected"}
    /\ attempts[m.op].verify \in sent
    /\ ~\E n \in mail : n.op = m.op /\ n.kind \in {"activated", "rejected"}

\* Message m is on NATS from now on.
Arrive(m) ==
    /\ m \in Mail \ mail
    /\ mail' = mail \cup {m}
    /\ UNCHANGED <<invites, inactive, attempts, projection, inbox, outbox, sent, reading>>

Answer(m) ==
    /\ m.op \in DOMAIN attempts
    /\ TopupSays(m) \/ AuthoritySays(m)
    /\ Arrive(m)

-----------------------------------------------------------------------------

HandleInviteCreate(c) == CreateInvite(c) \/ RepeatCreateInvite(c)

HandleUpdate(p) ==
    \/ \E u \in Users, t \in Tokens : ReadProjection(p, u, t)
    \/ \E s \in SessionIDs : ConsumeInvite(p, s)
    \/ AbandonConsume(p)
    \/ \E s \in DOMAIN inactive, o \in Ops : BeginActivation(p, s, o)

HandleMail(m) ==
    \/ ApplyReserved(m)
    \/ ApplyReserveRejected(m)
    \/ ApplyPayment(m)
    \/ CompleteActivated(m)
    \/ CompleteRejected(m)
    \/ IgnoreUnexpected(m)

\* The steps of the service and of time.
ServiceNext ==
    \/ \E c \in InviteCommands : HandleInviteCreate(c)
    \/ \E p \in Pollers : HandleUpdate(p)
    \/ \E m \in mail : HandleMail(m)
    \/ ExpireAttempts
    \/ \E i \in DOMAIN outbox : Publish(i) \/ KillExpired(i)
    \/ \E o \in DOMAIN attempts : RunOver(o)
    \/ \E t \in DOMAIN invites : InviteRunsOut(t)

Next == ServiceNext \/ \E m \in Mail : Answer(m)

Spec == Init /\ [][Next]_vars

\* Deadlines pass and the reconciler keeps running.
FairSpec ==
    /\ Spec
    /\ WF_vars(ExpireAttempts)
    /\ \A o \in Ops : WF_vars(o \in DOMAIN attempts /\ RunOver(o))

-----------------------------------------------------------------------------
(* Properties                                                              *)

OpenAttempts(s) == {o \in DOMAIN attempts :
                        attempts[o].session = s /\ attempts[o].status \in Awaiting}

\* A session's dialog state and its attempts agree, though events of old
\* attempts, expiry and new attempts come in any order: it waits for
\* something exactly if its current attempt waits for that, and then no
\* other attempt of it is open; otherwise none is.  Open attempts belong to
\* inactive sessions.  (ExpireAttempts resets the dialog by session ID
\* alone: this is why it cannot hit a newer attempt.)
DialogFollowsAttempt ==
    /\ \A s \in DOMAIN inactive :
          IF inactive[s].dialog \in Awaiting
          THEN /\ OpenAttempts(s) = {inactive[s].attempt}
               /\ attempts[inactive[s].attempt].status = inactive[s].dialog
          ELSE OpenAttempts(s) = {}
    /\ \A o \in DOMAIN attempts :
          attempts[o].status \in Awaiting => attempts[o].session \in DOMAIN inactive

\* A session is active exactly if one of its attempts ended ACTIVE, then
\* only one did, and the session is no longer listed as inactive.
ActiveThroughOneAttempt ==
    \A s \in SessionIDs :
        LET won == {o \in DOMAIN attempts :
                       attempts[o].session = s /\ attempts[o].status = "ACTIVE"}
        IN  /\ s \in DOMAIN projection => \E o \in won : won = {o}
            /\ won # {} => s \in DOMAIN projection /\ s \notin DOMAIN inactive

\* No two sessions, active or not, were bound with the same invite.
InviteUsedOnce ==
    LET TokenOf(s) == IF s \in DOMAIN inactive THEN inactive[s].token
                                               ELSE projection[s].token
    IN  \A s, r \in DOMAIN inactive \cup DOMAIN projection :
           TokenOf(s) = TokenOf(r) => s = r

\* A command is open only while its attempt waits for the answer, or was
\* given up: no answered question is asked again.
NoAnsweredCommandOpen ==
    \A o \in DOMAIN attempts :
        LET a == attempts[o]
        IN  /\ outbox[a.reserve].status \in OutboxTerminal
               \/ a.status \in {"AWAITING_RESERVATION", "EXPIRED"}
            /\ a.verify # 0 =>
               \/ outbox[a.verify].status \in OutboxTerminal
               \/ a.status \in {"AWAITING_VERIFICATION", "EXPIRED"}

\* How an attempt ended, and the payment it rests on, never change.
EndedAttemptsStay ==
    [][\A o \in DOMAIN attempts :
          /\ o \in DOMAIN attempts'
          /\ attempts[o].status \in Ended => attempts'[o] = attempts[o]
          /\ attempts[o].tx # NoTx => attempts'[o].tx = attempts[o].tx]_vars

\* Every attempt ends, whatever top-up and rw-active-sessions do.
EveryAttemptEnds ==
    \A o \in Ops :
        (o \in DOMAIN attempts) ~> (o \in DOMAIN attempts /\ attempts[o].status \in Ended)

-----------------------------------------------------------------------------
(* The promise the bot makes                                               *)

\* A session in either table without what only the bot keeps.
Holder(row) == [user |-> row.user, balance |-> row.balance]

StatusOf(status) ==
    CASE status \in {"AWAITING_RESERVATION", "AWAITING_PAYMENT"} -> "OPEN"
      [] status = "AWAITING_VERIFICATION"                        -> "VERIFYING"
      [] status \in Ended                                        -> status

Bound == [s \in DOMAIN inactive |-> Holder(inactive[s])]

Shown == [s \in DOMAIN projection |-> Holder(projection[s])]

Tries == [o \in DOMAIN attempts |->
            [session |-> attempts[o].session, paid |-> attempts[o].verify # 0,
             status |-> StatusOf(attempts[o].status)]]

Asked == {o \in DOMAIN attempts : attempts[o].verify \in sent}

Heard == {<<m.op, m.kind>> : m \in {n \in mail : n.kind \in {"activated", "rejected"}}}

F == INSTANCE Flow WITH bound <- Bound, tries <- Tries, shown <- Shown,
                        asked <- Asked, heard <- Heard

\* Racing pollers, repeated and late messages, expiry and the publisher
\* notwithstanding, the bot is the front end module Flow describes: one try
\* at a time, a verdict applied only to the try that waits for it, and
\* ended tries that no later message revives.
ImplementsFlow == F!Spec

-----------------------------------------------------------------------------
(* What the documents say and the code does not do                         *)

\* "A Telegram identity has only one non-terminal/active binding at a time."
OneBindingPerUser ==
    \A s \in DOMAIN inactive : ~IsActive(inactive[s].user)
=============================================================================

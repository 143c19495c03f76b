------------------------------ MODULE Sessions ------------------------------
(***************************************************************************)
(* rw-active-sessions, the authority over active sessions.                 *)
(*                                                                         *)
(* A verify command from rw-bot opens a verification and puts a command    *)
(* for top-up into the outbox; top-up's answer closes the verification,    *)
(* pins the balance's wallet and creates or renews the active session; a   *)
(* reconciler in every replica closes verifications whose offer has run    *)
(* out and replaces top-up commands that died unanswered.                  *)
(*                                                                         *)
(* Every handler is one READ COMMITTED transaction.  Handlers of one       *)
(* operation are serialised by the inbox insert and the row lock on the    *)
(* verification, handlers of different operations by the advisory locks    *)
(* taken on balance, Telegram identity and transaction before anything is  *)
(* read, so each handler is one action.  The reconciler reads its batch    *)
(* outside of those transactions, hence its items may be stale.            *)
(*                                                                         *)
(* Core NATS may lose, repeat and reorder: what was once sent stays        *)
(* receivable for ever, and nothing has to be received.                    *)
(***************************************************************************)
EXTENDS Message, FiniteSets

CONSTANTS
    Commands,       \* verify commands of rw-bot, with their signed payload
    AnswerIDs,      \* message IDs of top-up's answers
    Replicas,       \* running instances of the service
    TopupTTL,       \* lifetime of a top-up command (5 minutes)
    ResultTTL,      \* lifetime of a result (24 hours)
    Skew,           \* how far ahead finalized_at may lie (2 minutes)
    ReconcileBatch, \* LIMIT of one reconciliation query
    MaxTime         \* bound of the clock, past every offer

\* The components of a command's payload that handlers tell apart.
Ops      == {c.op : c \in Commands}
Balances == {c.balance : c \in Commands}
Wallets  == {c.wallet : c \in Commands}
Users    == {c.user : c \in Commands}
Txs      == {c.tx : c \in Commands}
IDs      == {c.id : c \in Commands} \cup AnswerIDs

\* A message ID stands for one payload, a command outlives its offer (the
\* bot adds 30 minutes), answers have IDs of their own.
ASSUME CommandsAssumption ==
    /\ \A c, d \in Commands : c.id = d.id => c = d
    /\ \A c \in Commands : c.id \notin AnswerIDs
    /\ \A c \in Commands : c.offer \in Nat /\ c.expires \in Nat
    /\ \A c \in Commands : c.offer <= c.expires

ASSUME BoundsAssumption ==
    /\ TopupTTL \in Nat \ {0} /\ ResultTTL \in Nat \ {0} /\ Skew \in Nat
    /\ ReconcileBatch \in Nat \ {0} /\ MaxTime \in Nat

VARIABLES
    now,           \* the clock
    inbox,         \* message_inbox
    outbox,        \* message_outbox
    verifications, \* activation_verifications, by operation ID
    identities,    \* balance_identities: balance -> pinned wallet
    sessions,      \* active_sessions, by session ID
    events,        \* session_events
    sent,          \* IDs of outbox rows handed to NATS
    answers,       \* top-up's answers on NATS, by message ID
    batch,         \* items a replica's reconciler still has to work off
    batchNow       \* the clock reading the reconciler took for its batch

vars == <<now, inbox, outbox, verifications, identities, sessions, events,
          sent, answers, batch, batchNow>>

-----------------------------------------------------------------------------
(* Types                                                                   *)

RejectionCodes == {"CONTRACT_VIOLATION", "WALLET_MISMATCH", "CONFLICT", "REFUSED"}

ResultCodes == RejectionCodes \cup {"ACTIVATED", "EXPIRED"}

OutboxRow ==
    [kind : {"COMMAND", "RESULT"}, op : Ops, code : ResultCodes \cup {"VERIFY"},
     version : Nat, expires : Nat,
     status : {"PENDING", "PUBLISHED"} \cup OutboxTerminal]

Verification ==
    [cmd : Commands, topup : Nat \ {0}, code : ResultCodes \cup {"NONE"},
     status : {"PENDING", "VERIFIED", "REJECTED", "EXPIRED"}]

ActiveSession == [balance : Balances, user : Users, tx : Txs, version : Nat \ {0}]

SessionIDs == {c.session : c \in Commands}

Event ==
    [session : SessionIDs, op : Ops, type : {"ACTIVATED", "REACTIVATED"},
     version : Nat \ {0}]

Answer ==
    [op : Ops, kind : {"verified", "rejected"}, same : BOOLEAN, finalized : Nat]

RetryItem == [op : Ops, topup : Nat \ {0}, offer : Nat]

TypeOK ==
    /\ now \in Nat
    /\ DOMAIN inbox \subseteq IDs
    /\ \A m \in DOMAIN inbox : inbox[m] \in InboxRow
    /\ outbox \in Seq(OutboxRow)
    /\ DOMAIN verifications \subseteq Ops
    /\ \A o \in DOMAIN verifications : verifications[o] \in Verification
    /\ DOMAIN identities \subseteq Balances
    /\ \A b \in DOMAIN identities : identities[b] \in Wallets
    /\ DOMAIN sessions \subseteq SessionIDs
    /\ \A s \in DOMAIN sessions : sessions[s] \in ActiveSession
    /\ events \subseteq Event
    /\ sent \subseteq DOMAIN outbox
    /\ DOMAIN answers \subseteq AnswerIDs
    /\ \A a \in DOMAIN answers : answers[a] \in Answer
    /\ batch \in [Replicas -> SUBSET RetryItem]
    /\ batchNow \in [Replicas -> Nat]

Init ==
    /\ now = 0
    /\ inbox = EmptyTable
    /\ outbox = <<>>
    /\ verifications = EmptyTable
    /\ identities = EmptyTable
    /\ sessions = EmptyTable
    /\ events = {}
    /\ sent = {}
    /\ answers = EmptyTable
    /\ batch = [r \in Replicas |-> {}]
    /\ batchNow = [r \in Replicas |-> 0]

-----------------------------------------------------------------------------
(* Verify commands from rw-bot                                             *)

Earlier(s, t) == IF s < t THEN s ELSE t

TopupCommand(op, expires) ==
    [kind |-> "COMMAND", op |-> op, code |-> "VERIFY", version |-> 0,
     expires |-> expires, status |-> "PENDING"]

\* ValidateActivation: the offer must still be open, for duplicates too.
ValidateActivation(c) == now < c.offer

\* Mutant: no unique key on operation_id.
OperationIsNew_NoUniqueKey(c) == TRUE

\* AcceptVerification of a new message ID.  A second command for an
\* operation violates the unique key of the table and is rolled back.
OperationIsNew(c) == c.op \notin DOMAIN verifications

AcceptVerification(c) ==
    /\ ValidateActivation(c)
    /\ Accepted(inbox, c.id)
    /\ OperationIsNew(c)
    /\ inbox' = RegisterInbox(inbox, c.id)
    /\ outbox' = InsertOutbox(outbox,
                    TopupCommand(c.op, Earlier(now + TopupTTL, c.expires)))
    /\ verifications' = Put(verifications, c.op,
            [cmd |-> c, topup |-> NextID(outbox), code |-> "NONE",
             status |-> "PENDING"])
    /\ UNCHANGED <<now, identities, sessions, events, sent, answers, batch, batchNow>>

\* AcceptVerification of a message ID already in the inbox: the saved
\* result, if there is one, goes out again.
RepeatVerification(c) ==
    /\ ValidateActivation(c)
    /\ HasResult(inbox, c.id)
    /\ outbox' = RequeueOutbox(outbox, inbox[c.id].result)
    /\ UNCHANGED <<now, inbox, verifications, identities, sessions, events,
                   sent, answers, batch, batchNow>>

-----------------------------------------------------------------------------
(* Closing a verification                                                  *)

Result(op, code, version) ==
    [kind |-> "RESULT", op |-> op, code |-> code, version |-> version,
     expires |-> now + ResultTTL, status |-> "PENDING"]

\* Mutant: the command's own inbox row is forgotten.
ToComplete_AnswersOnly(op, incoming) == incoming

\* The inbox rows that get the result.
ToComplete(op, incoming) == {verifications[op].cmd.id} \cup incoming

\* The tail completeRejected, ApplyTopupVerified and ExpireVerification
\* have in common: insert the result, set the verdict, complete the inbox
\* rows of the command and of the answers (box is the inbox in which the
\* answer, if there is one, is registered), confirm the top-up command.
Complete(box, incoming, op, status, code, version) ==
    LET v == verifications[op]
    IN  /\ Processing(box, v.cmd.id)
        /\ outbox' = ConfirmOutbox(
                        InsertOutbox(outbox, Result(op, code, version)), v.topup)
        /\ verifications' = Put(verifications, op,
                        [v EXCEPT !.status = status, !.code = code])
        /\ inbox' = CompleteInbox(box, ToComplete(op, incoming), NextID(outbox))

\* Any other status: a terminal verification is never finished again.
IsPending(op) == op \in DOMAIN verifications /\ verifications[op].status = "PENDING"

-----------------------------------------------------------------------------
(* Answers from top-up                                                     *)

\* Mutant: finalized_at is not compared with the end of the offer.
PaymentProven_NoDeadline(c, ans) == ans.same /\ ans.finalized <= now + Skew

\* sameFacts and the two deadline checks.
PaymentProven(c, ans) ==
    /\ ans.same
    /\ ans.finalized <= c.offer
    /\ ans.finalized <= now + Skew

\* Mutant: the stored wallet is not compared.
WalletMatches_Unchecked(c) == TRUE

\* ensureIdentity: the first wallet seen for a balance is the balance's
\* wallet.
WalletMatches(c) ==
    c.balance \in DOMAIN identities => identities[c.balance] = c.wallet

PinWallet(c) ==
    IF c.balance \in DOMAIN identities THEN identities
                                       ELSE Put(identities, c.balance, c.wallet)

\* Mutant: only the Telegram identity is looked up.
OtherSessionHolds_UserOnly(c) ==
    \E s \in DOMAIN sessions \ {c.session} : sessions[s].user = c.user

\* activateSession: another session of the same Telegram identity, or one
\* that was last activated by the same transaction.
OtherSessionHolds(c) ==
    \E s \in DOMAIN sessions \ {c.session} :
        sessions[s].user = c.user \/ sessions[s].tx = c.tx

ActivationConflict(c) ==
    \/ OtherSessionHolds(c)
    \/ c.session \in DOMAIN sessions /\ sessions[c.session].balance # c.balance

\* Mutants: a renewal that keeps the version; a renewal that hands the
\* session to the Telegram user of the command.
Activated_SameVersion(c) ==
    IF c.session \in DOMAIN sessions
    THEN [sessions[c.session] EXCEPT !.tx = c.tx]
    ELSE [balance |-> c.balance, user |-> c.user, tx |-> c.tx, version |-> 1]

Activated_NewHolder(c) ==
    IF c.session \in DOMAIN sessions
    THEN [sessions[c.session] EXCEPT !.tx = c.tx, !.user = c.user, !.version = @ + 1]
    ELSE [balance |-> c.balance, user |-> c.user, tx |-> c.tx, version |-> 1]

\* A new session takes everything from the command; a renewed one keeps
\* its balance and Telegram identity.
Activated(c) ==
    IF c.session \in DOMAIN sessions
    THEN [sessions[c.session] EXCEPT !.tx = c.tx, !.version = @ + 1]
    ELSE [balance |-> c.balance, user |-> c.user, tx |-> c.tx, version |-> 1]

ActivationEvent(c) ==
    [session |-> c.session, op |-> c.op, version |-> Activated(c).version,
     type |-> IF c.session \in DOMAIN sessions THEN "REACTIVATED" ELSE "ACTIVATED"]

\* An answer whose message ID is new and whose verification is open.
OpenAnswer(a) ==
    /\ a \in DOMAIN answers
    /\ Accepted(inbox, a)
    /\ IsPending(answers[a].op)

\* ApplyTopupVerified, down to activateSession and the VERIFIED verdict.
ActivateSession(a) ==
    LET op == answers[a].op
        c  == verifications[op].cmd
    IN  /\ OpenAnswer(a)
        /\ answers[a].kind = "verified"
        /\ PaymentProven(c, answers[a])
        /\ WalletMatches(c)
        /\ ~ActivationConflict(c)
        /\ identities' = PinWallet(c)
        /\ sessions' = Put(sessions, c.session, Activated(c))
        /\ events' = events \cup {ActivationEvent(c)}
        /\ Complete(RegisterInbox(inbox, a), {a}, op, "VERIFIED", "ACTIVATED",
                    Activated(c).version)
        /\ UNCHANGED <<now, sent, answers, batch, batchNow>>

\* ApplyTopupVerified that ends in completeRejected before ensureIdentity
\* has written anything.
RefuseVerified(a) ==
    LET op == answers[a].op
        c  == verifications[op].cmd
    IN  /\ OpenAnswer(a)
        /\ answers[a].kind = "verified"
        /\ ~PaymentProven(c, answers[a]) \/ ~WalletMatches(c)
        /\ Complete(RegisterInbox(inbox, a), {a}, op, "REJECTED",
                    IF PaymentProven(c, answers[a]) THEN "WALLET_MISMATCH"
                                                    ELSE "CONTRACT_VIOLATION", 0)
        /\ UNCHANGED <<now, identities, sessions, events, sent, answers,
                       batch, batchNow>>

\* ApplyTopupVerified that ends in completeRejected with ErrActivationConflict:
\* the wallet ensureIdentity has pinned is committed with the rejection.
RefuseConflict(a) ==
    LET op == answers[a].op
        c  == verifications[op].cmd
    IN  /\ OpenAnswer(a)
        /\ answers[a].kind = "verified"
        /\ PaymentProven(c, answers[a])
        /\ WalletMatches(c)
        /\ ActivationConflict(c)
        /\ identities' = PinWallet(c)
        /\ Complete(RegisterInbox(inbox, a), {a}, op, "REJECTED", "CONFLICT", 0)
        /\ UNCHANGED <<now, sessions, events, sent, answers, batch, batchNow>>

ApplyTopupRejected(a) ==
    /\ OpenAnswer(a)
    /\ answers[a].kind = "rejected"
    /\ Complete(RegisterInbox(inbox, a), {a}, answers[a].op, "REJECTED", "REFUSED", 0)
    /\ UNCHANGED <<now, identities, sessions, events, sent, answers, batch, batchNow>>

\* Either handler, for an answer to a verification that is closed already.
IgnoreLateAnswer(a) ==
    /\ a \in DOMAIN answers
    /\ Accepted(inbox, a)
    /\ answers[a].op \in DOMAIN verifications
    /\ ~IsPending(answers[a].op)
    /\ inbox' = RejectInbox(RegisterInbox(inbox, a), a)
    /\ UNCHANGED <<now, outbox, verifications, identities, sessions, events,
                   sent, answers, batch, batchNow>>

\* Either handler, for an answer seen before.
RepeatAnswer(a) ==
    /\ a \in DOMAIN answers
    /\ HasResult(inbox, a)
    /\ outbox' = RequeueOutbox(outbox, inbox[a].result)
    /\ UNCHANGED <<now, inbox, verifications, identities, sessions, events,
                   sent, answers, batch, batchNow>>

-----------------------------------------------------------------------------
(* Reconciler                                                              *)

\* Mutant: the end of the offer is not looked at.
Due_DeadOnly(op) ==
    IsPending(op) /\ outbox[verifications[op].topup].status = "DEAD"

\* The rows PendingRetries selects.
Due(op) ==
    /\ IsPending(op)
    /\ \/ verifications[op].cmd.offer <= now
       \/ outbox[verifications[op].topup].status = "DEAD"

RetryItemOf(op) ==
    [op |-> op, topup |-> verifications[op].topup,
     offer |-> verifications[op].cmd.offer]

\* At most ReconcileBatch of the due rows.  The query takes those untouched
\* longest; which ones it takes is left open here.
PendingRetries(r) ==
    LET due == {o \in DOMAIN verifications : Due(o)}
    IN  /\ batch[r] = {}
        /\ \E taken \in (SUBSET due) \ {{}} :
              /\ Cardinality(taken) <= ReconcileBatch
              /\ taken = due \/ Cardinality(taken) = ReconcileBatch
              /\ batch' = [batch EXCEPT ![r] = {RetryItemOf(o) : o \in taken}]
        /\ batchNow' = [batchNow EXCEPT ![r] = now]
        /\ UNCHANGED <<now, inbox, outbox, verifications, identities, sessions,
                       events, sent, answers>>

\* Mutant: the current top-up command is not compared.
StillCurrent_Unfenced(item) == IsPending(item.op)

\* Both transactions read the row again, under its lock.
StillCurrent(item) ==
    IsPending(item.op) /\ verifications[item.op].topup = item.topup

TakenOff(r, item) == batch' = [batch EXCEPT ![r] = @ \ {item}]

\* Mutant: the row says REJECTED, the result EXPIRED.
ExpireVerification_AsRejected(r, item) ==
    /\ item.offer <= batchNow[r]
    /\ StillCurrent(item)
    /\ Complete(inbox, {}, item.op, "REJECTED", "EXPIRED", 0)
    /\ TakenOff(r, item)
    /\ UNCHANGED <<now, identities, sessions, events, sent, answers, batchNow>>

ExpireVerification(r, item) ==
    /\ item.offer <= batchNow[r]
    /\ StillCurrent(item)
    /\ Complete(inbox, {}, item.op, "EXPIRED", "EXPIRED", 0)
    /\ TakenOff(r, item)
    /\ UNCHANGED <<now, identities, sessions, events, sent, answers, batchNow>>

ReplacementExpiry(r, item) == Earlier(batchNow[r] + TopupTTL, item.offer)

\* reconcileOnce has a replacement to sign that has run out meanwhile.
TooLate(r, item) == item.offer > batchNow[r] /\ ReplacementExpiry(r, item) <= now

ReplaceTopupCommand(r, item) ==
    /\ item.offer > batchNow[r]
    /\ ~TooLate(r, item)
    /\ StillCurrent(item)
    /\ outbox' = InsertOutbox(outbox,
                    TopupCommand(item.op, ReplacementExpiry(r, item)))
    /\ verifications' = [verifications EXCEPT ![item.op].topup = NextID(outbox)]
    /\ TakenOff(r, item)
    /\ UNCHANGED <<now, inbox, identities, sessions, events, sent, answers, batchNow>>

\* Sign refuses a message that expires before it occurs, and so does the
\* table; the error ends the batch.  Signing comes before the row is read
\* again, so an item that is no longer current ends it as well.
AbortBatch(r, item) ==
    /\ TooLate(r, item)
    /\ batch' = [batch EXCEPT ![r] = {}]
    /\ UNCHANGED <<now, inbox, outbox, verifications, identities, sessions,
                   events, sent, answers, batchNow>>

SkipStaleItem(r, item) ==
    /\ ~TooLate(r, item)
    /\ ~StillCurrent(item)
    /\ TakenOff(r, item)
    /\ UNCHANGED <<now, inbox, outbox, verifications, identities, sessions,
                   events, sent, answers, batchNow>>

ReconcileItem(r) ==
    \E item \in batch[r] :
        \/ ExpireVerification(r, item)
        \/ ReplaceTopupCommand(r, item)
        \/ AbortBatch(r, item)
        \/ SkipStaleItem(r, item)

\* A replica stops and comes back: only its batch was in memory.
Restart(r) ==
    /\ batch[r] # {}
    /\ batch' = [batch EXCEPT ![r] = {}]
    /\ UNCHANGED <<now, inbox, outbox, verifications, identities, sessions,
                   events, sent, answers, batchNow>>

-----------------------------------------------------------------------------
(* Publisher, top-up and the clock                                         *)

\* Claim and publish of one row (module Outbox has the details).  The row
\* stays open when the replica dies between publishing and marking it.
Publish(i) ==
    /\ outbox[i].status = "PENDING"
    /\ outbox[i].expires > now
    /\ sent' = sent \cup {i}
    /\ \/ outbox' = [outbox EXCEPT ![i].status = "PUBLISHED"]
       \/ i \notin sent /\ UNCHANGED outbox
    /\ UNCHANGED <<now, inbox, verifications, identities, sessions, events,
                   answers, batch, batchNow>>

KillExpired ==
    /\ \E i \in DOMAIN outbox : Overdue(outbox[i], now)
    /\ outbox' = ExpireOutbox(outbox, now)
    /\ UNCHANGED <<now, inbox, verifications, identities, sessions, events,
                   sent, answers, batch, batchNow>>

\* Top-up, external: it answers any command it was sent, as it pleases, and
\* perhaps more than once.
TopupAnswer(i, a) ==
    /\ outbox[i].kind = "COMMAND"
    /\ a \in AnswerIDs \ DOMAIN answers
    /\ \E kind \in {"verified", "rejected"}, same \in BOOLEAN, t \in 0..MaxTime :
          /\ kind = "rejected" => same /\ t = 0
          /\ answers' = Put(answers, a, [op |-> outbox[i].op, kind |-> kind,
                                         same |-> same, finalized |-> t])
    /\ UNCHANGED <<now, inbox, outbox, verifications, identities, sessions,
                   events, sent, batch, batchNow>>

Tick ==
    /\ now < MaxTime
    /\ now' = now + 1
    /\ UNCHANGED <<inbox, outbox, verifications, identities, sessions, events,
                   sent, answers, batch, batchNow>>

-----------------------------------------------------------------------------

HandleActivationVerify(c) == AcceptVerification(c) \/ RepeatVerification(c)

HandleTopupVerified(a) == ActivateSession(a) \/ RefuseVerified(a) \/ RefuseConflict(a)

HandleAnswer(a) ==
    \/ HandleTopupVerified(a)
    \/ ApplyTopupRejected(a)
    \/ IgnoreLateAnswer(a)
    \/ RepeatAnswer(a)

Reconcile(r) == PendingRetries(r) \/ ReconcileItem(r) \/ Restart(r)

Next ==
    \/ \E c \in Commands : HandleActivationVerify(c)
    \/ \E a \in AnswerIDs : HandleAnswer(a)
    \/ \E r \in Replicas : Reconcile(r)
    \/ \E i \in DOMAIN outbox : Publish(i)
    \/ \E i \in sent, a \in AnswerIDs : TopupAnswer(i, a)
    \/ KillExpired
    \/ Tick

Spec == Init /\ [][Next]_vars

-----------------------------------------------------------------------------
(* Safety                                                                  *)

Finished(op) == op \in DOMAIN verifications /\ ~IsPending(op)

Verified(op) == op \in DOMAIN verifications /\ verifications[op].status = "VERIFIED"

\* The inbox row of a verify command is PROCESSING exactly as long as its
\* verification is PENDING, so CompleteInbox never fails and a handler that
\* closes a verification is never rolled back for it.
ProcessingWhilePending ==
    \A c \in Commands : c.id \in DOMAIN inbox =>
        /\ c.op \in DOMAIN verifications
        /\ verifications[c.op].cmd = c
        /\ Processing(inbox, c.id) <=> IsPending(c.op)

ResultsOf(op) == {i \in DOMAIN outbox : outbox[i].kind = "RESULT" /\ outbox[i].op = op}

\* Whatever answers, retries and expiries race for an operation, exactly one
\* result is ever written for it, it is the one the command's inbox row
\* refers to, and it tells the verdict of the verification.
OneVerdictPerOperation ==
    /\ \A op \in Ops : ~Finished(op) => ResultsOf(op) = {}
    /\ \A op \in Ops : Finished(op) =>
          LET v == verifications[op]
              i == inbox[v.cmd.id].result
          IN  ResultsOf(op) = {i} /\ outbox[i].code = v.code

\* Two active sessions never share a Telegram identity, nor the transaction
\* that activated them last: the unique indexes are never hit.
SessionsDisjoint ==
    \A s, t \in DOMAIN sessions : s # t =>
        sessions[s].user # sessions[t].user /\ sessions[s].tx # sessions[t].tx

\* All verified activations of a balance were paid from one wallet.
OneWalletPerBalance ==
    \A o, p \in DOMAIN verifications :
        /\ Verified(o) /\ Verified(p)
        /\ verifications[o].cmd.balance = verifications[p].cmd.balance
        => verifications[o].cmd.wallet = verifications[p].cmd.wallet

\* The versions of a session's events are 1, 2, ... up to its own version,
\* each once, the first of them its activation; and the result of an
\* operation carries the version of its event.
VersionsCountEvents ==
    /\ \A s \in DOMAIN sessions :
          {e.version : e \in {x \in events : x.session = s}} = 1..sessions[s].version
    /\ \A e, f \in events :
          (e.session = f.session /\ e.version = f.version) \/ e.op = f.op => e = f
    /\ \A e \in events : e.type = "ACTIVATED" <=> e.version = 1
    /\ \A op \in DOMAIN verifications :
          Verified(op) <=> \E e \in events : e.op = op
    /\ \A e \in events : \A i \in ResultsOf(e.op) : outbox[i].version = e.version

\* A verified activation rests on an answer of top-up that confirms the very
\* facts of the command and a payment final before the offer ran out; the
\* answer was consumed by this operation.
ActivationPaidFor ==
    \A op \in DOMAIN verifications : Verified(op) =>
        \E a \in DOMAIN answers :
            /\ answers[a].op = op /\ answers[a].kind = "verified" /\ answers[a].same
            /\ answers[a].finalized <= verifications[op].cmd.offer
            /\ HasResult(inbox, a)
            /\ inbox[a].result = inbox[verifications[op].cmd.id].result

\* The only top-up command still open for an operation is the current one of
\* a pending verification: neither two replicas reconciling from stale
\* batches nor a late answer leave a second one behind to be sent again.
OneLiveTopupCommand ==
    \A i \in DOMAIN outbox :
        outbox[i].kind = "COMMAND" /\ outbox[i].status \notin OutboxTerminal =>
            IsPending(outbox[i].op) /\ verifications[outbox[i].op].topup = i

-----------------------------------------------------------------------------
(* What a step may never do                                                *)

\* A verdict, once given, stands; so do a balance's wallet, the holder of a
\* session and the events.
VerdictsAreFinal ==
    [][/\ \A op \in DOMAIN verifications :
             /\ op \in DOMAIN verifications'
             /\ Finished(op) => verifications'[op] = verifications[op]
       /\ \A b \in DOMAIN identities :
             b \in DOMAIN identities' /\ identities'[b] = identities[b]
       /\ \A s \in DOMAIN sessions :
             /\ s \in DOMAIN sessions'
             /\ sessions'[s].user = sessions[s].user
             /\ sessions'[s].balance = sessions[s].balance
       /\ events \subseteq events']_vars

-----------------------------------------------------------------------------
(* The promise to rw-bot                                                   *)

\* The verdict a result row tells.
VerdictOf(code) ==
    CASE code = "ACTIVATED"        -> "VERIFIED"
      [] code = "EXPIRED"          -> "EXPIRED"
      [] code \in RejectionCodes   -> "REJECTED"

Cases == [o \in DOMAIN verifications |->
            [cmd |-> verifications[o].cmd, status |-> verifications[o].status]]

Held == [s \in DOMAIN sessions |->
           [user |-> sessions[s].user, balance |-> sessions[s].balance,
            version |-> sessions[s].version]]

ResultsSent == {i \in sent : outbox[i].kind = "RESULT"}

Told == {<<outbox[i].op, VerdictOf(outbox[i].code)>> : i \in ResultsSent}

A == INSTANCE Authority WITH cases <- Cases, held <- Held, told <- Told

\* Answers of top-up, stale reconcilers, repeated commands and crashed
\* publishers notwithstanding, the service is the authority rw-bot takes it
\* for: one verdict per operation, no other one ever on NATS, and sessions
\* handed out and renewed by verdicts alone.
ImplementsAuthority == A!Spec

-----------------------------------------------------------------------------
(* Liveness                                                                *)

\* Time passes, every replica keeps reconciling, and one that restarts
\* again and again still finishes an item now and then.
FairSpec ==
    /\ Spec
    /\ WF_vars(Tick)
    /\ \A r \in Replicas : WF_vars(PendingRetries(r)) /\ SF_vars(ReconcileItem(r))

\* Every verification is closed in the end, answer or no answer.
EveryVerificationCloses ==
    \A op \in Ops : IsPending(op) ~> Finished(op)

-----------------------------------------------------------------------------
(* What the documents say and the code does not do                         *)

\* "One (network, transaction_id) can activate only one session/operation."
TransactionActivatesOnce ==
    \A o, p \in DOMAIN verifications :
        Verified(o) /\ Verified(p) /\ verifications[o].cmd.tx = verifications[p].cmd.tx
        => o = p
=============================================================================

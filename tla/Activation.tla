----------------------------- MODULE Activation -----------------------------
(***************************************************************************)
(* rw-bot and rw-active-sessions together, each as the abstract            *)
(* specification it is shown to implement: Flow (by module Bot) and        *)
(* Authority (by module Sessions).  They share NATS only: the authority    *)
(* hears of an operation when the bot's verify command has been sent, and  *)
(* the bot hears a result that the authority has told.  Either message may *)
(* be lost, late, repeated or overtaken.                                   *)
(***************************************************************************)
EXTENDS Flow

VARIABLES
    cases, \* the authority's verifications
    held,  \* its active sessions
    told   \* the results it has sent

authorityVars == <<cases, held, told>>
allVars == <<vars, authorityVars>>

\* What a verify command can say.
Commands == [op : Ops, session : SessionIDs, user : Users, balance : Balances]

A == INSTANCE Authority

\* Who a session belongs to, whichever of the bot's tables it is in.
Row(s) == IF s \in DOMAIN bound THEN bound[s] ELSE shown[s]

\* Mutant: the command names the user and balance of some other session.
CommandOf_AnySession(o) ==
    LET s == CHOOSE r \in SessionIDs : r \in DOMAIN bound \cup DOMAIN shown
    IN  [op |-> o, session |-> tries[o].session, user |-> Row(s).user,
         balance |-> Row(s).balance]

\* The payload handlePaymentConfirmed signs for try o.  Session, user and
\* balance of a try never change, so it may as well be read later.
CommandOf(o) ==
    [op |-> o, session |-> tries[o].session,
     user |-> Row(tries[o].session).user, balance |-> Row(tries[o].session).balance]

\* handleActivationVerify receives a command of the bot.
Receive(o) ==
    /\ o \in asked
    /\ A!Ask(CommandOf(o))
    /\ UNCHANGED vars

\* What the authority does by itself.
Decide(o) ==
    /\ o \in DOMAIN cases
    /\ A!Grant(o) \/ A!Renew(o) \/ A!Refuse(o) \/ A!Tell(o)
    /\ UNCHANGED vars

\* Mutant: an operation that ran out is reported as one that succeeded.
ResultOf_NotRejected(verdict) == IF verdict = "REJECTED" THEN "rejected" ELSE "activated"

\* The subject a verdict is published on.
ResultOf(verdict) == IF verdict = "VERIFIED" THEN "activated" ELSE "rejected"

\* CompleteActivation turns a positive result down that names another
\* session or balance than the bot's own tables do.  (It names no user.)
Credible(o, result) ==
    result = "activated" =>
        /\ cases[o].cmd.session = tries[o].session
        /\ cases[o].cmd.balance = Row(tries[o].session).balance

\* A result that was told reaches the bot's subscription.
Deliver(o, result) ==
    /\ \E t \in told : t[1] = o /\ ResultOf(t[2]) = result
    /\ Credible(o, result)
    /\ Hear(o, result)
    /\ UNCHANGED authorityVars

ActivationInit == Init /\ A!Init

ActivationNext ==
    \/ Steps /\ UNCHANGED authorityVars
    \/ \E o \in Ops : Receive(o) \/ Decide(o)
    \/ \E o \in Ops, r \in Results : Deliver(o, r)

ActivationSpec == ActivationInit /\ [][ActivationNext]_allVars

-----------------------------------------------------------------------------
(* Properties                                                              *)

\* The bot never shows a session as active that the authority has not handed
\* out, to the same Telegram user and balance (CompleteActivation takes the
\* user from the bot's own table; no result tells whom the authority means).
ShownIsHeld ==
    \A s \in DOMAIN shown :
        /\ s \in DOMAIN held
        /\ held[s].user = shown[s].user /\ held[s].balance = shown[s].balance

\* Bot and authority agree on how an operation ended; only one the bot has
\* given up as EXPIRED may have any verdict, or none.
EndingsAgree ==
    \A o \in DOMAIN tries :
        /\ tries[o].status = "ACTIVE" => o \in DOMAIN cases /\ cases[o].status = "VERIFIED"
        /\ tries[o].status = "REJECTED" /\ tries[o].paid =>
              o \in DOMAIN cases /\ cases[o].status \in {"REJECTED", "EXPIRED"}

\* A positive verdict the bot waits for can be applied: the unique key of
\* the projection on the Telegram user, which would roll CompleteActivation
\* back each time, is not in its way, although a user may come to have a
\* second session bound while the first is active.
VerdictApplies ==
    \A o \in DOMAIN tries :
        Awaits(o, "activated") => tries[o].session \in DOMAIN bound /\ Applicable(tries[o].session)
=============================================================================

-------------------------- MODULE TelegramUpdates ---------------------------
(***************************************************************************)
(* How rw-bot takes in Telegram updates: the long-polling loop             *)
(* (internal/bot/adapter/telegram/poller.go), the processing of a message  *)
(* (internal/bot/app/messages.go) and the table that recognises duplicates *)
(* (internal/bot/adapter/postgres/updates.go).                             *)
(*                                                                         *)
(* Polling is meant for one replica, but the old and the new process of a  *)
(* redeployment may overlap, and the poller ends with the process at every *)
(* error of the database: its offset is in memory only, and Telegram       *)
(* delivers again whatever no request has confirmed.  What the             *)
(* conversation does with an update is module Bot's concern; here it is    *)
(* counted.                                                                *)
(***************************************************************************)
EXTENDS Tables, FiniteSets, Integers

CONSTANTS
    MaxUpdate, \* update IDs are 1 .. MaxUpdate
    Kind,      \* what an update carries: a private or a group message, or none
    Pollers,   \* processes that poll
    PollLimit  \* updates Telegram returns at a time

Updates == 1..MaxUpdate

ASSUME UpdatesAssumption ==
    /\ MaxUpdate \in Nat
    /\ Kind \in [Updates -> {"private", "group", "other"}]
    /\ PollLimit \in Nat \ {0}

VARIABLES
    arrived,   \* users have sent the updates 1 .. arrived
    confirmed, \* Telegram has forgotten the updates below this one
    table,     \* telegram_updates: update -> status
    offset,    \* the offset of each poller
    fetched,   \* the updates of a poller's last response
    step,      \* how far a poller is with its current update
    handled,   \* how often the conversation has handled an update
    replied    \* how often a reply to an update may have been delivered

vars == <<arrived, confirmed, table, offset, fetched, step, handled, replied>>

Outcomes == {"DELIVERED", "OUTCOME_UNKNOWN", "IGNORED"}

TypeOK ==
    /\ arrived \in 0..MaxUpdate
    /\ confirmed \in Nat
    /\ DOMAIN table \subseteq Updates
    /\ \A i \in DOMAIN table : table[i] \in Outcomes \cup {"PROCESSING"}
    /\ offset \in [Pollers -> Nat]
    /\ fetched \in [Pollers -> SUBSET Updates]
    /\ step \in [Pollers -> Outcomes \cup {"idle", "begun", "answered"}]
    /\ handled \in [Updates -> Nat]
    /\ replied \in [Updates -> Nat]

Init ==
    /\ arrived = 0
    /\ confirmed = 0
    /\ table = EmptyTable
    /\ offset = [p \in Pollers |-> 0]
    /\ fetched = [p \in Pollers |-> {}]
    /\ step = [p \in Pollers |-> "idle"]
    /\ handled = [i \in Updates |-> 0]
    /\ replied = [i \in Updates |-> 0]

-----------------------------------------------------------------------------
(* Telegram, external                                                      *)

Arrive ==
    /\ arrived < MaxUpdate
    /\ arrived' = arrived + 1
    /\ UNCHANGED <<confirmed, table, offset, fetched, step, handled, replied>>

Later(i, j) == IF i < j THEN j ELSE i

\* A request with an offset confirms every update below it.
ConfirmedBy(p) == Later(confirmed, offset[p])

\* The first PollLimit updates that are not confirmed.
Response(p) ==
    LET pending == {i \in 1..arrived : i >= ConfirmedBy(p)}
    IN  {i \in pending : Cardinality({j \in pending : j <= i}) <= PollLimit}

-----------------------------------------------------------------------------
(* Poller.Run                                                              *)

\* The updates of the response the loop has not come to; it skips the ones
\* below the offset.
Todo(p) == {i \in fetched[p] : i >= offset[p]}

Current(p, i) == i \in Todo(p) /\ \A j \in Todo(p) : i <= j

GetUpdates(p) ==
    /\ step[p] = "idle"
    /\ Todo(p) = {}
    /\ confirmed' = ConfirmedBy(p)
    /\ fetched' = [fetched EXCEPT ![p] = Response(p)]
    /\ UNCHANGED <<arrived, table, offset, step, handled, replied>>

\* The response, or already the request, is lost; the poller waits and asks
\* again.
PollFails(p) ==
    /\ step[p] = "idle"
    /\ Todo(p) = {}
    /\ confirmed' = ConfirmedBy(p)
    /\ UNCHANGED <<arrived, table, offset, fetched, step, handled, replied>>

\* Mutants: the offset does not move; it skips an update.
NextOffset_Same(i) == i

NextOffset_Skip(i) == i + 2

NextOffset(i) == i + 1

Advance(p, i) == offset' = [offset EXCEPT ![p] = NextOffset(i)]

\* An update without a message.
SkipUpdate(p, i) ==
    /\ Current(p, i)
    /\ step[p] = "idle"
    /\ Kind[i] = "other"
    /\ Advance(p, i)
    /\ UNCHANGED <<arrived, confirmed, table, fetched, step, handled, replied>>

-----------------------------------------------------------------------------
(* MessageHandler.Process                                                  *)

\* Mutant: the INSERT replaces the row that is there.
Started_Always(i) == TRUE

\* UpdateStore.Begin inserts a row.
Started(i) == i \notin DOMAIN table

\* A message outside of a private chat gets no response.
FirstStep(i) == IF Kind[i] = "private" THEN "begun" ELSE "IGNORED"

Begin(p, i) ==
    /\ Current(p, i)
    /\ step[p] = "idle"
    /\ Kind[i] # "other"
    /\ Started(i)
    /\ table' = Put(table, i, "PROCESSING")
    /\ step' = [step EXCEPT ![p] = FirstStep(i)]
    /\ UNCHANGED <<arrived, confirmed, offset, fetched, handled, replied>>

\* UpdateStore.Begin finds the row: the update counts as done.
SkipDuplicate(p, i) ==
    /\ Current(p, i)
    /\ step[p] = "idle"
    /\ Kind[i] # "other"
    /\ ~Started(i)
    /\ Advance(p, i)
    /\ UNCHANGED <<arrived, confirmed, table, fetched, step, handled, replied>>

\* Conversation.Handle, with the transactions it commits.
Handle(p, i) ==
    /\ Current(p, i)
    /\ step[p] = "begun"
    /\ handled' = [handled EXCEPT ![i] = @ + 1]
    /\ step' = [step EXCEPT ![p] = "answered"]
    /\ UNCHANGED <<arrived, confirmed, table, offset, fetched, replied>>

\* SendText.  A reply whose sending failed may have been delivered.
SendText(p, i) ==
    /\ Current(p, i)
    /\ step[p] = "answered"
    /\ \E outcome \in {"DELIVERED", "OUTCOME_UNKNOWN"} :
          step' = [step EXCEPT ![p] = outcome]
    /\ replied' = [replied EXCEPT ![i] = @ + 1]
    /\ UNCHANGED <<arrived, confirmed, table, offset, fetched, handled>>

\* UpdateStore.Finish, an error unless the row is PROCESSING; then the loop
\* moves on.
Finish(p, i) ==
    /\ Current(p, i)
    /\ step[p] \in Outcomes
    /\ table[i] = "PROCESSING"
    /\ table' = [table EXCEPT ![i] = step[p]]
    /\ step' = [step EXCEPT ![p] = "idle"]
    /\ Advance(p, i)
    /\ UNCHANGED <<arrived, confirmed, fetched, handled, replied>>

\* Begin, Handle or Finish returns an error, which ends the poller and with
\* it the process, or the process dies; and it is started again.
Restart(p) ==
    /\ offset' = [offset EXCEPT ![p] = 0]
    /\ fetched' = [fetched EXCEPT ![p] = {}]
    /\ step' = [step EXCEPT ![p] = "idle"]
    /\ UNCHANGED <<arrived, confirmed, table, handled, replied>>

-----------------------------------------------------------------------------

Process(p, i) ==
    \/ SkipUpdate(p, i)
    \/ Begin(p, i)
    \/ SkipDuplicate(p, i)
    \/ Handle(p, i)
    \/ SendText(p, i)
    \/ Finish(p, i)

Next ==
    \/ Arrive
    \/ \E p \in Pollers : GetUpdates(p) \/ PollFails(p) \/ Restart(p)
    \/ \E p \in Pollers, i \in Updates : Process(p, i)

Spec == Init /\ [][Next]_vars

\* A poller that runs keeps polling and processing, and in the end the
\* processes stop being restarted.
FairSpec ==
    /\ Spec
    /\ \A p \in Pollers :
          WF_vars(GetUpdates(p)) /\ WF_vars(\E i \in Updates : Process(p, i))
    /\ <>[][~\E p \in Pollers : Restart(p)]_vars

-----------------------------------------------------------------------------
(* Properties                                                              *)

\* Redelivery after a restart and two overlapping processes notwithstanding,
\* the conversation handles an update at most once and at most one reply to
\* it is attempted.
HandledAtMostOnce ==
    \A i \in Updates : handled[i] <= 1 /\ replied[i] <= handled[i]

\* An update some poller is working on is PROCESSING and no other poller's:
\* Finish never fails for the status of the row.
WorkIsExclusive ==
    \A p \in Pollers : step[p] # "idle" =>
        \E i \in Updates :
            /\ Current(p, i)
            /\ i \in DOMAIN table /\ table[i] = "PROCESSING"
            /\ \A q \in Pollers \ {p} : step[q] # "idle" => ~Current(q, i)

\* Telegram is never told to forget a message the bot has not registered,
\* whichever process asked and wherever a process was cut off.
NothingForgottenUnseen ==
    \A i \in Updates : i < confirmed /\ Kind[i] # "other" => i \in DOMAIN table

\* Every message is registered in the end.
EveryMessageRegistered ==
    \A i \in Updates : (i <= arrived /\ Kind[i] # "other") ~> (i \in DOMAIN table)
=============================================================================

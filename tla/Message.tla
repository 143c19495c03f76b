------------------------------ MODULE Message -------------------------------
(***************************************************************************)
(* The inbox and outbox tables every service keeps, and the statements     *)
(* that change them inside a handler's transaction                         *)
(* (internal/platform/message/store.go, and the bulk expiry of outbox.go). *)
(*                                                                         *)
(* An inbox is a table from message IDs to rows [status, result].  An      *)
(* outbox is a sequence: a row's message ID is its position, because IDs   *)
(* are UUIDv7 made in the order of insertion and rows are never deleted.   *)
(* Every outbox row has the fields kind, status and expires.               *)
(***************************************************************************)
EXTENDS Tables, Integers, Sequences

NoResult == 0

InboxStatus == {"PROCESSING", "COMPLETED", "REJECTED", "APPLIED"}

InboxRow == [status : InboxStatus, result : Nat]

\* A row of the outbox stays in one of these two for good.
OutboxTerminal == {"CONFIRMED", "DEAD"}

-----------------------------------------------------------------------------
(* Inbox                                                                   *)

\* Accepted: the INSERT of the message ID found no row.
Accepted(inbox, m) == m \notin DOMAIN inbox

RegisterInbox(inbox, m) ==
    Put(inbox, m, [status |-> "PROCESSING", result |-> NoResult])

\* CompleteInbox and AcknowledgeInbox fail, and roll the transaction back,
\* unless this holds.
Processing(inbox, m) ==
    m \in DOMAIN inbox /\ inbox[m].status = "PROCESSING"

\* CompleteInbox of each message of ms with one and the same result.
CompleteInbox(inbox, ms, result) ==
    [m \in DOMAIN inbox |->
        IF m \in ms THEN [status |-> "COMPLETED", result |-> result] ELSE inbox[m]]

\* RejectInbox leaves a row that is not PROCESSING as it is.
RejectInbox(inbox, m) ==
    IF Processing(inbox, m)
    THEN Put(inbox, m, [status |-> "REJECTED", result |-> NoResult])
    ELSE inbox

AcknowledgeInbox(inbox, m) ==
    Put(inbox, m, [status |-> "APPLIED", result |-> NoResult])

\* A duplicate whose stored result is to be published again.
HasResult(inbox, m) ==
    /\ m \in DOMAIN inbox
    /\ inbox[m].status = "COMPLETED"
    /\ inbox[m].result # NoResult

-----------------------------------------------------------------------------
(* Outbox                                                                  *)

NextID(outbox) == Len(outbox) + 1

InsertOutbox(outbox, row) == Append(outbox, row)

RequeueOutbox(outbox, id) ==
    [outbox EXCEPT ![id].status = IF @ \in OutboxTerminal THEN @ ELSE "PENDING"]

ConfirmOutbox(outbox, id) ==
    [outbox EXCEPT ![id].status = IF @ = "DEAD" THEN @ ELSE "CONFIRMED"]

\* The first statement of publishBatch: every open row past its expiry dies.
Overdue(row, now) == row.status \notin OutboxTerminal /\ row.expires <= now

ExpireOutbox(outbox, now) ==
    [i \in DOMAIN outbox |->
        IF Overdue(outbox[i], now) THEN [outbox[i] EXCEPT !.status = "DEAD"]
                                   ELSE outbox[i]]
=============================================================================

------------------------------- MODULE Outbox -------------------------------
(***************************************************************************)
(* The publishing side of an outbox table, with several replicas of the    *)
(* service working on it (internal/platform/message/outbox.go), against    *)
(* the handlers that insert, requeue and confirm rows (store.go).          *)
(*                                                                         *)
(* Each SQL statement of the publisher is an action: nothing ties the      *)
(* claim of a row to the statement that marks it afterwards, except the    *)
(* row still being PUBLISHING.  Time shows only as flags that flip when a  *)
(* timestamp is passed: due (next_attempt_at), lease (lease_until) and     *)
(* lapsed (expires_at).                                                    *)
(***************************************************************************)
EXTENDS Tables, FiniteSets, Integers

CONSTANTS
    Messages,   \* message IDs
    Kind,       \* the kind of each message: COMMAND or RESULT
    Replicas,   \* running instances of the service
    OutboxBatch \* LIMIT of one claim

ASSUME OutboxAssumption ==
    /\ Kind \in [Messages -> {"COMMAND", "RESULT"}]
    /\ OutboxBatch \in Nat \ {0}

VARIABLES
    rows,     \* message_outbox
    phase,    \* the statement a replica's publishBatch executes next
    inflight, \* what each replica has claimed: message -> stage of publishOne
    wire,     \* messages NATS has carried at least once
    owed      \* messages inserted or requeued and not on the wire since

vars == <<rows, phase, inflight, wire, owed>>

Terminal == {"CONFIRMED", "DEAD"}

Row ==
    [status : {"PENDING", "PUBLISHING", "PUBLISHED"} \cup Terminal,
     due : BOOLEAN, lease : {"none", "held", "over"}, lapsed : BOOLEAN]

Stage == {"claimed", "sent", "failed"}

\* Rows, stages and phases are as declared, and the table's check
\* constraint holds: a lease is set exactly while a row is PUBLISHING.
TypeOK ==
    /\ DOMAIN rows \subseteq Messages
    /\ \A i \in DOMAIN rows :
          /\ rows[i] \in Row
          /\ rows[i].status = "PUBLISHING" <=> rows[i].lease # "none"
    /\ phase \in [Replicas -> {"expire", "claim"}]
    /\ DOMAIN inflight = Replicas
    /\ \A p \in Replicas :
          /\ DOMAIN inflight[p] \subseteq DOMAIN rows
          /\ \A i \in DOMAIN inflight[p] : inflight[p][i] \in Stage
    /\ wire \subseteq DOMAIN rows
    /\ owed \subseteq DOMAIN rows

Init ==
    /\ rows = EmptyTable
    /\ phase = [p \in Replicas |-> "expire"]
    /\ inflight = [p \in Replicas |-> EmptyTable]
    /\ wire = {}
    /\ owed = {}

Open(i) == i \in DOMAIN rows /\ rows[i].status \notin Terminal

-----------------------------------------------------------------------------
(* Handlers                                                                *)

InsertOutbox(i) ==
    /\ i \notin DOMAIN rows
    /\ rows' = Put(rows, i, [status |-> "PENDING", due |-> TRUE,
                             lease |-> "none", lapsed |-> FALSE])
    /\ owed' = owed \cup {i}
    /\ UNCHANGED <<phase, inflight, wire>>

\* A duplicate of the command a result answers.
RequeueOutbox(i) ==
    /\ Kind[i] = "RESULT"
    /\ Open(i)
    /\ rows' = [rows EXCEPT ![i].status = "PENDING", ![i].due = TRUE,
                            ![i].lease = "none"]
    /\ owed' = owed \cup {i}
    /\ UNCHANGED <<phase, inflight, wire>>

\* Mutant: a confirmed row keeps its lease.
Confirmed_KeepsLease(row) == [row EXCEPT !.status = "CONFIRMED"]

Confirmed(row) == [row EXCEPT !.status = "CONFIRMED", !.lease = "none"]

\* The answer to a command.
ConfirmOutbox(i) ==
    /\ Kind[i] = "COMMAND"
    /\ i \in DOMAIN rows
    /\ rows[i].status # "DEAD"
    /\ rows' = [rows EXCEPT ![i] = Confirmed(@)]
    /\ UNCHANGED <<phase, inflight, wire, owed>>

-----------------------------------------------------------------------------
(* publishBatch                                                            *)

Idle(p) == DOMAIN inflight[p] = {}

Killed(row) ==
    IF row.status \notin Terminal /\ row.lapsed
    THEN [row EXCEPT !.status = "DEAD", !.lease = "none"]
    ELSE row

KillExpired(p) ==
    /\ phase[p] = "expire"
    /\ Idle(p)
    /\ rows' = [i \in DOMAIN rows |-> Killed(rows[i])]
    /\ phase' = [phase EXCEPT ![p] = "claim"]
    /\ UNCHANGED <<inflight, wire, owed>>

\* Mutants: a lease that ran out is not taken over; a command that was
\* published once is not published again.
Claimable_NoTakeover(i) ==
    /\ \/ rows[i].status = "PENDING" /\ rows[i].due
       \/ rows[i].status = "PUBLISHED" /\ Kind[i] = "COMMAND" /\ rows[i].due
    /\ ~rows[i].lapsed

Claimable_Once(i) ==
    /\ \/ rows[i].status = "PENDING" /\ rows[i].due
       \/ rows[i].status = "PUBLISHING" /\ rows[i].lease = "over"
    /\ ~rows[i].lapsed

\* The WHERE clause of claim.
Claimable(i) ==
    /\ \/ rows[i].status = "PENDING" /\ rows[i].due
       \/ rows[i].status = "PUBLISHED" /\ Kind[i] = "COMMAND" /\ rows[i].due
       \/ rows[i].status = "PUBLISHING" /\ rows[i].lease = "over"
    /\ ~rows[i].lapsed

\* SKIP LOCKED: rows a handler has locked just now are left out.
Claim(p) ==
    LET due == {i \in DOMAIN rows : Claimable(i)}
    IN  /\ phase[p] = "claim"
        /\ phase' = [phase EXCEPT ![p] = "expire"]
        /\ \E taken \in SUBSET due :
              /\ Cardinality(taken) <= OutboxBatch
              /\ rows' = [i \in DOMAIN rows |->
                            IF i \in taken
                            THEN [rows[i] EXCEPT !.status = "PUBLISHING",
                                                 !.lease = "held"]
                            ELSE rows[i]]
              /\ inflight' = [inflight EXCEPT ![p] = [i \in taken |-> "claimed"]]
        /\ UNCHANGED <<wire, owed>>

-----------------------------------------------------------------------------
(* publishOne                                                              *)

SetStage(p, i, stage) == inflight' = [inflight EXCEPT ![p] = Put(@, i, stage)]

Publish(p, i) ==
    /\ inflight[p][i] = "claimed"
    /\ wire' = wire \cup {i}
    /\ owed' = owed \ {i}
    /\ SetStage(p, i, "sent")
    /\ UNCHANGED <<rows, phase>>

\* The envelope cannot be opened, NATS refuses, or the flush times out; in
\* the last case the message may still have gone out.
PublishFails(p, i) ==
    /\ inflight[p][i] = "claimed"
    /\ \/ UNCHANGED <<wire, owed>>
       \/ wire' = wire \cup {i} /\ owed' = owed \ {i}
    /\ SetStage(p, i, "failed")
    /\ UNCHANGED <<rows, phase>>

Done(p, i) == inflight' = [inflight EXCEPT ![p] = Drop(@, i)]

\* Mutants: the statement's condition on the status is missing; a failed
\* publish is marked like a successful one.
Marked_Always(row, status) ==
    [row EXCEPT !.status = status, !.due = FALSE, !.lease = "none"]

Marked_AsPublished(row, status) ==
    IF row.status = "PUBLISHING"
    THEN [row EXCEPT !.status = "PUBLISHED", !.due = FALSE, !.lease = "none"]
    ELSE row

\* The UPDATE ... WHERE status = 'PUBLISHING' of publishOne and markRetry.
Marked(row, status) ==
    IF row.status = "PUBLISHING"
    THEN [row EXCEPT !.status = status, !.due = FALSE, !.lease = "none"]
    ELSE row

MarkPublished(p, i) ==
    /\ inflight[p][i] = "sent"
    /\ rows' = [rows EXCEPT ![i] = Marked(@, "PUBLISHED")]
    /\ Done(p, i)
    /\ UNCHANGED <<phase, wire, owed>>

MarkRetry(p, i) ==
    /\ inflight[p][i] = "failed"
    /\ rows' = [rows EXCEPT ![i] = Marked(@, "PENDING")]
    /\ Done(p, i)
    /\ UNCHANGED <<phase, wire, owed>>

\* The database is unreachable for the mark: it is logged, no more.
MarkFails(p, i) ==
    /\ inflight[p][i] \in {"sent", "failed"}
    /\ Done(p, i)
    /\ UNCHANGED <<rows, phase, wire, owed>>

\* A replica dies and comes back with nothing claimed.
Restart(p) ==
    /\ ~Idle(p)
    /\ inflight' = [inflight EXCEPT ![p] = EmptyTable]
    /\ UNCHANGED <<rows, phase, wire, owed>>

-----------------------------------------------------------------------------
(* Time                                                                    *)

BecomeDue(i) ==
    /\ ~rows[i].due
    /\ rows' = [rows EXCEPT ![i].due = TRUE]
    /\ UNCHANGED <<phase, inflight, wire, owed>>

LeaseRunsOut(i) ==
    /\ rows[i].lease = "held"
    /\ rows' = [rows EXCEPT ![i].lease = "over"]
    /\ UNCHANGED <<phase, inflight, wire, owed>>

Lapse(i) ==
    /\ ~rows[i].lapsed
    /\ rows' = [rows EXCEPT ![i].lapsed = TRUE]
    /\ UNCHANGED <<phase, inflight, wire, owed>>

-----------------------------------------------------------------------------

Handler(i) == InsertOutbox(i) \/ RequeueOutbox(i) \/ ConfirmOutbox(i)

Batch(p) == KillExpired(p) \/ Claim(p)

PublishOne(p, i) ==
    \/ Publish(p, i)
    \/ PublishFails(p, i)
    \/ MarkPublished(p, i)
    \/ MarkRetry(p, i)
    \/ MarkFails(p, i)

Time(i) == BecomeDue(i) \/ LeaseRunsOut(i) \/ Lapse(i)

Next ==
    \/ \E i \in Messages : Handler(i)
    \/ \E p \in Replicas : Batch(p) \/ Restart(p)
    \/ \E p \in Replicas : \E i \in DOMAIN inflight[p] : PublishOne(p, i)
    \/ \E i \in DOMAIN rows : Time(i)

Spec == Init /\ [][Next]_vars

\* Some replica is always alive, though any one may hang for good: there a
\* batch runs on every tick and publishOne ends.  Timestamps are passed; a
\* row is not locked, or crowded out of the batch, each time it could be
\* claimed; a message that is published over and over gets through once in
\* a while.
FairSpec ==
    /\ Spec
    /\ WF_vars(\E p \in Replicas : Batch(p))
    /\ \A i \in Messages :
          /\ SF_vars(\E p \in Replicas : Claim(p) /\ i \in DOMAIN inflight'[p])
          /\ WF_vars(\E p \in Replicas : i \in DOMAIN inflight[p] /\ PublishOne(p, i))
          /\ SF_vars(\E p \in Replicas : i \in DOMAIN inflight[p] /\ Publish(p, i))
          /\ WF_vars(i \in DOMAIN rows /\ (BecomeDue(i) \/ LeaseRunsOut(i)))

-----------------------------------------------------------------------------
(* Properties                                                              *)

\* Whatever a replica still has in flight, a row that was confirmed or has
\* died is never opened again.
TerminalRowsStay ==
    [][\A i \in DOMAIN rows : rows[i].status \in Terminal =>
          i \in DOMAIN rows' /\ rows'[i].status = rows[i].status]_vars

\* PUBLISHED is only ever claimed of a message that NATS has carried,
\* however many replicas had the row in their hands.
PublishedWasSent ==
    \A i \in DOMAIN rows : rows[i].status = "PUBLISHED" => i \in wire

\* Some replica hands message i to NATS.
Publication(i) == \E p \in Replicas : i \in DOMAIN inflight[p] /\ Publish(p, i)

\* A command that is neither confirmed nor dead is published again and
\* again, not just once: retries go on whatever becomes of the replicas that
\* hold the row.
CommandKeepsRetrying ==
    \A i \in Messages : Kind[i] = "COMMAND" =>
        (<>[]Open(i) => []<><<Publication(i)>>_vars)

\* The row's fate as a user of the outbox sees it.
Fate(i) ==
    IF i \notin DOMAIN rows THEN "absent"
    ELSE IF rows[i].status \in Terminal THEN rows[i].status ELSE "open"

R == INSTANCE Relay
    WITH Commands <- {i \in Messages : Kind[i] = "COMMAND"},
         fate     <- [i \in Messages |-> Fate(i)],
         late     <- {i \in DOMAIN rows : rows[i].lapsed},
         carried  <- wire

\* The publisher is a relay: however replicas overlap, crash, lose leases or
\* fail to mark a row, a row is closed at most once and for its reason
\* (only a command is confirmed, only a row past its expiry dies), only
\* inserted messages are carried, and an open one is carried in the end.
ImplementsRelay == R!FairSpec

\* "A result ... is repeated on a duplicate of the original command": once
\* requeued it reaches the wire again, unless it dies first.
RepeatIsSent ==
    \A i \in Messages : (i \in owed) ~> (i \notin owed \/ ~Open(i))
=============================================================================

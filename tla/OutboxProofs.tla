---------------------------- MODULE OutboxProofs ----------------------------
(***************************************************************************)
(* What holds of the publisher for any messages, replicas and batch limit. *)
(***************************************************************************)
EXTENDS Outbox, TLAPS

\* What publishOne has reached stage "sent" with is on the wire: without
\* this PublishedWasSent is not inductive.
SentStageOnWire ==
    \A p \in Replicas : \A i \in DOMAIN inflight[p] :
        inflight[p][i] = "sent" => i \in wire

\* The inductive invariant.
Inv == TypeOK /\ SentStageOnWire /\ PublishedWasSent

-----------------------------------------------------------------------------

\* The empty outbox satisfies the invariant.
LEMMA InitInv == Init => Inv
BY OutboxAssumption DEF Init, Inv, TypeOK, SentStageOnWire, PublishedWasSent, EmptyTable

\* A row as TypeOK wants it.
RowOK(row) == row \in Row /\ (row.status = "PUBLISHING" <=> row.lease # "none")

\* What the statements make of one row: types, the check constraint on
\* lease_until and the status that results.
LEMMA ConfirmedRow ==
    \A row \in Row : RowOK(Confirmed(row)) /\ Confirmed(row).status = "CONFIRMED"
BY DEF Confirmed, RowOK, Row, Terminal

\* The same for the bulk expiry.
LEMMA KilledRow ==
    \A row \in Row : RowOK(row) =>
        RowOK(Killed(row)) /\ Killed(row).status \in {"DEAD", row.status}
BY DEF Killed, RowOK, Row, Terminal

\* The same for the marks of publishOne and markRetry.
LEMMA MarkedRow ==
    ASSUME NEW row \in Row, RowOK(row), NEW status \in {"PENDING", "PUBLISHED"}
    PROVE  RowOK(Marked(row, status)) /\ Marked(row, status).status \in {status, row.status}
<1>1. CASE row.status = "PUBLISHING"
  <2> DEFINE new == [row EXCEPT !.status = status, !.due = FALSE, !.lease = "none"]
  <2>1. new \in Row
    BY DEF Row
  <2>2. new.status = status /\ new.lease = "none"
    BY DEF Row
  <2>3. Marked(row, status) = new
    BY <1>1 DEF Marked
  <2> HIDE DEF new
  <2> QED BY <2>1, <2>2, <2>3 DEF RowOK
<1>2. CASE row.status # "PUBLISHING"
  BY <1>2 DEF Marked
<1> QED BY <1>1, <1>2

\* The same for claim.
LEMMA ClaimedRow ==
    \A row \in Row :
        /\ RowOK([row EXCEPT !.status = "PUBLISHING", !.lease = "held"])
        /\ [row EXCEPT !.status = "PUBLISHING", !.lease = "held"].status = "PUBLISHING"
BY DEF RowOK, Row

\* The same for the passing of next_attempt_at, lease_until and expires_at.
LEMMA TimedRow ==
    ASSUME NEW row \in Row, RowOK(row)
    PROVE  /\ RowOK([row EXCEPT !.due = TRUE])
           /\ [row EXCEPT !.due = TRUE].status = row.status
           /\ RowOK([row EXCEPT !.lapsed = TRUE])
           /\ [row EXCEPT !.lapsed = TRUE].status = row.status
           /\ row.lease = "held" => RowOK([row EXCEPT !.lease = "over"])
           /\ [row EXCEPT !.lease = "over"].status = row.status
BY DEF RowOK, Row

\* The handlers' statements (InsertOutbox, RequeueOutbox, ConfirmOutbox of
\* store.go) preserve the invariant.
LEMMA HandlerInv ==
    ASSUME Inv, NEW i \in Messages, Handler(i)
    PROVE  Inv'
<1> USE DEF Inv, TypeOK, SentStageOnWire, PublishedWasSent
<1>1. CASE InsertOutbox(i)
  BY <1>1 DEF InsertOutbox, Put, Row, Terminal
<1>2. CASE RequeueOutbox(i)
  BY <1>2 DEF RequeueOutbox, Open, Row, Terminal
<1>3. CASE ConfirmOutbox(i)
  BY <1>3, ConfirmedRow DEF ConfirmOutbox, RowOK
<1> QED BY <1>1, <1>2, <1>3 DEF Handler

\* The two statements of publishBatch preserve the invariant.
LEMMA BatchInv ==
    ASSUME Inv, NEW p \in Replicas, Batch(p)
    PROVE  Inv'
<1> USE DEF Inv, TypeOK, SentStageOnWire, PublishedWasSent
<1>1. CASE KillExpired(p)
  BY <1>1, KilledRow DEF KillExpired, RowOK
<1>2. CASE Claim(p)
  <2> PICK taken \in SUBSET DOMAIN rows :
        /\ rows' = [i \in DOMAIN rows |->
                      IF i \in taken
                      THEN [rows[i] EXCEPT !.status = "PUBLISHING", !.lease = "held"]
                      ELSE rows[i]]
        /\ inflight' = [inflight EXCEPT ![p] = [i \in taken |-> "claimed"]]
    BY <1>2 DEF Claim
  <2>1. phase' = [phase EXCEPT ![p] = "expire"] /\ UNCHANGED <<wire, owed>>
    BY <1>2 DEF Claim
  <2>2. \A i \in DOMAIN rows : RowOK(rows'[i])
    BY ClaimedRow DEF RowOK
  <2>3. \A i \in DOMAIN rows : rows'[i].status = "PUBLISHED" => rows[i].status = "PUBLISHED"
    BY ClaimedRow
  <2>4. DOMAIN rows' = DOMAIN rows
    OBVIOUS
  <2> QED BY <2>1, <2>2, <2>3, <2>4 DEF RowOK, Stage
<1> QED BY <1>1, <1>2 DEF Batch

\* A crash of a replica preserves the invariant.
LEMMA RestartInv ==
    ASSUME Inv, NEW p \in Replicas, Restart(p)
    PROVE  Inv'
BY DEF Restart, EmptyTable, Inv, TypeOK, SentStageOnWire, PublishedWasSent

\* Every step of publishOne, successful or not, preserves the invariant.
LEMMA PublishOneInv ==
    ASSUME Inv, NEW p \in Replicas, NEW i \in DOMAIN inflight[p], PublishOne(p, i)
    PROVE  Inv'
<1> USE DEF Inv, TypeOK, SentStageOnWire, PublishedWasSent, Stage
<1>1. CASE Publish(p, i)
  BY <1>1 DEF Publish, SetStage, Put
<1>2. CASE PublishFails(p, i)
  BY <1>2 DEF PublishFails, SetStage, Put
<1>3. CASE MarkPublished(p, i)
  BY <1>3, MarkedRow DEF MarkPublished, Done, Drop, RowOK
<1>4. CASE MarkRetry(p, i)
  BY <1>4, MarkedRow DEF MarkRetry, Done, Drop, RowOK
<1>5. CASE MarkFails(p, i)
  BY <1>5 DEF MarkFails, Done, Drop
<1> QED BY <1>1, <1>2, <1>3, <1>4, <1>5 DEF PublishOne

\* Replacing one row by a proper one of the same status preserves the
\* invariant.
LEMMA OneRowInv ==
    ASSUME Inv, NEW i \in DOMAIN rows, NEW new, RowOK(new), new.status = rows[i].status,
           rows' = [rows EXCEPT ![i] = new], UNCHANGED <<phase, inflight, wire, owed>>
    PROVE  Inv'
BY DEF RowOK, Inv, TypeOK, SentStageOnWire, PublishedWasSent

\* Time passing preserves the invariant.
LEMMA TimeInv ==
    ASSUME Inv, NEW i \in DOMAIN rows, Time(i)
    PROVE  Inv'
<1>1. rows[i] \in Row /\ RowOK(rows[i])
  BY DEF RowOK, Inv, TypeOK
<1>2. CASE BecomeDue(i)
  <2> DEFINE new == [rows[i] EXCEPT !.due = TRUE]
  <2>1. rows' = [rows EXCEPT ![i] = new] /\ UNCHANGED <<phase, inflight, wire, owed>>
    BY <1>2 DEF BecomeDue
  <2>2. RowOK(new) /\ new.status = rows[i].status
    BY <1>1, TimedRow
  <2> QED BY <2>1, <2>2, OneRowInv
<1>3. CASE LeaseRunsOut(i)
  <2> DEFINE new == [rows[i] EXCEPT !.lease = "over"]
  <2>1. rows' = [rows EXCEPT ![i] = new] /\ UNCHANGED <<phase, inflight, wire, owed>>
    BY <1>3 DEF LeaseRunsOut
  <2>2. RowOK(new) /\ new.status = rows[i].status
    BY <1>1, <1>3, TimedRow DEF LeaseRunsOut
  <2> QED BY <2>1, <2>2, OneRowInv
<1>4. CASE Lapse(i)
  <2> DEFINE new == [rows[i] EXCEPT !.lapsed = TRUE]
  <2>1. rows' = [rows EXCEPT ![i] = new] /\ UNCHANGED <<phase, inflight, wire, owed>>
    BY <1>4 DEF Lapse
  <2>2. RowOK(new) /\ new.status = rows[i].status
    BY <1>1, TimedRow
  <2> QED BY <2>1, <2>2, OneRowInv
<1> QED BY <1>2, <1>3, <1>4 DEF Time

\* The invariant is inductive.
LEMMA NextInv == Inv /\ [Next]_vars => Inv'
<1> SUFFICES ASSUME Inv, [Next]_vars PROVE Inv'
  OBVIOUS
<1>1. CASE \E i \in Messages : Handler(i)
  BY <1>1, HandlerInv
<1>2. CASE \E p \in Replicas : Batch(p) \/ Restart(p)
  BY <1>2, BatchInv, RestartInv
<1>3. CASE \E p \in Replicas : \E i \in DOMAIN inflight[p] : PublishOne(p, i)
  BY <1>3, PublishOneInv
<1>4. CASE \E i \in DOMAIN rows : Time(i)
  BY <1>4, TimeInv
<1>5. CASE UNCHANGED vars
  BY <1>5 DEF vars, Inv, TypeOK, SentStageOnWire, PublishedWasSent
<1> QED BY <1>1, <1>2, <1>3, <1>4, <1>5 DEF Next

\* The invariant holds throughout.
LEMMA Invariance == Spec => []Inv
BY InitInv, NextInv, PTL DEF Spec

-----------------------------------------------------------------------------

\* Rows, stages and phases keep their types and the table's check
\* constraint on lease_until is never violated by a statement of outbox.go
\* or store.go.
THEOREM TypeCorrect == Spec => []TypeOK
<1>1. Inv => TypeOK
  BY DEF Inv
<1> QED BY <1>1, Invariance, PTL

\* A row marked PUBLISHED has been on the wire, though the UPDATE of
\* publishOne is not tied to the claim it belongs to.
THEOREM PublishedIsHonest == Spec => []PublishedWasSent
<1>1. Inv => PublishedWasSent
  BY DEF Inv
<1> QED BY <1>1, Invariance, PTL

\* No replica, however late its marks, opens a confirmed or dead row again.
THEOREM TerminalForGood == Spec => TerminalRowsStay
<1> DEFINE Stays == \A i \in DOMAIN rows : rows[i].status \in Terminal =>
                        i \in DOMAIN rows' /\ rows'[i].status = rows[i].status
<1>1. Inv /\ [Next]_vars => [Stays]_vars
  <2> SUFFICES ASSUME Inv, Next PROVE Stays
    OBVIOUS
  <2> USE DEF Inv, TypeOK, Terminal, Row
  <2>1. ASSUME NEW i \in Messages, Handler(i) PROVE Stays
    BY <2>1 DEF Handler, InsertOutbox, RequeueOutbox, ConfirmOutbox, Confirmed, Open, Put
  <2>2. ASSUME NEW p \in Replicas, Batch(p) PROVE Stays
    BY <2>2 DEF Batch, KillExpired, Killed, Claim, Claimable
  <2>3. ASSUME NEW p \in Replicas, Restart(p) PROVE Stays
    BY <2>3 DEF Restart
  <2>4. ASSUME NEW p \in Replicas, NEW i \in DOMAIN inflight[p], PublishOne(p, i)
        PROVE  Stays
    BY <2>4 DEF PublishOne, Publish, PublishFails, MarkPublished, MarkRetry, MarkFails, Marked
  <2>5. ASSUME NEW i \in DOMAIN rows, Time(i) PROVE Stays
    BY <2>5 DEF Time, BecomeDue, LeaseRunsOut, Lapse
  <2> QED BY <2>1, <2>2, <2>3, <2>4, <2>5 DEF Next
<1> QED BY <1>1, Invariance, PTL DEF Spec, TerminalRowsStay
-----------------------------------------------------------------------------
(* The publisher implements Relay, as far as safety goes: the fairness of  *)
(* Relay!FairSpec is checked by TLC.                                       *)

\* What a step that opens, closes and delays no row looks like from outside.
SameRows ==
    /\ DOMAIN rows' = DOMAIN rows
    /\ \A i \in DOMAIN rows :
          /\ rows'[i].lapsed = rows[i].lapsed
          /\ \/ rows'[i].status = rows[i].status
             \/ {rows[i].status, rows'[i].status} \cap Terminal = {}

\* Such a step leaves fate and late of the abstract outbox alone.
LEMMA SameRowsSeen ==
    ASSUME SameRows
    PROVE  /\ [i \in Messages |-> Fate(i)]' = [i \in Messages |-> Fate(i)]
           /\ {i \in DOMAIN rows : rows[i].lapsed}' = {i \in DOMAIN rows : rows[i].lapsed}
BY DEF SameRows, Fate

\* The empty outbox is the abstract initial state.
LEMMA RelayInit == Init => R!Init
BY DEF Init, R!Init, EmptyTable, Fate

\* Insert, requeue and confirm are Post, a stutter and Confirm.
LEMMA HandlerRelays ==
    ASSUME Inv, NEW i \in Messages, Handler(i)
    PROVE  [R!Next]_R!vars
<1> USE DEF Inv, TypeOK
<1>1. CASE InsertOutbox(i)
  <2>1. R!Post(i)
    BY <1>1 DEF InsertOutbox, Put, R!Post, Fate, Terminal
  <2> QED BY <2>1 DEF R!Next
<1>2. CASE RequeueOutbox(i)
  <2>1. SameRows /\ wire' = wire
    BY <1>2 DEF RequeueOutbox, Open, SameRows, Row, Terminal
  <2> QED BY <2>1, SameRowsSeen DEF R!vars
<1>3. CASE ConfirmOutbox(i) /\ rows[i].status = "CONFIRMED"
  <2>1. SameRows /\ wire' = wire
    BY <1>3 DEF ConfirmOutbox, Confirmed, SameRows, Row, Terminal
  <2> QED BY <2>1, SameRowsSeen DEF R!vars
<1>4. CASE ConfirmOutbox(i) /\ rows[i].status # "CONFIRMED"
  <2>1. /\ i \in DOMAIN rows /\ rows[i].status \notin Terminal
        /\ Kind[i] = "COMMAND" /\ wire' = wire
    BY <1>4 DEF ConfirmOutbox, Row, Terminal
  <2>2. /\ DOMAIN rows' = DOMAIN rows
        /\ \A j \in DOMAIN rows \ {i} : rows'[j] = rows[j]
        /\ rows'[i].status = "CONFIRMED" /\ rows'[i].lapsed = rows[i].lapsed
    BY <1>4 DEF ConfirmOutbox, Confirmed, Row
  <2>3. [j \in Messages |-> Fate(j)]'
            = [[j \in Messages |-> Fate(j)] EXCEPT ![i] = "CONFIRMED"]
    BY <2>1, <2>2 DEF Fate, Terminal
  <2>4. {j \in DOMAIN rows : rows[j].lapsed}' = {j \in DOMAIN rows : rows[j].lapsed}
    BY <2>2
  <2>5. R!Confirm(i)
    BY <2>1, <2>3, <2>4 DEF R!Confirm, Fate
  <2> QED BY <2>5 DEF R!Next
<1> QED BY <1>1, <1>2, <1>3, <1>4 DEF Handler

\* The bulk expiry is Die, a claim a stutter.
LEMMA BatchRelays ==
    ASSUME Inv, NEW p \in Replicas, Batch(p)
    PROVE  [R!Next]_R!vars
<1> USE DEF Inv, TypeOK
<1>1. CASE KillExpired(p)
  <2>1. DOMAIN rows' = DOMAIN rows /\ wire' = wire
    BY <1>1 DEF KillExpired
  <2>2. \A j \in DOMAIN rows :
           /\ rows'[j].lapsed = rows[j].lapsed
           /\ rows'[j].status = IF rows[j].status \notin Terminal /\ rows[j].lapsed
                                THEN "DEAD" ELSE rows[j].status
    BY <1>1 DEF KillExpired, Killed, Row, Terminal
  <2>3. {j \in DOMAIN rows : rows[j].lapsed}' = {j \in DOMAIN rows : rows[j].lapsed}
    BY <2>1, <2>2
  <2>4. R!Die
    BY <2>1, <2>2, <2>3 DEF R!Die, Fate, Terminal
  <2> QED BY <2>4 DEF R!Next
<1>2. CASE Claim(p)
  <2> PICK taken \in SUBSET {i \in DOMAIN rows : Claimable(i)} :
        rows' = [i \in DOMAIN rows |->
                   IF i \in taken
                   THEN [rows[i] EXCEPT !.status = "PUBLISHING", !.lease = "held"]
                   ELSE rows[i]]
    BY <1>2 DEF Claim
  <2>1. \A i \in taken : rows[i].status \notin Terminal
    BY DEF Claimable, Terminal
  <2>2. ASSUME NEW i \in taken
        PROVE  /\ rows'[i].lapsed = rows[i].lapsed
               /\ rows'[i].status = "PUBLISHING"
    BY DEF Row
  <2>3. \A i \in DOMAIN rows \ taken : rows'[i] = rows[i]
    OBVIOUS
  <2>4. DOMAIN rows' = DOMAIN rows
    OBVIOUS
  <2>5. SameRows
    BY <2>1, <2>2, <2>3, <2>4 DEF SameRows, Terminal
  <2>6. wire' = wire
    BY <1>2 DEF Claim
  <2> QED BY <2>5, <2>6, SameRowsSeen DEF R!vars
<1> QED BY <1>1, <1>2 DEF Batch

\* A mark of publishOne opens and closes nothing.
LEMMA MarkedSame ==
    ASSUME Inv, NEW i \in DOMAIN rows, NEW status \in {"PENDING", "PUBLISHED"},
           rows' = [rows EXCEPT ![i] = Marked(@, status)]
    PROVE  SameRows
BY DEF Inv, TypeOK, Marked, SameRows, Row, Terminal

\* A publish, also one that is reported as failed, is Carry or a stutter;
\* the marks are stutters.
LEMMA PublishOneRelays ==
    ASSUME Inv, NEW p \in Replicas, NEW i \in DOMAIN inflight[p], PublishOne(p, i)
    PROVE  [R!Next]_R!vars
<1>0. i \in DOMAIN rows /\ i \in Messages
  BY DEF Inv, TypeOK
<1>1. CASE rows' = rows /\ wire' = wire \cup {i}
  <2>1. SameRows
    BY <1>1 DEF SameRows
  <2>2. R!Carry(i)
    BY <1>0, <1>1, <2>1, SameRowsSeen DEF R!Carry, Fate, Inv, TypeOK, Row, Terminal
  <2> QED BY <1>0, <2>2 DEF R!Next
<1>2. CASE rows' = rows /\ wire' = wire
  <2>1. SameRows
    BY <1>2 DEF SameRows
  <2> QED BY <1>2, <2>1, SameRowsSeen DEF R!vars
<1>3. CASE MarkPublished(p, i) \/ MarkRetry(p, i)
  <2>1. SameRows /\ wire' = wire
    BY <1>0, <1>3, MarkedSame DEF MarkPublished, MarkRetry
  <2> QED BY <2>1, SameRowsSeen DEF R!vars
<1> QED BY <1>1, <1>2, <1>3 DEF PublishOne, Publish, PublishFails, MarkFails

\* Of the timestamps only expires_at is seen from outside.
LEMMA TimeRelays ==
    ASSUME Inv, NEW i \in DOMAIN rows, Time(i)
    PROVE  [R!Next]_R!vars
<1> USE DEF Inv, TypeOK
<1>1. CASE BecomeDue(i) \/ LeaseRunsOut(i)
  <2>1. SameRows /\ wire' = wire
    BY <1>1 DEF BecomeDue, LeaseRunsOut, SameRows, Row
  <2> QED BY <2>1, SameRowsSeen DEF R!vars
<1>2. CASE Lapse(i)
  <2>1. /\ DOMAIN rows' = DOMAIN rows /\ wire' = wire
        /\ \A j \in DOMAIN rows : rows'[j].status = rows[j].status
        /\ \A j \in DOMAIN rows \ {i} : rows'[j].lapsed = rows[j].lapsed
        /\ rows'[i].lapsed = TRUE
    BY <1>2 DEF Lapse, Row
  <2>2. [j \in Messages |-> Fate(j)]' = [j \in Messages |-> Fate(j)]
    BY <2>1 DEF Fate
  <2>3. {j \in DOMAIN rows : rows[j].lapsed}' = {j \in DOMAIN rows : rows[j].lapsed} \cup {i}
    BY <2>1
  <2>4. i \in Messages /\ Fate(i) # "absent"
    BY DEF Fate, Row, Terminal
  <2>5. R!Lapse(i)
    BY <2>1, <2>2, <2>3, <2>4 DEF R!Lapse
  <2> QED BY <2>4, <2>5 DEF R!Next
<1> QED BY <1>1, <1>2 DEF Time

\* A crash is not seen at all.
LEMMA StepRelays == Inv /\ [Next]_vars => [R!Next]_R!vars
<1> SUFFICES ASSUME Inv, [Next]_vars PROVE [R!Next]_R!vars
  OBVIOUS
<1>1. CASE \E i \in Messages : Handler(i)
  BY <1>1, HandlerRelays
<1>2. CASE \E p \in Replicas : Batch(p)
  BY <1>2, BatchRelays
<1>3. CASE \E p \in Replicas : \E i \in DOMAIN inflight[p] : PublishOne(p, i)
  BY <1>3, PublishOneRelays
<1>4. CASE \E i \in DOMAIN rows : Time(i)
  BY <1>4, TimeRelays
<1>5. CASE UNCHANGED vars \/ \E p \in Replicas : Restart(p)
  <2>1. SameRows /\ wire' = wire
    BY <1>5 DEF vars, Restart, SameRows
  <2> QED BY <2>1, SameRowsSeen DEF R!vars
<1> QED BY <1>1, <1>2, <1>3, <1>4, <1>5 DEF Next

\* Any number of replicas working on one outbox table, as outbox.go and
\* store.go have them, is one relay: closed rows stay closed, only commands
\* are confirmed, only rows past their expiry die, nothing is carried that
\* was not inserted.
THEOREM RelayRefined == Spec => R!Spec
BY RelayInit, StepRelays, Invariance, PTL DEF Spec, R!Spec
=============================================================================

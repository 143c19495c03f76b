---------------------------- MODULE VerdictProofs ----------------------------
(***************************************************************************)
(* The verdicts of rw-active-sessions, for any commands, answers and       *)
(* replicas: one result per operation, one live top-up command, versions   *)
(* that count events, payment behind every activation; and the service     *)
(* implements Authority.                                                   *)
(*                                                                         *)
(* The handlers are first reduced to four shapes of step (Quiet, Opened,   *)
(* Closed, Replaced); the invariants are then proved shape by shape.       *)
(***************************************************************************)
EXTENDS SessionsProofs

-----------------------------------------------------------------------------
(* The inductive invariant                                                 *)

\* The current top-up command of a verification is a row of the outbox, and
\* its verify command a row of the inbox.
Filed ==
    \A op \in DOMAIN verifications :
        LET v == verifications[op]
        IN  /\ v.topup \in DOMAIN outbox
            /\ outbox[v.topup].kind = "COMMAND" /\ outbox[v.topup].op = op
            /\ v.cmd.id \in DOMAIN inbox

\* OneVerdictPerOperation, row by row: a result is the one its command's
\* inbox row refers to, and what is closed has one.
ResultsFiled ==
    /\ \A i \in DOMAIN outbox : outbox[i].kind = "RESULT" =>
          /\ Finished(outbox[i].op)
          /\ outbox[i].code = verifications[outbox[i].op].code
          /\ inbox[verifications[outbox[i].op].cmd.id].result = i
    /\ \A op \in DOMAIN verifications : Finished(op) =>
          LET i == inbox[verifications[op].cmd.id].result
          IN  i \in DOMAIN outbox /\ outbox[i].kind = "RESULT" /\ outbox[i].op = op

\* The code of a verification tells its verdict.
CodesTell ==
    \A op \in DOMAIN verifications : Finished(op) =>
        /\ verifications[op].code \in ResultCodes
        /\ VerdictOf(verifications[op].code) = verifications[op].status

\* An item that a reconciler will replace, not expire, was read when its
\* top-up command was dead: without this OneLiveTopupCommand would be lost
\* in ReplaceTopupCommand, which does not look at that row again.
BatchDead ==
    \A r \in Replicas : \A item \in batch[r] : item.offer > batchNow[r] =>
        item.topup \in DOMAIN outbox /\ outbox[item.topup].status = "DEAD"

VerdictInv ==
    /\ TypeOK
    /\ CommandInv
    /\ Filed
    /\ ResultsFiled
    /\ CodesTell
    /\ BatchDead
    /\ OneLiveTopupCommand

-----------------------------------------------------------------------------
(* Shapes of a step                                                        *)

\* A row of the outbox keeps its message for good, and its status once that
\* is terminal.
RowKept(old, new) ==
    /\ new.kind = old.kind /\ new.op = old.op
    /\ new.code = old.code /\ new.version = old.version
    /\ old.status \in OutboxTerminal => new.status = old.status

RowsKept(old, new) ==
    /\ DOMAIN old \subseteq DOMAIN new
    /\ \A i \in DOMAIN old : RowKept(old[i], new[i])

\* One row more, open and with the given message.
Inserted(kind, op, code, version) ==
    /\ RowsKept(outbox, outbox')
    /\ NextID(outbox) \notin DOMAIN outbox
    /\ DOMAIN outbox' = DOMAIN outbox \cup {NextID(outbox)}
    /\ outbox'[NextID(outbox)].kind = kind
    /\ outbox'[NextID(outbox)].op = op
    /\ outbox'[NextID(outbox)].code = code
    /\ outbox'[NextID(outbox)].version = version

\* No verification changes, and no row is inserted into the outbox.
Quiet ==
    /\ RowsKept(outbox, outbox')
    /\ DOMAIN outbox' = DOMAIN outbox
    /\ verifications' = verifications
    /\ \A m \in DOMAIN inbox : m \in DOMAIN inbox' /\ inbox'[m] = inbox[m]

\* A new command: inbox row, top-up command and verification.
Opened(c) ==
    /\ c.op \notin DOMAIN verifications /\ c.id \notin DOMAIN inbox
    /\ Inserted("COMMAND", c.op, "VERIFY", 0)
    /\ DOMAIN verifications' = DOMAIN verifications \cup {c.op}
    /\ \A o \in DOMAIN verifications : verifications'[o] = verifications[o]
    /\ verifications'[c.op].cmd = c
    /\ verifications'[c.op].topup = NextID(outbox)
    /\ verifications'[c.op].status = "PENDING"
    /\ DOMAIN inbox' = DOMAIN inbox \cup {c.id}
    /\ \A m \in DOMAIN inbox : inbox'[m] = inbox[m]

\* A verdict: its result, the end of the top-up command, and the inbox row
\* of the command completed with that result.
Closed(op, status, code, version) ==
    /\ IsPending(op)
    /\ Inserted("RESULT", op, code, version)
    /\ outbox'[verifications[op].topup].status \in OutboxTerminal
    /\ DOMAIN verifications' = DOMAIN verifications
    /\ \A o \in DOMAIN verifications \ {op} : verifications'[o] = verifications[o]
    /\ verifications'[op].cmd = verifications[op].cmd
    /\ verifications'[op].topup = verifications[op].topup
    /\ verifications'[op].status = status
    /\ verifications'[op].code = code
    /\ \A m \in DOMAIN inbox :
          /\ m \in DOMAIN inbox'
          /\ m # verifications[op].cmd.id => inbox'[m] = inbox[m]
    /\ verifications[op].cmd.id \in DOMAIN inbox'
    /\ inbox'[verifications[op].cmd.id].result = NextID(outbox)

\* A dead top-up command gets a successor.
Replaced(op) ==
    /\ IsPending(op)
    /\ outbox[verifications[op].topup].status = "DEAD"
    /\ Inserted("COMMAND", op, "VERIFY", 0)
    /\ DOMAIN verifications' = DOMAIN verifications
    /\ \A o \in DOMAIN verifications \ {op} : verifications'[o] = verifications[o]
    /\ verifications'[op].cmd = verifications[op].cmd
    /\ verifications'[op].status = verifications[op].status
    /\ verifications'[op].code = verifications[op].code
    /\ verifications'[op].topup = NextID(outbox)
    /\ inbox' = inbox

\* The verdicts, and the codes that go with each.
Verdict == {"VERIFIED", "REJECTED", "EXPIRED"}

Fits(status, code) == code \in ResultCodes /\ VerdictOf(code) = status

-----------------------------------------------------------------------------
(* What the statements do                                                  *)

\* RequeueOutbox, ConfirmOutbox, the publisher's UPDATE and the bulk expiry
\* keep the rows; a confirmed row is terminal.
LEMMA StatementsKeepRows ==
    ASSUME NEW ob \in Seq(OutboxRow), NEW id, NEW time \in Nat
    PROVE  /\ RowsKept(ob, ob)
           /\ RowsKept(ob, RequeueOutbox(ob, id))
           /\ RowsKept(ob, ConfirmOutbox(ob, id))
           /\ RowsKept(ob, ExpireOutbox(ob, time))
           /\ id \in DOMAIN ob /\ ob[id].status \notin OutboxTerminal =>
                  RowsKept(ob, [ob EXCEPT ![id].status = "PUBLISHED"])
           /\ id \in DOMAIN ob => ConfirmOutbox(ob, id)[id].status \in OutboxTerminal
<1>1. \A i \in DOMAIN ob : ob[i] \in OutboxRow
  OBVIOUS
<1>2. RowsKept(ob, ob)
  BY DEF RowsKept, RowKept
<1>3. RowsKept(ob, RequeueOutbox(ob, id))
  BY <1>1 DEF RowsKept, RowKept, RequeueOutbox, OutboxRow
<1>4. RowsKept(ob, ConfirmOutbox(ob, id))
  BY <1>1 DEF RowsKept, RowKept, ConfirmOutbox, OutboxRow, OutboxTerminal
<1>5. RowsKept(ob, ExpireOutbox(ob, time))
  BY <1>1 DEF RowsKept, RowKept, ExpireOutbox, Overdue, OutboxRow
<1>6. ASSUME id \in DOMAIN ob, ob[id].status \notin OutboxTerminal
      PROVE  RowsKept(ob, [ob EXCEPT ![id].status = "PUBLISHED"])
  BY <1>1, <1>6 DEF RowsKept, RowKept, OutboxRow
<1>7. ASSUME id \in DOMAIN ob PROVE ConfirmOutbox(ob, id)[id].status \in OutboxTerminal
  BY <1>1, <1>7 DEF ConfirmOutbox, OutboxRow, OutboxTerminal
<1> QED BY <1>2, <1>3, <1>4, <1>5, <1>6, <1>7

\* The ID of the next row is new, and inserting it keeps the others.
LEMMA InsertKeepsRows ==
    ASSUME NEW ob \in Seq(OutboxRow), NEW row \in OutboxRow
    PROVE  /\ RowsKept(ob, InsertOutbox(ob, row))
           /\ NextID(ob) \notin DOMAIN ob
           /\ DOMAIN InsertOutbox(ob, row) = DOMAIN ob \cup {NextID(ob)}
           /\ InsertOutbox(ob, row)[NextID(ob)] = row
BY DEF RowsKept, RowKept, InsertOutbox, NextID

\* RowsKept composes.
LEMMA RowsKeptTwice ==
    ASSUME NEW x, NEW y, NEW z, RowsKept(x, y), RowsKept(y, z)
    PROVE  RowsKept(x, z)
BY DEF RowsKept, RowKept

-----------------------------------------------------------------------------
(* Each handler has one of the shapes                                      *)

\* AcceptVerification opens a verification.
LEMMA AcceptOpens ==
    ASSUME TypeOK, NEW c \in Commands, AcceptVerification(c)
    PROVE  Opened(c)
<1> DEFINE row == TopupCommand(c.op, Earlier(now + TopupTTL, c.expires))
           v   == [cmd |-> c, topup |-> NextID(outbox), code |-> "NONE",
                   status |-> "PENDING"]
<1>1. row \in OutboxRow
  BY BoundsAssumption, CommandTypes DEF TypeOK, TopupCommand, Earlier, OutboxRow
<1>2. row.kind = "COMMAND" /\ row.op = c.op /\ row.code = "VERIFY" /\ row.version = 0
  BY DEF TopupCommand
<1>3. /\ c.op \notin DOMAIN verifications /\ c.id \notin DOMAIN inbox
      /\ inbox' = RegisterInbox(inbox, c.id)
      /\ outbox' = InsertOutbox(outbox, row)
      /\ verifications' = Put(verifications, c.op, v)
  BY DEF AcceptVerification, Accepted, OperationIsNew
<1>4. v.cmd = c /\ v.topup = NextID(outbox) /\ v.status = "PENDING"
  OBVIOUS
<1> HIDE DEF v, row
<1>5. Inserted("COMMAND", c.op, "VERIFY", 0)
  BY <1>1, <1>2, <1>3, InsertKeepsRows DEF Inserted, TypeOK
<1>6. /\ DOMAIN verifications' = DOMAIN verifications \cup {c.op}
      /\ \A o \in DOMAIN verifications : verifications'[o] = verifications[o]
      /\ verifications'[c.op] = v
  BY <1>3 DEF Put
<1>7. /\ DOMAIN inbox' = DOMAIN inbox \cup {c.id}
      /\ \A m \in DOMAIN inbox : inbox'[m] = inbox[m]
  BY <1>3 DEF RegisterInbox, Put
<1> QED BY <1>3, <1>4, <1>5, <1>6, <1>7 DEF Opened

\* Complete closes a verification, and gives the incoming answers its
\* result.
LEMMA CompleteCloses ==
    ASSUME TypeOK, Filed, NEW box, NEW incoming, NEW op, IsPending(op),
           incoming \cap DOMAIN inbox = {}, incoming \subseteq DOMAIN box,
           DOMAIN inbox \subseteq DOMAIN box, \A m \in DOMAIN inbox : box[m] = inbox[m],
           NEW status, NEW code \in ResultCodes, NEW version \in Nat,
           Complete(box, incoming, op, status, code, version)
    PROVE  /\ Closed(op, status, code, version)
           /\ \A a \in incoming : /\ HasResult(inbox', a)
                                  /\ inbox'[a].result = NextID(outbox)
<1> DEFINE v   == verifications[op]
           row == Result(op, code, version)
           mid == InsertOutbox(outbox, row)
           new == [v EXCEPT !.status = status, !.code = code]
           id  == v.cmd.id
<1>1. op \in DOMAIN verifications /\ op \in Ops /\ v \in Verification
  BY DEF IsPending, TypeOK
<1>2. row \in OutboxRow
  BY <1>1, BoundsAssumption DEF Result, OutboxRow, TypeOK
<1>3. row.kind = "RESULT" /\ row.op = op /\ row.code = code /\ row.version = version
  BY DEF Result
<1>4. /\ new.cmd = v.cmd /\ new.topup = v.topup
      /\ new.status = status /\ new.code = code
  BY <1>1 DEF Verification
<1>5. /\ outbox' = ConfirmOutbox(mid, v.topup)
      /\ verifications' = Put(verifications, op, new)
      /\ inbox' = CompleteInbox(box, ToComplete(op, incoming), NextID(outbox))
      /\ id \in DOMAIN box
  BY DEF Complete, Processing
<1> HIDE DEF row, new
<1>6. /\ mid \in Seq(OutboxRow) /\ RowsKept(outbox, mid)
      /\ NextID(outbox) \notin DOMAIN outbox
      /\ DOMAIN mid = DOMAIN outbox \cup {NextID(outbox)}
      /\ mid[NextID(outbox)] = row
  BY <1>2, InsertKeepsRows, OutboxInsert DEF TypeOK
<1> HIDE DEF mid
<1>7. /\ RowsKept(mid, outbox') /\ DOMAIN outbox' = DOMAIN mid
      /\ outbox'[v.topup].status \in OutboxTerminal
  <2>1. v.topup \in DOMAIN mid
    BY <1>1, <1>6 DEF Filed
  <2>2. \E t \in Nat : TRUE
    OBVIOUS
  <2> QED BY <1>5, <1>6, <2>1, <2>2, StatementsKeepRows, OutboxStatements
<1>8. Inserted("RESULT", op, code, version)
  <2>1. RowsKept(outbox, outbox')
    BY <1>6, <1>7, RowsKeptTwice
  <2>2. RowKept(row, outbox'[NextID(outbox)])
    BY <1>6, <1>7 DEF RowsKept
  <2> QED BY <1>3, <1>6, <1>7, <2>1, <2>2 DEF Inserted, RowKept
<1>9. /\ DOMAIN verifications' = DOMAIN verifications
      /\ \A o \in DOMAIN verifications \ {op} : verifications'[o] = verifications[o]
      /\ verifications'[op] = new
  BY <1>1, <1>5 DEF Put
<1>10. /\ DOMAIN inbox' = DOMAIN box
       /\ \A m \in incoming \cup {id} : m \in DOMAIN inbox' =>
             inbox'[m] = [status |-> "COMPLETED", result |-> NextID(outbox)]
       /\ \A m \in DOMAIN box \ (incoming \cup {id}) : inbox'[m] = box[m]
  BY <1>5 DEF CompleteInbox, ToComplete
<1>11. NextID(outbox) # NoResult
  BY DEF NextID, NoResult, TypeOK
<1>12. \A a \in incoming : HasResult(inbox', a) /\ inbox'[a].result = NextID(outbox)
  BY <1>10, <1>11 DEF HasResult
<1>13. /\ \A m \in DOMAIN inbox :
             /\ m \in DOMAIN inbox'
             /\ m # id => inbox'[m] = inbox[m]
       /\ id \in DOMAIN inbox'
       /\ inbox'[id].result = NextID(outbox)
  BY <1>5, <1>10
<1> QED BY <1>4, <1>7, <1>8, <1>9, <1>12, <1>13 DEF Closed

\* ReplaceTopupCommand replaces a dead command: the reconciler read the
\* item when that was so, and a dead row stays dead.
LEMMA ReplaceReplaces ==
    ASSUME TypeOK, BatchDead, NEW r \in Replicas, NEW item \in batch[r],
           ReplaceTopupCommand(r, item)
    PROVE  Replaced(item.op)
<1> DEFINE row == TopupCommand(item.op, ReplacementExpiry(r, item))
           op  == item.op
<1>1. item \in RetryItem /\ batchNow[r] \in Nat
  BY DEF TypeOK
<1>2. row \in OutboxRow
  BY <1>1, BoundsAssumption
     DEF TopupCommand, ReplacementExpiry, Earlier, OutboxRow, RetryItem
<1>3. row.kind = "COMMAND" /\ row.op = op /\ row.code = "VERIFY" /\ row.version = 0
  BY DEF TopupCommand
<1>4. /\ IsPending(op) /\ verifications[op].topup = item.topup
      /\ item.offer > batchNow[r]
      /\ outbox' = InsertOutbox(outbox, row)
      /\ verifications' = [verifications EXCEPT ![op].topup = NextID(outbox)]
      /\ inbox' = inbox
  BY DEF ReplaceTopupCommand, StillCurrent
<1> HIDE DEF row
<1>5. outbox[verifications[op].topup].status = "DEAD"
  BY <1>4 DEF BatchDead
<1>6. Inserted("COMMAND", op, "VERIFY", 0)
  BY <1>2, <1>3, <1>4, InsertKeepsRows DEF Inserted, TypeOK
<1>7. op \in DOMAIN verifications /\ verifications[op] \in Verification
  BY <1>4 DEF IsPending, TypeOK
<1>8. /\ DOMAIN verifications' = DOMAIN verifications
      /\ \A o \in DOMAIN verifications \ {op} : verifications'[o] = verifications[o]
      /\ verifications'[op].cmd = verifications[op].cmd
      /\ verifications'[op].status = verifications[op].status
      /\ verifications'[op].code = verifications[op].code
      /\ verifications'[op].topup = NextID(outbox)
  BY <1>4, <1>7 DEF Verification
<1> QED BY <1>4, <1>5, <1>6, <1>8 DEF Replaced

\* The remaining steps, those that do nothing included.
QuietStep ==
    \/ \E c \in Commands : RepeatVerification(c)
    \/ \E a \in AnswerIDs : IgnoreLateAnswer(a) \/ RepeatAnswer(a)
    \/ \E r \in Replicas : PendingRetries(r) \/ Restart(r)
    \/ \E r \in Replicas : \E item \in batch[r] : AbortBatch(r, item) \/ SkipStaleItem(r, item)
    \/ \E i \in DOMAIN outbox : Publish(i)
    \/ \E i \in sent, a \in AnswerIDs : TopupAnswer(i, a)
    \/ KillExpired
    \/ Tick
    \/ UNCHANGED vars

\* They are quiet.
LEMMA QuietSteps ==
    ASSUME TypeOK, QuietStep
    PROVE  Quiet
<1>1. outbox \in Seq(OutboxRow) /\ now \in Nat
  BY DEF TypeOK
<1>2. RowsKept(outbox, outbox) /\ RowsKept(outbox, ExpireOutbox(outbox, now))
  BY <1>1, StatementsKeepRows
<1>3. \A id : RowsKept(outbox, RequeueOutbox(outbox, id))
  BY <1>1, StatementsKeepRows
<1>4. DOMAIN ExpireOutbox(outbox, now) = DOMAIN outbox
      /\ \A id : DOMAIN RequeueOutbox(outbox, id) = DOMAIN outbox
  BY <1>1, OutboxStatements
<1>5. ASSUME NEW i \in DOMAIN outbox, Publish(i) PROVE Quiet
  <2>1. outbox[i].status \notin OutboxTerminal
    BY <1>5 DEF Publish, OutboxTerminal
  <2>2. RowsKept(outbox, [outbox EXCEPT ![i].status = "PUBLISHED"])
    BY <1>1, <2>1, StatementsKeepRows
  <2> QED BY <1>2, <1>5, <2>2 DEF Publish, Quiet
<1>6. ASSUME NEW a \in AnswerIDs, IgnoreLateAnswer(a) PROVE Quiet
  <2>1. \A m \in DOMAIN inbox : m \in DOMAIN inbox' /\ inbox'[m] = inbox[m]
    BY <1>6 DEF IgnoreLateAnswer, Accepted, RejectInbox, RegisterInbox, Processing, Put
  <2> QED BY <1>2, <1>6, <2>1 DEF IgnoreLateAnswer, Quiet
<1>7. CASE \/ \E c \in Commands : RepeatVerification(c)
           \/ \E a \in AnswerIDs : RepeatAnswer(a)
           \/ KillExpired
  BY <1>2, <1>3, <1>4, <1>7 DEF RepeatVerification, RepeatAnswer, KillExpired, Quiet
<1>8. CASE UNCHANGED <<inbox, outbox, verifications>>
  BY <1>2, <1>8 DEF Quiet
<1> QED BY <1>5, <1>6, <1>7, <1>8
        DEF QuietStep, PendingRetries, Restart, AbortBatch, SkipStaleItem, TopupAnswer,
            Tick, vars

\* Every step of the specification by name.
LEMMA StepNames ==
    ASSUME [Next]_vars
    PROVE  \/ QuietStep
           \/ \E c \in Commands : AcceptVerification(c)
           \/ \E a \in AnswerIDs : \/ ActivateSession(a)
                                   \/ RefuseVerified(a) \/ RefuseConflict(a)
                                   \/ ApplyTopupRejected(a)
           \/ \E r \in Replicas : \E item \in batch[r] :
                 ExpireVerification(r, item) \/ ReplaceTopupCommand(r, item)
BY DEF Next, QuietStep, HandleActivationVerify, HandleAnswer, HandleTopupVerified,
       Reconcile, ReconcileItem

\* The verdict on an answer has the shape Closed, and the answer gets the
\* result.
LEMMA AnswerCloses ==
    ASSUME TypeOK, Filed, NEW a \in AnswerIDs, OpenAnswer(a), NEW status,
           NEW code \in ResultCodes, NEW version \in Nat,
           Complete(RegisterInbox(inbox, a), {a}, answers[a].op, status, code, version)
    PROVE  /\ Closed(answers[a].op, status, code, version)
           /\ HasResult(inbox', a)
           /\ inbox'[a].result = NextID(outbox)
<1> DEFINE box == RegisterInbox(inbox, a)
<1>1. IsPending(answers[a].op) /\ a \notin DOMAIN inbox
  BY DEF OpenAnswer, Accepted
<1>2. DOMAIN box = DOMAIN inbox \cup {a} /\ \A m \in DOMAIN inbox : box[m] = inbox[m]
  BY <1>1 DEF RegisterInbox, Put
<1> HIDE DEF box
<1>3. Complete(box, {a}, answers[a].op, status, code, version)
  BY DEF box
<1> QED BY <1>1, <1>2, <1>3, CompleteCloses

\* The refusals and the expiry as steps of the shape Closed.
LEMMA RefusalCloses ==
    ASSUME TypeOK, Filed,
           \/ \E a \in AnswerIDs : RefuseVerified(a) \/ RefuseConflict(a)
                                     \/ ApplyTopupRejected(a)
           \/ \E r \in Replicas : \E item \in batch[r] : ExpireVerification(r, item)
    PROVE  \E op, code : \E status \in {"REJECTED", "EXPIRED"} :
              Fits(status, code) /\ Closed(op, status, code, 0)
<1> USE DEF ResultCodes, RejectionCodes
<1>1. /\ \A code \in RejectionCodes : Fits("REJECTED", code)
      /\ Fits("EXPIRED", "EXPIRED")
  BY DEF Fits, VerdictOf
<1>2. ASSUME NEW a \in AnswerIDs,
             RefuseVerified(a) \/ RefuseConflict(a) \/ ApplyTopupRejected(a)
      PROVE  \E op, code : \E status \in {"REJECTED", "EXPIRED"} :
                Fits(status, code) /\ Closed(op, status, code, 0)
  <2>1. OpenAnswer(a)
    BY <1>2 DEF RefuseVerified, RefuseConflict, ApplyTopupRejected
  <2>2. PICK code \in RejectionCodes :
          Complete(RegisterInbox(inbox, a), {a}, answers[a].op, "REJECTED", code, 0)
    BY <1>2 DEF RefuseVerified, RefuseConflict, ApplyTopupRejected
  <2>3. code \in ResultCodes
    BY <2>2
  <2>4. Closed(answers[a].op, "REJECTED", code, 0)
    BY <2>1, <2>2, <2>3, AnswerCloses
  <2> QED BY <1>1, <2>4
<1>3. ASSUME NEW r \in Replicas, NEW item \in batch[r], ExpireVerification(r, item)
      PROVE  Closed(item.op, "EXPIRED", "EXPIRED", 0)
  <2>1. IsPending(item.op) /\ Complete(inbox, {}, item.op, "EXPIRED", "EXPIRED", 0)
    BY <1>3 DEF ExpireVerification, StillCurrent
  <2> QED BY <2>1, CompleteCloses
<1> QED BY <1>1, <1>2, <1>3

\* The activation as a step of the shape Closed.
LEMMA ActivationCloses ==
    ASSUME TypeOK, Filed, NEW a \in AnswerIDs, ActivateSession(a)
    PROVE  LET op == answers[a].op
               c  == verifications[op].cmd
           IN  /\ Closed(op, "VERIFIED", "ACTIVATED", Activated(c).version)
               /\ Fits("VERIFIED", "ACTIVATED")
               /\ HasResult(inbox', a)
               /\ inbox'[a].result = NextID(outbox)
<1> DEFINE op == answers[a].op
           c  == verifications[op].cmd
<1>1. /\ OpenAnswer(a)
      /\ Complete(RegisterInbox(inbox, a), {a}, op, "VERIFIED", "ACTIVATED",
                  Activated(c).version)
  BY DEF ActivateSession
<1>2. c \in Commands
  BY <1>1, ActivationFacts
<1>3. Activated(c).version \in Nat
  BY <1>2, ActivatedType DEF ActiveSession
<1>4. Fits("VERIFIED", "ACTIVATED") /\ "ACTIVATED" \in ResultCodes
  BY DEF Fits, VerdictOf, ResultCodes, RejectionCodes
<1> QED BY <1>1, <1>3, <1>4, AnswerCloses

\* Every step has a shape.
LEMMA StepShapes ==
    ASSUME TypeOK, Filed, BatchDead, [Next]_vars
    PROVE  \/ Quiet
           \/ \E c \in Commands : Opened(c)
           \/ \E op, code, version : \E status \in Verdict :
                 Fits(status, code) /\ Closed(op, status, code, version)
           \/ \E op : Replaced(op)
<1>1. CASE QuietStep
  BY <1>1, QuietSteps
<1>2. ASSUME NEW c \in Commands, AcceptVerification(c) PROVE Opened(c)
  BY <1>2, AcceptOpens
<1>3. ASSUME NEW a \in AnswerIDs, ActivateSession(a)
      PROVE  \E op, code, version : Fits("VERIFIED", code) /\ Closed(op, "VERIFIED", code, version)
  BY <1>3, ActivationCloses
<1>4. ASSUME \/ \E a \in AnswerIDs : RefuseVerified(a) \/ RefuseConflict(a)
                                       \/ ApplyTopupRejected(a)
             \/ \E r \in Replicas : \E item \in batch[r] : ExpireVerification(r, item)
      PROVE  \E op, code : \E status \in {"REJECTED", "EXPIRED"} :
                Fits(status, code) /\ Closed(op, status, code, 0)
  BY <1>4, RefusalCloses
<1>5. ASSUME NEW r \in Replicas, NEW item \in batch[r], ReplaceTopupCommand(r, item)
      PROVE  Replaced(item.op)
  BY <1>5, ReplaceReplaces
<1> QED BY <1>1, <1>2, <1>3, <1>4, <1>5, StepNames DEF Verdict

-----------------------------------------------------------------------------
(* The invariant, shape by shape                                           *)

TableInv == Filed /\ ResultsFiled /\ CodesTell /\ OneLiveTopupCommand

\* A quiet step preserves it.
LEMMA QuietTables ==
    ASSUME TableInv, Quiet
    PROVE  TableInv'
<1> USE DEF TableInv, Quiet, RowsKept, RowKept
<1>1. Filed'
  BY DEF Filed
<1>2. ResultsFiled'
  <2>1. \A op : Finished(op)' <=> Finished(op)
    BY DEF Finished, IsPending
  <2>2. \A op \in DOMAIN verifications :
            inbox'[verifications[op].cmd.id] = inbox[verifications[op].cmd.id]
    BY DEF Filed
  <2> QED BY <2>1, <2>2 DEF ResultsFiled, Finished
<1>3. CodesTell'
  BY DEF CodesTell, Finished, IsPending
<1>4. OneLiveTopupCommand'
  BY DEF OneLiveTopupCommand, IsPending
<1> QED BY <1>1, <1>2, <1>3, <1>4

\* So does a new command: an operation without verification has no result.
LEMMA OpenedTables ==
    ASSUME TypeOK, TableInv, NEW c \in Commands, Opened(c)
    PROVE  TableInv'
<1> USE DEF TableInv
<1>1. \A i \in DOMAIN outbox : RowKept(outbox[i], outbox'[i]) /\ i \in DOMAIN outbox'
  BY DEF Opened, Inserted, RowsKept
<1>2. Filed'
  BY <1>1 DEF Filed, Opened, Inserted, RowKept
<1>3. \A op : Finished(op)' <=> Finished(op)
  BY DEF Finished, IsPending, Opened
<1>4. \A op : Finished(op) => verifications'[op] = verifications[op]
  BY DEF Finished, Opened
<1>5. \A op : Finished(op) =>
          inbox'[verifications[op].cmd.id] = inbox[verifications[op].cmd.id]
  BY DEF Finished, Opened, Filed
<1>6. ResultsFiled'
  <2>1. ASSUME NEW i \in DOMAIN outbox', outbox'[i].kind = "RESULT"
        PROVE  /\ Finished(outbox[i].op)'
               /\ outbox'[i].code = verifications'[outbox'[i].op].code
               /\ inbox'[verifications'[outbox'[i].op].cmd.id].result = i
    <3>1. i \in DOMAIN outbox
      BY <2>1 DEF Opened, Inserted
    <3> QED BY <1>1, <1>3, <1>4, <1>5, <2>1, <3>1 DEF ResultsFiled, RowKept
  <2>2. ASSUME NEW op \in DOMAIN verifications', Finished(op)'
        PROVE  LET i == inbox'[verifications'[op].cmd.id].result
               IN  i \in DOMAIN outbox' /\ outbox'[i].kind = "RESULT" /\ outbox'[i].op = op
    <3>1. op \in DOMAIN verifications /\ Finished(op)
      BY <1>3, <2>2 DEF Finished
    <3> QED BY <1>1, <1>4, <1>5, <3>1 DEF ResultsFiled, RowKept
  <2> QED BY <2>1, <2>2 DEF ResultsFiled
<1>7. CodesTell'
  BY <1>3, <1>4 DEF CodesTell, Finished
<1>8. OneLiveTopupCommand'
  <2> SUFFICES ASSUME NEW i \in DOMAIN outbox', outbox'[i].kind = "COMMAND",
                      outbox'[i].status \notin OutboxTerminal
               PROVE  IsPending(outbox[i].op)' /\ verifications'[outbox'[i].op].topup = i
    BY DEF OneLiveTopupCommand
  <2>1. CASE i \in DOMAIN outbox
    <3>1. outbox[i].kind = "COMMAND" /\ outbox[i].status \notin OutboxTerminal
          /\ outbox'[i].op = outbox[i].op
      BY <1>1, <2>1 DEF RowKept
    <3> QED BY <2>1, <3>1 DEF OneLiveTopupCommand, IsPending, Opened
  <2>2. CASE i = NextID(outbox)
    BY <2>2 DEF Opened, Inserted, IsPending
  <2> QED BY <2>1, <2>2 DEF Opened, Inserted
<1> QED BY <1>2, <1>6, <1>7, <1>8

\* And a verdict: the operation had no result yet, its current top-up
\* command was the only open one and is ended, and the inbox row of another
\* command is another row.
LEMMA ClosedTables ==
    ASSUME TypeOK, CommandInv, TableInv, NEW op, NEW status \in Verdict, NEW code, NEW version,
           Fits(status, code), Closed(op, status, code, version)
    PROVE  TableInv'
<1> USE DEF TableInv
<1> DEFINE n == NextID(outbox)
<1>1. \A i \in DOMAIN outbox : RowKept(outbox[i], outbox'[i]) /\ i \in DOMAIN outbox'
  BY DEF Closed, Inserted, RowsKept
<1>2. op \in DOMAIN verifications /\ IsPending(op) /\ ~Finished(op)
  BY DEF Closed, IsPending, Finished
<1>3. \A o \in DOMAIN verifications \ {op} :
          /\ verifications'[o] = verifications[o]
          /\ Finished(o)' <=> Finished(o)
          /\ inbox'[verifications[o].cmd.id] = inbox[verifications[o].cmd.id]
  <2> SUFFICES ASSUME NEW o \in DOMAIN verifications \ {op}
               PROVE  /\ verifications'[o] = verifications[o]
                      /\ Finished(o)' <=> Finished(o)
                      /\ inbox'[verifications[o].cmd.id] = inbox[verifications[o].cmd.id]
    OBVIOUS
  <2>1. verifications[o].cmd \in Commands /\ verifications[op].cmd \in Commands
    BY <1>2 DEF TypeOK, Verification
  <2>2. verifications[o].cmd.id # verifications[op].cmd.id
    BY <1>2, <2>1, CommandsAssumption DEF CommandInv, FiledUnderOperation
  <2> QED BY <2>2 DEF Closed, Filed, Finished, IsPending
<1>4. /\ Finished(op)'
      /\ verifications'[op].code = code
      /\ verifications'[op].status = status
      /\ inbox'[verifications'[op].cmd.id].result = n
  BY <1>2 DEF Closed, Finished, IsPending, Verdict
<1>5. /\ n \in DOMAIN outbox' /\ DOMAIN outbox' = DOMAIN outbox \cup {n}
      /\ outbox'[n].kind = "RESULT" /\ outbox'[n].op = op /\ outbox'[n].code = code
  BY DEF Closed, Inserted
<1>6. DOMAIN verifications' = DOMAIN verifications
  BY DEF Closed
<1>7. Filed'
  BY <1>1 DEF Filed, Closed, RowKept
<1> HIDE DEF n
<1>8. ResultsFiled'
  <2>1. ASSUME NEW i \in DOMAIN outbox', outbox'[i].kind = "RESULT"
        PROVE  /\ Finished(outbox[i].op)'
               /\ outbox'[i].code = verifications'[outbox'[i].op].code
               /\ inbox'[verifications'[outbox'[i].op].cmd.id].result = i
    <3>1. CASE i \in DOMAIN outbox
      <4>1. /\ Finished(outbox[i].op) /\ outbox'[i].op = outbox[i].op
            /\ outbox'[i].code = outbox[i].code
            /\ outbox[i].code = verifications[outbox[i].op].code
            /\ inbox[verifications[outbox[i].op].cmd.id].result = i
        BY <1>1, <2>1, <3>1 DEF ResultsFiled, RowKept
      <4>2. outbox[i].op \in DOMAIN verifications \ {op}
        BY <1>2, <4>1 DEF Finished
      <4> QED BY <1>3, <4>1, <4>2
    <3>2. CASE i = n
      BY <1>4, <1>5, <3>2
    <3> QED BY <1>5, <3>1, <3>2
  <2>2. ASSUME NEW o \in DOMAIN verifications', Finished(o)'
        PROVE  LET i == inbox'[verifications'[o].cmd.id].result
               IN  i \in DOMAIN outbox' /\ outbox'[i].kind = "RESULT" /\ outbox'[i].op = o
    <3>1. CASE o = op
      BY <1>4, <1>5, <3>1
    <3>2. CASE o # op
      <4>1. o \in DOMAIN verifications \ {op} /\ Finished(o)
        BY <1>3, <1>6, <2>2, <3>2
      <4> QED BY <1>1, <1>3, <4>1 DEF ResultsFiled, RowKept
    <3> QED BY <3>1, <3>2
  <2> QED BY <2>1, <2>2 DEF ResultsFiled
<1>9. CodesTell'
  <2> SUFFICES ASSUME NEW o \in DOMAIN verifications', Finished(o)'
               PROVE  /\ verifications'[o].code \in ResultCodes
                      /\ VerdictOf(verifications'[o].code) = verifications'[o].status
    BY DEF CodesTell
  <2>1. CASE o = op
    BY <1>4, <2>1 DEF Fits
  <2>2. CASE o # op
    BY <1>3, <1>6, <2>2 DEF CodesTell
  <2> QED BY <2>1, <2>2
<1>10. OneLiveTopupCommand'
  <2> SUFFICES ASSUME NEW i \in DOMAIN outbox', outbox'[i].kind = "COMMAND",
                      outbox'[i].status \notin OutboxTerminal
               PROVE  IsPending(outbox[i].op)' /\ verifications'[outbox'[i].op].topup = i
    BY DEF OneLiveTopupCommand
  <2>1. i \in DOMAIN outbox
    BY <1>5
  <2>2. outbox[i].kind = "COMMAND" /\ outbox[i].status \notin OutboxTerminal
        /\ outbox'[i].op = outbox[i].op
    BY <1>1, <2>1 DEF RowKept
  <2>3. IsPending(outbox[i].op) /\ verifications[outbox[i].op].topup = i
    BY <2>1, <2>2 DEF OneLiveTopupCommand
  <2>4. outbox[i].op # op
    BY <2>3 DEF Closed
  <2> QED BY <1>3, <1>6, <2>2, <2>3, <2>4 DEF IsPending
<1> QED BY <1>7, <1>8, <1>9, <1>10

\* And a replacement, because the command replaced is dead.
LEMMA ReplacedTables ==
    ASSUME TypeOK, TableInv, NEW op, Replaced(op)
    PROVE  TableInv'
<1> USE DEF TableInv
<1> DEFINE n == NextID(outbox)
<1>1. \A i \in DOMAIN outbox : RowKept(outbox[i], outbox'[i]) /\ i \in DOMAIN outbox'
  BY DEF Replaced, Inserted, RowsKept
<1>2. op \in DOMAIN verifications /\ IsPending(op)
  BY DEF Replaced, IsPending
<1>3. /\ DOMAIN verifications' = DOMAIN verifications /\ inbox' = inbox
      /\ \A o \in DOMAIN verifications :
            /\ verifications'[o].cmd = verifications[o].cmd
            /\ verifications'[o].status = verifications[o].status
            /\ verifications'[o].code = verifications[o].code
  BY DEF Replaced
<1>4. \A o : /\ Finished(o)' <=> Finished(o)
             /\ IsPending(o)' <=> IsPending(o)
  BY <1>3 DEF Finished, IsPending
<1>5. /\ DOMAIN outbox' = DOMAIN outbox \cup {n}
      /\ outbox'[n].kind = "COMMAND" /\ outbox'[n].op = op
  BY DEF Replaced, Inserted
<1>6. verifications'[op].topup = n
      /\ \A o \in DOMAIN verifications \ {op} : verifications'[o].topup = verifications[o].topup
  BY DEF Replaced
<1> HIDE DEF n
<1>7. Filed'
  BY <1>1, <1>3, <1>5, <1>6 DEF Filed, RowKept
<1>8. ResultsFiled'
  <2>1. \A o : Finished(o) => o \in DOMAIN verifications
    BY DEF Finished
  <2>2. \A i \in DOMAIN outbox' : outbox'[i].kind = "RESULT" => i \in DOMAIN outbox
    BY <1>5
  <2> QED BY <1>1, <1>3, <1>4, <2>1, <2>2 DEF ResultsFiled, RowKept
<1>9. CodesTell'
  BY <1>3, <1>4 DEF CodesTell
<1>10. OneLiveTopupCommand'
  <2> SUFFICES ASSUME NEW i \in DOMAIN outbox', outbox'[i].kind = "COMMAND",
                      outbox'[i].status \notin OutboxTerminal
               PROVE  IsPending(outbox[i].op)' /\ verifications'[outbox'[i].op].topup = i
    BY DEF OneLiveTopupCommand
  <2>1. CASE i \in DOMAIN outbox
    <3>1. outbox[i].kind = "COMMAND" /\ outbox[i].status \notin OutboxTerminal
          /\ outbox'[i].op = outbox[i].op
      BY <1>1, <2>1 DEF RowKept
    <3>2. IsPending(outbox[i].op) /\ verifications[outbox[i].op].topup = i
      BY <2>1, <3>1 DEF OneLiveTopupCommand
    <3>3. outbox[i].op # op
      BY <3>1, <3>2 DEF Replaced, OutboxTerminal
    <3>4. outbox[i].op \in DOMAIN verifications
      BY <3>2 DEF IsPending
    <3> QED BY <1>4, <1>6, <3>1, <3>2, <3>3, <3>4
  <2>2. CASE i = n
    BY <1>2, <1>4, <1>5, <1>6, <2>2
  <2> QED BY <1>5, <2>1, <2>2
<1> QED BY <1>7, <1>8, <1>9, <1>10

\* What the reconcilers hold stays true of the outbox.
LEMMA BatchesDead ==
    ASSUME TypeOK, Filed, BatchDead, [Next]_vars
    PROVE  BatchDead'
<1>1. RowsKept(outbox, outbox')
  BY StepShapes DEF Quiet, Opened, Closed, Replaced, Inserted
<1>2. CASE batchNow' = batchNow /\ \A r \in Replicas : batch'[r] \subseteq batch[r]
  BY <1>1, <1>2 DEF BatchDead, RowsKept, RowKept, OutboxTerminal
<1>3. ASSUME NEW r \in Replicas, PendingRetries(r) PROVE BatchDead'
  <2>1. PICK taken \in SUBSET {o \in DOMAIN verifications : Due(o)} :
            batch' = [batch EXCEPT ![r] = {RetryItemOf(o) : o \in taken}]
    BY <1>3 DEF PendingRetries
  <2>2. batchNow' = [batchNow EXCEPT ![r] = now] /\ outbox' = outbox
    BY <1>3 DEF PendingRetries
  <2>3. batch \in [Replicas -> SUBSET RetryItem] /\ batchNow \in [Replicas -> Nat] /\ now \in Nat
    BY DEF TypeOK
  <2>4. ASSUME NEW q \in Replicas, NEW item \in batch'[q], item.offer > batchNow'[q]
        PROVE  item.topup \in DOMAIN outbox /\ outbox[item.topup].status = "DEAD"
    <3>1. CASE q = r
      <4>1. batchNow'[q] = now
        BY <2>2, <2>3, <3>1
      <4>2. PICK o \in taken : item = RetryItemOf(o)
        BY <2>1, <2>3, <3>1
      <4>3. o \in DOMAIN verifications /\ Due(o)
        BY <2>1
      <4>4. item.topup = verifications[o].topup /\ item.offer = verifications[o].cmd.offer
        BY <4>2 DEF RetryItemOf
      <4>5. verifications[o].cmd.offer \in Nat
        BY <4>3, CommandTypes DEF TypeOK, Verification
      <4>6. ~(verifications[o].cmd.offer <= now)
        BY <2>3, <2>4, <4>1, <4>4, <4>5
      <4> QED BY <4>3, <4>4, <4>6 DEF Due, Filed
    <3>2. CASE q # r
      BY <2>1, <2>2, <2>3, <2>4, <3>2 DEF BatchDead
    <3> QED BY <3>1, <3>2
  <2> QED BY <2>2, <2>4 DEF BatchDead
<1>4. \/ batchNow' = batchNow /\ \A r \in Replicas : batch'[r] \subseteq batch[r]
      \/ \E r \in Replicas : PendingRetries(r)
  <2>1. batch \in [Replicas -> SUBSET RetryItem]
    BY DEF TypeOK
  <2>2. CASE UNCHANGED <<batch, batchNow>>
    BY <2>2
  <2>3. ASSUME NEW r \in Replicas, batchNow' = batchNow,
               NEW left \in SUBSET batch[r], batch' = [batch EXCEPT ![r] = left]
        PROVE  \A q \in Replicas : batch'[q] \subseteq batch[q]
    BY <2>1, <2>3
  <2>4. \/ UNCHANGED <<batch, batchNow>>
        \/ \E r \in Replicas : PendingRetries(r)
        \/ \E r \in Replicas : \E left \in SUBSET batch[r] :
              batchNow' = batchNow /\ batch' = [batch EXCEPT ![r] = left]
    <3>1. ASSUME NEW r \in Replicas, NEW item \in batch[r],
                 \/ ExpireVerification(r, item) \/ ReplaceTopupCommand(r, item)
                 \/ AbortBatch(r, item) \/ SkipStaleItem(r, item)
          PROVE  \E left \in SUBSET batch[r] :
                    batchNow' = batchNow /\ batch' = [batch EXCEPT ![r] = left]
      <4>1. batchNow' = batchNow
        BY <3>1 DEF ExpireVerification, ReplaceTopupCommand, AbortBatch, SkipStaleItem
      <4>2. \/ batch' = [batch EXCEPT ![r] = batch[r] \ {item}]
            \/ batch' = [batch EXCEPT ![r] = {}]
        BY <3>1 DEF ExpireVerification, ReplaceTopupCommand, AbortBatch, SkipStaleItem, TakenOff
      <4>3. {} \in SUBSET batch[r] /\ batch[r] \ {item} \in SUBSET batch[r]
        OBVIOUS
      <4> QED BY <4>1, <4>2, <4>3
    <3>2. ASSUME NEW r \in Replicas, Restart(r)
          PROVE  \E left \in SUBSET batch[r] :
                    batchNow' = batchNow /\ batch' = [batch EXCEPT ![r] = left]
      <4>1. batch' = [batch EXCEPT ![r] = {}] /\ batchNow' = batchNow /\ {} \in SUBSET batch[r]
        BY <3>2 DEF Restart
      <4> QED BY <4>1
    <3>3. \/ UNCHANGED <<batch, batchNow>>
          \/ \E r \in Replicas : PendingRetries(r) \/ Restart(r) \/ ReconcileItem(r)
      BY DEF Next, vars, HandleActivationVerify, AcceptVerification, RepeatVerification,
             HandleAnswer, HandleTopupVerified, ActivateSession, RefuseVerified,
             RefuseConflict, ApplyTopupRejected, IgnoreLateAnswer, RepeatAnswer, Reconcile,
             Publish, TopupAnswer, KillExpired, Tick
    <3> QED BY <3>1, <3>2, <3>3 DEF ReconcileItem
  <2> QED BY <2>2, <2>3, <2>4
<1> QED BY <1>2, <1>3, <1>4

\* Every step preserves the invariant.
LEMMA NextVerdictInv == VerdictInv /\ [Next]_vars => VerdictInv'
<1> SUFFICES ASSUME VerdictInv, [Next]_vars PROVE VerdictInv'
  OBVIOUS
<1>1. TypeOK' /\ CommandInv'
  BY NextType, NextCommandInv DEF VerdictInv
<1>2. BatchDead'
  BY BatchesDead DEF VerdictInv
<1>3. TableInv
  BY DEF VerdictInv, TableInv
<1>4. TableInv'
  BY <1>3, StepShapes, QuietTables, OpenedTables, ClosedTables, ReplacedTables DEF VerdictInv
<1> QED BY <1>1, <1>2, <1>4 DEF VerdictInv, TableInv

\* The invariant holds.
LEMMA VerdictInvHolds == Spec => []VerdictInv
<1>1. Init => VerdictInv
  <2> SUFFICES ASSUME Init PROVE VerdictInv
    OBVIOUS
  <2>1. TypeOK
    BY DEF Init, TypeOK, EmptyTable
  <2>2. DOMAIN outbox = {} /\ DOMAIN verifications = {} /\ DOMAIN inbox = {}
    BY DEF Init, EmptyTable
  <2>3. \A r \in Replicas : batch[r] = {}
    BY DEF Init
  <2> QED BY <2>1, <2>2, <2>3
          DEF VerdictInv, CommandInv, ProcessingWhilePending, FiledUnderOperation, Filed,
              ResultsFiled, CodesTell, BatchDead, OneLiveTopupCommand
<1> QED BY <1>1, NextVerdictInv, PTL DEF Spec

\* Whatever answers, retries and expiries race for an operation, exactly one
\* result is ever written for it; it is the one its command's inbox row
\* refers to and tells the verdict of the verification.
THEOREM OneVerdict == Spec => []OneVerdictPerOperation
<1>1. VerdictInv => OneVerdictPerOperation
  <2> SUFFICES ASSUME VerdictInv PROVE OneVerdictPerOperation
    OBVIOUS
  <2>1. ResultsFiled
    BY DEF VerdictInv
  <2>2. ASSUME NEW op \in Ops, ~Finished(op) PROVE ResultsOf(op) = {}
    BY <2>1, <2>2 DEF ResultsFiled, ResultsOf
  <2>3. ASSUME NEW op \in Ops, Finished(op)
        PROVE  LET v == verifications[op]
                   i == inbox[v.cmd.id].result
               IN  ResultsOf(op) = {i} /\ outbox[i].code = v.code
    <3>1. op \in DOMAIN verifications
      BY <2>3 DEF Finished
    <3> QED BY <2>1, <2>3, <3>1 DEF ResultsFiled, ResultsOf
  <2> QED BY <2>2, <2>3 DEF OneVerdictPerOperation
<1> QED BY <1>1, VerdictInvHolds, PTL

\* Of the top-up commands of an operation at most one is open, the current
\* one of a pending verification: neither reconcilers with stale batches
\* nor late answers leave another behind.
THEOREM OneTopupCommand == Spec => []OneLiveTopupCommand
<1>1. VerdictInv => OneLiveTopupCommand
  BY DEF VerdictInv
<1> QED BY <1>1, VerdictInvHolds, PTL

-----------------------------------------------------------------------------
(* Finality and payment                                                    *)

\* The command of a verification is a command, filed under its operation,
\* and its inbox row is PROCESSING exactly while the verification is pending.
LEMMA CommandRow ==
    ASSUME VerdictInv, NEW op \in DOMAIN verifications
    PROVE  LET c == verifications[op].cmd
           IN  /\ c \in Commands /\ c.op = op /\ c.id \in DOMAIN inbox
               /\ inbox[c.id].status = "PROCESSING" <=> IsPending(op)
<1> DEFINE c == verifications[op].cmd
<1>1. c \in Commands
  BY DEF VerdictInv, TypeOK, Verification
<1>2. c.op = op
  BY DEF VerdictInv, CommandInv, FiledUnderOperation
<1>3. c.id \in DOMAIN inbox
  BY DEF VerdictInv, Filed
<1> HIDE DEF c
<1>4. inbox[c.id].status = "PROCESSING" <=> IsPending(op)
  BY <1>1, <1>2, <1>3 DEF VerdictInv, CommandInv, ProcessingWhilePending, Processing
<1> QED BY <1>1, <1>2, <1>3, <1>4 DEF c

\* A row of the inbox that is not PROCESSING any more stays as it is.
LEMMA InboxSettled ==
    ASSUME VerdictInv, [Next]_vars, NEW m \in DOMAIN inbox
    PROVE  /\ m \in DOMAIN inbox'
           /\ inbox[m].status # "PROCESSING" => inbox'[m] = inbox[m]
<1>1. TypeOK /\ Filed /\ BatchDead
  BY DEF VerdictInv
<1>2. CASE Quiet \/ (\E c \in Commands : Opened(c)) \/ \E op : Replaced(op)
  BY <1>2 DEF Quiet, Opened, Replaced
<1>3. ASSUME NEW op, NEW status, NEW code, NEW version, Closed(op, status, code, version)
      PROVE  /\ m \in DOMAIN inbox'
             /\ inbox[m].status # "PROCESSING" => inbox'[m] = inbox[m]
  <2>1. IsPending(op) /\ op \in DOMAIN verifications
    BY <1>3 DEF Closed, IsPending
  <2>2. inbox[verifications[op].cmd.id].status = "PROCESSING"
    BY <2>1, CommandRow
  <2> QED BY <1>3, <2>2 DEF Closed
<1> QED BY <1>1, <1>2, <1>3, StepShapes

\* A verification keeps its command, and its verdict once it has one.
LEMMA VerificationsFinal ==
    ASSUME VerdictInv, [Next]_vars, NEW op \in DOMAIN verifications
    PROVE  /\ op \in DOMAIN verifications'
           /\ verifications'[op].cmd = verifications[op].cmd
           /\ Finished(op) => verifications'[op] = verifications[op]
<1>1. TypeOK /\ Filed /\ BatchDead
  BY DEF VerdictInv
<1>2. CASE Quiet \/ (\E c \in Commands : Opened(c)) \/ \E o : Replaced(o)
  BY <1>2 DEF Quiet, Opened, Replaced, Finished
<1>3. ASSUME NEW o, NEW status, NEW code, NEW version, Closed(o, status, code, version)
      PROVE  /\ op \in DOMAIN verifications'
             /\ verifications'[op].cmd = verifications[op].cmd
             /\ Finished(op) => verifications'[op] = verifications[op]
  BY <1>3 DEF Closed, Finished
<1> QED BY <1>1, <1>2, <1>3, StepShapes

\* Only an activation verifies an operation.
LEMMA NewlyVerified ==
    ASSUME VerdictInv, [Next]_vars, NEW op, Verified(op)', ~Verified(op)
    PROVE  \E a \in AnswerIDs : ActivateSession(a) /\ answers[a].op = op
<1>1. TypeOK /\ Filed /\ BatchDead
  BY DEF VerdictInv
<1>2. ~Quiet
  BY DEF Quiet, Verified
<1>3. \A c \in Commands : ~Opened(c)
  BY DEF Opened, Verified
<1>4. \A o : ~Replaced(o)
  BY DEF Replaced, Verified
<1>5. \A o, code : \A status \in {"REJECTED", "EXPIRED"} : ~Closed(o, status, code, 0)
  BY DEF Closed, Verified
<1>6. PICK a \in AnswerIDs : ActivateSession(a)
  BY <1>1, <1>2, <1>3, <1>4, <1>5, StepNames, QuietSteps, AcceptOpens, RefusalCloses,
     ReplaceReplaces
<1>7. \E version : Closed(answers[a].op, "VERIFIED", "ACTIVATED", version)
  BY <1>1, <1>6, ActivationCloses
<1> QED BY <1>6, <1>7 DEF Closed, Verified

\* Answers on NATS stay as they are.
LEMMA AnswersKept ==
    ASSUME [Next]_vars, NEW a \in DOMAIN answers
    PROVE  a \in DOMAIN answers' /\ answers'[a] = answers[a]
<1>1. CASE UNCHANGED answers
  BY <1>1
<1>2. ASSUME NEW i \in sent, NEW b \in AnswerIDs, TopupAnswer(i, b)
      PROVE  a \in DOMAIN answers' /\ answers'[a] = answers[a]
  <2>1. b \notin DOMAIN answers /\ \E row : answers' = Put(answers, b, row)
    BY <1>2 DEF TopupAnswer
  <2> QED BY <2>1 DEF Put
<1>3. UNCHANGED answers \/ \E i \in sent, b \in AnswerIDs : TopupAnswer(i, b)
  BY DEF Next, vars, HandleActivationVerify, AcceptVerification, RepeatVerification,
         HandleAnswer, HandleTopupVerified, ActivateSession, RefuseVerified,
         RefuseConflict, ApplyTopupRejected, IgnoreLateAnswer, RepeatAnswer, Reconcile,
         PendingRetries, ReconcileItem, ExpireVerification, ReplaceTopupCommand, AbortBatch,
         SkipStaleItem, Restart, Publish, KillExpired, Tick
<1> QED BY <1>1, <1>2, <1>3

\* Behind every verified activation stands an answer of top-up that confirms
\* the facts of the command and a payment final before its offer ran out,
\* consumed by this very operation.
THEOREM ActivationsPaid == Spec => []ActivationPaidFor
<1>1. Init => ActivationPaidFor
  BY DEF Init, ActivationPaidFor, EmptyTable
<1>2. VerdictInv /\ ActivationPaidFor /\ [Next]_vars => ActivationPaidFor'
  <2> SUFFICES ASSUME VerdictInv, ActivationPaidFor, [Next]_vars,
                      NEW op \in DOMAIN verifications', Verified(op)'
               PROVE  \E a \in DOMAIN answers' :
                         /\ answers'[a].op = op /\ answers'[a].kind = "verified"
                         /\ answers'[a].same
                         /\ answers'[a].finalized <= verifications'[op].cmd.offer
                         /\ HasResult(inbox', a)
                         /\ inbox'[a].result = inbox'[verifications'[op].cmd.id].result
    BY DEF ActivationPaidFor
  <2>1. CASE Verified(op)
    <3>1. op \in DOMAIN verifications /\ Finished(op)
      BY <2>1 DEF Verified, Finished, IsPending
    <3>2. verifications'[op] = verifications[op]
      BY <3>1, VerificationsFinal
    <3>3. PICK a \in DOMAIN answers :
             /\ answers[a].op = op /\ answers[a].kind = "verified" /\ answers[a].same
             /\ answers[a].finalized <= verifications[op].cmd.offer
             /\ HasResult(inbox, a)
             /\ inbox[a].result = inbox[verifications[op].cmd.id].result
      BY <2>1, <3>1 DEF ActivationPaidFor
    <3>4. a \in DOMAIN answers' /\ answers'[a] = answers[a]
      BY AnswersKept
    <3>5. a \in DOMAIN inbox' /\ inbox'[a] = inbox[a]
      BY <3>3, InboxSettled DEF HasResult
    <3>6. inbox'[verifications[op].cmd.id] = inbox[verifications[op].cmd.id]
      BY <3>1, CommandRow, InboxSettled DEF Finished
    <3> QED BY <3>2, <3>3, <3>4, <3>5, <3>6 DEF HasResult
  <2>2. CASE ~Verified(op)
    <3>1. PICK a \in AnswerIDs : ActivateSession(a) /\ answers[a].op = op
      BY <2>2, NewlyVerified
    <3>2. /\ a \in DOMAIN answers /\ answers' = answers /\ answers[a].kind = "verified"
          /\ answers[a].same /\ answers[a].finalized <= verifications[op].cmd.offer
          /\ op \in DOMAIN verifications
      BY <3>1 DEF ActivateSession, OpenAnswer, PaymentProven, IsPending
    <3>3. /\ \E version : Closed(op, "VERIFIED", "ACTIVATED", version)
          /\ HasResult(inbox', a) /\ inbox'[a].result = NextID(outbox)
      BY <3>1, ActivationCloses DEF VerdictInv
    <3>4. /\ verifications'[op].cmd = verifications[op].cmd
          /\ inbox'[verifications[op].cmd.id].result = NextID(outbox)
      BY <3>3 DEF Closed
    <3> QED BY <3>1, <3>2, <3>3, <3>4
  <2> QED BY <2>1, <2>2
<1> QED BY <1>1, <1>2, VerdictInvHolds, PTL DEF Spec

\* activateSession changes one row, which keeps its holder and balance, and
\* counts its version up by one from 1.
LEMMA SessionStep ==
    ASSUME TypeOK, NEW a \in AnswerIDs, ActivateSession(a)
    PROVE  LET c == verifications[answers[a].op].cmd
           IN  /\ c \in Commands
               /\ DOMAIN sessions' = DOMAIN sessions \cup {c.session}
               /\ \A s \in DOMAIN sessions \ {c.session} : sessions'[s] = sessions[s]
               /\ sessions'[c.session] = Activated(c)
               /\ Activated(c) \in ActiveSession
               /\ c.session \in DOMAIN sessions =>
                     /\ Activated(c).user = sessions[c.session].user
                     /\ Activated(c).balance = sessions[c.session].balance
                     /\ Activated(c).version = sessions[c.session].version + 1
               /\ c.session \notin DOMAIN sessions =>
                     /\ Activated(c).user = c.user
                     /\ Activated(c).balance = c.balance
                     /\ Activated(c).version = 1
<1> DEFINE c == verifications[answers[a].op].cmd
<1>1. OpenAnswer(a) /\ sessions' = Put(sessions, c.session, Activated(c))
  BY DEF ActivateSession
<1>2. c \in Commands
  BY <1>1, ActivationFacts
<1> HIDE DEF c
<1>3. /\ DOMAIN sessions' = DOMAIN sessions \cup {c.session}
      /\ \A s \in DOMAIN sessions \ {c.session} : sessions'[s] = sessions[s]
      /\ sessions'[c.session] = Activated(c)
  BY <1>1 DEF Put
<1>4. Activated(c) \in ActiveSession
  BY <1>2, ActivatedType
<1>5. ASSUME c.session \in DOMAIN sessions
      PROVE  /\ Activated(c).user = sessions[c.session].user
             /\ Activated(c).balance = sessions[c.session].balance
             /\ Activated(c).version = sessions[c.session].version + 1
  <2>1. sessions[c.session] \in ActiveSession
    BY <1>5 DEF TypeOK
  <2> QED BY <1>5, <2>1 DEF Activated, ActiveSession
<1>6. ASSUME c.session \notin DOMAIN sessions
      PROVE  /\ Activated(c).user = c.user /\ Activated(c).balance = c.balance
             /\ Activated(c).version = 1
  BY <1>6 DEF Activated
<1> QED BY <1>2, <1>3, <1>4, <1>5, <1>6 DEF c

\* Only an activation writes active_sessions or session_events.
LEMMA EventsFrame ==
    ASSUME [Next]_vars, ~UNCHANGED <<sessions, events>>
    PROVE  \E a \in AnswerIDs : ActivateSession(a)
BY DEF vars, Next, HandleActivationVerify, AcceptVerification, RepeatVerification,
       HandleAnswer, HandleTopupVerified, RefuseVerified, RefuseConflict,
       ApplyTopupRejected, IgnoreLateAnswer, RepeatAnswer, Reconcile, PendingRetries,
       ReconcileItem, ExpireVerification, ReplaceTopupCommand, AbortBatch,
       SkipStaleItem, Restart, Publish, TopupAnswer, KillExpired, Tick

\* A verdict, the wallet of a balance, the holder of a session and the
\* events stand, whatever arrives late, twice or out of order.
THEOREM VerdictsStand == Spec => VerdictsAreFinal
<1>1. ASSUME VerdictInv, [Next]_vars
      PROVE  /\ \A op \in DOMAIN verifications :
                   /\ op \in DOMAIN verifications'
                   /\ Finished(op) => verifications'[op] = verifications[op]
             /\ \A b \in DOMAIN identities :
                   b \in DOMAIN identities' /\ identities'[b] = identities[b]
             /\ \A s \in DOMAIN sessions :
                   /\ s \in DOMAIN sessions'
                   /\ sessions'[s].user = sessions[s].user
                   /\ sessions'[s].balance = sessions[s].balance
             /\ events \subseteq events'
  <2>1. \A op \in DOMAIN verifications :
           /\ op \in DOMAIN verifications'
           /\ Finished(op) => verifications'[op] = verifications[op]
    BY <1>1, VerificationsFinal
  <2>2. \A b \in DOMAIN identities : b \in DOMAIN identities' /\ identities'[b] = identities[b]
    <3>1. \/ identities' = identities
          \/ \E c : identities' = PinWallet(c)
      BY <1>1 DEF Next, vars, HandleActivationVerify, AcceptVerification, RepeatVerification,
             HandleAnswer, HandleTopupVerified, ActivateSession, RefuseVerified,
             RefuseConflict, ApplyTopupRejected, IgnoreLateAnswer, RepeatAnswer, Reconcile,
             PendingRetries, ReconcileItem, ExpireVerification, ReplaceTopupCommand,
             AbortBatch, SkipStaleItem, Restart, Publish, TopupAnswer, KillExpired, Tick
    <3> QED BY <3>1, Pinned
  <2>3. CASE UNCHANGED <<sessions, events>>
    BY <2>1, <2>2, <2>3
  <2>4. ASSUME NEW a \in AnswerIDs, ActivateSession(a)
        PROVE  /\ \A s \in DOMAIN sessions :
                     /\ s \in DOMAIN sessions'
                     /\ sessions'[s].user = sessions[s].user
                     /\ sessions'[s].balance = sessions[s].balance
               /\ events \subseteq events'
    <3>1. events \subseteq events'
      BY <2>4 DEF ActivateSession
    <3>2. TypeOK
      BY <1>1 DEF VerdictInv
    <3> QED BY <2>4, <3>1, <3>2, SessionStep
  <2> QED BY <1>1, <2>1, <2>2, <2>3, <2>4, EventsFrame
<1> QED BY <1>1, VerdictInvHolds, PTL DEF Spec, VerdictsAreFinal

-----------------------------------------------------------------------------
(* Versions                                                                *)

\* Events are those of sessions and operations that exist.  Without this
\* VersionsCountEvents is not inductive: a session or verification could be
\* created after its events.
EventsPlaced ==
    \A e \in events : e.session \in DOMAIN sessions /\ e.op \in DOMAIN verifications

\* A closed operation gets no further result, and its result keeps its
\* version.
LEMMA ResultsKept ==
    ASSUME VerdictInv, [Next]_vars, NEW op, Finished(op), NEW i \in ResultsOf(op)'
    PROVE  i \in ResultsOf(op) /\ outbox'[i].version = outbox[i].version
<1>1. TypeOK /\ Filed /\ BatchDead
  BY DEF VerdictInv
<1>2. i \in DOMAIN outbox' /\ outbox'[i].kind = "RESULT" /\ outbox'[i].op = op
  BY DEF ResultsOf
<1>3. CASE RowsKept(outbox, outbox') /\ i \in DOMAIN outbox
  BY <1>2, <1>3 DEF RowsKept, RowKept, ResultsOf
<1>4. RowsKept(outbox, outbox')
  BY <1>1, StepShapes DEF Quiet, Opened, Closed, Replaced, Inserted
<1>5. i \in DOMAIN outbox
  <2>1. CASE Quiet
    BY <1>2, <2>1 DEF Quiet
  <2>2. CASE (\E c \in Commands : Opened(c)) \/ \E o : Replaced(o)
    BY <1>2, <2>2 DEF Opened, Replaced, Inserted
  <2>3. ASSUME NEW o, NEW status, NEW code, NEW version, Closed(o, status, code, version)
        PROVE  i \in DOMAIN outbox
    BY <1>2, <2>3 DEF Closed, Inserted, Finished
  <2> QED BY <1>1, <2>1, <2>2, <2>3, StepShapes
<1> QED BY <1>3, <1>4, <1>5

\* A step that activates nothing leaves the events and what they count.
LEMMA OtherVersions ==
    ASSUME VerdictInv, EventsPlaced, VersionsCountEvents, [Next]_vars,
           ~\E a \in AnswerIDs : ActivateSession(a)
    PROVE  EventsPlaced' /\ VersionsCountEvents'
<1>1. sessions' = sessions /\ events' = events
  BY EventsFrame
<1>2. \A op \in DOMAIN verifications : op \in DOMAIN verifications'
  BY VerificationsFinal
<1>3. EventsPlaced'
  BY <1>1, <1>2 DEF EventsPlaced
<1>4. \A op \in DOMAIN verifications' : Verified(op)' <=> \E e \in events' : e.op = op
  <2> SUFFICES ASSUME NEW op \in DOMAIN verifications'
               PROVE  Verified(op)' <=> \E e \in events : e.op = op
    BY <1>1
  <2>1. Verified(op)' => Verified(op)
    BY NewlyVerified
  <2>2. Verified(op) => Verified(op)'
    <3> SUFFICES ASSUME Verified(op) PROVE Verified(op)'
      OBVIOUS
    <3>1. op \in DOMAIN verifications /\ Finished(op)
      BY DEF Verified, Finished, IsPending
    <3>2. verifications'[op] = verifications[op]
      BY <3>1, VerificationsFinal
    <3> QED BY <3>2 DEF Verified
  <2>3. Verified(op) => op \in DOMAIN verifications
    BY DEF Verified
  <2> QED BY <2>1, <2>2, <2>3 DEF EventsPlaced, VersionsCountEvents
<1>5. \A e \in events' : \A i \in ResultsOf(e.op)' : outbox'[i].version = e.version
  <2> SUFFICES ASSUME NEW e \in events, NEW i \in ResultsOf(e.op)'
               PROVE  outbox'[i].version = e.version
    BY <1>1
  <2>1. Verified(e.op) /\ e.op \in DOMAIN verifications
    BY DEF EventsPlaced, VersionsCountEvents
  <2>2. Finished(e.op)
    BY <2>1 DEF Verified, Finished, IsPending
  <2>3. i \in ResultsOf(e.op) /\ outbox'[i].version = outbox[i].version
    BY <2>2, ResultsKept
  <2> QED BY <2>3 DEF VersionsCountEvents
<1>6. /\ \A s \in DOMAIN sessions' :
            {e.version : e \in {x \in events' : x.session = s}} = 1..sessions'[s].version
      /\ \A e, f \in events' :
            (e.session = f.session /\ e.version = f.version) \/ e.op = f.op => e = f
      /\ \A e \in events' : e.type = "ACTIVATED" <=> e.version = 1
  BY <1>1 DEF VersionsCountEvents
<1> QED BY <1>3, <1>4, <1>5, <1>6 DEF VersionsCountEvents

\* An activation adds the event that comes next.
LEMMA ActivationVersions ==
    ASSUME VerdictInv, EventsPlaced, VersionsCountEvents, [Next]_vars,
           NEW a \in AnswerIDs, ActivateSession(a)
    PROVE  EventsPlaced' /\ VersionsCountEvents'
<1> DEFINE op == answers[a].op
           c  == verifications[op].cmd
           s0 == c.session
           v  == Activated(c).version
           e0 == ActivationEvent(c)
<1>1. TypeOK /\ Filed /\ events \subseteq Event
  BY DEF VerdictInv, TypeOK
<1>2. op \in DOMAIN verifications /\ IsPending(op) /\ events' = events \cup {e0}
  BY DEF ActivateSession, OpenAnswer, IsPending
<1>3. c.op = op
  BY <1>2, CommandRow
<1>4. Closed(op, "VERIFIED", "ACTIVATED", v)
  BY <1>1, ActivationCloses
<1>5. /\ DOMAIN sessions' = DOMAIN sessions \cup {s0}
      /\ \A s \in DOMAIN sessions \ {s0} : sessions'[s] = sessions[s]
      /\ sessions'[s0].version = v
      /\ s0 \in DOMAIN sessions => v = sessions[s0].version + 1
      /\ s0 \notin DOMAIN sessions => v = 1
  BY <1>1, SessionStep
<1>6. s0 \in DOMAIN sessions => sessions[s0].version \in Nat \ {0}
  BY <1>1 DEF TypeOK, ActiveSession
<1>7. /\ e0.session = s0 /\ e0.op = op /\ e0.version = v
      /\ e0.type = "ACTIVATED" <=> s0 \notin DOMAIN sessions
  BY <1>3 DEF ActivationEvent
<1>8. v \in Nat \ {0} /\ (v = 1 <=> s0 \notin DOMAIN sessions)
  BY <1>5, <1>6
<1>9. \A e \in events : e.op # op
  BY <1>2 DEF VersionsCountEvents, Verified, IsPending
<1>10. \A e \in events : e.session = s0 => e.version \in 1..(v - 1)
  <2> SUFFICES ASSUME NEW e \in events, e.session = s0 PROVE e.version \in 1..(v - 1)
    OBVIOUS
  <2>1. s0 \in DOMAIN sessions
    BY DEF EventsPlaced
  <2>2. e.version \in 1..sessions[s0].version
    BY <2>1 DEF VersionsCountEvents
  <2> QED BY <1>5, <1>6, <2>1, <2>2
<1>11. \A o \in DOMAIN verifications : Verified(o)' <=> Verified(o) \/ o = op
  BY <1>2, <1>4 DEF Closed, Verified
<1>12. DOMAIN verifications' = DOMAIN verifications
  BY <1>4 DEF Closed
<1> HIDE DEF e0, v, s0, c, op
<1>13. EventsPlaced'
  BY <1>2, <1>5, <1>7, <1>12 DEF EventsPlaced
<1>14. \A s \in DOMAIN sessions' :
          {e.version : e \in {x \in events' : x.session = s}} = 1..sessions'[s].version
  <2>1. ASSUME NEW s \in DOMAIN sessions', s # s0
        PROVE  {e.version : e \in {x \in events' : x.session = s}} = 1..sessions'[s].version
    <3>1. {x \in events' : x.session = s} = {x \in events : x.session = s}
      BY <1>2, <1>7, <2>1
    <3>2. s \in DOMAIN sessions /\ sessions'[s] = sessions[s]
      BY <1>5, <2>1
    <3> QED BY <3>1, <3>2 DEF VersionsCountEvents
  <2>2. {e.version : e \in {x \in events' : x.session = s0}} = 1..v
    <3>1. {x \in events' : x.session = s0} = {x \in events : x.session = s0} \cup {e0}
      BY <1>2, <1>7
    <3>2. {e.version : e \in {x \in events' : x.session = s0}}
             = {e.version : e \in {x \in events : x.session = s0}} \cup {v}
      BY <1>7, <3>1
    <3>3. CASE s0 \in DOMAIN sessions
      <4>1. {e.version : e \in {x \in events : x.session = s0}} = 1..sessions[s0].version
        BY <3>3 DEF VersionsCountEvents
      <4>2. 1..v = 1..sessions[s0].version \cup {v}
        BY <1>5, <1>6, <3>3
      <4> QED BY <3>2, <4>1, <4>2
    <3>4. CASE s0 \notin DOMAIN sessions
      <4>1. {x \in events : x.session = s0} = {}
        BY <3>4 DEF EventsPlaced
      <4>2. v = 1 /\ 1..1 = {1}
        BY <1>5, <3>4
      <4> QED BY <3>2, <4>1, <4>2
    <3> QED BY <3>3, <3>4
  <2> QED BY <1>5, <2>1, <2>2
<1>15. \A e, f \in events' :
          (e.session = f.session /\ e.version = f.version) \/ e.op = f.op => e = f
  <2>1. \A e \in events : /\ ~(e.session = e0.session /\ e.version = e0.version)
                          /\ e.op # e0.op
    BY <1>7, <1>8, <1>9, <1>10
  <2>2. \A e, f \in events :
          (e.session = f.session /\ e.version = f.version) \/ e.op = f.op => e = f
    BY DEF VersionsCountEvents
  <2> QED BY <1>2, <2>1, <2>2
<1>16. \A e \in events' : e.type = "ACTIVATED" <=> e.version = 1
  BY <1>2, <1>7, <1>8 DEF VersionsCountEvents
<1>17. \A o \in DOMAIN verifications' : Verified(o)' <=> \E e \in events' : e.op = o
  <2>1. \A o \in DOMAIN verifications : Verified(o) <=> \E e \in events : e.op = o
    BY DEF VersionsCountEvents
  <2> QED BY <1>2, <1>7, <1>11, <1>12, <2>1
<1>18. \A e \in events' : \A i \in ResultsOf(e.op)' : outbox'[i].version = e.version
  <2>1. ASSUME NEW e \in events, NEW i \in ResultsOf(e.op)'
        PROVE  outbox'[i].version = e.version
    <3>1. Verified(e.op) /\ e.op \in DOMAIN verifications
      BY DEF EventsPlaced, VersionsCountEvents
    <3>2. Finished(e.op)
      BY <3>1 DEF Verified, Finished, IsPending
    <3>3. i \in ResultsOf(e.op) /\ outbox'[i].version = outbox[i].version
      BY <3>2, ResultsKept
    <3> QED BY <3>3 DEF VersionsCountEvents
  <2>2. ASSUME NEW o, o = op, NEW i \in ResultsOf(o)' PROVE outbox'[i].version = v
    <3>1. i \in DOMAIN outbox' /\ outbox'[i].kind = "RESULT" /\ outbox'[i].op = op
      BY <2>2 DEF ResultsOf
    <3>2. CASE i = NextID(outbox)
      BY <1>4, <3>2 DEF Closed, Inserted
    <3>3. CASE i \in DOMAIN outbox
      <4>1. outbox[i].kind = "RESULT" /\ outbox[i].op = op
        BY <1>4, <3>1, <3>3 DEF Closed, Inserted, RowsKept, RowKept
      <4>2. Finished(op)
        BY <3>3, <4>1 DEF VerdictInv, ResultsFiled
      <4> QED BY <1>2, <4>2 DEF Finished
    <3> QED BY <1>4, <3>1, <3>2, <3>3 DEF Closed, Inserted
  <2>3. ASSUME NEW e \in events', NEW i \in ResultsOf(e.op)'
        PROVE  outbox'[i].version = e.version
    <3>1. CASE e \in events
      BY <2>1, <2>3, <3>1
    <3>2. CASE e = e0
      BY <1>7, <2>2, <2>3, <3>2
    <3> QED BY <1>2, <3>1, <3>2
  <2> QED BY <2>3
<1> QED BY <1>13, <1>14, <1>15, <1>16, <1>17, <1>18 DEF VersionsCountEvents

\* The events of a session are numbered 1, 2, ... up to its version, each
\* number once and its activation first, one event for each verified
\* operation, whose result carries the same version.
THEOREM VersionsCount == Spec => []VersionsCountEvents
<1>1. Init => EventsPlaced /\ VersionsCountEvents
  BY DEF Init, EventsPlaced, VersionsCountEvents, EmptyTable
<1>2. VerdictInv /\ EventsPlaced /\ VersionsCountEvents /\ [Next]_vars
        => EventsPlaced' /\ VersionsCountEvents'
  BY OtherVersions, ActivationVersions
<1> QED BY <1>1, <1>2, VerdictInvHolds, PTL DEF Spec

-----------------------------------------------------------------------------
(* The authority                                                           *)

\* What the mapped tables hold.
LEMMA MappedTables ==
    /\ DOMAIN Cases = DOMAIN verifications
    /\ \A o \in DOMAIN verifications :
          /\ Cases[o].cmd = verifications[o].cmd
          /\ Cases[o].status = verifications[o].status
    /\ DOMAIN Held = DOMAIN sessions
    /\ \A s \in DOMAIN sessions :
          /\ Held[s].user = sessions[s].user
          /\ Held[s].balance = sessions[s].balance
          /\ Held[s].version = sessions[s].version
BY DEF Cases, Held

\* Verifications that keep command and status are the same cases.
LEMMA CasesSame ==
    ASSUME DOMAIN verifications' = DOMAIN verifications,
           \A o \in DOMAIN verifications :
               /\ verifications'[o].cmd = verifications[o].cmd
               /\ verifications'[o].status = verifications[o].status
    PROVE  Cases' = Cases
BY DEF Cases

\* A new verification, or a new status, is one case put.
LEMMA CasesPut ==
    ASSUME NEW op, NEW c, NEW status,
           DOMAIN verifications' = DOMAIN verifications \cup {op},
           \A o \in DOMAIN verifications \ {op} : verifications'[o] = verifications[o],
           verifications'[op].cmd = c, verifications'[op].status = status
    PROVE  Cases' = A!Put(Cases, op, [cmd |-> c, status |-> status])
<1>1. Cases' = [o \in DOMAIN verifications \cup {op} |->
                  [cmd |-> verifications'[o].cmd, status |-> verifications'[o].status]]
  BY DEF Cases
<1>2. \A o \in DOMAIN verifications \ {op} :
          [cmd |-> verifications'[o].cmd, status |-> verifications'[o].status] = Cases[o]
  BY DEF Cases
<1>3. DOMAIN Cases = DOMAIN verifications
  BY DEF Cases
<1> QED BY <1>1, <1>2, <1>3 DEF A!Put

\* A session written is one holding put.
LEMMA HeldPut ==
    ASSUME NEW s, NEW row,
           DOMAIN sessions' = DOMAIN sessions \cup {s},
           \A t \in DOMAIN sessions \ {s} : sessions'[t] = sessions[t],
           sessions'[s] = row
    PROVE  Held' = A!Put(Held, s, [user |-> row.user, balance |-> row.balance,
                                   version |-> row.version])
<1>1. Held' = [t \in DOMAIN sessions \cup {s} |->
                 [user |-> sessions'[t].user, balance |-> sessions'[t].balance,
                  version |-> sessions'[t].version]]
  BY DEF Held
<1>2. \A t \in DOMAIN sessions \ {s} :
          [user |-> sessions'[t].user, balance |-> sessions'[t].balance,
           version |-> sessions'[t].version] = Held[t]
  BY DEF Held
<1>3. DOMAIN Held = DOMAIN sessions
  BY DEF Held
<1> QED BY <1>1, <1>2, <1>3 DEF A!Put

\* Nothing new is told while nothing new is sent: rows keep their message.
LEMMA ToldSame ==
    ASSUME TypeOK, RowsKept(outbox, outbox'), sent' = sent
    PROVE  Told' = Told
<1>1. \A i \in sent : /\ outbox'[i].kind = outbox[i].kind
                      /\ outbox'[i].op = outbox[i].op
                      /\ outbox'[i].code = outbox[i].code
  BY DEF TypeOK, RowsKept, RowKept
<1>2. ResultsSent' = ResultsSent
  BY <1>1 DEF ResultsSent
<1>3. \A i \in ResultsSent : i \in sent
  BY DEF ResultsSent
<1> QED BY <1>1, <1>2, <1>3 DEF Told

\* A step that opens, closes and tells nothing is a stutter of the authority.
LEMMA AuthorityStutters ==
    ASSUME TypeOK, RowsKept(outbox, outbox'), sent' = sent, sessions' = sessions,
           DOMAIN verifications' = DOMAIN verifications,
           \A o \in DOMAIN verifications :
               /\ verifications'[o].cmd = verifications[o].cmd
               /\ verifications'[o].status = verifications[o].status
    PROVE  UNCHANGED A!vars
<1>1. Cases' = Cases
  BY CasesSame
<1>2. Held' = Held
  BY DEF Held
<1>3. Told' = Told
  BY ToldSame
<1> QED BY <1>1, <1>2, <1>3 DEF A!vars

\* Publishing a result tells the verdict of its operation; publishing a
\* top-up command tells rw-bot nothing.
LEMMA PublishTells ==
    ASSUME VerdictInv, NEW i \in DOMAIN outbox, Publish(i)
    PROVE  [A!Next]_A!vars
<1>1. /\ sent' = sent \cup {i} /\ verifications' = verifications /\ sessions' = sessions
  BY DEF Publish
<1>2. TypeOK /\ ResultsFiled /\ CodesTell
  BY DEF VerdictInv
<1>3. RowsKept(outbox, outbox')
  BY <1>2, QuietSteps DEF QuietStep, Quiet
<1>4. \A j \in sent \cup {i} : /\ outbox'[j].kind = outbox[j].kind
                               /\ outbox'[j].op = outbox[j].op
                               /\ outbox'[j].code = outbox[j].code
  BY <1>2, <1>3 DEF TypeOK, RowsKept, RowKept
<1>5. Cases' = Cases /\ Held' = Held
  BY <1>1 DEF Cases, Held
<1>6. CASE outbox[i].kind # "RESULT"
  <2>1. ResultsSent' = ResultsSent
    BY <1>1, <1>4, <1>6 DEF ResultsSent
  <2>2. \A j \in ResultsSent : j \in sent
    BY DEF ResultsSent
  <2>3. Told' = Told
    BY <1>4, <2>1, <2>2 DEF Told
  <2> QED BY <1>5, <2>3 DEF A!vars
<1>7. CASE outbox[i].kind = "RESULT"
  <2> DEFINE op == outbox[i].op
  <2>1. /\ op \in DOMAIN verifications /\ verifications[op].status # "PENDING"
        /\ VerdictOf(outbox[i].code) = verifications[op].status
    BY <1>2, <1>7 DEF ResultsFiled, CodesTell, Finished, IsPending
  <2>2. ResultsSent' = ResultsSent \cup {i}
    BY <1>1, <1>4, <1>7 DEF ResultsSent
  <2>3. \A j \in ResultsSent : j \in sent
    BY DEF ResultsSent
  <2>4. Told' = Told \cup {<<op, VerdictOf(outbox[i].code)>>}
    BY <1>4, <2>2, <2>3 DEF Told
  <2>5. /\ op \in DOMAIN Cases /\ Cases[op].status = verifications[op].status
    BY <2>1, MappedTables
  <2> HIDE DEF op
  <2>6. A!Tell(op)
    BY <1>5, <2>1, <2>4, <2>5 DEF A!Tell
  <2> QED BY <2>5, <2>6 DEF A!Next
<1> QED BY <1>6, <1>7

\* A verification opened is a question asked.
LEMMA AcceptAsks ==
    ASSUME VerdictInv, NEW c \in Commands, AcceptVerification(c)
    PROVE  A!Next
<1>1. TypeOK
  BY DEF VerdictInv
<1>2. Opened(c)
  BY <1>1, AcceptOpens
<1>3. sent' = sent /\ sessions' = sessions
  BY DEF AcceptVerification
<1>4. Cases' = A!Put(Cases, c.op, [cmd |-> c, status |-> "PENDING"])
  BY <1>2, CasesPut DEF Opened
<1>5. c.op \notin DOMAIN Cases
  BY <1>2, MappedTables DEF Opened
<1>6. Held' = Held /\ Told' = Told
  BY <1>1, <1>2, <1>3, ToldSame DEF Held, Opened, Inserted
<1>7. A!Ask(c)
  BY <1>4, <1>5, <1>6 DEF A!Ask
<1> QED BY <1>7 DEF A!Next

\* Closing as seen by the authority.
LEMMA ClosedIsClose ==
    ASSUME NEW op, NEW status, NEW code, NEW version, Closed(op, status, code, version)
    PROVE  op \in DOMAIN Cases /\ A!Close(op, status)
<1>1. op \in DOMAIN verifications /\ verifications[op].status = "PENDING"
  BY DEF Closed, IsPending
<1>2. /\ op \in DOMAIN Cases /\ Cases[op].status = "PENDING"
      /\ Cases[op].cmd = verifications[op].cmd
  BY <1>1, MappedTables
<1>3. Cases' = A!Put(Cases, op, [cmd |-> verifications[op].cmd, status |-> status])
  BY <1>1, CasesPut DEF Closed
<1> QED BY <1>2, <1>3 DEF A!Close, A!Pending

\* The activation grants or renews.
LEMMA ActivationGrants ==
    ASSUME VerdictInv, NEW a \in AnswerIDs, ActivateSession(a)
    PROVE  A!Next
<1> DEFINE op == answers[a].op
           c  == verifications[op].cmd
           s  == c.session
<1>1. TypeOK /\ Filed
  BY DEF VerdictInv
<1>2. Closed(op, "VERIFIED", "ACTIVATED", Activated(c).version)
  BY <1>1, ActivationCloses
<1>3. op \in DOMAIN Cases /\ A!Close(op, "VERIFIED")
  BY <1>2, ClosedIsClose
<1>4. ~ActivationConflict(c) /\ sent' = sent
  BY DEF ActivateSession
<1>5. Told' = Told
  BY <1>1, <1>2, <1>4, ToldSame DEF Closed, Inserted
<1>6. op \in DOMAIN verifications
  BY <1>3, MappedTables
<1>7. Cases[op].cmd = c
  BY <1>6, MappedTables
<1>8. ~A!HoldsOther(c)
  BY <1>4, MappedTables DEF A!HoldsOther, ActivationConflict, OtherSessionHolds
<1>9. /\ DOMAIN sessions' = DOMAIN sessions \cup {s}
      /\ \A t \in DOMAIN sessions \ {s} : sessions'[t] = sessions[t]
      /\ sessions'[s] = Activated(c)
      /\ s \in DOMAIN sessions =>
            /\ Activated(c).user = sessions[s].user
            /\ Activated(c).balance = sessions[s].balance
            /\ Activated(c).version = sessions[s].version + 1
      /\ s \notin DOMAIN sessions =>
            /\ Activated(c).user = c.user
            /\ Activated(c).balance = c.balance
            /\ Activated(c).version = 1
  BY <1>1, SessionStep
<1>10. Held' = A!Put(Held, s, [user |-> Activated(c).user, balance |-> Activated(c).balance,
                               version |-> Activated(c).version])
  <2> HIDE DEF s, c
  <2> QED BY <1>9, HeldPut
<1>11. CASE s \notin DOMAIN sessions
  <2>1. s \notin DOMAIN Held
    BY <1>11, MappedTables
  <2>2. Held' = A!Put(Held, s, [user |-> c.user, balance |-> c.balance, version |-> 1])
    BY <1>9, <1>10, <1>11
  <2> HIDE DEF op, c
  <2>3. A!Grant(op)
    BY <1>3, <1>5, <1>7, <1>8, <2>1, <2>2 DEF A!Grant
  <2> QED BY <1>3, <2>3 DEF A!Next
<1>12. CASE s \in DOMAIN sessions
  <2>1. /\ s \in DOMAIN Held /\ Held[s].balance = sessions[s].balance
        /\ Held[s].user = sessions[s].user /\ Held[s].version = sessions[s].version
    BY <1>12, MappedTables
  <2>2. Held[s].balance = c.balance
    BY <1>4, <1>12, <2>1 DEF ActivationConflict
  <2>3. Held' = A!Put(Held, s, [user |-> Held[s].user, balance |-> Held[s].balance,
                                version |-> Held[s].version + 1])
    BY <1>9, <1>10, <1>12, <2>1
  <2> HIDE DEF op, c
  <2>4. A!Renew(op)
    BY <1>3, <1>5, <1>7, <1>8, <2>1, <2>2, <2>3 DEF A!Renew
  <2> QED BY <1>3, <2>4 DEF A!Next
<1> QED BY <1>11, <1>12

\* Refusals and expiries refuse.
LEMMA RefusalRefuses ==
    ASSUME VerdictInv,
           \/ \E a \in AnswerIDs : RefuseVerified(a) \/ RefuseConflict(a)
                                     \/ ApplyTopupRejected(a)
           \/ \E r \in Replicas : \E item \in batch[r] : ExpireVerification(r, item)
    PROVE  A!Next
<1>1. TypeOK /\ Filed
  BY DEF VerdictInv
<1>2. PICK op, code : \E status \in {"REJECTED", "EXPIRED"} : Closed(op, status, code, 0)
  BY <1>1, RefusalCloses
<1>3. op \in DOMAIN Cases /\ (A!Close(op, "REJECTED") \/ A!Close(op, "EXPIRED"))
  BY <1>2, ClosedIsClose
<1>4. sent' = sent /\ sessions' = sessions
  BY DEF RefuseVerified, RefuseConflict, ApplyTopupRejected, ExpireVerification
<1>5. Held' = Held /\ Told' = Told
  BY <1>1, <1>2, <1>4, ToldSame DEF Held, Closed, Inserted
<1>6. A!Refuse(op)
  BY <1>3, <1>5 DEF A!Refuse
<1> QED BY <1>3, <1>6 DEF A!Next

\* Every step of the service is a step of the authority, or none.
LEMMA AuthorityStep == VerdictInv /\ [Next]_vars => [A!Next]_A!vars
<1> SUFFICES ASSUME VerdictInv, [Next]_vars PROVE [A!Next]_A!vars
  OBVIOUS
<1>1. TypeOK /\ Filed /\ BatchDead
  BY DEF VerdictInv
<1>2. ASSUME QuietStep, ~\E i \in DOMAIN outbox : Publish(i) PROVE UNCHANGED A!vars
  <2>1. Quiet
    BY <1>1, <1>2, QuietSteps
  <2>2. sent' = sent /\ sessions' = sessions
    BY <1>2 DEF QuietStep, RepeatVerification, IgnoreLateAnswer, RepeatAnswer,
       PendingRetries, Restart, AbortBatch, SkipStaleItem, TopupAnswer, KillExpired,
       Tick, vars
  <2> QED BY <1>1, <2>1, <2>2, AuthorityStutters DEF Quiet
<1>3. ASSUME NEW r \in Replicas, NEW item \in batch[r], ReplaceTopupCommand(r, item)
      PROVE  UNCHANGED A!vars
  <2>1. Replaced(item.op)
    BY <1>1, <1>3, ReplaceReplaces
  <2>2. sent' = sent /\ sessions' = sessions
    BY <1>3 DEF ReplaceTopupCommand
  <2> QED BY <1>1, <2>1, <2>2, AuthorityStutters DEF Replaced, Inserted
<1> QED BY <1>2, <1>3, StepNames, PublishTells, AcceptAsks, ActivationGrants, RefusalRefuses

\* The service implements the authority rw-bot takes it for: one verdict per
\* operation, no other one ever on NATS, and sessions handed out and renewed
\* by verdicts alone.
THEOREM AuthorityImplemented == Spec => ImplementsAuthority
<1>1. Init => A!Init
  <2> SUFFICES ASSUME Init PROVE A!Init
    OBVIOUS
  <2>1. DOMAIN verifications = {} /\ DOMAIN sessions = {} /\ sent = {}
    BY DEF Init, EmptyTable
  <2>2. Told = {}
    BY <2>1 DEF Told, ResultsSent
  <2>3. Cases = A!EmptyTable /\ Held = A!EmptyTable
    BY <2>1 DEF Cases, Held, A!EmptyTable
  <2> QED BY <2>2, <2>3 DEF A!Init
<1> QED BY <1>1, AuthorityStep, VerdictInvHolds, PTL DEF Spec, ImplementsAuthority, A!Spec
=============================================================================

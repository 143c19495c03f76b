--------------------------- MODULE SessionsProofs ---------------------------
(***************************************************************************)
(* What holds of rw-active-sessions for any set of commands, answers and   *)
(* replicas and any lifetimes.                                             *)
(***************************************************************************)
EXTENDS Sessions, TLAPS

-----------------------------------------------------------------------------
(* Tables and sequences                                                    *)

\* INSERT or UPDATE of one row, as seen from any key.
LEMMA PutRow ==
    ASSUME NEW table, NEW key, NEW row
    PROVE  /\ DOMAIN Put(table, key, row) = DOMAIN table \cup {key}
           /\ Put(table, key, row)[key] = row
           /\ \A k \in DOMAIN table \ {key} : Put(table, key, row)[k] = table[k]
BY DEF Put

\* A function on 1 .. n is a sequence.
LEMMA SeqFromFunction ==
    ASSUME NEW S, NEW n \in Nat, NEW f \in [1..n -> S]
    PROVE  f \in Seq(S)
OBVIOUS

\* UPDATE of one row of an outbox keeps it an outbox of the same length.
LEMMA OutboxUpdate ==
    ASSUME NEW ob \in Seq(OutboxRow), NEW id,
           NEW status \in {"PENDING", "PUBLISHED"} \cup OutboxTerminal
    PROVE  [ob EXCEPT ![id].status = status] \in Seq(OutboxRow)
<1> DEFINE new == [ob EXCEPT ![id].status = status]
<1>1. ob \in [1..Len(ob) -> OutboxRow] /\ Len(ob) \in Nat
  OBVIOUS
<1>2. new \in [1..Len(ob) -> OutboxRow]
  BY <1>1 DEF OutboxRow
<1> QED BY <1>1, <1>2, SeqFromFunction

\* INSERT of an outbox row.
LEMMA OutboxInsert ==
    ASSUME NEW ob \in Seq(OutboxRow), NEW row \in OutboxRow
    PROVE  /\ InsertOutbox(ob, row) \in Seq(OutboxRow)
           /\ DOMAIN ob \subseteq DOMAIN InsertOutbox(ob, row)
           /\ NextID(ob) \in DOMAIN InsertOutbox(ob, row)
           /\ InsertOutbox(ob, row)[NextID(ob)] = row
           /\ \A i \in DOMAIN ob : InsertOutbox(ob, row)[i] = ob[i]
BY DEF InsertOutbox, NextID

\* RequeueOutbox, ConfirmOutbox and the bulk expiry
\* keep the outbox typed.
LEMMA OutboxStatements ==
    ASSUME NEW ob \in Seq(OutboxRow), NEW id, NEW time \in Nat
    PROVE  /\ RequeueOutbox(ob, id) \in Seq(OutboxRow)
           /\ ConfirmOutbox(ob, id) \in Seq(OutboxRow)
           /\ ExpireOutbox(ob, time) \in Seq(OutboxRow)
           /\ DOMAIN RequeueOutbox(ob, id) = DOMAIN ob
           /\ DOMAIN ConfirmOutbox(ob, id) = DOMAIN ob
           /\ DOMAIN ExpireOutbox(ob, time) = DOMAIN ob
           /\ NextID(ob) \in Nat \ {0}
<1>1. ob \in [1..Len(ob) -> OutboxRow] /\ Len(ob) \in Nat
  OBVIOUS
<1>2. RequeueOutbox(ob, id) \in [1..Len(ob) -> OutboxRow]
  BY <1>1 DEF RequeueOutbox, OutboxRow, OutboxTerminal
<1>3. ConfirmOutbox(ob, id) \in [1..Len(ob) -> OutboxRow]
  BY <1>1 DEF ConfirmOutbox, OutboxRow, OutboxTerminal
<1>4. ExpireOutbox(ob, time) \in [1..Len(ob) -> OutboxRow]
  BY <1>1 DEF ExpireOutbox, OutboxRow, OutboxTerminal
<1>5. NextID(ob) \in Nat \ {0}
  BY <1>1 DEF NextID
<1> QED BY <1>1, <1>2, <1>3, <1>4, <1>5, SeqFromFunction

-----------------------------------------------------------------------------
(* Type correctness                                                        *)

InboxOK(box) == DOMAIN box \subseteq IDs /\ \A m \in DOMAIN box : box[m] \in InboxRow

\* RegisterInbox, RejectInbox and CompleteInbox keep the inbox typed.
LEMMA InboxStatements ==
    ASSUME NEW box, InboxOK(box), NEW m \in IDs, NEW ms, NEW result \in Nat
    PROVE  /\ InboxOK(RegisterInbox(box, m))
           /\ InboxOK(RejectInbox(box, m))
           /\ InboxOK(CompleteInbox(box, ms, result))
<1> USE DEF InboxOK, InboxRow, InboxStatus, NoResult
<1>1. InboxOK(RegisterInbox(box, m))
  BY DEF RegisterInbox, Put
<1>2. InboxOK(RejectInbox(box, m))
  BY DEF RejectInbox, Processing, Put
<1>3. InboxOK(CompleteInbox(box, ms, result))
  BY DEF CompleteInbox
<1> QED BY <1>1, <1>2, <1>3

\* What the payload of a command gives a handler is of the right type.
LEMMA CommandTypes ==
    ASSUME NEW c \in Commands
    PROVE  /\ c.id \in IDs /\ c.op \in Ops /\ c.balance \in Balances
           /\ c.wallet \in Wallets /\ c.user \in Users /\ c.tx \in Txs
           /\ c.session \in SessionIDs /\ c.offer \in Nat /\ c.expires \in Nat
BY CommandsAssumption
   DEF IDs, Ops, Balances, Wallets, Users, Txs, SessionIDs

\* Closing a verification keeps inbox, outbox and verifications typed.
LEMMA CompleteType ==
    ASSUME TypeOK, NEW box, InboxOK(box), NEW incoming, NEW op \in DOMAIN verifications,
           NEW status \in {"VERIFIED", "REJECTED", "EXPIRED"}, NEW code \in ResultCodes,
           NEW version \in Nat, Complete(box, incoming, op, status, code, version)
    PROVE  /\ InboxOK(inbox')
           /\ outbox' \in Seq(OutboxRow) /\ sent \subseteq DOMAIN outbox'
           /\ DOMAIN verifications' \subseteq Ops
           /\ \A o \in DOMAIN verifications' : verifications'[o] \in Verification
<1> DEFINE v == verifications[op]
           row == Result(op, code, version)
           new == [v EXCEPT !.status = status, !.code = code]
<1>1. v \in Verification /\ op \in Ops
  BY DEF TypeOK
<1>2. InboxOK(inbox')
  <2>1. NextID(outbox) \in Nat
    BY OutboxStatements DEF TypeOK
  <2>2. inbox' = CompleteInbox(box, ToComplete(op, incoming), NextID(outbox))
    BY DEF Complete
  <2>3. \E m \in IDs : TRUE
    BY <1>1, CommandTypes DEF Verification
  <2> QED BY <2>1, <2>2, <2>3, InboxStatements
<1>3. outbox' \in Seq(OutboxRow) /\ sent \subseteq DOMAIN outbox'
  <2>1. row \in OutboxRow
    BY <1>1, BoundsAssumption DEF Result, OutboxRow, TypeOK
  <2>2. /\ InsertOutbox(outbox, row) \in Seq(OutboxRow)
        /\ DOMAIN outbox \subseteq DOMAIN InsertOutbox(outbox, row)
    BY <2>1, OutboxInsert DEF TypeOK
  <2>3. outbox' = ConfirmOutbox(InsertOutbox(outbox, row), v.topup)
    BY DEF Complete
  <2> QED BY <2>2, <2>3, OutboxStatements DEF TypeOK
<1>4. new \in Verification
  BY <1>1 DEF Verification
<1>5. verifications' = Put(verifications, op, new)
  BY DEF Complete
<1> HIDE DEF new
<1>6. /\ DOMAIN verifications' = DOMAIN verifications
      /\ \A o \in DOMAIN verifications : verifications'[o] \in {new, verifications[o]}
  BY <1>5 DEF Put
<1> QED BY <1>2, <1>3, <1>4, <1>6 DEF TypeOK

\* The handler of verify commands keeps the types.
LEMMA VerifyType ==
    ASSUME TypeOK, NEW c \in Commands, HandleActivationVerify(c)
    PROVE  TypeOK'
<1>1. InboxOK(inbox)
  BY DEF TypeOK, InboxOK
<1>2. CASE AcceptVerification(c)
  <2> DEFINE row == TopupCommand(c.op, Earlier(now + TopupTTL, c.expires))
             v   == [cmd |-> c, topup |-> NextID(outbox), code |-> "NONE",
                     status |-> "PENDING"]
  <2>1. InboxOK(inbox')
    <3>1. inbox' = RegisterInbox(inbox, c.id)
      BY <1>2 DEF AcceptVerification
    <3> QED BY <1>1, <3>1, InboxStatements, CommandTypes
  <2>2. row \in OutboxRow
    BY BoundsAssumption, CommandTypes DEF TypeOK, TopupCommand, Earlier, OutboxRow
  <2>3. outbox' \in Seq(OutboxRow) /\ sent \subseteq DOMAIN outbox'
    BY <1>2, <2>2, OutboxInsert DEF AcceptVerification, TypeOK
  <2>4. v \in Verification
    BY OutboxStatements DEF Verification, TypeOK
  <2>5. verifications' = Put(verifications, c.op, v)
    BY <1>2 DEF AcceptVerification
  <2> HIDE DEF v
  <2>6. /\ DOMAIN verifications' \subseteq Ops
        /\ \A o \in DOMAIN verifications' : verifications'[o] \in Verification
    BY <2>4, <2>5, CommandTypes DEF Put, TypeOK
  <2> QED BY <1>2, <2>1, <2>3, <2>6 DEF AcceptVerification, TypeOK, InboxOK
<1>3. CASE RepeatVerification(c)
  BY <1>3, OutboxStatements DEF RepeatVerification, TypeOK
<1> QED BY <1>2, <1>3 DEF HandleActivationVerify

\* Renewing a session changes its transaction and version only.
LEMMA RenewedType ==
    ASSUME NEW s \in ActiveSession, NEW tx \in Txs
    PROVE  /\ [s EXCEPT !.tx = tx, !.version = @ + 1] \in ActiveSession
           /\ [s EXCEPT !.tx = tx, !.version = @ + 1].tx = tx
           /\ [s EXCEPT !.tx = tx, !.version = @ + 1].user = s.user
<1>1. s.version + 1 \in Nat \ {0}
  BY DEF ActiveSession
<1> QED BY <1>1 DEF ActiveSession

\* activateSession writes a proper row.
LEMMA ActivatedType ==
    ASSUME TypeOK, NEW c \in Commands
    PROVE  Activated(c) \in ActiveSession
<1>1. CASE c.session \in DOMAIN sessions
  <2>1. sessions[c.session] \in ActiveSession
    BY <1>1 DEF TypeOK
  <2> QED BY <1>1, <2>1, CommandTypes, RenewedType DEF Activated
<1>2. CASE c.session \notin DOMAIN sessions
  BY <1>2, CommandTypes DEF Activated, ActiveSession
<1> QED BY <1>1, <1>2

\* The verified answer, in its three outcomes, keeps the types.
LEMMA VerifiedType ==
    ASSUME TypeOK, NEW a \in AnswerIDs, HandleTopupVerified(a)
    PROVE  TypeOK'
<1> DEFINE op == answers[a].op
           c  == verifications[op].cmd
           box == RegisterInbox(inbox, a)
<1>1. OpenAnswer(a)
  BY DEF HandleTopupVerified, ActivateSession, RefuseVerified, RefuseConflict
<1>2. op \in DOMAIN verifications /\ c \in Commands
  BY <1>1 DEF OpenAnswer, IsPending, TypeOK, Verification
<1>3. InboxOK(box)
  BY InboxStatements DEF TypeOK, InboxOK, IDs
<1>4. DOMAIN PinWallet(c) \subseteq Balances
      /\ \A b \in DOMAIN PinWallet(c) : PinWallet(c)[b] \in Wallets
  BY <1>2, CommandTypes DEF PinWallet, Put, TypeOK
<1>5. CASE ActivateSession(a)
  <2>1. Activated(c) \in ActiveSession
    BY <1>2, ActivatedType
  <2>2. ActivationEvent(c) \in Event
    <3>1. c.session \in SessionIDs /\ c.op \in Ops /\ Activated(c).version \in Nat \ {0}
      BY <1>2, <2>1, CommandTypes DEF ActiveSession
    <3> HIDE DEF c
    <3> QED BY <3>1 DEF ActivationEvent, Event
  <2>3. Activated(c).version \in Nat
    BY <2>1 DEF ActiveSession
  <2>4. Complete(box, {a}, op, "VERIFIED", "ACTIVATED", Activated(c).version)
    BY <1>5 DEF ActivateSession
  <2>5. /\ InboxOK(inbox')
        /\ outbox' \in Seq(OutboxRow) /\ sent \subseteq DOMAIN outbox'
        /\ DOMAIN verifications' \subseteq Ops
        /\ \A o \in DOMAIN verifications' : verifications'[o] \in Verification
    BY <1>2, <1>3, <2>3, <2>4, CompleteType DEF ResultCodes
  <2>6. DOMAIN sessions' \subseteq SessionIDs
        /\ \A s \in DOMAIN sessions' : sessions'[s] \in ActiveSession
    BY <1>2, <1>5, <2>1, CommandTypes DEF ActivateSession, Put, TypeOK
  <2>7. /\ identities' = PinWallet(c)
        /\ events' = events \cup {ActivationEvent(c)}
        /\ UNCHANGED <<now, sent, answers, batch, batchNow>>
    BY <1>5 DEF ActivateSession
  <2> QED BY <1>4, <2>2, <2>5, <2>6, <2>7 DEF TypeOK, InboxOK
<1>6. CASE RefuseVerified(a)
  <2>1. PICK code \in ResultCodes : Complete(box, {a}, op, "REJECTED", code, 0)
    BY <1>6 DEF RefuseVerified, ResultCodes, RejectionCodes
  <2>2. /\ InboxOK(inbox')
        /\ outbox' \in Seq(OutboxRow) /\ sent \subseteq DOMAIN outbox'
        /\ DOMAIN verifications' \subseteq Ops
        /\ \A o \in DOMAIN verifications' : verifications'[o] \in Verification
    BY <1>2, <1>3, <2>1, CompleteType
  <2> QED BY <1>6, <2>2 DEF RefuseVerified, TypeOK, InboxOK
<1>7. CASE RefuseConflict(a)
  <2>1. Complete(box, {a}, op, "REJECTED", "CONFLICT", 0)
    BY <1>7 DEF RefuseConflict
  <2>2. /\ InboxOK(inbox')
        /\ outbox' \in Seq(OutboxRow) /\ sent \subseteq DOMAIN outbox'
        /\ DOMAIN verifications' \subseteq Ops
        /\ \A o \in DOMAIN verifications' : verifications'[o] \in Verification
    BY <1>2, <1>3, <2>1, CompleteType DEF ResultCodes, RejectionCodes
  <2>3. identities' = PinWallet(c) /\ UNCHANGED <<now, sessions, events, sent, answers, batch, batchNow>>
    BY <1>7 DEF RefuseConflict
  <2> QED BY <1>4, <2>2, <2>3 DEF TypeOK, InboxOK
<1> QED BY <1>5, <1>6, <1>7 DEF HandleTopupVerified

\* Rejections, late answers and repeated answers keep the types.
LEMMA OtherAnswerType ==
    ASSUME TypeOK, NEW a \in AnswerIDs,
           ApplyTopupRejected(a) \/ IgnoreLateAnswer(a) \/ RepeatAnswer(a)
    PROVE  TypeOK'
<1> DEFINE box == RegisterInbox(inbox, a)
<1>1. a \in IDs /\ InboxOK(box)
  BY InboxStatements DEF TypeOK, InboxOK, IDs
<1>2. CASE ApplyTopupRejected(a)
  <2>1. answers[a].op \in DOMAIN verifications
    BY <1>2 DEF ApplyTopupRejected, OpenAnswer, IsPending
  <2>2. Complete(box, {a}, answers[a].op, "REJECTED", "REFUSED", 0)
    BY <1>2 DEF ApplyTopupRejected
  <2>3. /\ InboxOK(inbox')
        /\ outbox' \in Seq(OutboxRow) /\ sent \subseteq DOMAIN outbox'
        /\ DOMAIN verifications' \subseteq Ops
        /\ \A o \in DOMAIN verifications' : verifications'[o] \in Verification
    BY <1>1, <2>1, <2>2, CompleteType DEF ResultCodes, RejectionCodes
  <2> QED BY <1>2, <2>3 DEF ApplyTopupRejected, TypeOK, InboxOK
<1>3. CASE IgnoreLateAnswer(a)
  <2>1. InboxOK(RejectInbox(box, a))
    BY <1>1, InboxStatements
  <2> QED BY <1>3, <2>1 DEF IgnoreLateAnswer, TypeOK, InboxOK
<1>4. CASE RepeatAnswer(a)
  BY <1>4, OutboxStatements DEF RepeatAnswer, TypeOK
<1> QED BY <1>2, <1>3, <1>4

\* A reconciliation item has the type of its verification.
LEMMA RetryItemType ==
    ASSUME TypeOK, NEW op \in DOMAIN verifications
    PROVE  RetryItemOf(op) \in RetryItem
<1>1. verifications[op] \in Verification /\ op \in Ops
  BY DEF TypeOK
<1>2. verifications[op].cmd.offer \in Nat
  BY <1>1, CommandTypes DEF Verification
<1> QED BY <1>1, <1>2 DEF RetryItemOf, RetryItem, Verification

\* Working off one item, in its four outcomes, keeps the types.
LEMMA ReconcileItemType ==
    ASSUME TypeOK, NEW r \in Replicas, ReconcileItem(r)
    PROVE  TypeOK'
<1> PICK item \in batch[r] :
        \/ ExpireVerification(r, item)
        \/ ReplaceTopupCommand(r, item)
        \/ AbortBatch(r, item)
        \/ SkipStaleItem(r, item)
  BY DEF ReconcileItem
<1>1. item \in RetryItem /\ batchNow[r] \in Nat
  BY DEF TypeOK
<1>2. [batch EXCEPT ![r] = @ \ {item}] \in [Replicas -> SUBSET RetryItem]
  BY DEF TypeOK
<1>3. CASE ExpireVerification(r, item)
  <2>1. item.op \in DOMAIN verifications /\ InboxOK(inbox)
    BY <1>3 DEF ExpireVerification, StillCurrent, IsPending, TypeOK, InboxOK
  <2>2. Complete(inbox, {}, item.op, "EXPIRED", "EXPIRED", 0)
    BY <1>3 DEF ExpireVerification
  <2>3. /\ InboxOK(inbox')
        /\ outbox' \in Seq(OutboxRow) /\ sent \subseteq DOMAIN outbox'
        /\ DOMAIN verifications' \subseteq Ops
        /\ \A o \in DOMAIN verifications' : verifications'[o] \in Verification
    BY <2>1, <2>2, CompleteType DEF ResultCodes
  <2> QED BY <1>2, <1>3, <2>3 DEF ExpireVerification, TakenOff, TypeOK, InboxOK
<1>4. CASE ReplaceTopupCommand(r, item)
  <2> DEFINE row == TopupCommand(item.op, ReplacementExpiry(r, item))
  <2>1. row \in OutboxRow
    BY <1>1, BoundsAssumption
       DEF TopupCommand, ReplacementExpiry, Earlier, OutboxRow, RetryItem
  <2>2. outbox' \in Seq(OutboxRow) /\ sent \subseteq DOMAIN outbox'
    BY <1>4, <2>1, OutboxInsert DEF ReplaceTopupCommand, TypeOK
  <2>3. NextID(outbox) \in Nat \ {0}
    BY OutboxStatements DEF TypeOK
  <2>4. /\ DOMAIN verifications' = DOMAIN verifications
        /\ \A o \in DOMAIN verifications' : verifications'[o] \in Verification
    BY <1>4, <2>3 DEF ReplaceTopupCommand, TypeOK, Verification
  <2> QED BY <1>2, <1>4, <2>2, <2>4 DEF ReplaceTopupCommand, TakenOff, TypeOK
<1>5. CASE AbortBatch(r, item)
  BY <1>5 DEF AbortBatch, TypeOK
<1>6. CASE SkipStaleItem(r, item)
  BY <1>2, <1>6 DEF SkipStaleItem, TakenOff, TypeOK
<1> QED BY <1>3, <1>4, <1>5, <1>6

\* The reconciler keeps the types.
LEMMA ReconcileType ==
    ASSUME TypeOK, NEW r \in Replicas, Reconcile(r)
    PROVE  TypeOK'
<1>1. CASE PendingRetries(r)
  <2>1. PICK taken \in SUBSET DOMAIN verifications :
            batch' = [batch EXCEPT ![r] = {RetryItemOf(o) : o \in taken}]
    BY <1>1 DEF PendingRetries
  <2>2. {RetryItemOf(o) : o \in taken} \in SUBSET RetryItem
    BY RetryItemType
  <2>3. batch' \in [Replicas -> SUBSET RetryItem]
    BY <2>1, <2>2 DEF TypeOK
  <2> QED BY <1>1, <2>3 DEF PendingRetries, TypeOK
<1>2. CASE ReconcileItem(r)
  BY <1>2, ReconcileItemType
<1>3. CASE Restart(r)
  BY <1>3 DEF Restart, TypeOK
<1> QED BY <1>1, <1>2, <1>3 DEF Reconcile

\* Publisher, top-up and clock keep the types.
LEMMA EnvironmentType ==
    ASSUME TypeOK,
           \/ \E i \in DOMAIN outbox : Publish(i)
           \/ \E i \in sent, a \in AnswerIDs : TopupAnswer(i, a)
           \/ KillExpired
           \/ Tick
    PROVE  TypeOK'
<1>1. ASSUME NEW i \in DOMAIN outbox, Publish(i) PROVE TypeOK'
  <2>1. [outbox EXCEPT ![i].status = "PUBLISHED"] \in Seq(OutboxRow)
    BY OutboxUpdate DEF TypeOK
  <2>2. DOMAIN [outbox EXCEPT ![i].status = "PUBLISHED"] = DOMAIN outbox
    OBVIOUS
  <2> QED BY <1>1, <2>1, <2>2 DEF Publish, TypeOK
<1>2. ASSUME NEW i \in sent, NEW a \in AnswerIDs, TopupAnswer(i, a) PROVE TypeOK'
  <2>1. PICK ans \in Answer : answers' = Put(answers, a, ans)
    <3>1. outbox[i].op \in Ops
      <4>1. outbox \in Seq(OutboxRow) /\ i \in DOMAIN outbox
        BY DEF TypeOK
      <4>2. outbox[i] \in OutboxRow
        BY <4>1
      <4> QED BY <4>2 DEF OutboxRow
    <3>2. PICK kind \in {"verified", "rejected"}, same \in BOOLEAN, t \in 0..MaxTime :
              answers' = Put(answers, a, [op |-> outbox[i].op, kind |-> kind,
                                          same |-> same, finalized |-> t])
      BY <1>2 DEF TopupAnswer
    <3>3. t \in Nat
      BY BoundsAssumption
    <3>4. [op |-> outbox[i].op, kind |-> kind, same |-> same, finalized |-> t] \in Answer
      BY <3>1, <3>3 DEF Answer
    <3> QED BY <3>2, <3>4
  <2>2. DOMAIN answers' \subseteq AnswerIDs /\ \A b \in DOMAIN answers' : answers'[b] \in Answer
    BY <2>1 DEF Put, TypeOK
  <2> QED BY <1>2, <2>2 DEF TopupAnswer, TypeOK
<1>3. CASE KillExpired
  BY <1>3, OutboxStatements DEF KillExpired, TypeOK
<1>4. CASE Tick
  BY <1>4 DEF Tick, TypeOK
<1> QED BY <1>1, <1>2, <1>3, <1>4

\* Every step keeps the types.
LEMMA NextType == TypeOK /\ [Next]_vars => TypeOK'
<1> SUFFICES ASSUME TypeOK, [Next]_vars PROVE TypeOK'
  OBVIOUS
<1>1. ASSUME NEW c \in Commands, HandleActivationVerify(c) PROVE TypeOK'
  BY <1>1, VerifyType
<1>2. ASSUME NEW a \in AnswerIDs, HandleAnswer(a) PROVE TypeOK'
  BY <1>2, VerifiedType, OtherAnswerType DEF HandleAnswer
<1>3. ASSUME NEW r \in Replicas, Reconcile(r) PROVE TypeOK'
  BY <1>3, ReconcileType
<1>4. CASE \/ \E i \in DOMAIN outbox : Publish(i)
           \/ \E i \in sent, a \in AnswerIDs : TopupAnswer(i, a)
           \/ KillExpired
           \/ Tick
  BY <1>4, EnvironmentType
<1>5. CASE UNCHANGED vars
  BY <1>5 DEF vars, TypeOK
<1> QED BY <1>1, <1>2, <1>3, <1>4, <1>5 DEF Next

\* Every table of rw-active-sessions holds rows its schema allows, whatever
\* commands, answers, reconcilers and publishers do.
THEOREM TypeCorrect == Spec => []TypeOK
<1>1. Init => TypeOK
  BY DEF Init, TypeOK, EmptyTable
<1> QED BY <1>1, NextType, PTL DEF Spec

-----------------------------------------------------------------------------
(* Sessions                                                                *)

\* Only a verified answer writes active_sessions.
LEMMA SessionsFrame ==
    ASSUME [Next]_vars, ~UNCHANGED sessions
    PROVE  \E a \in AnswerIDs : ActivateSession(a)
BY DEF vars, Next, HandleActivationVerify, AcceptVerification, RepeatVerification,
       HandleAnswer, HandleTopupVerified, RefuseVerified, RefuseConflict,
       ApplyTopupRejected, IgnoreLateAnswer, RepeatAnswer, Reconcile, PendingRetries,
       ReconcileItem, ExpireVerification, ReplaceTopupCommand, AbortBatch,
       SkipStaleItem, Restart, Publish, TopupAnswer, KillExpired, Tick

\* The operation of an open answer has a command, and activateSession gives
\* its session the transaction of the command and its own Telegram user.
LEMMA ActivationFacts ==
    ASSUME TypeOK, NEW a \in AnswerIDs, OpenAnswer(a)
    PROVE  LET op == answers[a].op
               c  == verifications[op].cmd
           IN  /\ op \in DOMAIN verifications /\ verifications[op] \in Verification
               /\ c \in Commands
               /\ Activated(c).tx = c.tx
               /\ c.session \in DOMAIN sessions =>
                      Activated(c).user = sessions[c.session].user
               /\ c.session \notin DOMAIN sessions => Activated(c).user = c.user
<1> DEFINE op == answers[a].op
           c  == verifications[op].cmd
<1>1. op \in DOMAIN verifications /\ verifications[op] \in Verification /\ c \in Commands
  BY DEF OpenAnswer, IsPending, TypeOK, Verification
<1>2. ASSUME NEW d \in Commands
      PROVE  /\ Activated(d).tx = d.tx
             /\ d.session \in DOMAIN sessions =>
                    Activated(d).user = sessions[d.session].user
             /\ d.session \notin DOMAIN sessions => Activated(d).user = d.user
  <2>1. CASE d.session \in DOMAIN sessions
    <3>1. sessions[d.session] \in ActiveSession
      BY <2>1 DEF TypeOK
    <3> QED BY <2>1, <3>1, CommandTypes, RenewedType DEF Activated
  <2>2. CASE d.session \notin DOMAIN sessions
    BY <2>2 DEF Activated
  <2> QED BY <2>1, <2>2
<1> QED BY <1>1, <1>2

\* No two active sessions ever share a Telegram identity or the transaction
\* of their last activation, so the unique indexes on active_sessions are
\* never violated.
THEOREM SessionsStayDisjoint == Spec => []SessionsDisjoint
<1>1. Init => SessionsDisjoint
  BY DEF Init, SessionsDisjoint, EmptyTable
<1>2. TypeOK /\ SessionsDisjoint /\ [Next]_vars => SessionsDisjoint'
  <2> SUFFICES ASSUME TypeOK, SessionsDisjoint, [Next]_vars PROVE SessionsDisjoint'
    OBVIOUS
  <2>1. CASE UNCHANGED sessions
    BY <2>1 DEF SessionsDisjoint
  <2>2. CASE ~UNCHANGED sessions
    <3>1. PICK a \in AnswerIDs : ActivateSession(a)
      BY <2>2, SessionsFrame
    <3> DEFINE c == verifications[answers[a].op].cmd
               new == Activated(c)
    <3>2. /\ OpenAnswer(a) /\ ~ActivationConflict(c)
          /\ sessions' = Put(sessions, c.session, new)
      BY <3>1 DEF ActivateSession
    <3>3. new.tx = c.tx /\ new.user = IF c.session \in DOMAIN sessions
                                      THEN sessions[c.session].user ELSE c.user
      BY <3>2, ActivationFacts
    <3>4. \A s \in DOMAIN sessions \ {c.session} :
              sessions[s].user # new.user /\ sessions[s].tx # new.tx
      BY <3>2, <3>3 DEF ActivationConflict, OtherSessionHolds, SessionsDisjoint
    <3>5. \A s \in DOMAIN sessions' :
              sessions'[s] = IF s = c.session THEN new ELSE sessions[s]
      BY <3>2 DEF Put
    <3>6. DOMAIN sessions' = DOMAIN sessions \cup {c.session}
      BY <3>2 DEF Put
    <3> HIDE DEF c, new
    <3> QED BY <3>4, <3>5, <3>6 DEF SessionsDisjoint
  <2> QED BY <2>1, <2>2
<1> QED BY <1>1, <1>2, TypeCorrect, PTL DEF Spec

-----------------------------------------------------------------------------
(* Verdicts                                                                *)

\* What closing a verification does to inbox and verifications.
LEMMA CompleteEffect ==
    ASSUME TypeOK, NEW box, NEW incoming, NEW op \in DOMAIN verifications,
           NEW status, NEW code, NEW version,
           Complete(box, incoming, op, status, code, version)
    PROVE  /\ DOMAIN verifications' = DOMAIN verifications
           /\ \A o \in DOMAIN verifications : verifications'[o].cmd = verifications[o].cmd
           /\ \A o \in DOMAIN verifications \ {op} : verifications'[o] = verifications[o]
           /\ verifications'[op].status = status
           /\ DOMAIN inbox' = DOMAIN box
           /\ \A m \in DOMAIN box :
                 IF m \in incoming \cup {verifications[op].cmd.id}
                 THEN inbox'[m].status = "COMPLETED" ELSE inbox'[m] = box[m]
<1> DEFINE v == verifications[op]
           new == [v EXCEPT !.status = status, !.code = code]
<1>1. v \in Verification
  BY DEF TypeOK
<1>2. new.status = status /\ new.cmd = v.cmd
  BY <1>1 DEF Verification
<1>3. verifications' = Put(verifications, op, new)
  BY DEF Complete
<1> HIDE DEF new
<1>4. /\ DOMAIN verifications' = DOMAIN verifications
      /\ verifications'[op] = new
      /\ \A o \in DOMAIN verifications \ {op} : verifications'[o] = verifications[o]
  BY <1>3 DEF Put
<1>5. inbox' = CompleteInbox(box, ToComplete(op, incoming), NextID(outbox))
  BY DEF Complete
<1>6. /\ DOMAIN inbox' = DOMAIN box
      /\ \A m \in DOMAIN box :
             IF m \in incoming \cup {v.cmd.id}
             THEN inbox'[m].status = "COMPLETED" ELSE inbox'[m] = box[m]
  BY <1>5 DEF CompleteInbox, ToComplete
<1> QED BY <1>2, <1>4, <1>6

\* A verification is filed under the operation of its command.  Without
\* this ProcessingWhilePending is not inductive: another command might have
\* the ID of the one that is closed.
FiledUnderOperation ==
    \A o \in DOMAIN verifications : verifications[o].cmd.op = o

CommandInv == ProcessingWhilePending /\ FiledUnderOperation

\* An inbox that agrees with the table as far as commands are concerned:
\* the table itself, or the table with an answer registered.
SameCommands(box) ==
    \A c \in Commands : /\ c.id \in DOMAIN box <=> c.id \in DOMAIN inbox
                        /\ c.id \in DOMAIN inbox => box[c.id] = inbox[c.id]

\* Registering an answer, or rejecting it, touches no command.
LEMMA AnswerRegistered ==
    ASSUME NEW a \in AnswerIDs
    PROVE  /\ SameCommands(RegisterInbox(inbox, a))
           /\ SameCommands(RejectInbox(RegisterInbox(inbox, a), a))
BY CommandsAssumption DEF SameCommands, RegisterInbox, RejectInbox, Processing, Put

\* Closing a pending verification preserves the invariant.
LEMMA ClosingInv ==
    ASSUME TypeOK, CommandInv, NEW box, SameCommands(box), NEW incoming \in SUBSET AnswerIDs,
           NEW op, IsPending(op), NEW status \in {"VERIFIED", "REJECTED", "EXPIRED"},
           NEW code, NEW version, Complete(box, incoming, op, status, code, version)
    PROVE  CommandInv'
<1>1. op \in DOMAIN verifications
  BY DEF IsPending
<1>2. /\ DOMAIN verifications' = DOMAIN verifications
      /\ \A o \in DOMAIN verifications : verifications'[o].cmd = verifications[o].cmd
      /\ \A o \in DOMAIN verifications \ {op} : verifications'[o] = verifications[o]
      /\ verifications'[op].status = status
      /\ DOMAIN inbox' = DOMAIN box
      /\ \A m \in DOMAIN box :
             IF m \in incoming \cup {verifications[op].cmd.id}
             THEN inbox'[m].status = "COMPLETED" ELSE inbox'[m] = box[m]
  BY <1>1, CompleteEffect
<1>3. FiledUnderOperation'
  BY <1>2 DEF CommandInv, FiledUnderOperation
<1>4. ASSUME NEW c \in Commands, c.id \in DOMAIN inbox'
      PROVE  /\ c.op \in DOMAIN verifications'
             /\ verifications'[c.op].cmd = c
             /\ Processing(inbox', c.id) <=> IsPending(c.op)'
  <2>1. c.id \in DOMAIN inbox /\ box[c.id] = inbox[c.id]
    BY <1>2, <1>4 DEF SameCommands
  <2>2. /\ c.op \in DOMAIN verifications /\ verifications[c.op].cmd = c
        /\ Processing(inbox, c.id) <=> IsPending(c.op)
    BY <2>1 DEF CommandInv, ProcessingWhilePending
  <2>3. CASE c.op = op
    <3>1. inbox'[c.id].status = "COMPLETED"
      BY <1>2, <1>4, <2>2, <2>3
    <3> QED BY <1>2, <2>2, <2>3, <3>1 DEF Processing, IsPending
  <2>4. CASE c.op # op
    <3>1. verifications[op].cmd \in Commands
      BY <1>1 DEF TypeOK, Verification
    <3>2. c.id # verifications[op].cmd.id
      BY <1>1, <2>4, <3>1, CommandsAssumption DEF CommandInv, FiledUnderOperation
    <3>3. c.id \notin incoming
      BY CommandsAssumption
    <3>4. inbox'[c.id] = inbox[c.id]
      BY <1>2, <1>4, <2>1, <3>2, <3>3
    <3>5. verifications'[c.op] = verifications[c.op]
      BY <1>2, <2>2, <2>4
    <3> QED BY <1>2, <1>4, <2>1, <2>2, <3>4, <3>5 DEF Processing, IsPending
  <2> QED BY <2>3, <2>4
<1> QED BY <1>3, <1>4 DEF CommandInv, ProcessingWhilePending

\* Accepting a command preserves the invariant.
LEMMA AcceptInv ==
    ASSUME TypeOK, CommandInv, NEW d \in Commands, AcceptVerification(d)
    PROVE  CommandInv'
<1> DEFINE v == [cmd |-> d, topup |-> NextID(outbox), code |-> "NONE", status |-> "PENDING"]
<1>1. /\ d.id \notin DOMAIN inbox /\ d.op \notin DOMAIN verifications
      /\ inbox' = RegisterInbox(inbox, d.id)
      /\ verifications' = Put(verifications, d.op, v)
  BY DEF AcceptVerification, Accepted, OperationIsNew
<1>2. v.cmd = d /\ v.status = "PENDING"
  OBVIOUS
<1> HIDE DEF v
<1>3. /\ DOMAIN verifications' = DOMAIN verifications \cup {d.op}
      /\ verifications'[d.op] = v
      /\ \A o \in DOMAIN verifications : verifications'[o] = verifications[o]
  BY <1>1 DEF Put
<1>4. /\ DOMAIN inbox' = DOMAIN inbox \cup {d.id}
      /\ inbox'[d.id].status = "PROCESSING"
      /\ \A m \in DOMAIN inbox : inbox'[m] = inbox[m]
  BY <1>1 DEF RegisterInbox, Put
<1>5. FiledUnderOperation'
  BY <1>2, <1>3 DEF CommandInv, FiledUnderOperation
<1>6. ASSUME NEW c \in Commands, c.id \in DOMAIN inbox'
      PROVE  /\ c.op \in DOMAIN verifications'
             /\ verifications'[c.op].cmd = c
             /\ Processing(inbox', c.id) <=> IsPending(c.op)'
  <2>1. CASE c.id = d.id
    <3>1. c = d
      BY <2>1, CommandsAssumption
    <3> QED BY <1>2, <1>3, <1>4, <3>1 DEF Processing, IsPending
  <2>2. CASE c.id # d.id
    BY <1>3, <1>4, <1>6, <2>2 DEF CommandInv, ProcessingWhilePending, Processing, IsPending
  <2> QED BY <2>1, <2>2
<1> QED BY <1>5, <1>6 DEF CommandInv, ProcessingWhilePending

\* Whatever leaves the commands of the inbox, and the command and status of
\* each verification, as they are preserves the invariant.
LEMMA FrameInv ==
    ASSUME CommandInv, SameCommands(inbox'), DOMAIN verifications' = DOMAIN verifications,
           \A o \in DOMAIN verifications :
               /\ verifications'[o].cmd = verifications[o].cmd
               /\ verifications'[o].status = verifications[o].status
    PROVE  CommandInv'
BY DEF CommandInv, ProcessingWhilePending, FiledUnderOperation, SameCommands,
       Processing, IsPending

\* Every step preserves the invariant.
LEMMA NextCommandInv == TypeOK /\ CommandInv /\ [Next]_vars => CommandInv'
<1> SUFFICES ASSUME TypeOK, CommandInv, [Next]_vars PROVE CommandInv'
  OBVIOUS
<1>1. ASSUME NEW c \in Commands, HandleActivationVerify(c) PROVE CommandInv'
  <2>1. CASE AcceptVerification(c)
    BY <2>1, AcceptInv
  <2>2. CASE RepeatVerification(c)
    BY <2>2, FrameInv DEF RepeatVerification, SameCommands
  <2> QED BY <1>1, <2>1, <2>2 DEF HandleActivationVerify
<1>2. ASSUME NEW a \in AnswerIDs, HandleAnswer(a) PROVE CommandInv'
  <2> DEFINE op == answers[a].op
             box == RegisterInbox(inbox, a)
  <2>1. SameCommands(box) /\ {a} \in SUBSET AnswerIDs
    BY AnswerRegistered
  <2>2. CASE ActivateSession(a)
    <3>1. IsPending(op) /\ \E version : Complete(box, {a}, op, "VERIFIED", "ACTIVATED", version)
      BY <2>2 DEF ActivateSession, OpenAnswer
    <3> QED BY <2>1, <3>1, ClosingInv
  <2>3. CASE RefuseVerified(a)
    <3>1. IsPending(op) /\ \E code : Complete(box, {a}, op, "REJECTED", code, 0)
      BY <2>3 DEF RefuseVerified, OpenAnswer
    <3> QED BY <2>1, <3>1, ClosingInv
  <2>4. CASE RefuseConflict(a)
    <3>1. IsPending(op) /\ Complete(box, {a}, op, "REJECTED", "CONFLICT", 0)
      BY <2>4 DEF RefuseConflict, OpenAnswer
    <3> QED BY <2>1, <3>1, ClosingInv
  <2>5. CASE ApplyTopupRejected(a)
    <3>1. IsPending(op) /\ Complete(box, {a}, op, "REJECTED", "REFUSED", 0)
      BY <2>5 DEF ApplyTopupRejected, OpenAnswer
    <3> QED BY <2>1, <3>1, ClosingInv
  <2>6. CASE IgnoreLateAnswer(a)
    <3>1. SameCommands(inbox') /\ verifications' = verifications
      BY <2>6, AnswerRegistered DEF IgnoreLateAnswer
    <3> QED BY <3>1, FrameInv
  <2>7. CASE RepeatAnswer(a)
    BY <2>7, FrameInv DEF RepeatAnswer, SameCommands
  <2> QED BY <1>2, <2>2, <2>3, <2>4, <2>5, <2>6, <2>7 DEF HandleAnswer, HandleTopupVerified
<1>3. ASSUME NEW r \in Replicas, NEW item \in batch[r], ExpireVerification(r, item)
      PROVE  CommandInv'
  <2>1. IsPending(item.op) /\ Complete(inbox, {}, item.op, "EXPIRED", "EXPIRED", 0)
    BY <1>3 DEF ExpireVerification, StillCurrent
  <2>2. SameCommands(inbox)
    BY DEF SameCommands
  <2> QED BY <2>1, <2>2, ClosingInv
<1>4. ASSUME NEW r \in Replicas, NEW item \in batch[r], ReplaceTopupCommand(r, item)
      PROVE  CommandInv'
  <2>1. \A o \in DOMAIN verifications : verifications[o] \in Verification
    BY DEF TypeOK
  <2>2. /\ DOMAIN verifications' = DOMAIN verifications
        /\ \A o \in DOMAIN verifications :
               /\ verifications'[o].cmd = verifications[o].cmd
               /\ verifications'[o].status = verifications[o].status
    BY <1>4, <2>1 DEF ReplaceTopupCommand, Verification
  <2>3. SameCommands(inbox')
    BY <1>4 DEF ReplaceTopupCommand, SameCommands
  <2> QED BY <2>2, <2>3, FrameInv
<1>5. CASE UNCHANGED <<inbox, verifications>>
  BY <1>5, FrameInv DEF SameCommands
<1>6. \/ \E c \in Commands : HandleActivationVerify(c)
      \/ \E a \in AnswerIDs : HandleAnswer(a)
      \/ \E r \in Replicas : \E item \in batch[r] :
            ExpireVerification(r, item) \/ ReplaceTopupCommand(r, item)
      \/ UNCHANGED <<inbox, verifications>>
  BY DEF Next, vars, Reconcile, PendingRetries, ReconcileItem, AbortBatch,
         SkipStaleItem, Restart, Publish, TopupAnswer, KillExpired, Tick
<1> QED BY <1>1, <1>2, <1>3, <1>4, <1>5, <1>6

\* The inbox row of a verify command is PROCESSING exactly while its
\* verification is PENDING: finishVerification never finds a row that
\* CompleteInbox would refuse.
THEOREM CommandsInStep == Spec => []ProcessingWhilePending
<1>1. Init => CommandInv
  BY DEF Init, CommandInv, ProcessingWhilePending, FiledUnderOperation, EmptyTable
<1>2. CommandInv => ProcessingWhilePending
  BY DEF CommandInv
<1> QED BY <1>1, <1>2, NextCommandInv, TypeCorrect, PTL DEF Spec

-----------------------------------------------------------------------------
(* Wallets                                                                 *)

\* Every verified activation was paid from the wallet pinned for its
\* balance: OneWalletPerBalance by way of balance_identities.
VerifiedPinned ==
    \A o \in DOMAIN verifications : Verified(o) =>
        /\ verifications[o].cmd.balance \in DOMAIN identities
        /\ identities[verifications[o].cmd.balance] = verifications[o].cmd.wallet

\* Closing a verification with a rejection verifies nothing.
LEMMA RejectedPinned ==
    ASSUME TypeOK, VerifiedPinned, NEW box, NEW incoming, NEW op \in DOMAIN verifications,
           NEW status \in {"REJECTED", "EXPIRED"}, NEW code, NEW version,
           Complete(box, incoming, op, status, code, version),
           \A b \in DOMAIN identities : b \in DOMAIN identities' /\ identities'[b] = identities[b]
    PROVE  VerifiedPinned'
<1>1. /\ DOMAIN verifications' = DOMAIN verifications
      /\ \A o \in DOMAIN verifications \ {op} : verifications'[o] = verifications[o]
      /\ verifications'[op].status = status
  BY CompleteEffect
<1> QED BY <1>1 DEF VerifiedPinned, Verified

\* A balance keeps its wallet, and after PinWallet it is the command's if
\* ensureIdentity has not refused it.
LEMMA Pinned ==
    ASSUME NEW c
    PROVE  /\ \A b \in DOMAIN identities :
                 b \in DOMAIN PinWallet(c) /\ PinWallet(c)[b] = identities[b]
           /\ c.balance \in DOMAIN PinWallet(c)
           /\ WalletMatches(c) => PinWallet(c)[c.balance] = c.wallet
BY DEF PinWallet, WalletMatches, Put

\* All verified activations of a balance were paid from one wallet, in
\* whatever order their answers arrive.
THEOREM WalletPinned == Spec => []OneWalletPerBalance
<1>1. Init => VerifiedPinned
  BY DEF Init, VerifiedPinned, EmptyTable
<1>2. TypeOK /\ VerifiedPinned /\ [Next]_vars => VerifiedPinned'
  <2> SUFFICES ASSUME TypeOK, VerifiedPinned, [Next]_vars PROVE VerifiedPinned'
    OBVIOUS
  <2>1. ASSUME NEW c \in Commands, AcceptVerification(c) PROVE VerifiedPinned'
    <3> DEFINE v == [cmd |-> c, topup |-> NextID(outbox), code |-> "NONE", status |-> "PENDING"]
    <3>1. verifications' = Put(verifications, c.op, v) /\ identities' = identities
      BY <2>1 DEF AcceptVerification
    <3>2. v.status # "VERIFIED"
      OBVIOUS
    <3> HIDE DEF v
    <3>3. \A o \in DOMAIN verifications' :
              \/ verifications'[o] = v
              \/ o \in DOMAIN verifications /\ verifications'[o] = verifications[o]
      BY <3>1 DEF Put
    <3> QED BY <3>1, <3>2, <3>3 DEF VerifiedPinned, Verified
  <2>2. ASSUME NEW a \in AnswerIDs, ActivateSession(a) PROVE VerifiedPinned'
    <3> DEFINE op == answers[a].op
               c  == verifications[op].cmd
    <3>1. /\ op \in DOMAIN verifications /\ WalletMatches(c) /\ identities' = PinWallet(c)
          /\ Complete(RegisterInbox(inbox, a), {a}, op, "VERIFIED", "ACTIVATED",
                      Activated(c).version)
      BY <2>2 DEF ActivateSession, OpenAnswer, IsPending
    <3>2. /\ DOMAIN verifications' = DOMAIN verifications
          /\ verifications'[op].cmd = c
          /\ \A o \in DOMAIN verifications \ {op} : verifications'[o] = verifications[o]
      BY <3>1, CompleteEffect
    <3>3. /\ \A b \in DOMAIN identities : b \in DOMAIN identities' /\ identities'[b] = identities[b]
          /\ c.balance \in DOMAIN identities' /\ identities'[c.balance] = c.wallet
      BY <3>1, Pinned
    <3> HIDE DEF c
    <3> QED BY <3>2, <3>3 DEF VerifiedPinned, Verified
  <2>3. ASSUME NEW a \in AnswerIDs,
               RefuseVerified(a) \/ RefuseConflict(a) \/ ApplyTopupRejected(a)
        PROVE  VerifiedPinned'
    <3> DEFINE op == answers[a].op
    <3>1. /\ op \in DOMAIN verifications
          /\ \E code : Complete(RegisterInbox(inbox, a), {a}, op, "REJECTED", code, 0)
          /\ identities' \in {identities, PinWallet(verifications[op].cmd)}
      BY <2>3 DEF RefuseVerified, RefuseConflict, ApplyTopupRejected, OpenAnswer, IsPending
    <3>2. \A b \in DOMAIN identities : b \in DOMAIN identities' /\ identities'[b] = identities[b]
      BY <3>1, Pinned
    <3> QED BY <3>1, <3>2, RejectedPinned
  <2>4. ASSUME NEW r \in Replicas, NEW item \in batch[r], ExpireVerification(r, item)
        PROVE  VerifiedPinned'
    <3>1. /\ item.op \in DOMAIN verifications /\ identities' = identities
          /\ Complete(inbox, {}, item.op, "EXPIRED", "EXPIRED", 0)
      BY <2>4 DEF ExpireVerification, StillCurrent, IsPending
    <3> QED BY <3>1, RejectedPinned
  <2>5. ASSUME NEW r \in Replicas, NEW item \in batch[r], ReplaceTopupCommand(r, item)
        PROVE  VerifiedPinned'
    <3>1. \A o \in DOMAIN verifications : verifications[o] \in Verification
      BY DEF TypeOK
    <3>2. /\ DOMAIN verifications' = DOMAIN verifications
          /\ \A o \in DOMAIN verifications :
                 /\ verifications'[o].cmd = verifications[o].cmd
                 /\ verifications'[o].status = verifications[o].status
      BY <2>5, <3>1 DEF ReplaceTopupCommand, Verification
    <3> QED BY <2>5, <3>2 DEF ReplaceTopupCommand, VerifiedPinned, Verified
  <2>6. CASE UNCHANGED <<identities, verifications>>
    BY <2>6 DEF VerifiedPinned, Verified
  <2>7. \/ \E c \in Commands : AcceptVerification(c)
        \/ \E a \in AnswerIDs : \/ ActivateSession(a)
                                 \/ RefuseVerified(a) \/ RefuseConflict(a) \/ ApplyTopupRejected(a)
        \/ \E r \in Replicas : \E item \in batch[r] :
              ExpireVerification(r, item) \/ ReplaceTopupCommand(r, item)
        \/ UNCHANGED <<identities, verifications>>
    BY DEF Next, vars, HandleActivationVerify, RepeatVerification, HandleAnswer,
           HandleTopupVerified, IgnoreLateAnswer, RepeatAnswer, Reconcile, PendingRetries,
           ReconcileItem, AbortBatch, SkipStaleItem, Restart, Publish, TopupAnswer,
           KillExpired, Tick
  <2> QED BY <2>1, <2>2, <2>3, <2>4, <2>5, <2>6, <2>7
<1>3. VerifiedPinned => OneWalletPerBalance
  BY DEF VerifiedPinned, OneWalletPerBalance, Verified
<1> QED BY <1>1, <1>2, <1>3, TypeCorrect, PTL DEF Spec
=============================================================================

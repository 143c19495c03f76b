----------------------------- MODULE BotProofs ------------------------------
(***************************************************************************)
(* What holds of rw-bot for any number of users, invites, sessions,        *)
(* operations, pollers and messages, and that it implements module Flow.   *)
(***************************************************************************)
EXTENDS Bot, TLAPS

Statuses == {"PENDING", "PUBLISHED"} \cup OutboxTerminal

-----------------------------------------------------------------------------
(* The inductive invariant                                                 *)

\* A session is in one table, and attempts are about sessions in one of them.
Placed ==
    /\ \A s \in SessionIDs : ~(s \in DOMAIN inactive /\ s \in DOMAIN projection)
    /\ \A o \in DOMAIN attempts :
          attempts[o].session \in DOMAIN inactive \cup DOMAIN projection

\* DialogFollowsAttempt, from each row's point of view.
Follows ==
    /\ \A o \in DOMAIN attempts : attempts[o].status \in Awaiting =>
          /\ attempts[o].session \in DOMAIN inactive
          /\ inactive[attempts[o].session].attempt = o
          /\ inactive[attempts[o].session].dialog = attempts[o].status
    /\ \A s \in DOMAIN inactive : inactive[s].dialog \in Awaiting =>
          /\ inactive[s].attempt \in DOMAIN attempts
          /\ attempts[inactive[s].attempt].session = s
          /\ attempts[inactive[s].attempt].status = inactive[s].dialog

\* ActiveThroughOneAttempt, row by row.
WonOnce ==
    /\ \A s \in DOMAIN projection : \E o \in DOMAIN attempts :
          attempts[o].session = s /\ attempts[o].status = "ACTIVE"
    /\ \A o, q \in DOMAIN attempts :
          attempts[o].status = "ACTIVE" /\ attempts[q].status = "ACTIVE"
              /\ attempts[o].session = attempts[q].session => o = q
    /\ \A o \in DOMAIN attempts :
          attempts[o].status = "ACTIVE" => attempts[o].session \in DOMAIN projection

\* The commands of an attempt are rows of the outbox, the verify command is
\* there from the payment on, and it is no other attempt's.
CommandsFiled ==
    /\ sent \subseteq DOMAIN outbox
    /\ \A o \in DOMAIN attempts :
          /\ attempts[o].reserve \in DOMAIN outbox
          /\ attempts[o].verify \in DOMAIN outbox \cup {0}
          /\ attempts[o].status \in {"AWAITING_RESERVATION", "AWAITING_PAYMENT"}
                => attempts[o].verify = 0 /\ attempts[o].tx = NoTx
          /\ attempts[o].status \in {"AWAITING_VERIFICATION", "ACTIVE"}
                => attempts[o].verify # 0
    /\ \A o, q \in DOMAIN attempts :
          attempts[o].verify = attempts[q].verify /\ attempts[o].verify # 0 => o = q

\* The invites behind the sessions are consumed, each by one session.
TokensSpent ==
    /\ \A s \in DOMAIN inactive : /\ inactive[s].token \in DOMAIN invites
                                  /\ invites[inactive[s].token].status = "CONSUMED"
    /\ \A s \in DOMAIN projection : /\ projection[s].token \in DOMAIN invites
                                    /\ invites[projection[s].token].status = "CONSUMED"
    /\ \A s, r \in DOMAIN inactive : inactive[s].token = inactive[r].token => s = r
    /\ \A s, r \in DOMAIN projection : projection[s].token = projection[r].token => s = r
    /\ \A s \in DOMAIN inactive, r \in DOMAIN projection :
          inactive[s].token # projection[r].token

Inv ==
    /\ TypeOK
    /\ Placed
    /\ Follows
    /\ WonOnce
    /\ CommandsFiled
    /\ TokensSpent
    /\ NoAnsweredCommandOpen

\* The tables start empty.
LEMMA InvInit == Init => Inv
<1> SUFFICES ASSUME Init PROVE Inv
  OBVIOUS
<1>1. TypeOK
  BY DEF Init, TypeOK, EmptyTable
<1> QED
  BY <1>1 DEF Init, Inv, Placed, Follows, WonOnce, CommandsFiled, TokensSpent,
              NoAnsweredCommandOpen, EmptyTable

-----------------------------------------------------------------------------
(* The outbox                                                              *)

\* What every step does to the outbox: rows stay, and what is terminal
\* stays so.
OutboxKept ==
    /\ outbox' \in Seq(OutboxRow)
    /\ Len(outbox') \in Nat /\ Len(outbox) <= Len(outbox')
    /\ \A i \in DOMAIN outbox :
          outbox[i].status \in OutboxTerminal => outbox'[i].status \in OutboxTerminal

\* A function from 1..n is a sequence.
LEMMA SeqOfRows ==
    ASSUME NEW n \in Nat, NEW f \in [1..n -> OutboxRow]
    PROVE  f \in Seq(OutboxRow) /\ Len(f) = n /\ DOMAIN f = 1..n
OBVIOUS

\* A row gets another status.
LEMMA StatusEffect ==
    ASSUME NEW ob \in Seq(OutboxRow), NEW i, NEW st \in Statuses
    PROVE  LET new == [ob EXCEPT ![i].status = st]
           IN  /\ new \in Seq(OutboxRow)
               /\ Len(new) = Len(ob) /\ DOMAIN new = DOMAIN ob
               /\ Len(ob) \in Nat
               /\ \A j \in DOMAIN ob : j # i => new[j] = ob[j]
               /\ i \in DOMAIN ob => new[i].status = st
<1> DEFINE new == [ob EXCEPT ![i].status = st]
<1>1. ob \in [1..Len(ob) -> OutboxRow] /\ Len(ob) \in Nat /\ DOMAIN ob = 1..Len(ob)
  OBVIOUS
<1>2. new \in [1..Len(ob) -> OutboxRow]
  BY <1>1 DEF OutboxRow, Statuses
<1>3. /\ \A j \in DOMAIN ob : j # i => new[j] = ob[j]
      /\ i \in DOMAIN ob => new[i].status = st
  BY <1>1 DEF OutboxRow
<1> HIDE DEF new
<1>4. new \in Seq(OutboxRow) /\ Len(new) = Len(ob) /\ DOMAIN new = DOMAIN ob
  BY <1>1, <1>2, SeqOfRows
<1> QED BY <1>1, <1>3, <1>4 DEF new

\* INSERT.
LEMMA InsertEffect ==
    ASSUME outbox \in Seq(OutboxRow), NEW k \in {"COMMAND", "RESULT"},
           NEW x \in Ops \cup Tokens, outbox' = InsertOutbox(outbox, Row(k, x))
    PROVE  /\ OutboxKept
           /\ Len(outbox') = Len(outbox) + 1 /\ NextID(outbox) = Len(outbox')
           /\ \A i \in DOMAIN outbox : outbox'[i] = outbox[i]
<1>1. Row(k, x) \in OutboxRow
  BY DEF Row, OutboxRow
<1> QED BY <1>1 DEF OutboxKept, InsertOutbox, NextID

\* The command is answered.
LEMMA AnsweredEffect ==
    ASSUME outbox \in Seq(OutboxRow), NEW id, outbox' = Answered(id)
    PROVE  /\ OutboxKept
           /\ Len(outbox') = Len(outbox)
           /\ id \in DOMAIN outbox => outbox'[id].status \in OutboxTerminal
<1> DEFINE st == IF outbox[id].status = "DEAD" THEN outbox[id].status ELSE "CONFIRMED"
<1>1. st \in Statuses /\ st \in OutboxTerminal
  BY DEF Statuses, OutboxTerminal
<1>2. outbox' = [outbox EXCEPT ![id].status = st]
  BY DEF Answered, ConfirmOutbox
<1> HIDE DEF st
<1>3. /\ outbox' \in Seq(OutboxRow) /\ Len(outbox') = Len(outbox) /\ Len(outbox) \in Nat
      /\ \A j \in DOMAIN outbox : j # id => outbox'[j] = outbox[j]
      /\ id \in DOMAIN outbox => outbox'[id].status = st
  BY <1>1, <1>2, StatusEffect
<1> QED BY <1>1, <1>3 DEF OutboxKept

\* A result is to be published again.
LEMMA RequeueEffect ==
    ASSUME outbox \in Seq(OutboxRow), NEW id, outbox' = RequeueOutbox(outbox, id)
    PROVE  OutboxKept /\ Len(outbox') = Len(outbox)
<1> DEFINE st == IF outbox[id].status \in OutboxTerminal THEN outbox[id].status
                                                         ELSE "PENDING"
<1>1. /\ st \in Statuses
      /\ outbox[id].status \in OutboxTerminal => st \in OutboxTerminal
  BY DEF Statuses, OutboxTerminal
<1>2. outbox' = [outbox EXCEPT ![id].status = st]
  BY DEF RequeueOutbox
<1> HIDE DEF st
<1>3. /\ outbox' \in Seq(OutboxRow) /\ Len(outbox') = Len(outbox) /\ Len(outbox) \in Nat
      /\ \A j \in DOMAIN outbox : j # id => outbox'[j] = outbox[j]
      /\ id \in DOMAIN outbox => outbox'[id].status = st
  BY <1>1, <1>2, StatusEffect
<1> QED BY <1>1, <1>3 DEF OutboxKept

\* The publisher.
LEMMA PublishEffect ==
    ASSUME outbox \in Seq(OutboxRow), NEW i \in DOMAIN outbox, Publish(i) \/ KillExpired(i)
    PROVE  OutboxKept /\ Len(outbox') = Len(outbox)
<1>1. CASE outbox' = outbox
  BY <1>1 DEF OutboxKept
<1>2. ASSUME NEW st \in {"PUBLISHED", "DEAD"}, outbox' = [outbox EXCEPT ![i].status = st],
             st = "PUBLISHED" => outbox[i].status = "PENDING"
      PROVE  OutboxKept /\ Len(outbox') = Len(outbox)
  <2>1. /\ st \in Statuses
        /\ outbox[i].status \in OutboxTerminal => st \in OutboxTerminal
    BY <1>2 DEF Statuses, OutboxTerminal
  <2>2. /\ outbox' \in Seq(OutboxRow) /\ Len(outbox') = Len(outbox) /\ Len(outbox) \in Nat
        /\ \A j \in DOMAIN outbox : j # i => outbox'[j] = outbox[j]
        /\ i \in DOMAIN outbox => outbox'[i].status = st
    BY <1>2, <2>1, StatusEffect
  <2> QED BY <2>1, <2>2 DEF OutboxKept
<1> QED BY <1>1, <1>2 DEF Publish, KillExpired

-----------------------------------------------------------------------------
(* The inbox                                                               *)

InboxOK ==
    /\ DOMAIN inbox \subseteq Mail \cup {c.id : c \in InviteCommands}
    /\ \A m \in DOMAIN inbox : inbox[m] \in InboxRow

\* A message is registered and applied.
LEMMA AcknowledgeEffect ==
    ASSUME InboxOK, NEW m \in Mail, Acknowledge(m)
    PROVE  InboxOK'
BY DEF InboxOK, Acknowledge, AcknowledgeInbox, RegisterInbox, Put, InboxRow, InboxStatus,
       NoResult

\* A message is registered and found out of place.
LEMMA RejectEffect ==
    ASSUME InboxOK, NEW m \in Mail, inbox' = RejectInbox(RegisterInbox(inbox, m), m)
    PROVE  InboxOK'
BY DEF InboxOK, RejectInbox, RegisterInbox, Processing, Put, InboxRow, InboxStatus, NoResult

-----------------------------------------------------------------------------
(* Messages that move an attempt on                                        *)

\* What ApplyReserved, ApplyReserveRejected, ApplyPayment and a rejection
\* have in common: attempt o gets another status, its session the same
\* dialog state, and the command that was answered is closed; a payment
\* adds the verify command.
Moved(o) ==
    LET s == attempts[o].session
    IN  /\ o \in DOMAIN attempts /\ attempts[o].status \in Awaiting
        /\ s \in DOMAIN inactive
        /\ DOMAIN attempts' = DOMAIN attempts
        /\ \A q \in DOMAIN attempts \ {o} : attempts'[q] = attempts[q]
        /\ attempts'[o] \in Attempt
        /\ attempts'[o].session = s
        /\ attempts'[o].reserve = attempts[o].reserve
        /\ attempts'[o].status \in {"AWAITING_PAYMENT", "AWAITING_VERIFICATION", "REJECTED"}
        /\ DOMAIN inactive' = DOMAIN inactive
        /\ \A r \in DOMAIN inactive \ {s} : inactive'[r] = inactive[r]
        /\ inactive'[s] \in InactiveSession
        /\ inactive'[s].user = inactive[s].user
        /\ inactive'[s].balance = inactive[s].balance
        /\ inactive'[s].token = inactive[s].token
        /\ inactive'[s].attempt = inactive[s].attempt
        /\ inactive'[s].dialog = attempts'[o].status
        /\ UNCHANGED <<invites, projection, sent, mail, reading>>
        /\ InboxOK' /\ OutboxKept
        /\ outbox'[attempts[o].reserve].status \in OutboxTerminal

\* The verify command is left as it is, or closed.
SameCommand(o) ==
    /\ attempts'[o].verify = attempts[o].verify
    /\ attempts'[o].tx = attempts[o].tx
    /\ attempts'[o].status \in {"AWAITING_PAYMENT", "REJECTED"}
    /\ attempts'[o].status = "AWAITING_PAYMENT" => attempts[o].status = "AWAITING_RESERVATION"
    /\ attempts[o].verify # 0 => outbox'[attempts[o].verify].status \in OutboxTerminal
    /\ attempts[o].status = "AWAITING_VERIFICATION" => <<o, "rejected">> \in Heard

\* The verify command is the new row of the outbox.
NewCommand(o) ==
    /\ attempts[o].status = "AWAITING_PAYMENT"
    /\ attempts'[o].status = "AWAITING_VERIFICATION"
    /\ attempts'[o].verify = Len(outbox')
    /\ Len(outbox') = Len(outbox) + 1

\* Such a step keeps the invariant.
LEMMA MovedKeeps ==
    ASSUME Inv, NEW o, Moved(o), SameCommand(o) \/ NewCommand(o)
    PROVE  Inv'
<1> DEFINE s == attempts[o].session
<1>1. TypeOK'
  BY DEF Inv, TypeOK, InboxOK, Moved, OutboxKept
<1>2. Placed'
  BY DEF Inv, Placed, Moved
<1>3. Follows'
  <2>1. /\ inactive[s].attempt = o /\ s \in DOMAIN inactive
        /\ \A q \in DOMAIN attempts \ {o} :
              attempts[q].status \in Awaiting => attempts[q].session # s
    BY DEF Inv, Follows, Moved
  <2>2. ASSUME NEW q \in DOMAIN attempts', attempts'[q].status \in Awaiting
        PROVE  /\ attempts'[q].session \in DOMAIN inactive'
               /\ inactive'[attempts'[q].session].attempt = q
               /\ inactive'[attempts'[q].session].dialog = attempts'[q].status
    BY <2>1, <2>2 DEF Inv, Follows, Moved
  <2>3. ASSUME NEW r \in DOMAIN inactive', inactive'[r].dialog \in Awaiting
        PROVE  /\ inactive'[r].attempt \in DOMAIN attempts'
               /\ attempts'[inactive'[r].attempt].session = r
               /\ attempts'[inactive'[r].attempt].status = inactive'[r].dialog
    BY <2>1, <2>3 DEF Inv, Follows, Moved
  <2> QED BY <2>2, <2>3 DEF Follows
<1>4. WonOnce'
  <2>1. \A q \in DOMAIN attempts : /\ q \in DOMAIN attempts'
                                   /\ attempts'[q].session = attempts[q].session
                                   /\ attempts'[q].status = "ACTIVE" <=> attempts[q].status = "ACTIVE"
    BY DEF Moved, Awaiting
  <2> QED BY <2>1 DEF Inv, WonOnce, Moved
<1>5. CommandsFiled' /\ NoAnsweredCommandOpen'
  <2>1. /\ Len(outbox) \in Nat /\ DOMAIN outbox = 1..Len(outbox)
        /\ Len(outbox') \in Nat /\ DOMAIN outbox' = 1..Len(outbox')
        /\ DOMAIN outbox \subseteq DOMAIN outbox'
    BY DEF Inv, TypeOK, Moved, OutboxKept
  <2>2. /\ sent' \subseteq DOMAIN outbox'
        /\ \A q \in DOMAIN attempts \ {o} : attempts'[q] = attempts[q]
        /\ \A q \in DOMAIN attempts' : attempts'[q].reserve \in DOMAIN outbox'
    BY <2>1 DEF Inv, CommandsFiled, Moved
  <2>3. CASE SameCommand(o)
    <3>1. CommandsFiled'
      BY <2>1, <2>2, <2>3 DEF Inv, CommandsFiled, Moved, SameCommand
    <3>2. NoAnsweredCommandOpen'
      BY <2>1, <2>2, <2>3 DEF Inv, CommandsFiled, NoAnsweredCommandOpen, Moved, SameCommand, OutboxKept
    <3> QED BY <3>1, <3>2
  <2>4. CASE NewCommand(o)
    <3>1. CommandsFiled'
      <4>1. /\ attempts'[o].verify = Len(outbox') /\ Len(outbox') \in DOMAIN outbox'
            /\ Len(outbox') \notin DOMAIN outbox /\ Len(outbox') # 0
            /\ attempts'[o].status = "AWAITING_VERIFICATION"
            /\ DOMAIN attempts' = DOMAIN attempts
        BY <2>1, <2>4 DEF Moved, NewCommand
      <4>2. \A q \in DOMAIN attempts \ {o} : attempts[q].verify \in DOMAIN outbox \cup {0}
        BY DEF Inv, CommandsFiled
      <4> QED BY <2>1, <2>2, <4>1, <4>2 DEF Inv, CommandsFiled
    <3>2. NoAnsweredCommandOpen'
      <4>1. /\ outbox'[attempts'[o].reserve].status \in OutboxTerminal
            /\ attempts'[o].status = "AWAITING_VERIFICATION"
        BY <2>4 DEF Moved, NewCommand
      <4>2. ASSUME NEW q \in DOMAIN attempts \ {o}
            PROVE  /\ attempts'[q] = attempts[q]
                   /\ attempts[q].reserve \in DOMAIN outbox
                   /\ attempts[q].verify # 0 => attempts[q].verify \in DOMAIN outbox
        BY <2>2 DEF Inv, CommandsFiled
      <4>3. /\ \A i \in DOMAIN outbox : outbox[i].status \in OutboxTerminal
                                         => outbox'[i].status \in OutboxTerminal
            /\ DOMAIN attempts' = DOMAIN attempts
        BY DEF Moved, OutboxKept
      <4> QED BY <4>1, <4>2, <4>3 DEF Inv, NoAnsweredCommandOpen
    <3> QED BY <3>1, <3>2
  <2> QED BY <2>3, <2>4
<1>6. TokensSpent'
  <2>1. /\ DOMAIN inactive' = DOMAIN inactive
        /\ \A r \in DOMAIN inactive : inactive'[r].token = inactive[r].token
        /\ UNCHANGED <<invites, projection>>
    BY DEF Moved
  <2> QED BY <2>1 DEF Inv, TokensSpent
<1> QED BY <1>1, <1>2, <1>3, <1>4, <1>5, <1>6 DEF Inv

\* A session gets another dialog state.
LEMMA DialogEffect ==
    ASSUME TypeOK, NEW s \in DOMAIN inactive,
           NEW d \in Awaiting \cup {"AWAITING_WALLET", "REJECTED"},
           inactive' = SetDialog(s, d)
    PROVE  /\ DOMAIN inactive' = DOMAIN inactive
           /\ \A r \in DOMAIN inactive \ {s} : inactive'[r] = inactive[r]
           /\ inactive'[s] \in InactiveSession
           /\ inactive'[s].user = inactive[s].user
           /\ inactive'[s].balance = inactive[s].balance
           /\ inactive'[s].token = inactive[s].token
           /\ inactive'[s].attempt = inactive[s].attempt
           /\ inactive'[s].dialog = d
<1>1. inactive[s] \in InactiveSession
  BY DEF TypeOK
<1> QED BY <1>1 DEF SetDialog, InactiveSession

\* The message is about an attempt in the status it is for.
LEMMA ArrivesFacts ==
    ASSUME Inv, NEW m, NEW kind, NEW st \in Awaiting, Arrives(m, kind, st)
    PROVE  /\ m \in Mail /\ m.op \in DOMAIN attempts
           /\ attempts[m.op] \in Attempt /\ attempts[m.op].status = st
           /\ attempts[m.op].reserve \in DOMAIN outbox
           /\ attempts[m.op].verify # 0 => attempts[m.op].verify \in DOMAIN outbox
           /\ st # "AWAITING_VERIFICATION"
                => attempts[m.op].verify = 0 /\ attempts[m.op].tx = NoTx
           /\ st = "AWAITING_VERIFICATION" => attempts[m.op].verify # 0
           /\ st # "AWAITING_RESERVATION"
                => outbox[attempts[m.op].reserve].status \in OutboxTerminal
           /\ outbox \in Seq(OutboxRow) /\ InboxOK
BY DEF Inv, TypeOK, InboxOK, Arrives, CommandsFiled, NoAnsweredCommandOpen, Awaiting

\* The offer arrives.
LEMMA ReservedMoves ==
    ASSUME Inv, NEW m, ApplyReserved(m)
    PROVE  Moved(m.op) /\ SameCommand(m.op)
<1> DEFINE a == attempts[m.op]
           b == attempts'[m.op]
<1> USE ArrivesFacts DEF Awaiting
<1>1. Arrives(m, "reserved", "AWAITING_RESERVATION") /\ a.session \in DOMAIN inactive
  BY DEF ApplyReserved
<1>2. attempts' = [attempts EXCEPT ![m.op].status = "AWAITING_PAYMENT",
                       ![m.op].offered = TRUE, ![m.op].overdue = FALSE]
  BY DEF ApplyReserved
<1>3. /\ DOMAIN attempts' = DOMAIN attempts
      /\ \A q \in DOMAIN attempts \ {m.op} : attempts'[q] = attempts[q]
      /\ b = [a EXCEPT !.status = "AWAITING_PAYMENT", !.offered = TRUE, !.overdue = FALSE]
  BY <1>1, <1>2 DEF Attempt
<1>4. /\ b \in Attempt /\ b.session = a.session /\ b.reserve = a.reserve
      /\ b.verify = a.verify /\ b.tx = a.tx /\ b.status = "AWAITING_PAYMENT"
  BY <1>1, <1>3 DEF Attempt
<1>5. OutboxKept /\ outbox'[a.reserve].status \in OutboxTerminal
  BY <1>1, AnsweredEffect DEF ApplyReserved
<1>6. InboxOK'
  BY <1>1, AcknowledgeEffect DEF ApplyReserved
<1>7. inactive' = SetDialog(a.session, "AWAITING_PAYMENT") /\ TypeOK
  BY DEF ApplyReserved, Inv
<1>8. UNCHANGED <<invites, projection, sent, mail, reading>>
  BY DEF ApplyReserved
<1> HIDE DEF b
<1>9. Moved(m.op)
  BY <1>1, <1>3, <1>4, <1>5, <1>6, <1>7, <1>8, DialogEffect DEF Moved, b
<1>10. SameCommand(m.op)
  BY <1>1, <1>4 DEF SameCommand, b
<1> QED BY <1>9, <1>10
\* Top-up refuses.
LEMMA ReserveRejectedMoves ==
    ASSUME Inv, NEW m, ApplyReserveRejected(m)
    PROVE  Moved(m.op) /\ SameCommand(m.op)
<1> DEFINE a == attempts[m.op]
           b == attempts'[m.op]
<1> USE ArrivesFacts DEF Awaiting
<1>1. Arrives(m, "reserve_rejected", "AWAITING_RESERVATION") /\ a.session \in DOMAIN inactive
  BY DEF ApplyReserveRejected
<1>2. attempts' = [attempts EXCEPT ![m.op].status = "REJECTED"]
  BY DEF ApplyReserveRejected
<1>3. /\ DOMAIN attempts' = DOMAIN attempts
      /\ \A q \in DOMAIN attempts \ {m.op} : attempts'[q] = attempts[q]
      /\ b = [a EXCEPT !.status = "REJECTED"]
  BY <1>1, <1>2 DEF Attempt
<1>4. /\ b \in Attempt /\ b.session = a.session /\ b.reserve = a.reserve
      /\ b.verify = a.verify /\ b.tx = a.tx /\ b.status = "REJECTED"
  BY <1>1, <1>3 DEF Attempt, Ended
<1>5. OutboxKept /\ outbox'[a.reserve].status \in OutboxTerminal
  BY <1>1, AnsweredEffect DEF ApplyReserveRejected
<1>6. InboxOK'
  BY <1>1, AcknowledgeEffect DEF ApplyReserveRejected
<1>7. inactive' = SetDialog(a.session, "REJECTED") /\ TypeOK
  BY DEF ApplyReserveRejected, Inv
<1>8. UNCHANGED <<invites, projection, sent, mail, reading>>
  BY DEF ApplyReserveRejected
<1> HIDE DEF b
<1>9. Moved(m.op)
  BY <1>1, <1>3, <1>4, <1>5, <1>6, <1>7, <1>8, DialogEffect DEF Moved, b
<1>10. SameCommand(m.op)
  BY <1>1, <1>4 DEF SameCommand, b
<1> QED BY <1>9, <1>10
\* The payment claim arrives.
LEMMA PaymentMoves ==
    ASSUME Inv, NEW m, ApplyPayment(m)
    PROVE  Moved(m.op) /\ NewCommand(m.op)
<1> DEFINE a == attempts[m.op]
           b == attempts'[m.op]
<1> USE ArrivesFacts DEF Awaiting
<1>1. Arrives(m, "payment", "AWAITING_PAYMENT") /\ a.session \in DOMAIN inactive
  BY DEF ApplyPayment
<1>2. attempts' = [attempts EXCEPT ![m.op].status = "AWAITING_VERIFICATION",
                       ![m.op].verify = NextID(outbox), ![m.op].tx = m.tx,
                       ![m.op].overdue = FALSE]
  BY DEF ApplyPayment
<1>0. m.tx \in Txs /\ NextID(outbox) \in Nat
  <2>1. m.kind = "payment" /\ m \in Mail
    BY <1>1 DEF Arrives
  <2> QED BY <1>1, <2>1 DEF Mail, NextID
<1>3. /\ DOMAIN attempts' = DOMAIN attempts
      /\ \A q \in DOMAIN attempts \ {m.op} : attempts'[q] = attempts[q]
      /\ b = [a EXCEPT !.status = "AWAITING_VERIFICATION", !.verify = NextID(outbox),
                      !.tx = m.tx, !.overdue = FALSE]
  BY <1>1, <1>2 DEF Attempt
<1>4. /\ b \in Attempt /\ b.session = a.session /\ b.reserve = a.reserve
      /\ b.verify = NextID(outbox) /\ b.status = "AWAITING_VERIFICATION"
  BY <1>0, <1>1, <1>3 DEF Attempt
<1>5. /\ OutboxKept /\ outbox'[a.reserve].status \in OutboxTerminal
      /\ Len(outbox') = Len(outbox) + 1 /\ NextID(outbox) = Len(outbox')
  <2>1. m.op \in Ops /\ outbox' = InsertOutbox(outbox, Row("COMMAND", m.op))
    BY <1>1 DEF ApplyPayment, Inv, TypeOK
  <2> QED BY <1>1, <2>1, InsertEffect
<1>6. InboxOK'
  BY <1>1, AcknowledgeEffect DEF ApplyPayment
<1>7. inactive' = SetDialog(a.session, "AWAITING_VERIFICATION") /\ TypeOK
  BY DEF ApplyPayment, Inv
<1>8. UNCHANGED <<invites, projection, sent, mail, reading>>
  BY DEF ApplyPayment
<1> HIDE DEF b
<1>9. Moved(m.op)
  BY <1>1, <1>3, <1>4, <1>5, <1>6, <1>7, <1>8, DialogEffect DEF Moved, b
<1>10. NewCommand(m.op)
  BY <1>1, <1>4, <1>5 DEF NewCommand, b
<1> QED BY <1>9, <1>10
\* The authority refuses.
LEMMA RejectedMoves ==
    ASSUME Inv, NEW m, CompleteRejected(m)
    PROVE  Moved(m.op) /\ SameCommand(m.op)
<1> DEFINE a == attempts[m.op]
           b == attempts'[m.op]
<1> USE ArrivesFacts DEF Awaiting
<1>1. Arrives(m, "rejected", "AWAITING_VERIFICATION") /\ a.session \in DOMAIN inactive
  BY DEF CompleteRejected
<1>2. attempts' = [attempts EXCEPT ![m.op].status = "REJECTED"]
  BY DEF CompleteRejected
<1>3. /\ DOMAIN attempts' = DOMAIN attempts
      /\ \A q \in DOMAIN attempts \ {m.op} : attempts'[q] = attempts[q]
      /\ b = [a EXCEPT !.status = "REJECTED"]
  BY <1>1, <1>2 DEF Attempt
<1>4. /\ b \in Attempt /\ b.session = a.session /\ b.reserve = a.reserve
      /\ b.verify = a.verify /\ b.tx = a.tx /\ b.status = "REJECTED"
  BY <1>1, <1>3 DEF Attempt, Ended
<1>5. /\ OutboxKept /\ outbox'[a.verify].status \in OutboxTerminal
      /\ outbox'[a.reserve].status \in OutboxTerminal
  <2>1. OutboxKept /\ outbox'[a.verify].status \in OutboxTerminal
    BY <1>1, AnsweredEffect DEF CompleteRejected
  <2> QED BY <1>1, <2>1 DEF OutboxKept
<1>6. InboxOK'
  BY <1>1, AcknowledgeEffect DEF CompleteRejected
<1>7. inactive' = SetDialog(a.session, "REJECTED") /\ TypeOK
  BY DEF CompleteRejected, Inv
<1>8. UNCHANGED <<invites, projection, sent, mail, reading>>
  BY DEF CompleteRejected
<1> HIDE DEF b
<1>9. Moved(m.op)
  BY <1>1, <1>3, <1>4, <1>5, <1>6, <1>7, <1>8, DialogEffect DEF Moved, b
<1>10. SameCommand(m.op)
  <2>1. <<m.op, "rejected">> \in Heard
    BY <1>1 DEF Heard, Arrives
  <2> QED BY <1>1, <1>4, <1>5, <2>1 DEF SameCommand, b
<1> QED BY <1>9, <1>10

-----------------------------------------------------------------------------
(* Every other step keeps the invariant                                    *)

\* Steps that leave sessions, attempts and invites alone.
LEMMA FrameKeeps ==
    ASSUME Inv, UNCHANGED <<invites, inactive, attempts, projection>>,
           InboxOK', OutboxKept, sent' \subseteq DOMAIN outbox', mail' \subseteq Mail,
           reading' \in [Pollers -> Reading \cup {NotReading}]
    PROVE  Inv'
<1>1. /\ Len(outbox) \in Nat /\ DOMAIN outbox = 1..Len(outbox)
      /\ Len(outbox') \in Nat /\ DOMAIN outbox' = 1..Len(outbox')
      /\ DOMAIN outbox \subseteq DOMAIN outbox'
  BY DEF Inv, TypeOK, OutboxKept
<1>2. TypeOK'
  BY <1>1 DEF Inv, TypeOK, InboxOK, OutboxKept
<1>3. Placed' /\ Follows' /\ WonOnce' /\ TokensSpent'
  BY DEF Inv, Placed, Follows, WonOnce, TokensSpent
<1>4. CommandsFiled'
  BY <1>1 DEF Inv, CommandsFiled
<1>5. NoAnsweredCommandOpen'
  BY DEF Inv, CommandsFiled, NoAnsweredCommandOpen, OutboxKept
<1> QED BY <1>2, <1>3, <1>4, <1>5 DEF Inv

\* What Inv says of the variables a step may leave alone.
LEMMA FrameFacts ==
    ASSUME Inv
    PROVE  /\ InboxOK /\ sent \subseteq DOMAIN outbox /\ mail \subseteq Mail
           /\ reading \in [Pollers -> Reading \cup {NotReading}]
           /\ outbox \in Seq(OutboxRow) /\ DOMAIN outbox = 1..Len(outbox)
           /\ outbox' = outbox => OutboxKept
           /\ inbox' = inbox => InboxOK'
BY DEF Inv, TypeOK, InboxOK, CommandsFiled, OutboxKept

\* The messages, the publisher and the first statement of ConsumeInvite.
LEMMA QuietKeeps ==
    ASSUME Inv,
           \/ \E c \in InviteCommands : RepeatCreateInvite(c)
           \/ \E p \in Pollers, u \in Users, t \in Tokens : ReadProjection(p, u, t)
           \/ \E p \in Pollers : AbandonConsume(p)
           \/ \E m \in mail : IgnoreUnexpected(m)
           \/ \E i \in DOMAIN outbox : Publish(i) \/ KillExpired(i)
           \/ \E m \in Mail : Answer(m)
    PROVE  Inv'
<1> USE FrameFacts
<1>1. CASE \E c \in InviteCommands : RepeatCreateInvite(c)
  <2>1. OutboxKept /\ Len(outbox') = Len(outbox)
    BY <1>1, RequeueEffect DEF RepeatCreateInvite
  <2>2. DOMAIN outbox' = DOMAIN outbox
    BY <2>1 DEF OutboxKept
  <2> QED BY <1>1, <2>1, <2>2, FrameKeeps DEF RepeatCreateInvite
<1>2. CASE \E p \in Pollers, u \in Users, t \in Tokens : ReadProjection(p, u, t)
  <2>1. PICK p \in Pollers, u \in Users, t \in Tokens : ReadProjection(p, u, t)
    BY <1>2
  <2>2. [user |-> u, token |-> t] \in Reading
    BY DEF Reading
  <2>3. reading' \in [Pollers -> Reading \cup {NotReading}]
    BY <2>1, <2>2 DEF ReadProjection
  <2> QED BY <2>1, <2>3, FrameKeeps DEF ReadProjection
<1>3. CASE \E p \in Pollers : AbandonConsume(p)
  BY <1>3, FrameKeeps DEF AbandonConsume
<1>4. CASE \E m \in mail : IgnoreUnexpected(m)
  BY <1>4, FrameKeeps, RejectEffect DEF IgnoreUnexpected
<1>5. CASE \E i \in DOMAIN outbox : Publish(i) \/ KillExpired(i)
  <2>1. PICK i \in DOMAIN outbox : Publish(i) \/ KillExpired(i)
    BY <1>5
  <2>2. OutboxKept /\ Len(outbox') = Len(outbox)
    BY <2>1, PublishEffect
  <2>3. DOMAIN outbox' = DOMAIN outbox
    BY <2>2 DEF OutboxKept
  <2> QED BY <2>1, <2>2, <2>3, FrameKeeps DEF Publish, KillExpired
<1>6. CASE \E m \in Mail : Answer(m)
  BY <1>6, FrameKeeps DEF Answer, Arrive
<1> QED BY <1>1, <1>2, <1>3, <1>4, <1>5, <1>6

\* Steps that change attempts only in their time flag, and invites only by
\* adding rows and in their time flag.
LEMMA CreateInviteKeeps ==
    ASSUME Inv, NEW c \in InviteCommands, CreateInvite(c)
    PROVE  Inv'
<1>1. InboxOK'
  BY DEF CreateInvite, CompleteInbox, RegisterInbox, Put, InboxRow, InboxStatus, NoResult,
         Inv, TypeOK, InboxOK, NextID
<1>2. OutboxKept /\ DOMAIN outbox \subseteq DOMAIN outbox'
  <2>1. c.op \in Tokens /\ outbox' = InsertOutbox(outbox, Row("RESULT", c.op))
    BY DEF CreateInvite, Tokens
  <2>2. outbox \in Seq(OutboxRow)
    BY FrameFacts
  <2>3. OutboxKept /\ Len(outbox') = Len(outbox) + 1
    BY <2>1, <2>2, InsertEffect
  <2> QED BY <2>2, <2>3 DEF OutboxKept
<1>3. /\ DOMAIN invites' = DOMAIN invites \cup {c.op} /\ c.op \notin DOMAIN invites
      /\ \A t \in DOMAIN invites : invites'[t] = invites[t]
      /\ invites'[c.op] \in Invite /\ c.op \in Tokens
  BY DEF CreateInvite, Put, Invite, Tokens, Balances
<1>4. UNCHANGED <<inactive, attempts, projection, sent, mail, reading>>
  BY DEF CreateInvite
<1>5. TypeOK'
  BY <1>1, <1>2, <1>3, <1>4 DEF Inv, TypeOK, InboxOK, OutboxKept
<1>6. Placed' /\ Follows' /\ WonOnce'
  BY <1>4 DEF Inv, Placed, Follows, WonOnce
<1>7. TokensSpent'
  BY <1>3, <1>4 DEF Inv, TokensSpent
<1>8. CommandsFiled'
  BY <1>2, <1>4 DEF Inv, CommandsFiled
<1>9. NoAnsweredCommandOpen'
  BY <1>2, <1>4 DEF Inv, CommandsFiled, NoAnsweredCommandOpen, OutboxKept
<1> QED BY <1>5, <1>6, <1>7, <1>8, <1>9 DEF Inv

\* Time passes for an invite.
LEMMA InviteRunsOutKeeps ==
    ASSUME Inv, NEW t \in DOMAIN invites, InviteRunsOut(t)
    PROVE  Inv'
<1>1. invites[t] \in Invite /\ invites' = [invites EXCEPT ![t].expired = TRUE]
  BY DEF InviteRunsOut, Inv, TypeOK
<1>2. /\ DOMAIN invites' = DOMAIN invites
      /\ \A r \in DOMAIN invites : r # t => invites'[r] = invites[r]
      /\ invites'[t] \in Invite /\ invites'[t].status = invites[t].status
  BY <1>1 DEF Invite
<1>3. UNCHANGED <<inactive, attempts, projection, inbox, outbox, sent, mail, reading>>
  BY DEF InviteRunsOut
<1>4. TypeOK'
  BY <1>2, <1>3 DEF Inv, TypeOK
<1>5. Placed' /\ Follows' /\ WonOnce' /\ CommandsFiled' /\ NoAnsweredCommandOpen'
  BY <1>3 DEF Inv, Placed, Follows, WonOnce, CommandsFiled, NoAnsweredCommandOpen
<1>6. TokensSpent'
  BY <1>2, <1>3 DEF Inv, TokensSpent
<1> QED BY <1>4, <1>5, <1>6 DEF Inv

\* Time passes for an attempt.
LEMMA RunOverKeeps ==
    ASSUME Inv, NEW o \in DOMAIN attempts, RunOver(o)
    PROVE  Inv'
<1>1. attempts[o] \in Attempt /\ attempts' = [attempts EXCEPT ![o].overdue = TRUE]
  BY DEF RunOver, Inv, TypeOK
<1>2. /\ DOMAIN attempts' = DOMAIN attempts
      /\ \A q \in DOMAIN attempts : q # o => attempts'[q] = attempts[q]
      /\ attempts'[o] = [attempts[o] EXCEPT !.overdue = TRUE]
  BY <1>1 DEF Attempt
<1>3. /\ attempts'[o] \in Attempt
      /\ attempts'[o].session = attempts[o].session
      /\ attempts'[o].status = attempts[o].status
      /\ attempts'[o].reserve = attempts[o].reserve
      /\ attempts'[o].verify = attempts[o].verify
      /\ attempts'[o].tx = attempts[o].tx
  BY <1>1, <1>2 DEF Attempt
<1>4. UNCHANGED <<invites, inactive, projection, inbox, outbox, sent, mail, reading>>
  BY DEF RunOver
<1>5. TypeOK'
  BY <1>2, <1>3, <1>4 DEF Inv, TypeOK
<1>6. \A q \in DOMAIN attempts :
         /\ attempts'[q].session = attempts[q].session
         /\ attempts'[q].status = attempts[q].status
         /\ attempts'[q].reserve = attempts[q].reserve
         /\ attempts'[q].verify = attempts[q].verify
         /\ attempts'[q].tx = attempts[q].tx
  BY <1>2, <1>3
<1>7. Placed' /\ Follows' /\ TokensSpent'
  BY <1>2, <1>4, <1>6 DEF Inv, Placed, Follows, TokensSpent
<1>8. WonOnce'
  BY <1>2, <1>4, <1>6 DEF Inv, WonOnce
<1>9. CommandsFiled' /\ NoAnsweredCommandOpen'
  BY <1>2, <1>4, <1>6 DEF Inv, CommandsFiled, NoAnsweredCommandOpen
<1> QED BY <1>5, <1>7, <1>8, <1>9 DEF Inv

\* A poller with an invite in hand knows its user and token.
LEMMA ReadingFacts ==
    ASSUME Inv, NEW p \in Pollers, reading[p] # NotReading
    PROVE  reading[p].user \in Users /\ reading[p].token \in Tokens
BY DEF Inv, TypeOK, Reading

\* A user is bound to a session.
LEMMA ConsumeInviteKeeps ==
    ASSUME Inv, NEW p \in Pollers, NEW s \in SessionIDs, ConsumeInvite(p, s)
    PROVE  Inv'
<1> DEFINE u == reading[p].user
           t == reading[p].token
           row == [user |-> u, balance |-> invites[t].balance, token |-> t,
                   dialog |-> "AWAITING_WALLET", attempt |-> NoAttempt]
<1>1. /\ u \in Users /\ t \in Tokens
      /\ t \in DOMAIN invites /\ invites[t] \in Invite /\ invites[t].status = "ACTIVE"
      /\ s \notin DOMAIN inactive /\ s \notin DOMAIN projection
  BY ReadingFacts DEF ConsumeInvite, InviteUsable, Inv, TypeOK
<1>2. row \in InactiveSession /\ row.token = t /\ row.dialog \notin Awaiting
  BY <1>1 DEF InactiveSession, Invite, Awaiting
<1>3. inactive' = Put(inactive, s, row)
  BY DEF ConsumeInvite
<1> HIDE DEF row
<1>4. /\ DOMAIN inactive' = DOMAIN inactive \cup {s}
      /\ inactive'[s] = row
      /\ \A r \in DOMAIN inactive : inactive'[r] = inactive[r]
  BY <1>1, <1>3 DEF Put
<1>5. /\ DOMAIN invites' = DOMAIN invites
      /\ \A r \in DOMAIN invites : r # t => invites'[r] = invites[r]
      /\ invites'[t] \in Invite /\ invites'[t].status = "CONSUMED"
  BY <1>1 DEF ConsumeInvite, Invite
<1>6. UNCHANGED <<attempts, projection, inbox, outbox, sent, mail>>
  BY DEF ConsumeInvite
<1>7. TypeOK'
  BY <1>1, <1>2, <1>4, <1>5, <1>6 DEF Inv, TypeOK, ConsumeInvite
<1>8. Placed'
  BY <1>1, <1>4, <1>6 DEF Inv, TypeOK, Placed
<1>9. Follows'
  <2>1. \A o \in DOMAIN attempts : attempts[o].session # s
    BY <1>1 DEF Inv, Placed
  <2> QED BY <1>2, <1>4, <1>6, <2>1 DEF Inv, Follows
<1>10. WonOnce' /\ CommandsFiled' /\ NoAnsweredCommandOpen'
  BY <1>6 DEF Inv, WonOnce, CommandsFiled, NoAnsweredCommandOpen
<1>11. TokensSpent'
  <2>1. /\ \A r \in DOMAIN inactive : inactive[r].token # t
        /\ \A r \in DOMAIN projection : projection[r].token # t
    BY <1>1 DEF Inv, TokensSpent
  <2>2. inactive'[s].token = t
    BY <1>2, <1>4
  <2> QED BY <1>1, <1>4, <1>5, <1>6, <2>1, <2>2 DEF Inv, TokensSpent
<1> QED BY <1>7, <1>8, <1>9, <1>10, <1>11 DEF Inv

\* What BeginActivation does to the tables: o is the new attempt of s.
Began(s, o) ==
    /\ OutboxKept /\ Len(outbox') = Len(outbox) + 1
    /\ Len(outbox) \in Nat
    /\ o \notin DOMAIN attempts /\ DOMAIN attempts' = DOMAIN attempts \cup {o}
    /\ \A q \in DOMAIN attempts : attempts'[q] = attempts[q]
    /\ attempts'[o] \in Attempt
    /\ attempts'[o].session = s /\ attempts'[o].status = "AWAITING_RESERVATION"
    /\ attempts'[o].reserve = Len(outbox')
    /\ attempts'[o].verify = 0 /\ attempts'[o].tx = NoTx
    /\ inactive[s].dialog \notin Awaiting
    /\ DOMAIN inactive' = DOMAIN inactive
    /\ \A r \in DOMAIN inactive \ {s} : inactive'[r] = inactive[r]
    /\ inactive'[s] \in InactiveSession
    /\ inactive'[s].user = inactive[s].user
    /\ inactive'[s].balance = inactive[s].balance
    /\ inactive'[s].token = inactive[s].token
    /\ inactive'[s].attempt = o
    /\ inactive'[s].dialog = "AWAITING_RESERVATION"
    /\ UNCHANGED <<invites, projection, inbox, sent, mail, reading>>

\* BeginActivation is such a step.
LEMMA BeginEffect ==
    ASSUME Inv, NEW p \in Pollers, NEW s \in DOMAIN inactive, NEW o \in Ops,
           BeginActivation(p, s, o)
    PROVE  Began(s, o)
<1> DEFINE row == [session |-> s, status |-> "AWAITING_RESERVATION",
                   reserve |-> NextID(outbox), verify |-> 0, tx |-> NoTx,
                   offered |-> FALSE, overdue |-> FALSE]
<1>1. /\ OutboxKept /\ Len(outbox') = Len(outbox) + 1 /\ NextID(outbox) = Len(outbox')
      /\ Len(outbox) \in Nat
  <2>1. outbox \in Seq(OutboxRow) /\ outbox' = InsertOutbox(outbox, Row("COMMAND", o))
    BY FrameFacts DEF BeginActivation
  <2> QED BY <2>1, InsertEffect
<1>2. s \in SessionIDs /\ o \notin DOMAIN attempts
  BY DEF Inv, TypeOK, BeginActivation
<1>3. /\ row \in Attempt /\ row.session = s /\ row.status = "AWAITING_RESERVATION"
      /\ row.reserve = Len(outbox') /\ row.verify = 0 /\ row.tx = NoTx
  BY <1>1, <1>2 DEF Attempt, Awaiting
<1>4. attempts' = Put(attempts, o, row)
  BY DEF BeginActivation
<1> HIDE DEF row
<1>5. /\ DOMAIN attempts' = DOMAIN attempts \cup {o}
      /\ attempts'[o] = row
      /\ \A q \in DOMAIN attempts : attempts'[q] = attempts[q]
  BY <1>2, <1>4 DEF Put
<1>6. inactive[s] \in InactiveSession
  BY DEF Inv, TypeOK
<1>7. /\ DOMAIN inactive' = DOMAIN inactive
      /\ \A r \in DOMAIN inactive \ {s} : inactive'[r] = inactive[r]
      /\ inactive'[s] = [inactive[s] EXCEPT !.dialog = "AWAITING_RESERVATION", !.attempt = o]
  BY <1>6 DEF BeginActivation, InactiveSession
<1>8. /\ inactive'[s] \in InactiveSession
      /\ inactive'[s].user = inactive[s].user
      /\ inactive'[s].balance = inactive[s].balance
      /\ inactive'[s].token = inactive[s].token
      /\ inactive'[s].attempt = o
      /\ inactive'[s].dialog = "AWAITING_RESERVATION"
  BY <1>6, <1>7 DEF InactiveSession, Awaiting
<1>9. inactive[s].dialog \notin Awaiting
  BY DEF BeginActivation, MayBegin, Awaiting
<1>10. UNCHANGED <<invites, projection, inbox, sent, mail, reading>>
  BY DEF BeginActivation
<1> QED BY <1>1, <1>2, <1>3, <1>5, <1>7, <1>8, <1>9, <1>10 DEF Began

\* An attempt begins.
LEMMA BeganKeeps ==
    ASSUME Inv, NEW s \in DOMAIN inactive, NEW o \in Ops, Began(s, o)
    PROVE  Inv'
<1> USE DEF Began
<1>1. TypeOK'
  BY DEF Inv, TypeOK, OutboxKept
<1>2. Placed'
  BY DEF Inv, Placed
<1>3. Follows'
  <2>1. \A q \in DOMAIN attempts :
           attempts[q].status \in Awaiting => attempts[q].session # s
    BY DEF Inv, Follows
  <2>2. ASSUME NEW q \in DOMAIN attempts', attempts'[q].status \in Awaiting
        PROVE  /\ attempts'[q].session \in DOMAIN inactive'
               /\ inactive'[attempts'[q].session].attempt = q
               /\ inactive'[attempts'[q].session].dialog = attempts'[q].status
    BY <2>1, <2>2 DEF Inv, Follows
  <2>3. ASSUME NEW r \in DOMAIN inactive', inactive'[r].dialog \in Awaiting
        PROVE  /\ inactive'[r].attempt \in DOMAIN attempts'
               /\ attempts'[inactive'[r].attempt].session = r
               /\ attempts'[inactive'[r].attempt].status = inactive'[r].dialog
    BY <2>3 DEF Inv, Follows
  <2> QED BY <2>2, <2>3 DEF Follows
<1>4. WonOnce'
  BY DEF Inv, WonOnce
<1>5. /\ DOMAIN outbox = 1..Len(outbox) /\ DOMAIN outbox' = 1..Len(outbox')
      /\ DOMAIN outbox \subseteq DOMAIN outbox' /\ Len(outbox') \in DOMAIN outbox'
  BY DEF Inv, TypeOK, OutboxKept
<1>6. CommandsFiled'
  BY <1>5 DEF Inv, CommandsFiled
<1>7. NoAnsweredCommandOpen'
  BY <1>5 DEF Inv, CommandsFiled, NoAnsweredCommandOpen, OutboxKept
<1>8. TokensSpent'
  <2>1. \A r \in DOMAIN inactive : inactive'[r].token = inactive[r].token
    OBVIOUS
  <2> QED BY <2>1 DEF Inv, TokensSpent
<1> QED BY <1>1, <1>2, <1>3, <1>4, <1>6, <1>7, <1>8 DEF Inv

\* What CompleteActivated does to the tables: attempt o wins.
Activated(o) ==
    LET s == attempts[o].session
    IN  /\ o \in DOMAIN attempts /\ attempts[o].status = "AWAITING_VERIFICATION"
        /\ <<o, "activated">> \in Heard
        /\ s \in DOMAIN inactive /\ s \notin DOMAIN projection
        /\ DOMAIN attempts' = DOMAIN attempts
        /\ \A q \in DOMAIN attempts \ {o} : attempts'[q] = attempts[q]
        /\ attempts'[o] \in Attempt
        /\ attempts'[o].session = s /\ attempts'[o].status = "ACTIVE"
        /\ attempts'[o].reserve = attempts[o].reserve
        /\ attempts'[o].verify = attempts[o].verify
        /\ attempts'[o].tx = attempts[o].tx
        /\ DOMAIN inactive' = DOMAIN inactive \ {s}
        /\ \A r \in DOMAIN inactive' : inactive'[r] = inactive[r]
        /\ DOMAIN projection' = DOMAIN projection \cup {s}
        /\ \A r \in DOMAIN projection : projection'[r] = projection[r]
        /\ projection'[s] \in Active
        /\ projection'[s].user = inactive[s].user
        /\ projection'[s].balance = inactive[s].balance
        /\ projection'[s].token = inactive[s].token
        /\ \A r \in DOMAIN projection : projection[r].user # inactive[s].user
        /\ OutboxKept /\ Len(outbox') = Len(outbox)
        /\ attempts[o].reserve \in DOMAIN outbox /\ attempts[o].verify \in DOMAIN outbox
        /\ outbox'[attempts[o].reserve].status \in OutboxTerminal
        /\ outbox'[attempts[o].verify].status \in OutboxTerminal
        /\ InboxOK'
        /\ UNCHANGED <<invites, sent, mail, reading>>

\* CompleteActivated is such a step.
LEMMA ActivatedEffect ==
    ASSUME Inv, NEW m, CompleteActivated(m)
    PROVE  Activated(m.op)
<1> DEFINE a == attempts[m.op]
           b == attempts'[m.op]
           s == a.session
           row == [user |-> inactive[s].user, balance |-> inactive[s].balance,
                   token |-> inactive[s].token]
<1>1. Arrives(m, "activated", "AWAITING_VERIFICATION") /\ s \in DOMAIN inactive
  BY DEF CompleteActivated
<1>2. /\ m \in Mail /\ m.op \in DOMAIN attempts
      /\ a \in Attempt /\ a.status = "AWAITING_VERIFICATION"
      /\ a.reserve \in DOMAIN outbox /\ a.verify \in DOMAIN outbox
      /\ outbox[a.reserve].status \in OutboxTerminal
      /\ outbox \in Seq(OutboxRow) /\ InboxOK
  BY <1>1, ArrivesFacts DEF Awaiting
<1>3. /\ DOMAIN attempts' = DOMAIN attempts
      /\ \A q \in DOMAIN attempts \ {m.op} : attempts'[q] = attempts[q]
      /\ b = [a EXCEPT !.status = "ACTIVE"]
  BY <1>2 DEF CompleteActivated, Attempt
<1>4. /\ b \in Attempt /\ b.session = s /\ b.reserve = a.reserve
      /\ b.verify = a.verify /\ b.tx = a.tx /\ b.status = "ACTIVE"
  BY <1>2, <1>3 DEF Attempt, Ended
<1>5. OutboxKept /\ Len(outbox') = Len(outbox) /\ outbox'[a.verify].status \in OutboxTerminal
  BY <1>2, AnsweredEffect DEF CompleteActivated
<1>6. outbox'[a.reserve].status \in OutboxTerminal
  BY <1>2, <1>5 DEF OutboxKept
<1>7. InboxOK'
  BY <1>2, AcknowledgeEffect DEF CompleteActivated
<1>8. s \notin DOMAIN projection /\ inactive[s] \in InactiveSession
  BY <1>1, <1>2 DEF Inv, Placed, TypeOK, Attempt
<1>9. row \in Active /\ row.user = inactive[s].user /\ row.balance = inactive[s].balance
      /\ row.token = inactive[s].token
  BY <1>8 DEF Active, InactiveSession
<1>10. \A r \in DOMAIN projection : projection[r].user # inactive[s].user
  BY <1>8 DEF CompleteActivated
<1>11. projection' = Put(projection, s, row) /\ inactive' = Drop(inactive, s)
  BY DEF CompleteActivated, Unlisted
<1> HIDE DEF row, b
<1>12. /\ DOMAIN inactive' = DOMAIN inactive \ {s}
       /\ \A r \in DOMAIN inactive' : inactive'[r] = inactive[r]
       /\ DOMAIN projection' = DOMAIN projection \cup {s}
       /\ \A r \in DOMAIN projection : projection'[r] = projection[r]
       /\ projection'[s] = row
  BY <1>8, <1>11 DEF Put, Drop
<1>13. UNCHANGED <<invites, sent, mail, reading>>
  BY DEF CompleteActivated
<1>14. <<m.op, "activated">> \in Heard
  BY <1>1 DEF Heard, Arrives
<1> QED BY <1>1, <1>2, <1>3, <1>4, <1>5, <1>6, <1>7, <1>8, <1>9, <1>10, <1>12, <1>13,
           <1>14 DEF Activated, b

\* An attempt wins.
LEMMA ActivatedKeeps ==
    ASSUME Inv, NEW o, Activated(o)
    PROVE  Inv'
<1> USE DEF Activated
<1> DEFINE s == attempts[o].session
<1>1. TypeOK'
  BY DEF Inv, TypeOK, InboxOK, OutboxKept, Attempt
<1>2. Placed'
  BY DEF Inv, Placed
<1>3. Follows'
  <2>1. \A q \in DOMAIN attempts \ {o} :
           attempts[q].status \in Awaiting => attempts[q].session # s
    BY DEF Inv, Follows, Awaiting
  <2>2. ASSUME NEW q \in DOMAIN attempts', attempts'[q].status \in Awaiting
        PROVE  /\ attempts'[q].session \in DOMAIN inactive'
               /\ inactive'[attempts'[q].session].attempt = q
               /\ inactive'[attempts'[q].session].dialog = attempts'[q].status
    <3>1. q # o
      BY <2>2 DEF Awaiting
    <3> QED BY <2>1, <2>2, <3>1 DEF Inv, Follows
  <2>3. ASSUME NEW r \in DOMAIN inactive', inactive'[r].dialog \in Awaiting
        PROVE  /\ inactive'[r].attempt \in DOMAIN attempts'
               /\ attempts'[inactive'[r].attempt].session = r
               /\ attempts'[inactive'[r].attempt].status = inactive'[r].dialog
    BY <2>3 DEF Inv, Follows
  <2> QED BY <2>2, <2>3 DEF Follows
<1>4. WonOnce'
  <2>1. \A q \in DOMAIN attempts : attempts[q].status = "ACTIVE" => attempts[q].session # s
    BY DEF Inv, WonOnce
  <2> QED BY <2>1 DEF Inv, WonOnce
<1>5. DOMAIN outbox' = DOMAIN outbox
  BY DEF Inv, TypeOK, OutboxKept
<1>6. CommandsFiled'
  <2>1. /\ DOMAIN attempts' = DOMAIN attempts /\ UNCHANGED sent
        /\ \A q \in DOMAIN attempts :
              /\ attempts'[q].reserve = attempts[q].reserve
              /\ attempts'[q].verify = attempts[q].verify
              /\ attempts'[q].tx = attempts[q].tx
    OBVIOUS
  <2>2. \A q \in DOMAIN attempts :
           \/ attempts'[q].status = attempts[q].status
           \/ /\ attempts[q].status = "AWAITING_VERIFICATION"
              /\ attempts'[q].status = "ACTIVE"
    OBVIOUS
  <2> HIDE DEF Activated
  <2> QED BY <1>5, <2>1, <2>2 DEF Inv, CommandsFiled
<1>7. NoAnsweredCommandOpen'
  BY <1>5 DEF Inv, CommandsFiled, NoAnsweredCommandOpen, OutboxKept
<1>8. TokensSpent'
  <2>1. /\ UNCHANGED invites
        /\ \A r \in DOMAIN inactive' : r \in DOMAIN inactive /\ inactive'[r] = inactive[r] /\ r # s
        /\ s \in DOMAIN inactive
    OBVIOUS
  <2>2. \A r \in DOMAIN projection' :
           \/ r \in DOMAIN projection /\ projection'[r] = projection[r]
           \/ r = s /\ projection'[r].token = inactive[s].token
    OBVIOUS
  <2> QED BY <2>1, <2>2 DEF Inv, TokensSpent
<1> QED BY <1>1, <1>2, <1>3, <1>4, <1>6, <1>7, <1>8 DEF Inv

\* What ExpireAttempts does to the tables.
Expired(taken) ==
    /\ taken # {} /\ \A o \in taken : o \in DOMAIN attempts /\ attempts[o].status \in Awaiting
    /\ DOMAIN attempts' = DOMAIN attempts
    /\ \A o \in DOMAIN attempts \ taken : attempts'[o] = attempts[o]
    /\ \A o \in taken :
          /\ attempts'[o] \in Attempt
          /\ attempts'[o].status = "EXPIRED"
          /\ attempts'[o].session = attempts[o].session
          /\ attempts'[o].reserve = attempts[o].reserve
          /\ attempts'[o].verify = attempts[o].verify
          /\ attempts'[o].tx = attempts[o].tx
    /\ DOMAIN inactive' = DOMAIN inactive
    /\ \A s \in DOMAIN inactive :
          /\ inactive'[s] \in InactiveSession
          /\ inactive'[s].user = inactive[s].user
          /\ inactive'[s].balance = inactive[s].balance
          /\ inactive'[s].token = inactive[s].token
          /\ inactive'[s].attempt = inactive[s].attempt
    /\ \A s \in DOMAIN inactive :
          \/ inactive'[s].dialog = "REJECTED" /\ \E o \in taken : attempts[o].session = s
          \/ inactive'[s].dialog = inactive[s].dialog /\ \A o \in taken : attempts[o].session # s
    /\ UNCHANGED <<invites, projection, inbox, outbox, sent, mail, reading>>

\* ExpireAttempts is such a step.
LEMMA ExpiredEffect ==
    ASSUME Inv, ExpireAttempts
    PROVE  \E taken : Expired(taken)
<1>1. PICK taken \in (SUBSET {o \in DOMAIN attempts : Expirable(o)}) \ {{}} :
           /\ attempts' = [o \in DOMAIN attempts |->
                IF o \in taken THEN [attempts[o] EXCEPT !.status = "EXPIRED"]
                               ELSE attempts[o]]
           /\ inactive' = [s \in DOMAIN inactive |->
                [inactive[s] EXCEPT !.dialog = DialogAfterExpiry(s, taken)]]
           /\ UNCHANGED <<invites, projection, inbox, outbox, sent, mail, reading>>
  BY DEF ExpireAttempts
<1>2. taken # {} /\ \A o \in taken : o \in DOMAIN attempts /\ attempts[o].status \in Awaiting
  BY DEF Expirable
<1>3. /\ \A o \in DOMAIN attempts : attempts[o] \in Attempt
      /\ \A s \in DOMAIN inactive : inactive[s] \in InactiveSession
  BY DEF Inv, TypeOK
<1>4. /\ DOMAIN attempts' = DOMAIN attempts /\ DOMAIN inactive' = DOMAIN inactive
      /\ \A o \in DOMAIN attempts \ taken : attempts'[o] = attempts[o]
      /\ \A o \in taken : attempts'[o] = [attempts[o] EXCEPT !.status = "EXPIRED"]
      /\ \A s \in DOMAIN inactive :
            inactive'[s] = [inactive[s] EXCEPT !.dialog = DialogAfterExpiry(s, taken)]
  BY <1>1, <1>2
<1>5. ASSUME NEW o \in taken
      PROVE  /\ attempts'[o] \in Attempt
             /\ attempts'[o].status = "EXPIRED"
             /\ attempts'[o].session = attempts[o].session
             /\ attempts'[o].reserve = attempts[o].reserve
             /\ attempts'[o].verify = attempts[o].verify
             /\ attempts'[o].tx = attempts[o].tx
  <2>1. attempts[o] \in Attempt /\ attempts'[o] = [attempts[o] EXCEPT !.status = "EXPIRED"]
    BY <1>2, <1>3, <1>4
  <2> QED BY <2>1 DEF Attempt, Ended
<1>6. ASSUME NEW s \in DOMAIN inactive
      PROVE  /\ inactive'[s] \in InactiveSession
             /\ inactive'[s].user = inactive[s].user
             /\ inactive'[s].balance = inactive[s].balance
             /\ inactive'[s].token = inactive[s].token
             /\ inactive'[s].attempt = inactive[s].attempt
             /\ \/ inactive'[s].dialog = "REJECTED" /\ \E o \in taken : attempts[o].session = s
                \/ /\ inactive'[s].dialog = inactive[s].dialog
                   /\ \A o \in taken : attempts[o].session # s
  <2>1. \/ DialogAfterExpiry(s, taken) = "REJECTED" /\ \E o \in taken : attempts[o].session = s
        \/ /\ DialogAfterExpiry(s, taken) = inactive[s].dialog
           /\ \A o \in taken : attempts[o].session # s
    BY DEF DialogAfterExpiry
  <2> QED BY <1>3, <1>4, <2>1 DEF InactiveSession
<1>7. UNCHANGED <<invites, projection, inbox, outbox, sent, mail, reading>>
  BY <1>1
<1>8. Expired(taken)
  BY <1>2, <1>4, <1>5, <1>6, <1>7 DEF Expired
<1> QED BY <1>8

\* Attempts expire.
LEMMA ExpiredKeeps ==
    ASSUME Inv, NEW taken, Expired(taken)
    PROVE  Inv'
<1> USE DEF Expired
<1>1. TypeOK'
  BY DEF Inv, TypeOK
<1>2. Placed'
  BY DEF Inv, Placed
<1>3. Follows'
  <2>1. ASSUME NEW q \in DOMAIN attempts', attempts'[q].status \in Awaiting
        PROVE  /\ attempts'[q].session \in DOMAIN inactive'
               /\ inactive'[attempts'[q].session].attempt = q
               /\ inactive'[attempts'[q].session].dialog = attempts'[q].status
    <3>1. q \notin taken /\ q \in DOMAIN attempts /\ attempts'[q] = attempts[q]
      BY <2>1 DEF Awaiting
    <3>2. \A o \in taken : attempts[o].session # attempts[q].session
      BY <2>1, <3>1 DEF Inv, Follows
    <3> QED BY <2>1, <3>1, <3>2 DEF Inv, Follows
  <2>2. ASSUME NEW r \in DOMAIN inactive', inactive'[r].dialog \in Awaiting
        PROVE  /\ inactive'[r].attempt \in DOMAIN attempts'
               /\ attempts'[inactive'[r].attempt].session = r
               /\ attempts'[inactive'[r].attempt].status = inactive'[r].dialog
    <3>1. inactive'[r].dialog = inactive[r].dialog /\ \A o \in taken : attempts[o].session # r
      BY <2>2 DEF Awaiting
    <3> QED BY <2>2, <3>1 DEF Inv, Follows
  <2> QED BY <2>1, <2>2 DEF Follows
<1>4. \A q \in DOMAIN attempts : attempts'[q].status # attempts[q].status
                                    => attempts'[q].status = "EXPIRED"
  OBVIOUS
<1>5. \A q \in DOMAIN attempts :
         /\ attempts'[q].session = attempts[q].session
         /\ attempts'[q].reserve = attempts[q].reserve
         /\ attempts'[q].verify = attempts[q].verify
         /\ attempts'[q].tx = attempts[q].tx
         /\ attempts[q].status = "ACTIVE" => attempts'[q].status = "ACTIVE"
  BY DEF Awaiting
<1>6. WonOnce'
  BY <1>4, <1>5 DEF Inv, WonOnce
<1>7. CommandsFiled'
  BY <1>4, <1>5 DEF Inv, CommandsFiled
<1>8. NoAnsweredCommandOpen'
  BY <1>4, <1>5 DEF Inv, NoAnsweredCommandOpen
<1>9. TokensSpent'
  BY DEF Inv, TokensSpent
<1> QED BY <1>1, <1>2, <1>3, <1>6, <1>7, <1>8, <1>9 DEF Inv

-----------------------------------------------------------------------------
(* The invariant, and what follows from it                                 *)

\* A step is one of those.
LEMMA StepKinds ==
    ASSUME Inv, Next
    PROVE  \/ \E c \in InviteCommands : RepeatCreateInvite(c)
           \/ \E p \in Pollers, u \in Users, t \in Tokens : ReadProjection(p, u, t)
           \/ \E p \in Pollers : AbandonConsume(p)
           \/ \E m \in mail : IgnoreUnexpected(m)
           \/ \E i \in DOMAIN outbox : Publish(i) \/ KillExpired(i)
           \/ \E m \in Mail : Answer(m)
           \/ \E c \in InviteCommands : CreateInvite(c)
           \/ \E t \in DOMAIN invites : InviteRunsOut(t)
           \/ \E o \in DOMAIN attempts : RunOver(o)
           \/ \E p \in Pollers, s \in SessionIDs : ConsumeInvite(p, s)
           \/ \E s \in DOMAIN inactive, o \in Ops : Began(s, o)
           \/ \E o : Moved(o) /\ (SameCommand(o) \/ NewCommand(o))
           \/ \E o : Activated(o)
           \/ \E taken : Expired(taken)
BY BeginEffect, ReservedMoves, ReserveRejectedMoves, PaymentMoves, RejectedMoves,
   ActivatedEffect, ExpiredEffect
   DEF Next, ServiceNext, HandleInviteCreate, HandleUpdate, HandleMail

\* Every step keeps the invariant.
LEMMA InvStep == Inv /\ [Next]_vars => Inv'
<1> SUFFICES ASSUME Inv, [Next]_vars PROVE Inv'
  OBVIOUS
<1>1. CASE UNCHANGED vars
  BY <1>1, FrameKeeps, FrameFacts DEF vars
<1>2. CASE Next
  BY <1>2, StepKinds, QuietKeeps, CreateInviteKeeps, InviteRunsOutKeeps, RunOverKeeps,
     ConsumeInviteKeeps, BeganKeeps, MovedKeeps, ActivatedKeeps, ExpiredKeeps
<1> QED BY <1>1, <1>2

\* Inv holds throughout.
LEMMA InvHolds == Spec => []Inv
BY InvInit, InvStep, PTL DEF Spec

\* The tables of rw-bot hold what their columns allow.
THEOREM TypeCorrect == Spec => []TypeOK
<1>1. Inv => TypeOK
  BY DEF Inv
<1> QED BY <1>1, InvHolds, PTL

\* The dialog state of a session says what its one open attempt waits for,
\* whatever order messages, expiry and new attempts come in.
THEOREM DialogCorrect == Spec => []DialogFollowsAttempt
<1>1. ASSUME Inv PROVE DialogFollowsAttempt
  <2>1. Follows
    BY <1>1 DEF Inv
  <2>2. ASSUME NEW s \in DOMAIN inactive, inactive[s].dialog \in Awaiting
        PROVE  /\ OpenAttempts(s) = {inactive[s].attempt}
               /\ attempts[inactive[s].attempt].status = inactive[s].dialog
    BY <2>1, <2>2 DEF Follows, OpenAttempts
  <2>3. ASSUME NEW s \in DOMAIN inactive, inactive[s].dialog \notin Awaiting
        PROVE  OpenAttempts(s) = {}
    BY <2>1, <2>3 DEF Follows, OpenAttempts
  <2>4. \A o \in DOMAIN attempts :
          attempts[o].status \in Awaiting => attempts[o].session \in DOMAIN inactive
    BY <2>1 DEF Follows
  <2> QED BY <2>2, <2>3, <2>4 DEF DialogFollowsAttempt
<1> QED BY <1>1, InvHolds, PTL

\* A session is active through exactly one attempt that ended ACTIVE.
THEOREM ActiveThroughOne == Spec => []ActiveThroughOneAttempt
<1>1. ASSUME Inv PROVE ActiveThroughOneAttempt
  <2> SUFFICES ASSUME NEW s \in SessionIDs
               PROVE  LET won == {o \in DOMAIN attempts :
                                     attempts[o].session = s /\ attempts[o].status = "ACTIVE"}
                      IN  /\ s \in DOMAIN projection => \E o \in won : won = {o}
                          /\ won # {} => s \in DOMAIN projection /\ s \notin DOMAIN inactive
    BY DEF ActiveThroughOneAttempt
  <2> DEFINE won == {o \in DOMAIN attempts :
                        attempts[o].session = s /\ attempts[o].status = "ACTIVE"}
  <2>1. ASSUME s \in DOMAIN projection PROVE \E o \in won : won = {o}
    <3>1. PICK o \in DOMAIN attempts : attempts[o].session = s /\ attempts[o].status = "ACTIVE"
      BY <1>1, <2>1 DEF Inv, WonOnce
    <3>2. \A q \in won : q = o
      BY <1>1, <3>1 DEF Inv, WonOnce
    <3>3. o \in won
      BY <3>1
    <3> HIDE DEF won
    <3>4. won = {o}
      BY <3>2, <3>3
    <3> QED BY <3>3, <3>4
  <2>2. ASSUME won # {} PROVE s \in DOMAIN projection /\ s \notin DOMAIN inactive
    BY <1>1, <2>2 DEF Inv, WonOnce, Placed
  <2> QED BY <2>1, <2>2
<1> QED BY <1>1, InvHolds, PTL

\* No invite is behind two sessions, however many pollers race for it.
THEOREM InvitesUsedOnce == Spec => []InviteUsedOnce
<1>1. ASSUME Inv PROVE InviteUsedOnce
  BY <1>1 DEF Inv, TokensSpent, InviteUsedOnce
<1> QED BY <1>1, InvHolds, PTL

\* A command whose answer was applied is never published again.
THEOREM NoAnsweredCommand == Spec => []NoAnsweredCommandOpen
<1>1. Inv => NoAnsweredCommandOpen
  BY DEF Inv
<1> QED BY <1>1, InvHolds, PTL

\* How an attempt ended, and the payment it rests on, never change.
THEOREM EndingsStay == Spec => EndedAttemptsStay
<1> DEFINE Stay == \A o \in DOMAIN attempts :
                      /\ o \in DOMAIN attempts'
                      /\ attempts[o].status \in Ended => attempts'[o] = attempts[o]
                      /\ attempts[o].tx # NoTx => attempts'[o].tx = attempts[o].tx
<1>1. ASSUME Inv, Next PROVE Stay
  <2>1. CASE UNCHANGED attempts
    BY <2>1
  <2>2. CASE \E s \in DOMAIN inactive, o \in Ops : Began(s, o)
    BY <2>2 DEF Began
  <2>3. CASE \E o : Moved(o) /\ (SameCommand(o) \/ NewCommand(o))
    <3>1. PICK o : Moved(o) /\ (SameCommand(o) \/ NewCommand(o))
      BY <2>3
    <3>2. /\ \A q \in DOMAIN attempts \ {o} : attempts'[q] = attempts[q]
          /\ DOMAIN attempts' = DOMAIN attempts /\ attempts[o].status \notin Ended
      BY <3>1 DEF Moved, Awaiting, Ended
    <3>3. attempts[o].tx # NoTx => attempts'[o].tx = attempts[o].tx
      BY <1>1, <3>1 DEF Moved, SameCommand, NewCommand, Inv, CommandsFiled
    <3> QED BY <3>2, <3>3
  <2>4. CASE \E o : Activated(o)
    BY <2>4 DEF Activated, Ended
  <2>5. CASE \E taken : Expired(taken)
    BY <2>5 DEF Expired, Awaiting, Ended
  <2>6. CASE \E o \in DOMAIN attempts : RunOver(o)
    <3>1. PICK o \in DOMAIN attempts : RunOver(o)
      BY <2>6
    <3>2. attempts[o] \in Attempt /\ attempts[o].status \notin Ended
      BY <1>1, <3>1 DEF RunOver, Inv, TypeOK, Awaiting, Ended
    <3>3. /\ DOMAIN attempts' = DOMAIN attempts
          /\ \A q \in DOMAIN attempts \ {o} : attempts'[q] = attempts[q]
          /\ attempts'[o] = [attempts[o] EXCEPT !.overdue = TRUE]
      BY <3>1 DEF RunOver
    <3>4. attempts'[o].tx = attempts[o].tx
      BY <3>2, <3>3 DEF Attempt
    <3> QED BY <3>2, <3>3, <3>4
  <2>7. \/ UNCHANGED attempts
        \/ \E o \in DOMAIN attempts : RunOver(o)
        \/ \E s \in DOMAIN inactive, o \in Ops : Began(s, o)
        \/ \E o : Moved(o) /\ (SameCommand(o) \/ NewCommand(o))
        \/ \E o : Activated(o)
        \/ \E taken : Expired(taken)
    BY <1>1, StepKinds DEF RepeatCreateInvite, ReadProjection, AbandonConsume,
       IgnoreUnexpected, Publish, KillExpired, Answer, Arrive, CreateInvite, InviteRunsOut,
       ConsumeInvite
  <2> QED BY <2>1, <2>2, <2>3, <2>4, <2>5, <2>6, <2>7
<1>2. ASSUME UNCHANGED vars PROVE Stay
  BY <1>2 DEF vars
<1>3. Inv /\ [Next]_vars => [Stay]_vars
  BY <1>1, <1>2
<1> QED BY <1>3, InvHolds, PTL DEF Spec, EndedAttemptsStay

-----------------------------------------------------------------------------
(* The bot implements Flow                                                 *)

\* What Flow sees of an attempt.
TryOf(a) == [session |-> a.session, paid |-> a.verify # 0, status |-> StatusOf(a.status)]

\* The mapping, row by row, before and after a step.
LEMMA Mapped ==
    /\ DOMAIN Tries = DOMAIN attempts /\ DOMAIN Tries' = DOMAIN attempts'
    /\ \A o \in DOMAIN attempts : Tries[o] = TryOf(attempts[o])
    /\ \A o \in DOMAIN attempts' : Tries'[o] = TryOf(attempts'[o])
    /\ DOMAIN Bound = DOMAIN inactive /\ DOMAIN Bound' = DOMAIN inactive'
    /\ \A s \in DOMAIN inactive : Bound[s] = Holder(inactive[s])
    /\ \A s \in DOMAIN inactive' : Bound'[s] = Holder(inactive'[s])
    /\ DOMAIN Shown = DOMAIN projection /\ DOMAIN Shown' = DOMAIN projection'
    /\ \A s \in DOMAIN projection : Shown[s] = Holder(projection[s])
    /\ \A s \in DOMAIN projection' : Shown'[s] = Holder(projection'[s])
BY DEF Tries, TryOf, Bound, Shown

\* The mapped tables are functions.
LEMMA MappedFunctions ==
    /\ Tries = [o \in DOMAIN Tries |-> Tries[o]] /\ Tries' = [o \in DOMAIN Tries' |-> Tries'[o]]
    /\ Bound = [s \in DOMAIN Bound |-> Bound[s]] /\ Bound' = [s \in DOMAIN Bound' |-> Bound'[s]]
    /\ Shown = [s \in DOMAIN Shown |-> Shown[s]] /\ Shown' = [s \in DOMAIN Shown' |-> Shown'[s]]
BY DEF Tries, Bound, Shown

\* The statuses Flow knows.
LEMMA StatusFacts ==
    /\ StatusOf("AWAITING_RESERVATION") = "OPEN"
    /\ StatusOf("AWAITING_PAYMENT") = "OPEN"
    /\ StatusOf("AWAITING_VERIFICATION") = "VERIFYING"
    /\ \A st \in Ended : StatusOf(st) = st
BY DEF StatusOf, Ended

\* An attempt is open exactly if its try is.
LEMMA OpenFacts ==
    ASSUME NEW a \in Attempt
    PROVE  /\ TryOf(a).session = a.session
           /\ TryOf(a).status = StatusOf(a.status)
           /\ a.status \in Awaiting <=> TryOf(a).status \in F!Open
<1>1. TryOf(a).session = a.session /\ TryOf(a).status = StatusOf(a.status)
  BY DEF TryOf
<1>2. a.status \in Awaiting \cup Ended
  BY DEF Attempt
<1> QED BY <1>1, <1>2, StatusFacts DEF F!Open, Awaiting, Ended

\* The rows Flow keeps.
TryRow == [session : SessionIDs, paid : BOOLEAN,
           status : F!Open \cup {"ACTIVE", "REJECTED", "EXPIRED"}]

\* Rows with the same fields are the same.
LEMMA SameRow ==
    ASSUME NEW r \in TryRow, NEW q \in TryRow,
           r.session = q.session, r.paid = q.paid, r.status = q.status
    PROVE  r = q
BY DEF TryRow

\* An attempt is mapped to such a row.
LEMMA TryOfRow ==
    ASSUME NEW a \in Attempt
    PROVE  TryOf(a) \in TryRow
<1>1. StatusOf(a.status) \in F!Open \cup {"ACTIVE", "REJECTED", "EXPIRED"}
  <2>1. a.status \in Awaiting \cup Ended
    BY DEF Attempt
  <2> QED BY <2>1, StatusFacts DEF F!Open, Awaiting, Ended
<1>2. a.session \in SessionIDs
  BY DEF Attempt
<1> QED BY <1>1, <1>2 DEF TryOf, TryRow

\* Attempts that agree on what Flow sees are the same try.
LEMMA SameTry ==
    ASSUME NEW a, NEW b, a.session = b.session, a.verify = b.verify,
           StatusOf(a.status) = StatusOf(b.status)
    PROVE  TryOf(a) = TryOf(b)
BY DEF TryOf

\* Flow starts where the bot does.
LEMMA FlowInit == Init => F!Init
BY DEF Init, F!Init, Bound, Tries, Shown, Asked, Heard, EmptyTable, F!EmptyTable

\* Steps Flow does not see.
LEMMA QuietFlow ==
    ASSUME UNCHANGED <<inactive, attempts, projection, sent, mail>>
    PROVE  UNCHANGED F!vars
BY DEF F!vars, Bound, Tries, Shown, Asked, Heard

\* Publication of a verify command is Flow's question to the authority.
LEMMA PublishFlow ==
    ASSUME Inv, NEW i \in DOMAIN outbox, Publish(i)
    PROVE  [F!Next]_F!vars
<1>1. sent' = sent \cup {i} /\ UNCHANGED <<inactive, attempts, projection, mail>>
  BY DEF Publish
<1>2. UNCHANGED <<Bound, Tries, Shown, Heard>>
  BY <1>1 DEF Bound, Tries, Shown, Heard
<1>3. CASE \A o \in DOMAIN attempts : attempts[o].verify # i
  <2>1. Asked' = Asked
    BY <1>1, <1>3 DEF Asked
  <2> QED BY <1>2, <2>1 DEF F!vars
<1>4. ASSUME NEW o \in DOMAIN attempts, attempts[o].verify = i
      PROVE  F!Next
  <2>1. i # 0 /\ o \in Ops
    BY DEF Inv, TypeOK
  <2>2. \A q \in DOMAIN attempts : attempts[q].verify = i => q = o
    BY <1>4, <2>1 DEF Inv, CommandsFiled
  <2>3. Asked' = Asked \cup {o}
    BY <1>1, <1>4, <2>2 DEF Asked
  <2>4. Tries[o].paid = TRUE
    <3>1. (attempts[o].verify # 0) = TRUE
      BY <1>4, <2>1
    <3>2. TryOf(attempts[o]) = [session |-> attempts[o].session, paid |-> TRUE,
                                status |-> StatusOf(attempts[o].status)]
      BY <3>1 DEF TryOf
    <3> QED BY <3>2, Mapped
  <2>5. F!Ask(o)
    BY <1>2, <2>3, <2>4, Mapped DEF F!Ask
  <2> QED BY <2>1, <2>5 DEF F!Next, F!Steps, F!Try
<1> QED BY <1>3, <1>4

\* The authority's answer is Flow's result.
LEMMA AnswerFlow ==
    ASSUME Inv, NEW m \in Mail, Answer(m)
    PROVE  [F!Next]_F!vars
<1>1. /\ m.op \in DOMAIN attempts /\ m \notin mail /\ mail' = mail \cup {m}
      /\ UNCHANGED <<inactive, attempts, projection, sent>>
      /\ TopupSays(m) \/ AuthoritySays(m)
  BY DEF Answer, Arrive
<1>2. UNCHANGED <<Bound, Tries, Shown, Asked>>
  BY <1>1 DEF Bound, Tries, Shown, Asked
<1>3. CASE m.kind \notin {"activated", "rejected"}
  <2>1. Heard' = Heard
    BY <1>1, <1>3 DEF Heard
  <2> QED BY <1>2, <2>1 DEF F!vars
<1>4. CASE m.kind \in {"activated", "rejected"}
  <2>1. AuthoritySays(m)
    BY <1>1, <1>4 DEF TopupSays
  <2>2. m.op \in Asked
    BY <1>1, <2>1 DEF AuthoritySays, Asked
  <2>3. \A r : <<m.op, r>> \notin Heard
    BY <2>1 DEF AuthoritySays, Heard
  <2>4. Heard' = Heard \cup {<<m.op, m.kind>>}
    <3>1. {n \in mail' : n.kind \in {"activated", "rejected"}}
             = {n \in mail : n.kind \in {"activated", "rejected"}} \cup {m}
      BY <1>1, <1>4
    <3> QED BY <3>1 DEF Heard
  <2>5. F!Hear(m.op, m.kind)
    BY <1>2, <2>2, <2>3, <2>4 DEF F!Hear
  <2>6. m.op \in Ops /\ m.kind \in F!Results
    BY <1>1, <1>4 DEF Inv, TypeOK, F!Results
  <2> QED BY <2>5, <2>6 DEF F!Next
<1> QED BY <1>3, <1>4

\* Time passing for an attempt is nothing to Flow.
LEMMA RunOverFlow ==
    ASSUME Inv, NEW o \in DOMAIN attempts, RunOver(o)
    PROVE  UNCHANGED F!vars
<1>1. attempts[o] \in Attempt /\ attempts' = [attempts EXCEPT ![o].overdue = TRUE]
  BY DEF RunOver, Inv, TypeOK
<1>2. /\ DOMAIN attempts' = DOMAIN attempts
      /\ \A q \in DOMAIN attempts : q # o => attempts'[q] = attempts[q]
      /\ attempts'[o] = [attempts[o] EXCEPT !.overdue = TRUE]
  BY <1>1 DEF Attempt
<1>3. \A q \in DOMAIN attempts : /\ attempts'[q].session = attempts[q].session
                                 /\ attempts'[q].verify = attempts[q].verify
                                 /\ attempts'[q].status = attempts[q].status
  BY <1>1, <1>2 DEF Attempt
<1>4. \A q \in DOMAIN attempts : TryOf(attempts'[q]) = TryOf(attempts[q])
  BY <1>3 DEF TryOf
<1>5. UNCHANGED Tries
  <2>1. DOMAIN Tries' = DOMAIN Tries /\ \A q \in DOMAIN Tries : Tries'[q] = Tries[q]
    BY <1>2, <1>4, Mapped
  <2> QED BY <2>1, MappedFunctions
<1>6. UNCHANGED <<Bound, Shown, Asked, Heard>>
  BY <1>2, <1>3 DEF RunOver, Bound, Shown, Asked, Heard
<1> QED BY <1>5, <1>6 DEF F!vars

\* Binding.
LEMMA ConsumeFlow ==
    ASSUME Inv, NEW p \in Pollers, NEW s \in SessionIDs, ConsumeInvite(p, s)
    PROVE  F!Next
<1> DEFINE u == reading[p].user
           t == reading[p].token
           bal == invites[t].balance
           row == [user |-> u, balance |-> bal, token |-> t,
                   dialog |-> "AWAITING_WALLET", attempt |-> NoAttempt]
<1>1. /\ u \in Users /\ bal \in Balances /\ ~IsBound(u)
      /\ s \notin DOMAIN inactive /\ s \notin DOMAIN projection
  BY ReadingFacts DEF ConsumeInvite, InviteUsable, Inv, TypeOK, Invite
<1>2. inactive' = Put(inactive, s, row) /\ Holder(row) = [user |-> u, balance |-> bal]
  BY DEF ConsumeInvite, Holder
<1> HIDE DEF row
<1>3. /\ DOMAIN inactive' = DOMAIN inactive \cup {s}
      /\ inactive'[s] = row
      /\ \A r \in DOMAIN inactive : inactive'[r] = inactive[r]
  BY <1>1, <1>2 DEF Put
<1> HIDE DEF u, bal
<1>4. Bound' = F!Put(Bound, s, [user |-> u, balance |-> bal])
  <2>1. /\ DOMAIN Bound' = DOMAIN Bound \cup {s}
        /\ Bound'[s] = [user |-> u, balance |-> bal]
        /\ \A r \in DOMAIN Bound : Bound'[r] = Bound[r]
    BY <1>2, <1>3, Mapped
  <2>2. s \notin DOMAIN Bound
    BY <1>1, Mapped
  <2> QED BY <2>1, <2>2, MappedFunctions DEF F!Put
<1>5. \A r \in DOMAIN Bound : Bound[r].user # u
  BY <1>1, Mapped DEF IsBound, Holder
<1>6. UNCHANGED <<Tries, Shown, Asked, Heard>>
  BY DEF ConsumeInvite, Tries, Shown, Asked, Heard
<1>7. F!Bind(u, bal, s)
  BY <1>1, <1>4, <1>5, <1>6, Mapped DEF F!Bind
<1> QED BY <1>1, <1>7 DEF F!Next, F!Steps

\* The session of a step that changes nothing but dialog and attempt.
LEMMA BoundKept ==
    ASSUME DOMAIN inactive' = DOMAIN inactive,
           \A s \in DOMAIN inactive : /\ inactive'[s].user = inactive[s].user
                                      /\ inactive'[s].balance = inactive[s].balance
    PROVE  UNCHANGED Bound
<1>1. \A s \in DOMAIN inactive : Holder(inactive'[s]) = Holder(inactive[s])
  BY DEF Holder
<1>2. DOMAIN Bound' = DOMAIN Bound /\ \A s \in DOMAIN Bound : Bound'[s] = Bound[s]
  BY <1>1, Mapped
<1> QED BY <1>2, MappedFunctions

\* Nothing is asked without its verify command, and no new one is out.
LEMMA AskedKept ==
    ASSUME Inv, UNCHANGED sent, DOMAIN attempts \subseteq DOMAIN attempts',
           \A o \in DOMAIN attempts :
              attempts'[o].verify = attempts[o].verify \/ attempts[o].verify = 0,
           \A o \in DOMAIN attempts' :
              \/ o \in DOMAIN attempts /\ attempts'[o].verify = attempts[o].verify
              \/ attempts'[o].verify \notin DOMAIN outbox
    PROVE  UNCHANGED Asked
<1>1. sent \subseteq DOMAIN outbox /\ 0 \notin sent
  BY DEF Inv, TypeOK, CommandsFiled
<1>2. \A o : o \in Asked => o \in Asked'
  BY <1>1 DEF Asked
<1>3. \A o : o \in Asked' => o \in Asked
  BY <1>1 DEF Asked
<1> QED BY <1>2, <1>3

\* The start of an attempt.
LEMMA BeganFlow ==
    ASSUME Inv, NEW s \in DOMAIN inactive, NEW o \in Ops, Began(s, o)
    PROVE  F!Next
<1>1. UNCHANGED Bound
  BY BoundKept DEF Began
<1>2. UNCHANGED Asked
  <2>1. 0 \notin DOMAIN outbox
    BY DEF Inv, TypeOK
  <2> QED BY <2>1, AskedKept DEF Began
<1>3. UNCHANGED <<Shown, Heard>>
  BY DEF Began, Shown, Heard
<1>4. /\ DOMAIN Tries' = DOMAIN Tries \cup {o} /\ o \notin DOMAIN Tries
      /\ \A q \in DOMAIN Tries : Tries'[q] = Tries[q]
      /\ Tries'[o] = TryOf(attempts'[o])
  BY Mapped DEF Began
<1>5. TryOf(attempts'[o]) = [session |-> s, paid |-> FALSE, status |-> "OPEN"]
  <2>1. (attempts'[o].verify # 0) = FALSE
    BY DEF Began
  <2>2. StatusOf(attempts'[o].status) = "OPEN" /\ attempts'[o].session = s
    BY StatusFacts DEF Began
  <2> QED BY <2>1, <2>2 DEF TryOf
<1>6. Tries' = F!Put(Tries, o, [session |-> s, paid |-> FALSE, status |-> "OPEN"])
  BY <1>4, <1>5, MappedFunctions DEF F!Put
<1>7. \A q \in DOMAIN Tries : Tries[q].session = s => Tries[q].status \notin F!Open
  <2> SUFFICES ASSUME NEW q \in DOMAIN attempts, Tries[q].session = s
               PROVE  Tries[q].status \notin F!Open
    BY Mapped
  <2>1. attempts[q] \in Attempt /\ Tries[q] = TryOf(attempts[q])
    BY Mapped DEF Inv, TypeOK
  <2>2. attempts[q].session = s
    BY <2>1, OpenFacts
  <2>3. attempts[q].status \notin Awaiting
    BY <2>2 DEF Inv, Follows, Began
  <2> QED BY <2>1, <2>3, OpenFacts
<1>8. F!Begin(s, o)
  BY <1>1, <1>2, <1>3, <1>4, <1>6, <1>7, Mapped DEF F!Begin
<1>9. s \in SessionIDs
  BY DEF Inv, TypeOK
<1> QED BY <1>8, <1>9 DEF F!Next, F!Steps

\* An attempt that moves on: an offer is nothing to Flow, a payment and a
\* refusal are its own.
LEMMA MovedFlow ==
    ASSUME Inv, NEW o, Moved(o), SameCommand(o) \/ NewCommand(o)
    PROVE  [F!Next]_F!vars
<1>1. UNCHANGED Bound
  <2>1. \A s \in DOMAIN inactive : /\ inactive'[s].user = inactive[s].user
                                   /\ inactive'[s].balance = inactive[s].balance
    BY DEF Moved
  <2> QED BY <2>1, BoundKept DEF Moved
<1>2. UNCHANGED <<Shown, Heard>>
  BY DEF Moved, Shown, Heard
<1>3. UNCHANGED Asked
  <2>1. Len(outbox') = Len(outbox) + 1 => Len(outbox') \notin DOMAIN outbox
    BY DEF Inv, TypeOK
  <2>2. /\ DOMAIN attempts' = DOMAIN attempts /\ UNCHANGED sent
        /\ \A q \in DOMAIN attempts \ {o} : attempts'[q].verify = attempts[q].verify
    BY DEF Moved
  <2>3. attempts'[o].verify = attempts[o].verify \/ attempts[o].verify = 0
    BY DEF Moved, SameCommand, NewCommand, Inv, CommandsFiled
  <2>4. attempts'[o].verify = attempts[o].verify \/ attempts'[o].verify \notin DOMAIN outbox
    BY <2>1 DEF SameCommand, NewCommand
  <2> QED BY <2>2, <2>3, <2>4, AskedKept
<1>4. /\ o \in DOMAIN Tries /\ DOMAIN Tries' = DOMAIN Tries
      /\ \A q \in DOMAIN Tries \ {o} : Tries'[q] = Tries[q]
      /\ Tries[o] = TryOf(attempts[o]) /\ Tries'[o] = TryOf(attempts'[o])
      /\ o \in Ops
  BY Mapped DEF Moved, Inv, TypeOK
<1>5. attempts'[o].session = attempts[o].session
  BY DEF Moved
<1>6. CASE SameCommand(o) /\ attempts'[o].status = "AWAITING_PAYMENT"
  <2>1. TryOf(attempts'[o]) = TryOf(attempts[o])
    BY <1>5, <1>6, StatusFacts, SameTry DEF SameCommand
  <2>2. UNCHANGED Tries
    BY <1>4, <2>1, MappedFunctions
  <2> QED BY <1>1, <1>2, <1>3, <2>2 DEF F!vars
<1>7. CASE SameCommand(o) /\ attempts'[o].status = "REJECTED"
  <2>1. TryOf(attempts'[o]) = [TryOf(attempts[o]) EXCEPT !.status = "REJECTED"]
    <3>1. StatusOf(attempts'[o].status) = "REJECTED"
      BY <1>7, StatusFacts DEF Ended
    <3>2. attempts'[o].verify = attempts[o].verify
      BY <1>7 DEF SameCommand
    <3> QED BY <1>5, <3>1, <3>2 DEF TryOf
  <2>2. Tries' = [Tries EXCEPT ![o].status = "REJECTED"]
    BY <1>4, <2>1, MappedFunctions
  <2>3. Tries[o].status = "OPEN" \/ F!Awaits(o, "rejected")
    <3>1. Tries[o].status = StatusOf(attempts[o].status)
      BY <1>4 DEF TryOf
    <3> QED BY <1>7, <3>1, StatusFacts DEF SameCommand, Moved, Awaiting, F!Awaits
  <2>4. F!Reject(o)
    BY <1>1, <1>2, <1>3, <1>4, <2>2, <2>3 DEF F!Reject
  <2> QED BY <1>4, <2>4 DEF F!Next, F!Steps, F!Try
<1>8. CASE NewCommand(o)
  <2>1. TryOf(attempts'[o]) = [TryOf(attempts[o]) EXCEPT !.status = "VERIFYING", !.paid = TRUE]
    <3>1. StatusOf(attempts'[o].status) = "VERIFYING"
      BY <1>8, StatusFacts DEF NewCommand
    <3>2. (attempts'[o].verify # 0) = TRUE
      BY <1>8 DEF NewCommand, Inv, TypeOK
    <3>3. TryOf(attempts'[o]) = [session |-> attempts[o].session, paid |-> TRUE,
                                 status |-> "VERIFYING"]
      BY <1>5, <3>1, <3>2 DEF TryOf
    <3>4. TryOf(attempts[o]) \in TryRow /\ TryOf(attempts[o]).session = attempts[o].session
      BY TryOfRow, OpenFacts DEF Moved, Inv, TypeOK
    <3> DEFINE new == [TryOf(attempts[o]) EXCEPT !.status = "VERIFYING", !.paid = TRUE]
               row == [session |-> attempts[o].session, paid |-> TRUE, status |-> "VERIFYING"]
    <3>5. new \in TryRow /\ new.session = attempts[o].session /\ new.status = "VERIFYING"
      BY <3>4 DEF TryRow, F!Open
    <3>6. new.paid = TRUE
      BY <3>4 DEF TryRow
    <3>7. row \in TryRow /\ row.session = attempts[o].session /\ row.status = "VERIFYING"
      BY <3>4 DEF TryRow, F!Open
    <3>8. row.paid = TRUE
      OBVIOUS
    <3> HIDE DEF new, row
    <3>9. new = row
      BY <3>5, <3>6, <3>7, <3>8, SameRow
    <3> QED BY <3>3, <3>9 DEF new, row
  <2>2. Tries' = [Tries EXCEPT ![o].status = "VERIFYING", ![o].paid = TRUE]
    <3>1. [Tries EXCEPT ![o] = [Tries[o] EXCEPT !.status = "VERIFYING", !.paid = TRUE]]
             = [Tries EXCEPT ![o].status = "VERIFYING", ![o].paid = TRUE]
      BY <1>4, MappedFunctions
    <3> QED BY <1>4, <2>1, <3>1, MappedFunctions
  <2>3. Tries[o].status = "OPEN"
    BY <1>4, <1>8, StatusFacts DEF TryOf, NewCommand
  <2>4. F!Pay(o)
    BY <1>1, <1>2, <1>3, <1>4, <2>2, <2>3 DEF F!Pay
  <2> QED BY <1>4, <2>4 DEF F!Next, F!Steps, F!Try
<1> QED BY <1>6, <1>7, <1>8 DEF SameCommand

\* Activation.
LEMMA ActivatedFlow ==
    ASSUME Inv, NEW o, Activated(o)
    PROVE  F!Next
<1> DEFINE s == attempts[o].session
<1>1. /\ o \in DOMAIN Tries /\ o \in Ops /\ DOMAIN Tries' = DOMAIN Tries
      /\ \A q \in DOMAIN Tries \ {o} : Tries'[q] = Tries[q]
      /\ Tries[o] = TryOf(attempts[o]) /\ Tries'[o] = TryOf(attempts'[o])
  BY Mapped DEF Activated, Inv, TypeOK
<1>2. Tries[o].session = s /\ Tries[o].status = "VERIFYING"
  BY <1>1, StatusFacts DEF TryOf, Activated
<1>3. TryOf(attempts'[o]) = [TryOf(attempts[o]) EXCEPT !.status = "ACTIVE"]
  <2>1. /\ StatusOf(attempts'[o].status) = "ACTIVE"
        /\ attempts'[o].verify = attempts[o].verify
        /\ attempts'[o].session = attempts[o].session
    BY StatusFacts DEF Activated, Ended
  <2> QED BY <2>1 DEF TryOf
<1>4. Tries' = [Tries EXCEPT ![o].status = "ACTIVE"]
  BY <1>1, <1>3, MappedFunctions
<1>5. F!Awaits(o, "activated")
  BY <1>2 DEF Activated, F!Awaits
<1>6. s \in DOMAIN Bound /\ s \notin DOMAIN Shown
  BY Mapped DEF Activated
<1>7. F!Applicable(s)
  <2>1. \A r \in DOMAIN projection : projection[r].user # inactive[s].user
    BY DEF Activated
  <2> QED BY <1>6, <2>1, Mapped DEF F!Applicable, Holder
<1>8. Shown' = F!Put(Shown, s, Bound[s])
  <2>1. Holder(projection'[s]) = Holder(inactive[s])
    BY DEF Holder, Activated
  <2>2. /\ DOMAIN Shown' = DOMAIN Shown \cup {s}
        /\ Shown'[s] = Bound[s]
        /\ \A r \in DOMAIN Shown : Shown'[r] = Shown[r]
    BY <1>6, <2>1, Mapped DEF Activated
  <2> QED BY <1>6, <2>2, MappedFunctions DEF F!Put
<1>9. Bound' = F!Drop(Bound, s)
  <2>1. DOMAIN Bound' = DOMAIN Bound \ {s} /\ \A r \in DOMAIN Bound' : Bound'[r] = Bound[r]
    BY Mapped DEF Activated
  <2> QED BY <2>1, MappedFunctions DEF F!Drop
<1>10. UNCHANGED <<Asked, Heard>>
  <2>1. \A q \in DOMAIN attempts : attempts'[q].verify = attempts[q].verify
    BY DEF Activated
  <2>2. UNCHANGED Asked
    BY <2>1, AskedKept DEF Activated
  <2> QED BY <2>2 DEF Activated, Heard
<1>11. F!Activate(o)
  BY <1>1, <1>2, <1>4, <1>5, <1>6, <1>7, <1>8, <1>9, <1>10 DEF F!Activate
<1> QED BY <1>1, <1>11 DEF F!Next, F!Steps, F!Try

\* Expiry.
LEMMA ExpiredFlow ==
    ASSUME Inv, NEW taken, Expired(taken)
    PROVE  F!Next
<1>1. UNCHANGED Bound
  BY BoundKept DEF Expired
<1>2. UNCHANGED <<Shown, Asked, Heard>>
  <2>1. \A q \in DOMAIN attempts : attempts'[q].verify = attempts[q].verify
    BY DEF Expired
  <2>2. UNCHANGED Asked
    BY <2>1, AskedKept DEF Expired
  <2> QED BY <2>2 DEF Expired, Shown, Heard
<1>3. \A o \in taken : o \in DOMAIN Tries /\ Tries[o].status \in F!Open
  <2> SUFFICES ASSUME NEW o \in taken PROVE o \in DOMAIN Tries /\ Tries[o].status \in F!Open
    OBVIOUS
  <2>1. o \in DOMAIN attempts /\ attempts[o] \in Attempt /\ attempts[o].status \in Awaiting
    BY DEF Expired, Inv, TypeOK
  <2> QED BY <2>1, OpenFacts, Mapped
<1>4. /\ DOMAIN Tries' = DOMAIN Tries
      /\ \A q \in DOMAIN Tries \ taken : Tries'[q] = Tries[q]
  BY Mapped DEF Expired
<1>5. ASSUME NEW o \in taken
      PROVE  Tries'[o] = [Tries[o] EXCEPT !.status = "EXPIRED"]
  <2>1. /\ StatusOf(attempts'[o].status) = "EXPIRED"
        /\ attempts'[o].verify = attempts[o].verify
        /\ attempts'[o].session = attempts[o].session
        /\ o \in DOMAIN attempts /\ o \in DOMAIN attempts'
    BY StatusFacts DEF Expired, Ended
  <2>2. TryOf(attempts'[o]) = [TryOf(attempts[o]) EXCEPT !.status = "EXPIRED"]
    BY <2>1 DEF TryOf
  <2> QED BY <2>1, <2>2, Mapped
<1>6. Tries' = [o \in DOMAIN Tries |->
                  IF o \in taken THEN [Tries[o] EXCEPT !.status = "EXPIRED"] ELSE Tries[o]]
  BY <1>4, <1>5, MappedFunctions
<1>7. taken # {} /\ taken \in SUBSET Ops
  BY DEF Expired, Inv, TypeOK
<1>8. F!Expire(taken)
  BY <1>1, <1>2, <1>3, <1>6, <1>7 DEF F!Expire
<1> QED BY <1>7, <1>8 DEF F!Next, F!Steps

\* Every step of the bot is a step of Flow, or nothing to it.
LEMMA FlowStep == Inv /\ [Next]_vars => [F!Next]_F!vars
<1> SUFFICES ASSUME Inv, [Next]_vars PROVE [F!Next]_F!vars
  OBVIOUS
<1>1. CASE UNCHANGED <<inactive, attempts, projection, sent, mail>>
  BY <1>1, QuietFlow
<1>2. CASE Next
  <2>1. \/ UNCHANGED <<inactive, attempts, projection, sent, mail>>
        \/ \E i \in DOMAIN outbox : Publish(i)
        \/ \E m \in Mail : Answer(m)
        \/ \E o \in DOMAIN attempts : RunOver(o)
        \/ \E p \in Pollers, s \in SessionIDs : ConsumeInvite(p, s)
        \/ \E s \in DOMAIN inactive, o \in Ops : Began(s, o)
        \/ \E o : Moved(o) /\ (SameCommand(o) \/ NewCommand(o))
        \/ \E o : Activated(o)
        \/ \E taken : Expired(taken)
    BY <1>2, StepKinds DEF RepeatCreateInvite, ReadProjection, AbandonConsume,
       IgnoreUnexpected, KillExpired, CreateInvite, InviteRunsOut
  <2> QED BY <2>1, <1>1, PublishFlow, AnswerFlow, RunOverFlow, ConsumeFlow, BeganFlow,
             MovedFlow, ActivatedFlow, ExpiredFlow
<1> QED BY <1>1, <1>2 DEF vars

\* rw-bot implements the front end that module Flow describes.
THEOREM FlowImplemented == Spec => ImplementsFlow
<1>1. Init => F!Init
  BY FlowInit
<1>2. Inv /\ [Next]_vars => [F!Next]_F!vars
  BY FlowStep
<1> QED BY <1>1, <1>2, InvHolds, PTL DEF Spec, ImplementsFlow, F!Spec

=============================================================================

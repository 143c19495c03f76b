-------------------------- MODULE ActivationProofs --------------------------
(***************************************************************************)
(* What holds of rw-bot and rw-active-sessions together for any number of  *)
(* users, sessions, balances and operations.                               *)
(***************************************************************************)
EXTENDS Activation, TLAPS

Closed == {"VERIFIED", "REJECTED", "EXPIRED"}

TryRow == [session : SessionIDs, paid : BOOLEAN,
           status : Open \cup {"ACTIVE", "REJECTED", "EXPIRED"}]

-----------------------------------------------------------------------------
(* The tables of the bot                                                   *)

\* A session is in one table; tries are about sessions in one of them, and
\* the open ones about inactive sessions.
Placed ==
    /\ \A s \in SessionIDs : ~(s \in DOMAIN bound /\ s \in DOMAIN shown)
    /\ \A o \in DOMAIN tries : tries[o].session \in DOMAIN bound \cup DOMAIN shown
    /\ \A o \in DOMAIN tries : tries[o].status \in Open => tries[o].session \in DOMAIN bound

\* A session has one open try.
OneOpen ==
    \A o, q \in DOMAIN tries :
        tries[o].status \in Open /\ tries[q].status \in Open
            /\ tries[o].session = tries[q].session => o = q

\* What was paid is not OPEN, what waits for a verdict or is ACTIVE was paid,
\* and nothing else is asked.
PaidFirst ==
    /\ \A o \in DOMAIN tries :
          /\ tries[o].status = "OPEN" => tries[o].paid = FALSE
          /\ tries[o].status \in {"VERIFYING", "ACTIVE"} => tries[o].paid = TRUE
    /\ \A o \in asked : o \in DOMAIN tries /\ tries[o].paid = TRUE

BotInv == TypeOK /\ Placed /\ OneOpen /\ PaidFirst

\* The bot starts with empty tables.
LEMMA BotInit == Init => BotInv
BY DEF Init, BotInv, TypeOK, Placed, OneOpen, PaidFirst, EmptyTable

\* What no step of the bot does: forget a try or a session, or change whom
\* it concerns.
Kept ==
    /\ \A o \in DOMAIN tries : /\ o \in DOMAIN tries'
                               /\ tries'[o].session = tries[o].session
                               /\ tries[o].paid = TRUE => tries'[o].paid = TRUE
    /\ \A s \in DOMAIN bound \cup DOMAIN shown :
          /\ s \in DOMAIN bound' \cup DOMAIN shown'
          /\ Row(s)' = Row(s)
    /\ asked \subseteq asked'

\* A step that binds a session.
LEMMA BindKeeps ==
    ASSUME BotInv, NEW u \in Users, NEW b \in Balances, NEW s \in SessionIDs, Bind(u, b, s)
    PROVE  BotInv' /\ Kept
<1> USE DEF BotInv, Bind, Put
<1>1. TypeOK'
  BY DEF TypeOK
<1>2. Placed' /\ OneOpen' /\ PaidFirst'
  BY DEF TypeOK, Placed, OneOpen, PaidFirst
<1>3. Kept
  BY DEF Kept, Row, TypeOK, Placed
<1> QED BY <1>1, <1>2, <1>3

\* A step that begins a try.
LEMMA BeginKeeps ==
    ASSUME BotInv, NEW s \in SessionIDs, NEW o \in Ops, Begin(s, o)
    PROVE  BotInv' /\ Kept
<1> USE DEF BotInv, Begin, Put
<1>1. TypeOK'
  BY DEF TypeOK, Open
<1>2. Placed'
  BY DEF TypeOK, Placed
<1>3. OneOpen'
  BY DEF OneOpen, Open
<1>4. PaidFirst'
  BY DEF PaidFirst
<1>5. Kept
  BY DEF Kept, Row
<1> QED BY <1>1, <1>2, <1>3, <1>4, <1>5

\* What Pay, Reject and Expire have in common: some open tries get another
\* status, and may be paid.
Moved(os) ==
    /\ os \subseteq DOMAIN tries
    /\ DOMAIN tries' = DOMAIN tries
    /\ \A o \in DOMAIN tries \ os : tries'[o] = tries[o]
    /\ \A o \in os :
          /\ tries'[o] \in TryRow
          /\ tries[o].status \in Open
          /\ tries'[o].session = tries[o].session
          /\ tries'[o].status \in {"VERIFYING", "REJECTED", "EXPIRED"}
    /\ \A o \in os : tries[o].paid = TRUE => tries'[o].paid = TRUE
    /\ \A o \in os : tries'[o].status = "VERIFYING" => tries'[o].paid = TRUE
    /\ UNCHANGED <<bound, shown, asked>>
    /\ heard' \subseteq Ops \X Results

\* Such a step keeps everything.
LEMMA MovedKeeps ==
    ASSUME BotInv, NEW os, Moved(os)
    PROVE  BotInv' /\ Kept
<1> USE DEF BotInv, Moved
<1>1. TypeOK'
  BY DEF TypeOK, TryRow
<1>2. Placed'
  BY DEF Placed
<1>3. OneOpen'
  BY DEF OneOpen
<1>4. PaidFirst'
  BY DEF PaidFirst
<1>5. Kept
  BY DEF Kept, Row
<1> QED BY <1>1, <1>2, <1>3, <1>4, <1>5

\* Payment.
LEMMA PayKeeps ==
    ASSUME BotInv, NEW o \in Ops, Pay(o)
    PROVE  BotInv' /\ Kept
<1>1. o \in DOMAIN tries /\ tries[o] \in TryRow /\ tries[o].status = "OPEN"
  BY DEF BotInv, TypeOK, TryRow, Pay
<1>2. tries' = [tries EXCEPT ![o].status = "VERIFYING", ![o].paid = TRUE]
  BY DEF Pay
<1>3. /\ DOMAIN tries' = DOMAIN tries
      /\ \A q \in DOMAIN tries \ {o} : tries'[q] = tries[q]
      /\ tries'[o] \in TryRow
      /\ tries'[o].session = tries[o].session /\ tries'[o].status = "VERIFYING"
  BY <1>1, <1>2 DEF TryRow, Open
<1>4. tries'[o].paid = TRUE
  BY <1>1, <1>2 DEF TryRow
<1>5. /\ UNCHANGED <<bound, shown, asked>>
      /\ heard' \subseteq Ops \X Results
  BY DEF Pay, BotInv, TypeOK
<1>6. Moved({o})
  BY <1>1, <1>3, <1>4, <1>5 DEF Moved, Open
<1> QED BY <1>6, MovedKeeps

\* Refusal.
LEMMA RejectKeeps ==
    ASSUME BotInv, NEW o \in Ops, Reject(o)
    PROVE  BotInv' /\ Kept
<1>1. o \in DOMAIN tries /\ tries[o] \in TryRow /\ tries[o].status \in Open
  BY DEF BotInv, TypeOK, TryRow, Reject, Awaits, Open
<1>2. tries' = [tries EXCEPT ![o].status = "REJECTED"]
  BY DEF Reject
<1>3. /\ DOMAIN tries' = DOMAIN tries
      /\ \A q \in DOMAIN tries \ {o} : tries'[q] = tries[q]
      /\ tries'[o] \in TryRow
      /\ tries'[o].session = tries[o].session /\ tries'[o].status = "REJECTED"
  BY <1>1, <1>2 DEF TryRow
<1>4. tries'[o].paid = tries[o].paid
  BY <1>1, <1>2 DEF TryRow
<1>5. /\ UNCHANGED <<bound, shown, asked>>
      /\ heard' \subseteq Ops \X Results
  BY DEF Reject, BotInv, TypeOK
<1>6. Moved({o})
  BY <1>1, <1>3, <1>4, <1>5 DEF Moved
<1> QED BY <1>6, MovedKeeps

\* Expiry of any number of tries.
LEMMA ExpireKeeps ==
    ASSUME BotInv, NEW os \in SUBSET Ops, Expire(os)
    PROVE  BotInv' /\ Kept
<1>1. \A o \in os : o \in DOMAIN tries /\ tries[o].status \in Open /\ tries[o] \in TryRow
  BY DEF BotInv, TypeOK, TryRow, Expire
<1>2. tries' = [o \in DOMAIN tries |->
          IF o \in os THEN [tries[o] EXCEPT !.status = "EXPIRED"] ELSE tries[o]]
  BY DEF Expire
<1>3. /\ DOMAIN tries' = DOMAIN tries
      /\ \A q \in DOMAIN tries \ os : tries'[q] = tries[q]
      /\ \A o \in os :
            /\ tries'[o] \in TryRow
            /\ tries'[o].session = tries[o].session /\ tries'[o].status = "EXPIRED"
  BY <1>1, <1>2 DEF TryRow
<1>4. \A o \in os : tries'[o].paid = tries[o].paid
  BY <1>1, <1>2 DEF TryRow
<1>5. /\ UNCHANGED <<bound, shown, asked>>
      /\ heard' \subseteq Ops \X Results
  BY DEF Expire, BotInv, TypeOK
<1>6. Moved(os)
  BY <1>1, <1>3, <1>4, <1>5 DEF Moved
<1> QED BY <1>6, MovedKeeps

\* The verify command goes out.
LEMMA AskKeeps ==
    ASSUME BotInv, NEW o \in Ops, Ask(o)
    PROVE  BotInv' /\ Kept
<1> USE DEF BotInv, Ask
<1>1. TypeOK'
  BY DEF TypeOK
<1>2. Placed' /\ OneOpen'
  BY DEF Placed, OneOpen
<1>3. PaidFirst'
  <2>1. tries[o].paid = TRUE
    BY DEF TypeOK
  <2> QED BY <2>1 DEF PaidFirst
<1>4. Kept
  BY DEF Kept, Row
<1> QED BY <1>1, <1>2, <1>3, <1>4

\* Activation moves a session from one table to the other and ends its one
\* open try.
LEMMA ActivateKeeps ==
    ASSUME BotInv, NEW o \in Ops, Activate(o)
    PROVE  BotInv' /\ Kept
<1> DEFINE s == tries[o].session
<1>1. tries[o] \in TryRow
  BY DEF BotInv, TypeOK, TryRow, Activate
<1>2. /\ o \in DOMAIN tries /\ tries[o].status = "VERIFYING" /\ s \in DOMAIN bound
      /\ tries' = [tries EXCEPT ![o].status = "ACTIVE"]
      /\ shown' = Put(shown, s, bound[s])
      /\ bound' = Drop(bound, s)
      /\ UNCHANGED <<asked, heard>>
  BY DEF Activate, Awaits
<1>3. /\ tries'[o] \in TryRow
      /\ tries'[o].session = s /\ tries'[o].status = "ACTIVE"
  BY <1>1, <1>2 DEF TryRow
<1>4. /\ DOMAIN tries' = DOMAIN tries
      /\ \A q \in DOMAIN tries \ {o} : tries'[q] = tries[q]
  BY <1>2
<1> HIDE DEF s
<1>5. TypeOK'
  BY <1>1, <1>2, <1>3, <1>4 DEF BotInv, TypeOK, TryRow, Put, Drop, s
<1>6. Placed'
  <2>1. \A q \in DOMAIN tries \ {o} : tries[q].status \in Open => tries[q].session # s
    BY <1>2 DEF BotInv, OneOpen, Open, s
  <2>2. "ACTIVE" \notin Open
    BY DEF Open
  <2>3. s \in SessionIDs /\ s = tries[o].session
    BY <1>1 DEF TryRow, s
  <2> QED BY <1>2, <1>3, <1>4, <2>1, <2>2, <2>3 DEF BotInv, Placed, Put, Drop
<1>7. OneOpen'
  BY <1>3, <1>4 DEF BotInv, OneOpen, Open
<1>8. PaidFirst'
  <2>1. tries'[o].paid = tries[o].paid
    BY <1>1, <1>2 DEF TryRow
  <2>2. tries[o].paid = TRUE
    BY <1>2 DEF BotInv, PaidFirst
  <2> QED BY <1>2, <1>3, <1>4, <2>1, <2>2 DEF BotInv, PaidFirst
<1>9. Kept
  <2>1. \A r \in DOMAIN bound \cup DOMAIN shown :
           r \in DOMAIN bound' \cup DOMAIN shown' /\ Row(r)' = Row(r)
    BY <1>2 DEF BotInv, TypeOK, Placed, Row, Put, Drop
  <2> QED BY <1>2, <1>3, <1>4, <2>1 DEF Kept, s
<1> QED BY <1>5, <1>6, <1>7, <1>8, <1>9 DEF BotInv

\* Each step of the bot.
LEMMA StepsKeep == BotInv /\ Steps => BotInv' /\ Kept
BY BindKeeps, BeginKeeps, PayKeeps, AskKeeps, ActivateKeeps, RejectKeeps, ExpireKeeps
   DEF Steps, Try

\* Hearing a result changes no table.
LEMMA HearKeeps ==
    ASSUME BotInv, NEW o \in Ops, NEW r \in Results, Hear(o, r)
    PROVE  BotInv' /\ Kept
BY DEF Hear, BotInv, TypeOK, Placed, OneOpen, PaidFirst, Kept, Row

-----------------------------------------------------------------------------
(* The authority, and what passes between the two                          *)

\* The authority was asked what it decides, by the bot and in these words.
CasesAsked ==
    /\ DOMAIN cases \subseteq asked
    /\ \A o \in DOMAIN cases :
          /\ cases[o].cmd = CommandOf(o)
          /\ cases[o].status \in Closed \cup {"PENDING"}

\* What was told and what was heard is the verdict.
ResultsTrue ==
    /\ \A t \in told : /\ t[1] \in DOMAIN cases
                       /\ cases[t[1]].status = t[2] /\ t[2] \in Closed
    /\ \A o \in Ops, r \in Results : <<o, r>> \in heard =>
          /\ o \in DOMAIN cases /\ cases[o].status \in Closed
          /\ r = ResultOf(cases[o].status)

\* The authority has handed out sessions the bot knows, to the user and
\* balance the bot has for them, one to each user, and every session it has
\* verified.
Handed ==
    /\ \A s \in DOMAIN held :
          /\ s \in DOMAIN bound \cup DOMAIN shown
          /\ held[s].user = Row(s).user /\ held[s].balance = Row(s).balance
    /\ \A s, r \in DOMAIN held : held[s].user = held[r].user => s = r
    /\ \A o \in DOMAIN cases :
          cases[o].status = "VERIFIED" => tries[o].session \in DOMAIN held

LinkInv == CasesAsked /\ ResultsTrue /\ Handed

\* The inductive invariant.
Inv == BotInv /\ LinkInv /\ ShownIsHeld /\ EndingsAgree

\* Nothing was asked, told or handed out.
LEMMA LinkInit == ActivationInit => Inv
<1> SUFFICES ASSUME ActivationInit PROVE Inv
  OBVIOUS
<1>1. BotInv
  BY BotInit DEF ActivationInit
<1>2. LinkInv /\ ShownIsHeld /\ EndingsAgree
  BY DEF ActivationInit, Init, A!Init, EmptyTable, A!EmptyTable, LinkInv, CasesAsked,
         ResultsTrue, Handed, ShownIsHeld, EndingsAgree
<1> QED BY <1>1, <1>2 DEF Inv

\* A step that keeps the bot's sessions and tries changes no command.
LEMMA CommandKept ==
    ASSUME BotInv, Kept, NEW o \in asked
    PROVE  CommandOf(o)' = CommandOf(o)
<1>1. o \in DOMAIN tries /\ tries[o].session \in DOMAIN bound \cup DOMAIN shown
  BY DEF BotInv, PaidFirst, Placed
<1>2. tries'[o].session = tries[o].session
  BY <1>1 DEF Kept
<1>3. CommandOf(o)' = [op |-> o, session |-> tries[o].session,
                       user |-> Row(tries[o].session).user,
                       balance |-> Row(tries[o].session).balance]
  BY <1>1, <1>2 DEF CommandOf, Kept, Row
<1> QED BY <1>3 DEF CommandOf

\* A step of the bot leaves what links it to the authority as it is.
LEMMA StepsLink ==
    ASSUME Inv, Kept, UNCHANGED <<authorityVars, heard>>
    PROVE  LinkInv'
<1> USE DEF Inv, LinkInv, authorityVars
<1>1. \A o \in DOMAIN cases :
          /\ o \in asked /\ o \in DOMAIN tries
          /\ CommandOf(o)' = CommandOf(o) /\ tries'[o].session = tries[o].session
  BY CommandKept DEF CasesAsked, BotInv, PaidFirst, Kept
<1>2. CasesAsked'
  BY <1>1 DEF CasesAsked, Kept
<1>3. ResultsTrue'
  BY DEF ResultsTrue, ResultOf
<1>4. Handed'
  BY <1>1 DEF Handed, Kept
<1> QED BY <1>2, <1>3, <1>4

\* The two promises, for the steps that move no session and end no try with
\* a verdict.
LEMMA StatusAgrees ==
    ASSUME Inv, UNCHANGED <<authorityVars, shown>>,
           \A o \in DOMAIN tries' :
               \/ o \in DOMAIN tries /\ tries'[o] = tries[o]
               \/ tries'[o].status \notin {"ACTIVE", "REJECTED"}
               \/ tries'[o].status = "REJECTED" /\ tries'[o].paid = FALSE
    PROVE  ShownIsHeld' /\ EndingsAgree'
BY DEF Inv, ShownIsHeld, EndingsAgree, authorityVars

\* Refusal before payment, or by a result that was heard.
LEMMA RejectAgrees ==
    ASSUME Inv, NEW o \in Ops, Reject(o), UNCHANGED authorityVars
    PROVE  ShownIsHeld' /\ EndingsAgree'
<1>1. /\ o \in DOMAIN tries
      /\ tries' = [tries EXCEPT ![o].status = "REJECTED"]
      /\ UNCHANGED <<authorityVars, shown>>
  BY DEF Reject
<1>2. tries[o] \in TryRow
  BY <1>1 DEF Inv, BotInv, TypeOK, TryRow
<1>3. /\ tries'[o].status = "REJECTED" /\ tries'[o].paid = tries[o].paid
      /\ DOMAIN tries' = DOMAIN tries
      /\ \A q \in DOMAIN tries \ {o} : tries'[q] = tries[q]
  BY <1>1, <1>2 DEF TryRow
<1>4. CASE tries[o].status = "OPEN"
  <2>1. tries[o].paid = FALSE
    BY <1>1, <1>4 DEF Inv, BotInv, PaidFirst
  <2> QED BY <1>1, <1>3, <2>1, StatusAgrees
<1>5. CASE Awaits(o, "rejected")
  <2>1. o \in DOMAIN cases /\ cases[o].status \in Closed
            /\ ResultOf(cases[o].status) = "rejected"
    BY <1>5 DEF Awaits, Inv, LinkInv, ResultsTrue, Results
  <2>2. cases[o].status \in {"REJECTED", "EXPIRED"}
    BY <2>1 DEF ResultOf, Closed
  <2> QED BY <1>1, <1>3, <2>1, <2>2 DEF Inv, ShownIsHeld, EndingsAgree, authorityVars
<1> QED BY <1>4, <1>5 DEF Reject

\* A positive verdict the bot hears is about a session the authority holds.
LEMMA ActivateAgrees ==
    ASSUME Inv, NEW o \in Ops, Activate(o), UNCHANGED authorityVars
    PROVE  ShownIsHeld' /\ EndingsAgree'
<1> DEFINE s == tries[o].session
<1>1. /\ o \in DOMAIN tries /\ Awaits(o, "activated") /\ s \in DOMAIN bound
      /\ tries' = [tries EXCEPT ![o].status = "ACTIVE"]
      /\ shown' = Put(shown, s, bound[s])
  BY DEF Activate
<1>2. o \in DOMAIN cases /\ cases[o].status \in Closed
          /\ ResultOf(cases[o].status) = "activated"
  BY <1>1 DEF Awaits, Inv, LinkInv, ResultsTrue, Results
<1>3. cases[o].status = "VERIFIED"
  BY <1>2 DEF ResultOf
<1>4. s \in DOMAIN held /\ held[s].user = bound[s].user /\ held[s].balance = bound[s].balance
  BY <1>1, <1>2, <1>3 DEF Inv, LinkInv, Handed, Row
<1> HIDE DEF s
<1>5. ShownIsHeld'
  BY <1>1, <1>4 DEF Inv, ShownIsHeld, Put, authorityVars
<1>6. tries[o] \in TryRow
  BY <1>1 DEF Inv, BotInv, TypeOK, TryRow
<1>7. /\ tries'[o].status = "ACTIVE"
      /\ DOMAIN tries' = DOMAIN tries
      /\ \A q \in DOMAIN tries \ {o} : tries'[q] = tries[q]
  BY <1>1, <1>6 DEF TryRow
<1>8. EndingsAgree'
  BY <1>2, <1>3, <1>7 DEF Inv, EndingsAgree, authorityVars
<1> QED BY <1>5, <1>8

\* Each step of the bot preserves the invariant.
LEMMA BotStep ==
    ASSUME Inv, Steps, UNCHANGED authorityVars
    PROVE  Inv'
<1>1. BotInv' /\ Kept
  BY StepsKeep DEF Inv
<1>2. UNCHANGED heard
  BY DEF Steps, Bind, Begin, Try, Pay, Ask, Activate, Reject, Expire
<1>3. LinkInv'
  BY <1>1, <1>2, StepsLink
<1>4. ASSUME NEW u \in Users, NEW b \in Balances, NEW s \in SessionIDs, Bind(u, b, s)
      PROVE  ShownIsHeld' /\ EndingsAgree'
  BY <1>4, StatusAgrees DEF Bind
<1>5. ASSUME NEW s \in SessionIDs, NEW o \in Ops, Begin(s, o)
      PROVE  ShownIsHeld' /\ EndingsAgree'
  BY <1>5, StatusAgrees DEF Begin, Put
<1>6. ASSUME NEW o \in Ops, Pay(o) PROVE ShownIsHeld' /\ EndingsAgree'
  <2>1. tries[o] \in TryRow
    BY <1>6 DEF Inv, BotInv, TypeOK, TryRow, Pay
  <2>2. /\ tries'[o].status = "VERIFYING" /\ DOMAIN tries' = DOMAIN tries
        /\ \A q \in DOMAIN tries \ {o} : tries'[q] = tries[q]
    BY <1>6, <2>1 DEF Pay, TryRow
  <2> QED BY <1>6, <2>2, StatusAgrees DEF Pay
<1>7. ASSUME NEW o \in Ops, Ask(o) PROVE ShownIsHeld' /\ EndingsAgree'
  BY <1>7, StatusAgrees DEF Ask
<1>8. ASSUME NEW os \in SUBSET Ops, Expire(os) PROVE ShownIsHeld' /\ EndingsAgree'
  <2>1. \A o \in os : tries[o] \in TryRow
    BY <1>8 DEF Inv, BotInv, TypeOK, TryRow, Expire
  <2>2. /\ DOMAIN tries' = DOMAIN tries
        /\ \A o \in DOMAIN tries :
              \/ tries'[o] = tries[o]
              \/ tries'[o].status = "EXPIRED"
    BY <1>8, <2>1 DEF Expire
  <2> QED BY <1>8, <2>2, StatusAgrees DEF Expire
<1>9. ShownIsHeld' /\ EndingsAgree'
  BY <1>4, <1>5, <1>6, <1>7, <1>8, RejectAgrees, ActivateAgrees DEF Steps, Try
<1> QED BY <1>1, <1>3, <1>9 DEF Inv

-----------------------------------------------------------------------------
(* Steps of the authority                                                  *)

\* The authority receives a command.
LEMMA ReceiveStep ==
    ASSUME Inv, NEW o \in Ops, Receive(o)
    PROVE  Inv'
<1>1. /\ o \in asked /\ o \notin DOMAIN cases
      /\ cases' = A!Put(cases, o, [cmd |-> CommandOf(o), status |-> "PENDING"])
      /\ UNCHANGED <<held, told>> /\ UNCHANGED vars
  BY DEF Receive, A!Ask, CommandOf
<1>2. BotInv' /\ \A q : CommandOf(q)' = CommandOf(q)
  BY <1>1 DEF vars, Inv, BotInv, TypeOK, Placed, OneOpen, PaidFirst, CommandOf, Row
<1>3. CasesAsked'
  BY <1>1, <1>2 DEF Inv, LinkInv, CasesAsked, A!Put, vars
<1>4. ResultsTrue' /\ Handed'
  BY <1>1 DEF Inv, LinkInv, ResultsTrue, Handed, ResultOf, Row, A!Put, vars
<1>5. ShownIsHeld' /\ EndingsAgree'
  BY <1>1 DEF Inv, ShownIsHeld, EndingsAgree, A!Put, vars
<1> QED BY <1>2, <1>3, <1>4, <1>5 DEF Inv, LinkInv

\* A pending case is closed.
LEMMA CloseStep ==
    ASSUME Inv, NEW o \in DOMAIN cases, NEW status \in Closed, A!Close(o, status),
           UNCHANGED <<vars, told>>
    PROVE  BotInv' /\ CasesAsked' /\ ResultsTrue' /\ EndingsAgree'
<1>1. /\ cases[o].status = "PENDING"
      /\ cases' = A!Put(cases, o, [cmd |-> cases[o].cmd, status |-> status])
  BY DEF A!Close, A!Pending
<1>2. BotInv' /\ \A q : CommandOf(q)' = CommandOf(q)
  BY DEF vars, Inv, BotInv, TypeOK, Placed, OneOpen, PaidFirst, CommandOf, Row
<1>3. CasesAsked'
  BY <1>1, <1>2 DEF Inv, LinkInv, CasesAsked, A!Put, vars
<1>4. ResultsTrue'
  BY <1>1 DEF Inv, LinkInv, ResultsTrue, ResultOf, A!Put, vars, Closed
<1>5. EndingsAgree'
  BY <1>1 DEF Inv, EndingsAgree, A!Put, vars
<1> QED BY <1>2, <1>3, <1>4, <1>5

\* What a case is about.
LEMMA CaseAbout ==
    ASSUME Inv, NEW o \in DOMAIN cases
    PROVE  /\ cases[o].cmd.session = tries[o].session
           /\ cases[o].cmd.user = Row(tries[o].session).user
           /\ cases[o].cmd.balance = Row(tries[o].session).balance
           /\ tries[o].session \in DOMAIN bound \cup DOMAIN shown
<1>1. cases[o].cmd = CommandOf(o) /\ o \in asked
  BY DEF Inv, LinkInv, CasesAsked
<1>2. o \in DOMAIN tries
  BY <1>1 DEF Inv, BotInv, PaidFirst
<1>3. tries[o].session \in DOMAIN bound \cup DOMAIN shown
  BY <1>2 DEF Inv, BotInv, Placed
<1> QED BY <1>1, <1>3 DEF CommandOf

\* A session is handed out, to a user who holds no other.
LEMMA GrantStep ==
    ASSUME Inv, NEW o \in DOMAIN cases, A!Grant(o), UNCHANGED vars
    PROVE  Inv'
<1> DEFINE s == tries[o].session
<1>1. /\ cases[o].cmd.session = s
      /\ cases[o].cmd.user = Row(s).user /\ cases[o].cmd.balance = Row(s).balance
      /\ s \in DOMAIN bound \cup DOMAIN shown
  BY CaseAbout
<1>2. /\ s \notin DOMAIN held
      /\ \A r \in DOMAIN held : held[r].user # Row(s).user
      /\ held' = A!Put(held, s, [user |-> Row(s).user, balance |-> Row(s).balance,
                                 version |-> 1])
      /\ A!Close(o, "VERIFIED") /\ UNCHANGED told
  BY <1>1 DEF A!Grant, A!HoldsOther
<1>3. BotInv' /\ CasesAsked' /\ ResultsTrue' /\ EndingsAgree'
  BY <1>2, CloseStep DEF Closed
<1>4. cases' = A!Put(cases, o, [cmd |-> cases[o].cmd, status |-> "VERIFIED"])
  BY <1>2 DEF A!Close
<1> HIDE DEF s
<1>5. Handed'
  <2>1. UNCHANGED <<bound, shown, tries>> /\ \A r : Row(r)' = Row(r)
    BY DEF vars, Row
  <2>2. \A r \in DOMAIN held' :
            /\ r \in DOMAIN bound \cup DOMAIN shown
            /\ held'[r].user = Row(r).user /\ held'[r].balance = Row(r).balance
    BY <1>1, <1>2 DEF Inv, LinkInv, Handed, A!Put
  <2>3. \A r, q \in DOMAIN held' : held'[r].user = held'[q].user => r = q
    BY <1>2 DEF Inv, LinkInv, Handed, A!Put
  <2>4. \A q \in DOMAIN cases' :
            cases'[q].status = "VERIFIED" => tries[q].session \in DOMAIN held'
    BY <1>2, <1>4 DEF Inv, LinkInv, Handed, A!Put, s
  <2> QED BY <2>1, <2>2, <2>3, <2>4 DEF Handed
<1>6. ShownIsHeld'
  BY <1>2 DEF Inv, ShownIsHeld, A!Put, vars
<1> QED BY <1>3, <1>5, <1>6 DEF Inv, LinkInv

\* A session is renewed: holder and balance stay.
LEMMA RenewStep ==
    ASSUME Inv, NEW o \in DOMAIN cases, A!Renew(o), UNCHANGED vars
    PROVE  Inv'
<1> DEFINE s == tries[o].session
<1>1. cases[o].cmd.session = s
  BY CaseAbout
<1>2. /\ s \in DOMAIN held
      /\ held' = A!Put(held, s, [user |-> held[s].user, balance |-> held[s].balance,
                                 version |-> held[s].version + 1])
      /\ A!Close(o, "VERIFIED") /\ UNCHANGED told
  BY <1>1 DEF A!Renew
<1>3. BotInv' /\ CasesAsked' /\ ResultsTrue' /\ EndingsAgree'
  BY <1>2, CloseStep DEF Closed
<1>4. cases' = A!Put(cases, o, [cmd |-> cases[o].cmd, status |-> "VERIFIED"])
  BY <1>2 DEF A!Close
<1> HIDE DEF s
<1>5. DOMAIN held' = DOMAIN held
        /\ \A r \in DOMAIN held : held'[r].user = held[r].user /\ held'[r].balance = held[r].balance
  BY <1>2 DEF A!Put
<1>6. Handed'
  <2>1. UNCHANGED <<bound, shown, tries>> /\ \A r : Row(r)' = Row(r)
    BY DEF vars, Row
  <2>2. \A q \in DOMAIN cases' :
            cases'[q].status = "VERIFIED" => tries[q].session \in DOMAIN held'
    BY <1>2, <1>4, <1>5 DEF Inv, LinkInv, Handed, A!Put, s
  <2> QED BY <1>5, <2>1, <2>2 DEF Inv, LinkInv, Handed
<1>7. ShownIsHeld'
  BY <1>5 DEF Inv, ShownIsHeld, vars
<1> QED BY <1>3, <1>6, <1>7 DEF Inv, LinkInv

\* A refusal hands out nothing.
LEMMA RefuseStep ==
    ASSUME Inv, NEW o \in DOMAIN cases, A!Refuse(o), UNCHANGED vars
    PROVE  Inv'
<1>1. PICK status \in {"REJECTED", "EXPIRED"} : A!Close(o, status)
  BY DEF A!Refuse
<1>2. UNCHANGED <<held, told>>
  BY DEF A!Refuse
<1>3. BotInv' /\ CasesAsked' /\ ResultsTrue' /\ EndingsAgree'
  BY <1>1, <1>2, CloseStep DEF Closed
<1>4. Handed'
  BY <1>1, <1>2 DEF Inv, LinkInv, Handed, Row, A!Close, A!Put, vars
<1>5. ShownIsHeld'
  BY <1>2 DEF Inv, ShownIsHeld, vars
<1> QED BY <1>3, <1>4, <1>5 DEF Inv, LinkInv

\* Only the verdict is told.
LEMMA TellStep ==
    ASSUME Inv, NEW o \in DOMAIN cases, A!Tell(o), UNCHANGED vars
    PROVE  Inv'
<1>1. /\ cases[o].status # "PENDING" /\ told' = told \cup {<<o, cases[o].status>>}
      /\ UNCHANGED <<cases, held>>
  BY DEF A!Tell
<1>2. cases[o].status \in Closed
  BY <1>1 DEF Inv, LinkInv, CasesAsked
<1>3. ResultsTrue'
  BY <1>1, <1>2 DEF Inv, LinkInv, ResultsTrue, ResultOf, vars
<1>4. BotInv' /\ CasesAsked' /\ Handed' /\ ShownIsHeld' /\ EndingsAgree'
  BY <1>1 DEF vars, Inv, LinkInv, BotInv, TypeOK, Placed, OneOpen, PaidFirst, CasesAsked,
              CommandOf, Row, Handed, ShownIsHeld, EndingsAgree
<1> QED BY <1>3, <1>4 DEF Inv, LinkInv

\* A result that was told is heard.
LEMMA DeliverStep ==
    ASSUME Inv, NEW o \in Ops, NEW r \in Results, Deliver(o, r)
    PROVE  Inv'
<1>1. /\ \E t \in told : t[1] = o /\ ResultOf(t[2]) = r
      /\ Hear(o, r) /\ UNCHANGED authorityVars
  BY DEF Deliver
<1>2. o \in DOMAIN cases /\ cases[o].status \in Closed /\ ResultOf(cases[o].status) = r
  BY <1>1 DEF Inv, LinkInv, ResultsTrue
<1>3. BotInv'
  BY <1>1, HearKeeps DEF Inv
<1>4. heard' = heard \cup {<<o, r>>} /\ UNCHANGED <<bound, tries, shown, asked>>
  BY <1>1 DEF Hear
<1>5. ResultsTrue'
  BY <1>1, <1>2, <1>4 DEF Inv, LinkInv, ResultsTrue, ResultOf, authorityVars
<1>6. CasesAsked' /\ Handed' /\ ShownIsHeld' /\ EndingsAgree'
  BY <1>1, <1>4 DEF authorityVars, Inv, LinkInv, CasesAsked, CommandOf, Row, Handed,
                    ShownIsHeld, EndingsAgree
<1> QED BY <1>3, <1>5, <1>6 DEF Inv, LinkInv

-----------------------------------------------------------------------------
(* Theorems                                                                *)

\* Each step of either service preserves the invariant.
LEMMA InvStep == Inv /\ [ActivationNext]_allVars => Inv'
<1> SUFFICES ASSUME Inv, [ActivationNext]_allVars PROVE Inv'
  OBVIOUS
<1>1. CASE Steps /\ UNCHANGED authorityVars
  BY <1>1, BotStep
<1>2. ASSUME NEW o \in Ops, Receive(o) PROVE Inv'
  BY <1>2, ReceiveStep
<1>3. ASSUME NEW o \in Ops, Decide(o) PROVE Inv'
  BY <1>3, GrantStep, RenewStep, RefuseStep, TellStep DEF Decide
<1>4. ASSUME NEW o \in Ops, NEW r \in Results, Deliver(o, r) PROVE Inv'
  BY <1>4, DeliverStep
<1>5. CASE UNCHANGED allVars
  BY <1>5 DEF allVars, vars, authorityVars, Inv, LinkInv, BotInv, TypeOK, Placed, OneOpen,
              PaidFirst, CasesAsked, CommandOf, Row, ResultsTrue, ResultOf, Handed,
              ShownIsHeld, EndingsAgree
<1> QED BY <1>1, <1>2, <1>3, <1>4, <1>5 DEF ActivationNext

\* The invariant holds throughout.
LEMMA InvHolds == ActivationSpec => []Inv
BY LinkInit, InvStep, PTL DEF ActivationSpec

\* Whatever is lost, late or repeated between the services, the bot shows no
\* session as active that the authority has not handed out to the same user
\* and balance.
THEOREM ProjectionIsHeld == ActivationSpec => []ShownIsHeld
<1>1. Inv => ShownIsHeld
  BY DEF Inv
<1> QED BY <1>1, InvHolds, PTL

\* The bot's ACTIVE and REJECTED attempts ended in the authority as well, and
\* in the same way.
THEOREM ServicesAgree == ActivationSpec => []EndingsAgree
<1>1. Inv => EndingsAgree
  BY DEF Inv
<1> QED BY <1>1, InvHolds, PTL

\* The unique key of the projection never stands in the way of a positive
\* verdict the bot waits for.
THEOREM VerdictsApply == ActivationSpec => []VerdictApplies
<1>1. ASSUME Inv PROVE VerdictApplies
  <2> SUFFICES ASSUME NEW o \in DOMAIN tries, Awaits(o, "activated")
               PROVE  tries[o].session \in DOMAIN bound /\ Applicable(tries[o].session)
    BY DEF VerdictApplies
  <2> DEFINE s == tries[o].session
  <2>1. o \in Ops /\ s \in DOMAIN bound /\ s \in SessionIDs
    BY <1>1 DEF Inv, BotInv, TypeOK, Placed, Awaits, Open
  <2>2. o \in DOMAIN cases /\ cases[o].status = "VERIFIED"
    BY <1>1, <2>1 DEF Awaits, Inv, LinkInv, ResultsTrue, ResultOf, Results
  <2>3. s \in DOMAIN held /\ held[s].user = bound[s].user
    BY <1>1, <2>1, <2>2 DEF Inv, LinkInv, Handed, Row
  <2>4. ASSUME NEW r \in DOMAIN shown PROVE shown[r].user # bound[s].user
    <3>1. r # s
      BY <1>1, <2>1 DEF Inv, BotInv, Placed
    <3>2. r \in DOMAIN held /\ held[r].user = shown[r].user
      BY <1>1 DEF Inv, ShownIsHeld
    <3> QED BY <1>1, <2>3, <3>1, <3>2 DEF Inv, LinkInv, Handed
  <2> QED BY <2>1, <2>4 DEF Applicable
<1> QED BY <1>1, InvHolds, PTL
=============================================================================

----------------------- MODULE TelegramUpdatesProofs ------------------------
(***************************************************************************)
(* What holds of the intake of updates for any number of updates, pollers  *)
(* and any size of Telegram's responses.                                   *)
(***************************************************************************)
EXTENDS TelegramUpdates, FiniteSetTheorems, TLAPS

-----------------------------------------------------------------------------
(* Types                                                                   *)

\* Nothing has arrived and nobody has polled.
LEMMA InitType == Init => TypeOK
BY UpdatesAssumption DEF Init, TypeOK, EmptyTable, Updates, Outcomes

\* What a request confirms is an update ID or zero.
LEMMA ConfirmedByType ==
    ASSUME TypeOK, NEW p \in Pollers
    PROVE  ConfirmedBy(p) \in Nat /\ Response(p) \in SUBSET Updates
BY UpdatesAssumption DEF TypeOK, ConfirmedBy, Later, Response, Updates

\* The loop moves the offset to an update ID.
LEMMA AdvanceType ==
    ASSUME TypeOK, NEW p \in Pollers, NEW i \in Updates, Advance(p, i)
    PROVE  offset' \in [Pollers -> Nat]
<1>1. i + 1 \in Nat
  BY UpdatesAssumption DEF Updates
<1> QED BY <1>1 DEF Advance, NextOffset, TypeOK

\* Each step preserves the types.
LEMMA StepType == TypeOK /\ [Next]_vars => TypeOK'
<1> SUFFICES ASSUME TypeOK, [Next]_vars PROVE TypeOK'
  OBVIOUS
<1> USE UpdatesAssumption DEF Updates, Outcomes
<1>1. CASE Arrive
  BY <1>1 DEF Arrive, TypeOK
<1>2. ASSUME NEW p \in Pollers, GetUpdates(p) \/ PollFails(p) PROVE TypeOK'
  <2>1. ConfirmedBy(p) \in Nat /\ Response(p) \in SUBSET Updates
    BY ConfirmedByType
  <2> QED BY <1>2, <2>1 DEF GetUpdates, PollFails, TypeOK
<1>3. ASSUME NEW p \in Pollers, Restart(p) PROVE TypeOK'
  BY <1>3 DEF Restart, TypeOK
<1>4. ASSUME NEW p \in Pollers, NEW i \in Updates, SkipUpdate(p, i) \/ SkipDuplicate(p, i)
      PROVE  TypeOK'
  BY <1>4, AdvanceType DEF SkipUpdate, SkipDuplicate, TypeOK
<1>5. ASSUME NEW p \in Pollers, NEW i \in Updates, Begin(p, i) PROVE TypeOK'
  BY <1>5 DEF Begin, FirstStep, Put, TypeOK
<1>6. ASSUME NEW p \in Pollers, NEW i \in Updates, Handle(p, i) PROVE TypeOK'
  BY <1>6 DEF Handle, TypeOK
<1>7. ASSUME NEW p \in Pollers, NEW i \in Updates, SendText(p, i) PROVE TypeOK'
  BY <1>7 DEF SendText, TypeOK
<1>8. ASSUME NEW p \in Pollers, NEW i \in Updates, Finish(p, i) PROVE TypeOK'
  BY <1>8, AdvanceType DEF Finish, TypeOK
<1>9. CASE UNCHANGED vars
  BY <1>9 DEF vars, TypeOK
<1> QED BY <1>1, <1>2, <1>3, <1>4, <1>5, <1>6, <1>7, <1>8, <1>9 DEF Next, Process

\* The intake keeps its types, the statuses the check on telegram_updates
\* allows among them.
THEOREM TypeCorrect == Spec => []TypeOK
BY InitType, StepType, PTL DEF Spec

-----------------------------------------------------------------------------
(* Each update is worked on once                                           *)

\* The conversation has not seen an update that is not registered.
UnseenUntouched ==
    \A i \in Updates : i \notin DOMAIN table => handled[i] = 0

\* What a poller has done for the update it works on agrees with its step.
StepsCounted ==
    \A p \in Pollers, i \in Updates : Current(p, i) =>
        /\ step[p] = "begun" => handled[i] = 0
        /\ step[p] = "answered" => handled[i] = 1 /\ replied[i] = 0

\* The inductive invariant.
WorkInv ==
    TypeOK /\ WorkIsExclusive /\ HandledAtMostOnce /\ UnseenUntouched /\ StepsCounted

\* The loop has one current update.
LEMMA CurrentIsUnique ==
    ASSUME TypeOK, NEW p \in Pollers, NEW i \in Updates, NEW j \in Updates,
           Current(p, i), Current(p, j)
    PROVE  i = j
BY UpdatesAssumption DEF Current, Updates

\* The update a poller works on is PROCESSING, and its alone.
LEMMA OwnUpdate ==
    ASSUME WorkInv, NEW p \in Pollers, NEW i \in Updates, step[p] # "idle", Current(p, i)
    PROVE  /\ i \in DOMAIN table /\ table[i] = "PROCESSING"
           /\ \A q \in Pollers \ {p} : step[q] # "idle" => ~Current(q, i)
<1>1. PICK j \in Updates :
          /\ Current(p, j) /\ j \in DOMAIN table /\ table[j] = "PROCESSING"
          /\ \A q \in Pollers \ {p} : step[q] # "idle" => ~Current(q, j)
  BY DEF WorkInv, WorkIsExclusive
<1>2. j = i
  BY <1>1, CurrentIsUnique DEF WorkInv
<1> QED BY <1>1, <1>2

\* Nobody has polled.
LEMMA InitWork == Init => WorkInv
BY InitType, UpdatesAssumption
   DEF Init, WorkInv, WorkIsExclusive, HandledAtMostOnce, UnseenUntouched, StepsCounted,
       Current, Todo, Updates

\* A step of a poller that is idle afterwards, and of which the others see at
\* most the row of the update it has finished, leaves their work alone.
LEMMA OthersUndisturbed ==
    ASSUME WorkInv, TypeOK', NEW p \in Pollers, step'[p] = "idle",
           \A q \in Pollers \ {p} :
               step'[q] = step[q] /\ offset'[q] = offset[q] /\ fetched'[q] = fetched[q],
           UNCHANGED <<handled, replied>>, DOMAIN table' = DOMAIN table,
           \A q \in Pollers \ {p} : \A i \in Updates :
               step[q] # "idle" /\ Current(q, i) => table'[i] = table[i]
    PROVE  WorkInv'
<1>1. \A q \in Pollers \ {p} : \A i \in Updates : Current(q, i)' <=> Current(q, i)
  BY DEF Current, Todo
<1>2. WorkIsExclusive'
  <2> SUFFICES ASSUME NEW q \in Pollers, step'[q] # "idle"
               PROVE  \E i \in Updates :
                         /\ Current(q, i)'
                         /\ i \in DOMAIN table' /\ table'[i] = "PROCESSING"
                         /\ \A r \in Pollers \ {q} : step'[r] # "idle" => ~Current(r, i)'
    BY DEF WorkIsExclusive
  <2>1. q # p /\ step[q] # "idle"
    OBVIOUS
  <2>2. PICK i \in Updates :
            /\ Current(q, i) /\ i \in DOMAIN table /\ table[i] = "PROCESSING"
            /\ \A r \in Pollers \ {q} : step[r] # "idle" => ~Current(r, i)
    BY <2>1 DEF WorkInv, WorkIsExclusive
  <2>3. Current(q, i)' /\ i \in DOMAIN table' /\ table'[i] = "PROCESSING"
    BY <1>1, <2>1, <2>2
  <2>4. \A r \in Pollers \ {q} : step'[r] # "idle" => ~Current(r, i)'
    BY <1>1, <2>2
  <2> QED BY <2>3, <2>4
<1>3. HandledAtMostOnce' /\ UnseenUntouched'
  BY DEF WorkInv, HandledAtMostOnce, UnseenUntouched
<1>4. StepsCounted'
  BY <1>1 DEF WorkInv, StepsCounted
<1> QED BY <1>2, <1>3, <1>4 DEF WorkInv

\* Begin registers an update nobody has seen and takes it to work on.
LEMMA BeginWork ==
    ASSUME WorkInv, TypeOK', NEW p \in Pollers, NEW i \in Updates, Begin(p, i)
    PROVE  WorkInv'
<1>1. \A q \in Pollers, j \in Updates : Current(q, j)' <=> Current(q, j)
  BY DEF Begin, Current, Todo
<1>2. /\ i \notin DOMAIN table /\ DOMAIN table' = DOMAIN table \cup {i}
      /\ table'[i] = "PROCESSING" /\ \A j \in DOMAIN table : table'[j] = table[j]
  BY DEF Begin, Started, Put
<1>3. \A q \in Pollers : q # p => step'[q] = step[q]
  BY DEF Begin, WorkInv, TypeOK
<1>4. \A q \in Pollers \ {p} : step'[q] # "idle" => ~Current(q, i)
  BY <1>2, <1>3, OwnUpdate
<1>5. Current(p, i)
  BY DEF Begin
<1>6. WorkIsExclusive'
  <2> SUFFICES ASSUME NEW q \in Pollers, step'[q] # "idle"
               PROVE  \E j \in Updates :
                         /\ Current(q, j)'
                         /\ j \in DOMAIN table' /\ table'[j] = "PROCESSING"
                         /\ \A r \in Pollers \ {q} : step'[r] # "idle" => ~Current(r, j)'
    BY DEF WorkIsExclusive
  <2>1. CASE q = p
    BY <1>1, <1>2, <1>4, <1>5, <2>1
  <2>2. CASE q # p
    <3>1. PICK j \in Updates :
              /\ Current(q, j) /\ j \in DOMAIN table /\ table[j] = "PROCESSING"
              /\ \A r \in Pollers \ {q} : step[r] # "idle" => ~Current(r, j)
      BY <1>3, <2>2 DEF WorkInv, WorkIsExclusive
    <3>2. ~Current(p, j)
      BY <1>2, <1>5, <3>1, CurrentIsUnique DEF WorkInv
    <3> QED BY <1>1, <1>2, <1>3, <3>1, <3>2
  <2> QED BY <2>1, <2>2
<1>7. HandledAtMostOnce' /\ UnseenUntouched'
  BY <1>2 DEF Begin, WorkInv, HandledAtMostOnce, UnseenUntouched
<1>8. StepsCounted'
  <2>1. handled[i] = 0 /\ handled' = handled /\ replied' = replied
    BY <1>2 DEF Begin, WorkInv, UnseenUntouched
  <2>2. \A j \in Updates : Current(p, j) => j = i
    BY <1>5, CurrentIsUnique DEF WorkInv
  <2>3. step'[p] # "answered"
    BY DEF Begin, FirstStep, WorkInv, TypeOK
  <2> QED BY <1>1, <1>3, <2>1, <2>2, <2>3 DEF WorkInv, StepsCounted
<1> QED BY <1>6, <1>7, <1>8 DEF WorkInv

\* Handle and SendText count the update the poller works on, which no other
\* poller does.
LEMMA CountWork ==
    ASSUME WorkInv, TypeOK', NEW p \in Pollers, NEW i \in Updates,
           Handle(p, i) \/ SendText(p, i)
    PROVE  WorkInv'
<1>1. \A q \in Pollers, j \in Updates : Current(q, j)' <=> Current(q, j)
  BY DEF Handle, SendText, Current, Todo
<1>2. /\ table' = table /\ Current(p, i) /\ step[p] # "idle" /\ step'[p] # "idle"
      /\ \A q \in Pollers : q # p => step'[q] = step[q]
  BY DEF Handle, SendText, WorkInv, TypeOK
<1>3. WorkIsExclusive'
  BY <1>1, <1>2 DEF WorkInv, WorkIsExclusive
<1>4. /\ i \in DOMAIN table
      /\ \A q \in Pollers \ {p} : step[q] # "idle" => ~Current(q, i)
  BY <1>2, OwnUpdate
<1>5. \A j \in Updates : j # i => handled'[j] = handled[j] /\ replied'[j] = replied[j]
  BY DEF Handle, SendText, WorkInv, TypeOK
<1>6. CASE Handle(p, i)
  <2>1. handled[i] = 0 /\ replied[i] = 0
    BY <1>6 DEF Handle, WorkInv, StepsCounted, HandledAtMostOnce, TypeOK
  <2>2. handled'[i] = 1 /\ replied'[i] = 0 /\ step'[p] = "answered"
    BY <1>6, <2>1 DEF Handle, WorkInv, TypeOK
  <2>3. HandledAtMostOnce' /\ UnseenUntouched'
    BY <1>2, <1>4, <1>5, <2>2 DEF WorkInv, HandledAtMostOnce, UnseenUntouched
  <2>4. \A j \in Updates : Current(p, j) => j = i
    BY <1>2, CurrentIsUnique DEF WorkInv
  <2>5. StepsCounted'
    BY <1>1, <1>2, <1>4, <1>5, <2>2, <2>4 DEF WorkInv, StepsCounted
  <2> QED BY <1>3, <2>3, <2>5 DEF WorkInv
<1>7. CASE SendText(p, i)
  <2>1. handled[i] = 1 /\ replied[i] = 0
    BY <1>7 DEF SendText, WorkInv, StepsCounted
  <2>2. handled'[i] = 1 /\ replied'[i] = 1 /\ step'[p] \notin {"begun", "answered"}
    BY <1>7, <2>1 DEF SendText, WorkInv, TypeOK
  <2>3. HandledAtMostOnce' /\ UnseenUntouched'
    BY <1>2, <1>4, <1>5, <2>2 DEF WorkInv, HandledAtMostOnce, UnseenUntouched
  <2>4. StepsCounted'
    <3> SUFFICES ASSUME NEW q \in Pollers, NEW j \in Updates, Current(q, j)
                 PROVE  /\ step'[q] = "begun" => handled'[j] = 0
                        /\ step'[q] = "answered" => handled'[j] = 1 /\ replied'[j] = 0
      BY <1>1 DEF StepsCounted
    <3>1. CASE q = p
      BY <2>2, <3>1
    <3>2. CASE q # p /\ j = i
      BY <1>2, <1>4, <3>2
    <3>3. CASE q # p /\ j # i
      BY <1>2, <1>5, <3>3 DEF WorkInv, StepsCounted
    <3> QED BY <3>1, <3>2, <3>3
  <2> QED BY <1>3, <2>3, <2>4 DEF WorkInv
<1> QED BY <1>6, <1>7

\* Each step preserves the invariant.
LEMMA StepWork == WorkInv /\ [Next]_vars => WorkInv'
<1> SUFFICES ASSUME WorkInv, [Next]_vars PROVE WorkInv'
  OBVIOUS
<1>t. TypeOK /\ TypeOK'
  BY StepType DEF WorkInv
<1>1. ASSUME NEW p \in Pollers, GetUpdates(p) \/ PollFails(p) \/ Restart(p)
      PROVE  WorkInv'
  <2>1. /\ step'[p] = "idle"
        /\ \A q \in Pollers \ {p} :
               step'[q] = step[q] /\ offset'[q] = offset[q] /\ fetched'[q] = fetched[q]
    BY <1>1, <1>t DEF GetUpdates, PollFails, Restart, TypeOK
  <2>2. UNCHANGED <<handled, replied, table>>
    BY <1>1 DEF GetUpdates, PollFails, Restart
  <2> QED BY <1>t, <2>1, <2>2, OthersUndisturbed
<1>2. ASSUME NEW p \in Pollers, NEW i \in Updates, SkipUpdate(p, i) \/ SkipDuplicate(p, i)
      PROVE  WorkInv'
  <2>1. /\ step'[p] = "idle"
        /\ \A q \in Pollers \ {p} :
               step'[q] = step[q] /\ offset'[q] = offset[q] /\ fetched'[q] = fetched[q]
    BY <1>2, <1>t DEF SkipUpdate, SkipDuplicate, Advance, TypeOK
  <2>2. UNCHANGED <<handled, replied, table>>
    BY <1>2 DEF SkipUpdate, SkipDuplicate
  <2> QED BY <1>t, <2>1, <2>2, OthersUndisturbed
<1>3. ASSUME NEW p \in Pollers, NEW i \in Updates, Finish(p, i) PROVE WorkInv'
  <2>1. /\ step'[p] = "idle"
        /\ \A q \in Pollers \ {p} :
               step'[q] = step[q] /\ offset'[q] = offset[q] /\ fetched'[q] = fetched[q]
    BY <1>3, <1>t DEF Finish, Advance, TypeOK
  <2>2. UNCHANGED <<handled, replied>> /\ DOMAIN table' = DOMAIN table
    BY <1>3 DEF Finish
  <2>3. \A q \in Pollers \ {p} : \A j \in Updates :
            step[q] # "idle" /\ Current(q, j) => table'[j] = table[j]
    <3>1. step[p] # "idle" /\ Current(p, i)
      BY <1>3 DEF Finish, Outcomes
    <3> SUFFICES ASSUME NEW q \in Pollers \ {p}, NEW j \in Updates,
                        step[q] # "idle", Current(q, j)
                 PROVE  table'[j] = table[j]
      OBVIOUS
    <3>2. j # i
      BY <3>1, OwnUpdate
    <3>3. j \in DOMAIN table
      BY OwnUpdate
    <3> QED BY <1>3, <3>2, <3>3 DEF Finish
  <2> QED BY <1>t, <2>1, <2>2, <2>3, OthersUndisturbed
<1>4. ASSUME NEW p \in Pollers, NEW i \in Updates, Begin(p, i) PROVE WorkInv'
  BY <1>t, <1>4, BeginWork
<1>5. ASSUME NEW p \in Pollers, NEW i \in Updates, Handle(p, i) \/ SendText(p, i)
      PROVE  WorkInv'
  BY <1>t, <1>5, CountWork
<1>6. CASE UNCHANGED <<table, offset, fetched, step, handled, replied>>
  BY <1>6, <1>t DEF WorkInv, WorkIsExclusive, HandledAtMostOnce, UnseenUntouched,
                    StepsCounted, Current, Todo
<1> QED
  BY <1>1, <1>2, <1>3, <1>4, <1>5, <1>6 DEF Next, Process, Arrive, vars

\* Redelivery, restarts and overlapping processes notwithstanding, the
\* conversation handles an update at most once and one reply is attempted.
THEOREM HandledOnce == Spec => []HandledAtMostOnce
<1>1. WorkInv => HandledAtMostOnce
  BY DEF WorkInv
<1> QED BY <1>1, InitWork, StepWork, PTL DEF Spec

\* The row of an update that is being worked on is PROCESSING and no other
\* poller works on it, so Finish never fails for the row's status.
THEOREM WorkStaysExclusive == Spec => []WorkIsExclusive
<1>1. WorkInv => WorkIsExclusive
  BY DEF WorkInv
<1> QED BY <1>1, InitWork, StepWork, PTL DEF Spec

-----------------------------------------------------------------------------
(* Nothing is forgotten unseen                                             *)

\* A poller's offset is past messages that are registered only.
OffsetsSeen ==
    \A p \in Pollers, i \in Updates :
        i < offset[p] /\ Kind[i] # "other" => i \in DOMAIN table

\* A response has no gaps but for messages that are registered: what the
\* loop passes over when it goes from one update to the next was seen.
ResponsesSeen ==
    \A p \in Pollers : \A i \in fetched[p] : \A j \in Updates \ fetched[p] :
        j < i /\ Kind[j] # "other" => j \in DOMAIN table

\* The inductive invariant.
SeenInv == TypeOK /\ NothingForgottenUnseen /\ OffsetsSeen /\ ResponsesSeen

\* An update missing from a response in front of one that is there was
\* confirmed by the request.
LEMMA ResponseHasNoGaps ==
    ASSUME TypeOK, NEW p \in Pollers, NEW i \in Response(p), NEW j \in Updates,
           j < i, j \notin Response(p)
    PROVE  j < ConfirmedBy(p)
<1> DEFINE pending == {k \in 1..arrived : k >= ConfirmedBy(p)}
           upto(n) == {k \in pending : k <= n}
<1>1. /\ arrived \in Nat /\ Updates \subseteq Nat /\ ConfirmedBy(p) \in Nat
      /\ PollLimit \in Nat /\ arrived <= MaxUpdate /\ MaxUpdate \in Nat
  BY UpdatesAssumption, ConfirmedByType DEF TypeOK, Updates
<1>2. i \in pending /\ Cardinality(upto(i)) <= PollLimit
  BY DEF Response
<1>3. IsFiniteSet(upto(i)) /\ upto(j) \in SUBSET upto(i)
  <2>1. IsFiniteSet(1..arrived)
    BY <1>1, FS_Interval
  <2>2. upto(i) \in SUBSET (1..arrived)
    OBVIOUS
  <2>3. upto(j) \in SUBSET upto(i)
    BY <1>1, <1>2
  <2> QED BY <2>1, <2>2, <2>3, FS_Subset
<1>4. /\ Cardinality(upto(j)) \in Nat /\ Cardinality(upto(i)) \in Nat
      /\ Cardinality(upto(j)) <= Cardinality(upto(i))
  BY <1>3, FS_Subset, FS_CardinalityType
<1>5. SUFFICES ASSUME j >= ConfirmedBy(p) PROVE FALSE
  BY <1>1
<1>6. j \in pending
  BY <1>1, <1>2, <1>5 DEF Updates
<1>7. Cardinality(upto(j)) <= PollLimit
  BY <1>1, <1>2, <1>4
<1> QED BY <1>6, <1>7 DEF Response

\* What Telegram forgets, the offsets and the responses start empty.
LEMMA InitSeen == Init => SeenInv
BY InitType, UpdatesAssumption
   DEF Init, SeenInv, NothingForgottenUnseen, OffsetsSeen, ResponsesSeen, Updates

\* What a request confirms is registered.
LEMMA ConfirmedIsSeen ==
    ASSUME SeenInv, NEW p \in Pollers
    PROVE  \A i \in Updates : i < ConfirmedBy(p) /\ Kind[i] # "other" => i \in DOMAIN table
BY UpdatesAssumption
   DEF SeenInv, NothingForgottenUnseen, OffsetsSeen, ConfirmedBy, Later, TypeOK, Updates

\* A poller that moves its offset past its current update leaves nothing
\* unseen behind, provided the update itself is no unregistered message.
LEMMA AdvanceSeen ==
    ASSUME SeenInv, NEW p \in Pollers, NEW i \in Updates, Current(p, i), Advance(p, i),
           Kind[i] = "other" \/ i \in DOMAIN table, DOMAIN table' = DOMAIN table,
           UNCHANGED <<confirmed, fetched>>
    PROVE  NothingForgottenUnseen' /\ OffsetsSeen' /\ ResponsesSeen'
<1>1. NothingForgottenUnseen' /\ ResponsesSeen'
  BY DEF SeenInv, NothingForgottenUnseen, ResponsesSeen
<1>2. ASSUME NEW q \in Pollers, NEW j \in Updates, j < offset'[q], Kind[j] # "other"
      PROVE  j \in DOMAIN table
  <2>1. CASE q # p \/ j < offset[p]
    BY <1>2, <2>1 DEF SeenInv, OffsetsSeen, Advance, TypeOK
  <2>2. CASE q = p /\ j = i
    BY <1>2, <2>2
  <2>3. CASE q = p /\ j # i /\ j >= offset[p]
    <3>1. i \in fetched[p] /\ j < i /\ j \notin fetched[p]
      BY <1>2, <2>3, UpdatesAssumption
         DEF SeenInv, Advance, NextOffset, Current, Todo, TypeOK, Updates
    <3> QED BY <1>2, <3>1 DEF SeenInv, ResponsesSeen
  <2> QED BY <2>1, <2>2, <2>3, UpdatesAssumption DEF SeenInv, TypeOK, Updates
<1> QED BY <1>1, <1>2 DEF OffsetsSeen

\* Each step preserves the invariant.
LEMMA StepSeen == WorkInv /\ SeenInv /\ [Next]_vars => SeenInv'
<1> SUFFICES ASSUME WorkInv, SeenInv, [Next]_vars PROVE SeenInv'
  OBVIOUS
<1>t. TypeOK /\ TypeOK'
  BY StepType DEF SeenInv
<1>1. ASSUME NEW p \in Pollers, GetUpdates(p) PROVE SeenInv'
  <2>1. NothingForgottenUnseen' /\ OffsetsSeen'
    BY <1>1, ConfirmedIsSeen DEF GetUpdates, SeenInv, NothingForgottenUnseen, OffsetsSeen
  <2>2. ASSUME NEW q \in Pollers, NEW i \in fetched'[q], NEW j \in Updates \ fetched'[q],
               j < i, Kind[j] # "other"
        PROVE  j \in DOMAIN table
    <3>1. CASE q = p
      <4>1. fetched'[q] = Response(p)
        BY <1>1, <1>t, <3>1 DEF GetUpdates, TypeOK
      <4>2. j < ConfirmedBy(p)
        BY <1>t, <2>2, <4>1, ResponseHasNoGaps
      <4> QED BY <2>2, <4>2, ConfirmedIsSeen
    <3>2. CASE q # p
      BY <1>1, <1>t, <2>2, <3>2 DEF GetUpdates, TypeOK, SeenInv, ResponsesSeen
    <3> QED BY <3>1, <3>2
  <2>3. ResponsesSeen'
    BY <1>1, <2>2 DEF GetUpdates, ResponsesSeen
  <2> QED BY <1>t, <2>1, <2>3 DEF SeenInv
<1>2. ASSUME NEW p \in Pollers, PollFails(p) PROVE SeenInv'
  BY <1>2, <1>t, ConfirmedIsSeen
     DEF PollFails, SeenInv, NothingForgottenUnseen, OffsetsSeen, ResponsesSeen
<1>3. ASSUME NEW p \in Pollers, Restart(p) PROVE SeenInv'
  <2>1. NothingForgottenUnseen'
    BY <1>3 DEF Restart, SeenInv, NothingForgottenUnseen
  <2>2. OffsetsSeen' /\ ResponsesSeen'
    BY <1>3, <1>t, UpdatesAssumption
       DEF Restart, SeenInv, OffsetsSeen, ResponsesSeen, TypeOK, Updates
  <2> QED BY <1>t, <2>1, <2>2 DEF SeenInv
<1>4. ASSUME NEW p \in Pollers, NEW i \in Updates, SkipUpdate(p, i) PROVE SeenInv'
  BY <1>4, <1>t, AdvanceSeen DEF SkipUpdate, SeenInv
<1>5. ASSUME NEW p \in Pollers, NEW i \in Updates, SkipDuplicate(p, i) PROVE SeenInv'
  BY <1>5, <1>t, AdvanceSeen DEF SkipDuplicate, Started, SeenInv
<1>6. ASSUME NEW p \in Pollers, NEW i \in Updates, Begin(p, i) PROVE SeenInv'
  BY <1>6, <1>t DEF Begin, Put, SeenInv, NothingForgottenUnseen, OffsetsSeen, ResponsesSeen
<1>7. ASSUME NEW p \in Pollers, NEW i \in Updates, Finish(p, i) PROVE SeenInv'
  <2>1. i \in DOMAIN table
    BY <1>7, OwnUpdate DEF Finish, Outcomes
  <2> QED BY <1>7, <1>t, <2>1, AdvanceSeen DEF Finish, SeenInv
<1>8. CASE UNCHANGED <<confirmed, table, offset, fetched>>
  BY <1>8, <1>t DEF SeenInv, NothingForgottenUnseen, OffsetsSeen, ResponsesSeen
<1> QED
  BY <1>1, <1>2, <1>3, <1>4, <1>5, <1>6, <1>7, <1>8
     DEF Next, Process, Arrive, Handle, SendText, vars

\* Telegram is never told to forget a message that is not registered.
THEOREM NothingForgotten == Spec => []NothingForgottenUnseen
<1>1. SeenInv => NothingForgottenUnseen
  BY DEF SeenInv
<1> QED BY <1>1, InitWork, StepWork, InitSeen, StepSeen, PTL DEF Spec
=============================================================================

------------------------------ MODULE Consumer ------------------------------
(***************************************************************************)
(* The consumers of a service, one per NATS subject                        *)
(* (internal/platform/message/consumer.go): the NATS client's buffer, the  *)
(* callback that moves messages into a channel, and the goroutines that    *)
(* hand them to the handler.                                               *)
(*                                                                         *)
(* A message is somewhere on its way; the order in which messages wait is  *)
(* left open, since the workers run side by side.  This module has the     *)
(* steps only: who starts and stops the consumers is in module Service.    *)
(***************************************************************************)
EXTENDS Integers, FiniteSets

CONSTANTS
    Subjects,       \* one consumer for each
    Workers,        \* worker goroutines of a consumer (RW_OUTBOX_CONCURRENCY)
    Messages,       \* messages that may come in, numbered as they do
    SubjectOf,      \* the subject of each message
    PendingMessages \* RW_NATS_PENDING_MESSAGES

ASSUME ConsumerAssumption ==
    /\ Messages \subseteq Nat
    /\ SubjectOf \in [Messages -> Subjects]
    /\ PendingMessages \in Nat \ {0}

VARIABLES
    stage,  \* what has been called on a consumer: StartConsumer, then Stop
    sub,    \* its subscription: "none", "on", "off"
    worker, \* what each goroutine of a consumer is doing
    at,     \* where each message is
    done    \* the context given to StartConsumer is done

consumerVars == <<stage, sub, worker, at, done>>

\* dropped: no handler has seen it; failed: its handler returned an error or
\* was cancelled, the transaction, if any, rolled back; handled: committed.
Waiting == {"pending", "callback", "queue"}
Places  == {"away", "dropped", "failed", "handled"} \cup Waiting \cup Workers

\* A handler holds a connection of the pool in its one transaction only, not
\* while it verifies and signs before, or notifies the user afterwards.
Handling     == {"busy", "transaction", "committed"}
WorkerStates == {"off", "idle", "gone"} \cup Handling

Stages == {"new", "starting", "failed", "up", "cancelled", "waiting", "stopped"}

ConsumerTypeOK ==
    /\ stage \in [Subjects -> Stages]
    /\ sub \in [Subjects -> {"none", "on", "off"}]
    /\ worker \in [Subjects -> [Workers -> WorkerStates]]
    /\ at \in [Messages -> Places]
    /\ done \in BOOLEAN

ConsumerInit ==
    /\ stage = [c \in Subjects |-> "new"]
    /\ sub = [c \in Subjects |-> "none"]
    /\ worker = [c \in Subjects |-> [w \in Workers |-> "off"]]
    /\ at = [m \in Messages |-> "away"]
    /\ done = FALSE

In(c, place) == {m \in Messages : SubjectOf[m] = c /\ at[m] = place}

Full(c, place) == Cardinality(In(c, place)) >= PendingMessages

\* workerCtx.Done(): cancelled by Stop, by a failed start or with its parent.
Cancelled(c) == done \/ stage[c] \in {"failed", "cancelled", "waiting", "stopped"}

Move(m, place) == at' = [at EXCEPT ![m] = place]

SetStage(c, s) == stage' = [stage EXCEPT ![c] = s]

\* What the client has buffered is not delivered after Unsubscribe.
Unsubscribed(cs) ==
    /\ sub' = [c \in Subjects |-> IF c \in cs THEN "off" ELSE sub[c]]
    /\ at' = [m \in Messages |->
                IF at[m] = "pending" /\ SubjectOf[m] \in cs THEN "dropped" ELSE at[m]]

-----------------------------------------------------------------------------
(* StartConsumer                                                           *)

QueueSubscribe(c) ==
    /\ stage[c] = "new"
    /\ SetStage(c, "starting")
    /\ sub' = [sub EXCEPT ![c] = "on"]
    /\ UNCHANGED <<worker, at, done>>

\* QueueSubscribe, SetPendingLimits or Flush returns an error.
StartFails(c) ==
    /\ stage[c] \in {"new", "starting"}
    /\ SetStage(c, "failed")
    /\ IF stage[c] = "starting" THEN Unsubscribed({c}) ELSE UNCHANGED <<sub, at>>
    /\ UNCHANGED <<worker, done>>

StartWorkers(c) ==
    /\ stage[c] = "starting"
    /\ SetStage(c, "up")
    /\ worker' = [worker EXCEPT ![c] = [w \in Workers |-> "idle"]]
    /\ UNCHANGED <<sub, at, done>>

-----------------------------------------------------------------------------
(* Stop                                                                    *)

StopCancel(c) ==
    /\ stage[c] = "up"
    /\ SetStage(c, "cancelled")
    /\ UNCHANGED <<sub, worker, at, done>>

StopUnsubscribe(c) ==
    /\ stage[c] = "cancelled"
    /\ SetStage(c, "waiting")
    /\ Unsubscribed({c})
    /\ UNCHANGED <<worker, done>>

AllGone(c) == \A w \in Workers : worker[c][w] = "gone"

\* workers.Wait() returns.
StopReturns(c) ==
    /\ stage[c] = "waiting"
    /\ AllGone(c)
    /\ SetStage(c, "stopped")
    /\ UNCHANGED <<sub, worker, at, done>>

-----------------------------------------------------------------------------
(* The way of a message                                                    *)

\* NATS, external: past the pending limit the client drops what comes in.
Arrive(m) ==
    LET c == SubjectOf[m]
    IN  /\ at[m] = "away"
        /\ \A n \in Messages : n < m /\ SubjectOf[n] = c => at[n] # "away"
        /\ sub[c] = "on"
        /\ Move(m, IF Full(c, "pending") THEN "dropped" ELSE "pending")
        /\ UNCHANGED <<stage, sub, worker, done>>

\* NATS, external: one callback of a subscription runs at a time.
Deliver(m) ==
    LET c == SubjectOf[m]
    IN  /\ at[m] = "pending"
        /\ sub[c] = "on"
        /\ In(c, "callback") = {}
        /\ Move(m, "callback")
        /\ UNCHANGED <<stage, sub, worker, done>>

\* The callback's select: both branches may be ready.
Enqueue(m) ==
    /\ at[m] = "callback"
    /\ ~Full(SubjectOf[m], "queue")
    /\ Move(m, "queue")
    /\ UNCHANGED <<stage, sub, worker, done>>

GiveUp(m) ==
    /\ at[m] = "callback"
    /\ Cancelled(SubjectOf[m])
    /\ Move(m, "dropped")
    /\ UNCHANGED <<stage, sub, worker, done>>

SetWorker(c, w, s) == worker' = [worker EXCEPT ![c][w] = s]

\* A worker's select: both branches may be ready.
Take(m, w) ==
    LET c == SubjectOf[m]
    IN  /\ at[m] = "queue"
        /\ worker[c][w] = "idle"
        /\ Move(m, w)
        /\ SetWorker(c, w, "busy")
        /\ UNCHANGED <<stage, sub, done>>

\* Mutant: a worker leaves its loop when the handler fails.
AfterHandler_Leaves(outcome) == IF outcome = "failed" THEN "gone" ELSE "idle"

\* The handler's error is dropped, the worker goes on.
AfterHandler(outcome) == "idle"

BeginTx(c, w) ==
    /\ worker[c][w] = "busy"
    /\ SetWorker(c, w, "transaction")
    /\ UNCHANGED <<stage, sub, at, done>>

Commit(c, w) ==
    /\ worker[c][w] = "transaction"
    /\ SetWorker(c, w, "committed")
    /\ UNCHANGED <<stage, sub, at, done>>

\* The handler gives up before its commit, or has come to its end.
HandlerReturns(m, w) ==
    LET c       == SubjectOf[m]
        outcome == IF worker[c][w] = "committed" THEN "handled" ELSE "failed"
    IN  /\ at[m] = w
        /\ worker[c][w] \in Handling
        /\ Move(m, outcome)
        /\ SetWorker(c, w, AfterHandler(outcome))
        /\ UNCHANGED <<stage, sub, done>>

WorkerLeaves(c, w) ==
    /\ worker[c][w] = "idle"
    /\ Cancelled(c)
    /\ SetWorker(c, w, "gone")
    /\ UNCHANGED <<stage, sub, at, done>>

\* The callback goroutine of a subscription, and one worker goroutine.
Callback(c) == \E m \in Messages : SubjectOf[m] = c /\ (Deliver(m) \/ Enqueue(m) \/ GiveUp(m))

Handle(c, w) ==
    \/ Commit(c, w)
    \/ \E m \in Messages : SubjectOf[m] = c /\ HandlerReturns(m, w)
=============================================================================

------------------------------ MODULE Service -------------------------------
(***************************************************************************)
(* The life of a service process: serve, runWorkers and the readiness      *)
(* check of internal/platform/runtime/runtime.go, and the Run functions of *)
(* internal/bot/app/activation.go and internal/sessions/app/service.go,    *)
(* which start the consumers (module Consumer), the publisher and the      *)
(* reconciler and take them down again.                                    *)
(*                                                                         *)
(* Goroutines interleave; a step is what one does between two points where *)
(* it waits for another.  Publisher, reconciler and poller are "busy" while *)
(* they hold a connection of the database pool, for a statement or a       *)
(* transaction, and "idle" in between; handlers likewise (Consumer).       *)
(***************************************************************************)
EXTENDS Consumer, Sequences

CONSTANTS
    Order,  \* the subjects in the order Run subscribes to them
    Helpers \* the publisher and the reconciler, which run alike

ASSUME OrderAssumption ==
    /\ Order \in Seq(Subjects)
    /\ \A c \in Subjects : \E k \in DOMAIN Order : Order[k] = c
    /\ \A j, k \in DOMAIN Order : Order[j] = Order[k] => j = k
    /\ "poller" \notin Helpers

Jobs == Helpers \cup {"poller"}

VARIABLES
    polls,    \* rw-bot in mode direct_polling: runWorkers has a second worker
    main,     \* where serve is
    code,     \* what serve returns
    signal,   \* SIGINT or SIGTERM was received
    stopping, \* the context of serve is done: signal, or stop() was called
    reported, \* what the worker has sent to errorsChannel
    run,      \* where Run is, and at which consumer
    runErr,   \* what Run returns
    job,      \* publisher, reconciler and poller
    pollErr,  \* what the poller returns
    ready,    \* domainReady and telegramReady
    probe     \* a GET /health/ready under way, and its outcome

vars == <<consumerVars, polls, main, code, signal, stopping, reported,
          run, runErr, job, pollErr, ready, probe>>

serveVars == <<main, code, signal, stopping>>
runVars   == <<run, runErr>>
jobVars   == <<job, pollErr>>
probeVars == <<ready, probe>>

Outcome == {"none", "nil", "error"}

\* Every variable has its type.
TypeOK ==
    /\ ConsumerTypeOK
    /\ polls \in BOOLEAN
    /\ main \in {"serving", "http", "drain", "close", "pool", "exited"}
    /\ code \in Outcome /\ reported \in Outcome /\ runErr \in Outcome /\ pollErr \in Outcome
    /\ signal \in BOOLEAN /\ stopping \in BOOLEAN
    /\ run \in [pc : {"starting", "running", "stopping", "returned"},
                k : 1..(Len(Order) + 1)]
    /\ job \in [Jobs -> {"off", "identify", "idle", "busy", "ended"}]
    /\ ready \in [{"domain", "telegram"} -> BOOLEAN]
    /\ probe \in {"none", "ready", "not_ready"}

Init ==
    /\ ConsumerInit
    /\ polls \in BOOLEAN
    /\ main = "serving" /\ code = "none"
    /\ signal = FALSE /\ stopping = FALSE
    /\ reported = "none" /\ runErr = "none" /\ pollErr = "none"
    /\ run = [pc |-> "starting", k |-> 1]
    /\ job = [j \in Jobs |-> IF j = "poller" /\ polls THEN "identify" ELSE "off"]
    /\ ready = [part \in {"domain", "telegram"} |-> FALSE]
    /\ probe = "none"

-----------------------------------------------------------------------------
(* Run                                                                     *)

Current == Order[run.k]

\* Run goes on at pc, with the k-th consumer.
RunAt(pc, k) == run' = [pc |-> pc, k |-> k]

RunSubscribes ==
    /\ run.pc = "starting"
    /\ QueueSubscribe(Current)
    /\ UNCHANGED runVars

RunStartsWorkers ==
    /\ run.pc = "starting"
    /\ StartWorkers(Current)
    /\ RunAt("starting", run.k + 1)
    /\ UNCHANGED runErr

\* Mutant: the consumers started before are forgotten.
AfterFailedStart_Returns == [pc |-> "returned", k |-> run.k]

\* Stop is called on the consumers started before, then Run returns.
AfterFailedStart ==
    IF run.k = 1 THEN [pc |-> "returned", k |-> 1] ELSE [pc |-> "stopping", k |-> 1]

RunStartFails ==
    /\ run.pc = "starting"
    /\ StartFails(Current)
    /\ run' = AfterFailedStart
    /\ runErr' = "error"

RunConsumers ==
    /\ RunSubscribes \/ RunStartsWorkers \/ RunStartFails
    /\ UNCHANGED <<polls, serveVars, reported, jobVars, probeVars>>

\* Mutant: onReady is called before the consumers are started.
Wired_Early == run.pc = "starting"

\* Every StartConsumer has returned.
Wired == run.pc = "starting" /\ run.k > Len(Order)

\* onReady, and the helpers are started.
RunReady ==
    /\ Wired
    /\ RunAt("running", run.k)
    /\ job' = [j \in Jobs |-> IF j \in Helpers THEN "idle" ELSE job[j]]
    /\ ready' = [ready EXCEPT !.domain = TRUE]
    /\ UNCHANGED <<consumerVars, polls, serveVars, reported, runErr, pollErr, probe>>

\* The select of Run; publisher and reconciler return nothing but nil, and
\* that when the context is done.
RunWakes ==
    /\ run.pc = "running"
    /\ done
    /\ RunAt("stopping", 1)
    /\ runErr' = "nil"
    /\ UNCHANGED <<consumerVars, polls, serveVars, reported, jobVars, probeVars>>

Stoppable == {k \in DOMAIN Order : stage[Order[k]] \notin {"new", "failed"}}

\* Stop, consumer by consumer, then the return.
RunStops ==
    /\ run.pc = "stopping"
    /\ \/ StopCancel(Current) /\ UNCHANGED run
       \/ StopUnsubscribe(Current) /\ UNCHANGED run
       \/ /\ StopReturns(Current)
          /\ RunAt(IF run.k + 1 \in Stoppable THEN "stopping" ELSE "returned", run.k + 1)
    /\ UNCHANGED <<polls, serveVars, reported, runErr, jobVars, probeVars>>

Run == (run.k \in DOMAIN Order /\ (RunConsumers \/ RunStops)) \/ RunReady \/ RunWakes

-----------------------------------------------------------------------------
(* Publisher, reconciler and poller                                        *)

SetJob(j, s) == job' = [job EXCEPT ![j] = s]

\* getMe and deleteWebhook, then the poller calls back.
Identify ==
    /\ job["poller"] = "identify"
    /\ SetJob("poller", "idle")
    /\ ready' = [ready EXCEPT !.telegram = TRUE]
    /\ UNCHANGED <<consumerVars, polls, serveVars, reported, runVars, pollErr, probe>>

\* A connection is taken; the pool hands out none once it is being closed.
JobBegins(j) ==
    /\ job[j] = "idle"
    /\ main # "pool"
    /\ SetJob(j, "busy")
    /\ UNCHANGED <<consumerVars, polls, serveVars, reported, runVars, pollErr, probeVars>>

\* It is given back.
JobPasses(j) ==
    /\ job[j] = "busy"
    /\ SetJob(j, "idle")
    /\ UNCHANGED <<consumerVars, polls, serveVars, reported, runVars, pollErr, probeVars>>

\* The select of the loop, or GetUpdates that fails for the context.
JobReturns(j) ==
    /\ job[j] = "idle"
    /\ done
    /\ SetJob(j, "ended")
    /\ pollErr' = IF j = "poller" THEN "nil" ELSE pollErr
    /\ UNCHANGED <<consumerVars, polls, serveVars, reported, runVars, probeVars>>

\* The bot cannot be identified, or an update cannot be processed: in a
\* statement, for want of a connection, or in between.
PollerFails ==
    /\ job["poller"] \in {"identify", "idle", "busy"}
    /\ SetJob("poller", "ended")
    /\ pollErr' = "error"
    /\ UNCHANGED <<consumerVars, polls, serveVars, reported, runVars, probeVars>>

-----------------------------------------------------------------------------
(* runWorkers                                                              *)

\* Later than that, what the worker sends to errorsChannel is not read.
Report(outcome) == main = "serving" /\ reported = "none" /\ reported' = outcome

\* Without a poller, what Run returns is reported as it is: Run of
\* rw-active-sessions is the worker, and the runWorkers of a bot that does
\* not poll has nothing else to wait for.
ReportRun ==
    /\ ~polls
    /\ run.pc = "returned"
    /\ Report(runErr)
    /\ UNCHANGED <<consumerVars, polls, serveVars, runVars, jobVars, probeVars>>

\* The context is done: wait for both workers, forget what they return.
ReportBoth ==
    /\ polls
    /\ stopping
    /\ run.pc = "returned" /\ job["poller"] = "ended"
    /\ Report("nil")
    /\ UNCHANGED <<consumerVars, polls, serveVars, runVars, jobVars, probeVars>>

\* Mutant: the error is only logged.
FirstOutcome_Swallowed(outcome) == "nil"

FirstOutcome(outcome) == outcome

\* The first worker that returns takes the other one down, which is not
\* awaited.
ReportFirst ==
    /\ polls
    /\ \/ run.pc = "returned" /\ Report(FirstOutcome(runErr))
       \/ job["poller"] = "ended" /\ Report(FirstOutcome(pollErr))
    /\ done' = TRUE
    /\ UNCHANGED <<stage, sub, worker, at, polls, serveVars, runVars, jobVars, probeVars>>

-----------------------------------------------------------------------------
(* serve                                                                   *)

\* A signal that comes later changes nothing any more.
ReceiveSignal ==
    /\ main = "serving"
    /\ ~signal
    /\ signal' = TRUE /\ stopping' = TRUE /\ done' = TRUE
    /\ UNCHANGED <<stage, sub, worker, at, polls, main, code, reported,
                   runVars, jobVars, probeVars>>

\* What follows the select of serve: stop(), if the context is not done yet.
StartShutdown(outcome) ==
    /\ main = "serving"
    /\ main' = "http"
    /\ code' = outcome
    /\ reported' = "none"
    /\ stopping' = TRUE /\ done' = TRUE
    /\ UNCHANGED <<stage, sub, worker, at, polls, signal, runVars, jobVars, probeVars>>

\* Mutant: errorsChannel is not read.
ServeWakes_SignalOnly == stopping /\ StartShutdown("nil")

\* The context is done, or the worker has returned.
ServeWakes ==
    \/ stopping /\ StartShutdown("nil")
    \/ reported # "none" /\ StartShutdown(reported)

\* ListenAndServe returns an error.
ListenerFails == StartShutdown("error")

\* Shutdown of the HTTP servers has waited for the requests under way, or
\* its timeout has passed; NATS is drained, or that fails.
ServeShutsDown ==
    /\ \/ main = "http" /\ probe = "none" /\ main' = "drain" /\ UNCHANGED code
       \/ main = "http" /\ probe # "none" /\ main' = "close" /\ code' = "error"
       \/ main = "drain" /\ main' = "close" /\ code' \in {code, "error"}
    /\ UNCHANGED <<consumerVars, polls, signal, stopping, reported,
                   runVars, jobVars, probeVars>>

\* The deferred connection.Close().
ConnectionClose ==
    /\ main = "close"
    /\ main' = "pool"
    /\ Unsubscribed({c \in Subjects : sub[c] = "on"})
    /\ UNCHANGED <<stage, worker, done, polls, code, signal, stopping,
                   reported, runVars, jobVars, probeVars>>

\* The deferred pool.Close() waits for the connections in use, and for
\* nobody who holds none just now.
PoolIdle ==
    /\ \A c \in Subjects, w \in Workers : worker[c][w] # "transaction"
    /\ \A j \in Jobs : job[j] # "busy"

Exit ==
    /\ main = "pool"
    /\ PoolIdle
    /\ main' = "exited"
    /\ UNCHANGED <<consumerVars, polls, code, signal, stopping, reported,
                   runVars, jobVars, probeVars>>

Serve == ServeWakes \/ ServeShutsDown \/ ConnectionClose \/ Exit

-----------------------------------------------------------------------------
(* readyHandler                                                            *)

\* checkReady; database, schema and NATS may be in order or not.
Check ==
    /\ main = "serving"
    /\ probe = "none"
    /\ probe' \in {"not_ready"} \cup
                  (IF ready["domain"] /\ (polls => ready["telegram"]) THEN {"ready"} ELSE {})
    /\ UNCHANGED <<consumerVars, polls, serveVars, reported, runVars, jobVars, ready>>

Reply ==
    /\ probe # "none"
    /\ probe' = "none"
    /\ UNCHANGED <<consumerVars, polls, serveVars, reported, runVars, jobVars, ready>>

-----------------------------------------------------------------------------

Goroutine(A) == A /\ UNCHANGED <<polls, serveVars, reported, runVars, jobVars, probeVars>>

\* Once the pool is being closed BeginTx fails, and with it the handler.
WorkerStep(c, w) ==
    \/ \E m \in Messages : SubjectOf[m] = c /\ Take(m, w)
    \/ main # "pool" /\ BeginTx(c, w)
    \/ Handle(c, w)
    \/ WorkerLeaves(c, w)

JobStep(j) == JobBegins(j) \/ JobPasses(j) \/ JobReturns(j)

Supervise == ReportRun \/ ReportBoth \/ ReportFirst

Next ==
    /\ main # "exited"
    /\ \/ Run \/ Supervise \/ Serve \/ Identify \/ PollerFails
       \/ \E j \in Jobs : JobStep(j)
       \/ ReceiveSignal \/ ListenerFails \/ Check \/ Reply
       \/ Goroutine(\E m \in Messages : Arrive(m))
       \/ Goroutine(\E c \in Subjects : Callback(c))
       \/ Goroutine(\E c \in Subjects, w \in Workers : WorkerStep(c, w))

Spec == Init /\ [][Next]_vars

\* Steps of which a process takes finitely many, and that nobody may put
\* off: no failure of the poller is assumed.
Progress ==
    \/ Run \/ Supervise \/ Serve \/ Identify
    \/ Goroutine(\E c \in Subjects : Callback(c))
    \/ Goroutine(\E c \in Subjects, w \in Workers : WorkerStep(c, w))

Running(A) == main # "exited" /\ A

\* The Go scheduler does not stop as long as some goroutine can go on, and a
\* select with two ready branches does not take the same one for ever;
\* handlers and passes end (every statement has its timeout).
FairSpec ==
    /\ Spec
    /\ WF_vars(Running(Progress))
    /\ \A j \in Jobs : WF_vars(Running(JobPasses(j))) /\ SF_vars(Running(JobReturns(j)))

-----------------------------------------------------------------------------
(* Properties                                                              *)

\* Whenever Run has returned, on a failed start as on shutdown, none of its
\* consumers is left behind: no subscription, no goroutine in a handler.
NoOrphanConsumer ==
    run.pc = "returned" =>
        \A c \in Subjects :
            /\ sub[c] # "on"
            /\ \A w \in Workers : worker[c][w] \in {"off", "gone"}

\* /health/ready reports ready only when every consumer has been started
\* and, for a polling bot, Telegram has confirmed the bot's identity: it is
\* not fooled by a failed start.  And until the context is done, what it
\* has said is still so: each subscription is there, and all its workers.
ReadyMeansReceiving ==
    probe = "ready" =>
        /\ \A c \in Subjects : stage[c] \notin {"new", "starting", "failed"}
        /\ polls => job["poller"] \notin {"off", "identify"}
        /\ ~done => \A c \in Subjects :
              sub[c] = "on" /\ \A w \in Workers : worker[c][w] \notin {"off", "gone"}

\* A process nobody asked to stop ends with an error, so that it is
\* restarted.
ExitTellsFailure == main = "exited" /\ ~signal => code = "error"

\* A service that was asked to stop, or one of whose parts has failed, ends.
ShutdownCompletes ==
    (stopping \/ runErr = "error" \/ pollErr = "error")
        ~> main = "exited"

\* What a running service has received gets to the handlers: no callback
\* blocks for ever on a full channel, and no worker is lost on a message
\* that cannot be handled.
ReceivedIsHandled ==
    (\E m \in Messages : at[m] \in Waiting) ~> (done \/ \A m \in Messages : at[m] \notin Waiting)
=============================================================================

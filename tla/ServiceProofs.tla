---------------------------- MODULE ServiceProofs ----------------------------
(***************************************************************************)
(* The life of a service process, for any number of consumers, workers,    *)
(* messages and helpers.                                                   *)
(***************************************************************************)
EXTENDS Service, TLAPS

-----------------------------------------------------------------------------
(* The inductive invariant                                                 *)

Started(c) == stage[c] \notin {"new", "starting", "failed"}

\* What a consumer's stage says of its subscription and its goroutines.
StageTells ==
    \A c \in Subjects :
        /\ stage[c] \in {"new", "failed", "waiting", "stopped"} => sub[c] # "on"
        /\ ~Started(c) => \A w \in Workers : worker[c][w] = "off"
        /\ stage[c] = "stopped" => AllGone(c)

\* How far Run has got.  The consumers it has to stop are those before the
\* one that failed, or all of them: NoOrphanConsumer rests on Stop having
\* been called on each when the first that needs none is reached.
RunTells ==
    /\ run.pc = "starting" => \A j \in DOMAIN Order :
          /\ j < run.k => stage[Order[j]] = "up"
          /\ j = run.k => stage[Order[j]] \in {"new", "starting"}
          /\ j > run.k => stage[Order[j]] = "new"
    /\ run.pc = "running" => \A j \in DOMAIN Order : stage[Order[j]] = "up"
    /\ run.pc = "stopping" =>
          /\ \A j \in DOMAIN Order :
                /\ j < run.k => stage[Order[j]] = "stopped"
                /\ stage[Order[j]] # "starting"
          /\ \A i, j \in DOMAIN Order : i < j /\ j \in Stoppable => i \in Stoppable
    /\ run.pc = "returned" => \A j \in DOMAIN Order :
          stage[Order[j]] \in {"new", "failed", "stopped"}

\* What the readiness flags promise.
ReadyTells ==
    /\ ready["domain"] = TRUE =>
          run.pc # "starting" /\ \A j \in DOMAIN Order : Started(Order[j])
    /\ ready["telegram"] = TRUE => job["poller"] \notin {"off", "identify"}
    /\ probe = "ready" => ready["domain"] = TRUE /\ (polls = TRUE => ready["telegram"] = TRUE)

\* Until the context is done, a consumer that is being started or is up
\* keeps its subscription, one that is up keeps its workers, and a service
\* that has called onReady is still where it was then.
ServingTells ==
    /\ main # "serving" => done = TRUE
    /\ done = FALSE => \A c \in Subjects :
          /\ stage[c] \in {"starting", "up"} => sub[c] = "on"
          /\ stage[c] = "up" => \A w \in Workers : worker[c][w] \notin {"off", "gone"}
    /\ done = FALSE /\ ready["domain"] = TRUE => run.pc = "running"

\* What Run and the poller return while their context is not done.
OutcomesTell ==
    /\ done = FALSE /\ run.pc \in {"stopping", "returned"} => runErr = "error"
    /\ done = FALSE /\ job["poller"] = "ended" => pollErr = "error"

\* Why a process that nobody asked to stop has an error to end with: its
\* context is done only after an error was reported.
ServeTells ==
    /\ main = "serving" /\ signal = FALSE =>
          /\ stopping = FALSE
          /\ reported \in {"none", "error"}
          /\ done = TRUE => reported = "error"
    /\ main # "serving" /\ signal = FALSE => code = "error"

-----------------------------------------------------------------------------
(* Consumers and goroutines                                                *)

\* Order lists the subjects, each once.
LEMMA OrderFacts ==
    /\ Len(Order) \in Nat /\ DOMAIN Order = 1..Len(Order)
    /\ \A j \in DOMAIN Order : Order[j] \in Subjects
    /\ \A i, j \in DOMAIN Order : Order[i] = Order[j] => i = j
    /\ \A c \in Subjects : \E j \in DOMAIN Order : Order[j] = c
BY OrderAssumption

WorkersOK == worker \in [Subjects -> [Workers -> WorkerStates]]

\* What one goroutine may make of a worker: one that was not started, or
\* has left, stays so, and another leaves only when it is told to.
WorkersMove ==
    /\ WorkersOK'
    /\ \A c \in Subjects, w \in Workers :
          worker[c][w] \in {"off", "gone"} => worker'[c][w] = worker[c][w]
    /\ \A c \in Subjects, w \in Workers :
          worker[c][w] \notin {"off", "gone"} =>
              worker'[c][w] # "off" /\ (worker'[c][w] = "gone" => Cancelled(c))

\* What a goroutine of a consumer may do.
Moves ==
    /\ UNCHANGED <<stage, sub, done>>
    /\ at' \in [Messages -> Places]
    /\ WorkersMove

\* One worker changes its state.
LEMMA WorkerChange ==
    ASSUME WorkersOK, NEW c \in Subjects, NEW w \in Workers, NEW s \in WorkerStates,
           s # "off", s = "gone" => Cancelled(c),
           worker[c][w] \notin {"off", "gone"}, SetWorker(c, w, s)
    PROVE  WorkersMove
<1>1. WorkersOK'
  BY DEF WorkersOK, SetWorker
<1>2. /\ worker'[c][w] = s
      /\ \A d \in Subjects, x \in Workers : d # c \/ x # w => worker'[d][x] = worker[d][x]
  BY DEF WorkersOK, SetWorker
<1> QED BY <1>1, <1>2 DEF WorkersMove

\* Arrivals, callbacks and workers do no more than that.
LEMMA GoroutinesMove ==
    ASSUME TypeOK,
           \/ \E m \in Messages : Arrive(m)
           \/ \E c \in Subjects : Callback(c)
           \/ \E c \in Subjects, w \in Workers : WorkerStep(c, w)
    PROVE  Moves
<1>1. WorkersOK /\ at \in [Messages -> Places]
  BY DEF TypeOK, ConsumerTypeOK, WorkersOK
<1>2. \A m \in Messages : \A place \in Places : Move(m, place) => at' \in [Messages -> Places]
  BY <1>1 DEF Move
<1>3. \A m \in Messages : SubjectOf[m] \in Subjects
  BY ConsumerAssumption
<1>4. Workers \subseteq Places
      /\ {"pending", "dropped", "callback", "queue", "handled", "failed"} \subseteq Places
  BY DEF Places, Waiting
<1>5. ASSUME UNCHANGED <<stage, sub, done, worker>>, at' \in [Messages -> Places] PROVE Moves
  <2>1. \A c \in Subjects, w \in Workers : worker'[c][w] = worker[c][w]
    BY <1>5
  <2>2. WorkersOK'
    BY <1>1, <1>5 DEF WorkersOK
  <2> QED BY <1>5, <2>1, <2>2 DEF Moves, WorkersMove
<1>6. ASSUME NEW m \in Messages, Arrive(m) \/ Deliver(m) \/ Enqueue(m) \/ GiveUp(m)
      PROVE  Moves
  <2>1. UNCHANGED <<stage, sub, done, worker>>
    BY <1>6 DEF Arrive, Deliver, Enqueue, GiveUp
  <2>2. \E place \in Places : Move(m, place)
    BY <1>4, <1>6 DEF Arrive, Deliver, Enqueue, GiveUp
  <2> QED BY <1>2, <1>5, <2>1, <2>2
<1>7. {"idle", "busy", "transaction", "committed", "gone"} \subseteq WorkerStates
  BY DEF WorkerStates, Handling
<1>8. ASSUME NEW m \in Messages, NEW w \in Workers, Take(m, w) PROVE Moves
  <2>1. Move(m, w) /\ SetWorker(SubjectOf[m], w, "busy") /\ worker[SubjectOf[m]][w] = "idle"
        /\ UNCHANGED <<stage, sub, done>>
    BY <1>8 DEF Take
  <2>2. at' \in [Messages -> Places]
    BY <1>2, <1>4, <2>1
  <2>3. WorkersMove
    BY <1>1, <1>3, <1>7, <2>1, WorkerChange
  <2> QED BY <2>1, <2>2, <2>3 DEF Moves
<1>9. ASSUME NEW m \in Messages, NEW w \in Workers, HandlerReturns(m, w) PROVE Moves
  <2>1. PICK outcome \in {"handled", "failed"} :
           Move(m, outcome) /\ SetWorker(SubjectOf[m], w, AfterHandler(outcome))
    BY <1>9 DEF HandlerReturns
  <2>2. worker[SubjectOf[m]][w] \in Handling /\ UNCHANGED <<stage, sub, done>>
    BY <1>9 DEF HandlerReturns
  <2>3. at' \in [Messages -> Places]
    BY <1>2, <1>4, <2>1
  <2>4. SetWorker(SubjectOf[m], w, "idle") /\ worker[SubjectOf[m]][w] \notin {"off", "gone"}
    BY <2>1, <2>2 DEF AfterHandler, Handling
  <2>5. WorkersMove
    BY <1>1, <1>3, <1>7, <2>4, WorkerChange
  <2> QED BY <2>2, <2>3, <2>5 DEF Moves
<1>10. ASSUME NEW c \in Subjects, NEW w \in Workers, BeginTx(c, w) \/ Commit(c, w) PROVE Moves
  <2>1. PICK s \in {"transaction", "committed"} : SetWorker(c, w, s)
    BY <1>10 DEF BeginTx, Commit
  <2>2. worker[c][w] \notin {"off", "gone"} /\ UNCHANGED <<stage, sub, at, done>>
    BY <1>10 DEF BeginTx, Commit
  <2>3. WorkersMove
    BY <1>1, <1>7, <2>1, <2>2, WorkerChange
  <2> QED BY <1>1, <2>2, <2>3 DEF Moves
<1>11. ASSUME NEW c \in Subjects, NEW w \in Workers, WorkerLeaves(c, w) PROVE Moves
  <2>1. /\ SetWorker(c, w, "gone") /\ worker[c][w] = "idle" /\ Cancelled(c)
        /\ UNCHANGED <<stage, sub, at, done>>
    BY <1>11 DEF WorkerLeaves
  <2>2. WorkersMove
    BY <1>1, <1>7, <2>1, WorkerChange
  <2> QED BY <1>1, <2>1, <2>2 DEF Moves
<1> QED BY <1>6, <1>8, <1>9, <1>10, <1>11 DEF Callback, WorkerStep, Handle

\* Unsubscribe keeps the types and subscribes nobody.
LEMMA UnsubscribedType ==
    ASSUME TypeOK, NEW cs, Unsubscribed(cs)
    PROVE  /\ sub' \in [Subjects -> {"none", "on", "off"}]
           /\ at' \in [Messages -> Places]
           /\ \A c \in Subjects : sub'[c] \in {sub[c], "off"}
           /\ \A c \in Subjects \cap cs : sub'[c] = "off"
<1>1. "dropped" \in Places
  BY DEF Places
<1> QED BY <1>1 DEF TypeOK, ConsumerTypeOK, Unsubscribed

-----------------------------------------------------------------------------
(* Type correctness                                                        *)

\* Run's calls on a consumer, as seen by the types.
LEMMA ConsumerCallTypes ==
    ASSUME TypeOK, NEW c \in Subjects,
           \/ QueueSubscribe(c) \/ StartWorkers(c) \/ StartFails(c)
           \/ StopCancel(c) \/ StopUnsubscribe(c) \/ StopReturns(c)
    PROVE  ConsumerTypeOK' /\ done' = done
<1>1. \A s \in Stages : SetStage(c, s) => stage' \in [Subjects -> Stages]
  BY DEF TypeOK, ConsumerTypeOK, SetStage
<1>2. {"starting", "up", "failed", "cancelled", "waiting", "stopped"} \subseteq Stages
  BY DEF Stages
<1>3. stage' \in [Subjects -> Stages]
  BY <1>1, <1>2
     DEF QueueSubscribe, StartWorkers, StartFails, StopCancel, StopUnsubscribe, StopReturns
<1>4. sub' \in [Subjects -> {"none", "on", "off"}] /\ at' \in [Messages -> Places]
  <2>1. CASE UNCHANGED <<sub, at>>
    BY <2>1 DEF TypeOK, ConsumerTypeOK
  <2>2. CASE Unsubscribed({c})
    BY <2>2, UnsubscribedType
  <2>3. CASE QueueSubscribe(c)
    BY <2>3 DEF QueueSubscribe, TypeOK, ConsumerTypeOK
  <2> QED BY <2>1, <2>2, <2>3
          DEF StartWorkers, StartFails, StopCancel, StopUnsubscribe, StopReturns
<1>5. worker' \in [Subjects -> [Workers -> WorkerStates]]
  <2>1. CASE UNCHANGED worker
    BY <2>1 DEF TypeOK, ConsumerTypeOK
  <2>2. CASE StartWorkers(c)
    BY <2>2 DEF StartWorkers, TypeOK, ConsumerTypeOK, WorkerStates
  <2> QED BY <2>1, <2>2 DEF QueueSubscribe, StartFails, StopCancel, StopUnsubscribe, StopReturns
<1>6. done' = done
  BY DEF QueueSubscribe, StartWorkers, StartFails, StopCancel, StopUnsubscribe, StopReturns
<1>7. done' \in BOOLEAN
  BY <1>6 DEF TypeOK, ConsumerTypeOK
<1> QED BY <1>3, <1>4, <1>5, <1>6, <1>7 DEF ConsumerTypeOK

RunOK ==
    run \in [pc : {"starting", "running", "stopping", "returned"}, k : 1..(Len(Order) + 1)]

\* What Run does to its own place.
LEMMA RunTypes ==
    ASSUME TypeOK, Run
    PROVE  TypeOK'
<1>1. RunOK /\ Len(Order) \in Nat /\ DOMAIN Order = 1..Len(Order)
  BY OrderFacts DEF RunOK, TypeOK
<1>2. \A pc \in {"starting", "running", "stopping", "returned"}, k \in 1..(Len(Order) + 1) :
          RunAt(pc, k) => RunOK'
  BY DEF RunAt, RunOK
<1>3. 1 \in 1..(Len(Order) + 1)
      /\ \A k \in DOMAIN Order : k \in 1..(Len(Order) + 1) /\ k + 1 \in 1..(Len(Order) + 1)
  BY <1>1
<1>4. CASE run.k \in DOMAIN Order /\ RunConsumers
  <2>1. Current \in Subjects
    BY <1>4, OrderFacts DEF Current
  <2>2. ConsumerTypeOK' /\ done' = done
    BY <1>4, <2>1, ConsumerCallTypes
       DEF RunConsumers, RunSubscribes, RunStartsWorkers, RunStartFails
  <2>3. RunOK' /\ runErr' \in {runErr, "error"}
    <3>1. CASE RunSubscribes
      BY <1>1, <3>1 DEF RunSubscribes, runVars, RunOK
    <3>2. CASE RunStartsWorkers
      BY <1>2, <1>3, <1>4, <3>2 DEF RunStartsWorkers
    <3>3. CASE RunStartFails
      BY <1>3, <1>4, <3>3 DEF RunStartFails, AfterFailedStart, RunOK
    <3> QED BY <1>4, <3>1, <3>2, <3>3 DEF RunConsumers
  <2>4. UNCHANGED <<polls, main, code, signal, stopping, reported, job, pollErr, ready, probe>>
    BY <1>4 DEF RunConsumers, serveVars, jobVars, probeVars
  <2> QED BY <2>2, <2>3, <2>4 DEF TypeOK, RunOK, Outcome
<1>5. CASE run.k \in DOMAIN Order /\ RunStops
  <2>1. Current \in Subjects
    BY <1>5, OrderFacts DEF Current
  <2>2. ConsumerTypeOK' /\ done' = done
    BY <1>5, <2>1, ConsumerCallTypes DEF RunStops
  <2>3. RunOK'
    <3>1. CASE UNCHANGED run
      BY <1>1, <3>1 DEF RunOK
    <3>2. CASE RunAt(IF run.k + 1 \in Stoppable THEN "stopping" ELSE "returned", run.k + 1)
      BY <1>2, <1>3, <1>5, <3>2
    <3> QED BY <1>5, <3>1, <3>2 DEF RunStops
  <2>4. UNCHANGED <<polls, main, code, signal, stopping, reported, runErr, job, pollErr,
                    ready, probe>>
    BY <1>5 DEF RunStops, serveVars, jobVars, probeVars
  <2> QED BY <2>2, <2>3, <2>4 DEF TypeOK, RunOK
<1>6. CASE RunReady
  <2>1. RunOK'
    BY <1>1, <1>2, <1>6 DEF RunReady, RunOK
  <2>2. job' \in [Jobs -> {"off", "identify", "idle", "busy", "ended"}]
    BY <1>6 DEF RunReady, TypeOK
  <2>3. ready' \in [{"domain", "telegram"} -> BOOLEAN]
    BY <1>6 DEF RunReady, TypeOK
  <2>4. UNCHANGED <<stage, sub, worker, at, done, polls, main, code, signal, stopping,
                    reported, runErr, pollErr, probe>>
    BY <1>6 DEF RunReady, consumerVars, serveVars
  <2> QED BY <2>1, <2>2, <2>3, <2>4 DEF TypeOK, ConsumerTypeOK, RunOK
<1>7. CASE RunWakes
  <2>1. RunOK' /\ runErr' = "nil"
    BY <1>2, <1>3, <1>7 DEF RunWakes
  <2>2. UNCHANGED <<stage, sub, worker, at, done, polls, main, code, signal, stopping,
                    reported, job, pollErr, ready, probe>>
    BY <1>7 DEF RunWakes, consumerVars, serveVars, jobVars, probeVars
  <2> QED BY <2>1, <2>2 DEF TypeOK, ConsumerTypeOK, RunOK, Outcome
<1> QED BY <1>4, <1>5, <1>6, <1>7 DEF Run

\* The jobs and the probes keep the types.
LEMMA JobTypes ==
    ASSUME TypeOK,
           \/ Identify \/ PollerFails \/ Check \/ Reply
           \/ \E j \in Jobs : JobStep(j)
    PROVE  TypeOK'
<1>1. \A j \in Jobs, s \in {"off", "identify", "idle", "busy", "ended"} :
          SetJob(j, s) => job' \in [Jobs -> {"off", "identify", "idle", "busy", "ended"}]
  BY DEF TypeOK, SetJob
<1>2. "poller" \in Jobs
  BY DEF Jobs
<1>3. UNCHANGED <<stage, sub, worker, at, done, polls, main, code, signal, stopping,
                  reported, run, runErr>>
  BY DEF Identify, PollerFails, Check, Reply, JobStep, JobBegins, JobPasses, JobReturns,
         consumerVars, serveVars, runVars
<1>4. job' \in [Jobs -> {"off", "identify", "idle", "busy", "ended"}]
  <2>1. CASE UNCHANGED job
    BY <2>1 DEF TypeOK
  <2>2. CASE Identify \/ PollerFails
    BY <1>1, <1>2, <2>2 DEF Identify, PollerFails
  <2>3. ASSUME NEW j \in Jobs, JobStep(j)
        PROVE  job' \in [Jobs -> {"off", "identify", "idle", "busy", "ended"}]
    BY <1>1, <2>3 DEF JobStep, JobBegins, JobPasses, JobReturns
  <2> QED BY <2>1, <2>2, <2>3 DEF Check, Reply, jobVars
<1>5. pollErr' \in Outcome
  BY DEF TypeOK, Outcome, Identify, PollerFails, Check, Reply, JobStep, JobBegins, JobPasses,
         JobReturns, jobVars
<1>6. ready' \in [{"domain", "telegram"} -> BOOLEAN]
  <2>1. CASE UNCHANGED ready
    BY <2>1 DEF TypeOK
  <2>2. CASE Identify
    BY <2>2 DEF Identify, TypeOK
  <2> QED BY <2>1, <2>2 DEF PollerFails, Check, Reply, JobStep, JobBegins, JobPasses,
         JobReturns, probeVars
<1>7. probe' \in {"none", "ready", "not_ready"}
  <2>1. CASE UNCHANGED probe
    BY <2>1 DEF TypeOK
  <2>2. CASE Check \/ Reply
    BY <2>2 DEF Check, Reply
  <2> QED BY <2>1, <2>2 DEF Identify, PollerFails, JobStep, JobBegins, JobPasses,
         JobReturns, probeVars
<1> QED BY <1>3, <1>4, <1>5, <1>6, <1>7 DEF TypeOK, ConsumerTypeOK

\* So do runWorkers and serve.
LEMMA ServeTypes ==
    ASSUME TypeOK, Supervise \/ Serve \/ ReceiveSignal \/ ListenerFails
    PROVE  TypeOK'
<1>1. CASE Supervise
  <2>1. UNCHANGED <<stage, sub, worker, at, polls, main, code, signal, stopping, run, runErr,
                    job, pollErr, ready, probe>>
    BY <1>1 DEF Supervise, ReportRun, ReportBoth, ReportFirst, consumerVars, serveVars,
       runVars, jobVars, probeVars
  <2>2. reported' \in Outcome
    BY <1>1 DEF Supervise, ReportRun, ReportBoth, ReportFirst, Report, FirstOutcome, TypeOK, Outcome
  <2>3. done' \in BOOLEAN
    BY <1>1 DEF Supervise, ReportRun, ReportBoth, ReportFirst, consumerVars, TypeOK,
       ConsumerTypeOK
  <2> QED BY <2>1, <2>2, <2>3 DEF TypeOK, ConsumerTypeOK
<1>2. ASSUME NEW outcome \in Outcome, StartShutdown(outcome) PROVE TypeOK'
  BY <1>2 DEF StartShutdown, TypeOK, ConsumerTypeOK, Outcome, runVars, jobVars, probeVars
<1>3. CASE ServeWakes \/ ListenerFails
  <2>1. {"nil", "error", reported} \subseteq Outcome
    BY DEF TypeOK, Outcome
  <2> QED BY <1>2, <1>3, <2>1 DEF ServeWakes, ListenerFails
<1>4. CASE ReceiveSignal
  BY <1>4 DEF ReceiveSignal, TypeOK, ConsumerTypeOK, runVars, jobVars, probeVars
<1>5. CASE ServeShutsDown
  BY <1>5 DEF ServeShutsDown, TypeOK, ConsumerTypeOK, Outcome, consumerVars, runVars, jobVars,
     probeVars
<1>6. CASE ConnectionClose
  <2>1. sub' \in [Subjects -> {"none", "on", "off"}] /\ at' \in [Messages -> Places]
    BY <1>6, UnsubscribedType DEF ConnectionClose
  <2> QED BY <1>6, <2>1
          DEF ConnectionClose, TypeOK, ConsumerTypeOK, runVars, jobVars, probeVars
<1>7. CASE Exit
  BY <1>7 DEF Exit, TypeOK, ConsumerTypeOK, consumerVars, runVars, jobVars, probeVars
<1> QED BY <1>1, <1>3, <1>4, <1>5, <1>6, <1>7 DEF Serve

\* A step of a consumer's goroutine.
GoroutineStep ==
    /\ Moves
    /\ UNCHANGED <<polls, main, code, signal, stopping, reported, run, runErr, job, pollErr,
                   ready, probe>>

\* Every step by name.
LEMMA StepNames ==
    ASSUME TypeOK, [Next]_vars
    PROVE  \/ Run \/ Supervise \/ Serve \/ ReceiveSignal \/ ListenerFails
           \/ Identify \/ PollerFails \/ Check \/ Reply
           \/ \E j \in Jobs : JobStep(j)
           \/ GoroutineStep
           \/ UNCHANGED vars
<1>1. ASSUME \/ Goroutine(\E m \in Messages : Arrive(m))
             \/ Goroutine(\E c \in Subjects : Callback(c))
             \/ Goroutine(\E c \in Subjects, w \in Workers : WorkerStep(c, w))
      PROVE  GoroutineStep
  <2>1. Moves
    BY <1>1, GoroutinesMove DEF Goroutine
  <2> QED BY <1>1, <2>1 DEF Goroutine, GoroutineStep, serveVars, runVars, jobVars, probeVars
<1> QED BY <1>1 DEF Next

\* Every step keeps the types.
LEMMA NextType == TypeOK /\ [Next]_vars => TypeOK'
<1> SUFFICES ASSUME TypeOK, [Next]_vars PROVE TypeOK'
  OBVIOUS
<1>1. CASE GoroutineStep
  BY <1>1 DEF GoroutineStep, Moves, WorkersMove, WorkersOK, TypeOK, ConsumerTypeOK
<1>2. CASE UNCHANGED vars
  BY <1>2 DEF vars, consumerVars, serveVars, runVars, jobVars, probeVars, TypeOK, ConsumerTypeOK
<1> QED BY <1>1, <1>2, StepNames, RunTypes, JobTypes, ServeTypes

\* Every variable of a service process keeps its type, in whatever order
\* its goroutines run; in particular Run, on its way up and on its way
\* down, never goes past the end of its list of consumers.
THEOREM TypeCorrect == Spec => []TypeOK
<1>1. Init => TypeOK
  <2> SUFFICES ASSUME Init PROVE TypeOK
    OBVIOUS
  <2>1. ConsumerTypeOK
    BY DEF Init, ConsumerInit, ConsumerTypeOK, Stages, Places, WorkerStates
  <2>2. run \in [pc : {"starting", "running", "stopping", "returned"}, k : 1..(Len(Order) + 1)]
    BY OrderFacts DEF Init
  <2>3. ready \in [{"domain", "telegram"} -> BOOLEAN]
    BY DEF Init
  <2>4. job \in [Jobs -> {"off", "identify", "idle", "busy", "ended"}]
    BY DEF Init
  <2> QED BY <2>1, <2>2, <2>3, <2>4 DEF Init, TypeOK, Outcome
<1> QED BY <1>1, NextType, PTL DEF Spec

-----------------------------------------------------------------------------
(* Run and its consumers                                                   *)

PlaceInv == StageTells /\ RunTells

\* Which consumer a call changes, by position.
LEMMA StageSet ==
    ASSUME TypeOK, run.k \in DOMAIN Order, NEW s, SetStage(Current, s)
    PROVE  /\ Current \in Subjects /\ Order[run.k] = Current
           /\ stage'[Current] = s
           /\ \A c \in Subjects : c # Current => stage'[c] = stage[c]
           /\ \A j \in DOMAIN Order :
                 stage'[Order[j]] = IF j = run.k THEN s ELSE stage[Order[j]]
<1>1. Current \in Subjects /\ Order[run.k] = Current
  BY OrderFacts DEF Current
<1>2. stage \in [Subjects -> Stages] /\ stage' = [stage EXCEPT ![Current] = s]
  BY DEF TypeOK, ConsumerTypeOK, SetStage
<1>3. \A j \in DOMAIN Order : Order[j] \in Subjects /\ (Order[j] = Current <=> j = run.k)
  BY <1>1, OrderFacts
<1> QED BY <1>1, <1>2, <1>3

\* A consumer that is changed by a call has what its new stage says if all
\* others are left alone.
LEMMA StageTellsOne ==
    ASSUME StageTells, NEW c \in Subjects,
           \A d \in Subjects \ {c} :
               /\ stage'[d] = stage[d] /\ sub'[d] = sub[d] /\ worker'[d] = worker[d],
           stage'[c] \in {"new", "failed", "waiting", "stopped"} => sub'[c] # "on",
           stage'[c] \in {"new", "starting", "failed"} => \A w \in Workers : worker'[c][w] = "off",
           stage'[c] = "stopped" => \A w \in Workers : worker'[c][w] = "gone"
    PROVE  StageTells'
<1> SUFFICES ASSUME NEW d \in Subjects
             PROVE  /\ stage'[d] \in {"new", "failed", "waiting", "stopped"} => sub'[d] # "on"
                    /\ stage'[d] \in {"new", "starting", "failed"} =>
                          \A w \in Workers : worker'[d][w] = "off"
                    /\ stage'[d] = "stopped" => \A w \in Workers : worker'[d][w] = "gone"
  BY DEF StageTells, Started, AllGone
<1>1. CASE d = c
  BY <1>1
<1>2. CASE d # c
  BY <1>2 DEF StageTells, Started, AllGone
<1> QED BY <1>1, <1>2

\* Unsubscribing one consumer leaves the others alone.
LEMMA UnsubscribedOne ==
    ASSUME TypeOK, NEW c \in Subjects, Unsubscribed({c})
    PROVE  sub'[c] = "off" /\ \A d \in Subjects \ {c} : sub'[d] = sub[d]
BY DEF Unsubscribed

\* Run on its way up.
LEMMA StartPlaces ==
    ASSUME TypeOK, PlaceInv, run.k \in DOMAIN Order, RunConsumers
    PROVE  PlaceInv'
<1> DEFINE c == Current
<1>0. run.pc = "starting" /\ run.k \in Nat /\ run.k \in 1..Len(Order)
  BY OrderFacts DEF RunConsumers, RunSubscribes, RunStartsWorkers, RunStartFails
<1>1. \A j \in DOMAIN Order : /\ j \in Nat
                              /\ j < run.k => stage[Order[j]] = "up"
                              /\ j = run.k => stage[Order[j]] \in {"new", "starting"}
                              /\ j > run.k => stage[Order[j]] = "new"
  BY <1>0, OrderFacts DEF PlaceInv, RunTells
<1>2. c \in Subjects /\ StageTells /\ worker \in [Subjects -> [Workers -> WorkerStates]]
      /\ sub \in [Subjects -> {"none", "on", "off"}]
  BY OrderFacts DEF PlaceInv, Current, TypeOK, ConsumerTypeOK
<1>3. CASE RunSubscribes
  <2>1. /\ stage[c] = "new" /\ SetStage(c, "starting") /\ sub' = [sub EXCEPT ![c] = "on"]
        /\ worker' = worker /\ run' = run
    BY <1>3 DEF RunSubscribes, QueueSubscribe, runVars
  <2>2. /\ stage'[c] = "starting" /\ \A d \in Subjects : d # c => stage'[d] = stage[d]
        /\ \A j \in DOMAIN Order :
              stage'[Order[j]] = IF j = run.k THEN "starting" ELSE stage[Order[j]]
    BY <2>1, StageSet
  <2>3. \A w \in Workers : worker'[c][w] = "off"
    BY <1>2, <2>1 DEF StageTells, Started
  <2>4. StageTells'
    BY <1>2, <2>1, <2>2, <2>3, StageTellsOne
  <2>5. RunTells'
    BY <1>0, <1>1, <2>1, <2>2 DEF RunTells
  <2> QED BY <2>4, <2>5 DEF PlaceInv
<1>4. CASE RunStartsWorkers
  <2>1. /\ SetStage(c, "up") /\ sub' = sub
        /\ worker' = [worker EXCEPT ![c] = [w \in Workers |-> "idle"]]
        /\ run' = [pc |-> "starting", k |-> run.k + 1]
    BY <1>4 DEF RunStartsWorkers, StartWorkers, RunAt
  <2>2. /\ stage'[c] = "up" /\ \A d \in Subjects : d # c => stage'[d] = stage[d]
        /\ \A j \in DOMAIN Order :
              stage'[Order[j]] = IF j = run.k THEN "up" ELSE stage[Order[j]]
    BY <2>1, StageSet
  <2>3. StageTells'
    BY <1>2, <2>1, <2>2, StageTellsOne
  <2>4. run'.pc = "starting" /\ run'.k = run.k + 1
    BY <2>1
  <2>5. \A j \in DOMAIN Order : /\ j < run.k + 1 => stage'[Order[j]] = "up"
                                /\ j >= run.k + 1 => stage'[Order[j]] = "new"
    BY <1>0, <1>1, <2>2
  <2>6. RunTells'
    BY <1>0, <1>1, <2>4, <2>5 DEF RunTells
  <2> QED BY <2>3, <2>6 DEF PlaceInv
<1>5. CASE RunStartFails
  <2>1. /\ stage[c] \in {"new", "starting"} /\ SetStage(c, "failed") /\ worker' = worker
        /\ run' = AfterFailedStart
        /\ IF stage[c] = "starting" THEN Unsubscribed({c}) ELSE UNCHANGED <<sub, at>>
    BY <1>5 DEF RunStartFails, StartFails
  <2>2. /\ stage'[c] = "failed" /\ \A d \in Subjects : d # c => stage'[d] = stage[d]
        /\ \A j \in DOMAIN Order :
              stage'[Order[j]] = IF j = run.k THEN "failed" ELSE stage[Order[j]]
    BY <2>1, StageSet
  <2>3. sub'[c] # "on" /\ \A d \in Subjects \ {c} : sub'[d] = sub[d]
    <3>1. CASE stage[c] = "starting"
      BY <1>2, <2>1, <3>1, UnsubscribedOne
    <3>2. CASE stage[c] = "new"
      BY <1>2, <2>1, <3>2 DEF StageTells
    <3> QED BY <2>1, <3>1, <3>2
  <2>4. \A w \in Workers : worker'[c][w] = "off"
    BY <1>2, <2>1 DEF StageTells, Started
  <2>5. StageTells'
    BY <1>2, <2>1, <2>2, <2>3, <2>4, StageTellsOne
  <2>6. \A j \in DOMAIN Order : /\ j < run.k => stage'[Order[j]] = "up"
                                /\ j = run.k => stage'[Order[j]] = "failed"
                                /\ j > run.k => stage'[Order[j]] = "new"
    BY <1>0, <1>1, <2>2
  <2>7. CASE run.k = 1
    <3>1. run'.pc = "returned"
      BY <2>1, <2>7 DEF AfterFailedStart
    <3>2. \A j \in DOMAIN Order : stage'[Order[j]] \in {"new", "failed", "stopped"}
      BY <1>1, <2>6, <2>7, OrderFacts
    <3>3. RunTells'
      BY <3>1, <3>2 DEF RunTells
    <3> QED BY <2>5, <3>3 DEF PlaceInv
  <2>8. CASE run.k # 1
    <3>1. run'.pc = "stopping" /\ run'.k = 1
      BY <2>1, <2>8 DEF AfterFailedStart
    <3>2. \A j \in DOMAIN Order : ~(j < 1) /\ stage'[Order[j]] # "starting"
      BY <1>0, <1>1, <2>6, OrderFacts
    <3>3. \A j \in DOMAIN Order : j \in Stoppable' <=> j < run.k
      BY <1>0, <1>1, <2>6 DEF Stoppable
    <3>4. \A i, j \in DOMAIN Order : i < j /\ j \in Stoppable' => i \in Stoppable'
      BY <1>0, <1>1, <3>3
    <3>5. RunTells'
      BY <3>1, <3>2, <3>4 DEF RunTells
    <3> QED BY <2>5, <3>5 DEF PlaceInv
  <2> QED BY <2>7, <2>8
<1> QED BY <1>3, <1>4, <1>5 DEF RunConsumers

\* Run on its way down.  It returns at the first consumer that needs no
\* Stop, and none after that one needs it either.
LEMMA StopPlaces ==
    ASSUME TypeOK, PlaceInv, run.k \in DOMAIN Order, RunStops
    PROVE  PlaceInv'
<1> DEFINE c == Current
<1>0. run.pc = "stopping" /\ run.k \in Nat /\ \A j \in DOMAIN Order : j \in Nat
  BY OrderFacts DEF RunStops
<1>1. /\ \A j \in DOMAIN Order : /\ j < run.k => stage[Order[j]] = "stopped"
                                 /\ stage[Order[j]] # "starting"
      /\ \A i, j \in DOMAIN Order : i < j /\ j \in Stoppable => i \in Stoppable
  BY <1>0 DEF PlaceInv, RunTells
<1>2. /\ c \in Subjects /\ StageTells /\ Order[run.k] = c
      /\ worker' = worker
  BY OrderFacts
     DEF PlaceInv, Current, RunStops, StopCancel, StopUnsubscribe, StopReturns
<1>3. ASSUME NEW s \in {"cancelled", "waiting", "stopped"}, SetStage(c, s),
             stage[c] \notin {"new", "failed"}
      PROVE  /\ stage'[c] = s /\ \A d \in Subjects : d # c => stage'[d] = stage[d]
             /\ \A j \in DOMAIN Order :
                   /\ j < run.k => stage'[Order[j]] = "stopped"
                   /\ j # run.k => stage'[Order[j]] = stage[Order[j]]
                   /\ stage'[Order[j]] # "starting"
             /\ Stoppable' = Stoppable
  <2>1. /\ stage'[c] = s /\ \A d \in Subjects : d # c => stage'[d] = stage[d]
        /\ \A j \in DOMAIN Order :
              stage'[Order[j]] = IF j = run.k THEN s ELSE stage[Order[j]]
    BY <1>3, StageSet
  <2>2. Stoppable' = Stoppable
    BY <1>2, <1>3, <2>1 DEF Stoppable
  <2> QED BY <1>0, <1>1, <2>1, <2>2
<1>4. CASE StopCancel(c) /\ UNCHANGED run
  <2>1. stage[c] = "up" /\ SetStage(c, "cancelled") /\ sub' = sub
    BY <1>4 DEF StopCancel
  <2>2. StageTells'
    BY <1>2, <1>3, <2>1, StageTellsOne
  <2>3. RunTells'
    BY <1>0, <1>1, <1>3, <1>4, <2>1 DEF RunTells
  <2> QED BY <2>2, <2>3 DEF PlaceInv
<1>5. CASE StopUnsubscribe(c) /\ UNCHANGED run
  <2>1. stage[c] = "cancelled" /\ SetStage(c, "waiting") /\ Unsubscribed({c})
    BY <1>5 DEF StopUnsubscribe
  <2>2. sub'[c] = "off" /\ \A d \in Subjects \ {c} : sub'[d] = sub[d]
    BY <1>2, <2>1, UnsubscribedOne
  <2>3. StageTells'
    BY <1>2, <1>3, <2>1, <2>2, StageTellsOne
  <2>4. RunTells'
    BY <1>0, <1>1, <1>3, <1>5, <2>1 DEF RunTells
  <2> QED BY <2>3, <2>4 DEF PlaceInv
<1>6. CASE /\ StopReturns(c)
           /\ RunAt(IF run.k + 1 \in Stoppable THEN "stopping" ELSE "returned", run.k + 1)
  <2>1. stage[c] = "waiting" /\ AllGone(c) /\ SetStage(c, "stopped") /\ sub' = sub
    BY <1>6 DEF StopReturns
  <2>2. /\ stage'[c] = "stopped" /\ \A d \in Subjects : d # c => stage'[d] = stage[d]
        /\ \A j \in DOMAIN Order :
              /\ j < run.k => stage'[Order[j]] = "stopped"
              /\ j # run.k => stage'[Order[j]] = stage[Order[j]]
              /\ stage'[Order[j]] # "starting"
        /\ Stoppable' = Stoppable
    BY <1>3, <2>1
  <2>3. sub'[c] # "on"
    BY <1>2, <2>1 DEF StageTells
  <2>4. StageTells'
    BY <1>2, <2>1, <2>2, <2>3, StageTellsOne DEF AllGone
  <2>5. \A j \in DOMAIN Order : j < run.k + 1 => stage'[Order[j]] = "stopped"
    BY <1>0, <1>2, <2>2
  <2>6. run'.k = run.k + 1
    BY <1>6 DEF RunAt
  <2>7. CASE run.k + 1 \in Stoppable
    <3>1. run'.pc = "stopping"
      BY <1>6, <2>7 DEF RunAt
    <3> QED BY <1>1, <2>2, <2>4, <2>5, <2>6, <3>1 DEF PlaceInv, RunTells
  <2>8. CASE run.k + 1 \notin Stoppable
    <3>1. run'.pc = "returned"
      BY <1>6, <2>8 DEF RunAt
    <3>2. ASSUME NEW j \in DOMAIN Order PROVE stage'[Order[j]] \in {"new", "failed", "stopped"}
      <4>1. CASE j < run.k + 1
        BY <2>5, <4>1
      <4>2. CASE j >= run.k + 1
        <5>1. run.k + 1 \in DOMAIN Order
          BY <1>0, <4>2, OrderFacts
        <5>2. j \notin Stoppable
          BY <1>0, <1>1, <2>8, <4>2, <5>1
        <5>3. stage[Order[j]] \in {"new", "failed"}
          BY <5>2 DEF Stoppable
        <5> QED BY <1>0, <2>2, <4>2, <5>3
      <4> QED BY <1>0, <4>1, <4>2
    <3>3. RunTells'
      BY <3>1, <3>2 DEF RunTells
    <3> QED BY <2>4, <3>3 DEF PlaceInv
  <2> QED BY <2>7, <2>8
<1> QED BY <1>4, <1>5, <1>6 DEF RunStops

\* The steps of Run between the two.
LEMMA TurnPlaces ==
    ASSUME TypeOK, PlaceInv, RunReady \/ RunWakes
    PROVE  PlaceInv'
<1>1. UNCHANGED <<stage, sub, worker>>
  BY DEF RunReady, RunWakes, consumerVars
<1>2. StageTells'
  BY <1>1 DEF PlaceInv, StageTells, Started, AllGone
<1>3. \A j \in DOMAIN Order : stage[Order[j]] = "up"
  BY OrderFacts DEF RunReady, RunWakes, Wired, PlaceInv, RunTells, TypeOK
<1>4. CASE RunReady
  <2>1. run'.pc = "running"
    BY <1>4 DEF RunReady, RunAt
  <2> QED BY <1>1, <1>2, <1>3, <2>1 DEF PlaceInv, RunTells
<1>5. CASE RunWakes
  <2>1. run'.pc = "stopping" /\ run'.k = 1
    BY <1>5 DEF RunWakes, RunAt
  <2>2. \A j \in DOMAIN Order : ~(j < 1)
    BY OrderFacts
  <2>3. \A j \in DOMAIN Order : j \in Stoppable'
    BY <1>1, <1>3 DEF Stoppable
  <2> QED BY <1>1, <1>2, <1>3, <2>1, <2>2, <2>3 DEF PlaceInv, RunTells
<1> QED BY <1>4, <1>5

\* Whatever leaves the consumers' stages and Run alone, subscribes nobody
\* and wakes no worker preserves what they tell.
LEMMA PlacesFrame ==
    ASSUME PlaceInv, stage' = stage, run' = run,
           \A c \in Subjects : sub'[c] \in {sub[c], "off"},
           \A c \in Subjects, w \in Workers :
               worker[c][w] \in {"off", "gone"} => worker'[c][w] = worker[c][w]
    PROVE  PlaceInv'
<1>1. StageTells'
  BY DEF PlaceInv, StageTells, Started, AllGone
<1>2. RunTells'
  BY DEF PlaceInv, RunTells, Stoppable
<1> QED BY <1>1, <1>2 DEF PlaceInv

\* Every step preserves it.
LEMMA NextPlaces == TypeOK /\ PlaceInv /\ [Next]_vars => PlaceInv'
<1> SUFFICES ASSUME TypeOK, PlaceInv, [Next]_vars PROVE PlaceInv'
  OBVIOUS
<1>1. CASE Run
  BY <1>1, StartPlaces, StopPlaces, TurnPlaces DEF Run
<1>2. CASE GoroutineStep
  BY <1>2, PlacesFrame DEF GoroutineStep, Moves, WorkersMove
<1>3. CASE ConnectionClose
  <2>1. \A c \in Subjects : sub'[c] \in {sub[c], "off"}
    BY <1>3, UnsubscribedType DEF ConnectionClose
  <2> QED BY <1>3, <2>1, PlacesFrame DEF ConnectionClose, runVars
<1>4. CASE UNCHANGED <<stage, sub, worker, run>>
  BY <1>4, PlacesFrame
<1>5. Run \/ GoroutineStep \/ ConnectionClose \/ UNCHANGED <<stage, sub, worker, run>>
  BY StepNames
     DEF Supervise, ReportRun, ReportBoth, ReportFirst, Serve, ServeWakes, StartShutdown,
         ServeShutsDown, Exit, ReceiveSignal, ListenerFails, Identify, PollerFails, Check,
         Reply, JobStep, JobBegins, JobPasses, JobReturns, vars, consumerVars, runVars
<1> QED BY <1>1, <1>2, <1>3, <1>4, <1>5

\* Before anything is started it holds.
LEMMA InitPlaces == Init => PlaceInv
<1> SUFFICES ASSUME Init PROVE PlaceInv
  OBVIOUS
<1>1. \A c \in Subjects : /\ stage[c] = "new" /\ sub[c] = "none"
                          /\ \A w \in Workers : worker[c][w] = "off"
  BY DEF Init, ConsumerInit
<1>2. run.pc = "starting" /\ run.k = 1
  BY DEF Init
<1>3. StageTells
  BY <1>1 DEF StageTells, Started
<1>4. RunTells
  BY <1>1, <1>2, OrderFacts DEF RunTells
<1> QED BY <1>3, <1>4 DEF PlaceInv

\* Whenever Run has returned, after a failed start as after a shutdown, none
\* of its consumers is left behind: no subscription, and no goroutine that
\* could still be in a handler.
THEOREM ConsumersStopped == Spec => []NoOrphanConsumer
<1>1. Init => PlaceInv
  BY InitPlaces
<1>2. PlaceInv => NoOrphanConsumer
  <2> SUFFICES ASSUME PlaceInv, run.pc = "returned", NEW c \in Subjects
               PROVE  sub[c] # "on" /\ \A w \in Workers : worker[c][w] \in {"off", "gone"}
    BY DEF NoOrphanConsumer
  <2>1. stage[c] \in {"new", "failed", "stopped"}
    BY OrderFacts DEF PlaceInv, RunTells
  <2> QED BY <2>1 DEF PlaceInv, StageTells, Started, AllGone
<1> QED BY <1>1, <1>2, NextPlaces, TypeCorrect, PTL DEF Spec

-----------------------------------------------------------------------------
(* Readiness                                                               *)

\* Steps that touch neither flags nor probe, start no consumer over and
\* send the poller not back to its identification.
LEMMA ReadyFrame ==
    ASSUME ReadyTells, UNCHANGED <<polls, ready>>, probe' \in {probe, "none", "not_ready"},
           run.pc # "starting" => run'.pc # "starting",
           run.pc # "starting" => \A j \in DOMAIN Order : Started(Order[j]) => Started(Order[j])',
           job["poller"] \notin {"off", "identify"} => job'["poller"] \notin {"off", "identify"}
    PROVE  ReadyTells'
BY DEF ReadyTells, Started

\* Once Run has left its start, its calls are those of Stop, on consumers
\* that have been started.
LEMMA StopsStarted ==
    ASSUME TypeOK, run.k \in DOMAIN Order, RunStops
    PROVE  \A j \in DOMAIN Order : Started(Order[j]) => Started(Order[j])'
<1>1. PICK s \in {"cancelled", "waiting", "stopped"} : SetStage(Current, s)
  BY DEF RunStops, StopCancel, StopUnsubscribe, StopReturns
<1>2. \A j \in DOMAIN Order : stage'[Order[j]] = IF j = run.k THEN s ELSE stage[Order[j]]
  BY <1>1, StageSet
<1> QED BY <1>1, <1>2 DEF Started

\* Every step preserves what the flags promise.
LEMMA NextReady == TypeOK /\ PlaceInv /\ ReadyTells /\ [Next]_vars => ReadyTells'
<1> SUFFICES ASSUME TypeOK, PlaceInv, ReadyTells, [Next]_vars PROVE ReadyTells'
  OBVIOUS
<1>1. /\ job \in [Jobs -> {"off", "identify", "idle", "busy", "ended"}]
      /\ ready \in [{"domain", "telegram"} -> BOOLEAN]
      /\ "poller" \in Jobs /\ "poller" \notin Helpers
  BY OrderAssumption DEF TypeOK, Jobs
<1>2. CASE run.k \in DOMAIN Order /\ RunConsumers
  <2>1. run.pc = "starting"
    BY <1>2 DEF RunConsumers, RunSubscribes, RunStartsWorkers, RunStartFails
  <2>2. UNCHANGED <<polls, ready, probe, job>>
    BY <1>2 DEF RunConsumers, probeVars, jobVars
  <2> QED BY <2>1, <2>2, ReadyFrame
<1>3. CASE run.k \in DOMAIN Order /\ RunStops
  <2>1. run.pc = "stopping" /\ run'.pc # "starting"
    BY <1>3 DEF RunStops, RunAt
  <2>2. UNCHANGED <<polls, ready, probe, job>>
    BY <1>3 DEF RunStops, probeVars, jobVars
  <2>3. \A j \in DOMAIN Order : Started(Order[j]) => Started(Order[j])'
    BY <1>3, StopsStarted
  <2> QED BY <2>1, <2>2, <2>3, ReadyFrame
<1>4. CASE RunReady
  <2>1. run'.pc = "running" /\ stage' = stage /\ UNCHANGED <<polls, probe>>
    BY <1>4 DEF RunReady, RunAt, consumerVars
  <2>2. \A j \in DOMAIN Order : Started(Order[j])'
    <3>1. \A j \in DOMAIN Order : stage[Order[j]] = "up"
      BY <1>4, OrderFacts DEF RunReady, Wired, PlaceInv, RunTells, TypeOK
    <3> QED BY <2>1, <3>1 DEF Started
  <2>3. ready'["domain"] = TRUE /\ ready'["telegram"] = ready["telegram"]
    BY <1>1, <1>4 DEF RunReady
  <2>4. job'["poller"] = job["poller"]
    BY <1>1, <1>4 DEF RunReady
  <2> QED BY <2>1, <2>2, <2>3, <2>4 DEF ReadyTells
<1>5. CASE RunWakes
  <2>1. run'.pc = "stopping" /\ stage' = stage /\ UNCHANGED <<polls, ready, probe, job>>
    BY <1>5 DEF RunWakes, RunAt, consumerVars, jobVars, probeVars
  <2> QED BY <2>1, ReadyFrame DEF Started
<1>6. CASE Identify
  <2>1. /\ job' = [job EXCEPT !["poller"] = "idle"]
        /\ ready' = [ready EXCEPT !["telegram"] = TRUE]
        /\ UNCHANGED <<stage, polls, run, probe>>
    BY <1>6 DEF Identify, SetJob, consumerVars, runVars
  <2>2. /\ ready'["domain"] = ready["domain"] /\ ready'["telegram"] = TRUE
        /\ job'["poller"] = "idle"
    BY <1>1, <2>1
  <2> QED BY <2>1, <2>2 DEF ReadyTells, Started
<1>7. CASE Check
  <2>1. UNCHANGED <<stage, polls, run, job, ready>>
    BY <1>7 DEF Check, consumerVars, runVars, jobVars
  <2>2. probe' = "ready" => ready["domain"] = TRUE /\ (polls = TRUE => ready["telegram"] = TRUE)
    BY <1>1, <1>7 DEF Check
  <2> QED BY <2>1, <2>2 DEF ReadyTells, Started
<1>8. ASSUME \/ PollerFails \/ Reply \/ \E j \in Jobs : JobStep(j)
      PROVE  ReadyTells'
  <2>1. UNCHANGED <<stage, polls, run, ready>> /\ probe' \in {probe, "none"}
    BY <1>8 DEF PollerFails, Reply, JobStep, JobBegins, JobPasses, JobReturns, consumerVars,
       runVars, probeVars
  <2>2. job["poller"] \notin {"off", "identify"} => job'["poller"] \notin {"off", "identify"}
    <3>1. \A j \in Jobs, s \in {"idle", "busy", "ended"} : SetJob(j, s) =>
              job'["poller"] \in {job["poller"], s}
      BY <1>1 DEF SetJob
    <3>2. \/ UNCHANGED job
          \/ \E j \in Jobs, s \in {"idle", "busy", "ended"} : SetJob(j, s)
      BY <1>1, <1>8 DEF PollerFails, Reply, JobStep, JobBegins, JobPasses, JobReturns, jobVars
    <3> QED BY <3>1, <3>2
  <2> QED BY <2>1, <2>2, ReadyFrame DEF Started
<1>9. CASE UNCHANGED <<stage, polls, run, job, ready, probe>>
  BY <1>9, ReadyFrame DEF Started
<1>10. ASSUME \/ Supervise \/ Serve \/ ReceiveSignal \/ ListenerFails \/ GoroutineStep
              \/ UNCHANGED vars
       PROVE  UNCHANGED <<stage, polls, run, job, ready, probe>>
  BY <1>10
     DEF Supervise, ReportRun, ReportBoth, ReportFirst, Serve, ServeWakes, StartShutdown,
         ServeShutsDown, ConnectionClose, Exit, ReceiveSignal, ListenerFails, GoroutineStep,
         Moves, vars, consumerVars, runVars, jobVars, probeVars
<1> QED BY <1>2, <1>3, <1>4, <1>5, <1>6, <1>7, <1>8, <1>9, <1>10, StepNames DEF Run

\* Run's place holds in every reachable state.
LEMMA PlaceInvHolds == Spec => []PlaceInv
<1>1. Init => PlaceInv
  BY InitPlaces
<1> QED BY <1>1, NextPlaces, TypeCorrect, PTL DEF Spec

\* What becomes of the subscriptions and workers while Run goes its way.
LEMMA NextServing ==
    TypeOK /\ ReadyTells /\ ServingTells /\ [Next]_vars => ServingTells'
<1> SUFFICES ASSUME TypeOK, ReadyTells, ServingTells, [Next]_vars PROVE ServingTells'
  OBVIOUS
<1>1. /\ done \in BOOLEAN /\ ready \in [{"domain", "telegram"} -> BOOLEAN]
      /\ stage \in [Subjects -> Stages] /\ sub \in [Subjects -> {"none", "on", "off"}]
      /\ worker \in [Subjects -> [Workers -> WorkerStates]]
  BY DEF TypeOK, ConsumerTypeOK
<1>2. CASE done' = TRUE
  BY <1>2 DEF ServingTells
<1>3. CASE UNCHANGED <<stage, sub, worker, done, main, run>> /\ ready'["domain"] = ready["domain"]
  BY <1>3 DEF ServingTells
<1>4. CASE run.k \in DOMAIN Order /\ RunConsumers
  <2> DEFINE c == Current
  <2>1. run.pc = "starting" /\ UNCHANGED <<main, ready>>
    BY <1>4 DEF RunConsumers, RunSubscribes, RunStartsWorkers, RunStartFails, serveVars, probeVars
  <2>2. ready["domain"] # TRUE
    BY <2>1 DEF ReadyTells
  <2>3. c \in Subjects /\ (QueueSubscribe(c) \/ StartWorkers(c) \/ StartFails(c))
    BY <1>4, OrderFacts DEF RunConsumers, RunSubscribes, RunStartsWorkers, RunStartFails, Current
  <2>4. done' = done
    BY <2>3 DEF QueueSubscribe, StartWorkers, StartFails
  <2>5. ASSUME done = FALSE, NEW d \in Subjects
        PROVE  /\ stage'[d] \in {"starting", "up"} => sub'[d] = "on"
               /\ stage'[d] = "up" => \A w \in Workers : worker'[d][w] \notin {"off", "gone"}
    <3>1. /\ stage[d] \in {"starting", "up"} => sub[d] = "on"
          /\ stage[d] = "up" => \A w \in Workers : worker[d][w] \notin {"off", "gone"}
      BY <2>5 DEF ServingTells
    <3>2. CASE QueueSubscribe(c)
      BY <1>1, <2>3, <3>1, <3>2 DEF QueueSubscribe, SetStage
    <3>3. CASE StartWorkers(c)
      <4>1. CASE d = c
        BY <1>1, <2>3, <3>1, <3>3, <4>1 DEF StartWorkers, SetStage
      <4>2. CASE d # c
        BY <1>1, <2>3, <3>1, <3>3, <4>2 DEF StartWorkers, SetStage
      <4> QED BY <4>1, <4>2
    <3>4. CASE StartFails(c)
      <4>1. CASE d = c
        BY <1>1, <2>3, <3>4, <4>1 DEF StartFails, SetStage
      <4>2. CASE d # c
        <5>1. stage'[d] = stage[d] /\ worker' = worker
          BY <1>1, <2>3, <3>4, <4>2 DEF StartFails, SetStage
        <5>2. sub'[d] = sub[d]
          BY <2>3, <3>4, <4>2, UnsubscribedOne DEF StartFails
        <5> QED BY <3>1, <5>1, <5>2
      <4> QED BY <4>1, <4>2
    <3> QED BY <2>3, <3>2, <3>3, <3>4
  <2> QED BY <2>1, <2>2, <2>4, <2>5 DEF ServingTells
<1>5. CASE run.k \in DOMAIN Order /\ RunStops
  <2> DEFINE c == Current
  <2>1. run.pc = "stopping" /\ UNCHANGED <<main, ready>>
    BY <1>5 DEF RunStops, serveVars, probeVars
  <2>2. c \in Subjects /\ (StopCancel(c) \/ StopUnsubscribe(c) \/ StopReturns(c))
    BY <1>5, OrderFacts DEF RunStops, Current
  <2>3. done' = done /\ worker' = worker /\ stage'[c] \in {"cancelled", "waiting", "stopped"}
        /\ \A d \in Subjects \ {c} : stage'[d] = stage[d]
    BY <1>1, <2>2 DEF StopCancel, StopUnsubscribe, StopReturns, SetStage
  <2>4. \A d \in Subjects \ {c} : sub'[d] = sub[d]
    BY <2>2, UnsubscribedOne DEF StopCancel, StopUnsubscribe, StopReturns
  <2>5. done = FALSE => ready["domain"] # TRUE
    BY <2>1 DEF ServingTells
  <2>6. ASSUME done = FALSE, NEW d \in Subjects
        PROVE  /\ stage'[d] \in {"starting", "up"} => sub'[d] = "on"
               /\ stage'[d] = "up" => \A w \in Workers : worker'[d][w] \notin {"off", "gone"}
    <3>1. CASE d = c
      BY <2>3, <3>1
    <3>2. CASE d # c
      BY <2>3, <2>4, <2>6, <3>2 DEF ServingTells
    <3> QED BY <3>1, <3>2
  <2> QED BY <2>1, <2>3, <2>5, <2>6 DEF ServingTells
<1>6. CASE RunReady
  <2>1. run'.pc = "running" /\ UNCHANGED <<stage, sub, worker, done, main>>
    BY <1>6 DEF RunReady, RunAt, consumerVars, serveVars
  <2> QED BY <2>1 DEF ServingTells
<1>7. CASE RunWakes \/ ConnectionClose
  <2>1. done = TRUE
    BY <1>1, <1>7 DEF RunWakes, ConnectionClose, ServingTells
  <2>2. done' = done
    BY <1>7 DEF RunWakes, ConnectionClose, consumerVars
  <2> QED BY <1>2, <2>1, <2>2
<1>8. CASE GoroutineStep
  <2>1. UNCHANGED <<stage, sub, done, main, run, ready>> /\ WorkersMove
    BY <1>8 DEF GoroutineStep, Moves
  <2>2. ASSUME done = FALSE, NEW c \in Subjects, stage[c] = "up", NEW w \in Workers
        PROVE  worker'[c][w] \notin {"off", "gone"}
    <3>1. ~Cancelled(c)
      BY <2>2 DEF Cancelled
    <3>2. worker[c][w] \notin {"off", "gone"}
      BY <2>2 DEF ServingTells
    <3> QED BY <2>1, <3>1, <3>2 DEF WorkersMove
  <2> QED BY <2>1, <2>2 DEF ServingTells
<1>9. ASSUME ServeShutsDown \/ Exit PROVE ServingTells'
  <2>1. main # "serving" /\ UNCHANGED <<stage, sub, worker, done, run, ready>>
    BY <1>9 DEF ServeShutsDown, Exit, consumerVars, runVars, probeVars
  <2> QED BY <2>1 DEF ServingTells
<1>10. CASE Identify
  <2>1. UNCHANGED <<stage, sub, worker, done, main, run>>
    BY <1>10 DEF Identify, consumerVars, serveVars, runVars
  <2>2. ready'["domain"] = ready["domain"]
    BY <1>1, <1>10 DEF Identify
  <2> QED BY <1>3, <2>1, <2>2
<1>11. ASSUME \/ Supervise \/ ServeWakes \/ ReceiveSignal \/ ListenerFails
              \/ PollerFails \/ Check \/ Reply \/ \E j \in Jobs : JobStep(j)
              \/ UNCHANGED vars
       PROVE  done' = TRUE \/ UNCHANGED <<stage, sub, worker, done, main, run, ready>>
  BY <1>11
     DEF Supervise, ReportRun, ReportBoth, ReportFirst, ServeWakes, StartShutdown,
         ReceiveSignal, ListenerFails, PollerFails, Check, Reply, JobStep, JobBegins,
         JobPasses, JobReturns, vars, consumerVars, serveVars, runVars, probeVars
<1>12. CASE UNCHANGED <<stage, sub, worker, done, main, run, ready>>
  BY <1>3, <1>12
<1> QED BY <1>2, <1>4, <1>5, <1>6, <1>7, <1>8, <1>9, <1>10, <1>11, <1>12, StepNames DEF Run, Serve

\* /health/ready says ready only of a service all of whose consumers have
\* been started and, for a polling bot, whose identity Telegram has
\* confirmed, however the probe falls into start and shutdown; and until
\* its context is done that service still has every subscription, and all
\* the workers behind each.
THEOREM ReadyIsReceiving == Spec => []ReadyMeansReceiving
<1>1. Init => ReadyTells /\ ServingTells
  <2> SUFFICES ASSUME Init PROVE ReadyTells /\ ServingTells
    OBVIOUS
  <2>1. ready["domain"] = FALSE /\ ready["telegram"] = FALSE /\ probe = "none"
    BY DEF Init
  <2>2. main = "serving" /\ \A c \in Subjects : stage[c] = "new"
    BY DEF Init, ConsumerInit
  <2> QED BY <2>1, <2>2 DEF ReadyTells, ServingTells
<1>2. TypeOK /\ PlaceInv /\ ReadyTells /\ ServingTells => ReadyMeansReceiving
  <2> SUFFICES ASSUME TypeOK, PlaceInv, ReadyTells, ServingTells, probe = "ready"
               PROVE  ReadyMeansReceiving
    BY DEF ReadyMeansReceiving
  <2>1. \A c \in Subjects : stage[c] \notin {"new", "starting", "failed"}
    BY OrderFacts DEF ReadyTells, Started
  <2>2. polls = TRUE => job["poller"] \notin {"off", "identify"}
    BY DEF ReadyTells
  <2>3. (polls => polls = TRUE) /\ (~done => done = FALSE)
    BY DEF TypeOK, ConsumerTypeOK
  <2>4. ASSUME done = FALSE, NEW c \in Subjects
        PROVE  sub[c] = "on" /\ \A w \in Workers : worker[c][w] \notin {"off", "gone"}
    <3>1. run.pc = "running"
      BY <2>4 DEF ReadyTells, ServingTells
    <3>2. stage[c] = "up"
      BY <3>1, OrderFacts DEF PlaceInv, RunTells
    <3> QED BY <2>4, <3>2 DEF ServingTells
  <2> QED BY <2>1, <2>2, <2>3, <2>4 DEF ReadyMeansReceiving
<1> QED BY <1>1, <1>2, NextReady, NextServing, PlaceInvHolds, TypeCorrect, PTL DEF Spec

-----------------------------------------------------------------------------
(* How the process ends                                                    *)

\* Workers whose context is not done return errors only.
LEMMA NextOutcomes == TypeOK /\ OutcomesTell /\ [Next]_vars => OutcomesTell'
<1> SUFFICES ASSUME TypeOK, OutcomesTell, [Next]_vars PROVE OutcomesTell'
  OBVIOUS
<1>1. done \in BOOLEAN /\ job \in [Jobs -> {"off", "identify", "idle", "busy", "ended"}]
      /\ "poller" \in Jobs /\ "poller" \notin Helpers
  BY OrderAssumption DEF TypeOK, ConsumerTypeOK, Jobs
<1>2. CASE done' = TRUE
  BY <1>2 DEF OutcomesTell
<1>3. CASE UNCHANGED <<done, run, runErr, job, pollErr>>
  BY <1>3 DEF OutcomesTell
<1>4. CASE run.k \in DOMAIN Order /\ RunConsumers
  <2>1. UNCHANGED <<job, pollErr>>
    BY <1>4 DEF RunConsumers, jobVars
  <2>2. done' = done
    BY <1>4 DEF RunConsumers, RunSubscribes, RunStartsWorkers, RunStartFails, QueueSubscribe,
       StartWorkers, StartFails
  <2>3. \/ run'.pc = "starting"
        \/ runErr' = "error"
    BY <1>4 DEF RunConsumers, RunSubscribes, RunStartsWorkers, RunStartFails, RunAt, runVars
  <2> QED BY <2>1, <2>2, <2>3 DEF OutcomesTell
<1>5. CASE run.k \in DOMAIN Order /\ RunStops
  <2>1. UNCHANGED <<runErr, job, pollErr>> /\ run.pc = "stopping"
    BY <1>5 DEF RunStops, jobVars
  <2>2. done' = done
    BY <1>5 DEF RunStops, StopCancel, StopUnsubscribe, StopReturns
  <2> QED BY <2>1, <2>2 DEF OutcomesTell
<1>6. CASE RunReady
  <2>1. run'.pc = "running" /\ UNCHANGED <<done, pollErr>>
    BY <1>6 DEF RunReady, RunAt, consumerVars
  <2>2. job'["poller"] = job["poller"]
    BY <1>1, <1>6 DEF RunReady
  <2> QED BY <2>1, <2>2 DEF OutcomesTell
<1>7. CASE RunWakes
  <2>1. done /\ done' = done
    BY <1>7 DEF RunWakes, consumerVars
  <2>2. done' = TRUE
    BY <1>1, <2>1
  <2> QED BY <1>2, <2>2
<1>8. ASSUME NEW j \in Jobs, JobStep(j) PROVE OutcomesTell'
  <2>1. UNCHANGED <<done, run, runErr>>
    BY <1>8 DEF JobStep, JobBegins, JobPasses, JobReturns, consumerVars, runVars
  <2>2. CASE JobBegins(j) \/ JobPasses(j)
    <3>1. pollErr' = pollErr /\ \E s \in {"idle", "busy"} : SetJob(j, s)
      BY <2>2 DEF JobBegins, JobPasses
    <3>2. job'["poller"] = "ended" => job["poller"] = "ended"
      BY <1>1, <3>1 DEF SetJob
    <3> QED BY <2>1, <3>1, <3>2 DEF OutcomesTell
  <2>3. CASE JobReturns(j)
    <3>1. done
      BY <2>3 DEF JobReturns
    <3>2. done' = TRUE
      BY <1>1, <2>1, <3>1
    <3> QED BY <1>2, <3>2
  <2> QED BY <1>8, <2>2, <2>3 DEF JobStep
<1>9. CASE Identify
  <2>1. UNCHANGED <<done, run, runErr, pollErr>> /\ SetJob("poller", "idle")
    BY <1>9 DEF Identify, consumerVars, runVars
  <2>2. job'["poller"] = "idle"
    BY <1>1, <2>1 DEF SetJob
  <2> QED BY <2>1, <2>2 DEF OutcomesTell
<1>10. CASE PollerFails
  <2>1. UNCHANGED <<done, run, runErr>> /\ pollErr' = "error"
    BY <1>10 DEF PollerFails, consumerVars, runVars
  <2> QED BY <2>1 DEF OutcomesTell
<1>11. ASSUME \/ Supervise \/ Serve \/ ReceiveSignal \/ ListenerFails \/ GoroutineStep
              \/ Check \/ Reply \/ UNCHANGED vars
       PROVE  done' = TRUE \/ UNCHANGED <<done, run, runErr, job, pollErr>>
  BY <1>11
     DEF Supervise, ReportRun, ReportBoth, ReportFirst, Serve, ServeWakes, StartShutdown,
         ServeShutsDown, ConnectionClose, Exit, ReceiveSignal, ListenerFails, GoroutineStep,
         Moves, Check, Reply, vars, consumerVars, runVars, jobVars, probeVars
<1> QED BY <1>2, <1>3, <1>4, <1>5, <1>6, <1>7, <1>8, <1>9, <1>10, <1>11, StepNames DEF Run

\* Until a signal comes, serve gets to know errors only.
LEMMA NextServe == TypeOK /\ OutcomesTell /\ ServeTells /\ [Next]_vars => ServeTells'
<1> SUFFICES ASSUME TypeOK, OutcomesTell, ServeTells, [Next]_vars PROVE ServeTells'
  OBVIOUS
<1>1. /\ done \in BOOLEAN /\ signal \in BOOLEAN /\ stopping \in BOOLEAN /\ polls \in BOOLEAN
      /\ reported \in Outcome /\ runErr \in Outcome /\ pollErr \in Outcome /\ code \in Outcome
  BY DEF TypeOK, ConsumerTypeOK
<1>2. CASE UNCHANGED <<done, main, code, signal, stopping, reported>>
  BY <1>2 DEF ServeTells
<1>3. CASE signal = TRUE /\ signal' = signal
  BY <1>3 DEF ServeTells
<1>4. CASE Supervise /\ signal = FALSE
  <2>1. main = "serving" /\ reported = "none" /\ UNCHANGED <<main, code, signal, stopping>>
    BY <1>4 DEF Supervise, ReportRun, ReportBoth, ReportFirst, Report, serveVars
  <2>2. stopping = FALSE /\ done = FALSE
    BY <1>1, <1>4, <2>1 DEF ServeTells
  <2>3. reported' = "error"
    <3>1. ~ReportBoth
      BY <2>2 DEF ReportBoth
    <3>2. \/ run.pc = "returned" /\ reported' = runErr
          \/ job["poller"] = "ended" /\ reported' = pollErr
      BY <1>4, <3>1 DEF Supervise, ReportRun, ReportFirst, Report, FirstOutcome
    <3> QED BY <2>2, <3>2 DEF OutcomesTell
  <2> QED BY <2>1, <2>2, <2>3 DEF ServeTells
<1>5. CASE (ServeWakes \/ ListenerFails) /\ signal = FALSE
  <2>1. main = "serving" /\ main' = "http" /\ signal' = signal
    BY <1>5 DEF ServeWakes, ListenerFails, StartShutdown
  <2>2. stopping = FALSE /\ reported \in {"none", "error"}
    BY <1>5, <2>1 DEF ServeTells
  <2>3. code' = "error"
    BY <1>5, <2>2 DEF ServeWakes, ListenerFails, StartShutdown
  <2> QED BY <1>5, <2>1, <2>3 DEF ServeTells
<1>6. CASE (ServeShutsDown \/ ConnectionClose \/ Exit) /\ signal = FALSE
  <2>1. main # "serving" /\ main' # "serving" /\ signal' = signal /\ code' \in {code, "error"}
    BY <1>6 DEF ServeShutsDown, ConnectionClose, Exit
  <2> QED BY <1>6, <2>1 DEF ServeTells
<1>7. CASE ReceiveSignal
  <2>1. signal' = TRUE
    BY <1>7 DEF ReceiveSignal
  <2> QED BY <2>1 DEF ServeTells
<1>8. Supervise \/ Serve \/ ListenerFails => signal' = signal
  BY DEF Supervise, ReportRun, ReportBoth, ReportFirst, Serve, ServeWakes, StartShutdown,
         ServeShutsDown, ConnectionClose, Exit, ListenerFails, serveVars
<1>9. ASSUME Run PROVE UNCHANGED <<done, main, code, signal, stopping, reported>>
  <2>1. UNCHANGED <<main, code, signal, stopping, reported>>
    BY <1>9 DEF Run, RunConsumers, RunStops, RunReady, RunWakes, serveVars
  <2>2. done' = done
    BY <1>9 DEF Run, RunConsumers, RunSubscribes, RunStartsWorkers, RunStartFails,
       QueueSubscribe, StartWorkers, StartFails, RunStops, StopCancel, StopUnsubscribe,
       StopReturns, RunReady, RunWakes, consumerVars
  <2> QED BY <2>1, <2>2
<1>10. ASSUME \/ GoroutineStep \/ Identify \/ PollerFails \/ Check \/ Reply
              \/ \E j \in Jobs : JobStep(j)
              \/ UNCHANGED vars
       PROVE  UNCHANGED <<done, main, code, signal, stopping, reported>>
  BY <1>10
     DEF GoroutineStep, Moves, Identify, PollerFails, Check, Reply, JobStep, JobBegins,
         JobPasses, JobReturns, vars, consumerVars, serveVars
<1>11. signal = TRUE \/ signal = FALSE
  BY <1>1
<1> QED BY <1>2, <1>3, <1>4, <1>5, <1>6, <1>7, <1>8, <1>9, <1>10, <1>11, StepNames DEF Serve

\* A process that nobody asked to stop ends with an error, whichever of its
\* parts failed first and in whatever order the others came down.
THEOREM FailureIsTold == Spec => []ExitTellsFailure
<1>1. Init => OutcomesTell /\ ServeTells
  <2> SUFFICES ASSUME Init PROVE OutcomesTell /\ ServeTells
    OBVIOUS
  <2>1. run.pc = "starting" /\ job["poller"] \in {"identify", "off"}
    BY DEF Init, Jobs
  <2>2. /\ main = "serving" /\ stopping = FALSE /\ reported = "none" /\ done = FALSE
    BY DEF Init, ConsumerInit
  <2> QED BY <2>1, <2>2 DEF OutcomesTell, ServeTells
<1>2. TypeOK /\ ServeTells => ExitTellsFailure
  <2> SUFFICES ASSUME TypeOK, ServeTells, main = "exited", ~signal PROVE code = "error"
    BY DEF ExitTellsFailure
  <2>1. signal = FALSE
    BY DEF TypeOK
  <2> QED BY <2>1 DEF ServeTells
<1> QED BY <1>1, <1>2, NextOutcomes, NextServe, TypeCorrect, PTL DEF Spec
=============================================================================

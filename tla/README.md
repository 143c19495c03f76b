# A TLA+ model of RW

RW activates Telegram sessions against a paid balance. Two services share the
work: `rw-bot` talks to the user and to the external top-up service,
`rw-active-sessions` is the authority that decides. They exchange signed
messages over Core NATS, which may lose, repeat and reorder them; each keeps its
state in a PostgreSQL database of its own and sends what it has to say from an
outbox table. This directory holds the model of that system, what TLC checks of
it on small instances and what TLAPS proves of it for all instances.

## The system

| Component | State | Operations | Hard about it | Module |
| --- | --- | --- | --- | --- |
| `rw-active-sessions` (`internal/sessions`) | `message_inbox`, `message_outbox`, `activation_verifications`, `balance_identities`, `active_sessions`, `session_events` | accept a verify command; apply top-up's answer; reconcile (expire, replace the top-up command) | duplicates, late answers, several replicas working from stale batches, the end of the offer | `Sessions` |
| Inbox and outbox statements (`internal/platform/message/store.go`) | the two message tables | register, complete, reject, acknowledge; insert, requeue, confirm | idempotency: the saved result is what a repeat gets | `Message` |
| Outbox publisher (`internal/platform/message/outbox.go`) | `message_outbox`, claimed rows in memory | expire, claim, publish, mark | crashes between any two statements, leases, replicas | `Outbox` |
| `rw-bot`, activation flow (`internal/bot`) | `invites`, `inactive_sessions`, `activation_attempts`, `active_session_projection`, message tables | create and consume an invite; begin an activation; apply reservation, payment, verdict; expire attempts | messages about old attempts, expiry at any moment, unlocked reads | `Bot` |
| `rw-bot`, Telegram updates (`poller.go`, `messages.go`, `updates.go`) | `telegram_updates`, the offset in memory | poll, begin, handle, reply, finish | restarts, redelivery, overlapping processes | `TelegramUpdates` |
| Both together | messages between the two databases | ask, tell, hear | each side acts on what the other said some time ago | `Activation` |
| Consumers (`consumer.go`) | subscription, channel and workers, per subject | start, receive, queue, handle, stop | a full channel, a start that fails half-way, stopping while messages come in | `Consumer` |
| Process (`runtime.go`, the `Run` functions) | workers, readiness, exit code | serve, run and supervise workers, health check, shut down | who waits for whom when something fails or a signal comes | `Service` |
| Envelope and keys (`envelope.go`, `codec.go`, `keyring.go`) | manifest and data keyring, as read at start-up | sign, verify, seal, open, rotate | clocks that differ, keys changed under messages on their way, processes with old files | `Envelope`, `KeyRotation` |
| Configuration, clients, migrations, metrics, tools | none of their own | | | not modelled |

How they interact: a user consumes an invite and sends a wallet; `rw-bot` asks
top-up for a reservation, tells the user where to pay, learns of the payment from
top-up and sends `activation.verify`; `rw-active-sessions` asks top-up to confirm
the transaction and answers `activated` or `rejected`; `rw-bot` moves the session
from `inactive_sessions` to its projection. Every message passes the sender's
outbox and the receiver's inbox. The reconciler of each service ends what is not
answered in time.

What makes each part correct:

* `Sessions`: one verdict per operation, told by one result; nothing is activated
  without a timely confirmed payment; one wallet per balance; a Telegram identity
  has one active session; every verification is closed.
* `Outbox`: what is inserted is published, a command until it is answered; what
  is confirmed or dead stays so; PUBLISHED is not claimed of what was not sent.
* `Bot`: dialog, attempt, projection and open commands tell the same story; an
  invite binds one session; every attempt ends.
* `TelegramUpdates`: nothing is handled twice, nothing is forgotten unseen.
* `Activation`: the bot shows nothing as active that the authority has not handed
  out, and both agree on how an operation ended.
* `Service`: the process ends when it has to and says why, leaves nothing running
  behind `Run`, calls itself ready only when all of it was started and, until it
  is told to stop, still receives, and does not get stuck.
* `KeyRotation`: a change of keys and clocks within the skew make nobody refuse a
  live message or fail to read a row, and nothing is applied after its time.

`PROJECT.json` lists the places in the code where this is hard to test
("hazards") and the properties that watch each of them.

## Modules

* `Tables`, `Message`: tables as partial functions and the SQL statements on inbox
  and outbox as operators. An outbox is a sequence here, a row's ID its position
  (UUIDv7 in order of insertion, rows are never deleted).
* `Sessions`, `SessionsProofs`, `VerdictProofs`, `MCSessions`.
  One action per outcome of a handler. `AcceptVerification` and
  `RepeatVerification` are `AcceptVerification` in `store.go`, after
  `ValidateActivation`; `ActivateSession`, `RefuseVerified`, `RefuseConflict` are
  the three ways through `ApplyTopupVerified`; `IgnoreLateAnswer` and
  `RepeatAnswer` its early returns; `PendingRetries` loads a batch into the memory
  of a replica, `ExpireVerification`, `ReplaceTopupCommand`, `AbortBatch` and
  `SkipStaleItem` work it off item by item; a replacement whose time is over
  (`TooLate`) cannot be signed and ends the pass, before the store is asked whether
  the item is still current. `Complete` is the tail all closing
  handlers share. Handlers are transactions, serialised by the inbox insert, the
  row lock on the verification and the advisory locks, and are one step each. The
  reconciler's query and its reading of the clock are one step as well, and the
  clocks of database and replicas are one clock. A command's payload is a record
  of the fields that handlers compare; wallet, amount and network checks against
  the facts of the command are the field `same` of an answer. Publishing is
  abstracted to "sent, and marked or not".
* `Outbox`, `OutboxProofs`, `MCOutbox`. Each SQL statement of the publisher is a
  step; `inflight` is what a replica holds in memory between them. Timestamps are
  flags (`due`, `lease`, `lapsed`) that flip at any moment, which covers every
  choice of delays and of clocks.
* `Bot`, `BotProofs`, `MCBot`. One action per method of `FlowStore` and outcome.
  `ConsumeInvite` is two steps because its first read takes no lock. An invite's
  token is identified by the operation that made it. Top-up and
  `rw-active-sessions` are external here: they answer what they were sent, and
  only that, in any order.
* `TelegramUpdates`, `TelegramUpdatesProofs`, `MCTelegramUpdates`. The steps of
  `Process`, with Telegram's rule that an offset confirms everything below it. The conversation is a counter.
* `Relay`, `Authority`, `Flow`: what `Outbox`, `Sessions` and `Bot` promise to
  those who use them, without saying how. `Relay` has a fate per message (open,
  then confirmed or dead) and carries what is open; `Authority` has cases with one
  verdict and holders of sessions; `Flow` has bound sessions, tries and shown
  sessions. Each detailed module has the refinement mapping
  (`ImplementsRelay`, `ImplementsAuthority`, `ImplementsFlow`).
* `Activation`, `MCActivation`, `ActivationProofs`: `Flow` and an instance of
  `Authority` side by side, tied by `Receive` (a verify command the bot has sent
  reaches the authority) and `Deliver` (a result the authority has told reaches the
  bot, which in `Credible` compares session and balance as `CompleteActivation`
  does). What is asked and told stays on the network, so that it may arrive
  never, late or often.
* `Consumer`, `Service`, `ServiceProofs`, `MCService`: `Consumer` has the steps of
  `StartConsumer`, the callback, the workers and `Stop`, with the NATS client
  external; `Service` is the process around them: `Run` of either service,
  `runWorkers` for a bot that polls, `serve`, `readyHandler`. A step is what a
  goroutine does between two points where it waits. A handler (states `Handling`)
  holds a connection of the pool during its one transaction, not while it verifies
  before or notifies after it; publisher, reconciler and poller hold one while they
  are "busy". `PoolIdle`, which is what `pool.Close` waits for, looks at these only:
  a process may end with a handler between its statements. Whether the bot polls is
  chosen at the start, so one module covers both services.
* `Envelope`, `KeyRotation`, `MCKeyRotation`, `KeyRotationProofs`: `Envelope` has
  the comparisons of `Verify`, `Lookup`, `Encrypt` and `Decrypt` as operators, with
  their exact bounds (`<` or `<=`); `KeyRotation` lets producers with a shared
  outbox and consumers of another service, each with a clock and the files it read,
  use them while an operator changes the keys. The operator is not code. Its
  guards are read from the documents, but one goes further than they do:
  `technical-decisions.md:117` has the new data key added and then made active;
  `UseDataKey` waits in between until every running producer has loaded it. Without
  that wait a row sealed by one replica is unreadable to another, so `RowsReadable`
  and its theorem rest on this reading.

Definitions whose names end in `_Something` (after the name of another
definition) are mutants: plausible bugs, each of which makes TLC report the
property that is meant to catch it. `PROJECT.json` pairs them.

## Runs

`tlc -config <cfg> <module>` for each of these; `PROJECT.json` has the expected
results. A run whose cfg has a [V] ends with a counterexample.

| Run | cfg | Instance | Shows |
| --- | --- | --- | --- |
| `sessions_facts` | `MCSessions_facts` | two operations, each about any of 2 sessions x 2 balances x 2 wallets x 2 users x 2 transactions, so that a command may also come again for the same operation under another ID; two answers; no time | `SessionsDisjoint`, `OneWalletPerBalance`, `VersionsCountEvents`, `ProcessingWhilePending`, `VerdictsAreFinal`, `ImplementsAuthority` |
| `sessions_reconcile` | `MCSessions_reconcile` | one operation, two replicas that restart, top-up commands that die up to twice before the offer ends | `OneLiveTopupCommand`, `ActivationPaidFor`, `OneVerdictPerOperation`, `EveryVerificationCloses`, `ImplementsAuthority` |
| `sessions_txreuse` | `MCSessions_txreuse` [V] | three operations, two sessions | `TransactionActivatesOnce` |
| `outbox` | `MCOutbox` | a command and a result, two replicas that crash, batch of one | `TypeOK`, `PublishedWasSent`, `TerminalRowsStay`, `CommandKeepsRetrying`, `ImplementsRelay` |
| `outbox_repeat` | `MCOutbox_repeat` [V] | a result, two replicas | `RepeatIsSent` |
| `bot_flow` | `MCBot_flow` | one session, two attempts | `TypeOK`, `DialogFollowsAttempt`, `ActiveThroughOneAttempt`, `NoAnsweredCommandOpen`, `EndedAttemptsStay` |
| `bot_invites` | `MCBot_invites` | one invite, two users, two replicas, one attempt | `InviteUsedOnce`, `EveryAttemptEnds`, `ImplementsFlow` |
| `bot_binding` | `MCBot_binding` [V] | one user, two invites | `OneBindingPerUser` |
| `updates` | `MCTelegramUpdates` | four updates of all kinds, two pollers, two updates to a response | `HandledAtMostOnce`, `WorkIsExclusive`, `NothingForgottenUnseen`, `EveryMessageRegistered` |
| `service` | `MCService` | two consumers of one worker, a channel of one, two messages, with and without poller | `NoOrphanConsumer`, `ReadyMeansReceiving`, `ExitTellsFailure`, `ShutdownCompletes`, `ReceivedIsHandled` |
| `rotation` | `MCKeyRotation` | two producers, one consumer, clocks off by at most 1, two signing and two data keys, one message that lives 1 or 4 | `LiveIsAccepted`, `RowsReadable`, `NothingAppliedLate` |
| `activation` | `MCActivation` | three sessions, three operations, two users, two balances | `ShownIsHeld`, `EndingsAgree`, `VerdictApplies` |

Why the bounds suffice.

* `Sessions`: two operations are the fewest that can conflict, and the conflict
  rules compare two sessions at a time; the three of `RenewThenReuse` are what
  reusing an overwritten transaction takes. Two answers in `sessions_facts` race
  for one verification or for one wallet, user or transaction; the one of
  `sessions_reconcile` comes early or late, once or again. `sessions_facts` has no
  time (`MaxTime = 0`) because its properties concern what answers do; in
  `sessions_reconcile` `MaxTime` lies past the offer and `TopupTTL` is a fraction
  of it, so that a command dies while the offer is open.
* Two replicas are the fewest that can hold the same stale item or lease. A batch
  of one lets a row be crowded out.
* `Bot`: two attempts allow a message about the old one to meet the new one.
* `Service`: two consumers, so that one is up when the start of the other fails;
  `PendingMessages = 1` and two messages, so that channel and callback fill up.
  `Helpers` is empty in the run: publisher and reconciler do a subset of what the
  poller does (pass, return), and the poller is there.
* `KeyRotation`: two producers, so that one reads what the other has sealed with
  another keyring; `Skew` is twice the largest error of a clock, as assumed; the
  lifetimes are the shortest possible and the longest allowed; the keys' validities
  overlap in part, and the first ends within `MaxTime`. One message is enough
  because no property or guard relates two.
* `Activation`: two users and three sessions let a user come to have a second
  session bound beside an active one, and three operations let an operation be
  given up and repeated while another is under way.

Deadlock is checked where the system never stops (`outbox`, `updates`). The runs
of `Sessions`, `Bot` and `Activation` stop when their messages are used up,
`Service` when the process has ended, `KeyRotation` when its time has.

Symmetry is used only in runs without liveness properties (`sessions_facts`,
`bot_flow`, `rotation`, `activation`), over model values no definition tells
apart.

Fairness.

* `Sessions`: time passes, every replica starts its reconciliation again and again
  (the ticker in `reconcile`), and though it may restart with a batch in memory it
  does not do so before its first item every time (strong fairness of
  `ReconcileItem`). No answer of top-up, no delivery by NATS and no publishing is
  assumed.
* `Outbox`: some replica runs `publishBatch` at every tick, timestamps are passed,
  a row is not locked or crowded out each time it could be claimed, and publishing
  that is tried over and over succeeds at some time; crashes may go on for ever,
  and no single replica has to be up.
* `Bot`: deadlines pass and the reconciler runs.
* `TelegramUpdates`: a running poller polls and processes, and the process is at
  last no longer restarted, as an offset held in memory gets nowhere otherwise.
* `Service`: some goroutine that can go on does (of the steps in `Progress` a
  process takes finitely many, so weak fairness of their disjunction runs all of
  them down); passes end, because every statement has a timeout; and the select of
  a loop does not take its ticker for ever when its context is done too (strong
  fairness of `JobReturns`; Go chooses among ready branches at random). No
  message, signal or failure (of the poller included) is assumed.

## Where code and documents differ

Each of these runs ends with a counterexample; `PROJECT.json` quotes the document.

* `TransactionActivatesOnce`: a renewal overwrites a session's transaction, after
  which the old one can activate another session (`store.go`, `activateSession`).
* `RepeatIsSent`: the mark of an earlier claim hits a later one, and a requeued
  result is not sent again.
* `OneBindingPerUser`: `ConsumeInvite` between the two reads of which
  `CompleteActivation` commits.

More differences were met while reading and have no run of their own:

* `RefuseConflict`: a `CONFLICT` commits the wallet `ensureIdentity` has just
  pinned, although the balance was never activated (`data-model.md:135` has the
  record created at the first verified activation).
* `ExpireVerification` confirms a top-up command nobody answered
  (`reliability-and-scalability.md:22`: only after a correlated terminal result).
* `CreateInvite`: a known operation under a new message ID fails on the unique key
  and gets no answer (`contracts.md:134`: the same invite is returned).
* A repeated verify command is refused once the offer has ended, before the saved
  result is looked for (`service.go:131`; `reliability-and-scalability.md:14`,
  `contracts.md:220`: the saved result is sent again).
* The row that recognises a repeated update is committed before the update is
  handled; a process that ends in between loses the user's message
  (`messages.go:70`; `technical-decisions.md:106`).
* `Stop` cancels the workers before the channel is empty, so what was received is
  dropped on shutdown (`consumer.go:66`; `security-and-operations.md:98` has it
  drained). Core NATS does not deliver it again; the sender's outbox repeats
  commands, not results.
* `domainReady` is never taken back, so once the context is done `/health/ready` still
  answers from it, and `ReadyMeansReceiving` then says only that the service had
  been started (`runtime.go:200`; `security-and-operations.md:79`).
* A positive verdict that comes after the bot has expired the attempt is ignored:
  the authority holds the session, the bot shows nothing. `EndingsAgree` therefore
  says nothing of EXPIRED attempts.
* A process that outlives the validity of its signing key goes on signing
  (`runtime.go:264`); `LiveIsAccepted` excludes those messages. Nothing at
  start-up checks that validities overlap (`configuration.md:64`).
* Rows are never encrypted again with a new data key, so `DropDataKey` waits until
  none is sealed with the old one; the worker `technical-decisions.md` names for
  that is not in the code.
* `DecodePayload` refuses unknown fields, where `technical-decisions.md` (section
  9) has consumers ignore them.

## Proofs

`tlapm` on `SessionsProofs`, `VerdictProofs`, `OutboxProofs`, `BotProofs`,
`TelegramUpdatesProofs`, `ServiceProofs`, `KeyRotationProofs` and
`ActivationProofs` proves the following for every value of the constants that
satisfies the assumptions

* `CommandsAssumption`, `BoundsAssumption`: a message ID stands for one command
  and for no answer, an offer ends before its command expires, lifetimes and
  limits are positive;
* `OutboxAssumption`: each message has a kind, the batch is positive;
* `BotAssumption`: the ID of an `invite.create` stands for one command, the
  reconciler's batch is positive;
* `UpdatesAssumption`: each update has a kind, a response may hold an update;
* `ConsumerAssumption`, `OrderAssumption`: each message has a subject, a channel
  holds at least one message, `Run` starts a consumer for each subject, once;
* `EnvelopeAssumption`, `RotationAssumption`: times are integers, a message lives
  no longer than an event may be old, two clocks differ by at most the skew.

`Activation` needs none. Every invariant, every action property and the safety part
of every refinement that a passing run checks is stated by a theorem; TLC checked
the inductive invariants on the instances of the runs first.

* `OutboxProofs!TypeCorrect`, `PublishedIsHonest`, `TerminalForGood`. The
  inductive invariant is `Inv = TypeOK /\ SentStageOnWire /\ PublishedWasSent`.
  `PublishedWasSent` is not inductive alone: `MarkPublished` needs that a message
  a replica holds as "sent" is on the wire, which is `SentStageOnWire`. One lemma
  per group of actions; what a statement does to one row is stated once
  (`MarkedRow`, `KilledRow`, `ConfirmedRow`, `ClaimedRow`).
* `SessionsProofs!TypeCorrect`. `TypeOK` is inductive. `CompleteType` proves the
  shared tail of the closing handlers once; the lemmas on inbox and outbox
  statements do the same for `Message`.
* `SessionsProofs!SessionsStayDisjoint`. Inductive given `TypeOK`: only
  `ActivateSession` changes `sessions`, and its guard is the conflict check; a
  renewal keeps the Telegram identity, so the check against the command's identity
  is enough for a new session, and the check of the transaction for both.
* `SessionsProofs!CommandsInStep`. `ProcessingWhilePending` needs that a
  verification is filed under its command's operation and that the command's
  inbox row exists (`CommandInv`).
* `SessionsProofs!WalletPinned`. `OneWalletPerBalance` speaks of pairs of
  verifications; the inductive form is that the balance of each verified one is
  pinned to its wallet (`VerifiedPinned`).
* `VerdictProofs!OneVerdict`, `OneTopupCommand`. The handlers are first reduced to
  four shapes of step (`StepShapes`): `Quiet` touches no verification, `Opened`
  adds one with its command, `Closed` gives a verdict and writes the one result,
  `Replaced` exchanges the top-up command. The inductive invariant `VerdictInv` is
  then kept shape by shape. Beside `TypeOK` and `CommandInv` it says that a
  verification's command and inbox row exist (`Filed`), that results and inbox rows
  refer to each other (`ResultsFiled`, which is `OneVerdictPerOperation` row by
  row), that a code tells the verdict (`CodesTell`), and that what a replica read
  in order to replace it has a dead top-up command (`BatchDead`). The last is
  what `OneLiveTopupCommand` needs: `ReplaceTopupCommand` compares the command's
  ID and the status PENDING, but does not look at the outbox row again, so the
  property rests on a dead row staying dead since the batch was read.
* `VerdictProofs!ActivationsPaid`, `VerdictsStand`. Both follow step by step from
  `VerdictInv`: a verification becomes VERIFIED in `ActivateSession` only, which
  has the answer at hand, and neither answers nor the results of inbox rows change
  afterwards.
* `VerdictProofs!VersionsCount`. `VersionsCountEvents` is inductive with
  `VerdictInv` and `EventsPlaced` (an event's session and operation are there).
* `VerdictProofs!AuthorityImplemented`. Each step of `Sessions` is one of
  `Authority` under the mapping or none: a verdict is a `Grant`, `Renew` or
  `Refuse`, the publishing of a result a `Tell`, an accepted command an `Ask`. That
  a result published is the verdict of a closed case is `ResultsFiled` with
  `CodesTell`.
* `BotProofs!DialogCorrect`, `ActiveThroughOne`, `InvitesUsedOnce`,
  `NoAnsweredCommand`, `TypeCorrect`. The properties compare sets of rows; the
  invariant `Inv` states them row by row (`Follows`, `WonOnce`, `TokensSpent`) and
  adds that a session is in one of the two tables and every attempt belongs to one
  (`Placed`), and that the commands of an attempt are its own rows of the outbox,
  the verify command from the payment on (`CommandsFiled`). None is inductive
  alone: that a late answer finds the dialog it expects rests on `Follows`, that
  completing one attempt does not complete another on `CommandsFiled`, and that
  `ExpireAttempts`, which resets dialogs by session ID, hits no newer attempt on
  both directions of `Follows`.
* `BotProofs!EndingsStay`, `FlowImplemented`. Action property and step simulation
  from the same `Inv`, one lemma per handler.
* `ServiceProofs!ConsumersStopped`. `NoOrphanConsumer` speaks of the end of `Run`;
  the invariant follows it there. `StageTells` says what a consumer's stage means
  for its subscription and goroutines, `RunTells` how far `Run` has got through its
  consumers: those before the current one are up while it starts and stopped while
  it stops, and those it need not stop come last.
* `ServiceProofs!ReadyIsReceiving`. `ReadyTells`: a flag is set only after what it
  stands for, and a probe that answered ready saw the flags, which are not taken
  back. `ServingTells`: as long as the context is not done, a service that has set
  its flag is still in `Run`'s select, where `RunTells` has every consumer up, and
  a consumer that is up keeps its subscription and all its workers; this needs that
  workers leave only when they are told to, and that the connection is closed only
  after the context was.
* `ServiceProofs!FailureIsTold`. `OutcomesTell` (`Run` and the poller return
  without an error only when their context is done) and `ServeTells` (without a
  signal that context is done only after an error was reported) make the exit code
  tell.
* `ServiceProofs!TypeCorrect`. Inductive as it stands.
* `TelegramUpdatesProofs!HandledOnce`, `WorkStaysExclusive`. The inductive
  invariant `WorkInv` adds that unregistered updates were not handled
  (`UnseenUntouched`) and that a poller's step agrees with the counters
  (`StepsCounted`); `OthersUndisturbed` covers every step after which a poller is
  idle.
* `TelegramUpdatesProofs!NothingForgotten`. The offset in memory becomes Telegram's
  confirmation with the next request, so the invariant `SeenInv` must speak of the
  offsets (`OffsetsSeen`) and of the responses in memory (`ResponsesSeen`): the
  loop jumps from one update of a response to the next, and what lies between was
  confirmed when the response was made (`ResponseHasNoGaps`).

* `OutboxProofs!RelayRefined`. The initial states of `Outbox` are those of `Relay`
  under the mapping, and each step is one of `Relay` or none, from `Inv`. This is
  the safety part of `ImplementsRelay`.
* `KeyRotationProofs!TypeCorrect`, `ReplicasReadRows`, `LiveMessagesAccepted`,
  `NothingLate`. The inductive invariant `Inv` is `TypeOK` with three parts:
  `RowTimes` (a row was not signed in the future but for the error of a clock, and
  does not outlive the age consumers allow), `KeysKnown` (what signs, in the files, in a process or in a row
  that has not run out, is in the manifest of the files and of every running
  consumer) and `RingsKnown` (the same for the data keys and the keyrings of the
  producers). `LiveIsAccepted` and `RowsReadable` speak of the processes that run
  now; a process that starts brings in what the files hold by then, so the
  invariant has to speak of the files as well. The rest is arithmetic on the windows of `Verify`.
* `ActivationProofs!ProjectionIsHeld`, `ServicesAgree`, `VerdictsApply`. `BotInv`
  says how the bot's tables fit together (a session is in one table, has one open
  try, and is asked about only when paid); `LinkInv` says that the authority
  decides what it was asked, in the bot's words (`CasesAsked`), that what is told
  and heard is the verdict (`ResultsTrue`) and that it has handed out what it
  verified, one session to a user (`Handed`). `ShownIsHeld` is not inductive
  without them: `Activate` rests on a result that was heard, hence told, hence a
  verdict, hence a session handed out to the user the command named, and no step
  of the bot changes that user meanwhile (`Kept`). `VerdictApplies` follows from the
  invariant, because two sessions of one user are never both handed out.

The theorems of `Activation` concern the two abstract specifications, and
`FlowImplemented` and `AuthorityImplemented` say that the services behave as
these. What is not proved is the step between: that NATS, which `Bot` and
`Sessions` each have as an environment of their own, is `Receive` and `Deliver`.

The type invariants of `Sessions`, `TelegramUpdates`, `KeyRotation` and `Service`
are proved and not repeated in runs. Only model-checked, because fairness is out of
the prover's reach: `EveryVerificationCloses`, `CommandKeepsRetrying`,
`EveryAttemptEnds`, `EveryMessageRegistered`, `ShutdownCompletes`,
`ReceivedIsHandled` and the fairness in `ImplementsRelay`.

## Not modelled

* Ciphers and signatures themselves, JSON, base64, sizes, the spelling of UUIDs
  and times: a message that fails there changes nothing and counts as lost.
  `decrypt_only` keys: `Encrypt` takes the active key only, so the flag changes
  nothing.
* Configuration, connections, migrations, metrics, wording and the demonstration
  tools: no state of the system's own, or pure I/O.
* Amounts (`randomMinor`, `FormatAmount`), the jitter of `retryDelay` (a delay is
  any delay in `Outbox`), `trimLabel` (the error it may lead to is a failed `Handle`
  of `TelegramUpdates` and a `PollerFails` of `Service`).
* Notifications to users: sent after the commit, and nothing depends on them.
  `invite.create` that comes in before the bot's name is known fails and counts as
  lost (`activation.go:212`).
* Revocation of sessions, the modes `direct_webhook` and `natsproxy` and retention
  (deleting old inbox rows) are not in the code.

## Plan

Done: all components with state of their own, the abstract specifications with
their refinements, the composition, and theorems for all safety properties. What is
left:

1. `Bot` and `Sessions` themselves over one network, so that the step from
   `FlowImplemented` and `AuthorityImplemented` to `Activation` is proved as well.
2. Shorter proofs: the lemmas on inbox and outbox statements that `BotProofs` and
   `SessionsProofs` both have could be stated once.

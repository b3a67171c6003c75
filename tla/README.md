# A TLA+ model of the codrik runtime

codrik is a daemon that answers messages for a set of *actors* with a language
model and tools. `codrik serve` keeps everything that must survive a crash in
one SQLite database and runs a handful of asynchronous tasks over it: one
dispatcher per actor, a worker that sends results to local clients, workers for
Telegram and Reticulum, a collector of files, and servers for local IPC and
webhooks. What is hard in it is not any one transaction. It is that every task
may run between any two transactions of every other, that a process may die
there too, and that each result has to reach somebody exactly once.

This directory models those tasks. Paths below are relative to the
repository's `src/`.

## 1. The system

### Components

| component | source | state it keeps | operations |
|---|---|---|---|
| mailbox ingress | `runtime/sqlite/{local_ingress,ingress,webhook}.rs` | `events`, `local_requests`, `work_items`, `actors.next_mailbox_sequence` | submit, gateway message, webhook, cancel, resolve a request |
| readiness, lease, attachment | `runtime/sqlite/dispatch.rs` | `actor_leases`, `runs`, `run_events` | acquire, attach, renew, release, look for a control event |
| run checkpoints | `runtime/sqlite/checkpoint.rs` | `runs`, `tool_attempts`, terminal states, result bundles | incorporate, prepare/run/observe an attempt, finalize, cancel |
| failure bookkeeping | `runtime/sqlite/failures.rs` | `work_items.failure_count`, `next_attempt_at` | record a failure (retry or terminalize), record progress |
| recovery | `runtime/sqlite/recovery.rs` | resets of attempts, leases, bundle claims | start-up, shutdown |
| runner | `runtime/runner.rs` | one quantum: steps taken, progress, attached run | the loop over model and tool steps |
| dispatcher, manager, supervisor | `runtime/{dispatcher,supervisor,signals}.rs`, `app.rs` | tasks and their shutdown flags | repeat quanta, follow the actor table, drain, stop |
| result bundles, outbox worker | `runtime/sqlite/bundles.rs`, `runtime/outbox_worker.rs` | `result_bundles`, claims with deadlines | claim, renew, acknowledge, replay, retry |
| stream hub | `runtime/stream_hub.rs` | subscribers, their queues, one byte budget | subscribe, publish, snapshot the recipients |
| local IPC | `runtime/ipc/*.rs` | slots, decode tickets, unfinished submissions, sessions, delivery sinks | submit, resume, cancel, acknowledge, shut down |
| local operations | `interfaces/{cli,local_renderer,request_metadata}.rs` | a recovery file per request, what the terminal has shown | submit, resume, acknowledge |
| gateway deliveries | `runtime/sqlite/{gateway,gateway_projection}.rs`, `interfaces/telegram/delivery.rs`, `interfaces/reticulum.rs` | `gateway_deliveries`, claims with deadlines | project, claim, renew, transition, expire |
| Reticulum bridge | `interfaces/reticulum/*` | a child process: deliveries it owes an outcome, two pipes | start, submit, call back, take a message, stop |
| Telegram ingress | `interfaces/telegram/{polling,ingress}.rs` | the polling offset | poll, handle an update, answer it |
| webhooks | `interfaces/webhook/*.rs`, `runtime/sqlite/webhook.rs` | receipts, deferred results | accept, defer, release |
| identity linking | `runtime/identity_link.rs`, `runtime/sqlite/identity_link.rs` | `identities`, one-time codes, failed attempts | issue, redeem, expire, collect |
| actor administration | `runtime/actor_admin.rs`, `runtime/sqlite/actors.rs` | `actors`, tools | create, enable, disable, change, delete |
| artifacts | `runtime/artifacts.rs`, `runtime/sqlite/artifacts.rs` | files and their rows, leases of files being staged | stage, publish, commit, collect, clean up |
| instance lock, IPC security | `runtime/instance_lock.rs`, `runtime/ipc/security.rs` | lock file, socket file | one daemon per directory |
| start and stop | `app.rs`, `runtime/sqlite.rs` | the phase of the process, the schema version | lock, migrate, bind, recover, serve, drain, clean up |
| agent, LLM client, tools, memory, skills, configuration, updater | `agent*`, `llm`, `tools`, `memory`, `skills.rs`, `config.rs`, `updater.rs` | none that another task shares | HTTP, process and file I/O |

`PROJECT.json` has the same list with what is modelled of each.

### How they interact

* **Shared rows.** Ingress tasks and the dispatcher never call each other. They
  meet in the tables: ingress appends an event to the mailbox and joins or
  opens a work item; the dispatcher attaches events to a run, and settles them.
  Transactions are `BEGIN IMMEDIATE`, so each is atomic and they are
  serialised; everything between two of them is not.
* **Fencing.** A quantum holds the actor's lease and writes under
  `(owner_id, lease_generation)`; a claim on a bundle or a delivery is compared
  by its owner and its exact deadline; a write whose claim has gone is refused.
* **Signals.** A commit wakes tasks through `watch` channels and `Notify`. A
  signal only says "look again"; what is done is decided by the next read.
* **Results.** `finalize_run`, `cancel_run` and `record_failure` settle a local
  request and store its result bundle, which the outbox worker sends to the
  subscribers in the stream hub and a client acknowledges on a connection of
  its own. Results for gateways are projected into `gateway_deliveries` in the
  same transaction, or deferred until the actor has a route.
* **The actor table.** Administration commits to it at any time. The manager of
  dispatchers follows it, every ingress looks at it, deletion removes rows of
  all the other components.
* **The directory.** The lock file, the socket, the recovery files and the
  artifacts outlive the process that wrote them and are not written together
  with the database.

### What is hard, and what makes each component correct

* *Mailbox*: a message or a cancellation commits between two transactions of a
  quantum, or between the last look at the mailbox and finalization. An
  accepted message is processed once, in order within its work item, and
  nothing is left where nobody would look for it.
* *Run, work item, events, requests* end together through five tables, whether
  the run completes, is cancelled, is preempted or fails for good with some
  events incorporated, others attached and others waiting.
* *Tool attempts*: one is running when the process dies; nobody may guess
  whether it took effect, and no answer is given over it.
* *Leases and claims*: only their holder writes; an expired one is taken over
  without doing twice what may have been done.
* *Result delivery*: subscribers come and go while a result is sent, the
  acknowledgement races the claim's deadline, and the worker dies in between. A
  connection sees one bundle sequence; a bundle is delivered only after an
  acknowledgement and never undelivered.
* *Sessions*: a request is reported missing only if it cannot appear; a slow
  subscriber loses text only behind a gap marker; nobody is left waiting after
  a shutdown; a full pool of connections stays usable.
* *Gateways*: chunks of a message keep their order, and what may have been sent
  is not sent again; an update is neither lost nor handled twice to different
  effect, although Telegram sends it again after a crash.
* *Identities and actors*: a code is redeemed once; what belonged to a deleted
  actor is gone before another one has its name; a disabled one starts nothing.
* *Artifacts*: no file in use is collected, everything else is.
* *Processes*: of two that are started at once one serves; the socket leads to
  it; the recovery file of a request never promises what the database lacks.

The full list, each at its line and with the properties that cover it, is under
`hazards` in `PROJECT.json`.

## 2. Modules

In all of them an action is one transaction or one await at which something
else may happen, and a definition named `Name_Variant` is a deliberately wrong
variant of `Name` that no specification uses: substituted for `Name` it breaks
a property, which shows that the property can fail.

A comparison with the wall clock is a Boolean, or a choice, that an action
makes; `ORDER BY` on wall-clock columns is a choice; texts, payloads and
formats are model values or absent.

`TypeOK` (`ActorsTypeOK` in `Actors`) is defined in most modules that have
state of their own to type. It is there to be read and is proved, because the
other proofs start from it (in `ReticulumBridge` as `BridgeTypes`, a part of its
invariant); no run spends its time on it.

### `ActorMailbox` — one actor, from ingress to settled request

The composition of four parts around shared tables, because that is how the
code is composed: ingress transactions, the attachment transactions of
`dispatch.rs`, the quantum of `runner.rs` with its transactions in
`checkpoint.rs` and `failures.rs`, and process life (`recovery.rs`,
`supervisor.rs`).

| variable | in the code |
|---|---|
| `events`, `requests`, `works` | rows of `events`, `local_requests`, `work_items`; `due` abstracts `next_attempt_at <= now` |
| `runs` | rows of `runs` with their `run_events` (`attached`, `incorporated`), the run's unresolved row of `tool_attempts` and the lease generation it was last written under |
| `lease` | the actor's row of `actor_leases`: absent, held by the running process, left by a dead one, or expired |
| `pc`, `cur`, `ctl`, `steps`, `progressed` | where `run_leased`/`run_quantum` is, the attached run, the cancellation found, `model_steps`, and whether `QuantumProgress` is other than `None` |
| `faults`, `crashes` | spent part of the bounds on errors and process deaths |

| actions | code |
|---|---|
| `SubmitForActor`, `Ingest`, `IngestWebhook`, `CancelForActor` | the ingress transactions |
| `AcquireReadyActor`, `AttachNextRun`, `ReattachRun`, `ReleaseLease` | `acquire_ready_actor_for`, `attach_next_run` (resume, new run, or a work item for an unassigned event), `release_lease` |
| `Incorporate`, `NoUnresolvedAttempt`, `RecoverPrepared`, `RecoverRunning`, `BlockUnknownAttempt`, `WaitForDecision`, `CheckpointObservation` | `checkpoint_run` and the recovery loop over unresolved attempts |
| `FindControl`, `BeginModelStep`, `YieldAfterLastStep`, `ModelAnswers`, `ModelCallsTool`, `StartTool`, `FinishTool` | the step loop, with `execution_boundary` and `await_execution` |
| `Preempted`, `FinalizeRun`, `CancelRun` | `finalize_run` (its two outcomes) and `cancel_run` |
| `WorkError`, `ExecutionTimeout`, `Retry`, `Terminalize`, `RecordProgress`, `NoProgress`, `FenceRejected`, `FailureRejected`, `AuthorityLost` | errors, the wall-clock limit, `record_failure`, `record_progress` and the ways the dispatcher gives up |
| `BackoffElapses`, `LeaseExpires`, `Crash`, `Shutdown`, `ExitAfterFailure`, `Restart` | the clock, death of the process, drain with `recover_shutdown`, `recover_startup` |

One unresolved attempt per run: the code prepares attempts of one model step in
a loop and runs them one after the other, and every check it makes is "is there
an unresolved attempt". Routes, authorisation, de-duplication by external id,
outbox rows, malformed payloads (`blocked_malformed`) and the `waiting` work
state (never written) are left out. A shutdown aborts the quantum and recovers
in one step; see "Processes" below for what the code does in between.

### `ResultContract` and `ResultDelivery` — from stored result to acknowledgement

`ResultContract` is what a client may rely on, in four states: a result is
stored, offered by one claim, withdrawn, and delivered once a client that read
all of it said so. `ResultDelivery` is the protocol that provides it, and is
shown to implement it (`ImplementsContract`, the contract under the refinement
mapping of the bundle's row and the clients that verified a bundle).

| variable | in the code |
|---|---|
| `request`, `bundle` | the request's rows of `local_requests` and `result_bundles`; `expired` and `due` abstract `claim_expires_at` and `next_attempt_at` |
| `pc`, `send` | where the outbox worker is between `run_once` and `retry`, and the send to each recipient of the transmission |
| `session` | one handler of `ipc/server.rs`: its place in `submit`/`resume`/`serve_durable_request`, the record it read, its subscription in the stream hub, and its sink (`delivery_open`, writer shut, `bundle_participation`) |
| `client` | `drive_operation` of the CLI: reading, served, verified, acknowledged, interrupted |

Two facts about tasks are what the module is about. Sessions are tasks of their
own, so a session, a client and the worker interleave freely. The sends of a
transmission are not: `join_all` runs them inside the worker's task, so they
advance only in `pc = "sending"`. And a send in the middle of a frame
(`"writing"`) holds the sink's writer, which `close` needs.

The result is committed by `CommitResult`, which stands for the transactions of
`ActorMailbox` that settle a request; `DetachOrAssign` for those that take a
request off its work item and put it on a new one. Malformed bundles, transient
events, transmission slots and several requests in one claim are left out.

### `LocalSessions` — connections, tickets, queues

The other half of `ipc/server.rs` and the stream hub, where `ResultDelivery`
takes one step: how a connection is admitted (`Accept`, `Register`,
`CheckFlag`, `Decode`), how a resumption waits for submissions that came before
it (`WaitForSubmission`, `Resolve`, `WaitForPrior` over `tickets` and the guards
of `SubmissionRegistry`), what the run publishes and what the queue of each
subscription does with it (`Publish`, `PublishTo`, `Enqueued`, `Unsubscribe`),
the acknowledgement on a second connection (`ConnectAck`, `AcceptAck`,
`Acknowledge`), and the shutdown (`BeginShutdown`, `SnapshotSinks`, `Notify`).
`client` is the renderer of `local_renderer.rs` as far as it depends on the
order of events: `Seen` applies a frame, `hole` remembers a missing delta that
no gap marker announced. The bundle is two frames here, and a frame is applied
to the client when it is written. A text delta takes one byte of the budget, an
activity event none. The actor stays available.

### `GatewayDelivery` — results on their way to Telegram and Reticulum

`gateway_deliveries` as a queue (`queue` is the order by `created_at` and random
id that `Project` and `EnqueueGatewayDelivery` produce), with `row` for its
columns. `Claimable` is the condition of the claim query: nothing in flight to
the address (`SameMessage` exempts a response from a waiting chunk and the
other way round), every predecessor of the message delivered, nothing waiting
that is older. `TgClaim` ... `TgStop` are the Telegram worker, which runs a batch
of `deliver` tasks concurrently; `RnClaim` ... `RnCleanup` the Reticulum worker,
which sends one at a time and marks a delivery unsafe to repeat before it
submits it. `outcome` is what the transport said, `"doubt"` from submission to
answer; it is observed by properties only. Deadlines: each claim query chooses
which claims have expired (`AfterExpiry`) and which rows are still backing off.
`Fence` compares claims by attempt and renewal. Streams (`gateway_streams`, no
callers in production) and the splitting of texts are left out.

### `ReticulumBridge` — the Reticulum gateway as two processes

Extends `GatewayDelivery` and replaces the answers that its Reticulum worker
gets out of nowhere (`RnSubmit`, `RnAnswer`, `RnBridgeLost`) by the process that
gives them. `bridge` is `bridge.py`: its main thread (`BridgeReady`,
`ReadCommand`, `HandOver`, `AnswerAtOnce`, `HandOverFails`) and the set `active`
of deliveries it owes an outcome; `air` counts the LXMF messages that the router
has not called back for (`CallBack`, in threads of its own); `pipe` is its
standard output, of limited size, and `command` its standard input. The worker
reads the pipe only while it waits, for an outcome or for half a second after a
claim that found nothing (`Polling`, `PollEnds`). `next_event` is dropped when
that time is over or a renewal is due, and forgets the part of a line that it
has consumed (`TearLine`). What the network sends (`BridgeInbound`) is read in
both places and handled in two or three transactions (`ResolveIdentity`,
`EnqueueResponse`, `IngestMessage`), whose answers are deliveries again; whether
the peer is linked to an enabled actor (`admitted`) may change between them. The
bridge is started before the daemon serves (`SpawnBridge`, `Serve`,
`StartFails`) and ends with it (`Ended`). The deliveries of Telegram are those
of `GatewayDelivery`; the setup of the Reticulum stack, the recovery of unknown
sources and what ingestion does to the mailbox (`ActorMailbox`) are left out.

### `Actors` and `GatewayIngress` — who may do what, and how input arrives

`Actors` is the actor table under administration (`CreateActor`,
`SetActorEnabled`, `MutateActorTools`, `DeleteActor` with both modes), the
manager that keeps one dispatcher task per enabled actor (`Reconcile`,
`JoinStopped`: a stale task is told to stop and awaited, before the missing
ones are started), the tasks (`CheckShutdown`, `AcquireReadyActorFor`,
`FinalizeRun`, `ReleaseLease`), ingress that looks at the table in its own
transaction (`AcceptEvent`), and crashes. An event stands for its request, its
work and its result. All tasks of a process use one lease owner name, as in the
code, so the lease does not tell them apart.

`GatewayIngress` extends it with Telegram polling (`GetUpdates`, `Handle`,
`Failed` and the `offset` the next poll acknowledges), the handler of an update
as the separate transactions it is (`ResolveIdentity`, `Download`, `Ingest`,
`RedeemOnce`, `EnqueueResponse`), link codes (`IssueLinkCode`,
`LinkCodeExpires`, `AttemptWindowPasses`, `CollectExpired`), webhooks whose
results wait for a route (`IngestWebhook`, `ReleaseDeferred`) and a deletion
that takes identities, codes and routes along (`DeleteWithRows`). Here a
quantum is one step. Wrong guesses other than a code that was issued earlier,
`/link` without a code, user names, the webhook transport (the same handler)
and the automatic de-duplication window of webhooks are left out. Webhooks
address the default actor; the results of the default actor stay owed, so that
it is never deleted.

### `Artifacts` — the files of tools

`row` and `file` are the two places that are never written together;
`StageExecution` ... `CommitStagedExecution` copy files into partial files
under a lease, publish them under the hash of their content, look at them once
more (`LookAtFiles`) and commit them with the tool attempt;
`ClaimExpiredStaging` ... `FinishScan` are one round of `collect_garbage`,
first over expired claims, then over files on disk that no row names and that
are old enough; `RemoveDeletedArtifact` is the cleanup after `delete_actor`,
which takes no lock, so that it may unlink a file at any point of this; `swept`
remembers which files it did unlink. One actor (each has a directory of its own
and runs one quantum at a time); a listing of the directory is atomic; deletion
and recreation of the actor are one step; quotas, symbolic links and the limit
of 256 claims are left out.

### `Daemon` and `LocalOperations` — processes, and one request through them

`Daemon` is `serve` in `app.rs` for several processes started on one directory:
`AcquireLock`, `Migrate`, `VerifyActor`, `RemoveStaleSocket`, `BindListener`,
`RecoverStartup`; serving; `Interrupt`, `Drained` or `GraceEnds`,
`RecoverShutdown`, `RemoveSocket`, `Unlock`, `Exit`; `StartFails`,
`ComponentFails` and `Crash` between any two. Of the work of the components one
lease and one quantum are kept.

`LocalOperations` extends it with terminals that submit one request, resume it
and acknowledge its result (`cli.rs`), the recovery file between them (`meta`,
`request_metadata.rs`: `Create`, `MarkSent`, `SetState`, `MarkTerminal`), and
the server side of a connection in as many steps as can be interrupted
(`Accept`, `Subscribe`, `Answer`, `Replay`, `Notify`), with the recipients the
outbox worker takes at one point (`Snapshot`) and serves when their sinks open
(`SendFinal`). A connection leads to the process the socket file led to when it
was opened; one whose terminal has gone is there until its handler writes to it,
and a worker that has taken it as a recipient by then is `blocked`. A request is
submitted once per id (ids are random); the claim of the worker and its deadline
are in `ResultDelivery`; a quantum that still holds the lease finishes the
request (`ActorMailbox`).

### `MCGatewayIngress`

The set of updates that the run of `GatewayIngress` uses.

### The proofs

`ActorMailbox_proofs`, `ResultDelivery_proofs`, `LocalSessions_proofs`,
`GatewayDelivery_proofs`, `ReticulumBridge_proofs` (which extends the one
before, as its module does), `Artifacts_proofs`, `LocalOperations_proofs` (so
also about `Daemon`) and `Actors_proofs` (about `Actors` and `GatewayIngress`)
hold the theorems of section 6.

## 3. Runs

Deadlock is checked in `local_operations` only. Everywhere else a system whose
bounded input is spent is idle for good, as it should be.

| run | what it asks | instance | states |
|---|---|---|---|
| `mailbox_all` | tables, runner and lease stay in step, and two ends only stop the daemon | 4 sequences of local requests, cancellations and tools, batch limit 2, 2 model steps per quantum, 2 failures to give up, 3 faults, 1 crash | 3.9 M |
| `mailbox_cancel` | cancellation and completion leave nothing behind | 4 sequences of every kind, 2 audiences, no faults, 1 crash | 270 k |
| `mailbox_liveness` | every request settles | 3 sequences, 2 audiences, 1 fault, 1 crash | 90 k |
| `delivery_all` | claims and sinks stay consistent, the refinement of `ResultContract`, and a stored result reaches a client | 2 connections, each a Submit or a Resume that may leave at any moment, 1 claim that expires under a live worker, 1 crash or shutdown | 520 k |
| `sessions_all` | missing is definitive, no silent loss, exact budget | 2 connections, 2 slots, queues of 2 events and 1 byte for both, 2 events, 1 client that leaves | 2.7 M |
| `sessions_live` | everybody is served or told | the same with 1 event and no departures | 170 k |
| `gateway_all` | rows tell the truth, order, claims, nothing in doubt is repeated, the queue never blocks itself | 1 chat, 1 peer, 3 chunks of 2 messages, batch and concurrency 2, 1 renewal, 1 fault, 1 crash or shutdown | 2.2 M |
| `bridge_live` | the worker and its bridge agree, every delivery settles and every message is handled | 1 peer, 2 chunks and 1 message with its answer, room for 1 event in the pipe, 1 renewal, 1 fault, 1 crash or shutdown | 210 k |
| `actors_all` | quanta and tasks follow the actor table | the default actor and one more, 2 events, 1 tool, 4 administrative changes, 1 crash | 410 k |
| `ingress_all` | links, routes and updates survive redelivery and administration | 2 updates, 2 senders (one linked), 1 code, 2 webhooks, 3 changes, 1 crash | 890 k |
| `artifacts_all` | no referenced file is lost, everything else is collected | 2 files of 2 contents in one execution or two, 1 deletion, 1 crash | 260 k |
| `local_operations` | lock, socket, recovery file, and every request is read | 2 processes, 2 terminals, 1 request, 2 failures, signals, deaths or departures | 740 k |

Why the bounds are enough.

* *Mailbox.* Three sequences give an incorporated, an attached and a waiting
  event of one work item, or two work items with one cancellation; four give
  two work items with a cancellation each, or one with two messages and two
  cancellations. A batch limit of 2 makes an attachment cut a batch; with two
  model steps a run calls a tool and still answers in its quantum, or yields
  and is resumed; two failures give one retry and one terminalization; with three
  faults another run backs off after that, beside one that was started since.
* *Delivery and sessions.* Two connections are what the properties compare: a
  recipient and another recipient, a recipient and a late subscriber, a
  submission and a resumption, a slow subscriber and one that pays for it. With
  two slots both of them fill the pool while each needs another one to
  acknowledge. A queue of two events holds one and the marker.
* *Gateways.* Two messages to one address and three chunks are the least for a
  chunk between two others; two workers on one table, each with its own
  address, share everything but rows. In the bridge one fault is a message that
  the router took although it raised, which calls back during the second
  attempt; a pipe with room for one event is full as soon as an outcome and a
  message meet. `bridge_live` also holds with two faults (1.0 M states).
* *Actors and ingress.* One actor that comes, goes and comes back beside one
  that stays; one update that is handled and sent again beside one that is not.
* *Artifacts.* Two files with one content (one path, two leases) or two.
* *Processes.* Two at a time race for lock and socket, and a third one would
  meet what the second one meets; two stops are one failure and one while it is
  being repaired.

Every disjunct of every next-state relation fires in these runs. Every property
has a mutant of the code that TLC finds violating it (`mutants` in
`PROJECT.json`).

Why the mailbox runs differ in their inputs. Some properties hold only without
some of the inputs: `PendingWorkIsOpen` and `CancelSettlesItsTargets` are checked
without faults and tools, and `EveryRequestSettles` without webhooks,
cancellations and tools. What happens otherwise is in the next section.

What properties except. `ResultReachesAClient` excepts `Blocked`, a worker that
waits for a sink nobody will open or for writers it holds itself.
`EveryRequestIsRead` excepts behaviours in which a worker stays blocked on such a
sink for good (`WorkerBlocked`), and says nothing of the end of a command whose
session delivery has overtaken (`Overtaken`); the request itself is read then,
by another terminal.
`EveryDeliverySettles`, a part of `NothingIsForgotten`, excepts a message one of
whose chunks was given up (`HeldUp`) and interleaved ids (`Interlocked`), and so
does `QueueNeverStuck`, which says of every state and both gateways what makes it
true: a claim query that comes late enough finds something. A message from the
network is handled unless the daemon goes down. `EveryUpdateIsHandled` excepts
the updates behind one that is `Contradicted`. `ReferencedFileStays` excepts
the files that the cleanup after a deletion did unlink and nobody published
again (`swept`): every other file of a committed row is there. Each exception is a case in the next section.

## 4. Where code and documents disagree

Met while modelling, each reproduced by TLC with the property and the inputs
named. They are described and not run; the runs above state what holds. The
design documents are in `docs/superpowers/specs/`; `serve-local-ipc-design.md`
is `2026-07-14-codrik-serve-local-ipc-design.md` there and
`persistent-actor-runtime-design.md` has the same date.

### Mailbox

* *Preempted for ever* (`EveryRequestSettles` with webhooks).
  `newest_compatible_input` (`sqlite/checkpoint.rs:680`) looks at the audience
  and not at the work item: a local request preempts a webhook run's
  finalization, cannot be attached to it, and preempts it again in every
  quantum (against `persistent-actor-runtime-design.md:96,176`).
* *The wrong run is cancelled* (`CancelSettlesItsTargets` with two active
  runs). A cancellation of one run is found by the other, which cancels itself
  and consumes the control event (`sqlite/dispatch.rs:660` against
  `serve-local-ipc-design.md:350`).
* *A cancellation that is never processed.* A work item that waits for a
  decision is never selected (`dispatch.rs:173`); nothing leaves that state.
* *Recovery skipped* (the exception in `OnlyReattachmentSkipsRecovery`).
  Reattachment after a preempted finalization may pick another run and goes to
  its model steps without the recovery loop (`runner.rs:860`): that run may
  answer, and complete, with a tool attempt prepared or of unknown outcome. It
  takes two active runs, of two audiences or of one: when a work item fails for
  good, an event it gives back gets a work item of its own although a later
  message has opened another one, and the older run is resumed while the younger
  one executes (three failures and three messages).
* *A failed answer stops the daemon* (the first end in `OnlyTwoEndsStopDaemon`).
  A run that `finalize_run` ends `failed_terminal` is refused by the fence of
  `record_progress` (`failures.rs:234` against `serve-local-ipc-design.md:138`).
* *A decision to wait stops the daemon* (the second end). After
  `block_unknown_attempt` has committed, `run_quantum` looks at the clock once
  more (`runner.rs:723`). If the wall-time limit has passed, `record_failure` is
  called for a work item that now waits for a decision, which its fence refuses
  (`failures.rs:44,226`). A cancellation found there instead is settled:
  `cancel_run` and the look for it ask for an active run and not for the state of
  the work item.
* A message or cancellation that joined a work item but was not attached when
  its run failed for good stays pending on the failed work item.
* `max_events` counts events of earlier quanta, so a full run that is preempted
  can neither attach the new message nor complete.
* `release_lease` deletes the row with the generation, so the "monotonic"
  fencing token starts at 1 again; `OneQuantumPerActor` holds because the
  manager awaits the old task, not because of the token.

### Local results

* *The worker waits for itself.* A claim is fenced while a send is in the middle
  of a frame (the daemon was suspended past the 30 seconds, say): `transmit`
  awaits `abort_recipients`, which needs the writer that the suspended send
  holds (`outbox_worker.rs:370` against `serve-local-ipc-design.md:496`). No
  result of any request is delivered until a restart.
* *A sink that stays closed.* A handler whose `Accepted` frame fails returns
  without opening its sink (`server.rs:713`), and a worker that already has it
  as a recipient waits in `wait_until_open` (`EveryRequestIsRead` without
  `WorkerBlocked`). The claim stays with it, so no other session gets the result
  before the daemon stops.
* *Accepted and never served.* A resumption that read an active request and
  subscribes after the delivery, or a duplicate submission of a delivered
  request, waits for ever (`server.rs:797` against
  `serve-local-ipc-design.md:491`; `EveryRequestIsRead` without `Overtaken`). It
  ends when its terminal leaves or its daemon stops.
* *A delta in the bundle.* The handler's transient events and the worker's
  final frames take the writer in turns (`server.rs:1112`); a late `TextDelta`
  between `FinalBegin` and `FinalEnd` makes the client fail.
* A client whose request another client completed fails on its own
  `set_state(Accepted)` ("cannot move backward") before it shows the result.

### Gateways

* *Interlocked messages.* Chunks that one transaction projects share
  `created_at` and are ordered by random ids (`sqlite/gateway.rs:132`), while
  the predecessor condition follows the ordinals: with the ids of two messages
  interleaved, neither is ever claimed.
* The claim query may return a waiting chunk and a later response for the same
  address (`gateway.rs:144`), which `2026-07-16-telegram-webhook-gateway-design.md:428`
  excludes; `ChunksInOrder` says what does hold.
* Reticulum shutdown after a renewal holds the claim of before it
  (`reticulum.rs:98`), so its transition is refused and the bridge is not shut
  down; the row settles when the claim expires.
* *A line that is torn.* `read_protocol_line` keeps the part of a line it has
  consumed in a local variable, and both of its callers drop the read at a
  timeout or a tick (`reticulum.rs:119,228`). The rest of the line cannot be
  decoded, and the daemon goes down (`TearLine`); an outcome that was lost that
  way leaves `outcome_unknown`.
* *A message too early.* The bridge registers its callback before it announces
  itself and says `ready` (`bridge.py:342,358`); a message that comes in between
  makes `start` fail (`bridge.rs:88`), and the daemon with it.
* *Messages are not acknowledged.* What the bridge has taken from the network
  and the worker has not handled when the process ends is lost, and a shutdown
  drops a message that is handled during a delivery in the middle. A peer whose
  actor is disabled between the two reads of its identity stops the daemon
  (`reticulum/ingress.rs:148`), where Telegram's handler is tried again.
* *Attempts are not told apart.* The id of a delivery is the only thing that the
  callbacks of the router know. When `handle_outbound` raised after it had
  taken the message, the outcome of the first attempt is reported as that of the
  second one, whose own outcome is then ignored.
* *An update that is refused for ever.* After a crash Telegram repeats an update
  whose answer is already queued; if the state of the actor now gives another
  answer, `enqueue_gateway_delivery` refuses it (`sqlite/gateway.rs:75`) and the
  poller retries it for ever. `2026-07-18-telegram-polling-design.md:109` relies
  on that replay being safe.

### Actors

* Tool changes apply when the dispatcher task restarts, not with the next
  quantum (`app.rs:494` against `2026-07-18-actor-administration-design.md:104`).
  `ToolsAsGranted` states it; TLC finds it violated.
* `reconcile_dispatchers` awaits the quantum of one stale child before it turns
  to the other actors (the same document, line 101).
* A delivery of unknown outcome, or work that waits for a decision, blocks even
  a forced deletion for ever; so does, until a restart, the expired lease row
  that a crash left to a disabled actor.

### Artifacts

* *The collector stops the daemon.* It walks a listing; a partial file that its
  stager renames meanwhile is `NotFound`, which is an error of
  `collect_garbage` (`artifacts.rs:389`) and ends the component, against
  `2026-07-14-codrik-serve-local-ipc-design.md:462`. The deletion of an actor
  between claim and completion does the same.
* *A referenced file is removed.* The cleanup after a deletion takes no path
  lock and works from paths whose rows are gone (`artifacts.rs:49`). An actor
  created again with the same id may have committed the same content by then; or
  it is about to: `commit_staged_execution` looks at the file
  (`sqlite/artifacts.rs:90`) before its transaction, and the cleanup may unlink
  it between the two, so that the row is committed when the file has gone.
* The lease of an earlier file of an execution is not renewed while a later one
  is copied.

### Processes

* Step 5 of the shutdown in `serve-local-ipc-design.md` cancels unfinished
  futures. When the grace period ends while the manager awaits its children,
  dropping the manager detaches them: they may run on until the runtime is
  dropped, which is after the lock is released. Their writes are fenced by the
  deleted lease; what their tools do is not. A component that fails while
  serving aborts them (`Drop for RunningDispatchers`, `dispatcher.rs:24`).
* A start that fails after `bind` leaves the socket file to the next start,
  which removes it under the lock.
* A connection that is in the listener's backlog when the server stops
  accepting waits until the listener is dropped.

## 5. Fairness

No specification assumes that ingress, administration, errors, crashes or
signals happen. What is assumed, and why the code justifies it:

* *Tasks run.* Weak fairness of the quantum's steps, of the outbox worker, every
  session and every send it awaits, the Reticulum worker and the main thread of
  its bridge, the manager and each
  dispatcher task, the poller, the stager and the collector: tasks of an
  executor that never blocks for ever, with model and tool calls under a
  wall-clock limit.
* *Clocks run.* Backoffs, leases and claims expire, files grow old; a claim
  query comes when every deadline has passed.
* *Daemons are started again* (`Restart=always`, `scripts/install.sh:218`), and
  a stopped one exits.
* *Clients that stay* read what they are sent and do what follows; in
  `LocalOperations` a terminal whose command has ended resumes the request, as
  long as its recovery file is not terminal.
* *The LXMF router* calls back for every message it has: it tries again, and
  gives up in the end (external).
* *Strong fairness*, three times. In `ActorMailbox` for the resumption of each run:
  runs are resumed oldest `updated_at` first and every quantum writes its run,
  so a due run is not passed over for ever. In `Artifacts` for a claim that is
  reached before it expires: the collector's claim may expire before its turn
  in one round, not in every one. In `ReticulumBridge` for a claim query after
  every deadline has passed: the worker polls in between, so the query is not
  enabled all the time.

## 6. Proofs

The theorems hold for every value of the constants, from the named assumptions
on them, which say no more than that the instance makes sense:

| module | assumed of the constants |
|---|---|
| `ActorMailbox` | bounds are naturals, limits positive naturals, the private audience is an audience, inputs are known kinds |
| `ResultDelivery` | bounds are naturals (connections may be any set) |
| `LocalSessions` | finitely many connections, at least one slot, room for an event and a gap marker, a positive byte limit, bounds are naturals |
| `GatewayDelivery` | chats and peers are different addresses and there is one, limits are positive, bounds are naturals |
| `ReticulumBridge` | what arrives is among the messages, there is a peer, the pipe holds an event |
| `Actors`, `GatewayIngress` | the default actor is one, bounds are naturals, limits positive; events are updates or hooks and never both, linked senders are senders, `None` is no code |
| `Artifacts`, `Daemon`, `LocalOperations` | bounds are naturals, "no process" is none |

Two theorems about the mailbox have a hypothesis of their own, which is also in
the configuration of their run and without which they are false (section 4); it
is stated with them below. Every other one is unconditional.

Every proof has the same shape. The properties alone are not inductive; the
module's inductive invariant adds what they rest on, in named parts. There is
one lemma per group of actions that treats the parts a group can disturb, lemmas
that say what a group of actions leaves alone, and one that puts them together.

### Mailbox (`ActorMailbox_proofs`)

* `TypeCorrect`: `[]TypeOK`.
* `RunAndWorkAlwaysAgree`, `RunnerAlwaysOwnsRun`: `[]RunAndWorkAgree`,
  `[]RunnerOwnsRun`.
* `TablesAlwaysInStep`, `AlwaysAttachedInOrder`, `AcquiredActorAlwaysHasWork`:
  `[]TablesInStep`, `[]AttachedInOrder`, `[]AcquiredActorHasWork`.
* `OnlyTwoEndsEverStopDaemon`: `OnlyTwoEndsStopDaemon`. Apart from a lost lease
  or store, a step that stops the daemon reports a run that `finalize_run` ended
  `failed_terminal`, or the failure of one whose work item the quantum has just
  blocked.
* `RecoveryComesBeforeTheAnswer`: `OnlyReattachmentSkipsRecovery`.
* `PendingWorkAlwaysOpen`, `CancellationsSettleTheirTargets`:
  `[]PendingWorkIsOpen`, `CancelSettlesItsTargets`, for an actor without tools
  and faults (`Calm`).

`RunTableInv` is the invariant of runs, work items and the lease. It adds that a
run id that was never used names no work item, and that a quantum about to
attach holds the lease. Ingress never changes the state or due time of a work
item that exists, so nothing outside the quantum can take the runner's run away;
a new run is started only when no run is due, on a work item that is ready and
due, which therefore has no active run, and a work item with a finished run is
itself finished; every transaction that ends a run ends its work item in the same
state; and what leaves the quantum (failure, progress, release, crash) leaves
`ExecutingStates` in the same step that it disturbs the work item, the run or
the lease. The exception is a quantum that has blocked its work item: the run
stays in its hands until it has looked at the clock.

`MailboxInv` adds what events say: `Attachments` (`run_events` as a relation
between the tables), `InOrder`, `EventRows` (an event past "pending" has a work
item, and a settled message a settled one), `RequestRows`, `NoRowAhead` (nothing
above `next_mailbox_sequence`), `AllIncorporated` (behind `checkpoint_run` the
quantum has incorporated all that is attached, so that finalizing the
incorporated events leaves no attached one behind), `CancelInHand` (a
cancellation that was found is still pending, so that it is settled once), and
that an acquired actor has work. The order needs a cardinality argument: `Batch`
counts the smaller candidates, so a batch is an initial segment of what is
pending however the limit cuts it. That an acquired actor has work needs the
other half of a cancellation: what it withdraws from the startable events it
replaces by its own control event.

`DaemonInv` adds `ReportsToFence`: a quantum that is about to report has a run
that the progress fence accepts, or one whose answer no bundle could carry. One
that is about to record a failure has, by `RunnerOwnsRun`, a run that the failure
fence accepts or one whose work item it has blocked itself (`HasBlocked`).

`RecoveryInv` adds `SkippedOnlyForAnother`: behind the recovery loop the run at
hand has an unresolved attempt only while another run is due. This is the form
in which the property is true for all inputs. Its earlier form, that a completed
run has no unresolved attempt, held in the run only because two faults were too
few; the attempt to prove it led to the case with one audience in section 4, and
the run now has three.

`CalmInv` is for the two properties that are false with two active runs. In an
actor without tools and faults no work item ever waits or backs off, so an
active run is always due and resumed before another one is started: there is
one (`CalmRows`). Nothing is detached, so an event keeps its work item, which is
ready as long as the event is open (`Destined`); nothing joins a work item that
is being cancelled, so that a cancellation comes after its messages and has
snapshotted all of the active requests (`CancelLast`); the observed sequence is
that of an attached message (`Observed`), so that an answer is preempted by
whatever it does not cover; and the cancellation in hand is for the run at hand
(`OwnCancel`).

### Delivery (`ResultDelivery_proofs`)

* `DeliveryTypeCorrect`: `[]TypeOK`.
* `ClaimAlwaysFollowsWorker`: `[]ClaimFollowsWorker`.
* `AtMostOneSequencePerConnection`: `[]OneSequencePerConnection`.
* `FinalNeverBeforeAccepted`: `[]FinalAfterAccepted`.
* `AckNeverTruncatesSends`: `AckNeverTruncates`.
* `DeliveryImplementsContract`: `ImplementsContract`, the refinement.

All but the first and the fifth follow from one inductive invariant,
`DeliveryInv`, whose parts are what each property needs to be inductive:

* `RowsAgree`: a bundle exists exactly when its request is terminal, and has an
  owner exactly while it is being delivered. No step undoes a terminal request,
  an offer or a delivery (`RowStep`), on which the rest builds.
* `ClaimInv`: `ClaimFollowsWorker`, extended to a worker that stops because it
  was fenced (it leaves an expired claim) and to a dead process (it owns nothing
  as a live worker). A fenced renewal proves expiry only because nothing but an
  ACK can otherwise have ended the worker's claim.
* `KnowledgeInv`: who has the whole result got it after it was offered, and a
  session replays only what it read as delivered. This is what lets a client's
  verification be a `Read` of the contract.
* `AcceptedInv`: as long as a handler may still have to send `Accepted`, its
  sink is closed or shut. It speaks of the polling phases too, where the record
  last read decides whether `Accepted` is still to come.
* `SequenceInv`: a connection that was sent a transmission is being sent it
  still, is shut, or belongs to a bundle that is never claimed again; the sinks
  of an abandoned transmission must be closed before the claim is given up, and
  this is where the proof needs it.

`StepMoves` and `VerifyIsRead` split the refinement: every step but a client's
verification moves the result as the contract allows and adds no reader.

### Connections and streams (`LocalSessions_proofs`)

* `MissingIsAlwaysDefinitive`: `[]MissingIsDefinitive`.
* `SessionsTypeCorrect`: `[]TypeOK`.
* `TextIsNeverSilentlyLost`: `[]NoSilentLoss`.
* `BudgetIsAlwaysExact`: `[]BudgetIsExact`.

`SessionsInv` is about admission alone. `SubmissionGuard` ties the guards of the
submission registry to handlers that store, and says that whoever stores or
waits without one has a predecessor that committed or still holds it;
`HasWaited` is what a resumption knows after each of its two waits, first for
the decode guards of everyone accepted before it and then for the submissions
among them. Neither wait is enough without the other, because a handler gives up
its decode ticket only when its submission is registered.

`HubInv` is about the queues. `Continues` is the heart of it: the queue of a
terminal that shows text holds, in order, exactly the deltas after what it has
shown up to what it was offered; once it is muted, up to its gap marker, behind
which there is no text. `Offered` depends on whether the publisher still holds
the subscription for the delta it is publishing, which is how a departure
between two subscribers is treated. The budget is counted as the places of text
in all queues (`TextPlaces`), whose cardinality changes by one with each delta
queued or taken and by a queue's text when one is dropped. `Room` keeps a place
for the marker in every queue.

The proof found that two arms of the `CASE` in `Seen` overlapped; they are
disjoint now and mean what TLC took them for.

### Gateways (`GatewayDelivery_proofs`, `ReticulumBridge_proofs`)

* `GatewayTypeCorrect`: `[]TypeOK`.
* `RowsTellOutcomes`, `ChunksAlwaysInOrder`, `LiveClaimsAlwaysHold`:
  `[]RowTellsOutcome`, `[]ChunksInOrder`, `[]LiveClaimsHold`.
* `DoubtIsNeverRepeated`: `NeverRepeatedInDoubt`.
* `QueueIsNeverStuck`: `[]QueueNeverStuck`.
* `ProtocolAlwaysAgrees`: `[]ProtocolAgrees` of `ReticulumBridge`.
* `BridgeKeepsPromises`, `BridgeNeverRepeatsDoubt`: the invariants of
  `GatewayDelivery` and `NeverRepeatedInDoubt` in the composed system.

`GatewayInv`: the queue is an order of the rows, and a message goes to one
address (`QueueInv`); what was never claimed was never sent, and what was
claimed had all of its message before it delivered, which nothing undoes
(`ChunkInv`); an address has one delivery of a kind in flight (`OneInFlight`);
and what each worker holds between its claim and its transition (`TgInv`,
`RnInv`): the fence of its claim, and an answer that agrees with what the
transport said. That a live worker's fence never fails follows, so the branches
for a lost claim are there for processes that were suspended, which the model
counts among deaths; so is the step `"done"` of a task, which no task is left in.
`QueueIsNeverStuck` takes the first waiting row of the address in the queue, and
the first chunk of its message that is not delivered: with no held-up message
and no interleaved ids these are one row, and the claim query finds it.

`BridgeInv` adds that what is under way between the worker and its bridge is one
delivery in one place: the command, the set `active`, or an outcome in the pipe
(`OneOfSending`), and nothing while the worker waits for none (`Quiet`). A
worker that gave its bridge up never returns to it, so that the bridge may then
do as it likes. The steps of `GatewayDelivery` that the composition keeps use
the lemmas of `GatewayDelivery_proofs`, and the answers that now come from the
bridge are shown to be answers that module allows.

### Actors and ingress (`Actors_proofs`)

* `ActorsTypeCorrect`: `[]ActorsTypeOK`.
* `OneQuantumPerActorAlways`, `DeletedLeavesNothingAlways`,
  `NothingStartsOnceDisabled`: `[]OneQuantumPerActor`,
  `[]DeletedLeavesNothing`, `NothingOnceDisabled`.
* Of `GatewayIngress`: `IngressTypeCorrect`, `LinksAreAlwaysEarned`
  (`[]LinksAreEarned`), `OnlyLatestIsReleased` (`[]LatestOnly`),
  `NoUpdateIsSkipped` (`NeverSkipped`).

`ActorsInv`: two unfinished tasks never serve the same actor, and between two
passes of the manager every task is listed (`OneTaskPerActor`; this is what the
lease cannot give, because all tasks of a process are one owner to it); a
quantum is executed under the lease of its actor; an actor that does not exist
has neither lease nor events. `IngressInv` adds that the batch of the polling
worker has no gap and begins at its offset (`PollInv`), that a code is held by
one actor and by none once it has linked a sender (`CodesInv`, which makes a
command that Telegram sends again harmless), and for deferred results that only
webhooks' wait (`Origins`) and that sequence numbers are handed out once
(`Numbered`), so that "the newest" is one.

### Artifacts (`Artifacts_proofs`)

* `ArtifactsTypeCorrect`: `[]TypeOK`.
* `ReferencedFileAlwaysStays`: `[]ReferencedFileStays`.

`ArtifactsInv`: ids are used in the order they are taken and there are enough
of them (`IdsInOrder`); the stager holds the locks of the paths it publishes and
commits, and the collector never looks again at, or removes, one that the stager
holds (`PathLocks`); what the collector unlinks is a partial file, or a final one
that it found without a row under the lock of its path (`OnlyOrphans`). The
window between the collector's listing and its removal is closed by the second
look, and that by the lock.

`FilesInv` is about the files themselves. The file of every committed row is on
disk or was unlinked by the cleanup (`Kept`), and so is that of every item of a
stager that has looked and not yet committed: the lock of its path keeps the
collector away from the first look to the commit, and only the cleanup, which
asks for no lock, is left.

### Processes (`LocalOperations_proofs`)

* `OperationsTypeCorrect`: `[]TypeOK`.
* `SocketAlwaysLeadsToHolder`: `[]SocketLeadsToHolder`.
* `MetadataIsNeverAhead`: `[]MetadataNeverAhead`.

`OperationsInv`: from its lock to its cleanup a process is the only one of its
kind, what it has cleared away stays away and what it has bound stays bound
(`LockInv`; the branch of `BindListener` for a socket that somebody else bound is
therefore never taken); one terminal submits, and nothing is stored before its
submission is read (`SubmitInv`); and every answer on a connection is something
the database holds (`AnswerInv`), which is why a recovery file that follows
answers is never ahead of it. A terminal that left before it was answered has a
connection still, so the invariant ties what a connection may be told to where
its handler is, and not to its terminal.

### What stays with TLC

* *Liveness*: `EveryRequestSettles`, `ResultReachesAClient`, `EverySessionEnds`,
  `NothingIsForgotten`, `TasksFollowTable`, `EveryUpdateIsHandled`,
  `StorageConverges`, `EveryRequestIsRead`. The prover has no `ENABLED`, and so
  no rule for weak or strong fairness.
* Every invariant and every action property of a run is stated by a theorem.
  What could be proved next is weaker hypotheses for the two that have one:
  `PendingWorkIsOpen` and `CancelSettlesItsTargets` need one active run and no
  detached event, not the absence of tools.

No module here declares a `RECURSIVE` operator, so any of them can be proved
about.

## 7. Not modelled

* *Left out of components that are modelled*: lease renewal by the heartbeat
  task, malformed payloads and bundles, the tool-step budget, execution
  policies, several requests in one claim batch with the worker's slots,
  administration sessions, gateway streams, the setup of the Reticulum stack
  and the recovery of unknown sources in the bridge, typing indicators, the webhook transport of
  Telegram, quotas of artifacts.
* *Left out for good*: HTTP and process I/O of the LLM client and the tools,
  memory and skill files, parsing of configuration, arguments and frames,
  terminal layout, permission checks, the updater. They share no state with
  another task, or are calls of the operating system.
* *How much that is.* Of the lines of the implementation about half are tests
  inside the source files. The mapped definitions stand for about a third of
  the rest; most of what remains are types, traits and their wiring, encodings,
  HTTP clients and configuration, in which nothing interleaves.

# Orvix: verification project

TLA+ modules, TLC configurations and TLAPS proofs for the parts of Orvix (a
mail platform in Go) whose correctness depends on interleavings, failures and
order: the reception of mail by the SMTP server, the outbound mail queue and its
workers, one delivery attempt, the circuit breaker of a relay, the durable
platform jobs, the importer that runs on them, the outbox and the webhook
deliveries behind it. The code is the reference; every definition that models
code is listed in `PROJECT.json` (`map`) with the lines it stands for.

## 1. Inventory of the system

| Component | State it keeps | Operations | Hard behaviour | What makes it correct |
|---|---|---|---|---|
| Outbound mail queue (`internal/coremail/queue`) | rows of `coremail_queue`: status, lease owner and expiry, attempt count, next attempt, soft delete | Enqueue, LeaseNext (SELECT, then guarded UPDATE), AckDeliveredForOwner, Defer/Bounce/DeadLetter, AdminRetryNow/AdminDeadLetter/AdminCancel, ReleaseExpiredLeases | several workers and HTTP handlers on one table without transactions; leases that expire; statements that fail | a row is delivered by one worker at a time, settled once, attempted a bounded number of times, and never forgotten |
| Delivery worker (`internal/coremail/delivery`) | the row snapshot it works from; the result of the attempt | ProcessOnce/ProcessAll, deliver, deliverLocal, deliverRemote, ClassifyResult, recovery loop | crash between delivery and report; stale snapshot; unfenced reports | a result is recorded for the row it belongs to; copies are bounded |
| SMTP client and relay sessions (`delivery/transport.go`, `platform/relay/dial.go`) | one connection, the step of the session, TLS state | greeting to final answer, STARTTLS, AUTH | lost connections at every step, ambiguous acceptance | no cleartext, no second copy by a fallback, failures classified |
| Relay routing (`internal/platform/relay`) | pools, rules, overrides, provider circuits and rate counters | SelectRoute, RecordAttemptResult, CRUD | stores that fail; circuit updates without versions | routing policy is never bypassed |
| Platform jobs (`internal/platform/jobs`) | rows of `platform_jobs` with lease owner, token and version | SubmitIdempotent, ClaimOne, Heartbeat, UpdateProgress, Complete, Fail, RequestCancellation, FinishCancellation, RecoverExpired, ManualRetry, Activate | several processes, abandoned handlers, cancellation racing completion | leases exclude each other, attempts bounded, transition table obeyed, jobs end |
| Webhooks (`internal/webhooks`) | subscriptions with a version, events, deliveries with a lease token, attempts | InsertEventAndFanoutTx, ClaimDeliveries, deliver, CompleteDelivery, RecordFailure and ResetFailures, update, reactivation and deletion of a subscription, replay | batch leases shorter than the batch; suspension racing with updates and late successes | requests and attempts bounded, ended deliveries stay, every delivery ends, only a reactivation lifts a suspension |
| Platform kernel (`internal/platform/kernel`) | outbox rows (topic, status, attempts, next attempt), idempotency keys | Enqueue inside the caller's transaction, ClaimTopicBatch, MarkDone/MarkRetry; Begin, Complete, Abandon | crash between claim and completion, a lost commit answer, several consumers and topics | an event is processed once and not forgotten, a request is executed once |
| Relay health (`internal/platform/relay/circuitbreaker.go`) | three columns of a provider: circuit state, failures, opened at | SelectRoute (lazy half-open), RecordAttemptResult | read, decide, write by id: concurrent attempts write over each other | the breaker trips and recovers on time, and its transitions are announced |
| Platform importer (`internal/platform/importer`) | the import (status, version, job), the staged file, idempotency rows, checkpoints, compensation records, the imported entities | Create, Validate, Execute/Resume, Cancel, Compensate; HandleImportJob with its batches | requests racing with runs of the job, resumption after a crash, edits by people before the compensation, partial failures of it | an import completes only when all rows were dealt with, is undone as far as it was recorded, and never harms what people edited |
| Mail reception (`internal/coremail/smtp`) | one session (state, TLS, identity, sender, recipients), stored messages, queue rows | EHLO to QUIT, STARTTLS, AUTH, AcceptMessage with its local and external recipients | any order of commands; a failure after some recipients are served | no transaction without the authentication the port demands, no open relay, 250 only when all recipients are queued |
| Mail store, IMAP/POP3/JMAP, push | mailboxes, messages, sessions | protocol sessions, storage | per-connection state machines | left out, see section 8 |
| HTTP API, licensing, backup and restore, updater, DNS, security, calendar, observability, configuration, command line, web | their own tables and files | CRUD and external calls | mostly single calls | left out, see section 8 |

How they interact: producers (SMTP reception, submission, webmail, JMAP, mail
rules) store messages and insert queue rows; the coremail runtime (`coremail/runtime/module.go`)
starts a fixed number of delivery workers, each with its own worker id, that
poll the table; administrators change rows through the HTTP handlers. A worker
asks the relay adapter for a route and talks to relays or mail exchangers
itself, and records the outcome in the relay's circuit breaker. Transitions of
the breaker and webhook events are rows of the same outbox, which the webhook
processor reads by topic and fans out into deliveries. The importer, the
webhook processor and other services submit platform jobs; each process runs
one job worker; the platform console cancels and retries jobs.

## 2. Modules

| Module | Role |
|---|---|
| `MailQueue` | the queue table, the delivery workers, the operators, time and failures; `Spec` as the runtime wires it, `RecoverySpec` with the recovery loop the delivery package provides |
| `DeliveryAttempt` | one call of `deliverRemote`: suppression, routing, the walk over relays or exchangers, the SMTP session with each |
| `JobLifecycle` | abstract specification of a platform job: `allowedTransitions` and what a cancellation request means |
| `AttemptOutcome` | the results and copies that `MailQueue` counts for an attempt |
| `AttemptContract` | abstract specification of an attempt: one server after the other may take the message, then it returns; implemented by `DeliveryAttempt` |
| `PlatformJobs` | the job repository, the worker loop with heartbeats and abandoned handlers, the API requests; implements `JobLifecycle` (`INSTANCE ... WITH state <- status`) |
| `EventFanout` | abstract specification of the webhook fan-out; implemented by `RelayCircuit` and by `WebhookDelivery` |
| `WebhookDelivery` | delivery rows, subscriptions, the processors that lease and post batches, the administrator |
| `KernelOutbox` | the outbox table, its claims and `ProcessOutbox`, the consumer that fans webhook events out |
| `RelayCircuit` | the circuit breaker of a provider and the workers that read and write it; extends `KernelOutbox`, whose table its transition events go to |
| `Importer` | one import with its requests, its durable job (whose life cycle is `JobLifecycle` again), the runs of the job, the records of what they changed, and compensation |
| `SmtpReception` | a session of the SMTP server on either port and the acceptance of its messages into the store and the queue |
| `MCMailQueue`, `MCDeliveryAttempt`, `MCPlatformJobs`, `MCWebhookDelivery`, `MCRelayCircuit`, `MCImporter`, `MCSmtpReception` | instances for TLC |
| `MailQueueProofs`, `DeliveryAttemptProofs`, `PlatformJobsProofs`, `WebhookProofs`, `RelayCircuitProofs`, `ImporterProofs`, `SmtpReceptionProofs` | theorems and proofs |

### MailQueue

One SQL statement is one atomic action, because the queue passes a nil
transaction everywhere. `LeaseNext` is therefore two actions, `SelectCandidate`
and `ClaimCandidate`/`LoseCandidate`, with other actors in between; `deliver` is
`AttemptDelivery` followed by one of the `Report...` actions, which are the
statements that record the result. The variables are the columns that guards
read: `status`, `leaseOwner`, `leaseExpired` (lease_expires_at is past),
`attemptCount`, `due` (next_attempt_at is past), `deleted`. A worker has a
program counter, the row it holds, the attempt count of its snapshot and the
result of its attempt. `copies` and `unsure` count what reached the recipient;
`reopened`, `taken` and `crashes` count the disturbances and carry the bounds.

`AttemptDelivery` abstracts `DeliveryAttempt` and local delivery: any result, and
any number of copies up to `MaxChain`, at least one if it succeeded. What it allows is the
operator `AttemptOutcome` of the module of that name, against which the attempt itself is proved. A failing
statement (`StatementFails`) also covers the cancellation of the context by
`Stop`; `CrashRestart` restarts all workers with the same ids.

The handlers `RetryQueue` and `DeleteQueue` are the older routes, which update a
row whatever its status; `AdminRetryNow`, `AdminDeadLetter` and `AdminCancel` are
the guarded ones.

### DeliveryAttempt

The servers, the stores and the network are the environment. An answer is one
of eight classes, the ones the code tells apart: the code asked for, another
code below 400, 4xx, 421, 5xx, a 5xx that asks for STARTTLS, a connection that
times out or closes, a connection that breaks or a malformed line. `plan` is the
chain of relays or the addresses of the exchangers, `step` the next step of
the session. `DirectExchange` and `RelayExchange` are the two session machines;
they differ (which codes are accepted, what defers, what bounces) because
`transport.go` and `dial.go` differ. The transport is the default configuration:
STARTTLS required.

`AttemptContract` is what an attempt promises its caller, without sessions or plans: servers
take the message one at a time, and the result is "delivered" exactly when the acceptance of the
last one was read. `AttemptOutcome` says which results and copies `MailQueue` counts for an
attempt. `Contract` and `FulfilsTheQueue` in `DeliveryAttempt` connect the three.

### PlatformJobs and JobLifecycle

Each statement is guarded by the status and by the lease; `Current(l)` is that
guard. The token is abstracted: a claim increments `lease_version` and draws a
new token, recovery increments the version again, so the version alone
distinguishes the leases of a running job. `handlers` holds the leases of the
handler goroutines that are alive in a process, which may outlive the run:
`executeWithHeartbeat` returns on timeout or on a refused heartbeat without
waiting for the handler. `RecoverExpired` is a read (`ReadExpired`) and one update
per row (`RecoverOne`). A handler may return a result that `Service.Complete` does not
store (`"unfit"`: longer than 64 KiB, not JSON, or with a field for a secret); `RefuseResult`
is that refusal, which comes before any statement and leaves the row running.

`JobLifecycle` allows exactly the transitions of `allowedTransitions`, and adds that
a job whose cancellation was requested is never started or completed. The
repository never consults that table, so the refinement is a real question.

### WebhookDelivery

`FanOut` is one transaction; every other action is one SQL statement, one
request to the endpoint or one read that later steps depend on. A processor
(the ticker of `StartWebhookWorker` in each process, and the job
`platform.webhooks.deliveries`) selects due rows into `todo`, leases them one by one
into `batch` and then works at `current`: `Check`, `Post`, `Record`, and after a failure
`ReadSubscription`, `RecordFailure`, `StopRetrying`. A lease token is random; since a
processor gives up its batch before it selects again, its name stands for the
token. `seen` is the attempt count of the row as it was leased, from which
`finishFailure` decides whether the attempt was the last one, while the statement
increments the count in the row. The version column of a subscription is
abstracted to `admin.fresh`: whether it is still the one the administrator read.
`DeleteSubscription` does not change it, so a late update still writes a deleted
subscription, as in the code. `failures` stops at `SuspendAfter`, beyond which the code
makes no difference either. The reads of `Check` may fail, and then the delivery ends
like one to an unfit subscription.

### KernelOutbox and RelayCircuit

The outbox is a sequence of rows, in the order of their ids. `ClaimTopicBatch` is a
read (`ListClaimable`) and one guarded update per row (`ClaimRow`), without a
transaction around them. `FanOut` is the transaction of `ProcessOutbox`: the event,
its deliveries and `MarkDone`; `FanOutUnknown` is the same when it is applied and the
answer of the commit is lost, after which `MarkRetry` writes the row by id, as it does
after a failure. Faults (a failing statement, a lost answer, a crash) are counted by
`faults`.

The breaker is three columns. A worker routes (`SelectRoute`, which may have to write
the half-open state: `PersistHalfOpen`), delivers and reads the row again
(`DeliverAndRead`), and writes all three columns by the provider's id
(`RecordAttemptResult`, in one transaction with the transition event). `circuit_opened_at`
is abstracted to nil, recent or cooled. A worker remembers in `stale` whether the row
changed since it read it; `streak` and `raced` are history for the properties.

### Importer

One import of platform scope, the only one `ImportHandler` is registered for. Its rows
are of five kinds: an entity that exists and is updated, one to be created whose name
is unique or not, a group membership, and an invalid one. A client's request goes through `ClaimKey`
(`IdempotencyBegin`), the steps of its handler, and `CompleteKey` or `Abandon`; `Resume` is
`Execute` under another key. Executing submits a held job, links it to the import and
activates it, three steps between which everything else may happen. A worker's run
is `Load`, then for every row `CheckRow`, `ApplyRow`, `RecordRow` (for a membership
`AddMember` instead of the last two, since no record is saved for it), at the end of a
batch `SaveCheckpoint` and `Beat`, and `CompleteImport` and `Report`, unless the list of what
was created is too long for a result (`RefuseResult`). Entities are kept per row and
per run (`Resources`), so that a duplicate is visible. `broken`, `orphans`, `late`, `kept`
and `holdOver` are history: which runs lost a record or their lease, what no record
knows, what was recorded after the end, what a person edited, and that the hold ran
out.

### SmtpReception

The commands are actions guarded by the session's state as in `Handle`; a command the
code refuses leaves the state as it is and is not an action. The runtime constructs a new
handler for every connection, without the send enforcer and the acceptance engine that
it sets on the one it built at start-up, so these checks are not in the model. `tls`
and `user` say how the session was secured and authenticated; `reauth` is history. A
message is accepted by one action per statement: `StoreLocal`, `EnqueueLocal`, `RunRules`
for each mailbox (which may mark the copy that was just queued as deleted, when it was
forwarded without keeping a copy), then `StoreForRelay` and `EnqueueRelay` for the external recipients. The
order of the recipients is free, which covers every order a client may choose. `Home` maps
an address to the mailboxes it leads to; an address without one is external.
Refusals by access modes, throttles and scanners are `Refuse`.

### EventFanout

What the webhook tables promise whoever publishes an event: it is stored once, with the
original deliveries it will ever have, and they stay. `RelayCircuit` implements it with the
calls of `ProcessOutbox`, which may be repeated, and `WebhookDelivery` with rows that are
leased, retried and replayed (`Originals` are the rows with replay key "original"). It is what the
two models have in common where one ends and the other begins.

## 3. Runs

| Run | Checks | Result |
|---|---|---|
| `MailQueueRecovery` | lease exclusion, bounded copies, attempt budget, settled rows stay; every message is settled, with the recovery loop | pass |
| `MailQueueStranded` | every message is settled, as the runtime wires it, without the recovery loop | violation |
| `MailQueueStale` | a stale worker completes nothing | violation |
| `PlatformJobsLiveness` | lease exclusion, attempt budget, progress never goes back, refinement of `JobLifecycle`; every job that is queued and not held ends | pass |
| `PlatformJobsCancel` | a cancelled job ends | violation |
| `DeliveryAttemptSafety` | policy never bypassed, no cleartext, nothing offered after a possible acceptance, refinement of `AttemptContract` (one delivery reported for one acceptance read, copies bounded), what a bounce can be due to | pass |
| `DeliveryAttemptAmbiguous` | a lost answer stops the relay chain | violation |
| `WebhookSafety` | requests and attempts bounded, ended rows stay, suspensions lifted by reactivation only | pass |
| `WebhookLiveness` | every delivery and its replay ends | pass |
| `ImporterRuns` | completed means attempted, copies accounted for, compensation without residue but memberships and what was not recorded in time, no run before the link, edits kept, transition table obeyed, refinement of `JobLifecycle`; a running import ends | pass |
| `RelayCircuitRuns` | failures counted and transitions announced unless writes race, refinement of `EventFanout` (events stored and fanned out once), stranded only by faults; every event ends, the circuit closes again | pass |
| `SmtpReceptionRuns` | no transaction or identity in clear on the submission port, senders owned, relaying authorised, entries have a message that can be loaded, 250 means queued, orphans only by faults | pass |

The type invariants and some smaller properties (`DeliveredHasCopy`, `LeasedSettledByHolder`,
`StaleAckRefused`, `ReleasedByHolder`, `DeliveredWasAccepted`, `EndedByHolder`, `SuccessMeansCompleted`,
`CircuitConsistent`, `ClaimedOnce`, `FannedOnce`, `DoneMeansFanned`, `TopicsApart`, `OneEntryPerTry`,
`AcceptanceReported`, `DeliveredOnce`, `StrandedByFault` of the queue, `LeaseAttended`, `CancelLostToRecovery`,
`UnattendedByFault`, `OneLiveHandler`, `EndedIsFinal`, `FulfilsTheQueue`, `EveryStepCounts`) are proved for all
values of the constants (section 5). TLC agreed with them before they were proved; the runs
do not repeat them.

### Bounds

- MailQueue: one row and two workers show every race on a row, because rows
  only interact through the choice of `LeaseNext`; `MailQueueStale` has two rows of
  different priority. Three attempts allow one retry and a dead letter. `MaxReopened`, `MaxTaken` and
  `MaxCrashes` are 1: one operator retry, one lost lease and one crash, in any
  order. `MaxChain` is 2 (the first relay and a fallback).
- PlatformJobs: one job and two workers; two attempts; one manual retry, one crash or
  failed statement. Jobs only meet in the choice of `ClaimOne`.
- WebhookDelivery: two deliveries of one subscription and two processors for
  safety, so that a processor holds a batch and the failures of one delivery
  suspend the subscription of the other; two attempts, two failures until the
  suspension, one update, one lease lost to the other processor. Crashes and
  replays are left to the liveness run, which has one event (hence the
  original and its replay), one crash or failing statement and a suspension
  at the first failure; deletions are unbounded in both. A replay is a row of
  its own, so one is enough to meet its original.
- DeliveryAttempt: a chain of four relays (a primary with a credential, a
  fallback whose credential would go out in clear, one without TLS and
  credential, one beyond the bound of two fallbacks) and two exchangers. An attempt is finite, so
  the state space is complete for this instance.
- Importer: two clients, two workers and one idempotency key (so that a request can meet
  its own repetition); a source of three rows, one that updates an existing entity, one that
  creates an alias, whose name is not unique, and one that adds a member to a group, the kinds
  that a compensation and a resumption treat differently; batches of one row, so that a run
  can be interrupted before, at and after a checkpoint. Three requests (execute, cancel and
  compensate, or repetitions) and one disturbance. With one disturbance every hazard of the list happens;
  two exceed what TLC can enumerate in reasonable time.
- RelayCircuit: two workers, threshold two, two processors with batches of two, two
  events and one subscription. `MaxLoad` bounds failed attempts, published events and faults
  together to three, so that the run mixes them in every proportion instead of multiplying
  them. Each bound alone allows what it names: three failures open the circuit and let a
  half-open trial fail, two events make a batch, two faults hit a repetition.
- SmtpReception: two mailboxes, an alias of both, an address of one of them and an external
  address; two recipients a message, so that a failure can come between them; two users and
  two sender addresses; two messages on one or several connections; two faults. The users
  are symmetric together with their senders (`UserSymmetry`); the run states safety only.

The bounds `MaxReopened`, `MaxTaken`, `MaxCrashes`, `MaxRetries`, `MaxReplays`, `MaxAdmin`, `MaxRequests`,
`MaxEvents`, `MaxFaults`, `MaxFailures`, `MaxLoad` and `MaxTries` are not in the code (nor is `MaxRecipients` of
the instance, which stands for the server's limit); the theorems hold for every value of them.

### Deadlock

The queue, webhook and importer runs say `CHECK_DEADLOCK FALSE`: when every row is settled,
or the import and its job have ended, and the bounds are used up nothing is left to do.
`DeliveryAttempt` ends when the attempt returns. The job worker and the processors of the
outbox poll for ever and an SMTP server always takes another connection, so the runs of the
jobs, of the relay circuit and of the reception check for deadlock.

### Fairness

Weak fairness of each worker's steps: the loop of `module.go` (and `Worker.Run`)
runs for as long as the process does, each SQL statement ends, and an SMTP
attempt and a webhook request are bounded by their deadlines; a job handler is bounded by the timeout of
its type. Weak fairness of time: a backoff elapses, an unrenewed lease expires.
`FairRecoverySpec` adds weak fairness of the recovery loop, which is a ticker.
In `Importer`: the steps of a run, the recovery of an expired job (the job worker's own
loop) and the end of a hold, which is a date; no request, and none of the disturbances. In
`RelayCircuit`: an attempt that was begun goes on and mail to route keeps coming, the cooldown
elapses, and each processor's ticker keeps calling `ProcessOutbox`. `SmtpReception` states no
fairness: nothing obliges a client to go on.
Operators, crashes and failing statements are never fair. A worker may lose the
race for a row any number of times, and the message is still settled because
some other worker wins it.

## 4. Disagreements between code and documentation

Each is a run that TLC refutes; `PROJECT.json` (`findings`) quotes the line.

1. The recovery of leases is implemented but never started: a row whose worker
   crashed or whose report failed stays leased (`MailQueueStranded`).
2. Only the acknowledgement of a delivery is fenced; a stale worker still
   defers, bounces or dead-letters the row of its successor (`MailQueueStale`).
3. A running job whose cancellation is requested and whose lease then expires
   is requeued but can never be claimed (`PlatformJobsCancel`).
4. A connection reset after the message was sent to a relay is not treated as
   ambiguous (`DeliveryAttemptAmbiguous`).

Others were met while modelling and have no run of their own. `LeaseNext` rechecks
the status but not `next_attempt_at` (`coremail/queue/repository.go:374`), so a worker
that selected a row before another one attempted and deferred it leases it
before its backoff has elapsed, and counts the attempt from its older snapshot.
The attempt is counted by the lease and again by `deliver`
(`coremail/delivery/worker.go:179`), so a message that fails temporarily is
dead-lettered after MaxAttempts - 1 attempts; `AttemptBudget` is stated
accordingly. `ManualRetry`
recognises a repeated key only while the job is queued
(`platform/jobs/repository.go:508`), so a late repetition of the request runs a
failed job once more. `deliverRemote` defers on every error of `SelectRoute`
(`coremail/delivery/worker.go:761`): `IsRetryableRouteError`, whose comment says the
worker chooses between deferral and bounce with it, has no caller. 

In the delivery attempt, `delivery_test.go:717` says "bounce only for permanent 5xx recipient
errors". The code bounces in more cases:

- A session with an exchanger that breaks or times out has code 0, which is not temporary: at
  the greeting (`coremail/delivery/transport.go:284`: everything but 421), at HELO
  (`transport.go:304`), to which a lost EHLO leads as well, and in MAIL, RCPT, DATA and the
  final answer (`transport.go:468`). A server that drops connections under load, or answers
  the greeting with a 4xx other than 421, therefore bounces the message at the first attempt.
- With a relay a connection lost in MAIL, RCPT or DATA bounces it (`platform/relay/dial.go:414`
  looks for "smtp error 4" in the error); before the transaction and at the final answer it
  defers.

`BounceHasCause` states exactly which steps and answers can bounce a message; that connecting,
EHLO, STARTTLS, AUTH and 4xx answers of the transaction never do is the part that holds.

In the relay and the outbox:

- A worker that read the circuit before another one changed it writes over the change; it
  can even close an open circuit with the record of a failure, and then no event announces it
  (`platform/relay/service.go:1199`; `repository.go:249` says that the change and its event
  cannot diverge). Hence "unless raced" in two properties.
- A half-open circuit admits every worker that asks (`circuitbreaker.go:38`), though
  the comment above it speaks of one trial request.
- Outbox rows in processing are never claimed again, and only the webhook topic has a
  consumer.
- A permanent rejection of a recipient counts as a failure of the provider
  (`coremail/delivery/worker.go:915`).

In the jobs:

- `Service.Complete` refuses a result of more than 64 KiB (`platform/jobs/service.go:74`,
  `166`) and `RunOnce` then leaves the row running until its lease runs out. The result of an
  import lists every resource it created (`importer/executor.go:45`, `importer/service.go:833`),
  so a large import gets there: its import is `completed`, its job is recovered, the next run
  finds the import not running and the job ends as failed (`RefuseResult` in both models).

In the importer:

- The staged file is named by its hash, so the rejected second upload of a source removes
  the file of the active import (`service.go:113`, `staging.go:71`); the run then fails.
- A row that is imported again after a crash between the mutation and its record creates a
  second entity if its name is not unique (`executor.go:66` says a resumed run never
  duplicates entities). `CopiesAccounted` counts these cases.
- A membership of a group is added without a resource id (`executor.go:383`), so `Execute`
  saves no record of it (`executor.go:124`), no compensation removes it, and the import counts
  as compensated with all its members in place; `RemoveGroupMember` (`service.go:665`, `681`) is
  never reached from an import. `CompensatedClean` excludes memberships for this reason.
- `compensateCreated` deletes an entity whether or not a person changed it
  (`service.go:647`); only updates are checked, hence the restriction of `EditKept`.
- A batch boundary that falls on a skipped or failed row has no checkpoint and no look at a
  cancellation.
- `CompleteImport` is not fenced by the lease of the job: a run that lost it may complete
  the import. Since it has dealt with all rows, `CompletedMeansAttempted` holds all the same.
- A crash during validation or compensation leaves the import in that state for good;
  `RunEnds` is about running imports only.

In the reception of mail:

- The handler of a connection has no send enforcer and no acceptance engine
  (`coremail/runtime/module.go:1132`).
- STARTTLS and a second AUTH keep the sender and the recipients of a transaction
  (`coremail/smtp/server.go:303` says that the session state is reset;
  `commands.go:193` that users can only send as themselves). `SenderOwned` excludes a
  change of identity.
- A domain that is deactivated between RCPT and DATA makes its recipients external ones, for
  an unauthenticated session too. `RelayAuthorised` allows for exactly this case.
- When a recipient fails after others were queued, the client is told to try again and the
  others get a second copy; every rejection by AcceptMessage is answered as temporary.
- Only local recipients are deduplicated: an external one that the client names twice gets
  two entries (`receive.go:699`; the model keeps the set of external recipients). The external
  entries share the stored message of the first local recipient.
- After a forward that keeps no copy, which every forward of a rule is (`rules/runner.go:243`
  sets no `ForwardKeepCopy`), `applyRulesRunner` deletes the copy whose local entry was queued
  before (`smtp/rules_apply.go:185`), and which entries of external recipients may share;
  the comment on the function says "never lose the original" (line 78). The deletion marks the row
  (`storage/message.go:519`), and the workers pass over purged rows only (`message.go:152`), so
  the entries still find their message: this is what `Loadable` in `EntryHasMessage` says. It is
  about acceptance. A mailbox's owner who expunges the shared copy (`imap/commands.go:769`)
  before an external entry is delivered purges it, and that entry fails for good with
  "message not found" (`delivery/worker.go:197`); mailboxes are not modelled.
- After a read error the loop of a connection goes on, and its deadline is never moved
  (`server.go:216`, `246`).

All are in the models as the code has them, unless a line above says otherwise.


## 5. Proofs

`MailQueueProofs` (of `RecoverySpec`, hence with the recovery loop, for every set of
rows and workers and all bounds):

- `TypeCorrect`: the type invariant, inductive as it stands.
- `MutualExclusion`: `LeaseExclusive`. Inductive together with the type
  invariant: the actions that take a row from its holder either are guarded by
  the status or count in `taken`.
- `SettledStability`, `HolderReleases`, `AckFenced`: the action properties. The first
  two need `LeaseExclusive`: it makes the unfenced reports by id harmless as long
  as no lease was taken.
- `CopiesAreBounded`: `CopiesBounded` is not inductive, because it says nothing of the
  workers that still hold a row. The invariant `CopiesInv` counts known copies,
  attempts in flight and claimable rows together against the times the row was
  made available; cardinality lemmas on the set of open attempts carry it.
- `DeliveredWasHandedOver`: `DeliveredHasCopy`, with `DeliveryInv`: an unread acceptance never
  counts for more than the copies there are, and for fewer while a successful result waits
  to be reported.
- `AttemptsAreBudgeted`: `AttemptBudget`. Because an attempt is counted from the snapshot of a
  worker, the column alone is not bounded inductively; `AttemptsInv` adds, once the count is
  near the limit, the workers that can still count one more and the times the row is
  available.
- `DeliveredRowsHaveOneCopy`: `DeliveredOnce`, from `CopiesBounded` above and `DeliveredHasCopy` below.
- `OnlyFaultsStrand`: `StrandedByFault`, inductive with the type invariant: a worker leaves its row by a
  report, and one that finds the lease lost leaves the row to its successor.
- `WiredSafety`: the same for `Spec`, whose steps are steps of `RecoverySpec`.

`DeliveryAttemptProofs` (of `Spec`, for every chain of relays, every list of
exchangers and every configuration of the relays):

- First the outcomes: what each step of a session and of the routing leaves behind, one
  lemma per handler (`CommandOutcome`, `FinalOutcome`, `RouteOutcome`), so that the
  invariants below do not look at single replies again.
- `TypeCorrect`: needs to know which commands a session with a relay or an exchanger can
  reach (`StepInv`), and that the plan is a sequence of distinct servers the rules allow
  (`PlanInv`, from lemmas on `Subsequences` and `RelayPlans`).
- `PolicyIsKept`: `PolicyHolds`, from `PlanInv` and `OfferedInv` (only planned servers are
  offered anything).
- `TlsIsKept`: `NoCleartext`, with `TlsInv` (a session that reaches MAIL has TLS or is one
  that may be in clear).
- `BouncesHaveCause`: `BounceHasCause`, from the outcomes of the commands (`Refused`: the answers that are final
  at each step).
- `NoCopyAfterAcceptance`, `AcceptanceIsReported`: with `HistoryInv`: during the walk, every
  server that may have the message is a relay that broke the connection and lies behind.

- `ImplementsContract`: `KeepsContract`, step by step. With `CountInv`: the servers that may have the
  message are fewer than the steps the walk has gone, and a walk over exchangers ends at the first,
  so the bound on fallbacks bounds the copies.
- `AttemptFulfilsTheQueue`: what the attempt has handed over, and what it reports, is at every moment
  something `AttemptDelivery` may do, with 1 + `MaxFallbacks` as `MaxChain`. This
  closes the gap between the two modules: a copy counted by `CopiesBounded` is a server of this
  model, and a crash in the middle of a session is the crash `MailQueue` knows.
- `AttemptsEnd`: every step lowers `Left`, a natural number. This is the part of termination that
  does not need fairness: an attempt cannot go on for ever, whatever the servers answer.

`PlatformJobsProofs` (of `Spec`, for every set of jobs, workers and keys):

- `TypeCorrect`.
- `Refinement`: `Spec` implements `JobLifecycle!LifecycleSpec`, one step lemma per action.
- `BudgetHolds`: `AttemptBudget`, with the strengthening `BudgetInv` (a queued job that
  has not been retried has an attempt left).
- `MutualExclusion`: `LeaseExclusive`, with `LeaseInv`: versions handed out are at most the
  row's version, the leases of two attending workers differ, and a version below
  the row's that is still attended was revoked by recovery.
- `HolderReleases`: `ReleasedByHolder`, from the same invariant.
- `ProgressMonotone`: `ProgressNeverGoesBack`, with `ProgressInv` (the progress of a row was
  written under a version at most its current one).
- `TheEndIsFinal`: `EndedIsFinal`, proved of `JobLifecycle` (`AbstractKeepsEnded`) and inherited through
  `Refinement`.
- `OnlyRecoveryLosesCancellation`: `CancelLostToRecovery`, the safety side of the disagreement
  `PlatformJobsCancel` shows: no other path leads a job there.
- `OnlyFaultsLeaveJobs`: `UnattendedByFault`, with `AttendedInv` (a worker that finishes a cancellation has
  seen the request). Besides faults and late cancellations it names the results that
  `Complete` refused.
- `HandlersDoNotMix`: `OneLiveHandler`, with `HandlersInv`: a lease starts one handler, and no handler has a
  lease its job did not give out.

`WebhookProofs` (of `Spec`, for every set of events, subscriptions and processors):

- `TypeCorrect`.
- `SuspensionStays`: `SuspensionHolds`, with `AdminInv`: as long as the version an
  administrator read stands, so does the suspension that was read.
- `BudgetHolds`, `DeliveredMeansAccepted`: with `RowInv`: the holder of a lease knows the
  attempt count of the row (`WorkInv`), a row exists only for an event that was fanned out
  (`FanInv`), so that a fan-out never resets one.
- `DeliveriesKeepFanout`: `FanoutContract`, the refinement of `EventFanout`: only `FanOut` makes a row
  with replay key "original" (`FanInv`), and no step makes one absent.
- `OnlyFaultsWaitForExpiry`: `LeaseAttended`, inductive with the type invariant: a processor that finds
  its lease lost leaves the row to the one that took it.
- `SettledStays`, `HolderEnds`: the action properties, from `FanInv`.
- `PostsAreBounded`: `PostsBounded` is not inductive; `PostsInv` counts the processors that
  will still post a row, those that lost their lease included, with the posts.

`RelayCircuitProofs` (of `Spec`, for any workers, processors, subscriptions and thresholds):

- `CircuitIsConsistent`, `BreakerCounts`, `TransitionsAreAnnounced`: from `BreakerInv`. Its core is that
  a worker that is not stale holds what the row still says (`Fresh`), so its write
  continues the count; a stale one sets `raced`.
- `RelayTypesHold`, `RowsAreClaimedOnce`, `DoneRowsAreFanned`, `TopicsKeepApart`, `OnlyFaultsStrand`,
  `EventsAreFannedOnce`: from `TableInv`. The sets of rows the processors hold are disjoint
  because the claim is guarded by the status (`HoldInv`); the status of a row and what is stored of
  its event determine each other up to faults (`RowInv`, `StrandInv`).
- `ProcessorsFanOut`: `FanoutContract`, the refinement of `EventFanout`, from the one transaction that
  writes events or deliveries.

`ImporterProofs` (of `Spec`, for any clients, workers, keys, sources, batch sizes and bounds):

- `TypeCorrect`: with `Budget` (the attempts at the job stay within its limit and the bounded
  events) and `Shape` (a run that is at a row is at a row of the source).
- `TransitionsAreObeyed`: with `RequestInv`: what a request has read allows what it is about to
  write, so the version check makes the write a transition.
- `CompletionIsComplete`, `SuccessIsCompletion`: with `ProgressInv`: the rows behind a run, behind the
  checkpoint and behind a record were all dealt with (`Behind`), whichever run did it.
- `HoldIsKept`, `JobLivesItsLife`: with `JobInv`, from the nine ways in which a step changes the
  job (`JobChange`); the refinement maps each to a step of `JobLifecycle` or a stutter.
- `CompensationIsClean`: with `CompInv`: at most one request compensates, and what stands, apart
  from memberships, is recorded and on its list, or recorded late, or lost, or in the hands of a run.
- `EditsAreKept`: with `EditInv`: an edit counts as kept before the compensation starts, so a
  request that still found the entity as imported, and is about to restore it, owes that
  to a run that was late.
- `RepeatsAreAccounted`: `CopiesAccounted` is not inductive, since it says nothing of the runs that
  are still going to add an entity. `CopiesOfRow` counts the copies of a row together with
  the late runs that can still add one and one for the holder of the lease, or the next
  one, as long as the row is not recorded; each step keeps the sum or breaks a run. A
  membership is never recorded, but cannot be added while it is there, and nothing removes
  it (`MemberInv`).

`SmtpReceptionProofs` (of `Spec`, for any mailboxes, addresses, users and bounds):

- `ReceptionTypes`.
- `SubmissionIsProtected`, `SenderIsOwned`: from `SessionInv`, over the commands.
- `OneEntryForATry`, `EntriesHaveMessages`: from `StoreInv`: what is still to do for a mailbox, and
  how far the current one has come (`PlaceInv`), and that older tries and mailboxes
  without recipient are left alone (`PastInv`). No step makes a message that can be loaded
  (`Loadable`) one that cannot, except the purge, which spares everything that is queued.
- `RelayIsAuthorised`: with `RelayInv`: what a recipient was when it was named.
- `AcceptanceServes`: `AcceptedMeansQueued`, with `PendingInv`: each recipient of the transaction is
  served or still on a list.
- `OrphansHaveFaults`: `OrphanedByFault`, with `OrphanInv`: the copies without an entry, apart from
  the one that is about to be queued, are no more than the faults. The steps that
  change copies or entries shrink that set; only a fault adds one to it.

`PROJECT.json` (`theorems`) lists these results, without the type invariants, which the others rest on.

The assumptions are the named ones of the modules (finite sets of rows and
workers, at least one attempt, bounds in Nat, distinguished values outside the
sets). TLC evaluates them in every run.

## 6. Model-checked only

All liveness properties (`EventuallySettled`, `EventuallyEnds`, `DeliveryEnds`, `RunEnds`, `EventEnds`,
`FinallyClosed`): fairness and ENABLED are out of reach of the prover. Every other property that a passing run
checks is also a theorem.
`AmbiguousStopsChain` and the other refuted properties are false and have no theorem.

## 7. Plan

Done: `MailQueue`, `DeliveryAttempt`, `JobLifecycle`/`PlatformJobs`, `WebhookDelivery`, `KernelOutbox` with
`RelayCircuit`, `Importer` on top of `JobLifecycle`, `SmtpReception`, and the proofs above. What
is left, in this order:

1. `IdempotencyKeys`: Begin/Complete/Abandon/Purge of the kernel, with crashes; execute-once
   as an abstract specification.
2. Composition: `SmtpReception` as the producer of the rows of `MailQueue`. (`DeliveryAttempt` behind
   `AttemptDelivery`, and the outbox in front of the webhook deliveries, are done.)
3. `RetrySchedule`: the backoff arithmetic with the width of time.Duration,
   against a reference definition over bounded inputs.
4. `SMTPData`: dot-stuffing and termination of the message on the direct and the
   relay path against the unstuffing of the server.

## 8. Not modelled

`PROJECT.json` (`components`) lists every part with its reason. In short: parsers and
cryptography (MIME, SPF, DKIM, DMARC, licences) compute on data and have no
interleavings; CRUD services over one table have single statements;
`internal/adminapi` is imported by nothing; the web applications, packaging and
command line are outside the server's core logic. Of the modelled parts:
`LeaseNextTenantFair`, `RestoreDeadLetter`, the purges and `RetryScheduler` of the
queue have no production caller; ordering of rows within a priority, DKIM
signing, audit and metrics are abstracted, since no property depends on them.

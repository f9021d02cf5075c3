# TLA+ verification of the event platform

The repository is an event-ingestion service: an HTTP API appends jobs to Kafka, workers store them in PostgreSQL
exactly once per request and in order per stream, failed jobs go to a dead letter topic and come back from it, and a
transactional outbox announces every stored event. Around it there is an operations agent that collects evidence,
judges it, follows incidents and has them diagnosed by a language model, scripts that put a cluster under load to
calibrate and to exercise that agent, and deployment code.

This directory holds TLA+ modules translated from the code, TLC configurations that check them on small instances,
and TLAPS proofs for every value of the constants.

## 1. Inventory

### The parts and how they interact

    client -> API (portfolio/api.py) -> Kafka ingress topic -> ingress workers (worker/main.py) -> PostgreSQL
                                             ^                       |  DataError, retries exhausted
                                             |                       v
              manual replay, replayers (worker/dlq_replayer.py) <- DLQ topic
    PostgreSQL notification_outbox -> relays (worker/outbox.py) -> notification topic
                                   -> notification workers (worker/main.py) -> PostgreSQL notification_attempts

    GET /health/ready, GET /ops/summary (portfolio/main.py) -\
    Prometheus (Kafka exporter), Kubernetes -----------------+-> collect_bundle (ops_agent/controller.py) -> bundle
    bundles -> evaluators -> activation -> incident record <- diagnosis (language model), recovery evaluations
    load scenario (scripts/worker_*.py) -> cluster; its captures -> evaluators -> verified incident, calibration

| Component | State it keeps | Operations | What is hard |
| --- | --- | --- | --- |
| Intake API `portfolio/api.py` | none; reads and writes PostgreSQL, appends to Kafka | create stream/user/event, lists, read receipts, status, DLQ list, manual replay | acknowledgement lost, replay against the automatic replayer |
| Demo reset `portfolio/api.py` | none; empties tables, recreates the DLQ topic | one request in two parts: a transaction under table locks, then Kafka | lock orders against every other transaction, records that were queued before it |
| Ingress worker `worker/main.py` | consumer position and batch, job under the handler, inline retry count | poll, validate, persistence transaction, inline retry, DLQ, status writes, offset commit, seek | rebalance while a record is handled, lost replies, crash between commits, partial failure |
| DLQ replay `worker/dlq_replayer.py`, `portfolio/state_store.py` | claim rows with owner token and lease, generations | claim, take over, publish, mark, release | two kinds of callers, lease against slow owner, three statements without a transaction |
| Outbox relay `worker/outbox.py` | row lock, `published_at`, `next_attempt_at` | select and lock, publish, mark, delay | acknowledgement and mark are not atomic, concurrent relays, rows that never publish |
| Notification worker `worker/main.py` | consumer position and batch | batch insert, record fallback, offset commits | one transaction for many offsets, poison records, stale records |
| Connection pool `portfolio/db.py` | current and retired pools, counts of connections in use | install, checkout, return, close | replacement while connections are out |
| API process `portfolio/main.py` | startup flag and thread, degraded timer, cached worker status | startup retry, readiness, summary, shutdown | startup thread against requests and shutdown, threads that share the timer and the cache |
| Evidence collection `ops_agent/controller.py`, `collectors/` | none; a bundle | ask API, Prometheus and Kubernetes one after the other, freshness, write | the system moves between two questions, caches, a source that is down |
| Evaluators `ops_agent/*evaluator.py` | none | judge one bundle, a sequence, a recovery | what counts as a gap, and what spoils everything after it |
| Incident lifecycle `ops_agent/incident_lifecycle.py` | the record: state, outcome, timeline, evaluations | create, attach diagnosis, attach recovery evaluation | late, repeated and reordered artifacts |
| Diagnosis `ops_agent/diagnosis_agent.py` | steps, attempts, budget | ask the model, run a tool, validate, repair | any answer of the model, retries against budgets |
| Incident experiment `scripts/worker_incident_e2e.py` | captures, manifest, artifacts | load, capture, diagnose beside it, evaluate prefixes, promote | a generator that does not stop, a thread that is late, an interrupt at any point |
| Recovery calibration `scripts/worker_recovery_calibration.py` | runs, gate, analysis, manifest | scenarios one after the other, gate, envelope, analysis | what the gate saw must stay what the analysis says |

What each component must do to be correct, in one line each:

- ingress: an accepted record is never skipped, never stored twice, numbered densely and in order; statuses tell the truth;
- replay: a generation is republished once unless something failed, and is not given up while it is nowhere;
- outbox: a stored event is announced at least once, without duplicates that no failure explains, and nothing stuck
  holds up the rest;
- demo reset: what was queued before it never counts for anything created after it, what it says it removed is what it
  removed, and it never makes a worker the victim of a deadlock;
- pool: a connection in use is not closed by a replacement, and no pool is forgotten;
- readiness: an answer does not depend on what another request is doing;
- collection and evaluation: what a bundle is judged to show was so, and not longer ago than the policy's ages;
- incident lifecycle: evidence that comes late or twice cannot change a closed incident's outcome; an incident starts
  and recovers exactly on what the rules describe;
- diagnosis: only what was observed is cited, within the budget;
- scripts: what they store as verified can be derived again from what they stored with it, and they come to an end.

`PROJECT.json` lists every component with its status under "components", and under "hazards" each place in the code
where a schedule, a failure or a boundary can break one of these, with the properties that would notice.

### Not modelled, and why

- Authentication (sequential data handling), configuration and metrics (no influence on control; limits are CONSTANTS).
- Of the collection: Argo CD, pods, the scaled object and the latency histograms, which no judgement modelled here
  reads, and redaction, which changes no judged field.
- Of the scripts: the proposal of load rates, the compact summaries, percentiles no decision reads and the rendered
  reports. The other labs and one-shot scripts are drivers around services that are modelled themselves.
- Command lines, prompts and the wording of a model's answers: an answer is any member of a set of decisions.
- Manifests, Terraform, dashboards, static pages and recorded results: configuration and data. Autoscaling and rolling
  updates appear as crashes and rebalances.

## 2. Plan

| Order | Module | Content | State |
| --- | --- | --- | --- |
| 1 | `EventStore` | abstract specification: what ingestion promises | done |
| 2 | `IngressWorker` | the consumer group with Kafka and PostgreSQL; implements `EventStore` | done |
| 3 | `DlqReplay` | claims, replayers, manual route | done |
| 4 | `NotificationOutbox` | relays, notification workers, demo reset as far as it concerns them | done |
| 5 | `DbPool` | threads, pool replacement, startup, shutdown | done |
| 6 | `ConditionEvaluator`, `HealthEvaluator`, `SequenceEvaluator`, `RecoveryEvaluator` | the rules of the agent as operators over bundles | done |
| 7 | `IncidentLifecycle`, `IncidentResponse` | the record and an operator's captures around it | done |
| 8 | `ApiHealth`, `EvidenceCollection` | readiness and summary; one collection against a moving system | done |
| 9 | `DemoReset` | table locks of the reset, the routes and the workers | done |
| 10 | `LoadScenario`, `DiagnosisAgent`, `IncidentExperiment`, `RecoveryCalibration`, `Laboratory` | the scripts | done |
| 11 | `IngressWorkerProofs` | types; every safety and action property of the ingress side; the refinement of `EventStore` | done |
| 12 | `DlqReplayProofs`, `NotificationOutboxProofs`, `DbPoolProofs`, `IncidentResponseProofs`, `DemoResetProofs` | types and the safety properties | done, except `RecoveredIffSustained`, `ActivatedIffGrowing`, which are of one instance |
| 13 | `EvidenceCollectionProofs` | types; every judgement about a bundle | done |
| 14 | `LaboratoryProofs` | the returned diagnosis; the calibration's agreement with itself; what `evaluate_recovery` says, for any captures; the verified incident | done |

How they compose: `IngressWorker` contains what `DlqReplay` abstracts to two actions (a replayed copy is stored or
given up), and `DlqReplay` contains what `IngressWorker` abstracts to `ReplayDlq` (a dead letter below the limit comes
back, any number of times). `NotificationOutbox` takes "a message and its outbox row appear together" from
`IngressWorker`, where it is proved. `EvidenceCollection` extends `ApiHealth` (whom it asks) and `HealthEvaluator` (who
judges). `IncidentLifecycle` extends the evaluators, `IncidentResponse` and `IncidentExperiment` drive it, the latter
together with `LoadScenario` and `DiagnosisAgent`; `Laboratory` puts both scripts side by side.

## 3. Modules and code

### How the code becomes actions

A step is what other processes can observe as one. Each Kafka call is a step of its own with the outcomes the code
can meet: done, not done, done but reported as failed. A PostgreSQL transaction is split where it reads and decides
(READ COMMITTED shows other commits in between) and where it commits; row locks held to the commit allow the part
under the lock to be one step. Kafka and PostgreSQL themselves are not part of the repository: they are modelled
from how the code uses them and are marked external in the map.

Data is abstracted to what the properties distinguish. A job is a request id with a constant `Kind` saying how
validation and PostgreSQL will judge it; an idempotency key is the row it denotes; a payload is the event it belongs to.

### `IngressWorker`

| Code | Model |
| --- | --- |
| ingress topic, group offsets and assignment | `ingress`, `committed`, `owner` |
| the worker's own view: assigned partitions, position, batch | `held`, `cursor`, `fetched` |
| `_process_worker_batch` | `Poll`, `Take`, `CommitOffset`, `CommitOffsetFails`, and `Rewind` for its exception path |
| `handle_ingress_job` | `pc`, `RetryOrDlq`, `MarkInlineRetry`, `PublishDlq`, `StatusFailed`, `StatusFailedDlq` |
| `_persist_message_with_cursor`, `persist_ingress_job` | `BeginTransaction` (its reads), `TransactionEffect` (its writes), `InsertRefused` (its error paths) |
| connection lost, broker error, process killed, session timeout | `CommitReplyLost`, `TransientError`, `HandlerRaises`, `PublishDlqFails`, `Crash`, `Fence` |
| jobs of earlier releases | constants `RoomSeq` (explicit sequence) and `LegacyKeys` (answers before keys were scoped) |

`Fence` takes a partition from a worker that goes on with its batch; this is how two workers come to handle one record.

### `EventStore`

Streams are logs that only grow, a request appears at most once, a key is answered by one event, an event comes
with its intent to notify. `IngressWorker!ImplementsEventStore` maps `messages` and `room_sequences` to the logs and
TLC checks that every step of the workers is a step of `EventStore` or none.

### `DlqReplay`

`claims` are the rows of `intake_idempotency_keys` the replay uses, one per request and generation.
`claim_dlq_replay` is `ReadStatus`, `InsertClaim` and `LockClaim`, because it commits or may be overtaken between
its statements; then `Publish`, `Mark` or `Release`. Replayers add polling, offset commits and crashes, callers of
the manual route answer and end. `LeaseExpires` is the clock. A value written to a claim carries a fresh owner
token in the code; the actor stands for it, since an actor only ever looks for the token it wrote last.

### `NotificationOutbox`

`pending` and `due` are the outbox rows without `published_at` and, in order of `next_attempt_at`, those whose time
has come; `DelayRow` takes a row out of the order and `BackoffElapses` puts it back at the end. `row`, `holds` and
`rpc` are a relay's row, whether the transaction holding its lock is alive, and where it is. `late` holds sends the
caller gave up and the producer still delivers. `Reset` empties the tables; `era` tells apart events that could
only share an id if identities were reused.

### `DbPool`

| Code | Model |
| --- | --- |
| `_pool`, `_retired_pools`, `_pool_active` | `pool`, `retired`, `active`; an absent key counts like 0, as in every read of the code |
| pool objects | ids; `opened` are those created and not closed, an id is free again when nothing refers to its pool |
| `get_conn` | `GetConn` (the test for None, without the lock), `CreatePool` / `ReconnectFails`, `InstallPool`, `Checkout` / `CheckoutFails`, `ReturnConnection` |
| `_initialize_db_startup` in the lifespan and in the retry thread | the actor `Startup`: `CreatePool` / `InitAttemptFails`, `InstallPool`, `Migrate` / `MigrateFails`, `RetryStartup` |
| shutdown | `Stop` (the event), `ClosePool` (under the lock), `CloseCollected` (each `closeall`) |

What a thread does with its connection, and whether that fails, changes nothing for the pool: both ways it is
returned. A pool that is still open may hand out an idle connection while the database is away, so `Checkout` does
not ask for `dbUp`. Only `/v1` and `/v2` wait for `ready`; readiness probes use the pool before.

### `ApiHealth`

PostgreSQL is in one of a set of conditions (`Clusters`): what Pgpool lists, what `pg_stat_replication` shows, whether
the primary is up. `get_postgres_runtime_status` asks for the two one after the other, so a failover may fall between
them. A readiness request is `AskReadiness`, the two queries, and the steps in which the grace period is read: whether
`_degraded_started_at` is set, and, in a step of its own, the subtraction, because synchronous routes run in threads and
share that variable. `GET /ops/summary` is the cache with its lock (`holder`), which the threads share too.

### The evaluators

`ConditionEvaluator`, `HealthEvaluator`, `SequenceEvaluator` and `RecoveryEvaluator` are operators without variables:
a bundle is a frozen record of items with status, freshness, the outcome of the contract checks, stamps and samples.
The rules are kept one by one, in the order the code applies them only where the order shows; the raw strings they
inspect are abstracted to whether the inspection succeeds.

### `EvidenceCollection`

One collection: context of kubectl, readiness, summary, the Kafka queries of Prometheus (in parallel), the deployment.
The rest of the system moves meanwhile: clusters, brokers, scrapes, pods, another client. One unit of time is the scrape
interval and the step of the range queries (5 seconds). `past` remembers, for each time, which clusters, lags and
deployments there were: the properties compare what was judged with what was. A bundle without context is out of the
scope the policy judges. Requests stand still once the collection has left the API (`AsksApplication`): nothing reads
their answers any more.

### `IncidentLifecycle`, `IncidentResponse`

`record` is the `ops.incident.v1` record; an artifact is named by its digest, so equal ids are equal artifacts.
`CreateIncident`, `AttachDiagnosis` and `AttachRecovery` carry every refusal of the code as a guard, and
`RecordIsValid` is the validator of the record model, which runs when a record is stored. `IncidentResponse` collects
captures with any pause and reading, and evaluates any part of them at any time, under policy v1 or v2, as the
command line allows: artifacts reach the record in any order.

### `DemoReset`

A request or worker transaction is a program: the sequence of the tables its statements name and of the statements
themselves. Naming a table takes its lock and keeps it until the transaction ends; the reset wants its tables for itself
(`LOCK TABLE ... ACCESS EXCLUSIVE`), everyone else shares them. `held` and `waiters` are PostgreSQL's lock table and
queue, `BreakDeadlock` its detector. What a statement reads is kept in `txn` and may be stale when it is used, unless a
lock protects it. After its commit the reset deletes, awaits and recreates the DLQ topic, while workers go on. A stream
carries its `birth` so that one made anew under an old id would be told from the old one. Reading and resetting
threads are separate sets, because a thread serves one request at a time and which thread does changes nothing.

### `LoadScenario`, `DiagnosisAgent`, `IncidentExperiment`, `RecoveryCalibration`, `Laboratory`

`LoadScenario` is `run_scenario`: baseline, generator, captures at a fixed cadence, the `finally` that stops the
generator (which may end early, go on, or not stop), the judgement. Every phase of the load lasts at least one
collection. `DiagnosisAgent` is the loop around the model with its retries, its budget of tools, the validator and the
one repair; a model may give any answer of `Answers`. `IncidentExperiment` runs both at once, the diagnosis in its
thread, then evaluates the prefixes of the captures that the script chooses and promotes an incident if everything
agrees; any stored file may be damaged before it is checked again (`CheckArtifacts`). Its quality gate never records
FAIL: `run_scenario` raises first. Artifacts to attach are a set (`pending`) from which the earliest is taken, as the
script sorts them by time. Since bundles do not change once they are written, what the evaluators say of them is
tabulated once. In `RecoveryCalibration` a scenario leaves one of a set of sample sequences; the gate, the envelope
(from the scenarios A, B and C only), the analysis and the manifest are modelled. An interrupt leaves the manifest at
RUNNING, as the code does, and a capture passed over for its quality does not break a stable run, as
`docs/TEST_RESULTS.md` (from line 226) describes. `Laboratory` runs one script at a time, an assumption about the
operator: both begin by waiting for a cluster without load.

## 4. Runs

Failures of the environment are counted (`faults`, `changes`) and bounded by `MaxFaults` or `MaxChanges`; every other
bound is a constant named in the module. Two workers (relays, replayers, threads) suffice for the races here: each is
between one process that lags and one that took over. Deadlock checking is off because the systems may rest when
nothing is left to do.

| Run | Question | Instance |
| --- | --- | --- |
| `ingress_zombie` | Duplicates, gaps, order, skipped records, offsets going back, keys, outbox rows, refinement of `EventStore` | 2 workers, 1 stream, 4 requests: two share a key, one has none, one repeats a key of before keys were scoped; a log of 4 records, batches of 2, 1 inline retry, 1 replay, 3 failures |
| `ingress_kinds` | Do statuses tell the truth on the rejecting paths, and does every record leave the head of its partition? | fair workers, 2 partitions, 5 requests: an explicit sequence that never fits, a DataError, an unauthorized, a misrouted and an undecodable one; 1 failure, batches of 1 |
| `dlq_shared` | Is a generation published twice without cause, or marked without being sent? | 2 replayers, 1 call, 1 request, 1 replay, 2 failures |
| `dlq_single` | Is a dead letter left behind, without competition? Does a dead claim block the partition? | 1 fair replayer and the clock, 2 requests of which one is invalid, 2 replays, 2 failures |
| `outbox_relays` | Do relays duplicate or lose notifications, do stuck rows or records hold up others, does a reset mix up old records and new events? | 2 relays and 2 workers, fair, 2 events of which one is never published, a malformed record, one with a DataError, 1 reset, 2 failures |
| `db_pool` | Does a replacement close a connection in use, is a pool lost, does the startup complete? | 2 threads of the API, the startup, ids for 4 pools, 3 outages or failed migrations |
| `demo_reset` | Deadlocks with workers, stale answers, counts, old records in new streams, requests left unanswered | 1 reading and 1 resetting thread, 1 worker, 1 request, 2 streams, 1 reset, 1 failure, 1 retry, fair |
| `evidence_collection` | Is what a bundle is judged to show real and recent? | 6 conditions of PostgreSQL; the API (healthy or down), Prometheus or Kubernetes answers, the others are down; 3 clients, times up to 4, 2 changes |
| `incident_response` | Does an incident start, recover and stay closed as described? | 2 partitions, 6 captures, windows of 2, pauses of 1, 3 and 6 units, 1 diagnosis, 2 attached evaluations, 1 fault |
| `incident_experiment` | Is a verified incident derivable from its captures, a diagnosis grounded, a calibration consistent? Do the scripts end? | one script or the other: 6 planned captures, 1 tool, 2 steps, 1 retry, 1 repair, 1 fault; calibration with 2 repeats, both modes |

Runs that end in a violation show where code and documentation disagree ("findings" in `PROJECT.json`):

- `dlq_race` (1 replayer, 1 call, 1 failure): `claim_dlq_replay` reads "no row" as "published"
  (`portfolio/state_store.py:96`). A manual replay that fails and deletes its claim just between the replayer's INSERT
  and SELECT makes the replayer skip a dead letter that is nowhere else. `NothingLeftBehind` therefore passes in
  `dlq_single` (no competing call) and is proved for one actor.
- `readiness_grace` (2 clients): `_degraded_grace_remaining` reads `_degraded_started_at` again after it set it
  (`portfolio/main.py:273`); a concurrent request that finds the database ready clears it in between and the answer
  becomes a 500.

Known without a run of their own:

- A status `persisted` can go back to `queued` or `failed_dlq`, since the upserts look at nothing
  (`worker/main.py:933`); a client that polled a terminal status may later poll another. `StatusIsBacked` says what does
  hold: whichever status is stored, it is backed by what it says.
- A status write is best effort, so a rejected request may never get one.
- A job with an explicit `room_seq`, which the present API no longer writes and the worker still accepts, can leave a
  hole in the numbering when two workers handle it: `StreamSequencesDense` is checked and proved for present jobs.

Every property of a passing run has a mutant: a plausible mistake in one mapped definition (named
`<definition>_<mistake>` next to it) under which the same run reports that property violated.

### Why the bounds are enough

The deepest scenario the ingress properties are about is: a worker reads, is fenced, another worker handles the record
with a failure of its own, the first one wakes up, and somebody replays. That takes two workers, a log of three
records and three failures; `ingress_zombie` allows four records. Retry and replay limits are 1 or 2 in place of the
configured ones: every branch on them (below, at the limit) is taken. `MaxPoll` is 2 in place of 20, so that a batch
holds a record behind the failing one; in `ingress_kinds`, where two partitions fail independently, a batch holds one
record of each. In `db_pool` two threads and the startup can each hold a pool of their own next to the current one,
which takes the four ids; `MaxConn` is 2, so that a retired pool can lose one user and keep another. In `demo_reset` a
circle of waiting transactions needs two, and a third agent queues behind it; `Keyed` is empty because a keyed record
takes one more table, first and in the same order as the reset, which only keeps the two apart. In
`evidence_collection` the collection may take three units of time, and the longest age is two, so that everything it
reads can become too old; two changes make a failover and its return. The judgements each rest on one source and on
the time it was asked, so one source answers at a time. `incident_response` has windows of two captures
in place of three, so that six captures hold an activation, a draining and a settled window, and one spare to spoil.
In `incident_experiment` the disturbance of one collection may hit any of the planned ones.

### Fairness

Only the loops that the code runs for ever are fair: `run_kafka_worker_loop`, `run_kafka_replayer_loop`,
`run_outbox_loop` and `run_kafka_notification_loop` catch every exception and go round again, and a dead process is
restarted by its deployment. In `DbPool` threads run once a request has started them, and so does the startup, whose
retry thread catches every exception; outages end. In `DemoReset` a request that was accepted is served, PostgreSQL
grants locks in the order of its queue and breaks deadlocks, and a topic that is being deleted is deleted in the end.
In `Laboratory` the steps of the scripts are fair because each of their waits has a timeout and threads are scheduled.
Besides, time passes (leases and delays end). No request, replay, reset, failure, interrupt or end of the load is fair:
the environment may stop at any time, and failures stop because they are bounded. Weak fairness is enough, as the
steps of one loop exclude each other and nothing disables them for ever but another process's progress.

## 5. Proofs

All constants are arbitrary: any number of workers, partitions, streams, requests, keys, retries, failures, and any
assignment of kinds, keys and sequences to requests that satisfies the named assumption of the module
(`ConstantsAssumption`, `NoneAssumption`, `ValuesAssumption`, `PoolAssumption`, `DemoResetAssumption`,
`ApiAssumption`, `CollectionAssumption`, `EvidenceAssumption`, `ActivationAssumption`, `PolicyAssumption`: types of the
constants, `None` differs from what it stands for, and a key belongs to one stream because the route names the stream).
The incident of the experiment needs some more: at least two units of time between collections, as something happens in
between (`ScenarioAssumption`); a collection is named for the time it ended, and what it read of a metric is finitely
many series of integers (the `CollectionAssumption` of `LoadScenario`); `Partitions` is finite (`EvidenceAssumption`);
the bounds of the recovery policy are natural numbers (`RecoveryAssumption`); and `None` is neither an envelope nor the
name of the diagnosis (`NoneIsNoEnvelope`, `IdAssumption`).
Two assumptions speak of data: what the model answers is within its schema (`AnswersAssumption`; anything else is
`BadAnswer`), and a sample with a measurement has a growth that is the difference of its rates (`CalibrationAssumption`;
`summarize_bundle` reports no rate when lag is not end minus committed offset in some point of the window). The bound on
failures plays no part in the arguments. `TypeOK` is a part of every inductive invariant and is therefore proved where
there are proofs, and listed in no run.

### `IngressWorkerProofs`

- `TypeCorrect`. `TypeOK` alone is not inductive: the task of a busy worker is `None` by type, and an offset could
  point behind its log. `TypeInv` adds `BusyHasTask` and `OffsetsInLog`. One step per action.
- `NoDuplicates`. The invariant `DedupInv`: a request is stored once; the row of a key names the request of the key's
  event (`KeyOwned`); what a transaction has read still holds when it commits (`ReadsHold`), which is where the lock
  is needed: two transactions never work on one key (`LockExclusive`).
- `OutboxIsTransactional`. Needs that a worker about to answer "existing" has a stored event in front of it
  (`ExistingIsStored`).
- `NoEventSkipped`. The committed offset moves to the offset a worker has in hand, so every worker's position must be
  resolved as well (`CursorResolved`), and a worker about to commit must have a reason (`Sound`): an outcome of its
  record, which lasts (`OutcomesLast`, `ResolvedLasts`), also when the worker is fenced.
- `StreamsAreDense`, under `PresentJobs` (no job brings its own sequence). The hypothesis is needed: with one, a
  transaction may increment the stream's counter and then find the message stored (`AlreadyAtSeq`). The counter is the
  number of events and the numbers are those up to it (`Numbered`).
- `StreamsKeepOrder`. The records of a stream lie in one partition. When an event is stored, every record before its
  first one is resolved (`BeforeResolved`): the worker has passed them, and what a worker has passed is resolved
  (`CursorResolved`).
- `GroupNeverGoesBack`. Only the owner's commit moves an offset, and the group is ahead of its owner by one record at
  most, the one whose commit it got no reply to (`OwnerAhead`), also after a rewind.
- `StatusesAreTrue`. A worker about to write a status already has what the status will say (`Backed`).
- `WorkersImplementEventStore`, under `PresentJobs`: the refinement. The log of a stream is the sequence of its events
  by number (`LogOf`), well defined because numbers are dense and events unique; a commit that inserts appends to one
  log and adds the answer and the intent to notify, every other step leaves the three as they are.

`StepShape` sorts the steps by what they do to the tables: `Quiet` (nothing), the reads of a transaction, a commit.
The proofs handle these cases in place of every action; `CommitShape` splits the commits once more.

### `DlqReplayProofs`

- `TypeCorrect` with what each actor has in hand (`JobInHand`, `PositionsInLog`, `BelowLimit`).
- `PublishedAlwaysSent`: an actor between publish and mark has sent the copy of its own key.
- `CopiesAreAccounted`. To the copies made the invariant adds those that may come without a further failure: one for
  each actor on its way to publish, and one if the claim is free (`Owed`). Their sum stays within one and the number
  of failures and expired leases (`CopiesPaid`, `ClaimsPay`).
- `SingleLeavesNothing`, under `OneActor`: a single replayer without manual calls. The run `dlq_race` shows that the
  hypothesis is needed.

### `NotificationOutboxProofs`

- `TypeCorrect` adds the row a relay has in hand, positions inside batches and that the identity sequence is ahead of
  the stored ids; `due` stays an injective sequence through insertions anywhere.
- `AttemptsBelong` (`EraInv`): whatever is in play, a row, a relay's copy, a late send, a record or an attempt, names an
  id of its own era, and an id of an era that is over is never stored again.
- `NotificationsArrive`. A relay marks a row only when its record is ahead of the group or handled (`MarkIsThere`,
  `Ahead`, `Handled`); a worker about to commit has handled what it passes (`BatchStored`), and passes what it has in
  hand (`OwnerAtCommitted`).
- `CopiesAreAccounted`. A held row is unpublished and held once (`RowsLocked`). Copies made, late sends, copies in the
  hands of relays that lost their lock, and the one an unpublished row still brings (`Owed`), together with the records
  no relay wrote (`Strays`), stay within one and the number of failures (`CopiesPaid`).

### `DbPoolProofs`

`CountsAreRight`, `NoPoolLost`, `NoConnectionCutOff`, from `PoolAssumption`. The invariant `PoolInv` adds to the counts
that an actor has a pool exactly while it installs or uses one (`MineMatchesPlace`), that a pool is in one place only
(`PoolsApart`), and that a pool which is neither current nor retired has no count (`NoStaleCount`): the next pool with
its id starts from what is left in `_pool_active`.

### `IncidentResponseProofs`

`RecordAlwaysValid`, `CurrentAlwaysNewest`, `ClosedStaysClosed`, for any evidence whose completion times are numbers
(`EvidenceIsTimed`), and any policy values. `ResponseInv` says where each event of the timeline comes from
(`EventsHaveOrigin`), that events and evaluations are in order and differ, that the observation shown is the newest,
and what closing leaves (`Closing`). Appending keeps each of them when the guards of the attach functions hold.

### `DemoResetProofs`

`TypeCorrect`, `RoomIdsAreMonotonic`, `ResetCountsExactly`, `AnswersKeepTheirEra`. Two facts carry the last two: an
agent holds exactly the tables that its program named so far (`LocksHeld`), and a table with two holders is held by no
reset (`Apart`). Hence what a transaction read under its locks (`StillFound`, `Authorized`, `StillCounted`) holds
until it ends. `EveryStep` sorts the steps: an agent rests, goes on in its program, or begins a new one.

`WorkersAreNoVictims`. `Circle` is a least fixed point, so that a set which has all that an agent waits for, and all
that these wait for, but not the agent itself shows that it waits in no circle (`OutOfReach`). Whoever waits does so
once and for a table (`Queued`). The reset names its tables in an order in which the Worker comes to them
(`ResetOrder`, `WorkerOrder`): when a reset has, or precedes the Worker in the queue for, any table but
`idempotency_keys`, it holds a table that the Worker would hold if it held any. Hence the Worker holds nothing and
nobody else waits for it (`NobodyBehind`), and the set is everyone else. At `idempotency_keys` the Worker holds
nothing yet, and neither does anyone behind it in that queue (`KeysComeFirst`); the set is everyone but these.

### `EvidenceCollectionProofs`

Every judgement is about the past: the invariants say where an answer comes from (a moment between the time stamped on
the question and now), that the history only grows (`PastGrows`), and the theorems compare that moment with the end of
the collection.

- `SummariesAreRecent`. A cached status ends `CacheTime` after it was read (`CacheOK`), so whatever a request is
  answered with was read no longer than that before the application was asked (`Serves`). A request that waits for the
  lock reads the cache again, or fetches after it was asked.
- `WorkersWereAvailable`. The deployment in the bundle is one of those since Kubernetes was asked (`WorkerInv`).
  Normalisation matters: a count of zero is absent, so a judgement with absent counts says nothing (`CompleteDeployment`).
- `DatabaseWasSo`. The counts of a readiness answer are of one listing, or of one listing and one later view of the
  streams (`GroundedIn`, `CountsAreOfAMoment`), in every place an answer can be: with a request, in the grace period, in
  the bundle (`ReadinessInv`). Coherence of the answer carries the reasons over to the counts (`JudgedOnCounts`).
- `BacklogWasGone`. A range query and the query for the time of its samples look at the scrapes at different moments.
  The value in sight at a time is of the last scrape stored until then (`WhatIsVisible`). What the invariant keeps of an
  answered range is that its last value is of scrape `k`, that the other scrapes stored by then are later than the point
  of the range, and that of those stored afterwards at most one is not later than the time of evaluation (`Later`): the
  one that was under way. So the stamp, which must not lie after the last point of the range, is of `k`, of an earlier
  scrape, or of the very next one (`StampMeetsSample`), which is why `NoBacklogIsReal` must allow for `Gap`. That the
  largest element of a bounded set exists (`LargestExists`) comes from the well-foundedness of inclusion among finite
  sets.

An attempt at the proof of `DatabaseWasSo` corrected its property: `DbJudgementIsReal` used to claim of an ABSENT that the
delay of Pgpool's listing was low at some moment. The rows of `pg_stat_replication` replace what the listing said, so
either delay may be the low one; the instance of `evidence_collection` now has a condition in which the two differ.

### `LaboratoryProofs`

- `DiagnosisGrounded`. The tools called so far differ, are within the budget, and the answered requests are as many as
  the turn asks for (`StepsOK`), while the loop runs and while its answer is judged or repaired. A run is returned only
  with a decision that breaks no rule, and four of the rules give the theorem (`ValidDecision`, `ValidStop`,
  `RunIsGrounded`). That a supported cause is one of the four causes needs the schema of the answers (`Schema`). The
  thread is started once: `started` is 0 only before it (`StartInv`).
- `CalibrationConsistent`. The runs are those requested so far (`RunsInv`). The gate's verdicts are those that the runs
  still show (`GateInv`), because a further recovery does not enter the envelope (`EnvelopeStays`). A capture counted as
  a return has committed at least what was produced, one under growing pressure has grown by the floor, which is
  positive, and growth is the difference (`StableIsNotPressed`).
- `RecoveredMeansSettled`. `evaluate_recovery` walks over the captures with a count of good ones that a bad one resets
  and a drop of pressure starts. After `k` captures the count is `n` exactly when the last `n` were in the envelope, with
  the drop before the first of them or with it (`ReentryCounts`); so RECOVERED is said of samples that are settled at
  their end (`SettledAtEnd`) and of no other.
- `JudgedMeansBelonging`. A capture that does not belong to the activation breaks the identity of the walk, and nothing
  after it repairs that (`UnbrokenBefore`). So a state other than UNKNOWN speaks of captures which all belong (`Belong`).
- `PromotionReplayable`. `PromotedIsReplayable` says that a verified incident is the one a reader would derive from the
  captures, who evaluates every prefix; the script evaluates some (`_evaluate_recovery_prefixes`). That is right
  because a prefix that recovers ends with `RecoveryCount` settled samples and is therefore asked (`RecoveredIsAsked`).
  The invariant `Promotion` names what must stay true meanwhile: the captures are one of the tabulated histories, at
  multiples of `Cadence` (`HistoryInv`), and a further capture changes no earlier window (`WindowsStay`); the
  incident is of the first active window (`StartedInv`); each stage has behind it what it presupposes (`StageInv`);
  the diagnosis was complete between two collections (`DiagnosisTime`), hence strictly before the incident closes; what
  is attached, and what is pending, is what the captures say (`AttachedInv`, `PendingInv`). None of these is inductive
  alone. That what is judged PRESENT has been measured goes down to the sums over the partitions of a bundle, which are
  integers (`SumIsInteger`).
- `PromotionSettled`. The three together: a verified incident closed with the first capture at which the samples were
  settled, and every capture up to it belongs to its activation (`ClosedWhenSettled`).

Induction over numbers and finite sets is used in these proofs in a form the provers accept: a set of counterexamples
has a smallest element, which follows from the well-foundedness of inclusion (`NaturalInduction`, a statement about a
set of numbers). With it, what the recursive functions `Observe` and `Reentry` compute, for any captures, can be proved.

### What is only model-checked

- All liveness properties: the prover does not reason about fairness and ENABLED.
- `RecoveredIffSustained` and `ActivatedIffGrowing`: they compare the evaluators with what was read in the readings of
  `MCEvidence`, so they are statements about that instance. `RecoveredMeansSettled` and `JudgedMeansBelonging` are what
  can be said of the recovery rules for any captures.

## 6. Running

    tlc -config IngressZombie.cfg MCIngressWorker
    tlapm IngressWorkerProofs.tla
    tlapm DemoResetProofs.tla

With two workers each run takes between a few seconds and about a minute and a half; a proof module takes from ten
seconds to several minutes when nothing of it was proved before.

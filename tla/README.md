# A verification development of webhooks-engine

TLA+ models of the delivery service under `webhook_engine/`, checked with TLC on
small instances and proved about with TLAPS. This file is the inventory of the
system, the guide to the modules and the account of what is checked and proved.
`PROJECT.json` is the index: components, runs, mutants, the map from definitions
to source lines, findings, hazards, theorems.

## 1. The system

A producer appends an *event*; the *ingestor* fans it out into one *delivery* per
active subscription; the *dispatch engine* claims due deliveries and POSTs them,
signed, until the receiver accepts one, the retries are used up or the answer is
final. All state is in one store (PostgreSQL, MongoDB, memory; a Redis delivery
store for library users). The engine keeps none, so replicas share work only
through the store, by leases.

| Component (source) | State it keeps | Operations | What makes it correct |
|---|---|---|---|
| Event stores (`ingest/pg.py`, `mongo.py`, `memory.py`) | event rows: pending, claimed, done, failed; time of the claim | `append`, `claim_events`, `ack`, `mark_failed`, `reclaim_stale` | an event is claimed by one tick; it ends done or failed and stays so |
| Ingestor (`ingest/ingestor.py`, `service/ingest_worker.py`) | none between ticks | `tick`, `_fan_out` | done means every subscription got its delivery; one bad event harms no other; duplicates only after failures |
| Delivery stores (`service/pg_repos.py`, `stores/pg.py`, `mongo.py`, `memory.py`) | delivery rows: status, attempts, due time, lease; attempt log | `enqueue_many`, `claim_batch`, `reclaim_stale`, `mark_sent`, `schedule_retry`, `mark_dead`, `append_attempt` | atomic claims; counters and log agree; terminal rows stay |
| Redis delivery store (`stores/redis.py`) | ready and in-flight sets, hashes, attempt lists, times to live | the same contract, by scripts and pipelines | a delivery is in one set or in one task's hands; a cut pipeline is the only way to lose one |
| Dispatch engine (`engine.py`, `service/worker.py`, `service/app.py`) | tasks of the tick under way, worker gate | `tick`, `_dispatch_one`, `_quarantine`, `_notify`, `drain` | exclusive leases; every delivery is settled; an unhandled exception loses nothing and does not loop |
| Dispatcher (`dispatcher.py`) and host semaphores (`host_semaphores.py`) | slots per host | `send` | snapshot still current when the attempt is settled; bulkheads work |
| Retry policy (`policy.py`) | none | classify, retry or not, delay | retry budget kept, back-off and Retry-After honoured |
| HTTP sender (`http_sender.py`) | connection pool | `post` | (external behaviour: any answer, a timeout, an error) |
| Subscription stores (`service/subscription_*.py`) | one row, document or hash per subscription; Redis: index sets | `create`, `rotate_secret`, `pause`, `resume`, `delete`, `for_event`, `get_secret` | readers see whole rows; a delete is final; races of read-then-write calls |
| Secrets (`protocols.py`, `signer.py`, `verify.py`) | current and previous secret, end of the grace window | `sign`, `verify_webhook` | a receiver verifies every delivery while it changes over |
| Delivery administration (`service/delivery_admin.py`) | none | `redeliver`, `ping` | enqueues one new delivery |
| URL guard (`ssrf_guard.py`) | none | `validate`, `check_ip` | classification of addresses |
| Event bus fan-out (`fanout.py` and friends) | none | `handle` | in-process twin of the ingestor |
| HTTP API and wiring (`service/routes`, `deps.py`, ...) | none | construction, conversion | - |

**Interaction.** Ingestor to event store, subscription store and delivery store;
engine to delivery store; dispatcher to subscription store, guard, sender and
delivery store. All of it is by awaited calls in one event loop per process, so a
step ends at every `await`, and another task, another replica or the clock may
move before the next one.

**Hard behaviours.** Leases that run out while their holder is still at work;
store calls that raise after their effect landed; pipelines of several commands
cut in the middle or met by another client; a process killed or cancelled between
two calls; batches that are half done; time read before an await and used after
it; a row read in one round trip and written in the next. They are listed at
their lines under `hazards` in `PROJECT.json`.

## 2. The modules

| Module | What it models |
|---|---|
| `DeliveryPolicy` | `policy.py`: classification of an answer, the retry decision, Retry-After, every delay `next_delay_s` may return |
| `DeliveryStore` | one delivery row and what each store call does to it, backend by backend (`Pg...`, `Mongo...`, `Memory...`), behind one contract (`Enqueued`, `Claimed`, `Reclaimed`, `Settled`, `Appended`) |
| `Dispatch` | replicas running `tick` on one table: composes the two above |
| `DeliveryLifecycle` | the abstract specification: absent, open, sent or dead |
| `RedisStore` | replicas running the same tick over the Redis delivery store, command by command; uses `DeliveryPolicy` |
| `Ingest` | replicas running `EventIngestor.tick` on one event table |
| `SubscriptionStore` | one subscription on Redis, Postgres or MongoDB: rotations, status writes, deletes, a fan-out, sends and the receiver |
| `MCDispatch`, `MCRedis`, `MCIngest`, `MCSubscription` | instances for TLC |
| `DispatchProofs`, `PromiseProofs`, `PolicyProofs`, `RedisProofs`, `CustodyProofs`, `RedisPromiseProofs`, `IngestProofs`, `SubscriptionProofs` | theorems |

**`Dispatch`.** `rows` is the delivery table, `pc` and `nowRead` a replica's place
in `tick` and the clock reading its next store call carries, `tasks[r][d]` the
`_dispatch_one` task of replica `r` for delivery `d`. A task goes *queued* (before
the worker gate), *waiting* (for the host semaphore), *posting*, *settling*,
*notifying*; an exception moves it to *unhandled* and `_quarantine`. Its actions
are the stretches of code between two awaits: `BeginTick`, `ReclaimStale`,
`ClaimBatch`, `EndTick` for `tick`; `Prepare`, `Reject`, `Post`, `Conclude`,
`Settle` for `send`; `Raise`, `QuarantineAppend`, `Bury` for the exception path;
`Notify`; and a `...Fails` action for each store call. `Stop` is a crash or the
cancellation at shutdown: the lifespan handler cancels the tick loop, `gather`
hands this on to the tasks, and `drain` finds nothing to wait for.

**`RedisStore`.** `ready` and `inflight` are the two sorted sets, `hash` and `atts`
the hash and the attempt list of a delivery. `CLAIM_BATCH_LUA` and `RECLAIM_LUA`
run on the server and are one step each (`ClaimIds`, `ReclaimStale`). The rest is
pipelined without `MULTI`, so each command is a step named by the stage a task is
in: `Read` and `MarkInFlight` load what was claimed; `Push` is `append_attempt`;
`Unlease`, then `Unready` or `Requeue`, `Write` and `SetTtl` are the commands of
`mark_sent`, `mark_dead` and `schedule_retry`. `CallFails` and `Stop` may cut the
sequence anywhere, `Expire` is the server deleting a key. The semaphores and the
answers are those of `Dispatch` and are not repeated; an attempt ends in one of
`Reasons`.

**`Ingest`.** `stage[r][e]` is what the tick of replica `r` has done with event
`e`; `deliveries[e][s]` counts the deliveries enqueued for the pair. Fan-outs are
sequential (`Resolve`, then `EnqueueMany`), `ack` comes once at the end. A call
that raises outside `_fan_out` ends the tick and forgets what it knew.

**`SubscriptionStore`.** `row` is the subscription, `index` its membership in the
Redis set of the event, `calls[c]` what a caller has read and is about to write,
`fanout` a `for_event` between its two round trips, `sends[s]` a `send` from its
clock reading over the look-up of the secrets to the POST. A secret is a number, a
signature the secret it was made with. The receiver (`held`, `Switch`) follows
`verify_webhook` and takes the secret `rotate_secret` returned. `Create`,
`Rotated`, the status writes, the deletes and the reads have one definition per
store, after its own source file.

**Abstractions.**
- Outside Redis a store call is atomic per row, as the SQL statements and document
  updates are. A claim of MongoDB, a loop of single updates, is one step when it
  succeeds; when it fails, any prefix of it may have landed. Its interleaving with
  another replica's claim changes only who gets which row.
- One wall clock for all replicas, whole seconds. Time moves only while some
  comparison with it can still change (`TimerPending`): later readings would tell
  nothing apart. `Ingest` keeps ages in place of readings, as only differences
  matter there. `SubscriptionStore` bounds the clock by `MaxClock`.
- `HoldBound` is an *assumption*: how long after its claim a row (or a tick, in
  `Ingest`) may still be held. The code has no such bound (no renewal of leases,
  no timeout on the whole POST), so the runs of one replica leave it open and the
  runs of two assume it is within the lease.
- `CallBound` is the like assumption about a send or a rotation in
  `SubscriptionStore`, and `Patient` one about the receiver: it changes its secret
  only when no delivery signed before the rotation can still be under way, and
  before the window closes. An impatient receiver does refuse deliveries (see the
  findings).
- `LostReplies`: whether a store call may raise although its effect landed.
- `MaxFaults`, `MaxStops`, `MaxPauses`, `MaxSecret` bound exceptions, crashes,
  pauses and rotations. They are limits of the model, not of the program; the
  theorems hold for every value.
- Everything that happens to a payload, a signature or an address before the POST
  is its outcome: go on, dead-letter, raise.
- `posts`, `acked`, `raised`, `asked`; `torn`, `overtaken`; `steady`; `deleted`,
  `overlapped`, `hurried`, `promised` are history variables: properties read them,
  no guard does. The one exception is `hurried`, in the assumption about time and
  the patient receiver in `SubscriptionStore`'s `Advance`.
- The order of pending events is `created_at`, which producers choose (`Created`).
  In-memory events are taken in any order.
- Not kept: the number of attempts MongoDB keeps in the log, sent rows deleted by
  `purge_sent` (nothing calls it), the exhausted event on the bus, counters, logs;
  of Redis, the idem keys (written, never read) and the capped stream of recent
  summaries.

## 3. The runs

| Run | Instance | Shows |
|---|---|---|
| `DispatchReplicas` | Postgres, 2 replicas, 1 delivery, 3 attempts, jitter 50 %, lease 2 = hold bound, Retry-After as a date (within `MaxDelay`), 1 fault, 1 stop | `ExclusiveLease`, `SnapshotIsCurrent`, `BackoffRespected`, `ReceiverLoadBounded`, `AttemptLogComplete`, `TerminalIsFinal`, `RetryAfterHonoured` (for dates), and `DeliveryLifecycle` is implemented (`KeepsPromise`) |
| `DispatchOneReplica` | Postgres, 1 replica, no hold bound, lost replies, 3 faults, 1 stop | `QuarantineEnds`, and `EventuallySettled` under fairness |
| `DispatchBatch` | MongoDB, batch of 2 to one host with one slot, 1 fault | `ExclusiveLease`, `EventuallySettled`, `KeepsPromise` where rows share a batch, a gate and a host |
| `RedisReplicas` | 2 replicas, 1 delivery, 2 attempts, lease 2, hold bound 1, 2 faults, 1 stop, a time to live of 2, an attempt list of 1 | `Disjoint`, `ExclusiveLease`, `LostOnlyByCuts`, `NoOrphans`, `SnapshotIsCurrent`, `LogLeads`, `BackoffRespected`, `ReceiverLoadBounded`, `TerminalIsFinal` |
| `RedisOneReplica` | 1 replica, batch of 2, no hold bound, lost replies, 1 fault | `LostOnlyByCuts`, and `EventuallySettled` under fairness |
| `Ingest` | MongoDB, 2 replicas, 3 events (one unreadable, one unserialisable), a blocked subscription, 1 pause (and any number of resumes), 1 fault, 1 stop | `ExclusiveClaim`, `DoneMeansEnqueued`, `DuplicatesBounded`, `FailureParksOne`, `SettledIsFinal` |
| `IngestProgress` | the same without pauses, under fairness | `EventuallyIngested` |
| `Subscription` | each store, 2 callers, a fan-out, a send, a patient receiver, 3 secrets, windows of 4, clock to 8 | `OldSecretSigns`, `ReceiverVerifies`, `SecretsHandOver`, `DeletedIsGone`, `DeletedIsQuiet`, `FanOutRuns` |
| `DispatchSlowReplicas` | 2 replicas, no hold bound, no failure | violates `NoDoublePost` |
| `DispatchPoison` | memory store, `send` raises each time | violates `QuarantineEnds` |
| `RedisLost` | 1 replica, 1 crash | violates `NothingLost` |
| `SubscriptionGrace` | Postgres, two rotations one after the other | violates `GraceKept` |

**Why the bounds are enough.** A lease race needs two replicas and one row; two
rows matter only where they share a batch, the gate or a host (`DispatchBatch`),
a batch that loads its hashes together (`RedisOneReplica`) or an `ack` (`Ingest`).
Three attempts have a first, a middle and a last one; on Redis two are enough for
a retry to be listed and overtaken. A lease of one or two seconds expires within a
run as well as it is met. One fault and one crash may fall on the same delivery,
on different attempts, or in one recovery; on Redis a second fault lets quarantine
itself fail; `DispatchOneReplica` takes three faults so that quarantine has
something to end. Two callers are all a read-then-write race needs, and three
secrets make a window open inside another one. The proofs below lift the bounds
for the properties they cover.

**Symmetry** of the replicas (or callers) is used in `DispatchReplicas`,
`DispatchSlowReplicas`, `RedisReplicas`, `Ingest` and `Subscription`, which check
no liveness. `Subscription` and `SubscriptionGrace` switch the deadlock check off:
when all secrets are issued and the clock has reached its bound, the model has no
more to do.

**Fairness.** `EventuallySettled` and `EventuallyIngested` assume weak fairness of
each replica (its event loop runs what is ready; a stopped replica is started
again by its orchestrator) and of time. Nothing is assumed of the receiver except
that a POST ends: connect, read and write have timeouts. `RedisStore` assumes
*strong* fairness of `Advance`: there `HoldBound` disables the clock whenever a
task holds a row for long, and time passing in the real system is not stopped by
that. Failures and crashes are finite in number.

**Mutants.** For every property of a passing run, `PROJECT.json` names a plausible
bug in a modelled definition that makes TLC find the property violated.

## 4. What the violations show

1. **Replicas can double-deliver** (`DispatchSlowReplicas`). The deployment guide
   says they will not. They do when a task outlasts its lease, which nothing
   prevents: the lease is set once for the whole batch, is not renewed, and the
   wait for gate, semaphore and receiver is unbounded. The theorem `NoDoublePosts`
   says what is enough.
2. **Quarantine never ends on the memory, MongoDB and Redis stores**
   (`DispatchPoison`, on the memory store): their `append_attempt` does not count
   the attempt that `_quarantine` relies on.
3. **A crash inside `schedule_retry` loses the delivery on Redis** (`RedisLost`):
   `ZREM inflight` and `ZADD ready` are two commands of a pipeline without a
   transaction. `OnlyCutsLose` proves that this is the only way.
4. **A second rotation ends the grace window of the first** (`SubscriptionGrace`):
   a row has room for one previous secret. `OldSecretsSign` proves that it is the
   only way, on stores whose calls are atomic.

The findings without a run are plain on reading the code, or seen in a
counterexample of a variant of these instances: Retry-After in seconds is counted
from the start of `send` and so cut short by the look-up, the semaphore and the
POST; tasks that wait for a slow host hold worker slots; a crash between
`enqueue_many` and `ack` delivers twice, as nothing knows duplicates by
subscription and event; a MongoDB document that cannot be read takes the older
events of its batch with it each time; a receiver that changes over at once
refuses deliveries signed before; a paused subscription still gets what was
enqueued before; and disagreements about the limit quarantine uses, shutdown,
duplicates in the attempt log, `redeliver` and the answer of `pause`.

## 5. What is proved

For every number of replicas, deliveries, events, callers and senders, every
setting, and any number of faults and stops.

| Theorem | Statement | Assumes |
|---|---|---|
| `TypeCorrect`, `RedisTypes`, `IngestTypes`, `SubscriptionTypes` | `[]TypeOK` of each module | - |
| `ExclusiveLeases` | `[]ExclusiveLease` | safe |
| `NoDoublePosts` | `[]NoDoublePost` | safe |
| `CurrentSnapshots` | `[]SnapshotIsCurrent` | safe |
| `RespectedBackoff` | `[]BackoffRespected` | safe |
| `FinalReports` | `TerminalIsFinal` | safe, no lost replies |
| `LogIsComplete` | `[]AttemptLogComplete` | Postgres or MongoDB: -; memory: safe |
| `LoadIsBounded` | `[]ReceiverLoadBounded` | safe |
| `PoisonIsContained` | `[]QuarantineEnds` | safe, Postgres |
| `DatesAreHonoured` | `RetryAfterHonoured` | safe, `OnlyDates` |
| `WaitsAreNearlyHonoured` | `NearlyHonoured`: no retry is early by more than `HoldBound` | safe |
| `PromiseKept` | `KeepsPromise`: `Dispatch` implements `DeliveryLifecycle` | safe, no lost replies |
| `DelaysKeepPromises` | every delay is within its jitter of the capped back-off, or is the wait the receiver named, up to the cap | - |
| `BudgetEnds` | no reason is retried from the `max_attempts`-th attempt on; only an accepted POST is sent | - |
| `SetsAreDisjoint` (Redis) | `[]Disjoint` | safe |
| `LeasesAreExclusive` (Redis) | `[]ExclusiveLease` | safe |
| `NoOrphanIsMade` (Redis) | `[]NoOrphans` | safe |
| `OnlyCutsLose` (Redis) | `[]LostOnlyByCuts` | safe |
| `AttemptsFollowTheCount` (Redis) | `[]SnapshotIsCurrent` | safe |
| `TerminalStays` (Redis) | `TerminalIsFinal` | safe |
| `NoPostIsEarly` (Redis) | `[]BackoffRespected` | safe |
| `ReceiverIsSpared` (Redis) | `[]ReceiverLoadBounded` | safe |
| `NoCountWithoutLog` (Redis) | `[]LogLeads` | safe, `Outlasting` |
| `DoneIsEnqueued` | `[]DoneMeansEnqueued` | - |
| `ClaimsAreExclusive` | `[]ExclusiveClaim` | safe |
| `SettledStays` | `SettledIsFinal` | safe |
| `OneFailureParksOne` | `[]FailureParksOne` | - |
| `DuplicatesArePaidFor` | `[]DuplicatesBounded` | safe |
| `SecretsAreHandedOver` | `SecretsHandOver` | - |
| `DeletedStaysGone`, `DeletedIsNeverTargeted` | `DeletedIsGone`, `[]DeletedIsQuiet` | - |
| `OnlyRacesBreakFanOut` | `[]FanOutRuns` | - |
| `OldSecretsSign` | `[]OldSecretSigns` | - |
| `PatientReceiversVerify` | `[]ReceiverVerifies` | `Timely` |

*safe* is `SafeDeployment` of the module: one replica (and then tasks of any
length), or replicas that are done in time. In time means `HoldBound <= LeaseTtl`
and no lost replies in `Dispatch`, `HoldBound <= LeaseTtl` in `Ingest`, and
`HoldBound < LeaseTtl` in `RedisStore`, whose reclaim script compares with `<=`
where the SQL and MongoDB queries compare with `<`. `DispatchSlowReplicas` shows
that the assumption cannot be dropped. Without "no lost replies" a settling call
whose reply is lost sends a settled delivery to quarantine, which may dead-letter
it.

`PoisonIsContained` is about Postgres because it fails elsewhere: the other stores'
`append_attempt` does not count, and `DispatchPoison` shows what follows.
`OnlyDates` says that receivers name times, and none that `max_delay_s` caps
(`MaxDelay` at most, on a clock that starts with the model): a wait in seconds is
counted from the clock `send` read before the POST, and so is the cap. The
theorem without it, `WaitsAreNearlyHonoured`, says how much that can cost; TLC finds
retries that are early by the whole hold bound, so that it cannot be sharpened.
Both take `HeadersOnResponses`, that an answer which is no response has no header.
`Outlasting` is one replica, or `HoldBound < Retention`: a pipeline that writes to
a hash whose time to live has run out makes a counter whose list is gone. The
settings default to 7 and 30 days.

`Timely` is the patient receiver, `CallBound` within its signature window, and
every grace period longer than a call.

**The arguments.**

- *`DispatchProofs`.* `ExclusiveLease` is not inductive: it does not say why a
  lease cannot be taken back. `Custody` does. It adds that tasks exist only inside
  a tick (`TasksInTick`), so that a replica never reclaims from itself; that no
  replica carries a clock reading from the future, or claims with one that is too
  old (`ReadingsPast`); that an owner's row is leased to it from its claim on and
  the clock is still within the hold bound (`LeasedToOwner`); and that a row has
  one owner (`OneOwner`), where in a timely deployment owners include tasks in
  quarantine.
- *`PromiseProofs`.* `Snapshots` and `VerdictHonest` (a task about to report
  *sent* saw a 2xx) rest on `Custody`, and the refinement on all three: each
  action is matched with `Enqueue`, `Accept`, `ReportSent`, `GiveUp` or a stutter
  of the abstract delivery. `Logs` says that every attempt below a task's own is in
  the log, which the two stores that set the counter to the attempt they log need
  no lease for. `Spending` pays for each POST with a counted attempt, with a fault
  or stop that lost one, or with a task that is yet to settle; a delivery that is
  not over has room for one POST more, as a retry is due only below the budget.
  `Contained` is the argument for quarantine: on Postgres each logged exception moves
  the counter, so that a delivery with n of them is at attempt n + 1; once the limit
  is reached its task is the one that will bury it, and no claim comes in between
  as that task still holds the row, unless one more thing has gone wrong.
  `Heeded` follows what a receiver asked for from the answer into the task that
  settles, and from there into the row; that only one task holds the row keeps
  another one from overwriting it.
- *`CustodyProofs`.* A task `Keeps` a delivery up to the first settling command and
  is `Closing` it up to the last one that matters; the invariant `Kept` says that
  one task at most does either, and relates that to the two sets (`Leased`), to
  the hash and its time to live (`Known`), to what a retry has listed or a verdict
  has written (`Found`), and to the clock (`Timed`). A quarantining task whose
  pipeline was cut keeps nothing: its delivery may be another one's by now. What
  one step of one task may do is proved once (`TaskMoves`, `SetsInTask`,
  `HashInTask`); deliveries a step leaves alone follow from `Lapse`.
- *`RedisPromiseProofs`.* Four invariants on top of `Kept`. `Ordered`: until a
  pipeline is cut or overtaken, who holds a delivery is alone with it, its attempt
  number is the one after the counter, and a delivery that is written off is
  nobody's. `Punctual`: each due time that is set, or listed and about to be, is in
  the past, or the delivery is listed no earlier and nobody is on the way to
  posting it. `Bounded` pays for each POST as `Spending` does, with the claims that
  overtook a pipeline among what is paid with. `Evidenced` follows the numbers that
  tasks carry through a pipeline: the list leads each of them, and they differ by
  no more than the claims that overtook one another. Finding it corrected
  `LogLeads`: with three replicas the counter may be ahead of the list, by one for
  each overtaking claim, which the two replicas of `RedisReplicas` never show.
- *`IngestProofs`.* `Kept` says that every event past its fan-out owes nothing to
  the subscriptions active since it was appended; it needs no exclusive claim, for
  two ticks that fan out one event only enqueue more. `Held` adds that an event in
  a tick's hands is claimed exactly since that tick's reading, which makes a stale
  claim impossible while its tick is timely.
  `Accounted` counts events that are parked, or about to be, against failures;
  `Bounded` allows an event whose fan-out is not over one delivery less, so that
  only a step that makes a tick forget a fan-out may be followed by another one.
- *`SubscriptionProofs`.* `RowInv` counts the secrets (each new one is larger, none
  is held before it was told) and says that without overlapping calls at most one
  Redis call is between its read and its write; `Gone` describes what is left of a
  deleted row; `Recent`, `Promises` and `Follows` relate the last rotation to the
  row, to the windows promised, and to what sends under way have read.

**Only model-checked.** Liveness (`EventuallySettled`, `EventuallyIngested`): it is
out of this prover's reach, as is `ENABLED`. Every other property of a passing run
is a theorem, under the assumptions above.

## 6. Not modelled

- **Event bus fan-out.** An in-process twin of the ingestor driven by an optional
  library that is not in the repository; it keeps no state of its own.
- **URL guard.** A classification of addresses without state. Its verdict at each
  moment (creation, fan-out, send) is a free choice in `Dispatch` and `Ingest`, so
  that every combination of verdicts is covered; nothing is promised that relates
  them.
- **HTTP API and wiring, formatting** of payloads, headers and signatures: object
  construction, pure I/O and data.
- **Custom signers**, which sign with the current secret only.
- **Reads** that decide nothing (`get`, `list_for_owner`, `recent_for_subscription`),
  and calls that nothing in the repository makes (`purge_sent`,
  `dead_unnotified`, `ack_failure_notification`).

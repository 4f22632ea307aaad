# A TLA+ model of boilerplate-python-fastapi

The repository is a FastAPI service template whose weight lies in hand-written
concurrency and reliability components: a Redis lock, circuit breakers and bulkheads
around outbound HTTP, idempotent requests, Kafka consumers with a dead-letter ladder,
Redis Streams consumers, a transactional outbox, refresh-token families, websocket rooms
and event streams. Their unit tests run one schedule at a time. The modules here explore
all schedules of small instances with TLC. For instances of every size TLAPS proves the
safety properties of the lock, the idempotency key, the transport, the outbox, the stream
and the retry ladder, and of sessions, tenants, fencing, row locks, encrypted rows, objects,
payments and webhooks.

Source paths below are relative to the application package `src/`. `PROJECT.json` gives
for every definition the lines it models, and lists the parts of the system, the runs, the
mutants, the hazards and the theorems.

## The system and what is modelled

| part | source | module |
| --- | --- | --- |
| distributed lock: acquire, lease, renewer, exit; the store's scripts | `distributed_lock/` | `DistributedLock` |
| circuit breaker of one origin | `resilience/circuit.py` | `CircuitBreaker` |
| bulkhead of one origin | `resilience/bulkhead.py` | `Bulkhead`, abstractly `FifoSemaphore` |
| retry loop that composes the two | `resilience/transport.py` | `ResilientTransport` |
| idempotency keys: middleware and Redis store | `middleware/idempotency.py`, `idempotency/` | `Idempotency` |
| broker contract: logs, groups, offsets | `kafka/base.py`, `kafka/memory.py` | `MessageBroker` |
| consumer loop | `kafka/runner.py` | `ConsumerRunner` |
| retry tiers, dead-letter topic, replay | `dlq/` | `RetryLadder` (over the two above) |
| transactional outbox, its relay, the event bus it feeds | `outbox/`, `events/`, `main.py` | `Outbox` |
| Redis Streams groups | `redis_streams/` | `RedisStreams` |
| fencing tokens and the resources that check them | `distributed_lock/base.py` | `Fencing` |
| refresh-token sessions | `auth/`, `repositories/refresh_token.py` | `Sessions` |
| websocket connections, rooms, inbound budget | `ws/`, `api/v1/ws.py` | `Rooms`, `RateLimits` |
| server-sent events | `sse/`, `api/v1/events.py` | `EventStreams` |
| streamed exports | `streaming/`, `api/v1/exports.py` | `Exports` |
| process pool | `parallel/cpu.py` | `CpuPool` |
| bounded gather, task scopes, protected sections | `parallel/io.py`, `structured/` | `TaskScopes`, `Protection` |
| `@cached` over `@retry` | `decorators/` | `CachedCalls` |
| readiness | `health/` | `Readiness` |
| row locks, deadlock retry, optimistic updates | `locking/`, `concurrency/`, `users/` | `RowLocks` |
| tenants | `tenancy/` | `TenantScopes` |
| encrypted columns and key rotation | `encryption/` | `KeyRotation` |
| payment gateways | `payments/` | `Payments` |
| signed webhooks, sender and receiver | `webhooks/`, `notifications/webhook.py` | `Webhooks` |
| object storage | `storage/` | `Objects` |
| mail and notifications | `tasks/`, `notifications/`, `auth/router.py` | `Mail` |
| the life of a process | `main.py`, `observability/` | `Lifecycle` |

How the parts interact: the transport passes every attempt through the breaker and then
the bulkhead, and settles both whatever way the attempt ends. The dead-letter handlers wrap
the application's handler inside the consumer runner, so whether a record is committed,
read again or routed onward is decided by two modules together. These two compositions are
modelled as such. The relay delivers to the bus of its own process, and whether a delivery
counts depends on the subscribers registered there, hence on the order of start-up and
shutdown in `main.py`: `Outbox` has all three, and `Lifecycle` has the whole start-up and
shutdown of one process after another. `Mail` follows a registration from its transaction
through route, relay, subscriber and worker; `Webhooks` joins the sender of a notification
with the receiver's verifier; `Protection` a protected section with the deadline around it;
`CachedCalls` the cache with the retries below it; `Exports` producer, queue and body. The
other parts meet only in Redis or PostgreSQL, under keys and rows of their own, and are
checked one by one.

## Modules, state and actions

**`DistributedLock`**. One name. `heldToken`, `heldUntil`, `counter` are the key and the
fence counter in the store; `net` holds commands that were sent and not yet run. A client's
`main` is the await its task is at (acquire, backoff sleep, body, awaiting the renewer,
release), `renewer` the same for the renewal task; `leaseToken`, `leaseExpires`, `lost` are
the fields of the object. A command and the reading of its answer are separate steps. A
client can be told of a failure, be cancelled or crash while its command is in flight, and
the command may run later with nobody waiting. `StoreAcquire`, `StoreExtend` and
`StoreRelease` are the Lua scripts.

**`CircuitBreaker`**. Every method is synchronous and one step. Generations are only
compared for equality with the current one, so `fresh` replaces the counter; the open
period is kept as the time left of it. No bound is needed.

**`Bulkhead`**. `waiters` is the deque, `slot[t]` what task t's future says: waiting,
handed, cancelled, failed. Hand-off, cancellation of the wait and the task's resumption are
separate steps, which is where the races are. `FifoSemaphore` is the specification a caller
relies on: a counting semaphore with a bounded queue that serves in arrival order, which it
keeps as the relation `ahead` between those who wait; `ImplementsSemaphore` states the
refinement.

**`ResilientTransport`**. `pc` is the await of `handle_async_request`; one action for each
way a send can end (success, failure status, transport error before or after the request
was sent, pool exhaustion or cancellation), the response body that holds its slot until it
is closed, the backoff. Delays are abstracted to "may be too long".

**`Idempotency`**. One key. `record` and `ttl` are the Redis value, `late` the command a
request left behind when it stopped waiting. Payloads are model values: what
`request_fingerprint` tells apart.

**`MessageBroker`, `ConsumerRunner`, `RetryLadder`**. Logs, committed offsets, group
members and positions; the batch in hand, the record in hand, stalled partitions, the
cycle's completed offsets; then the ladder: headers of a record as a record of their
decoded fields, routing, deferral until due, unreadable envelopes, replay. `Drained` is what
a poll returns of a partition, when the partitions before it leave room. A publish is two
steps, landing in the log and the publisher learning of it; losing the second is a fault.
Due times are kept as the time left. `MaxFaults` bounds cancelled or killed runners, failed
publishes and commits, and handler timeouts.

**`Outbox`**. `row` is a row as other transactions see it. `ready` lists the available rows
in the order the claim reads them, `wait` is the time until the others join it; timestamps
are compared and nothing else, so they are not kept. `now()` is the start of a transaction,
so a row may join the list ahead of rows that became available while its transaction ran,
and the backoff of a failed row counts from the batch's start (`seen` is what was available
then). A relay's `batch` is its open transaction: the rows it has locked, the `verdicts`
written so far, and the subscribers still `running` on the row in hand, which end, fail or
are cancelled one by one. The jittered backoff is any delay up to `MaxDelay`, zero included;
`attempts` only raises its ceiling and is left out. `got` and `excused` are history.

**`RedisStreams`**. `entries`, `lastDelivered`, `pel` are the stream, the group's position and
its pending list (owner, idle time, delivery count); a consumer's `streamPc` is the command
it awaits. The server's commands are those of the in-process server the repository keeps for
its tests. An append trims from the old end (`Trims`), in the dead-letter stream as in the
other. `undecodable` entries have a field name that is not UTF-8: a claim or a read that
includes one fails as a whole, after the server has counted the delivery (`DecodeFails`). A
command whose caller failed, was cancelled or died has run or never runs: a command that runs
later, after its consumer has come back, is not modelled.

**`Fencing`**. A store that mints tokens, claims that end at any time, a row whose UPDATE
compares the token, and a second resource behind `require_fence` in which the comparison and
the write are two steps.

**`Sessions`**. A request is a transaction that reads what is committed, locks what it
updates and commits or rolls back; each statement is a step, so that refreshes and logouts
of one grant meet between any two. **`RowLocks`** has transactions that lock rows in any
order, wait, deadlock, retry or skip, and the If-Match check followed by the version-guarded
UPDATE. **`TenantScopes`**: the tenant a request resolved, the one a task inherited, the one
a transaction is bound to and what a pooled connection keeps.

**`Rooms`**. Handling a frame has no await and is one step; the writer is the other task.
`joined` and `roomMembers` are the registry's two indexes, `outbound` the bounded queue in
which one place is reserved for the stop marker. `RateLimits` has the two token buckets, the
advice given with a refusal, and the count of consecutive violations. **`EventStreams`**: a
subscriber's bounded queue, the read kept pending across heartbeats, the overflow and
closing markers. **`Exports`**: rows read, the chunk being filled, the queue, the body and its
terminal record.

**`TaskScopes`, `Protection`, `CpuPool`**. A cancelled task is "cancelling" until it ends, in
whatever way; one may also end cancelled though nobody in the group cancelled it ("quit").
`cancelling` counts requests as asyncio does. `finalize` runs in an `except` or `finally` block,
so `inFlight` is what its caller unwinds, a cancellation included; the caller may await once more
on its way out, or raise at once, as the idempotency middleware and the two runners do. A call of the pool is its wrapped
future and, apart from it, the job in the worker, since a cancelled future does not stop the
job.

**`CachedCalls`, `Readiness`**. Lock objects have identities, so that a dropped and recreated
lock is told from the old one. A readiness run is shared by the requests that meet it, and a
report is stamped when its run ends.

**`Payments`, `Webhooks`**. Requests in flight may be executed late, twice or never. The provider
is external. It executes a request with a key it does not know (`Make`), answers one with a key
it knows (`Replay`: with the answer it kept, as Stripe does, or with how things stand, as PayPal
does), and may forget a key at any time, as Stripe does after 24 hours. Payments and refunds are
each under way, settled or void, and known by the number of the request that made them. Whether
the balance allows a refund is the provider's to say. Amounts go through the decimal strings of
the wire; a status word is mapped as the gateway maps it.
A signature is what was signed and with which secret; the receiver's window check and its
replay claim are two steps.

**`Objects`**. On disk a name refers to an inode and a writer keeps the one it opened; a write
is two halves. **`KeyRotation`**: replicas at different steps of a rotation share a row.
**`Lifecycle`**: the statements of the lifespan between two awaits are a step, the relay moves
at every await; `open` are the pools in use, the database engine's among them. **`Mail`**: the
welcome task queued by the route and by the subscriber, Celery's retries and redelivery, and an
in-process notification. A worker that dies as a whole leaves its task to be redelivered; one
whose child is killed acknowledges the task, since `task_reject_on_worker_lost` is not set.

`OutboundTasks` declares the tasks that breaker and bulkhead share. `MC*` modules give
symmetry sets and the constants a configuration cannot write. `MCLive` and `MCServices` put
parts that share no state behind one specification: a rigid variable `part` says which part
a behaviour is about, the others stay in their initial state. So every part is explored with
all its interleavings, and no two are interleaved with each other.

## Runs

| run | checks | instance, states |
| --- | --- | --- |
| `lock` | exclusion, backed leases, honest exits | 2 clients, ttl 2, clock to 3, 2 grants, 1 abandoned command; 0.7M |
| `lock_live` | every acquire ends, but for a call that is never answered; every message of a stream settles, but for hung consumers and undecodable entries; none is lost | 2 clients, no renewer; 2 consumers, 2 messages, streams trimmed to 1, 1 fault; 0.33M |
| `lock_cancel` | a cancellation reaches the caller: **violated** | 1 client |
| `transport` | no leaked probe or slot, FIFO semaphore, probe limit, safe repeats, nothing held in backoff | 3 tasks, 1 slot, 1 probe at a time, 2 attempts; 1.7M |
| `transport_probes` | the probe limit with 2 probes at a time: **violated** | 3 tasks, 3 slots |
| `idempotency` | one execution per live record, conclusions, replays, stored responses | 3 requests, 2 payloads; 1.8M |
| `retry_ladder` | nothing dropped, attempts made, all settles | 1 record, 1 tier, 1 replay, 1 fault; 0.14M |
| `consumer_group` | nothing dropped, offset order through rebalances | 2 members, 2 partitions, 3 records, 1 fault; 0.8M |
| `outbox` | delivered to all before deletion, nothing uncommitted seen, repeats explained, poison rows starve nobody | 2 processes, 2 subscribers, 3 events of which 2 undecodable, batches of 2, 2 faults; 0.37M |
| `services` | the properties of the other nineteen parts, below | two or three actors of most kinds; 1.9M |
| `object_torn` | a reader finds whole objects: **violated** | 1 key, 2 threads |
| `replay_key` | a replayed record keeps its key: **violated** | 1 record without key and value |

The properties of `services` gather what its parts promise:

* `DeliveryIsHonest`: the room indexes agree and nobody gone is a member
  (`RoomIndexesAgree`); a connection misses no message without being ended (`NoSilentGap`);
  an event stream has everything published since it was ready, or ends in `overflow`
  (`StreamIsHonest`); an export that ends as complete is complete (`ExportIsHonest`).
* `DataIsKept`: no lost or doubled update (`NoLostUpdate`), no write of an older lock holder
  after one of a newer (`StaleWritersAreFenced`), objects are whole (`ObjectsAreWhole`), encrypted rows readable
  throughout a rotation (`RotationKeepsRows`).
* `AccessIsBounded`: an answered logout or detected reuse has revoked the tokens that the grant
  had when its family was selected (`GrantIsRevoked`); a tenant's rows are seen and written for that tenant alone
  (`TenantsAreIsolated`).
* `WorkIsOwned`: no task outlives its scope (`NothingOutlivesItsScope`), a protected section
  ends, a single cancellation is honoured after `protect` as what it was, and `finalize` replaces
  what its caller unwinds by nothing but a cancellation that arrived (`CleanupFinishes`), slots and executors of
  the pool are neither lost nor doubled (`PoolRecovers`).
* `AnswersAreRecent`: one call per missed key and no answer older than an invalidation
  (`MissesCollapse`), a bound on the age of a readiness answer (`ReadinessIsRecent`), and a
  client that waits as long as it was told is admitted (`AdviceSuffices`).
* `EffectsHappenOnce`: what was charged or refunded twice had a key that the provider forgot in
  between, and a reported success has settled (`ChargedOnce`); one acceptance per signed delivery
  (`AcceptedOnce`).
* `EventsSurvive`: no event is spent on an empty bus, and shutdown leaves nothing behind but the
  database engine's pool (`NoEventIntoAnEmptyBus`, `OrderlyShutdown`); a registration gets its
  welcome unless a worker's child is killed with it, a notification is reported as it went (`WelcomeIsKept`, `NotificationIsHonest`).

`PROJECT.json` names one mutant for each of these; the modules hold one for every conjunct.

Why the bounds are enough. Two lock clients with two grants are the least in which an
expired owner meets its successor, and a clock of 3 with ttl 2 lets a lease be granted,
extended, expire and be granted again. Three tasks on one slot give a holder, a waiter and
a newcomer, which the hand-off races need; two attempts give one retry. Three requests on
one key give an executor, a retry after expiry and a latecomer with another payload. One
record with one fault goes through every tier, the dead-letter topic and a replay; two
members on two partitions exercise every rebalance in the middle of a batch. Two undecodable
rows can fill a batch of two for ever, which is what could starve the third, and two faults
are a failed subscriber and then a crash or a shutdown. Two consumers with two messages, one
fault and a delivery cap of one give a claim from a consumer that is slow, lost
acknowledgements and a dead letter. In `services` the actors of a kind are two where the
hazard is a race of two (requests, threads, writers, replicas, receivers) and three where a
third matters (callers of a pool with two slots, tasks under a limit of two); one caller
with three requests charges, loses the answer and repeats before or after the key has lapsed, or
refunds and repeats (two callers with two requests, 0.76M states of `Payments` alone, were
checked apart, with the same result); queues hold one item, so that the second overflows;
clocks run past the shortest ttl. Rooms have two connections there, so a broadcast reaches one member besides its sender: three connections
in one room (0.56M states of `Rooms` alone) take TLC too long as a part of the sum, and were
checked apart, with the same result. TLC reports the actions of `services` and `lock_live`
by part; run by themselves under the same constants, the parts take every action of theirs
(those of the lock's renewer in `lock`). Every property
has a mutant, a plausible slip in one definition, that TLC catches within the same bounds.

Deadlock is checked for the transport and the idempotency key. In the other runs the bounds
(clock, grants, records) really end the behaviour.

Fairness. `lock_live`: the clock advances and the event loop resumes a ready task. Nothing
obliges a body to end, or Redis to grant or to answer: the clients that `from_url` of the lock
backend and of the stream group make have no socket timeout (only the health checks' have one,
`health/wiring.py:165`). So `AcquireTerminates` makes an exception of a call that is never
answered, and `StreamSettles` of consumers that all wait for ever for one answer. For the stream
besides: `handler_timeout` bounds every handler, backoffs are bounded, time passes, and a
supervisor starts a process that went away; handlers may fail for ever. `retry_ladder`: the loop's steps and the broker
proceed, time passes, and a runner that went away is started again by its supervisor;
handlers may fail for ever and faults need not happen. `outbox`: the database's clock runs, a
process that went away is started again, and a batch is carried on to its commit
(`dispatch_timeout` bounds every handler); no request has to publish and no fault to happen.

### Disagreements found

* `lock_cancel`: `_stop_renewer` swallows any `CancelledError` of its await, so a
  cancellation of the caller that arrives there is lost, against the comment at
  `distributed_lock/lock.py:350`. The `stop` methods of the Kafka runner, the outbox relay
  and the Redis Streams runner have the same shape.
* `transport_probes`: a probe of an earlier half-open period gives back a place of the
  current one; with `half_open_max_calls` of two or more, more probes pass than it says
  (`resilience/base.py:285`). With the default of one the limit holds (run `transport`).
* `replay_key`: the flag that keeps a record with a synthetic key from being replayed is
  stripped on its second hop (`dlq/router.py:339`, `docs/dead-letter-queue.md:263`).

* `object_torn`: two puts of one key through `LocalStorage` share a temporary file, and one
  renames into place what the other has just truncated (`storage/local.py:61`,
  `docs/storage.md:103`). `list_keys` also lists that file while it exists.

More were met while modelling. The first five are stated in their modules, next to the
properties that do hold, and TLC refutes them under the constants of `services`:

* `EndedGrantIsDead` (`Sessions`): a refresh that commits after a logout has read the family
  leaves a live token, although revoking the family is said to be the answer for it
  (`auth/service.py:300`).
* `WorkWithinCapacity` (`CpuPool`): a caller that is cancelled frees its slot while its work
  runs on, against "The slot is released when the *work* ends" (`parallel/cpu.py:465`).
* `TerminalCountsBody` (`Exports`): when the budget ends during a put, the chunk is counted
  and not sent, and `records` of the `failed` line is too high (`docs/streaming.md:111`).
* `NoCancellationSwallowed` (`Protection`): when a deadline and a cancellation from outside
  both arrive, the second is forgotten, against "Neither swallows a cancellation."
  (`structured/cancel.py:56`). It also fails after `finalize` for a caller that re-raises
  without a further await: the exception leaves, the task does not end cancelled, and the
  request only stays counted on it, where `structured/cancel.py:200` says that "the task is still
  reported as cancelled either way".
* `HoldKeepsWriting` (`Fencing`): `fence_is_current` compares strictly
  (`distributed_lock/base.py:333`), so the second write of one hold is refused, as its docstring
  says. `Lease.renewed_for` (`distributed_lock/base.py:224`) and `docs/distributed-locking.md:126`
  say that a resource "keeps accepting" the writes of a hold, and `docs/distributed-locking.md:64`
  that it refuses "anything lower". `StaleWritersAreFenced` is what both readings promise.
* `AcceptedOnce` (`Webhooks`) is checked with the default settings' ratio, a guard that
  remembers for three tolerances. With two, the least that the constructor takes and calls
  enough (`webhooks/verifier.py:67`), TLC refutes it: a delivery first seen at the early edge
  of the window is accepted again at its last instant, when the claim has just ended.
* A registration queues its welcome mail twice, from the route (`auth/router.py:34`) and from
  the `email.welcome` subscriber of the event it publishes.
* An acquire may outlast `wait_timeout`: the deadline is looked at between calls to the store,
  and a call has no timeout of its own.
* "one bad message must not hold up the others" (`docs/redis-streams.md:228`): an entry that
  cannot be decoded is never handled and never dead-lettered, and as long as it is pending every
  claim that includes it fails for the others too.
* The dead-letter stream has the `MAXLEN` of the main one (`redis_streams/redis_group.py:344`),
  so a later dead letter may push an earlier one out.
* "calling twice with the same reference and amount charges once" (`payments/base.py:411`) holds
  for as long as the provider remembers the key, with Stripe 24 hours (`payments/stripe.py:15`).
* A task that ends cancelled by itself makes `gather_bounded` with `CANCEL_REST` raise
  `CancelledError` although nobody cancelled its caller (`parallel/io.py:184`).
* `task_acks_late` (`worker.py:31`) repeats the task of a worker that died, and not of a child
  that was killed.
* The lifespan closes every pool but the database engine's (`main.py:88`, `database.py:12`).

## Proofs

Each theorem has the form `Spec => []Inv`, an action property, or a refinement, for every
value of the constants that the named assumptions admit. The layout is the same throughout:
an inductive invariant, a lemma for each action with a step for each conjunct it can disturb,
and a last temporal step. The assumptions are what the constructors enforce (positive
lifetimes, limits and counts) and that the bounds of the model are numbers; `TLC` evaluates
them in every run. Each invariant was checked by TLC before it was proved.

| module | theorems about |
| --- | --- |
| `DistributedLockProofs` | `TypeOK`, `LeaseIsBacked`, `MutualExclusion`, `LossIsReal`, `CleanExitWasExclusive` |
| `RedisProofs` | `Idempotency`: `TypeOK`, `RunsOnce`, `ReservationsAreConcluded`, `ReplaysOwnPayload`, the action property `StoredIsKept`; `RedisStreams`: `StreamsTypeOK`, `StreamNothingLost` |
| `TransportProofs` | `SlotsConserved` and the refinement `ImplementsSemaphore`, of a compartment and of the transport; `TypeOK`, `NoProbeLeak`, `ProbesWithinLimit`, `RepeatsAreSafe`, `NothingHeldInBackoff` |
| `OutboxProofs` | `TypeOK`, `DeliveredToAll`, `OnlyCommitted`, `RepeatsAreExplained` |
| `RetryLadderProofs` | `TypeOK`, `AttemptsWereMade` |
| `LadderOrderProofs` | `InOffsetOrder`, `NeverDropped` |
| `PartsProofs`, `ServicesProofs` | `AccessIsBounded`, `DataIsKept`, `EffectsHappenOnce` |

**The lock.** Exclusion follows from two facts: a client that may still believe its lease
has the store's claim under the lease's token (`LeaseIsBacked`), and two clients never own
the same token. `LeaseIsBacked` is not inductive, because a lease comes into being when an
answer is read, long after the store decided. The inductive invariant `IInv` therefore adds
* `AnswersBacked`: an answer not yet read is worth what the lease made from it will be,
  measured from the instant the request was sent;
* `TokensBounded`, `TokensDistinct`: tokens come from the counter, and a token has one
  owner, counting answers not yet read;
* `RequestsConsistent`: a release in flight carries a token nobody relies on any more, and
  a command somebody waits for has not been answered;
* `PhasesConsistent`, `TimesConsistent`: where a lease, a renewal and an instant can exist.

What an exit reports needs more, `OutcomeInv`: the store refuses an extend or a release only
after the lease has run out (`RefusalsAreReal`), which rests on a release in flight being
backed until then (`ReleasesBacked`) and unique (`ReleasesDistinct`); and once somebody else
was granted the name, the claim never again carries the token of the overlapped section, so
that its release is not confirmed (`OverlapsAreFinal`).

**The idempotency key.** That two requests do not execute at once rests on each of them
owning the one reservation. `RecordInv` says who does: a request that executes, completes or
releases, or whose command to do so is still under way (`LeftBehind`, `OwnersConclude`,
`ConcludersOwn`). Reservations that ran out and records of an earlier release are the two
excuses the properties name.

**Bulkhead and transport.** A slot is handed on rather than lost because the deque holds every
waiting task, once, and otherwise only cancelled ones (`QueueConsistent`). With the order of
the deque as `ahead`, every step of the compartment is then a step of the semaphore or a
stutter. In the composition the place of a task in `handle_async_request` fixes which slot and
which call of the breaker it has, from which the other invariants follow.
`ProbesWithinLimit` has the hypothesis `HalfOpenMaxCalls = 1`, the default: for larger values
run `transport_probes` refutes it.

**The outbox.** `RowsInv`: which rows the list of available rows holds. `RelayInv`: a relay's
transaction holds available rows, each once, none that another holds. `DeliveryInv`: what the
outcomes written so far stand for, and where the one delivery of an undisturbed event is
accounted for. The events are a finite set (`EventsFinite`).

**The stream.** `ServerInv` is about the server's books: what is no longer in the stream was
given up, and without a group everything was. `CycleInv` is about the runners: what a cycle
will acknowledge was handled or copied aside first, and a copy is still in the dead-letter
stream or was trimmed from it; and a consumer about to be removed owes
nothing.

**The ladder.** `TypeInv`: offsets that a runner kept across an await stay inside logs that only
grow, and a record's headers count no more attempts than handlers have failed. `OrderInv`:
everything before an offset that a group has committed, earned or reads next was dealt with.
`KeptInv`: the copy of a record in a runner's hand has more attempts than the record, so it is
another one than the runner is done with next. `InOffsetOrder` and `NeverDropped` have the
hypothesis `~Latest`: a group with `auto_offset_reset = "latest"` starts at the end of its
topics and skips what is before it.

**The services.** `PartsProofs` has an invariant for each of eight components, `ServicesProofs`
puts them together: a step of one leaves the others alone.
* Sessions: what a request presents was issued, and what it knew of its grant is revoked or
  among the rows it has chosen to revoke. Tenants: a connection in use is bound to the tenant of
  the open request that uses it, one in the pool to none.
* Fencing: no lease is above the last token minted, and the claim is that token or gone. Row
  locks: only a worker that is locking has locks and its session holds what those rows hold; the
  i-th accepted patch was made from version i.
* Key rotation: a replica is at most one step behind the rollout, and what is sealed at a step
  can be opened at the step and the one before. Objects: a key has one writer, or its puts have
  overlapped; alone, a thread finds in its temporary file what it has written, and that file is
  no object's yet.
* Payments: a request has a number of its own and carries the key of its operation, and different
  operations have different keys; what the provider made is under a key that it remembers, then
  once, or that has lapsed; a reported success is of what settled. `PowersOfTen`
  states the arithmetic of `10^n` that the provers lack; TLC evaluates it. Webhooks: what was
  let through to the guard was fresh a short while ago, and an accepted delivery is remembered
  past the last instant at which it could be claimed again.

`EffectsOnce` says nothing of how long the provider remembers a key, only that what was done
twice was done on both sides of its forgetting. It has the hypothesis `ClaimsOutlast`, that the guard remembers for longer than the
window and the latency of a claim together. The default settings satisfy it; for the least
value that the constructor takes the property fails (see above).

Only model-checked. Liveness (`AcquireTerminates`, `StreamSettles`, `EverythingSettles`,
`PoisonDoesNotStarve`): the prover has no rule for fairness. Of `services`: the types, and
`DeliveryIsHonest`, `WorkIsOwned`, `AnswersAreRecent`, `EventsSurvive`; the first and the third
are about what is left of a sequence after filtering or eviction, a recursion over data that
the prover cannot unfold.

## Not modelled

* Redaction: pure rewriting of log values by patterns. String matching is outside what a
  model tells apart.
* Exporters, instruments and log formats of `observability/`; of this package only its place
  in the life of the process is modelled.
* Of the application shell: settings validation, error bodies, security headers, pagination,
  documentation routes. They are functions of one request or of the settings.
* Syntax at the edges (frames, headers, envelopes, NDJSON lines, key grammar), cryptography
  and password hashing: a message is well formed or not, a signature verifies or not.
* The synchronous variant of `@cached`, the password-reset task, listing of objects, the
  payment registry: the same shape as what is modelled, or a single call.
* The event bus's handlers that publish themselves, and unsubscription at run time.

## Plan

Theorems for `WorkIsOwned` and `EventsSurvive`, whose components have finite control and whose
invariants are nearly inductive as they stand, and for the room indexes (`RoomIndexesAgree`).
An abstract specification beside the semaphore: at-least-once delivery, which outbox, stream
and ladder each implement.

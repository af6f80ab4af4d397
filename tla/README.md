# Verification of ctech-go-common

TLA+ models, TLC checks and TLAPS proofs for the Go packages of this
repository. The packages are libraries that services link in; what is hard in
them is what happens between several processes, requests and deliveries, and
that is what the models are about.

`PROJECT.json` lists every component, run, mutant, mapped source line, finding,
hazard and theorem.

## Inventory

| part | state | operations | interacts with | hard behaviour |
|---|---|---|---|---|
| `erasure` state store | one record per user and organization in DynamoDB (state, request, seq), a per-process memory of `Blocked` | `ApplyChanged`, `put`, `Blocked`, `Clear`, `Relink` | consumer, request handlers, TTL deletion | lost races, repeated writes, stale reads and stale memory |
| `erasure` consumer | the message in hand, the queue, acks | `Run`, `handle`, `locked`, `AckClient.Send` | store, the service's purge, ctech-account | duplicates, reordering, crash between two steps of an erase |
| `erasure` messages | none | `Validate`, `Decode`, `Targets`, `WorkspaceIDs`, `KindOf` | consumer | envelope and field combinations |
| `ttlcache` | bounded map with expiry | `Get`, `Set`, `Delete` | erasure, jwtverify, authguard, resilient | flush at capacity |
| `lock` | lease per key in Valkey, tokens per process | `Acquire`, `AcquireOrdered`, `Renew`, release, heartbeat | supervisor | expiry while held, two holders in one process |
| `supervisor` | workers, leader lease, wait group | `Run`, `loop`, `attempt`, `Shutdown` | lock, drain | leadership lost while running, shutdown against start |
| `drain` | connections, draining flag | `Register`, `Unregister`, `Drain` | supervisor, ws | register against drain, replaced ids |
| `idempotency` | claim or answer per key, with expiry | `Claim`, handler, `Complete`, `Release` | DynamoDB, the caller's retries | crash after the effect, lease outlived, store unreachable |
| `resilient` | breaker per host, retry loop, negative cache | `admit`, `record`, `abandon`, `RoundTrip` | every HTTP client | slow calls reporting late, one probe only |
| `ratelimit` | counters, blocks, buckets | `Incr`, `Check`, `Fail`, `Reset`, `Unblock`, take | Valkey | window ending between two commands |
| `authguard` | cached values, loads in flight, generation | `Get`, `run`, `Forget`, `Invalidate` | ttlcache, loaders | a load started before an invalidation |
| `jwtverify` | key set, throttle, revocation memory | `keyForKID`, `refreshForUnknownKID`, `checkRevoked` | cache, resilient, JWKS endpoint | rotation, outage, refresh races |
| `ws` | connections per key, draining | `Register`, `Unregister`, `Broadcast`, `Publish`, `Stop` | Valkey pub/sub | snapshot against re-register |
| `oauth2client` | token and expiry, local and shared | `Get`, `fetch` | cache, token endpoint | short-lived tokens, replicas |
| `dataexport` | none of its own | `Handle` | erasure consumer, S3, acks | upload done, ack lost |
| `dynamo` | items with a version | `UpdateVersioned`, `ConditionalUpdate`, pages | DynamoDB | lost races, filtered pages |
| `cache`, `health`, `byok`, `inter`, `accountorgs`, `oauthclients` | small | clients and backends | the above | see `PROJECT.json` |
| `problem`, `validation`, `patch`, `email`, `observability`, `awsconfig`, `deadline`, `alerts` | none | formatting, parsing, one call | | not modelled |

The properties that matter most: a deletion request is never reported done
without being done, never undone by a late message, never carried out on a user
who can still write; and, for the other packages, at most one holder, one probe,
one run per key, and nothing stale served past its bound.

Every safety property that a run checks on a small instance is also proved for
every value of the constants; liveness is model-checked only. The proofs of
erasure are in `ErasureTypeProofs` and `ErasureProofs`, those of the other
packages in six modules with a section per component:

| proof module | components |
|---|---|
| `OnceProofs` | `Supervisor` with `Lock` and `Leadership`, `Banking`, `BankLoops` |
| `WriteProofs` | `Idempotency`, `Versioned` |
| `RemoteProofs` | `KeySet`, `Revocation`, `Resilient` with `Breaker` |
| `SessionProofs` | `AuthCache` with `TTLCache`, `Tokens`, `Registry` |
| `StoreProofs` | `Pages`, `Backend` |
| `LimitProofs` | `Limiter`, `Bucket` |

Components that share no state are checked in one run by an MC module with a
variable `part`, which says which of them a behaviour is about. Each of them is
explored in full; only their initial states are shared.

## Erasure

### What the code does

ctech-account publishes `user.locked`, `user.unlocked`, `user.erase` and
`user.relinked` messages for a user. Each service runs a `Consumer` per process
over its own queue. `handle` applies lock and unlock messages to the service's
state table; for an erase it first applies a lock, then calls the service's
purge, writes a tombstone per organization and one for the user, and acks. The
table is changed by read, `apply`, conditional put, up to three times. `Clear`
and `Relink` reopen a tombstone when the user comes back. `Blocked` answers from
a per-process memory of ten seconds.

### Modules

- `ErasureState` is the pure part: records, `apply` (`Accepts`, `Outcome`), the
  reopening of `Clear` and `Relink` and the version condition of `put`.
- `Erasure` is the participant for one user. `table` is the DynamoDB table,
  `queue` the service's queue, `cons[p]` the local variables of `handle` and
  `ApplyChanged` in process `p`, `serve[p]` a request inside `Blocked` or
  `Clear`, `blocked[p]` the memory. `purged` and `acks` are what left the
  service. `sent`, `owner`, `returned`, `locks` and `hooks` are history that
  only properties read. Each network call is one action; the code up to the next
  call runs in the same action. The deferred `Delete` of `put` is an action of
  its own (`Settle`, `ClearSettle`) because requests run between the write and
  it.
- `ErasureTable` is the abstract specification: a table whose records change
  only by the atomic application of a published message, a user coming back, or
  a TTL.
- `ErasureInvariant` is the inductive invariant; `ErasureTypeProofs` and
  `ErasureProofs` are the proofs; `MCErasure` holds the small instances.

`issued_at` is a counter: every message has its own, larger than those before
it. The local clock of `Clear` is the newest `issued_at`, so clocks are taken as
synchronised. A message in the queue may be received by any idle consumer at any
time, several at once, until it is deleted; a message that is never received
stands for one that is lost or in the dead-letter queue. Bodies that do not
decode or that the exporter claims are not modelled.

`Expire` requires that every message still around is newer than the record it
deletes: active records live 30 days and tombstones for the longest retention,
longer than a queue keeps a message.

### Runs

All runs set `CHECK_DEADLOCK FALSE`: the publisher may have nothing more to say.

| run | instance | shows |
|---|---|---|
| `safety` | 2 consumers, up to 2 messages of 2 requests, 2 organizations, 1 failure | lock during purge, done acks, one hook per lock, organizations before the user, refinement of `ErasureTable` |
| `serving` | 1 process that consumes and serves requests, 3 messages of 1 request, expiring tombstones, 1 failure, fair | tombstones stay, also against `Clear`; the memory of `Blocked` converges; every erase is answered |
| `claimdone` | violation | see below |

Bounds: two consumers are the smallest number that races (in `serving`
the consumer races with `Clear` in another goroutine); three messages allow
an erase, what overtakes it and what follows it; one failure at any point gives
a crash or a lost response at each step. The consumers of `safety` are
interchangeable, hence its symmetry; the runs with liveness use none. The proofs
cover the rest. `EraseIsAnswered` is about one consumer, with `Clear`, an expiry
and a failure in its way; that two consumers do not keep an erase from each
other is not checked as liveness.

`claimdone` states a comment of the code that the code does not keep, quoted in
its finding. `DoneIsExplained` says what does hold. Three more such
disagreements were found and are not kept as runs; the passing properties next to
them say what holds instead:

- `Blocked` reads, then remembers, so a lock written in between by the same
  process stays unseen until the memory ages (state.go:212 against the comment at
  state.go:66): `BlockedConverges`;
- a late duplicate of an erase that was done purges again once a second request
  has locked the returned user (consumer.go:315 against state.go:223):
  `TombstoneStays`;
- the purge may run while a newer relink or unlock has reopened the user
  (state.go:92 against consumer.go:306): `PurgeUnderLock`.

Fairness: a consumer that holds a message goes on (`WF` on its next call, the
loop of `Run`); a message that stays in the queue is received again and again
(`SF`, what SQS gives until the retention ends); an entry of the memory ages and
a request inside `Blocked` finishes (`WF`). Failures are bounded by `MaxFaults`,
which says that a call does not fail forever. Nothing is assumed of the
publisher or of users.

### Proofs

For every set of processes, organizations, requests and messages and every
bound, from `StateAssumption` and `ErasureAssumption` (the sentinel is no value,
the user is no organization, servers are processes, bounds are naturals):

- `TypeCorrect`: types, and `Shapes`: what a process holds follows from where it
  is (for example, a consumer about to put has computed `next` from `cur`).
- `VersionsCorrect`: a record read earlier is the stored one or strictly older,
  also across an expiry. This is the invariant behind optimistic locking: from
  it follow `VersionSufficient` (the condition on `seq_ns` and `erasure_state`
  is enough), `OnlyNewerAlways` and `TombstoneAlwaysStays`.
- `LockAlwaysHeld`, then `PurgeAlwaysUnderLock`: an erase that was given the lock
  keeps the record at its own seq or later.
- `EvidenceCorrect`, then `DoneAlwaysExplained`: tombstones belong to purged
  requests, active records to unlocked or returned ones, in the table and in
  what consumers are about to write.
- `OrgsAlwaysDone`, then `OrgsAlwaysBeforeUser`.
- `TableImplemented`: `Spec => Table!TSpec`. A put that lands has the version it
  read, hence the record it read, hence is one atomic step of the table.

- `HookAlwaysPerLock`, for finitely many processes: moves to locked are at least
  the hooks that ran plus the consumers whose lock landed and that are still on
  their way to the hook.

Each layer is inductive relative to the ones before it; `InvariantAlways` is their
conjunction.
`EraseIsAnswered` and `BlockedConverges` are liveness and stay with TLC.

## Circuit breaker and retries

### What the code does

`retryTransport.RoundTrip` sends a request up to `attempts` times, with backoff,
if the request may be repeated. Each attempt goes through
`breakerTransport.RoundTrip`, which asks the host's `hostBreaker` (`admit`),
calls the host, and folds the outcome back in (`record`, or `abandon` when the
caller cancelled). `Failures` failures in a row open the circuit for the
cooldown; then one probe decides.

### Modules

- `Breaker` gives `admit`, `record` and `abandon` as functions on a breaker;
  each runs under the mutex, so each is atomic. `openUntil` is kept as `wait`,
  the time left.
- `Resilient` has the calls: `StartCall` and `Wake` make an attempt (admit, or
  return `OpenError`), `Report` is the transport's answer with everything up to
  the next backoff or the return, `Abort` a context that ends during it. `Tick`
  is time, `Flip` the host going down or coming back. Circuits of different
  hosts share nothing, so there is one host.
- The proofs are in `RemoteProofs`.

A retried 500 is not a failure of the host, as in `defaultIsFailure`. Whether a
request may be repeated is chosen at `StartCall`, as is whether the server's
`Retry-After` or the context ends the loop at `Report`. `IsFailure` is the
default one.

### Runs

The circuit is a part of `sharing` (below): two calls, three attempts, two
failures to open, cooldown 1 with maximum 3 (so that doubling meets the cap). Two
calls are enough for one that probes and one that is refused meanwhile or left
over from before the circuit opened; a third adds no new pair, and the safety
properties are proved for any number.

Fairness, for `Recovers`: time passes, the client's timeout
ends calls and backoffs, callers come back (`WF`). A call that is sent over and
over is not cancelled every time (`SF`): a caller who cancels each probe does
keep a circuit half-open.

### Proofs

For every set of calls and all `Failures`, `Cooldown`, `MaxCooldown` and
`Attempts` of at least 1 (`BreakerAssumption`, `ResilientAssumption`;
`withDefaults` replaces anything else): `TypeCorrect`, `ProbeSlotHeld`,
`ClosedRoom`, `CooldownBounded`, `SendsAtMost` and `ProbesClose`. The inductive
invariant `IInv` adds to the properties what a call holds in each place
(`CallsOK`: attempts and sends agree) and that only an open circuit has time to
wait (`WaitsWhileOpen`: without it the reset of the cooldown by a successful
probe could leave a wait longer than the cooldown). The lemmas `AdmittedSound`,
`RecordedSound` and `AbandonedSound` say what each breaker operation preserves;
`Moved` says when a step of one call keeps the slot and its holders in
agreement. `Recovers` is liveness and stays with TLC.

## Idempotency

### What the code does

The middleware of `idempotency.New` claims the key of a request with one
conditional put (`DynamoStore.Claim`) that holds for `Lease`, runs the handler,
and then either replaces the row by the answer for `TTL` (`Complete`) or gives
the claim back (`Release`). A request that finds an answer replays it, one that
finds a claim is refused. A row past its ttl counts as free whether DynamoDB has
deleted it or not.

### Module

`Idempotency` models one key; keys share no state. `row` is the row of the
table, `req[r]` a request inside the middleware. Each store call is an action
with the code up to the next call, and has a failing version in which the write
landed or not. The clock is read when a claim begins, so the condition and the
new ttl use a reading that may be old by the time of the write; times are kept
relative to now (`left`, `age`). The client of the table repeats a call whose
response is lost: a repeated claim meets itself and is refused, a repeated
completion writes the same row, a repeated release may meet someone else's
claim. `served`, `effects`, `late` and `repeated` are history.

A request outside the lease is part of the model: `late` says that the advice of
`DefaultLease` (longer than the slowest request) was not kept, and the
properties say what depends on it.

### Runs

`claims`: two requests that come again and again, with two fingerprints, one on
a route that fails open, final and other statuses, lease and TTL of 1, runs of
up to 2 (so that a lease can be outlived), two failures. Two failures are what
it takes to lose a claim and then a completion; the effect of an answer is counted
until the answer expires. Deadlock is checked. Fairness: time passes and a
request goes on (`WF`); nothing is assumed of the deletion by DynamoDB.

`twice` (`violation`, three requests) states the comment of `New` that
concurrent requests with one key run the handler once, with every request inside
its lease. A release that is sent again breaks it, because the condition of the
delete names no owner. `OneRunner` says what does hold.

### Proofs

`WriteProofs` proves `TypeCorrect`, `OneRunnerAlways`,
`RepeatsAlwaysExplained`, `AnswerAlwaysStays` and `ReplayAlwaysOriginal` for any
requests, statuses, lease, TTL, run time and number of failures, from
`IdempotencyAssumption` (the sentinel is no value, durations are naturals, 0 is
no status). The inductive invariant says, while nothing was late or repeated:
the row is the claim of the request that runs and its `left` is the lease minus
the age of that request (`RunnerHolds`), so no clock reading in use finds it
expired; an answer stored or about to be stored is the one served last
(`AnswerServed`); and there are at most as many final answers as failures, plus
one while an answer is live or about to be stored (`EffectsPaid`). The first half
of `AnswerStays` needs none of this and holds for late requests too.
`ClaimLapses` is liveness and stays with TLC.

## Lock, supervisor and drain

### What the code does

`Locker.Acquire` writes a fresh token under a key with SET NX and a TTL, and
remembers it; `Renew` and the release compare the token in the store.
`Supervisor.Run` starts a goroutine that takes the lease of the worker's name,
runs the worker under a heartbeat that renews the lease, cancels it when a
renewal fails, releases, and tries again. `Shutdown` cancels the workers and waits
for them; a drain tracker closes a supervisor that registered with it.

### Modules

- `Lock` has the store commands (`SetNX`, `RenewIfMatch`, `DelIfMatch`) and the
  critical sections of the token map as operators; `lease` is the store, `tokens`
  the map of each process.
- `Supervisor` makes steps of them: `pc[w]` is the goroutine of a worker, `hb[w]`
  its heartbeat. A command may fail with or without effect, a renewal may be
  carried out after the heartbeat was stopped (`late`), processes crash. `age`
  is history: the time since the store last granted or renewed the lease.
- `Leadership` is the abstract specification: a worker begins to lead only when no
  other of its name does.
- `LockOrdered` has callers of `AcquireOrdered` over overlapping keys.
- The proofs are in `OnceProofs`, the instance in `MCSupervisor`.

Not modelled: a supervisor without `Locker`, the lengths of the backoff, and
`Unregister` or a replacing `Register` of the tracker, which the supervisor does
not use.

### Runs

`leader`: two replicas, one key, TTL 2, one failure or crash, one late renewal, one
of the replicas managed by a tracker. Two replicas and one late renewal are the
least with which a lease is renewed by one who already lost it. `CHECK_DEADLOCK
FALSE`: everything may be shut down. Fairness: time passes, the goroutines of a
live process go on, a cancelled worker returns, a heartbeat fires (`WF`); nothing
is assumed of failures, crashes, shutdowns or of a worker that was not cancelled.
It checks `QuietAfterShutdown`, the refinement `ImplementsLeadership`, and the
liveness properties `LostIsNoticed`, `ShutdownEnds` and `Failover`.

`OneLeader`, which is proved, is about authority: a worker leads while the last renewal is younger
than the TTL. A worker that was cut off from the store may still be running for
the time until its heartbeat fails; `LostIsNoticed` says that it is cancelled.

`LockOrdered` is a part of `sharing` (below): two callers with the same two keys
given in crossed order, one failed call. `SomeoneGetsAll` (fair callers, time
passes) needs the sort of the keys.

### Proofs

For every set of workers, processes and keys, every TTL of at least 1 and any number
of failures, from `LockAssumption`, `SupervisorAssumption` and the premise
`Separate` (no two workers of one key share a process; a shared `Locker` keeps one
token per key, and a release would drop the other's): `SupervisorTyped`,
`LeadersHoldLeases`, `AtMostOneLeader`, `ShutdownIsQuiet` and
`LeadershipImplemented`. The inductive invariant `CoreInv` says that tokens are
unique (`Unique`), that a heartbeat carries the token of its worker (`Beats`), and
that what is left of the lease of a leading worker plus the age of its last
renewal is at least the TTL (`Outlasts`). `OneLeader` is not inductive without the
last: it is why the local age bounds what the store still grants.

## Auth data cache

`authguard.Cache.Get` answers from a `ttlcache` or joins the load of its key, which
runs in a goroutine of its own; `Invalidate` drops entries, detaches the loads that
are running and raises the generation, and a load stores only under the generation
it started in. `AuthCache` has these steps over `TTLCache`, which also
models expiry and the flush at capacity. A version stands for the data behind a
key; `forgot` and `floor` are history.

In `sharing`: two keys, two requests, two loads at once, one change, room for one
entry, TTL 1. One change is enough for a value that is older than an invalidation,
two loads for a detached one beside its successor; whoever waits for the detached
one still gets its result (`Joined`). Fairness: time passes, a load
ends (it has a timeout), and a request that has to start a load finds a free one
(`SF`; that loads are finitely many is the model's bound, not the code's).

`SessionProofs`, from `AuthAssumption` and `CacheAssumption`: `ForgetIsRespected`,
`LoadsAreLive`, `CacheStaysBounded` and `CacheTyped`, for all keys, requests, loads,
TTLs and limits. The invariant ties every stored value, and every load that may
still store or be joined, to the last invalidation of its key: a load that
is current started after it. `GetReturns` is liveness and stays with TLC.

## WebSocket registry

`Registry` has the connections of one key on one instance, broadcasts as a snapshot
and one write per connection, `Stop` with its drain, and the loop of
`RedisRegistry.listen` with its context and the valkey client under it. Connection
ids are unique: a connection registered again under the same id, which the failed
write to the old one would remove, is not modelled. In `sharing`: two connections,
one broadcast. `EveryoneTold` is what an overlap of broadcast, unregister and
stop could break, a connection that drops out of the registry included.

`Start` gives the loop a context of its own that a `Stop` made earlier does not
end; `Stop` may come again, also while the first is at work; the owner of the
client may close it at any time (`CloseClient`), and then `Receive` returns
`ErrClosing`. `Listens` says that a subscription once started is made again after
every end, clean or not, unless a `Stop` came after the `Start` or the client was
closed, and that it ends then. Fairness: the goroutine of `listen` runs, and
`Receive` returns when its context or its client ends; nothing is assumed of the
losses in between.

`NobodyForgotten` (in `SessionProofs`) is `EveryoneTold` for any number of
connections and broadcasts, without assumptions. The invariant `RegistryInv` adds
where an open connection is at each moment: registered until the drain begins, from
then on told or among those that `Stop` still has to tell. `draining` closes the
door exactly once, which is why a connection that comes later is told by `Register`
itself.

## Data export

`Export` has the consumers of one service that hold the messages of one export:
`Handle` with its checks, the build, the upload, the ack, and the deletion by
`Consumer.Run`. Account and S3 are external: a URL works until it dies, and then
account publishes another unless it got an ack. In `sharing`: two consumers, one
dead URL, one change of the data, one failed call or crash, and every kind of
message (good, too large, not S3, of another service). `ExportAcked`
(an export that was taken up ends with an ack of something stored) holds because a consumer goes on, a
message in the queue is received, and account republishes (`WF`); the end of a URL
is not assumed.

## The run `sharing`

`MCSharing` puts auth cache, ordered locks, registry, export and circuit into one run,
with the fairness of each limited to its own part. `CHECK_DEADLOCK FALSE`: the
counters that bound a part run out. No symmetry, because of the liveness
properties.

## Token verification

`KeySet` is `keyForKID` for concurrent requests: the set in memory, the shared
cache, the reload under `refreshMu`, the throttled forced refresh, a provider that
rotates and fails. `Revocation` is the list with its entries and the four checks
made against it: `VerifyClaims` with its memory, `VerifyClaimsStrict`, and the
middleware of authguard, read-open and write-closed. A tick is longer than any one
call: no request lives through two.

`RotationAlwaysSeen` (in `RemoteProofs`) holds for any number of requests and
rotations and any TTLs in memory and in the shared cache (`KeyAssumption`). The bound
`WithdrawWindow` is the two TTLs and one tick, and it is tight: a set may sit in the
shared cache for all of its TTL, be read in the last moment, and then sit in memory
for all of the other. The invariant `KeyInv` says of every place a set can be in how
long ago it was withdrawn at most: in the hands of a request that has fetched it, in
the shared cache (`since + left` is bounded, so ageing keeps it), in the hands of one
that has read it there, and in memory. It is this that an older set published over
a newer one would break.

`RemoteProofs` also proves `RevokedTokensRefused` from `RevocationAssumption`: an
entry outlives every token it refuses (`Life < RevocationTTL`: 15 and 20 minutes in
the code) and the memory lasts at least one tick. The invariant bounds what is
remembered, in the memory and by a check that has read and not yet stored, by the
moment of the revocation. Signatures, the parsing of claims, an entry that does not
parse and a verifier without list are not modelled.

## Rate limiting and lockout

`Limiter` has the counters on Valkey, with `Incr` as its two commands, the policies
that spend them before or after the handler, and `Lockout`. `MemoryCounter` is the
case in which nothing comes between the two. `Bucket` is the token bucket in whole
units, compared with one that never has to drop a key.

`expiry` (`violation`) states the comment of `Incr`, that seeding guarantees a TTL:
the window may end between SET NX and INCR, and INCR then makes the key anew without
one. It makes no difference whether SET NX created the key or found it. `BudgetKept` says what holds of the budgets,
`RetryNotEarly` of what a refused client is told: whole seconds by a policy, the
time left by `Lockout.Check` (`Hint`).

`LimitProofs` proves `BudgetAlwaysKept` and `RetryNeverEarly` for any limits and
windows of at least 1 and finitely many requests at a time (`LimiterAssumption`;
`Limiter` and `Lockout` are configured so). `BudgetKept` is not inductive: a request
that has passed the check and is not counted yet may still spend, so the invariant
counts the budget and the requests on their way to it together (`CountOK`,
`LockoutOK`), and it says on which key a request of each policy works (`Place`). For
`RetryNotEarly` a request that was refused carries a bound of what is left of the
window (`OpenOK`), which time keeps on both sides. `BucketInvariant` is
`NothingGained` for any keys, rate, burst and cap of at least one key
(`BucketAssumption`): only a bucket that is full again is dropped, and a key without
entry holds a full one.

## DynamoDB base

`Versioned` has the callers of `UpdateVersioned` with stale reads, collisions,
lost answers and writes that the AWS client sends again (`resent`), against unconditional writers of other attributes and a delete.
`Pages` has the queries, plain and filtered, and the cursors in both directions,
while items come and go and calls fail; a client asks again for a page it did not
get. What DynamoDB answers is given by what it must satisfy: any
ordered prefix of what follows the start key, no longer than the limit (`Evaluated`),
and of that what matches, in order (`Filtered`).

`WriteProofs`, from `VersionedAssumption`, for all writers and bounds:
`NoUpdateIsLost`, `NoIncrementIsLost`, `ConflictsWroteNothing`. The invariant
(`Behind`) says that a copy with the stored version and of the same creation of the
item is the stored item, as far as the versioned attributes go. `NoLostUpdate`
exempts one case, `crossed`: an item deleted and created anew reaches a version
that a writer had read before, which the condition cannot see. For
`ConflictWroteNothing` the invariant follows a writer through its attempts (`Honest`): one that
has written is done or in error, because `ConditionalUpdate` repeats only what
`isTransient` says never happened.

A difference not kept as a run: conditional.go says of `ErrVersionConflict` "Nothing
was written". A write that lands, loses its response and is sent again by the AWS
client fails its own condition; each further attempt may then lose to others, or find
its own change in place. `ConflictWroteNothing` exempts these writers.

`StoreProofs` proves `EachAlwaysListedOnce` and `BackAlwaysPageBefore` for every
partition, filter, limit of at least 1 (`ParseLimit` and `ClampLimit` see to that)
and page cap, and any number of changes (`PagesAssumption`). The invariant `ListInv`
says that the listing has come as far as the key it goes on from and no further: all
that it has is at or before that key, and everything there that matches and stayed is
in it (`Covers`). The cut of a full page keeps it because the cursor is made from the
last item returned and not from the raw key. `TrailInv` ties the two keys of the
cursors on screen, and of the one being followed, to the last two entries of the
trail.

`back` (`violation`) states the comment of `NewPageWithPrevious` that the previous
cursor "is null on the first and second page". The previous cursor itself carries no
key of the page before, so on a page reached through it there is none, and a second
step back leads to the first page. Four positions in pages of one are the least that
show it. `BackIsPageBefore` says what holds: a previous cursor that is not null is the
right one.

## Token manager and cache backends

`Tokens` has `TokenManager.Get` on replicas that share a cache, with tokens that
live shorter and longer than the margin. `Backend` has the memory backend with its
cap and `DeletePrefix` over a SCAN whose pages interleave with writes; that SCAN
returns every key that stays is what Valkey documents.

`TokensInvariant` (in `SessionProofs`) is `TokenStillValid` for any replicas and
lifetimes, if a reply and the write to the cache after it take less than the margin
and no token lives shorter than they take (`TokensAssumption`; `Delay` bounds the two
together: time passes while the reply is read and while `Set` runs). Every copy of a token
outlives its use by the margin less the delay (`Outlives`), and a reply on its way is
accounted for by how late it is (`OnItsWay`). `CapAlwaysHolds` and `PrefixAlwaysGone`
(in `StoreProofs`) hold for any keys, slots and cap of at least 1
(`BackendAssumption`): what the SCAN still owes are the old keys of the slots it has
not been to and of the page it found (`ScanInv`).

## Bank client

`Banking` has one charge, refund or payout with callers that repeat what failed,
against a bank that holds the truth and may lose a request or an answer. The bank
is external, and so is its deduplication by the id that callers send again: that
money moves once rests on the bank and on the caller, and no property here claims
it of the code. `ReportsHold` is about what the code makes of the bank's answers.

`BankLoops` has calls that loop: `Connect` and `ListCallbacks`. `Connect` is given an
integration with any set of ticked scopes and a right or wrong secret. The bank
refuses a request as a whole, or grants all of it or the part that is ticked, and may
fail in the ways `Inconclusive` lists; a code becomes an error as in `statusErr` and
`FetchToken`, and the error steps down or not as in `Connect`. Then the capabilities
are taken from what was granted, a connection without the statement's scope is
refused, and the balance is read.

`downgrade` (`violation`) states the comment of `Connect`, "Only a refusal steps
down". `statusErr` names every code below 500 that it does not list an invalid
request, a 408 among them, and `Connect` steps down on that. `NotDowngraded` says what
holds: with answers that have a name (`odd` is history for the others) an integration
is stored with every rung that is ticked; always with nothing that is not, and only
with the right secret; and a refusal is reported only when something is wrong.

`callbacks` (`violation`): `ListCallbacks` decodes each page into one variable, and
encoding/json writes the payloads of the next page into the bytes of the last, so
records already kept name the charges of another page.

`OnceProofs` proves `ReportsAlwaysHold` for any callers and amounts. The invariant
(`BankingInv`) says that a payment is never taken back and a removed charge stays
removed, and what each report implies of the bank's state. `NeverDowngraded` holds for
any set of optional products: unless an answer had no name, every rung above the
present one has a scope that is not ticked, or the secret is wrong (`ConnInv`).

## The run `services`

`MCServices` puts the ten modules above from `KeySet` to `BankLoops` into one run.
Its instance per part: two requests, checks, replicas, writers or callers that race;
windows and lifetimes of 1 to 5 ticks, so that every expiry falls between any two
steps; limits one below the number of keys, so that they are reached; five
positions in pages of two with one change, so that a page is cut by the limit, the
page cap and the filter. Requests are
interchangeable (`Permutations(Reqs)`), and it has action properties but no
liveness. `CHECK_DEADLOCK FALSE`: callers finish.

## What is proved and what is checked

Theorems cover every value of the constants that the assumptions allow; TLC evaluates
them in the runs of their modules. Every safety property of a passing run, invariant,
action property or refinement, has a theorem. Only model-checked are the liveness
properties (`EraseIsAnswered`, `BlockedConverges`, `Recovers`, `ClaimLapses`,
`LostIsNoticed`, `ShutdownEnds`, `Failover`, `GetReturns`, `SomeoneGetsAll`,
`Listens`, `ExportAcked`): they rest on fairness, which the prover does not reach.
`LockOrdered` and `Export` have no other property, hence no proof. Only proved, and
checked by no run, are the type invariants, the inductive invariants, and the
properties the list of theorems names without a run, such as `VersionIdentifies`,
`AnswerStays`, `OneLeader` and `SendsBounded`. Every property of a
run has a variant of the code (a definition whose comment
begins "Variant with a fault") under which its run fails.

## Not modelled

- Cryptography and wire formats: `byok` envelopes, token signatures, claims, QR
  codes, money, trace and transaction ids of the bank client, CSV and zip items.
- Packages without state, or with one call: `problem`, `validation`, `patch`,
  `email`, `observability`, `awsconfig`, `deadline`, `alerts`, `health`,
  `accountorgs`, `oauthclients`, the guards of `authguard` that check one request.
- Wrappers of one SDK call: batches, transactions and `UpdateItem` of `dynamo`, the
  plain commands of the Redis backend, statements, balance and webhook registration
  of the bank client.
- `RetryCallbacks` of the bank client, a loop over chunks without shared state.
- Stores for tests and local development: idempotency's `MemoryStore`, the fakes.
- The visibility heartbeat and the idle backoff of the erasure consumer: delivery
  is arbitrary already. The negative cache of `resilient`.

# Payment gateway router: verification project

TLA+ models of the router's state, checked with TLC on small instances, and
theorems about its parts, for instances of any size, checked with TLAPS. Paths are relative to the repository; line numbers refer to the Go files under `src/`.

## The system

The router takes payments (`POST /transactions/initiate`), sends each to a gateway
chosen by weight and health, and takes the gateway's asynchronous answer
(`POST /transactions/callback`). Answers drive a circuit breaker per gateway
(`healthy`, `unhealthy`, `half_open`). Several replicas may run over one Redis; with
the memory backend there is one process.

| Component | State | Operations | Talks to |
| --- | --- | --- | --- |
| `HealthService` (`internal/service/health_service.go`) | per-replica cache of gateway records, with expiry | `PrepareForRouting`, `MarkProbeSelected`, `ReleaseProbe`, `RecordOutcome`, `State`, `Stats` | health repository |
| Health repository (`internal/adapters/repository/{memory,redis}/gateway_health_repository.go`) | a record per gateway (state, cooldown deadline, probe slots and their counter); outcome log or minute buckets | `Ensure`, `Get`, `Save`, prune, acquire, release, `RecordEvent`, `StatsSince`; each one atomic | - |
| `RoutingService` | snapshot of candidates with expiry, selection counter | `SelectGateway` | `HealthService`, `FileProvider` |
| `TransactionService` | none | `Initiate`, `Callback` | all of the others |
| Transaction repository | transactions, attempt counters | `NextAttempt`, `Save`, `GetByID`, `Complete`; each one atomic | - |
| Order-gateway blacklist | success/failure counts and flag per order and gateway | `RecordOutcome`, `BlacklistedGateways`; each one atomic | - |
| `FileProvider` | current configuration, its modification time | `Watch` (poll and reload), `Current` | the file |
| `AppConfig` (`internal/domain/config.go`) | none | `WithDefaults`, `Validate` | used by `FileProvider` and by every reader |
| HTTP router and callback decoders (`internal/adapters/{http,gateway}/`) | none | translation of requests, of callbacks in four forms | services |
| `main` and runtime configuration | the process: listener, watcher, store | start-up, serving, graceful shutdown | all |
| Traffic simulator (`cmd/simulator/main.go`) | channels, workers, totals | two scenarios | the HTTP routes |

What is hard here: a service method makes several atomic repository calls and nothing
makes the sequence atomic; replicas cache records and save decisions taken on cached
copies; callbacks are repeated, contradictory, late or lost; probe slots time out while
their callback is under way; any call may fail after it took effect; a process may die
between two calls, or be told to stop; the configuration is edited while it is read;
two caches lie between a gateway's state and a routing decision. `PROJECT.json` lists
these hazards at their lines, with the properties that would catch them.

What makes each component correct:

- health: probe slots and their counter agree and respect the limit; a circuit
  reopens only when the deadline last stored has come; a released slot does not come
  back; only a probe's callback closes a half-open circuit; caches are stale for a
  bounded time;
- transactions: a payment is settled once and counted at most once; attempt numbers of
  an order are distinct; the blacklist agrees with the stored transactions and is
  honoured by later requests;
- configuration: only valid configurations are served, and edits are applied;
- routing: a request sees a gateway as healthy at most the two cache TTLs after it was;
  a request is refused only when no candidate is left; the lock of a build is released;
  candidates get their weights;
- statistics: neither pruning nor expiry loses an outcome that a reader should count;
- callbacks: each gateway is understood in its own form, and no body has two readings;
- process: a shutdown ends, and breaks nothing off before its deadline, however many
  signals arrive;
- simulator: it ends, counts every transaction once and accuses nobody falsely.

## Modules

| Module | Models |
| --- | --- |
| `HealthRepository` | the health repository's operations as functions of one record; memory and Redis agree on them |
| `GatewayHealth` | `HealthService` on every replica over that repository, and the payments that use it; the properties and the inductive invariant |
| `GatewayHealthProofs` | the TLAPS proofs about `GatewayHealth` |
| `SerialHealth` | `GatewayHealth` with calls that neither overlap nor fail |
| `SerialHealthProofs` | the TLAPS proofs about `SerialHealth`, over those about `GatewayHealth` |
| `MCGatewayHealth` | symmetry for the instances of both |
| `PaymentLedger` | abstract specification of a payment: opened once, settled once, counted at most once |
| `Transactions` | `TransactionService`, transaction repository, blacklist; shown to implement `PaymentLedger` |
| `TransactionsProofs` | the TLAPS proofs about `Transactions`, the refinement included |
| `MCTransactions` | symmetry for its instances |
| `Routing` | `RoutingService` composed with `GatewayHealth`, under a configuration that disables gateways |
| `RoutingProofs` | the TLAPS proofs about `Routing`, over those about `GatewayHealth` |
| `MCRouting` | symmetry and the configurations of its instance |
| `WeightedSelection` | `selectWeighted` as a function of candidates and counter |
| `StatsWindow`, `MCStatsWindow` | the event log of the memory backend and the minute hashes of Redis |
| `StatsWindowProofs` | the TLAPS proofs about `StatsWindow` |
| `CallbackDecoding` | the callback route up to the service, as functions of a body; `Transactions` takes the statuses it accepts from here |
| `Inputs` | files and bodies given to those functions |
| `Server` | `main`: the life of a process, composed with `ConfigReload` |
| `ServerProofs` | the TLAPS proofs about `Server` and `ConfigReload` |
| `Simulator` | both scenarios of the traffic simulator |
| `SimulatorProofs` | the TLAPS proofs about `Simulator` |
| `ConfigReload` | `FileProvider`'s watcher against an operator who edits the file |
| `DomainConfig` | `WithDefaults` and `Validate` as functions, and what the provider and its readers make of a file |
| `DomainConfigProofs` | the TLAPS proofs about `DomainConfig` and `WeightedSelection` |

Operators marked "Seeded fault" are wrong variants of the definition that follows them.
No specification uses them; each is substituted for that definition to show that a
property would notice the mistake.

### GatewayHealth

One action per repository call and one per update of the local cache; any other action
may come in between. A method reads the clock once, when it is entered, as in the code.

- `states`, `events`: the repository. `stateCache[r]`: replica r's cache.
- `prep[r]`: the `PrepareForRouting` call of replica r. There is at most one, because
  `RoutingService.snapshot` makes it under its write lock.
- `look[o]`: a `State` call (`GET /gateways`, or a duplicate callback).
- `pc[t]`, `ctx[t]`: the request or callback of payment t and its locals. `ctx[t].probe`
  is the deadline of the slot it was granted, 0 if none.
- `lastHealthy[g]`: history variable, written by no guard: the last time at which the
  repository held `healthy`.

`PrepareForRouting` is `ReadCache`, `LoadState`, `FillCache`, `SaveHalfOpen`,
`CacheHalfOpen`, `PruneForRouting`, `CachePruned`; `MarkProbeSelected` is `TryAcquire`
and `CacheAcquired`; `RecordOutcome` is `OutcomeEvent`, `OutcomeGet`, `OutcomeStats`,
`OutcomeRelease`, `OutcomeSave`, `OutcomeCache`. `PrepareFails`, `LookFails`,
`AcquireFails`, `InitiateFails` and `HandlerFails` are the error returns; since they may
follow the effect of a call, they include lost replies. `Restart` empties a replica's
cache and ends its handlers.

The environment is open here, and `Routing` closes it: a payment may be routed to, or may ask to probe, any gateway
that has a record, because the routing snapshot it was chosen from may be old.

Abstractions: times are integers and all replicas read one clock (no clock skew);
`UpdatedAt` is left out (nothing reads it); slots are a set (identifiers are random and
acquire once); the success rate is compared by cross-multiplication, without rounding;
statistics use the memory backend's exact window (`StatsWindow` compares it with Redis'
minutes); `Ensure`
and the `Get` that follows it are one step; the configuration is constant in a behaviour.

### Routing

`Routing` extends `GatewayHealth`: its actions call `PrepareForRouting`,
`MarkProbeSelected` and `Route` of that module and leave the rest of the health service
as it is (`HealthStep`). `snapshot[r]` is a replica's cache, `build[r]` the holder of its
write lock with the snapshot under construction, `sel[t]` the `SelectGateway` call of a
payment. Readers wait while the lock is held; a request that waited checks again with
the time it read before (line 109), as in the code. `Configs` is the sequence of sets of
enabled gateways that reloads bring, `Exclusions` the sets a blacklist may exclude.
`lastSick`, `lastEnabled` and `lastDisabled` are history variables, updated by `Watch`
in every step. Returning the probe's error and returning `ErrNoAvailableGateway` are both
"refused". A slot that is denied, rather than failing to be acquired, needs a third
payment and is met in `health_serial`; the path it takes through `InvalidateCache` is
the same.

`WeightedSelection` fixes what `Routing` leaves open: which candidate is chosen.
Candidates have positive weights (line 121), so the running sums always exceed the slot
and the last `return` is not reached.

### StatsWindow

Both backends receive the same events. A `RecordOutcome` call reads the time and the
window on entry (`RecordOutcome`), inserts later (`RecordEvent`), and in Redis sets the
key's TTL by a second command (`Expire`), which may fail on its own (`RecordFails`).
`RedisStats` reads the hashes of a window in one step, although the pipeline's `HGETALL`s
are separate commands. The properties are about readers that are no later than the
retention of the smallest window in force allows (`Timely`): a reader later than that,
or a window enlarged by more than the factor 2 of `Retention`, does lose events. Redis
counts whole minutes, so it may count more than the window, never less.

### CallbackDecoding

A body is its set of top-level keys and one status word in lower case, found under
whatever key a reader looks. Nested keys, the case-insensitive matching of Go's decoder
and the text of other fields are left out.

### Transactions

`req[t]` is the `Initiate` call that drew identifier t, `call[d]` a `Callback` in
progress. `counted`, `posted` and `answered` are history variables: outcomes given to
`HealthService.RecordOutcome`, outcomes recorded by the blacklist, payments some caller
was told are final. Identifiers are distinct by construction. Health and routing appear
by their one effect here: an outcome counted, a gateway chosen that is not excluded.
`barred` and `began` are histories too: the gateways that an order's posted outcomes
speak against, computed from the payments and not from the stored summaries
(`BarredAfter`), and what they were when the request of a payment began. Callbacks come
in any number and order. `ReloadThreshold` lets the failure threshold
change between two outcomes.

### ConfigReload

One step per system call of the watcher. Content is numbered by the write that produced
it; a write is one step and has a fresh modification time, so two writes within the
file system's time resolution are not distinguished here.

### Server

`main` in its order: load, connect, serve, wait for the context, `Shutdown`, the deferred
`Close` of the store, exit. A signal may come at any step, also
before the listener is bound. While `NotifyContext` receives signals (`caught`), the first
one cancels the context and the others change nothing (`Signal`). When the listener has
failed (`ListenFails`), its goroutine calls `stop` (line 96), which cancels the context
and restores the default action (`StopSignals`); a signal after that, or before line 31,
ends the process where it is (`SignalKills`, recorded in the history `killed`). The drain
ends when no handler is left, or at its deadline, which is a step that may come whenever
one is. A handler is reduced to being in progress and needing the store. `Watch` is the
watcher of `ConfigReload`; it may poll again before it sees the cancelled context.
`http.Server` and the client's connections are external.

### Simulator

Channels are buffers of twice the number of workers with a closed flag; a send on a
closed one is the end of the process. A transaction is one step whose result is any that
`runTransaction` can return, since its requests touch nothing of the simulator. `record` is
two pieces of code in the source and in `Recorded`: `AddTotals` for the atomic counters,
and `AddInitiated` and `AddCallback` for the two critical sections that write the
gateway's entry. The order-blacklist scenario meets a service that keeps the promise of `Transactions`
(`BlacklistHonoured`) and whose order may already have failures of an earlier run.

### DomainConfig

`raw` is a parsed file, any of `RawConfig`; `stored` is what `FileProvider` keeps of it.
The threshold is counted in units of 0.0001, and `RawAssumption` asks that the division
of a percentage by 100 be exact in them. `NaN` is YAML's `.nan`, of which every
comparison is false: such a threshold passes both comparisons of `Validate` (line 96),
although its error promises the range (0, 1], and `SuccessRate < threshold` is then never
true, so that no gateway becomes unhealthy. One file is loaded in a behaviour: what happens between several
edits is the subject of `ConfigReload`, where a content is only valid or not.

## Runs

| Run | Instance | Shows |
| --- | --- | --- |
| `health_faults` | 1 replica, 2 payments, time 1..3, all faults | `TypeOK`, `HealthInv`, `NoSlotLeak`, `BoundedStaleness` |
| `health_serial` | 1 replica, 3 payments, time 1..4, calls do not overlap | `ProbeLedger`, `ProbeLimit`, `HealthDiagram`, `ProbeDecides`, `CooldownRespected` |
| `routing` | 1 replica, 2 payments, 2 gateways, one of which is disabled, time 1..3, all faults | `RoutingInv`, `LockDiscipline`, `EndToEndStaleness`, `DisabledDrains`, `NoneOverlooked` |
| `transactions` | 2 payments, 2 orders, 2 gateways, 2 concurrent callbacks, thresholds 1 and 2, faults | `TypeOK`, `TransactionsInv`, `LedgerAgrees`, `AttemptsDistinct`, `BlacklistJustified`, `BlacklistHonoured`, refinement of `PaymentLedger` |
| `outcome_recorded` | 2 payments, 2 concurrent callbacks, no faults | `OutcomeRecorded` (liveness) |
| `server` | 2 requests, 3 writes of the file, either backend | `ServesValid`, `ServerInv`, `CleanDrain`, `Stops` and `ServingEditApplied` (liveness) |
| `inputs` | every file with up to 2 gateways, zero and positive numbers, fractions, percentages, .nan and a percentage above 100; every set of the readers' keys with every status word | `Usable`, `ReadersAgree`, `FairShares`, `DialectUnderstood`, `OneReading` |
| `stats_window` | 3 events, windows of 1 and 2 ticks, minutes of 2, time 0..7 | `MemoryExact`, `MinutesExact`, `BucketsExact` |
| `simulator` | 1 or 2 workers, 3 transactions, 2 gateways; 2 or 3 attempts, threshold 2 | `NothingLost`, `TotalsAgree`, `NoPanic`, `VerdictSound`, `Terminates` (liveness) |

Bounds. One failed callback makes a gateway unhealthy (`MinCallbackCount = 1`), the
cooldown and the probe timeout last one tick, and there is one probe slot: the whole
cycle healthy, unhealthy, half-open, healthy needs two payments and two ticks. A third
payment is what it takes to compete for the slot (acquiring it is one atomic call, so
calls that do not overlap meet every order), a second replica to hold a stale
cache. With two concurrent callbacks a payment meets every duplicate and every
contradiction; a third one would find what the second finds. Two payments of one order
at one gateway reach a threshold of 2 and a success after a failure. In `routing` both
TTLs last one tick, so a snapshot of a cached state is met at every age up to the bound
and beyond it; two payments are one that builds and one that waits or reads. In
`stats_window` a key written at time 0 expires at 6 at the earliest, within the bound.
With one worker the channels hold two, so that three transactions fill them and block
each sender; with two workers the order in which they finish and main closes is open.
Two attempts are too few for two gateways and a threshold of 2, three are enough.
`CHECK_DEADLOCK FALSE` is given where the system may come to rest: all requests
answered and no callback to come, a watcher with nothing to reload, a process that ended.

Fairness. `OutcomeRecorded` assumes that a handler that was entered keeps running
(`HandlersRun`); the Go scheduler does that. It is stated without faults, since a failed
handler is not resumed. `ServingEditApplied` assumes that the ticker keeps firing and the
watcher's goroutine keeps running; `Stops`, that main's goroutine and the serving
one run when they can: main waits for the context and, at most ten seconds, for handlers,
which are not assumed to end; the other has only `stop` left to call when
`ListenAndServe` has failed. `Terminates` assumes that some goroutine of the simulator that can run does run; the
timeout of its HTTP client bounds each request. No fairness is assumed of operators, clients or
gateways.

### What the documentation says and the code does not do

Three runs check a sentence of `src/README.md` and find a counterexample.

- `probe_limit_replicas` (README line 498). Two replicas, no two calls overlapping.
  Replica A caches `unhealthy`; the cooldown passes; replica B moves the gateway to
  half-open and grants the slot; A, whose entry has not expired, saves its own
  half-open record over it, without the slot, and grants the slot again.
- `outcome_lost` (README line 136). `RecordOutcome` fails after `Complete`; the
  repeated callback is answered as an idempotent success and records nothing.
- `config_edit_lost` (README line 238). An edit between `ReadFile` and the second `Stat`
  of a reload is not applied until the file is edited again.

`health_serial` and `outcome_recorded` mark the boundary: with one replica and
calls that neither overlap nor fail, the documented state machine, the cooldown, the probe
limit (if a probe times out within the cooldown, or there is one slot) and
the recording of outcomes hold. `ServingEditApplied` says the same of edits outside the
window.

When calls overlap, two more sentences of the README fail, and the runs leave this out:
`HealthDiagram` and `CooldownRespected` are checked for calls that do not overlap.

- The state machine of lines 444-453: one callback reads `healthy`, another saves
  `unhealthy`, the first saves `healthy`.
- "Unhealthy gateways are excluded from routing until `unhealthy_until`" (line 496): two
  callbacks read `healthy`; the first saves a deadline of 2; a routing request loads that
  record; the second saves a deadline of 3; at time 2 the routing request saves
  `half_open`. Under `Spec`, with two payments and one replica, TLC finds
  `CooldownRespected` violated in nineteen steps, by the second save, which moves the
  deadline. It is violated as well with two replicas and
  calls that do not overlap, if `CacheTTL` is 2: the second replica opens the gateway from
  a cached record after a probe of the first has failed and a new deadline was stored.

What holds of overlapping calls is weaker: a `half_open` record carries a deadline
that has come, its own, and an unhealthy one always has a deadline (`RecordsSound`, in
`HealthInv`).

A process whose listener fails has a drain that the next SIGINT or SIGTERM cuts short,
because line 96 of `main.go` calls `stop` where only the cancellation is needed.
`CleanDrain` names this as the one way, besides the deadline, to break a request off.

## Proofs

Every theorem holds for all values of the constants that the named assumption of its
module allows; none bounds the number of gateways, payments, replicas, callbacks,
requests, workers or events. The bounds on clocks and writes that TLC needs are
constants there, of any value.

| Module | Theorems | From |
| --- | --- | --- |
| `GatewayHealthProofs` | `Spec =>` `[]HealthInv` (`Invariance`), `[]TypeOK`, `[]ProbeLedger`, `[]NoSlotLeak`, `[]BoundedStaleness` | `ConfigAssumption`, `PopulationAssumption` |
| `SerialHealthProofs` | `SerialSpec =>` `[]SerialInv`, `ProbeDecides`; with one replica also `[]ReplicaInv`, `HealthDiagram`, `CooldownRespected` and, if a slot does not outlive its round, `[]ProbeLimit` | the same |
| `RoutingProofs` | `RoutingSpec => Spec` (`RoutingImplementsHealth`), `RoutingSpec =>` `[](HealthInv /\ RoutingInv)`, `[]LockDiscipline`, `EndToEndStaleness`, `DisabledDrains`, `NoneOverlooked` | these and `RoutingAssumption` |
| `TransactionsProofs` | `Spec =>` `[]TransactionsInv` (`Invariance`), `[]TypeOK`, `[]LedgerAgrees`, `[]BlacklistJustified`, `[]BlacklistHonoured`, `[]AttemptsDistinct`, `LedgerSpec` (`LedgerRefined`) | `PopulationAssumption`, `ThresholdAssumption` |
| `ServerProofs` | `ServerSpec =>` `[]ServerInv` (`Invariance`), `[]ServesValid`, `[]CleanDrain`; `Spec => []ServesValid` for `ConfigReload` alone | `BoundAssumption` |
| `StatsWindowProofs` | `Spec =>` `[]StatsInv`, `[]MemoryExact`, `[]MinutesExact`, `[]BucketsExact` | `StatsAssumption` |
| `SimulatorProofs` | `Spec =>` `[]PoolInv`, `[]NoPanic`, `[]NothingLost`, `[]TotalsAgree`, `[]VerdictSound` | `SimulatorAssumption` |
| `DomainConfigProofs` | `Spec =>` `[]ReadersAgree`, `[]Usable`, `[]FairShares` | `RawAssumption`, `CounterAssumption` |

`RoutingAssumption` asks for at least one payment and that a request may exclude no
gateway at all, as a new order does; both only give the records of `SelectGateway` a
value at rest. `SimulatorAssumption` asks that the enabled gateways be finitely many.

### Health

None of the properties is inductive: a record is not only in the repository but
also in caches and in the locals of calls, and any copy may be saved later.
`HealthInv` therefore says of every copy what the property says of the stored one:

- `RecordsSound`: every copy satisfies `LedgerOK` and `CooldownOK`, and a record about
  to be saved has no slot. The last part is why `PrepareForRouting` may reset the counter
  and forget the slots: an unhealthy record never has any.
- `SlotsGone`: from the moment a callback or a release has seen its slot gone, no stored
  record has it. A stale Save cannot bring it back, since saved records have no slots.
- `StampsOK`, `FramesFresh`: no call's time is ahead of the clock, and a `healthy` about
  to be cached was stored after the call began; hence the bound on staleness.

The proof has one step lemma per conjunct (`TypeStep`, `StampsStep`, `RecordsStep`,
`SlotsStep`, `FreshStep`), each with a case per action, over lemmas on the repository's
operators (`PruneFact`, `ReleaseFact`, `AcquireFact`, ...). The theorems combine them.

### Serial use of health

`SerialSpec` lets calls neither overlap nor fail, as the repository's tests drive the
service. The argument starts from who may write: of the calls in progress there is at
most one (`AtMostOneCall`), so a step that changes a record is a step of that call
(`LoneWriter`), and it changes it in one of six ways, named in `WriteFacts`: it creates
the record, trims expired slots, opens the gateway, acquires a slot, releases one, or
decides.

- `SerialInv`, on any number of replicas: a stored slot belongs to the payment admitted
  with it, and what a callback has read is still what is stored (`SlotsOwned`,
  `GatewaysKnown`, `OutcomesDue`). It gives `ProbeDecides`, whatever the caches hold.
- `ReplicaInv`, with one replica (`OneReplica`): the cache, and what a call is about to
  put there, agree with the stored state and deadline, except while the call that
  changed them has still to cache its result. So a cached `unhealthy` never opens a
  gateway that is stored healthy, which gives `HealthDiagram`. It also makes the deadline
  of a half-open record about to be saved the stored one, and by `RecordsSound` that
  deadline has come, which gives `CooldownRespected`. With two
  replicas `ReplicaInv` does not hold, as `probe_limit_replicas` shows.
- `LimitInv`: an awaited probe has its slot in the record, or its timeout has passed, or
  it will have passed when the gateway next becomes half-open. The last part is where
  `SlotsOutlived` is needed: the probe timeout is at most the cooldown, or there is only
  one slot. The default configuration has both (60 s, 1800 s, one slot), but `Validate`
  asks for neither. Without it the limit is exceeded: of two probes in flight one fails and
  `markUnhealthy` (health_service.go line 216) drops both slots; the cooldown passes, two
  more probes are granted, and the first is still awaited. TLC finds this behaviour in the
  instance of `health_serial` with five payments, no observer, `HalfOpenProbeCount = 2`,
  `ProbeTimeout = 2` and `MaxClock = 3`.

### Routing

Every step of `Routing` is a step of `GatewayHealth` or leaves its variables alone
(`RoutingStepsHealth`); so `HealthInv` holds and may be used in what follows.
`RoutingInv` adds, to the types and `LockDiscipline`:

- `RecordsKnown`: a gateway that is cached, loaded or used has a record, and keeps it;
- `HistoryOK`, `SicknessFresh`: for the history of sickness what `FramesFresh` is for
  health: a copy that is not `healthy` is no older than a TTL after the gateway was sick;
- `SnapshotOK`, said of the stored snapshot, of the one under construction except for
  the gateways still pending, and of the copy each request holds: it expires before it
  could mislead about the gateways it lists, and about those it leaves out;
- `SelectionsOK`: a request that chooses read its time before its snapshot expires.

The second TTL enters where a cached state is put in a snapshot (`PutSeen`); the
comparison with the time read before the wait for the lock (line 109) is covered because
`SnapshotOK` speaks of the snapshot's expiry and `SelectionsOK` of the request's own
time. The three action properties follow from the invariant at the step where a request
leaves `SelectGateway` (`Departure`, `Chosen`).

### Transactions

One handler at most owns the outcome of a transaction: `CallsInOrder` says that the
callback which settled it is the only one past `Complete`, with the status stored, and
that it counts before it posts; `CountedOnce` says what is left when it is gone, whether it
finished or failed between the two. `RequestsInOrder` carries the attempt number from
`NextAttempt` to the stored record, numbers lost to failures included. The counts of the
blacklist are cardinalities of sets of posted payments, and a step adds one element to
one of them. `BlacklistExact` says that the stored flags are those the payments'
history calls for (`barred`), although the repository keeps only two counters and a flag
and the threshold changes; with it, what a request read is what it should have read
(`began`), and `BlacklistHonoured` follows from the way it chooses. `LedgerRefined` maps initial states to initial states and each step to a
step of `PaymentLedger` or to a stutter.

### Process

`PhasesInOrder` states what a handler may meet in each phase of `main`; a request is
broken only by the exit or by the closing of the store, which come after a drain that
ended with no handler or at its deadline, or by a signal that is not caught: while main
serves or drains, that is one after the listener has failed. `ServesValid` needs that a file which
says it is valid was recorded as valid when it was written.

### Statistics

`StatsInv`: what the log lacks is older than twice the smallest window (`Retained`),
because a cutoff is that of an earlier time and of a window no smaller; a key's deadline
is at least its minute plus that retention plus two minutes (`KeysLive`), because the
TTL counts from a time no earlier than its minute; and the counters of a key that has
not reached that age are those of its minute (`CountersExact`). An expired key may be
counted anew from zero, but then it is too old for any timely reader, whose first minute
begins less than one minute before its window.

### Simulator

`PoolInv`: a channel is closed only when nobody is left to send on it, a worker is done
only when the closed job channel is empty, and jobs sent are those in the two channels,
with the workers and in the totals. `OrderInv`: the service has recorded every failure
the scenario counted. For the bound on attempts the failures are drawn as cells of a
rectangle of gateways by `Threshold - 1` and compared by cardinality (`Cells`).

### Configuration rules

From the invariant `Normal`: what is stored has positive fields and a threshold that
`Validate` accepts, which is the form `WithDefaults` leaves alone.

### Sums

`FairShares`, `BucketsExact` and `TotalsAgree` are about loops and sums of any length, so
they need induction over data. The library's induction principles take an operator and
cannot be instantiated; induction is done with a set instead, as the absence of a least
counterexample (`LeastNumber`, `SubsetInduction`, both from `WFMin`).

- `FairShares`: a loop has a value after every element (`LoopFact`), so the running sums
  are the ones the code computes and grow strictly; a candidate is chosen exactly when
  the slot lies between two of them (`SlotFact`); while the counter advances by a round,
  the remainder takes every value once (`AroundFact`). The selections of a
  candidate are then in bijection with an interval as long as its weight.
- `BucketsExact`: the number of events in a set of minutes satisfies the equation that
  defines the sum, by `MinutesExact` for one minute; the equation has one solution.
- `TotalsAgree`: the same with `Cells`, which draws a counter of all gateways as a set.
  The inductive invariant is that each total is the number of cells of its column. A
  result adds to the totals and to an entry by different operators (`TotalsFact`,
  `EntryFact`); that they add the same is `CountedAlike`.

### Only model-checked

- Liveness (`OutcomeRecorded`, `Stops`, `ServingEditApplied`, `Terminates`), which is
  out of the prover's reach.
- `DialectUnderstood` and `OneReading`: the bodies are a fixed finite set, independent of
  every constant, which the run enumerates; a proof would add nothing.

## Not modelled

Clock skew between replicas; the repetition of commands inside the Redis client library;
JSON below the top-level keys, key formatting and status codes; the checks of the
initiate route and the read-only routes; environment variables and their defaults; the
in-place compaction of slots that the memory backend shares with records it has handed
out; flags, latencies and printing of the simulator.

## Plan

1. Done: `HealthRepository`, `GatewayHealth` and its proofs, `Transactions` over
   `PaymentLedger`, `ConfigReload`, `DomainConfig` and its proofs.
2. Done: `Routing` over `GatewayHealth`, `WeightedSelection`, `StatsWindow`,
   `CallbackDecoding`, `Server` over `ConfigReload`, `Simulator`.
3. Done: the proofs of `Routing` over those of `GatewayHealth`, of `Transactions` and its
   refinement, of `Server` with `ConfigReload`, of `StatsWindow` and of `Simulator`.
4. Done: the proofs of `HealthDiagram`, `CooldownRespected`, `ProbeDecides` and `ProbeLimit` for serial use,
   with the configurations for which the last one holds, and those of the sums.

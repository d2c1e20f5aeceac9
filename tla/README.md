# Verification of the axionvera SDK

TLA+ specifications of the Axionvera TypeScript SDK, the TLC configurations that
check them on small instances, and proofs of the central results for every
instance. Paths below are relative to the repository's `src/src/`, and those that
begin with `packages/` to `src/`; all modules are in this directory.

    tlc -workers 2 -config MCConcurrencyQueue_toggled.cfg MCConcurrencyQueue
    tlc -workers 2 -config MCServices.cfg MCServices
    tlapm ConcurrencyQueueProofs.tla

## 1. Inventory

The SDK is single threaded: JavaScript runs a callback to its end, and two
activities interleave only at an `await`, a timer or an event of a socket. What
is hard about it is what happens between two such points: state is read before
an `await` and used after it, several runs of one async function overlap, timers
that nobody cleared fire late.

| Component | State | Operations | Talks to | What makes it correct |
|---|---|---|---|---|
| Request queue `utils/concurrencyQueue.ts` | `queue`, `activeRequests`, throttle counter and timer, a timeout per request | `execute`, completion, `clearQueue`, `destroy`, `updateConfig`, `getQueueStatus` | wraps every method of the RPC client (`core/serviceContainer.ts:26`); `retry()` is outside, so a retry queues again | exact slot accounting, FIFO start, nobody waits without somebody to wake him, every call is settled |
| Transaction tracker `client/stellarClient.ts` 1230-1440 | `pendingTransactions`: hash, deadline, promise, cancel flag | `trackTransaction`, `pollTransaction`, `cancel`, `exportState`, `importState` | RPC `getTransaction`; the application saves the exported state over a page refresh | one loop per hash, the registry is the live loops, no false timeout, every loop ends |
| Sequence numbers and submission `client/stellarClient.ts` 600-810 | `accountSequenceCache` with a TTL; position in the array | `getAccountWithCache`, `clearCache`, `cleanupExpiredCache`, `submitTransactionsSequentially` | RPC `getAccount`, `sendTransaction` | numbers handed out offline are consecutive, arrays are sent in order |
| Event emitter `contracts/ContractEventEmitter.ts` | listeners, interval, ledger and cursor, `isPolling`, `isClosed` | `on`, `once`, `off`, `removeAllListeners`, `start`, `stop`, `close`, `poll` | RPC `getLatestLedger`, `getEvents`; `StellarClient.eventEmitters` | every event exactly as often as promised, silence after close, nothing leaked |
| CloudWatch logger `utils/logging/cloudwatch/cloudWatchLogger.ts` | queue, flush timer, sequence token, client, flags | `initialize`, `log`, `flush`, `destroy` | CloudWatch Logs | no entry lost or in two places, duplicates only when an answer was lost |
| WebSocket manager `client/websocket/websocketManager.ts` | socket, flags, attempts, two timers, subscriptions | `connect`, `disconnect`, `subscribe`, `unsubscribe`, socket events | the server; StellarClient or the subscription service | the server knows the subscriptions of an open connection |
| Subscription service `subscriptions/subscriptionService.ts`, `network/reconnectionManager.ts` | reconnection state, attempts, timer | `start`, `stop`, connection changes | drives the WebSocket manager; *both* schedule reconnections | one connection, and a lost one comes back |
| Transaction lifecycle `transactions/`, `lifecycle/`, `events/lifecycleEvents.ts` | state and history per transaction, listeners | `create`, `transition`, `fail`, `remove`, `emit` | application listeners, called synchronously | listeners hear every transition, once, whatever they do in their callbacks |
| Sessions `session/` | sessions, their state and contracts | `createSession`, `suspend`, `resume`, `close`, `run` | the application keeps the session objects | the limit on open sessions, a closed one holds no contract |
| Plugins and middleware `plugin/pluginManager.ts`, `middleware/pipeline.ts` | plugins and their states, ordered handlers | `register`, `install`, `uninstall`, `use`, `remove`, `execute` | hooks of the plugins, awaited; clients under construction | installed plugins reach the clients, a request meets all hooks |
| RPC health `monitoring/rpcHealthMonitor.ts` | status and failures per endpoint, a timer | `start`, `stop`, checks | RPC endpoints, raced with a timeout | one round at a time, late answers count nowhere, checking goes on |
| Migrations `migrations/` | registered steps, state of a run | `register`, `resolvePath`, `run`, `rollback` | steps of the application | shortest path, the report tells where the state is |
| Fees `client/stellarClient.ts` | none | `applyFeeBuffer`, `validateFee`, `simulateBatch` | simulations of the RPC | fees cover what was simulated, within the limit |
| Event ranges `client/stellarClient.ts` | a stack of ranges | `getContractEvents` | RPC `getEvents` | nothing twice, nothing left out |
| Requests and errors `client/stellarClient.ts`, `utils/httpInterceptor.ts`, `errors/axionveraError.ts` | attempts, metrics | the requests of the client; `retry`, `toAxionveraError` | RPC; an application's own `retry()` | attempts are bounded, every operation ends, is counted and throws an error of the SDK |
| Offline transactions `builders/offlineTransactionBuilder.ts` | number, network and operations of a builder | `addOperation`, `build`, `export`, `import`, `sign` | another machine, by a package | what is submitted is what was built |
| Registries `adapters/adapterRegistry.ts`, `registry/`, `discovery/` | adapters in a Map, descriptors by type and id | `register`, `unregister`, `findAdapter`, `lookup` | adapters, which are asked asynchronously | nothing registered throughout is passed over |
| Telemetry and metrics `telemetry/`, `metrics/` | buffer, counters, a timer | `track`, `flush`, `setEnabled`, `updateConfig` | a handler of the application | every event is handed over once, the buffer is bounded |
| Tracing, diagnostics, XDR cache `observability/`, `diagnostics/`, `utils/xdrCache.ts` | spans, bounded list, LRU cache | `startSpan`, `endSpan`, `record`, `decodeXdrBase64` | | memory is bounded, the latest is kept |
| Profiling `profiling/profilingService.ts` | metrics, level | `profile`, `enable`, `disable`, `clear`, `generateReport` | operations in flight | metrics are those of the calls that were on |
| Replay `replay/` | recorded session | `record`, `replay`, `validate` | a contract with state | unchanged contracts pass, changed ones do not |
| Mock server `testing/` | accounts, transactions, errors, snapshots | `addTransaction`, `injectError`, `snapshot`, `restore`, RPC methods | the application's tests | scenarios play as they were written |
| Failover and HTTP retry `packages/core/src/client`, `packages/core/src/utils` | current server, attempts | `executeWithFailover`, `retry`, interceptor | several RPC servers | repeats are bounded and go to the server asked first |
| Vault calls `packages/core/src/contracts`, `.../transaction/transactionSigner.ts` | a chain of awaits | `deposit`, `withdraw`, `claimRewards` | wallet, RPC, ledger | what takes effect is what was checked and signed |
| Batches `packages/core/src/transaction/enhancedTransactionBuilder.ts` | results | `processBatchTransactions`, `estimateBatchCost` | account cache, ledger | results are what became of the transactions |
| Simulator `packages/core/src/transaction/transactionSimulator.ts` | history | `comparativeSimulation`, `trackSimulation` | RPC simulations | comparisons follow the fees |
| React context and hook `packages/react/src` | wallet state; call state | `connectWallet`, `refreshWallet`, watcher; `useVault` | Freighter extension; the vault | what is shown is what is |
| Wallet demonstration `wallet-integration-203/` | connected wallet, balance | connect, restore, provider events | browser wallets, explorers | what is shown is what a reload restores |
| Validated vault calls `validation/engine.ts`, `contracts/vault.ts` | schemas by method | `registerSchema`, `unregisterSchema`, `withSchemaValidation`; `deposit`, `withdraw`, `getVaultInfo` | the vault of an Ethereum node | what a schema refuses is not sent, results are checked, fields are those of the call |
| Contract metadata `registry/contractMetadataRegistry.ts` | metadata by name, objects of objects | `register`, `get`, `list`, `unregister` | callers keep what they pass and are handed | the registry tells what was registered, whatever callers write |
| Conversions `packages/core/src/utils/simulationParser.ts`, `packages/core/src/codegen/wasmParser.ts`, `utils/getRequiredSigners.ts` | none | `decodeScVal`, `readSpecSection`, `getRequiredSigners` | simulations, WASM files | integers, entries and signers come out exactly |
| The rest | predicates, formats, code generation, XDR | | | see section 7 |

`packages/core` is in part a copy of `src/src`. Its event emitter, health monitor,
sessions, contract metadata and transaction history are the same files, and its
concurrency queue differs by a type only, so what is shown of those modules holds
for both; where the two differ (failover, batches, the simulator, vault
calls) the modules below say which is meant. `PROJECT.json` lists all components
and, under `hazards`, what in this code is hard to test, each at its line.

## 2. Modules

    BoundedExecutor      <- implemented by - ConcurrencyQueue    <- ConcurrencyQueueProofs
    ContractEventEmitter <- ContractEventEmitterProofs
    CloudWatchLogger     <- CloudWatchLoggerProofs
    WebSocketManager     <- extended by - SubscriptionService - instantiates -> ReconnectionManager
    TransactionTracker, OfflineSubmission,
       SubscriptionService                       <- StellarClientProofs

    MCServices - extends -> TransactionLifecycle, SessionManager, PluginManager,
       MiddlewarePipeline, Registries, RpcHealthMonitor, Migrations,
       ClientRequests, ClientFees, EventRange, OfflinePackages,
       Telemetry, Tracing, Profiling, Replay, MockRpc,
       RpcRequests, VaultCalls, BatchTransactions, Simulations      (packages/core)
       UseVault, WalletContext                                      (packages/react)
       ValidatedVault, ContractMetadata
       Conversions                                 (src/src and packages/core)
       WalletDetection                                              (the demonstration)
    SessionManager, RpcHealthMonitor, ClientFees, MiddlewarePipeline,
       PluginManager, Registries, Migrations, ContractMetadata,
       TransactionLifecycle                      <- ServicesProofs
    RpcRequests, ClientRequests, EventRange,
       Telemetry, Tracing, Profiling, Replay,
       MockRpc, Conversions                      <- RequestProofs
    OfflinePackages, VaultCalls, UseVault,
       BatchTransactions, ValidatedVault,
       WalletContext, WalletDetection,
       Simulations                               <- VaultProofs
    MCServices as a whole                        <- MCServicesProofs

An arrow from a `...Proofs` module leads to what its theorems are about. The modules
`MCConcurrencyQueue`, `MCEmitterAndSubmission` and `MCServices` extend theirs with the
values TLC needs of constants that a configuration cannot write; the second and the third
hold components that share no state, one of them in each behaviour. The other runs take
the module of the component itself, and all values from the configuration. An operator
whose comment says `Mutant` is a plausible slip in the definition below it; it
belongs to no specification and serves to confirm that a property can fail.
An action is one callback, or one call of the public interface, together with
everything it runs up to its next `await`. What the network and the application
do are actions of their own; the map in `PROJECT.json` marks them external.

### ConcurrencyQueue (utils/concurrencyQueue.ts)

Variables are the fields of the class. `age` stands for `Date.now() -
lastThrottleReset`, cut off at the interval, and `throttleTimer` and `timeouts`
are the timers; `outcome` is the state of the promise each `execute()` returned.
`ProcessQueue` is `processQueue()`: the throttle is tested once, and then the loop
starts as many requests as there are slots. It is part of `Execute`, `Complete`
and `ThrottleTimerFires`, and, as in the code, not of `QueueTimeout`,
`ClearQueue` or `UpdateConfig`. `GetQueueStatus` is an action because
`isThrottled()` resets the interval as a side effect.

`BoundedExecutor` is the promise of `src/CONCURRENCY_CONTROL.md` (lines 12, 129,
130 and 135): requests wait, at most `limit` of them are started, and each ends
once. "Never exceeds maxConcurrentRequests" holds for each *start* only:
`updateConfig()` can lower the limit below what is already running. The abstract
specification says so.

Assumed: a request function returns a promise, and neither throws nor calls the
queue synchronously; limits and rates are at least 1; the interval and the
length of timeouts do not change; timers may be late, never early. A queue
timeout may fire at any time once armed.

### TransactionTracker (client/stellarClient.ts)

A loop is one run of the async function in `trackTransaction()`; it is waiting
for an answer (`asking`) or for `setTimeout` (`sleeping`), and `Answer` and `Wake`
are its callbacks. `Cancel` sets the flag, which the loop reads at its next turn.
`ExportState`, `Refresh` and `ImportState` are the life of a page: the refresh
ends all loops, and only what was exported survives. The retries inside
`getTransaction` are folded into one answer that is a status or an error.

### OfflineSubmission (client/stellarClient.ts)

A run of `getAccountWithCache()` asks the network; `NetworkReads` is the moment
the number is read and `Online` the moment its answer arrives. `Offline` is
everything that happens when the call fails or times out: the cached number is
checked for expiry, advanced and stored, in one piece, and its age starts again.
The submission sends (`Receive`), is answered (`SubmissionAnswered`, whatever the status),
and pauses (`PauseOver`). `SendFails` also covers `onProgress` throwing, which
the code catches with the same clause. The network accepts one transaction per
account and ledger, if it carries the next number; anyone else may use the
account too.

### ContractEventEmitter (contracts/ContractEventEmitter.ts)

`log` is the contract's events on the network and a cursor is the number of
events before it. `Poll` is a tick of the timer, `LatestLedger`, `AnyPage` and
`PollFails` the continuations of the poll. Pages may be shorter than what there
is. One event is emitted under four keys, and the dispatcher appends the
generic listeners to each: a generic listener is called five times for a named
event and three times for one without a name, and a generic `once()` more than
once for its event. `Multiplicity` states this as the code has it, so that
`DeliveredExactly` compares with what the dispatcher does and not with a wish.
Callbacks do not call the emitter, except the wrapper of `once()`.

### CloudWatchLogger (utils/logging/cloudwatch/cloudWatchLogger.ts)

`callers` follows each `log()` and `initialize()` through loading the module,
creating the group and creating the stream. A flush takes its batch off the
queue, then waits for `PutLogEvents` (`put`), for its answer (`stored`), for
`DescribeLogStreams` (`describe`) or for the backoff (`backoff`). A stored batch
whose answer is lost is a `PutFails` after `Store`. A token is fresh or stale:
whatever CloudWatch stores makes every other token stale, and `ChecksToken` says
whether CloudWatch minds. The `import()` of the AWS module is not a step.

### WebSocketManager, ReconnectionManager, SubscriptionService

A `WebSocketManager` belongs to a StellarClient (`WebSocketNext`: the application
connects, subscribes and cleans up) or to a SubscriptionService (`ServiceNext`:
two managers reconnect the same socket, with a timer each). `inService` chooses
at the start, so that one run covers both. `orphans` are reconnect timers that
were overwritten and fire nevertheless. The service's `subscribe()` throws before
it changes anything (`EventDispatcher.generateId` names an undefined variable), so
its dispatching and its cleanup timers, which need a subscription, have no state
to model.

Timers due at the same time fire before anything is heard of a socket created in
that turn, as Node's timers do; `new WebSocket()` does not throw.

### MCServices: components that keep to themselves

The modules below share no state. `MCServices` extends them all: its variable
`part` picks one component per behaviour, whose actions are taken while the others
stand still, so that one run covers them side by side, for the sum and not the
product of their states. Their properties carry their own names in their modules;
the run checks them in groups (`ClientsAreExtended`, `CallsAreServed`,
`VaultTellsTruth`, `ObservationsAreKept`), which `MCServices` defines.

**TransactionLifecycle.** `emits` is the stack of calls of `emit()`: a listener runs
inside an emit and may call `Transition`, `OnEvent`, `OffEvent` itself. A Map is
iterated live, so that the next listener is the least subscription beyond the
current one. `ListenersHearHistory`: once all emits have returned everybody has
heard everything since he subscribed, nothing twice; the first listener hears each
record's history in order. Later listeners may hear two transitions in the
wrong order, which is why it does not say more.

**SessionManager.** `CloseItself` is `session.close()`, which the manager does not
hear of. `SessionLimitKept` therefore counts *open* sessions, made under
generated ids or ids asked for, and wants every one of them known to the manager.

**PluginManager, MiddlewarePipeline.** A task is a call that awaits a hook of its
plugin; two tasks overlap, while `ConstructClient` builds clients. `Install` is the
part up to the first `await`, `Installed` and `ClientServed` are what follows. In
the pipeline, `ExecuteStarts`, the hooks and `ExecuteEnds` are a request, and
`UseMiddleware` and `RemoveMiddleware` come at any time. `PluginsReachClients`:
when all calls have returned, every installed plugin is in every client that was
given to the manager. `RequestMeetsAll`: entries that were there at the start, and
stay, are all met, before and behind the operation.

**Registries.** `findAdapter()` walks the Map itself and awaits each adapter; an
entry keeps its place when its name is registered again and is last when new.
`SearchPassesOverNone` is about adapters that were there all along; one that is
unregistered while it is asked can still be the result. `DefaultIsRegistered`,
`LookupFindsLatest` speak of the synchronous parts.

**RpcHealthMonitor.** A round starts by tick or by call; each endpoint's request
races with its timeout (`HealthAnswer`, `HealthFails`, `HealthTimeout`), and a loser
may still answer (`LateAnswer`). Counters are kept modulo `Modulus`, so the run
is unbounded and `EndpointsCheckedForever` is a real liveness property.
`HealthTellsTruth` compares state, counters and thresholds with the outcomes.

**Migrations.** A state is what the schemas tell of it. `ResolvePath` is the search
as it is written, `TakeNode` a turn of its outer loop and `ExamineEdge` one of its
inner loop; `ReportTellsVersion` compares its plan with the definition of a
shortest chain, and the report with where the state is after completion, failure,
rollback, and a rollback that itself fails.

**ClientRequests.** A failure travels from the RPC client through `retry()`, the
operation's catch block, and perhaps an application's own `retry()`. Its status
and type decide whether it is repeated; both get lost on some ways.
`ClientRequestsEnd` bounds the attempts of each operation, and wants the metrics to
account for all of them and every error to be one of the SDK's whose type fits.

**ClientFees.** Pure: a behaviour is one call. `MultiplyAndCeil` is the decimal
arithmetic of `toFraction`, compared with exact fractions by `FeesAreCovered`.

**EventRange.** The recursion over halves is a stack of frames, because each level
awaits the network. `RangeIsComplete`: in order, nothing twice, and with `fetchAll`
nothing missing, unless the RPC found a page too large after it had given others.

**OfflinePackages.** Builders of several accounts and networks build, export and
import; the ledger applies what is signed for its network and carries the next
number. `PackagesTravel` is about what arrives: what was built, under the account, the
network and the count of operations the package tells, each number once. It does not say
what the package's `sequence` should be; the code and two documents differ (section 6).

**Telemetry, Tracing, Profiling, Replay, MockRpc.** The flush handler of the
telemetry may track again; `TelemetryAccountsForAll` finds every event in one
place and one timer for what waits. `MemoryIsBounded` states which spans and
diagnostics are kept; the XDR cache is a part of its own (`DecodeXdr`, `ClearXdrCache`),
and `CacheIsLru` says which decoded values are in it. `ProfilesAreComplete` compares the metrics
with the calls that were on when they started, and the percentile with its definition.
In `Replay` a call takes effect somewhere between its begin and its end, and
`ReplayReproduces` says when a replay passes and when it must not. In `MockRpc` the
entries are on a `heap`, because the server and its snapshots share them.
`MockPlaysScenario` says what polls, errors, hashes and restored maps are all the same;
`RestoredAsTaken`, that a restored transaction is as it was, is what the code's comment
promises and the code does not keep (section 6).

**RpcRequests (packages/core).** Calls share one current server, which any of them
moves on. `RequestsAreRepeatedInBounds`: a call repeats as often as it may, by the
server it asked first, and a POST of the HTTP client never.

**VaultCalls, UseVault, WalletContext.** A vault call is a list of awaits (`Awaits`);
between two of them the user switches account or network, the vault's rate moves,
and other calls go on. `VaultCallsAreGuarded` compares what the ledger settled with
what the caller bounded and the wallet signed. The hook's state variables are
shared by all its calls and `reset()`; `HookTellsTruth` speaks of calls one at a
time, and of any overlap where the code allows it. In `WalletContext` connects,
refreshes, a watcher and unmounting write one state.

**BatchTransactions, Simulations (packages/core).** A batch takes its numbers from the
network or the account cache, sequentially or all at once; `BatchTellsTruth`
compares its results with the ledger. Fees of simulations are strings at run time;
`LessFee` is JavaScript's comparison of them, `FirstBest` the result that the loop over
them ends with, and `SimulationsAreCompared` says what is left of "cheapest", and that a
simulation which `WithinTarget` accepts costs no more than `maxFee`. A `maxFee` of 0 is
no limit in the code (`options.maxFee && ...`, line 242): `WithinTarget` accepts every fee
then, the run's targets contain 0, and the property excepts it by name.

**WalletDetection (demonstration).** Ethereum wallets share one provider and its
events. `Store` is `persistWallet()` or `clearPersistedWallet()`, which swallow the errors
of `localStorage`: it writes or it does not, and `kept` remembers which, as it does of the
reading at the start. `DetectionTellsTruth`: while the last of these worked, what is
shown is what a reload restores; in any case the newest balance is that of the account
shown.

**ValidatedVault.** `CallWrapped` is a wrapped call up to its await; the schema is looked
up again when the method has resolved (`SchemaForResult`). The four reads of
`getVaultInfo()` are two, answered one by one while deposits, withdrawals and rewards
change the vault. `WrappedCallsAreChecked` relates what reached the node, what was
refused, and what was handed over, to the schemas of those two moments and to the
states of the vault during the call. The fields of one answer need not have been true
together.

**ContractMetadata.** Metadata are objects on a heap of `Cells`, referred to by number;
cells nobody refers to are free again. `Clone` copies what `cloneMetadata()` copies,
`RegisterMetadata` does so on the way in and on the way out, and `ChangeHeld` is the
application writing to any object it can reach. Which free cells a copy takes does not
matter, so they are chosen by number (`Moves`); `HasRoom`, that enough of them are free,
is a bound of the model. `MetadataIsKept`: the registry still says what was registered
last, and is still valid.

**Conversions.** Pure: a behaviour is one call. A limb has `LimbSize` values and a byte of
LEB128 carries `GroupSize`, powers of two in the code and any numbers here, so that all
integers of a type can be tried; a file has up to two
sections with up to two entries each, and sizes of one and of two bytes.
`ConversionsAreExact` compares each result with what was put in.

Assumed throughout: the client of packages/core is one of a subclass that
implements `executeWithErrorHandling()`, which `StellarClient` leaves abstract; and
callbacks of applications end.

## 3. Runs

"States" is the number of distinct states of a complete exploration.

| Run | States | Question | Answer |
|---|---|---|---|
| `queue_toggled` | 4,834 | Three requests; throttle, queue timeouts and limit switched at run time. Is the accounting exact, the order FIFO, nobody stranded, does the queue implement `BoundedExecutor`, is every call settled? | yes |
| `queue_rate` | | Does an interval respect `throttleRate`? | **no**, see 6 |
| `tracker` | 216,683 | Two hashes, two loops at a time, every order of answers, late timers, cancellations, exports, refreshes and imports. Does the registry hold exactly the live loops, is no result dropped, does every loop end? | yes |
| `tracker_cancel` | | Does `cancel()` leave awaiters alone? | **no**, see 6 |
| `submission_waits` | | Does the loop wait for each transaction to succeed? | **no**, see 6 |
| `subscription` | 122,224 | Two managers on one socket, failing attempts, overwritten timers, a second `connect()`. One connection, subscriptions known, and does the connection come back? | yes |
| `emitter_and_submission` | 2,681,233 | One of the two in each behaviour. Emitter: a named, a generic and a `once()` listener, failing polls, closing in the middle of a batch. Delivered exactly, never twice, silent and clean after close? Submission: two overlapping account requests, late answers, expiry, arrays of up to three transactions. Are offline numbers consecutive, and is the array sent in order? | yes |
| `cwlog` | 215,556 | Two entries around initialization and destruction, overlapping flushes, half-failed requests, stale tokens. Nothing lost, nothing in two places, stored in the end? | yes |
| `cwlog_remaining` | | Does `destroy()` flush what remains? | **no**, see 6 |
| `services` | 1,784,908 | Twenty-six components, one in each behaviour: does each keep what section 2 says of it? | yes |
| `rpc_failover` | | Does a failing call ask the backup servers? | **no**, see 6 |
| `mock_restore` | | Is a restored transaction as it was when the snapshot was taken? | **no**, see 6 |

The properties, with what would violate them, are at the end of each module.

**What was chosen over simpler statements.** `ActiveCountExact` rather than "the
counter is not negative"; `RegistryIsLiveLoops` in both directions, so that
neither a stale entry nor an unregistered loop passes; `NoFalseTimeout` compares
the time at which the network knew the result with the time of the last poll;
`DeliveredExactly` counts calls instead of asking whether there was one;
`DuplicatesOnlyAfterLostAnswer` allows the one duplicate that cannot be avoided;
`SessionLimitKept` counts the open sessions, and not those the manager counts.

**Conditions in properties.** `SingleConnection` and `StateTellsTruth` are stated
for an application that calls `start()` once: with a second call the code does
hold two connections, and no document says otherwise. `OfflineNumbersConsecutive`
is stated between two answers of the network, which overwrite the cached number.
`OvershootBounded`, by how much an interval can exceed the rate, is stated for
configurations with the throttle on, because the counter is not limited while it
is off; it is a theorem and belongs to no run. `SimulationsAreCompared` excepts a `maxFee`
of 0, and `DetectionTellsTruth` a store that failed. In the components of `MCServices` a
property leaves out the case in which the code is known to behave otherwise
without a document against it; section 6 lists these cases.

### Bounds, and why they are enough

The theorems of section 4 remove the bounds from every safety property of the passing
runs; there the runs are what showed
each statement, and the inductive invariant of its proof, to hold before it was proved.

- *Queue*: three requests make one running, one waiting and one behind it, the
  least at which order and stranding can go wrong.
- *Tracker*: two loops and two hashes give two loops for one hash and an import
  next to a live loop. The clock stops at `MaxTime` 2, with deadlines at once and
  after 2; ended loops are used again, so the number of calls is not bounded.
- *Submission*: two calls are enough to overlap, `Ttl` 1 for expiry between two
  uses, three transactions for a first, a middle and a last. Numbers end at 3.
- *Subscription*: `Sockets` bounds the sockets alive at once. With one `start()`
  three are never all alive, so nothing is cut off; with a second `connect()` the
  code can collect sockets without bound, and steps that need a fourth are not
  explored. With two attempts for the WebSocketManager and three for the
  ReconnectionManager, one gives up while the other still tries.
- *Emitter*: two events in two ledgers, two runs of `poll()` so that an overlap
  would show. Removing a listener and adding it again is possible at any time.
- *Logger*: batches of one and two entries make two batches in flight; at most
  three requests fail for reasons other than their token, with two attempts each.
- *Services*: two of what can overlap (tasks of plugins, reads of the wallet, calls of
  the hook, vault calls, recorded calls are three), three of what has a first, a
  middle and a last (sessions, middlewares in use, spans, batch transactions,
  adapters), limits one below what is tried (`maxSessions` 2 of 3, `bufferSize` 3 of
  7 events, `maxSpans` 2 of 3). Migrations have five versions, with paths both ways
  round a fork, an odd state, and a step registered twice. Events are four in three
  ledgers, with two in one. Fee multipliers have none, one, two and three decimals,
  and an exponent. `Percentile` is 60, so that three calls can tell the rank below
  from the rank above, for which 95 would need twenty; it is a constant of the module.
  Validated calls are two, of any method each, with one change of a schema and one reward.
  The heap has room for the metadata of a name, what a caller wrote and a copy.
  Wallet addresses, contracts and chains are two each, since only the difference counts.
  Fee targets are 0, which is none, and four on either side of the fees that are made.

`CHECK_DEADLOCK FALSE` stands where the bounds make the model stop: all entries
logged and stored, all numbers used, the emitter closed and the network at its last
ledger, the calls of a service made. The other runs check for deadlock.

### Fairness

- *Queue*: a running request ends, the throttle timer fires, time passes. The queue
  sets no limit on a running request, so this is the RPC client's own timeout.
  Queue timeouts, `clearQueue` and `updateConfig` are not fair: nobody may depend
  on them.
- *Tracker*: answers arrive (or fail), timers fire, time passes. The deadline
  ends a loop whose transaction never becomes final.
- *Subscription*: timers fire, time passes, and a socket that is connecting or
  closing either opens or closes. That a connection succeeds is not assumed:
  `Reconnects` allows for the exhausted attempts.
- *Logger*: timers fire and answers arrive. Failures are bounded by `MaxFailures`;
  without a bound no entry need ever be stored.
- *Health monitor*: the interval ticks, and a check is over at the latest when its
  timeout fires; no answer is assumed. Starts and stops are not fair.
- *Emitter*, *submission* and the other services: no liveness is claimed and none
  assumed.

## 4. Proofs

TLAPS checks these for every value of the constants that satisfies the named
assumptions.

| Theorem | States |
|---|---|
| **Queue** `TypeCorrect`, `SettledRequestsAreGone`, `ActiveCountIsExact`, `NobodyStranded` | its invariants |
| `StartsRespectLimit` | no step starts a request beyond the limit in force |
| `StartsAreFifo` | nobody starts before, or gets in front of, one who has waited longer |
| `OvershootIsBounded` | with the throttle always on, an interval starts at most rate - 1 + max |
| `QueueImplementsExecutor` | the queue refines `BoundedExecutor` |
| **Tracker** `TrackerTypeCorrect`, `RegistryCorrect` | the registry is exactly the live loops |
| `NoTimeoutIsFalse` | a loop that times out has not missed a result |
| `CancelCorrect`, `ImportCorrect` | no step polls after `cancel()`; an import restores what was exported |
| **Submission** `SubmissionTypeCorrect` | types, and the loop stays within the array |
| `NumbersAreConsecutive` | overlapping offline calls get consecutive numbers |
| `ArrayIsSentInOrder` | whatever fails, a prefix of the array is sent, in order, each once |
| **Subscription service** `TypeCorrect`, `StateIsTrue` | `connected` is reported exactly while the socket is open |
| `OneConnection` | one `start()`, one live socket, although two managers reconnect it |
| `ServerUpToDate` | the server knows the subscriptions of an open connection |
| **Emitter** `TypeCorrect`, `DeliveryExact`, `NobodyHearsTwice` | delivery as `Multiplicity` counts it; no event through two polls |
| `ClosedHoldsNothing`, `ClosedCallsNobody` | nothing leaked and nothing called after `close()` |
| **Logger** `TypeCorrect`, `EntriesKept`, `DuplicatesExplained` | nothing lost, nothing in two places, duplicates only after a lost answer |
| **Lifecycle** `LifecycleTyped`, `HistoryIsHeard` | listeners hear everything, once, the first one in order |
| **Sessions** `SessionsTyped`, `SessionsCorrect` | the limit, the ids and the contracts of open sessions |
| **Health** `HealthTyped`, `HealthIsTrue` | the state is what the latest outcomes justify |
| **Fees** `FeesCovered` | the least amounts that cover the buffer, within the limit |
| **Pipeline** `RequestsMeetAll` | entries that were there at the start, and stay, are all met |
| **Plugins** `PluginsAreServed` | installed plugins come to every client, unless a hook failed first |
| **Registries** `RegistriesCorrect` | nothing is passed over; the default and lookups are right |
| **Migrations** `MigrationsReport` | plans are shortest chains; reports tell where the state is |
| **Metadata** `MetadataCorrect` | what is registered is out of reach of everybody's later writes |
| **Requests** `RequestsInBounds` | calls are repeated within their retries, by the server they asked first |
| **Client** `ClientRequestsCorrect` | requests sent, errors thrown and operations counted are as they should be |
| **Event ranges** `RangesComplete` | nothing twice, nothing missed, however the range is halved |
| **Tracing** `TracingIsBounded`, `XdrCacheIsLru` | the latest spans and diagnostics are kept; the cache holds what was used last |
| **Telemetry** `TelemetryLosesNothing` | every event is in one place, or dropped for a reason |
| **Profiling** `ProfilesComplete` | metrics are those of the calls that were on; percentiles are percentiles |
| **Mock server** `ScenarioPlays` | transactions and injected errors play as they were written; what a snapshot holds is at most polled further |
| **Replay** `RecordedIsReplayed` | unchanged contracts pass, changed ones do not |
| **Hook** `HookShowsTruth` | what is shown is what became of the call, unless calls crossed |
| **Batches** `BatchReportsTruth` | results are what became of the transactions, numbers are in order |
| **Offline packages** `PackagesArrive` | what is applied is what was built, each number once |
| **Vault calls** `VaultCallsKept` | what settles is within the caller's bounds and what the wallet signed |
| **Validated calls** `WrappedCallsJudged` | what a schema refuses is not sent, nor handed over |
| **Wallet context** `WalletIsShown` | what is shown is what the watcher last reported, unless an answer was overtaken |
| **Demonstration** `DetectedWalletIsShown` | what is shown is what a reload restores, as long as the store has not failed; the newest balance is of the account shown |
| **Simulations** `SimulationsCompare` | which result is "cheapest" and "most efficient"; a limit other than 0 that is met is met in numbers |
| **Conversions** `ConversionsCorrect` | integers, specifications and signers are read as they were written |
| **Services** `ClientsExtended`, `VaultToldTruth`, `ObservationsKept`, `CallsServed` | the run's properties `ClientsAreExtended`, `VaultTellsTruth`, `ObservationsAreKept` and `CallsAreServed`, of `ServicesSpec` as a whole |
| `ServicesTyped` | `ServicesTypeOK`, the types of all parts |

**ConcurrencyQueueProofs** rests on `RequestsAssumption` (finitely many requests, so
that they can be counted), `ConfigAssumption` (limits and rates at least 1) and
`IntervalAssumption`. The invariant is inductive as a whole and not in parts:

    IInv == TypeOK, PendingIsWaitingOrRunning, ActiveCountExact,
            TimeoutsAreWaiting, NoStrandedQueue

A batch adds its length to the counter, and this is the number of new running
requests only because a waiting request is waiting once and not running
(`PendingIsWaitingOrRunning`). A waiter is not stranded when a request completes
only because the counter is exact: if it were too high, the loop would start
nobody. A queue timeout keeps `PendingIsWaitingOrRunning` only because it can fire
only for somebody who waits (`TimeoutsAreWaiting`). The lemmas on queues
(`PrefixCardinality`, `SuffixOfQueue`, `AppendToQueue`, `RemovalFromQueue`)
say what cutting, appending and removing do to order and membership;
`ProcessQueueMoves` says the same of `processQueue()`, once, for its three callers.
`StartsAreFifo` and `QueueImplementsExecutor` are step theorems above the
invariant. `OvershootIsBounded` adds one conjunct that is inductive by itself.

**StellarClientProofs** has three parts. *Tracker*: it rests on `TimeAssumption` and `LoopsAssumption` (the mark
for "no loop" is not a loop). Its invariant adds `LoopsFit`, what holds of every loop
between two of its turns, and `ExportedOnce`. The decisive part of `LoopsFit`: if a
sleeping loop's hash is final by now, it became so after the loop last asked. A
timeout happens on waking, so this is what makes it a true one. `ImportCorrect`
is a step property and needs that exported entries are one for a hash, because the
import of one must not undo another.

*Submission*: it rests on `BoundsAssumption`; the calls may be any set.
Its invariant adds to the two properties and the types that an answer under way
carries a number (`ReadIsNumber`) and that the numbers handed out are finitely
many. A step of `Offline` extends an interval by one at its upper end, which keeps
it an interval (`OneMoreNumber`).

*Subscription service*: it rests on `DelayAssumption`, `SocketsAssumption` (no
socket is the mark for none) and `AttemptsAssumption`. The invariant is `Common`, which
holds however often the application connects, and `Alone`, for one `start()`. `Alone`
is why two managers do not make two connections (`Sole` and `Agree`): there are no
overwritten timers, both timers are due at the same time, neither is pending while a
socket lives that has been heard of, and both managers have made the same number of
attempts, unless one of them has used up its own. So the first timer to fire
connects, and the second finds a socket that is connecting.

**ContractEventEmitterProofs** rests on `KeysAssumption`. The invariant adds that the
cursor is within the log and nobody joined beyond it, that one poll at most is under way
(`OnePoll`), and that no listener has had anything beyond the cursor
(`NothingAhead`), which is why the next page cannot be a second delivery.
Four keys are emitted for an event, and a page is a loop over events in which `once()`
listeners leave; `KeysMakeTheEvent` and `PageIsPassed` say what the loop adds to each
listener's count, by induction over the events of the page.

**CloudWatchLoggerProofs** rests on `ConfigAssumption`. `Placed` says where an entry is:
in the queue, in one flush, or stored, and only with the caller's `log()` done. The
queue and every batch are without repetition, and an entry in the logger that is stored
already is one whose answer is under way or was lost. The lemmas on placing (`AppendPlaced`, `SplicePlaced`,
`GiveUpPlaced`, ...) say this of one move each, and the actions cite them.

**ServicesProofs** treats nine components, each with its own specification and
invariant, resting on the assumption of its module.

- *Sessions* (`IsFiniteSet(SessionIds)` besides): everything open is in the Map, with
  an id of its own, so that the limit on the Map limits what is open.
- *Health*: the consecutive failures are those the recent outcomes start with
  (`StatusTells`), and an endpoint's checks are the rounds, less the one under way.
  Counters are modulo `Modulus`; `ModOnce` and `ModBelow` do their arithmetic.
- *Fees*: `CeilCorrect` for rounding up. That 10 to a natural power is a positive
  natural is part of `FeeAssumption`, since the provers do not know powers.
- *Pipeline*: whoever was there when the request began has been called or is still
  ahead of the hook that runs (`MetSoFar`), although insertions move the entries.
- *Plugins*: an installed plugin is in the client, excused by a failed hook, or on
  its way to it in a task (`OnItsWay`).
- *Registries*: entries have places of their own, and what was there all along and is
  behind the search did not support the contract (`SearchSound`).
- *Migrations*: between two turns of the search (`ChainSearchSound`) each waiting node
  has a shortest path to its version, the queue is in order of length with at most one
  step between first and last, and every edge of what is done has been followed, so
  that nothing unvisited is nearer than the head. Each turn is done with one more
  version, so the search ends within as many turns as there are versions, and a
  shortest chain has no step twice, so it fits `MaxSteps`. The runner's invariant says
  where the state is while going forward and while going back (`Forward`, `Backward`)
  and what its report is then worth (`Outcome`). The versions have to be finitely many,
  as a registry makes them.

- *Metadata*: what two names refer to, and what a name and the caller refer to, is
  disjoint (`Kept`). A clone says the same as its original, out of cells that were free
  (`CloneIsNew`), so writing to what the caller holds changes nothing registered.
- *Lifecycle*: a listener may emit from within an emit, so the invariant is about the
  whole stack: frames hold different events; an emit has called nobody behind the listener
  it is in (`InOrder`); whoever was subscribed when an event was emitted has heard it, or
  a frame comes to him (`AllServed`); and the first listener, who is served before any
  other can interfere, has heard each record's states in the order of its history
  (`FirstHears`). `AdvanceServes` is the step of the iteration, once for its two callers.

**RequestProofs** is about the way of a request, and about what is observed on it.

- *Requests*: what a call has sent is its tries and one more, except while a delay runs,
  and all went to one server (`CallSound`); a delay with jitter stays within `maxDelay`
  (`RequestAssumption` says that powers of two are natural numbers, as `FeeAssumption`
  does of those of ten).
- *Client*: requests are counted as a product, rounds of the application times repeats
  of the RPC client, of which the last round may be unfinished (`SentSound`). The lemmas
  on errors (`ToAxionveraFits`, ...) follow an error through every function that
  rewrites it.
- *Event ranges*: `EventsListed` and `PageHolds` say what an honest page is. Each call on
  the stack is asked for a part of the range by the call below it (`TaskOf`), has collected
  its part's events up to its cursor (`Collects`), and gives all of them, or, of a single
  page, those without a gap (`Serves`). The events of the first half come before those
  of the second because ledgers do (`HalvesHold`). Completeness is excused only
  by events that a call had collected when its page was found too large.

- *Tracing*: there are no more spans than `maxSpans` or than were ever active at once
  (`mostActive`), and fewer than `maxSpans` only if none was dropped (`SpansInBounds`). The
  order of the cache's keys is that of their last use (`UsedSince`), so the first key,
  which is the one dropped, is the one used longest ago.
- *Telemetry*: what was discarded, each batch handed over, and what is buffered follow on
  from one another without a gap (`Accounted`, `FollowOn`), also when the handler tracks
  while it runs.
- *Profiling*: every call recorded since `clear()` is there once, under a number of its own
  (`MetricsTold`). The percentile is the duration at a rank of a sorted list; by
  counting, this is the least duration that enough of the calls stay within.
- *Mock server*: an entry of the heap is what it was at the snapshot or was polled since
  (`Progressed`); a hash is used once (`SentOnce`); errors thrown and pending are together
  those injected, for each method in order (`ErrorsKept`).
- *Replay*: effects return what the contract's count says (`EffectsInOrder`), recorded
  interactions have the results of their calls (`InteractionsTrue`), and what is replayed
  is a part, from the first, of what was recorded (`ReplayedInOrder`); as long as every
  call has its handler, the replay counts as the contract did.
- *Conversions*: a number is its quotient times the divisor, and the rest; joined from the most
  significant, limbs are the quotients one after the other (`LimbsJoin`), and a byte of
  LEB128 adds to the quotient above it (`ReadsEncoded`). What is joined from parts has
  each of them in its place (`PlacesOfParts`), and there the loops find it: after as
  many turns as a file has sections `readSpecSection()` stands behind the last, with the
  entries of those named for them (`SpecRead`). Files and lists of any length are covered
  by these lemmas; `ConversionNext` calls with short ones.

**VaultProofs** is about what a user is shown and what the ledger does.

- *Hook*: while no two calls have crossed, the shared state is that of the only call in
  flight (`ShowsTheCall`); a call that was not submitted has no transaction (`NothingEarly`).
- *Batches*: a result goes with what its transaction met (`ItemSound`). Sent all at once,
  they begin together (`Together`); one by one, they are done in turn, one at most is
  pending, the ledger has them in order, and as long as all outcomes are known the next
  number is the one the account waits for (`Sequential`).
- *Offline packages*: whatever travels is a transaction that some builder built
  (`BuiltByBuilders`, `PackageSound`, `WasBuilt`), and the ledger has applied each number
  once (`NumbersUsedOnce`). Builders have ids of their own.
- *Vault calls*: what a call still has to await says what it has learnt so far (`Staged`),
  so a call whose transaction was sent has been through all of its checks (`IsGuarded`);
  the ledger takes each number once (`NumbersTaken`).
- *Validated calls*: `WrappedKept` says of each stage what the schemas asked at the two
  moments have allowed, and, of `getVaultInfo()`, that each field was true during the call.
- *Wallet context*: an answer under way is true as long as the extension has not changed
  since it was read (`ReadKept`), and what is shown is at least as new as the watcher's last
  report unless an answer was overtaken (`ShownKept`). The assumption says that an
  address differs from the words a reply may be.
- *Demonstration*: what is stored is what is connected while the store works (`KeptIsShown`;
  each of its writers writes what it shows, or remembers that it could not), and the newest
  fetch is for the account that is shown (`FetchKept`).
- *Simulations*: JavaScript's order of strings is strict and transitive (`SortsPrecedes`,
  `NoneSortsBeforeItself`, `SortingIsTransitive`), so a loop that replaces the best by a
  better one ends with the first of the best. A base fee has no leading zero, as the network writes it;
  then joined digits are worth at least the sum, and a fee that meets a target as it is
  computed meets it truly, the target 0 excepted, which the code does not compare.

**MCServicesProofs** is about `ServicesSpec`. While a behaviour is one of a component, a step
of `ServicesNext` is one of that component, or leaves it alone, and so keeps its invariant. This is said of
four groups (`ExtensionsIInv`, `TellingIInv`, `ObservingIInv`, `ServingIInv`), and of
all types together (`TypedIInv`); the theorems of the components' own modules do the rest.

Bounds on the length of behaviours (`MaxSequence`, `MaxTime`, `MaxMade`, ...) restrain
actions and are any numbers in the theorems. Assumptions on other constants are those the
code justifies: limits of at least 1 where a constructor insists or a default gives one,
names that differ from the marks for none, sets that are not empty where a caller passes
a member of them.

**Induction over data.** The library's induction theorems are out of the provers' reach,
because they take an operator as a parameter. Where a definition recurs (the emitter's
page, the search for a path, the events of a range) it is a recursive function, and `SetInduction` (a set of
numbers that has 0 and the next of each of its numbers is all of them; `UpFromZero`
in other modules) serves instead:
with it is shown that the function exists, and then what is true of it. `IterationExists`
says so of any function from one turn of a loop to the next. Where a best or a
first element is wanted, the set of numbers has a least one (`LowestOf`, `LeastOf`).

**Found by proving.** In two modules a `CASE` had guards that overlap, which in TLA+ leaves
the choice open where TypeScript takes the first branch; they are written in the
order of the code now. Some properties rest on more than the runs had shown: on builders
with ids of their own (`OfflineAssumption`), on addresses that no reply can be
mistaken for (`WalletContextAssumption`), on base fees as the network writes them
(`SimulationAssumption`). Their modules name these assumptions.

**Only model-checked**: liveness under fairness (`EveryRequestSettles`, `EveryLoopEnds`,
`EventuallyStored`, `Reconnects`, `MonitorKeepsChecking`), which the installed provers
do not reach, nor `ENABLED`. Every safety property of the passing runs is a theorem.
No module contains a `RECURSIVE` operator.

## 5. Confirming that the properties can fail

For every property of every passing run, `PROJECT.json` names a mutant: an operator
that stands just before the definition it replaces, with one slip - a dropped
guard, a missing reset, an off-by-one. Under the mutant TLC finds the property
violated in the same configuration. A property of `MCServices` that groups several
components has a mutant, or more, in each of them.

## 6. Disagreements between the code and what it says

1. `utils/concurrencyQueue.ts:68` tests the throttle once per batch; with two free
   slots and `throttleRate` 1 an interval starts two requests. Line 5: "Requests
   per second when throttling is enabled".
2. `client/stellarClient.ts:1285` throws after `cancel()`, so the awaiters are
   rejected. Line 140: "without rejecting outstanding awaiters".
3. `client/stellarClient.ts:782` goes on when the answer has arrived and 100 ms have
   passed, whatever the status. Line 746: "waiting for each to succeed before
   submitting the next".
4. `utils/logging/cloudwatch/cloudWatchLogger.ts:162` sends one batch at
   `destroy()`. Line 161: "Flush remaining logs".
5. `packages/core/src/client/stellarClient.ts:382` assigns `this.rpc`, a getter without
   a setter (line 273), so the switch to the next server throws and the call fails
   without having asked it. Line 416: "Automatically retries and fails over to backup
   URLs on failure."
6. `testing/MockRpcServer.ts:139` copies the map of transactions and not its entries, which
   `getTransaction()` changes, so `restore()` brings back a transaction as far as it was
   polled meanwhile. `testing/MockNetwork.ts:95`: "Restore server state from a previously
   taken snapshot"; `tests/mockNetwork.test.ts:442`: "snapshot/restore preserves full
   scenario state" (the test looks at an account and the ledger only).

Not checked by a run, because they are read off one line each:

7. `builders/offlineTransactionBuilder.ts` exports as `sequence` the number before the one
   that the transaction consumes. `types/offlineTransaction.ts:59` and
   `src/docs/offline-transactions.md:73` call it the number "consumed". No property says
   that either is right.
8. `packages/core/src/transaction/transactionSimulator.ts:242` tests `options.maxFee &&`
   first, so a limit of 0 allows every fee. Line 58: "Maximum acceptable fee".

Observed, without a document that says otherwise, or outside what a run states:

- *Tracker, logger, submission, subscription*: a loop that is cancelled but asleep is
  handed to new callers and exported; `destroy()` during `initialize()` of the logger
  leaves a flush timer, and a failed batch is put back behind entries sent
  meanwhile; each use of the cached sequence number renews its lifetime, and a network
  answer overwrites a number advanced offline; `SubscriptionService.subscribe()` throws
  (`events/eventDispatcher.ts:74`); `connect()` on an open connection leaves the first
  one open; the emitter reads from the ledger of its first poll on.
- *Event ranges*: an answer that is too large after the first page drops what the
  earlier pages brought (`client/stellarClient.ts:1733-1755`; the test at
  `tests/stellarClient.events.test.ts:46` splits on the first page); the second half
  has no cursor, so events before the caller's cursor may return.
- *Requests*: `retry()` never repeats a failure without a status, though such become
  NetworkErrors; an application that wraps `getHealth()` in `retry()` multiplies the
  attempts; `getNetwork()`, `sendTransaction()` and `simulateTransaction()` drop the
  status. In packages/core a failure that is not worth a retry switches servers
  too, and Retry-After is capped by `maxDelay`.
- *Fees*: `simulateBatch()` hands fee times count to a builder that charges per operation
  (`client/stellarClient.ts:1007`); `validateFee()` does not compare its
  recommendation with `maxFee`.
- *Sessions, plugins*: sessions closed by themselves count toward the limit until
  `closeSession()`; a client that is constructed with the manager and also given to
  `applyToClient()` has a plugin's middleware twice; pre hooks pass over an entry
  that moves up.
- *Telemetry, profiling*: `setEnabled(false)` leaves what the handler tracks in the
  last flush buffered; a snapshot holds live counters; `updateConfig` of `maxSpans` and
  `maxDiagnosticEvents` has no effect; profiling metrics are unbounded, and a call in
  flight at `disable()` is recorded.
- *Registries*: `findAdapter()` can return an adapter that was unregistered while it was
  asked; after the default is unregistered there is none although adapters are left; the
  id of an earlier descriptor stays when its type is registered with another.
- *Vault, batches*: `withdraw()` reads the wallet's account twice; the path with
  authorization skips the network check, the builder path skips the slippage check.
  In a parallel batch online all transactions get one number; `estimateBatchCost()`
  offline spends cached numbers; the status ERROR of `sendTransaction` is polled in
  vain; `buildTransactionWithMemo()` drops the operations for id, hash and return memos.
- *Simulator*: `minResourceFee` is a string, so fees are joined and compared as text;
  failed simulations count as cheapest; `estimateBatchResources()` is always in its
  catch block.
- *Wallets*: overtaken answers, and failed refreshes, overwrite a newer report of the
  watcher; `loading` ends while another read runs. In the demonstration
  `accountsChanged` rewrites a connected Solana wallet, the answer about a chain
  reconnects a wallet disconnected meanwhile, and a late restore fetches another
  wallet's balance; a wallet that could not be stored, or whose removal could not, is not
  told from one that was.
- *Offline packages*: building twice gives one number; exporting another builder's
  transaction takes the exporter's network and number.
- *Mock server*: a default simulation has no effect behind a named one; `getAccount`
  numbers never advance.

## 7. Not modelled

- *Pure predicates and formats*: validation rules but the one on amounts, XDR construction
  and inspection, estimation, SEP-7, the other soroban values, network configuration, and
  the types and code generated from a specification.
- *State with synchronous access only*: transaction history,
  configuration, the service container.
- *Thin wrappers of outside software*: keypair and browser connectors of `src/src`, the
  faucet, webhooks, the RPC transport.
- *Of modelled components*: the filter of listeners by transaction (lifecycle), decoding
  of events (emitter), dispatching of the subscription service, which cannot be reached,
  means and percentages of latencies (health), gauges, histograms and anonymization
  (metrics), memos, timeouts and progress callbacks (vault), recommendations in words
  (simulator), accounts and events that the mock server returns as they were set.
- *Not the program*: examples, the templates, `docs/api/_media`, benchmarks, and the
  files of `packages/core` that repeat those of `src/src`. They are most of the lines that
  no definition of these modules stands for.

## 8. Plan

1. Done: the six components with runs of their own; the twenty-six of `MCServices`;
   the abstract specification of the queue; the theorems of section 4, which state every
   safety property of the runs.
2. Abstract specifications worth a refinement: an at-least-once log shipper for the
   logger, a set of pending transactions for the tracker.
3. Compositions worth a module: the queue below the tracker's polls, and a vault call
   whose numbers come from the cache of `OfflineSubmission`.

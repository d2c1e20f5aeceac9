----------------------------- MODULE MCServices -----------------------------
(***************************************************************************)
(* Instances for TLC of the components that keep to themselves.  No step   *)
(* of one reads or writes the state of another, so that a behaviour of the *)
(* run is one of a single component, `part', and the rest stays as it is.  *)
(***************************************************************************)
EXTENDS TransactionLifecycle, SessionManager, RpcHealthMonitor, MiddlewarePipeline,
        PluginManager, Migrations, EventRange, RpcRequests, ClientFees, VaultCalls, UseVault,
        Telemetry, Tracing, Replay, WalletContext, BatchTransactions, MockRpc,
        ClientRequests, Simulations, OfflinePackages, WalletDetection,
        Registries, Profiling, ValidatedVault, ContractMetadata, Conversions

VARIABLE part

Parts == {"lifecycle", "sessions", "health", "pipeline", "plugins", "migrations", "events",
          "requests", "fees", "vault", "hook", "telemetry", "tracing", "xdr", "replay", "wallet",
          "batch", "mock", "client", "simulations", "offline", "detection",
          "adapters", "capabilities", "profiling", "validated", "metadata", "conversions"}

\* Steps: a -> b and b -> c, both ways round a fork, and a step registered twice.
MCStep(id, from, to, rollback) == [id |-> id, from |-> from, to |-> to, rollback |-> rollback]
MCSteps ==
  {MCStep("a", "v1", "v2", TRUE), MCStep("b", "v1", "v3", TRUE), MCStep("b", "v1", "v3", FALSE),
   MCStep("c", "v2", "v4", TRUE), MCStep("d", "v4", "v5", TRUE), MCStep("e", "v3", "v5", TRUE)}
MCJumps == {<<"v1", "v5">>, <<"v3", "v3">>}

MCBatches == {[parallel |-> FALSE, length |-> 3], [parallel |-> TRUE, length |-> 2]}

MCBaseFees == {<<1, 0, 0>>, <<2, 0, 0>>}
MCResourceFees == {<<5>>, <<3, 0>>, <<4, 0>>, <<9, 0, 0>>}

\* Two builders of one account, and one of another account and network.
MCBuilder(id, account, number, network) ==
  [id |-> id, account |-> account, number |-> number, network |-> network]
MCBuilders ==
  {MCBuilder(1, "A", 1, "net"), MCBuilder(2, "A", 2, "net"), MCBuilder(3, "B", 1, "other")}

MCLedgerOf == <<1, 2, 2, 4>>

Decimal(digits, places) == [digits |-> digits, places |-> places, exponent |-> FALSE]
MCMultipliers ==
  {Decimal(1, 0), Decimal(115, 2), Decimal(15, 1), Decimal(1001, 3),
   [digits |-> 10 ^ 6, places |-> 0, exponent |-> TRUE]}

ServicesInit ==
  /\ part \in Parts
  /\ LifecycleInit /\ SessionInit /\ HealthInit /\ PipelineInit /\ PluginInit
  /\ MigrationInit /\ RangeInit /\ RequestInit /\ FeeInit /\ VaultInit
  /\ HookInit /\ TelemetryInit /\ TracingInit /\ ReplayInit
  /\ WalletInit /\ BatchInit /\ MockInit /\ ClientInit /\ SimulationInit
  /\ OfflineInit /\ DetectionInit /\ RegistryInit /\ ProfilingInit
  /\ ValidatedInit /\ MetadataInit /\ ConversionInit
  \* One initial state of a component whose behaviours the others are not part of
  /\ part # "wallet" => connectorKind = "own" /\ ~extension.allowed
  /\ part # "batch" => batch.parallel /\ cachedNumber = NoNumber
  /\ part # "client" => options.retries /\ options.wallet
  /\ part # "offline" => lastUsed = [a \in OfflineAccounts |-> 1]
  /\ part # "detection" => stored = NoWallet
  /\ part # "profiling" => enabled /\ profilingLevel = "basic"

ServicesNext ==
  /\ UNCHANGED part
  /\ IF part = "lifecycle" THEN LifecycleNext ELSE UNCHANGED lifecycleVars
  /\ IF part = "sessions" THEN SessionNext ELSE UNCHANGED sessionVars
  /\ IF part = "health" THEN HealthNext ELSE UNCHANGED healthVars
  /\ IF part = "pipeline" THEN PipelineNext ELSE UNCHANGED pipelineVars
  /\ IF part = "plugins" THEN PluginNext ELSE UNCHANGED pluginVars
  /\ IF part = "migrations" THEN MigrationNext ELSE UNCHANGED migrationVars
  /\ IF part = "events" THEN RangeNext ELSE UNCHANGED rangeVars
  /\ IF part = "requests" THEN RequestNext ELSE UNCHANGED requestVars
  /\ IF part = "fees" THEN FeeNext ELSE UNCHANGED feeCall
  /\ IF part = "vault" THEN VaultNext ELSE UNCHANGED vaultVars
  /\ IF part = "hook" THEN HookNext ELSE UNCHANGED hookVars
  /\ IF part = "telemetry" THEN TelemetryNext ELSE UNCHANGED telemetryVars
  /\ CASE part = "tracing" -> ObservingNext
       [] part = "xdr" -> CacheNext
       [] OTHER -> UNCHANGED tracingVars
  /\ IF part = "replay" THEN ReplayNext ELSE UNCHANGED replayVars
  /\ IF part = "wallet" THEN WalletNext ELSE UNCHANGED walletVars
  /\ IF part = "batch" THEN BatchNext ELSE UNCHANGED batchVars
  /\ IF part = "mock" THEN MockNext ELSE UNCHANGED mockVars
  /\ IF part = "client" THEN ClientNext ELSE UNCHANGED clientVars
  /\ IF part = "simulations" THEN SimulationNext ELSE UNCHANGED simulationVars
  /\ IF part = "offline" THEN OfflineNext ELSE UNCHANGED offlineVars
  /\ IF part = "detection" THEN DetectionNext ELSE UNCHANGED detectionVars
  /\ CASE part = "adapters" -> AdapterNext
       [] part = "capabilities" -> DescriptorNext
       [] OTHER -> UNCHANGED registryVars
  /\ IF part = "profiling" THEN ProfilingNext ELSE UNCHANGED profilingVars
  /\ IF part = "validated" THEN ValidatedNext ELSE UNCHANGED validatedVars
  /\ IF part = "metadata" THEN MetadataNext ELSE UNCHANGED metadataVars
  /\ IF part = "conversions" THEN ConversionNext ELSE UNCHANGED conversion

servicesVars ==
  <<part, lifecycleVars, sessionVars, healthVars, pipelineVars, pluginVars, migrationVars,
    rangeVars, requestVars, feeCall, vaultVars, hookVars, telemetryVars, tracingVars, replayVars,
    walletVars, batchVars, mockVars, clientVars, simulationVars, offlineVars, detectionVars,
    registryVars, profilingVars, validatedVars, metadataVars, conversion>>

ServicesSpec ==
  /\ ServicesInit /\ [][ServicesNext]_servicesVars
  /\ part = "health" => HealthFairness

-----------------------------------------------------------------------------
(* Properties, of the components and of groups of them *)

(* The component whose behaviour it is has a state of its type.
   (src/session/sessionManager.ts:43, and every other component) *)
ServicesTypeOK ==
  CASE part = "lifecycle" -> LifecycleTypeOK
    [] part = "sessions" -> SessionTypeOK
    [] part = "health" -> HealthTypeOK
    [] part = "pipeline" -> PipelineTypeOK
    [] part = "plugins" -> PluginTypeOK
    [] part = "migrations" -> MigrationTypeOK
    [] part = "events" -> RangeTypeOK
    [] part = "requests" -> RequestTypeOK
    [] part = "fees" -> FeeTypeOK
    [] part = "vault" -> VaultTypeOK
    [] part = "hook" -> HookTypeOK
    [] part = "telemetry" -> TelemetryTypeOK
    [] part \in {"tracing", "xdr"} -> TracingTypeOK
    [] part = "replay" -> ReplayTypeOK
    [] part = "wallet" -> WalletTypeOK
    [] part = "batch" -> BatchTypeOK
    [] part = "mock" -> MockTypeOK
    [] part = "client" -> ClientTypeOK
    [] part = "simulations" -> SimulationTypeOK
    [] part = "offline" -> OfflineTypeOK
    [] part = "detection" -> DetectionTypeOK
    [] part \in {"adapters", "capabilities"} -> RegistryTypeOK
    [] part = "profiling" -> ProfilingTypeOK
    [] part = "validated" -> ValidatedTypeOK
    [] part = "metadata" -> MetadataTypeOK
    [] part = "conversions" -> ConversionTypeOK

(* A request passes the middlewares of its pipeline, a client has those of the
   plugins that were installed, and the registries find what was registered,
   whatever becomes of the objects they were given and have handed out.
   (src/middleware/pipeline.ts:43, src/plugin/pluginManager.ts:60,
    src/adapters/adapterRegistry.ts:33, src/registry/contractMetadataRegistry.ts:65) *)
ClientsAreExtended ==
  CASE part = "pipeline" -> RequestMeetsAll
    [] part = "plugins" -> PluginsReachClients
    [] part \in {"adapters", "capabilities"} -> RegistriesTellTruth
    [] part = "metadata" -> MetadataIsKept
    [] OTHER -> TRUE

(* What the Stellar client does for a call: events of a range are read
   completely, requests are repeated within their bounds and fail with the
   SDK's errors, and fees cover what a simulation asked for; what simulations are
   compared by, and that a fee limit which is not 0 is a limit; and what values, specifications and signers are read from.
   (src/client/stellarClient.ts:1697, 1347, 476;
    packages/core/src/client/stellarClient.ts:392,
    packages/core/src/transaction/transactionSimulator.ts:155,
    packages/core/src/utils/simulationParser.ts:62) *)
CallsAreServed ==
  CASE part = "events" -> RangeIsComplete
    [] part = "requests" -> RequestsAreRepeatedInBounds
    [] part = "fees" -> FeesAreCovered
    [] part = "client" -> ClientRequestsEnd
    [] part = "simulations" -> SimulationsAreCompared
    [] part = "conversions" -> ConversionsAreExact
    [] OTHER -> TRUE

(* Vault calls take effect as they were made, and are checked by the schemas that
   were registered, the hooks show how they end and
   which wallet makes them, a page shows the wallet a reload restores unless
   localStorage failed, a batch reports what became of its transactions, and
   a transaction built offline is applied as it was built.
   (packages/core/src/contracts/VaultContract.ts:130, src/validation/engine.ts:186,
    packages/react/src/useVault.ts:83, packages/react/src/index.ts:131,
    packages/core/src/transaction/enhancedTransactionBuilder.ts:97,
    src/builders/offlineTransactionBuilder.ts:129,
    src/wallet-integration-203/src/hooks/useWalletDetection.jsx:193) *)
VaultTellsTruth ==
  CASE part = "vault" -> VaultCallsAreGuarded
    [] part = "validated" -> WrappedCallsAreChecked
    [] part = "hook" -> HookTellsTruth
    [] part = "wallet" -> WalletContextTellsTruth
    [] part = "detection" -> DetectionTellsTruth
    [] part = "batch" -> BatchTellsTruth
    [] part = "offline" -> PackagesTravel
    [] OTHER -> TRUE

(* What is observed of the SDK is kept within its limits, handed over once, and
   replayed as it was; profiles are complete; and the mock server plays a test's
   scenario.
   (src/telemetry/telemetryService.ts:77, src/observability/tracer.ts:19,
    src/utils/xdrCache.ts:18, src/replay/engine.ts:29, src/profiling/profilingService.ts:95,
    src/testing/MockRpcServer.ts:163) *)
ObservationsAreKept ==
  CASE part = "telemetry" -> TelemetryAccountsForAll
    [] part = "tracing" -> MemoryIsBounded
    [] part = "xdr" -> CacheIsLru
    [] part = "replay" -> ReplayReproduces
    [] part = "profiling" -> ProfilesAreComplete
    [] part = "mock" -> MockPlaysScenario
    [] OTHER -> TRUE

(* The endpoints are checked for ever, in the behaviours of the monitor.
   (src/monitoring/rpcHealthMonitor.ts:195) *)
MonitorKeepsChecking == part = "health" => EndpointsCheckedForever
=============================================================================

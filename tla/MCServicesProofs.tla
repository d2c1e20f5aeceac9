-------------------------- MODULE MCServicesProofs --------------------------
(***************************************************************************)
(* What MCServices says of its components, and of groups of them, for      *)
(* every value of their constants.                                         *)
(***************************************************************************)
EXTENDS MCServices, ServicesProofs, VaultProofs, RequestProofs

-----------------------------------------------------------------------------
(* The parts that clients are extended with *)

RegistryParts == {"adapters", "capabilities"}

ExtensionsIInv ==
  /\ part = "pipeline" => PipelineIInv
  /\ part = "plugins" => PluginIInv
  /\ part \in RegistryParts => RegistryIInv
  /\ part = "metadata" => MetadataIInv

\* Whichever component takes the steps, it starts as its module says.
LEMMA ExtensionsInvInit == ServicesInit => ExtensionsIInv
<1> SUFFICES ASSUME ServicesInit PROVE ExtensionsIInv
  OBVIOUS
<1>1. PipelineInit /\ PluginInit /\ RegistryInit /\ MetadataInit
  BY DEF ServicesInit
<1>2. PipelineIInv
  BY <1>1, PipelineInvInit
<1>3. PluginIInv
  BY <1>1, PluginInvInit
<1>4. RegistryIInv
  BY <1>1, RegistryInvInit
<1>5. MetadataIInv
  BY <1>1, MetadataInvInit
<1>6. QED
  BY <1>2, <1>3, <1>4, <1>5 DEF ExtensionsIInv

\* What a step of the services is for the component whose behaviour it is.
LEMMA PartSteps ==
  ASSUME [ServicesNext]_servicesVars
  PROVE  /\ part' = part
         /\ part = "pipeline" => [PipelineNext]_pipelineVars
         /\ part = "plugins" => [PluginNext]_pluginVars
         /\ part \in RegistryParts => [RegistryNext]_registryVars
         /\ part = "metadata" => [MetadataNext]_metadataVars
<1>1. CASE UNCHANGED servicesVars
  BY <1>1 DEF servicesVars
<1>2. CASE ServicesNext
  <2>1. /\ part' = part
        /\ part = "pipeline" => PipelineNext
        /\ part = "plugins" => PluginNext
        /\ part = "metadata" => MetadataNext
    BY <1>2 DEF ServicesNext
  <2>2. CASE part = "adapters"
    <3>1. AdapterNext
      BY <1>2, <2>2 DEF ServicesNext
    <3>2. QED
      BY <2>1, <2>2, <3>1 DEF RegistryNext
  <2>3. CASE part = "capabilities"
    <3>1. part # "adapters"
      BY <2>3
    <3>2. DescriptorNext
      BY <1>2, <2>3, <3>1 DEF ServicesNext
    <3>3. QED
      BY <2>1, <2>3, <3>2 DEF RegistryNext
  <2>4. CASE part \notin RegistryParts
    BY <2>1, <2>4
  <2>5. QED
    BY <2>2, <2>3, <2>4 DEF RegistryParts
<1>3. QED
  BY <1>1, <1>2

\* No step of another component disturbs what a component keeps.
LEMMA ExtensionsInvStep ==
  ExtensionsIInv /\ [ServicesNext]_servicesVars => ExtensionsIInv'
<1> SUFFICES ASSUME ExtensionsIInv, [ServicesNext]_servicesVars PROVE ExtensionsIInv'
  OBVIOUS
<1>1. part' = part
  BY PartSteps
<1>2. CASE part = "pipeline"
  <2>1. PipelineIInv /\ [PipelineNext]_pipelineVars
    BY <1>2, PartSteps DEF ExtensionsIInv
  <2>2. PipelineIInv'
    BY <2>1, PipelineInvStep
  <2>3. QED
    BY <1>1, <1>2, <2>2 DEF ExtensionsIInv, RegistryParts
<1>3. CASE part = "plugins"
  <2>1. PluginIInv /\ [PluginNext]_pluginVars
    BY <1>3, PartSteps DEF ExtensionsIInv
  <2>2. PluginIInv'
    BY <2>1, PluginInvStep
  <2>3. QED
    BY <1>1, <1>3, <2>2 DEF ExtensionsIInv, RegistryParts
<1>4. CASE part \in RegistryParts
  <2>1. RegistryIInv /\ [RegistryNext]_registryVars
    BY <1>4, PartSteps DEF ExtensionsIInv
  <2>2. RegistryIInv'
    BY <2>1, RegistryInvStep
  <2>3. QED
    BY <1>1, <1>4, <2>2 DEF ExtensionsIInv, RegistryParts
<1>5. CASE part = "metadata"
  <2>1. MetadataIInv /\ [MetadataNext]_metadataVars
    BY <1>5, PartSteps DEF ExtensionsIInv
  <2>2. MetadataIInv'
    BY <2>1, MetadataInvStep
  <2>3. QED
    BY <1>1, <1>5, <2>2 DEF ExtensionsIInv, RegistryParts
<1>6. CASE part \notin RegistryParts \cup {"pipeline", "plugins", "metadata"}
  BY <1>1, <1>6 DEF ExtensionsIInv
<1>7. QED
  BY <1>2, <1>3, <1>4, <1>5, <1>6

\* The invariant says what the run checks.
LEMMA ExtensionsInvSays == ExtensionsIInv => ClientsAreExtended
<1> SUFFICES ASSUME ExtensionsIInv PROVE ClientsAreExtended
  OBVIOUS
<1>1. part = "pipeline" => RequestMeetsAll
  BY PipelineInvSays DEF ExtensionsIInv
<1>2. part = "plugins" => PluginsReachClients
  BY PluginInvSays DEF ExtensionsIInv
<1>3. part \in RegistryParts => RegistriesTellTruth
  BY RegistryInvSays DEF ExtensionsIInv
<1>4. part = "metadata" => MetadataIsKept
  BY MetadataInvSays DEF ExtensionsIInv
<1>5. QED
  BY <1>1, <1>2, <1>3, <1>4 DEF ClientsAreExtended, RegistryParts

\* What extends a client does so whenever it takes steps: every middleware sees a
\* request (src/middleware/pipeline.ts:58), plugins reach all clients
\* (src/plugin/pluginManager.ts:60), registries tell of what was registered
\* (src/adapters/adapterRegistry.ts:33), and metadata stays what was registered
\* (src/registry/contractMetadataRegistry.ts:65).
THEOREM ClientsExtended == ServicesSpec => []ClientsAreExtended
<1>1. ServicesInit => ExtensionsIInv
  BY ExtensionsInvInit
<1>2. ExtensionsIInv /\ [ServicesNext]_servicesVars => ExtensionsIInv'
  BY ExtensionsInvStep
<1>3. ExtensionsIInv => ClientsAreExtended
  BY ExtensionsInvSays
<1>4. QED
  BY <1>1, <1>2, <1>3, PTL DEF ServicesSpec

-----------------------------------------------------------------------------
(* The parts that bring a transaction to the ledger and show what became of it *)

TellingParts == {"vault", "validated", "hook", "wallet", "detection", "batch", "offline"}

TellingIInv ==
  /\ part = "vault" => VaultIInv
  /\ part = "validated" => ValidatedIInv
  /\ part = "hook" => HookIInv
  /\ part = "wallet" => WalletIInv
  /\ part = "detection" => DetectionIInv
  /\ part = "batch" => BatchIInv
  /\ part = "offline" => OfflineIInv

\* Each of them starts as its module says.
LEMMA TellingInvInit == ServicesInit => TellingIInv
<1> SUFFICES ASSUME ServicesInit PROVE TellingIInv
  OBVIOUS
<1>1. VaultInit /\ ValidatedInit /\ HookInit /\ WalletInit
      /\ DetectionInit /\ BatchInit /\ OfflineInit
  BY DEF ServicesInit
<1>2. VaultIInv
  BY <1>1, VaultInvInit
<1>3. ValidatedIInv
  BY <1>1, ValidatedInvInit
<1>4. HookIInv
  BY <1>1, HookInvInit
<1>5. WalletIInv
  BY <1>1, WalletInvInit
<1>6. DetectionIInv
  BY <1>1, DetectionInvInit
<1>7. BatchIInv
  BY <1>1, BatchInvInit
<1>8. OfflineIInv
  BY <1>1, OfflineInvInit
<1>9. QED
  BY <1>2, <1>3, <1>4, <1>5, <1>6, <1>7, <1>8 DEF TellingIInv

\* What a step of the services is for them.
LEMMA TellingSteps ==
  ASSUME [ServicesNext]_servicesVars
  PROVE  /\ part' = part
         /\ part = "vault" => [VaultNext]_vaultVars
         /\ part = "validated" => [ValidatedNext]_validatedVars
         /\ part = "hook" => [HookNext]_hookVars
         /\ part = "wallet" => [WalletNext]_walletVars
         /\ part = "detection" => [DetectionNext]_detectionVars
         /\ part = "batch" => [BatchNext]_batchVars
         /\ part = "offline" => [OfflineNext]_offlineVars
BY DEF ServicesNext, servicesVars

\* Nor does a step of another component disturb what one of them keeps.
LEMMA TellingInvStep == TellingIInv /\ [ServicesNext]_servicesVars => TellingIInv'
<1> SUFFICES ASSUME TellingIInv, [ServicesNext]_servicesVars PROVE TellingIInv'
  OBVIOUS
<1>1. part' = part
  BY TellingSteps
<1>2. CASE part = "vault"
  <2>1. VaultIInv /\ [VaultNext]_vaultVars
    BY <1>2, TellingSteps DEF TellingIInv
  <2>2. VaultIInv'
    BY <2>1, VaultInvStep
  <2>3. QED
    BY <1>1, <1>2, <2>2 DEF TellingIInv
<1>3. CASE part = "validated"
  <2>1. ValidatedIInv /\ [ValidatedNext]_validatedVars
    BY <1>3, TellingSteps DEF TellingIInv
  <2>2. ValidatedIInv'
    BY <2>1, ValidatedInvStep
  <2>3. QED
    BY <1>1, <1>3, <2>2 DEF TellingIInv
<1>4. CASE part = "hook"
  <2>1. HookIInv /\ [HookNext]_hookVars
    BY <1>4, TellingSteps DEF TellingIInv
  <2>2. HookIInv'
    BY <2>1, HookInvStep
  <2>3. QED
    BY <1>1, <1>4, <2>2 DEF TellingIInv
<1>5. CASE part = "wallet"
  <2>1. WalletIInv /\ [WalletNext]_walletVars
    BY <1>5, TellingSteps DEF TellingIInv
  <2>2. WalletIInv'
    BY <2>1, WalletInvStep
  <2>3. QED
    BY <1>1, <1>5, <2>2 DEF TellingIInv
<1>6. CASE part = "detection"
  <2>1. DetectionIInv /\ [DetectionNext]_detectionVars
    BY <1>6, TellingSteps DEF TellingIInv
  <2>2. DetectionIInv'
    BY <2>1, DetectionInvStep
  <2>3. QED
    BY <1>1, <1>6, <2>2 DEF TellingIInv
<1>7. CASE part = "batch"
  <2>1. BatchIInv /\ [BatchNext]_batchVars
    BY <1>7, TellingSteps DEF TellingIInv
  <2>2. BatchIInv'
    BY <2>1, BatchInvStep
  <2>3. QED
    BY <1>1, <1>7, <2>2 DEF TellingIInv
<1>8. CASE part = "offline"
  <2>1. OfflineIInv /\ [OfflineNext]_offlineVars
    BY <1>8, TellingSteps DEF TellingIInv
  <2>2. OfflineIInv'
    BY <2>1, OfflineInvStep
  <2>3. QED
    BY <1>1, <1>8, <2>2 DEF TellingIInv
<1>9. CASE part \notin TellingParts
  BY <1>1, <1>9 DEF TellingIInv, TellingParts
<1>10. QED
  BY <1>2, <1>3, <1>4, <1>5, <1>6, <1>7, <1>8, <1>9 DEF TellingParts

\* And what they keep is what the run checks.
LEMMA TellingInvSays == TellingIInv => VaultTellsTruth
<1> SUFFICES ASSUME TellingIInv PROVE VaultTellsTruth
  OBVIOUS
<1>1. part = "vault" => VaultCallsAreGuarded
  BY VaultInvMeans DEF TellingIInv
<1>2. part = "validated" => WrappedCallsAreChecked
  BY ValidatedInvMeans DEF TellingIInv
<1>3. part = "hook" => HookTellsTruth
  BY HookInvMeans DEF TellingIInv
<1>4. part = "wallet" => WalletContextTellsTruth
  BY WalletInvMeans DEF TellingIInv
<1>5. part = "detection" => DetectionTellsTruth
  BY DetectionInvMeans DEF TellingIInv
<1>6. part = "batch" => BatchTellsTruth
  BY BatchInvMeans DEF TellingIInv
<1>7. part = "offline" => PackagesTravel
  BY OfflineInvMeans DEF TellingIInv
<1>8. QED
  BY <1>1, <1>2, <1>3, <1>4, <1>5, <1>6, <1>7 DEF VaultTellsTruth

\* What is told of a transaction is true, whoever tells it: a vault call is guarded
\* (packages/core/src/contracts/VaultContract.ts:130) and validated
\* (src/validation/engine.ts:186), the hooks show how it ends and which wallet makes
\* it (packages/react/src/useVault.ts:83, packages/react/src/index.ts:131,
\* src/wallet-integration-203/src/hooks/useWalletDetection.jsx:193), a batch reports
\* it (packages/core/src/transaction/enhancedTransactionBuilder.ts:97), and a package
\* built offline arrives as it was built (src/builders/offlineTransactionBuilder.ts:129).
THEOREM VaultToldTruth == ServicesSpec => []VaultTellsTruth
<1>1. ServicesInit => TellingIInv
  BY TellingInvInit
<1>2. TellingIInv /\ [ServicesNext]_servicesVars => TellingIInv'
  BY TellingInvStep
<1>3. TellingIInv => VaultTellsTruth
  BY TellingInvSays
<1>4. QED
  BY <1>1, <1>2, <1>3, PTL DEF ServicesSpec

-----------------------------------------------------------------------------
(* The parts that observe, record and imitate the SDK *)

TracingParts == {"tracing", "xdr"}
ObservingParts == {"telemetry", "replay", "mock", "profiling"} \cup TracingParts

ObservingIInv ==
  /\ part = "telemetry" => TelemetryIInv
  /\ part = "replay" => ReplayIInv
  /\ part = "mock" => MockIInv
  /\ part = "profiling" => ProfilingIInv
  /\ part \in TracingParts => TracingIInv

\* Each of them starts as its module says.
LEMMA ObservingInvInit == ServicesInit => ObservingIInv
<1> SUFFICES ASSUME ServicesInit PROVE ObservingIInv
  OBVIOUS
<1>1. TelemetryInit /\ ReplayInit /\ MockInit /\ ProfilingInit /\ TracingInit
  BY DEF ServicesInit
<1>2. TelemetryIInv
  BY <1>1, TelemetryInvInit
<1>3. ReplayIInv
  BY <1>1, ReplayInvInit
<1>4. MockIInv
  BY <1>1, MockInvInit
<1>5. ProfilingIInv
  BY <1>1, ProfilingInvInit
<1>6. TracingIInv
  BY <1>1, TracingInvInit
<1>7. QED
  BY <1>2, <1>3, <1>4, <1>5, <1>6 DEF ObservingIInv

\* What a step of the services is for them.
LEMMA ObservingSteps ==
  ASSUME [ServicesNext]_servicesVars
  PROVE  /\ part' = part
         /\ part = "telemetry" => [TelemetryNext]_telemetryVars
         /\ part = "replay" => [ReplayNext]_replayVars
         /\ part = "mock" => [MockNext]_mockVars
         /\ part = "profiling" => [ProfilingNext]_profilingVars
         /\ part \in TracingParts => [TracingNext]_tracingVars
<1>1. CASE ServicesNext
  <2>1. /\ part' = part
        /\ part = "telemetry" => [TelemetryNext]_telemetryVars
        /\ part = "replay" => [ReplayNext]_replayVars
        /\ part = "mock" => [MockNext]_mockVars
        /\ part = "profiling" => [ProfilingNext]_profilingVars
    BY <1>1 DEF ServicesNext
  <2>2. part = "tracing" => ObservingNext
    BY <1>1 DEF ServicesNext
  <2>3. part = "xdr" => CacheNext
    BY <1>1 DEF ServicesNext
  <2>4. QED
    BY <2>1, <2>2, <2>3 DEF TracingParts, TracingNext
<1>2. CASE UNCHANGED servicesVars
  BY <1>2 DEF servicesVars
<1>3. QED
  BY <1>1, <1>2

\* Nor does a step of another component disturb what one of them keeps.
LEMMA ObservingInvStep == ObservingIInv /\ [ServicesNext]_servicesVars => ObservingIInv'
<1> SUFFICES ASSUME ObservingIInv, [ServicesNext]_servicesVars PROVE ObservingIInv'
  OBVIOUS
<1>1. part' = part
  BY ObservingSteps
<1>2. CASE part = "telemetry"
  <2>1. TelemetryIInv /\ [TelemetryNext]_telemetryVars
    BY <1>2, ObservingSteps DEF ObservingIInv
  <2>2. TelemetryIInv'
    BY <2>1, TelemetryInvStep
  <2>3. QED
    BY <1>1, <1>2, <2>2 DEF ObservingIInv, TracingParts
<1>3. CASE part = "replay"
  <2>1. ReplayIInv /\ [ReplayNext]_replayVars
    BY <1>3, ObservingSteps DEF ObservingIInv
  <2>2. ReplayIInv'
    BY <2>1, ReplayInvStep
  <2>3. QED
    BY <1>1, <1>3, <2>2 DEF ObservingIInv, TracingParts
<1>4. CASE part = "mock"
  <2>1. MockIInv /\ [MockNext]_mockVars
    BY <1>4, ObservingSteps DEF ObservingIInv
  <2>2. MockIInv'
    BY <2>1, MockInvStep
  <2>3. QED
    BY <1>1, <1>4, <2>2 DEF ObservingIInv, TracingParts
<1>5. CASE part = "profiling"
  <2>1. ProfilingIInv /\ [ProfilingNext]_profilingVars
    BY <1>5, ObservingSteps DEF ObservingIInv
  <2>2. ProfilingIInv'
    BY <2>1, ProfilingInvStep
  <2>3. QED
    BY <1>1, <1>5, <2>2 DEF ObservingIInv, TracingParts
<1>6. CASE part \in TracingParts
  <2>1. TracingIInv /\ [TracingNext]_tracingVars
    BY <1>6, ObservingSteps DEF ObservingIInv
  <2>2. TracingIInv'
    BY <2>1, TracingInvStep
  <2>3. QED
    BY <1>1, <1>6, <2>2 DEF ObservingIInv, TracingParts
<1>7. CASE part \notin ObservingParts
  BY <1>1, <1>7 DEF ObservingIInv, ObservingParts
<1>8. QED
  BY <1>2, <1>3, <1>4, <1>5, <1>6, <1>7 DEF ObservingParts

\* And what they keep is what the run checks.
LEMMA ObservingInvSays == ObservingIInv => ObservationsAreKept
<1> SUFFICES ASSUME ObservingIInv PROVE ObservationsAreKept
  OBVIOUS
<1>1. part = "telemetry" => TelemetryAccountsForAll
  BY TelemetryInvMeans DEF ObservingIInv
<1>2. part = "replay" => ReplayReproduces
  BY ReplayInvMeans DEF ObservingIInv
<1>3. part = "mock" => MockPlaysScenario
  BY MockInvMeans DEF ObservingIInv
<1>4. part = "profiling" => ProfilesAreComplete
  BY ProfilingInvMeans DEF ObservingIInv
<1>5. part \in TracingParts => MemoryIsBounded /\ CacheIsLru
  BY TracingInvMeans DEF ObservingIInv
<1>6. QED
  BY <1>1, <1>2, <1>3, <1>4, <1>5 DEF ObservationsAreKept, TracingParts

\* What is observed of the SDK is kept as its limits allow and no further: every
\* event is handed over once or counted as lost (src/telemetry/telemetryService.ts:77),
\* spans and decoded values stay within their bounds (src/observability/tracer.ts:19,
\* src/utils/xdrCache.ts:18), a recording replays as it was made
\* (src/replay/engine.ts:29), a profile has every operation measured for it
\* (src/profiling/profilingService.ts:95), and the mock server plays the scenario it
\* was given (src/testing/MockRpcServer.ts:163).
THEOREM ObservationsKept == ServicesSpec => []ObservationsAreKept
<1>1. ServicesInit => ObservingIInv
  BY ObservingInvInit
<1>2. ObservingIInv /\ [ServicesNext]_servicesVars => ObservingIInv'
  BY ObservingInvStep
<1>3. ObservingIInv => ObservationsAreKept
  BY ObservingInvSays
<1>4. QED
  BY <1>1, <1>2, <1>3, PTL DEF ServicesSpec

-----------------------------------------------------------------------------
(* The parts that serve calls, and those that keep records *)

ServingParts ==
  {"events", "requests", "fees", "client", "simulations",
   "lifecycle", "sessions", "health", "migrations", "conversions"}

ServingIInv ==
  /\ part = "events" => RangeIInv
  /\ part = "requests" => RequestIInv
  /\ part = "fees" => FeeTypeOK /\ FeesAreCovered
  /\ part = "client" => ClientIInv
  /\ part = "simulations" => SimulationIInv
  /\ part = "lifecycle" => LifecycleIInv
  /\ part = "sessions" => SessionIInv
  /\ part = "health" => HealthIInv
  /\ part = "migrations" => MigrationIInv
  /\ part = "conversions" => ConversionIInv

\* Each of them starts as its module says.
LEMMA ServingInvInit == ServicesInit => ServingIInv
<1> SUFFICES ASSUME ServicesInit PROVE ServingIInv
  OBVIOUS
<1>1. /\ RangeInit /\ RequestInit /\ FeeInit /\ ClientInit /\ SimulationInit
      /\ LifecycleInit /\ SessionInit /\ HealthInit /\ MigrationInit /\ ConversionInit
  BY DEF ServicesInit
<1>2. RangeIInv
  BY <1>1, RangeInvInit
<1>3. RequestIInv
  BY <1>1, RequestInvInit
<1>4. FeeTypeOK /\ FeesAreCovered
  BY <1>1 DEF FeeInit, NoFeeCall, FeeTypeOK, FeesAreCovered
<1>5. ClientIInv
  BY <1>1, ClientInvInit
<1>6. SimulationIInv
  BY <1>1, SimulationInvInit
<1>7. LifecycleIInv
  BY <1>1, LifecycleInvInit
<1>8. SessionIInv
  BY <1>1, SessionInvInit
<1>9. HealthIInv
  BY <1>1, HealthInvInit
<1>10. MigrationIInv
  BY <1>1, MigrationInvInit
<1>11. ConversionIInv
  BY <1>1, ConversionStarts
<1>12. QED
  BY <1>2, <1>3, <1>4, <1>5, <1>6, <1>7, <1>8, <1>9, <1>10, <1>11 DEF ServingIInv

\* What a step of the services is for them.
LEMMA ServingSteps ==
  ASSUME [ServicesNext]_servicesVars
  PROVE  /\ part' = part
         /\ part = "events" => [RangeNext]_rangeVars
         /\ part = "requests" => [RequestNext]_requestVars
         /\ part = "fees" => [FeeNext]_feeCall
         /\ part = "client" => [ClientNext]_clientVars
         /\ part = "simulations" => [SimulationNext]_simulationVars
         /\ part = "lifecycle" => [LifecycleNext]_lifecycleVars
         /\ part = "sessions" => [SessionNext]_sessionVars
         /\ part = "health" => [HealthNext]_healthVars
         /\ part = "migrations" => [MigrationNext]_migrationVars
         /\ part = "conversions" => [ConversionNext]_conversion
BY DEF ServicesNext, servicesVars

\* Nor does a step of another component disturb what one of them keeps.
LEMMA ServingInvStep == ServingIInv /\ [ServicesNext]_servicesVars => ServingIInv'
<1> SUFFICES ASSUME ServingIInv, [ServicesNext]_servicesVars PROVE ServingIInv'
  OBVIOUS
<1>1. part' = part
  BY ServingSteps
<1>2. CASE part = "events"
  <2>1. RangeIInv /\ [RangeNext]_rangeVars
    BY <1>2, ServingSteps DEF ServingIInv
  <2>2. RangeIInv'
    BY <2>1, RangeInvStep
  <2>3. QED
    BY <1>1, <1>2, <2>2 DEF ServingIInv
<1>3. CASE part = "requests"
  <2>1. RequestIInv /\ [RequestNext]_requestVars
    BY <1>3, ServingSteps DEF ServingIInv
  <2>2. RequestIInv'
    BY <2>1, RequestInvStep
  <2>3. QED
    BY <1>1, <1>3, <2>2 DEF ServingIInv
<1>4. CASE part = "fees"
  <2>1. FeeTypeOK /\ FeesAreCovered /\ [FeeNext]_feeCall
    BY <1>4, ServingSteps DEF ServingIInv
  <2>2. (FeeTypeOK /\ FeesAreCovered)'
    BY <2>1, FeeTypeStep, FeeInvStep
  <2>3. QED
    BY <1>1, <1>4, <2>2 DEF ServingIInv
<1>5. CASE part = "client"
  <2>1. ClientIInv /\ [ClientNext]_clientVars
    BY <1>5, ServingSteps DEF ServingIInv
  <2>2. ClientIInv'
    BY <2>1, ClientInvStep
  <2>3. QED
    BY <1>1, <1>5, <2>2 DEF ServingIInv
<1>6. CASE part = "simulations"
  <2>1. SimulationIInv /\ [SimulationNext]_simulationVars
    BY <1>6, ServingSteps DEF ServingIInv
  <2>2. SimulationIInv'
    BY <2>1, SimulationInvStep
  <2>3. QED
    BY <1>1, <1>6, <2>2 DEF ServingIInv
<1>7. CASE part = "lifecycle"
  <2>1. LifecycleIInv /\ [LifecycleNext]_lifecycleVars
    BY <1>7, ServingSteps DEF ServingIInv
  <2>2. LifecycleIInv'
    BY <2>1, LifecycleInvStep
  <2>3. QED
    BY <1>1, <1>7, <2>2 DEF ServingIInv
<1>8. CASE part = "sessions"
  <2>1. SessionIInv /\ [SessionNext]_sessionVars
    BY <1>8, ServingSteps DEF ServingIInv
  <2>2. SessionIInv'
    BY <2>1, SessionInvStep
  <2>3. QED
    BY <1>1, <1>8, <2>2 DEF ServingIInv
<1>9. CASE part = "health"
  <2>1. HealthIInv /\ [HealthNext]_healthVars
    BY <1>9, ServingSteps DEF ServingIInv
  <2>2. HealthIInv'
    BY <2>1, HealthInvStep
  <2>3. QED
    BY <1>1, <1>9, <2>2 DEF ServingIInv
<1>10. CASE part = "migrations"
  <2>1. MigrationIInv /\ [MigrationNext]_migrationVars
    BY <1>10, ServingSteps DEF ServingIInv
  <2>2. MigrationIInv'
    BY <2>1, MigrationInvStep
  <2>3. QED
    BY <1>1, <1>10, <2>2 DEF ServingIInv
<1>11. CASE part = "conversions"
  <2>1. ConversionIInv /\ [ConversionNext]_conversion
    BY <1>11, ServingSteps DEF ServingIInv
  <2>2. ConversionIInv'
    BY <2>1, ConversionKeeps
  <2>3. QED
    BY <1>1, <1>11, <2>2 DEF ServingIInv
<1>12. CASE part \notin ServingParts
  BY <1>1, <1>12 DEF ServingIInv, ServingParts
<1>13. QED
  BY <1>2, <1>3, <1>4, <1>5, <1>6, <1>7, <1>8, <1>9, <1>10, <1>11, <1>12 DEF ServingParts

\* And what they keep is what the run checks.
LEMMA ServingInvSays == ServingIInv => CallsAreServed
<1> SUFFICES ASSUME ServingIInv PROVE CallsAreServed
  OBVIOUS
<1>1. part = "events" => RangeIsComplete
  BY RangeInvSays DEF ServingIInv
<1>2. part = "requests" => RequestsAreRepeatedInBounds
  BY RequestInvSays DEF ServingIInv
<1>3. part = "fees" => FeesAreCovered
  BY DEF ServingIInv
<1>4. part = "client" => ClientRequestsEnd
  BY ClientInvSays DEF ServingIInv
<1>5. part = "simulations" => SimulationsAreCompared
  BY SimulationInvMeans DEF ServingIInv
<1>6. part = "conversions" => ConversionsAreExact
  BY DEF ServingIInv, ConversionIInv
<1>7. QED
  BY <1>1, <1>2, <1>3, <1>4, <1>5, <1>6 DEF CallsAreServed

\* What the client does for a call is done whole, and said as it is: events of a
\* range are read without a gap (src/utils/soroban/getEvents.ts:300), requests are
\* repeated within their bounds (packages/core/src/client/stellarClient.ts:392), fees
\* are covered (src/client/stellarClient.ts:1480), simulations compared by what they
\* cost (packages/core/src/transaction/transactionSimulator.ts:155), and integers,
\* specifications and signers read as they were written
\* (packages/core/src/utils/simulationParser.ts:62,
\*  packages/core/src/codegen/wasmParser.ts:75, src/utils/getRequiredSigners.ts:27).
THEOREM CallsServed == ServicesSpec => []CallsAreServed
<1>1. ServicesInit => ServingIInv
  BY ServingInvInit
<1>2. ServingIInv /\ [ServicesNext]_servicesVars => ServingIInv'
  BY ServingInvStep
<1>3. ServingIInv => CallsAreServed
  BY ServingInvSays
<1>4. QED
  BY <1>1, <1>2, <1>3, PTL DEF ServicesSpec

-----------------------------------------------------------------------------
(* The types of all parts *)

TypedIInv == part \in Parts /\ ExtensionsIInv /\ TellingIInv /\ ObservingIInv /\ ServingIInv

\* Together, the invariants say that the part that takes steps keeps its type.
LEMMA TypedInvSays ==
  ASSUME IsFiniteSet(SessionIds)
  PROVE  TypedIInv => ServicesTypeOK
<1> SUFFICES ASSUME TypedIInv PROVE ServicesTypeOK
  OBVIOUS
<1>0. part \in Parts /\ ExtensionsIInv /\ TellingIInv /\ ObservingIInv /\ ServingIInv
  BY DEF TypedIInv
<1>1. part = "lifecycle" => LifecycleTypeOK
  BY <1>0, LifecycleInvTypes DEF ServingIInv
<1>2. part = "sessions" => SessionTypeOK
  BY <1>0, SessionInvTypes DEF ServingIInv
<1>3. part = "health" => HealthTypeOK
  BY <1>0, HealthInvTypes DEF ServingIInv
<1>4. part = "pipeline" => PipelineTypeOK
  BY <1>0, PipelineInvSays DEF ExtensionsIInv
<1>5. part = "plugins" => PluginTypeOK
  BY <1>0, PluginInvSays DEF ExtensionsIInv
<1>6. part = "migrations" => MigrationTypeOK
  BY <1>0, MigrationInvSays DEF ServingIInv
<1>7. part = "events" => RangeTypeOK
  BY <1>0, RangeInvSays DEF ServingIInv
<1>8. part = "requests" => RequestTypeOK
  BY <1>0, RequestInvSays DEF ServingIInv
<1>9. part = "fees" => FeeTypeOK
  BY <1>0 DEF ServingIInv
<1>10. part = "vault" => VaultTypeOK
  BY <1>0, VaultInvMeans DEF TellingIInv
<1>11. part = "hook" => HookTypeOK
  BY <1>0, HookInvMeans DEF TellingIInv
<1>12. part = "telemetry" => TelemetryTypeOK
  BY <1>0, TelemetryInvMeans DEF ObservingIInv
<1>13. part \in TracingParts => TracingTypeOK
  BY <1>0, TracingInvMeans DEF ObservingIInv
<1>14. part = "replay" => ReplayTypeOK
  BY <1>0, ReplayInvMeans DEF ObservingIInv
<1>15. part = "wallet" => WalletTypeOK
  BY <1>0, WalletInvMeans DEF TellingIInv
<1>16. part = "batch" => BatchTypeOK
  BY <1>0, BatchInvMeans DEF TellingIInv
<1>17. part = "mock" => MockTypeOK
  BY <1>0, MockInvMeans DEF ObservingIInv
<1>18. part = "client" => ClientTypeOK
  BY <1>0, ClientInvSays DEF ServingIInv
<1>19. part = "simulations" => SimulationTypeOK
  BY <1>0, SimulationInvMeans DEF ServingIInv
<1>20. part = "offline" => OfflineTypeOK
  BY <1>0, OfflineInvMeans DEF TellingIInv
<1>21. part = "detection" => DetectionTypeOK
  BY <1>0, DetectionInvMeans DEF TellingIInv
<1>22. part \in RegistryParts => RegistryTypeOK
  BY <1>0, RegistryInvSays DEF ExtensionsIInv
<1>23. part = "profiling" => ProfilingTypeOK
  BY <1>0, ProfilingInvMeans DEF ObservingIInv
<1>24. part = "validated" => ValidatedTypeOK
  BY <1>0, ValidatedInvMeans DEF TellingIInv
<1>25. part = "metadata" => MetadataTypeOK
  BY <1>0, MetadataInvSays DEF ExtensionsIInv
<1>26. part = "conversions" => ConversionTypeOK
  BY <1>0 DEF ServingIInv, ConversionIInv
<1>27. CASE part = "lifecycle"
  BY <1>1, <1>27 DEF ServicesTypeOK
<1>28. CASE part = "sessions"
  BY <1>2, <1>28 DEF ServicesTypeOK
<1>29. CASE part = "health"
  BY <1>3, <1>29 DEF ServicesTypeOK
<1>30. CASE part = "pipeline"
  BY <1>4, <1>30 DEF ServicesTypeOK
<1>31. CASE part = "plugins"
  BY <1>5, <1>31 DEF ServicesTypeOK
<1>32. CASE part = "migrations"
  BY <1>6, <1>32 DEF ServicesTypeOK
<1>33. CASE part = "events"
  BY <1>7, <1>33 DEF ServicesTypeOK
<1>34. CASE part = "requests"
  BY <1>8, <1>34 DEF ServicesTypeOK
<1>35. CASE part = "fees"
  BY <1>9, <1>35 DEF ServicesTypeOK
<1>36. CASE part = "vault"
  BY <1>10, <1>36 DEF ServicesTypeOK
<1>37. CASE part = "hook"
  BY <1>11, <1>37 DEF ServicesTypeOK
<1>38. CASE part = "telemetry"
  BY <1>12, <1>38 DEF ServicesTypeOK
<1>39. CASE part = "tracing"
  BY <1>13, <1>39 DEF ServicesTypeOK, TracingParts
<1>40. CASE part = "xdr"
  BY <1>13, <1>40 DEF ServicesTypeOK, TracingParts
<1>41. CASE part = "replay"
  BY <1>14, <1>41 DEF ServicesTypeOK
<1>42. CASE part = "wallet"
  BY <1>15, <1>42 DEF ServicesTypeOK
<1>43. CASE part = "batch"
  BY <1>16, <1>43 DEF ServicesTypeOK
<1>44. CASE part = "mock"
  BY <1>17, <1>44 DEF ServicesTypeOK
<1>45. CASE part = "client"
  BY <1>18, <1>45 DEF ServicesTypeOK
<1>46. CASE part = "simulations"
  BY <1>19, <1>46 DEF ServicesTypeOK
<1>47. CASE part = "offline"
  BY <1>20, <1>47 DEF ServicesTypeOK
<1>48. CASE part = "detection"
  BY <1>21, <1>48 DEF ServicesTypeOK
<1>49. CASE part = "adapters"
  BY <1>22, <1>49 DEF ServicesTypeOK, RegistryParts
<1>50. CASE part = "capabilities"
  BY <1>22, <1>50 DEF ServicesTypeOK, RegistryParts
<1>51. CASE part = "profiling"
  BY <1>23, <1>51 DEF ServicesTypeOK
<1>52. CASE part = "validated"
  BY <1>24, <1>52 DEF ServicesTypeOK
<1>53. CASE part = "metadata"
  BY <1>25, <1>53 DEF ServicesTypeOK
<1>54. CASE part = "conversions"
  BY <1>26, <1>54 DEF ServicesTypeOK
<1>55. QED
  BY <1>0, <1>27, <1>28, <1>29, <1>30, <1>31, <1>32, <1>33, <1>34, <1>35, <1>36, <1>37, <1>38,
     <1>39, <1>40, <1>41, <1>42, <1>43, <1>44, <1>45, <1>46, <1>47, <1>48, <1>49, <1>50,
     <1>51, <1>52, <1>53, <1>54
  DEF Parts

\* Every component keeps the types of what it stores, whichever takes the steps.
\* generateId() counts no further than there are ids to ask for, if these are
\* finitely many (src/session/sessionManager.ts:43).
THEOREM ServicesTyped ==
  ASSUME IsFiniteSet(SessionIds)
  PROVE  ServicesSpec => []ServicesTypeOK
<1>1. ServicesInit => TypedIInv
  BY ExtensionsInvInit, TellingInvInit, ObservingInvInit, ServingInvInit
  DEF TypedIInv, ServicesInit
<1>2. TypedIInv /\ [ServicesNext]_servicesVars => TypedIInv'
  <2> SUFFICES ASSUME TypedIInv, [ServicesNext]_servicesVars PROVE TypedIInv'
    OBVIOUS
  <2>1. part \in Parts /\ ExtensionsIInv /\ TellingIInv /\ ObservingIInv /\ ServingIInv
    BY DEF TypedIInv
  <2>2. ExtensionsIInv' /\ TellingIInv' /\ ObservingIInv' /\ ServingIInv'
    BY <2>1, ExtensionsInvStep, TellingInvStep, ObservingInvStep, ServingInvStep
  <2>3. part' \in Parts
    BY <2>1, ServingSteps
  <2>4. QED
    BY <2>2, <2>3 DEF TypedIInv, Parts
<1>3. TypedIInv => ServicesTypeOK
  BY TypedInvSays
<1>4. QED
  BY <1>1, <1>2, <1>3, PTL DEF ServicesSpec
=============================================================================

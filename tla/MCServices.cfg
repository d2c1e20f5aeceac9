\* The components that keep to themselves, one of them in each behaviour.  Most
\* of them stop when what they are given to do is done.
SPECIFICATION ServicesSpec
CHECK_DEADLOCK FALSE
CONSTANTS
  TxIds = {t1}
  Filters = {{}, {"failed", "completed"}}
  MaxRecords = 2
  MaxSubscriptions = 2
  MaxEmits = 3
  SessionIds = {1, 2, 3}
  ContractNames = {c}
  ContractAddresses = {A}
  maxSessions = 2
  MaxMade = 3
  Endpoints = {e1, e2}
  Latencies = {1, 2}
  degradedLatency = 1
  unhealthyAfterFailures = 2
  Modulus = 2
  MaxLate = 1
  MiddlewareNames = {a, b}
  Orders = {0, 1}
  MaxUses = 3
  Plugins = {p1}
  Clients = {c1, c2}
  PluginTasks = {t1, t2}
  MaxInstances = 2
  Versions = {"v1", "v2", "v3", "v4", "v5"}
  Odd = "odd"
  StepDefinitions <- MCSteps
  Jumps <- MCJumps
  MaxSteps = 5
  LedgerOf <- MCLedgerOf
  LatestLedgerNow = 4
  AskedLedgers = {0, 1, 3, 4}
  Rewinds = {2}
  PageLimits = {1, 2}
  ServerCount = 2
  Requesters = {c1, c2}
  maxRetries = 1
  maxDelay = 15
  RetryAfters = {20}
  Multipliers <- MCMultipliers
  FeeLimits = {0, 10, 115}
  Amounts = {0, 1, 7, 100}
  OperationCounts = {0, 1, 3}
  VaultCallers = {1, 2}
  WalletAccounts = {w1, w2}
  NoAccount = none
  MaxSwitches = 1
  HookCalls = {h1, h2}
  NoHash = nohash
  bufferSize = 3
  MaxTracked = 7
  MaxCounted = 1
  MaxTimers = 2
  maxSpans = 2
  maxEvents = 2
  maxCacheSize = 2
  Inputs = {i1, i2, i3}
  MaxSpansStarted = 3
  MaxRecorded = 3
  MaxDecoded = 5
  RecordedCalls = {r1, r2, r3}
  Unhandled = {r3}
  ContractLimit = 2
  Reads = {r1, r2}
  Accounts = {w1, w2}
  NoAddress = none
  MaxChanges = 2
  Batches <- MCBatches
  NoNumber = none
  MaxEstimates = 1
  MockLedgers = {1, 2}
  MockMethods = {"sendTransaction", "getTransaction"}
  MaxEntries = 2
  SeededPolls = {1}
  MaxSetUp = 2
  Statuses = {302, 401, 404, 429, 503}
  RetryableStatuses = {429, 503}
  MaxRepeats = 1
  MaxCalls = 2
  BaseFees <- MCBaseFees
  ResourceFees <- MCResourceFees
  FeeTargets = {0, 10, 400, 2000, 100000}
  HistoryLimit = 2
  MaxCompared = 3
  MaxSimulations = 4
  OfflineBuilders <- MCBuilders
  LedgerNet = "net"
  MaxOperationsQueued = 1
  MaxQueued = 2
  MaxBuilt = 2
  EthAccounts = {e1, e2}
  SolAccount = sol
  EthChains = {"0x1", "0x89"}
  NoWallet = none
  MaxFetches = 2
  MaxConnects = 2
  MaxEvents = 2
  AdapterNames = {a, b}
  NoAdapter = none
  Configured = b
  ContractTypes = {T, U}
  DescriptorIds = {X}
  MaxAdapters = 3
  MaxUnregistered = 2
  MaxDescriptors = 3
  ProfiledCalls = {p1, p2, p3}
  Durations = {1, 2}
  Percentile = 60
  MaxSwitched = 2
  WrappedCalls = {w1, w2}
  CallAmounts = {0, 1}
  MaxSchemaChanges = 1
  MaxRewards = 1
  MetadataNames = {n1}
  Environments = {test, main}
  Capabilities = {read}
  Cells = {1, 2, 3, 4, 5, 6, 7, 8, 9, 10, 11, 12, 13, 14, 15}
  NoCell = none
  MaxRevisions = 2
  LimbSize = 4
  GroupSize = 4
  EntryLengths = {0, 2}
  SpecName = 1
  OtherName = 2
  Signers = {k1, k2}
INVARIANTS
  ServicesTypeOK
  ListenersHearHistory
  SessionLimitKept
  HealthTellsTruth
  ClientsAreExtended
  ReportTellsVersion
  CallsAreServed
  VaultTellsTruth
  ObservationsAreKept
PROPERTIES
  MonitorKeepsChecking

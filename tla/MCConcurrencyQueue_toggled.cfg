SPECIFICATION FairSpec
CONSTANTS
  Requests = {r1, r2, r3}
  Configs <- TogglingConfigs
  InitConfig <- TogglingInit
  Interval = 1
INVARIANTS TypeOK PendingIsWaitingOrRunning ActiveCountExact NoStrandedQueue
PROPERTIES FifoStart ImplementsExecutor EveryRequestSettles

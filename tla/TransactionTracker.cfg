SPECIFICATION TrackerFairSpec
CONSTANTS
  Hashes = {h1, h2}
  Loops = {l1, l2}
  Timeouts = {0, 2}
  Interval = 1
  MaxTime = 2
INVARIANTS TrackerTypeOK RegistryIsLiveLoops NoFalseTimeout
PROPERTIES CancelStopsPolling RefreshKeepsPending EveryLoopEnds

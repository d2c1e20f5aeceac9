SPECIFICATION FairSpec
CONSTANTS
  Entries = {e1, e2}
  InitCalls = {i1}
  Flushes = {f1, f2}
  BatchSize = 1
  MaxRetries = 2
  ChecksToken = TRUE
  MaxFailures = 3
INVARIANTS TypeOK NothingLost DuplicatesOnlyAfterLostAnswer
PROPERTIES EventuallyStored
CHECK_DEADLOCK FALSE

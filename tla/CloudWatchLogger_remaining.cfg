SPECIFICATION Spec
CONSTANTS
  Entries = {e1, e2, e3}
  InitCalls = {}
  Flushes = {f1}
  BatchSize = 2
  MaxRetries = 1
  ChecksToken = FALSE
  MaxFailures = 1
PROPERTIES RemainingFlushed
CHECK_DEADLOCK FALSE

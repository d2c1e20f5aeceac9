\* The first of three servers fails, whose backups are never asked.
SPECIFICATION RequestSpec
CONSTANTS
  ServerCount = 3
  Requesters = {c1, c2}
  maxRetries = 0
  maxDelay = 15
  RetryAfters = {20}
INVARIANT FailsOverToBackups

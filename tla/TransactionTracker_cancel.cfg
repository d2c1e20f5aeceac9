SPECIFICATION TrackerSpec
CONSTANTS
  Hashes = {h1}
  Loops = {l1, l2}
  Timeouts = {0, 1, 2}
  Interval = 1
  MaxTime = 3
INVARIANTS CancelDoesNotReject

SPECIFICATION SubmissionSpec
CONSTANTS
  Calls = {c1, c2}
  Ttl = 1
  MaxBuilt = 2
  MaxSequence = 3
INVARIANTS WaitsForSuccess
CHECK_DEADLOCK FALSE

SPECIFICATION FairSpec
CONSTANTS
  Sockets = {s1, s2, s3}
  Subs = {x, y}
  MaxReconnects = 2
  MaxDelay = 4
  MaxAttempts = 3
  MaxStarts = 2
INVARIANTS TypeOK SingleConnection ServerHasSubscriptions StateTellsTruth
PROPERTIES Reconnects

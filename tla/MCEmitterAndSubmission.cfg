\* Both stop when the events, the ledgers and the numbers they are given are used up.
SPECIFICATION MCSpec
CHECK_DEADLOCK FALSE
CONSTANTS
  a = a
  b = b
  named = named
  generic = generic
  once = once
  Names <- TwoNames
  Topics <- OneName
  Listeners = {named, generic, once}
  KeyOf <- AllKeys
  OnceListeners = {once}
  Polls = {p1, p2}
  MaxEvents = 2
  MaxLedger = 2
  Calls = {c1, c2}
  Ttl = 1
  MaxBuilt = 3
  MaxSequence = 3
INVARIANTS
  TypeOK DeliveredExactly NeverTwice ClosedLeaksNothing
  SubmissionTypeOK OfflineNumbersConsecutive SubmittedInOrder
PROPERTIES
  ClosedIsSilent

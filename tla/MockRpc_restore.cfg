\* A poll changes the transaction in the server and in the snapshot of it.
SPECIFICATION MockSpec
CHECK_DEADLOCK FALSE
CONSTANTS
  MockLedgers = {1}
  MockMethods = {"getTransaction"}
  MaxEntries = 1
  SeededPolls = {1}
  MaxSetUp = 1
PROPERTY RestoredAsTaken

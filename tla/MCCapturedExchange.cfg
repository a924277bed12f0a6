CONSTANTS
  None = None
  Exchanges = {"a", "b"}
  Workers = 1
  QueueCap = 1
SPECIFICATION FairSpec
INVARIANTS TypeOK BackfillKept EndAfterRecord
PROPERTIES FinishedIsFinal Proceeds
CHECK_DEADLOCK FALSE

CONSTANTS
  None = None
  Exchanges = {"a"}
  Workers = 1
  QueueCap = 1
SPECIFICATION Spec
INVARIANTS OriginalBodyKept
CHECK_DEADLOCK FALSE

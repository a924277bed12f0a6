CONSTANTS
  Flows = {1, 2}
  Tasks = {"handler", "appid"}
  Limits <- GhostOnly
  MaxRev = 1
SPECIFICATION Spec
INVARIANTS ClearedStaysCleared
CHECK_DEADLOCK FALSE

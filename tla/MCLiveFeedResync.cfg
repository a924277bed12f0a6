CONSTANTS
  Flows = {1, 2}
  Tasks = {"handler", "appid"}
  Limits <- ResyncOnly
  MaxRev = 1
SPECIFICATION Spec
INVARIANTS ResyncCatchesUp
CHECK_DEADLOCK FALSE

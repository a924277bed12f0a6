CONSTANTS
  Flows = {1, 2}
  Tasks = {"handler", "appid"}
  Limits <- AnyOf
  MaxRev = 3
SPECIFICATION FairSpec
INVARIANTS TypeOK Converges InitialNotLast ClearedInOrder
PROPERTIES CatchesUp
CHECK_DEADLOCK FALSE

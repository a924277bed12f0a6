CONSTANTS
  None = None
  Services <- TwoServices
  Bypass = "localhost"
  Instances = {"9080"}
  Callers <- Served
  UserConfigs <- EveryPlatform
  MaxOverlap = 2
  MaxFaults = 0
SPECIFICATION Spec
INVARIANTS NotLeftPointed

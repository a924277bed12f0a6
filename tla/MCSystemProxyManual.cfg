CONSTANTS
  None = None
  Services <- TwoServices
  Bypass = "localhost"
  Instances = {"9080", "9090"}
  Callers <- Mains
  UserConfigs <- EveryPlatform
  MaxOverlap = 2
  MaxFaults = 0
SPECIFICATION FairSpec
PROPERTIES HandsOff

CONSTANTS
  None = None
  Services <- TwoServices
  Bypass = "localhost"
  Instances = {"9080", "9090"}
  Callers <- Two
  UserConfigs <- EveryPlatform
  MaxOverlap = 1
  MaxFaults = 1
SPECIFICATION FairSpec
INVARIANTS TypeOK OriginalKept MarkerOwns
PROPERTIES RestoresInTheEnd

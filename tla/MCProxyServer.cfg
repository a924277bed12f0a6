CONSTANTS
  Users = {"a", "b"}
  Conns = {1, 2, 3, 4}
  Keys = {"h1", "h2"}
  H2Keys = {"h2"}
  MaxStreams = 1
  MaxIdle = 1
  Hosts = {"x", "y"}
  LeafCap = 1
  MaxMessages = 2
  MaxBytes = 2
  MaxRelayed = 3
  Scenarios <- MCScenarios
SPECIFICATION FairSpec
INVARIANTS TypeOK NoSharedH1 PoolBounded RightRoute LeavesAgree RelayKeepsNewest NothingLeftServed
PROPERTIES InUseStaysPooled SlotsComeFree DrainEnds
CHECK_DEADLOCK FALSE

CONSTANTS
  None = None
  Ids = {i1, i2}
  Writers = {w1, w2}
  Readers = {r1}
  Producers = {p1}
  Addrs = {1, 2, 3, 4, 5}
  Allocate <- LowestFree
  Sizes = {0, 2}
  Capacities = {0, 2}
  Budgets = {1, 3}
  MaxU64 = 9
  MaxSeq = 2
SPECIFICATION FairSpec
INVARIANTS TypeOK OrderExact AccountingExact WithinLimits
PROPERTIES SnapshotsFrozen ActsAtomically UpdatesReturn

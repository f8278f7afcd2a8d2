SPECIFICATION FairSpec
CONSTANTS
  Files = {f1, f2}
  f1 = f1
  f2 = f2
  f3 = f3
  KeyOf <- GroupKey
  Clients = {c1}
  Readers = {r1}
  Worker = Worker
  Scan = Scan
  Free = Free
  MaxVersion = 2
  Scenarios <- CalmOrRough
INVARIANTS
  UndisturbedIsFresh
  RefreshExclusive
PROPERTIES
  RefreshEnds

SPECIFICATION FairSpec
CONSTANTS
  j1 = j1
  s1 = s1
  Free = Free
  Jobs = {j1}
  Syncs = {s1}
  MaxFolders = 3
  Workers = 2
INVARIANTS
  CancelHonoured
  CompletedMeansAll
PROPERTIES
  ServiceSpec
  RescanEnds

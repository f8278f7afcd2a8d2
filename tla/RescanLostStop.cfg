SPECIFICATION Spec
CONSTANTS
  j1 = j1
  j2 = j2
  s1 = s1
  Free = Free
  Jobs = {j1, j2}
  Syncs = {s1}
  MaxFolders = 3
  Workers = 2
INVARIANTS
  CancelHonoured

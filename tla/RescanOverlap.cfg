SPECIFICATION Spec
CONSTANTS
  j1 = j1
  j2 = j2
  s1 = s1
  Free = Free
  Jobs = {j1, j2}
  Syncs = {s1}
  MaxFolders = 2
  Workers = 1
INVARIANTS
  OneRescanAtATime
  StatusIsEarned
PROPERTIES
  LastWordStays
SYMMETRY JobSymmetry

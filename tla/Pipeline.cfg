SPECIFICATION FairSpec
CONSTANTS
  Paths = {p1, p2, p3, p4}
  p1 = p1
  p2 = p2
  p3 = p3
  p4 = p4
  Size <- Sizes
  Workers = 2
  FileLimit = 2
  ChunkLimit = 4
  None = None
INVARIANTS
  FilesAreAccounted
  WithinLimits

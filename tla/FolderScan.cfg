CONSTANTS
  root = root
  sub = sub
  deep = deep
  near = near
  far = far
  None = None
  Root = root
  Dirs = {root, sub, deep}
  Files = {near, far}
  Parent <- Chain
  Above <- ChainAbove
  MaxReuse = 1
  MaxOps = 3
SPECIFICATION Spec
INVARIANTS
  ScanIsExact
  MissedNotForLong

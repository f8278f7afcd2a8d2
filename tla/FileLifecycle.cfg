\* Files change, a drive comes and goes, users register and remove; two workers.
CONSTANTS
  a = a
  b = b
  f = f
  g = g
  x = x
  y = y
  None = None
  Paths = {a, b}
  Folders = {f, g}
  FolderOf <- OneInEach
  Texts = {x, y}
  Workers = 2
  Grace = 1
  MaxDay = 1
  MaxOps = 2
  Events = {"write", "delete", "move", "copy", "unplug", "hide", "register", "remove",
            "fail", "stop", "crash", "sdk"}
SPECIFICATION Spec
INVARIANTS
  TrustMtime
  Converges
  RegistrationsAreKept
PROPERTIES
  MarkedWasLost
SYMMETRY TextSymmetry

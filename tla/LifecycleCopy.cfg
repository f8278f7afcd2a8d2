\* Only copies, and drives that come and go: is a registration moved from a file that is
\* still there?
CONSTANTS
  a = a
  b = b
  f = f
  g = g
  x = x
  y = y
  None = None
  Paths = {a, b}
  Folders = {f, g}
  FolderOf <- OneInEach
  Texts = {x, y}
  Workers = 2
  Grace = 1
  MaxDay = 1
  MaxOps = 2
  Events = {"copy", "unplug"}
SPECIFICATION Spec
PROPERTIES
  OnlyTheGoneMove

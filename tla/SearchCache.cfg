SPECIFICATION FairSpec
CONSTANTS
  Writers = {w, r}
  Repairs = {r}
  Searches = {s1, s2}
  Questions = {q}
  MaxEntries = 1
  MaxEpoch = 1
  None = None
INVARIANTS
  FreshAnswers
  CacheIsSound
  BorrowedStaysOpen
PROPERTIES
  EveryoneEnds

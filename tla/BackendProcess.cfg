SPECIFICATION FairSpec
CONSTANTS
  STARTUP_ATTEMPTS = 2
  Win32 = TRUE
  None = None
INVARIANTS
  BoxMeansCrash
  NothingLeftBehind
  ExitUnpublishes
  RemovalIsQuiet
PROPERTIES
  ShutdownEnds

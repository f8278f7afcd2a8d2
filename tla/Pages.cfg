SPECIFICATION Spec
CONSTANTS
  QuickQueries = {"plan", "budget"}
  QuickCombined = {"plan"}
  QuickNone = "none"
  QuickMaxRequests = 2
  QuickMaxMessages = 1
  QuickMaxTimers = 2
  SearchFiles <- Documents
  SearchFolders = {"f1", "f1/old"}
  SearchFolderOf <- DocumentFolder
  SearchFoldersOf <- DocumentFolders
  SearchQueries = {"plan", "budget"}
  SearchBlank = "blank"
  SearchFilters = {"all", "some"}
  SearchNoFilter = "all"
  SearchFound <- DocumentsFound
  SearchPageSize = 1
  SearchMaxFiles = 3
  SearchMaxRequests = 2
  LandingPageSize = 2
  LandingMaxDocs = 4
  LandingMaxRequests = 2
  ListFilters = {"all"}
  ListNoFilter = "all"
  ListQueries = {"none", "plan"}
  ListNoQuery = "none"
  ListLastPage = 1
  ListMaxFetches = 2
  HistoryGroups = {"g1", "g2"}
  HistoryMembers <- GroupMembers
  HistoryExcelGroups = {"g1"}
  HistoryNone = "none"
  HistoryMaxCalls = 2
  TourNone = "none"
  TourMaxLibraries = 2
  TourMaxCalls = 3
  RegisteredMaxFiles = 2
  RegisteredQueries = {"all", "one"}
  RegisteredNoQuery = "all"
  RegisteredPageSize = 1
  RegisteredMaxFetches = 2
  RegisteredMaxRemovals = 1
  RescanMaxRuns = 2
  RescanMaxRequests = 2
  UpdateTags = {"v1", "v2", "v2-rc"}
  UpdateTriple <- TagTriple
  UpdateCurrent = "v1"
  UpdateNoTag = "none"
  UpdateMaxSuffix = 1
  UpdateMaxRuns = 2
  DesktopAccelerators = {"a", "b"}
  DesktopDefault = "a"
  DesktopContested = {"a"}
  DesktopNone = "none"
  DesktopMaxRuns = 2
  SourcesTyped = {"f1/", "f2"}
  SourcesFolder <- NormalPath
  SourcesNoPath = ""
  SourcesRefreshes = {"daily", "manual"}
  SourcesMaxSaves = 2
  SourcesMaxLoads = 1
  ResetCandidates = {"storage", "legacy", "root"}
  ResetRoot = "root"
  ResetInside <- ProfileHolds
  ResetSafeIds = {"storage", "legacy"}
  ResetSessionIds = {"storage", "root"}
  ResetLasting = {"legacy"}
  ResetMaxRuns = 3
  ExcelSheets <- SheetIds
  ExcelRows <- SheetRows
  ExcelColumns <- SheetColumns
  ExcelCourses <- CellCourses
  ExcelSame <- Unchanged
  ExcelEmpty = ""
  ExcelNames <- SheetTitles
  ExcelMaxChanges = 3
  ExcelMaxCalls = 1
  ExcelIssueLimit = 2
  ExcelFullLimit = 2
  ExcelTopLeftLimit = 4
  ExcelBuffer = 1
  ExcelGap = 1
  ExcelMaxSections = 1
  ExcelMaxSheets = 2
  ManualFiles <- FilesToCompare
  ManualModes <- ModeOf
  ManualPairwise = {"word"}
  ManualNone = "none"
  ManualQueries = {"all", "w2"}
  ManualFound <- FilesFound
  ManualMembers = {"w1", "w2", "w3"}
  ManualListed = {"w1"}
  ManualPageSize = 2
  ManualMaxFetches = 1
  ManualMaxChanges = 1
  DuplicatesGroups = 5
  DuplicatesFiltered = {1, 3}
  DuplicatesPageSize = 2
  DuplicatesMaxRequests = 2
  SnacksKeys = {"k", "l"}
  SnacksNoKey = ""
  SnacksMaxActive = 2
  SnacksMaxHistory = 3
  SnacksMaxShows = 4
INVARIANTS
  TypeOK
  AnswersFitTheQuery
  PagesAreContiguous
  ListsFollowTheLibrary
  NoticeIsPolled
  HistoryFollowsSelection
  TourKeepsTrack
  SpinnersAreTrue
  AnnouncementsAreTrue
  DownloadsAreVerified
  SettingsAreTrue
  ComparisonIsOfSelection
  GridShowsTheChanges
CHECK_DEADLOCK FALSE

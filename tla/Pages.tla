-------------------------------- MODULE Pages --------------------------------
(***************************************************************************)
(* The pages of the desktop application.  They share no state but what     *)
(* their own modules say of the library, so a behaviour is one of one page: *)
(* the initial state chooses it, and only its actions fire.  The variables  *)
(* of the open page stand at the same places v1, v2, ... whichever page it  *)
(* is, and the places it does not need are Unused.  The parameters of a     *)
(* page carry its name.                                                     *)
(***************************************************************************)
EXTENDS Naturals, Sequences, FiniteSets

CONSTANTS
  QuickQueries, QuickCombined, QuickNone, QuickMaxRequests, QuickMaxMessages, QuickMaxTimers,
  SearchFiles, SearchFolders, SearchFolderOf, SearchFoldersOf, SearchQueries, SearchBlank,
  SearchFilters, SearchNoFilter, SearchFound, SearchPageSize, SearchMaxFiles,
  SearchMaxRequests,
  LandingPageSize, LandingMaxDocs, LandingMaxRequests,
  ListFilters, ListNoFilter, ListQueries, ListNoQuery, ListLastPage, ListMaxFetches,
  HistoryGroups, HistoryMembers, HistoryExcelGroups, HistoryNone, HistoryMaxCalls,
  TourNone, TourMaxLibraries, TourMaxCalls,
  RegisteredMaxFiles, RegisteredQueries, RegisteredNoQuery, RegisteredPageSize,
  RegisteredMaxFetches, RegisteredMaxRemovals,
  RescanMaxRuns, RescanMaxRequests,
  UpdateTags, UpdateTriple, UpdateCurrent, UpdateNoTag, UpdateMaxSuffix, UpdateMaxRuns,
  DesktopAccelerators, DesktopDefault, DesktopContested, DesktopNone, DesktopMaxRuns,
  SourcesTyped, SourcesFolder, SourcesNoPath, SourcesRefreshes, SourcesMaxSaves,
  SourcesMaxLoads,
  ResetCandidates, ResetRoot, ResetInside, ResetSafeIds, ResetSessionIds, ResetLasting,
  ResetMaxRuns,
  ExcelSheets, ExcelRows, ExcelColumns, ExcelCourses, ExcelSame, ExcelEmpty, ExcelNames,
  ExcelMaxChanges, ExcelMaxCalls, ExcelIssueLimit, ExcelFullLimit, ExcelTopLeftLimit,
  ExcelBuffer, ExcelGap, ExcelMaxSections, ExcelMaxSheets,
  ManualFiles, ManualModes, ManualPairwise, ManualNone, ManualQueries, ManualFound,
  ManualMembers, ManualListed, ManualPageSize, ManualMaxFetches, ManualMaxChanges,
  DuplicatesGroups, DuplicatesFiltered, DuplicatesPageSize, DuplicatesMaxRequests,
  SnacksKeys, SnacksNoKey, SnacksMaxActive, SnacksMaxHistory, SnacksMaxShows

\* The palette can be sent a message.
ASSUME QuickAssumption == QuickMaxMessages \in Nat \ {0} /\ QuickMaxTimers \in Nat

\* The list of groups asks for criteria it has, and has room for one fetch at least.
ASSUME ListAssumption ==
  /\ ListNoFilter \in ListFilters /\ ListNoQuery \in ListQueries
  /\ ListLastPage \in Nat /\ ListMaxFetches \in Nat \ {0}

\* No document is registered twice; there are searches without a filter, and a page of files
\* has one at least and no more than a search may list.
ASSUME SearchAssumption ==
  /\ SearchFiles \in Seq({SearchFiles[i] : i \in DOMAIN SearchFiles})
  /\ \A i, j \in DOMAIN SearchFiles : SearchFiles[i] = SearchFiles[j] => i = j
  /\ SearchPageSize \in Nat \ {0} /\ SearchMaxFiles \in Nat /\ SearchPageSize <= SearchMaxFiles
  /\ SearchNoFilter \in SearchFilters

\* The directory of a candidate holds the candidate itself and maybe others.
ASSUME ResetAssumption ==
  /\ \A c \in ResetCandidates : c \in ResetInside[c] /\ ResetInside[c] \subseteq ResetCandidates
  /\ ResetSafeIds \subseteq ResetCandidates /\ ResetMaxRuns \in Nat \ {0}

\* There is a document, and one request can be made.
ASSUME LandingAssumption ==
  /\ LandingPageSize \in Nat /\ LandingMaxDocs \in Nat \ {0}
  /\ LandingMaxRequests \in Nat \ {0}

\* A group has a file at least, and the absence of a group or of a file is none.
ASSUME HistoryAssumption ==
  /\ HistoryNone \notin HistoryGroups
  /\ \A g \in HistoryGroups :
       LET files == HistoryMembers[g]
       IN  /\ files # <<>> /\ files \in Seq({files[i] : i \in DOMAIN files})
           /\ \A i \in DOMAIN files : files[i] # HistoryNone

\* Only so many example libraries are made.
ASSUME TourAssumption == TourMaxLibraries \in Nat

\* A list of registered documents asks for them once at least.
ASSUME RegisteredAssumption ==
  /\ RegisteredMaxFiles \in Nat /\ RegisteredNoQuery \in RegisteredQueries
  /\ RegisteredPageSize \in Nat /\ RegisteredMaxFetches \in Nat \ {0}
  /\ RegisteredMaxRemovals \in Nat

\* A page of groups with the same contents holds one at least, and one request can be made.
ASSUME DuplicatesAssumption ==
  /\ DuplicatesGroups \in Nat /\ DuplicatesPageSize \in Nat \ {0}
  /\ DuplicatesMaxRequests \in Nat \ {0}

\* The server can run a rescan.
ASSUME RescanAssumption == RescanMaxRuns \in Nat /\ RescanMaxRequests \in Nat

\* What a file of the downloads folder may hold besides the zip of a release has no tag.
ASSUME UpdateAssumption ==
  /\ {UpdateNoTag, "nothing", "other"} \cap UpdateTags = {}
  /\ UpdateMaxSuffix \in Nat

\* There is a shortcut by default, others hold shortcuts, and the absence of one is none.
ASSUME DesktopAssumption ==
  /\ DesktopDefault \in DesktopAccelerators /\ DesktopContested \subseteq DesktopAccelerators
  /\ DesktopNone \notin DesktopAccelerators \cup {"close", "quick", "startup"}

\* Every path that is typed has a folder, and normalising a path twice is normalising it once;
\* the refresh has a value, and a load can be made.
ASSUME SourcesAssumption ==
  /\ SourcesRefreshes # {} /\ SourcesMaxSaves \in Nat /\ SourcesMaxLoads \in Nat \ {0}
  /\ SourcesTyped \subseteq DOMAIN SourcesFolder
  /\ \A p \in DOMAIN SourcesFolder :
       /\ SourcesFolder[p] \in DOMAIN SourcesFolder
       /\ SourcesFolder[SourcesFolder[p]] = SourcesFolder[p]

\* No two sheets have one name, the used range of a sheet has a cell at least, and no cell
\* contains the label that stands for an empty one.
ASSUME ExcelAssumption ==
  /\ ExcelSheets \in Seq({ExcelSheets[i] : i \in DOMAIN ExcelSheets}) /\ ExcelSheets # <<>>
  /\ \A i, j \in DOMAIN ExcelSheets : ExcelSheets[i] = ExcelSheets[j] => i = j
  /\ \A i \in DOMAIN ExcelSheets :
       ExcelRows[ExcelSheets[i]] \in Nat \ {0} /\ ExcelColumns[ExcelSheets[i]] \in Nat \ {0}
  /\ {ExcelBuffer, ExcelGap, ExcelFullLimit, ExcelTopLeftLimit, ExcelIssueLimit,
      ExcelMaxCalls} \subseteq Nat
  /\ {ExcelMaxSections, ExcelMaxSheets} \subseteq Nat \ {0}
  /\ \A contents \in ExcelCourses \cup {ExcelSame} :
       \A i \in 1..3 : contents[i] # "(empty)"

\* The list to choose from holds the files of a group, and can be asked for.
ASSUME ManualAssumption ==
  /\ ManualFiles \in Seq({ManualFiles[i] : i \in DOMAIN ManualFiles})
  /\ ManualMembers \subseteq {ManualFiles[i] : i \in DOMAIN ManualFiles}
  /\ ManualPageSize \in Nat /\ ManualMaxFetches \in Nat \ {0}

\* The inbox and the bottom of the window have room for a message.
ASSUME SnacksAssumption ==
  SnacksMaxActive \in Nat \ {0} /\ SnacksMaxHistory \in Nat \ {0}

Unused == "unused"

VARIABLES
  screen,   \* the page that is explored
  v1, v2, v3, v4, v5, v6, v7, v8, v9, v10, v11, v12, v13, v14, v15, v16, v17, v18, v19,
  v20   \* its variables

vars ==
  <<screen, v1, v2, v3, v4, v5, v6, v7, v8, v9, v10, v11, v12, v13, v14, v15, v16, v17, v18,
    v19, v20>>

Quick == INSTANCE QuickSearch WITH
    Queries <- QuickQueries, Combined <- QuickCombined, None <- QuickNone,
    MaxRequests <- QuickMaxRequests, MaxMessages <- QuickMaxMessages,
    MaxTimers <- QuickMaxTimers, win <- v1, creator <- v2, visible <- v3, focusable <- v4,
    prewarm <- v5, settle <- v6, wipes <- v7, enabled <- v8, registered <- v9,
    isQuitting <- v10, channel <- v11, page <- v12, reqs <- v13, greeted <- v14
Search == INSTANCE SearchPage WITH
    Files <- SearchFiles, Folders <- SearchFolders, FolderOf <- SearchFolderOf,
    FoldersOf <- SearchFoldersOf, Queries <- SearchQueries, Blank <- SearchBlank,
    Filters <- SearchFilters, NoFilter <- SearchNoFilter, Found <- SearchFound,
    PageSize <- SearchPageSize, MaxFiles <- SearchMaxFiles,
    MaxRequests <- SearchMaxRequests, query <- v1, filters <- v2, hidden <- v3,
    typing <- v4, results <- v5, answered <- v6, fetched <- v7, hasMore <- v8,
    loading <- v9, loadingMore <- v10, searched <- v11, requests <- v12
Landing == INSTANCE SearchLanding WITH
    PageSize <- LandingPageSize, MaxDocs <- LandingMaxDocs,
    MaxRequests <- LandingMaxRequests, newest <- v1, told <- v2, active <- v3,
    landing <- v4, total <- v5, landingLoading <- v6, landingMore <- v7, asked <- v8,
    folders <- v9, foldersAsked <- v10
List == INSTANCE GroupList WITH
    Filters <- ListFilters, NoFilter <- ListNoFilter, Queries <- ListQueries,
    NoQuery <- ListNoQuery, LastPage <- ListLastPage, MaxFetches <- ListMaxFetches,
    shown <- v1, stale <- v2, refresh <- v3, draft <- v4, typing <- v5, fetches <- v6,
    loading <- v7, guided <- v8, target <- v9, ready <- v10, failed <- v11
History == INSTANCE GroupHistory WITH
    Groups <- HistoryGroups, Members <- HistoryMembers, ExcelGroups <- HistoryExcelGroups,
    None <- HistoryNone, MaxCalls <- HistoryMaxCalls, active <- v1, selections <- v2,
    history <- v3, calls <- v4, groupBusy <- v5, latestBusy <- v6, grid <- v7, pinned <- v8
Tour == INSTANCE TutorialTour WITH
    None <- TourNone, MaxLibraries <- TourMaxLibraries, MaxCalls <- TourMaxCalls, tab <- v1,
    step <- v2, onboarding <- v3, cleanupPath <- v4, shownPath <- v5, cleaning <- v6,
    tourTimer <- v7, advanced <- v8, found <- v9, searchTimer <- v10, searchKey <- v11,
    searching <- v12, saving <- v13, refresh <- v14, opening <- v15, calls <- v16,
    library <- v17, made <- v18, excused <- v19, booted <- v20
Registered == INSTANCE RegisteredFiles WITH
    MaxFiles <- RegisteredMaxFiles, Queries <- RegisteredQueries,
    NoQuery <- RegisteredNoQuery, PageSize <- RegisteredPageSize,
    MaxFetches <- RegisteredMaxFetches, MaxRemovals <- RegisteredMaxRemovals, library <- v1,
    shown <- v2, fileOffset <- v3, fileQuery <- v4, loading <- v5, fetches <- v6,
    confirm <- v7, confirmAll <- v8, deleting <- v9, removals <- v10, failed <- v11
Rescan == INSTANCE RescanStatusView WITH
    MaxRuns <- RescanMaxRuns, MaxRequests <- RescanMaxRequests, server <- v1, status <- v2,
    summary <- v3, observed <- v4, notified <- v5, requests <- v6, seen <- v7, told <- v8,
    mixed <- v9
Update == INSTANCE UpdateDownload WITH
    Tags <- UpdateTags, Triple <- UpdateTriple, Current <- UpdateCurrent,
    NoTag <- UpdateNoTag, MaxSuffix <- UpdateMaxSuffix, MaxRuns <- UpdateMaxRuns,
    release <- v1, files <- v2, checked <- v3, cached <- v4, job <- v5, info <- v6,
    open <- v7, downloading <- v8, path <- v9, error <- v10, dismissed <- v11, runs <- v12,
    abandoned <- v13, exchanged <- v14
Desktop == INSTANCE DesktopSettings WITH
    Accelerators <- DesktopAccelerators, Default <- DesktopDefault,
    Contested <- DesktopContested, None <- DesktopNone, MaxRuns <- DesktopMaxRuns,
    file <- v1, cache <- v2, hotkey <- v3, taken <- v4, login <- v5, prompt <- v6,
    shown <- v7, capture <- v8, asking <- v9, call <- v10, unsure <- v11, runs <- v12
Sources == INSTANCE FolderSettings WITH
    Typed <- SourcesTyped, Folder <- SourcesFolder, NoPath <- SourcesNoPath,
    Refreshes <- SourcesRefreshes, MaxSaves <- SourcesMaxSaves, MaxLoads <- SourcesMaxLoads,
    stored <- v1, shown <- v2, loading <- v3, draft <- v4, picking <- v5, rescanning <- v6,
    dialog <- v7, requests <- v8, saves <- v9, loads <- v10, kept <- v11, rushed <- v12
Reset == INSTANCE AppDataReset WITH
    Candidates <- ResetCandidates, Root <- ResetRoot, Inside <- ResetInside,
    SafeIds <- ResetSafeIds, SessionIds <- ResetSessionIds, Lasting <- ResetLasting,
    MaxRuns <- ResetMaxRuns, data <- v1, prefs <- v2, window <- v3, paths <- v4,
    loading <- v5, selected <- v6, dialog <- v7, result <- v8, job <- v9, marker <- v10,
    notice <- v11, fresh <- v12, run <- v13
Excel == INSTANCE ExcelChanges WITH
    Sheets <- ExcelSheets, Rows <- ExcelRows, Columns <- ExcelColumns,
    Courses <- ExcelCourses, Same <- ExcelSame, Empty <- ExcelEmpty, Names <- ExcelNames,
    MaxChanges <- ExcelMaxChanges, MaxCalls <- ExcelMaxCalls, IssueLimit <- ExcelIssueLimit,
    FullLimit <- ExcelFullLimit, TopLeftLimit <- ExcelTopLeftLimit, Buffer <- ExcelBuffer,
    Gap <- ExcelGap, MaxSections <- ExcelMaxSections, MaxSheets <- ExcelMaxSheets,
    book <- v1, pair <- v2, issues <- v3, calls <- v4, modal <- v5
Manual == INSTANCE ManualCompare WITH
    Files <- ManualFiles, Modes <- ManualModes, Pairwise <- ManualPairwise,
    None <- ManualNone, Queries <- ManualQueries, Found <- ManualFound,
    Members <- ManualMembers, Listed <- ManualListed, PageSize <- ManualPageSize,
    MaxFetches <- ManualMaxFetches, MaxChanges <- ManualMaxChanges, library <- v1,
    files <- v2, fileTotal <- v3, fileOffset <- v4, fileQuery <- v5, filesLoading <- v6,
    fetches <- v7, opened <- v8, detail <- v9, selected <- v10, running <- v11,
    result <- v12, touched <- v13
Duplicates == INSTANCE DuplicateFiles WITH
    Groups <- DuplicatesGroups, Filtered <- DuplicatesFiltered,
    PageSize <- DuplicatesPageSize, MaxRequests <- DuplicatesMaxRequests, library <- v1,
    groups <- v2, total <- v3, offset <- v4, loading <- v5, query <- v6, requests <- v7
Snacks == INSTANCE Snackbar WITH
    Keys <- SnacksKeys, NoKey <- SnacksNoKey, MaxActive <- SnacksMaxActive,
    MaxHistory <- SnacksMaxHistory, MaxShows <- SnacksMaxShows, log <- v1, cleared <- v2,
    snacks <- v3, inbox <- v4, open <- v5, timers <- v6

\* A page with n variables leaves the others alone.
Rest5 == <<v6, v7, v8, v9, v10, v11, v12, v13, v14, v15, v16, v17, v18, v19, v20>>
Rest6 == <<v7, v8, v9, v10, v11, v12, v13, v14, v15, v16, v17, v18, v19, v20>>
Rest7 == <<v8, v9, v10, v11, v12, v13, v14, v15, v16, v17, v18, v19, v20>>
Rest8 == <<v9, v10, v11, v12, v13, v14, v15, v16, v17, v18, v19, v20>>
Rest9 == <<v10, v11, v12, v13, v14, v15, v16, v17, v18, v19, v20>>
Rest10 == <<v11, v12, v13, v14, v15, v16, v17, v18, v19, v20>>
Rest11 == <<v12, v13, v14, v15, v16, v17, v18, v19, v20>>
Rest12 == <<v13, v14, v15, v16, v17, v18, v19, v20>>
Rest13 == <<v14, v15, v16, v17, v18, v19, v20>>
Rest14 == <<v15, v16, v17, v18, v19, v20>>

\* The variables from one on are not used.
Idle20 == v20 = Unused
Idle19 == v19 = Unused /\ Idle20
Idle18 == v18 = Unused /\ Idle19
Idle17 == v17 = Unused /\ Idle18
Idle16 == v16 = Unused /\ Idle17
Idle15 == v15 = Unused /\ Idle16
Idle14 == v14 = Unused /\ Idle15
Idle13 == v13 = Unused /\ Idle14
Idle12 == v12 = Unused /\ Idle13
Idle11 == v11 = Unused /\ Idle12
Idle10 == v10 = Unused /\ Idle11
Idle9 == v9 = Unused /\ Idle10
Idle8 == v8 = Unused /\ Idle9
Idle7 == v7 = Unused /\ Idle8
Idle6 == v6 = Unused /\ Idle7

\* Each page starts in its own initial states.
Init ==
  \/ screen = "quick" /\ Quick!Init /\ Idle15
  \/ screen = "search" /\ Search!Init /\ Idle13
  \/ screen = "landing" /\ Landing!Init /\ Idle11
  \/ screen = "groups" /\ List!Init /\ Idle12
  \/ screen = "history" /\ History!Init /\ Idle9
  \/ screen = "tour" /\ Tour!Init
  \/ screen = "files" /\ Registered!Init /\ Idle12
  \/ screen = "rescan" /\ Rescan!Init /\ Idle10
  \/ screen = "update" /\ Update!Init /\ Idle15
  \/ screen = "desktop" /\ Desktop!Init /\ Idle13
  \/ screen = "sources" /\ Sources!Init /\ Idle13
  \/ screen = "reset" /\ Reset!Init /\ Idle14
  \/ screen = "excel" /\ Excel!Init /\ Idle6
  \/ screen = "manual" /\ Manual!Init /\ Idle14
  \/ screen = "duplicates" /\ Duplicates!Init /\ Idle8
  \/ screen = "snackbar" /\ Snacks!Init /\ Idle7

QuickStep == screen = "quick" /\ Quick!Next /\ UNCHANGED <<screen, Rest14>>
SearchStep == screen = "search" /\ Search!Next /\ UNCHANGED <<screen, Rest12>>
LandingStep == screen = "landing" /\ Landing!Next /\ UNCHANGED <<screen, Rest10>>
ListStep == screen = "groups" /\ List!Next /\ UNCHANGED <<screen, Rest11>>
HistoryStep == screen = "history" /\ History!Next /\ UNCHANGED <<screen, Rest8>>
TourStep == screen = "tour" /\ Tour!Next /\ UNCHANGED screen
RegisteredStep == screen = "files" /\ Registered!Next /\ UNCHANGED <<screen, Rest11>>
RescanStep == screen = "rescan" /\ Rescan!Next /\ UNCHANGED <<screen, Rest9>>
UpdateStep == screen = "update" /\ Update!Next /\ UNCHANGED <<screen, Rest14>>
DesktopStep == screen = "desktop" /\ Desktop!Next /\ UNCHANGED <<screen, Rest12>>
SourcesStep == screen = "sources" /\ Sources!Next /\ UNCHANGED <<screen, Rest12>>
ResetStep == screen = "reset" /\ Reset!Next /\ UNCHANGED <<screen, Rest13>>
ExcelStep == screen = "excel" /\ Excel!Next /\ UNCHANGED <<screen, Rest5>>
ManualStep == screen = "manual" /\ Manual!Next /\ UNCHANGED <<screen, Rest13>>
DuplicatesStep == screen = "duplicates" /\ Duplicates!Next /\ UNCHANGED <<screen, Rest7>>
SnacksStep == screen = "snackbar" /\ Snacks!Next /\ UNCHANGED <<screen, Rest6>>

Next ==
  \/ QuickStep
  \/ SearchStep
  \/ LandingStep
  \/ ListStep
  \/ HistoryStep
  \/ TourStep
  \/ RegisteredStep
  \/ RescanStep
  \/ UpdateStep
  \/ DesktopStep
  \/ SourcesStep
  \/ ResetStep
  \/ ExcelStep
  \/ ManualStep
  \/ DuplicatesStep
  \/ SnacksStep

Spec == Init /\ [][Next]_vars

-----------------------------------------------------------------------------
(***************************************************************************)
(* What each page promises, stated in its own module.                      *)
(***************************************************************************)

\* Every page's variables keep their types.
TypeOK ==
  /\ screen = "quick" => Quick!TypeOK
  /\ screen = "search" => Search!TypeOK
  /\ screen = "landing" => Landing!TypeOK
  /\ screen = "groups" => List!TypeOK
  /\ screen = "history" => History!TypeOK
  /\ screen = "tour" => Tour!TypeOK
  /\ screen = "files" => Registered!TypeOK
  /\ screen = "rescan" => Rescan!TypeOK
  /\ screen = "update" => Update!TypeOK
  /\ screen = "desktop" => Desktop!TypeOK
  /\ screen = "sources" => Sources!TypeOK
  /\ screen = "reset" => Reset!TypeOK
  /\ screen = "excel" => Excel!TypeOK
  /\ screen = "manual" => Manual!TypeOK
  /\ screen = "duplicates" => Duplicates!TypeOK
  /\ screen = "snackbar" => Snacks!TypeOK

\* What is listed was found by the words that are now typed, in the palette (searchDocuments
\* checks the number of its search after every await) and on the search page.
AnswersFitTheQuery ==
  /\ screen = "quick" => Quick!DocumentsAnswerTheQuery
  /\ screen = "search" => Search!ResultsAnswerTheQuery

\* Pages fetched while scrolling follow one another without a gap and without a repetition.
PagesAreContiguous == screen = "search" => Search!PagesAreContiguous

\* What is said of the library belongs to the rows that are shown: the documents on the empty
\* search page come from one state of it, and the counts and ranges of the registered files
\* and of the groups with the same contents are those of the rows they stand by.
ListsFollowTheLibrary ==
  /\ screen = "landing" => Landing!LandingFollowsLibrary
  /\ screen = "files" => Registered!HeaderMatchesRows
  /\ screen = "duplicates" => Duplicates!RangeIsOfTheRows

\* While the page says that the groups are being prepared, something will ask again.
NoticeIsPolled == screen = "groups" => List!NoticeIsPolled

\* The comparison that is shown is the one of the selected group and versions.
HistoryFollowsSelection == screen = "history" => History!HistoryFollowsSelection

\* The tour keeps track of what it started: the examples it registered are remembered until
\* they are removed, and no timer of a step outlives the step.
TourKeepsTrack ==
  screen = "tour" => Tour!ExampleRemembered /\ Tour!TimersMatchTheStep

\* A page that shows that it is working has a request whose end will stop it.
SpinnersAreTrue ==
  /\ screen = "quick" => Quick!SpinnerHasASearch
  /\ screen = "search" => Search!SearchSpinner
  /\ screen = "groups" => List!ListSpinner
  /\ screen = "history" => History!HistoryIsFinished /\ History!ButtonsStopSpinning
  /\ screen = "files" => Registered!ListSpinner
  /\ screen = "duplicates" => Duplicates!DuplicatesSpinner

\* Announcements are true and are kept: the end of every rescan the application saw running is
\* announced, a reset only when everything chosen is gone, and what is announced replaces what
\* it supersedes and can be read again in the inbox.
AnnouncementsAreTrue ==
  /\ screen = "rescan" => Rescan!EndIsAnnounced /\ Rescan!NumbersFitTheTitle
  /\ screen = "reset" => Reset!AnnouncedMeansRemoved
  /\ screen = "snackbar" => Snacks!InboxIsExact /\ Snacks!SnacksAreCurrent

\* A download that is shown as ready has been verified, and of one that failed no file stays
\* that the application can remove and tries to.
DownloadsAreVerified ==
  screen = "update" => Update!ShownIsVerified /\ Update!NoLeftovers

\* Settings are what was written: the registered shortcut and the settings page follow the
\* file, and folders that were saved stay saved until the user takes them out.
SettingsAreTrue ==
  /\ screen = "desktop" => Desktop!HotkeyFollowsSettings /\ Desktop!ShownIsStored
  /\ screen = "sources" => Sources!ConfirmedFoldersStay

\* Files chosen by hand are compared only when they can be, and the result that is shown is
\* that of the files that are selected.
ComparisonIsOfSelection ==
  screen = "manual" => Manual!ComparedFit /\ Manual!ResultFitsSelection

\* Every change the comparison lists is found in the window of the sheets, or counted there as
\* not shown, and the colours are those of the newest change.
GridShowsTheChanges ==
  screen = "excel" => Excel!ChangesAreShown /\ Excel!ColoursAreTrue

=============================================================================

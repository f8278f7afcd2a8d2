# OfficeWhere: a verification development

OfficeWhere is a desktop application that indexes the Office and PDF documents
of the folders a user chooses to watch, searches them, groups the versions of a
document and compares them. It never changes a source document; everything it
keeps is in a SQLite database of its own. The program is a Python backend
(`backend/`, FastAPI, run by `backend_server.py`) with a web interface
(`frontend/src`) in an Electron shell (`frontend/electron`).

This directory holds TLA+ models of the backend's concurrent core, of the
backend process as the desktop application handles it, and of the pages of the
interface with their asynchronous calls; the TLC instances that check them; and
proofs for TLAPS. `PROJECT.json` says for every definition which lines of the
source it stands for.

Contents: [the system](#the-system) · [what is hard](#what-is-hard) ·
[modules](#the-modules) · [runs](#the-runs) · [fairness](#fairness) ·
[proofs](#what-is-proved) · [findings](#findings-and-known-behaviour) ·
[not modelled](#what-is-not-modelled)

## The system

| part | source | state | operations |
|---|---|---|---|
| rescan coordination | `core/rescan.py`, `core/library.py` | status dictionary, cancel event, execution lock | start, cancel, status, synchronous rescan, the job thread |
| rescan pipeline | `core/library.py` (`_rescan_library_impl`) | futures of the pool, write buffer, results, staging database | submit, collect, buffer, flush, retry one by one, drain on a stop |
| files and registrations | `core/library.py`, `database.py`, `api/files.py` | `registered_files` and the rows that hang on it | scan, judge the missing, skip, recover, relocate, index, purge, register, remove |
| group index refresh | `core/library.py`, `database.py`, `storage/library_groups.py` | group rows and facts, dirty keys, index state, worker thread, refresh lock | schedule, refresh in full or by keys, refresh on request |
| search and its cache | `application/search_service.py`, `core/search_cache.py`, `database.py` | cache entries, epoch, shared read connection, state of the text index | search, invalidate, repair the text index |
| initial staging | `database.py` | temporary database | build, check, copy over the main database |
| folder scan | `core/library_scanner.py`, `core/library_scan_cache.py`, `core/everything_scanner.py` | directory snapshots in a JSON file | walk, reuse a snapshot, ask Everything |
| comparison | `application/check_service.py`, `core/*_compare.py`, `storage/comparison_artifacts.py` | comparison cache, artifacts per file | compare, cache, prune |
| duplicates and identity | `storage/duplicate_content.py`, `core/library_identity.py` | fingerprints | ensure fingerprints, group by name and content |
| derived repairs | `database.py`, `main.py` | index versions and states | repair text index, Excel index, artifacts after a start |
| settings, scheduler | `core/library.py`, `core/library_settings.py` | settings rows, a timer | normalise, save, rescan daily |
| backend process | `frontend/electron/main.ts`, `providerDiscovery.ts` | child process, discovery file, way out | start with a retry, exit, quit, remove the data |
| desktop application | `frontend/electron/main.ts`, `App.tsx` | palette window, settings file, downloads, data on disk | shortcut, prewarm, settings, update, reset |
| user interface | `frontend/src` | what is on screen, requests under way, timers | search, page, group, compare, tour, announce |
| parsers, provider API, tutorial, pickers | `core/*_analysis.py`, `application/provider_service.py`, ... | none that lasts | extract, project, write examples |

How they interact. An API call runs in a thread of the server's pool. A rescan
job is one more thread with a pool of its own; it takes the execution lock that
a synchronous rescan (scheduler, API) takes too. Every write goes through
`_write_connection`, which holds `_DB_WRITE_LOCK`; after the commit the writer
bumps the search cache's epoch and closes the shared read connection, for which
it takes `_SEARCH_READ_LOCK`. A search holds the read lock from beginning to
end. Whoever changes a registered file marks the group index in the same
transaction and then asks for a refresh, which a worker thread does in the
background or the next request for the groups does itself; no refresh starts
while a rescan is active. The Electron main process starts the backend, waits
until it answers, publishes where it listens in a discovery file, and stops it
on the way out. The pages call the backend over HTTP and the main process by
messages; they run in one thread, so that an action is what happens between two
awaits, and everything that is awaited comes back late and in any order.

What makes each part correct: see the properties of the runs below.

## What is hard

`PROJECT.json` lists the hazards at their lines. In short: a stop that races
the start and the end of a rescan; overlapping job threads (a job releases the
lock before its thread has ended); results that arrive in any order, batches
that fail in part and a drain in the middle; files that change, vanish and come
back between two looks at them, and folders that cannot be looked at; workers
that race for one registration; answers computed before and stored after a
commit; a derived index rebuilt from rows that are changed meanwhile; threads
that hand work to each other through a flag; a child process that crashes,
hangs or ends while it is started, stopped or replaced; pages whose closures,
timers and answers belong to a query, a selection or a step that is gone.

## The modules

`RescanService` is an abstract specification, the others model code.
`RescanCoordinator` fixes that one rescan runs at a time; `FileLifecycle` and
`RescanPipeline` are two views of what that rescan does (its data and its
control), and `GroupIndexRefresh` and `SearchCache` of what follows its commits.
`BackendProcess` is the process all of that runs in, and sixteen page modules,
composed by `Pages`, are what the user sees of it.

### RescanCoordinator (`RescanService`, `RescanCoordinatorMC`)

The status (`running`, `stage`, `cancel_requested`), the shared cancel event,
the execution lock, and for every rescan thread its control point and the work
it has left, as three counters (folders, files to submit, files in flight).
`BeginOrCurrent` is `start_library_rescan` with `begin_or_current`,
`RequestCancel` is `cancel_library_rescan`, `RescanLibrary` the synchronous
entry; `Update` is each progress patch, taken under the status lock; `Impl` are
the steps of `_rescan_library_impl` that look at the event; `Judge`, `Report`,
`Release`, `ClearCancelEvent` are the end of `_run_rescan_job`, in its order.
Workers look at the event too and give a file up. An exception can come at any
step; a folder whose scan fails is reported and passed over (`library.py:562`), so that it
counts as gone through. History: `asked` (was a stop accepted, before or after the job's
last look at the event), `cut` (was something left out), `verdict`.

`RescanService` is the promise to the window that polls: a stop accepted in time
ends as cancelled or failed, an unstopped rescan is never called cancelled, and
every rescan ends. `RescanCoordinator` implements it under the mapping `Service`
for as long as no job starts before the thread of the last one has ended.

### RescanPipeline (`RescanPipelineMC`)

One thread collects what a pool of workers returns. Each file's future goes from
none over queued and running to prepared, returned, failed or cancelled, and is collected.
Prepared writes are buffered: flushed before an append that would exceed
the chunk limit, after one that reaches a limit, when the interval has passed (a
flush that may come at any look, as no clock is kept), on a stop and at the end.
A batch that fails is saved file by file, or aborts the rescan when it went to
the staging database, which is closed then. A file is its chunk count.

### FileLifecycle (`FileLifecycleMC`)

The disk (a version at each path), drives that are away, directories that cannot
be read, the registrations, one rescan with its snapshot of the registrations
and the job of each path it found, one register request. The scan of a folder is
a step: it fails as a whole, lists what is visible, or (the Everything SDK)
lists files with modification times but proves nothing about the rest. `Judge`
and `MarkMissing` are the two steps of missing detection, `Look`, `Recover`,
`Read`, `Match`, `Relocate`, `Save` those of `_register_or_update` and the flush
that follows, `Purge` the end. Files are written, deleted, moved and copied, and
drives and permissions come and go between any two of them; indexing or saving
fails, the rescan is stopped, the process dies.

Abstractions. A version is a text and the modification time that names it: the
program's tolerance of one second is left out, and a fingerprint is the text (files of one
text have one type). The walk of a folder is atomic and the snapshot cache is
exact, which `FolderScan` looks at. Each prepared file is saved on its own. `relocated_ids` grows in the step
that commits the relocation: between the two nothing tells the difference, as
the other worker's relocation of that id only repeats the commit. A request to
register is one at a time; bulk registration is that request repeated. History:
`lost` (covered paths where nothing was at some moment since their scan),
`quiet` (nothing interfered), `torn` (times whose file was replaced between the
stat and the read: should exactly that old version be restored later, it is
taken for indexed; the property says so and excludes it).

### FolderScan (`FolderScanMC`)

The tree of one watched folder and the entry it has in `library_scan_cache.json`.
`Begin`, `Load`, `ValidateDirectory`, `ValidatePath` and `MarkReused` are the reuse of
a snapshot, `AskEverything` the SDK, `Sign`, `List` and `Save` the walk, which
takes the signature of a directory before it lists it. Between any two of these
entries appear and disappear, directories lose and regain their permissions, a
day passes, the cache file is lost; writing it may fail. A snapshot keeps the
creation time of the one it replaces, as in `save_entry`: a day after the first one
every scan is a walk.

Abstractions. Excluded directories, unsupported files and links are not in the
tree, and a scan that is not recursive has one directory. Modification time, size
and inode are one stamp, new with every change: two changes within the resolution
of the file system's clock are not told apart by the program. `os.scandir` lists at
once. A directory that is shut hides what is below from `stat`, as on POSIX. The
root is there and local: a missing root fails the scan (`FileLifecycle`), a
network root has no snapshots. History: `always` and `ever` (files to be
seen throughout, or at some moment of the scan), `blind`, `misses`, `failures`.

### GroupIndexRefresh (`GroupIndexRefreshMC`)

A registered file, its fact row and its place in its group's row are each the
version they were made from. The state of the index and its reason, dirty keys,
the refresh lock, the worker with its pending flag, register and remove calls, a
rescan, readers that find the index unfit and refresh it. A refresh takes the
transactions of the code one by one: decide, read, replace; or mark, read rows,
write facts, build, write groups. `Disturbances` names what may happen besides:
changes that overlap, a stopped rescan, relocations, slow refreshes, failures.

### SearchCache

Searches go through borrow, status, epoch, key, names, texts, store; writers
through lock, write, commit, bump, close. Rows are the set of changes they show;
the index has a state and the time it was updated, and a repair is a writer
that goes through refreshing. The cache's order of use is left out: any other
entry may be evicted, and an entry may expire at any moment. A page filled by
file names alone counts as searched. An index that is not ready yields an answer
without contents.

### BackendProcess

The attempts of `startBackendWithRetry`, each with a child process; the exit
handler, the three ways out (a quit, a quit of the system, the removal of the
data) with their calls of `stopBackendAndWait`, the timers that end a wait, the
discovery file with its handle, and the box that tells of a crash. `Startup`,
`Quit`, `Clear` and `Stopping` are the main process, one action between two
awaits; children come up, hang, crash or obey at any moment. `Win32` says whether a kill
by force is a signal or another program, taskkill, which is awaited: then other events are
handled before the wait that follows (`StopKilled`, `ShutdownWaits`). When the exit of the
child is one of them, `shutdownApp` reads an empty `backendProcess`, its last wait throws
before anything could catch it (`main.ts:1738`, `2034`), and the shutdown is `rejected`.
History: `told` (who
was sent a signal), `doomed` (who was killed), `reaped` (whose exit was handled),
`boxed`, and `calm` (was the start over when the quit began). The ports and the
health probe are outcomes, and the file system of the discovery file is one file.

### The pages (`Pages`, `PagesMC`)

Each page is a module whose constants are its documents, queries and bounds and
whose variables are what React state, refs, timers and requests hold. A request
is a record of what it asked for and waits in a set or a map until it is
answered, in any order, or fails. What a closure of an earlier rendering
remembers is part of the record, and what the code reads anew on the answer is
read from the state.

| module | source | what it has |
|---|---|---|
| `QuickSearch` | `main.ts`, `QuickSearchPalette.tsx` | the palette window, its prewarming and shortcut, messages to it, its two searches per query |
| `Filtering` | (`Array.prototype.filter`) | what is left of a list, in its order: for the search page and the files chosen by hand |
| `SearchPage` | `FileSearch.tsx` | debounce, filters, hidden folders, aborts, pages fetched while scrolling |
| `SearchLanding` | `FileSearch.tsx` | newest documents and watched folders before a search |
| `GroupList` | `ConsistencyCheck.tsx` | criteria, answers from an index under refresh, the poll that follows |
| `GroupHistory` | `ConsistencyCheck.tsx`, `GroupTimeline.tsx` | an opened group, its comparisons one after another, the pin, the Excel grid |
| `ManualCompare` | `ConsistencyCheck.tsx` | files chosen by hand across pages, and compared |
| `ExcelChanges` | `excel_compare.py`, `excel_diff_grid.py`, `client.ts`, `excelResult.tsx` | changed cells on their way to the window: limits, sections, colours |
| `RegisteredFiles` | `FileManager.tsx`, `RegisteredFilesSection.tsx` | the paged list, removal one by one, keys and buttons of the dialogs |
| `DuplicateFiles` | `DuplicateFiles.tsx` | pages of equal documents and a filter over them |
| `RescanStatusView` | `LibraryRescanContext.tsx` | the poll of the status and the announcement of the end |
| `TutorialTour` | `App.tsx`, `tutorial_examples.py` | steps, timers, examples that are made, added and removed on every way out |
| `FolderSettings` | `FileManager.tsx` | whole copies of the settings saved and loaded in any order |
| `DesktopSettings` | `main.ts`, `GeneralSettingsSection.tsx` | settings file, copy in memory, shortcut, login item |
| `AppDataReset` | `main.ts`, `FileManager.tsx`, `App.tsx` | candidates removed in part, the marker, the next start |
| `UpdateDownload` | `main.ts`, `App.tsx` | release, checksum, an existing file or a download, verification; files that other programs put there, exchange or take, reads and removals that fail |
| `Snackbar` | `Snackbar.tsx` | messages with keys, timers, the inbox |

The pages share no state, so a behaviour of `Pages` is one of a single page:
`screen` chooses the page in the initial state and never changes, the variables
`v1` to `v20` stand for those of the page by the substitutions of its
`INSTANCE`, and a property of `Pages` joins the properties of one theme over the
pages it is about. The product of the pages would add interleavings of steps
that do not touch each other, and nothing else. The parameters of every page are
constants of `Pages`, which carry the name of the page; `PagesMC` and
`Pages.cfg` give them values.

## The runs

| run | instance | what it shows |
|---|---|---|
| `rescan_single` | 1 job, 1 synchronous caller, 3 folders, 2 workers | `CancelHonoured`, `CompletedMeansAll`; implements `RescanService` with its liveness (`ServiceSpec`); `RescanEnds` |
| `rescan_overlap` | 2 job threads, 1 synchronous caller, 2 folders, 1 worker | `OneRescanAtATime`, `StatusIsEarned`, `LastWordStays` also when threads overlap |
| `rescan_lost_stop` | 2 job threads, 1 synchronous caller, 3 folders, 2 workers | refutes `CancelHonoured` for overlapping threads |
| `pipeline` | 4 files of 1, 2, 4, 5 chunks, limits of 2 files and 4 chunks, 2 workers | `FilesAreAccounted`: one true result per file and nothing lost; `WithinLimits` |
| `lifecycle` | 2 folders with a path each, 2 texts, 2 workers, 2 outside events of all kinds | `TrustMtime`, `Converges`, `RegistrationsAreKept`, `MarkedWasLost` |
| `lifecycle_copy` | the same, copies and drives only | refutes `OnlyTheGoneMove` |
| `folder_scan` | a file in the root, one two directories below, 3 events, snapshots used once | `ScanIsExact`, `MissedNotForLong` |
| `group` | 2 files with one key in up to 2 versions, a client, a request, a rescan, the worker; a calm scenario and a rough one | `UndisturbedIsFresh`, `RefreshExclusive`, `RefreshEnds` |
| `group_stale_ready` | the same, changes may overlap | refutes `ReadyMeansFresh` |
| `search_cache` | 2 searches, a writer, a repair, cache of 1 entry | `FreshAnswers`, `CacheIsSound`, `BorrowedStaysOpen`, `EveryoneEnds` |
| `backend_process` | 2 attempts, a quit, a removal of the data, on Windows | `BoxMeansCrash`, `NothingLeftBehind`, `ExitUnpublishes`, `RemovalIsQuiet`, `ShutdownEnds` |
| `pages` | each of the 16 pages from its initial states, some 1.5 million states together | `TypeOK` of the open page and the twelve properties below |

The properties of `pages`, each over the pages it names in `Pages`:
`AnswersFitTheQuery` (what is listed answers the words that are typed),
`PagesAreContiguous` (no gap and no repetition), `ListsFollowTheLibrary` (what is
said of rows fits the rows), `NoticeIsPolled` (a notice that groups are being
prepared always has something that will ask again), `HistoryFollowsSelection`,
`ComparisonIsOfSelection` (a comparison is that of what is selected),
`TourKeepsTrack` (within one life of the window, examples on disk are those that it will
remove or that a call is about, and timers belong to the step), `SpinnersAreTrue` (who shows
work has a request whose end will stop it),
`AnnouncementsAreTrue`, `DownloadsAreVerified` (a file that is shown as downloaded has
the sum of its release, and no other file of a download stays where it could be removed),
`SettingsAreTrue`, `GridShowsTheChanges`.

Why the bounds suffice. *Coordinator*: what a stop can hit is a folder boundary,
a file to submit and a file in flight, so two folders and a worker tell
first, middle and last apart, and a third folder or second worker adds a middle. Two job
threads are enough for an overlap, as a third cannot start before the second has
released. *Pipeline*: a file below, two under the limit together, one at it and one
above; more files than both limits and than the workers, so that every flush
reason occurs. *Lifecycle*: two paths are what a move, a copy or a race for a
registration takes, and two events a change and its interference; day 1 lets a
grace period of one day run out. Three paths (without requests and crashes) and
three events (for subsets of `Events`) were explored as well, without error.
*Folder scan*: a chain of two directories below the root has one to list, one
to find listed and one found only through it; three events make a directory unreadable
for a walk, open it again and disturb a later scan, and a snapshot used once is both
below and at its limit.
*Groups*: two files give a group that keeps a member while it loses the other.
A third file, with a key of its own, and a second request were explored without
disturbance and with one version, without error, and the proof covers any number.
*Cache*: one question, so that searches meet in a key; one entry, so that they
evict each other; `MaxEpoch` only bounds the extra bump a rescan makes at its
end. *Backend*: two attempts are a first, which is retried, and a last, which is
not; the run is the one of Windows, whose kills are awaited (the instance of the other
systems, a smaller one, was checked as well, without error). *Pages*: two queries tell the
answers of an old and a new one apart, pages
of one or two rows have a first, a middle and a last, and two or three requests
are an answer, the one that overtakes it and a third that follows; the search
page has four documents on pages of one, so that pages are fetched after a row was
hidden. The `Max` constants in `Pages.cfg` and `PagesMC`
name these bounds. An exhausted bound
stops a page where the real one would go on, so `pages` does not check deadlock.

`Texts` are interchangeable in `FileLifecycle` and job threads in
`RescanCoordinator`, both only compared for equality, and the runs that use the
symmetry check no liveness.

The preconditions in properties are part of what is claimed. `Converges` speaks
of a rescan with nothing interfering. With several workers it leaves out new
files with the same text: they race for the one registration they could both be
(`library.py:786`), and when the second relocation comes after the first one's
save, the first path is left without a registration although both were reported
as relocated; the next rescan registers it. `UndisturbedIsFresh` is
`ReadyMeansFresh` without disturbances: each of the five alone leads to an index
that calls itself ready and is not fresh. After a `stop` nothing
is handed over, and a later targeted refresh of another file says `ready`; with
`relocate` a moved file is not among the ids the rescan hands over, while those
of the files saved with it make the refresh a targeted one; with `fail` and
`slow` (a wait of more than five seconds for another refresh) the ids are
dropped and only the dirty keys remain, whose groups are then rebuilt from old
facts; `overlap` is the run `group_stale_ready`. The properties of
`BackendProcess` that speak of the way out require that the start was over when
the quit began (`calm`): `shutdownApp` stops the child it finds, and
`startBackendWithRetry` may start another one behind it (`main.ts:1788`). `ShutdownEnds`
says that a shutdown ends with `app.exit`, but for the rejected shutdown of Windows, which
ends without it: the window and the tray are gone, the process stays, and a further quit by
the user returns at once (`main.ts:1726`; the model ends there). `DownloadsAreVerified`
leaves out a file that another program changes after its check, and unverified files that
could not be removed or read or that an ended application left (`abandoned`): the code
ignores the failure of each of its removals (`main.ts:542`, `546`, `722`) and removes
nothing when the sum cannot be computed (`main.ts:720`). `ExampleRemembered`, of the tour,
excuses libraries that a failed call left, and speaks of one life of the window: what
remembers the library is a ref in memory.

## Fairness

Threads that are not blocked run: weak fairness for each thread's steps (job,
caller, worker, refresh, writer, search), which is what an operating system's
scheduler gives. Weak fairness is enough for the locks, as a caller waits
only for threads that give up the lock and each makes its call once. In
`BackendProcess` the main process goes on with what it awaited: the start, the
quit, the removal and each call of `stopBackendAndWait` (fair one by one, for each of
the two ways out that call it), whose timers make the wait end whatever the child does;
nothing is fair about the children.
Nothing is fair about users, files, drives, failures, the interval flush or
expiry either: they may happen. The pool's threads are only assumed to finish the file
they are at. The pages are checked for safety only: a server need not answer. What
would be a liveness property there is said as an invariant instead: who shows
work, or a notice, has something under way that will end it.

## What is proved

TLAPS proves the following for every value of the constants under the `ASSUME`s
of the modules (finite sets of paths and folders, positive limits, distinct
names, a system that is Windows or not, a tree whose root is above every entry, a number of
versions; for the
pages: no document registered twice, a file in every group, a directory that
holds the candidate it is of, a path that is normal once it was normalised,
sheets with different names of which each has a cell, no cell that contains the label
of an empty one, a default among the shortcuts, a list of files to choose from that
holds those of the group, bounds that are numbers, and room for one request, one
message and one page), by one step per action.

| module | theorems | argument |
|---|---|---|
| `RescanCoordinatorProofs` | `TypeCorrect`, `MutualExclusion`, `StatusEarned`, `LastWordIsKept` (`LastWordStays`) for any threads; `StopIsHonoured`, `CompletedIsComplete`, `StatusImplementsService` for one job name; `RescanWindsDown`, `RescansNeverStuck`, `RescanProgresses` | Mutual exclusion alone is inductive with types. Truth of the status needs that only the job in `Reporting` writes `running`. For the last word: while the status is not running no job is between its start and its report, and a patch that waits for the status lock belongs to such a job. For the stop the invariant relates the event to `asked`: once a stop was accepted in time the event stays set until the verdict, which one job thread guarantees as nobody else clears it. |
| `RescanPipelineProofs` | `TypeCorrect`, `AllAccounted`, `LimitsHold`; `IndexingWindsDown`, `IndexingNeverStuck`, `IndexingProgresses` | A file's future, its place (in hand, in the buffer) and its results determine each other: a collected file has a result exactly if it is in neither place; `chunks` is the sum of the buffer's sizes; saved files are those with result `saved`, or are in the staging database. |
| `SearchCacheProofs` | `TypeCorrect`, `AnswersAreFresh`, `CacheSound`, `BorrowIsExclusive`; `EveryCallWindsDown`, `LocksOrdered`, `ConnectionComesBack` | A committed change is shown by every entry of the current epoch unless its writer has yet to bump; a search that keyed its answer under an epoch reads rows no older than that epoch. |
| `FolderScanProofs` | `TypeCorrect`, `ScansAreExact`, `MissedIsBounded` | A signature that still has the stamp of its directory tells that nothing is in it that was not listed, as it is taken before the listing and every change renews the stamp (`Faithful`). On the way down to a file that can be seen all the time each directory listed, or validated, leads to the next (`Followed`); with nothing pending the way ends at the file (`WayEnds`). A walk meets no closed directory above such a file (`SightInv`), so only the uses of a snapshot can miss it, and they are counted (`MissInv`). |
| `FileLifecycleProofs` | `TypeCorrect`, `GraceStartsAnew`, `MissingWasLost` (`MarkedWasLost`), `MtimeIsTrusted` (`TrustMtime`), `RescanConverges` (`Converges`), `RegistrationsKept` (`RegistrationsAreKept`) | What `Judge` held for absent has been lost (`LostInv`, `AbsentInv`): only covered paths where nothing is are judged so, and `lost` only grows. A registration is never seen after today (`SeenInv`), and what marks it missing is today. A modification time names one text: two versions on disk with one time have one text (`NamesInv`), no time that is noted anywhere lies after the clock (`TimesInv`), and what is claimed of a time - by a row, a worker or a request - is what every file with that time says, unless it is torn (`FitsInv`). `TrustMtime` alone is not inductive: a worker carries a text it read long before it saves, and a file may meanwhile have moved to another path. The outcome of a rescan is carried from its walk to its end while nothing interferes (`QuietInv`): what was found is visible, and visible files below walked folders were found (`WalkInv`); what was judged holds until it is marked (`JudgedInv`); each worker holds what its file is, and nothing is registered at a new file before it is moved to or saved (`JobKnows`); each registration is where it was known, or at a new file with its text (`RowKept`). A relocation takes nobody's registration because a file that is moved to cannot have been done before: with one worker the candidate was not moved yet (`HandInv`), with several no other new file has its text, which is the premise of `Converges` (`Apart`). |
| `GroupIndexRefreshProofs` | `TypeCorrect`, `ExclusiveRefresh`, `FreshWhenUndisturbed`; `RefreshWindsDown`, `LockComesBack`, `RefreshersNeverStuck` | Exclusion is inductive with types. Freshness when all is quiet says nothing of the steps in between; the invariant `InHands` does: a file which the facts or the groups do not show as it is registered is in the hands of the process that changed it, until it hands the ids to the worker, and then of the worker, at each of its points until the group is written. It needs that a changer is alone (`Alone`), that ids are those of files in the state they were left in (`Carried`), that a targeted reason belongs to a change still to be scheduled (`Reasoned`: this is why a full request is never taken for a targeted one) and that what a refresh has read is still so (`Read`). |
| `BackendProcessProofs` | `TypeCorrect`, `BoxIsCrash`, `NothingStays`, `DiscoveryEnds`, `RemovalQuiet`; `AppWindsDown`, `ShutdownTerminates` (`ShutdownEnds`) | Only the child of the last attempt can be alive and not told (`ChildInv`); a signal is noted as an expected exit before it is sent, so what is boxed was not told (`BoxInv`). After a calm start every call of `stopBackendAndWait` waits for that child, and ends when it was told, and killed if it did not end (`StopInv`, `ExitInv`). A shutdown is rejected on Windows only, which is why the same theorem says `app.exit` elsewhere. The discovery file is that of the last attempt, and somebody holds its handle until it is removed (`FileInv`). |
| `PagesProofs` | `AnswersFit` (`AnswersFitTheQuery`), `PagesContiguous` (`PagesAreContiguous`), `ListsFollow` (`ListsFollowTheLibrary`), `NoticePolled` (`NoticeIsPolled`), `HistoryFollows` (`HistoryFollowsSelection`), `TourTracks` (`TourKeepsTrack`), `SpinnersTrue` (`SpinnersAreTrue`), `AnnouncementsTrue` (`AnnouncementsAreTrue`), `DownloadsVerified` (`DownloadsAreVerified`), `SettingsTrue` (`SettingsAreTrue`), `ComparisonFollows` (`ComparisonIsOfSelection`), `GridShows` (`GridShowsTheChanges`) | One inductive invariant per page, and a lemma (`OnePage`) that only the open page moves; see below. |

**Everything that begins comes to an end.** For each component whose code waits there
is a measure of what an operation has left to do. Its own steps make it smaller and no
step of anybody else makes it larger, so that nobody can be sent back for ever: a
refresh of the groups takes 15 steps at most (`RefreshWindsDown`), a writer 7 and a
search 8 (`EveryCallWindsDown`), a rescan 56 for each folder and 27 more
(`RescanWindsDown`: what is left to walk and to index weighs more than all control points
of a round together, and each point may owe the status a patch), the collecting of its
files 96 for each file and 23 more (`IndexingWindsDown`: a file goes from queued over
running and finished to collected, and between two of these the thread goes down its
control points, or empties the buffer). These are action properties of `Spec`
alone. In `AppWindsDown` the measure is what the parts of the main process have left, and
a child goes from not started to reaped.

A measure does not help who cannot move. `RescansNeverStuck`, `IndexingNeverStuck`
and `RefreshersNeverStuck` are invariants that say who can: a started rescan has a step
of its own whose guard holds, at every point; the collecting thread has one, or the
pool has, so that it never waits for a file that nobody brings (what it waits for
is in flight: `WaitInv`); who waits for the refresh lock finds it free or held by one
who does not wait. `LocksOrdered` says the same of the two locks of the
database: who holds the shared connection waits for nothing, and who holds the write
lock waits at most for the connection.

With fairness, *leads to* follows. `LockComesBack` and `ConnectionComesBack` are such
theorems in full, for a lock that is held; `ShutdownTerminates` is the property
`ShutdownEnds` itself, a chain over the points of `stopBackendAndWait` and
`shutdownApp`. `RescanProgresses` and `IndexingProgresses` say that for every n an
operation with n steps left comes to have fewer. Two things the prover cannot do limit
these theorems. It has no rule for `ENABLED`: each has the hypothesis that a step can be
taken where its guard holds, `[](Guard => ENABLED <<A>>_vars)`, with the guard read off
the action; TLC found these implications true in every reachable state of the instances
of `rescan_single`, `pipeline`, `group`, `search_cache` and `backend_process`. And it has no
induction over the measure: that the steps from n to fewer add up to the end
(`RescanEnds`) is checked by TLC.

The pages' properties say what is on the screen; what makes them inductive is
what is under way. *Search page* (`SearchInv`): one request at most is current,
it is for the typed text unless that is being changed (`SearchAsks`), a further
page is asked for at the number of rows that were fetched, and what was fetched
under one set of criteria is a beginning of the hits (`SearchShows`).
*Palette* (`QuickInv`): of all searches one is current, and it is for what is
typed. *Empty search page* (`LandingInv`): rows and requests under way are a
beginning of the documents of the state of the library they were asked of.
*Groups* (`ListInv`) and *registered files* (`RegisteredInv`) need no more than
their types. *Duplicates* (`DuplicatesInv`): the rows are those behind the offset
that is shown, up to the total. *Manual comparison* (`ManualInv`): while a
comparison runs no result is shown, and it is of the selected files unless they
were changed (`touched`). *An opened
group* (`HistoryInv`): one run of comparisons is current, and a selection that
was normalised stays as it is when it is normalised again (`HistoryNormal`).
*Tour* (`TourInv`): calls are served in the order in which they were made, the
libraries that are to be made are new and of different names (`TourOrder`), and
one that was served is remembered by the call that removes it, or by the page
(`TourServed`). *Rescan status* (`RescanInv`): as long as no answer about an
earlier rescan came late, what was seen running is not later than what is shown,
and its end is watched for or announced (`RescanSeen`). *Reset* (`ResetInv`): a
removal that met no failure has removed what is not left to remove (`ResetJob`),
and the marker and the notice speak of such a removal (`ResetGone`). *Snackbars*
(`SnacksInv`): no two of them show one message, and an entry of the inbox is a
message with its key. *Update* (`UpdateJob`): a download is of the release that was
offered, nothing is shown as ready while it goes on, and the name it asks for is not that
of a file of an earlier download. *Desktop settings* (`DesktopCall`): the answer of the call under
way is the state of the settings it answers with, unless the call failed.
*Excel grid* (`ExcelInv`): the sheets on screen are those of the pair they were asked
for; what they show is a lemma about functions. While ranges are gathered they only
grow, so each changed cell stays inside one (`GatheredCovers`, `RangesCover`), and with
it in a section of its sheet (`SheetShows`) and of the window (`SectionsAreParts`); a
change that is missing there is one whose column counts as not found, and those are
counted (`GridIsComplete`). What is told beside a cell, and its colour, is a
difference of the files (`HistoriesTell`, `ColourIsTrue`). The two recursive functions
are reasoned about by a least counterexample (`HasLeast`), as the provers
cannot instantiate the induction theorems.
*Folders* (`SourcesKept`): as long as no save overtook a load or another save, the
confirmed folders are in the file, on the page and in every request under way.

The properties themselves were checked by TLC before they were proved, and so were
the strengthened invariants of all components but the pages.

Only model-checked: `RefreshEnds`, `EveryoneEnds`, `RescanEnds` and the fairness part of
`ServiceSpec`, where `ENABLED` and the induction over the measure are missing, and the type
invariant of the pages (`TypeOK`), of which the invariants above carry what the other
properties need. Every other invariant and every action property of a passing run is
stated by a theorem.

A cell that contains the very label of an empty one is outside of `GridShows`: the
window would show it as empty.

## Findings and known behaviour

Three runs are expected to fail; `PROJECT.json` quotes under `findings` what the
docs or tests say and what the code does. In short: the job thread clears the
cancel event after it gave the lock back; a refresh writes `ready` over changes
it did not read; and a copy of a document whose drive is away takes over its
registration.

Other behaviour met while modelling, that the modules contain or leave out by
name and that no run refutes:

- A worker that schedules its pending refresh does so from its own thread, which
  counts as alive: the request is noted and waits for the next change or request
  (`library.py:2047`).
- If `Thread.start` failed, the execution lock would stay taken
  (`library.py:1401`); it is taken to succeed. Changes within one second of the
  registered time are taken for none (`library.py:725`).
- A missing file that is back but cannot be indexed stays missing
  (`database.py:2574`). The repair of the text index is not one transaction
  (`database.py:1487`), and a fingerprint is computed outside the transaction that
  stores it (`database.py:3244`). A comparison that read the Excel index before
  its repair may store its result after it (`check_service.py:171`).
- A quit that meets the pause before the start's second attempt stops nothing and
  may leave the second child behind (`main.ts:1788`). On Windows, an exit of the child that
  is handled while the last taskkill is awaited rejects the shutdown, and the application
  stays without windows (`main.ts:1738`, `2034`). Of two instances of the
  application one can remove the other's discovery file
  (`providerDiscovery.ts:113`).
- Pages: Enter starts a removal that is under way once more, as the confirmation
  closes with its end (`FileManager.tsx:572`); the end of a refresh moves the tour on
  also when it was left meanwhile (`FileManager.tsx:545`); after a folder is hidden
  only the rows that are loaded are counted (`FileSearch.tsx:569`), and rows asked for
  under different criteria may leave a gap, as when the filters are reset while the
  debounced search still has the folders that were hidden, so `PagesAreContiguous`
  speaks of lists that were asked for under one set of criteria; a selected file that
  no answer at hand contains is not compared (`ConsistencyCheck.tsx:290`), and a
  comparison that was started is shown although the selection has changed
  meanwhile (`ConsistencyCheck.tsx:328`); pages of duplicates are set by the answer that
  comes last (`DuplicateFiles.tsx:73`), and an empty page says that there are none
  (`DuplicateFiles.tsx:158`); sections of a large sheet past the limit are cut off
  (`excel_diff_grid.py:181`), and a repeated header names the first column that has it
  (`excel_diff_grid.py:236`); and every rendering of the snackbars starts their timers
  anew (`Snackbar.tsx:320`).

## What is not modelled

Rendering, wording, logging, performance figures, parsing of documents, query
grammar and ranking, the alignment of Word, PowerPoint and Excel versions, how
names become versions of one document, native dialogs, the provider's read-only
projections and the contents of the tutorial's example files: none has state
whose interleaving matters, or it is library code, or it is a function of
documents that the models keep as a value. SQLite's transactions are
atomic and durable.

Left out although a model could have them: the copy of the staging database over
a database that others write (`database.py:161`), crashes between the statements
of a repair after a start (`database.py:1487`), the comparison cache of the
database, register-all and the reset of the library, the entries of several
folders in one snapshot file, two instances of the application, the tray and the
main window. `FileLifecycle` takes the scan of a folder as one step;
`FolderScan` is its own specification and not a refinement of that step.
`PROJECT.json` says for every component what is missing.

------------------------- MODULE RescanCoordinator -------------------------
(***************************************************************************)
(* Who may rescan the library, what the status says meanwhile, and what a  *)
(* stop request does: backend/core/rescan.py (RescanStatusCoordinator) and *)
(* the callers in backend/core/library.py.                                 *)
(*                                                                         *)
(* Two kinds of rescan share one execution lock and one cancel event.  A   *)
(* job is a background thread started by POST /rescan/start; it publishes  *)
(* its progress in the status and can be stopped.  A sync rescan runs in   *)
(* the thread of its caller (POST /rescan or the scheduler) and does       *)
(* neither.  A name of Jobs stands for one background thread, and is used  *)
(* again once that thread has ended.                                       *)
(*                                                                         *)
(* The library is MaxFolders watched folders at most, of one file each:    *)
(* what matters here is which of them a rescan leaves out and when it      *)
(* notices the stop request.  The write buffer is in RescanPipeline.       *)
(***************************************************************************)
EXTENDS Naturals, FiniteSets

CONSTANTS
  Jobs,        \* background threads that may run a rescan
  Syncs,       \* callers of the synchronous rescan
  MaxFolders,  \* bound: the number of watched folders
  Workers,     \* worker_count: files in flight at once
  Free         \* the lock's value when nobody holds it, and "no patch"

Rescans == Jobs \cup Syncs

ASSUME RescansAssumption == Jobs \cap Syncs = {} /\ Free \notin Rescans
ASSUME BoundsAssumption == MaxFolders \in Nat /\ Workers \in Nat \ {0}

VARIABLES
  status,       \* what GET /rescan/status returns
  executionLock,\* the holder of execution_lock
  cancelEvent,  \* cancel_event.is_set()
  pc,           \* the control point of each rescan
  patch,        \* the progress patch a job has computed and not yet applied
  work,         \* what is left of each rescan's work
  cut,          \* history: a folder or a file was left out because of a stop
  asked,        \* history: a stop was accepted ("yes"), or too late ("late")
  verdict       \* history: how the rescan's last run ended

vars == <<status, executionLock, cancelEvent, pc, patch, work, cut, asked, verdict>>

(***************************************************************************)
(* Control points.  Discovery and indexing are those of                    *)
(* _rescan_library_impl, the others those of its two callers.              *)
(***************************************************************************)
ImplPoints == {"begin", "scan", "walk", "discovered", "index", "check", "save",
               "saveLast", "close"}
Reporting  == ImplPoints \cup {"failed", "judge", "report"}
Critical   == Reporting \cup {"release"}
Points     == Critical \cup {"off", "clear"}

Stages == {"idle", "queued", "scanning", "indexing", "saving", "cancelling",
           "completed", "cancelled", "failed"}
Status == [running : BOOLEAN, stage : Stages, cancelRequested : BOOLEAN]
Patch  == [stage : Stages, cancelRequested : BOOLEAN]
Work   == [folders : 0..MaxFolders, pending : 0..MaxFolders, inFlight : 0..MaxFolders]

NoWork == [folders |-> 0, pending |-> 0, inFlight |-> 0]

Lesser(a, b) == IF a < b THEN a ELSE b

TypeOK ==
  /\ status \in Status
  /\ executionLock \in Rescans \cup {Free}
  /\ cancelEvent \in BOOLEAN
  /\ pc \in [Rescans -> Points]
  /\ patch \in [Rescans -> Patch \cup {Free}]
  /\ work \in [Rescans -> Work]
  /\ cut \in [Rescans -> BOOLEAN]
  /\ asked \in [Rescans -> {"no", "yes", "late"}]
  /\ verdict \in [Rescans -> {"none", "completed", "cancelled", "failed"}]

Init ==
  /\ status = [running |-> FALSE, stage |-> "idle", cancelRequested |-> FALSE]
  /\ executionLock = Free
  /\ cancelEvent = FALSE
  /\ pc = [r \in Rescans |-> "off"]
  /\ patch = [r \in Rescans |-> Free]
  /\ work = [r \in Rescans |-> NoWork]
  /\ cut = [r \in Rescans |-> FALSE]
  /\ asked = [r \in Rescans |-> "no"]
  /\ verdict = [r \in Rescans |-> "none"]

Goto(r, to) == pc' = [pc EXCEPT ![r] = to]

\* A thread is at a control point with every patch it computed applied.
At(r, point) == pc[r] = point /\ patch[r] = Free

(***************************************************************************)
(* A patch is computed from the event outside the status lock, and applied *)
(* under it by Update.  Only jobs have a progress callback.                *)
(***************************************************************************)
Publish(r, stage, requested) ==
  patch' = IF r \in Jobs
           THEN [patch EXCEPT ![r] = [stage |-> stage, cancelRequested |-> requested]]
           ELSE patch

PublishProgress(r, stage) ==
  Publish(r, IF cancelEvent THEN "cancelling" ELSE stage, cancelEvent)

Update(r) ==
  /\ patch[r] # Free
  /\ status' = [status EXCEPT !.stage = patch[r].stage,
                              !.cancelRequested = patch[r].cancelRequested]
  /\ patch' = [patch EXCEPT ![r] = Free]
  /\ UNCHANGED <<executionLock, cancelEvent, pc, work, cut, asked, verdict>>

(***************************************************************************)
(* Starting and stopping.  A start that finds a rescan running, and a stop *)
(* that finds none, change nothing.                                        *)
(***************************************************************************)
ResetHistory(r) ==
  /\ work' = [work EXCEPT ![r] = NoWork]
  /\ cut' = [cut EXCEPT ![r] = FALSE]
  /\ asked' = [asked EXCEPT ![r] = "no"]
  /\ verdict' = [verdict EXCEPT ![r] = "none"]

\* Mutant: the event of the last rescan is left as it is.
BeginWithoutClear(j) ==
  /\ pc[j] = "off"
  /\ ~status.running
  /\ executionLock = Free
  /\ executionLock' = j
  /\ status' = [running |-> TRUE, stage |-> "queued", cancelRequested |-> FALSE]
  /\ Goto(j, "begin")
  /\ ResetHistory(j)
  /\ UNCHANGED <<cancelEvent, patch>>

BeginOrCurrent(j) ==
  /\ pc[j] = "off"
  /\ ~status.running
  /\ executionLock = Free
  /\ executionLock' = j
  /\ cancelEvent' = FALSE
  /\ status' = [running |-> TRUE, stage |-> "queued", cancelRequested |-> FALSE]
  /\ Goto(j, "begin")
  /\ ResetHistory(j)
  /\ UNCHANGED patch

\* Mutant: the sync rescan looks at the status instead of taking the lock.
RescanUnlessRunning(s) ==
  /\ pc[s] = "off"
  /\ ~status.running
  /\ executionLock' = s
  /\ Goto(s, "begin")
  /\ ResetHistory(s)
  /\ UNCHANGED <<status, cancelEvent, patch>>

RescanLibrary(s) ==
  /\ pc[s] = "off"
  /\ executionLock = Free
  /\ executionLock' = s
  /\ Goto(s, "begin")
  /\ ResetHistory(s)
  /\ UNCHANGED <<status, cancelEvent, patch>>

\* Mutant: the stop is shown in the status but the event is not set.
CancelInStatusOnly ==
  /\ status.running
  /\ status' = [status EXCEPT !.stage = "cancelling", !.cancelRequested = TRUE]
  /\ asked' = [j \in Rescans |->
                 IF j = executionLock /\ asked[j] = "no"
                 THEN IF pc[j] \in {"report", "failed"} THEN "late" ELSE "yes"
                 ELSE asked[j]]
  /\ UNCHANGED <<executionLock, cancelEvent, pc, patch, work, cut, verdict>>

RequestCancel ==
  /\ status.running
  /\ cancelEvent' = TRUE
  /\ status' = [status EXCEPT !.stage = "cancelling", !.cancelRequested = TRUE]
  /\ asked' = [j \in Rescans |->
                 IF j = executionLock /\ asked[j] = "no"
                 THEN IF pc[j] \in {"report", "failed"} THEN "late" ELSE "yes"
                 ELSE asked[j]]
  /\ UNCHANGED <<executionLock, pc, patch, work, cut, verdict>>

(***************************************************************************)
(* _rescan_library_impl: discovery, one folder at a time.  The first patch *)
(* says that no stop is requested, whatever the event says.                *)
(***************************************************************************)
Leave(r) == Goto(r, IF r \in Jobs THEN "judge" ELSE "release")

\* A job that reads no event patches the status in one step.
SetStage(r, stage, requested) ==
  status' = IF r \in Jobs
            THEN [status EXCEPT !.stage = stage, !.cancelRequested = requested]
            ELSE status

StartScan(r) ==
  /\ At(r, "begin")
  /\ \E n \in 0..MaxFolders :
       /\ work' = [work EXCEPT ![r].folders = n]
       /\ IF n = 0
          THEN Leave(r) /\ SetStage(r, "completed", status.cancelRequested)
          ELSE Goto(r, "scan") /\ SetStage(r, "scanning", FALSE)
  /\ UNCHANGED <<executionLock, cancelEvent, patch, cut, asked, verdict>>

EnterFolder(r) ==
  /\ At(r, "scan")
  /\ work[r].folders > 0
  /\ ~cancelEvent
  /\ Goto(r, "walk")
  /\ UNCHANGED <<status, executionLock, cancelEvent, patch, work, cut, asked, verdict>>

\* The folder's file is left out when the stop request comes during the walk.  A folder whose
\* scan fails is passed over (its error is kept for the report) and gives no file, as one that
\* holds none.
WalkFolder(r) ==
  /\ At(r, "walk")
  /\ \E found \in {0, 1} :
       work' = [work EXCEPT ![r].folders = @ - 1,
                            ![r].pending = IF cancelEvent THEN @ ELSE @ + found]
  /\ cut' = [cut EXCEPT ![r] = @ \/ cancelEvent]
  /\ PublishProgress(r, "scanning")
  /\ Goto(r, "scan")
  /\ UNCHANGED <<status, executionLock, cancelEvent, asked, verdict>>

EndScan(r) ==
  /\ At(r, "scan")
  /\ work[r].folders = 0 \/ cancelEvent
  /\ cut' = [cut EXCEPT ![r] = @ \/ work[r].folders > 0]
  /\ PublishProgress(r, IF work[r].pending > 0 THEN "indexing" ELSE "completed")
  /\ Goto(r, "discovered")
  /\ UNCHANGED <<status, executionLock, cancelEvent, work, asked, verdict>>

StopAfterScan(r) ==
  /\ At(r, "discovered")
  /\ cancelEvent
  /\ cut' = [cut EXCEPT ![r] = @ \/ work[r].folders > 0 \/ work[r].pending > 0]
  /\ Publish(r, "cancelled", TRUE)
  /\ Leave(r)
  /\ UNCHANGED <<status, executionLock, cancelEvent, work, asked, verdict>>

(***************************************************************************)
(* Indexing.  The loop takes one finished file at a time, replaces it by   *)
(* the next unless a stop is requested, may save the write buffer, then    *)
(* asks again whether to stop.  It ends when no file is in flight; what    *)
(* the buffer still holds is saved last.  A save says so in the status.    *)
(***************************************************************************)
SubmitFirst(r) ==
  /\ At(r, "discovered")
  /\ ~cancelEvent
  /\ LET n == Lesser(Workers, work[r].pending)
     IN  work' = [work EXCEPT ![r].inFlight = n, ![r].pending = @ - n]
  /\ Goto(r, "index")
  /\ UNCHANGED <<status, executionLock, cancelEvent, patch, cut, asked, verdict>>

\* A worker thread gives up its file when it finds the event set.
WorkerSeesCancel(r) ==
  /\ work[r].inFlight > 0
  /\ cancelEvent
  /\ cut' = [cut EXCEPT ![r] = TRUE]
  /\ UNCHANGED <<status, executionLock, cancelEvent, pc, patch, work, asked, verdict>>

\* Mutant: the last path of the iterator is not submitted.
CollectButLast(r) ==
  /\ At(r, "index")
  /\ work[r].inFlight > 0
  /\ work' = IF work[r].pending > 1 /\ ~cancelEvent
             THEN [work EXCEPT ![r].pending = @ - 1]
             ELSE [work EXCEPT ![r].inFlight = @ - 1]
  /\ UNCHANGED patch
  /\ Goto(r, "check")
  /\ UNCHANGED <<status, executionLock, cancelEvent, cut, asked, verdict>>

Collect(r) ==
  /\ At(r, "index")
  /\ work[r].inFlight > 0
  /\ work' = IF work[r].pending > 0 /\ ~cancelEvent
             THEN [work EXCEPT ![r].pending = @ - 1]
             ELSE [work EXCEPT ![r].inFlight = @ - 1]
  /\ \/ Goto(r, "check") /\ (PublishProgress(r, "indexing") \/ UNCHANGED patch)
     \/ Goto(r, "save") /\ Publish(r, "saving", cancelEvent)
  /\ UNCHANGED <<status, executionLock, cancelEvent, cut, asked, verdict>>

\* After the last file: save what is left in the buffer, if anything is.
FinishIndexing(r) ==
  \/ Goto(r, "close") /\ PublishProgress(r, "indexing")
  \/ Goto(r, "saveLast") /\ Publish(r, "saving", cancelEvent)

KeepIndexing(r) ==
  /\ At(r, "check")
  /\ ~cancelEvent
  /\ IF work[r].inFlight > 0
     THEN Goto(r, "index") /\ UNCHANGED patch
     ELSE FinishIndexing(r)
  /\ UNCHANGED <<status, executionLock, cancelEvent, work, cut, asked, verdict>>

\* Files that no worker has begun are cancelled, the others waited for.
StopIndexing(r) ==
  /\ At(r, "check")
  /\ cancelEvent
  /\ \E unbegun \in 0..work[r].inFlight :
       cut' = [cut EXCEPT ![r] = @ \/ work[r].pending > 0 \/ unbegun > 0]
  /\ work' = [work EXCEPT ![r].inFlight = 0]
  /\ FinishIndexing(r)
  /\ UNCHANGED <<status, executionLock, cancelEvent, asked, verdict>>

EndSave(r) ==
  /\ \/ At(r, "save") /\ Goto(r, "check")
     \/ At(r, "saveLast") /\ Goto(r, "close")
  /\ PublishProgress(r, "indexing")
  /\ UNCHANGED <<status, executionLock, cancelEvent, work, cut, asked, verdict>>

\* Nothing was found: the loop is not entered.
SkipIndexing(r) ==
  /\ At(r, "index")
  /\ work[r].inFlight = 0
  /\ Goto(r, "close")
  /\ UNCHANGED <<status, executionLock, cancelEvent, patch, work, cut, asked, verdict>>

\* Mutant: the rescan itself clears the event when it is done.
CloseAndClear(r) ==
  /\ At(r, "close")
  /\ Publish(r, IF cancelEvent THEN "cancelled" ELSE "completed", cancelEvent)
  /\ cancelEvent' = FALSE
  /\ Leave(r)
  /\ UNCHANGED <<status, executionLock, work, cut, asked, verdict>>

CloseImpl(r) ==
  /\ At(r, "close")
  /\ Publish(r, IF cancelEvent THEN "cancelled" ELSE "completed", cancelEvent)
  /\ Leave(r)
  /\ UNCHANGED <<status, executionLock, cancelEvent, work, cut, asked, verdict>>

\* Any database, staging or scan error that the rescan does not absorb.
Fail(r) ==
  /\ pc[r] \in ImplPoints /\ patch[r] = Free
  /\ verdict' = [verdict EXCEPT ![r] = "failed"]
  /\ work' = [work EXCEPT ![r].inFlight = 0]
  /\ Goto(r, IF r \in Jobs THEN "failed" ELSE "release")
  /\ UNCHANGED <<status, executionLock, cancelEvent, patch, cut, asked>>

(***************************************************************************)
(* _run_rescan_job after the rescan itself: read the event once more, say  *)
(* so in the status, release the lock, schedule the group refresh (which   *)
(* may take its time), clear the event.                                    *)
(***************************************************************************)
\* Mutant: progress is published by another thread, and not waited for.
JudgeEarly(j) ==
  /\ pc[j] = "judge"
  /\ verdict' = [verdict EXCEPT ![j] = IF cancelEvent THEN "cancelled" ELSE "completed"]
  /\ Goto(j, "report")
  /\ UNCHANGED <<status, executionLock, cancelEvent, patch, work, cut, asked>>

Judge(j) ==
  /\ At(j, "judge")
  /\ verdict' = [verdict EXCEPT ![j] = IF cancelEvent THEN "cancelled" ELSE "completed"]
  /\ Goto(j, "report")
  /\ UNCHANGED <<status, executionLock, cancelEvent, patch, work, cut, asked>>

Report(j) ==
  /\ pc[j] = "report"
  /\ status' = [running |-> FALSE, stage |-> verdict[j],
                cancelRequested |-> verdict[j] = "cancelled"]
  /\ Goto(j, "release")
  /\ UNCHANGED <<executionLock, cancelEvent, patch, work, cut, asked, verdict>>

ReportFailure(j) ==
  /\ pc[j] = "failed"
  /\ status' = [status EXCEPT !.running = FALSE, !.stage = "failed"]
  /\ Goto(j, "release")
  /\ UNCHANGED <<executionLock, cancelEvent, patch, work, cut, asked, verdict>>

\* Mutant: the lock is released by the path that returns, not by finally.
ReleaseOnSuccess(r) ==
  /\ pc[r] = "release"
  /\ executionLock' = IF verdict[r] = "failed" THEN executionLock ELSE Free
  /\ Goto(r, IF r \in Jobs THEN "clear" ELSE "off")
  /\ UNCHANGED <<status, cancelEvent, patch, work, cut, asked, verdict>>

Release(r) ==
  /\ pc[r] = "release"
  /\ executionLock' = Free
  /\ Goto(r, IF r \in Jobs THEN "clear" ELSE "off")
  /\ UNCHANGED <<status, cancelEvent, patch, work, cut, asked, verdict>>

ClearCancelEvent(j) ==
  /\ pc[j] = "clear"
  /\ cancelEvent' = FALSE
  /\ Goto(j, "off")
  /\ UNCHANGED <<status, executionLock, patch, work, cut, asked, verdict>>

(***************************************************************************)
(* Specification.  Users and the scheduler start and stop rescans when     *)
(* they like; a thread that has started goes on.                           *)
(***************************************************************************)
Impl(r) ==
  \/ StartScan(r) \/ EnterFolder(r) \/ WalkFolder(r) \/ EndScan(r) \/ StopAfterScan(r)
  \/ SubmitFirst(r) \/ Collect(r) \/ KeepIndexing(r) \/ StopIndexing(r)
  \/ EndSave(r) \/ SkipIndexing(r) \/ CloseImpl(r)

JobSteps(j) ==
  Update(j) \/ Judge(j) \/ Report(j) \/ ReportFailure(j) \/ ClearCancelEvent(j)

Next ==
  \/ RequestCancel
  \/ \E j \in Jobs : BeginOrCurrent(j) \/ JobSteps(j)
  \/ \E s \in Syncs : RescanLibrary(s)
  \/ \E r \in Rescans : Impl(r) \/ WorkerSeesCancel(r) \/ Fail(r) \/ Release(r)

Fairness ==
  /\ \A j \in Jobs : WF_vars(JobSteps(j))
  /\ \A r \in Rescans : WF_vars(Impl(r) \/ Release(r))

Spec == Init /\ [][Next]_vars
FairSpec == Spec /\ Fairness

(***************************************************************************)
(* Safety.                                                                 *)
(***************************************************************************)
\* A rescan is between its start and the release of the lock exactly when it
\* holds the lock: two rescans never run at once (begin_or_current,
\* rescan_library, the finally blocks of both callers).
OneRescanAtATime ==
  \A r \in Rescans : pc[r] \in Critical <=> executionLock = r

\* The status says "running" exactly while a job has yet to report its end: a
\* window that polls until running is false neither hangs on a dead rescan nor
\* leaves one that goes on.
StatusTellsTheTruth ==
  status.running <=> \E j \in Jobs : executionLock = j /\ pc[j] \in Reporting

\* A job that left something out, or said it was cancelled, was asked to stop:
\* the event left set by an earlier rescan never stops a job.
StopOnlyOnRequest ==
  \A j \in Jobs : cut[j] \/ verdict[j] = "cancelled" => asked[j] # "no"

\* What the status says has its reason: "running" a job that has yet to report, and
\* "cancelled" or an incomplete scan a request to stop.
StatusIsEarned == StatusTellsTheTruth /\ StopOnlyOnRequest

\* A stop accepted before the job read the event for its report is not
\* forgotten: the job does not end "completed".
CancelHonoured ==
  \A j \in Jobs : verdict[j] = "completed" => asked[j] # "yes"

\* A job that ends "completed" has gone through every folder and submitted every
\* file it found, and no worker gave one up: what a stop leaves out is never
\* reported as a complete rescan.  (A folder whose scan failed is gone through,
\* and its files are not found: the job still ends "completed".)
CompletedMeansAll ==
  \A j \in Jobs :
    verdict[j] = "completed" =>
      ~cut[j] /\ work[j].folders = 0 /\ work[j].pending = 0 /\ work[j].inFlight = 0

\* Once a job has reported its end the status stays as it is until the next
\* start: no progress patch of the ended job comes after its last word.
LastWordStays ==
  [][~status.running => status' = status \/ status'.running]_vars

(***************************************************************************)
(* Liveness.                                                               *)
(***************************************************************************)
\* Every rescan that starts gives the lock back and its thread ends.
RescanEnds ==
  \A r \in Rescans : pc[r] # "off" ~> pc[r] = "off" /\ executionLock # r

(***************************************************************************)
(* The API's promise, implemented when no job starts before the thread of  *)
(* the last one has ended (one name in Jobs).                              *)
(***************************************************************************)
Service == INSTANCE RescanService WITH
  phase   <- IF ~status.running THEN "idle"
             ELSE IF asked[executionLock] = "yes" THEN "stopping" ELSE "running",
  outcome <- IF status.running THEN "none" ELSE status.stage

\* The status the API returns behaves as RescanService says.
ServiceSpec == Service!Spec
=============================================================================

---------------------------- MODULE AppDataReset ----------------------------
(***************************************************************************)
(* The removal of application data: the section of the settings page       *)
(* (frontend/src/components/FileManager.tsx), clearAppData of the main     *)
(* process (frontend/electron/main.ts) and the marker that tells the next  *)
(* start that a reset has happened (frontend/src/App.tsx).  A candidate    *)
(* may fail to be removed, wholly or in part, the application may end at   *)
(* any step, and the marker may fail to be written or to be taken away.    *)
(* Data carry the number of the run that began them.  How the backend is   *)
(* stopped is the subject of BackendProcess; what Electron or a backend    *)
(* that could not be stopped writes again before the process ends is left  *)
(* out.                                                                    *)
(***************************************************************************)
EXTENDS Naturals, FiniteSets

CONSTANTS
  Candidates, Root,   \* app data candidates, and user-data-root among them
  Inside,             \* what a candidate's directory holds, itself included
  SafeIds, SessionIds,\* SAFE_APP_DATA_IDS; touchesElectronSessionData
  Lasting,            \* candidates that a new run does not create
  MaxRuns             \* bound: runs of the application

VARIABLES
  data,      \* per candidate the run that began its contents, 0 if there are none
  prefs,     \* the page's own state in the local storage is the user's
  window,    \* the page is there
  paths,     \* appDataPaths: candidates that exist
  loading,   \* appDataLoading
  selected,  \* selectedAppDataIds
  dialog,    \* clearAppDataOpen
  result,    \* clearAppDataResult.success, or "none"
  job,       \* clearAppData: stage, targets, those left, success so far
  marker,    \* officewhere-reset-pending.json
  notice,    \* the reset that the page has announced in this run
  fresh,     \* the page has not asked for the marker yet
  run

section == <<paths, selected, dialog, result>>
page == <<window, section, loading>>
vars == <<data, prefs, page, job, marker, notice, fresh, run>>

Idle == [stage |-> "idle", targets |-> {}, left |-> {}, ok |-> TRUE]
NoReset == [targets |-> {}, run |-> 0]
\* buildAppDataCandidates
Exists == {c \in Candidates : data[c] > 0}

\* dedupeCandidates: what lies inside another target goes with it.
Targets(ids) == {c \in ids : \A d \in ids \ {c} : c \notin Inside[d]}

\* A new run: its page asks for the candidates and for the marker, data begin again.
Opened(n) ==
  /\ window' = TRUE /\ paths' = {} /\ selected' = {} /\ dialog' = FALSE /\ result' = "none"
  /\ loading' = TRUE /\ job' = Idle /\ notice' = NoReset /\ fresh' = TRUE /\ run' = n
  /\ data' = [c \in Candidates |-> IF data[c] > 0 \/ c \in Lasting THEN data[c] ELSE n]

Init ==
  /\ data \in [Candidates -> {1}] /\ prefs = TRUE
  /\ window = TRUE /\ paths = {} /\ selected = {} /\ dialog = FALSE /\ result = "none"
  /\ loading = TRUE /\ job = Idle /\ marker = NoReset /\ notice = NoReset
  /\ fresh = TRUE /\ run = 1

\* existingAppDataIds
ExistingIds(ids, listed) == ids \cap listed

\* fetchAppDataPaths: a selection stays, without one the safe candidates are selected.
PathsArrive ==
  /\ window /\ loading /\ job.stage = "idle"
  /\ paths' = Exists /\ loading' = FALSE
  /\ selected' = IF selected = {} THEN ExistingIds(SafeIds, Exists) ELSE selected
  /\ UNCHANGED <<data, prefs, window, dialog, result, job, marker, notice, fresh, run>>

PathsFail ==
  /\ window /\ loading /\ job.stage = "idle" /\ loading' = FALSE
  /\ UNCHANGED <<data, prefs, window, section, job, marker, notice, fresh, run>>

RefreshPaths ==
  /\ window /\ ~loading /\ ~dialog /\ loading' = TRUE
  /\ UNCHANGED <<data, prefs, window, section, job, marker, notice, fresh, run>>

\* openClearAppDataPreset, with the candidates of the last listing.
Preset(ids) ==
  /\ window /\ ~loading /\ ~dialog /\ ExistingIds(ids, paths) # {}
  /\ selected' = ExistingIds(ids, paths) /\ dialog' = TRUE
  /\ UNCHANGED <<data, prefs, window, paths, result, loading, job, marker, notice, fresh, run>>

Toggle(c) ==
  /\ window /\ ~loading /\ ~dialog /\ c \in paths
  /\ selected' = IF c \in selected THEN selected \ {c} ELSE selected \cup {c}
  /\ UNCHANGED <<data, prefs, window, paths, dialog, result, loading, job, marker, notice,
                 fresh, run>>

OpenDialog ==
  /\ window /\ ~loading /\ ~dialog /\ selected # {} /\ paths # {} /\ dialog' = TRUE
  /\ UNCHANGED <<data, prefs, window, paths, selected, result, loading, job, marker, notice,
                 fresh, run>>

\* The dialog can be left at any time, also while the data are removed.
CloseDialog ==
  /\ window /\ dialog /\ dialog' = FALSE
  /\ UNCHANGED <<data, prefs, window, paths, selected, result, loading, job, marker, notice,
                 fresh, run>>

\* handleClearAppData, and the start of clearAppData; a run makes one removal (bound).
Confirm ==
  /\ window /\ dialog /\ ~loading /\ selected # {} /\ job = Idle
  /\ loading' = TRUE
  /\ job' = [stage |-> "stopping", targets |-> Targets(selected), left |-> Targets(selected),
             ok |-> TRUE]
  /\ UNCHANGED <<data, prefs, window, section, marker, notice, fresh, run>>

touchesElectronSessionData(targets) == targets \cap SessionIds # {}

\* closeRendererForAppDataCleanup: session data take the window with them; clearing the local
\* storage may fail silently.
CloseRenderer ==
  /\ job.stage = "stopping" /\ job' = [job EXCEPT !.stage = "removing"]
  /\ IF touchesElectronSessionData(job.targets)
     THEN window' = FALSE /\ prefs' \in {prefs, FALSE}
     ELSE UNCHANGED <<window, prefs>>
  /\ UNCHANGED <<data, section, loading, marker, notice, fresh, run>>

StopFails ==
  /\ job.stage = "stopping" /\ job' = [job EXCEPT !.stage = "removing", !.left = {}, !.ok = FALSE]
  /\ UNCHANGED <<data, prefs, page, marker, notice, fresh, run>>

Removed(gone) == data' = [c \in Candidates |-> IF c \in gone THEN 0 ELSE data[c]]

\* removeWithRetry of one target; a failure may leave any part of it.
Remove(c) ==
  /\ job.stage = "removing" /\ c \in job.left
  /\ job' = [job EXCEPT !.left = @ \ {c}]
  /\ Removed(Inside[c])
  /\ UNCHANGED <<prefs, page, marker, notice, fresh, run>>

RemoveFails(c) ==
  /\ job.stage = "removing" /\ c \in job.left /\ c \in Exists
  /\ job' = [job EXCEPT !.left = @ \ {c}, !.ok = FALSE]
  /\ \E gone \in SUBSET (Inside[c] \ {c}) : Removed(gone)
  /\ UNCHANGED <<prefs, page, marker, notice, fresh, run>>

\* writeResetMarker, best effort, and only after a success.
Marked == IF job.ok THEN {marker, [targets |-> job.targets, run |-> run]} ELSE {marker}

\* The end of clearAppData: the application will quit, and start again only after a success.
Finish ==
  /\ job.stage = "removing" /\ job.left = {}
  /\ marker' \in Marked
  /\ job' = [job EXCEPT !.stage = "leaving"]
  /\ UNCHANGED <<data, prefs, page, notice, fresh, run>>

\* The page shows the result if it is still there.
ResultArrives ==
  /\ window /\ job.stage = "leaving" /\ result = "none"
  /\ result' = (IF job.ok THEN "ok" ELSE "failed") /\ dialog' = FALSE /\ loading' = FALSE
  /\ UNCHANGED <<data, prefs, window, paths, selected, job, marker, notice, fresh, run>>

\* The application ends: after a removal, or at any other step; the next start is the
\* relaunch or the user's.
EndAndStart ==
  /\ run < MaxRuns
  /\ Opened(run + 1)
  /\ UNCHANGED <<prefs, marker>>

clearOfficeWhereLocalState == prefs' = FALSE

\* consumeResetState and the page's effect: its own state goes, whatever was removed.  A
\* marker that cannot be taken away is not announced.
Consume ==
  /\ window /\ fresh /\ fresh' = FALSE
  /\ \/ marker # NoReset /\ notice' = marker /\ marker' = NoReset
        /\ clearOfficeWhereLocalState
     \/ UNCHANGED <<marker, notice, prefs>>
  /\ UNCHANGED <<data, page, job, run>>

Next ==
  \/ PathsArrive \/ PathsFail \/ RefreshPaths
  \/ \E ids \in {SafeIds, {Root}} : Preset(ids)
  \/ OpenDialog \/ CloseDialog \/ Confirm \/ CloseRenderer \/ StopFails
  \/ \E c \in Candidates : Toggle(c) \/ Remove(c) \/ RemoveFails(c)
  \/ Finish \/ ResultArrives \/ EndAndStart \/ Consume

Spec == Init /\ [][Next]_vars

-----------------------------------------------------------------------------

TypeOK ==
  /\ data \in [Candidates -> 0..MaxRuns] /\ run \in 1..MaxRuns
  /\ {prefs, window, loading, dialog, fresh} \subseteq BOOLEAN
  /\ paths \cup selected \subseteq Candidates /\ result \in {"none", "ok", "failed"}
  /\ job.stage \in {"idle", "stopping", "removing", "leaving"}
  /\ job.left \subseteq job.targets /\ job.targets \subseteq Candidates
  /\ {marker, notice} \subseteq [targets : SUBSET Candidates, run : 0..MaxRuns]

\* When the page announces a reset, nothing that the reset was to remove is left from the run
\* that it was made in or from an earlier one, however late the announcement comes.
AnnouncedMeansRemoved ==
  \A c \in UNION {Inside[t] : t \in notice.targets} :
    data[c] = 0 \/ data[c] > notice.run

=============================================================================

--------------------------- MODULE FolderSettings ---------------------------
(***************************************************************************)
(* The document sources of the settings page                               *)
(* (frontend/src/components/FileManager.tsx): the watched folders, the     *)
(* automatic refresh and the dialog with the scan settings.  The page      *)
(* holds a copy of the settings and every change sends the whole copy, so  *)
(* what one save does not mean to change depends on how old the copy is.   *)
(* Loads and saves are answered in any order and may fail, a save also     *)
(* after it has been served.  The settings of the refresh are one value,   *)
(* and so are the names in the dialog's list; the worker count is kept     *)
(* like them and the switch for subfolders like the paths, both are left   *)
(* out.  Paths are sent as typed and stored normalised.  The list of       *)
(* folders is the set of them: neither its order nor a folder that two     *)
(* paths name twice is told apart here.                                    *)
(***************************************************************************)
EXTENDS Naturals, FiniteSets

CONSTANTS
  Typed,               \* paths that the user enters or picks
  Folder,              \* os.path.normpath: the folder of each path
  NoPath,              \* an empty input
  Refreshes,           \* values of the automatic refresh
  MaxSaves, MaxLoads   \* bounds: saves and loads that the page sends; after the last save, or a
                       \* rushed one, the user leaves the page alone

VARIABLES
  stored,      \* the settings that the backend keeps
  shown,       \* librarySettings, and whether they have ever been loaded
  loading,     \* settingsLoading
  draft,       \* folderPathDraft
  picking,     \* folderPicking
  rescanning,  \* useLibraryRescan().running
  dialog,      \* indexSettingsOpen with excludedFolderDraft, or Closed
  requests,    \* calls under way
  saves, loads,
  kept,        \* history: folders that a save has confirmed and none has taken away
  rushed       \* history: a save was sent from a copy that nothing vouched for

input == <<draft, picking>>
history == <<kept, rushed>>
vars == <<stored, shown, loading, input, rescanning, dialog, requests, saves, loads, history>>

Names == {"none", "default"}    \* excluded_folder_names
Folders == {Folder[p] : p \in DOMAIN Folder}
Unloaded ==
  [folders |-> {}, refresh |-> CHOOSE r \in Refreshes : TRUE, names |-> "default"]
Closed == "closed"

\* _normalize_library_settings
Normal(s) == [s EXCEPT !.folders = {Folder[p] : p \in @}]

Request(n, value, adds, from) ==
  [id |-> n, save |-> from # "load", value |-> value, adds |-> adds,
   from |-> from, served |-> FALSE]

Load == Request(saves + loads, Unloaded, NoPath, "load")

Init ==
  /\ \E folders \in {{}} \cup {{Folder[p]} : p \in Typed} :
       stored = [Unloaded EXCEPT !.folders = folders]
  /\ kept = stored.folders /\ rushed = FALSE
  /\ shown = [settings |-> Unloaded, loaded |-> FALSE]
  /\ draft = NoPath /\ picking = FALSE
  /\ rescanning = FALSE /\ dialog = Closed
  /\ saves = 0 /\ loads = 1 /\ loading = TRUE
  /\ requests = {Request(0, Unloaded, NoPath, "load")}

\* fetchLibrarySettings
Fetch ==
  /\ loads < MaxLoads /\ loads' = loads + 1
  /\ requests' = requests \cup {Load} /\ loading' = TRUE
  /\ rushed' = (rushed \/ \E r \in requests : r.save)
  /\ UNCHANGED <<stored, shown, input, dialog, saves, kept>>

\* The library's data has changed.
Reload == Fetch /\ UNCHANGED rescanning

RescanStarts ==
  /\ loads < MaxLoads /\ ~rescanning /\ rescanning' = TRUE
  /\ UNCHANGED <<stored, shown, loading, input, dialog, requests, saves, loads, history>>
RescanEnds == rescanning /\ rescanning' = FALSE /\ Fetch

MoreSaves == saves < MaxSaves /\ ~rushed

Type(p) ==
  /\ MoreSaves /\ draft' = p
  /\ UNCHANGED <<stored, shown, loading, picking, rescanning, dialog, requests, saves,
                 loads, history>>

\* handlePickWatchedFolder: cancelled and failed pickers leave the input alone.
Pick ==
  /\ MoreSaves /\ ~loading /\ ~rescanning /\ ~picking /\ picking' = TRUE
  /\ UNCHANGED <<stored, shown, loading, draft, rescanning, dialog, requests, saves,
                 loads, history>>
Picked ==
  /\ picking /\ picking' = FALSE
  /\ draft' \in {draft} \cup Typed
  /\ UNCHANGED <<stored, shown, loading, rescanning, dialog, requests, saves, loads,
                 history>>

\* saveLibrarySettings: the whole copy goes out.
Save(next, adds, from) ==
  /\ MoreSaves /\ saves' = saves + 1
  /\ requests' = requests \cup {Request(saves + loads, next, adds, from)}
  /\ loading' = TRUE
  /\ rushed' = (rushed \/ requests # {} \/ ~shown.loaded)
  /\ UNCHANGED <<stored, shown, rescanning, loads>>

\* handleAddWatchedFolder: the path is listed afterwards.  The button waits for loads,
\* pickers and rescans, the Enter key does not.
Added(folders) == folders \cup {draft}

AddFolder(key) ==
  /\ draft # NoPath
  /\ key \/ (~loading /\ ~picking /\ ~rescanning)
  /\ Save([shown.settings EXCEPT !.folders = Added(@)], draft, "add")
  /\ UNCHANGED <<input, dialog, kept>>

\* handleRemoveWatchedFolder: the button waits for rescans only.
RemoveFolder(p) ==
  /\ ~rescanning /\ p \in shown.settings.folders
  /\ Save([shown.settings EXCEPT !.folders = @ \ {p}], NoPath, "remove")
  /\ kept' = kept \ {p}
  /\ UNCHANGED <<input, dialog>>

\* The fields of the automatic refresh wait for nothing.
OtherRefreshes == Refreshes \ {shown.settings.refresh}

\* handleUpdateAutoRescan, handleUpdateIntervalHours
ChangeRefresh(v) ==
  /\ v \in OtherRefreshes
  /\ Save([shown.settings EXCEPT !.refresh = v], NoPath, "refresh")
  /\ UNCHANGED <<input, dialog, kept>>

\* The dialog's draft: an empty list of names is shown as the default list.
Draft(s) == IF s.names = "none" THEN "default" ELSE s.names

OpenDialog ==
  /\ MoreSaves /\ ~loading /\ dialog = Closed /\ dialog' = Draft(shown.settings)
  /\ UNCHANGED <<stored, shown, loading, input, rescanning, requests, saves, loads, history>>
EditDialog(names) ==
  /\ MoreSaves /\ dialog # Closed /\ dialog' = names
  /\ UNCHANGED <<stored, shown, loading, input, rescanning, requests, saves, loads, history>>
CloseDialog ==
  /\ dialog # Closed /\ dialog' = Closed
  /\ UNCHANGED <<stored, shown, loading, input, rescanning, requests, saves, loads, history>>

WithDraft == [shown.settings EXCEPT !.names = dialog]

\* handleSaveIndexWorkerCount
SaveDialog ==
  /\ dialog # Closed /\ ~loading
  /\ Save(WithDraft, NoPath, "dialog")
  /\ UNCHANGED <<input, dialog, kept>>

\* load_library_settings, save_library_settings
Serve(r) ==
  /\ ~r.served
  /\ LET answer == IF r.save THEN Normal(r.value) ELSE stored IN
       /\ stored' = answer
       /\ requests' = (requests \ {r}) \cup {[r EXCEPT !.value = answer, !.served = TRUE]}
  /\ UNCHANGED <<shown, loading, input, rescanning, dialog, saves, loads, history>>

\* An answer: an open dialog starts again from the new settings, and its own save closes it.
Deliver(r) ==
  /\ r.served /\ requests' = requests \ {r} /\ loading' = FALSE
  /\ shown' = [settings |-> r.value, loaded |-> TRUE]
  /\ draft' = IF r.from = "add" THEN NoPath ELSE draft
  /\ dialog' = IF dialog = Closed \/ r.from = "dialog" THEN Closed ELSE Draft(r.value)
  /\ kept' = kept \cup (IF r.from = "add" THEN {Folder[r.adds]} ELSE {})
  /\ UNCHANGED <<stored, picking, rescanning, saves, loads, rushed>>

\* A request is rejected, before or after it was served: a message, and the copy stays.
Reject(r) ==
  /\ requests' = requests \ {r} /\ loading' = FALSE
  /\ UNCHANGED <<stored, shown, input, rescanning, dialog, saves, loads, history>>

Next ==
  \/ Reload \/ RescanStarts \/ RescanEnds
  \/ \E p \in Typed \cup {NoPath} : Type(p)
  \/ Pick \/ Picked
  \/ \E key \in BOOLEAN : AddFolder(key)
  \/ \E p \in Folders : RemoveFolder(p)
  \/ \E v \in Refreshes : ChangeRefresh(v)
  \/ OpenDialog \/ CloseDialog \/ SaveDialog
  \/ \E n \in Names : EditDialog(n)
  \/ \E r \in requests : Serve(r) \/ Deliver(r) \/ Reject(r)

Spec == Init /\ [][Next]_vars

-----------------------------------------------------------------------------

Settings ==
  [folders : SUBSET (Typed \cup Folders), refresh : Refreshes, names : Names]

TypeOK ==
  /\ stored \in Settings /\ shown \in [settings : Settings, loaded : BOOLEAN]
  /\ {loading, picking, rescanning, rushed} \subseteq BOOLEAN
  /\ draft \in Typed \cup {NoPath}
  /\ dialog \in Names \cup {Closed}
  /\ Cardinality({r.id : r \in requests}) = Cardinality(requests)
  /\ saves \in 0..MaxSaves /\ loads \in 0..MaxLoads

\* Folders that a save has confirmed stay watched until the user removes them, whatever else
\* is saved or fails, unless a save left before any load had succeeded or while another call
\* was under way.
ConfirmedFoldersStay == rushed \/ kept \subseteq stored.folders

=============================================================================

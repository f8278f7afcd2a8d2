----------------------------- MODULE TutorialTour -----------------------------
(***************************************************************************)
(* The guided tour of the main window: MainApp and GuidedTourHud of        *)
(* src/frontend/src/App.tsx with the pages that move the tour on           *)
(* (FileManager, FileSearch, ConsistencyCheck, the PowerPoint and Excel    *)
(* results), the onboarding dialog in front of it, and the two endpoints   *)
(* that make and remove its example documents                              *)
(* (src/backend/core/tutorial_examples.py).                                *)
(*                                                                         *)
(* A React effect runs again when one of its dependencies changes, and its *)
(* cleanup runs first.  Both timers of the tour depend on a callback that  *)
(* is made anew by every render of MainApp, so any render of MainApp stops *)
(* them; Render says what the effects of a render leave behind.            *)
(***************************************************************************)
EXTENDS Naturals, Sequences, FiniteSets

CONSTANTS
  None,
  MaxLibraries,  \* bound: example libraries ever asked for
  MaxCalls       \* bound: calls of the tutorial endpoints under way

Tabs == {"search", "check", "files"}

ACTIVE_STEPS == <<"example-folder", "document-refresh", "search", "search-review",
  "version-ppt", "version-ppt-review", "version-ppt-detail", "version-excel",
  "version-excel-review", "excel-table", "excel-table-cell", "excel-table-history">>

Steps == {ACTIVE_STEPS[i] : i \in DOMAIN ACTIVE_STEPS} \cup {"done"}

\* The tab a step happens on: none for the last one.
TargetTab(s) == CASE s \in {"example-folder", "document-refresh"} -> "files"
                  [] s \in {"search", "search-review"} -> "search"
                  [] s = "done" -> None
                  [] OTHER -> "check"

\* The steps that only show something, and what follows each by itself.
REVIEW_ADVANCE == [s \in {"search-review", "version-ppt-detail", "version-excel-review",
                          "excel-table-history"} |->
                     CASE s = "search-review" -> "version-ppt"
                       [] s = "version-ppt-detail" -> "version-excel"
                       [] s = "version-excel-review" -> "excel-table"
                       [] s = "excel-table-history" -> "done"]

\* The step an answer to an opened group or sheet leads to, by the step it was opened at.
OpenedTo == [s \in {"version-ppt", "version-excel", "excel-table"} |->
               CASE s = "version-ppt" -> "version-ppt-review"
                 [] s = "version-excel" -> "version-excel-review"
                 [] s = "excel-table" -> "excel-table-cell"]

VARIABLES
  tab,          \* activeTab
  step,         \* tutorialStep, or None
  onboarding,   \* the onboarding dialog covers the window
  cleanupPath,  \* tutorialCleanupPathRef: the library to remove, 0 for none
  shownPath,    \* exampleLibraryPath: the path typed in for the user, 0 for none
  cleaning,     \* tutorialCleanupInFlightRef is set
  tourTimer,    \* the step the auto-advance timer runs for, or None
  advanced,     \* autoAdvancedStepRef
  found,        \* the search page shows results for the example word
  searchTimer,  \* the search page's advance timer runs
  searchKey,    \* tutorialSearchAdvanceRef holds the key of these results
  searching,    \* a search begun with the button at step 'search' is under way
  saving,       \* the added folder is being saved: the step it was added at, or None
  refresh,      \* tourRefreshStartKey is set: a rescan of the tour is awaited
  opening,      \* opened groups and sheets under way, by the step they were opened at
  calls,        \* the tutorial endpoints' calls, in the order they were sent
  library,      \* the example libraries on disk
  made,         \* how many were asked for
  excused,      \* libraries a failing backend left behind
  booted        \* the startup answers have been taken
vars == <<tab, step, onboarding, cleanupPath, shownPath, cleaning, tourTimer, advanced, found,
          searchTimer, searchKey, searching, saving, refresh, opening, calls, library, made,
          excused, booted>>
timers == <<tourTimer, advanced, searchTimer, searchKey>>
page   == <<found, searching, saving, refresh, opening>>
disk   == <<library, made, excused>>

TypeOK ==
  /\ tab \in Tabs
  /\ step \in Steps \cup {None}
  /\ onboarding \in BOOLEAN /\ cleaning \in BOOLEAN /\ booted \in BOOLEAN
  /\ cleanupPath \in 0..MaxLibraries /\ shownPath \in 0..MaxLibraries
  /\ tourTimer \in DOMAIN REVIEW_ADVANCE \cup {None}
  /\ advanced \in DOMAIN REVIEW_ADVANCE \cup {None}
  /\ found \in BOOLEAN /\ searchTimer \in BOOLEAN /\ searchKey \in BOOLEAN
  /\ searching \in BOOLEAN /\ saving \in {"example-folder", None} /\ refresh \in BOOLEAN
  /\ opening \subseteq DOMAIN OpenedTo
  /\ calls \in Seq([kind : {"create", "cleanup"}, path : 1..MaxLibraries,
                    state : {"sent", "ok", "failed"}])
  /\ library \subseteq 1..MaxLibraries /\ excused \subseteq 1..MaxLibraries
  /\ made \in 0..MaxLibraries

\* The app opens on the stored tab; the onboarding dialog shows the first time.
Init ==
  /\ tab \in Tabs /\ onboarding \in BOOLEAN
  /\ step = None /\ cleanupPath = 0 /\ shownPath = 0 /\ cleaning = FALSE
  /\ tourTimer = None /\ advanced = None /\ searchTimer = FALSE /\ searchKey = FALSE
  /\ found = FALSE /\ searching = FALSE /\ saving = None /\ refresh = FALSE /\ opening = {}
  /\ calls = <<>> /\ library = {} /\ made = 0 /\ excused = {} /\ booted = FALSE

-----------------------------------------------------------------------------
(* Renders *)

\* The auto-advance effect of GuidedTourHud: its timer is stopped, and started again only
\* for a step it was not started for before.
HudEffect(t, s) ==
  LET known  == IF s = None THEN None ELSE advanced
      starts == s \in DOMAIN REVIEW_ADVANCE /\ TargetTab(s) = t /\ known # s
  IN  /\ tourTimer' = (IF starts THEN s ELSE None)
      /\ advanced' = (IF starts THEN s ELSE known)

\* The same of the search page; another set of results has another key.
SearchEffect(s, shows, key) ==
  LET known  == s = "search" /\ key
      starts == s = "search" /\ shows /\ ~known
  IN  /\ searchTimer' = starts
      /\ searchKey' = (known \/ starts)

Render(t, s) ==
  /\ tab' = t /\ step' = s
  /\ HudEffect(t, s)
  /\ SearchEffect(s, found, searchKey)

ForgetfulCleanup(path, shown) ==
  IF path = 0
  THEN cleanupPath' = path /\ shownPath' = shown /\ UNCHANGED <<cleaning, calls>>
  ELSE /\ cleanupPath' = 0 /\ shownPath' = 0 /\ cleaning' = TRUE
       /\ calls' = IF cleaning THEN calls
                   ELSE Append(calls, [kind |-> "cleanup", path |-> path, state |-> "sent"])

\* cleanupTutorialLibrary: nothing while a cleanup is under way or without a path.
Cleanup(path, shown) ==
  IF cleaning \/ path = 0
  THEN cleanupPath' = path /\ shownPath' = shown /\ UNCHANGED <<cleaning, calls>>
  ELSE /\ cleanupPath' = 0 /\ shownPath' = 0 /\ cleaning' = TRUE
       /\ calls' = Append(calls, [kind |-> "cleanup", path |-> path, state |-> "sent"])

NoCleanup == UNCHANGED <<cleanupPath, shownPath, cleaning, calls>>

\* A step of the tour; the effect of MainApp cleans up when the last one is reached.
MoveTo(s) ==
  /\ Render(tab, s)
  /\ IF s = "done" /\ step # "done" THEN Cleanup(cleanupPath, shownPath) ELSE NoCleanup

-----------------------------------------------------------------------------
(* The window *)

\* The user (or a query handed over by the quick search) selects a tab.
SelectTab(t) ==
  /\ ~onboarding /\ t # tab
  /\ Render(t, step) /\ NoCleanup
  /\ UNCHANGED <<onboarding, page, disk, booted>>

\* MainApp renders for another reason: the text size, the status of a rescan, new data.
Rerender ==
  /\ tourTimer # None \/ searchTimer
  /\ Render(tab, step) /\ NoCleanup
  /\ UNCHANGED <<onboarding, page, disk, booted>>

\* The answer to consumeResetState, asked at the start and there before the slides of the dialog
\* have been left: after a data reset the app starts over.
ResetAnswered ==
  /\ ~booted /\ made = 0 /\ booted' = TRUE
  /\ shownPath' = 0 /\ onboarding' = TRUE
  /\ Render("search", None)
  /\ UNCHANGED <<cleanupPath, cleaning, calls, page, disk>>

\* ... or nothing was reset; a schema reset brings the user to the settings.
NoResetAnswered ==
  /\ ~booted /\ made = 0 /\ booted' = TRUE
  /\ \E t \in {tab, "files"} : Render(t, step)
  /\ NoCleanup /\ UNCHANGED <<onboarding, page, disk>>

\* The onboarding dialog again, from the settings or from the end of the tour.
ReplayOnboarding ==
  /\ ~onboarding /\ onboarding' = TRUE
  /\ \/ tab = "files" /\ Render(tab, step)
     \/ step = "done" /\ Render(tab, None)
  /\ NoCleanup /\ UNCHANGED <<page, disk, booted>>

\* 'My own folder', the close button of the dialog, or Escape in it without a tour.
StartOwnFolder ==
  /\ onboarding /\ onboarding' = FALSE
  /\ Len(calls) < MaxCalls
  /\ Cleanup(cleanupPath, shownPath)
  /\ Render("files", None)
  /\ UNCHANGED <<page, disk, booted>>

\* 'Look at the example first': the dialog does not wait for the answer.
StartExample ==
  /\ onboarding
  /\ made < MaxLibraries /\ Len(calls) < MaxCalls
  /\ made' = made + 1
  /\ calls' = Append(calls, [kind |-> "create", path |-> made + 1, state |-> "sent"])
  /\ UNCHANGED <<tab, step, onboarding, cleanupPath, shownPath, cleaning, timers, page, library,
                 excused, booted>>

CreateAnswered ==
  /\ calls # <<>> /\ Head(calls).kind = "create" /\ Head(calls).state # "sent"
  /\ calls' = Tail(calls)
  /\ \/ /\ Head(calls).state = "ok"
        /\ cleanupPath' = Head(calls).path /\ shownPath' = Head(calls).path
        /\ onboarding' = FALSE
        /\ Render("files", "example-folder")
     \/ /\ Head(calls).state = "failed"
        /\ cleanupPath' = 0 /\ shownPath' = 0
        /\ Render(tab, step) /\ UNCHANGED onboarding
  /\ UNCHANGED <<cleaning, page, disk, booted>>

CleanupAnswered ==
  /\ calls # <<>> /\ Head(calls).kind = "cleanup" /\ Head(calls).state # "sent"
  /\ calls' = Tail(calls) /\ cleaning' = FALSE
  /\ Render(tab, step)
  /\ UNCHANGED <<onboarding, cleanupPath, shownPath, page, disk, booted>>

\* Escape stops the tour; with the dialog open its own handler runs too, and on the last step
\* the one of the tour's bubble.
Escape ==
  /\ step # None
  /\ Len(calls) < MaxCalls
  /\ Cleanup(cleanupPath, shownPath)
  /\ onboarding' = FALSE
  /\ Render(IF onboarding \/ step = "done" THEN "files" ELSE tab, None)
  /\ UNCHANGED <<page, disk, booted>>

CloseDone ==
  /\ step = "done" /\ ~onboarding
  /\ Render("files", None)
  /\ NoCleanup /\ UNCHANGED <<onboarding, page, disk, booted>>

AutoAdvance ==
  /\ tourTimer # None
  /\ Len(calls) < MaxCalls
  /\ MoveTo(REVIEW_ADVANCE[tourTimer])
  /\ UNCHANGED <<onboarding, page, disk, booted>>

-----------------------------------------------------------------------------
(* The pages *)

AtWork(t) == tab = t /\ ~onboarding

\* FileManager: the example folder is typed in already; adding it saves the settings.
AddFolder ==
  /\ AtWork("files") /\ step = "example-folder" /\ shownPath # 0 /\ saving = None
  /\ saving' = step
  /\ UNCHANGED <<tab, step, onboarding, cleanupPath, shownPath, cleaning, timers, found, searching,
                 refresh, opening, calls, disk, booted>>

FolderSaved(ok) ==
  /\ saving # None /\ saving' = None
  /\ IF ok THEN MoveTo("document-refresh") ELSE Render(tab, step) /\ NoCleanup
  /\ UNCHANGED <<onboarding, found, searching, refresh, opening, disk, booted>>

\* FileManager: the rescan of the tour is started, and its end awaited by an effect.
RefreshDocuments ==
  /\ AtWork("files") /\ step = "document-refresh"
  /\ ~refresh /\ refresh' = TRUE
  /\ UNCHANGED <<tab, step, onboarding, cleanupPath, shownPath, cleaning, timers, found, searching,
                 saving, opening, calls, disk, booted>>

RescanEnded(handled) ==
  /\ refresh /\ refresh' = FALSE
  /\ IF handled THEN MoveTo("search") ELSE Render(tab, step) /\ NoCleanup
  /\ UNCHANGED <<onboarding, found, searching, saving, opening, disk, booted>>

\* FileSearch: the results of what was typed arrive (or are cleared) under another key; a
\* search begun with the button was given up for them.
TypedSearch(shows) ==
  /\ AtWork("search") /\ found' = shows /\ searching' = FALSE
  /\ SearchEffect(step, shows, FALSE)
  /\ UNCHANGED <<tab, step, onboarding, cleanupPath, shownPath, cleaning, tourTimer, advanced,
                 saving, refresh, opening, calls, disk, booted>>

\* FileSearch: the search button; while it loads no timer runs.
ButtonSearch ==
  /\ AtWork("search") /\ step = "search" /\ ~searching
  /\ searching' = TRUE /\ found' = FALSE
  /\ SearchEffect(step, FALSE, searchKey)
  /\ UNCHANGED <<tab, step, onboarding, cleanupPath, shownPath, cleaning, tourTimer, advanced,
                 saving, refresh, opening, calls, disk, booted>>

ButtonAnswered(hasResults) ==
  /\ searching /\ searching' = FALSE
  /\ found' = hasResults
  /\ IF hasResults
     THEN tab' = tab /\ step' = "search-review" /\ HudEffect(tab, "search-review")
          /\ SearchEffect("search-review", TRUE, FALSE)
     ELSE UNCHANGED <<tab, step, tourTimer, advanced>> /\ SearchEffect(step, FALSE, searchKey)
  /\ NoCleanup
  /\ UNCHANGED <<onboarding, saving, refresh, opening, disk, booted>>

SearchAdvance ==
  /\ searchTimer
  /\ MoveTo("search-review")
  /\ UNCHANGED <<onboarding, page, disk, booted>>

\* ConsistencyCheck: openGuidedGroup and openGuidedExcelGrid.
Open ==
  /\ AtWork("check") /\ step \in DOMAIN OpenedTo
  /\ opening' = opening \cup {step}
  /\ UNCHANGED <<tab, step, onboarding, cleanupPath, shownPath, cleaning, timers, found, searching,
                 saving, refresh, calls, disk, booted>>

Opened(s, ok) ==
  /\ s \in opening
  /\ opening' = opening \ {s}
  /\ IF ok THEN MoveTo(OpenedTo[s]) ELSE UNCHANGED <<tab, step, timers>> /\ NoCleanup
  /\ UNCHANGED <<onboarding, found, searching, saving, refresh, disk, booted>>

\* The first slide's details, and the changed cell of the sheet.
ExpandSlide ==
  /\ AtWork("check") /\ step = "version-ppt-review"
  /\ MoveTo("version-ppt-detail")
  /\ UNCHANGED <<onboarding, page, disk, booted>>

SelectCell ==
  /\ AtWork("check") /\ step = "excel-table-cell"
  /\ MoveTo("excel-table-history")
  /\ UNCHANGED <<onboarding, page, disk, booted>>

-----------------------------------------------------------------------------
(* The backend: each endpoint runs to its end on the event loop, one at a time. *)

Unserved == {i \in DOMAIN calls : calls[i].state = "sent"}
IsNext(i) == i \in Unserved /\ \A j \in Unserved : i <= j

\* create_tutorial_library removes every older library before it makes one.
CreateServed(i) ==
  /\ IsNext(i) /\ calls[i].kind = "create"
  /\ calls' = [calls EXCEPT ![i].state = "ok"]
  /\ library' = {calls[i].path}
  /\ UNCHANGED <<tab, step, onboarding, cleanupPath, shownPath, cleaning, timers, page, made,
                 excused, booted>>

CleanupServed(i) ==
  /\ IsNext(i) /\ calls[i].kind = "cleanup"
  /\ calls' = [calls EXCEPT ![i].state = "ok"]
  /\ library' = library \ {calls[i].path}
  /\ UNCHANGED <<tab, step, onboarding, cleanupPath, shownPath, cleaning, timers, page, made,
                 excused, booted>>

\* The call fails: what is on disk, the new library half made among it, stays there.
CallFailed(i) ==
  /\ IsNext(i)
  /\ calls' = [calls EXCEPT ![i].state = "failed"]
  /\ \E half \in (IF calls[i].kind = "create" THEN {{}, {calls[i].path}} ELSE {{}}) :
       library' = library \cup half
  /\ excused' = excused \cup library'
  /\ UNCHANGED <<tab, step, onboarding, cleanupPath, shownPath, cleaning, timers, page, made, booted>>

-----------------------------------------------------------------------------
Next ==
  \/ \E t \in Tabs : SelectTab(t)
  \/ Rerender \/ ResetAnswered \/ NoResetAnswered
  \/ ReplayOnboarding \/ StartOwnFolder \/ StartExample \/ CreateAnswered \/ CleanupAnswered
  \/ Escape \/ CloseDone \/ AutoAdvance
  \/ AddFolder \/ RefreshDocuments \/ ButtonSearch \/ SearchAdvance \/ Open
  \/ \E ok \in BOOLEAN : \/ FolderSaved(ok) \/ RescanEnded(ok)
                         \/ TypedSearch(ok) \/ ButtonAnswered(ok)
                         \/ \E s \in DOMAIN OpenedTo : Opened(s, ok)
  \/ ExpandSlide \/ SelectCell
  \/ \E i \in DOMAIN calls : CreateServed(i) \/ CleanupServed(i) \/ CallFailed(i)

Spec == Init /\ [][Next]_vars

-----------------------------------------------------------------------------
\* An example library is never forgotten: whatever is on disk is the one the window would
\* remove next, or a call about it is under way, or a call failed.  Calls overlap with
\* each other, with Escape and with a tour started again.
ExampleRemembered ==
  \A p \in library \ excused :
    p = cleanupPath \/ \E i \in DOMAIN calls : calls[i].path = p

\* A timer only ever moves on the step it was started for, with that step's tab in front:
\* leaving the tab, Escape or another step stop it.
TimersMatchTheStep ==
  /\ tourTimer # None => tourTimer = step /\ TargetTab(step) = tab
  /\ searchTimer => step = "search" /\ found
=============================================================================

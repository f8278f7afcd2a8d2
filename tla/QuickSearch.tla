----------------------------- MODULE QuickSearch -----------------------------
(***************************************************************************)
(* The quick search palette: its window in the Electron main process       *)
(* (frontend/electron/main.ts) and the page in it                          *)
(* (frontend/src/components/QuickSearchPalette.tsx).  The window is made   *)
(* ahead of its use, shown by a global shortcut and hidden again; the page *)
(* is told by messages, which arrive in order and later, and searches      *)
(* while the user types.                                                   *)
(***************************************************************************)
EXTENDS Naturals, Sequences, FiniteSets

CONSTANTS
  Queries,      \* what a user may type, prefixes stripped
  Combined,     \* the queries without a scope prefix: names first, then contents
  None,
  MaxRequests,  \* bound: searches whose promise is not settled
  MaxMessages,  \* bound: messages on their way to the page
  MaxTimers     \* bound: zero-delay timers of hideQuickSearchWindow that wait

VARIABLES
  win,        \* quickSearchWindow: none, loading its page, ready, broken (the load failed)
  creator,    \* who awaits the window that is being created
  visible, focusable,
  prewarm,    \* quickSearchPrewarmTimer
  settle,     \* the 32 ms timer after a prewarm
  wipes,      \* zero-delay timers of hideQuickSearchWindow
  enabled,    \* the setting, and
  registered, \* registeredQuickSearchAccelerator: is the shortcut ours?
  isQuitting,
  channel,    \* messages to the page
  page,       \* the state of the page
  reqs,       \* its searches
  greeted     \* has the page handled the 'opened' of the present opening?

winVars == <<win, creator, visible, focusable>>
timerVars == <<prewarm, settle, wipes>>
settingVars == <<enabled, registered>>
pageVars == <<page, reqs>>
vars == <<winVars, timerVars, settingVars, isQuitting, channel, pageVars, greeted>>

-----------------------------------------------------------------------------
(* The page. *)

Parts == {"filename", "content"}
Nothing == [q |-> None, parts |-> {}]      \* no documents
FreshPage ==
  [query |-> None, docs |-> Nothing, loading |-> FALSE, searched |-> FALSE, error |-> FALSE,
   selected |-> 0, panel |-> FALSE, cleared |-> FALSE]

\* One document per part that was found; both parts merge into two.
Count(docs) == Cardinality(docs.parts)

\* requestSeq moves on and the running search is aborted: what is in flight is out of date.
OutOfDate(rs) == {[r EXCEPT !.current = FALSE] : r \in rs}

\* Mutant: an answer is applied whatever has been asked meanwhile.
NeverStale(r) == FALSE

\* The guard of applyDocuments, of the catch and of the finally.
Stale(r) == ~r.current

Init ==
  /\ win = "none" /\ creator = None
  /\ visible = FALSE /\ focusable = FALSE
  /\ prewarm = FALSE /\ settle = FALSE /\ wipes = 0
  /\ enabled \in BOOLEAN /\ registered \in (IF enabled THEN BOOLEAN ELSE {FALSE})
  /\ isQuitting = FALSE
  /\ channel = <<>> /\ greeted = FALSE
  /\ page = FreshPage /\ reqs = {}

\* The effect on the query: an empty one clears the page, another one starts the timer of
\* a search; the documents of the query before stay until there is an answer.
SearchEffect(q) ==
  IF q = None
  THEN /\ page' = [FreshPage EXCEPT !.error = FALSE]
       /\ reqs' = OutOfDate(reqs)
  ELSE /\ page' = [page EXCEPT !.query = q, !.loading = TRUE, !.error = FALSE]
       /\ reqs' = OutOfDate(reqs) \cup {[q |-> q, at |-> "timer", found |-> {}, current |-> TRUE]}

\* A keystroke in the focused palette.
Type(q) ==
  /\ win = "ready" /\ visible /\ focusable /\ ~page.cleared
  /\ q # page.query
  /\ Cardinality(reqs) < MaxRequests
  /\ SearchEffect(q)
  /\ UNCHANGED <<winVars, timerVars, settingVars, isQuitting, channel, greeted>>

\* The debounce ends; cleanup has cleared the timer of a query that is not typed any more.
SearchStarts(r) ==
  /\ r.at = "timer"
  /\ reqs' = (reqs \ {r}) \cup
       (IF Stale(r) THEN {}
        ELSE {[r EXCEPT !.at = IF r.q \in Combined THEN "filename" ELSE "single"]})
  /\ UNCHANGED <<winVars, timerVars, settingVars, isQuitting, channel, page, greeted>>

\* applyDocuments: selection and panel start anew.
Applied(r, parts) ==
  IF Stale(r) THEN page
  ELSE [page EXCEPT !.docs = [q |-> r.q, parts |-> parts], !.selected = 0, !.panel = FALSE,
                    !.searched = TRUE]

\* The finally of a search.
Finished(r, p) == IF Stale(r) THEN p ELSE [p EXCEPT !.loading = FALSE]

\* The names arrive; the contents are asked for whether or not the answer was applied.
NamesArrive(r) ==
  /\ r.at = "filename"
  /\ \E found \in {{}, {"filename"}} :
       /\ page' = Applied(r, found)
       /\ reqs' = (reqs \ {r}) \cup {[r EXCEPT !.at = "content", !.found = found]}
  /\ UNCHANGED <<winVars, timerVars, settingVars, isQuitting, channel, greeted>>

ContentsArrive(r) ==
  /\ r.at \in {"content", "single"}
  /\ \E found \in {{}, {"content"}} :
       page' = Finished(r, Applied(r, r.found \cup found))
  /\ reqs' = reqs \ {r}
  /\ UNCHANGED <<winVars, timerVars, settingVars, isQuitting, channel, greeted>>

\* A search fails; after the names were found, what they gave stays without an error.
SearchFails(r) ==
  /\ r.at \in {"filename", "content", "single"}
  /\ page' = Finished(r,
       IF Stale(r) \/ r.at = "content" THEN page
       ELSE [page EXCEPT !.docs = Nothing, !.panel = FALSE, !.searched = TRUE, !.error = TRUE])
  /\ reqs' = reqs \ {r}
  /\ UNCHANGED <<winVars, timerVars, settingVars, isQuitting, channel, greeted>>

Keyed == win = "ready" /\ visible /\ focusable

\* Arrow keys and the mouse; Ctrl+K, which needs a selected document, and Escape in the panel.
Select ==
  /\ Keyed
  /\ \/ \E i \in 0..1 : i < Count(page.docs) /\ page' = [page EXCEPT !.selected = i]
     \/ page.selected < Count(page.docs) /\ page' = [page EXCEPT !.panel = ~@]
     \/ page.panel /\ page' = [page EXCEPT !.panel = FALSE]
  /\ UNCHANGED <<winVars, timerVars, settingVars, isQuitting, channel, reqs, greeted>>

\* The actions of the panel that stay in the palette: details and copying the path.
StayingAction ==
  /\ Keyed /\ page.panel /\ page.selected < Count(page.docs)
  /\ page' = [page EXCEPT !.panel = FALSE]
  /\ UNCHANGED <<winVars, timerVars, settingVars, isQuitting, channel, reqs, greeted>>

\* prepareHiddenPalette: requests are cut off at once, the state is set with the next render.
HandlePrepare ==
  /\ win = "ready" /\ channel # <<>> /\ Head(channel) = "prepare"
  /\ channel' = Tail(channel)
  /\ page' = [page EXCEPT !.cleared = TRUE]
  /\ reqs' = OutOfDate(reqs)
  /\ UNCHANGED <<winVars, timerVars, settingVars, isQuitting, greeted>>

RenderPrepared ==
  /\ page.cleared
  /\ page' = FreshPage
  /\ reqs' = OutOfDate(reqs)
  /\ UNCHANGED <<winVars, timerVars, settingVars, isQuitting, channel, greeted>>

HandleOpened ==
  /\ win = "ready" /\ channel # <<>> /\ Head(channel) = "opened"
  /\ channel' = Tail(channel)
  /\ greeted' = (visible /\ \A i \in DOMAIN Tail(channel) : Tail(channel)[i] # "opened")
  /\ UNCHANGED <<winVars, timerVars, settingVars, isQuitting, pageVars>>

-----------------------------------------------------------------------------
(* The window. *)

Exists == win # "none"

\* A message reaches a page that has been loaded; before that it is lost.
Send(m) == channel' = IF win = "ready" THEN Append(channel, m) ELSE channel

\* showQuickSearchWindow once it holds the window.
ShowNow ==
  /\ Len(channel) < MaxMessages
  /\ Send("opened")
  /\ visible' = TRUE /\ focusable' = TRUE
  /\ greeted' = FALSE

\* hideQuickSearchWindow: hidden, not focusable, and a timer that prepares the page.
HideNow ==
  /\ wipes < MaxTimers
  /\ visible' = FALSE /\ focusable' = FALSE 
  /\ wipes' = wipes + 1
  /\ greeted' = FALSE

\* The tray opens; the shortcut toggles.  createQuickSearchWindow returns the window as soon
\* as there is one, its page loaded or not; only its first caller waits for the page.
Open ==
  /\ ~isQuitting
  /\ IF Exists THEN ShowNow /\ UNCHANGED <<win, creator>>
     ELSE /\ win' = "loading" /\ creator' = "show"
          /\ UNCHANGED <<visible, focusable, channel, greeted>>
  /\ UNCHANGED <<timerVars, settingVars, isQuitting, pageVars>>

Hide ==
  /\ Exists
  /\ HideNow
  /\ UNCHANGED <<win, creator, prewarm, settle, settingVars, isQuitting, channel, pageVars>>

Toggle ==
  /\ registered
  /\ IF visible THEN Hide ELSE Open

\* Escape, a click outside, the blur timer, the focus of another window, the search sent to the
\* main window, and the answered call of open-file or reveal-folder (which may come long
\* after the user went on).
Dismiss == visible /\ Hide

\* The page is loaded: the window is made unfocusable, then its first caller goes on.
PageLoads ==
  /\ win = "loading"
  /\ win' = "ready" /\ creator' = None
  /\ page' = FreshPage /\ reqs' = {} /\ channel' = IF creator = "show" THEN <<"opened">> ELSE <<>>
  /\ IF creator = "show"
     THEN visible' = TRUE /\ focusable' = TRUE  /\ settle' = settle
     ELSE visible' = visible /\ focusable' = FALSE /\ settle' = (settle \/ ~visible)
  /\ greeted' = FALSE
  /\ UNCHANGED <<prewarm, wipes, settingVars, isQuitting>>

\* The load fails: the window stays, without a page.
LoadFails ==
  /\ win = "loading"
  /\ win' = "broken" /\ creator' = None
  /\ UNCHANGED <<visible, focusable, timerVars, settingVars, isQuitting, channel, pageVars,
                 greeted>>

\* scheduleQuickSearchPrewarm, after the start and after a change of the settings.
CanPrewarm == ~prewarm /\ ~Exists /\ ~isQuitting /\ enabled

SchedulePrewarm ==
  /\ CanPrewarm
  /\ prewarm' = TRUE
  /\ UNCHANGED <<winVars, settle, wipes, settingVars, isQuitting, channel, pageVars, greeted>>

\* The timer finds no window, or one that was opened meanwhile: then it only prepares it.
PrewarmFires ==
  /\ prewarm
  /\ prewarm' = FALSE
  /\ IF Exists
     THEN /\ settle' = (settle \/ ~visible)
          /\ focusable' = (focusable /\ visible)
          /\ UNCHANGED <<win, creator>>
     ELSE /\ win' = "loading" /\ creator' = "prewarm"
          /\ UNCHANGED <<settle, focusable>>
  /\ UNCHANGED <<visible, wipes, settingVars, isQuitting, channel, pageVars, greeted>>

\* The timers of a prewarm and of hideQuickSearchWindow: a page that is still hidden is
\* prepared for its next use.
TimerPrepares ==
  /\ \/ settle /\ settle' = FALSE /\ UNCHANGED wipes
     \/ wipes > 0 /\ wipes' = wipes - 1 /\ UNCHANGED settle
  /\ IF Exists /\ ~visible
     THEN Len(channel) < MaxMessages /\ Send("prepare")
     ELSE UNCHANGED channel
  /\ UNCHANGED <<winVars, prewarm, settingVars, isQuitting, pageVars, greeted>>

\* registerQuickSearchShortcut: what was registered goes; the system may refuse the new one.
Register(on) == registered' \in (IF on THEN BOOLEAN ELSE {FALSE})

\* setQuickSearchSettings: save, register, then prewarm or hide.
SetEnabled(on) ==
  /\ ~isQuitting
  /\ enabled' = on
  /\ Register(on)
  /\ IF on
     THEN /\ prewarm' = (prewarm \/ ~Exists)
          /\ UNCHANGED <<wipes, visible, focusable, greeted>>
     ELSE /\ prewarm' = FALSE
          /\ IF Exists THEN HideNow
             ELSE UNCHANGED <<wipes, visible, focusable, greeted>>
  /\ UNCHANGED <<win, creator, settle, isQuitting, channel, pageVars>>

\* before-quit and shutdownApp: shortcut, timer and window go.
Quit ==
  /\ ~isQuitting
  /\ isQuitting' = TRUE
  /\ registered' = FALSE /\ prewarm' = FALSE
  /\ win' = "none" /\ creator' = None /\ visible' = FALSE /\ focusable' = FALSE 
  /\ channel' = <<>> /\ greeted' = FALSE
  /\ page' = FreshPage /\ reqs' = {}
  /\ UNCHANGED <<settle, wipes, enabled>>

Done == isQuitting /\ UNCHANGED vars

User == \/ \E q \in Queries \cup {None} : Type(q)
        \/ Select \/ StayingAction \/ Open \/ Toggle \/ Dismiss
        \/ \E on \in BOOLEAN : SetEnabled(on)
Page == \/ \E r \in reqs : SearchStarts(r) \/ NamesArrive(r) \/ ContentsArrive(r) \/ SearchFails(r)
        \/ HandlePrepare \/ RenderPrepared \/ HandleOpened
Main == PageLoads \/ LoadFails \/ SchedulePrewarm \/ PrewarmFires \/ TimerPrepares \/ Quit

Next == User \/ Page \/ Main \/ Done

Spec == Init /\ [][Next]_vars

-----------------------------------------------------------------------------

TypeOK ==
  /\ win \in {"none", "loading", "ready", "broken"} /\ creator \in {"show", "prewarm", None}
  /\ {visible, focusable, prewarm, settle, enabled, registered, isQuitting, greeted}
       \subseteq BOOLEAN
  /\ wipes \in 0..MaxTimers
  /\ channel \in Seq({"opened", "prepare"}) /\ Len(channel) <= MaxMessages
  /\ page \in [query : Queries \cup {None},
               docs : [q : Queries \cup {None}, parts : SUBSET Parts],
               loading : BOOLEAN, searched : BOOLEAN, error : BOOLEAN,
               selected : 0..Cardinality(Parts), panel : BOOLEAN, cleared : BOOLEAN]
  /\ reqs \subseteq [q : Queries, at : {"timer", "filename", "content", "single"},
                     found : SUBSET Parts, current : BOOLEAN]

\* The documents on the page answer what is typed, or the page says that it searches: no
\* answer of an earlier query, no retry and no clearing of a hidden palette leaves documents
\* of another query under the one that is shown (requestSeq, the AbortController, the cleanup
\* of the effect, prepareHiddenPalette).
DocumentsAnswerTheQuery ==
  page.docs.q \notin {None, page.query} => page.loading

\* The page says that it searches only while a search for what is typed is going on, so that
\* it stops saying so (the guarded finally, setLoading in prepareHiddenPalette).
SpinnerHasASearch ==
  page.loading /\ ~page.cleared => \E r \in reqs : r.current /\ r.q = page.query

=============================================================================

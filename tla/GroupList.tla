------------------------------- MODULE GroupList -------------------------------
(***************************************************************************)
(* The list of document groups on the comparison page                      *)
(* (frontend/src/components/ConsistencyCheck.tsx, fetchGroups and what     *)
(* calls it).  The criteria of the list become those of an answer when it  *)
(* arrives; an answer from an index that is being refreshed is asked for   *)
(* again 1.6 s later, with the criteria of that answer.                    *)
(***************************************************************************)
EXTENDS Naturals, FiniteSets

CONSTANTS
  Filters, NoFilter,   \* kind, file type, sort and duplicates, together
  Queries, NoQuery,
  LastPage,            \* pages 0..LastPage
  MaxFetches           \* bound: fetches whose promise is not settled

Criteria == [filter : Filters, query : Queries, page : 0..LastPage]
Default == [filter |-> NoFilter, query |-> NoQuery, page |-> 0]
Nothing == [Default EXCEPT !.page = LastPage + 1]      \* no timer, no fetch

VARIABLES
  shown,       \* the criteria of the answer that is shown
  stale,       \* groupIndexState.stale
  refresh,     \* groupRefreshTimerRef: the criteria its callback will ask for
  draft,       \* groupQueryDraft
  typing,      \* groupSearchDebounceRef: the criteria its callback will ask for
  fetches,     \* slot -> the criteria that are being asked for
  loading,     \* groupsLoading
  guided,      \* does the tutorial wait for a group of the list?
  target,      \* does the answer that is shown hold that group?
  ready,       \* the server's group index is complete
  failed       \* history: has a fetch failed since the last answer?

timers == <<refresh, typing>>
answer == <<shown, stale, target, failed>>
vars == <<answer, timers, draft, fetches, loading, guided, ready>>

InFlight == {i \in DOMAIN fetches : fetches[i] # Nothing}

\* The page is mounted: it asks for the first page.
Init ==
  /\ shown = Default /\ stale = FALSE /\ refresh = Nothing
  /\ draft = NoQuery /\ typing = Nothing
  /\ fetches = [i \in 1..MaxFetches |-> IF i = 1 THEN Default ELSE Nothing]
  /\ loading = TRUE
  /\ guided = FALSE /\ target = FALSE
  /\ ready = FALSE /\ failed = FALSE

\* fetchGroups up to its await.
Fetch(c) ==
  /\ \E i \in DOMAIN fetches \ InFlight :
       /\ \A j \in DOMAIN fetches \ InFlight : i <= j
       /\ fetches' = [fetches EXCEPT ![i] = c]
  /\ loading' = TRUE

\* changeGroupFilter, changeGroupFileType, changeGroupSort, changeDuplicateGroups: one change
\* to the criteria that are shown.
ChangeFilter(f) ==
  /\ Fetch([shown EXCEPT !.filter = f, !.page = 0])
  /\ UNCHANGED <<answer, timers, draft, guided, ready>>

\* handleGroupSearch: Enter, or the button when nothing is loading.
Search ==
  /\ typing' = Nothing
  /\ Fetch([shown EXCEPT !.query = draft, !.page = 0])
  /\ UNCHANGED <<answer, refresh, draft, guided, ready>>

\* handleGroupQueryDraftChange: the callback holds the criteria of this rendering.
TypeDraft(q) ==
  /\ q # draft
  /\ draft' = q
  /\ typing' = [shown EXCEPT !.query = q, !.page = 0]
  /\ UNCHANGED <<answer, refresh, fetches, loading, guided, ready>>

DebounceEnds ==
  /\ typing # Nothing
  /\ typing' = Nothing
  /\ Fetch(typing)
  /\ UNCHANGED <<answer, refresh, draft, guided, ready>>

\* clearGroupSearch and resetGroupFilters, buttons of a list that is not loading.
ClearSearch ==
  /\ shown.query # NoQuery /\ ~loading
  /\ draft' = NoQuery /\ typing' = Nothing
  /\ Fetch([shown EXCEPT !.query = NoQuery, !.page = 0])
  /\ UNCHANGED <<answer, refresh, guided, ready>>

ResetFilters ==
  /\ [shown EXCEPT !.page = 0] # Default /\ ~loading
  /\ draft' = NoQuery /\ typing' = Nothing
  /\ Fetch(Default)
  /\ UNCHANGED <<answer, refresh, guided, ready>>

GoToPage(p) ==
  /\ ~loading /\ p # shown.page
  /\ Fetch([shown EXCEPT !.page = p])
  /\ UNCHANGED <<answer, timers, draft, guided, ready>>

\* The effect on libraryDataRevision: a rescan changed the library, whose index is computed
\* anew.
LibraryChanged ==
  /\ ready' = FALSE
  /\ Fetch([shown EXCEPT !.page = 0])
  /\ UNCHANGED <<answer, timers, draft, guided>>

\* The effects of the tutorial: a step that needs a group resets the list, then asks for it
\* until the group is there.
GuideStarts ==
  /\ ~guided
  /\ guided' = TRUE
  /\ draft' = NoQuery /\ typing' = Nothing
  /\ Fetch(Default)
  /\ UNCHANGED <<answer, refresh, ready>>

GuideEnds == guided /\ guided' = FALSE /\ UNCHANGED <<answer, timers, draft, fetches, loading, ready>>

GuideAsks ==
  /\ guided /\ ~target /\ ~loading
  /\ Fetch(Default)
  /\ UNCHANGED <<answer, timers, draft, guided, ready>>

RefreshFires ==
  /\ refresh # Nothing
  /\ refresh' = Nothing
  /\ Fetch(refresh)
  /\ UNCHANGED <<answer, typing, draft, guided, ready>>

\* The server: an index that is not complete is answered from what there is of it.
IndexReady == ~ready /\ ready' = TRUE /\ UNCHANGED <<answer, timers, draft, fetches, loading, guided>>

Settle(i) ==
  /\ fetches' = [fetches EXCEPT ![i] = Nothing]
  /\ loading' = FALSE
  /\ UNCHANGED <<typing, draft, guided, ready>>

\* Mutant: only the first answer of a refresh is asked for again.
RearmOnce(c) == refresh' = IF ~ready /\ ~stale THEN c ELSE refresh

\* An answer of an index that is being refreshed replaces the timer; another one leaves it.
Rearm(c) == refresh' = IF ~ready THEN c ELSE refresh

\* tutorialOpenTargetGroupId: the whole list may hold the group of the tour, or not yet.
HoldsTarget(found, c) == found /\ c = Default

Arrives(i) ==
  /\ i \in InFlight
  /\ shown' = fetches[i]
  /\ stale' = ~ready
  /\ Rearm(fetches[i])
  /\ \E found \in BOOLEAN : target' = HoldsTarget(found, fetches[i])
  /\ failed' = FALSE
  /\ Settle(i)

\* The catch is silent.
Fails(i) ==
  /\ i \in InFlight
  /\ failed' = TRUE
  /\ Settle(i)
  /\ UNCHANGED <<shown, stale, refresh, target>>

User ==
  \/ \E f \in Filters : ChangeFilter(f)
  \/ \E q \in Queries : TypeDraft(q)
  \/ \E p \in 0..LastPage : GoToPage(p)
  \/ Search \/ ClearSearch \/ ResetFilters

App == LibraryChanged \/ GuideStarts \/ GuideEnds \/ GuideAsks \/ DebounceEnds \/ RefreshFires

Server == IndexReady \/ \E i \in DOMAIN fetches : Arrives(i) \/ Fails(i)

Next == User \/ App \/ Server

Spec == Init /\ [][Next]_vars

-----------------------------------------------------------------------------

TypeOK ==
  /\ shown \in Criteria
  /\ {refresh, typing} \subseteq Criteria \cup {Nothing}
  /\ draft \in Queries
  /\ fetches \in [1..MaxFetches -> Criteria \cup {Nothing}]
  /\ {stale, loading, guided, target, ready, failed} \subseteq BOOLEAN

\* The notice that the prepared groups are shown and replaced when the index is complete is
\* true: while it is shown the list will be asked for again, unless an asking has failed
\* (fetchGroups arms the timer with every answer of a stale index).
NoticeIsPolled == stale => refresh # Nothing \/ InFlight # {} \/ failed

\* The list says that it is loading only while an answer is awaited.
ListSpinner == loading => InFlight # {}


=============================================================================

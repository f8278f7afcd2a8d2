------------------------------ MODULE SearchPage ------------------------------
(***************************************************************************)
(* The search page of the main window                                      *)
(* (frontend/src/components/FileSearch.tsx): a query that is searched      *)
(* 600 ms after the last keystroke, filters that search at once, folders   *)
(* that are hidden from one search, and pages of files that are asked for  *)
(* one after the other.  Answers come late and in any order.               *)
(***************************************************************************)
EXTENDS Naturals, Sequences, FiniteSets, Functions, Filtering

CONSTANTS
  Files,        \* the registered documents, most relevant first
  Folders, FolderOf,   \* the folder of a document
  FoldersOf,           \* and every folder it lies in
  Queries, Blank,
  Filters, NoFilter,   \* types, scope and dates of a search, together
  Found,        \* Found[q][f]: the documents a query finds under a filter
  PageSize,     \* INITIAL_SEARCH_FILE_LIMIT, SEARCH_FILE_LIMIT_STEP
  MaxFiles,     \* MAX_SEARCH_FILE_LIMIT
  MaxRequests   \* bound: searches whose promise is not settled

VARIABLES
  query, filters, hidden,   \* the text, the filters, excludedFolderPaths
  typing,                   \* debounceRef with what its closure holds
  results,                  \* what the list shows: files and the query that found them
  answered,                 \* history: the filters and hidden folders of the list's pages
  fetched, hasMore,         \* searchMeta
  loading, loadingMore, searched,
  requests

criteria == <<query, filters, hidden>>
list == <<results, answered, fetched, hasMore, searched>>
flags == <<loading, loadingMore>>
vars == <<criteria, typing, list, flags, requests>>

NoTimer == [q |-> Blank, filters |-> NoFilter, hidden |-> {}, set |-> FALSE]
Criteria(f, h) == [filters |-> f, hidden |-> h]

\* isResultInFolder: a hidden folder hides what lies below it.
Shown(x, h) == FoldersOf[x] \cap h = {}

\* The server: what a search finds, in its order, and one page of it.
Hits(q, f, h) ==
  Filtered(Files, {i \in DOMAIN Files : Files[i] \in Found[q][f] /\ Shown(Files[i], h)})

PageOf(r) ==
  LET hits == Hits(r.q, r.filters, r.hidden)
      from == IF r.offset > Len(hits) THEN Len(hits) ELSE r.offset
      upto == IF from + r.limit > Len(hits) THEN Len(hits) ELSE from + r.limit
  IN  [files |-> SubSeq(hits, from + 1, upto), more |-> Len(hits) > r.offset + r.limit]

\* searchRequestSeq moves on and the search before is aborted; of what it asked only the query
\* is kept, which keeps the states few.
OutOfDate(rs) ==
  {[r EXCEPT !.current = FALSE, !.filters = NoFilter, !.hidden = {}, !.offset = 0, !.limit = 1,
             !.more = FALSE] : r \in rs}

Init ==
  /\ query = Blank /\ filters = NoFilter /\ hidden = {}
  /\ typing = NoTimer
  /\ results = <<>> /\ answered = {} /\ fetched = 0 /\ hasMore = FALSE
  /\ loading = FALSE /\ loadingMore = FALSE /\ searched = FALSE
  /\ requests = {}

emptySearchMeta == fetched' = 0 /\ hasMore' = FALSE

EmptyList ==
  /\ results' = <<>> /\ answered' = {} /\ emptySearchMeta
  /\ searched' = FALSE

Request(q, f, h, offset, limit, more) ==
  [q |-> q, filters |-> f, hidden |-> h, offset |-> offset, limit |-> limit, more |-> more,
   current |-> TRUE]

\* doSearch for a first page.
DoSearch(q, f, h) ==
  IF q = Blank
  THEN /\ EmptyList
       /\ loading' = FALSE /\ loadingMore' = FALSE
       /\ requests' = OutOfDate(requests)
  ELSE /\ Cardinality(requests) < MaxRequests
       /\ requests' = OutOfDate(requests) \cup {Request(q, f, h, 0, PageSize, FALSE)}
       /\ loading' = TRUE
       /\ UNCHANGED <<loadingMore, list>>

\* A change of the criteria searches at once when there is a query.
SearchUnlessBlank(q, f, h) ==
  IF q = Blank THEN UNCHANGED <<typing, list, flags, requests>>
  ELSE typing' = NoTimer /\ DoSearch(q, f, h)

\* handleQueryChange: the timer's callback is the doSearch of this rendering.
Type(q) ==
  /\ q # query
  /\ query' = q
  /\ typing' = [q |-> q, filters |-> filters, hidden |-> hidden, set |-> TRUE]
  /\ UNCHANGED <<filters, hidden, list, flags, requests>>

DebounceEnds ==
  /\ typing.set
  /\ typing' = NoTimer
  /\ DoSearch(typing.q, typing.filters, typing.hidden)
  /\ UNCHANGED criteria

\* toggleFileType, handleSearchScopeChange, handleResetFileTypes and the dates.
ChangeFilters(f) ==
  /\ f # filters
  /\ filters' = f
  /\ SearchUnlessBlank(query, f, hidden)
  /\ UNCHANGED <<query, hidden>>

\* The button; it is disabled while a first page is awaited.
SearchNow ==
  /\ query # Blank /\ ~loading
  /\ typing' = NoTimer
  /\ DoSearch(query, filters, hidden)
  /\ UNCHANGED criteria

\* normalizePathForFilter, getParentFolderPath: the folder of a document that is listed.
IsListedFolder(d) == \E i \in DOMAIN results : FolderOf[results[i].file] = d

\* addTemporaryExcludedFolder: only what the list holds now is filtered.
HideFolder(d) ==
  /\ ~loading /\ IsListedFolder(d)
  /\ hidden' = hidden \cup {d}
  /\ results' = Filtered(results, {i \in DOMAIN results : Shown(results[i].file, hidden')})
  /\ UNCHANGED <<query, filters, typing, answered, fetched, hasMore, searched, flags, requests>>

UnhideFolder(d) ==
  /\ d \in hidden
  /\ hidden' = hidden \ {d}
  /\ SearchUnlessBlank(query, filters, hidden')
  /\ UNCHANGED <<query, filters>>

\* resetSearchFilters leaves the timer of a keystroke alone.
ResetFilters ==
  /\ filters # NoFilter \/ hidden # {}
  /\ filters' = NoFilter /\ hidden' = {}
  /\ IF query = Blank THEN UNCHANGED <<list, flags, requests>>
     ELSE DoSearch(query, NoFilter, {})
  /\ UNCHANGED <<query, typing>>

\* Mutant: the flags of the search that is cut off stay.
ClearText ==
  /\ query # Blank
  /\ query' = Blank /\ hidden' = {}
  /\ typing' = NoTimer
  /\ requests' = OutOfDate(requests)
  /\ EmptyList
  /\ UNCHANGED <<filters, flags>>

\* The cross in the text field.
ClearQuery ==
  /\ query # Blank
  /\ query' = Blank /\ hidden' = {}
  /\ typing' = NoTimer
  /\ requests' = OutOfDate(requests)
  /\ EmptyList
  /\ loading' = FALSE /\ loadingMore' = FALSE
  /\ UNCHANGED filters

\* Another window opens the page with a query: each request is handled once.
Launch(q) ==
  /\ query' = q
  /\ typing' = NoTimer
  /\ DoSearch(q, filters, hidden)
  /\ UNCHANGED <<filters, hidden>>

\* The effect on libraryDataRevision: the registered documents changed.
LibraryChanged ==
  /\ IF query = Blank
     THEN EmptyList /\ UNCHANGED <<flags, requests>>
     ELSE DoSearch(query, filters, hidden)
  /\ UNCHANGED <<criteria, typing>>

\* The sentinel below the list is watched, and the button is shown.
MoreOffered == hasMore /\ ~loading /\ ~loadingMore

\* expandSearchFileWindow, by the button or by the sentinel that comes into view.
LoadMore ==
  LET room == MaxFiles - fetched
      limit == IF room < PageSize THEN room ELSE PageSize
  IN  /\ MoreOffered
      /\ query # Blank /\ limit > 0
      /\ Cardinality(requests) < MaxRequests
      /\ requests' = OutOfDate(requests) \cup
                       {Request(query, filters, hidden, fetched, limit, TRUE)}
      /\ loadingMore' = TRUE
      /\ UNCHANGED <<criteria, typing, list, loading>>

\* Mutant: the answer to a search that was replaced is used.
NeverStale(r) == FALSE

\* The guard after the await, in the catch and in the finally.
Stale(r) == ~r.current

\* mergeSearchResults: what the list has already is not added again.
Merge(old, new) ==
  old \o Filtered(new, {i \in DOMAIN new : \A j \in DOMAIN old : old[j] # new[i]})

Tagged(files, q) == [i \in DOMAIN files |-> [file |-> files[i], q |-> q]]

\* Mutant: the offset of the next page counts the list, not what was fetched.
CountsTheLimit(r, page) == r.offset + r.limit + 1

FetchedAfter(r, page) == r.offset + Len(page.files)

\* applySearchResponse.
Arrives(r) ==
  /\ requests' = requests \ {r}
  /\ IF Stale(r) THEN UNCHANGED <<list, flags>>
     ELSE LET page == PageOf(r) new == Tagged(page.files, r.q)
          IN  /\ results' = IF r.more THEN Merge(results, new) ELSE new
              /\ answered' = (IF r.more THEN answered ELSE {})
                               \cup {Criteria(r.filters, r.hidden)}
              /\ fetched' = FetchedAfter(r, page)
              /\ hasMore' = page.more /\ searched' = TRUE
              /\ loading' = FALSE /\ loadingMore' = FALSE
  /\ UNCHANGED <<criteria, typing>>

\* The catch: also a next page that fails empties the list.
Fails(r) ==
  /\ requests' = requests \ {r}
  /\ IF Stale(r) THEN UNCHANGED <<list, flags>>
     ELSE /\ results' = <<>> /\ answered' = {} /\ emptySearchMeta
          /\ loading' = FALSE /\ loadingMore' = FALSE
          /\ UNCHANGED searched
  /\ UNCHANGED <<criteria, typing>>

User ==
  \/ \E q \in Queries \cup {Blank} : Type(q)
  \/ \E f \in Filters : ChangeFilters(f)
  \/ \E d \in Folders : HideFolder(d) \/ UnhideFolder(d)
  \/ SearchNow \/ ResetFilters \/ ClearQuery \/ LoadMore

App == LibraryChanged \/ \E q \in Queries : Launch(q)

Server == \E r \in requests : Arrives(r) \/ Fails(r)

Next == User \/ App \/ DebounceEnds \/ Server

Spec == Init /\ [][Next]_vars

-----------------------------------------------------------------------------

TypeOK ==
  /\ query \in Queries \cup {Blank} /\ filters \in Filters /\ hidden \subseteq Folders
  /\ typing \in [q : Queries \cup {Blank}, filters : Filters, hidden : SUBSET Folders, set : BOOLEAN]
  /\ Range(results) \subseteq [file : Range(Files), q : Queries]
  /\ answered \subseteq [filters : Filters, hidden : SUBSET Folders]
  /\ fetched \in 0..MaxFiles
  /\ {hasMore, loading, loadingMore, searched} \subseteq BOOLEAN
  /\ \A r \in requests : r.q \in Queries /\ r.limit \in 1..PageSize /\ r.offset + r.limit <= MaxFiles

Settled == ~typing.set /\ ~loading

\* Once the text is not being changed and no first page is awaited, every document of the list
\* was found by the query in the text field: no late answer, no debounced search that was
\* overtaken by a launch from another window, and no page that the sentinel asked for while
\* the text changed is left in the list (searchRequestSeq, clearPendingSearch).
ResultsAnswerTheQuery ==
  Settled => \A i \in DOMAIN results : results[i].q = query

\* A list all of whose pages were asked for with the filters and the hidden folders of now is a
\* beginning of what the server finds: page after page, nothing is left out and nothing comes
\* twice (fetchedFileCount as the offset of the next page, mergeSearchResults).
PagesAreContiguous ==
  Settled /\ answered \subseteq {Criteria(filters, hidden)} /\ query # Blank =>
    LET hits == Hits(query, filters, hidden)
    IN  /\ Len(results) <= Len(hits)
        /\ \A i \in DOMAIN results : results[i].file = hits[i]

\* The page says that it searches only while an answer that it would use is awaited.
SearchSpinner == loading \/ loadingMore => \E r \in requests : r.current

=============================================================================

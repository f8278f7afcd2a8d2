---------------------------- MODULE SearchLanding ----------------------------
(***************************************************************************)
(* What the search page shows before a search                              *)
(* (frontend/src/components/FileSearch.tsx): the newest documents, page    *)
(* after page, and whether any folder is watched.  Both are asked for again *)
(* when the page becomes active and when the library has changed; answers  *)
(* come late and in any order.                                             *)
(***************************************************************************)
EXTENDS Naturals, Sequences, FiniteSets, Functions

CONSTANTS
  PageSize,     \* LANDING_DOCUMENT_PAGE_SIZE
  MaxDocs,      \* bound: documents of the library
  MaxRequests   \* bound: requests of each kind that are not answered

VARIABLES
  newest,       \* the server: its documents are newest..1, the newest first
  told,         \* libraryDataRevision, as the newest document it was raised for
  active,
  landing, total,              \* initialFiles, initialFileTotal
  landingLoading, landingMore, \* initialDataLoading, initialDataLoadingMore
  asked,                       \* the requests for documents
  folders, foldersAsked        \* watchedFolders (when they were asked for) and their requests

flags == <<landingLoading, landingMore>>
page == <<landing, total, flags, asked>>
folderVars == <<folders, foldersAsked>>
vars == <<newest, told, active, page, folderVars>>

Unknown == 0      \* watchedFolders = null

Init ==
  /\ newest = 1 /\ told = 1 /\ active = FALSE
  /\ landing = <<>> /\ total = 0 /\ landingLoading = FALSE /\ landingMore = FALSE /\ asked = {}
  /\ folders = Unknown /\ foldersAsked = {}

Documents == [i \in 1..newest |-> newest + 1 - i]

\* initialDataRequestSeq moves on.
OutOfDate(rs) == {[r EXCEPT !.current = FALSE] : r \in rs}

\* loadLandingFiles for a first page.
LoadFirst ==
  /\ Cardinality(asked) < MaxRequests
  /\ asked' = OutOfDate(asked) \cup {[offset |-> 0, more |-> FALSE, current |-> TRUE]}
  /\ landingLoading' = TRUE
  /\ UNCHANGED landingMore

\* The effect on the settings: the request before is cancelled.
LoadFolders(now) ==
  /\ Cardinality(foldersAsked) < MaxRequests
  /\ foldersAsked' = OutOfDate(foldersAsked) \cup {[at |-> now, current |-> TRUE]}

\* A document is registered on the server; the pages hear of it later, if at all.
Registered ==
  /\ newest < MaxDocs
  /\ newest' = newest + 1
  /\ UNCHANGED <<told, active, page, folderVars>>

\* libraryDataRevision is raised: an active page asks again.
Announced ==
  /\ told # newest
  /\ told' = newest
  /\ IF active THEN LoadFirst /\ LoadFolders(newest)
     ELSE UNCHANGED <<asked, flags, foldersAsked>>
  /\ UNCHANGED <<newest, active, landing, total, folders>>

\* The page is opened; leaving it cancels the request of the folders.
Activate ==
  /\ ~active
  /\ active' = TRUE
  /\ LoadFirst /\ LoadFolders(newest)
  /\ UNCHANGED <<newest, told, landing, total, folders>>

Deactivate ==
  /\ active
  /\ active' = FALSE
  /\ foldersAsked' = OutOfDate(foldersAsked)
  /\ UNCHANGED <<newest, told, page, folders>>

\* loadMoreInitialFiles, by the button or by the sentinel that comes into view.
LoadMore ==
  /\ active
  /\ Len(landing) < total /\ ~landingLoading /\ ~landingMore
  /\ Cardinality(asked) < MaxRequests
  /\ asked' = OutOfDate(asked) \cup {[offset |-> Len(landing), more |-> TRUE, current |-> TRUE]}
  /\ landingMore' = TRUE
  /\ UNCHANGED <<newest, told, active, landing, total, landingLoading, folderVars>>

\* Mutant: the answer to a request that was replaced is used.
NeverStale(r) == FALSE

\* The guard after the await, in the catch and in the finally.
Stale(r) == ~r.current

\* The list of documents arrives.
Arrives(r) ==
  /\ asked' = asked \ {r}
  /\ IF Stale(r) THEN UNCHANGED <<landing, total, flags>>
     ELSE LET items == SubSeq(Documents, r.offset + 1,
                              IF r.offset + PageSize < newest THEN r.offset + PageSize ELSE newest)
          IN  /\ landing' = IF r.more THEN landing \o items ELSE items
              /\ total' = newest
              /\ landingLoading' = FALSE /\ landingMore' = FALSE
  /\ UNCHANGED <<newest, told, active, folderVars>>

\* A first page that fails empties the list; a later one leaves it.
Fails(r) ==
  /\ asked' = asked \ {r}
  /\ IF Stale(r) THEN UNCHANGED <<landing, total, flags>>
     ELSE /\ IF r.more THEN UNCHANGED <<landing, total>> ELSE landing' = <<>> /\ total' = 0
          /\ landingLoading' = FALSE /\ landingMore' = FALSE
  /\ UNCHANGED <<newest, told, active, folderVars>>

FoldersArrive(r) ==
  /\ foldersAsked' = foldersAsked \ {r}
  /\ folders' \in IF Stale(r) THEN {folders} ELSE {r.at, Unknown}
  /\ UNCHANGED <<newest, told, active, page>>

Next ==
  \/ Registered \/ Announced \/ Activate \/ Deactivate \/ LoadMore
  \/ \E r \in asked : Arrives(r) \/ Fails(r)
  \/ \E r \in foldersAsked : FoldersArrive(r)

Spec == Init /\ [][Next]_vars

-----------------------------------------------------------------------------

TypeOK ==
  /\ newest \in 1..MaxDocs /\ told \in 1..MaxDocs /\ active \in BOOLEAN
  /\ Range(landing) \subseteq 1..MaxDocs /\ total \in 0..MaxDocs
  /\ {landingLoading, landingMore} \subseteq BOOLEAN
  /\ asked \subseteq [offset : 0..MaxDocs, more : BOOLEAN, current : BOOLEAN]
  /\ folders \in 0..MaxDocs /\ foldersAsked \subseteq [at : 1..MaxDocs, current : BOOLEAN]

\* When an active page awaits nothing and has heard of every change, its list is a beginning
\* of the server's documents: whatever was registered between two pages, nothing is left
\* out and nothing comes twice (initialDataRequestSeq, the effect on libraryDataRevision).
LandingFollowsLibrary ==
  active /\ told = newest /\ ~landingLoading /\ ~landingMore =>
    /\ Len(landing) <= Len(Documents)
    /\ \A i \in DOMAIN landing : landing[i] = Documents[i]

=============================================================================

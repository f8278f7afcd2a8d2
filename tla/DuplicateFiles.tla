------------------------------ MODULE DuplicateFiles ------------------------------
(***************************************************************************)
(* The page of documents with the same contents                            *)
(* (frontend/src/components/DuplicateFiles.tsx): pages of groups, asked of *)
(* the server while the library changes, and a filter over the groups of   *)
(* the page that is shown.                                                 *)
(***************************************************************************)
EXTENDS Naturals, FiniteSets

CONSTANTS
  Groups,       \* how many groups the library may hold
  Filtered,     \* those with a file that fits the words in the filter
  PageSize,     \* DUPLICATE_PAGE_SIZE
  MaxRequests   \* bound: requests without an answer

VARIABLES
  library,    \* the number of groups: the server lists the first ones of Groups
  groups,     \* the groups of the page, by their places in the server's list
  total, offset,
  loading,
  query,      \* is there a filter?
  requests    \* what has been asked: the offsets, each with its number

rows == <<groups, total, offset>>
vars == <<library, rows, loading, query, requests>>

Less(a, b) == IF b < a THEN 0 ELSE b - a

\* fetchDuplicates up to its await.
Fetch(nextOffset) ==
  /\ Cardinality(requests) < MaxRequests
  /\ \E n \in 1..MaxRequests :
       /\ \A r \in requests : r.n # n
       /\ requests' = requests \cup {[n |-> n, offset |-> nextOffset]}
  /\ loading' = TRUE

\* The groups that the server lists on a page.
PageFrom(from) == {g \in 1..library : from < g /\ g <= from + PageSize}

\* The page is mounted: its effect asks for the first groups.
Init ==
  /\ library \in 0..Groups
  /\ groups = {} /\ total = 0 /\ offset = 0
  /\ requests = {[n |-> 1, offset |-> 0]} /\ loading = TRUE
  /\ query = FALSE

\* The rescans of others are not heard of here.
LibraryChanges ==
  /\ library' \in (0..Groups) \ {library}
  /\ UNCHANGED <<rows, loading, query, requests>>

\* The effect on libraryDataRevision.
RevisionChanges ==
  /\ Fetch(0)
  /\ UNCHANGED <<library, rows, query>>

Refresh ==
  /\ ~loading
  /\ Fetch(0)
  /\ UNCHANGED <<library, rows, query>>

hasPrevious == offset > 0
hasNext == offset + PageSize < total

\* The buttons of the pager, which is shown when there is more than one page.
Turn(nextOffset) ==
  /\ total > PageSize /\ ~loading
  /\ \/ hasPrevious /\ nextOffset = Less(PageSize, offset)
     \/ hasNext /\ nextOffset = offset + PageSize
  /\ Fetch(nextOffset)
  /\ UNCHANGED <<library, rows, query>>

\* The end of fetchDuplicates with an answer: of any request, and the flag of all of them.
Arrives(r) ==
  /\ groups' = PageFrom(r.offset) /\ total' = library /\ offset' = r.offset
  /\ requests' = requests \ {r} /\ loading' = FALSE
  /\ UNCHANGED <<library, query>>

Fails(r) ==
  /\ requests' = requests \ {r} /\ loading' = FALSE
  /\ UNCHANGED <<library, rows, query>>

TypeWords ==
  /\ query' = ~query
  /\ UNCHANGED <<library, rows, loading, requests>>

Next ==
  \/ LibraryChanges \/ RevisionChanges \/ Refresh \/ TypeWords
  \/ \E nextOffset \in 0..Groups : Turn(nextOffset)
  \/ \E r \in requests : Arrives(r) \/ Fails(r)

Spec == Init /\ [][Next]_vars

-----------------------------------------------------------------------------
(* What is shown. *)

filteredGroups == IF query THEN groups \cap Filtered ELSE groups

\* The line under the list.
visibleStart == IF total = 0 THEN 0 ELSE offset + 1
visibleEnd == IF offset + Cardinality(groups) < total THEN offset + Cardinality(groups) ELSE total

\* The list, or what is said in its place.
Shown ==
  CASE loading -> "loading"
    [] ~loading /\ groups = {} -> "no groups"
    [] ~loading /\ groups # {} /\ filteredGroups = {} -> "none fits"
    [] OTHER -> "groups"

TypeOK ==
  /\ {library, total, offset} \subseteq 0..Groups
  /\ groups \subseteq 1..Groups
  /\ {loading, query} \subseteq BOOLEAN
  /\ requests \subseteq [n : 1..MaxRequests, offset : 0..Groups]

\* The numbers under the list are those of the groups in it, whatever failed, was overtaken or
\* changed while a page was asked for: turning pages skips no group of an unchanged library.
\* That there are no groups is said only when there were none, or no such page any more.
RangeIsOfTheRows ==
  /\ groups # {} => groups = visibleStart..visibleEnd
  /\ Shown = "no groups" => offset >= total

\* The page says that it is loading only while something has been asked.
DuplicatesSpinner == loading => requests # {}

=============================================================================

--------------------------- MODULE RegisteredFiles ---------------------------
(***************************************************************************)
(* The registered documents of the settings page                           *)
(* (frontend/src/components/FileManager.tsx and                            *)
(* file-manager/RegisteredFilesSection.tsx): a paged list with a search    *)
(* and the removal of registrations the user selected.  A removal deletes  *)
(* its targets one by one, then asks for the list anew; the Enter key of   *)
(* the confirmation works with the list of the moment the dialog opened,   *)
(* its button with the list that is shown.  The dialogs cover the page but *)
(* do not hold the keyboard.  Documents are counted: which of the rows are *)
(* selected is left to the user.                                           *)
(***************************************************************************)
EXTENDS Naturals, FiniteSets

CONSTANTS
  MaxFiles,          \* bound: documents of the library
  Queries, NoQuery,  \* a query of the search field finds one document, if there is one
  PageSize,          \* REGISTERED_FILE_PAGE_SIZE
  MaxFetches,        \* bound: requests for the list that are not settled
  MaxRemovals        \* bound: removals under way

VARIABLES
  library,           \* the server: how many documents are registered
  shown,             \* the answer that is shown: its rows, its total, and what was asked for
  fileOffset, fileQuery,
  loading,
  fetches,           \* slot -> a request for the list
  confirm,           \* confirmDeleteFiles, and the list of the moment the dialog opened
  confirmAll,        \* confirmClearAllFilesOpen
  deleting,          \* deletingFiles
  removals,          \* slot -> handleDeleteFiles or handleClearAllFiles under way
  failed             \* history: the last settled request for the list failed

list == <<shown, fileOffset, fileQuery, loading, failed>>
dialogs == <<confirm, confirmAll>>
work == <<deleting, removals>>
vars == <<library, list, fetches, dialogs, work>>

Less(a, b) == IF a < b THEN b - a ELSE 0        \* Math.max(0, b - a)
Least(a, b) == IF a < b THEN a ELSE b

\* The server's list_files_page.
PageOf(offset, q) ==
  LET all == IF q = NoQuery THEN library ELSE Least(1, library) IN
    [rows |-> Least(PageSize, Less(offset, all)), total |-> all, offset |-> offset, query |-> q]

NoPage == [rows |-> 0, total |-> 0, offset |-> 0, query |-> NoQuery]
NoFetch == [asked |-> FALSE, by |-> 0, offset |-> 0, query |-> NoQuery]
NoRemoval == [stage |-> "none", todo |-> 0, done |-> 0, rows |-> 0, offset |-> 0, query |-> NoQuery]
Closed == [targets |-> 0, rows |-> 0, offset |-> 0, query |-> NoQuery]

Asked == {i \in DOMAIN fetches : fetches[i].asked}
Removing == {i \in DOMAIN removals : removals[i].stage # "none"}
FirstOf(S) == CHOOSE i \in S : \A j \in S : i <= j

\* What a closure of this rendering sees of the list.
Rendering(targets) ==
  [targets |-> targets, rows |-> shown.rows, offset |-> fileOffset, query |-> fileQuery]

\* fetchFiles up to its await; by is the removal that waits for it, 0 for none.
FetchBy(by, offset, q) ==
  /\ Asked # DOMAIN fetches
  /\ fetches' = [fetches EXCEPT ![FirstOf(DOMAIN fetches \ Asked)] =
       [asked |-> TRUE, by |-> by, offset |-> offset, query |-> q]]
  /\ loading' = TRUE

Fetch(offset, q) == FetchBy(0, offset, q)

\* The mount effect asks for the first page.
Init ==
  /\ library \in 0..MaxFiles
  /\ shown = NoPage /\ fileOffset = 0 /\ fileQuery = NoQuery /\ failed = FALSE
  /\ fetches = [i \in 1..MaxFetches |-> [NoFetch EXCEPT !.asked = (i = 1)]]
  /\ loading = TRUE
  /\ confirm = Closed /\ confirmAll = FALSE
  /\ deleting = FALSE /\ removals = [i \in 1..MaxRemovals |-> NoRemoval]

\* The effects on completionKey and libraryDataRevision: a rescan has registered documents
\* or removed some.
LibraryChanged ==
  /\ library' \in {0, MaxFiles} \ {library}
  /\ Fetch(0, fileQuery)
  /\ UNCHANGED <<shown, fileOffset, fileQuery, failed, dialogs, work>>

\* handleFileSearch (Enter works while the list is loading) and clearFileSearch.
Search(q) ==
  /\ fileOffset' = 0
  /\ Fetch(0, q)
  /\ UNCHANGED <<library, shown, fileQuery, failed, dialogs, work>>

Refresh ==
  /\ ~loading /\ ~deleting
  /\ Fetch(fileOffset, fileQuery)
  /\ UNCHANGED <<library, shown, fileOffset, fileQuery, failed, dialogs, work>>

\* The footer is there when there is more than one page.
Footer == shown.total > PageSize /\ ~loading

\* goToFilePage
GoToPage(offset) ==
  /\ Footer
  /\ \/ fileOffset > 0 /\ offset = Less(PageSize, fileOffset)
     \/ fileOffset + shown.rows < shown.total /\ offset = fileOffset + PageSize
  /\ fileOffset' = offset
  /\ Fetch(offset, fileQuery)
  /\ UNCHANGED <<library, shown, fileQuery, failed, dialogs, work>>

\* While the list is loading its rows are not on the page; the button of a row asks for that
\* row alone.
RowButton == ~loading /\ ~deleting /\ shown.rows # 0 /\ confirm' = Rendering(1)

\* openDeleteConfirm: the button of a row or of the selection, or the Delete key, which waits
\* for nothing.  A selection may hold documents of other pages; only those that are shown
\* become targets.
AskToDelete ==
  /\ RowButton \/ \E targets \in 1..shown.rows : confirm' = Rendering(targets)
  /\ UNCHANGED <<library, list, fetches, confirmAll, work>>

AskToClear ==
  /\ shown.total # 0 /\ ~loading /\ ~deleting
  /\ confirmAll' = TRUE
  /\ UNCHANGED <<library, list, fetches, confirm, work>>

\* Escape and the backdrop close a dialog whatever is under way.
CloseDialog ==
  /\ \/ confirm # Closed /\ confirm' = Closed /\ UNCHANGED confirmAll
     \/ confirmAll /\ confirmAll' = FALSE /\ UNCHANGED confirm
  /\ UNCHANGED <<library, list, fetches, work>>

\* handleDeleteFiles up to its first await, with the closure c.
StartRemoval(c) ==
  /\ c.targets # 0 /\ Removing # DOMAIN removals
  /\ deleting' = TRUE
  /\ removals' = [removals EXCEPT ![FirstOf(DOMAIN removals \ Removing)] =
       [stage |-> "files", todo |-> c.targets, done |-> 0,
        rows |-> c.rows, offset |-> c.offset, query |-> c.query]]
  /\ UNCHANGED <<library, list, fetches, dialogs>>

\* The Enter key is not held back while a removal is under way; the dialog's button is.
PressEnter == StartRemoval(confirm)
PressDelete == ~deleting /\ StartRemoval(Rendering(confirm.targets))

\* The next target: the server removes it, or has it no more, or the call fails.
DeleteNext(i) ==
  /\ removals[i].stage = "files" /\ removals[i].todo # 0
  /\ \/ /\ library # 0
        /\ library' = library - 1
        /\ removals' = [removals EXCEPT ![i].todo = @ - 1, ![i].done = @ + 1]
     \/ /\ removals' = [removals EXCEPT ![i].todo = @ - 1]
        /\ UNCHANGED library
  /\ UNCHANGED <<list, fetches, dialogs, deleting>>

\* A removal that empties a page goes back to the one before.
NextOffset(r) == IF r.rows <= r.done THEN Less(PageSize, r.offset) ELSE r.offset

\* All targets are settled: the list is asked for.
DeletedAll(i) ==
  /\ removals[i].stage = "files" /\ removals[i].todo = 0
  /\ removals' = [removals EXCEPT ![i] = [NoRemoval EXCEPT !.stage = "list"]]
  /\ FetchBy(i, NextOffset(removals[i]), removals[i].query)
  /\ UNCHANGED <<library, shown, fileOffset, fileQuery, failed, dialogs, deleting>>

\* The button of its dialog waits for a removal that is under way.
ClearButton == confirmAll /\ ~deleting

ClearAll ==
  /\ ClearButton /\ Removing # DOMAIN removals
  /\ deleting' = TRUE
  /\ removals' = [removals EXCEPT ![FirstOf(DOMAIN removals \ Removing)] =
       [NoRemoval EXCEPT !.stage = "all"]]
  /\ UNCHANGED <<library, list, fetches, dialogs>>

Cleared(i) ==
  /\ removals[i].stage = "all"
  /\ library' = 0
  /\ fileOffset' = 0 /\ fileQuery' = NoQuery
  /\ removals' = [removals EXCEPT ![i].stage = "listAll"]
  /\ FetchBy(i, 0, NoQuery)
  /\ UNCHANGED <<shown, failed, dialogs, deleting>>

\* The finally of a removal.
Finish(i) ==
  /\ removals' = [removals EXCEPT ![i] = NoRemoval]
  /\ deleting' = FALSE
  /\ IF removals[i].stage \in {"all", "listAll"}
     THEN confirmAll' = FALSE /\ UNCHANGED confirm
     ELSE confirm' = Closed /\ UNCHANGED confirmAll

ClearFails(i) ==
  /\ removals[i].stage = "all"
  /\ Finish(i)
  /\ UNCHANGED <<library, list, fetches>>

\* The promise of fetchFiles is settled: a removal that waits for it ends.
Settle(i) ==
  /\ i \in Asked
  /\ fetches' = [fetches EXCEPT ![i] = NoFetch]
  /\ loading' = FALSE
  /\ IF fetches[i].by = 0 THEN UNCHANGED <<dialogs, work>> ELSE Finish(fetches[i].by)
  /\ UNCHANGED library

\* Mutant: the offset of the answer is not taken over.
KeepsOffset(answer) == UNCHANGED fileOffset /\ fileQuery' = answer.query

TakeHeader(answer) == fileOffset' = answer.offset /\ fileQuery' = answer.query

Arrives(i) ==
  /\ Settle(i)
  /\ shown' = PageOf(fetches[i].offset, fetches[i].query)
  /\ TakeHeader(fetches[i])
  /\ failed' = FALSE

Fails(i) ==
  /\ Settle(i)
  /\ failed' = TRUE
  /\ UNCHANGED <<shown, fileOffset, fileQuery>>

User ==
  \/ \E q \in Queries : Search(q)
  \/ \E offset \in 0..MaxFiles : GoToPage(offset)
  \/ Refresh \/ AskToDelete \/ AskToClear \/ CloseDialog
  \/ PressEnter \/ PressDelete \/ ClearAll

Server ==
  \/ LibraryChanged
  \/ \E i \in DOMAIN removals : DeleteNext(i) \/ DeletedAll(i) \/ Cleared(i) \/ ClearFails(i)
  \/ \E i \in DOMAIN fetches : Arrives(i) \/ Fails(i)

Next == User \/ Server

Spec == Init /\ [][Next]_vars

-----------------------------------------------------------------------------

Counts == 0..MaxFiles

TypeOK ==
  /\ library \in Counts
  /\ shown \in [rows : 0..PageSize, total : Counts, offset : Counts, query : Queries]
  /\ fileOffset \in Counts /\ fileQuery \in Queries
  /\ \A i \in DOMAIN fetches : fetches[i] \in
       [asked : BOOLEAN, by : 0..MaxRemovals, offset : Counts, query : Queries]
  /\ \A i \in DOMAIN removals : {removals[i].todo, removals[i].done} \subseteq 0..PageSize
  /\ confirm.targets \in 0..PageSize
  /\ {loading, confirmAll, deleting, failed} \subseteq BOOLEAN

\* The heading of the list (which rows of how many, for which search) is that of the rows
\* under it once no request is under way, unless the last one failed: paging forward from it
\* skips no document, whatever removals, searches and refreshes overlapped.
HeaderMatchesRows ==
  Asked = {} /\ ~failed => fileOffset = shown.offset /\ fileQuery = shown.query

\* The list says that it is loading, and the buttons that a removal is under way, only while
\* that is so.
ListSpinner == (loading => Asked # {}) /\ (deleting => Removing # {})

=============================================================================

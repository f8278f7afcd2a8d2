---------------------------- MODULE ManualCompare ----------------------------
(***************************************************************************)
(* Choosing files by hand for a comparison, in a card of the history page  *)
(* (frontend/src/components/ConsistencyCheck.tsx): a paged list of the     *)
(* Office files, the selection, and the comparison of what is selected.    *)
(* The page knows only the files it has seen in an answer that it still    *)
(* holds: a selected file of another page stays selected and is not known. *)
(* All files of the library can be compared; the search field is the       *)
(* query, and opening the card is left out.                                *)
(***************************************************************************)
EXTENDS Naturals, FiniteSets, Sequences, Functions, Filtering

CONSTANTS
  Files,             \* the files in the order of the list
  Modes, Pairwise,   \* compare mode of each file; the modes that take exactly two files
  None,
  Queries, Found,    \* the files that each query finds
  Members, Listed,   \* a group of the page above: its files, and those its card names
  PageSize,          \* CHECK_FILE_PAGE_SIZE
  MaxFetches,        \* bound: requests for the list that are not answered
  MaxChanges         \* bound: files that leave the library

VARIABLES
  library,           \* the server: the files that are registered
  files, fileTotal, fileOffset, fileQuery, filesLoading,
  fetches,           \* the requests for the list that are not answered
  opened, detail,    \* activeGroupDetail, groupDetailFiles
  selected,          \* selectedIds, in the order of selection
  running,           \* the files of the comparison under way, or <<>>
  result,            \* the files of the comparison that is shown, or <<>>
  touched            \* history: the selection changed while the comparison ran

list == <<files, fileTotal, fileOffset, fileQuery, filesLoading, fetches>>
choice == <<selected, running, result, touched>>
group == <<opened, detail>>
vars == <<library, list, group, choice>>

-----------------------------------------------------------------------------
knownFilesById ==
  Range(files) \cup detail \cup (IF opened THEN Members ELSE {}) \cup Listed
Known(ids) == Filtered(ids, {i \in DOMAIN ids : ids[i] \in knownFilesById})
selectedFiles == Known(selected)
selectedMode == IF selectedFiles = <<>> THEN None ELSE Modes[selectedFiles[1]]
loading == running # <<>>

\* validateFilesForCheck
validateFilesForCheck(candidates) ==
  /\ Len(candidates) >= 2
  /\ Cardinality({Modes[f] : f \in Range(candidates)}) = 1
  /\ Modes[candidates[1]] \in Pairwise => Len(candidates) = 2

\* The server's page of the files a query finds.
Page(offset, q) ==
  LET all == Filtered(Files, {i \in DOMAIN Files : Files[i] \in library \cap Found[q]}) IN
    [items |-> SubSeq(all, offset + 1,
                      IF offset + PageSize < Len(all) THEN offset + PageSize ELSE Len(all)),
     total |-> Len(all)]

\* fetchFiles
fetchFiles(offset, q) ==
  /\ Len(fetches) < MaxFetches
  /\ filesLoading' = TRUE /\ fetches' = Append(fetches, [offset |-> offset, query |-> q])
  /\ UNCHANGED <<files, fileTotal, fileQuery>>

\* The requests that are not answered when the i-th has been.
Unanswered(i) == SubSeq(fetches, 1, i - 1) \o SubSeq(fetches, i + 1, Len(fetches))

-----------------------------------------------------------------------------
Init ==
  /\ library = Range(Files)
  /\ files = <<>> /\ fileTotal = 0 /\ fileOffset = 0 /\ filesLoading = TRUE
  /\ \E q \in Queries :
       Found[q] = Range(Files) /\ fileQuery = q /\ fetches = <<[offset |-> 0, query |-> q]>>
  /\ opened = FALSE /\ detail = {}
  /\ selected = <<>> /\ running = <<>> /\ result = <<>> /\ touched = FALSE

\* handleFileSearch, clearFileSearch: the key starts one while the list is loading, too.
Search(q) ==
  /\ fileOffset' = 0 /\ fetchFiles(0, q) /\ UNCHANGED <<library, group, choice>>

\* The page buttons are there when there is more than one page.
PageButtons == fileTotal > PageSize /\ ~filesLoading

\* goToFilePage, from the buttons of the neighbouring pages
GoToPage(offset) ==
  /\ PageButtons
  /\ \/ offset = fileOffset + PageSize /\ fileOffset + Len(files) < fileTotal
     \/ fileOffset > 0 /\ offset = IF fileOffset < PageSize THEN 0 ELSE fileOffset - PageSize
  /\ fileOffset' = offset /\ fetchFiles(offset, fileQuery)
  /\ UNCHANGED <<library, group, choice>>

\* Every answer is taken, in whatever order they come.
FilesArrive(i) ==
  /\ LET page == Page(fetches[i].offset, fetches[i].query) IN
       /\ files' = page.items /\ fileTotal' = page.total
       /\ fileOffset' = fetches[i].offset /\ fileQuery' = fetches[i].query
  /\ filesLoading' = FALSE /\ fetches' = Unanswered(i)
  /\ UNCHANGED <<library, group, choice>>

\* The failure says nothing; the offset that was asked for stays.
FilesFail(i) ==
  /\ filesLoading' = FALSE /\ fetches' = Unanswered(i)
  /\ UNCHANGED <<library, files, fileTotal, fileOffset, fileQuery, group, choice>>

\* A group is opened in the list above, or closed.
OpenGroup ==
  /\ ~opened /\ opened' = TRUE /\ detail' = Members /\ UNCHANGED <<library, list, choice>>
CloseGroup ==
  /\ opened /\ opened' = FALSE /\ detail' = {} /\ UNCHANGED <<library, list, choice>>

\* Mutant: taking a file out of the selection leaves the result.
KeepsResult(next) ==
  /\ selected' = next /\ touched' = (touched \/ loading) /\ UNCHANGED <<running, result>>

\* Any change of the selection clears the result that is shown.
Reselect(next) ==
  /\ selected' = next /\ result' = <<>> /\ touched' = (touched \/ loading)
  /\ UNCHANGED running

\* Mutant: a selected file is selected once more.
SelectAgain(f) ==
  /\ ~filesLoading /\ f \in Range(files)
  /\ selectedMode = None \/ Modes[f] = selectedMode
  /\ Reselect(Append(selected, f))
  /\ UNCHANGED <<library, list, group>>

\* The check box of a file: it is there unless the list is loading, and judges by the first of
\* the selected files that are known.
BoxEnabled(f) ==
  /\ ~filesLoading /\ f \in Range(files)
  /\ f \notin Range(selected) =>
       /\ selectedMode \in {None, Modes[f]}
       /\ selectedMode \in Pairwise => Len(selected) < 2

\* toggleFile
Toggle(f) ==
  /\ BoxEnabled(f)
  /\ IF f \in Range(selected)
     THEN Reselect(Filtered(selected, {i \in DOMAIN selected : selected[i] # f}))
     ELSE /\ selectedMode = None \/ Modes[f] = selectedMode
          /\ Modes[f] \in Pairwise => Len(selected) < 2
          /\ Reselect(Append(selected, f))
  /\ UNCHANGED <<library, list, group>>

\* handleCheck, runCheckForFiles: what is not known leaves the selection.
Check ==
  /\ ~loading /\ Len(selectedFiles) >= 2 /\ validateFilesForCheck(selectedFiles)
  /\ selected' = selectedFiles /\ detail' = Range(selectedFiles)
  /\ running' = selectedFiles /\ result' = <<>> /\ touched' = FALSE
  /\ UNCHANGED <<library, list, opened>>

ResultArrives ==
  /\ loading /\ result' = running /\ running' = <<>>
  /\ UNCHANGED <<library, list, group, selected, touched>>

CheckFails ==
  /\ loading /\ running' = <<>>
  /\ UNCHANGED <<library, list, group, selected, result, touched>>

\* A file leaves the library, and the page is told (libraryDataRevision).  The group is
\* closed and nothing is selected; the result stays.
LibraryChanges ==
  /\ Cardinality(Range(Files) \ library) < MaxChanges
  /\ library' \in {library \ {f} : f \in library}
  /\ selected' = <<>> /\ opened' = FALSE /\ touched' = (touched \/ loading)
  /\ fetchFiles(0, fileQuery)
  /\ UNCHANGED <<fileOffset, detail, running, result>>

Next ==
  \/ \E q \in Queries : Search(q)
  \/ \E offset \in {n * PageSize : n \in 0..Len(Files)} : GoToPage(offset)
  \/ \E i \in DOMAIN fetches : FilesArrive(i) \/ FilesFail(i)
  \/ OpenGroup \/ CloseGroup
  \/ \E f \in Range(Files) : Toggle(f)
  \/ Check \/ ResultArrives \/ CheckFails \/ LibraryChanges

Spec == Init /\ [][Next]_vars

-----------------------------------------------------------------------------
TypeOK ==
  /\ library \subseteq Range(Files) /\ Range(files) \subseteq Range(Files)
  /\ fileTotal \in 0..Len(Files) /\ fileOffset \in Nat /\ fileQuery \in Queries
  /\ filesLoading \in BOOLEAN /\ opened \in BOOLEAN /\ Len(fetches) <= MaxFetches
  /\ detail \subseteq Range(Files) /\ touched \in BOOLEAN
  /\ \A s \in {selected, running, result} : IsInjective(s) /\ Range(s) \subseteq Range(Files)

\* Only files that can be compared are compared, although the check boxes judge by the files
\* the page knows and let a selection mix types over several pages.
ComparedFit ==
  loading =>
    /\ Cardinality({Modes[f] : f \in Range(running)}) = 1
    /\ Modes[running[1]] \in Pairwise => Len(running) = 2

\* ManualCompareResultPanel: a comparison that runs covers the result.
ResultOnScreen == IF loading THEN <<>> ELSE result

\* A result is shown for the files that are selected, unless the selection was changed while
\* the comparison ran or the library changed after it.
ResultFitsSelection ==
  ResultOnScreen # <<>> /\ selected # <<>> /\ ~touched => ResultOnScreen = selected

=============================================================================

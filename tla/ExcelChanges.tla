---------------------------- MODULE ExcelChanges ----------------------------
(***************************************************************************)
(* The changed cells of an Excel group: the comparison of two of its files *)
(* (backend/core/excel_compare.py), the list of changes that the page      *)
(* makes of it (frontend/src/api/client.ts, consistency/excelResult.tsx),  *)
(* the sheets that are built around them (backend/core/excel_diff_grid.py) *)
(* and the window that shows them.  A group has three files, 1 the newest. *)
(* A small sheet is shown as a whole and compared once more cell by cell;  *)
(* of a large one only sections around the listed changes are shown.  The  *)
(* files do not change meanwhile and all of them have every sheet; the     *)
(* margin of empty rows and columns is left out.                           *)
(***************************************************************************)
EXTENDS Naturals, FiniteSets, Sequences, Functions

CONSTANTS
  Sheets,         \* the sheets in the order of the workbook
  Rows, Columns,  \* the used range of each sheet
  Courses, Same,  \* contents of a cell in files 1, 2, 3; that of the cells that never change
  Empty,          \* the content of an empty cell
  Names,          \* names of files 1, 2, 3: those of a group may be the same
  MaxChanges,     \* bound: cells that change
  MaxCalls,       \* bound: sheets asked for and not answered
  IssueLimit,     \* EXCEL_VERSION_CELL_ISSUE_LIMIT
  FullLimit,      \* FULL_GRID_CELL_LIMIT
  TopLeftLimit,   \* TOP_LEFT_CELL_LIMIT
  Buffer, Gap,    \* LOCAL_ROW_BUFFER, CLUSTER_ROW_GAP and those of the columns
  MaxSections, MaxSheets  \* MAX_SECTIONS, for the sections of a sheet and for the sheets

VARIABLES
  book,    \* contents of every cell in the three files
  pair,    \* the compared files, or NoPair
  issues,  \* the result of the comparison
  calls,   \* the pairs whose sheets were asked for and have not come yet
  modal    \* excelGridModal and the state of its window

vars == <<book, pair, issues, calls, modal>>

Files == 1..3
Cells == UNION {{s} \X (1..Rows[s]) \X (1..Columns[s]) : s \in Range(Sheets)}
Place(s) == CHOOSE i \in DOMAIN Sheets : Sheets[i] = s
Before(c, d) ==
  \/ Place(c[1]) < Place(d[1])
  \/ c[1] = d[1] /\ (c[2] < d[2] \/ (c[2] = d[2] /\ c[3] < d[3]))

NoPair == [from |-> 0, to |-> 0]
NoGrid == [sections |-> <<>>, histories |-> <<>>, colours |-> <<>>, omitted |-> 0]
NoCell == [cell |-> <<>>, histories |-> {}]
Closed ==
  [at |-> "closed", of |-> NoPair, grid |-> NoGrid, sheet |-> Empty, opened |-> NoCell]

\* Cells in the order of the sheets, row by row.
Sorted(S) ==
  LET rank == [c \in S |-> Cardinality({d \in S : Before(d, c)})]
  IN  [n \in 1..Cardinality(S) |-> CHOOSE c \in S : rank[c] = n - 1]

\* Of two files, with the contents b.
Differs(b, c, from, to) == b[c][from] # b[c][to]

\* _version_cell_issue_type, _diff_change_type
Kind(before, after) ==
  IF before = Empty THEN "added" ELSE IF after = Empty THEN "removed" ELSE "changed"

-----------------------------------------------------------------------------
\* An empty content has a label of its own in the result, and none in the window.
EmptyLabel == "(empty)"
Label(v) == IF v = Empty THEN EmptyLabel ELSE v
displayExcelGridValue(v) == IF v = EmptyLabel THEN Empty ELSE v

History(b, c, from, to) ==
  [from |-> from, to |-> to, kind |-> Kind(b[c][from], b[c][to]),
   before |-> b[c][from], after |-> b[c][to]]
Labelled(h) == [h EXCEPT !.before = Label(@), !.after = Label(@)]

\* compare_excel_versions_by_cells, normalizeExcelIssues, buildExcelGridFocuses: the first
\* changed cells of the first sheet, row by row, then those of the next one.
Issues(b, from, to) ==
  LET changed == Sorted({c \in Cells : Differs(b, c, from, to)}) IN
    {[cell |-> changed[i], history |-> Labelled(History(b, changed[i], from, to))] :
       i \in {j \in DOMAIN changed : j <= IssueLimit}}

-----------------------------------------------------------------------------
\* The sheets around the changes.  A range is a record of its first and last rows and columns.
Least(S) == CHOOSE x \in S : \A y \in S : x <= y
Greatest(S) == CHOOSE x \in S : \A y \in S : y <= x
Point(c) == [top |-> c[2], bottom |-> c[2], left |-> c[3], right |-> c[3]]
Hull(x, y) ==
  [top |-> Least({x.top, y.top}), bottom |-> Greatest({x.bottom, y.bottom}),
   left |-> Least({x.left, y.left}), right |-> Greatest({x.right, y.right})]
Widened(r, s) ==
  [top |-> Greatest({1, r.top - Buffer}), bottom |-> Least({Rows[s], r.bottom + Buffer}),
   left |-> Greatest({1, r.left - Buffer}), right |-> Least({Columns[s], r.right + Buffer})]
Near(x, y, gap) ==
  /\ y.top <= x.bottom + gap /\ x.top <= y.bottom + gap
  /\ y.left <= x.right + gap /\ x.left <= y.right + gap
Size(r) == (r.bottom - r.top + 1) * (r.right - r.left + 1)
Whole(s) == [top |-> 1, bottom |-> Rows[s], left |-> 1, right |-> Columns[s]]

\* The places of the ranges that are near another one.
NearTo(ranges, r, gap) == {i \in DOMAIN ranges : Near(ranges[i], r, gap)}

\* Mutant: the first range that is near stands for the other without growing.
DropIn(ranges, r, gap) ==
  IF NearTo(ranges, r, gap) = {} THEN Append(ranges, r) ELSE ranges

\* _cluster_positions, _merge_ranges: the first range that is near grows.
Absorb(ranges, r, gap) ==
  LET near == NearTo(ranges, r, gap) IN
    IF near = {} THEN Append(ranges, r) ELSE [ranges EXCEPT ![Least(near)] = Hull(@, r)]

\* One after the other, each range is absorbed by those before it.
Gathered(ranges, gap) ==
  LET upto[n \in 0..Len(ranges)] == IF n = 0 THEN <<>> ELSE Absorb(upto[n - 1], ranges[n], gap)
  IN  upto[Len(ranges)]

Full(s) == Size(Whole(s)) <= FullLimit

\* _choose_ranges, without the limit on their number.
Ranges(s, cells) ==
  LET sorted == Sorted(cells)
      points == [i \in DOMAIN sorted |-> Point(sorted[i])]
      \* the corner that reaches the last row and the last column of a change
      corner == Widened([top |-> 1, bottom |-> Greatest({c[2] : c \in cells}),
                         left |-> 1, right |-> Greatest({c[3] : c \in cells})], s)
      clusters == Gathered(points, Gap)
  IN IF Full(s) THEN <<Whole(s)>>
     ELSE IF cells = {} THEN <<Whole(s)>>   \* NO_FOCUS_ROW_LIMIT is beyond the bounds
     ELSE IF Size(corner) <= TopLeftLimit THEN <<corner>>
     ELSE Gathered([i \in DOMAIN clusters |-> Widened(clusters[i], s)], 0)

\* resolve_focus_position: the index 0 of the first column counts as not found.
Located(focuses) == {f \in focuses : f.cell[3] # 1}

\* Histories of the cells of one sheet: what was asked for, and in a small sheet the differences
\* between neighbouring files, from the newest on, whose label is not there yet.
SheetHistories(b, s, focuses) ==
  LET NewTo(known, c, i) ==
        /\ Differs(b, c, i + 1, i)
        /\ \A h \in known : Names[h.from] # Names[i + 1] \/ Names[h.to] # Names[i]
      Extend(known, c, i) ==
        IF NewTo(known, c, i) THEN known \cup {History(b, c, i + 1, i)} ELSE known
  IN [c \in {d \in Cells : d[1] = s} |->
        LET asked == {f.history : f \in {g \in Located(focuses) : g.cell = c}} IN
          IF Full(s) THEN Extend(Extend(asked, c, 1), c, 2) ELSE asked]

\* set_latest_highlight: only the change of the newest pair has a colour, whatever is written
\* beside the cell.
Colour(b, c, histories) ==
  IF Full(c[1]) /\ Differs(b, c, 2, 1) THEN Kind(b[c][2], b[c][1])
  ELSE IF \E h \in histories : h.from = 2 /\ h.to = 1
  THEN (CHOOSE h \in histories : h.from = 2 /\ h.to = 1).kind ELSE "none"

\* The first column is shown with every section.
SheetSections(s, histories) ==
  LET ranges == Ranges(s, {c \in DOMAIN histories : histories[c] # {}})
      kept == SubSeq(ranges, 1, Least({Len(ranges), MaxSections}))
  IN [i \in DOMAIN kept |->
        [sheet |-> s, partial |-> ~Full(s),
         cells |-> {s} \X (kept[i].top..kept[i].bottom)
                       \X ({1} \cup kept[i].left..kept[i].right)]]

\* The places of the sheets with changes, and of those that are shown: the first ones, and the
\* first of all when there are no changes.
Named(focuses) == {n \in DOMAIN Sheets : \E f \in focuses : f.cell[1] = Sheets[n]}
Tried(focuses) ==
  LET named == Named(focuses) IN
    IF named = {} THEN {1} ELSE {n \in named : Cardinality({m \in named : m < n}) < MaxSheets}

\* The sections of the sheets that are shown, one sheet after the other.
SectionsOf(b, focuses) ==
  LET sections(n) ==
        IF n \in Tried(focuses)
        THEN SheetSections(Sheets[n], SheetHistories(b, Sheets[n], focuses)) ELSE <<>>
      upto[n \in 0..Len(Sheets)] == IF n = 0 THEN <<>> ELSE upto[n - 1] \o sections(n)
  IN  upto[Len(Sheets)]

\* build_excel_diff_grid: of the sheets beyond the limit each counts as one change that is not
\* shown.
Grid(b, focuses) ==
  LET sheets == {Sheets[n] : n \in Tried(focuses)}
      inside == {f \in focuses : f.cell[1] \in sheets}
      found == [c \in {d \in Cells : d[1] \in sheets} |-> SheetHistories(b, c[1], focuses)[c]]
  IN [sections |-> SectionsOf(b, focuses),
      histories |-> found,
      colours |-> [c \in DOMAIN found |-> Colour(b, c, found[c])],
      omitted |-> Cardinality(inside \ Located(inside))
                    + Cardinality(Named(focuses) \ Tried(focuses))]

-----------------------------------------------------------------------------
Init ==
  /\ \E D \in SUBSET Cells :
       /\ Cardinality(D) <= MaxChanges
       /\ \E f \in [D -> Courses] : book = [c \in Cells |-> IF c \in D THEN f[c] ELSE Same]
  /\ pair = NoPair /\ issues = {} /\ calls = <<>> /\ modal = Closed

\* The page compares an older file with a newer one.
Compare(from, to) ==
  /\ modal = Closed /\ to < from
  /\ pair' = [from |-> from, to |-> to] /\ issues' = Issues(book, from, to)
  /\ UNCHANGED <<book, calls, modal>>

\* openExcelGrid
OpenGrid ==
  /\ modal = Closed /\ pair # NoPair /\ Len(calls) < MaxCalls
  /\ calls' = Append(calls, pair) /\ modal' = [Closed EXCEPT !.at = "loading"]
  /\ UNCHANGED <<book, pair, issues>>

\* The calls that are not answered when the i-th has been.
Unanswered(i) == SubSeq(calls, 1, i - 1) \o SubSeq(calls, i + 1, Len(calls))

SheetNames(grid) == {grid.sections[i].sheet : i \in DOMAIN grid.sections}
ShownCells(grid) == UNION {x.cells : x \in Range(grid.sections)}
visibleSections == {x \in Range(modal.grid.sections) : x.sheet = modal.sheet}

\* The window has a spinner, an error, or the sections of the chosen sheet.
CellsOnScreen == IF modal.at = "shown" THEN UNION {x.cells : x \in visibleSections} ELSE {}

\* An answer is shown, whether its window is open, was closed or is that of a later call.  The
\* effect of the window keeps the chosen sheet and its opened cell, or chooses the first sheet.
GridArrives(i) ==
  /\ LET of == calls[i]
         grid == Grid(book, Issues(book, of.from, of.to))
         kept == modal.sheet \in SheetNames(grid)
     IN modal' = [at |-> "shown", of |-> of, grid |-> grid,
                  sheet |-> IF kept THEN modal.sheet ELSE grid.sections[1].sheet,
                  opened |-> IF kept THEN modal.opened ELSE NoCell]
  /\ calls' = Unanswered(i)
  /\ UNCHANGED <<book, pair, issues>>

GridFails(i) ==
  /\ modal' = [Closed EXCEPT !.at = "failed"] /\ calls' = Unanswered(i)
  /\ UNCHANGED <<book, pair, issues>>

SelectSheet(s) ==
  /\ modal.at = "shown" /\ s \in SheetNames(modal.grid) \ {modal.sheet}
  /\ modal' = [modal EXCEPT !.sheet = s, !.opened = NoCell]
  /\ UNCHANGED <<book, pair, issues, calls>>

\* The user opens a cell that has changes; the others have none to show.
SelectCell(c) ==
  /\ c \in CellsOnScreen
  /\ modal.grid.histories[c] # {} /\ modal.opened.cell # c
  /\ modal' = [modal EXCEPT !.opened = [cell |-> c, histories |-> modal.grid.histories[c]]]
  /\ UNCHANGED <<book, pair, issues, calls>>

\* Nothing recalls the call of a window that is closed.
CloseGrid == modal # Closed /\ modal' = Closed /\ UNCHANGED <<book, pair, issues, calls>>

Next ==
  \/ \E from, to \in Files : Compare(from, to)
  \/ OpenGrid \/ CloseGrid
  \/ \E i \in DOMAIN calls : GridArrives(i) \/ GridFails(i)
  \/ \E s \in Range(Sheets) : SelectSheet(s)
  \/ \E c \in Cells : SelectCell(c)

Spec == Init /\ [][Next]_vars

-----------------------------------------------------------------------------
TypeOK ==
  /\ book \in [Cells -> Courses \cup {Same}]
  /\ pair = NoPair \/ (pair.from \in Files /\ pair.to \in Files)
  /\ \A f \in issues : f.cell \in Cells
  /\ Len(calls) <= MaxCalls /\ \A of \in Range(calls) : of.from \in Files /\ of.to \in Files
  /\ modal.at \in {"closed", "loading", "failed", "shown"}
  /\ modal.sheet \in Range(Sheets) \cup {Empty}
  /\ modal.opened = NoCell \/ modal.opened.cell[1] = modal.sheet

\* A change that the comparison listed is in the window that was asked for with it, in a sheet
\* that the user can choose and with the contents that the two files have there, or it is
\* counted among those that are not shown: whatever lies in one section, in two, in the corner
\* or in another sheet.  Only the changes of sections beyond the limit may be left out unsaid.
ChangesAreShown ==
  modal.at = "shown" =>
    LET focuses == Issues(book, modal.of.from, modal.of.to)
        Cut(s) ==
          Len(Ranges(s, {f.cell : f \in {g \in Located(focuses) : g.cell[1] = s}})) > MaxSections
        Seen(f) ==
          /\ f.cell \in ShownCells(modal.grid)
          /\ \E h \in modal.grid.histories[f.cell] :
               /\ h.from = modal.of.from /\ h.to = modal.of.to
               /\ displayExcelGridValue(h.before) = book[f.cell][h.from]
               /\ displayExcelGridValue(h.after) = book[f.cell][h.to]
        missed == {f \in focuses : f.cell[1] \in SheetNames(modal.grid) /\ ~Seen(f)}
    IN \/ \E s \in SheetNames(modal.grid) : Cut(s)
       \/ Cardinality(missed) <= modal.grid.omitted

\* What the window writes beside an opened cell.
CellDetail ==
  {[from |-> h.from, to |-> h.to, before |-> displayExcelGridValue(h.before),
    after |-> displayExcelGridValue(h.after)] : h \in modal.opened.histories}

\* A coloured cell differs between the two newest files, as its colour says; in a sheet that is
\* shown as a whole every such difference is coloured, whichever pair was compared.  The
\* history beside an opened cell is that of the files.
ColoursAreTrue ==
  modal.at = "shown" =>
    /\ \A c \in ShownCells(modal.grid) :
         LET colour == modal.grid.colours[c] IN
           /\ colour # "none" => Differs(book, c, 2, 1) /\ colour = Kind(book[c][2], book[c][1])
           /\ Full(c[1]) /\ Differs(book, c, 2, 1) => colour # "none"
    /\ \A h \in CellDetail :
         /\ h.before = book[modal.opened.cell][h.from]
         /\ h.after = book[modal.opened.cell][h.to]

=============================================================================

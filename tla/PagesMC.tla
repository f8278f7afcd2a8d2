------------------------------ MODULE PagesMC -------------------------------
(***************************************************************************)
(* The pages for TLC: the parameters that a configuration cannot write     *)
(* down.                                                                   *)
(***************************************************************************)
EXTENDS Pages, SequencesExt

\* Four documents in a folder and its subfolder, two queries and one filter: more pages of
\* results than the list shows, and a query that is found once.
Documents == <<"d1", "d2", "d3", "d4">>
DocumentFolder == [x \in Range(Documents) |-> IF x = "d2" THEN "f1/old" ELSE "f1"]
DocumentFolders == [x \in Range(Documents) |-> {DocumentFolder[x], "f1"}]
DocumentsFound ==
  [q \in {"plan", "budget"} |->
     [f \in {"all", "some"} |->
        IF q = "budget" THEN {"d3"} ELSE IF f = "all" THEN Range(Documents) ELSE {"d1", "d2"}]]

\* An Excel group of three files and a group that has lost all but one.
GroupMembers == [g \in {"g1", "g2"} |-> IF g = "g1" THEN <<"x", "y", "z">> ELSE <<"w">>]

\* Versions: a release and a prerelease with the same numbers are newer than the installed one.
TagTriple == [t \in {"v1", "v2", "v2-rc"} |-> IF t = "v1" THEN 1 ELSE 2]

\* Two folders, one of them entered with a separator at its end.
NormalPath == [p \in {"f1", "f1/", "f2"} |-> IF p = "f1/" THEN "f1" ELSE p]

\* The profile holds the local storage, and the data of old versions lie beside it.
ProfileHolds ==
  [c \in {"storage", "legacy", "root"} |-> IF c = "root" THEN {"storage", "root"} ELSE {c}]

\* Three sheets, the second of which is too large to be shown as a whole; cells that change in
\* the newest version only, or in both, from nothing to something else.
SheetIds == <<"s1", "s2", "s3">>
SheetRows == [s \in {"s1", "s2", "s3"} |-> IF s = "s2" THEN 4 ELSE 1]
SheetColumns == [s \in {"s1", "s2", "s3"} |-> IF s = "s3" THEN 1 ELSE 2]
Unchanged == <<"x", "x", "x">>
CellCourses == {<<"x", "", "y">>, <<"x", "x", "y">>}
SheetTitles == <<"n", "n", "o">>

\* Word files on both pages of the list to choose from, and an Excel file among them.
FilesToCompare == <<"w1", "x1", "w2", "w3">>
ModeOf == [f \in {"w1", "x1", "w2", "w3"} |-> IF f = "x1" THEN "excel" ELSE "word"]
FilesFound ==
  [q \in {"all", "w2"} |-> IF q = "all" THEN {"w1", "x1", "w2", "w3"} ELSE {"w2"}]

=============================================================================

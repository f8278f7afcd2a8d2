------------------------------ MODULE GroupHistory ------------------------------
(***************************************************************************)
(* An opened group of the comparison page                                  *)
(* (frontend/src/components/ConsistencyCheck.tsx, consistency/             *)
(* GroupTimeline.tsx): its detail, the two files that are compared, the    *)
(* comparison that runs, the file that is pinned as the latest, and the    *)
(* grid of an Excel group.  Everything is asked of the server and its      *)
(* answers come late and in any order.                                     *)
(***************************************************************************)
EXTENDS Naturals, Sequences, FiniteSets, FiniteSetsExt

CONSTANTS
  Groups,
  Members,     \* Members[g]: its files, the most recent first
  ExcelGroups,
  None,
  MaxCalls     \* bound: calls whose promise is not settled

FilesOf(g) == Range(Members[g])
Files == UNION {FilesOf(g) : g \in Groups}
Slot == Files \cup {None}
Pairs == [from : Slot, to : Slot]
NoPair == [from |-> None, to |-> None]

VARIABLES
  active,       \* activeGroupDetail: the group and its pinned file
  selections,   \* compareSelections
  history,      \* historyState: group, pair, status of its transition, loading
  calls,        \* what has been asked and not been answered
  groupBusy,    \* groupLoadingId
  latestBusy,   \* settingLatestFileId and clearingLatestGroupId
  grid,         \* excelGridModal
  pinned        \* the server: the pinned file of a group

busy == <<groupBusy, latestBusy>>
vars == <<active, selections, history, calls, busy, grid, pinned>>

NoDetail == [g |-> None, pin |-> None]
NoHistory == [g |-> None, pair |-> NoPair, status |-> "none", loading |-> FALSE]
NoGrid == [g |-> None, loading |-> FALSE]
NotBusy == [setting |-> None, clearing |-> None]

Call(kind, g, pair, file) ==
  [kind |-> kind, g |-> g, pair |-> pair, file |-> file, current |-> TRUE]

Init ==
  /\ active = NoDetail
  /\ selections = [g \in Groups |-> NoPair]
  /\ history = NoHistory /\ calls = {}
  /\ groupBusy = None /\ latestBusy = NotBusy /\ grid = NoGrid
  /\ pinned = [g \in Groups |-> None]

-----------------------------------------------------------------------------
(* The pair that is compared. *)

\* The files of a detail: the pinned one leads, and those before it move back.
Order(d) ==
  LET files == Members[d.g]
      place == CHOOSE i \in DOMAIN files : files[i] = d.pin
  IN  IF d.pin = None THEN files
      ELSE [i \in DOMAIN files |->
              IF i = 1 THEN d.pin ELSE IF i <= place THEN files[i - 1] ELSE files[i]]

\* The places of the other files.
Others(d, f) == {i \in DOMAIN Order(d) : Order(d)[i] # f}

DefaultPair(d) ==
  [from |-> IF Len(Order(d)) > 1 THEN Order(d)[2] ELSE None, to |-> Order(d)[1]]

\* normalizeCompareSelection: files that left the group fall back to the default, and the two
\* sides differ.
Normalised(d, pair) ==
  LET default == DefaultPair(d)
      from == IF pair.from \in FilesOf(d.g) THEN pair.from ELSE default.from
      to == IF pair.to \in FilesOf(d.g) THEN pair.to ELSE default.to
      alternate == IF Others(d, to) = {} THEN None ELSE Order(d)[Min(Others(d, to))]
  IN  [from |-> IF from # to THEN from ELSE alternate, to |-> to]

\* buildHistoryTransitions: is there anything to compare?
Comparable(pair) == pair.from # None /\ pair.to # None /\ pair.from # pair.to

\* historyRunRef moves on.
OutOfDate(cs) == {IF c.kind = "run" THEN [c EXCEPT !.current = FALSE] ELSE c : c \in cs}

\* runHistoryDiffs up to its await; cs is what stays on its way.
RunHistory(d, requested, cs) ==
  LET pair == Normalised(d, requested)
  IN  /\ selections' = [selections EXCEPT ![d.g] = pair]
      /\ IF Comparable(pair)
         THEN /\ history' = [g |-> d.g, pair |-> pair, status |-> "loading", loading |-> TRUE]
              /\ calls' = OutOfDate(cs) \cup {Call("run", d.g, pair, None)}
         ELSE /\ history' = [g |-> d.g, pair |-> pair, status |-> "none", loading |-> FALSE]
              /\ calls' = OutOfDate(cs)

\* isCurrentRun.
CurrentRun(c) == c.current

\* The answer of a comparison: it belongs to one transition of one group, and ends the run.
RunArrives(c) ==
  /\ c.kind = "run"
  /\ calls' = calls \ {c}
  /\ \E status \in {"done", "error"} :
       history' =
         IF ~CurrentRun(c) \/ history.g # c.g THEN history
         ELSE [history EXCEPT !.status = IF history.pair = c.pair THEN status ELSE @,
                              !.loading = FALSE]
  /\ UNCHANGED <<active, selections, busy, grid, pinned>>

-----------------------------------------------------------------------------
(* Opening and closing. *)

\* The button of a group spins while its detail is loaded, or its comparison when it is closed.
ButtonBusy(g) == groupBusy = g \/ (active.g # g /\ history.g = g /\ history.loading)

\* selectGroup: the files chosen before are read now and used when the detail has come.
OpenGroup(g) ==
  /\ grid = NoGrid /\ active.g # g /\ ~ButtonBusy(g)
  /\ Cardinality(calls) < MaxCalls
  /\ groupBusy' = g
  /\ calls' = calls \cup {Call("detail", g, selections[g], None)}
  /\ UNCHANGED <<active, selections, history, latestBusy, grid, pinned>>

CloseGroup ==
  /\ grid = NoGrid /\ active # NoDetail /\ ~ButtonBusy(active.g)
  /\ active' = NoDetail /\ history' = NoHistory
  /\ UNCHANGED <<selections, calls, busy, grid, pinned>>

\* A change of the list's criteria, a rescan and a step of the tutorial close what is open.
ListChanges ==
  /\ active # NoDetail \/ history # NoHistory
  /\ active' = NoDetail /\ history' = NoHistory
  /\ UNCHANGED <<selections, calls, busy, grid, pinned>>

\* The detail arrives: it becomes the open one, whatever has been opened meanwhile.
DetailArrives(c) ==
  /\ c.kind = "detail"
  /\ LET d == [g |-> c.g, pin |-> pinned[c.g]]
     IN  active' = d /\ RunHistory(d, c.pair, calls \ {c})
  /\ groupBusy' = None
  /\ UNCHANGED <<latestBusy, grid, pinned>>

DetailFails(c) ==
  /\ c.kind = "detail"
  /\ calls' = calls \ {c}
  /\ groupBusy' = None
  /\ UNCHANGED <<active, selections, history, latestBusy, grid, pinned>>

-----------------------------------------------------------------------------
(* What is done in an open group: its buttons wait for a running comparison. *)

Idle == active # NoDetail /\ grid = NoGrid /\ ~history.loading

\* The star of a file that does not lead, while no other is set.
CanPin(f) == Idle /\ f \in FilesOf(active.g) /\ f # Order(active)[1] /\ latestBusy = NotBusy

CanUnpin == Idle /\ active.pin # None /\ latestBusy.setting = None /\ latestBusy.clearing # active.g

CanOpenGrid == Idle /\ active.g \in ExcelGroups

\* The buttons 1 and 2 of a file: no file is both, and the one that is marked may be pressed again.
CanSelect(f, side) ==
  /\ Idle /\ f \in FilesOf(active.g)
  /\ LET marked == Normalised(active, selections[active.g])
     IN  \A other \in {"from", "to"} \ {side} : marked[other] # f

\* Mutant: the files that are compared change, the comparison does not start anew.
SelectOnly(f, side) ==
  /\ CanSelect(f, side)
  /\ LET now == Normalised(active, selections[active.g])
         next == [now EXCEPT ![side] = f]
     IN  next # now /\ selections' = [selections EXCEPT ![active.g] = next]
  /\ UNCHANGED <<active, history, calls, busy, grid, pinned>>

\* changeCompareSelection: a file cannot be compared with itself.
SelectSlot(f, side) ==
  /\ CanSelect(f, side) /\ Cardinality(calls) < MaxCalls
  /\ LET now == Normalised(active, selections[active.g])
         next == [now EXCEPT ![side] = f]
     IN  next.from # next.to /\ RunHistory(active, next, calls)
  /\ UNCHANGED <<active, busy, grid, pinned>>

\* setGroupLatestFile and clearGroupLatestFile up to their awaits.
SetLatest(f) ==
  /\ CanPin(f) /\ Cardinality(calls) < MaxCalls
  /\ latestBusy' = [latestBusy EXCEPT !.setting = f]
  /\ groupBusy' = active.g
  /\ calls' = calls \cup {Call("pin", active.g, NoPair, f)}
  /\ UNCHANGED <<active, selections, history, grid, pinned>>

ClearLatest ==
  /\ CanUnpin /\ Cardinality(calls) < MaxCalls
  /\ latestBusy' = [latestBusy EXCEPT !.clearing = active.g]
  /\ groupBusy' = active.g
  /\ calls' = calls \cup {Call("unpin", active.g, NoPair, None)}
  /\ UNCHANGED <<active, selections, history, grid, pinned>>

LatestDone(c) ==
  /\ groupBusy' = None
  /\ latestBusy' = IF c.kind = "pin" THEN [latestBusy EXCEPT !.setting = None]
                   ELSE [latestBusy EXCEPT !.clearing = None]

\* The updated detail arrives: it is opened and its default pair compared.
LatestArrives(c) ==
  /\ c.kind \in {"pin", "unpin"}
  /\ pinned' = [pinned EXCEPT ![c.g] = c.file]
  /\ LET d == [g |-> c.g, pin |-> c.file]
     IN  active' = d /\ RunHistory(d, DefaultPair(d), calls \ {c})
  /\ LatestDone(c)
  /\ UNCHANGED grid

LatestFails(c) ==
  /\ c.kind \in {"pin", "unpin"}
  /\ calls' = calls \ {c}
  /\ LatestDone(c)
  /\ UNCHANGED <<active, selections, history, grid, pinned>>

\* openExcelGrid: the window opens at once; an answer opens it again if it was closed.
OpenGrid ==
  /\ CanOpenGrid /\ Cardinality(calls) < MaxCalls
  /\ grid' = [g |-> active.g, loading |-> TRUE]
  /\ calls' = calls \cup {Call("grid", active.g, NoPair, None)}
  /\ UNCHANGED <<active, selections, history, busy, pinned>>

CloseGrid == grid # NoGrid /\ grid' = NoGrid /\ UNCHANGED <<active, selections, history, calls, busy, pinned>>

GridArrives(c) ==
  /\ c.kind = "grid"
  /\ calls' = calls \ {c}
  /\ grid' = [g |-> c.g, loading |-> FALSE]
  /\ UNCHANGED <<active, selections, history, busy, pinned>>

User ==
  \/ \E g \in Groups : OpenGroup(g)
  \/ \E f \in Files : SetLatest(f) \/ \E side \in {"from", "to"} : SelectSlot(f, side)
  \/ CloseGroup \/ ClearLatest \/ OpenGrid \/ CloseGrid

Server ==
  \E c \in calls :
    RunArrives(c) \/ DetailArrives(c) \/ DetailFails(c) \/ LatestArrives(c) \/ LatestFails(c)
      \/ GridArrives(c)

Next == User \/ ListChanges \/ Server

Spec == Init /\ [][Next]_vars

-----------------------------------------------------------------------------

TypeOK ==
  /\ active \in [g : Groups \cup {None}, pin : Slot]
  /\ selections \in [Groups -> Pairs]
  /\ history \in [g : Groups \cup {None}, pair : Pairs,
                  status : {"none", "loading", "done", "error"}, loading : BOOLEAN]
  /\ calls \subseteq [kind : {"run", "detail", "pin", "unpin", "grid"}, g : Groups, pair : Pairs,
                      file : Slot, current : BOOLEAN]
  /\ groupBusy \in Groups \cup {None}
  /\ latestBusy \in [setting : Slot, clearing : Groups \cup {None}]
  /\ grid \in [g : Groups \cup {None}, loading : BOOLEAN]
  /\ pinned \in [Groups -> Slot]

\* The changes that are shown are those between the two files that are marked in the open
\* group: whatever was opened, closed, pinned and chosen while answers were on their way
\* (runHistoryDiffs stores the pair it compares, selectGroup and setGroupLatestFile run it).
HistoryFollowsSelection ==
  history # NoHistory =>
    history.g = active.g /\ history.pair = Normalised(active, selections[active.g])

\* A comparison that is said to be finished has its result, and one that is said to run is
\* running: no answer of an earlier run ends a later one (historyRunRef).
HistoryIsFinished ==
  /\ ~history.loading => history.status # "loading"
  /\ history.loading =>
       \E c \in calls : c.kind = "run" /\ c.current /\ c.g = history.g /\ c.pair = history.pair

\* A button spins only while the answer that stops it is awaited (the finally of
\* loadGroupDetail, setGroupLatestFile and clearGroupLatestFile).
ButtonsStopSpinning ==
  /\ groupBusy # None => \E c \in calls : c.g = groupBusy /\ c.kind \in {"detail", "pin", "unpin"}
  /\ latestBusy.setting # None => \E c \in calls : c.kind = "pin" /\ c.file = latestBusy.setting
  /\ latestBusy.clearing # None => \E c \in calls : c.kind = "unpin" /\ c.g = latestBusy.clearing

=============================================================================

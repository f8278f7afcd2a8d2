------------------------- MODULE GroupIndexRefresh -------------------------
(***************************************************************************)
(* The derived index of document groups and who brings it up to date       *)
(* (backend/core/library.py, _mark_dirty_for_file_changes to               *)
(* _schedule_group_refresh_after_rescan; the transactions are those of     *)
(* backend/database.py and backend/storage/library_groups.py).             *)
(*                                                                         *)
(* Every transaction that changes a registered file says in the same       *)
(* transaction that the index needs repair, and why.  Its caller then      *)
(* schedules a refresh: the keys of the changed files become dirty and a   *)
(* worker thread gets the ids, if no worker is alive and no rescan runs.   *)
(* Requests that find the index unfit refresh it in their own thread.  A   *)
(* refresh is full (from the registered files) or incremental: the facts   *)
(* of the given files are copied, then the groups of the dirty keys are    *)
(* rebuilt from the facts.                                                 *)
(*                                                                         *)
(* A registered file, its fact and its place in its group's row are the    *)
(* version of the file they were made from, 0 for none.                    *)
(***************************************************************************)
EXTENDS Naturals, FiniteSets

CONSTANTS
  Files,        \* ids of registered files
  KeyOf,        \* the group key of each file
  Clients,      \* callers of the register and remove API
  Readers,      \* requests for the groups
  Worker,       \* the background refresh thread
  Scan,         \* the rescan
  Free,         \* the refresh lock's value when nobody holds it
  MaxVersion,   \* bound: versions a file goes through
  Scenarios     \* the sets of disturbances that may meet, see below

Refreshers == Readers \cup {Worker}
Changers   == Clients \cup {Scan}
Processes  == Refreshers \cup Changers

ASSUME KeysAssumption == DOMAIN KeyOf = Files
ASSUME BoundAssumption == MaxVersion \in Nat
ASSUME ProcessesAssumption ==
  /\ Free \notin Processes /\ Worker # Scan
  /\ Clients \cap Readers = {} /\ {Worker, Scan} \cap (Clients \cup Readers) = {}

(***************************************************************************)
(* "overlap":  a file changes before the refresh of an earlier change has  *)
(*             ended, or the groups are requested before the refresh of a  *)
(*             change, or a rescan, has been handed to the worker.         *)
(* "stop":     a rescan is stopped, and then schedules no refresh.         *)
(* "relocate": a rescan finds a moved file besides changed ones.           *)
(* "slow":     a refresh holds its lock for more than five seconds.        *)
(* "fail":     a refresh fails.                                            *)
(***************************************************************************)
Disturbances == {"overlap", "stop", "relocate", "slow", "fail"}
ASSUME ScenariosAssumption == Scenarios \subseteq SUBSET Disturbances

VARIABLES
  reg,          \* registered_files: the status and the version of each file
  facts,        \* library_group_index_files
  group,        \* library_group_index: what the rows of the groups show of each file
  dirty,        \* library_group_dirty_keys
  index,        \* the state of the index, and whether its reason is a targeted one
  scanning,     \* _is_library_rescan_active()
  refreshLock,  \* the holder of _group_refresh_execution_lock
  pendingFull,  \* _group_refresh_pending_full
  pc,           \* the control point of each process
  args,         \* the request each process carries
  local,        \* what a refresh has read
  disturbances  \* the scenario of the behaviour

vars == <<reg, facts, group, dirty, index, scanning, refreshLock, pendingFull, pc, args, local,
          disturbances>>

Versions == 0..MaxVersion
Keys     == {KeyOf[f] : f \in Files}
States   == {"missing", "ready", "stale", "refreshing", "repair_needed", "error"}
Args     == [full : BOOLEAN, changed : SUBSET Files, deleted : SUBSET Files]
Local    == [left : BOOLEAN, keys : SUBSET Keys, seen : [Files -> Versions]]
Points   == {"off", "schedule", "launch", "enter", "wait", "decide", "readAll", "replaceAll",
             "mark", "readRows", "writeFacts", "build", "replace", "check", "settle", "unlock",
             "takePending", "again", "lifecycle", "commit", "purged", "result"}

TypeOK ==
  /\ reg \in [Files -> [status : {"new", "available", "missing", "deleted"}, ver : Versions]]
  /\ facts \in [Files -> Versions]
  /\ group \in [Files -> Versions]
  /\ dirty \subseteq Keys
  /\ index \in [state : States, targeted : BOOLEAN]
  /\ scanning \in BOOLEAN
  /\ refreshLock \in Refreshers \cup {Free}
  /\ pendingFull \in BOOLEAN
  /\ pc \in [Processes -> Points]
  /\ args \in [Processes -> Args]
  /\ local \in [Processes -> Local]
  /\ disturbances \in Scenarios

NoArgs  == [full |-> FALSE, changed |-> {}, deleted |-> {}]
FullArgs == [NoArgs EXCEPT !.full = TRUE]
NoLocal == [left |-> FALSE, keys |-> {}, seen |-> [f \in Files |-> 0]]

\* A new installation: nothing is registered, the index has never been built.
Init ==
  /\ reg = [f \in Files |-> [status |-> "new", ver |-> 0]]
  /\ facts = [f \in Files |-> 0]
  /\ group = [f \in Files |-> 0]
  /\ dirty = {}
  /\ index = [state |-> "missing", targeted |-> FALSE]
  /\ scanning = FALSE
  /\ refreshLock = Free
  /\ pendingFull = FALSE
  /\ pc = [p \in Processes |-> "off"]
  /\ args = [p \in Processes |-> NoArgs]
  /\ local = [p \in Processes |-> NoLocal]
  /\ disturbances \in Scenarios

Goto(p, to) == pc' = [pc EXCEPT ![p] = to]

SetState(state) == index' = [state |-> state, targeted |-> FALSE]
NeedsRepair == index.state \in {"missing", "repair_needed", "error"}

\* What the groups should show: the available registered files.
Available == [f \in Files |-> IF reg[f].status = "available" THEN reg[f].ver ELSE 0]
Row(f)    == reg[f].status \in {"available", "missing"}

\* Nothing that could still bring the index up to date is under way.
Quiet == ~scanning /\ \A p \in Processes : pc[p] = "off"
MayChange  == "overlap" \in disturbances \/ Quiet
MayRequest == "overlap" \in disturbances \/ \A c \in Changers : pc[c] = "off"

(***************************************************************************)
(* _mark_dirty_for_file_changes: the keys of the old facts and of the rows *)
(* of the changed files, and of the deleted rows.  Marking any key makes   *)
(* the index stale, whatever it was.                                       *)
(***************************************************************************)
KeysOfFacts(a) ==                            \* mutant: a file without a fact has no key
  {KeyOf[f] : f \in {g \in a.changed : facts[g] # 0} \cup a.deleted}

KeysOf(a) ==
  {KeyOf[f] : f \in {g \in a.changed : facts[g] # 0 \/ Row(g)} \cup a.deleted}

MarkDirty(a) ==
  /\ dirty' = dirty \cup KeysOf(a)
  /\ IF KeysOf(a) = {} THEN UNCHANGED index ELSE SetState("stale")

\* A full request asks for a repair, another one marks what it changed.
Ask(a) ==
  IF a.full THEN SetState("repair_needed") /\ UNCHANGED dirty ELSE MarkDirty(a)

(***************************************************************************)
(* Changes.  A transaction that changes a file sets the state of the index *)
(* itself; its reason is targeted when ids will follow.                    *)
(***************************************************************************)
NeedRepair(targeted) == index' = [state |-> "repair_needed", targeted |-> targeted]

Save(f) ==
  /\ reg[f].status # "deleted" /\ reg[f].ver < MaxVersion
  /\ reg' = [reg EXCEPT ![f] = [status |-> "available", ver |-> @.ver + 1]]

Delete(fs) ==
  /\ reg' = [f \in Files |-> IF f \in fs THEN [status |-> "deleted", ver |-> 0] ELSE reg[f]]
  /\ facts' = [f \in Files |-> IF f \in fs THEN 0 ELSE facts[f]]

Carry(p, a) == args' = [args EXCEPT ![p] = a]
Forget(p)   == Carry(p, NoArgs) /\ Goto(p, "off")

Register(c, f) ==
  /\ pc[c] = "off" /\ MayChange
  /\ Save(f)
  /\ NeedRepair(TRUE)
  /\ Carry(c, [NoArgs EXCEPT !.changed = {f}])
  /\ Goto(c, "schedule")
  /\ UNCHANGED <<facts, group, dirty, scanning, refreshLock, pendingFull, local, disturbances>>

Remove(c, f) ==
  /\ pc[c] = "off" /\ MayChange
  /\ Row(f)
  /\ Delete({f})
  /\ NeedRepair(TRUE)
  /\ Carry(c, [NoArgs EXCEPT !.deleted = {f}])
  /\ Goto(c, "schedule")
  /\ UNCHANGED <<group, dirty, scanning, refreshLock, pendingFull, local, disturbances>>

RemoveAll(c) ==
  /\ pc[c] = "off" /\ MayChange
  /\ \E f \in Files : Row(f)
  /\ Delete({f \in Files : Row(f)})
  /\ group' = [f \in Files |-> 0]
  /\ dirty' = {}
  /\ SetState("ready")
  /\ Carry(c, FullArgs)
  /\ Goto(c, "schedule")
  /\ UNCHANGED <<scanning, refreshLock, pendingFull, local, disturbances>>

(***************************************************************************)
(* A rescan: missing files first, then the files it saves or finds again,  *)
(* then the purge.  What it reports decides what it schedules; a file that *)
(* moved is not among the changed ids.                                     *)
(***************************************************************************)
ScanBegin ==
  /\ pc[Scan] = "off" /\ MayChange
  /\ scanning' = TRUE
  /\ Carry(Scan, NoArgs)
  /\ Goto(Scan, "lifecycle")
  /\ UNCHANGED <<reg, facts, group, dirty, index, refreshLock, pendingFull, local,
                 disturbances>>

ScanMissing ==
  /\ pc[Scan] = "lifecycle"
  /\ \E gone \in SUBSET {f \in Files : reg[f].status = "available"} :
       /\ reg' = [f \in Files |-> IF f \in gone THEN [reg[f] EXCEPT !.status = "missing"]
                                                 ELSE reg[f]]
       /\ IF gone = {}
          THEN UNCHANGED <<index, args>>
          ELSE NeedRepair(FALSE) /\ Carry(Scan, FullArgs)
  /\ Goto(Scan, "commit")
  /\ UNCHANGED <<facts, group, dirty, scanning, refreshLock, pendingFull, local, disturbances>>

ScanSave(f) ==
  /\ pc[Scan] = "commit"
  /\ Save(f)
  /\ NeedRepair(TRUE)
  /\ args' = [args EXCEPT ![Scan].changed = @ \cup {f}]
  /\ UNCHANGED <<facts, group, dirty, scanning, refreshLock, pendingFull, pc, local,
                 disturbances>>

ScanRecover(f) ==
  /\ pc[Scan] = "commit"
  /\ reg[f].status = "missing"
  /\ reg' = [reg EXCEPT ![f].status = "available"]
  /\ NeedRepair(FALSE)
  /\ args' = [args EXCEPT ![Scan].changed = @ \cup {f}]
  /\ UNCHANGED <<facts, group, dirty, scanning, refreshLock, pendingFull, pc, local,
                 disturbances>>

ScanRelocate(f) ==
  /\ pc[Scan] = "commit" /\ "relocate" \in disturbances
  /\ Row(f)
  /\ Save(f)
  /\ NeedRepair(TRUE)
  /\ UNCHANGED <<facts, group, dirty, scanning, refreshLock, pendingFull, pc, args, local,
                 disturbances>>

ScanPurge(f) ==
  /\ pc[Scan] = "commit"
  /\ reg[f].status = "missing"
  /\ Delete({f})
  /\ NeedRepair(FALSE)
  /\ args' = [args EXCEPT ![Scan].full = TRUE]
  /\ Goto(Scan, "purged")
  /\ UNCHANGED <<group, dirty, scanning, refreshLock, pendingFull, local, disturbances>>

ScanEnd ==
  /\ \/ pc[Scan] \in {"commit", "purged"} /\ Goto(Scan, "result") /\ UNCHANGED args
     \/ pc[Scan] = "commit" /\ "stop" \in disturbances /\ Forget(Scan)
  /\ scanning' = FALSE
  /\ UNCHANGED <<reg, facts, group, dirty, index, refreshLock, pendingFull, local,
                 disturbances>>

ScheduleAfterRescan ==
  /\ pc[Scan] = "result"
  /\ \/ args[Scan].full /\ Carry(Scan, FullArgs) /\ Goto(Scan, "schedule")
     \/ /\ ~args[Scan].full /\ args[Scan].changed # {}
        /\ Goto(Scan, "schedule") /\ UNCHANGED args
     \/ /\ ~args[Scan].full /\ args[Scan].changed = {}
        /\ IF NeedsRepair \/ index.state = "stale"
           THEN Carry(Scan, [NoArgs EXCEPT !.full = NeedsRepair]) /\ Goto(Scan, "schedule")
           ELSE Forget(Scan)
  /\ UNCHANGED <<reg, facts, group, dirty, index, scanning, refreshLock, pendingFull, local,
                 disturbances>>

(***************************************************************************)
(* schedule_group_index_refresh.  A worker that is alive takes over the    *)
(* wish for a full refresh, and no ids.                                    *)
(***************************************************************************)
Schedule(p) ==
  /\ pc[p] = "schedule"
  /\ Ask(args[p])
  /\ Goto(p, "launch")
  /\ UNCHANGED <<reg, facts, group, scanning, refreshLock, pendingFull, args, local,
                 disturbances>>

Launch(p) ==
  /\ pc[p] = "launch"
  /\ \/ scanning /\ Forget(p) /\ UNCHANGED pendingFull
     \/ /\ ~scanning /\ pc[Worker] # "off"
        /\ pendingFull' = (pendingFull \/ args[p].full)
        /\ Forget(p)
     \/ /\ ~scanning /\ pc[Worker] = "off"
        /\ args' = [args EXCEPT ![p] = NoArgs, ![Worker] = args[p]]
        /\ pc' = [pc EXCEPT ![p] = "off", ![Worker] = "enter"]
        /\ UNCHANGED pendingFull
  /\ UNCHANGED <<reg, facts, group, dirty, index, scanning, refreshLock, local, disturbances>>

\* _ensure_group_index_available: a request that may only read what is cached
\* schedules the refresh, and so does every one while a rescan runs.
Request(r) ==
  /\ pc[r] = "off" /\ MayRequest
  /\ NeedsRepair \/ index.state = "stale"
  /\ Carry(r, [NoArgs EXCEPT !.full = NeedsRepair])
  /\ \/ Goto(r, "schedule")
     \/ ~scanning /\ Goto(r, "enter")
  /\ UNCHANGED <<reg, facts, group, dirty, index, scanning, refreshLock, pendingFull, local,
                 disturbances>>

(***************************************************************************)
(* refresh_group_index_now.  A rescan, or a lock that is not free within   *)
(* five seconds, leaves the request to whoever comes next.                 *)
(***************************************************************************)
Done(p) == Carry(p, NoArgs) /\ Goto(p, IF p = Worker THEN "takePending" ELSE "off")

Enter(p) ==
  /\ pc[p] = "enter"
  /\ IF scanning THEN Ask(args[p]) /\ Done(p)
                 ELSE Goto(p, "wait") /\ UNCHANGED <<dirty, index, args>>
  /\ UNCHANGED <<reg, facts, group, scanning, refreshLock, pendingFull, local, disturbances>>

Acquire(p) ==
  /\ pc[p] = "wait" /\ refreshLock = Free
  /\ refreshLock' = p
  /\ Goto(p, "decide")
  /\ UNCHANGED <<reg, facts, group, dirty, index, scanning, pendingFull, args, local,
                 disturbances>>

\* Mutant: the result of the wait is not looked at.
TimeOutAnyway(p) ==
  /\ pc[p] = "wait" /\ refreshLock # Free /\ "slow" \in disturbances
  /\ Goto(p, "decide")
  /\ UNCHANGED <<reg, facts, group, dirty, index, scanning, refreshLock, pendingFull, args, local,
                 disturbances>>

TimeOut(p) ==
  /\ pc[p] = "wait" /\ refreshLock # Free /\ "slow" \in disturbances
  /\ Ask(args[p])
  /\ Done(p)
  /\ UNCHANGED <<reg, facts, group, scanning, refreshLock, pendingFull, local, disturbances>>

\* A repair is full, unless its reason is a change whose keys are known.
Targeted(a) ==
  /\ a.changed # {} \/ a.deleted # {} \/ dirty # {}
  /\ index.state = "repair_needed" /\ index.targeted
  /\ \E f \in Files : facts[f] # 0

ForceFull(a) ==
  \/ (a.full \/ NeedsRepair) /\ ~Targeted(a)
  \/ (\A f \in Files : facts[f] = 0) /\ (\E f \in Files : Row(f))

Decide(p) ==
  /\ pc[p] = "decide"
  /\ SetState("refreshing")
  /\ Goto(p, IF ForceFull(args[p]) THEN "readAll" ELSE "mark")
  /\ UNCHANGED <<reg, facts, group, dirty, scanning, refreshLock, pendingFull, args, local,
                 disturbances>>

ReadAll(p) ==
  /\ pc[p] = "readAll"
  /\ local' = [local EXCEPT ![p].seen = Available]
  /\ Goto(p, "replaceAll")
  /\ UNCHANGED <<reg, facts, group, dirty, index, scanning, refreshLock, pendingFull, args,
                 disturbances>>

ReplaceAll(p) ==
  /\ pc[p] = "replaceAll"
  /\ facts' = local[p].seen
  /\ group' = local[p].seen
  /\ dirty' = {}
  /\ SetState("ready")
  /\ Goto(p, "unlock")
  /\ UNCHANGED <<reg, scanning, refreshLock, pendingFull, args, local, disturbances>>

(***************************************************************************)
(* _refresh_group_index_incremental                                        *)
(***************************************************************************)
Mark(p) ==
  /\ pc[p] = "mark"
  /\ MarkDirty(args[p])
  /\ local' = [local EXCEPT ![p].keys = dirty \cup KeysOf(args[p])]
  /\ Goto(p, "readRows")
  /\ UNCHANGED <<reg, facts, group, scanning, refreshLock, pendingFull, args, disturbances>>

\* A row is copied whatever its status.
ReadRows(p) ==
  /\ pc[p] = "readRows"
  /\ local' = [local EXCEPT ![p].seen = [f \in Files |-> IF Row(f) THEN reg[f].ver ELSE 0]]
  /\ Goto(p, "writeFacts")
  /\ UNCHANGED <<reg, facts, group, dirty, index, scanning, refreshLock, pendingFull, args,
                 disturbances>>

WriteFacts(p) ==
  /\ pc[p] = "writeFacts"
  /\ facts' = [f \in Files |-> IF f \in args[p].deleted THEN 0
                               ELSE IF f \in args[p].changed THEN local[p].seen[f]
                               ELSE facts[f]]
  /\ Goto(p, IF local[p].keys = {} THEN "check" ELSE "build")
  /\ UNCHANGED <<reg, group, dirty, index, scanning, refreshLock, pendingFull, args, local,
                 disturbances>>

Build(p) ==
  /\ pc[p] = "build"
  /\ local' = [local EXCEPT ![p].seen = facts]
  /\ Goto(p, "replace")
  /\ UNCHANGED <<reg, facts, group, dirty, index, scanning, refreshLock, pendingFull, args,
                 disturbances>>

Replace(p) ==
  /\ pc[p] = "replace"
  /\ group' = [f \in Files |-> IF KeyOf[f] \in local[p].keys THEN local[p].seen[f] ELSE group[f]]
  /\ dirty' = dirty \ local[p].keys
  /\ SetState("ready")
  /\ Goto(p, "check")
  /\ UNCHANGED <<reg, facts, scanning, refreshLock, pendingFull, args, local, disturbances>>

Check(p) ==
  /\ pc[p] = "check"
  /\ local' = [local EXCEPT ![p].left = (dirty # {})]
  /\ Goto(p, "settle")
  /\ UNCHANGED <<reg, facts, group, dirty, index, scanning, refreshLock, pendingFull, args,
                 disturbances>>

Settle(p) ==
  /\ pc[p] = "settle"
  /\ \/ local[p].left /\ SetState("stale")
     \/ ~local[p].left /\ local[p].keys = {} /\ SetState("ready")
     \/ ~local[p].left /\ local[p].keys # {} /\ UNCHANGED index
  /\ Goto(p, "unlock")
  /\ UNCHANGED <<reg, facts, group, dirty, scanning, refreshLock, pendingFull, args, local,
                 disturbances>>

Locked == {"decide", "readAll", "replaceAll", "mark", "readRows", "writeFacts", "build",
           "replace", "check", "settle", "unlock"}

\* Mutant: no finally.
FailWithLock(p) ==
  /\ pc[p] \in Locked \ {"unlock"} /\ "fail" \in disturbances
  /\ SetState("error")
  /\ Done(p)
  /\ UNCHANGED <<reg, facts, group, dirty, scanning, refreshLock, pendingFull, local,
                 disturbances>>

FailRefresh(p) ==
  /\ pc[p] \in Locked \ {"unlock"} /\ "fail" \in disturbances
  /\ SetState("error")
  /\ Goto(p, "unlock")
  /\ UNCHANGED <<reg, facts, group, dirty, scanning, refreshLock, pendingFull, args, local,
                 disturbances>>

Unlock(p) ==
  /\ pc[p] = "unlock"
  /\ refreshLock' = Free
  /\ local' = [local EXCEPT ![p] = NoLocal]
  /\ Done(p)
  /\ UNCHANGED <<reg, facts, group, dirty, index, scanning, pendingFull, disturbances>>

(***************************************************************************)
(* The end of _group_refresh_worker: what is still to do is scheduled from *)
(* the worker's own thread, which is alive.                                *)
(***************************************************************************)
TakePending ==
  /\ pc[Worker] = "takePending"
  /\ local' = [local EXCEPT ![Worker].left = pendingFull]
  /\ pendingFull' = FALSE
  /\ Goto(Worker, "again")
  /\ UNCHANGED <<reg, facts, group, dirty, index, scanning, refreshLock, args, disturbances>>

Again ==
  /\ pc[Worker] = "again"
  /\ IF (local[Worker].left \/ dirty # {}) /\ ~scanning
     THEN Carry(Worker, [NoArgs EXCEPT !.full = local[Worker].left]) /\ Goto(Worker, "schedule")
     ELSE Forget(Worker)
  /\ local' = [local EXCEPT ![Worker] = NoLocal]
  /\ UNCHANGED <<reg, facts, group, dirty, index, scanning, refreshLock, pendingFull,
                 disturbances>>

-----------------------------------------------------------------------------
Change ==
  \/ \E c \in Clients : RemoveAll(c) \/ \E f \in Files : Register(c, f) \/ Remove(c, f)
  \/ \E f \in Files : ScanSave(f) \/ ScanRecover(f) \/ ScanRelocate(f) \/ ScanPurge(f)
  \/ ScanBegin

FullSteps(p)        == ReadAll(p) \/ ReplaceAll(p)
IncrementalSteps(p) ==
  Mark(p) \/ ReadRows(p) \/ WriteFacts(p) \/ Build(p) \/ Replace(p) \/ Check(p) \/ Settle(p)

RefreshStep(p) ==
  \/ Enter(p) \/ Acquire(p) \/ TimeOut(p) \/ Decide(p)
  \/ FullSteps(p) \/ IncrementalSteps(p) \/ Unlock(p)

ScheduleStep(p) == Schedule(p) \/ Launch(p)

Next ==
  \/ Change
  \/ ScanMissing \/ ScanEnd \/ ScheduleAfterRescan
  \/ \E p \in Processes : ScheduleStep(p)
  \/ \E r \in Readers : Request(r)
  \/ \E p \in Refreshers : RefreshStep(p) \/ FailRefresh(p)
  \/ TakePending \/ Again

\* Threads get processor time; changes, requests and failures just may happen.
Fairness ==
  /\ WF_vars(ScanMissing) /\ WF_vars(ScanEnd) /\ WF_vars(ScheduleAfterRescan)
  /\ \A p \in Processes : WF_vars(ScheduleStep(p))
  /\ \A p \in Refreshers : WF_vars(RefreshStep(p))
  /\ WF_vars(TakePending) /\ WF_vars(Again)

Spec     == Init /\ [][Next]_vars
FairSpec == Spec /\ Fairness

-----------------------------------------------------------------------------
(***************************************************************************)
(* Properties                                                              *)
(***************************************************************************)

\* One refresh at a time: who is inside holds the lock, and who gave up
\* waiting for it does not go on.
RefreshExclusive ==
  \A p \in Refreshers : pc[p] \in Locked <=> refreshLock = p

\* Once nothing is under way, an index that calls itself ready shows every
\* available file in its last version, and no other file.
ReadyMeansFresh ==
  Quiet /\ index.state = "ready" => group = Available

\* So it does as long as nothing disturbs a refresh, whoever refreshes and
\* in whatever order changes, requests and rescans come.
UndisturbedIsFresh ==
  disturbances = {} => ReadyMeansFresh

\* A refresh ends and gives the lock back, also when it fails or finds the
\* lock taken.
RefreshEnds ==
  \A p \in Refreshers : pc[p] = "enter" ~> pc[p] = "off" /\ refreshLock # p
=============================================================================

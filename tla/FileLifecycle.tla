--------------------------- MODULE FileLifecycle ---------------------------
(***************************************************************************)
(* The registrations of source documents and the files they stand for.  A  *)
(* rescan (backend/core/library.py, _rescan_library_impl) walks the        *)
(* watched folders, judges which registered files are missing, lets a pool *)
(* of workers skip, recover, relocate or index what it found, saves what   *)
(* they prepared and purges what has been missing too long.  Files, drives *)
(* and permissions change under it, a user registers and removes files, a  *)
(* stop or a crash can end it at any step.                                 *)
(*                                                                         *)
(* A file is a version: its text and the modification time that names it.  *)
(* One rescan runs at a time (RescanCoordinator); its batches are          *)
(* RescanPipeline's, here each prepared file is saved by a step of its own *)
(***************************************************************************)
EXTENDS Integers, FiniteSets

CONSTANTS
  Paths,     \* places a document can be at
  Folders,   \* the watched folders
  FolderOf,  \* the watched folder above each path
  Texts,     \* what a document can say
  Workers,   \* threads of the pool
  Grace,     \* MISSING_FILE_RETENTION_DAYS
  MaxDay,    \* bound on the days that pass
  MaxOps,    \* bound on what happens outside the rescan
  Events,    \* which of Outside can happen
  None       \* no file, no time, no registration

Outside == {"write", "delete", "move", "copy", "unplug", "hide", "register", "remove",
            "fail", "stop", "crash", "sdk"}

ASSUME PathsAssumption ==
  /\ IsFiniteSet(Paths) /\ Folders # {} /\ IsFiniteSet(Folders)
  /\ FolderOf \in [Paths -> Folders]
  /\ None \notin Texts /\ None \notin Int /\ None \notin [text : Texts, mtime : Nat]
ASSUME BoundsAssumption ==
  /\ Workers \in Nat \ {0} /\ Grace \in Nat /\ MaxDay \in Nat /\ MaxOps \in Nat
  /\ Events \subseteq Outside

VARIABLES
  disk,    \* the version at each path, or None
  down,    \* folders whose drive is not there
  hidden,  \* paths in a directory that cannot be read
  clock,   \* modification times given out so far
  ops,     \* outside events so far
  day,     \* today
  rows,    \* registered_files: id |-> registration
  nextId,  \* the AUTOINCREMENT key
  request, \* the register request in progress
  rescan,  \* the rescan in progress
  job,     \* what the worker of each path it found has come to
  torn     \* (history) modification times read before the text of a later version

vars == <<disk, down, hidden, clock, ops, day, rows, nextId, request, rescan, job, torn>>

Versions == [text : Texts, mtime : Nat]

\* missing is the day of missing_since, None while available; seen is last_seen_at.
Registrations ==
  [path : Paths, text : Texts, mtime : Nat, missing : Nat \cup {None}, seen : Nat]

Idle == [at |-> "idle",
         left |-> {},      \* watched folders not scanned yet
         found |-> {},     \* found_paths
         stamp |-> [p \in Paths |-> None],   \* found_modified_times
         covered |-> {},   \* successfully_scanned_roots
         known |-> <<>>,   \* existing_by_path
         absent |-> {},    \* missing_paths
         relocated |-> {}, \* relocated_ids
         cancel |-> FALSE, \* _cancel_event
         lost |-> {},      \* (history) covered paths where nothing was, since their scan
         quiet |-> FALSE]  \* (history) nothing interfered so far

NoJob == [at |-> "none", mtime |-> None, text |-> None, row |-> None]

TypeOK ==
  /\ disk \in [Paths -> Versions \cup {None}]
  /\ down \subseteq Folders /\ hidden \subseteq Paths
  /\ clock \in Nat /\ ops \in 0..MaxOps /\ day \in 0..MaxDay /\ nextId \in Nat
  /\ DOMAIN rows \subseteq 1..(nextId - 1)
  /\ \A i \in DOMAIN rows : rows[i] \in Registrations
  /\ DOMAIN rescan.known \subseteq 1..(nextId - 1)
  /\ \A i \in DOMAIN rescan.known : rescan.known[i] \in Registrations
  /\ request = None \/ request \in [path : Paths, mtime : Nat, text : Texts \cup {None}]
  /\ rescan.at \in {"idle", "scan", "mark", "index", "done"}
  /\ rescan.left \subseteq Folders /\ rescan.covered \subseteq Folders
  /\ rescan.found \subseteq Paths /\ rescan.absent \subseteq Paths /\ rescan.lost \subseteq Paths
  /\ rescan.stamp \in [Paths -> Nat \cup {None}]
  /\ rescan.relocated \subseteq Nat
  /\ rescan.cancel \in BOOLEAN /\ rescan.quiet \in BOOLEAN
  /\ job \in [Paths -> [at : {"none", "queued", "recover", "read", "match", "move", "save",
                              "done"},
                        mtime : Nat \cup {None}, text : Texts \cup {None},
                        row : Nat \cup {None}]]
  /\ torn \subseteq Nat

\* After a rescan of n files.
Init ==
  /\ \E n \in 0..Cardinality(Paths) : \E at \in [1..n -> Paths], t \in [1..n -> Texts] :
       LET number(p) == CHOOSE i \in 1..n : at[i] = p
       IN  /\ \A i, k \in 1..n : at[i] = at[k] => i = k
           /\ disk = [p \in Paths |-> IF \E i \in 1..n : at[i] = p
                                      THEN [text |-> t[number(p)], mtime |-> number(p)]
                                      ELSE None]
           /\ rows = [i \in 1..n |-> [path |-> at[i], text |-> t[i], mtime |-> i,
                                      missing |-> None, seen |-> 0]]
           /\ nextId = n + 1 /\ clock = n
  /\ down = {} /\ hidden = {}
  /\ ops = 0 /\ day = 0
  /\ request = None /\ rescan = Idle /\ torn = {}
  /\ job = [p \in Paths |-> NoJob]

-----------------------------------------------------------------------------
(* The outside world.                                                      *)

\* os.stat finds something; the directory lets the file be seen.
Exists(p)  == disk[p] # None /\ FolderOf[p] \notin down
Visible(p) == Exists(p) /\ p \notin hidden

Happens(event) == event \in Events /\ ops < MaxOps /\ ops' = ops + 1

\* Something happened that the rescan did not do: it is no longer quiet, and the
\* covered paths of gone have been lost.
Disturb(gone) ==
  rescan' = IF rescan.at = "idle" THEN rescan
            ELSE [rescan EXCEPT !.quiet = FALSE,
                                !.lost = @ \cup {p \in gone : FolderOf[p] \in rescan.covered}]

\* A document is written or saved over: a modification time nothing had before.
Write(p, t) ==
  /\ Happens("write") /\ clock' = clock + 1
  /\ disk' = [disk EXCEPT ![p] = [text |-> t, mtime |-> clock + 1]]
  /\ Disturb({})
  /\ UNCHANGED <<down, hidden, day, rows, nextId, request, torn, job>>

DeleteFile(p) ==
  /\ Happens("delete") /\ disk[p] # None
  /\ disk' = [disk EXCEPT ![p] = None]
  /\ Disturb({p})
  /\ UNCHANGED <<down, hidden, clock, day, rows, nextId, request, torn, job>>

\* A file keeps its modification time where it is moved or copied to.
MoveFile(p, q) ==
  /\ Happens("move") /\ p # q /\ disk[p] # None
  /\ disk' = [disk EXCEPT ![q] = disk[p], ![p] = None]
  /\ Disturb({p})
  /\ UNCHANGED <<down, hidden, clock, day, rows, nextId, request, torn, job>>

CopyFile(p, q) ==
  /\ Happens("copy") /\ p # q /\ disk[p] # None
  /\ disk' = [disk EXCEPT ![q] = disk[p]]
  /\ Disturb({})
  /\ UNCHANGED <<down, hidden, clock, day, rows, nextId, request, torn, job>>

\* A drive goes away or comes back; a directory's permissions change.
Unplug(f) ==
  /\ Happens("unplug")
  /\ down' = (down \ {f}) \cup ({f} \ down)
  /\ Disturb({p \in Paths : FolderOf[p] = f})
  /\ UNCHANGED <<disk, hidden, clock, day, rows, nextId, request, torn, job>>

Hide(p) ==
  /\ Happens("hide")
  /\ hidden' = (hidden \ {p}) \cup ({p} \ hidden)
  /\ Disturb({})
  /\ UNCHANGED <<disk, down, clock, day, rows, nextId, request, torn, job>>

NextDay ==
  /\ day < MaxDay /\ day' = day + 1
  /\ UNCHANGED <<disk, down, hidden, clock, ops, rows, nextId, request, rescan, torn, job>>

-----------------------------------------------------------------------------
(* The registry.                                                           *)

At(p) == {i \in DOMAIN rows : rows[i].path = p}

Without(f, S) == [i \in DOMAIN f \ S |-> f[i]]

\* _save_prepared_indexed_file: insert, or update the row the path is unique to.
Upsert(p, m, t) ==
  LET row == [path |-> p, text |-> t, mtime |-> m, missing |-> None, seen |-> day]
  IN  IF At(p) = {}
      THEN /\ rows' = [i \in DOMAIN rows \cup {nextId} |->
                         IF i = nextId THEN row ELSE rows[i]]
           /\ nextId' = nextId + 1
      ELSE /\ rows' = [i \in DOMAIN rows |-> IF i \in At(p) THEN row ELSE rows[i]]
           /\ UNCHANGED nextId

\* What was read of p with modification time m is the text of a later version.
NoteTorn(p, m) == torn' = IF disk[p].mtime = m THEN torn ELSE torn \cup {m}

\* POST /api/files: stat, inspect, save; a failure on the way registers nothing.
RegisterStat(p) ==
  /\ Happens("register") /\ request = None /\ Visible(p)
  /\ request' = [path |-> p, mtime |-> disk[p].mtime, text |-> None]
  /\ Disturb({})
  /\ UNCHANGED <<disk, down, hidden, clock, day, rows, nextId, torn, job>>

RegisterInspect ==
  /\ request # None /\ request.text = None
  /\ IF Visible(request.path)
     THEN /\ request' = [request EXCEPT !.text = disk[request.path].text]
          /\ NoteTorn(request.path, request.mtime)
     ELSE request' = None /\ UNCHANGED torn
  /\ Disturb({})
  /\ UNCHANGED <<disk, down, hidden, clock, ops, day, rows, nextId, job>>

RegisterSave ==
  /\ request # None /\ request.text # None
  /\ Upsert(request.path, request.mtime, request.text)
  /\ request' = None
  /\ Disturb({})
  /\ UNCHANGED <<disk, down, hidden, clock, ops, day, torn, job>>

\* DELETE /api/files/{id}
Remove(i) ==
  /\ Happens("remove") /\ i \in DOMAIN rows
  /\ rows' = Without(rows, {i})
  /\ Disturb({})
  /\ UNCHANGED <<disk, down, hidden, clock, day, nextId, request, torn, job>>

-----------------------------------------------------------------------------
(* The rescan: discovery and judgement.                                    *)

world == <<disk, down, hidden, clock, ops, day, request>>

Begin ==
  /\ rescan.at = "idle"
  /\ rescan' = [Idle EXCEPT !.at = "scan", !.left = Folders, !.quiet = (request = None)]
  /\ UNCHANGED <<world, rows, nextId, torn, job>>

\* One watched folder.  The walk finds what is visible.  Everything's index, when it finds
\* something, also gives the modification times, but never proves that a file is absent.
ScanFolder(f, sdk) ==
  LET seen == {p \in Paths : FolderOf[p] = f /\ Visible(p)}
  IN  /\ rescan.at = "scan" /\ f \in rescan.left /\ ~rescan.cancel
      /\ f \notin down
      /\ sdk => "sdk" \in Events /\ seen # {}
      /\ rescan' =
           [rescan EXCEPT
              !.left = @ \ {f},
              !.found = @ \cup seen,
              !.stamp = IF sdk THEN [p \in Paths |-> IF p \in seen THEN disk[p].mtime ELSE @[p]]
                        ELSE @,
              !.covered = IF sdk THEN @ ELSE @ \cup {f},
              !.lost = IF sdk THEN @
                       ELSE @ \cup {p \in Paths : FolderOf[p] = f /\ disk[p] = None}]
      /\ UNCHANGED <<world, rows, nextId, torn, job>>

ScanFails(f) ==
  /\ rescan.at = "scan" /\ f \in rescan.left /\ ~rescan.cancel
  /\ f \in down
  /\ rescan' = [rescan EXCEPT !.left = @ \ {f}]
  /\ UNCHANGED <<world, rows, nextId, torn, job>>

\* Mutant: stat alone decides.
AbsenceByStat(p) == ~Exists(p) /\ (p \in hidden => FolderOf[p] \in down)

\* _source_path_absence_is_proven: a successful scan covers it and stat says no such file
\* (of the parent too, when the drive went away after the scan).
AbsenceIsProven(p) ==
  /\ FolderOf[p] \in rescan.covered
  /\ ~Exists(p)
  /\ p \in hidden => FolderOf[p] \in down

Judge ==
  /\ rescan.at = "scan" /\ (rescan.left = {} \/ rescan.cancel)
  /\ rescan' = [rescan EXCEPT
       !.at = "mark",
       !.known = rows,
       !.absent = {p \in Paths \ rescan.found : At(p) # {} /\ AbsenceIsProven(p)}]
  /\ UNCHANGED <<world, rows, nextId, torn, job>>

\* mark_registered_files_missing keeps the day a file was first found missing.
MarkMissing ==
  /\ rescan.at = "mark"
  /\ rows' = IF rescan.cancel THEN rows
             ELSE [i \in DOMAIN rows |->
                     IF rows[i].path \in rescan.absent /\ rows[i].missing = None
                     THEN [rows[i] EXCEPT !.missing = day] ELSE rows[i]]
  /\ rescan' = [rescan EXCEPT !.at = "index"]
  /\ job' = [p \in Paths |-> IF p \in rescan.found THEN [NoJob EXCEPT !.at = "queued"]
                             ELSE NoJob]
  /\ UNCHANGED <<world, nextId, torn>>

-----------------------------------------------------------------------------
(* The rescan: _register_or_update in a worker, and the saves.             *)

InHand == {p \in Paths : job[p].at \in {"recover", "read", "match", "move"}}

\* The registration the rescan knows for a path.
Known(p) == {i \in DOMAIN rescan.known : rescan.known[i].path = p}

Goto(p, at) == job' = [job EXCEPT ![p].at = at]

\* A file that cannot be read, or is stopped, is done: it is left as it was registered.
GiveUp(p) == job' = [job EXCEPT ![p] = [NoJob EXCEPT !.at = "done"]]

\* Mutant: an unchanged file is skipped though it was missing.
LookAndSkip(p) ==
  LET m == IF rescan.stamp[p] # None THEN rescan.stamp[p] ELSE disk[p].mtime
  IN  /\ rescan.at = "index" /\ job[p].at = "queued"
      /\ Cardinality(InHand) < Workers
      /\ IF rescan.cancel \/ (rescan.stamp[p] = None /\ ~Visible(p))
            \/ \E i \in Known(p) : rescan.known[i].mtime = m
         THEN GiveUp(p)
         ELSE job' = [job EXCEPT ![p].at = "read", ![p].mtime = m]
      /\ UNCHANGED <<world, rows, nextId, rescan, torn>>

\* The modification time, from Everything or from stat, decides between skip, recover
\* and index.
Look(p) ==
  LET m == IF rescan.stamp[p] # None THEN rescan.stamp[p] ELSE disk[p].mtime
      same == {i \in Known(p) : rescan.known[i].mtime = m}
  IN  /\ rescan.at = "index" /\ job[p].at = "queued"
      /\ Cardinality(InHand) < Workers
      /\ IF rescan.cancel \/ (rescan.stamp[p] = None /\ ~Visible(p)) THEN GiveUp(p)
         ELSE IF same = {} THEN job' = [job EXCEPT ![p].at = "read", ![p].mtime = m]
         ELSE IF \A i \in same : rescan.known[i].missing = None THEN GiveUp(p)
         ELSE Goto(p, "recover")
      /\ UNCHANGED <<world, rows, nextId, rescan, torn>>

\* Mutant: the day it went missing stays.
RecoverKeepsDay(p) ==
  /\ job[p].at = "recover"
  /\ rows' = [i \in DOMAIN rows |-> IF i \in Known(p) THEN [rows[i] EXCEPT !.seen = day]
                                    ELSE rows[i]]
  /\ GiveUp(p)
  /\ UNCHANGED <<world, nextId, rescan, torn>>

\* mark_registered_file_available, by the id that was known.
Recover(p) ==
  /\ job[p].at = "recover"
  /\ rows' = [i \in DOMAIN rows |->
                IF i \in Known(p) THEN [rows[i] EXCEPT !.missing = None, !.seen = day]
                ELSE rows[i]]
  /\ GiveUp(p)
  /\ UNCHANGED <<world, nextId, rescan, torn>>

Read(p) ==
  /\ job[p].at = "read"
  /\ IF ~rescan.cancel /\ Visible(p)
     THEN /\ job' = [job EXCEPT ![p].at = "match", ![p].text = disk[p].text]
          /\ NoteTorn(p, job[p].mtime)
     ELSE GiveUp(p) /\ UNCHANGED torn
  /\ UNCHANGED <<world, rows, nextId, rescan>>

\* A document that cannot be parsed fails alone.
ReadFails(p) ==
  /\ "fail" \in Events /\ job[p].at = "read"
  /\ GiveUp(p)
  /\ rescan' = [rescan EXCEPT !.quiet = FALSE]
  /\ UNCHANGED <<world, rows, nextId, torn>>

\* relocation_candidates: known registrations that were not found, by fingerprint.
Candidates(t) ==
  {i \in DOMAIN rescan.known : rescan.known[i].path \notin rescan.found
                               /\ rescan.known[i].text = t}

Matches(p) == Candidates(job[p].text) \ rescan.relocated

\* One unambiguous candidate is to be moved here.
Match(p) ==
  /\ job[p].at = "match"
  /\ job' = [job EXCEPT
       ![p].at = IF Cardinality(Matches(p)) = 1 THEN "move" ELSE "save",
       ![p].row = IF Cardinality(Matches(p)) = 1 THEN CHOOSE i \in Matches(p) : TRUE
                  ELSE None]
  /\ UNCHANGED <<world, rows, nextId, rescan, torn>>

\* relocate_registered_file refuses a row that is gone and a path that is taken.  The row
\* keeps the old time and text until the payload is saved.
Relocate(p) ==
  LET i == job[p].row
      moves == i \in DOMAIN rows /\ At(p) \ {i} = {}
  IN  /\ job[p].at = "move"
      /\ rows' = IF moves THEN [rows EXCEPT ![i].path = p, ![i].missing = None, ![i].seen = day]
                 ELSE rows
      /\ rescan' = [rescan EXCEPT !.relocated = IF moves THEN @ \cup {i} ELSE @]
      /\ Goto(p, "save")
      /\ UNCHANGED <<world, nextId, torn>>

\* Mutant: the modification time is taken when the file is saved.
SaveNow(p) ==
  /\ job[p].at = "save" /\ Visible(p)
  /\ Upsert(p, disk[p].mtime, job[p].text)
  /\ GiveUp(p)
  /\ UNCHANGED <<world, rescan, torn>>

\* _flush_write_buffer, whenever a batch is due; a stop still flushes what was prepared.
Save(p) ==
  /\ job[p].at = "save"
  /\ Upsert(p, job[p].mtime, job[p].text)
  /\ GiveUp(p)
  /\ UNCHANGED <<world, rescan, torn>>

SaveFails(p) ==
  /\ "fail" \in Events /\ job[p].at = "save"
  /\ GiveUp(p)
  /\ rescan' = [rescan EXCEPT !.quiet = FALSE]
  /\ UNCHANGED <<world, rows, nextId, torn>>

\* purge_expired_missing_files, unless the rescan was stopped.
Expired == {i \in DOMAIN rows : rows[i].missing # None /\ rows[i].missing <= day - Grace}

Purge ==
  /\ rescan.at = "index" /\ \A p \in Paths : job[p].at \in {"none", "done"}
  /\ rows' = IF rescan.cancel THEN rows ELSE Without(rows, Expired)
  /\ rescan' = [rescan EXCEPT !.at = "done"]
  /\ UNCHANGED <<world, nextId, torn, job>>

End ==
  /\ rescan.at = "done"
  /\ rescan' = Idle
  /\ job' = [p \in Paths |-> NoJob]
  /\ UNCHANGED <<world, rows, nextId, torn>>

Stop ==
  /\ "stop" \in Events /\ rescan.at \in {"scan", "mark", "index"} /\ ~rescan.cancel
  /\ rescan' = [rescan EXCEPT !.cancel = TRUE, !.quiet = FALSE]
  /\ UNCHANGED <<world, rows, nextId, torn, job>>

\* The process dies: what was not saved is forgotten, the rows stay.
Crash ==
  /\ "crash" \in Events /\ rescan.at \notin {"idle", "done"}
  /\ rescan' = Idle
  /\ job' = [p \in Paths |-> NoJob]
  /\ request' = None
  /\ UNCHANGED <<disk, down, hidden, clock, ops, day, rows, nextId, torn>>

RescanStep ==
  \/ Begin \/ Judge \/ MarkMissing \/ Purge \/ End \/ Stop \/ Crash
  \/ \E f \in Folders : ScanFails(f) \/ \E sdk \in BOOLEAN : ScanFolder(f, sdk)
  \/ \E p \in Paths : \/ Look(p) \/ Recover(p) \/ Read(p) \/ ReadFails(p)
                      \/ Match(p) \/ Relocate(p) \/ Save(p) \/ SaveFails(p)

OutsideStep ==
  \/ \E p \in Paths : \/ DeleteFile(p) \/ Hide(p) \/ RegisterStat(p)
                      \/ \E t \in Texts : Write(p, t)
                      \/ \E q \in Paths : MoveFile(p, q) \/ CopyFile(p, q)
  \/ \E f \in Folders : Unplug(f)
  \/ \E i \in DOMAIN rows : Remove(i)
  \/ RegisterInspect \/ RegisterSave \/ NextDay

Next == RescanStep \/ OutsideStep

Spec == Init /\ [][Next]_vars

-----------------------------------------------------------------------------
(* What a registration promises about its file.                            *)

\* A registration is marked missing only if nothing was at its path at some moment after
\* its folder was walked: never for a folder that could not be scanned, a directory that
\* cannot be read, or a file Everything did not list.
MarkedWasLost ==
  [][\A i \in DOMAIN rows \cap DOMAIN rows' :
       rows[i].missing = None /\ rows'[i].missing # None
         => rows[i].path \in rescan.lost]_vars

\* A registration that carries the modification time of the file at its path holds that
\* file's text, so the skip of an unchanged file never leaves old text in the index.  Only a
\* time whose file was replaced before its text could be read is not to be trusted: that
\* version would be taken for indexed if it ever came back.
TrustMtime ==
  \A i \in DOMAIN rows :
    LET file == disk[rows[i].path]
    IN  file # None /\ file.mtime = rows[i].mtime /\ file.mtime \notin torn
          => file.text = rows[i].text

New == {p \in rescan.found : Known(p) = {}}

Twins(p) == {q \in New : disk[q].text = disk[p].text}

\* After a rescan nothing interfered with, every file that can be seen is registered,
\* available and indexed as it is, and every registration whose file is gone from a folder
\* the rescan walked is missing.  Two new files with one text are left to the next rescan
\* when several workers race for the registration they could both be.
Converges ==
  rescan.at = "done" /\ rescan.quiet /\ (Workers = 1 \/ \A p \in New : Twins(p) = {p}) =>
    /\ \A p \in Paths : Visible(p) /\ disk[p].mtime \notin torn =>
         \E i \in At(p) : /\ rows[i].missing = None
                          /\ rows[i].mtime = disk[p].mtime /\ rows[i].text = disk[p].text
    /\ \A i \in DOMAIN rows :
         FolderOf[rows[i].path] \in rescan.covered /\ rows[i].path \notin hidden
           /\ disk[rows[i].path] = None => rows[i].missing # None

\* After such a rescan a document that moved keeps its registration: the one new file with
\* the text of the one registration that was not found has that registration's id.
MoveKeepsId ==
  rescan.at = "done" /\ rescan.quiet =>
    \A p \in New, i \in DOMAIN rescan.known :
      Twins(p) = {p} /\ Candidates(disk[p].text) = {i}
        => i \in DOMAIN rows /\ rows[i].path = p

\* A registration has been missing only since after it was last seen, so that the days of
\* grace before it is purged start anew whenever it comes back.
MissingAfterSeen ==
  \A i \in DOMAIN rows : rows[i].missing # None => rows[i].missing >= rows[i].seen

\* A document keeps its registration: with its id when it moves, and with new days of grace
\* whenever it has been seen.
RegistrationsAreKept == MoveKeepsId /\ MissingAfterSeen

\* A registration is moved away only from a path where nothing was at some moment after its
\* folder was walked (docs/architecture.md:58: a folder that failed to scan proves nothing).
OnlyTheGoneMove ==
  [][\A i \in DOMAIN rows \cap DOMAIN rows' :
       rows'[i].path # rows[i].path => rows[i].path \in rescan.lost]_vars
=============================================================================

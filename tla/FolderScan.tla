----------------------------- MODULE FolderScan -----------------------------
(***************************************************************************)
(* The scan of one watched folder (collect_supported_paths_with_stats,     *)
(* backend/core/library_scanner.py) and the snapshot that saves it the     *)
(* walk when nothing changed (backend/core/library_scan_cache.py): the     *)
(* paths found by the last walk, and the modification time every directory *)
(* had before the walk listed it.  Files and directories come and go, and  *)
(* directories become unreadable and readable again, at any moment.        *)
(*                                                                         *)
(* Dirs and Files are the places of a tree that the scan would look at:    *)
(* excluded directories and unsupported files are not among them, and a    *)
(* scan that is not recursive has one directory.  The modification time    *)
(* and the inode of a directory are one stamp, new whenever an entry comes *)
(* or goes.                                                                *)
(***************************************************************************)
EXTENDS Naturals, FiniteSets

CONSTANTS
  Dirs,      \* the watched folder and the directories below it
  Root,      \* the watched folder
  Files,     \* supported files
  Parent,    \* the directory of each other directory and file
  Above,     \* the directories above each of them
  MaxReuse,  \* MAX_SNAPSHOT_REUSE_COUNT
  MaxOps,    \* bound on what happens to the tree and to the cache file
  None       \* no snapshot, no directory

Entries == (Dirs \cup Files) \ {Root}

ASSUME TreeAssumption ==
  /\ Root \in Dirs /\ Dirs \cap Files = {} /\ None \notin Dirs \cup Files
  /\ Parent \in [Entries -> Dirs] /\ Above \in [Dirs \cup Files -> SUBSET Dirs]
  /\ Above[Root] = {}
  /\ \A e \in Entries : Root \in Above[e] /\ Above[e] = {Parent[e]} \cup Above[Parent[e]]

\* From the root down every directory above an entry is reached.
ASSUME DescentAssumption ==
  \A e \in Entries : \A S \in SUBSET Dirs :
    Root \in S /\ (\A c \in Above[e] \ {Root} : Parent[c] \in S => c \in S) => Above[e] \subseteq S
ASSUME BoundsAssumption == MaxReuse \in Nat /\ MaxOps \in Nat

VARIABLES
  there,     \* the directories and files that exist
  stamp,     \* the last modification of each directory
  shut,      \* directories that cannot be listed, nor anything below them be looked at
  ops,       \* events so far
  snapshot,  \* the entry of library_scan_cache.json
  scan,      \* the scan in progress
  always,    \* (history) files that could be seen ever since the scan began
  ever,      \* (history) files that could be seen at some moment since then
  misses,    \* (history) scans in a row that missed a file that could be seen throughout
  failures   \* (history) writes of the cache file that failed

world == <<there, stamp, shut, ops>>
vars  == <<world, snapshot, scan, always, ever, misses, failures>>

\* blind (history): the directories the walk could not sign or list.
Snapshots ==
  [paths : SUBSET Files, signatures : SUBSET (Dirs \X Nat), blind : SUBSET Dirs,
   reuse : Nat, old : BOOLEAN]

Signed(signatures) == {s[1] : s \in signatures}

Idle == [at |-> "idle",
         stack |-> {},       \* directories to visit, or to validate
         dir |-> None,       \* the directory in hand
         files |-> {},       \* files to validate
         found |-> {},       \* the paths of the result
         signatures |-> {},  \* directory_signatures
         blind |-> {},       \* (history) directories it could not sign or list
         source |-> "none"]  \* discovery_source

Scans ==
  [at : {"idle", "load", "dirs", "files", "discover", "walk", "list", "done"},
   stack : SUBSET Dirs, dir : Dirs \cup {None}, files : SUBSET Files, found : SUBSET Files,
   signatures : SUBSET (Dirs \X Nat), blind : SUBSET Dirs,
   source : {"none", "filesystem", "snapshot_cache", "everything_sdk"}]

TypeOK ==
  /\ there \subseteq Dirs \cup Files /\ shut \subseteq Dirs
  /\ ops \in 0..MaxOps /\ stamp \in [Dirs -> 0..ops] /\ failures \in 0..ops
  /\ snapshot \in Snapshots \cup {None}
  /\ scan \in Scans /\ (scan.at = "list" => scan.dir \in Dirs)
  /\ always \subseteq Files /\ ever \subseteq Files
  /\ misses \in [Files -> Nat]

-----------------------------------------------------------------------------
(* The tree.                                                               *)

Children(d) == {e \in Entries : Parent[e] = d}

\* os.stat finds it: it exists, and so does every directory above it, open.
Reachable(e) == {e} \cup Above[e] \subseteq there /\ Above[e] \cap shut = {}

Listable(d) == Reachable(d) /\ d \notin shut

Visible == {f \in Files : Reachable(f)}

\* The two histories in a step that changes the tree.
Witness ==
  /\ always' = always \cap Visible'
  /\ ever' = IF scan.at = "idle" THEN {} ELSE ever \cup Visible'

Happens == ops < MaxOps /\ ops' = ops + 1

\* An entry appears in a directory, an empty one or a file disappears.
Appear(e) ==
  /\ Happens /\ e \notin there /\ Parent[e] \in there
  /\ there' = there \cup {e}
  /\ stamp' = [d \in Dirs |-> IF d \in {e, Parent[e]} THEN ops' ELSE stamp[d]]
  /\ UNCHANGED shut

Disappear(e) ==
  /\ Happens /\ e \in there /\ Children(e) \cap there = {}
  /\ there' = there \ {e}
  /\ stamp' = [stamp EXCEPT ![Parent[e]] = ops']
  /\ UNCHANGED shut

\* A change of permissions leaves the modification time alone.
Shut(d) ==
  /\ Happens /\ d \notin shut
  /\ shut' = shut \cup {d}
  /\ UNCHANGED <<there, stamp>>

Open(d) ==
  /\ Happens /\ d \in shut
  /\ shut' = shut \ {d}
  /\ UNCHANGED <<there, stamp>>

ChangeTree ==
  /\ \/ \E e \in Entries : Appear(e) \/ Disappear(e)
     \/ \E d \in Dirs : Shut(d) \/ Open(d)
  /\ Witness
  /\ UNCHANGED <<snapshot, scan, misses, failures>>

\* A day passes: the snapshot is older than MAX_SNAPSHOT_AGE_SECONDS.
Age ==
  /\ Happens /\ snapshot # None /\ ~snapshot.old
  /\ snapshot' = [snapshot EXCEPT !.old = TRUE]
  /\ UNCHANGED <<there, stamp, shut, scan, always, ever, misses, failures>>

\* The cache file is gone, or _read_cache cannot read or understand it.
Lose ==
  /\ Happens /\ snapshot # None
  /\ snapshot' = None
  /\ UNCHANGED <<there, stamp, shut, scan, always, ever, misses, failures>>

-----------------------------------------------------------------------------
(* The scan.                                                               *)

Step(s) == scan' = s
AtWalk  == [scan EXCEPT !.at = "discover", !.stack = {}, !.files = {}]

Begin ==
  /\ scan.at = "idle"
  /\ Step([Idle EXCEPT !.at = "load"])
  /\ always' = Visible /\ ever' = Visible
  /\ UNCHANGED <<world, snapshot, misses, failures>>

\* Mutant: the reuse limit is off by one.
LoadOnceMore ==
  /\ scan.at = "load"
  /\ IF snapshot = None \/ snapshot.reuse > MaxReuse \/ snapshot.old
     THEN Step(AtWalk)
     ELSE Step([scan EXCEPT !.at = "dirs", !.signatures = snapshot.signatures,
                            !.stack = Signed(snapshot.signatures),
                            !.files = snapshot.paths, !.blind = snapshot.blind])
  /\ UNCHANGED <<world, snapshot, always, ever, misses, failures>>

\* _collection_from_cache: load_entry and should_force_full_scan.
Load ==
  /\ scan.at = "load"
  /\ IF snapshot = None \/ snapshot.reuse >= MaxReuse \/ snapshot.old
     THEN Step(AtWalk)
     ELSE Step([scan EXCEPT !.at = "dirs", !.signatures = snapshot.signatures,
                            !.stack = Signed(snapshot.signatures),
                            !.files = snapshot.paths, !.blind = snapshot.blind])
  /\ UNCHANGED <<world, snapshot, always, ever, misses, failures>>

\* A snapshot that is not valid leaves nothing behind.
Forget == [AtWalk EXCEPT !.signatures = {}, !.blind = {}]

\* Mutant: a directory that is there is taken as unchanged.
ValidateExistence(d) ==
  /\ scan.at = "dirs" /\ d \in scan.stack
  /\ IF Reachable(d) THEN Step([scan EXCEPT !.stack = @ \ {d}]) ELSE Step(Forget)
  /\ UNCHANGED <<world, snapshot, always, ever, misses, failures>>

\* _validate_cached_directories, one directory after the other.
ValidateDirectory(d) ==
  /\ scan.at = "dirs" /\ d \in scan.stack
  /\ IF Reachable(d) /\ <<d, stamp[d]>> \in scan.signatures
     THEN Step([scan EXCEPT !.stack = @ \ {d}])
     ELSE Step(Forget)
  /\ UNCHANGED <<world, snapshot, always, ever, misses, failures>>

DirectoriesValid ==
  /\ scan.at = "dirs" /\ scan.stack = {}
  /\ Step([scan EXCEPT !.at = "files"])
  /\ UNCHANGED <<world, snapshot, always, ever, misses, failures>>

\* _validate_cached_paths.
ValidatePath(f) ==
  /\ scan.at = "files" /\ f \in scan.files
  /\ IF Reachable(f) THEN Step([scan EXCEPT !.files = @ \ {f}, !.found = @ \cup {f}])
                     ELSE Step([Forget EXCEPT !.found = {}])
  /\ UNCHANGED <<world, snapshot, always, ever, misses, failures>>

Ends(result) ==
  /\ Step([result EXCEPT !.at = "done"])
  /\ misses' = [f \in Files |-> IF f \in always \ result.found THEN misses[f] + 1 ELSE 0]

\* mark_reused, which reads the file again; the result is valid also when the file cannot
\* be written.
MarkReused ==
  /\ scan.at = "files" /\ scan.files = {}
  /\ Ends([scan EXCEPT !.source = "snapshot_cache"])
  /\ \/ /\ snapshot' = IF snapshot = None THEN None ELSE [snapshot EXCEPT !.reuse = @ + 1]
        /\ UNCHANGED <<ops, failures>>
     \/ /\ snapshot # None /\ Happens
        /\ failures' = failures + 1
        /\ UNCHANGED snapshot
  /\ UNCHANGED <<there, stamp, shut, always, ever>>

\* What Everything may answer: its index need not agree with the tree.  An empty list is
\* not trusted.
Listings == (SUBSET Files) \ {{}}

\* _collection_from_everything: what it lists is not saved.
AskEverything ==
  /\ scan.at = "discover"
  /\ \/ Step([scan EXCEPT !.at = "walk", !.stack = {Root}])
     \/ \E listed \in Listings :
          Step([scan EXCEPT !.at = "done", !.source = "everything_sdk", !.found = listed])
  /\ UNCHANGED <<world, snapshot, always, ever, misses, failures>>

\* _scan_directory: the signature of a directory is taken before it is listed.
Sign(d) ==
  /\ scan.at = "walk" /\ d \in scan.stack
  /\ LET next == [scan EXCEPT !.at = "list", !.dir = d, !.stack = @ \ {d}]
     IN  IF Reachable(d) THEN Step([next EXCEPT !.signatures = @ \cup {<<d, stamp[d]>>}])
                         ELSE Step([next EXCEPT !.blind = @ \cup {d}])
  /\ UNCHANGED <<world, snapshot, always, ever, misses, failures>>

List ==
  /\ scan.at = "list"
  /\ LET d == scan.dir
         entries == Children(d) \cap there
     IN  IF Listable(d)
         THEN Step([scan EXCEPT !.at = "walk", !.dir = None,
                                !.found = @ \cup (entries \cap Files),
                                !.stack = @ \cup (entries \cap Dirs)])
         ELSE Step([scan EXCEPT !.at = "walk", !.dir = None, !.blind = @ \cup {d}])
  /\ UNCHANGED <<world, snapshot, always, ever, misses, failures>>

\* save_entry, unless nothing could be signed or the file cannot be written.  created_at is
\* kept from the snapshot replaced: once that one is too old, its successors are.
Save ==
  /\ scan.at = "walk" /\ scan.stack = {}
  /\ Ends([scan EXCEPT !.source = "filesystem"])
  /\ \/ /\ scan.signatures # {}
        /\ snapshot' = [paths |-> scan.found, signatures |-> scan.signatures,
                        blind |-> scan.blind, reuse |-> 0,
                        old |-> snapshot # None /\ snapshot.old]
        /\ UNCHANGED <<ops, failures>>
     \/ /\ scan.signatures # {} /\ Happens
        /\ failures' = failures + 1
        /\ UNCHANGED snapshot
     \/ scan.signatures = {} /\ UNCHANGED <<snapshot, ops, failures>>
  /\ UNCHANGED <<there, stamp, shut, always, ever>>

End ==
  /\ scan.at = "done"
  /\ Step(Idle)
  /\ always' = {} /\ ever' = {}
  /\ UNCHANGED <<world, snapshot, misses, failures>>
-----------------------------------------------------------------------------
Init ==
  /\ \E gone \in SUBSET Entries :
       /\ \A e \in gone : Children(e) \subseteq gone
       /\ there = (Dirs \cup Files) \ gone
  /\ stamp = [d \in Dirs |-> 0]
  /\ shut = {} /\ ops = 0 /\ failures = 0
  /\ snapshot = None /\ scan = Idle
  /\ always = {} /\ ever = {}
  /\ misses = [f \in Files |-> 0]

Scan ==
  \/ Begin \/ Load \/ DirectoriesValid \/ MarkReused \/ AskEverything \/ List \/ Save \/ End
  \/ \E d \in Dirs : ValidateDirectory(d) \/ Sign(d)
  \/ \E f \in Files : ValidatePath(f)

Next == Scan \/ ChangeTree \/ Age \/ Lose

Spec == Init /\ [][Next]_vars

-----------------------------------------------------------------------------
(* What a scan promises.                                                   *)

\* From a snapshot or by a walk, a scan finds every file that could be seen all the time,
\* and only files that could be seen at some time.  The exception are the files below a
\* directory that could not be signed or listed when the walk was made: opening it again
\* changes no signature, and a directory without one is not validated.
ScanIsExact ==
  scan.at = "done" /\ scan.source # "everything_sdk" =>
    /\ {f \in always : Above[f] \cap scan.blind = {}} \subseteq scan.found
    /\ scan.found \subseteq ever

\* No file stays unseen for longer than a snapshot may be used, a further scan being missed
\* at most for every time the cache file could not be written.
MissedNotForLong == \A f \in Files : misses[f] <= MaxReuse + failures
=============================================================================

-------------------------- MODULE FolderScanProofs --------------------------
(***************************************************************************)
(* Proofs about FolderScan, for any tree and any limit of the reuse.       *)
(*                                                                         *)
(* The argument for exactness.  A signature that still has the stamp of    *)
(* its directory tells that the directory holds nothing that was not       *)
(* listed (Faithful), because the signature is taken first and a change    *)
(* renews the stamp.  On the way down to a file that can be seen all the   *)
(* time every directory that was listed, or validated, leads to the next   *)
(* (Followed); when nothing is pending the way ends at the file.           *)
(***************************************************************************)
EXTENDS FolderScan, TLAPS

Pending == scan.stack \cup {scan.dir}
Known   == Signed(scan.signatures) \cup scan.blind \cup Pending
Walks   == scan.at \in {"walk", "list"}
Works   == scan.at \in {"dirs", "files", "walk", "list"}

HistoryInv ==
  /\ always \subseteq Visible
  /\ scan.at # "idle" => Visible \subseteq ever
  /\ Works => scan.found \subseteq ever

ShapeInv ==
  /\ scan.at \in {"load", "discover"} =>
       /\ scan.stack = {} /\ scan.files = {} /\ scan.found = {}
       /\ scan.signatures = {} /\ scan.blind = {}
  /\ scan.at = "dirs" => scan.found = {} /\ scan.stack \subseteq Signed(scan.signatures)
  /\ scan.at = "files" => scan.stack = {}
  /\ Walks => scan.files = {}
  /\ IF scan.at = "list" THEN scan.dir \in Signed(scan.signatures) \cup scan.blind
                         ELSE scan.dir = None

\* No signature is from the future.
Past(signatures) == \A s \in signatures : s[2] <= ops

\* The directories that have the stamp they had hold only what is listed or known.
Faithful(paths, signatures, known, undone) ==
  \A d \in Dirs \ undone : <<d, stamp[d]>> \in signatures => Children(d) \cap there \subseteq paths \cup known

SnapshotOK(s) ==
  /\ Past(s.signatures)
  /\ Root \in Signed(s.signatures) \cup s.blind
  /\ Faithful(s.paths, s.signatures, Signed(s.signatures) \cup s.blind, s.blind)

SnapshotInv == snapshot # None => SnapshotOK(snapshot)

SignatureInv ==
  /\ Past(scan.signatures)
  /\ Works => Root \in Known
  /\ scan.at = "dirs" => Faithful(scan.files, scan.signatures, Known, scan.blind)
  /\ Walks => Faithful(scan.found, scan.signatures, Known, scan.blind \cup Pending)

Way(f) == (Above[f] \cup {f}) \ {Root}

Followed(f) ==
  \A c \in Way(f) :
    Parent[c] \in Signed(scan.signatures) \ (scan.blind \cup Pending)
      => c \in scan.files \cup scan.found \cup Known

WayInv == Works => \A f \in always : Followed(f)

ExactInv ==
  TypeOK /\ HistoryInv /\ ShapeInv /\ SnapshotInv /\ SignatureInv /\ WayInv /\ ScanIsExact

\* A walk sees whatever can be seen all the time.
SightInv == Walks => \A f \in always : Above[f] \cap scan.blind = {}

\* No file has been missed more often than the snapshot was used.
MissInv ==
  \A f \in Files :
    /\ misses[f] <= MaxReuse + failures
    /\ snapshot # None => snapshot.reuse <= MaxReuse /\ misses[f] <= snapshot.reuse + failures
    /\ scan.at \in {"dirs", "files"} =>
         misses[f] < MaxReuse + failures /\ (snapshot # None => snapshot.reuse < MaxReuse)

MissedInv == ExactInv /\ SightInv /\ MissInv

-----------------------------------------------------------------------------
(* The tree.                                                               *)

LEMMA TreeFacts ==
  /\ Root \in Dirs
  /\ \A e \in Dirs \cup Files : Above[e] \subseteq Dirs
  /\ \A e \in Entries : Parent[e] \in Dirs /\ Parent[e] \in Above[e] /\ Root \in Above[e]
  /\ \A f \in Files : f \in Entries /\ f \notin Dirs
BY TreeAssumption DEF Entries

\* What is above a directory is above whatever that directory is above of.
LEMMA AboveTransitive ==
  ASSUME NEW e \in Entries, NEW d \in Above[e]
  PROVE  Above[d] \subseteq Above[e]
<1> DEFINE S == {a \in Above[e] : Above[a] \subseteq Above[e]}
<1>1. S \in SUBSET Dirs
  BY TreeFacts DEF Entries
<1>2. Root \in S
  BY TreeFacts, TreeAssumption
<1>3. ASSUME NEW c \in Above[e] \ {Root}, Parent[c] \in S PROVE c \in S
  <2>1. c \in Entries
    BY TreeFacts DEF Entries
  <2>2. Above[c] = {Parent[c]} \cup Above[Parent[c]]
    BY <2>1, TreeAssumption
  <2>3. QED
    BY <1>3, <2>2
<1>4. Above[e] \subseteq S
  BY <1>1, <1>2, <1>3, DescentAssumption
<1>5. QED
  BY <1>4

\* Whatever is above something reachable can be looked at and listed.
LEMMA AboveListable ==
  ASSUME NEW e \in Entries, Reachable(e), NEW d \in Above[e]
  PROVE  Listable(d)
<1>1. Above[d] \subseteq Above[e]
  BY AboveTransitive
<1>2. QED
  BY <1>1 DEF Listable, Reachable

-----------------------------------------------------------------------------
(* Types.                                                                  *)

LEMMA InitTypes == Init => TypeOK
<1> SUFFICES ASSUME Init PROVE TypeOK
  OBVIOUS
<1> USE BoundsAssumption, TreeAssumption DEF Init
<1>1. there \subseteq Dirs \cup Files
  OBVIOUS
<1>2. scan \in Scans
  BY DEF Idle, Scans
<1>3. /\ shut \subseteq Dirs /\ ops \in 0..MaxOps /\ stamp \in [Dirs -> 0..ops]
      /\ failures \in 0..ops /\ always \subseteq Files /\ ever \subseteq Files
      /\ misses \in [Files -> Nat] /\ scan.at # "list" /\ snapshot = None
  BY DEF Idle
<1>4. QED
  BY <1>1, <1>2, <1>3 DEF TypeOK

ScanTyped == scan \in Scans /\ (scan.at = "list" => scan.dir \in Dirs)

LEMMA ScanTypes == TypeOK /\ Scan => ScanTyped'
<1> SUFFICES ASSUME TypeOK, Scan PROVE ScanTyped'
  OBVIOUS
<1>t. /\ scan \in Scans /\ snapshot \in Snapshots \cup {None} /\ stamp \in [Dirs -> Nat]
      /\ scan.at = "list" => scan.dir \in Dirs
      /\ Root \in Dirs
  BY TreeFacts, BoundsAssumption DEF TypeOK
<1>f. /\ scan.stack \in SUBSET Dirs /\ scan.blind \in SUBSET Dirs
      /\ scan.files \in SUBSET Files /\ scan.found \in SUBSET Files
      /\ scan.signatures \in SUBSET (Dirs \X Nat)
  BY <1>t DEF Scans
<1>w. AtWalk \in Scans /\ AtWalk.at = "discover" /\ Forget \in Scans /\ Forget.at = "discover"
  BY <1>t DEF AtWalk, Forget, Scans
<1>1. CASE Begin
  BY <1>1 DEF Begin, Step, Idle, Scans, ScanTyped
<1>2. CASE Load
  <2> DEFINE taken == [scan EXCEPT !.at = "dirs", !.signatures = snapshot.signatures,
                            !.stack = Signed(snapshot.signatures),
                            !.files = snapshot.paths, !.blind = snapshot.blind]
  <2>1. ASSUME snapshot \in Snapshots PROVE taken \in Scans /\ taken.at = "dirs"
    <3>1. /\ snapshot.signatures \in SUBSET (Dirs \X Nat) /\ snapshot.paths \in SUBSET Files
          /\ snapshot.blind \in SUBSET Dirs
      BY <2>1 DEF Snapshots
    <3>2. Signed(snapshot.signatures) \in SUBSET Dirs
      BY <3>1 DEF Signed
    <3>3. QED
      BY <1>t, <3>1, <3>2 DEF Scans
  <2>2. scan' = AtWalk \/ (snapshot # None /\ scan' = taken)
    BY <1>2 DEF Load, Step
  <2>3. QED
    BY <1>t, <1>w, <2>1, <2>2 DEF ScanTyped
<1>3. CASE DirectoriesValid
  BY <1>3, <1>t DEF DirectoriesValid, Step, Scans, ScanTyped
<1>4. CASE MarkReused
  BY <1>4, <1>t DEF MarkReused, Ends, Step, Scans, ScanTyped
<1>5. CASE AskEverything
  <2>1. CASE scan' = [scan EXCEPT !.at = "walk", !.stack = {Root}]
    <3>1. {Root} \in SUBSET Dirs
      BY <1>t
    <3>2. QED
      BY <1>t, <2>1, <3>1 DEF Scans, ScanTyped
  <2>2. ASSUME NEW listed \in SUBSET Files,
               scan' = [scan EXCEPT !.at = "done", !.source = "everything_sdk",
                                    !.found = listed]
        PROVE  ScanTyped'
    BY <1>t, <2>2 DEF Scans, ScanTyped
  <2>3. QED
    BY <1>5, <2>1, <2>2 DEF AskEverything, Step, Listings
<1>6. CASE List
  <2> DEFINE entries == Children(scan.dir) \cap there
             more == scan.found \cup (entries \cap Files)
             next == scan.stack \cup (entries \cap Dirs)
             dark == scan.blind \cup {scan.dir}
  <2>1. more \in SUBSET Files /\ next \in SUBSET Dirs /\ dark \in SUBSET Dirs
    BY <1>6, <1>t, <1>f DEF List
  <2>2. \/ scan' = [scan EXCEPT !.at = "walk", !.dir = None, !.found = more, !.stack = next]
        \/ scan' = [scan EXCEPT !.at = "walk", !.dir = None, !.blind = dark]
    BY <1>6 DEF List, Step
  <2>3. QED
    <3> HIDE DEF more, next, dark
    <3> QED
      BY <1>t, <2>1, <2>2, ZenonT(30) DEF Scans, ScanTyped
<1>7. CASE Save
  BY <1>7, <1>t DEF Save, Ends, Step, Scans, ScanTyped
<1>8. CASE End
  BY <1>8 DEF End, Step, Idle, Scans, ScanTyped
<1>9. ASSUME NEW d \in Dirs, ValidateDirectory(d) PROVE ScanTyped'
  <2>1. CASE scan' = [scan EXCEPT !.stack = @ \ {d}]
    BY <1>9, <1>t, <2>1 DEF ValidateDirectory, Scans, ScanTyped
  <2>2. QED
    BY <1>9, <1>w, <2>1 DEF ValidateDirectory, Step, ScanTyped
<1>10. ASSUME NEW d \in Dirs, Sign(d) PROVE ScanTyped'
  <2> DEFINE rest == scan.stack \ {d}
             more == scan.signatures \cup {<<d, stamp[d]>>}
             dark == scan.blind \cup {d}
  <2>1. rest \in SUBSET Dirs /\ more \in SUBSET (Dirs \X Nat) /\ dark \in SUBSET Dirs
    BY <1>t, <1>f
  <2>2. \/ scan' = [scan EXCEPT !.at = "list", !.dir = d, !.stack = rest, !.signatures = more]
        \/ scan' = [scan EXCEPT !.at = "list", !.dir = d, !.stack = rest, !.blind = dark]
    BY <1>10, <1>t DEF Sign, Step, Scans
  <2>3. QED
    <3> HIDE DEF rest, more, dark
    <3> QED
      BY <1>t, <2>1, <2>2, ZenonT(30) DEF Scans, ScanTyped
<1>11. ASSUME NEW f \in Files, ValidatePath(f) PROVE ScanTyped'
  <2> DEFINE rest == scan.files \ {f}
             more == scan.found \cup {f}
  <2>1. rest \in SUBSET Files /\ more \in SUBSET Files
    BY <1>f
  <2>2. scan' = [scan EXCEPT !.files = rest, !.found = more] \/ scan' = [Forget EXCEPT !.found = {}]
    BY <1>11 DEF ValidatePath, Step
  <2>3. QED
    <3> HIDE DEF rest, more
    <3>1. CASE scan' = [scan EXCEPT !.files = rest, !.found = more]
      BY <1>11, <1>t, <2>1, <3>1 DEF ValidatePath, Scans, ScanTyped
    <3>2. CASE scan' = [Forget EXCEPT !.found = {}]
      BY <1>w, <3>2 DEF Scans, ScanTyped
    <3>3. QED
      BY <2>2, <3>1, <3>2
<1>12. QED
  BY <1>1, <1>2, <1>3, <1>4, <1>5, <1>6, <1>7, <1>8, <1>9, <1>10, <1>11 DEF Scan

LEMMA NextTypes == TypeOK /\ [Next]_vars => TypeOK'
<1> SUFFICES ASSUME TypeOK, [Next]_vars PROVE TypeOK'
  OBVIOUS
<1>1. CASE ChangeTree
  <2> USE <1>1, BoundsAssumption, TreeFacts DEF TypeOK, ChangeTree, Witness, Visible
  <2>1. ASSUME NEW e \in Entries, Appear(e) PROVE TypeOK'
    BY <2>1 DEF Appear, Happens, Entries
  <2>2. ASSUME NEW e \in Entries, Disappear(e) PROVE TypeOK'
    BY <2>2 DEF Disappear, Happens, Entries
  <2>3. ASSUME NEW d \in Dirs, Shut(d) PROVE TypeOK'
    BY <2>3 DEF Shut, Happens
  <2>4. ASSUME NEW d \in Dirs, Open(d) PROVE TypeOK'
    BY <2>4 DEF Open, Happens
  <2>5. QED
    BY <2>1, <2>2, <2>3, <2>4
<1>2. CASE Age
  <2>1. snapshot' \in Snapshots
    BY <1>2 DEF Age, Snapshots, TypeOK
  <2>2. QED
    BY <1>2, <2>1, BoundsAssumption DEF Age, Happens, TypeOK
<1>3. CASE Lose
  BY <1>3, BoundsAssumption DEF Lose, Happens, TypeOK
<1>4. CASE Scan
  <2>1. scan' \in Scans /\ (scan'.at = "list" => scan'.dir \in Dirs)
    BY <1>4, ScanTypes DEF ScanTyped
  <2>2. /\ there \subseteq Dirs \cup Files /\ shut \subseteq Dirs
        /\ ops \in 0..MaxOps /\ stamp \in [Dirs -> 0..ops] /\ failures \in 0..ops
        /\ snapshot \in Snapshots \cup {None} /\ scan \in Scans
        /\ always \subseteq Files /\ ever \subseteq Files /\ misses \in [Files -> Nat]
    BY DEF TypeOK
  <2> DEFINE Rest == /\ there' \subseteq Dirs \cup Files /\ shut' \subseteq Dirs
                     /\ ops' \in 0..MaxOps /\ stamp' \in [Dirs -> 0..ops'] /\ failures' \in 0..ops'
                     /\ snapshot' \in Snapshots \cup {None}
                     /\ always' \subseteq Files /\ ever' \subseteq Files
                     /\ misses' \in [Files -> Nat]
  <2>3. ASSUME Begin PROVE Rest
    BY <2>2, <2>3 DEF Begin, Visible, world
  <2>4. ASSUME End PROVE Rest
    BY <2>2, <2>4 DEF End, world
  <2>5. ASSUME MarkReused PROVE Rest
    <3>1. misses' \in [Files -> Nat]
      BY <2>2, <2>5 DEF MarkReused, Ends
    <3>2. snapshot' \in Snapshots \cup {None}
      BY <2>2, <2>5 DEF MarkReused, Snapshots
    <3>3. ops' \in 0..MaxOps /\ stamp' \in [Dirs -> 0..ops'] /\ failures' \in 0..ops'
      BY <2>2, <2>5, BoundsAssumption DEF MarkReused, Happens
    <3>4. QED
      BY <2>2, <2>5, <3>1, <3>2, <3>3 DEF MarkReused
  <2>6. ASSUME Save PROVE Rest
    <3>1. misses' \in [Files -> Nat]
      BY <2>2, <2>6 DEF Save, Ends
    <3>2. snapshot' \in Snapshots \cup {None}
      <4> DEFINE old == snapshot # None /\ snapshot.old
      <4>1. old \in BOOLEAN
        BY <2>2 DEF Snapshots
      <4>2. /\ scan.found \in SUBSET Files /\ scan.signatures \in SUBSET (Dirs \X Nat)
            /\ scan.blind \in SUBSET Dirs
        BY <2>2 DEF Scans
      <4>3. \/ snapshot' = snapshot
            \/ snapshot' = [paths |-> scan.found, signatures |-> scan.signatures,
                            blind |-> scan.blind, reuse |-> 0, old |-> old]
        BY <2>6 DEF Save
      <4> HIDE DEF old
      <4>4. QED
        BY <2>2, <4>1, <4>2, <4>3 DEF Snapshots
    <3>3. ops' \in 0..MaxOps /\ stamp' \in [Dirs -> 0..ops'] /\ failures' \in 0..ops'
      BY <2>2, <2>6, BoundsAssumption DEF Save, Happens
    <3>4. QED
      BY <2>2, <2>6, <3>1, <3>2, <3>3 DEF Save
  <2>7. ASSUME UNCHANGED <<world, snapshot, always, ever, misses, failures>> PROVE Rest
    BY <2>2, <2>7 DEF world
  <2>8. Rest
    BY <1>4, <2>3, <2>4, <2>5, <2>6, <2>7
    DEF Scan, Load, DirectoriesValid, AskEverything, List, ValidateDirectory, Sign, ValidatePath
  <2>9. QED
    BY <2>1, <2>8 DEF TypeOK
<1>5. CASE UNCHANGED vars
  BY <1>5 DEF vars, world, TypeOK
<1>6. QED
  BY <1>1, <1>2, <1>3, <1>4, <1>5 DEF Next

\* The variables have their types.
THEOREM TypeCorrect == Spec => []TypeOK
BY InitTypes, NextTypes, PTL DEF Spec
-----------------------------------------------------------------------------
(* What the tree and the files of a step have to do with each other.       *)

\* A directory that has the stamp it once had holds nothing new.
LEMMA StampTells ==
  ASSUME TypeOK, ChangeTree, NEW d \in Dirs, stamp'[d] <= ops
  PROVE  stamp'[d] = stamp[d] /\ Children(d) \cap there' \subseteq there
<1> USE TreeFacts, BoundsAssumption DEF TypeOK
<1>1. ASSUME NEW e \in Entries, Appear(e) PROVE stamp'[d] = stamp[d] /\ Children(d) \cap there' \subseteq there
  BY <1>1 DEF Appear, Happens, Children
<1>2. ASSUME NEW e \in Entries, Disappear(e) PROVE stamp'[d] = stamp[d] /\ Children(d) \cap there' \subseteq there
  BY <1>2 DEF Disappear, Happens
<1>3. ASSUME NEW e \in Dirs, Shut(e) \/ Open(e) PROVE stamp'[d] = stamp[d] /\ Children(d) \cap there' \subseteq there
  BY <1>3 DEF Shut, Open
<1>4. QED
  BY <1>1, <1>2, <1>3 DEF ChangeTree

\* Time does not go back, and a change of the tree leaves the scan alone.
LEMMA TreeSteps ==
  ASSUME TypeOK, ChangeTree
  PROVE  /\ ops' = ops + 1 /\ always' \subseteq always /\ always' \subseteq Visible'
         /\ scan' = scan /\ snapshot' = snapshot /\ misses' = misses /\ failures' = failures
         /\ scan.at # "idle" => ever' = ever \cup Visible'
BY DEF TypeOK, ChangeTree, Witness, Appear, Disappear, Shut, Open, Happens

\* A step of the scan leaves the tree alone.
LEMMA ScanSteps ==
  ASSUME TypeOK, Scan \/ Age \/ Lose
  PROVE  /\ there' = there /\ stamp' = stamp /\ shut' = shut
         /\ ops' \in {ops, ops + 1}
BY DEF TypeOK, Scan, Age, Lose, Begin, Load, DirectoriesValid, MarkReused, AskEverything, List,
     Save,
       End, ValidateDirectory, Sign, ValidatePath, Happens, world

LEMMA SignedFacts ==
  ASSUME NEW G \in SUBSET (Dirs \X Nat), NEW d \in Dirs, NEW n \in Nat
  PROVE  /\ Signed(G) \subseteq Dirs
         /\ Signed(G \cup {<<d, n>>}) = Signed(G) \cup {d}
         /\ <<d, n>> \in G => d \in Signed(G)
<1>1. \A s \in G : s[1] \in Dirs
  OBVIOUS
<1>2. <<d, n>>[1] = d
  OBVIOUS
<1>3. QED
  BY <1>1, <1>2, Zenon DEF Signed

\* What each step of a scan does, field by field.
Calm == UNCHANGED <<there, stamp, shut, ops, snapshot, always, ever, misses, failures>>

\* The scan goes on to look for what is there with nothing found so far.
ToDiscover == scan'.at = "discover" /\ scan'.stack = {} /\ scan'.files = {} /\ scan'.dir = scan.dir

LEMMA BeginEffect ==
  ASSUME Begin
  PROVE  /\ scan.at = "idle" /\ scan'.at = "load" /\ scan'.stack = {} /\ scan'.files = {}
         /\ scan'.found = {} /\ scan'.signatures = {} /\ scan'.blind = {} /\ scan'.dir = None
         /\ always' = Visible /\ ever' = Visible
         /\ UNCHANGED <<there, stamp, shut, ops, snapshot, misses, failures>>
BY DEF Begin, Step, Idle, world

LEMMA EndEffect ==
  ASSUME End
  PROVE  /\ scan.at = "done" /\ scan'.at = "idle" /\ scan'.signatures = {} /\ scan'.dir = None
         /\ always' = {} /\ ever' = {}
         /\ UNCHANGED <<there, stamp, shut, ops, snapshot, misses, failures>>
BY DEF End, Step, Idle, world

LEMMA LoadEffect ==
  ASSUME scan \in Scans, Load
  PROVE  /\ scan.at = "load" /\ Calm
         /\ \/ /\ ToDiscover /\ scan'.found = scan.found
               /\ scan'.signatures = scan.signatures /\ scan'.blind = scan.blind
            \/ /\ snapshot # None /\ ~(snapshot.reuse >= MaxReuse)
               /\ scan'.at = "dirs" /\ scan'.signatures = snapshot.signatures
               /\ scan'.stack = Signed(snapshot.signatures) /\ scan'.files = snapshot.paths
               /\ scan'.blind = snapshot.blind /\ scan'.found = scan.found
               /\ scan'.dir = scan.dir
BY DEF Load, Step, AtWalk, Scans, world, Calm, ToDiscover

LEMMA ValidateDirectoryEffect ==
  ASSUME scan \in Scans, NEW d \in Dirs, ValidateDirectory(d)
  PROVE  /\ scan.at = "dirs" /\ d \in scan.stack /\ Calm
         /\ \/ /\ <<d, stamp[d]>> \in scan.signatures
               /\ scan'.at = "dirs" /\ scan'.stack = scan.stack \ {d}
               /\ scan'.files = scan.files /\ scan'.found = scan.found
               /\ scan'.signatures = scan.signatures /\ scan'.blind = scan.blind
               /\ scan'.dir = scan.dir
            \/ /\ ToDiscover /\ scan'.found = scan.found
               /\ scan'.signatures = {} /\ scan'.blind = {}
BY DEF ValidateDirectory, Step, Forget, AtWalk, Scans, world, Calm, ToDiscover

LEMMA DirectoriesValidEffect ==
  ASSUME scan \in Scans, DirectoriesValid
  PROVE  /\ scan.at = "dirs" /\ scan.stack = {} /\ Calm
         /\ scan'.at = "files" /\ scan'.stack = scan.stack
         /\ scan'.files = scan.files /\ scan'.found = scan.found
         /\ scan'.signatures = scan.signatures /\ scan'.blind = scan.blind /\ scan'.dir = scan.dir
BY DEF DirectoriesValid, Step, Scans, world, Calm

LEMMA ValidatePathEffect ==
  ASSUME scan \in Scans, NEW f \in Files, ValidatePath(f)
  PROVE  /\ scan.at = "files" /\ f \in scan.files /\ Calm
         /\ \/ /\ Reachable(f)
               /\ scan'.at = "files" /\ scan'.stack = scan.stack
               /\ scan'.files = scan.files \ {f} /\ scan'.found = scan.found \cup {f}
               /\ scan'.signatures = scan.signatures /\ scan'.blind = scan.blind
               /\ scan'.dir = scan.dir
            \/ /\ ToDiscover /\ scan'.found = {}
               /\ scan'.signatures = {} /\ scan'.blind = {}
<1>1. CASE Reachable(f)
  <2> DEFINE rest == scan.files \ {f}
             more == scan.found \cup {f}
  <2>1. scan' = [scan EXCEPT !.files = rest, !.found = more]
    BY <1>1 DEF ValidatePath, Step
  <2> HIDE DEF rest, more
  <2>2. /\ scan'.at = scan.at /\ scan'.stack = scan.stack /\ scan'.files = rest
        /\ scan'.found = more /\ scan'.signatures = scan.signatures
        /\ scan'.blind = scan.blind /\ scan'.dir = scan.dir
    BY <2>1 DEF Scans
  <2>3. QED
    BY <1>1, <2>2 DEF ValidatePath, world, Calm, rest, more
<1>2. CASE ~Reachable(f)
  BY <1>2 DEF ValidatePath, Step, Forget, AtWalk, Scans, world, Calm, ToDiscover
<1>3. QED
  BY <1>1, <1>2

LEMMA MarkReusedEffect ==
  ASSUME scan \in Scans, MarkReused
  PROVE  /\ scan.at = "files" /\ scan.files = {}
         /\ scan'.at = "done" /\ scan'.found = scan.found /\ scan'.blind = scan.blind
         /\ scan'.signatures = scan.signatures /\ scan'.dir = scan.dir
         /\ UNCHANGED <<there, stamp, shut, always, ever>>
BY DEF MarkReused, Ends, Step, Scans

LEMMA AskEverythingEffect ==
  ASSUME scan \in Scans, AskEverything
  PROVE  /\ scan.at = "discover" /\ Calm
         /\ scan'.signatures = scan.signatures /\ scan'.blind = scan.blind
         /\ scan'.dir = scan.dir /\ scan'.files = scan.files
         /\ \/ scan'.at = "walk" /\ scan'.stack = {Root} /\ scan'.found = scan.found
            \/ scan'.at = "done" /\ scan'.source = "everything_sdk"
<1>1. CASE scan' = [scan EXCEPT !.at = "walk", !.stack = {Root}]
  BY <1>1 DEF AskEverything, Scans, world, Calm
<1>2. CASE \E listed \in Listings :
             scan' = [scan EXCEPT !.at = "done", !.source = "everything_sdk", !.found = listed]
  BY <1>2 DEF AskEverything, Scans, world, Calm
<1>3. QED
  BY <1>1, <1>2 DEF AskEverything, Step

LEMMA SignEffect ==
  ASSUME scan \in Scans, NEW d \in Dirs, Sign(d)
  PROVE  /\ scan.at = "walk" /\ d \in scan.stack /\ Calm
         /\ scan'.at = "list" /\ scan'.dir = d /\ scan'.stack = scan.stack \ {d}
         /\ scan'.files = scan.files /\ scan'.found = scan.found
         /\ \/ /\ scan'.signatures = scan.signatures \cup {<<d, stamp[d]>>}
               /\ scan'.blind = scan.blind
            \/ /\ ~Reachable(d) /\ scan'.signatures = scan.signatures
               /\ scan'.blind = scan.blind \cup {d}
<1> DEFINE rest == scan.stack \ {d}
           more == scan.signatures \cup {<<d, stamp[d]>>}
           dark == scan.blind \cup {d}
<1>1. \/ scan' = [scan EXCEPT !.at = "list", !.dir = d, !.stack = rest, !.signatures = more]
      \/ /\ ~Reachable(d)
         /\ scan' = [scan EXCEPT !.at = "list", !.dir = d, !.stack = rest, !.blind = dark]
  BY DEF Sign, Step, Scans
<1> HIDE DEF rest, more, dark
<1>2. /\ scan'.at = "list" /\ scan'.dir = d /\ scan'.stack = rest
      /\ scan'.files = scan.files /\ scan'.found = scan.found
      /\ \/ scan'.signatures = more /\ scan'.blind = scan.blind
         \/ ~Reachable(d) /\ scan'.signatures = scan.signatures /\ scan'.blind = dark
  BY <1>1 DEF Scans
<1>3. QED
  BY <1>2 DEF Sign, world, Calm, rest, more, dark

LEMMA ListEffect ==
  ASSUME scan \in Scans, List
  PROVE  /\ scan.at = "list" /\ Calm /\ scan'.at = "walk" /\ scan'.dir = None
         /\ scan'.files = scan.files /\ scan'.signatures = scan.signatures
         /\ \/ /\ Listable(scan.dir) /\ scan'.blind = scan.blind
               /\ scan'.found = scan.found \cup (Children(scan.dir) \cap there \cap Files)
               /\ scan'.stack = scan.stack \cup (Children(scan.dir) \cap there \cap Dirs)
            \/ /\ ~Listable(scan.dir) /\ scan'.blind = scan.blind \cup {scan.dir}
               /\ scan'.found = scan.found /\ scan'.stack = scan.stack
<1> DEFINE more == scan.found \cup (Children(scan.dir) \cap there \cap Files)
           next == scan.stack \cup (Children(scan.dir) \cap there \cap Dirs)
           dark == scan.blind \cup {scan.dir}
<1>1. \/ /\ Listable(scan.dir)
         /\ scan' = [scan EXCEPT !.at = "walk", !.dir = None, !.found = more, !.stack = next]
      \/ /\ ~Listable(scan.dir)
         /\ scan' = [scan EXCEPT !.at = "walk", !.dir = None, !.blind = dark]
  BY DEF List, Step
<1> HIDE DEF more, next, dark
<1>2. /\ scan'.at = "walk" /\ scan'.dir = None
      /\ scan'.files = scan.files /\ scan'.signatures = scan.signatures
      /\ \/ Listable(scan.dir) /\ scan'.blind = scan.blind /\ scan'.found = more /\ scan'.stack = next
         \/ /\ ~Listable(scan.dir) /\ scan'.blind = dark /\ scan'.found = scan.found
            /\ scan'.stack = scan.stack
  BY <1>1 DEF Scans
<1>3. QED
  BY <1>2 DEF List, world, Calm, more, next, dark

LEMMA SaveEffect ==
  ASSUME scan \in Scans, Save
  PROVE  /\ scan.at = "walk" /\ scan.stack = {}
         /\ scan'.at = "done" /\ scan'.found = scan.found /\ scan'.blind = scan.blind
         /\ scan'.signatures = scan.signatures /\ scan'.dir = scan.dir
         /\ UNCHANGED <<there, stamp, shut, always, ever>>
BY DEF Save, Ends, Step, Scans

-----------------------------------------------------------------------------
(* The parts of the invariant.                                             *)

LEMMA InitExact == Init => ExactInv /\ SightInv /\ MissInv
<1> SUFFICES ASSUME Init PROVE ExactInv /\ SightInv /\ MissInv
  OBVIOUS
<1>1. TypeOK
  BY InitTypes
<1>2. /\ scan = Idle /\ snapshot = None /\ always = {} /\ failures = 0
      /\ misses = [f \in Files |-> 0]
  BY DEF Init
<1>3. scan.at = "idle" /\ scan.dir = None /\ scan.signatures = {}
  BY <1>2 DEF Idle
<1>4. HistoryInv /\ ShapeInv /\ SnapshotInv /\ WayInv /\ ScanIsExact /\ SightInv
  BY <1>2, <1>3 DEF HistoryInv, ShapeInv, SnapshotInv, WayInv, ScanIsExact, SightInv, Works, Walks
<1>5. SignatureInv
  BY <1>3 DEF SignatureInv, Works, Walks, Past
<1>6. MissInv
  BY <1>2, <1>3, BoundsAssumption DEF MissInv
<1>7. QED
  BY <1>1, <1>4, <1>5, <1>6 DEF ExactInv

LEMMA NextHistory == TypeOK /\ HistoryInv /\ ShapeInv /\ Next => HistoryInv'
<1> SUFFICES ASSUME TypeOK, HistoryInv, ShapeInv, Next PROVE HistoryInv'
  OBVIOUS
<1>t. scan \in Scans
  BY DEF TypeOK
<1>v. there' = there /\ shut' = shut => Visible' = Visible
  BY DEF Visible, Reachable
<1>1. CASE ChangeTree
  BY <1>1, TreeSteps DEF HistoryInv, Works
<1>2. CASE Age \/ Lose
  BY <1>2, <1>v DEF Age, Lose, HistoryInv, Works
<1>3. CASE Begin
  BY <1>3, <1>v, BeginEffect DEF HistoryInv, Works
<1>4. CASE End
  BY <1>4, <1>v, EndEffect DEF HistoryInv, Works
<1>5. CASE Load
  BY <1>5, <1>t, <1>v, LoadEffect DEF HistoryInv, ShapeInv, Works, Calm, ToDiscover
<1>6. CASE DirectoriesValid
  BY <1>6, <1>t, <1>v, DirectoriesValidEffect DEF HistoryInv, Works, Calm
<1>7. CASE MarkReused
  BY <1>7, <1>t, <1>v, MarkReusedEffect DEF HistoryInv, Works
<1>8. CASE AskEverything
  BY <1>8, <1>t, <1>v, AskEverythingEffect DEF HistoryInv, ShapeInv, Works, Calm
<1>9. CASE List
  <2>1. Listable(scan.dir) => Children(scan.dir) \cap there \cap Files \subseteq Visible
    BY TreeAssumption DEF Children, Listable, Reachable, Visible
  <2>2. QED
    BY <1>9, <1>t, <1>v, <2>1, ListEffect DEF HistoryInv, Works, Calm
<1>10. CASE Save
  BY <1>10, <1>t, <1>v, SaveEffect DEF HistoryInv, Works
<1>11. ASSUME NEW d \in Dirs, ValidateDirectory(d) PROVE HistoryInv'
  BY <1>11, <1>t, <1>v, ValidateDirectoryEffect DEF HistoryInv, Works, Calm, ToDiscover
<1>12. ASSUME NEW d \in Dirs, Sign(d) PROVE HistoryInv'
  BY <1>12, <1>t, <1>v, SignEffect DEF HistoryInv, Works, Calm
<1>13. ASSUME NEW f \in Files, ValidatePath(f) PROVE HistoryInv'
  <2>1. Reachable(f) => f \in Visible
    BY DEF Visible
  <2>2. QED
    BY <1>13, <1>t, <1>v, <2>1, ValidatePathEffect DEF HistoryInv, Works, Calm, ToDiscover
<1>14. QED
  BY <1>1, <1>2, <1>3, <1>4, <1>5, <1>6, <1>7, <1>8, <1>9, <1>10, <1>11, <1>12, <1>13
  DEF Next, Scan

LEMMA NextShape == TypeOK /\ ShapeInv /\ Next => ShapeInv'
<1> SUFFICES ASSUME TypeOK, ShapeInv, Next PROVE ShapeInv'
  OBVIOUS
<1>t. scan \in Scans
  BY DEF TypeOK
<1> USE DEF ShapeInv, Walks
<1>1. CASE ChangeTree
  BY <1>1, TreeSteps
<1>2. CASE Age \/ Lose
  BY <1>2 DEF Age, Lose
<1>3. CASE Begin
  BY <1>3, BeginEffect
<1>4. CASE End
  BY <1>4, EndEffect
<1>5. CASE Load
  BY <1>5, <1>t, LoadEffect DEF ToDiscover
<1>6. CASE DirectoriesValid
  BY <1>6, <1>t, DirectoriesValidEffect
<1>7. CASE MarkReused
  BY <1>7, <1>t, MarkReusedEffect
<1>8. CASE AskEverything
  BY <1>8, <1>t, AskEverythingEffect
<1>9. CASE List
  BY <1>9, <1>t, ListEffect
<1>10. CASE Save
  BY <1>10, <1>t, SaveEffect
<1>11. ASSUME NEW d \in Dirs, ValidateDirectory(d) PROVE ShapeInv'
  BY <1>11, <1>t, ValidateDirectoryEffect DEF ToDiscover
<1>12. ASSUME NEW d \in Dirs, Sign(d) PROVE ShapeInv'
  <2>1. scan.signatures \in SUBSET (Dirs \X Nat) /\ stamp[d] \in Nat
    BY BoundsAssumption DEF TypeOK, Scans
  <2>2. Signed(scan.signatures \cup {<<d, stamp[d]>>}) = Signed(scan.signatures) \cup {d}
    BY <2>1, SignedFacts
  <2>3. QED
    BY <1>12, <1>t, <2>2, SignEffect
<1>13. ASSUME NEW f \in Files, ValidatePath(f) PROVE ShapeInv'
  BY <1>13, <1>t, ValidatePathEffect DEF ToDiscover
<1>14. QED
  BY <1>1, <1>2, <1>3, <1>4, <1>5, <1>6, <1>7, <1>8, <1>9, <1>10, <1>11, <1>12, <1>13
  DEF Next, Scan

\* What a walk that is done knows is as good as a snapshot.
LEMMA WalkDone ==
  ASSUME TypeOK, ShapeInv, SignatureInv, scan.at = "walk", scan.stack = {}
  PROVE  /\ Past(scan.signatures)
         /\ Root \in Signed(scan.signatures) \cup scan.blind
         /\ Faithful(scan.found, scan.signatures, Signed(scan.signatures) \cup scan.blind,
                     scan.blind)
<1>1. Pending = {None}
  BY DEF ShapeInv, Pending
<1>2. None \notin Dirs /\ None \notin Files /\ Root # None
  BY TreeAssumption
<1>3. \A d \in Dirs : None \notin Children(d)
  BY <1>2 DEF Children, Entries
<1>4. QED
  BY <1>1, <1>2, <1>3 DEF SignatureInv, Walks, Works, Known, Faithful

LEMMA NextSnapshot == TypeOK /\ ShapeInv /\ SignatureInv /\ SnapshotInv /\ Next => SnapshotInv'
<1> SUFFICES ASSUME TypeOK, ShapeInv, SignatureInv, SnapshotInv, Next PROVE SnapshotInv'
  OBVIOUS
<1>t. scan \in Scans /\ ops \in Nat /\ snapshot \in Snapshots \cup {None}
  BY BoundsAssumption DEF TypeOK
<1>r. /\ snapshot # None => snapshot.signatures \in SUBSET (Dirs \X Nat)
      /\ scan.signatures \in SUBSET (Dirs \X Nat)
  BY <1>t DEF Snapshots, Scans
<1>1. CASE ChangeTree
  <2> SUFFICES ASSUME snapshot # None PROVE SnapshotOK(snapshot)'
    BY <1>1, TreeSteps DEF SnapshotInv
  <2>1. SnapshotOK(snapshot) /\ snapshot' = snapshot /\ ops' = ops + 1
    BY <1>1, TreeSteps DEF SnapshotInv
  <2>2. Past(snapshot.signatures)'
    BY <1>t, <1>r, <2>1 DEF SnapshotOK, Past
  <2>3. ASSUME NEW d \in Dirs \ snapshot.blind, <<d, stamp'[d]>> \in snapshot.signatures
        PROVE  Children(d) \cap there'
                 \subseteq snapshot.paths \cup (Signed(snapshot.signatures) \cup snapshot.blind)
    <3>1. stamp'[d] <= ops
      BY <2>1, <2>3 DEF SnapshotOK, Past
    <3>2. stamp'[d] = stamp[d] /\ Children(d) \cap there' \subseteq there
      BY <1>1, <3>1, StampTells
    <3>3. QED
      BY <2>1, <2>3, <3>2 DEF SnapshotOK, Faithful
  <2>4. Faithful(snapshot.paths, snapshot.signatures,
                 Signed(snapshot.signatures) \cup snapshot.blind, snapshot.blind)'
    BY <2>1, <2>3 DEF Faithful, Children
  <2>5. QED
    BY <2>1, <2>2, <2>4 DEF SnapshotOK, Signed
<1> DEFINE SameTree == there' = there /\ stamp' = stamp /\ ops' \in {ops, ops + 1}
           SameLists(s, t) == s.paths = t.paths /\ s.signatures = t.signatures /\ s.blind = t.blind
<1>2. ASSUME snapshot # None, SameTree, SameLists(snapshot, snapshot') PROVE SnapshotInv'
  BY <1>2, <1>t, <1>r DEF SnapshotInv, SnapshotOK, Past, Faithful, Children, Signed
<1>3. ASSUME SameTree, snapshot' = snapshot PROVE SnapshotInv'
  BY <1>2, <1>3 DEF SnapshotInv
<1>4. CASE Age
  BY <1>2, <1>4, <1>t DEF Age, Happens, Snapshots
<1>5. CASE Lose
  BY <1>5 DEF Lose, SnapshotInv
<1>6. CASE MarkReused
  <2>1. SameTree
    BY <1>6, <1>t DEF MarkReused, Happens
  <2>2. snapshot' = snapshot \/ (snapshot # None /\ SameLists(snapshot, snapshot'))
    BY <1>6, <1>t DEF MarkReused, Snapshots
  <2>3. QED
    BY <1>2, <1>3, <2>1, <2>2
<1>7. CASE Save
  <2>1. SameTree
    BY <1>7, <1>t DEF Save, Happens
  <2>2. CASE snapshot' = snapshot
    BY <1>3, <2>1, <2>2
  <2>3. CASE snapshot' # snapshot
    <3>1. /\ snapshot'.paths = scan.found /\ snapshot'.signatures = scan.signatures
          /\ snapshot'.blind = scan.blind
      BY <1>7, <2>3 DEF Save
    <3>2. scan.at = "walk" /\ scan.stack = {}
      BY <1>7 DEF Save
    <3>3. QED
      BY <1>t, <1>r, <2>1, <3>1, <3>2, WalkDone
      DEF SnapshotInv, SnapshotOK, Past, Faithful, Children, Signed
  <2>4. QED
    BY <2>2, <2>3
<1>8. CASE Begin
  BY <1>3, <1>8, BeginEffect
<1>9. CASE End
  BY <1>3, <1>9, EndEffect
<1>10. CASE Load \/ DirectoriesValid \/ AskEverything \/ List
  BY <1>3, <1>10, <1>t, LoadEffect, DirectoriesValidEffect, AskEverythingEffect, ListEffect DEF Calm
<1>11. CASE \E d \in Dirs : ValidateDirectory(d) \/ Sign(d)
  BY <1>3, <1>11, <1>t, ValidateDirectoryEffect, SignEffect DEF Calm
<1>12. CASE \E f \in Files : ValidatePath(f)
  BY <1>3, <1>12, <1>t, ValidatePathEffect DEF Calm
<1>13. QED
  BY <1>1, <1>4, <1>5, <1>6, <1>7, <1>8, <1>9, <1>10, <1>11, <1>12 DEF Next, Scan

LEMMA KnownFacts ==
  ASSUME TypeOK
  PROVE  /\ scan.signatures \in SUBSET (Dirs \X Nat)
         /\ ops \in Nat
         /\ \A d \in Dirs : stamp[d] \in Nat /\ stamp[d] <= ops
         /\ \A d \in Dirs : Children(d) \subseteq Dirs \cup Files /\ None \notin Children(d)
         /\ None # Root
<1>1. None \notin Dirs \cup Files
  BY TreeAssumption
<1>2. QED
  BY <1>1, BoundsAssumption, TreeAssumption DEF TypeOK, Scans, Children, Entries

LEMMA NextSignature == TypeOK /\ ShapeInv /\ SignatureInv /\ SnapshotInv /\ Next => SignatureInv'
<1> SUFFICES ASSUME TypeOK, ShapeInv, SignatureInv, SnapshotInv, Next PROVE SignatureInv'
  OBVIOUS
<1>t. scan \in Scans /\ snapshot \in Snapshots \cup {None}
  BY DEF TypeOK
<1>k. /\ scan.signatures \in SUBSET (Dirs \X Nat)
      /\ ops \in Nat
      /\ \A d \in Dirs : stamp[d] \in Nat /\ stamp[d] <= ops
      /\ \A d \in Dirs : Children(d) \subseteq Dirs \cup Files /\ None \notin Children(d)
      /\ None # Root
  BY KnownFacts
<1>1. CASE ChangeTree
  <2>1. scan' = scan /\ ops' = ops + 1
    BY <1>1, TreeSteps
  <2>2. Past(scan.signatures)'
    BY <1>k, <2>1 DEF SignatureInv, Past
  <2>3. ASSUME NEW d \in Dirs, <<d, stamp'[d]>> \in scan.signatures
        PROVE  stamp'[d] = stamp[d] /\ Children(d) \cap there' \subseteq Children(d) \cap there
    <3>1. stamp'[d] <= ops
      BY <2>3 DEF SignatureInv, Past
    <3>2. QED
      BY <1>1, <3>1, StampTells
  <2>4. scan.at = "dirs" => Faithful(scan.files, scan.signatures, Known, scan.blind)'
    BY <2>1, <2>3 DEF SignatureInv, Faithful, Known, Pending, Signed, Children
  <2>5. Walks => Faithful(scan.found, scan.signatures, Known, scan.blind \cup Pending)'
    BY <2>1, <2>3 DEF SignatureInv, Faithful, Known, Pending, Signed, Children
  <2>6. QED
    BY <2>1, <2>2, <2>4, <2>5 DEF SignatureInv, Walks, Works, Known, Pending, Signed
<1>2. ASSUME scan' = scan, there' = there, stamp' = stamp, ops' \in {ops, ops + 1}
      PROVE  SignatureInv'
  BY <1>2, <1>k DEF SignatureInv, Past, Faithful, Known, Pending, Signed, Children, Walks, Works
<1>3. CASE Age \/ Lose
  BY <1>2, <1>3, <1>k DEF Age, Lose, Happens
<1> USE DEF Walks, Works
<1>4. CASE Begin
  BY <1>4, BeginEffect DEF SignatureInv, Past
<1>5. CASE End
  BY <1>5, EndEffect DEF SignatureInv, Past
<1>6. CASE Load
  <2>1. CASE scan'.at = "discover"
    BY <1>6, <1>t, <2>1, LoadEffect DEF SignatureInv, Past, Calm, ToDiscover
  <2>2. CASE scan'.at # "discover"
    <3>1. /\ snapshot # None /\ scan'.at = "dirs" /\ scan'.signatures = snapshot.signatures
          /\ scan'.files = snapshot.paths /\ scan'.blind = snapshot.blind
          /\ there' = there /\ stamp' = stamp /\ ops' = ops
      BY <1>6, <1>t, <2>2, LoadEffect DEF Calm, ToDiscover
    <3>2. SnapshotOK(snapshot)
      BY <3>1 DEF SnapshotInv
    <3>3. Signed(snapshot.signatures) \cup snapshot.blind \subseteq Known'
      BY <3>1 DEF Known, Signed
    <3>4. Past(scan.signatures)' /\ Root \in Known'
      BY <3>1, <3>2, <3>3 DEF SnapshotOK, Past
    <3>5. Faithful(scan.files, scan.signatures, Known, scan.blind)'
      BY <3>1, <3>2, <3>3 DEF SnapshotOK, Faithful, Children
    <3>6. QED
      BY <3>1, <3>4, <3>5 DEF SignatureInv
  <2>3. QED
    BY <2>1, <2>2
<1>7. CASE DirectoriesValid
  BY <1>7, <1>t, DirectoriesValidEffect DEF SignatureInv, Past, Calm, Known, Pending, Signed
<1>8. CASE MarkReused
  BY <1>8, <1>k, <1>t, MarkReusedEffect DEF MarkReused, Happens, SignatureInv, Past
<1>9. CASE AskEverything
  BY <1>9, <1>t, AskEverythingEffect
  DEF ShapeInv, SignatureInv, Past, Faithful, Calm, Known, Pending
<1>10. CASE List
  <2>1. /\ scan.at = "list" /\ scan'.at = "walk" /\ Calm /\ scan'.signatures = scan.signatures
        /\ scan.dir \in Dirs /\ scan.dir \in Signed(scan.signatures) \cup scan.blind
    BY <1>10, <1>t, ListEffect DEF TypeOK, ShapeInv
  <2>2. Known \subseteq Known'
    BY <1>10, <1>t, <2>1, ListEffect DEF Known, Pending, Signed
  <2>3. ASSUME NEW d \in Dirs, d \notin scan'.blind, d \notin Pending',
               <<d, stamp[d]>> \in scan.signatures
        PROVE  Children(d) \cap there \subseteq scan'.found \cup Known'
    <3>1. CASE d = scan.dir
      BY <1>10, <1>t, <1>k, <2>1, <2>3, <3>1, ListEffect DEF Known, Pending
    <3>2. CASE d # scan.dir
      <4>1. d \notin scan.blind \cup Pending /\ scan.found \subseteq scan'.found
        BY <1>10, <1>t, <2>3, <3>2, ListEffect DEF Pending
      <4>2. Children(d) \cap there \subseteq scan.found \cup Known
        BY <2>1, <2>3, <4>1 DEF SignatureInv, Faithful
      <4>3. QED
        BY <2>2, <4>1, <4>2
    <3>3. QED
      BY <3>1, <3>2
  <2>4. Faithful(scan.found, scan.signatures, Known, scan.blind \cup Pending)'
    BY <2>1, <2>3 DEF Faithful, Calm, Children
  <2>5. QED
    BY <2>1, <2>2, <2>4 DEF SignatureInv, Past, Calm
<1>11. CASE Save
  BY <1>11, <1>k, <1>t, SaveEffect DEF Save, Happens, SignatureInv, Past
<1>12. ASSUME NEW d \in Dirs, ValidateDirectory(d) PROVE SignatureInv'
  <2>1. CASE scan'.at = "discover"
    BY <1>12, <1>t, <2>1, ValidateDirectoryEffect DEF SignatureInv, Past, ToDiscover
  <2>2. CASE scan'.at # "discover"
    <3>1. /\ scan.at = "dirs" /\ scan'.at = "dirs" /\ Calm /\ <<d, stamp[d]>> \in scan.signatures
          /\ scan'.stack = scan.stack \ {d} /\ scan'.files = scan.files
          /\ scan'.signatures = scan.signatures /\ scan'.blind = scan.blind
          /\ scan'.dir = scan.dir
      BY <1>12, <1>t, <2>2, ValidateDirectoryEffect DEF ToDiscover
    <3>2. d \in Signed(scan.signatures)
      BY <1>k, <3>1, SignedFacts
    <3>3. Known' = Known
      BY <3>1, <3>2, ValidateDirectoryEffect, <1>12, <1>t DEF Known, Pending, Signed
    <3>4. QED
      BY <3>1, <3>3 DEF SignatureInv, Past, Faithful, Calm, Children
  <2>3. QED
    BY <2>1, <2>2
<1>13. ASSUME NEW d \in Dirs, Sign(d) PROVE SignatureInv'
  <2>1. /\ scan.at = "walk" /\ scan'.at = "list" /\ Calm /\ d \in scan.stack
        /\ scan'.dir = d /\ scan'.stack = scan.stack \ {d} /\ scan'.found = scan.found
        /\ scan.dir = None
    BY <1>13, <1>t, SignEffect DEF ShapeInv
  <2>2. /\ scan'.signatures \subseteq scan.signatures \cup {<<d, stamp[d]>>}
        /\ Signed(scan.signatures) \subseteq Signed(scan'.signatures)
        /\ scan.blind \subseteq scan'.blind
    BY <1>13, <1>t, SignEffect DEF Signed
  <2>3. Pending' = scan.stack /\ Pending = scan.stack \cup {None}
    BY <2>1 DEF Pending
  <2>4. Known \subseteq Known' \cup {None} /\ Root \in Known'
    BY <1>k, <2>1, <2>2, <2>3 DEF Known, Signed, SignatureInv
  <2>5. Past(scan.signatures)'
    <3>1. \A s \in scan'.signatures : s \in scan.signatures \/ s[2] = stamp[d]
      BY <2>2
    <3>2. QED
      BY <1>k, <2>1, <3>1 DEF SignatureInv, Past, Calm
  <2>6. ASSUME NEW b \in Dirs, b \notin scan'.blind \cup Pending',
               <<b, stamp[b]>> \in scan'.signatures
        PROVE  Children(b) \cap there \subseteq scan.found \cup Known'
    <3>1. b # d /\ <<b, stamp[b]>> \in scan.signatures
      BY <2>1, <2>2, <2>3, <2>6
    <3>2. b \notin scan.blind \cup Pending
      BY <2>2, <2>3, <2>6, TreeAssumption
    <3>3. Children(b) \cap there \subseteq scan.found \cup Known
      BY <2>1, <3>1, <3>2 DEF SignatureInv, Faithful
    <3>4. QED
      BY <1>k, <2>4, <3>3
  <2>7. Faithful(scan.found, scan.signatures, Known, scan.blind \cup Pending)'
    BY <2>1, <2>6 DEF Faithful, Calm, Children
  <2>8. QED
    BY <2>1, <2>4, <2>5, <2>7 DEF SignatureInv
<1>14. ASSUME NEW f \in Files, ValidatePath(f) PROVE SignatureInv'
  BY <1>14, <1>t, ValidatePathEffect DEF SignatureInv, Past, Calm, ToDiscover, Known, Pending,
       Signed
<1>15. QED
  BY <1>1, <1>3, <1>4, <1>5, <1>6, <1>7, <1>8, <1>9, <1>10, <1>11, <1>12, <1>13, <1>14
  DEF Next, Scan

\* The way to a file that can be seen is there, step by step.
LEMMA WayThere ==
  ASSUME NEW f \in Visible, NEW c \in Way(f)
  PROVE  /\ c \in there /\ c \in Entries /\ Parent[c] \in Dirs
         /\ c \in Children(Parent[c]) \cap there
<1>1. f \in Files /\ Reachable(f)
  BY DEF Visible
<1>2. c \in Entries /\ c \in there
  BY <1>1, TreeFacts DEF Way, Reachable, Entries
<1>3. QED
  BY <1>2, TreeFacts DEF Children

LEMMA NextWay ==
  TypeOK /\ HistoryInv /\ ShapeInv /\ SignatureInv /\ WayInv /\ Next => WayInv'
<1> SUFFICES ASSUME TypeOK, HistoryInv, ShapeInv, SignatureInv, WayInv, Next PROVE WayInv'
  OBVIOUS
<1>t. scan \in Scans
  BY DEF TypeOK
<1>k. /\ scan.signatures \in SUBSET (Dirs \X Nat)
      /\ \A d \in Dirs : stamp[d] \in Nat
  BY KnownFacts
<1> USE DEF Works
<1>1. ASSUME scan' = scan, always' \subseteq always PROVE WayInv'
  BY <1>1 DEF WayInv, Followed, Known, Pending, Signed, Way
<1>2. CASE ChangeTree
  BY <1>1, <1>2, TreeSteps
<1>3. CASE Age \/ Lose
  BY <1>1, <1>3 DEF Age, Lose
<1>4. CASE Begin \/ End
  BY <1>4, BeginEffect, EndEffect DEF WayInv
<1>5. CASE MarkReused \/ Save
  BY <1>5, <1>t, MarkReusedEffect, SaveEffect DEF WayInv
<1>6. CASE Load
  <2>1. scan'.at = "dirs" => Signed(scan.signatures)' \subseteq Pending'
    BY <1>6, <1>t, LoadEffect DEF ToDiscover, Pending, Signed
  <2>2. scan'.at \in {"dirs", "discover"}
    BY <1>6, <1>t, LoadEffect DEF ToDiscover
  <2>3. QED
    BY <2>1, <2>2 DEF WayInv, Followed
<1>7. CASE DirectoriesValid
  BY <1>7, <1>t, DirectoriesValidEffect DEF WayInv, Followed, Calm, Known, Pending, Signed, Way
<1>8. CASE AskEverything
  <2>1. Works' => Signed(scan.signatures)' = {}
    BY <1>8, <1>t, AskEverythingEffect DEF ShapeInv, Signed
  <2>2. QED
    BY <2>1 DEF WayInv, Followed
<1>9. CASE List
  <2>1. /\ scan.at = "list" /\ scan'.at = "walk" /\ Calm /\ scan'.signatures = scan.signatures
        /\ scan.files = scan'.files /\ scan.found \subseteq scan'.found
        /\ scan.blind \subseteq scan'.blind /\ scan.stack \subseteq scan'.stack
        /\ scan.dir \in Dirs /\ scan.dir \in Signed(scan.signatures) \cup scan.blind
    BY <1>9, <1>t, ListEffect DEF TypeOK, ShapeInv
  <2>2. Known \subseteq Known'
    BY <2>1 DEF Known, Pending, Signed
  <2>3. ASSUME NEW f \in always, NEW c \in Way(f),
               Parent[c] \in Signed(scan'.signatures) \ (scan'.blind \cup Pending')
        PROVE  c \in scan'.files \cup scan'.found \cup Known'
    <3>1. c \in Children(Parent[c]) \cap there /\ c \in Entries
      BY WayThere DEF HistoryInv
    <3>2. CASE Parent[c] = scan.dir
      BY <1>9, <1>t, <2>3, <3>1, <3>2, ListEffect DEF Entries, Known, Pending
    <3>3. CASE Parent[c] # scan.dir
      <4>1. Parent[c] \in Signed(scan.signatures) \ (scan.blind \cup Pending)
        BY <2>1, <2>3, <3>3 DEF Pending
      <4>2. Followed(f)
        BY <2>1 DEF WayInv
      <4>3. QED
        BY <2>1, <2>2, <4>1, <4>2 DEF Followed
    <3>4. QED
      BY <3>2, <3>3
  <2>4. QED
    BY <2>1, <2>3 DEF WayInv, Followed, Calm, Way, Signed
<1>10. ASSUME NEW d \in Dirs, ValidateDirectory(d) PROVE WayInv'
  <2>1. CASE scan'.at = "discover"
    BY <2>1 DEF WayInv
  <2>2. CASE scan'.at # "discover"
    <3>1. /\ scan.at = "dirs" /\ scan'.at = "dirs" /\ Calm /\ <<d, stamp[d]>> \in scan.signatures
          /\ d \in scan.stack
          /\ scan'.stack = scan.stack \ {d} /\ scan'.files = scan.files
          /\ scan'.found = scan.found
          /\ scan'.signatures = scan.signatures /\ scan'.blind = scan.blind
          /\ scan'.dir = scan.dir
      BY <1>10, <1>t, <2>2, ValidateDirectoryEffect DEF ToDiscover
    <3>2. d \in Signed(scan.signatures)
      BY <1>k, <3>1, SignedFacts
    <3>3. Known' = Known
      BY <3>1, <3>2 DEF Known, Pending, Signed
    <3>4. ASSUME NEW f \in always, NEW c \in Way(f),
                 Parent[c] \in Signed(scan.signatures) \ (scan.blind \cup Pending')
          PROVE  c \in scan.files \cup scan.found \cup Known
      <4>1. c \in Children(Parent[c]) \cap there
        BY WayThere DEF HistoryInv
      <4>2. CASE Parent[c] = d
        BY <3>1, <3>4, <4>1, <4>2 DEF SignatureInv, Faithful
      <4>3. CASE Parent[c] # d
        BY <3>1, <3>4, <4>3 DEF WayInv, Followed, Pending
      <4>4. QED
        BY <4>2, <4>3
    <3>5. QED
      BY <3>1, <3>3, <3>4 DEF WayInv, Followed, Calm, Way, Signed
  <2>3. QED
    BY <2>1, <2>2
<1>11. ASSUME NEW d \in Dirs, Sign(d) PROVE WayInv'
  <2>1. /\ scan.at = "walk" /\ scan'.at = "list" /\ Calm /\ d \in scan.stack
        /\ scan'.dir = d /\ scan'.stack = scan.stack \ {d} /\ scan'.found = scan.found
        /\ scan'.files = scan.files /\ scan.dir = None /\ scan.blind \subseteq scan'.blind
    BY <1>11, <1>t, SignEffect DEF ShapeInv
  <2>2. /\ Signed(scan.signatures) \subseteq Signed(scan'.signatures)
        /\ Signed(scan'.signatures) \subseteq Signed(scan.signatures) \cup {d}
    <3>1. Signed(scan.signatures \cup {<<d, stamp[d]>>}) = Signed(scan.signatures) \cup {d}
      BY <1>k, SignedFacts
    <3>2. \/ scan'.signatures = scan.signatures
          \/ scan'.signatures = scan.signatures \cup {<<d, stamp[d]>>}
      BY <1>11, <1>t, SignEffect
    <3>3. QED
      BY <3>1, <3>2
  <2>3. Pending' = scan.stack /\ Pending = scan.stack \cup {None}
    BY <2>1 DEF Pending
  <2>4. Known \subseteq Known' \cup {None}
    BY <2>1, <2>2, <2>3 DEF Known, Signed
  <2>5. ASSUME NEW f \in always, NEW c \in Way(f),
               Parent[c] \in Signed(scan'.signatures) \ (scan'.blind \cup Pending')
        PROVE  c \in scan.files \cup scan.found \cup Known'
    <3>1. c \in Entries /\ Parent[c] \in Dirs
      BY WayThere DEF HistoryInv
    <3>2. c # None /\ Parent[c] # None
      BY <3>1, TreeAssumption DEF Entries
    <3>3. Parent[c] \in Signed(scan.signatures) \ (scan.blind \cup Pending)
      BY <2>1, <2>2, <2>3, <2>5, <3>2
    <3>4. c \in scan.files \cup scan.found \cup Known
      BY <2>1, <3>3 DEF WayInv, Followed
    <3>5. QED
      BY <2>4, <3>2, <3>4
  <2>6. QED
    BY <2>1, <2>5 DEF WayInv, Followed, Calm, Way, Signed
<1>12. ASSUME NEW f \in Files, ValidatePath(f) PROVE WayInv'
  <2>1. CASE scan'.at = "discover"
    BY <2>1 DEF WayInv
  <2>2. CASE scan'.at # "discover"
    <3>1. /\ scan.at = "files" /\ Calm /\ scan'.stack = scan.stack /\ scan'.dir = scan.dir
          /\ scan'.files \cup scan'.found = scan.files \cup scan.found
          /\ scan'.signatures = scan.signatures /\ scan'.blind = scan.blind
      BY <1>12, <1>t, <2>2, ValidatePathEffect DEF ToDiscover
    <3>2. QED
      BY <3>1 DEF WayInv, Followed, Calm, Known, Pending, Signed, Way
  <2>3. QED
    BY <2>1, <2>2
<1>13. QED
  BY <1>2, <1>3, <1>4, <1>5, <1>6, <1>7, <1>8, <1>9, <1>10, <1>11, <1>12 DEF Next, Scan

\* When nothing is pending, the way to a file that can be seen ends at the file.
LEMMA WayEnds ==
  ASSUME TypeOK, ShapeInv, SignatureInv, WayInv,
         scan.at \in {"files", "walk"}, scan.stack = {}, scan.files = {},
         NEW f \in always, Above[f] \cap scan.blind = {}
  PROVE  f \in scan.found
<1>1. /\ f \in Files /\ f \in Entries /\ f \notin Dirs /\ f # None
      /\ Above[f] \subseteq Dirs /\ Root \in Above[f] /\ Parent[f] \in Above[f]
  BY TreeFacts, TreeAssumption DEF TypeOK
<1>2. Pending = {None} /\ None \notin Dirs
  BY TreeAssumption DEF ShapeInv, Pending
<1>3. Signed(scan.signatures) \subseteq Dirs /\ scan.blind \subseteq Dirs
  BY KnownFacts DEF TypeOK, Scans, Signed
<1> DEFINE S == Signed(scan.signatures) \ scan.blind
<1>4. Root \in S
  BY <1>1, <1>2 DEF SignatureInv, Works, Known
<1>5. \A c \in Way(f) : Parent[c] \in S => c \in scan.found \cup Known
  BY <1>2, <1>3 DEF WayInv, Works, Followed
<1>6. \A c \in Above[f] \ {Root} : Parent[c] \in S => c \in S
  <2> SUFFICES ASSUME NEW c \in Above[f] \ {Root}, Parent[c] \in S PROVE c \in S
    OBVIOUS
  <2>1. c \in scan.found \cup Known
    BY <1>5 DEF Way
  <2>2. c \notin scan.found
    BY <1>1, TreeFacts DEF TypeOK, Scans
  <2>3. QED
    BY <1>1, <1>2, <2>1, <2>2 DEF Known
<1>7. Above[f] \subseteq S
  BY <1>1, <1>3, <1>4, <1>6, DescentAssumption
<1>8. Parent[f] \in S /\ f \in Way(f)
  BY <1>1, <1>7, TreeAssumption DEF Way
<1>9. f \notin Known
  BY <1>1, <1>2, <1>3 DEF Known
<1>10. QED
  BY <1>5, <1>8, <1>9

LEMMA NextExact ==
  TypeOK /\ HistoryInv /\ ShapeInv /\ SignatureInv /\ WayInv /\ ScanIsExact /\ Next => ScanIsExact'
<1> SUFFICES ASSUME TypeOK, HistoryInv, ShapeInv, SignatureInv, WayInv, ScanIsExact, Next
             PROVE  ScanIsExact'
  OBVIOUS
<1>t. scan \in Scans
  BY DEF TypeOK
<1>1. ASSUME scan' = scan, always' \subseteq always, scan.at = "done" => ever \subseteq ever'
      PROVE  ScanIsExact'
  BY <1>1 DEF ScanIsExact
<1>2. CASE ChangeTree
  BY <1>1, <1>2, TreeSteps
<1>3. CASE Age \/ Lose
  BY <1>1, <1>3 DEF Age, Lose
<1>4. CASE MarkReused \/ Save
  <2>1. /\ scan.at \in {"files", "walk"} /\ scan.stack = {} /\ scan.files = {}
        /\ scan'.found = scan.found /\ scan'.blind = scan.blind
        /\ always' = always /\ ever' = ever
    BY <1>4, <1>t, MarkReusedEffect, SaveEffect DEF ShapeInv, Walks
  <2>2. \A f \in always : Above[f] \cap scan.blind = {} => f \in scan.found
    BY <2>1, WayEnds
  <2>3. scan.found \subseteq ever
    BY <2>1 DEF HistoryInv, Works
  <2>4. QED
    BY <2>1, <2>2, <2>3 DEF ScanIsExact
<1>5. CASE Begin \/ End
  BY <1>5, BeginEffect, EndEffect DEF ScanIsExact
<1>6. CASE Load \/ DirectoriesValid \/ List \/ AskEverything
  BY <1>6, <1>t, LoadEffect, DirectoriesValidEffect, ListEffect, AskEverythingEffect
  DEF ScanIsExact, ToDiscover
<1>7. CASE \E d \in Dirs : ValidateDirectory(d) \/ Sign(d)
  BY <1>7, <1>t, ValidateDirectoryEffect, SignEffect DEF ScanIsExact, ToDiscover
<1>8. CASE \E f \in Files : ValidatePath(f)
  BY <1>8, <1>t, ValidatePathEffect DEF ScanIsExact, ToDiscover
<1>9. QED
  BY <1>2, <1>3, <1>4, <1>5, <1>6, <1>7, <1>8 DEF Next, Scan

\* Nothing changes in a step that changes none of the variables.
LEMMA Stutter ==
  ASSUME UNCHANGED vars
  PROVE  (ExactInv => ExactInv') /\ (SightInv => SightInv') /\ (MissInv => MissInv')
BY DEF vars, world, ExactInv, TypeOK, HistoryInv, ShapeInv, SnapshotInv, SignatureInv, WayInv,
       ScanIsExact, SightInv, MissInv, Visible, Reachable, Works, Walks, SnapshotOK, Past, Faithful,
       Known, Pending, Signed, Children, Followed, Way

LEMMA NextExactInv == ExactInv /\ [Next]_vars => ExactInv'
<1> SUFFICES ASSUME ExactInv, [Next]_vars PROVE ExactInv'
  OBVIOUS
<1>1. CASE Next
  BY <1>1, NextTypes, NextHistory, NextShape, NextSnapshot, NextSignature, NextWay, NextExact
  DEF ExactInv
<1>2. CASE UNCHANGED vars
  BY <1>2, Stutter
<1>3. QED
  BY <1>1, <1>2

LEMMA ExactAlways == Spec => []ExactInv
BY InitExact, NextExactInv, PTL DEF Spec

\* A scan finds every file that can be seen all the time, and only files that can be seen at
\* some time, but for what is below a directory the walk could not sign or list.
THEOREM ScansAreExact == Spec => []ScanIsExact
<1>1. ExactInv => ScanIsExact
  BY DEF ExactInv
<1>2. QED
  BY <1>1, ExactAlways, PTL

-----------------------------------------------------------------------------
(* How long a file may be missed.                                          *)

LEMMA NextSight == TypeOK /\ HistoryInv /\ ShapeInv /\ SightInv /\ Next => SightInv'
<1> SUFFICES ASSUME TypeOK, HistoryInv, ShapeInv, SightInv, Next PROVE SightInv'
  OBVIOUS
<1>t. scan \in Scans
  BY DEF TypeOK
<1>s. ASSUME NEW f \in always, NEW d \in Above[f] PROVE Listable(d) /\ Reachable(d)
  <2>1. f \in Entries /\ Reachable(f)
    BY TreeFacts DEF HistoryInv, Visible
  <2>2. QED
    BY <2>1, AboveListable DEF Listable
<1> USE DEF SightInv, Walks
<1>1. CASE ChangeTree
  BY <1>1, TreeSteps
<1>2. CASE Age \/ Lose
  BY <1>2 DEF Age, Lose
<1>3. CASE Begin \/ End \/ MarkReused \/ Save
  BY <1>3, <1>t, BeginEffect, EndEffect, MarkReusedEffect, SaveEffect
<1>4. CASE Load \/ DirectoriesValid
  BY <1>4, <1>t, LoadEffect, DirectoriesValidEffect DEF ToDiscover
<1>5. CASE AskEverything
  BY <1>5, <1>t, AskEverythingEffect DEF ShapeInv
<1>6. CASE List
  BY <1>6, <1>t, <1>s, ListEffect DEF Calm
<1>7. ASSUME NEW d \in Dirs, ValidateDirectory(d) PROVE SightInv'
  BY <1>7, <1>t, ValidateDirectoryEffect DEF ToDiscover
<1>8. ASSUME NEW d \in Dirs, Sign(d) PROVE SightInv'
  BY <1>8, <1>t, <1>s, SignEffect DEF Calm
<1>9. ASSUME NEW f \in Files, ValidatePath(f) PROVE SightInv'
  BY <1>9, <1>t, ValidatePathEffect DEF ToDiscover
<1>10. QED
  BY <1>1, <1>2, <1>3, <1>4, <1>5, <1>6, <1>7, <1>8, <1>9 DEF Next, Scan

LEMMA NextMiss ==
  TypeOK /\ ShapeInv /\ SignatureInv /\ WayInv /\ SightInv /\ MissInv /\ Next => MissInv'
<1> SUFFICES ASSUME TypeOK, ShapeInv, SignatureInv, WayInv, SightInv, MissInv, Next
             PROVE  MissInv'
  OBVIOUS
<1>t. /\ scan \in Scans /\ snapshot \in Snapshots \cup {None}
      /\ misses \in [Files -> Nat] /\ failures \in Nat /\ MaxReuse \in Nat
      /\ snapshot # None => snapshot.reuse \in Nat
  BY BoundsAssumption DEF TypeOK, Snapshots
<1> USE DEF MissInv
<1>1. ASSUME scan' = scan \/ scan'.at \notin {"dirs", "files"} \/ scan.at = "dirs"
                          \/ scan.at = "files",
             snapshot' = snapshot, misses' = misses, failures' = failures
      PROVE  MissInv'
  BY <1>1, <1>t
<1>2. CASE ChangeTree
  BY <1>1, <1>2, TreeSteps
<1>3. CASE Age
  <2>1. snapshot' # None => snapshot'.reuse = snapshot.reuse
    BY <1>3, <1>t DEF Age, Snapshots
  <2>2. QED
    BY <1>3, <1>t, <2>1 DEF Age
<1>4. CASE Lose
  BY <1>4, <1>t DEF Lose
<1>5. CASE Begin \/ End
  BY <1>1, <1>5, BeginEffect, EndEffect
<1>6. CASE Load
  BY <1>6, <1>t, LoadEffect DEF Calm, ToDiscover
<1>7. CASE DirectoriesValid \/ AskEverything \/ List
  BY <1>1, <1>7, <1>t, DirectoriesValidEffect, AskEverythingEffect, ListEffect DEF Calm
<1>8. CASE MarkReused
  <2>1. scan.at = "files" /\ scan'.at = "done"
    BY <1>8, <1>t, MarkReusedEffect
  <2>2. \A f \in Files : misses'[f] = 0 \/ misses'[f] = misses[f] + 1
    BY <1>8, <1>t DEF MarkReused, Ends
  <2>3. \/ snapshot' = None /\ snapshot = None /\ failures' = failures
        \/ snapshot # None /\ snapshot'.reuse = snapshot.reuse + 1 /\ failures' = failures
        \/ snapshot # None /\ snapshot' = snapshot /\ failures' = failures + 1
    BY <1>8, <1>t DEF MarkReused, Snapshots
  <2>4. QED
    BY <1>t, <2>1, <2>2, <2>3
<1>9. CASE Save
  <2>1. scan.at = "walk" /\ scan.stack = {} /\ scan.files = {} /\ scan'.at = "done"
    BY <1>9, <1>t, SaveEffect DEF ShapeInv, Walks
  <2>2. always \subseteq scan.found
    BY <2>1, WayEnds DEF SightInv, Walks
  <2>3. \A f \in Files : misses'[f] = 0
    BY <1>9, <2>2 DEF Save, Ends
  <2>4. \/ snapshot'.reuse = 0 /\ failures' = failures
        \/ snapshot' = snapshot /\ failures' \in {failures, failures + 1}
    BY <1>9 DEF Save
  <2>5. QED
    BY <1>t, <2>1, <2>3, <2>4
<1>10. ASSUME NEW d \in Dirs, ValidateDirectory(d) \/ Sign(d) PROVE MissInv'
  BY <1>1, <1>10, <1>t, ValidateDirectoryEffect, SignEffect DEF Calm, ToDiscover
<1>11. ASSUME NEW f \in Files, ValidatePath(f) PROVE MissInv'
  BY <1>1, <1>11, <1>t, ValidatePathEffect DEF Calm, ToDiscover
<1>12. QED
  BY <1>2, <1>3, <1>4, <1>5, <1>6, <1>7, <1>8, <1>9, <1>10, <1>11 DEF Next, Scan

\* No file stays unseen for longer than a snapshot may be used, plus the times the cache file
\* could not be written.
THEOREM MissedIsBounded == Spec => []MissedNotForLong
<1>1. Init => MissedInv
  BY InitExact DEF MissedInv
<1>2. MissedInv /\ [Next]_vars => MissedInv'
  <2> SUFFICES ASSUME MissedInv, [Next]_vars PROVE MissedInv'
    OBVIOUS
  <2>1. ExactInv'
    BY NextExactInv DEF MissedInv
  <2>2. CASE Next
    BY <2>1, <2>2, NextSight, NextMiss DEF MissedInv, ExactInv
  <2>3. CASE UNCHANGED vars
    BY <2>1, <2>3, Stutter DEF MissedInv
  <2>4. QED
    BY <2>2, <2>3
<1>3. MissedInv => MissedNotForLong
  BY DEF MissedInv, MissInv, MissedNotForLong
<1>4. QED
  BY <1>1, <1>2, <1>3, PTL DEF Spec
=============================================================================

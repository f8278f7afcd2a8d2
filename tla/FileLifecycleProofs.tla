------------------------ MODULE FileLifecycleProofs ------------------------
(***************************************************************************)
(* Proofs about FileLifecycle, for any paths, folders, texts and workers   *)
(* and any of the outside events.                                          *)
(*                                                                         *)
(* A registration is marked missing only where nothing was: the absences   *)
(* Judge proves are lost (AbsentInv), because every covered path where     *)
(* nothing is has been lost since its folder was walked (LostInv).         *)
(*                                                                         *)
(* A registration's modification time can be trusted: what anybody claims  *)
(* of a time is what every file with that time says (FitsInv), as no two   *)
(* versions share a time (NamesInv) and none is noted ahead of the clock   *)
(* (TimesInv).                                                             *)
(*                                                                         *)
(* A rescan that nothing interferes with converges and keeps               *)
(* registrations (QuietInv): what was found is there and what is there was *)
(* found (WalkInv), what was judged still holds when it is marked          *)
(* (JudgedInv), and while the workers run each holds what its file is      *)
(* (JobKnows), each registration is where it was known or where its        *)
(* document moved (RowKept), and a file that is done is indexed (DoneInv). *)
(***************************************************************************)
EXTENDS FileLifecycle, TLAPS, FiniteSetTheorems

\* The record of a rescan has the fields of Idle.
ScanShape ==
  rescan = [at |-> rescan.at, left |-> rescan.left, found |-> rescan.found,
            stamp |-> rescan.stamp, covered |-> rescan.covered, known |-> rescan.known,
            absent |-> rescan.absent, relocated |-> rescan.relocated,
            cancel |-> rescan.cancel, lost |-> rescan.lost, quiet |-> rescan.quiet]

ScanPoints == {"idle", "scan", "mark", "index", "done"}
JobPoints  == {"none", "queued", "recover", "read", "match", "move", "save", "done"}

ScanTypes ==
  /\ ScanShape
  /\ rescan.at \in ScanPoints
  /\ rescan.left \subseteq Folders /\ rescan.covered \subseteq Folders
  /\ rescan.found \subseteq Paths /\ rescan.absent \subseteq Paths /\ rescan.lost \subseteq Paths
  /\ rescan.stamp \in [Paths -> Nat \cup {None}]
  /\ rescan.relocated \subseteq Nat
  /\ rescan.cancel \in BOOLEAN /\ rescan.quiet \in BOOLEAN

WorldTypes ==
  /\ disk \in [Paths -> Versions \cup {None}]
  /\ down \subseteq Folders /\ hidden \subseteq Paths
  /\ clock \in Nat /\ ops \in 0..MaxOps /\ day \in 0..MaxDay

Jobs == [at : JobPoints, mtime : Nat \cup {None}, text : Texts \cup {None},
         row : Nat \cup {None}]

\* A worker that has looked has a time, one that has read has a text.
JobOK(p) ==
  /\ job[p].at \in {"read", "match", "move", "save"} => job[p].mtime \in Nat
  /\ job[p].at \in {"match", "move", "save"} => job[p].text \in Texts

JobTypes == job \in [Paths -> Jobs] /\ \A p \in Paths : JobOK(p)

\* A registry: registrations under keys given out before next.
IsRegistry(f, next) ==
  /\ f = [i \in DOMAIN f |-> f[i]]
  /\ DOMAIN f \subseteq 1..(next - 1)
  /\ \A i \in DOMAIN f : f[i] \in Registrations

RowTypes ==
  /\ nextId \in Nat \ {0}
  /\ IsRegistry(rows, nextId) /\ IsRegistry(rescan.known, nextId)
  /\ request = None \/ request \in [path : Paths, mtime : Nat, text : Texts \cup {None}]
  /\ torn \subseteq Nat

Types == WorldTypes /\ ScanTypes /\ JobTypes /\ RowTypes

SeenOK(row) ==
  /\ row.seen <= day
  /\ row.missing # None => row.missing >= row.seen

SeenInv == \A i \in DOMAIN rows : SeenOK(rows[i])

LostInv ==
  /\ rescan.at = "idle" => rescan.covered = {}
  /\ \A p \in Paths : FolderOf[p] \in rescan.covered /\ ~Exists(p) => p \in rescan.lost

AbsentInv == rescan.at = "mark" => rescan.absent \subseteq rescan.lost

-----------------------------------------------------------------------------
\* None is neither a number, a text nor a version.
LEMMA NoneIsApart == None \notin Nat /\ None \notin Texts
  BY PathsAssumption

LEMMA DiskVersion ==
  ASSUME WorldTypes, NEW p \in Paths, disk[p] # None
  PROVE  disk[p] \in Versions /\ disk[p].mtime \in Nat /\ disk[p].text \in Texts
<1>1. disk[p] \in Versions
  BY DEF WorldTypes
<1>2. QED
  BY <1>1 DEF Versions

LEMMA TypesAreTypeOK == Types => TypeOK
  BY DEF Types, WorldTypes, ScanTypes, JobTypes, RowTypes, IsRegistry, TypeOK, ScanPoints,
         JobPoints, Jobs

LEMMA InitTypes == Init => Types
<1> SUFFICES ASSUME Init PROVE Types
  OBVIOUS
<1>1. PICK n \in 0..Cardinality(Paths) :
        \E at \in [1..n -> Paths], t \in [1..n -> Texts] :
          LET number(p) == CHOOSE i \in 1..n : at[i] = p
          IN  /\ \A i, k \in 1..n : at[i] = at[k] => i = k
              /\ disk = [p \in Paths |-> IF \E i \in 1..n : at[i] = p
                                         THEN [text |-> t[number(p)], mtime |-> number(p)]
                                         ELSE None]
              /\ rows = [i \in 1..n |-> [path |-> at[i], text |-> t[i], mtime |-> i,
                                         missing |-> None, seen |-> 0]]
              /\ nextId = n + 1 /\ clock = n
  BY DEF Init
<1>2. PICK at \in [1..n -> Paths], t \in [1..n -> Texts] :
        LET number(p) == CHOOSE i \in 1..n : at[i] = p
        IN  /\ \A i, k \in 1..n : at[i] = at[k] => i = k
            /\ disk = [p \in Paths |-> IF \E i \in 1..n : at[i] = p
                                       THEN [text |-> t[number(p)], mtime |-> number(p)]
                                       ELSE None]
            /\ rows = [i \in 1..n |-> [path |-> at[i], text |-> t[i], mtime |-> i,
                                       missing |-> None, seen |-> 0]]
            /\ nextId = n + 1 /\ clock = n
  BY <1>1
<1>3. n \in Nat
  OBVIOUS
<1>4. disk \in [Paths -> Versions \cup {None}]
  <2>1. ASSUME NEW p \in Paths, \E i \in 1..n : at[i] = p
        PROVE  (CHOOSE i \in 1..n : at[i] = p) \in 1..n
    BY <2>1
  <2>2. QED
    BY <1>2, <1>3, <2>1, SMTT(30) DEF Versions
<1>5. WorldTypes
  <2>1. down = {} /\ hidden = {} /\ ops = 0 /\ day = 0
    BY DEF Init
  <2>2. clock \in Nat
    BY <1>2, <1>3
  <2>3. QED
    BY <1>4, <2>1, <2>2, BoundsAssumption DEF WorldTypes
<1>6. ScanTypes
  BY DEF Init, ScanTypes, ScanShape, Idle, ScanPoints
<1>7. JobTypes
  BY NoneIsApart DEF Init, JobTypes, JobOK, Jobs, NoJob, JobPoints
<1>8. IsRegistry(rows, nextId)
  BY <1>2, <1>3 DEF IsRegistry, Registrations
<1>9. IsRegistry(rescan.known, nextId)
  BY <1>2, <1>3 DEF Init, Idle, IsRegistry
<1>10. RowTypes
  BY <1>2, <1>3, <1>8, <1>9 DEF RowTypes, Init
<1>11. QED
  BY <1>5, <1>6, <1>7, <1>10 DEF Types
-----------------------------------------------------------------------------
(* The parts of the state change apart from each other.                    *)

\* Only a few fields of the rescan change outside its own steps.
LEMMA DisturbTypes ==
  ASSUME ScanTypes, NEW gone \in SUBSET Paths, Disturb(gone)
  PROVE  ScanTypes' /\ rescan'.known = rescan.known
  BY DEF ScanTypes, ScanShape, Disturb

LEMMA ScanStep ==
  ASSUME Types, [Next]_vars
  PROVE  ScanTypes'
<1> USE DEF Types
<1>1. CASE UNCHANGED vars
  BY <1>1 DEF vars, ScanTypes, ScanShape
<1>2. CASE Begin
  BY <1>2 DEF Begin, ScanTypes, ScanShape, Idle, ScanPoints
<1>3. ASSUME NEW f \in Folders, NEW sdk \in BOOLEAN, ScanFolder(f, sdk) PROVE ScanTypes'
  <2>1. \A p \in Paths : Visible(p) => disk[p].mtime \in Nat
    BY DiskVersion DEF Visible, Exists
  <2>2. rescan'.stamp \in [Paths -> Nat \cup {None}]
    BY <1>3, <2>1 DEF ScanFolder, ScanTypes, ScanShape
  <2>3. QED
    BY <1>3, <2>2 DEF ScanFolder, ScanTypes, ScanShape
<1>4. ASSUME NEW f \in Folders, ScanFails(f) PROVE ScanTypes'
  BY <1>4 DEF ScanFails, ScanTypes, ScanShape
<1>5. CASE Judge
  BY <1>5 DEF Judge, ScanTypes, ScanShape, ScanPoints
<1>6. CASE MarkMissing
  BY <1>6 DEF MarkMissing, ScanTypes, ScanShape, ScanPoints
<1>7. CASE Purge
  BY <1>7 DEF Purge, ScanTypes, ScanShape, ScanPoints
<1>8. ASSUME rescan' = Idle PROVE ScanTypes'
  BY <1>8 DEF ScanTypes, ScanShape, Idle, ScanPoints
<1>9. CASE Stop
  BY <1>9 DEF Stop, ScanTypes, ScanShape
<1>10. ASSUME NEW p \in Paths,
              Look(p) \/ Recover(p) \/ Read(p) \/ Match(p) \/ Save(p)
       PROVE  ScanTypes'
  BY <1>10 DEF Look, Recover, Read, Match, Save, ScanTypes, ScanShape
<1>11. ASSUME NEW p \in Paths, ReadFails(p) \/ SaveFails(p) PROVE ScanTypes'
  BY <1>11 DEF ReadFails, SaveFails, ScanTypes, ScanShape
<1>12. ASSUME NEW p \in Paths, Relocate(p) PROVE ScanTypes'
  <2>1. DOMAIN rows \subseteq Nat
    BY DEF RowTypes, IsRegistry
  <2>2. QED
    BY <1>12, <2>1 DEF Relocate, ScanTypes, ScanShape
<1>13. CASE OutsideStep
  <2>1. CASE NextDay
    BY <2>1 DEF NextDay, ScanTypes, ScanShape
  <2>2. ASSUME ~NextDay PROVE \E gone \in SUBSET Paths : Disturb(gone)
    BY <1>13, <2>2 DEF OutsideStep, DeleteFile, Hide, RegisterStat, Write, MoveFile, CopyFile,
                       Unplug, Remove, RegisterInspect, RegisterSave
  <2>3. QED
    BY <2>1, <2>2, DisturbTypes
<1>14. QED
  BY <1>1, <1>2, <1>3, <1>4, <1>5, <1>6, <1>7, <1>8, <1>9, <1>10, <1>11, <1>12, <1>13
     DEF Next, RescanStep, End, Crash

LEMMA Happened ==
  ASSUME WorldTypes, NEW event, Happens(event)
  PROVE  ops' \in 0..MaxOps
  BY BoundsAssumption DEF WorldTypes, Happens

LEMMA WorldStep ==
  ASSUME Types, [Next]_vars
  PROVE  WorldTypes'
<1> USE DEF Types
<1>1. ASSUME NEW p \in Paths, NEW t \in Texts, Write(p, t) PROVE WorldTypes'
  <2>1. clock + 1 \in Nat /\ [text |-> t, mtime |-> clock + 1] \in Versions
    BY DEF WorldTypes, Versions
  <2>2. ops' \in 0..MaxOps
    BY <1>1, Happened DEF Write
  <2>3. QED
    BY <1>1, <2>1, <2>2 DEF Write, WorldTypes
<1>2. ASSUME NEW p \in Paths, DeleteFile(p) PROVE WorldTypes'
  BY <1>2, Happened DEF DeleteFile, WorldTypes
<1>3. ASSUME NEW p \in Paths, NEW q \in Paths, MoveFile(p, q) \/ CopyFile(p, q)
      PROVE  WorldTypes'
  BY <1>3, Happened DEF MoveFile, CopyFile, WorldTypes
<1>4. ASSUME NEW p \in Paths, Hide(p) \/ RegisterStat(p) PROVE WorldTypes'
  BY <1>4, Happened DEF Hide, RegisterStat, WorldTypes
<1>5. ASSUME NEW f \in Folders, Unplug(f) PROVE WorldTypes'
  BY <1>5, Happened DEF Unplug, WorldTypes
<1>6. ASSUME NEW i \in DOMAIN rows, Remove(i) PROVE WorldTypes'
  BY <1>6, Happened DEF Remove, WorldTypes
<1>7. CASE NextDay
  BY <1>7, BoundsAssumption DEF NextDay, WorldTypes
<1>8. CASE RegisterInspect \/ RegisterSave
  BY <1>8 DEF RegisterInspect, RegisterSave, WorldTypes
<1>9. CASE RescanStep
  BY <1>9, ZenonT(30) DEF RescanStep, Begin, ScanFolder, ScanFails, Judge, MarkMissing, Purge,
       End, Stop,
              Crash, Look, Recover, Read, ReadFails, Match, Relocate, Save, SaveFails, world,
              WorldTypes
<1>10. QED
  BY <1>1, <1>2, <1>3, <1>4, <1>5, <1>6, <1>7, <1>8, <1>9
     DEF Next, OutsideStep, vars, WorldTypes

LEMMA JobStep ==
  ASSUME Types, [Next]_vars
  PROVE  JobTypes'
<1> USE DEF Types
<1>1. \A p \in Paths : job[p] \in Jobs /\ [NoJob EXCEPT !.at = "done"] \in Jobs
  BY DEF JobTypes, Jobs, NoJob, JobPoints
<1>2. ASSUME NEW p \in Paths, GiveUp(p) PROVE JobTypes'
  BY <1>1, <1>2 DEF GiveUp, JobTypes, JobOK, NoJob
<1>3. ASSUME NEW p \in Paths, Look(p) PROVE JobTypes'
  <2> DEFINE m == IF rescan.stamp[p] # None THEN rescan.stamp[p] ELSE disk[p].mtime
  <2>1. CASE rescan.cancel \/ (rescan.stamp[p] = None /\ ~Visible(p))
    BY <1>2, <1>3, <2>1 DEF Look
  <2>2. ASSUME ~(rescan.cancel \/ (rescan.stamp[p] = None /\ ~Visible(p))) PROVE m \in Nat
    BY <2>2, DiskVersion DEF Visible, Exists, ScanTypes
  <2>3. CASE GiveUp(p)
    BY <1>2, <2>3
  <2>4. CASE Goto(p, "recover")
    BY <2>4 DEF Goto, JobTypes, JobOK, Jobs, JobPoints
  <2>5. ASSUME job' = [job EXCEPT ![p].at = "read", ![p].mtime = m], m \in Nat
        PROVE  JobTypes'
    <3>1. job' = [job EXCEPT ![p] = [job[p] EXCEPT !.at = "read", !.mtime = m]]
      BY <2>5 DEF JobTypes, Jobs
    <3>2. [job[p] EXCEPT !.at = "read", !.mtime = m] \in Jobs
      BY <1>1, <2>5 DEF Jobs, JobPoints
    <3>3. job' \in [Paths -> Jobs] /\ \A q \in Paths : q # p => job'[q] = job[q]
      BY <3>1, <3>2 DEF JobTypes
    <3>4. job'[p].at = "read" /\ job'[p].mtime \in Nat
      BY <1>1, <2>5, <3>1 DEF JobTypes, Jobs
    <3>5. QED
      BY <3>3, <3>4 DEF JobTypes, JobOK
  <2>6. QED
    BY <1>3, <2>1, <2>2, <2>3, <2>4, <2>5 DEF Look
<1>4. ASSUME NEW p \in Paths, Read(p) PROVE JobTypes'
  <2>1. CASE GiveUp(p)
    BY <1>2, <2>1
  <2>2. CASE Visible(p) /\ job' = [job EXCEPT ![p].at = "match", ![p].text = disk[p].text]
    <3>1. disk[p].text \in Texts
      BY <2>2, DiskVersion DEF Visible, Exists
    <3>2. QED
      BY <1>4, <2>2, <3>1, ZenonT(30) DEF Read, JobTypes, JobOK, Jobs, JobPoints
  <2>3. QED
    BY <1>4, <2>1, <2>2 DEF Read
<1>5. ASSUME NEW p \in Paths, Match(p) PROVE JobTypes'
  <2>1. Matches(p) \subseteq Nat
    BY DEF Matches, Candidates, RowTypes, IsRegistry
  <2>2. Cardinality(Matches(p)) = 1 => (CHOOSE i \in Matches(p) : TRUE) \in Nat \cup {None}
    <3>1. CASE Matches(p) = {}
      BY <3>1, FS_EmptySet
    <3>2. CASE Matches(p) # {}
      BY <2>1, <3>2
    <3>3. QED
      BY <3>1, <3>2
  <2>3. PICK at \in {"move", "save"}, row \in Nat \cup {None} :
          job' = [job EXCEPT ![p].at = at, ![p].row = row]
    BY <1>5, <2>2 DEF Match
  <2>4. job' = [job EXCEPT ![p] = [job[p] EXCEPT !.at = at, !.row = row]]
    BY <2>3 DEF JobTypes, Jobs
  <2>5. [job[p] EXCEPT !.at = at, !.row = row] \in Jobs
    BY <1>1, <2>3 DEF Jobs, JobPoints
  <2>6. job' \in [Paths -> Jobs] /\ \A q \in Paths : q # p => job'[q] = job[q]
    BY <2>4, <2>5 DEF JobTypes
  <2>7. job'[p].mtime = job[p].mtime /\ job'[p].text = job[p].text
    BY <1>1, <2>4 DEF JobTypes, Jobs
  <2>8. job[p].mtime \in Nat /\ job[p].text \in Texts
    BY <1>5 DEF Match, JobTypes, JobOK
  <2>9. QED
    BY <2>6, <2>7, <2>8 DEF JobTypes, JobOK
<1>6. ASSUME NEW p \in Paths, Relocate(p) PROVE JobTypes'
  BY <1>6 DEF Relocate, Goto, JobTypes, JobOK, Jobs, JobPoints
<1>7. ASSUME NEW p \in Paths, Recover(p) \/ ReadFails(p) \/ Save(p) \/ SaveFails(p)
      PROVE  JobTypes'
  BY <1>2, <1>7 DEF Recover, ReadFails, Save, SaveFails
<1>8. CASE MarkMissing \/ End \/ Crash
  BY <1>8 DEF MarkMissing, End, Crash, JobTypes, JobOK, Jobs, JobPoints, NoJob
<1>9. ASSUME \/ OutsideStep \/ Begin \/ Judge \/ Purge \/ Stop \/ UNCHANGED vars
             \/ \E f \in Folders : ScanFails(f) \/ \E sdk \in BOOLEAN : ScanFolder(f, sdk)
      PROVE  UNCHANGED job
  BY <1>9 DEF OutsideStep, DeleteFile, Hide, RegisterStat, Write, MoveFile, CopyFile, Unplug,
              Remove, RegisterInspect, RegisterSave, NextDay, Begin, Judge, Purge, Stop,
              ScanFails, ScanFolder, vars
<1>10. ASSUME UNCHANGED job PROVE JobTypes'
  BY <1>10 DEF JobTypes, JobOK
<1>11. QED
  BY <1>3, <1>4, <1>5, <1>6, <1>7, <1>8, <1>9, <1>10 DEF Next, RescanStep

LEMMA UpsertTypes ==
  ASSUME WorldTypes, nextId \in Nat \ {0}, IsRegistry(rows, nextId),
         NEW p \in Paths, NEW m \in Nat, NEW t \in Texts, Upsert(p, m, t)
  PROVE  nextId' \in Nat \ {0} /\ nextId <= nextId' /\ IsRegistry(rows', nextId')
<1> DEFINE row == [path |-> p, text |-> t, mtime |-> m, missing |-> None, seen |-> day]
<1>1. row \in Registrations
  BY DEF Registrations, WorldTypes
<1> HIDE DEF row
<1>2. CASE At(p) = {}
  <2>1. /\ nextId' = nextId + 1
        /\ rows' = [i \in DOMAIN rows \cup {nextId} |-> IF i = nextId THEN row ELSE rows[i]]
    BY <1>2 DEF Upsert, row
  <2>2. DOMAIN rows' = DOMAIN rows \cup {nextId}
    BY <2>1
  <2>3. QED
    BY <1>1, <2>1, <2>2 DEF IsRegistry
<1>3. CASE At(p) # {}
  <2>1. /\ nextId' = nextId
        /\ rows' = [i \in DOMAIN rows |-> IF i \in At(p) THEN row ELSE rows[i]]
    BY <1>3 DEF Upsert, row
  <2>2. QED
    BY <1>1, <2>1 DEF IsRegistry
<1>4. QED
  BY <1>2, <1>3

\* The registry after a step.
LEMMA RegistryStep ==
  ASSUME Types, [Next]_vars
  PROVE  nextId' \in Nat \ {0} /\ nextId <= nextId' /\ IsRegistry(rows', nextId')
<1> DEFINE Goal == nextId' \in Nat \ {0} /\ nextId <= nextId' /\ IsRegistry(rows', nextId')
<1>0. WorldTypes /\ nextId \in Nat \ {0} /\ IsRegistry(rows, nextId) /\ day \in Nat
  BY DEF Types, RowTypes, WorldTypes
<1>1. ASSUME NEW p \in Paths, Save(p) PROVE Goal
  <2>1. job[p].mtime \in Nat /\ job[p].text \in Texts
    BY <1>1 DEF Save, Types, JobTypes, JobOK
  <2>2. QED
    BY <1>0, <1>1, <2>1, UpsertTypes DEF Save
<1>2. CASE RegisterSave
  <2>1. request.path \in Paths /\ request.mtime \in Nat /\ request.text \in Texts
    BY <1>2 DEF RegisterSave, Types, RowTypes
  <2>2. QED
    BY <1>0, <1>2, <2>1, UpsertTypes DEF RegisterSave
<1>3. ASSUME UNCHANGED nextId, DOMAIN rows' \subseteq DOMAIN rows,
             rows' = [i \in DOMAIN rows' |-> rows'[i]],
             \A i \in DOMAIN rows' : rows'[i] \in Registrations
      PROVE  Goal
  BY <1>0, <1>3 DEF IsRegistry
<1>4. CASE MarkMissing
  <2>1. \A i \in DOMAIN rows : [rows[i] EXCEPT !.missing = day] \in Registrations
    BY <1>0 DEF IsRegistry, Registrations
  <2>2. CASE rescan.cancel
    BY <1>0, <1>4, <2>2 DEF MarkMissing, IsRegistry
  <2>3. CASE ~rescan.cancel
    <3>1. rows' = [i \in DOMAIN rows |->
                     IF rows[i].path \in rescan.absent /\ rows[i].missing = None
                     THEN [rows[i] EXCEPT !.missing = day] ELSE rows[i]]
      BY <1>4, <2>3 DEF MarkMissing
    <3>2. QED
      BY <1>0, <1>3, <1>4, <2>1, <3>1 DEF MarkMissing, IsRegistry
  <2>4. QED
    BY <2>2, <2>3
<1>5. ASSUME NEW p \in Paths, Recover(p) PROVE Goal
  <2>1. \A i \in DOMAIN rows :
          [rows[i] EXCEPT !.missing = None, !.seen = day] \in Registrations
    BY <1>0 DEF IsRegistry, Registrations
  <2>2. rows' = [i \in DOMAIN rows |->
                   IF i \in Known(p) THEN [rows[i] EXCEPT !.missing = None, !.seen = day]
                   ELSE rows[i]]
    BY <1>5 DEF Recover
  <2>3. QED
    BY <1>0, <1>3, <1>5, <2>1, <2>2, ZenonT(30) DEF Recover, IsRegistry
<1>6. ASSUME NEW p \in Paths, Relocate(p) PROVE Goal
  <2> DEFINE i == job[p].row
  <2>1. CASE rows' = rows
    <3>1. UNCHANGED nextId
      BY <1>6 DEF Relocate
    <3>2. QED
      BY <1>0, <2>1, <3>1 DEF IsRegistry
  <2>2. CASE i \in DOMAIN rows
             /\ rows' = [rows EXCEPT ![i].path = p, ![i].missing = None, ![i].seen = day]
    <3>1. rows' = [rows EXCEPT ![i] = [rows[i] EXCEPT !.path = p, !.missing = None, !.seen = day]]
      BY <1>0, <2>2 DEF IsRegistry
    <3>2. [rows[i] EXCEPT !.path = p, !.missing = None, !.seen = day] \in Registrations
      BY <1>0, <2>2 DEF IsRegistry, Registrations
    <3>3. QED
      BY <1>0, <1>3, <1>6, <2>2, <3>1, <3>2, ZenonT(30) DEF Relocate, IsRegistry
  <2>3. QED
    BY <1>6, <2>1, <2>2 DEF Relocate
<1>7. ASSUME NEW S, rows' = Without(rows, S), UNCHANGED nextId PROVE Goal
  BY <1>0, <1>7 DEF Without, IsRegistry
<1>8. CASE Purge \/ \E i \in DOMAIN rows : Remove(i)
  <2>1. UNCHANGED rows \/ \E S : rows' = Without(rows, S)
    BY <1>8 DEF Purge, Remove
  <2>2. UNCHANGED nextId
    BY <1>8 DEF Purge, Remove
  <2>3. QED
    BY <1>0, <1>7, <2>1, <2>2 DEF IsRegistry
<1>9. ASSUME UNCHANGED <<rows, nextId>> PROVE Goal
  BY <1>0, <1>9 DEF IsRegistry
<1>10. CASE Begin \/ Judge \/ End \/ Stop \/ Crash \/ UNCHANGED vars
  BY <1>9, <1>10 DEF Begin, Judge, End, Stop, Crash, vars
<1>11. ASSUME NEW f \in Folders,
              ScanFails(f) \/ Unplug(f) \/ \E sdk \in BOOLEAN : ScanFolder(f, sdk)
       PROVE  Goal
  BY <1>9, <1>11 DEF ScanFails, ScanFolder, Unplug
<1>12. ASSUME NEW p \in Paths, Look(p) \/ Read(p) \/ ReadFails(p) \/ Match(p) \/ SaveFails(p)
       PROVE  Goal
  BY <1>9, <1>12 DEF Look, Read, ReadFails, Match, SaveFails
<1>13. ASSUME NEW p \in Paths,
              \/ DeleteFile(p) \/ Hide(p) \/ RegisterStat(p)
              \/ \E t \in Texts : Write(p, t)
              \/ \E q \in Paths : MoveFile(p, q) \/ CopyFile(p, q)
       PROVE  Goal
  BY <1>9, <1>13 DEF DeleteFile, Hide, RegisterStat, Write, MoveFile, CopyFile
<1>14. CASE RegisterInspect \/ NextDay
  BY <1>9, <1>14 DEF RegisterInspect, NextDay
<1>15. QED
  BY <1>1, <1>2, <1>4, <1>5, <1>6, <1>8, <1>10, <1>11, <1>12, <1>13, <1>14
     DEF Next, RescanStep, OutsideStep

\* What a rescan knows after a step: nothing, what it knew, or the registry it read.
LEMMA KnownStep ==
  ASSUME Types, [Next]_vars
  PROVE  rescan'.known = <<>> \/ rescan'.known = rescan.known \/ rescan'.known = rows
<1> DEFINE Goal == rescan'.known = <<>> \/ rescan'.known = rescan.known \/ rescan'.known = rows
<1>0. ScanTypes
  BY DEF Types
<1>1. CASE Begin \/ End \/ Crash
  <2>1. CASE Begin
    BY <2>1 DEF Begin, Idle
  <2>2. CASE End \/ Crash
    BY <2>2 DEF End, Crash, Idle
  <2>3. QED
    BY <1>1, <2>1, <2>2
<1>2. CASE Judge \/ MarkMissing \/ Purge \/ Stop \/ UNCHANGED vars
  BY <1>0, <1>2 DEF Judge, MarkMissing, Purge, Stop, vars, ScanTypes, ScanShape
<1>3. ASSUME NEW f \in Folders, ScanFails(f) \/ \E sdk \in BOOLEAN : ScanFolder(f, sdk)
      PROVE  Goal
  BY <1>0, <1>3 DEF ScanFails, ScanFolder, ScanTypes, ScanShape
<1>4. ASSUME NEW p \in Paths,
             \/ Look(p) \/ Recover(p) \/ Read(p) \/ ReadFails(p)
             \/ Match(p) \/ Relocate(p) \/ Save(p) \/ SaveFails(p)
      PROVE  Goal
  BY <1>0, <1>4, ZenonT(30) DEF Look, Recover, Read, ReadFails, Match, Relocate, Save, SaveFails,
       ScanTypes,
                    ScanShape
<1>5. CASE OutsideStep
  <2>1. CASE NextDay
    BY <2>1 DEF NextDay
  <2>2. ASSUME ~NextDay PROVE \E gone \in SUBSET Paths : Disturb(gone)
    BY <1>5, <2>2 DEF OutsideStep, DeleteFile, Hide, RegisterStat, Write, MoveFile, CopyFile,
                      Unplug, Remove, RegisterInspect, RegisterSave
  <2>3. QED
    BY <1>0, <2>1, <2>2, DisturbTypes
<1>6. QED
  BY <1>1, <1>2, <1>3, <1>4, <1>5 DEF Next, RescanStep

LEMMA RequestStep ==
  ASSUME Types, [Next]_vars
  PROVE  /\ request' = None \/ request' \in [path : Paths, mtime : Nat, text : Texts \cup {None}]
         /\ torn' \subseteq Nat
<1> DEFINE Requests == [path : Paths, mtime : Nat, text : Texts \cup {None}]
           Goal == (request' = None \/ request' \in Requests) /\ torn' \subseteq Nat
<1>0. WorldTypes /\ torn \subseteq Nat /\ (request = None \/ request \in Requests)
  BY DEF Types, RowTypes
<1>1. ASSUME NEW p \in Paths, RegisterStat(p) PROVE Goal
  <2>1. disk[p].mtime \in Nat
    BY <1>0, <1>1, DiskVersion DEF RegisterStat, Visible, Exists
  <2>2. QED
    BY <1>0, <1>1, <2>1 DEF RegisterStat
<1>2. CASE RegisterInspect
  <2>1. request \in Requests
    BY <1>0, <1>2 DEF RegisterInspect
  <2>2. CASE Visible(request.path)
    <3>1. disk[request.path].text \in Texts
      BY <1>0, <2>1, <2>2, DiskVersion DEF Visible, Exists
    <3>2. QED
      BY <1>0, <1>2, <2>1, <2>2, <3>1 DEF RegisterInspect, NoteTorn
  <2>3. CASE ~Visible(request.path)
    BY <1>0, <1>2, <2>3 DEF RegisterInspect
  <2>4. QED
    BY <2>2, <2>3
<1>3. ASSUME NEW p \in Paths, Read(p) PROVE Goal
  <2>1. job[p].mtime \in Nat
    BY <1>3 DEF Read, Types, JobTypes, JobOK
  <2>2. UNCHANGED request
    BY <1>3 DEF Read, world
  <2>3. torn' = torn \/ torn' = torn \cup {job[p].mtime}
    BY <1>3 DEF Read, NoteTorn
  <2>4. QED
    BY <1>0, <2>1, <2>2, <2>3
<1>4. CASE RegisterSave \/ Crash
  BY <1>0, <1>4 DEF RegisterSave, Crash
<1>5. ASSUME UNCHANGED <<request, torn>> PROVE Goal
  BY <1>0, <1>5
<1>6. CASE Begin \/ Judge \/ MarkMissing \/ Purge \/ End \/ Stop \/ NextDay \/ UNCHANGED vars
  BY <1>5, <1>6 DEF Begin, Judge, MarkMissing, Purge, End, Stop, NextDay, vars, world
<1>7. ASSUME NEW f \in Folders,
             ScanFails(f) \/ Unplug(f) \/ \E sdk \in BOOLEAN : ScanFolder(f, sdk)
      PROVE  Goal
  BY <1>5, <1>7 DEF ScanFails, ScanFolder, Unplug, world
<1>8. ASSUME NEW p \in Paths,
             \/ Look(p) \/ Recover(p) \/ ReadFails(p) \/ Match(p)
             \/ Relocate(p) \/ Save(p) \/ SaveFails(p)
      PROVE  Goal
  BY <1>5, <1>8, ZenonT(30) DEF Look, Recover, ReadFails, Match, Relocate, Save, SaveFails, world
<1>9. ASSUME NEW p \in Paths,
             \/ DeleteFile(p) \/ Hide(p)
             \/ \E t \in Texts : Write(p, t)
             \/ \E q \in Paths : MoveFile(p, q) \/ CopyFile(p, q)
             \/ \E i \in DOMAIN rows : Remove(i)
      PROVE  Goal
  BY <1>5, <1>9 DEF DeleteFile, Hide, Write, MoveFile, CopyFile, Remove
<1>10. CASE \E i \in DOMAIN rows : Remove(i)
  BY <1>5, <1>10 DEF Remove
<1>11. QED
  BY <1>1, <1>2, <1>3, <1>4, <1>6, <1>7, <1>8, <1>9, <1>10 DEF Next, RescanStep, OutsideStep

LEMMA TypesStep == Types /\ [Next]_vars => Types'
<1> SUFFICES ASSUME Types, [Next]_vars PROVE Types'
  OBVIOUS
<1>1. WorldTypes' /\ ScanTypes' /\ JobTypes'
  BY WorldStep, ScanStep, JobStep
<1>2. nextId' \in Nat \ {0} /\ nextId <= nextId' /\ IsRegistry(rows', nextId')
  BY RegistryStep
<1>3. nextId \in Nat /\ IsRegistry(rows, nextId) /\ IsRegistry(rescan.known, nextId)
  BY DEF Types, RowTypes
<1>4. IsRegistry(rescan'.known, nextId')
  BY <1>2, <1>3, KnownStep DEF IsRegistry
<1>5. RowTypes'
  BY <1>2, <1>4, RequestStep DEF RowTypes, IsRegistry
<1>6. QED
  BY <1>1, <1>5 DEF Types

\* Type correctness: the registry, the rescan, its jobs and the files keep their shapes.
THEOREM TypeCorrect == Spec => []TypeOK
<1>1. Spec => []Types
  BY InitTypes, TypesStep, PTL DEF Spec
<1>2. QED
  BY <1>1, TypesAreTypeOK, PTL

-----------------------------------------------------------------------------
(* What a step does to a registration.                                     *)

\* A registration that stays is as it was, was just seen, is marked missing, or forgot that it
\* was missing; a new one was just seen.
RowChange(i) ==
  \/ i \in DOMAIN rows /\ rows'[i] = rows[i]
  \/ rows'[i].missing = None /\ rows'[i].seen = day
  \/ /\ i \in DOMAIN rows /\ MarkMissing /\ rows[i].path \in rescan.absent
     /\ rows'[i].missing = day /\ rows'[i].seen = rows[i].seen

LEMMA UpsertChange ==
  ASSUME NEW p, NEW m, NEW t, Upsert(p, m, t), NEW i \in DOMAIN rows'
  PROVE  RowChange(i)
<1>1. CASE At(p) = {}
  <2>1. rows' = [k \in DOMAIN rows \cup {nextId} |->
                   IF k = nextId
                   THEN [path |-> p, text |-> t, mtime |-> m, missing |-> None, seen |-> day]
                   ELSE rows[k]]
    BY <1>1 DEF Upsert
  <2>2. QED
    BY <2>1 DEF RowChange
<1>2. CASE At(p) # {}
  <2>1. rows' = [k \in DOMAIN rows |->
                   IF k \in At(p)
                   THEN [path |-> p, text |-> t, mtime |-> m, missing |-> None, seen |-> day]
                   ELSE rows[k]]
    BY <1>2 DEF Upsert
  <2>2. QED
    BY <2>1 DEF RowChange
<1>3. QED
  BY <1>1, <1>2

LEMMA RowsChange ==
  ASSUME Types, [Next]_vars, NEW i \in DOMAIN rows'
  PROVE  RowChange(i)
<1>0. /\ rows = [k \in DOMAIN rows |-> rows[k]]
      /\ \A k \in DOMAIN rows : rows[k] \in Registrations
  BY DEF Types, RowTypes, IsRegistry
<1>1. ASSUME UNCHANGED rows PROVE RowChange(i)
  BY <1>1 DEF RowChange
<1>2. CASE RegisterSave \/ \E p \in Paths : Save(p)
  BY <1>2, UpsertChange DEF RegisterSave, Save
<1>3. CASE MarkMissing
  <2>1. CASE rescan.cancel
    BY <1>1, <1>3, <2>1 DEF MarkMissing
  <2>2. CASE ~rescan.cancel
    <3>1. rows' = [k \in DOMAIN rows |->
                     IF rows[k].path \in rescan.absent /\ rows[k].missing = None
                     THEN [rows[k] EXCEPT !.missing = day] ELSE rows[k]]
      BY <1>3, <2>2 DEF MarkMissing
    <3>2. i \in DOMAIN rows /\ rows[i] \in Registrations
      BY <1>0, <3>1
    <3>3. QED
      BY <1>3, <3>1, <3>2 DEF RowChange, Registrations
  <2>3. QED
    BY <2>1, <2>2
<1>4. ASSUME NEW p \in Paths, Recover(p) PROVE RowChange(i)
  <2>1. rows' = [k \in DOMAIN rows |->
                   IF k \in Known(p) THEN [rows[k] EXCEPT !.missing = None, !.seen = day]
                   ELSE rows[k]]
    BY <1>4 DEF Recover
  <2>2. i \in DOMAIN rows /\ rows[i] \in Registrations
    BY <1>0, <2>1
  <2>3. QED
    BY <2>1, <2>2 DEF RowChange, Registrations
<1>5. ASSUME NEW p \in Paths, Relocate(p) PROVE RowChange(i)
  <2> DEFINE k == job[p].row
  <2>1. CASE rows' = rows
    BY <1>1, <2>1
  <2>2. CASE k \in DOMAIN rows
             /\ rows' = [rows EXCEPT ![k].path = p, ![k].missing = None, ![k].seen = day]
    <3>1. rows' = [rows EXCEPT ![k] = [rows[k] EXCEPT !.path = p, !.missing = None, !.seen = day]]
      BY <1>0, <2>2
    <3>2. i \in DOMAIN rows /\ rows[k] \in Registrations
      BY <1>0, <2>2, <3>1
    <3>3. [rows[k] EXCEPT !.path = p, !.missing = None, !.seen = day].missing = None
          /\ [rows[k] EXCEPT !.path = p, !.missing = None, !.seen = day].seen = day
      BY <3>2 DEF Registrations
    <3>4. QED
      BY <2>2, <3>1, <3>2, <3>3 DEF RowChange
  <2>3. QED
    BY <1>5, <2>1, <2>2 DEF Relocate
<1>6. ASSUME NEW S, rows' = Without(rows, S) PROVE RowChange(i)
  BY <1>6 DEF Without, RowChange
<1>7. CASE Purge \/ \E k \in DOMAIN rows : Remove(k)
  BY <1>1, <1>6, <1>7 DEF Purge, Remove
<1>8. CASE Begin \/ Judge \/ End \/ Stop \/ Crash \/ NextDay \/ RegisterInspect \/ UNCHANGED vars
  BY <1>1, <1>8 DEF Begin, Judge, End, Stop, Crash, NextDay, RegisterInspect, vars
<1>9. ASSUME NEW f \in Folders,
             ScanFails(f) \/ Unplug(f) \/ \E sdk \in BOOLEAN : ScanFolder(f, sdk)
      PROVE  RowChange(i)
  BY <1>1, <1>9 DEF ScanFails, ScanFolder, Unplug
<1>10. ASSUME NEW p \in Paths, Look(p) \/ Read(p) \/ ReadFails(p) \/ Match(p) \/ SaveFails(p)
       PROVE  RowChange(i)
  BY <1>1, <1>10 DEF Look, Read, ReadFails, Match, SaveFails
<1>11. ASSUME NEW p \in Paths,
              \/ DeleteFile(p) \/ Hide(p) \/ RegisterStat(p)
              \/ \E t \in Texts : Write(p, t)
              \/ \E q \in Paths : MoveFile(p, q) \/ CopyFile(p, q)
       PROVE  RowChange(i)
  BY <1>1, <1>11 DEF DeleteFile, Hide, RegisterStat, Write, MoveFile, CopyFile
<1>12. QED
  BY <1>2, <1>3, <1>4, <1>5, <1>7, <1>8, <1>9, <1>10, <1>11 DEF Next, RescanStep, OutsideStep

LEMMA DayStep ==
  ASSUME Types, [Next]_vars
  PROVE  day \in Nat /\ day' \in Nat /\ day <= day'
<1>1. day \in Nat /\ day' \in Nat
  BY WorldStep DEF Types, WorldTypes
<1>2. UNCHANGED day \/ day' = day + 1
  BY ZenonT(30) DEF Next, RescanStep, OutsideStep, vars, world, Begin, ScanFolder, ScanFails, Judge,
         MarkMissing, Purge, End, Stop, Crash, Look, Recover, Read, ReadFails, Match, Relocate,
         Save, SaveFails, DeleteFile, Hide, RegisterStat, Write, MoveFile, CopyFile, Unplug,
         Remove, RegisterInspect, RegisterSave, NextDay
<1>3. QED
  BY <1>1, <1>2

LEMMA SeenStep == Types /\ SeenInv /\ [Next]_vars => SeenInv'
<1> SUFFICES ASSUME Types, SeenInv, [Next]_vars, NEW i \in DOMAIN rows'
             PROVE  SeenOK(rows[i])'
  BY DEF SeenInv
<1>1. day \in Nat /\ day' \in Nat /\ day <= day'
  BY DayStep
<1>2. CASE i \in DOMAIN rows /\ rows'[i] = rows[i]
  <2>1. rows[i] \in Registrations /\ SeenOK(rows[i])
    BY <1>2 DEF Types, RowTypes, IsRegistry, SeenInv
  <2>2. QED
    BY <1>1, <1>2, <2>1 DEF SeenOK, Registrations
<1>3. CASE rows'[i].missing = None /\ rows'[i].seen = day
  BY <1>1, <1>3 DEF SeenOK
<1>4. CASE i \in DOMAIN rows /\ rows'[i].missing = day /\ rows'[i].seen = rows[i].seen
  <2>1. rows[i] \in Registrations /\ SeenOK(rows[i])
    BY <1>4 DEF Types, RowTypes, IsRegistry, SeenInv
  <2>2. QED
    BY <1>1, <1>4, <2>1 DEF SeenOK, Registrations
<1>5. QED
  BY <1>2, <1>3, <1>4, RowsChange DEF RowChange

\* A registration has been missing only since after it was last seen: the days of grace start
\* anew whenever its file comes back, whatever else happens to it.
THEOREM GraceStartsAnew == Spec => []MissingAfterSeen
<1>1. Init => SeenInv
  <2> SUFFICES ASSUME Init, NEW i \in DOMAIN rows PROVE SeenOK(rows[i])
    BY DEF SeenInv
  <2>1. rows[i].missing = None /\ rows[i].seen = 0 /\ day = 0
    BY DEF Init
  <2>2. QED
    BY <2>1 DEF SeenOK
<1>2. SeenInv => MissingAfterSeen
  BY DEF SeenInv, SeenOK, MissingAfterSeen
<1>3. QED
  BY <1>1, <1>2, InitTypes, TypesStep, SeenStep, PTL DEF Spec

-----------------------------------------------------------------------------
(* What is missing was lost.                                               *)

\* Where nothing is now, something was before, or the step took it from a covered path.
LEMMA DisturbLost ==
  ASSUME Types, LostInv, AbsentInv, NEW gone \in SUBSET Paths, Disturb(gone),
         \A p \in Paths : ~Exists(p)' => ~Exists(p) \/ p \in gone
  PROVE  LostInv' /\ AbsentInv'
<1>1. ScanShape
  BY DEF Types, ScanTypes
<1>2. CASE rescan.at = "idle"
  <2>1. rescan' = rescan
    BY <1>2 DEF Disturb
  <2>2. QED
    BY <1>2, <2>1 DEF LostInv, AbsentInv
<1>3. CASE rescan.at # "idle"
  <2>1. /\ rescan'.at = rescan.at /\ rescan'.covered = rescan.covered
        /\ rescan'.absent = rescan.absent
        /\ rescan'.lost = rescan.lost \cup {p \in gone : FolderOf[p] \in rescan.covered}
    BY <1>1, <1>3 DEF Disturb, ScanShape
  <2>2. QED
    BY <1>3, <2>1 DEF LostInv, AbsentInv
<1>4. QED
  BY <1>2, <1>3

LEMMA OutsideLost ==
  ASSUME Types, LostInv, AbsentInv, OutsideStep
  PROVE  LostInv' /\ AbsentInv'
<1> USE DEF Exists
<1>0. disk \in [Paths -> Versions \cup {None}]
  BY DEF Types, WorldTypes
<1>1. ASSUME NEW gone \in SUBSET Paths, Disturb(gone), UNCHANGED down,
             \A p \in Paths : disk'[p] = None => disk[p] = None \/ p \in gone
      PROVE  LostInv' /\ AbsentInv'
  BY <1>1, DisturbLost
<1>2. ASSUME NEW p \in Paths, NEW t \in Texts, Write(p, t) PROVE LostInv' /\ AbsentInv'
  <2>1. [text |-> t, mtime |-> clock + 1] # None
    <3>1. clock + 1 \in Nat
      BY DEF Types, WorldTypes
    <3>2. QED
      BY <3>1, PathsAssumption
  <2>2. QED
    BY <1>0, <1>1, <1>2, <2>1 DEF Write
<1>3. ASSUME NEW p \in Paths, DeleteFile(p) PROVE LostInv' /\ AbsentInv'
  BY <1>0, <1>1, <1>3 DEF DeleteFile
<1>4. ASSUME NEW p \in Paths, NEW q \in Paths, MoveFile(p, q) PROVE LostInv' /\ AbsentInv'
  BY <1>0, <1>1, <1>4 DEF MoveFile
<1>5. ASSUME NEW p \in Paths, NEW q \in Paths, CopyFile(p, q) PROVE LostInv' /\ AbsentInv'
  BY <1>0, <1>1, <1>5 DEF CopyFile
<1>6. ASSUME NEW f \in Folders, Unplug(f) PROVE LostInv' /\ AbsentInv'
  BY <1>0, <1>6, DisturbLost DEF Unplug
<1>7. ASSUME NEW p \in Paths, Hide(p) \/ RegisterStat(p) PROVE LostInv' /\ AbsentInv'
  BY <1>1, <1>7 DEF Hide, RegisterStat
<1>8. CASE RegisterInspect \/ RegisterSave \/ \E i \in DOMAIN rows : Remove(i)
  BY <1>1, <1>8 DEF RegisterInspect, RegisterSave, Remove
<1>9. CASE NextDay
  BY <1>9 DEF NextDay, LostInv, AbsentInv
<1>10. QED
  BY <1>2, <1>3, <1>4, <1>5, <1>6, <1>7, <1>8, <1>9 DEF OutsideStep

LEMMA LostStep == Types /\ LostInv /\ AbsentInv /\ [Next]_vars => LostInv' /\ AbsentInv'
<1> SUFFICES ASSUME Types, LostInv, AbsentInv, [Next]_vars PROVE LostInv' /\ AbsentInv'
  OBVIOUS
<1>0. ScanShape
  BY DEF Types, ScanTypes
<1>1. ASSUME UNCHANGED <<disk, down>>, rescan'.covered = rescan.covered,
             rescan.lost \subseteq rescan'.lost, rescan'.absent = rescan.absent,
             rescan'.at # "idle", rescan'.at = "mark" => rescan.at = "mark"
      PROVE  LostInv' /\ AbsentInv'
  BY <1>1 DEF LostInv, AbsentInv, Exists
<1>2. ASSUME rescan'.covered = {}, rescan'.at # "mark" PROVE LostInv' /\ AbsentInv'
  BY <1>2 DEF LostInv, AbsentInv
<1>3. CASE Begin
  <2>1. rescan'.covered = {} /\ rescan'.at = "scan"
    BY <1>3 DEF Begin, Idle
  <2>2. QED
    BY <1>2, <2>1
<1>4. CASE End \/ Crash
  <2>1. rescan'.covered = {} /\ rescan'.at = "idle"
    BY <1>4 DEF End, Crash, Idle
  <2>2. QED
    BY <1>2, <2>1
<1>5. ASSUME NEW f \in Folders, NEW sdk \in BOOLEAN, ScanFolder(f, sdk)
      PROVE  LostInv' /\ AbsentInv'
  <2>1. /\ rescan.at = "scan" /\ f \notin down /\ UNCHANGED <<disk, down>>
        /\ rescan'.at = "scan"
        /\ rescan'.covered = (IF sdk THEN rescan.covered ELSE rescan.covered \cup {f})
        /\ rescan'.lost = (IF sdk THEN rescan.lost
                           ELSE rescan.lost \cup
                                  {p \in Paths : FolderOf[p] = f /\ disk[p] = None})
    BY <1>0, <1>5 DEF ScanFolder, ScanShape, world
  <2>2. QED
    BY <2>1 DEF LostInv, AbsentInv, Exists
<1>6. ASSUME NEW f \in Folders, ScanFails(f) PROVE LostInv' /\ AbsentInv'
  BY <1>0, <1>1, <1>6 DEF ScanFails, ScanShape, world
<1>7. CASE Judge
  <2>1. /\ UNCHANGED <<disk, down>> /\ rescan'.at = "mark"
        /\ rescan'.covered = rescan.covered /\ rescan'.lost = rescan.lost
        /\ rescan'.absent = {p \in Paths \ rescan.found : At(p) # {} /\ AbsenceIsProven(p)}
    BY <1>0, <1>7 DEF Judge, ScanShape, world
  <2>2. QED
    BY <2>1 DEF LostInv, AbsentInv, AbsenceIsProven, Exists
<1>8. CASE MarkMissing \/ Purge
  BY <1>0, <1>1, <1>8 DEF MarkMissing, Purge, ScanShape, world
<1>9. CASE Stop
  BY <1>0, <1>1, <1>9 DEF Stop, ScanShape, world
<1>10. ASSUME NEW p \in Paths, ReadFails(p) \/ SaveFails(p) \/ Relocate(p)
       PROVE  LostInv' /\ AbsentInv'
  <2>1. /\ UNCHANGED <<disk, down>> /\ rescan'.at = rescan.at
        /\ rescan'.covered = rescan.covered /\ rescan'.lost = rescan.lost
        /\ rescan'.absent = rescan.absent
    BY <1>0, <1>10 DEF ReadFails, SaveFails, Relocate, ScanShape, world
  <2>2. QED
    BY <2>1 DEF LostInv, AbsentInv, Exists
<1>11. ASSUME UNCHANGED <<disk, down, rescan>> PROVE LostInv' /\ AbsentInv'
  BY <1>11 DEF LostInv, AbsentInv, Exists
<1>12. ASSUME NEW p \in Paths, Look(p) \/ Recover(p) \/ Read(p) \/ Match(p) \/ Save(p)
       PROVE  LostInv' /\ AbsentInv'
  BY <1>11, <1>12, ZenonT(30) DEF Look, Recover, Read, Match, Save, world
<1>13. CASE UNCHANGED vars
  BY <1>11, <1>13 DEF vars
<1>14. QED
  BY <1>3, <1>4, <1>5, <1>6, <1>7, <1>8, <1>9, <1>10, <1>12, <1>13, OutsideLost
     DEF Next, RescanStep

\* A registration is marked missing only if nothing was at its path at some moment after its
\* folder was walked.
THEOREM MissingWasLost == Spec => MarkedWasLost
<1> DEFINE Marked == \A i \in DOMAIN rows \cap DOMAIN rows' :
                       rows[i].missing = None /\ rows'[i].missing # None
                         => rows[i].path \in rescan.lost
<1>1. Types /\ AbsentInv /\ [Next]_vars => [Marked]_vars
  <2> SUFFICES ASSUME Types, AbsentInv, [Next]_vars, NEW i \in DOMAIN rows \cap DOMAIN rows',
                      rows[i].missing = None, rows'[i].missing # None
               PROVE  rows[i].path \in rescan.lost
    OBVIOUS
  <2>1. MarkMissing /\ rows[i].path \in rescan.absent
    BY RowsChange DEF RowChange
  <2>2. rescan.at = "mark"
    BY <2>1 DEF MarkMissing
  <2>3. QED
    BY <2>1, <2>2 DEF AbsentInv
<1>2. Init => LostInv /\ AbsentInv
  BY DEF Init, LostInv, AbsentInv, Idle
<1>3. QED
  BY <1>1, <1>2, InitTypes, TypesStep, LostStep, PTL DEF Spec, MarkedWasLost

-----------------------------------------------------------------------------
(* A modification time names one text.                                     *)

ReadPoints == {"match", "move", "save"}

\* The modification times of the files, and those that were noted.
OnDisk(m) == \E p \in Paths : disk[p] # None /\ disk[p].mtime = m

Held(m) ==
  \/ \E i \in DOMAIN rows : rows[i].mtime = m
  \/ \E p \in Paths : rescan.stamp[p] = m \/ job[p].mtime = m
  \/ request # None /\ request.mtime = m

\* t is registered, or about to be, as the text of modification time m.
Claimed(m, t) ==
  \/ \E i \in DOMAIN rows : rows[i].mtime = m /\ rows[i].text = t
  \/ \E p \in Paths : job[p].at \in ReadPoints /\ job[p].mtime = m /\ job[p].text = t
  \/ request # None /\ request.mtime = m /\ request.text = t

TimesInv == \A m \in Nat : OnDisk(m) \/ Held(m) => m <= clock

NamesInv ==
  \A p, q \in Paths :
    disk[p] # None /\ disk[q] # None /\ disk[p].mtime = disk[q].mtime
      => disk[p].text = disk[q].text

FitsInv ==
  \A m \in Nat \ torn, t \in Texts : Claimed(m, t) =>
    \A p \in Paths : disk[p] # None /\ disk[p].mtime = m => disk[p].text = t

\* What a step leaves on the disk was there, or is the one version written with a new time.
LEMMA DiskStep ==
  ASSUME Types, [Next]_vars
  PROVE  /\ clock' = clock \/ clock' = clock + 1
         /\ \E v : \A p \in Paths : disk'[p] # None =>
              \/ \E q \in Paths : disk[q] # None /\ disk'[p] = disk[q]
              \/ disk'[p] = v /\ v.mtime = clock + 1 /\ clock' = clock + 1
<1> DEFINE Goal ==
      /\ clock' = clock \/ clock' = clock + 1
      /\ \E v : \A p \in Paths : disk'[p] # None =>
           \/ \E q \in Paths : disk[q] # None /\ disk'[p] = disk[q]
           \/ disk'[p] = v /\ v.mtime = clock + 1 /\ clock' = clock + 1
<1>0. disk \in [Paths -> Versions \cup {None}]
  BY DEF Types, WorldTypes
<1>1. ASSUME NEW p \in Paths, NEW t \in Texts, Write(p, t) PROVE Goal
  <2> DEFINE v == [text |-> t, mtime |-> clock + 1]
  <2>1. v.mtime = clock + 1 /\ clock' = clock + 1
    BY <1>1 DEF Write
  <2>2. disk' = [disk EXCEPT ![p] = v]
    BY <1>1 DEF Write
  <2> HIDE DEF v
  <2>3. \A q \in Paths : disk'[q] = v \/ disk'[q] = disk[q]
    BY <1>0, <2>2
  <2>4. QED
    BY <2>1, <2>3
<1>2. ASSUME UNCHANGED clock,
             \A p \in Paths : disk'[p] # None =>
               \E q \in Paths : disk[q] # None /\ disk'[p] = disk[q]
      PROVE  Goal
  BY <1>2
<1>3. ASSUME NEW p \in Paths, DeleteFile(p) PROVE Goal
  BY <1>0, <1>2, <1>3 DEF DeleteFile
<1>4. ASSUME NEW p \in Paths, NEW q \in Paths, MoveFile(p, q) \/ CopyFile(p, q) PROVE Goal
  <2>1. \A r \in Paths : disk'[r] = None \/ disk'[r] = disk[r] \/ disk'[r] = disk[p]
    BY <1>0, <1>4 DEF MoveFile, CopyFile
  <2>2. disk[p] # None /\ UNCHANGED clock
    BY <1>4 DEF MoveFile, CopyFile
  <2>3. QED
    BY <1>2, <2>1, <2>2
<1>5. ASSUME UNCHANGED <<disk, clock>> PROVE Goal
  BY <1>2, <1>5
<1>6. ASSUME NEW p \in Paths, Hide(p) \/ RegisterStat(p) PROVE Goal
  BY <1>5, <1>6 DEF Hide, RegisterStat
<1>7. CASE \/ \E f \in Folders : Unplug(f)
           \/ \E i \in DOMAIN rows : Remove(i)
           \/ RegisterInspect \/ RegisterSave \/ NextDay \/ UNCHANGED vars
  BY <1>5, <1>7 DEF Unplug, Remove, RegisterInspect, RegisterSave, NextDay, vars
<1>8. CASE RescanStep
  <2>1. UNCHANGED <<disk, clock>>
    BY <1>8, ZenonT(30) DEF RescanStep, Begin, ScanFolder, ScanFails, Judge, MarkMissing, Purge,
         End, Stop,
                Crash, Look, Recover, Read, ReadFails, Match, Relocate, Save, SaveFails, world
  <2>2. QED
    BY <1>5, <2>1
<1>9. QED
  BY <1>1, <1>3, <1>4, <1>6, <1>7, <1>8 DEF Next, OutsideStep

\* The times Everything gave are those of files.
LEMMA StampStep ==
  ASSUME Types, [Next]_vars, NEW p \in Paths
  PROVE  \/ rescan'.stamp[p] = None \/ rescan'.stamp[p] = rescan.stamp[p]
         \/ disk[p] # None /\ rescan'.stamp[p] = disk[p].mtime
<1> DEFINE Goal == \/ rescan'.stamp[p] = None \/ rescan'.stamp[p] = rescan.stamp[p]
                   \/ disk[p] # None /\ rescan'.stamp[p] = disk[p].mtime
<1>0. ScanShape /\ rescan.stamp \in [Paths -> Nat \cup {None}]
  BY DEF Types, ScanTypes
<1>1. ASSUME rescan' = rescan \/ rescan'.stamp = rescan.stamp PROVE Goal
  BY <1>1
<1>2. CASE Begin \/ End \/ Crash
  <2>1. ASSUME rescan'.stamp = [q \in Paths |-> None] PROVE Goal
    BY <2>1
  <2>2. CASE Begin
    BY <2>1, <2>2 DEF Begin, Idle
  <2>3. CASE End \/ Crash
    BY <2>1, <2>3 DEF End, Crash, Idle
  <2>4. QED
    BY <1>2, <2>2, <2>3
<1>3. ASSUME NEW f \in Folders, NEW sdk \in BOOLEAN, ScanFolder(f, sdk) PROVE Goal
  <2> DEFINE seen == {q \in Paths : FolderOf[q] = f /\ Visible(q)}
  <2>1. \/ rescan'.stamp = rescan.stamp
        \/ rescan'.stamp = [q \in Paths |-> IF q \in seen THEN disk[q].mtime
                                            ELSE rescan.stamp[q]]
    BY <1>0, <1>3 DEF ScanFolder, ScanShape
  <2>2. QED
    BY <2>1 DEF Visible, Exists
<1>4. CASE Judge \/ MarkMissing \/ Purge \/ Stop \/ UNCHANGED vars
  BY <1>0, <1>1, <1>4 DEF Judge, MarkMissing, Purge, Stop, vars, ScanShape
<1>5. ASSUME NEW f \in Folders, ScanFails(f) PROVE Goal
  BY <1>0, <1>1, <1>5 DEF ScanFails, ScanShape
<1>6. ASSUME NEW q \in Paths,
             \/ Look(q) \/ Recover(q) \/ Read(q) \/ ReadFails(q)
             \/ Match(q) \/ Relocate(q) \/ Save(q) \/ SaveFails(q)
      PROVE  Goal
  BY <1>0, <1>1, <1>6, ZenonT(30) DEF Look, Recover, Read, ReadFails, Match, Relocate, Save,
       SaveFails,
                          ScanShape
<1>7. CASE OutsideStep
  <2>1. CASE NextDay
    BY <1>1, <2>1 DEF NextDay
  <2>2. ASSUME NEW gone \in SUBSET Paths, Disturb(gone) PROVE Goal
    BY <1>0, <1>1, <2>2 DEF Disturb, ScanShape
  <2>3. ASSUME ~NextDay PROVE \E gone \in SUBSET Paths : Disturb(gone)
    BY <1>7, <2>3 DEF OutsideStep, DeleteFile, Hide, RegisterStat, Write, MoveFile, CopyFile,
                      Unplug, Remove, RegisterInspect, RegisterSave
  <2>4. QED
    BY <2>1, <2>2, <2>3
<1>8. QED
  BY <1>2, <1>3, <1>4, <1>5, <1>6, <1>7 DEF Next, RescanStep

\* A registration has the time and text it had, or those that were read for it.
RowOrigin(i) ==
  \/ i \in DOMAIN rows /\ rows'[i].mtime = rows[i].mtime /\ rows'[i].text = rows[i].text
  \/ \E p \in Paths : /\ job[p].at = "save"
                      /\ rows'[i].mtime = job[p].mtime /\ rows'[i].text = job[p].text
  \/ /\ request # None
     /\ rows'[i].mtime = request.mtime /\ rows'[i].text = request.text

LEMMA UpsertOrigin ==
  ASSUME NEW p, NEW m, NEW t, Upsert(p, m, t), NEW i \in DOMAIN rows'
  PROVE  \/ i \in DOMAIN rows /\ rows'[i] = rows[i]
         \/ rows'[i].mtime = m /\ rows'[i].text = t
<1>1. CASE At(p) = {}
  <2>1. rows' = [k \in DOMAIN rows \cup {nextId} |->
                   IF k = nextId
                   THEN [path |-> p, text |-> t, mtime |-> m, missing |-> None, seen |-> day]
                   ELSE rows[k]]
    BY <1>1 DEF Upsert
  <2>2. QED
    BY <2>1
<1>2. CASE At(p) # {}
  <2>1. rows' = [k \in DOMAIN rows |->
                   IF k \in At(p)
                   THEN [path |-> p, text |-> t, mtime |-> m, missing |-> None, seen |-> day]
                   ELSE rows[k]]
    BY <1>2 DEF Upsert
  <2>2. QED
    BY <2>1
<1>3. QED
  BY <1>1, <1>2

LEMMA RowStep ==
  ASSUME Types, [Next]_vars, NEW i \in DOMAIN rows'
  PROVE  RowOrigin(i)
<1>0. /\ rows = [k \in DOMAIN rows |-> rows[k]]
      /\ \A k \in DOMAIN rows : rows[k] \in Registrations
  BY DEF Types, RowTypes, IsRegistry
<1>1. ASSUME i \in DOMAIN rows, rows'[i] = rows[i] PROVE RowOrigin(i)
  BY <1>1 DEF RowOrigin
<1>2. ASSUME NEW p \in Paths, Save(p) PROVE RowOrigin(i)
  <2>1. job[p].at = "save" /\ Upsert(p, job[p].mtime, job[p].text)
    BY <1>2 DEF Save
  <2>2. QED
    BY <2>1, UpsertOrigin DEF RowOrigin
<1>3. CASE RegisterSave
  <2>1. request # None /\ Upsert(request.path, request.mtime, request.text)
    BY <1>3 DEF RegisterSave
  <2>2. QED
    BY <2>1, UpsertOrigin DEF RowOrigin
<1>4. CASE MarkMissing
  <2>1. CASE rescan.cancel
    BY <1>1, <1>4, <2>1 DEF MarkMissing
  <2>2. CASE ~rescan.cancel
    <3>1. rows' = [k \in DOMAIN rows |->
                     IF rows[k].path \in rescan.absent /\ rows[k].missing = None
                     THEN [rows[k] EXCEPT !.missing = day] ELSE rows[k]]
      BY <1>4, <2>2 DEF MarkMissing
    <3>2. i \in DOMAIN rows /\ rows[i] \in Registrations
      BY <1>0, <3>1
    <3>3. QED
      BY <3>1, <3>2 DEF RowOrigin, Registrations
  <2>3. QED
    BY <2>1, <2>2
<1>5. ASSUME NEW p \in Paths, Recover(p) PROVE RowOrigin(i)
  <2>1. rows' = [k \in DOMAIN rows |->
                   IF k \in Known(p) THEN [rows[k] EXCEPT !.missing = None, !.seen = day]
                   ELSE rows[k]]
    BY <1>5 DEF Recover
  <2>2. i \in DOMAIN rows /\ rows[i] \in Registrations
    BY <1>0, <2>1
  <2>3. QED
    BY <2>1, <2>2 DEF RowOrigin, Registrations
<1>6. ASSUME NEW p \in Paths, Relocate(p) PROVE RowOrigin(i)
  <2> DEFINE k == job[p].row
  <2>1. CASE rows' = rows
    BY <1>1, <2>1
  <2>2. CASE k \in DOMAIN rows
             /\ rows' = [rows EXCEPT ![k].path = p, ![k].missing = None, ![k].seen = day]
    <3> DEFINE row == [rows[k] EXCEPT !.path = p, !.missing = None, !.seen = day]
    <3>1. rows' = [rows EXCEPT ![k] = row]
      BY <1>0, <2>2
    <3>2. i \in DOMAIN rows /\ rows[k] \in Registrations
      BY <1>0, <2>2, <3>1
    <3>3. row.mtime = rows[k].mtime /\ row.text = rows[k].text
      BY <3>2 DEF Registrations
    <3> HIDE DEF row
    <3>4. QED
      BY <1>0, <2>2, <3>1, <3>2, <3>3 DEF RowOrigin
  <2>3. QED
    BY <1>6, <2>1, <2>2 DEF Relocate
<1>7. ASSUME NEW S, rows' = Without(rows, S) PROVE RowOrigin(i)
  BY <1>1, <1>7 DEF Without
<1>8. CASE Purge \/ \E k \in DOMAIN rows : Remove(k)
  BY <1>1, <1>7, <1>8 DEF Purge, Remove
<1>9. ASSUME UNCHANGED rows PROVE RowOrigin(i)
  BY <1>1, <1>9
<1>10. CASE Begin \/ Judge \/ End \/ Stop \/ Crash \/ NextDay \/ RegisterInspect \/ UNCHANGED vars
  BY <1>9, <1>10 DEF Begin, Judge, End, Stop, Crash, NextDay, RegisterInspect, vars
<1>11. ASSUME NEW f \in Folders,
              ScanFails(f) \/ Unplug(f) \/ \E sdk \in BOOLEAN : ScanFolder(f, sdk)
       PROVE  RowOrigin(i)
  BY <1>9, <1>11 DEF ScanFails, ScanFolder, Unplug
<1>12. ASSUME NEW p \in Paths, Look(p) \/ Read(p) \/ ReadFails(p) \/ Match(p) \/ SaveFails(p)
       PROVE  RowOrigin(i)
  BY <1>9, <1>12 DEF Look, Read, ReadFails, Match, SaveFails
<1>13. ASSUME NEW p \in Paths,
              \/ DeleteFile(p) \/ Hide(p) \/ RegisterStat(p)
              \/ \E t \in Texts : Write(p, t)
              \/ \E q \in Paths : MoveFile(p, q) \/ CopyFile(p, q)
       PROVE  RowOrigin(i)
  BY <1>9, <1>13 DEF DeleteFile, Hide, RegisterStat, Write, MoveFile, CopyFile
<1>14. QED
  BY <1>2, <1>3, <1>4, <1>5, <1>6, <1>8, <1>10, <1>11, <1>12, <1>13
     DEF Next, RescanStep, OutsideStep

\* The text at p, as that of modification time m, or of one that is not to be trusted.
ReadAs(p, m, t) ==
  disk[p] # None /\ t = disk[p].text /\ (disk[p].mtime = m \/ m \in torn')

LEMMA ReadIsNoted ==
  ASSUME NEW p \in Paths, NEW m, Visible(p), NoteTorn(p, m)
  PROVE  ReadAs(p, m, disk[p].text)
  BY DEF Visible, Exists, NoteTorn, ReadAs

\* A worker has forgotten what it had, kept it, looked at a time or read a text.
JobOrigin(p) ==
  \/ job'[p].mtime = None /\ job'[p].at \notin ReadPoints
  \/ /\ job'[p].mtime = job[p].mtime /\ job'[p].text = job[p].text
     /\ job'[p].at \in ReadPoints => job[p].at \in ReadPoints
  \/ /\ job'[p].at = "read"
     /\ job'[p].mtime = rescan.stamp[p] \/ (disk[p] # None /\ job'[p].mtime = disk[p].mtime)
  \/ job'[p].mtime = job[p].mtime /\ ReadAs(p, job[p].mtime, job'[p].text)

LEMMA JobKept ==
  ASSUME Types, NEW p \in Paths, NEW q \in Paths, NEW j, job' = [job EXCEPT ![q] = j], p # q
  PROVE  JobOrigin(p)
  BY DEF JobOrigin, Types, JobTypes

LEMMA JobOriginStep ==
  ASSUME Types, [Next]_vars, NEW p \in Paths
  PROVE  JobOrigin(p)
<1>0. job \in [Paths -> Jobs] /\ \A q \in Paths : job[q] \in Jobs
  BY DEF Types, JobTypes
<1>1. ASSUME NEW q \in Paths, GiveUp(q) PROVE JobOrigin(p)
  <2>1. job' = [job EXCEPT ![q] = [NoJob EXCEPT !.at = "done"]]
    BY <1>1 DEF GiveUp
  <2>2. CASE p # q
    BY <2>1, <2>2, JobKept
  <2>3. CASE p = q
    BY <1>0, <2>1, <2>3 DEF JobOrigin, NoJob, ReadPoints
  <2>4. QED
    BY <2>2, <2>3
<1>2. ASSUME NEW q \in Paths, Look(q) PROVE JobOrigin(p)
  <2> DEFINE m == IF rescan.stamp[q] # None THEN rescan.stamp[q] ELSE disk[q].mtime
             read == [job[q] EXCEPT !.at = "read", !.mtime = m]
  <2>1. CASE GiveUp(q)
    BY <1>1, <2>1
  <2>2. CASE Goto(q, "recover")
    BY <1>0, <2>2 DEF Goto, JobOrigin, ReadPoints, Jobs
  <2>3. ASSUME ~(rescan.stamp[q] = None /\ ~Visible(q)),
               job' = [job EXCEPT ![q].at = "read", ![q].mtime = m]
        PROVE  JobOrigin(p)
    <3>1. job' = [job EXCEPT ![q] = read]
      BY <1>0, <2>3 DEF Jobs
    <3>2. read.at = "read" /\ read.mtime = m
      BY <1>0 DEF Jobs
    <3>3. m = rescan.stamp[q] \/ (disk[q] # None /\ m = disk[q].mtime)
      BY <2>3 DEF Visible, Exists
    <3> HIDE DEF m, read
    <3>4. CASE p # q
      BY <3>1, <3>4, JobKept
    <3>5. CASE p = q
      BY <1>0, <3>1, <3>2, <3>3, <3>5 DEF JobOrigin
    <3>6. QED
      BY <3>4, <3>5
  <2>4. QED
    BY <1>2, <2>1, <2>2, <2>3 DEF Look
<1>3. ASSUME NEW q \in Paths, Read(q) PROVE JobOrigin(p)
  <2>1. CASE GiveUp(q)
    BY <1>1, <2>1
  <2>2. CASE /\ Visible(q) /\ NoteTorn(q, job[q].mtime)
             /\ job' = [job EXCEPT ![q].at = "match", ![q].text = disk[q].text]
    <3> DEFINE read == [job[q] EXCEPT !.at = "match", !.text = disk[q].text]
    <3>1. job' = [job EXCEPT ![q] = read]
      BY <1>0, <2>2 DEF Jobs
    <3>2. read.mtime = job[q].mtime /\ read.text = disk[q].text
      BY <1>0 DEF Jobs
    <3>3. ReadAs(q, job[q].mtime, disk[q].text)
      BY <2>2, ReadIsNoted
    <3> HIDE DEF read
    <3>4. CASE p # q
      BY <3>1, <3>4, JobKept
    <3>5. CASE p = q
      BY <1>0, <3>1, <3>2, <3>3, <3>5 DEF JobOrigin
    <3>6. QED
      BY <3>4, <3>5
  <2>3. QED
    BY <1>3, <2>1, <2>2 DEF Read
<1>4. ASSUME NEW q \in Paths, Match(q) PROVE JobOrigin(p)
  <2>1. PICK at, row : job' = [job EXCEPT ![q].at = at, ![q].row = row]
    BY <1>4 DEF Match
  <2> DEFINE matched == [job[q] EXCEPT !.at = at, !.row = row]
  <2>2. job' = [job EXCEPT ![q] = matched]
    BY <1>0, <2>1 DEF Jobs
  <2>3. matched.mtime = job[q].mtime /\ matched.text = job[q].text
    BY <1>0 DEF Jobs
  <2> HIDE DEF matched
  <2>4. job[q].at \in ReadPoints
    BY <1>4 DEF Match, ReadPoints
  <2>5. CASE p # q
    BY <2>2, <2>5, JobKept
  <2>6. CASE p = q
    BY <1>0, <2>2, <2>3, <2>4, <2>6 DEF JobOrigin
  <2>7. QED
    BY <2>5, <2>6
<1>5. ASSUME NEW q \in Paths, Relocate(q) PROVE JobOrigin(p)
  BY <1>0, <1>5 DEF Relocate, Goto, JobOrigin, ReadPoints, Jobs
<1>6. ASSUME NEW q \in Paths, Recover(q) \/ ReadFails(q) \/ Save(q) \/ SaveFails(q)
      PROVE  JobOrigin(p)
  BY <1>1, <1>6 DEF Recover, ReadFails, Save, SaveFails
<1>7. CASE MarkMissing \/ End \/ Crash
  BY <1>7 DEF MarkMissing, End, Crash, NoJob, JobOrigin, ReadPoints
<1>8. ASSUME UNCHANGED job PROVE JobOrigin(p)
  BY <1>8 DEF JobOrigin
<1>9. CASE \/ OutsideStep \/ Begin \/ Judge \/ Purge \/ Stop \/ UNCHANGED vars
           \/ \E f \in Folders : ScanFails(f) \/ \E sdk \in BOOLEAN : ScanFolder(f, sdk)
  BY <1>8, <1>9 DEF OutsideStep, DeleteFile, Hide, RegisterStat, Write, MoveFile, CopyFile,
              Unplug, Remove, RegisterInspect, RegisterSave, NextDay, Begin, Judge, Purge, Stop,
              ScanFails, ScanFolder, vars
<1>10. QED
  BY <1>2, <1>3, <1>4, <1>5, <1>6, <1>7, <1>9 DEF Next, RescanStep

\* A register request is over, as it was, has a time, or has read the text.
LEMMA RequestOrigin ==
  ASSUME Types, [Next]_vars
  PROVE  \/ request' = None \/ request' = request
         \/ \E p \in Paths : disk[p] # None /\ request'.mtime = disk[p].mtime
                                            /\ request'.text = None
         \/ /\ request # None /\ request'.mtime = request.mtime
            /\ \E p \in Paths : ReadAs(p, request.mtime, request'.text)
<1> DEFINE Goal ==
      \/ request' = None \/ request' = request
      \/ \E p \in Paths : disk[p] # None /\ request'.mtime = disk[p].mtime
                                         /\ request'.text = None
      \/ /\ request # None /\ request'.mtime = request.mtime
         /\ \E p \in Paths : ReadAs(p, request.mtime, request'.text)
<1>1. ASSUME NEW p \in Paths, RegisterStat(p) PROVE Goal
  BY <1>1 DEF RegisterStat, Visible, Exists
<1>2. CASE RegisterInspect
  <2>1. /\ request # None
        /\ request \in [path : Paths, mtime : Nat, text : Texts \cup {None}]
    BY <1>2 DEF RegisterInspect, Types, RowTypes
  <2>2. CASE Visible(request.path)
    <3>1. ReadAs(request.path, request.mtime, disk[request.path].text)
      BY <1>2, <2>1, <2>2, ReadIsNoted DEF RegisterInspect
    <3>2. request' = [request EXCEPT !.text = disk[request.path].text]
      BY <1>2, <2>2 DEF RegisterInspect
    <3>3. QED
      BY <2>1, <3>1, <3>2
  <2>3. CASE ~Visible(request.path)
    BY <1>2, <2>3 DEF RegisterInspect
  <2>4. QED
    BY <2>2, <2>3
<1>3. CASE RegisterSave \/ Crash
  BY <1>3 DEF RegisterSave, Crash
<1>4. ASSUME UNCHANGED request PROVE Goal
  BY <1>4
<1>5. CASE Begin \/ Judge \/ MarkMissing \/ Purge \/ End \/ Stop \/ NextDay \/ UNCHANGED vars
  BY <1>4, <1>5 DEF Begin, Judge, MarkMissing, Purge, End, Stop, NextDay, vars, world
<1>6. ASSUME NEW f \in Folders,
             ScanFails(f) \/ Unplug(f) \/ \E sdk \in BOOLEAN : ScanFolder(f, sdk)
      PROVE  Goal
  BY <1>4, <1>6 DEF ScanFails, ScanFolder, Unplug, world
<1>7. ASSUME NEW p \in Paths,
             \/ Look(p) \/ Recover(p) \/ Read(p) \/ ReadFails(p) \/ Match(p)
             \/ Relocate(p) \/ Save(p) \/ SaveFails(p)
      PROVE  Goal
  BY <1>4, <1>7, ZenonT(30) DEF Look, Recover, Read, ReadFails, Match, Relocate, Save, SaveFails,
       world
<1>8. ASSUME NEW p \in Paths,
             \/ DeleteFile(p) \/ Hide(p)
             \/ \E t \in Texts : Write(p, t)
             \/ \E q \in Paths : MoveFile(p, q) \/ CopyFile(p, q)
             \/ \E i \in DOMAIN rows : Remove(i)
      PROVE  Goal
  BY <1>4, <1>8 DEF DeleteFile, Hide, Write, MoveFile, CopyFile, Remove
<1>9. CASE \E i \in DOMAIN rows : Remove(i)
  BY <1>4, <1>9 DEF Remove
<1>10. QED
  BY <1>1, <1>2, <1>3, <1>5, <1>6, <1>7, <1>8, <1>9 DEF Next, RescanStep, OutsideStep

\* A time that is not to be trusted never is again.
LEMMA TornStep ==
  ASSUME [Next]_vars
  PROVE  torn \subseteq torn'
<1>1. ASSUME UNCHANGED torn PROVE torn \subseteq torn'
  BY <1>1
<1>2. ASSUME NEW p \in Paths, Read(p) PROVE torn \subseteq torn'
  BY <1>2 DEF Read, NoteTorn
<1>3. CASE RegisterInspect
  BY <1>3 DEF RegisterInspect, NoteTorn
<1>4. CASE \/ UNCHANGED vars \/ Begin \/ Judge \/ MarkMissing \/ Purge \/ End \/ Stop \/ Crash
           \/ RegisterSave \/ NextDay \/ \E i \in DOMAIN rows : Remove(i)
           \/ \E f \in Folders : \/ Unplug(f) \/ ScanFails(f)
                                 \/ \E sdk \in BOOLEAN : ScanFolder(f, sdk)
  BY <1>1, <1>4, ZenonT(30) DEF vars, Begin, Judge, MarkMissing, Purge, End, Stop, Crash,
       RegisterSave,
              NextDay, Remove, Unplug, ScanFails, ScanFolder
<1>5. ASSUME NEW p \in Paths,
             \/ Look(p) \/ Recover(p) \/ ReadFails(p) \/ Match(p) \/ Relocate(p)
             \/ Save(p) \/ SaveFails(p) \/ DeleteFile(p) \/ Hide(p) \/ RegisterStat(p)
             \/ \E t \in Texts : Write(p, t)
             \/ \E q \in Paths : MoveFile(p, q) \/ CopyFile(p, q)
      PROVE  torn \subseteq torn'
  BY <1>1, <1>5, ZenonT(30) DEF Look, Recover, ReadFails, Match, Relocate, Save, SaveFails,
       DeleteFile, Hide,
              RegisterStat, Write, MoveFile, CopyFile
<1>6. QED
  BY <1>2, <1>3, <1>4, <1>5 DEF Next, RescanStep, OutsideStep

\* A time that is noted was noted before, or is that of a file.
LEMMA HeldStep ==
  ASSUME Types, [Next]_vars, NEW m \in Nat, Held(m)'
  PROVE  Held(m) \/ OnDisk(m)
<1>1. ASSUME NEW i \in DOMAIN rows', rows'[i].mtime = m PROVE Held(m)
  BY <1>1, RowStep DEF RowOrigin, Held
<1>2. ASSUME NEW p \in Paths, rescan'.stamp[p] = m PROVE Held(m) \/ OnDisk(m)
  BY <1>2, StampStep, NoneIsApart DEF Held, OnDisk
<1>3. ASSUME NEW p \in Paths, job'[p].mtime = m PROVE Held(m) \/ OnDisk(m)
  BY <1>3, JobOriginStep, NoneIsApart DEF JobOrigin, Held, OnDisk
<1>4. ASSUME request' # None, request'.mtime = m PROVE Held(m) \/ OnDisk(m)
  BY <1>4, RequestOrigin DEF Held, OnDisk
<1>5. QED
  BY <1>1, <1>2, <1>3, <1>4 DEF Held

\* What is claimed was claimed before, or has just been read.
LEMMA ClaimStep ==
  ASSUME Types, [Next]_vars, NEW m \in Nat, NEW t \in Texts, Claimed(m, t)'
  PROVE  Claimed(m, t) \/ \E p \in Paths : ReadAs(p, m, t)
<1>1. ASSUME NEW i \in DOMAIN rows', rows'[i].mtime = m, rows'[i].text = t
      PROVE  Claimed(m, t)
  BY <1>1, RowStep DEF RowOrigin, Claimed, ReadPoints
<1>2. ASSUME NEW p \in Paths, job'[p].at \in ReadPoints, job'[p].mtime = m, job'[p].text = t
      PROVE  Claimed(m, t) \/ \E q \in Paths : ReadAs(q, m, t)
  <2>1. job'[p].at # "read"
    BY <1>2 DEF ReadPoints
  <2>2. QED
    BY <1>2, <2>1, JobOriginStep, NoneIsApart DEF JobOrigin, Claimed
<1>3. ASSUME request' # None, request'.mtime = m, request'.text = t
      PROVE  Claimed(m, t) \/ \E q \in Paths : ReadAs(q, m, t)
  BY <1>3, RequestOrigin, NoneIsApart DEF Claimed
<1>4. QED
  BY <1>1, <1>2, <1>3 DEF Claimed

LEMMA ClaimedIsHeld ==
  ASSUME NEW m, NEW t, Claimed(m, t)
  PROVE  Held(m)
  BY DEF Claimed, Held

LEMMA NamedStep ==
  ASSUME Types, TimesInv, NamesInv, FitsInv, [Next]_vars
  PROVE  TimesInv' /\ NamesInv' /\ FitsInv'
<1>0. clock \in Nat /\ \A p \in Paths : disk[p] # None => disk[p].mtime \in Nat
  BY DiskVersion DEF Types, WorldTypes
<1>1. PICK v : \A p \in Paths : disk'[p] # None =>
        \/ \E q \in Paths : disk[q] # None /\ disk'[p] = disk[q]
        \/ disk'[p] = v /\ v.mtime = clock + 1 /\ clock' = clock + 1
  BY DiskStep
<1>2. clock' = clock \/ clock' = clock + 1
  BY DiskStep
<1>3. \A p \in Paths : disk[p] # None => disk[p].mtime <= clock
  BY <1>0 DEF TimesInv, OnDisk
<1>4. TimesInv'
  <2>1. ASSUME NEW m \in Nat, OnDisk(m)' PROVE m <= clock'
    BY <1>0, <1>1, <1>2, <1>3, <2>1 DEF OnDisk
  <2>2. ASSUME NEW m \in Nat, Held(m)' PROVE m <= clock'
    BY <1>0, <1>2, <2>2, HeldStep DEF TimesInv
  <2>3. QED
    BY <2>1, <2>2 DEF TimesInv
<1>5. NamesInv'
  <2> SUFFICES ASSUME NEW p \in Paths, NEW q \in Paths, disk'[p] # None, disk'[q] # None,
                      disk'[p].mtime = disk'[q].mtime
               PROVE  disk'[p].text = disk'[q].text
    BY DEF NamesInv
  <2>1. ASSUME NEW o \in Paths, disk[o] # None PROVE disk[o].mtime # clock + 1
    BY <1>0, <1>3, <2>1
  <2>2. QED
    BY <1>1, <2>1 DEF NamesInv
<1>6. FitsInv'
  <2> SUFFICES ASSUME NEW m \in Nat, m \notin torn', NEW t \in Texts, Claimed(m, t)',
                      NEW p \in Paths, disk'[p] # None, disk'[p].mtime = m
               PROVE  disk'[p].text = t
    BY DEF FitsInv
  <2>1. m \notin torn
    BY TornStep
  <2>2. Claimed(m, t) \/ \E q \in Paths : ReadAs(q, m, t)
    BY ClaimStep
  <2>3. m <= clock
    <3>1. CASE Claimed(m, t)
      BY <3>1, ClaimedIsHeld DEF TimesInv
    <3>2. CASE \E q \in Paths : ReadAs(q, m, t)
      BY <1>3, <3>2 DEF ReadAs
    <3>3. QED
      BY <2>2, <3>1, <3>2
  <2>4. PICK o \in Paths : disk[o] # None /\ disk'[p] = disk[o]
    BY <1>0, <1>1, <2>3
  <2>5. CASE Claimed(m, t)
    BY <2>1, <2>4, <2>5 DEF FitsInv
  <2>6. CASE \E q \in Paths : ReadAs(q, m, t)
    BY <2>4, <2>6 DEF ReadAs, NamesInv
  <2>7. QED
    BY <2>2, <2>5, <2>6
<1>7. QED
  BY <1>4, <1>5, <1>6

LEMMA InitNamed == Init => TimesInv /\ NamesInv /\ FitsInv
<1> SUFFICES ASSUME Init PROVE TimesInv /\ NamesInv /\ FitsInv
  OBVIOUS
<1>1. PICK n \in 0..Cardinality(Paths) :
        \E at \in [1..n -> Paths], t \in [1..n -> Texts] :
          LET number(p) == CHOOSE i \in 1..n : at[i] = p
          IN  /\ \A i, k \in 1..n : at[i] = at[k] => i = k
              /\ disk = [p \in Paths |-> IF \E i \in 1..n : at[i] = p
                                         THEN [text |-> t[number(p)], mtime |-> number(p)]
                                         ELSE None]
              /\ rows = [i \in 1..n |-> [path |-> at[i], text |-> t[i], mtime |-> i,
                                         missing |-> None, seen |-> 0]]
              /\ nextId = n + 1 /\ clock = n
  BY DEF Init
<1>2. PICK at \in [1..n -> Paths], said \in [1..n -> Texts] :
        LET number(p) == CHOOSE i \in 1..n : at[i] = p
        IN  /\ \A i, k \in 1..n : at[i] = at[k] => i = k
            /\ disk = [p \in Paths |-> IF \E i \in 1..n : at[i] = p
                                       THEN [text |-> said[number(p)], mtime |-> number(p)]
                                       ELSE None]
            /\ rows = [i \in 1..n |-> [path |-> at[i], text |-> said[i], mtime |-> i,
                                       missing |-> None, seen |-> 0]]
            /\ nextId = n + 1 /\ clock = n
  BY <1>1
<1>3. n \in Nat /\ clock = n
  BY <1>2
<1>4. ASSUME NEW p \in Paths, disk[p] # None
      PROVE  \E i \in 1..n : disk[p].mtime = i /\ disk[p].text = said[i]
  <2> DEFINE number == CHOOSE i \in 1..n : at[i] = p
  <2>1. \E i \in 1..n : at[i] = p
    BY <1>2, <1>4
  <2>2. number \in 1..n
    BY <2>1
  <2>3. disk[p] = [text |-> said[number], mtime |-> number]
    BY <1>2, <2>1
  <2> HIDE DEF number
  <2>4. QED
    BY <2>2, <2>3
<1>5. /\ DOMAIN rows = 1..n
      /\ \A i \in 1..n : rows[i].mtime = i /\ rows[i].text = said[i]
  BY <1>2
<1>6. /\ request = None
      /\ \A p \in Paths : rescan.stamp[p] = None /\ job[p].mtime = None /\ job[p].at = "none"
  BY DEF Init, Idle, NoJob
<1>7. \A m \in Nat : OnDisk(m) => m <= clock
  BY <1>3, <1>4 DEF OnDisk
<1>8. \A m \in Nat : Held(m) => m <= clock
  BY <1>3, <1>5, <1>6, NoneIsApart DEF Held
<1>9. NamesInv
  BY <1>4 DEF NamesInv
<1>10. FitsInv
  BY <1>4, <1>5, <1>6 DEF FitsInv, Claimed, ReadPoints
<1>11. QED
  BY <1>7, <1>8, <1>9, <1>10 DEF TimesInv

\* A registration that carries the modification time of the file at its path holds that file's
\* text, unless that time was torn: the skip of an unchanged file leaves no old text behind.
THEOREM MtimeIsTrusted == Spec => []TrustMtime
<1>1. Types /\ FitsInv => TrustMtime
  <2> SUFFICES ASSUME Types, FitsInv, NEW i \in DOMAIN rows, disk[rows[i].path] # None,
                      disk[rows[i].path].mtime = rows[i].mtime,
                      disk[rows[i].path].mtime \notin torn
               PROVE  disk[rows[i].path].text = rows[i].text
    BY DEF TrustMtime
  <2>1. rows[i].path \in Paths /\ rows[i].mtime \in Nat /\ rows[i].text \in Texts
    BY DEF Types, RowTypes, IsRegistry, Registrations
  <2>2. Claimed(rows[i].mtime, rows[i].text)
    BY DEF Claimed
  <2>3. QED
    BY <2>1, <2>2 DEF FitsInv
<1>2. QED
  BY <1>1, InitTypes, InitNamed, TypesStep, NamedStep, PTL DEF Spec
-----------------------------------------------------------------------------
(* A rescan that nothing interferes with.                                  *)

\* The phases of the workers' jobs, and what is reset before they start.
PhaseInv ==
  /\ rescan.at \in {"idle", "scan", "mark"} => \A p \in Paths : job[p].at = "none"
  /\ rescan.at = "done" => \A p \in Paths : job[p].at \in {"none", "done"}
  /\ rescan.at \in {"scan", "mark"} => rescan.relocated = {}
  /\ rescan.at = "idle" => ~rescan.quiet

\* What was found is there, with the time Everything gave if it gave one, and what is there
\* below a folder that was walked was found.
WalkInv ==
  /\ ~rescan.cancel
  /\ rescan.at # "scan" => rescan.left = {}
  /\ \A p \in rescan.found : Visible(p) /\ rescan.stamp[p] \in {None, disk[p].mtime}
  /\ \A p \in Paths \ rescan.found : rescan.stamp[p] = None
  /\ \A p \in Paths : Visible(p) /\ FolderOf[p] \notin rescan.left => p \in rescan.found

\* What was judged is still so when it is marked.
JudgedInv ==
  rescan.at = "mark" =>
    /\ rescan.known = rows
    /\ rescan.absent = {p \in Paths \ rescan.found : At(p) # {} /\ AbsenceIsProven(p)}

\* What the worker of p holds is what p is; until a new file is moved to or saved nothing is
\* registered there, and until a known file is done its registration is as it was known.
JobKnows(p) ==
  /\ job[p].at = "none" <=> p \notin rescan.found
  /\ job[p].at \in {"read", "match", "move", "save"} => job[p].mtime = disk[p].mtime
  /\ job[p].at \in {"match", "move", "save"} => job[p].text = disk[p].text
  /\ job[p].at = "recover" => \E i \in Known(p) : rescan.known[i].mtime = disk[p].mtime
  /\ job[p].at = "move" => job[p].row \in Candidates(disk[p].text)
  /\ p \in New /\ job[p].at \in {"queued", "read", "match", "move"} => At(p) = {}
  /\ job[p].at \in {"queued", "recover"} => \A i \in Known(p) :
       /\ rows[i].mtime = rescan.known[i].mtime
       /\ rescan.known[i].missing = None => rows[i].missing = None

\* A known registration is where it was, or was moved from a path that was not found to a new
\* file with its text; a new one is that of a file; what is gone is missing.
RowKept(i) ==
  /\ i \in DOMAIN rescan.known =>
       \/ rows[i].path = rescan.known[i].path /\ i \notin rescan.relocated
       \/ /\ rescan.known[i].path \notin rescan.found /\ rows[i].path \in New
          /\ rescan.known[i].text = disk[rows[i].path].text /\ i \in rescan.relocated
  /\ i \notin DOMAIN rescan.known => rows[i].path \in rescan.found
  /\ FolderOf[rows[i].path] \in rescan.covered /\ rows[i].path \notin hidden
       /\ disk[rows[i].path] = None => rows[i].missing # None

\* No two new files race for one registration.
Apart == Workers = 1 \/ \A p \in New : Twins(p) = {p}

IsIndexed(p) ==
  \E i \in At(p) : /\ rows[i].missing = None
                   /\ rows[i].mtime = disk[p].mtime /\ rows[i].text = disk[p].text

DoneInv ==
  Apart => \A p \in Paths : job[p].at = "done" /\ disk[p].mtime \notin torn => IsIndexed(p)

\* A single worker has one file in hand, and the registration it is to move was not moved.
HandInv ==
  Workers = 1 =>
    /\ \A p, q \in InHand : p = q
    /\ \A p \in Paths : job[p].at = "move" => job[p].row \notin rescan.relocated

\* The one new file with the text of the one registration that was not found.
Sole(p, i) == p \in New /\ Twins(p) = {p} /\ Candidates(disk[p].text) = {i}

IsMoved(p, i) == i \in DOMAIN rows /\ rows[i].path = p /\ rows[i].missing = None

MoveInv ==
  \A p \in Paths, i \in DOMAIN rescan.known :
    Sole(p, i) /\ job[p].at \in {"save", "done"} => IsMoved(p, i)

IndexInv ==
  rescan.at \in {"index", "done"} =>
    /\ rescan.at = "index" => DOMAIN rescan.known \subseteq DOMAIN rows
    /\ \A p \in Paths : JobKnows(p)
    /\ \A i \in DOMAIN rows : RowKept(i)
    /\ DoneInv /\ HandInv /\ MoveInv

QuietInv == rescan.quiet => WalkInv /\ JudgedInv /\ IndexInv

LEMMA PhaseStep == Types /\ PhaseInv /\ [Next]_vars => PhaseInv'
<1> SUFFICES ASSUME Types, PhaseInv, [Next]_vars PROVE PhaseInv'
  OBVIOUS
<1>0. ScanShape /\ job \in [Paths -> Jobs] /\ \A p \in Paths : job[p] \in Jobs
  BY DEF Types, ScanTypes, JobTypes
<1>1. CASE Begin
  <2>1. /\ rescan'.at = "scan" /\ rescan'.relocated = {} /\ UNCHANGED job
        /\ rescan.at = "idle"
    BY <1>1 DEF Begin, Idle
  <2>2. QED
    BY <2>1 DEF PhaseInv
<1>2. CASE End \/ Crash
  <2>1. /\ rescan'.at = "idle" /\ ~rescan'.quiet
        /\ job' = [p \in Paths |-> NoJob]
    BY <1>2 DEF End, Crash, Idle
  <2>2. QED
    BY <2>1 DEF PhaseInv, NoJob
<1>3. ASSUME UNCHANGED job, rescan'.at = rescan.at, rescan'.relocated = rescan.relocated,
             rescan.at = "idle" => rescan'.quiet = rescan.quiet
      PROVE  PhaseInv'
  BY <1>3 DEF PhaseInv
<1>4. ASSUME NEW f \in Folders, ScanFails(f) \/ \E sdk \in BOOLEAN : ScanFolder(f, sdk)
      PROVE  PhaseInv'
  <2>1. /\ UNCHANGED job /\ rescan'.at = rescan.at /\ rescan.at = "scan"
        /\ rescan'.relocated = rescan.relocated
    BY <1>0, <1>4 DEF ScanFails, ScanFolder, ScanShape
  <2>2. QED
    BY <1>3, <2>1
<1>5. CASE Judge
  <2>1. /\ UNCHANGED job /\ rescan.at = "scan" /\ rescan'.at = "mark"
        /\ rescan'.relocated = rescan.relocated
    BY <1>0, <1>5 DEF Judge, ScanShape
  <2>2. QED
    BY <2>1 DEF PhaseInv
<1>6. CASE MarkMissing
  <2>1. rescan'.at = "index"
    BY <1>0, <1>6 DEF MarkMissing, ScanShape
  <2>2. QED
    BY <2>1 DEF PhaseInv
<1>7. CASE Purge
  <2>1. /\ rescan'.at = "done" /\ UNCHANGED job
        /\ \A p \in Paths : job[p].at \in {"none", "done"}
    BY <1>0, <1>7 DEF Purge, ScanShape
  <2>2. QED
    BY <2>1 DEF PhaseInv
<1>8. CASE Stop
  <2>1. /\ UNCHANGED job /\ rescan'.at = rescan.at /\ rescan.at # "idle"
        /\ rescan'.relocated = rescan.relocated
    BY <1>0, <1>8 DEF Stop, ScanShape
  <2>2. QED
    BY <1>3, <2>1
<1>9. ASSUME NEW p \in Paths,
             \/ Look(p) \/ Recover(p) \/ Read(p) \/ ReadFails(p)
             \/ Match(p) \/ Relocate(p) \/ Save(p) \/ SaveFails(p)
      PROVE  PhaseInv'
  <2>1. rescan.at = "index"
    <3>1. job[p].at \notin {"none", "done"} \/ rescan.at = "index"
      BY <1>9, ZenonT(30)
         DEF Look, Recover, Read, ReadFails, Match, Relocate, Save, SaveFails
    <3>2. rescan.at \in ScanPoints
      BY DEF Types, ScanTypes
    <3>3. QED
      BY <3>1, <3>2 DEF PhaseInv, ScanPoints
  <2>2. rescan'.at = "index"
    BY <1>0, <1>9, <2>1 DEF Look, Recover, Read, ReadFails, Match, Relocate, Save, SaveFails,
                            ScanShape
  <2>3. QED
    BY <2>2 DEF PhaseInv
<1>10. CASE OutsideStep
  <2>1. ASSUME NEW gone \in SUBSET Paths, Disturb(gone), UNCHANGED job PROVE PhaseInv'
    <3>1. CASE rescan' = rescan
      BY <1>3, <2>1, <3>1
    <3>2. CASE rescan.at # "idle"
      <4>1. rescan'.at = rescan.at /\ rescan'.relocated = rescan.relocated
        BY <1>0, <2>1, <3>2 DEF Disturb, ScanShape
      <4>2. QED
        BY <1>3, <2>1, <3>2, <4>1
    <3>3. QED
      BY <2>1, <3>1, <3>2 DEF Disturb
  <2>2. UNCHANGED job
    BY <1>10, ZenonT(30) DEF OutsideStep, DeleteFile, Hide, RegisterStat, Write, MoveFile,
         CopyFile, Unplug, Remove, RegisterInspect, RegisterSave, NextDay
  <2>3. NextDay \/ \E gone \in SUBSET Paths : Disturb(gone)
    BY <1>10 DEF OutsideStep, DeleteFile, Hide, RegisterStat, Write, MoveFile, CopyFile,
                 Unplug, Remove, RegisterInspect, RegisterSave
  <2>4. QED
    BY <1>3, <2>1, <2>2, <2>3 DEF NextDay
<1>11. CASE UNCHANGED vars
  BY <1>3, <1>11 DEF vars
<1>12. QED
  BY <1>1, <1>2, <1>4, <1>5, <1>6, <1>7, <1>8, <1>9, <1>10, <1>11 DEF Next, RescanStep


-----------------------------------------------------------------------------
(* The steps of a rescan that nothing interferes with.                     *)

\* While the workers are busy, the files and what was found and known of them stay.
Settled ==
  /\ UNCHANGED <<disk, down, hidden>>
  /\ rescan.at = "index" /\ rescan'.at = "index"
  /\ rescan'.found = rescan.found /\ rescan'.stamp = rescan.stamp
  /\ rescan'.left = rescan.left /\ rescan'.covered = rescan.covered
  /\ rescan'.known = rescan.known
  /\ rescan'.cancel = rescan.cancel /\ rescan'.quiet = rescan.quiet

LEMMA SettledTerms ==
  ASSUME Settled
  PROVE  /\ New' = New
         /\ \A p \in Paths : /\ Known(p)' = Known(p) /\ Twins(p)' = Twins(p)
                             /\ Visible(p)' <=> Visible(p)
                             /\ Candidates(disk[p].text)' = Candidates(disk[p].text)
         /\ \A p \in Paths, i \in DOMAIN rescan.known : Sole(p, i)' => Sole(p, i)
         /\ Apart' => Apart
<1>1. New' = New /\ \A p \in Paths : Known(p)' = Known(p)
  BY DEF Settled, New, Known
<1>2. \A p \in Paths : Twins(p)' = Twins(p)
  BY <1>1 DEF Settled, Twins
<1>3. \A p \in Paths : Visible(p)' <=> Visible(p)
  BY DEF Settled, Visible, Exists
<1>4. \A p \in Paths : Candidates(disk[p].text)' = Candidates(disk[p].text)
  BY DEF Settled, Candidates
<1>5. \A p \in Paths, i \in DOMAIN rescan.known : Sole(p, i)' => Sole(p, i)
  BY <1>1, <1>2, <1>4 DEF Sole
<1>6. Apart' => Apart
  <2>1. \A p \in New : Twins(p)' = Twins(p)
    BY DEF Settled, Twins, New, Known
  <2>2. QED
    BY <1>1, <2>1 DEF Apart
<1>7. QED
  BY <1>1, <1>2, <1>3, <1>4, <1>5, <1>6

LEMMA SettledWalk ==
  ASSUME Settled, WalkInv
  PROVE  WalkInv' /\ JudgedInv'
  BY DEF Settled, WalkInv, JudgedInv, Visible, Exists

\* Registrations change only at p: none leaves its path, and a new one is p's.
OnlyAt(p) ==
  /\ DOMAIN rows \subseteq DOMAIN rows'
  /\ \A i \in DOMAIN rows : /\ rows'[i].path = rows[i].path
                            /\ rows[i].path # p => rows'[i] = rows[i]
  /\ \A i \in DOMAIN rows' \ DOMAIN rows : rows'[i].path = p /\ i \notin DOMAIN rescan.known

\* The registration of a file that was known and found is still at its path.
LEMMA KnownStays ==
  ASSUME rescan.at = "index", IndexInv, NEW p \in rescan.found, NEW i \in Known(p)
  PROVE  i \in DOMAIN rows /\ i \in DOMAIN rescan.known /\ rows[i].path = p
<1>1. /\ DOMAIN rescan.known \subseteq DOMAIN rows
      /\ \A k \in DOMAIN rows : RowKept(k)
  BY DEF IndexInv
<1>2. i \in DOMAIN rescan.known /\ rescan.known[i].path = p
  BY DEF Known
<1>3. RowKept(i)
  BY <1>1, <1>2
<1>4. QED
  BY <1>1, <1>2, <1>3 DEF RowKept

LEMMA OthersKnow ==
  ASSUME Types, Settled, IndexInv, NEW p \in Paths, OnlyAt(p),
         NEW q \in Paths, q # p, job'[q] = job[q]
  PROVE  JobKnows(q)'
<1>1. JobKnows(q) /\ DOMAIN rescan.known \subseteq DOMAIN rows
  BY DEF IndexInv, Settled
<1>2. At(q)' = At(q)
  BY DEF At, OnlyAt
<1>3. New' = New /\ Known(q)' = Known(q)
      /\ Candidates(disk[q].text)' = Candidates(disk[q].text)
  BY SettledTerms
<1>4. ASSUME job[q].at \in {"queued", "recover"}, NEW i \in Known(q)
      PROVE  rows'[i] = rows[i]
  <2>1. q \in rescan.found
    BY <1>1, <1>4 DEF JobKnows
  <2>2. i \in DOMAIN rows /\ rows[i].path = q
    BY <2>1, <1>4, KnownStays DEF Settled
  <2>3. QED
    BY <2>2 DEF OnlyAt
<1>5. QED
  BY <1>1, <1>2, <1>3, <1>4 DEF JobKnows, Settled

LEMMA OthersKept ==
  ASSUME Types, Settled, WalkInv, IndexInv, rescan'.relocated = rescan.relocated,
         NEW p \in rescan.found, OnlyAt(p)
  PROVE  \A i \in DOMAIN rows' : RowKept(i)'
<1>1. disk[p] # None
  BY DEF WalkInv, Visible, Exists
<1>2. New' = New
  BY SettledTerms
<1>3. ASSUME NEW i \in DOMAIN rows' PROVE RowKept(i)'
  <2>1. CASE i \notin DOMAIN rows
    BY <1>1, <2>1 DEF RowKept, OnlyAt, Settled
  <2>2. CASE i \in DOMAIN rows
    <3>1. RowKept(i)
      BY <2>2 DEF IndexInv, Settled
    <3>2. rows'[i].path = rows[i].path /\ (rows[i].path # p => rows'[i] = rows[i])
      BY <2>2 DEF OnlyAt
    <3>3. QED
      BY <1>1, <1>2, <3>1, <3>2 DEF RowKept, Settled
  <2>3. QED
    BY <2>1, <2>2
<1>4. QED
  BY <1>3

\* A step of p's worker that changes registrations only at p.
LEMMA HandStep ==
  ASSUME Types, Settled, WalkInv, IndexInv, rescan'.relocated = rescan.relocated,
         torn \subseteq torn', NEW p \in rescan.found, OnlyAt(p),
         NEW j, job' = [job EXCEPT ![p] = j],
         JobKnows(p)', HandInv',
         j.at = "done" /\ Apart /\ disk[p].mtime \notin torn' => IsIndexed(p)',
         \A i \in DOMAIN rescan.known :
           Sole(p, i) /\ j.at \in {"save", "done"} => IsMoved(p, i)'
  PROVE  IndexInv'
<1>0. /\ p \in Paths /\ job'[p] = j
      /\ \A q \in Paths : q # p => job'[q] = job[q]
  BY DEF Types, ScanTypes, JobTypes
<1>1. DOMAIN rescan.known \subseteq DOMAIN rows /\ DoneInv /\ MoveInv
  BY DEF IndexInv, Settled
<1>2. \A q \in Paths : JobKnows(q)'
  BY <1>0, OthersKnow
<1>3. \A i \in DOMAIN rows' : RowKept(i)'
  BY OthersKept
<1>4. DoneInv'
  <2> SUFFICES ASSUME Apart, NEW q \in Paths, job'[q].at = "done", disk[q].mtime \notin torn'
               PROVE  IsIndexed(q)'
    BY SettledTerms DEF DoneInv, Settled
  <2>1. CASE q = p
    BY <1>0, <2>1
  <2>2. CASE q # p
    <3>1. IsIndexed(q)
      BY <1>0, <1>1, <2>2 DEF DoneInv
    <3>2. PICK i \in At(q) : /\ rows[i].missing = None
                             /\ rows[i].mtime = disk[q].mtime /\ rows[i].text = disk[q].text
      BY <3>1 DEF IsIndexed
    <3>3. i \in DOMAIN rows' /\ rows'[i] = rows[i] /\ rows[i].path = q
      BY <2>2 DEF OnlyAt, At
    <3>4. QED
      BY <3>2, <3>3 DEF IsIndexed, At, Settled
  <2>3. QED
    BY <2>1, <2>2
<1>5. MoveInv'
  <2> SUFFICES ASSUME NEW q \in Paths, NEW i \in DOMAIN rescan.known, Sole(q, i),
                      job'[q].at \in {"save", "done"}
               PROVE  IsMoved(q, i)'
    BY SettledTerms DEF MoveInv, Settled
  <2>1. CASE q = p
    BY <1>0, <2>1
  <2>2. CASE q # p
    <3>1. IsMoved(q, i)
      BY <1>0, <1>1, <2>2 DEF MoveInv
    <3>2. QED
      BY <2>2, <3>1 DEF IsMoved, OnlyAt
  <2>3. QED
    BY <2>1, <2>2
<1>6. DOMAIN rescan'.known \subseteq DOMAIN rows'
  BY <1>1 DEF Settled, OnlyAt
<1>7. QED
  BY <1>2, <1>3, <1>4, <1>5, <1>6 DEF IndexInv


\* A worker's step leaves everything it does not name.
LEMMA HandIsSettled ==
  ASSUME Types, PhaseInv, NEW p \in Paths,
         Look(p) \/ Recover(p) \/ Read(p) \/ Match(p) \/ Relocate(p) \/ Save(p)
  PROVE  Settled
<1>0. ScanShape
  BY DEF Types, ScanTypes
<1>1. rescan.at = "index"
  <2>1. job[p].at \notin {"none", "done"} \/ rescan.at = "index"
    BY ZenonT(30) DEF Look, Recover, Read, Match, Relocate, Save
  <2>2. rescan.at \in ScanPoints
    BY DEF Types, ScanTypes
  <2>3. QED
    BY <2>1, <2>2 DEF PhaseInv, ScanPoints
<1>2. CASE Look(p) \/ Recover(p) \/ Read(p) \/ Match(p) \/ Save(p)
  <2>1. UNCHANGED <<disk, down, hidden, rescan>>
    BY <1>2, ZenonT(30) DEF Look, Recover, Read, Match, Save, world
  <2>2. QED
    BY <1>1, <2>1 DEF Settled
<1>3. CASE Relocate(p)
  <2>1. UNCHANGED <<disk, down, hidden>>
    BY <1>3 DEF Relocate, world
  <2>2. QED
    BY <1>0, <1>1, <1>3, <2>1 DEF Relocate, Settled, ScanShape
<1>4. QED
  BY <1>2, <1>3

\* What is in hand was found and can be seen, with the time the rescan has for it.
LEMMA HandIsFound ==
  ASSUME Types, WalkInv, IndexInv, rescan.at = "index", NEW p \in Paths, job[p].at # "none"
  PROVE  /\ JobKnows(p) /\ p \in rescan.found /\ Visible(p) /\ disk[p] # None
         /\ rescan.stamp[p] \in {None, disk[p].mtime}
  BY DEF IndexInv, JobKnows, WalkInv, Visible, Exists

LEMMA NotNewIsSole ==
  ASSUME NEW p, Known(p) # {}
  PROVE  p \notin New /\ \A i : ~Sole(p, i)
  BY DEF New, Sole

\* The files in hand are finitely many.
LEMMA HandIsEmpty ==
  ASSUME Workers = 1, Cardinality(InHand) < Workers
  PROVE  InHand = {}
<1>1. IsFiniteSet(InHand)
  BY PathsAssumption, FS_Subset DEF InHand
<1>2. Cardinality(InHand) \in Nat
  BY <1>1, FS_CardinalityType
<1>3. Cardinality(InHand) = 0
  BY <1>2
<1>4. QED
  BY <1>1, <1>3, FS_EmptySet

\* The hand after a step of p's worker.
LEMMA HandKept ==
  ASSUME Types, NEW p \in Paths, NEW j, job' = [job EXCEPT ![p] = j],
         rescan'.relocated = rescan.relocated, HandInv,
         \/ p \in InHand \/ InHand = {} \/ Workers # 1
         \/ j.at \notin {"recover", "read", "match", "move"},
         Workers = 1 /\ j.at = "move" => j.row \notin rescan.relocated
  PROVE  HandInv'
<1>0. job'[p] = j /\ \A q \in Paths : q # p => job'[q] = job[q]
  BY DEF Types, JobTypes
<1>1. \A q \in Paths : q # p /\ q \in InHand' => q \in InHand
  BY <1>0 DEF InHand
<1>2. p \in InHand' => p \in InHand \/ InHand = {} \/ Workers # 1
  BY <1>0 DEF InHand
<1>3. Workers = 1 => \A q, r \in InHand' : q = r
  <2> SUFFICES ASSUME Workers = 1, NEW q \in InHand', NEW r \in InHand', q # r PROVE FALSE
    OBVIOUS
  <2>1. q \in Paths /\ r \in Paths
    BY DEF InHand
  <2>2. QED
    BY <1>1, <1>2, <2>1 DEF HandInv
<1>4. Workers = 1 => \A q \in Paths : job'[q].at = "move" => job'[q].row \notin rescan'.relocated
  BY <1>0 DEF HandInv
<1>5. QED
  BY <1>3, <1>4 DEF HandInv

LEMMA SameRows ==
  ASSUME UNCHANGED rows, NEW p
  PROVE  OnlyAt(p)
  BY DEF OnlyAt

\* A registration with the time of the file at its path has its text.
LEMMA TimeTellsText ==
  ASSUME Types, FitsInv, NEW p \in Paths, disk[p] # None, disk[p].mtime \notin torn,
         NEW i \in DOMAIN rows, rows[i].mtime = disk[p].mtime
  PROVE  rows[i].text = disk[p].text
<1>1. rows[i].mtime \in Nat /\ rows[i].text \in Texts
  BY DEF Types, RowTypes, IsRegistry, Registrations
<1>2. Claimed(rows[i].mtime, rows[i].text)
  BY DEF Claimed
<1>3. QED
  BY <1>1, <1>2 DEF FitsInv

LEMMA LookQuiet ==
  ASSUME Types, PhaseInv, FitsInv, WalkInv, IndexInv, NEW p \in Paths, Look(p)
  PROVE  IndexInv'
<1> DEFINE m == IF rescan.stamp[p] # None THEN rescan.stamp[p] ELSE disk[p].mtime
           same == {i \in Known(p) : rescan.known[i].mtime = m}
<1>0. /\ Settled /\ rescan.at = "index" /\ job[p].at = "queued" /\ ~rescan.cancel
      /\ UNCHANGED <<rows, rescan, torn, disk>>
  BY HandIsSettled DEF Look, Settled, WalkInv, world
<1>1. /\ JobKnows(p) /\ p \in rescan.found /\ Visible(p) /\ disk[p] # None
      /\ rescan.stamp[p] \in {None, disk[p].mtime}
  BY <1>0, HandIsFound
<1>2. m = disk[p].mtime
  BY <1>1
<1>3. HandInv /\ (Workers = 1 => InHand = {})
  BY HandIsEmpty, <1>0 DEF IndexInv, Look
<1>4. /\ OnlyAt(p)
      /\ Known(p)' = Known(p) /\ New' = New /\ At(p)' = At(p)
  BY <1>0, SameRows, SettledTerms DEF At
<1>5. job[p] \in Jobs
  BY DEF Types, JobTypes
<1>6. ASSUME NEW j, job' = [job EXCEPT ![p] = j], j.at \notin {"move", "save"}, JobKnows(p)',
             j.at = "done" => Known(p) # {} /\ (disk[p].mtime \notin torn => IsIndexed(p))
      PROVE  IndexInv'
  <2>1. HandInv'
    BY <1>0, <1>3, <1>6, HandKept
  <2>2. IsIndexed(p)' <=> IsIndexed(p)
    BY <1>0, <1>4 DEF IsIndexed
  <2>3. \A i \in DOMAIN rescan.known :
          Sole(p, i) /\ j.at \in {"save", "done"} => IsMoved(p, i)'
    BY <1>6, NotNewIsSole
  <2>4. QED
    BY <1>0, <1>1, <1>4, <1>6, <2>1, <2>2, <2>3, HandStep
<1>7. CASE same = {}
  <2> DEFINE j == [job[p] EXCEPT !.at = "read", !.mtime = m]
  <2>1. job' = [job EXCEPT ![p].at = "read", ![p].mtime = m]
    BY <1>0, <1>1, <1>7 DEF Look
  <2>2. job' = [job EXCEPT ![p] = j]
    BY <1>5, <2>1 DEF Jobs, Types, JobTypes
  <2>3. j.at = "read" /\ j.mtime = m
    BY <1>5 DEF Jobs
  <2>4. job'[p] = j
    BY <2>2 DEF Types, JobTypes
  <2> HIDE DEF j, m
  <2>5. JobKnows(p)'
    BY <1>0, <1>1, <1>2, <1>4, <2>3, <2>4 DEF JobKnows, Settled
  <2>6. QED
    BY <1>6, <2>2, <2>3, <2>5
<1>8. CASE same # {} /\ \A i \in same : rescan.known[i].missing = None
  <2> DEFINE j == [NoJob EXCEPT !.at = "done"]
  <2>1. job' = [job EXCEPT ![p] = j]
    BY <1>0, <1>1, <1>8 DEF Look, GiveUp
  <2>2. j.at = "done"
    BY DEF NoJob
  <2>3. job'[p] = j
    BY <2>1 DEF Types, JobTypes
  <2>4. JobKnows(p)'
    BY <1>0, <1>1, <2>2, <2>3 DEF JobKnows, Settled
  <2>5. PICK i \in Known(p) : rescan.known[i].mtime = m /\ rescan.known[i].missing = None
    BY <1>8
  <2>6. i \in DOMAIN rows /\ rows[i].path = p
    BY <1>0, <1>1, KnownStays
  <2>7. rows[i].mtime = disk[p].mtime /\ rows[i].missing = None
    BY <1>0, <1>1, <1>2, <2>5 DEF JobKnows
  <2>8. disk[p].mtime \notin torn => IsIndexed(p)
    BY <1>1, <2>6, <2>7, TimeTellsText DEF IsIndexed, At
  <2> HIDE DEF j, m
  <2>9. QED
    BY <1>6, <2>1, <2>2, <2>4, <2>5, <2>8
<1>9. CASE same # {} /\ ~ \A i \in same : rescan.known[i].missing = None
  <2> DEFINE j == [job[p] EXCEPT !.at = "recover"]
  <2>1. job' = [job EXCEPT ![p].at = "recover"]
    BY <1>0, <1>1, <1>9 DEF Look, Goto
  <2>2. job' = [job EXCEPT ![p] = j]
    BY <1>5, <2>1 DEF Jobs, Types, JobTypes
  <2>3. j.at = "recover"
    BY <1>5 DEF Jobs
  <2>4. job'[p] = j
    BY <2>2 DEF Types, JobTypes
  <2>5. \E i \in Known(p) : rescan.known[i].mtime = disk[p].mtime
    BY <1>2, <1>9
  <2> HIDE DEF j, m
  <2>6. JobKnows(p)'
    BY <1>0, <1>1, <1>4, <2>3, <2>4, <2>5 DEF JobKnows, Settled
  <2>7. QED
    BY <1>6, <2>2, <2>3, <2>6
<1>10. QED
  BY <1>7, <1>8, <1>9

LEMMA RecoverQuiet ==
  ASSUME Types, PhaseInv, FitsInv, WalkInv, IndexInv, NEW p \in Paths, Recover(p)
  PROVE  IndexInv'
<1> DEFINE j == [NoJob EXCEPT !.at = "done"]
<1>0. /\ Settled /\ rescan.at = "index" /\ job[p].at = "recover"
      /\ UNCHANGED <<rescan, torn, disk>>
      /\ rows' = [i \in DOMAIN rows |->
                    IF i \in Known(p) THEN [rows[i] EXCEPT !.missing = None, !.seen = day]
                    ELSE rows[i]]
      /\ job' = [job EXCEPT ![p] = j]
  BY HandIsSettled DEF Recover, Settled, world, GiveUp
<1>1. JobKnows(p) /\ p \in rescan.found /\ disk[p] # None
  BY <1>0, HandIsFound
<1>2. \A i \in Known(p) : i \in DOMAIN rows /\ rows[i].path = p
  BY <1>0, <1>1, KnownStays
<1>3. \A i \in DOMAIN rows : rows[i] \in Registrations
  BY DEF Types, RowTypes, IsRegistry
<1>4. \A i \in Known(p) : /\ rows'[i].path = p /\ rows'[i].missing = None
                          /\ rows'[i].mtime = rows[i].mtime /\ rows'[i].text = rows[i].text
  BY <1>0, <1>2, <1>3 DEF Registrations
<1>5. OnlyAt(p)
  BY <1>0, <1>2, <1>4 DEF OnlyAt
<1>6. job'[p] = j /\ j.at = "done"
  BY <1>0 DEF Types, JobTypes, NoJob
<1>7. PICK i \in Known(p) : rescan.known[i].mtime = disk[p].mtime
  BY <1>0, <1>1 DEF JobKnows
<1>8. i \in DOMAIN rows /\ rows[i].mtime = disk[p].mtime
  BY <1>0, <1>1, <1>2, <1>7 DEF JobKnows
<1>9. disk[p].mtime \notin torn' => IsIndexed(p)'
  <2>1. disk[p].mtime \notin torn => rows[i].text = disk[p].text
    BY <1>1, <1>8, TimeTellsText
  <2>2. i \in At(p)'
    BY <1>0, <1>4, <1>8 DEF At
  <2>3. QED
    BY <1>0, <1>4, <1>8, <2>1, <2>2 DEF IsIndexed
<1>10. JobKnows(p)'
  BY <1>0, <1>1, <1>6 DEF JobKnows, Settled
<1>11. \A k : ~Sole(p, k)
  BY <1>7, NotNewIsSole
<1> HIDE DEF j
<1>12. HandInv'
  BY <1>0, <1>6, HandKept DEF IndexInv
<1>13. QED
  BY <1>0, <1>1, <1>5, <1>6, <1>9, <1>10, <1>11, <1>12, HandStep


LEMMA ReadQuiet ==
  ASSUME Types, PhaseInv, WalkInv, IndexInv, [Next]_vars, NEW p \in Paths, Read(p)
  PROVE  IndexInv'
<1> DEFINE j == [job[p] EXCEPT !.at = "match", !.text = disk[p].text]
<1>0. /\ Settled /\ rescan.at = "index" /\ job[p].at = "read" /\ ~rescan.cancel
      /\ UNCHANGED <<rows, rescan, disk>>
  BY HandIsSettled DEF Read, Settled, WalkInv, world
<1>1. JobKnows(p) /\ p \in rescan.found /\ Visible(p)
  BY <1>0, HandIsFound
<1>2. job[p] \in Jobs
  BY DEF Types, JobTypes
<1>3. job' = [job EXCEPT ![p].at = "match", ![p].text = disk[p].text]
  BY <1>0, <1>1 DEF Read
<1>4. job' = [job EXCEPT ![p] = j]
  BY <1>2, <1>3 DEF Jobs, Types, JobTypes
<1>5. j.at = "match" /\ j.text = disk[p].text /\ j.mtime = job[p].mtime
  BY <1>2 DEF Jobs
<1>6. job'[p] = j
  BY <1>4 DEF Types, JobTypes
<1> HIDE DEF j
<1>7. OnlyAt(p) /\ Known(p)' = Known(p) /\ New' = New /\ At(p)' = At(p)
  BY <1>0, SameRows, SettledTerms DEF At
<1>8. JobKnows(p)'
  BY <1>0, <1>1, <1>5, <1>6, <1>7 DEF JobKnows, Settled
<1>9. HandInv'
  <2>1. p \in InHand
    BY <1>0 DEF InHand
  <2>2. QED
    BY <1>0, <1>4, <1>5, <2>1, HandKept DEF IndexInv
<1>10. QED
  BY <1>0, <1>1, <1>4, <1>5, <1>7, <1>8, <1>9, TornStep, HandStep

\* A registration that was moved to the one file that could have it is at that file.
LEMMA MovedToSole ==
  ASSUME rescan.at = "index", IndexInv, NEW p \in Paths, NEW i \in DOMAIN rescan.known,
         Sole(p, i), i \in rescan.relocated
  PROVE  i \in At(p)
<1>1. i \in DOMAIN rows /\ RowKept(i)
  BY DEF IndexInv
<1>2. /\ rows[i].path \in New
      /\ rescan.known[i].text = disk[rows[i].path].text
  BY <1>1 DEF RowKept
<1>3. i \in Candidates(disk[p].text)
  BY DEF Sole
<1>4. rescan.known[i].text = disk[p].text
  BY <1>3 DEF Candidates
<1>5. rows[i].path \in Twins(p)
  BY <1>2, <1>4 DEF Twins
<1>6. rows[i].path = p
  BY <1>5 DEF Sole
<1>7. QED
  BY <1>1, <1>6 DEF At

LEMMA MatchQuiet ==
  ASSUME Types, PhaseInv, WalkInv, IndexInv, NEW p \in Paths, Match(p)
  PROVE  IndexInv'
<1> DEFINE at  == IF Cardinality(Matches(p)) = 1 THEN "move" ELSE "save"
           row == IF Cardinality(Matches(p)) = 1 THEN CHOOSE i \in Matches(p) : TRUE ELSE None
           j   == [job[p] EXCEPT !.at = at, !.row = row]
<1>0. /\ Settled /\ rescan.at = "index" /\ job[p].at = "match"
      /\ UNCHANGED <<rows, rescan, disk, torn>>
      /\ job' = [job EXCEPT ![p].at = at, ![p].row = row]
  BY HandIsSettled DEF Match, Settled, world
<1>1. /\ JobKnows(p) /\ p \in rescan.found
      /\ job[p].mtime = disk[p].mtime /\ job[p].text = disk[p].text
  BY <1>0, HandIsFound DEF JobKnows
<1>2. job[p] \in Jobs
  BY DEF Types, JobTypes
<1>3. OnlyAt(p) /\ Known(p)' = Known(p) /\ New' = New /\ At(p)' = At(p)
      /\ Candidates(disk[p].text)' = Candidates(disk[p].text)
  BY <1>0, SameRows, SettledTerms DEF At
<1>4. at \in {"move", "save"} /\ (at = "save" => Cardinality(Matches(p)) # 1)
  OBVIOUS
<1>5. at = "move" => row \in Matches(p)
  BY FS_EmptySet
<1> HIDE DEF at, row
<1>6. job' = [job EXCEPT ![p] = j]
  BY <1>0, <1>2 DEF Jobs, Types, JobTypes
<1>7. j.at = at /\ j.row = row /\ j.text = job[p].text /\ j.mtime = job[p].mtime
  BY <1>2 DEF Jobs
<1>8. job'[p] = j
  BY <1>6 DEF Types, JobTypes
<1>9. Matches(p) = Candidates(disk[p].text) \ rescan.relocated
  BY <1>1 DEF Matches
<1> HIDE DEF j
<1>10. JobKnows(p)'
  BY <1>0, <1>1, <1>3, <1>4, <1>5, <1>7, <1>8, <1>9 DEF JobKnows, Settled
<1>11. HandInv'
  <2>1. p \in InHand
    BY <1>0 DEF InHand
  <2>2. QED
    BY <1>0, <1>5, <1>6, <1>7, <1>9, <2>1, HandKept DEF IndexInv
<1>12. ASSUME NEW i \in DOMAIN rescan.known, Sole(p, i), at = "save" PROVE FALSE
  <2>1. Candidates(disk[p].text) = {i} /\ p \in New
    BY <1>12 DEF Sole
  <2>2. At(p) = {}
    BY <1>0, <1>1, <2>1 DEF JobKnows
  <2>3. i \notin rescan.relocated
    BY <1>0, <1>12, <2>2, MovedToSole
  <2>4. Matches(p) = {i}
    BY <1>9, <2>1, <2>3
  <2>5. QED
    BY <1>4, <1>12, <2>4, FS_Singleton
<1>13. QED
  BY <1>0, <1>1, <1>3, <1>4, <1>6, <1>7, <1>10, <1>11, <1>12, HandStep

LEMMA SaveQuiet ==
  ASSUME Types, PhaseInv, WalkInv, IndexInv, NEW p \in Paths, Save(p)
  PROVE  IndexInv'
<1> DEFINE j   == [NoJob EXCEPT !.at = "done"]
           row == [path |-> p, text |-> job[p].text, mtime |-> job[p].mtime, missing |-> None,
                   seen |-> day]
<1>0. /\ Settled /\ rescan.at = "index" /\ job[p].at = "save"
      /\ UNCHANGED <<rescan, disk, torn>> /\ Upsert(p, job[p].mtime, job[p].text)
      /\ job' = [job EXCEPT ![p] = j]
  BY HandIsSettled DEF Save, Settled, world, GiveUp
<1>1. /\ JobKnows(p) /\ p \in rescan.found /\ disk[p] # None
      /\ row.path = p /\ row.missing = None
      /\ row.mtime = disk[p].mtime /\ row.text = disk[p].text
  BY <1>0, HandIsFound DEF JobKnows
<1>2. \/ /\ At(p) = {}
         /\ rows' = [i \in DOMAIN rows \cup {nextId} |-> IF i = nextId THEN row ELSE rows[i]]
      \/ /\ At(p) # {}
         /\ rows' = [i \in DOMAIN rows |-> IF i \in At(p) THEN row ELSE rows[i]]
  BY <1>0 DEF Upsert
<1>3. nextId \notin DOMAIN rows /\ nextId \notin DOMAIN rescan.known
  BY DEF Types, RowTypes, IsRegistry
<1>4. job'[p] = j /\ j.at = "done"
  BY <1>0 DEF Types, JobTypes, NoJob
<1> HIDE DEF row, j
<1>5. OnlyAt(p)
  BY <1>1, <1>2, <1>3 DEF OnlyAt, At
<1>6. IsIndexed(p)'
  <2>1. \E i \in DOMAIN rows' : rows'[i] = row
    BY <1>2 DEF At
  <2>2. QED
    BY <1>0, <1>1, <2>1 DEF IsIndexed, At
<1>7. ASSUME NEW i \in DOMAIN rescan.known, Sole(p, i) PROVE IsMoved(p, i)'
  <2>1. i \in At(p)
    BY <1>0, <1>7 DEF IndexInv, MoveInv, IsMoved, At
  <2>2. QED
    BY <1>1, <1>2, <2>1 DEF IsMoved, At
<1>8. JobKnows(p)'
  BY <1>0, <1>1, <1>4 DEF JobKnows, Settled
<1>9. HandInv'
  BY <1>0, <1>4, HandKept DEF IndexInv
<1>10. QED
  BY <1>0, <1>1, <1>4, <1>5, <1>6, <1>7, <1>8, <1>9, HandStep

LEMMA RelocateQuiet ==
  ASSUME Types, PhaseInv, WalkInv, IndexInv, NEW p \in Paths, Relocate(p)
  PROVE  IndexInv'
<1> DEFINE i     == job[p].row
           j     == [job[p] EXCEPT !.at = "save"]
           moves == i \in DOMAIN rows /\ At(p) \ {i} = {}
<1>0. /\ Settled /\ rescan.at = "index" /\ job[p].at = "move"
      /\ UNCHANGED <<disk, torn>>
      /\ rows' = IF moves THEN [rows EXCEPT ![i].path = p, ![i].missing = None, ![i].seen = day]
                 ELSE rows
      /\ rescan'.relocated = IF moves THEN rescan.relocated \cup {i} ELSE rescan.relocated
      /\ job' = [job EXCEPT ![p].at = "save"]
  <2>1. ScanShape
    BY DEF Types, ScanTypes
  <2>2. Settled
    BY HandIsSettled
  <2>3. QED
    BY <2>1, <2>2, ZenonT(30) DEF Relocate, Settled, world, Goto, ScanShape
<1>1. /\ JobKnows(p) /\ p \in rescan.found /\ disk[p] # None
      /\ job[p].mtime = disk[p].mtime /\ job[p].text = disk[p].text
      /\ i \in Candidates(disk[p].text)
  BY <1>0, HandIsFound DEF JobKnows
<1>2. /\ i \in DOMAIN rescan.known /\ rescan.known[i].path \notin rescan.found
      /\ rescan.known[i].text = disk[p].text
  BY <1>1 DEF Candidates
<1>3. i \in DOMAIN rows /\ RowKept(i)
  BY <1>0, <1>2 DEF IndexInv
<1>4. job[p] \in Jobs
  BY DEF Types, JobTypes
<1>5. job' = [job EXCEPT ![p] = j]
  BY <1>0, <1>4 DEF Jobs, Types, JobTypes
<1>6. j.at = "save" /\ j.text = job[p].text /\ j.mtime = job[p].mtime
  BY <1>4 DEF Jobs
<1>7. job'[p] = j /\ \A q \in Paths : q # p => job'[q] = job[q]
  BY <1>5 DEF Types, JobTypes
<1>8. Known(p)' = Known(p) /\ New' = New
  BY <1>0, SettledTerms
<1>9. JobKnows(p)'
  <2>1. Settled /\ job'[p].at = "save" /\ job'[p].mtime = disk[p].mtime
        /\ job'[p].text = disk[p].text
    BY <1>0, <1>1, <1>6, <1>7
  <2>2. QED
    BY <1>1, <2>1 DEF JobKnows, Settled
<1>10. p \in InHand
  BY <1>0 DEF InHand
<1>11. moves => p \in New
  <2>1. ASSUME NEW k \in Known(p), moves PROVE FALSE
    <3>1. k \in At(p) /\ rescan.known[k].path = p
      BY <1>0, <1>1, <2>1, KnownStays DEF At, Known
    <3>2. k # i
      BY <1>1, <1>2, <3>1
    <3>3. QED
      BY <2>1, <3>1, <3>2
  <2>2. QED
    BY <1>1, <2>1 DEF New
<1>12. (p \in New => At(p) = {}) /\ (p \in New => moves)
  BY <1>0, <1>1, <1>3 DEF JobKnows
<1>13. ASSUME ~moves PROVE IndexInv'
  <2>1. HandInv'
    BY <1>0, <1>5, <1>6, <1>10, <1>13, HandKept DEF IndexInv
  <2>2. \A k : ~Sole(p, k)
    BY <1>12, <1>13 DEF Sole
  <2>3. OnlyAt(p)
    BY <1>0, <1>13, SameRows
  <2> HIDE DEF j, i, moves
  <2>4. QED
    BY <1>0, <1>1, <1>5, <1>6, <1>9, <1>13, <2>1, <2>2, <2>3, HandStep
<1>14. ASSUME moves PROVE IndexInv'
  <2> DEFINE row == [rows[i] EXCEPT !.path = p, !.missing = None, !.seen = day]
  <2>1. rows[i] \in Registrations
    BY <1>3 DEF Types, RowTypes, IsRegistry
  <2>2. rows' = [rows EXCEPT ![i] = row]
    BY <1>0, <1>14, <2>1 DEF Registrations
  <2>3. /\ DOMAIN rows' = DOMAIN rows /\ rows'[i] = row
        /\ \A k \in DOMAIN rows : k # i => rows'[k] = rows[k]
    BY <1>3, <2>2
  <2>4. row.path = p /\ row.missing = None
    BY <2>1 DEF Registrations
  <2>5. p \in New /\ rescan'.relocated = rescan.relocated \cup {i}
    BY <1>0, <1>11, <1>14
  <2>6. HandInv
    BY <1>0 DEF IndexInv
  <2>7. ASSUME Apart PROVE rows[i].path \notin rescan.found \/ rows[i].path = p
    <3>1. CASE Workers = 1
      BY <1>0, <1>2, <1>3, <2>6, <3>1 DEF HandInv, RowKept
    <3>2. CASE Twins(p) = {p}
      <4>1. CASE rows[i].path \in New /\ rescan.known[i].text = disk[rows[i].path].text
        BY <1>2, <3>2, <4>1 DEF Twins
      <4>2. QED
        BY <1>2, <1>3, <4>1 DEF RowKept
    <3>3. QED
      BY <2>5, <2>7, <3>1, <3>2 DEF Apart
  <2> HIDE DEF i, j, row, moves
  <2>8. \A q \in Paths : q # p => At(q)' \subseteq At(q)
    BY <2>3, <2>4 DEF At
  <2>9. ASSUME NEW q \in Paths, q # p PROVE JobKnows(q)'
    <3>1. JobKnows(q) /\ Candidates(disk[q].text)' = Candidates(disk[q].text)
          /\ Known(q)' = Known(q) /\ job'[q] = job[q]
      BY <1>0, <1>7, <2>9, SettledTerms DEF IndexInv
    <3>2. At(q) = {} => At(q)' = {}
      BY <2>8, <2>9
    <3>3. ASSUME job[q].at \in {"queued", "recover"}, NEW k \in Known(q)
          PROVE  rows'[k] = rows[k]
      <4>1. q \in rescan.found
        BY <3>1, <3>3 DEF JobKnows
      <4>2. k \in DOMAIN rows /\ rescan.known[k].path = q
        BY <1>0, <4>1, <3>3, KnownStays DEF Known
      <4>3. QED
        BY <1>2, <2>3, <4>1, <4>2
    <3>4. Settled
      BY <1>0
    <3>5. QED
      BY <1>8, <3>1, <3>2, <3>3, <3>4 DEF JobKnows, Settled
  <2>10. ASSUME NEW k \in DOMAIN rows' PROVE RowKept(k)'
    <3>1. CASE k = i
      BY <1>0, <1>1, <1>2, <1>8, <2>3, <2>4, <2>5, <3>1 DEF RowKept, Settled
    <3>2. CASE k # i
      <4>1. RowKept(k) /\ rows'[k] = rows[k]
        BY <1>0, <2>3, <2>10, <3>2 DEF IndexInv
      <4>2. k \in rescan'.relocated <=> k \in rescan.relocated
        BY <2>5, <3>2
      <4>3. Settled
        BY <1>0
      <4>4. QED
        BY <1>8, <4>1, <4>2, <4>3 DEF RowKept, Settled
    <3>3. QED
      BY <3>1, <3>2
  <2>11. DoneInv'
    <3> SUFFICES ASSUME Apart, NEW q \in Paths, job'[q].at = "done", disk[q].mtime \notin torn
                 PROVE  IsIndexed(q)'
      BY <1>0, SettledTerms DEF DoneInv, Settled
    <3>1. q # p /\ job[q].at = "done"
      BY <1>6, <1>7
    <3>2. q \in rescan.found
      BY <1>0, <3>1, HandIsFound
    <3>3. IsIndexed(q)
      BY <1>0, <3>1 DEF IndexInv, DoneInv
    <3>4. PICK k \in At(q) : /\ rows[k].missing = None
                             /\ rows[k].mtime = disk[q].mtime /\ rows[k].text = disk[q].text
      BY <3>3 DEF IsIndexed
    <3>5. k # i
      BY <2>7, <3>1, <3>2, <3>4 DEF At
    <3>6. rows'[k] = rows[k] /\ k \in At(q)'
      BY <2>3, <3>4, <3>5 DEF At
    <3>7. QED
      BY <1>0, <3>4, <3>6 DEF IsIndexed
  <2>12. HandInv'
    <3>1. \A q \in Paths : q \in InHand' => q \in InHand /\ q # p
      BY <1>6, <1>7 DEF InHand
    <3>2. Workers = 1 => InHand' = {}
      BY <1>10, <2>6, <3>1 DEF HandInv, InHand
    <3>3. \A q \in Paths : job'[q].at = "move" => q \in InHand'
      BY DEF InHand
    <3>4. QED
      BY <3>2, <3>3 DEF HandInv
  <2>13. MoveInv'
    <3> SUFFICES ASSUME NEW q \in Paths, NEW k \in DOMAIN rescan.known, Sole(q, k),
                        job'[q].at \in {"save", "done"}
                 PROVE  IsMoved(q, k)'
      BY <1>0, SettledTerms DEF MoveInv, Settled
    <3>1. CASE q = p
      <4>1. k = i
        BY <1>1, <3>1 DEF Sole
      <4>2. QED
        BY <1>3, <2>3, <2>4, <3>1, <4>1 DEF IsMoved
    <3>2. CASE q # p
      <4>1. IsMoved(q, k)
        BY <1>0, <1>7, <3>2 DEF IndexInv, MoveInv
      <4>2. k # i
        <5>1. CASE k = i
          <6>1. k \in Candidates(disk[q].text)
            BY DEF Sole
          <6>2. disk[q].text = disk[p].text
            BY <1>2, <5>1, <6>1 DEF Candidates
          <6>3. p \in Twins(q)
            BY <2>5, <6>2 DEF Twins
          <6>4. QED
            BY <3>2, <6>3 DEF Sole
        <5>2. QED
          BY <5>1
      <4>3. QED
        BY <2>3, <4>1, <4>2 DEF IsMoved
    <3>3. QED
      BY <3>1, <3>2
  <2>14. \A q \in Paths : JobKnows(q)'
    BY <1>9, <2>9
  <2>15. DOMAIN rescan'.known \subseteq DOMAIN rows'
    BY <1>0, <2>3 DEF IndexInv, Settled
  <2>16. QED
    BY <2>10, <2>11, <2>12, <2>13, <2>14, <2>15 DEF IndexInv
<1>15. QED
  BY <1>13, <1>14


LEMMA BeginQuiet ==
  ASSUME Begin
  PROVE  QuietInv'
<1>1. /\ rescan'.at = "scan" /\ rescan'.left = Folders /\ rescan'.found = {}
      /\ rescan'.cancel = FALSE /\ rescan'.stamp = [p \in Paths |-> None]
  BY DEF Begin, Idle
<1>2. \A p \in Paths : FolderOf[p] \in Folders
  BY PathsAssumption
<1>3. QED
  BY <1>1, <1>2 DEF QuietInv, WalkInv, JudgedInv, IndexInv

LEMMA WalkQuiet ==
  ASSUME Types, WalkInv, NEW f \in Folders,
         ScanFails(f) \/ \E sdk \in BOOLEAN : ScanFolder(f, sdk)
  PROVE  WalkInv' /\ rescan'.at = "scan"
<1>0. ScanShape /\ rescan.stamp \in [Paths -> Nat \cup {None}]
  BY DEF Types, ScanTypes
<1>1. CASE ScanFails(f)
  <2>1. /\ UNCHANGED <<disk, down, hidden>> /\ f \in down
        /\ rescan.at = "scan" /\ rescan'.at = "scan" /\ rescan'.left = rescan.left \ {f}
        /\ rescan'.found = rescan.found /\ rescan'.stamp = rescan.stamp
        /\ rescan'.cancel = rescan.cancel
    BY <1>0, <1>1 DEF ScanFails, ScanShape, world
  <2>2. QED
    BY <2>1 DEF WalkInv, Visible, Exists
<1>2. ASSUME NEW sdk \in BOOLEAN, ScanFolder(f, sdk) PROVE WalkInv' /\ rescan'.at = "scan"
  <2> DEFINE seen == {p \in Paths : FolderOf[p] = f /\ Visible(p)}
  <2>1. /\ UNCHANGED <<disk, down, hidden>>
        /\ rescan.at = "scan" /\ rescan'.at = "scan" /\ rescan'.left = rescan.left \ {f}
        /\ rescan'.found = rescan.found \cup seen
        /\ rescan'.stamp = IF sdk THEN [p \in Paths |-> IF p \in seen THEN disk[p].mtime
                                                        ELSE rescan.stamp[p]]
                           ELSE rescan.stamp
        /\ rescan'.cancel = rescan.cancel
    BY <1>0, <1>2, ZenonT(30) DEF ScanFolder, ScanShape, world
  <2>2. rescan.found \subseteq Paths
    BY DEF Types, ScanTypes
  <2>3. \A p \in rescan'.found : rescan'.stamp[p] = rescan.stamp[p]
                                 \/ rescan'.stamp[p] = disk[p].mtime
    BY <2>1, <2>2
  <2>4. \A p \in Paths : Visible(p)' <=> Visible(p)
    BY <2>1 DEF Visible, Exists
  <2>5. ASSUME NEW p \in rescan'.found
        PROVE  Visible(p)' /\ rescan'.stamp[p] \in {None, disk'[p].mtime}
    <3>1. CASE p \in rescan.found
      BY <2>1, <2>2, <2>3, <2>4, <3>1 DEF WalkInv
    <3>2. CASE p \in seen /\ p \notin rescan.found
      <4>1. p \in Paths /\ Visible(p)
        BY <3>2
      <4>2. rescan.stamp[p] = None
        BY <3>2, <4>1 DEF WalkInv
      <4>3. rescan'.stamp[p] \in {None, disk[p].mtime}
        BY <2>3, <4>2
      <4>4. QED
        BY <2>1, <2>4, <4>1, <4>3
    <3>3. QED
      BY <2>1, <3>1, <3>2
  <2>6. ASSUME NEW p \in Paths, Visible(p)', FolderOf[p] \notin rescan'.left
        PROVE  p \in rescan'.found
    BY <2>1, <2>4, <2>6 DEF WalkInv
  <2>7. \A p \in Paths \ rescan'.found : rescan'.stamp[p] = None
    BY <2>1 DEF WalkInv
  <2>8. QED
    BY <2>1, <2>5, <2>6, <2>7 DEF WalkInv
<1>3. QED
  BY <1>1, <1>2

LEMMA JudgeQuiet ==
  ASSUME Types, WalkInv, Judge
  PROVE  WalkInv' /\ JudgedInv' /\ rescan'.at = "mark"
<1>0. ScanShape
  BY DEF Types, ScanTypes
<1>1. /\ UNCHANGED <<disk, down, hidden, rows>>
      /\ rescan'.at = "mark" /\ rescan.left = {} /\ rescan'.left = {}
      /\ rescan'.found = rescan.found /\ rescan'.stamp = rescan.stamp
      /\ rescan'.cancel = rescan.cancel /\ rescan'.covered = rescan.covered
      /\ rescan'.known = rows
      /\ rescan'.absent = {p \in Paths \ rescan.found : At(p) # {} /\ AbsenceIsProven(p)}
  BY <1>0 DEF Judge, WalkInv, ScanShape, world
<1>2. WalkInv'
  BY <1>1 DEF WalkInv, Visible, Exists
<1>3. JudgedInv'
  BY <1>1 DEF JudgedInv, At, AbsenceIsProven, Exists
<1>4. QED
  BY <1>1, <1>2, <1>3

LEMMA MarkQuiet ==
  ASSUME Types, PhaseInv, WalkInv, JudgedInv, MarkMissing
  PROVE  WalkInv' /\ IndexInv' /\ rescan'.at = "index"
<1>0. ScanShape /\ day \in Nat /\ \A i \in DOMAIN rows : rows[i] \in Registrations
  BY DEF Types, ScanTypes, WorldTypes, RowTypes, IsRegistry
<1> DEFINE marked(i) == rows[i].path \in rescan.absent /\ rows[i].missing = None
<1>1. /\ UNCHANGED <<disk, down, hidden>>
      /\ rescan.at = "mark" /\ rescan'.at = "index"
      /\ rescan'.left = rescan.left /\ rescan'.found = rescan.found
      /\ rescan'.stamp = rescan.stamp /\ rescan'.cancel = rescan.cancel
      /\ rescan'.covered = rescan.covered /\ rescan'.known = rescan.known
      /\ rescan'.relocated = rescan.relocated
      /\ rows' = [i \in DOMAIN rows |-> IF marked(i) THEN [rows[i] EXCEPT !.missing = day]
                                        ELSE rows[i]]
      /\ job' = [p \in Paths |-> IF p \in rescan.found THEN [NoJob EXCEPT !.at = "queued"]
                                 ELSE NoJob]
  BY <1>0 DEF MarkMissing, WalkInv, ScanShape, world
<1>2. WalkInv'
  BY <1>1 DEF WalkInv, Visible, Exists
<1>3. /\ rescan.known = rows /\ rescan.relocated = {}
      /\ rescan.absent = {p \in Paths \ rescan.found : At(p) # {} /\ AbsenceIsProven(p)}
  BY <1>1 DEF JudgedInv, PhaseInv
<1>4. /\ DOMAIN rows' = DOMAIN rows
      /\ \A i \in DOMAIN rows :
           /\ rows'[i].path = rows[i].path /\ rows'[i].mtime = rows[i].mtime
           /\ rows'[i].missing = IF marked(i) THEN day ELSE rows[i].missing
  BY <1>0, <1>1 DEF Registrations
<1>5. \A p \in Paths : job'[p].at = IF p \in rescan.found THEN "queued" ELSE "none"
  BY <1>1 DEF NoJob
<1>6. New' = New /\ \A p \in Paths : Known(p)' = At(p) /\ At(p)' = At(p)
  BY <1>1, <1>3, <1>4 DEF New, Known, At
<1>7. ASSUME NEW p \in Paths PROVE JobKnows(p)'
  <2>1. p \in New' => At(p)' = {}
    BY <1>6 DEF New
  <2>2. ASSUME NEW i \in Known(p)', p \in rescan.found
        PROVE  /\ rows'[i].mtime = rescan'.known[i].mtime
               /\ rescan'.known[i].missing = None => rows'[i].missing = None
    <3>1. i \in DOMAIN rows /\ rows[i].path = p
      BY <1>6, <2>2 DEF At
    <3>2. QED
      BY <1>1, <1>3, <1>4, <2>2, <3>1
  <2>3. job'[p].at = IF p \in rescan'.found THEN "queued" ELSE "none"
    BY <1>1, <1>5
  <2>4. job'[p].at # "none" => p \in rescan.found
    BY <1>5
  <2>5. QED
    BY <2>1, <2>2, <2>3, <2>4 DEF JobKnows
<1>8. ASSUME NEW i \in DOMAIN rows' PROVE RowKept(i)'
  <2>1. i \in DOMAIN rescan'.known /\ rescan'.known[i].path = rows'[i].path
        /\ i \notin rescan'.relocated
    BY <1>1, <1>3, <1>4
  <2>2. ASSUME FolderOf[rows[i].path] \in rescan.covered, rows[i].path \notin hidden,
               disk[rows[i].path] = None
        PROVE  rows'[i].missing # None
    <3>1. rows[i].path \in Paths /\ i \in At(rows[i].path)
      BY <1>0, <1>4 DEF Registrations, At
    <3>2. rows[i].path \notin rescan.found /\ AbsenceIsProven(rows[i].path)
      BY <2>2 DEF WalkInv, Visible, Exists, AbsenceIsProven
    <3>3. rows[i].path \in rescan.absent
      BY <1>3, <3>1, <3>2
    <3>4. QED
      BY <1>0, <1>4, <3>3, NoneIsApart
  <2>3. QED
    BY <1>1, <1>4, <2>1, <2>2 DEF RowKept
<1>9. DoneInv' /\ MoveInv'
  BY <1>5 DEF DoneInv, MoveInv
<1>10. HandInv'
  BY <1>5 DEF HandInv, InHand
<1>11. QED
  BY <1>1, <1>2, <1>3, <1>4, <1>7, <1>8, <1>9, <1>10 DEF IndexInv

LEMMA PurgeQuiet ==
  ASSUME Types, WalkInv, IndexInv, Purge
  PROVE  WalkInv' /\ IndexInv' /\ rescan'.at = "done"
<1>0. ScanShape
  BY DEF Types, ScanTypes
<1>1. /\ UNCHANGED <<disk, down, hidden, torn, job>>
      /\ rescan.at = "index" /\ rescan'.at = "done"
      /\ rescan'.left = rescan.left /\ rescan'.found = rescan.found
      /\ rescan'.stamp = rescan.stamp /\ rescan'.cancel = rescan.cancel
      /\ rescan'.covered = rescan.covered /\ rescan'.known = rescan.known
      /\ rescan'.relocated = rescan.relocated
      /\ rows' = Without(rows, Expired)
      /\ \A p \in Paths : job[p].at \in {"none", "done"}
  BY <1>0 DEF Purge, WalkInv, ScanShape, world
<1>2. WalkInv'
  BY <1>1 DEF WalkInv, Visible, Exists
<1>3. /\ \A i \in DOMAIN rows' : i \in DOMAIN rows /\ rows'[i] = rows[i]
      /\ \A i \in DOMAIN rows : rows[i].missing = None => i \in DOMAIN rows'
  BY <1>1 DEF Without, Expired
<1>4. /\ New' = New /\ \A p \in Paths : Known(p)' = Known(p) /\ Twins(p)' = Twins(p)
      /\ \A p \in Paths, i \in DOMAIN rescan.known : Sole(p, i)' => Sole(p, i)
      /\ Apart' => Apart
  <2>1. New' = New /\ \A p \in Paths : Known(p)' = Known(p)
    BY <1>1 DEF New, Known
  <2>2. \A p : Twins(p)' = Twins(p)
    BY <1>1, <2>1 DEF Twins
  <2>3. \A p \in Paths : Candidates(disk[p].text)' = Candidates(disk[p].text)
    BY <1>1 DEF Candidates
  <2>4. QED
    BY <2>1, <2>2, <2>3 DEF Sole, Apart
<1>5. ASSUME NEW p \in Paths PROVE JobKnows(p)'
  <2>1. JobKnows(p) /\ job'[p].at \in {"none", "done"} /\ job'[p].at = job[p].at
    BY <1>1 DEF IndexInv
  <2>2. QED
    BY <1>1, <2>1 DEF JobKnows
<1>6. ASSUME NEW i \in DOMAIN rows' PROVE RowKept(i)'
  <2>1. RowKept(i) /\ rows'[i] = rows[i]
    BY <1>1, <1>3 DEF IndexInv
  <2>2. QED
    BY <1>1, <1>4, <2>1 DEF RowKept
<1>7. DoneInv'
  <2> SUFFICES ASSUME Apart, NEW p \in Paths, job[p].at = "done", disk[p].mtime \notin torn
               PROVE  IsIndexed(p)'
    BY <1>1, <1>4 DEF DoneInv
  <2>1. IsIndexed(p)
    BY <1>1 DEF IndexInv, DoneInv
  <2>2. QED
    BY <1>1, <1>3, <2>1 DEF IsIndexed, At
<1>8. MoveInv'
  <2> SUFFICES ASSUME NEW p \in Paths, NEW i \in DOMAIN rescan.known, Sole(p, i),
                      job[p].at \in {"save", "done"}
               PROVE  IsMoved(p, i)'
    BY <1>1, <1>4 DEF MoveInv
  <2>1. IsMoved(p, i)
    BY <1>1 DEF IndexInv, MoveInv
  <2>2. QED
    BY <1>3, <2>1 DEF IsMoved
<1>9. HandInv'
  BY <1>1 DEF HandInv, InHand
<1>10. QED
  BY <1>1, <1>2, <1>5, <1>6, <1>7, <1>8, <1>9 DEF IndexInv

\* What ends a rescan or interferes with it is not quiet.
LEMMA LoudStep ==
  ASSUME Types, PhaseInv,
         \/ End \/ Stop \/ Crash \/ (OutsideStep /\ ~NextDay)
         \/ \E p \in Paths : ReadFails(p) \/ SaveFails(p)
  PROVE  ~rescan'.quiet
<1>0. ScanShape /\ rescan.quiet \in BOOLEAN
  BY DEF Types, ScanTypes
<1>1. CASE End \/ Crash
  BY <1>1 DEF End, Crash, Idle
<1>2. CASE Stop \/ \E p \in Paths : ReadFails(p) \/ SaveFails(p)
  BY <1>0, <1>2 DEF Stop, ReadFails, SaveFails, ScanShape
<1>3. CASE OutsideStep /\ ~NextDay
  <2>1. PICK gone \in SUBSET Paths : Disturb(gone)
    BY <1>3 DEF OutsideStep, DeleteFile, Hide, RegisterStat, Write, MoveFile, CopyFile,
                Unplug, Remove, RegisterInspect, RegisterSave
  <2>2. QED
    BY <1>0, <2>1 DEF Disturb, PhaseInv, ScanShape
<1>4. QED
  BY <1>1, <1>2, <1>3

LEMMA SameQuiet ==
  ASSUME QuietInv, UNCHANGED <<disk, down, hidden, rows, rescan, job, torn>>
  PROVE  QuietInv'
<1>1. New' = New /\ InHand' = InHand
  BY DEF New, Known, InHand
<1>2. \A p \in Paths : /\ Known(p)' = Known(p) /\ At(p)' = At(p)
                       /\ Visible(p)' <=> Visible(p)
                       /\ AbsenceIsProven(p)' <=> AbsenceIsProven(p)
                       /\ Candidates(disk[p].text)' = Candidates(disk[p].text)
  BY DEF Known, At, Visible, AbsenceIsProven, Exists, Candidates
<1>3. \A p : Twins(p)' = Twins(p)
  BY <1>1 DEF Twins
<1>4. (WalkInv => WalkInv') /\ (JudgedInv => JudgedInv')
  <2>1. WalkInv => WalkInv'
    BY DEF WalkInv, Visible, Exists
  <2>2. JudgedInv => JudgedInv'
    BY <1>2 DEF JudgedInv
  <2>3. QED
    BY <2>1, <2>2
<1>5. \A p \in Paths : JobKnows(p) => JobKnows(p)'
  BY <1>1, <1>2 DEF JobKnows
<1>6. \A i \in DOMAIN rows : RowKept(i) => RowKept(i)'
  BY <1>1 DEF RowKept
<1>7. HandInv => HandInv'
  BY <1>1 DEF HandInv
<1>8. DoneInv => DoneInv'
  <2>1. Apart' => Apart
    BY <1>1, <1>3 DEF Apart
  <2>2. \A p \in Paths : IsIndexed(p) => IsIndexed(p)'
    BY <1>2 DEF IsIndexed
  <2>3. QED
    BY <2>1, <2>2 DEF DoneInv
<1>9. MoveInv => MoveInv'
  <2>1. \A p \in Paths, i \in DOMAIN rescan.known : Sole(p, i)' => Sole(p, i)
    BY <1>1, <1>2, <1>3 DEF Sole
  <2>2. \A p, i : IsMoved(p, i) => IsMoved(p, i)'
    BY DEF IsMoved
  <2>3. QED
    BY <2>1, <2>2 DEF MoveInv
<1>10. IndexInv => IndexInv'
  BY <1>5, <1>6, <1>7, <1>8, <1>9 DEF IndexInv
<1>11. QED
  BY <1>4, <1>10 DEF QuietInv

LEMMA QuietStep == Types /\ PhaseInv /\ FitsInv /\ QuietInv /\ [Next]_vars => QuietInv'
<1> SUFFICES ASSUME Types, PhaseInv, FitsInv, QuietInv, [Next]_vars PROVE QuietInv'
  OBVIOUS
<1>0. ScanShape
  BY DEF Types, ScanTypes
<1>1. CASE UNCHANGED vars \/ NextDay
  <2>1. UNCHANGED <<disk, down, hidden, rows, rescan, job, torn>>
    BY <1>1 DEF vars, NextDay
  <2>2. QED
    BY <2>1, SameQuiet
<1>2. CASE Begin
  BY <1>2, BeginQuiet
<1>3. CASE \/ End \/ Stop \/ Crash \/ (OutsideStep /\ ~NextDay)
           \/ \E p \in Paths : ReadFails(p) \/ SaveFails(p)
  BY <1>3, LoudStep DEF QuietInv
<1>4. ASSUME NEW f \in Folders, ScanFails(f) \/ \E sdk \in BOOLEAN : ScanFolder(f, sdk)
      PROVE  QuietInv'
  <2>1. rescan'.quiet = rescan.quiet
    BY <1>0, <1>4 DEF ScanFails, ScanFolder, ScanShape
  <2>2. rescan.quiet => WalkInv' /\ rescan'.at = "scan"
    BY <1>4, WalkQuiet DEF QuietInv
  <2>3. QED
    BY <2>1, <2>2 DEF QuietInv, JudgedInv, IndexInv
<1>5. CASE Judge
  <2>1. rescan'.quiet = rescan.quiet
    BY <1>0, <1>5 DEF Judge, ScanShape
  <2>2. QED
    BY <1>5, <2>1, JudgeQuiet DEF QuietInv, IndexInv
<1>6. CASE MarkMissing
  <2>1. rescan'.quiet = rescan.quiet
    BY <1>0, <1>6 DEF MarkMissing, ScanShape
  <2>2. QED
    BY <1>6, <2>1, MarkQuiet DEF QuietInv, JudgedInv
<1>7. CASE Purge
  <2>1. rescan'.quiet = rescan.quiet
    BY <1>0, <1>7 DEF Purge, ScanShape
  <2>2. QED
    BY <1>7, <2>1, PurgeQuiet DEF QuietInv, JudgedInv
<1>8. ASSUME NEW p \in Paths,
             Look(p) \/ Recover(p) \/ Read(p) \/ Match(p) \/ Relocate(p) \/ Save(p)
      PROVE  QuietInv'
  <2>1. Settled
    BY <1>8, HandIsSettled
  <2>2. rescan.quiet => IndexInv'
    BY <1>8, LookQuiet, RecoverQuiet, ReadQuiet, MatchQuiet, RelocateQuiet, SaveQuiet
       DEF QuietInv
  <2>3. rescan.quiet => WalkInv' /\ JudgedInv'
    BY <2>1, SettledWalk DEF QuietInv
  <2>4. QED
    BY <2>1, <2>2, <2>3 DEF QuietInv, Settled
<1>9. QED
  BY <1>1, <1>2, <1>3, <1>4, <1>5, <1>6, <1>7, <1>8 DEF Next, RescanStep, OutsideStep

LEMMA InitQuiet == Init => PhaseInv /\ QuietInv
<1>1. Init => /\ rescan.at = "idle" /\ ~rescan.quiet
              /\ \A p \in Paths : job[p].at = "none"
  BY DEF Init, Idle, NoJob
<1>2. QED
  BY <1>1 DEF PhaseInv, QuietInv

\* After a rescan nothing interfered with, every visible file is registered and indexed as it
\* is, and every registration whose file is gone from a walked folder is missing.
THEOREM RescanConverges == Spec => []Converges
<1>1. Types /\ PhaseInv /\ QuietInv => Converges
  <2> SUFFICES ASSUME Types, PhaseInv, QuietInv, rescan.at = "done", rescan.quiet, Apart
               PROVE  /\ \A p \in Paths : Visible(p) /\ disk[p].mtime \notin torn =>
                           IsIndexed(p)
                      /\ \A i \in DOMAIN rows :
                           FolderOf[rows[i].path] \in rescan.covered
                             /\ rows[i].path \notin hidden /\ disk[rows[i].path] = None
                           => rows[i].missing # None
    BY DEF Converges, Apart, IsIndexed
  <2>1. WalkInv /\ IndexInv
    BY DEF QuietInv
  <2>2. ASSUME NEW p \in Paths, Visible(p), disk[p].mtime \notin torn PROVE IsIndexed(p)
    <3>1. p \in rescan.found
      BY <2>1, <2>2 DEF WalkInv
    <3>2. job[p].at = "done"
      BY <2>1, <3>1 DEF IndexInv, JobKnows, PhaseInv
    <3>3. QED
      BY <2>1, <2>2, <3>2 DEF IndexInv, DoneInv
  <2>3. \A i \in DOMAIN rows : RowKept(i)
    BY <2>1 DEF IndexInv
  <2>4. QED
    BY <2>2, <2>3 DEF RowKept
<1>2. QED
  BY <1>1, InitTypes, InitNamed, InitQuiet, TypesStep, NamedStep, PhaseStep, QuietStep,
     PTL DEF Spec

\* A document keeps its registration: its id when it moves to the only place it can have moved
\* to, and new days of grace whenever it has been seen.
THEOREM RegistrationsKept == Spec => []RegistrationsAreKept
<1>1. Types /\ PhaseInv /\ QuietInv => MoveKeepsId
  <2> SUFFICES ASSUME Types, PhaseInv, QuietInv, rescan.at = "done", rescan.quiet,
                      NEW p \in New, NEW i \in DOMAIN rescan.known,
                      Twins(p) = {p}, Candidates(disk[p].text) = {i}
               PROVE  i \in DOMAIN rows /\ rows[i].path = p
    BY DEF MoveKeepsId
  <2>1. p \in rescan.found /\ p \in Paths
    BY DEF New, Types, ScanTypes
  <2>2. job[p].at = "done"
    BY <2>1 DEF QuietInv, IndexInv, JobKnows, PhaseInv
  <2>3. IsMoved(p, i)
    BY <2>1, <2>2 DEF QuietInv, IndexInv, MoveInv, Sole
  <2>4. QED
    BY <2>3 DEF IsMoved
<1>2. Spec => []MoveKeepsId
  BY <1>1, InitTypes, InitNamed, InitQuiet, TypesStep, NamedStep, PhaseStep, QuietStep,
     PTL DEF Spec
<1>3. QED
  BY <1>2, GraceStartsAnew, PTL DEF RegistrationsAreKept

=============================================================================

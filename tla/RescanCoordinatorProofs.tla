----------------------- MODULE RescanCoordinatorProofs -----------------------
(***************************************************************************)
(* What RescanCoordinator promises for any number of jobs, sync rescans,   *)
(* folders and workers.                                                    *)
(***************************************************************************)
EXTENDS RescanCoordinator, TLAPS

(***************************************************************************)
(* Type correctness.  The counters of the work are bounded by MaxFolders   *)
(* only together: their sum never grows, and before the scan it is zero.   *)
(***************************************************************************)
WorkInv ==
  \A r \in Rescans :
    /\ work[r].folders + work[r].pending + work[r].inFlight <= MaxFolders
    /\ work[r].inFlight > 0 => pc[r] \in {"index", "check", "save"}
    /\ pc[r] = "walk" => work[r].folders > 0
    /\ pc[r] = "begin" => work[r] = NoWork

\* A patch waits only while its job is inside the rescan, before its judgement.
PatchInv ==
  \A r \in Rescans : patch[r] # Free => r \in Jobs /\ pc[r] \in ImplPoints \cup {"judge"}

\* The verdict a job reports has been taken.
VerdictInv == \A r \in Rescans : pc[r] = "report" => verdict[r] # "none"

TInv == TypeOK /\ WorkInv /\ PatchInv /\ VerdictInv

USE DEF Rescans

LEMMA InitTInv == Init => TInv
<1> SUFFICES ASSUME Init PROVE TInv
  OBVIOUS
<1>1. TypeOK
  <2>1. status \in Status
    BY DEF Init, Status, Stages
  <2>2. NoWork \in Work
    BY BoundsAssumption DEF NoWork, Work
  <2>3. QED
    BY <2>1, <2>2 DEF Init, TypeOK, Points, Critical, Reporting, ImplPoints
<1>2. WorkInv
  BY BoundsAssumption DEF Init, WorkInv, NoWork
<1>3. PatchInv
  BY DEF Init, PatchInv
<1>4. VerdictInv
  BY DEF Init, VerdictInv
<1>5. QED
  BY <1>1, <1>2, <1>3, <1>4 DEF TInv

LEMMA LesserType ==
  ASSUME NEW a \in Nat, NEW b \in Nat
  PROVE  /\ Lesser(a, b) \in Nat
         /\ Lesser(a, b) <= a
         /\ Lesser(a, b) <= b
         /\ a > 0 /\ b > 0 => Lesser(a, b) > 0
BY DEF Lesser

\* A patch is published by a job, for itself.
LEMMA PublishFacts ==
  ASSUME TypeOK, NEW r \in Rescans, NEW stage \in Stages, NEW requested \in BOOLEAN,
         Publish(r, stage, requested)
  PROVE  /\ patch' \in [Rescans -> Patch \cup {Free}]
         /\ \A q \in Rescans : patch'[q] # patch[q] => q = r /\ r \in Jobs
BY DEF Publish, TypeOK, Patch

LEMMA PublishProgressFacts ==
  ASSUME TypeOK, NEW r \in Rescans, NEW stage \in Stages, PublishProgress(r, stage)
  PROVE  /\ patch' \in [Rescans -> Patch \cup {Free}]
         /\ \A q \in Rescans : patch'[q] # patch[q] => q = r /\ r \in Jobs
<1>1. PICK shown \in Stages : Publish(r, shown, cancelEvent)
  BY DEF PublishProgress, Stages
<1>2. QED
  BY <1>1, PublishFacts DEF TypeOK

\* Control goes from "check" to the end of indexing.
LEMMA FinishIndexingFacts ==
  ASSUME TypeOK, NEW r \in Rescans, FinishIndexing(r)
  PROVE  /\ pc' \in [Rescans -> Points]
         /\ pc'[r] \in {"close", "saveLast"}
         /\ \A q \in Rescans \ {r} : pc'[q] = pc[q]
         /\ patch' \in [Rescans -> Patch \cup {Free}]
         /\ \A q \in Rescans : patch'[q] # patch[q] => q = r /\ r \in Jobs
<1>1. pc' = [pc EXCEPT ![r] = "close"] \/ pc' = [pc EXCEPT ![r] = "saveLast"]
  BY DEF FinishIndexing, Goto
<1>2. PublishProgress(r, "indexing") \/ Publish(r, "saving", cancelEvent)
  BY DEF FinishIndexing
<1>3. "indexing" \in Stages /\ "saving" \in Stages /\ cancelEvent \in BOOLEAN
  BY DEF Stages, TypeOK
<1>4. /\ patch' \in [Rescans -> Patch \cup {Free}]
      /\ \A q \in Rescans : patch'[q] # patch[q] => q = r /\ r \in Jobs
  BY <1>2, <1>3, PublishFacts, PublishProgressFacts
<1>5. QED
  BY <1>1, <1>4 DEF TypeOK, Points, Critical, Reporting, ImplPoints

LEMMA KeepIndexingFacts ==
  ASSUME TypeOK, NEW r \in Rescans, KeepIndexing(r)
  PROVE  /\ pc' \in [Rescans -> Points]
         /\ pc[r] = "check" /\ ~cancelEvent
         /\ IF work[r].inFlight > 0 THEN pc'[r] = "index"
                                    ELSE pc'[r] \in {"close", "saveLast"}
         /\ \A q \in Rescans \ {r} : pc'[q] = pc[q]
         /\ patch' \in [Rescans -> Patch \cup {Free}]
         /\ \A q \in Rescans : patch'[q] # patch[q] => q = r /\ r \in Jobs
<1>1. CASE work[r].inFlight > 0
  BY <1>1 DEF KeepIndexing, At, Goto, TypeOK, Points, Critical, Reporting, ImplPoints
<1>2. CASE ~(work[r].inFlight > 0)
  BY <1>2, FinishIndexingFacts DEF KeepIndexing, At
<1>3. QED
  BY <1>1, <1>2

LEMMA StopIndexingFacts ==
  ASSUME TypeOK, NEW r \in Rescans, StopIndexing(r)
  PROVE  /\ cancelEvent /\ pc[r] = "check"
         /\ pc' \in [Rescans -> Points]
         /\ pc'[r] \in {"close", "saveLast"}
         /\ \A q \in Rescans \ {r} : pc'[q] = pc[q] /\ work'[q] = work[q] /\ cut'[q] = cut[q]
         /\ work' \in [Rescans -> Work] /\ cut' \in [Rescans -> BOOLEAN]
         /\ work'[r].inFlight = 0
         /\ work'[r].folders = work[r].folders /\ work'[r].pending = work[r].pending
         /\ patch' \in [Rescans -> Patch \cup {Free}]
         /\ \A q \in Rescans : patch'[q] # patch[q] => q = r /\ r \in Jobs
         /\ UNCHANGED <<status, executionLock, cancelEvent, asked, verdict>>
<1>1. FinishIndexing(r)
  BY DEF StopIndexing
<1>2. work' = [work EXCEPT ![r].inFlight = 0]
  BY DEF StopIndexing
<1>3. /\ work' \in [Rescans -> Work] /\ work'[r].inFlight = 0
      /\ work'[r].folders = work[r].folders /\ work'[r].pending = work[r].pending
      /\ \A q \in Rescans \ {r} : work'[q] = work[q]
  BY <1>2, BoundsAssumption DEF TypeOK, Work
<1>4. PICK unbegun \in 0..work[r].inFlight :
        cut' = [cut EXCEPT ![r] = @ \/ work[r].pending > 0 \/ unbegun > 0]
  BY DEF StopIndexing
<1>5. cut' \in [Rescans -> BOOLEAN] /\ \A q \in Rescans \ {r} : cut'[q] = cut[q]
  BY <1>4 DEF TypeOK
<1>6. QED
  BY <1>1, <1>3, <1>5, FinishIndexingFacts DEF StopIndexing, At

LEMMA EndSaveFacts ==
  ASSUME TypeOK, NEW r \in Rescans, EndSave(r)
  PROVE  /\ pc' \in [Rescans -> Points]
         /\ \/ pc[r] = "save" /\ pc'[r] = "check"
            \/ pc[r] = "saveLast" /\ pc'[r] = "close"
         /\ \A q \in Rescans \ {r} : pc'[q] = pc[q]
         /\ patch' \in [Rescans -> Patch \cup {Free}]
         /\ \A q \in Rescans : patch'[q] # patch[q] => q = r /\ r \in Jobs
         /\ UNCHANGED <<status, executionLock, cancelEvent, work, cut, asked, verdict>>
<1>1. "indexing" \in Stages /\ PublishProgress(r, "indexing")
  BY DEF EndSave, Stages
<1>2. /\ patch' \in [Rescans -> Patch \cup {Free}]
      /\ \A q \in Rescans : patch'[q] # patch[q] => q = r /\ r \in Jobs
  BY <1>1, PublishProgressFacts
<1>3. \/ pc[r] = "save" /\ pc' = [pc EXCEPT ![r] = "check"]
      \/ pc[r] = "saveLast" /\ pc' = [pc EXCEPT ![r] = "close"]
  BY DEF EndSave, At, Goto
<1>4. UNCHANGED <<status, executionLock, cancelEvent, work, cut, asked, verdict>>
  BY DEF EndSave
<1>5. CASE pc[r] = "save" /\ pc' = [pc EXCEPT ![r] = "check"]
  <2>1. pc' \in [Rescans -> Points]
    BY <1>5 DEF TypeOK, Points, Critical, Reporting, ImplPoints
  <2>2. pc'[r] = "check" /\ \A q \in Rescans \ {r} : pc'[q] = pc[q]
    BY <1>5 DEF TypeOK
  <2>3. QED
    BY <1>2, <1>4, <1>5, <2>1, <2>2
<1>6. CASE pc[r] = "saveLast" /\ pc' = [pc EXCEPT ![r] = "close"]
  <2>1. pc' \in [Rescans -> Points]
    BY <1>6 DEF TypeOK, Points, Critical, Reporting, ImplPoints
  <2>2. pc'[r] = "close" /\ \A q \in Rescans \ {r} : pc'[q] = pc[q]
    BY <1>6 DEF TypeOK
  <2>3. QED
    BY <1>2, <1>4, <1>6, <2>1, <2>2
<1>7. QED
  BY <1>3, <1>5, <1>6

LEMMA StepTInv == TInv /\ [Next]_vars => TInv'
<1> SUFFICES ASSUME TInv, [Next]_vars PROVE TInv'
  OBVIOUS
<1> USE RescansAssumption, BoundsAssumption
<1>1. ASSUME RequestCancel PROVE TInv'
  BY <1>1, LesserType DEF RequestCancel, At, Goto, Publish, PublishProgress, Leave, SetStage,
       ResetHistory, TInv, TypeOK, WorkInv, PatchInv, VerdictInv, Status, Patch, Work, Stages,
       Points, Critical, Reporting, ImplPoints, NoWork
<1>2. ASSUME NEW r \in Syncs, RescanLibrary(r) PROVE TInv'
  <2>1. TypeOK'
    BY <1>2 DEF RescanLibrary, At, Goto, Publish, PublishProgress, Leave, SetStage, ResetHistory,
         TInv, TypeOK, WorkInv, PatchInv, VerdictInv, Status, Patch, Work, Stages, NoWork, Points,
         Critical, Reporting, ImplPoints
  <2>2. WorkInv'
    BY <1>2 DEF RescanLibrary, At, Goto, Publish, PublishProgress, Leave, SetStage, ResetHistory,
         TInv, TypeOK, WorkInv, Work, NoWork, Points, Critical, Reporting, ImplPoints
  <2>3. PatchInv'
    BY <1>2 DEF RescanLibrary, At, Goto, Publish, PublishProgress, Leave, SetStage, ResetHistory,
         TInv, TypeOK, PatchInv, Points, Critical, Reporting, ImplPoints
  <2>4. VerdictInv'
    BY <1>2 DEF RescanLibrary, Goto, Leave, ResetHistory, TInv, TypeOK, VerdictInv
  <2>5. QED
    BY <2>1, <2>2, <2>3, <2>4 DEF TInv
<1>3. ASSUME NEW r \in Jobs, BeginOrCurrent(r) PROVE TInv'
  <2>1. TypeOK'
    <3>1. status' \in Status
      BY <1>3 DEF BeginOrCurrent, SetStage, TInv, TypeOK, VerdictInv, Status, Patch, Stages
    <3>2. work' \in [Rescans -> Work]
      BY <1>3 DEF BeginOrCurrent, At, ResetHistory, TInv, TypeOK, WorkInv, Work, NoWork
    <3>3. pc' \in [Rescans -> Points]
      BY <1>3 DEF BeginOrCurrent, Goto, Leave, TInv, TypeOK, Points, Critical, Reporting, ImplPoints
    <3>4. patch' \in [Rescans -> Patch \cup {Free}]
      BY <1>3 DEF BeginOrCurrent, Publish, PublishProgress, TInv, TypeOK, Patch, Stages
    <3>5. QED
      BY <1>3, <3>1, <3>2, <3>3, <3>4 DEF BeginOrCurrent, ResetHistory, TInv, TypeOK
  <2>2. WorkInv'
    BY <1>3 DEF BeginOrCurrent, At, Goto, Publish, PublishProgress, Leave, SetStage, ResetHistory,
         TInv, TypeOK, WorkInv, Work, NoWork, Points, Critical, Reporting, ImplPoints
  <2>3. PatchInv'
    BY <1>3 DEF BeginOrCurrent, At, Goto, Publish, PublishProgress, Leave, SetStage, ResetHistory,
         TInv, TypeOK, PatchInv, Points, Critical, Reporting, ImplPoints
  <2>4. VerdictInv'
    BY <1>3 DEF BeginOrCurrent, Goto, Leave, ResetHistory, TInv, TypeOK, VerdictInv
  <2>5. QED
    BY <2>1, <2>2, <2>3, <2>4 DEF TInv
<1>4. ASSUME NEW r \in Jobs, Update(r) PROVE TInv'
  <2>1. TypeOK'
    <3>1. status' \in Status
      BY <1>4 DEF Update, SetStage, TInv, TypeOK, VerdictInv, Status, Patch, Stages
    <3>2. work' \in [Rescans -> Work]
      BY <1>4 DEF Update, At, ResetHistory, TInv, TypeOK, WorkInv, Work, NoWork
    <3>3. pc' \in [Rescans -> Points]
      BY <1>4 DEF Update, Goto, Leave, TInv, TypeOK, Points, Critical, Reporting, ImplPoints
    <3>4. patch' \in [Rescans -> Patch \cup {Free}]
      BY <1>4 DEF Update, Publish, PublishProgress, TInv, TypeOK, Patch, Stages
    <3>5. QED
      BY <1>4, <3>1, <3>2, <3>3, <3>4 DEF Update, ResetHistory, TInv, TypeOK
  <2>2. WorkInv'
    BY <1>4 DEF Update, At, Goto, Publish, PublishProgress, Leave, SetStage, ResetHistory, TInv,
         TypeOK, WorkInv, Work, NoWork, Points, Critical, Reporting, ImplPoints
  <2>3. PatchInv'
    BY <1>4 DEF Update, At, Goto, Publish, PublishProgress, Leave, SetStage, ResetHistory, TInv,
         TypeOK, PatchInv, Points, Critical, Reporting, ImplPoints
  <2>4. VerdictInv'
    BY <1>4 DEF Update, Goto, Leave, ResetHistory, TInv, TypeOK, VerdictInv
  <2>5. QED
    BY <2>1, <2>2, <2>3, <2>4 DEF TInv
<1>5. ASSUME NEW r \in Jobs, Judge(r) PROVE TInv'
  BY <1>5, LesserType DEF Judge, At, Goto, Publish, PublishProgress, Leave, SetStage,
       ResetHistory, TInv, TypeOK, WorkInv, PatchInv, VerdictInv, Status, Patch, Work, Stages,
       Points, Critical, Reporting, ImplPoints, NoWork
<1>6. ASSUME NEW r \in Jobs, Report(r) PROVE TInv'
  <2>1. TypeOK'
    <3>1. status' \in Status
      BY <1>6 DEF Report, SetStage, TInv, TypeOK, VerdictInv, Status, Patch, Stages
    <3>2. work' \in [Rescans -> Work]
      BY <1>6 DEF Report, At, ResetHistory, TInv, TypeOK, WorkInv, Work, NoWork
    <3>3. pc' \in [Rescans -> Points]
      BY <1>6 DEF Report, Goto, Leave, TInv, TypeOK, Points, Critical, Reporting, ImplPoints
    <3>4. patch' \in [Rescans -> Patch \cup {Free}]
      BY <1>6 DEF Report, Publish, PublishProgress, TInv, TypeOK, Patch, Stages
    <3>5. QED
      BY <1>6, <3>1, <3>2, <3>3, <3>4 DEF Report, ResetHistory, TInv, TypeOK
  <2>2. WorkInv'
    BY <1>6 DEF Report, At, Goto, Publish, PublishProgress, Leave, SetStage, ResetHistory, TInv,
         TypeOK, WorkInv, Work, NoWork, Points, Critical, Reporting, ImplPoints
  <2>3. PatchInv'
    BY <1>6 DEF Report, At, Goto, Publish, PublishProgress, Leave, SetStage, ResetHistory, TInv,
         TypeOK, PatchInv, Points, Critical, Reporting, ImplPoints
  <2>4. VerdictInv'
    BY <1>6 DEF Report, Goto, Leave, ResetHistory, TInv, TypeOK, VerdictInv
  <2>5. QED
    BY <2>1, <2>2, <2>3, <2>4 DEF TInv
<1>7. ASSUME NEW r \in Jobs, ReportFailure(r) PROVE TInv'
  BY <1>7, LesserType DEF ReportFailure, At, Goto, Publish, PublishProgress, Leave, SetStage,
       ResetHistory, TInv, TypeOK, WorkInv, PatchInv, VerdictInv, Status, Patch, Work, Stages,
       Points, Critical, Reporting, ImplPoints, NoWork
<1>8. ASSUME NEW r \in Jobs, ClearCancelEvent(r) PROVE TInv'
  BY <1>8, LesserType DEF ClearCancelEvent, At, Goto, Publish, PublishProgress, Leave, SetStage,
       ResetHistory, TInv, TypeOK, WorkInv, PatchInv, VerdictInv, Status, Patch, Work, Stages,
       Points, Critical, Reporting, ImplPoints, NoWork
<1>9. ASSUME NEW r \in Rescans, StartScan(r) PROVE TInv'
  <2>1. TypeOK'
    <3>1. status' \in Status
      <4>1. PICK stage \in Stages, requested \in BOOLEAN : SetStage(r, stage, requested)
        BY <1>9 DEF StartScan, TInv, TypeOK, Status, Stages
      <4>2. QED
        BY <4>1 DEF SetStage, TInv, TypeOK, Status
    <3>2. work' \in [Rescans -> Work]
      BY <1>9 DEF StartScan, At, ResetHistory, TInv, TypeOK, WorkInv, Work, NoWork
    <3>3. pc' \in [Rescans -> Points]
      BY <1>9 DEF StartScan, Goto, Leave, TInv, TypeOK, Points, Critical, Reporting, ImplPoints
    <3>4. patch' \in [Rescans -> Patch \cup {Free}]
      BY <1>9 DEF StartScan, Publish, PublishProgress, TInv, TypeOK, Patch, Stages
    <3>5. QED
      BY <1>9, <3>1, <3>2, <3>3, <3>4 DEF StartScan, ResetHistory, TInv, TypeOK
  <2>2. WorkInv'
    <3>1. PICK n \in 0..MaxFolders : work' = [work EXCEPT ![r].folders = n]
      BY <1>9 DEF StartScan
    <3>2. /\ \A q \in Rescans \ {r} : pc'[q] = pc[q]
          /\ pc'[r] \in {"scan", "judge", "release"}
      BY <1>9 DEF StartScan, Leave, Goto, TInv, TypeOK
    <3>3. work[r] = NoWork
      BY <1>9 DEF StartScan, At, TInv, WorkInv
    <3>4. /\ work'[r].folders = n /\ work'[r].pending = 0 /\ work'[r].inFlight = 0
          /\ \A q \in Rescans \ {r} : work'[q] = work[q]
      BY <3>1, <3>3 DEF TInv, TypeOK, Work, NoWork
    <3>5. SUFFICES ASSUME NEW q \in Rescans
                   PROVE  WorkInv!(q)'
      BY DEF WorkInv
    <3>6. CASE q = r
      BY <3>2, <3>4, <3>6
    <3>7. CASE q # r
      BY <3>2, <3>4, <3>7 DEF TInv, WorkInv
    <3>8. QED
      BY <3>6, <3>7
  <2>3. PatchInv'
    BY <1>9 DEF StartScan, At, Goto, Publish, PublishProgress, Leave, SetStage, ResetHistory,
         TInv, TypeOK, PatchInv, Points, Critical, Reporting, ImplPoints
  <2>4. VerdictInv'
    BY <1>9, ZenonT(30) DEF StartScan, Goto, Leave, ResetHistory, TInv, TypeOK, VerdictInv
  <2>5. QED
    BY <2>1, <2>2, <2>3, <2>4 DEF TInv
<1>10. ASSUME NEW r \in Rescans, EnterFolder(r) PROVE TInv'
  <2>1. TypeOK'
    BY <1>10, LesserType DEF EnterFolder, At, Goto, Publish, PublishProgress, Leave, SetStage,
         ResetHistory, TInv, TypeOK, WorkInv, PatchInv, VerdictInv, Status, Patch, Work, Stages,
         Points, Critical, Reporting, ImplPoints, NoWork
  <2>2. WorkInv'
    BY <1>10, LesserType DEF EnterFolder, At, Goto, Publish, PublishProgress, Leave, SetStage,
         ResetHistory, TInv, TypeOK, WorkInv, Status, Patch, Work, Stages, Points, Critical,
         Reporting, ImplPoints, NoWork
  <2>3. PatchInv'
    BY <1>10, LesserType DEF EnterFolder, At, Goto, Publish, PublishProgress, Leave, SetStage,
         ResetHistory, TInv, TypeOK, PatchInv, Status, Patch, Work, Stages, Points, Critical,
         Reporting, ImplPoints, NoWork
  <2>4. VerdictInv'
    BY <1>10, LesserType DEF EnterFolder, At, Goto, Publish, PublishProgress, Leave, SetStage,
         ResetHistory, TInv, TypeOK, VerdictInv, Status, Patch, Work, Stages, Points, Critical,
         Reporting, ImplPoints, NoWork
  <2>5. QED
    BY <2>1, <2>2, <2>3, <2>4 DEF TInv
<1>11. ASSUME NEW r \in Rescans, WalkFolder(r) PROVE TInv'
  <2>1. TypeOK'
    <3>1. status' \in Status
      BY <1>11 DEF WalkFolder, SetStage, TInv, TypeOK, VerdictInv, Status, Patch, Stages
    <3>2. work' \in [Rescans -> Work]
      <4>1. work[r].folders > 0 /\ work[r].folders + work[r].pending <= MaxFolders
        BY <1>11 DEF WalkFolder, At, TInv, TypeOK, WorkInv, Work
      <4>2. QED
        BY <1>11, <4>1 DEF WalkFolder, TInv, TypeOK, Work
    <3>3. pc' \in [Rescans -> Points]
      BY <1>11 DEF WalkFolder, Goto, Leave, TInv, TypeOK, Points, Critical, Reporting, ImplPoints
    <3>4. patch' \in [Rescans -> Patch \cup {Free}]
      BY <1>11 DEF WalkFolder, Publish, PublishProgress, TInv, TypeOK, Patch, Stages
    <3>5. QED
      BY <1>11, <3>1, <3>2, <3>3, <3>4 DEF WalkFolder, ResetHistory, TInv, TypeOK
  <2>2. WorkInv'
    BY <1>11 DEF WalkFolder, At, Goto, Publish, PublishProgress, Leave, SetStage, ResetHistory,
         TInv, TypeOK, WorkInv, Work, NoWork, Points, Critical, Reporting, ImplPoints
  <2>3. PatchInv'
    BY <1>11 DEF WalkFolder, At, Goto, Publish, PublishProgress, Leave, SetStage, ResetHistory,
         TInv, TypeOK, PatchInv, Points, Critical, Reporting, ImplPoints
  <2>4. VerdictInv'
    BY <1>11 DEF WalkFolder, Goto, Leave, ResetHistory, TInv, TypeOK, VerdictInv
  <2>5. QED
    BY <2>1, <2>2, <2>3, <2>4 DEF TInv
<1>12. ASSUME NEW r \in Rescans, EndScan(r) PROVE TInv'
  <2>1. TypeOK'
    BY <1>12, LesserType DEF EndScan, At, Goto, Publish, PublishProgress, Leave, SetStage,
         ResetHistory, TInv, TypeOK, WorkInv, PatchInv, VerdictInv, Status, Patch, Work, Stages,
         Points, Critical, Reporting, ImplPoints, NoWork
  <2>2. WorkInv'
    BY <1>12, LesserType DEF EndScan, At, Goto, Publish, PublishProgress, Leave, SetStage,
         ResetHistory, TInv, TypeOK, WorkInv, Status, Patch, Work, Stages, Points, Critical,
         Reporting, ImplPoints, NoWork
  <2>3. PatchInv'
    BY <1>12, LesserType DEF EndScan, At, Goto, Publish, PublishProgress, Leave, SetStage,
         ResetHistory, TInv, TypeOK, PatchInv, Status, Patch, Work, Stages, Points, Critical,
         Reporting, ImplPoints, NoWork
  <2>4. VerdictInv'
    BY <1>12, LesserType DEF EndScan, At, Goto, Publish, PublishProgress, Leave, SetStage,
         ResetHistory, TInv, TypeOK, VerdictInv, Status, Patch, Work, Stages, Points, Critical,
         Reporting, ImplPoints, NoWork
  <2>5. QED
    BY <2>1, <2>2, <2>3, <2>4 DEF TInv
<1>13. ASSUME NEW r \in Rescans, StopAfterScan(r) PROVE TInv'
  <2>1. TypeOK'
    BY <1>13, LesserType DEF StopAfterScan, At, Goto, Publish, PublishProgress, Leave, SetStage,
         ResetHistory, TInv, TypeOK, WorkInv, PatchInv, VerdictInv, Status, Patch, Work, Stages,
         Points, Critical, Reporting, ImplPoints, NoWork
  <2>2. WorkInv'
    BY <1>13, LesserType DEF StopAfterScan, At, Goto, Publish, PublishProgress, Leave, SetStage,
         ResetHistory, TInv, TypeOK, WorkInv, Status, Patch, Work, Stages, Points, Critical,
         Reporting, ImplPoints, NoWork
  <2>3. PatchInv'
    BY <1>13, LesserType DEF StopAfterScan, At, Goto, Publish, PublishProgress, Leave, SetStage,
         ResetHistory, TInv, TypeOK, PatchInv, Status, Patch, Work, Stages, Points, Critical,
         Reporting, ImplPoints, NoWork
  <2>4. VerdictInv'
    BY <1>13, LesserType DEF StopAfterScan, At, Goto, Publish, PublishProgress, Leave, SetStage,
         ResetHistory, TInv, TypeOK, VerdictInv, Status, Patch, Work, Stages, Points, Critical,
         Reporting, ImplPoints, NoWork
  <2>5. QED
    BY <2>1, <2>2, <2>3, <2>4 DEF TInv
<1>14. ASSUME NEW r \in Rescans, SubmitFirst(r) PROVE TInv'
  <2>1. TypeOK'
    BY <1>14, LesserType DEF SubmitFirst, At, Goto, Publish, PublishProgress, Leave, SetStage,
         ResetHistory, TInv, TypeOK, WorkInv, PatchInv, VerdictInv, Status, Patch, Work, Stages,
         Points, Critical, Reporting, ImplPoints, NoWork
  <2>2. WorkInv'
    BY <1>14, LesserType DEF SubmitFirst, At, Goto, Publish, PublishProgress, Leave, SetStage,
         ResetHistory, TInv, TypeOK, WorkInv, Status, Patch, Work, Stages, Points, Critical,
         Reporting, ImplPoints, NoWork
  <2>3. PatchInv'
    BY <1>14, LesserType DEF SubmitFirst, At, Goto, Publish, PublishProgress, Leave, SetStage,
         ResetHistory, TInv, TypeOK, PatchInv, Status, Patch, Work, Stages, Points, Critical,
         Reporting, ImplPoints, NoWork
  <2>4. VerdictInv'
    BY <1>14, LesserType DEF SubmitFirst, At, Goto, Publish, PublishProgress, Leave, SetStage,
         ResetHistory, TInv, TypeOK, VerdictInv, Status, Patch, Work, Stages, Points, Critical,
         Reporting, ImplPoints, NoWork
  <2>5. QED
    BY <2>1, <2>2, <2>3, <2>4 DEF TInv
<1>15. ASSUME NEW r \in Rescans, Collect(r) PROVE TInv'
  <2>1. TypeOK'
    <3>1. work' \in [Rescans -> Work]
      <4>1. CASE work[r].pending > 0 /\ ~cancelEvent
        BY <1>15, <4>1 DEF Collect, TInv, TypeOK, Work
      <4>2. CASE ~(work[r].pending > 0 /\ ~cancelEvent)
        BY <1>15, <4>2 DEF Collect, TInv, TypeOK, Work
      <4>3. QED
        BY <4>1, <4>2
    <3>2. patch' \in [Rescans -> Patch \cup {Free}]
      BY <1>15 DEF Collect, Publish, PublishProgress, TInv, TypeOK, Patch, Stages
    <3>3. pc' \in [Rescans -> Points]
      BY <1>15 DEF Collect, Goto, TInv, TypeOK, Points, Critical, Reporting, ImplPoints
    <3>4. QED
      BY <1>15, <3>1, <3>2, <3>3 DEF Collect, TInv, TypeOK
  <2>2. WorkInv'
    BY <1>15 DEF Collect, At, Goto, Publish, PublishProgress, Leave, SetStage, ResetHistory, TInv,
         TypeOK, WorkInv, Work, NoWork, Points, Critical, Reporting, ImplPoints
  <2>3. PatchInv'
    BY <1>15 DEF Collect, At, Goto, Publish, PublishProgress, Leave, SetStage, ResetHistory, TInv,
         TypeOK, PatchInv, Points, Critical, Reporting, ImplPoints
  <2>4. VerdictInv'
    BY <1>15 DEF Collect, Goto, Leave, ResetHistory, TInv, TypeOK, VerdictInv
  <2>5. QED
    BY <2>1, <2>2, <2>3, <2>4 DEF TInv
<1>16. ASSUME NEW r \in Rescans, KeepIndexing(r) PROVE TInv'
  <2>1. TypeOK'
    BY <1>16, KeepIndexingFacts DEF KeepIndexing, TInv, TypeOK
  <2>2. WorkInv'
    BY <1>16, KeepIndexingFacts DEF KeepIndexing, TInv, TypeOK, WorkInv, Work
  <2>3. PatchInv'
    BY <1>16, KeepIndexingFacts DEF TInv, PatchInv, ImplPoints
  <2>4. VerdictInv'
    BY <1>16, KeepIndexingFacts DEF KeepIndexing, TInv, VerdictInv
  <2>5. QED
    BY <2>1, <2>2, <2>3, <2>4 DEF TInv
<1>17. ASSUME NEW r \in Rescans, StopIndexing(r) PROVE TInv'
  <2>1. TypeOK'
    BY <1>17, StopIndexingFacts DEF StopIndexing, TInv, TypeOK
  <2>2. WorkInv'
    <3>1. SUFFICES ASSUME NEW q \in Rescans PROVE WorkInv!(q)'
      BY DEF WorkInv
    <3>2. CASE q = r
      <4>1. work[r] \in Work /\ work'[r] \in Work
        BY <1>17, StopIndexingFacts DEF TInv, TypeOK
      <4>2. QED
        BY <1>17, <3>2, <4>1, StopIndexingFacts DEF TInv, WorkInv, Work
    <3>3. CASE q # r
      BY <1>17, <3>3, StopIndexingFacts DEF TInv, WorkInv
    <3>4. QED
      BY <3>2, <3>3
  <2>3. PatchInv'
    BY <1>17, StopIndexingFacts DEF TInv, PatchInv, ImplPoints
  <2>4. VerdictInv'
    BY <1>17, StopIndexingFacts, ZenonT(30) DEF StopIndexing, TInv, VerdictInv
  <2>5. QED
    BY <2>1, <2>2, <2>3, <2>4 DEF TInv
<1>18. ASSUME NEW r \in Rescans, SkipIndexing(r) PROVE TInv'
  <2>1. TypeOK'
    BY <1>18 DEF SkipIndexing, At, Goto, Publish, PublishProgress, Leave, SetStage, ResetHistory,
         TInv, TypeOK, WorkInv, PatchInv, VerdictInv, Status, Patch, Work, Stages, NoWork, Points,
         Critical, Reporting, ImplPoints
  <2>2. WorkInv'
    BY <1>18 DEF SkipIndexing, At, Goto, Publish, PublishProgress, Leave, SetStage, ResetHistory,
         TInv, TypeOK, WorkInv, Work, NoWork, Points, Critical, Reporting, ImplPoints
  <2>3. PatchInv'
    BY <1>18 DEF SkipIndexing, At, Goto, Publish, PublishProgress, Leave, SetStage, ResetHistory,
         TInv, TypeOK, PatchInv, Points, Critical, Reporting, ImplPoints
  <2>4. VerdictInv'
    BY <1>18 DEF SkipIndexing, Goto, Leave, ResetHistory, TInv, TypeOK, VerdictInv
  <2>5. QED
    BY <2>1, <2>2, <2>3, <2>4 DEF TInv
<1>19. ASSUME NEW r \in Rescans, CloseImpl(r) PROVE TInv'
  <2>1. TypeOK'
    BY <1>19, LesserType DEF CloseImpl, At, Goto, Publish, PublishProgress, Leave, SetStage,
         ResetHistory, TInv, TypeOK, WorkInv, PatchInv, VerdictInv, Status, Patch, Work, Stages,
         Points, Critical, Reporting, ImplPoints, NoWork
  <2>2. WorkInv'
    BY <1>19, LesserType DEF CloseImpl, At, Goto, Publish, PublishProgress, Leave, SetStage,
         ResetHistory, TInv, TypeOK, WorkInv, Status, Patch, Work, Stages, Points, Critical,
         Reporting, ImplPoints, NoWork
  <2>3. PatchInv'
    BY <1>19, LesserType DEF CloseImpl, At, Goto, Publish, PublishProgress, Leave, SetStage,
         ResetHistory, TInv, TypeOK, PatchInv, Status, Patch, Work, Stages, Points, Critical,
         Reporting, ImplPoints, NoWork
  <2>4. VerdictInv'
    BY <1>19, LesserType DEF CloseImpl, At, Goto, Publish, PublishProgress, Leave, SetStage,
         ResetHistory, TInv, TypeOK, VerdictInv, Status, Patch, Work, Stages, Points, Critical,
         Reporting, ImplPoints, NoWork
  <2>5. QED
    BY <2>1, <2>2, <2>3, <2>4 DEF TInv
<1>30. ASSUME NEW r \in Rescans, EndSave(r) PROVE TInv'
  <2>1. TypeOK'
    BY <1>30, EndSaveFacts DEF EndSave, TInv, TypeOK
  <2>2. WorkInv'
    BY <1>30, EndSaveFacts DEF EndSave, TInv, TypeOK, WorkInv, Work
  <2>3. PatchInv'
    BY <1>30, EndSaveFacts DEF TInv, PatchInv, ImplPoints
  <2>4. VerdictInv'
    BY <1>30, EndSaveFacts DEF EndSave, TInv, VerdictInv
  <2>5. QED
    BY <2>1, <2>2, <2>3, <2>4 DEF TInv
<1>20. ASSUME NEW r \in Rescans, WorkerSeesCancel(r) PROVE TInv'
  <2>1. TypeOK'
    BY <1>20, LesserType DEF WorkerSeesCancel, At, Goto, Publish, PublishProgress, Leave,
         SetStage, ResetHistory, TInv, TypeOK, WorkInv, PatchInv, VerdictInv, Status, Patch, Work,
         Stages, Points, Critical, Reporting, ImplPoints, NoWork
  <2>2. WorkInv'
    BY <1>20, LesserType DEF WorkerSeesCancel, At, Goto, Publish, PublishProgress, Leave,
         SetStage, ResetHistory, TInv, TypeOK, WorkInv, Status, Patch, Work, Stages, Points,
         Critical, Reporting, ImplPoints, NoWork
  <2>3. PatchInv'
    BY <1>20, LesserType DEF WorkerSeesCancel, At, Goto, Publish, PublishProgress, Leave,
         SetStage, ResetHistory, TInv, TypeOK, PatchInv, Status, Patch, Work, Stages, Points,
         Critical, Reporting, ImplPoints, NoWork
  <2>4. VerdictInv'
    BY <1>20, LesserType DEF WorkerSeesCancel, At, Goto, Publish, PublishProgress, Leave,
         SetStage, ResetHistory, TInv, TypeOK, VerdictInv, Status, Patch, Work, Stages, Points,
         Critical, Reporting, ImplPoints, NoWork
  <2>5. QED
    BY <2>1, <2>2, <2>3, <2>4 DEF TInv
<1>21. ASSUME NEW r \in Rescans, Fail(r) PROVE TInv'
  <2>1. TypeOK'
    <3>1. status' \in Status
      BY <1>21 DEF Fail, SetStage, TInv, TypeOK, VerdictInv, Status, Patch, Stages
    <3>2. work' \in [Rescans -> Work]
      BY <1>21 DEF Fail, At, ResetHistory, TInv, TypeOK, WorkInv, Work, NoWork
    <3>3. pc' \in [Rescans -> Points]
      BY <1>21 DEF Fail, Goto, Leave, TInv, TypeOK, Points, Critical, Reporting, ImplPoints
    <3>4. patch' \in [Rescans -> Patch \cup {Free}]
      BY <1>21 DEF Fail, Publish, PublishProgress, TInv, TypeOK, Patch, Stages
    <3>5. QED
      BY <1>21, <3>1, <3>2, <3>3, <3>4 DEF Fail, ResetHistory, TInv, TypeOK
  <2>2. WorkInv'
    BY <1>21 DEF Fail, At, Goto, Publish, PublishProgress, Leave, SetStage, ResetHistory, TInv,
         TypeOK, WorkInv, Work, NoWork, Points, Critical, Reporting, ImplPoints
  <2>3. PatchInv'
    BY <1>21 DEF Fail, At, Goto, Publish, PublishProgress, Leave, SetStage, ResetHistory, TInv,
         TypeOK, PatchInv, Points, Critical, Reporting, ImplPoints
  <2>4. VerdictInv'
    BY <1>21 DEF Fail, Goto, Leave, ResetHistory, TInv, TypeOK, VerdictInv
  <2>5. QED
    BY <2>1, <2>2, <2>3, <2>4 DEF TInv
<1>22. ASSUME NEW r \in Rescans, Release(r) PROVE TInv'
  <2>1. TypeOK'
    BY <1>22, LesserType DEF Release, At, Goto, Publish, PublishProgress, Leave, SetStage,
         ResetHistory, TInv, TypeOK, WorkInv, PatchInv, VerdictInv, Status, Patch, Work, Stages,
         Points, Critical, Reporting, ImplPoints, NoWork
  <2>2. WorkInv'
    BY <1>22, LesserType DEF Release, At, Goto, Publish, PublishProgress, Leave, SetStage,
         ResetHistory, TInv, TypeOK, WorkInv, Status, Patch, Work, Stages, Points, Critical,
         Reporting, ImplPoints, NoWork
  <2>3. PatchInv'
    BY <1>22, LesserType DEF Release, At, Goto, Publish, PublishProgress, Leave, SetStage,
         ResetHistory, TInv, TypeOK, PatchInv, Status, Patch, Work, Stages, Points, Critical,
         Reporting, ImplPoints, NoWork
  <2>4. VerdictInv'
    BY <1>22, LesserType DEF Release, At, Goto, Publish, PublishProgress, Leave, SetStage,
         ResetHistory, TInv, TypeOK, VerdictInv, Status, Patch, Work, Stages, Points, Critical,
         Reporting, ImplPoints, NoWork
  <2>5. QED
    BY <2>1, <2>2, <2>3, <2>4 DEF TInv
<1>23. CASE UNCHANGED vars
  BY <1>23 DEF vars, TInv, TypeOK, WorkInv, PatchInv, VerdictInv, Status, Patch, Work, Stages,
       Points, Critical, Reporting, ImplPoints, NoWork
<1>24. QED
  BY <1>1, <1>2, <1>3, <1>4, <1>5, <1>6, <1>7, <1>8, <1>9, <1>10, <1>11, <1>12, <1>13, <1>14,
       <1>15, <1>16, <1>17, <1>18, <1>19, <1>20, <1>21, <1>22, <1>23, <1>30 DEF Next, JobSteps,
       Impl

\* Every variable has its type: the counters of folders and files stay within
\* MaxFolders however rescans, stops and failures interleave.
THEOREM TypeCorrect == Spec => []TypeOK
<1>1. Init => TInv
  BY InitTInv
<1>2. TInv /\ [Next]_vars => TInv'
  BY StepTInv
<1>3. TInv => TypeOK
  BY DEF TInv
<1>4. QED
  BY <1>1, <1>2, <1>3, PTL DEF Spec

LEMMA SpecTInv == Spec => []TInv
BY InitTInv, StepTInv, PTL DEF Spec

\* What StartScan does, case split done once.
LEMMA StartScanFacts ==
  ASSUME TInv, NEW r \in Rescans, StartScan(r)
  PROVE  /\ pc[r] = "begin"
         /\ pc'[r] \in (IF r \in Jobs THEN {"scan", "judge"} ELSE {"scan", "release"})
         /\ \A q \in Rescans \ {r} : pc'[q] = pc[q] /\ work'[q] = work[q]
         /\ work'[r].pending = 0 /\ work'[r].inFlight = 0
         /\ pc'[r] = "judge" => work'[r].folders = 0
         /\ status'.running = status.running
         /\ r \notin Jobs => status' = status
         /\ UNCHANGED <<executionLock, cancelEvent, patch, cut, asked, verdict>>
<1>1. PICK stage \in Stages, requested \in BOOLEAN : SetStage(r, stage, requested)
  BY DEF StartScan, TInv, TypeOK, Status, Stages
<1>2. status'.running = status.running /\ (r \notin Jobs => status' = status)
  BY <1>1 DEF SetStage, TInv, TypeOK, Status
<1>3. PICK n \in 0..MaxFolders :
        /\ work' = [work EXCEPT ![r].folders = n]
        /\ n # 0 => pc' = [pc EXCEPT ![r] = "scan"]
        /\ n = 0 => pc' = [pc EXCEPT ![r] = IF r \in Jobs THEN "judge" ELSE "release"]
  BY DEF StartScan, Leave, Goto
<1>4. pc[r] = "begin" /\ work[r] = NoWork
  BY DEF StartScan, At, TInv, WorkInv
<1>5. work'[r].folders = n /\ work'[r].pending = 0 /\ work'[r].inFlight = 0
  BY <1>3, <1>4 DEF TInv, TypeOK, Work, NoWork
<1>6. QED
  BY <1>2, <1>3, <1>4, <1>5 DEF StartScan, TInv, TypeOK

(***************************************************************************)
(* The lock, the status and the cause of a stop.  The lock is held by the  *)
(* rescan that is inside; the status names a job that is inside; the event *)
(* is set during a job only if that job was asked to stop, since starting  *)
(* a job clears it and a stop reaches only the job that runs.              *)
(***************************************************************************)
EventInv ==
  \A j \in Jobs : cancelEvent /\ pc[j] \in ImplPoints \cup {"judge"} => asked[j] # "no"

LInv == OneRescanAtATime /\ StatusTellsTheTruth
SInv == LInv /\ EventInv /\ StopOnlyOnRequest

LEMMA InitSInv == Init => SInv
BY RescansAssumption
   DEF Init, SInv, LInv, OneRescanAtATime, StatusTellsTheTruth, EventInv, StopOnlyOnRequest,
       Critical, Reporting, ImplPoints

LEMMA StepLInv == TInv /\ LInv /\ [Next]_vars => LInv'
<1> SUFFICES ASSUME TInv, LInv, [Next]_vars PROVE LInv'
  OBVIOUS
<1> USE RescansAssumption
<1>1. ASSUME RequestCancel PROVE LInv'
  BY <1>1 DEF RequestCancel, At, Goto, SetStage, Leave, TInv, TypeOK, LInv, OneRescanAtATime,
       StatusTellsTheTruth, Points, Critical, Reporting, ImplPoints, Status
<1>2. ASSUME NEW r \in Syncs, RescanLibrary(r) PROVE LInv'
  BY <1>2 DEF RescanLibrary, At, Goto, SetStage, Leave, TInv, TypeOK, LInv, OneRescanAtATime,
       StatusTellsTheTruth, Points, Critical, Reporting, ImplPoints, Status
<1>3. ASSUME NEW r \in Jobs, BeginOrCurrent(r) PROVE LInv'
  BY <1>3 DEF BeginOrCurrent, At, Goto, SetStage, Leave, TInv, TypeOK, LInv, OneRescanAtATime,
       StatusTellsTheTruth, Points, Critical, Reporting, ImplPoints, Status
<1>4. ASSUME NEW r \in Jobs, Update(r) PROVE LInv'
  BY <1>4 DEF Update, At, Goto, SetStage, Leave, TInv, TypeOK, LInv, OneRescanAtATime,
       StatusTellsTheTruth, Points, Critical, Reporting, ImplPoints, Status
<1>5. ASSUME NEW r \in Jobs, Judge(r) PROVE LInv'
  BY <1>5 DEF Judge, At, Goto, SetStage, Leave, TInv, TypeOK, LInv, OneRescanAtATime,
       StatusTellsTheTruth, Points, Critical, Reporting, ImplPoints, Status
<1>6. ASSUME NEW r \in Jobs, Report(r) PROVE LInv'
  BY <1>6 DEF Report, At, Goto, SetStage, Leave, TInv, TypeOK, LInv, OneRescanAtATime,
       StatusTellsTheTruth, Points, Critical, Reporting, ImplPoints, Status
<1>7. ASSUME NEW r \in Jobs, ReportFailure(r) PROVE LInv'
  BY <1>7 DEF ReportFailure, At, Goto, SetStage, Leave, TInv, TypeOK, LInv, OneRescanAtATime,
       StatusTellsTheTruth, Points, Critical, Reporting, ImplPoints, Status
<1>8. ASSUME NEW r \in Jobs, ClearCancelEvent(r) PROVE LInv'
  BY <1>8 DEF ClearCancelEvent, At, Goto, SetStage, Leave, TInv, TypeOK, LInv, OneRescanAtATime,
       StatusTellsTheTruth, Points, Critical, Reporting, ImplPoints, Status
<1>9. ASSUME NEW r \in Rescans, StartScan(r) PROVE LInv'
  BY <1>9, StartScanFacts DEF LInv, OneRescanAtATime, StatusTellsTheTruth, Critical, Reporting,
       ImplPoints
<1>10. ASSUME NEW r \in Rescans, EnterFolder(r) PROVE LInv'
  BY <1>10 DEF EnterFolder, At, Goto, SetStage, Leave, TInv, TypeOK, LInv, OneRescanAtATime,
       StatusTellsTheTruth, Points, Critical, Reporting, ImplPoints, Status
<1>11. ASSUME NEW r \in Rescans, WalkFolder(r) PROVE LInv'
  BY <1>11 DEF WalkFolder, At, Goto, SetStage, Leave, TInv, TypeOK, LInv, OneRescanAtATime,
       StatusTellsTheTruth, Points, Critical, Reporting, ImplPoints, Status
<1>12. ASSUME NEW r \in Rescans, EndScan(r) PROVE LInv'
  BY <1>12 DEF EndScan, At, Goto, SetStage, Leave, TInv, TypeOK, LInv, OneRescanAtATime,
       StatusTellsTheTruth, Points, Critical, Reporting, ImplPoints, Status
<1>13. ASSUME NEW r \in Rescans, StopAfterScan(r) PROVE LInv'
  BY <1>13 DEF StopAfterScan, At, Goto, SetStage, Leave, TInv, TypeOK, LInv, OneRescanAtATime,
       StatusTellsTheTruth, Points, Critical, Reporting, ImplPoints, Status
<1>14. ASSUME NEW r \in Rescans, SubmitFirst(r) PROVE LInv'
  BY <1>14 DEF SubmitFirst, At, Goto, SetStage, Leave, TInv, TypeOK, LInv, OneRescanAtATime,
       StatusTellsTheTruth, Points, Critical, Reporting, ImplPoints, Status
<1>15. ASSUME NEW r \in Rescans, Collect(r) PROVE LInv'
  BY <1>15 DEF Collect, At, Goto, SetStage, Leave, TInv, TypeOK, LInv, OneRescanAtATime,
       StatusTellsTheTruth, Points, Critical, Reporting, ImplPoints, Status
<1>16. ASSUME NEW r \in Rescans, KeepIndexing(r) PROVE LInv'
  BY <1>16 DEF KeepIndexing, FinishIndexing, At, Goto, SetStage, Leave, TInv, TypeOK, LInv,
       OneRescanAtATime, StatusTellsTheTruth, Points, Critical, Reporting, ImplPoints, Status
<1>17. ASSUME NEW r \in Rescans, StopIndexing(r) PROVE LInv'
  BY <1>17, StopIndexingFacts DEF TInv, LInv, OneRescanAtATime, StatusTellsTheTruth, Critical,
       Reporting, ImplPoints
<1>18. ASSUME NEW r \in Rescans, SkipIndexing(r) PROVE LInv'
  BY <1>18 DEF SkipIndexing, At, Goto, SetStage, Leave, TInv, TypeOK, LInv, OneRescanAtATime,
       StatusTellsTheTruth, Points, Critical, Reporting, ImplPoints, Status
<1>19. ASSUME NEW r \in Rescans, CloseImpl(r) PROVE LInv'
  BY <1>19 DEF CloseImpl, At, Goto, SetStage, Leave, TInv, TypeOK, LInv, OneRescanAtATime,
       StatusTellsTheTruth, Points, Critical, Reporting, ImplPoints, Status
<1>30. ASSUME NEW r \in Rescans, EndSave(r) PROVE LInv'
  BY <1>30 DEF EndSave, At, Goto, SetStage, Leave, TInv, TypeOK, LInv, OneRescanAtATime,
       StatusTellsTheTruth, Points, Critical, Reporting, ImplPoints, Status
<1>20. ASSUME NEW r \in Rescans, WorkerSeesCancel(r) PROVE LInv'
  BY <1>20 DEF WorkerSeesCancel, At, Goto, SetStage, Leave, TInv, TypeOK, LInv, OneRescanAtATime,
       StatusTellsTheTruth, Points, Critical, Reporting, ImplPoints, Status
<1>21. ASSUME NEW r \in Rescans, Fail(r) PROVE LInv'
  BY <1>21 DEF Fail, At, Goto, SetStage, Leave, TInv, TypeOK, LInv, OneRescanAtATime,
       StatusTellsTheTruth, Points, Critical, Reporting, ImplPoints, Status
<1>22. ASSUME NEW r \in Rescans, Release(r) PROVE LInv'
  BY <1>22 DEF Release, At, Goto, SetStage, Leave, TInv, TypeOK, LInv, OneRescanAtATime,
       StatusTellsTheTruth, Points, Critical, Reporting, ImplPoints, Status
<1>23. CASE UNCHANGED vars
  BY <1>23 DEF vars, At, Goto, SetStage, Leave, TInv, TypeOK, LInv, OneRescanAtATime,
       StatusTellsTheTruth, Points, Critical, Reporting, ImplPoints, Status
<1>24. QED
  BY <1>1, <1>2, <1>3, <1>4, <1>5, <1>6, <1>7, <1>8, <1>9, <1>10, <1>11, <1>12, <1>13, <1>14,
       <1>15, <1>16, <1>17, <1>18, <1>19, <1>20, <1>21, <1>22, <1>23, <1>30 DEF Next, JobSteps,
       Impl

LEMMA StepSInv == TInv /\ SInv /\ [Next]_vars => SInv'
<1> SUFFICES ASSUME TInv, SInv, [Next]_vars PROVE EventInv' /\ StopOnlyOnRequest'
  BY StepLInv DEF SInv
<1> USE RescansAssumption
<1> DEFINE Goal == EventInv /\ StopOnlyOnRequest
<1>1. ASSUME RequestCancel PROVE Goal'
  BY <1>1 DEF RequestCancel, At, Goto, SetStage, Leave, ResetHistory, TInv, TypeOK, WorkInv, SInv,
       EventInv, StopOnlyOnRequest, LInv, OneRescanAtATime, StatusTellsTheTruth, Points, Critical,
       Reporting, ImplPoints, Status, Work, NoWork
<1>2. ASSUME NEW r \in Syncs, RescanLibrary(r) PROVE Goal'
  BY <1>2 DEF RescanLibrary, At, Goto, SetStage, Leave, ResetHistory, TInv, TypeOK, WorkInv, SInv,
       EventInv, StopOnlyOnRequest, LInv, OneRescanAtATime, StatusTellsTheTruth, Points, Critical,
       Reporting, ImplPoints, Status, Work, NoWork
<1>3. ASSUME NEW r \in Jobs, BeginOrCurrent(r) PROVE Goal'
  BY <1>3 DEF BeginOrCurrent, At, Goto, SetStage, Leave, ResetHistory, TInv, TypeOK, WorkInv,
       SInv, EventInv, StopOnlyOnRequest, LInv, OneRescanAtATime, StatusTellsTheTruth, Points,
       Critical, Reporting, ImplPoints, Status, Work, NoWork
<1>4. ASSUME NEW r \in Jobs, Update(r) PROVE Goal'
  BY <1>4 DEF Update, At, Goto, SetStage, Leave, ResetHistory, TInv, TypeOK, WorkInv, SInv,
       EventInv, StopOnlyOnRequest, LInv, OneRescanAtATime, StatusTellsTheTruth, Points, Critical,
       Reporting, ImplPoints, Status, Work, NoWork
<1>5. ASSUME NEW r \in Jobs, Judge(r) PROVE Goal'
  BY <1>5 DEF Judge, At, Goto, SetStage, Leave, ResetHistory, TInv, TypeOK, WorkInv, SInv,
       EventInv, StopOnlyOnRequest, LInv, OneRescanAtATime, StatusTellsTheTruth, Points, Critical,
       Reporting, ImplPoints, Status, Work, NoWork
<1>6. ASSUME NEW r \in Jobs, Report(r) PROVE Goal'
  BY <1>6 DEF Report, At, Goto, SetStage, Leave, ResetHistory, TInv, TypeOK, WorkInv, SInv,
       EventInv, StopOnlyOnRequest, LInv, OneRescanAtATime, StatusTellsTheTruth, Points, Critical,
       Reporting, ImplPoints, Status, Work, NoWork
<1>7. ASSUME NEW r \in Jobs, ReportFailure(r) PROVE Goal'
  BY <1>7 DEF ReportFailure, At, Goto, SetStage, Leave, ResetHistory, TInv, TypeOK, WorkInv, SInv,
       EventInv, StopOnlyOnRequest, LInv, OneRescanAtATime, StatusTellsTheTruth, Points, Critical,
       Reporting, ImplPoints, Status, Work, NoWork
<1>8. ASSUME NEW r \in Jobs, ClearCancelEvent(r) PROVE Goal'
  BY <1>8 DEF ClearCancelEvent, At, Goto, SetStage, Leave, ResetHistory, TInv, TypeOK, WorkInv,
       SInv, EventInv, StopOnlyOnRequest, LInv, OneRescanAtATime, StatusTellsTheTruth, Points,
       Critical, Reporting, ImplPoints, Status, Work, NoWork
<1>9. ASSUME NEW r \in Rescans, StartScan(r) PROVE Goal'
  BY <1>9 DEF StartScan, At, Goto, SetStage, Leave, ResetHistory, TInv, TypeOK, WorkInv, SInv,
       EventInv, StopOnlyOnRequest, LInv, OneRescanAtATime, StatusTellsTheTruth, Points, Critical,
       Reporting, ImplPoints, Status, Work, NoWork
<1>10. ASSUME NEW r \in Rescans, EnterFolder(r) PROVE Goal'
  BY <1>10 DEF EnterFolder, At, Goto, SetStage, Leave, ResetHistory, TInv, TypeOK, WorkInv, SInv,
       EventInv, StopOnlyOnRequest, LInv, OneRescanAtATime, StatusTellsTheTruth, Points, Critical,
       Reporting, ImplPoints, Status, Work, NoWork
<1>11. ASSUME NEW r \in Rescans, WalkFolder(r) PROVE Goal'
  BY <1>11 DEF WalkFolder, At, Goto, SetStage, Leave, ResetHistory, TInv, TypeOK, WorkInv, SInv,
       EventInv, StopOnlyOnRequest, LInv, OneRescanAtATime, StatusTellsTheTruth, Points, Critical,
       Reporting, ImplPoints, Status, Work, NoWork
<1>12. ASSUME NEW r \in Rescans, EndScan(r) PROVE Goal'
  BY <1>12 DEF EndScan, At, Goto, SetStage, Leave, ResetHistory, TInv, TypeOK, WorkInv, SInv,
       EventInv, StopOnlyOnRequest, LInv, OneRescanAtATime, StatusTellsTheTruth, Points, Critical,
       Reporting, ImplPoints, Status, Work, NoWork
<1>13. ASSUME NEW r \in Rescans, StopAfterScan(r) PROVE Goal'
  BY <1>13 DEF StopAfterScan, At, Goto, SetStage, Leave, ResetHistory, TInv, TypeOK, WorkInv,
       SInv, EventInv, StopOnlyOnRequest, LInv, OneRescanAtATime, StatusTellsTheTruth, Points,
       Critical, Reporting, ImplPoints, Status, Work, NoWork
<1>14. ASSUME NEW r \in Rescans, SubmitFirst(r) PROVE Goal'
  BY <1>14 DEF SubmitFirst, At, Goto, SetStage, Leave, ResetHistory, TInv, TypeOK, WorkInv, SInv,
       EventInv, StopOnlyOnRequest, LInv, OneRescanAtATime, StatusTellsTheTruth, Points, Critical,
       Reporting, ImplPoints, Status, Work, NoWork
<1>15. ASSUME NEW r \in Rescans, Collect(r) PROVE Goal'
  BY <1>15 DEF Collect, At, Goto, SetStage, Leave, ResetHistory, TInv, TypeOK, WorkInv, SInv,
       EventInv, StopOnlyOnRequest, LInv, OneRescanAtATime, StatusTellsTheTruth, Points, Critical,
       Reporting, ImplPoints, Status, Work, NoWork
<1>16. ASSUME NEW r \in Rescans, KeepIndexing(r) PROVE Goal'
  BY <1>16 DEF KeepIndexing, FinishIndexing, At, Goto, SetStage, Leave, ResetHistory, TInv,
       TypeOK, WorkInv, SInv, EventInv, StopOnlyOnRequest, LInv, OneRescanAtATime,
       StatusTellsTheTruth, Points, Critical, Reporting, ImplPoints, Status, Work, NoWork
<1>17. ASSUME NEW r \in Rescans, StopIndexing(r) PROVE Goal'
  BY <1>17, StopIndexingFacts DEF TInv, SInv, EventInv, StopOnlyOnRequest, Critical, Reporting,
       ImplPoints
<1>18. ASSUME NEW r \in Rescans, SkipIndexing(r) PROVE Goal'
  BY <1>18 DEF SkipIndexing, At, Goto, SetStage, Leave, ResetHistory, TInv, TypeOK, WorkInv, SInv,
       EventInv, StopOnlyOnRequest, LInv, OneRescanAtATime, StatusTellsTheTruth, Points, Critical,
       Reporting, ImplPoints, Status, Work, NoWork
<1>19. ASSUME NEW r \in Rescans, CloseImpl(r) PROVE Goal'
  BY <1>19 DEF CloseImpl, At, Goto, SetStage, Leave, ResetHistory, TInv, TypeOK, WorkInv, SInv,
       EventInv, StopOnlyOnRequest, LInv, OneRescanAtATime, StatusTellsTheTruth, Points, Critical,
       Reporting, ImplPoints, Status, Work, NoWork
<1>30. ASSUME NEW r \in Rescans, EndSave(r) PROVE Goal'
  BY <1>30 DEF EndSave, At, Goto, SetStage, Leave, ResetHistory, TInv, TypeOK, WorkInv, SInv,
       EventInv, StopOnlyOnRequest, LInv, OneRescanAtATime, StatusTellsTheTruth, Points, Critical,
       Reporting, ImplPoints, Status, Work, NoWork
<1>20. ASSUME NEW r \in Rescans, WorkerSeesCancel(r) PROVE Goal'
  BY <1>20 DEF WorkerSeesCancel, At, Goto, SetStage, Leave, ResetHistory, TInv, TypeOK, WorkInv,
       SInv, EventInv, StopOnlyOnRequest, LInv, OneRescanAtATime, StatusTellsTheTruth, Points,
       Critical, Reporting, ImplPoints, Status, Work, NoWork
<1>21. ASSUME NEW r \in Rescans, Fail(r) PROVE Goal'
  BY <1>21 DEF Fail, At, Goto, SetStage, Leave, ResetHistory, TInv, TypeOK, WorkInv, SInv,
       EventInv, StopOnlyOnRequest, LInv, OneRescanAtATime, StatusTellsTheTruth, Points, Critical,
       Reporting, ImplPoints, Status, Work, NoWork
<1>22. ASSUME NEW r \in Rescans, Release(r) PROVE Goal'
  BY <1>22 DEF Release, At, Goto, SetStage, Leave, ResetHistory, TInv, TypeOK, WorkInv, SInv,
       EventInv, StopOnlyOnRequest, LInv, OneRescanAtATime, StatusTellsTheTruth, Points, Critical,
       Reporting, ImplPoints, Status, Work, NoWork
<1>23. CASE UNCHANGED vars
  BY <1>23 DEF vars, At, Goto, SetStage, Leave, ResetHistory, TInv, TypeOK, WorkInv, SInv,
       EventInv, StopOnlyOnRequest, LInv, OneRescanAtATime, StatusTellsTheTruth, Points, Critical,
       Reporting, ImplPoints, Status, Work, NoWork
<1>24. QED
  BY <1>1, <1>2, <1>3, <1>4, <1>5, <1>6, <1>7, <1>8, <1>9, <1>10, <1>11, <1>12, <1>13, <1>14,
       <1>15, <1>16, <1>17, <1>18, <1>19, <1>20, <1>21, <1>22, <1>23, <1>30 DEF Next, JobSteps,
       Impl

LEMMA SpecSInv == Spec => []SInv
BY InitSInv, StepSInv, SpecTInv, PTL DEF Spec

\* Two rescans never run at once, whatever the number of callers.
THEOREM MutualExclusion == Spec => []OneRescanAtATime
<1>1. SInv => OneRescanAtATime
  BY DEF SInv, LInv
<1>2. QED
  BY <1>1, SpecSInv, PTL

\* The status says "running" exactly while a job has yet to report its end.
THEOREM StatusTruth == Spec => []StatusTellsTheTruth
<1>1. SInv => StatusTellsTheTruth
  BY DEF SInv, LInv
<1>2. QED
  BY <1>1, SpecSInv, PTL

\* No job is stopped by the event that an earlier rescan left set.
THEOREM NoSpuriousStop == Spec => []StopOnlyOnRequest
<1>1. TInv /\ SInv /\ [Next]_vars => SInv'
  BY StepSInv
<1>2. SInv => StopOnlyOnRequest
  BY DEF SInv
<1>3. QED
  BY <1>1, <1>2, InitSInv, SpecTInv, PTL DEF Spec

(***************************************************************************)
(* A stop that was accepted is honoured when no job starts before the      *)
(* thread of the last one has ended: with one job, the only clear that     *)
(* comes after the thread of a job has begun is its own, after its report. *)
(***************************************************************************)
OneJob == \A a, b \in Jobs : a = b

StopInv ==
  \A j \in Jobs :
    /\ pc[j] \in ImplPoints \cup {"judge"} =>
         /\ verdict[j] = "none"
         /\ asked[j] # "late"
         /\ asked[j] = "yes" => cancelEvent
    /\ pc[j] = "failed" => verdict[j] = "failed"
    /\ verdict[j] = "cancelled" => asked[j] = "yes"

HInv == StopInv /\ CancelHonoured

LEMMA InitHInv == Init => HInv
BY DEF Init, HInv, StopInv, CancelHonoured, ImplPoints

LEMMA StepHInv == OneJob /\ TInv /\ SInv /\ HInv /\ [Next]_vars => HInv'
<1> SUFFICES ASSUME OneJob, TInv, SInv, HInv, [Next]_vars PROVE HInv'
  OBVIOUS
<1> USE RescansAssumption
<1>1. ASSUME RequestCancel PROVE HInv'
  BY <1>1 DEF RequestCancel, At, Goto, Leave, ResetHistory, OneJob, HInv, StopInv, CancelHonoured,
       TInv, TypeOK, SInv, LInv, OneRescanAtATime, StatusTellsTheTruth, EventInv, Points,
       Critical, Reporting, ImplPoints
<1>2. ASSUME NEW r \in Syncs, RescanLibrary(r) PROVE HInv'
  BY <1>2 DEF RescanLibrary, At, Goto, Leave, ResetHistory, OneJob, HInv, StopInv, CancelHonoured,
       TInv, TypeOK, SInv, LInv, OneRescanAtATime, StatusTellsTheTruth, EventInv, Points,
       Critical, Reporting, ImplPoints
<1>3. ASSUME NEW r \in Jobs, BeginOrCurrent(r) PROVE HInv'
  BY <1>3 DEF BeginOrCurrent, At, Goto, Leave, ResetHistory, OneJob, HInv, StopInv,
       CancelHonoured, TInv, TypeOK, SInv, LInv, OneRescanAtATime, StatusTellsTheTruth, EventInv,
       Points, Critical, Reporting, ImplPoints
<1>4. ASSUME NEW r \in Jobs, Update(r) PROVE HInv'
  BY <1>4 DEF Update, At, Goto, Leave, ResetHistory, OneJob, HInv, StopInv, CancelHonoured, TInv,
       TypeOK, SInv, LInv, OneRescanAtATime, StatusTellsTheTruth, EventInv, Points, Critical,
       Reporting, ImplPoints
<1>5. ASSUME NEW r \in Jobs, Judge(r) PROVE HInv'
  BY <1>5 DEF Judge, At, Goto, Leave, ResetHistory, OneJob, HInv, StopInv, CancelHonoured, TInv,
       TypeOK, SInv, LInv, OneRescanAtATime, StatusTellsTheTruth, EventInv, Points, Critical,
       Reporting, ImplPoints
<1>6. ASSUME NEW r \in Jobs, Report(r) PROVE HInv'
  BY <1>6 DEF Report, At, Goto, Leave, ResetHistory, OneJob, HInv, StopInv, CancelHonoured, TInv,
       TypeOK, SInv, LInv, OneRescanAtATime, StatusTellsTheTruth, EventInv, Points, Critical,
       Reporting, ImplPoints
<1>7. ASSUME NEW r \in Jobs, ReportFailure(r) PROVE HInv'
  BY <1>7 DEF ReportFailure, At, Goto, Leave, ResetHistory, OneJob, HInv, StopInv, CancelHonoured,
       TInv, TypeOK, SInv, LInv, OneRescanAtATime, StatusTellsTheTruth, EventInv, Points,
       Critical, Reporting, ImplPoints
<1>8. ASSUME NEW r \in Jobs, ClearCancelEvent(r) PROVE HInv'
  BY <1>8 DEF ClearCancelEvent, At, Goto, Leave, ResetHistory, OneJob, HInv, StopInv,
       CancelHonoured, TInv, TypeOK, SInv, LInv, OneRescanAtATime, StatusTellsTheTruth, EventInv,
       Points, Critical, Reporting, ImplPoints
<1>9. ASSUME NEW r \in Rescans, StartScan(r) PROVE HInv'
  BY <1>9, StartScanFacts DEF HInv, StopInv, CancelHonoured, ImplPoints
<1>10. ASSUME NEW r \in Rescans, EnterFolder(r) PROVE HInv'
  BY <1>10 DEF EnterFolder, At, Goto, Leave, ResetHistory, OneJob, HInv, StopInv, CancelHonoured,
       TInv, TypeOK, SInv, LInv, OneRescanAtATime, StatusTellsTheTruth, EventInv, Points,
       Critical, Reporting, ImplPoints
<1>11. ASSUME NEW r \in Rescans, WalkFolder(r) PROVE HInv'
  BY <1>11 DEF WalkFolder, At, Goto, Leave, ResetHistory, OneJob, HInv, StopInv, CancelHonoured,
       TInv, TypeOK, SInv, LInv, OneRescanAtATime, StatusTellsTheTruth, EventInv, Points,
       Critical, Reporting, ImplPoints
<1>12. ASSUME NEW r \in Rescans, EndScan(r) PROVE HInv'
  BY <1>12 DEF EndScan, At, Goto, Leave, ResetHistory, OneJob, HInv, StopInv, CancelHonoured,
       TInv, TypeOK, SInv, LInv, OneRescanAtATime, StatusTellsTheTruth, EventInv, Points,
       Critical, Reporting, ImplPoints
<1>13. ASSUME NEW r \in Rescans, StopAfterScan(r) PROVE HInv'
  BY <1>13 DEF StopAfterScan, At, Goto, Leave, ResetHistory, OneJob, HInv, StopInv,
       CancelHonoured, TInv, TypeOK, SInv, LInv, OneRescanAtATime, StatusTellsTheTruth, EventInv,
       Points, Critical, Reporting, ImplPoints
<1>14. ASSUME NEW r \in Rescans, SubmitFirst(r) PROVE HInv'
  BY <1>14 DEF SubmitFirst, At, Goto, Leave, ResetHistory, OneJob, HInv, StopInv, CancelHonoured,
       TInv, TypeOK, SInv, LInv, OneRescanAtATime, StatusTellsTheTruth, EventInv, Points,
       Critical, Reporting, ImplPoints
<1>15. ASSUME NEW r \in Rescans, Collect(r) PROVE HInv'
  BY <1>15 DEF Collect, At, Goto, Leave, ResetHistory, OneJob, HInv, StopInv, CancelHonoured,
       TInv, TypeOK, SInv, LInv, OneRescanAtATime, StatusTellsTheTruth, EventInv, Points,
       Critical, Reporting, ImplPoints
<1>16. ASSUME NEW r \in Rescans, KeepIndexing(r) PROVE HInv'
  BY <1>16 DEF KeepIndexing, FinishIndexing, At, Goto, Leave, ResetHistory, OneJob, HInv, StopInv,
       CancelHonoured, TInv, TypeOK, SInv, LInv, OneRescanAtATime, StatusTellsTheTruth, EventInv,
       Points, Critical, Reporting, ImplPoints
<1>17. ASSUME NEW r \in Rescans, StopIndexing(r) PROVE HInv'
  BY <1>17, StopIndexingFacts DEF TInv, HInv, StopInv, CancelHonoured, Critical, Reporting,
       ImplPoints
<1>18. ASSUME NEW r \in Rescans, SkipIndexing(r) PROVE HInv'
  BY <1>18 DEF SkipIndexing, At, Goto, Leave, ResetHistory, OneJob, HInv, StopInv, CancelHonoured,
       TInv, TypeOK, SInv, LInv, OneRescanAtATime, StatusTellsTheTruth, EventInv, Points,
       Critical, Reporting, ImplPoints
<1>19. ASSUME NEW r \in Rescans, CloseImpl(r) PROVE HInv'
  BY <1>19 DEF CloseImpl, At, Goto, Leave, ResetHistory, OneJob, HInv, StopInv, CancelHonoured,
       TInv, TypeOK, SInv, LInv, OneRescanAtATime, StatusTellsTheTruth, EventInv, Points,
       Critical, Reporting, ImplPoints
<1>30. ASSUME NEW r \in Rescans, EndSave(r) PROVE HInv'
  BY <1>30 DEF EndSave, At, Goto, Leave, ResetHistory, OneJob, HInv, StopInv, CancelHonoured,
       TInv, TypeOK, SInv, LInv, OneRescanAtATime, StatusTellsTheTruth, EventInv, Points,
       Critical, Reporting, ImplPoints
<1>20. ASSUME NEW r \in Rescans, WorkerSeesCancel(r) PROVE HInv'
  BY <1>20 DEF WorkerSeesCancel, At, Goto, Leave, ResetHistory, OneJob, HInv, StopInv,
       CancelHonoured, TInv, TypeOK, SInv, LInv, OneRescanAtATime, StatusTellsTheTruth, EventInv,
       Points, Critical, Reporting, ImplPoints
<1>21. ASSUME NEW r \in Rescans, Fail(r) PROVE HInv'
  BY <1>21 DEF Fail, At, Goto, Leave, ResetHistory, OneJob, HInv, StopInv, CancelHonoured, TInv,
       TypeOK, SInv, LInv, OneRescanAtATime, StatusTellsTheTruth, EventInv, Points, Critical,
       Reporting, ImplPoints
<1>22. ASSUME NEW r \in Rescans, Release(r) PROVE HInv'
  BY <1>22 DEF Release, At, Goto, Leave, ResetHistory, OneJob, HInv, StopInv, CancelHonoured,
       TInv, TypeOK, SInv, LInv, OneRescanAtATime, StatusTellsTheTruth, EventInv, Points,
       Critical, Reporting, ImplPoints
<1>23. CASE UNCHANGED vars
  BY <1>23 DEF vars, At, Goto, Leave, ResetHistory, OneJob, HInv, StopInv, CancelHonoured, TInv,
       TypeOK, SInv, LInv, OneRescanAtATime, StatusTellsTheTruth, EventInv, Points, Critical,
       Reporting, ImplPoints
<1>24. QED
  BY <1>1, <1>2, <1>3, <1>4, <1>5, <1>6, <1>7, <1>8, <1>9, <1>10, <1>11, <1>12, <1>13, <1>14,
       <1>15, <1>16, <1>17, <1>18, <1>19, <1>20, <1>21, <1>22, <1>23, <1>30 DEF Next, JobSteps,
       Impl

LEMMA SpecHInv == ASSUME OneJob PROVE Spec => []HInv
<1>1. TInv /\ SInv /\ HInv /\ [Next]_vars => HInv'
  BY OneJob, StepHInv
<1>2. QED
  BY <1>1, InitHInv, SpecTInv, SpecSInv, PTL DEF Spec

\* A stop accepted before the job read the event for its report is never
\* forgotten, when job threads do not overlap.
THEOREM StopIsHonoured == ASSUME OneJob PROVE Spec => []CancelHonoured
<1>1. HInv => CancelHonoured
  BY DEF HInv
<1>2. QED
  BY <1>1, SpecHInv, PTL

(***************************************************************************)
(* A job that ends "completed" left nothing out.  Whatever a job skips it  *)
(* skips because the event is set, and the event stays set until the job   *)
(* has judged.                                                             *)
(***************************************************************************)
SkipInv ==
  \A j \in Jobs :
    /\ pc[j] \in ImplPoints \cup {"judge"} /\ cut[j] => cancelEvent
    /\ pc[j] \in {"discovered", "index", "check", "save", "saveLast", "close", "judge"}
         /\ ~cancelEvent =>
         work[j].folders = 0
    /\ pc[j] \in {"index", "check", "save"} /\ ~cancelEvent =>
         work[j].pending = 0 \/ work[j].inFlight > 0
    /\ pc[j] \in {"saveLast", "close", "judge"} /\ ~cancelEvent => work[j].pending = 0

CInv == SkipInv /\ CompletedMeansAll

LEMMA InitCInv == Init => CInv
BY DEF Init, CInv, SkipInv, CompletedMeansAll, ImplPoints

LEMMA StepCInv == OneJob /\ TInv /\ SInv /\ HInv /\ CInv /\ [Next]_vars => CInv'
<1> SUFFICES ASSUME OneJob, TInv, SInv, HInv, CInv, [Next]_vars PROVE CInv'
  OBVIOUS
<1> USE RescansAssumption, BoundsAssumption, LesserType
<1>1. ASSUME RequestCancel PROVE CInv'
  BY <1>1 DEF RequestCancel, At, Goto, Leave, ResetHistory, OneJob, HInv, StopInv, CInv, SkipInv,
       CompletedMeansAll, TInv, TypeOK, WorkInv, SInv, LInv, OneRescanAtATime,
       StatusTellsTheTruth, Work, NoWork, Points, Critical, Reporting, ImplPoints
<1>2. ASSUME NEW r \in Syncs, RescanLibrary(r) PROVE CInv'
  BY <1>2, ZenonT(30) DEF RescanLibrary, At, Goto, Leave, ResetHistory, OneJob, HInv, StopInv,
       CInv, SkipInv, CompletedMeansAll, TInv, TypeOK, WorkInv, SInv, LInv, OneRescanAtATime,
       StatusTellsTheTruth, Work, NoWork, Points, Critical, Reporting, ImplPoints
<1>3. ASSUME NEW r \in Jobs, BeginOrCurrent(r) PROVE CInv'
  BY <1>3, ZenonT(30) DEF BeginOrCurrent, At, Goto, Leave, ResetHistory, OneJob, HInv, StopInv,
       CInv, SkipInv, CompletedMeansAll, TInv, TypeOK, WorkInv, SInv, LInv, OneRescanAtATime,
       StatusTellsTheTruth, Work, NoWork, Points, Critical, Reporting, ImplPoints
<1>4. ASSUME NEW r \in Jobs, Update(r) PROVE CInv'
  BY <1>4 DEF Update, At, Goto, Leave, ResetHistory, OneJob, HInv, StopInv, CInv, SkipInv,
       CompletedMeansAll, TInv, TypeOK, WorkInv, SInv, LInv, OneRescanAtATime,
       StatusTellsTheTruth, Work, NoWork, Points, Critical, Reporting, ImplPoints
<1>5. ASSUME NEW r \in Jobs, Judge(r) PROVE CInv'
  <2>1. SkipInv'
    BY <1>5 DEF Judge, At, Goto, Leave, CInv, HInv, StopInv, SkipInv, CompletedMeansAll, TInv,
         TypeOK, WorkInv, Work, ImplPoints
  <2>2. CompletedMeansAll'
    <3>1. work[r].inFlight = 0 /\ pc[r] = "judge"
      <4>1. pc[r] = "judge" /\ ~(work[r].inFlight > 0)
        BY <1>5 DEF Judge, At, TInv, WorkInv
      <4>2. work[r] \in Work
        BY DEF TInv, TypeOK
      <4>3. QED
        BY <4>1, <4>2 DEF Work
    <3>2. ~cancelEvent => ~cut[r] /\ work[r].folders = 0 /\ work[r].pending = 0
      BY <3>1 DEF CInv, SkipInv
    <3>3. QED
      BY <1>5, <3>1, <3>2 DEF Judge, TInv, TypeOK, CInv, CompletedMeansAll
  <2>3. QED
    BY <2>1, <2>2 DEF CInv
<1>6. ASSUME NEW r \in Jobs, Report(r) PROVE CInv'
  BY <1>6 DEF Report, At, Goto, Leave, ResetHistory, OneJob, HInv, StopInv, CInv, SkipInv,
       CompletedMeansAll, TInv, TypeOK, WorkInv, SInv, LInv, OneRescanAtATime,
       StatusTellsTheTruth, Work, NoWork, Points, Critical, Reporting, ImplPoints
<1>7. ASSUME NEW r \in Jobs, ReportFailure(r) PROVE CInv'
  BY <1>7 DEF ReportFailure, At, Goto, Leave, ResetHistory, OneJob, HInv, StopInv, CInv, SkipInv,
       CompletedMeansAll, TInv, TypeOK, WorkInv, SInv, LInv, OneRescanAtATime,
       StatusTellsTheTruth, Work, NoWork, Points, Critical, Reporting, ImplPoints
<1>8. ASSUME NEW r \in Jobs, ClearCancelEvent(r) PROVE CInv'
  BY <1>8 DEF ClearCancelEvent, At, Goto, Leave, ResetHistory, OneJob, HInv, StopInv, CInv,
       SkipInv, CompletedMeansAll, TInv, TypeOK, WorkInv, SInv, LInv, OneRescanAtATime,
       StatusTellsTheTruth, Work, NoWork, Points, Critical, Reporting, ImplPoints
<1>9. ASSUME NEW r \in Rescans, StartScan(r) PROVE CInv'
  BY <1>9, StartScanFacts DEF CInv, SkipInv, CompletedMeansAll, ImplPoints, HInv, StopInv
<1>10. ASSUME NEW r \in Rescans, EnterFolder(r) PROVE CInv'
  BY <1>10, ZenonT(30) DEF EnterFolder, At, Goto, Leave, ResetHistory, OneJob, HInv, StopInv,
       CInv, SkipInv, CompletedMeansAll, TInv, TypeOK, WorkInv, SInv, LInv, OneRescanAtATime,
       StatusTellsTheTruth, Work, NoWork, Points, Critical, Reporting, ImplPoints
<1>11. ASSUME NEW r \in Rescans, WalkFolder(r) PROVE CInv'
  <2>1. /\ pc[r] = "walk" /\ pc' = [pc EXCEPT ![r] = "scan"]
        /\ cut' = [cut EXCEPT ![r] = @ \/ cancelEvent]
        /\ UNCHANGED <<cancelEvent, verdict>>
    BY <1>11 DEF WalkFolder, At, Goto
  <2>2. \A q \in Rescans : q # r => work'[q] = work[q]
    BY <1>11 DEF WalkFolder, TInv, TypeOK
  <2>3. SkipInv'
    BY <2>1, <2>2 DEF CInv, SkipInv, TInv, TypeOK, ImplPoints
  <2>4. r \in Jobs => verdict[r] # "completed"
    <3>1. work[r].folders > 0
      BY <2>1 DEF TInv, WorkInv
    <3>2. QED
      BY <3>1 DEF CInv, CompletedMeansAll
  <2>5. CompletedMeansAll'
    BY <2>1, <2>2, <2>4 DEF CInv, CompletedMeansAll, TInv, TypeOK
  <2>6. QED
    BY <2>3, <2>5 DEF CInv
<1>12. ASSUME NEW r \in Rescans, EndScan(r) PROVE CInv'
  <2>1. SkipInv'
    <3>1. /\ pc' = [pc EXCEPT ![r] = "discovered"]
          /\ work[r].folders = 0 \/ cancelEvent
          /\ UNCHANGED <<work, cancelEvent>>
      BY <1>12 DEF EndScan, Goto
    <3>2. \A j \in Jobs : j # r => cut'[j] = cut[j] /\ pc'[j] = pc[j]
      BY <1>12, <3>1 DEF EndScan, TInv, TypeOK
    <3>3. cut'[r] => cut[r] \/ cancelEvent
      BY <1>12 DEF EndScan, TInv, TypeOK, Work
    <3>4. pc[r] = "scan" /\ pc'[r] = "discovered"
      BY <1>12, <3>1 DEF EndScan, At, TInv, TypeOK
    <3>5. QED
      BY <3>1, <3>2, <3>3, <3>4 DEF CInv, SkipInv, ImplPoints
  <2>2. CompletedMeansAll'
    BY <1>12 DEF EndScan, At, Goto, Leave, CInv, HInv, StopInv, SkipInv, CompletedMeansAll, TInv,
         TypeOK, WorkInv, Work, ImplPoints
  <2>3. QED
    BY <2>1, <2>2 DEF CInv
<1>13. ASSUME NEW r \in Rescans, StopAfterScan(r) PROVE CInv'
  BY <1>13 DEF StopAfterScan, At, Goto, Leave, ResetHistory, OneJob, HInv, StopInv, CInv, SkipInv,
       CompletedMeansAll, TInv, TypeOK, WorkInv, SInv, LInv, OneRescanAtATime,
       StatusTellsTheTruth, Work, NoWork, Points, Critical, Reporting, ImplPoints
<1>14. ASSUME NEW r \in Rescans, SubmitFirst(r) PROVE CInv'
  <2>1. SkipInv'
    BY <1>14 DEF SubmitFirst, At, Goto, Leave, CInv, HInv, StopInv, SkipInv, CompletedMeansAll,
         TInv, TypeOK, WorkInv, Work, ImplPoints
  <2>2. CompletedMeansAll'
    BY <1>14 DEF SubmitFirst, At, Goto, Leave, CInv, HInv, StopInv, SkipInv, CompletedMeansAll,
         TInv, TypeOK, WorkInv, Work, ImplPoints
  <2>3. QED
    BY <2>1, <2>2 DEF CInv
<1>15. ASSUME NEW r \in Rescans, Collect(r) PROVE CInv'
  BY <1>15 DEF Collect, At, Goto, Leave, ResetHistory, OneJob, HInv, StopInv, CInv, SkipInv,
       CompletedMeansAll, TInv, TypeOK, WorkInv, SInv, LInv, OneRescanAtATime,
       StatusTellsTheTruth, Work, NoWork, Points, Critical, Reporting, ImplPoints
<1>16. ASSUME NEW r \in Rescans, KeepIndexing(r) PROVE CInv'
  <2>1. r \in Jobs /\ ~(work[r].inFlight > 0) => work[r].pending = 0
    BY <1>16, KeepIndexingFacts DEF TInv, CInv, SkipInv
  <2>2. UNCHANGED <<work, cancelEvent, cut, verdict>>
    BY <1>16 DEF KeepIndexing
  <2>3. CInv'
    BY <1>16, <2>1, <2>2, KeepIndexingFacts DEF TInv, CInv, SkipInv, CompletedMeansAll, ImplPoints
  <2>4. QED
    BY <2>3
<1>17. ASSUME NEW r \in Rescans, StopIndexing(r) PROVE CInv'
  BY <1>17 DEF StopIndexing, FinishIndexing, At, Goto, Leave, ResetHistory, OneJob, HInv, StopInv,
       CInv, SkipInv, CompletedMeansAll, TInv, TypeOK, WorkInv, SInv, LInv, OneRescanAtATime,
       StatusTellsTheTruth, Work, NoWork, Points, Critical, Reporting, ImplPoints
<1>18. ASSUME NEW r \in Rescans, SkipIndexing(r) PROVE CInv'
  <2>1. SkipInv'
    <3>1. /\ pc[r] = "index" /\ ~(work[r].inFlight > 0)
          /\ pc' = [pc EXCEPT ![r] = "close"]
          /\ UNCHANGED <<work, cancelEvent, cut>>
      BY <1>18 DEF SkipIndexing, At, Goto, TInv, TypeOK, Work
    <3>2. pc'[r] = "close" /\ \A j \in Jobs : j # r => pc'[j] = pc[j]
      BY <3>1 DEF TInv, TypeOK
    <3>3. QED
      BY <3>1, <3>2 DEF CInv, SkipInv, ImplPoints
  <2>2. CompletedMeansAll'
    BY <1>18 DEF SkipIndexing, At, Goto, Leave, CInv, HInv, StopInv, SkipInv, CompletedMeansAll,
         TInv, TypeOK, WorkInv, Work, ImplPoints
  <2>3. QED
    BY <2>1, <2>2 DEF CInv
<1>19. ASSUME NEW r \in Rescans, CloseImpl(r) PROVE CInv'
  BY <1>19, ZenonT(30) DEF CloseImpl, At, Goto, Leave, ResetHistory, OneJob, HInv, StopInv, CInv,
       SkipInv, CompletedMeansAll, TInv, TypeOK, WorkInv, SInv, LInv, OneRescanAtATime,
       StatusTellsTheTruth, Work, NoWork, Points, Critical, Reporting, ImplPoints
<1>30. ASSUME NEW r \in Rescans, EndSave(r) PROVE CInv'
  BY <1>30, EndSaveFacts DEF TInv, CInv, SkipInv, CompletedMeansAll, ImplPoints
<1>20. ASSUME NEW r \in Rescans, WorkerSeesCancel(r) PROVE CInv'
  BY <1>20 DEF WorkerSeesCancel, At, Goto, Leave, ResetHistory, OneJob, HInv, StopInv, CInv,
       SkipInv, CompletedMeansAll, TInv, TypeOK, WorkInv, SInv, LInv, OneRescanAtATime,
       StatusTellsTheTruth, Work, NoWork, Points, Critical, Reporting, ImplPoints
<1>21. ASSUME NEW r \in Rescans, Fail(r) PROVE CInv'
  BY <1>21, ZenonT(30) DEF Fail, At, Goto, Leave, ResetHistory, OneJob, HInv, StopInv, CInv,
       SkipInv, CompletedMeansAll, TInv, TypeOK, WorkInv, SInv, LInv, OneRescanAtATime,
       StatusTellsTheTruth, Work, NoWork, Points, Critical, Reporting, ImplPoints
<1>22. ASSUME NEW r \in Rescans, Release(r) PROVE CInv'
  BY <1>22 DEF Release, At, Goto, Leave, ResetHistory, OneJob, HInv, StopInv, CInv, SkipInv,
       CompletedMeansAll, TInv, TypeOK, WorkInv, SInv, LInv, OneRescanAtATime,
       StatusTellsTheTruth, Work, NoWork, Points, Critical, Reporting, ImplPoints
<1>23. CASE UNCHANGED vars
  BY <1>23 DEF vars, At, Goto, Leave, ResetHistory, OneJob, HInv, StopInv, CInv, SkipInv,
       CompletedMeansAll, TInv, TypeOK, WorkInv, SInv, LInv, OneRescanAtATime,
       StatusTellsTheTruth, Work, NoWork, Points, Critical, Reporting, ImplPoints
<1>24. QED
  BY <1>1, <1>2, <1>3, <1>4, <1>5, <1>6, <1>7, <1>8, <1>9, <1>10, <1>11, <1>12, <1>13, <1>14,
       <1>15, <1>16, <1>17, <1>18, <1>19, <1>20, <1>21, <1>22, <1>23, <1>30 DEF Next, JobSteps,
       Impl

\* A job that ends "completed" has scanned every folder and indexed every file
\* it found, for any number of folders and workers.
THEOREM CompletedIsComplete == ASSUME OneJob PROVE Spec => []CompletedMeansAll
<1>1. TInv /\ SInv /\ HInv /\ CInv /\ [Next]_vars => CInv'
  BY OneJob, StepCInv
<1>2. CInv => CompletedMeansAll
  BY DEF CInv
<1>3. QED
  BY <1>1, <1>2, InitCInv, SpecTInv, SpecSInv, SpecHInv, PTL DEF Spec

(***************************************************************************)
(* The status behaves as RescanService says.                               *)
(***************************************************************************)
LEMMA StepService ==
  OneJob /\ TInv /\ SInv /\ HInv /\ HInv' /\ [Next]_vars => [Service!Next]_(Service!vars)
<1> SUFFICES ASSUME OneJob, TInv, SInv, HInv, HInv', [Next]_vars
             PROVE  [Service!Next]_(Service!vars)
  OBVIOUS
<1> USE RescansAssumption
<1> DEFINE Goal == [Service!Next]_(Service!vars)
<1>1. ASSUME RequestCancel PROVE Goal
  BY <1>1 DEF RequestCancel, At, Goto, SetStage, Leave, ResetHistory, HInv, StopInv,
       CancelHonoured, TInv, TypeOK, Status, PatchInv, VerdictInv, SInv, LInv, OneRescanAtATime,
       StatusTellsTheTruth, Points, Critical, Reporting, ImplPoints, Service!Next, Service!vars,
       Service!Start, Service!Stop, Service!Finish, Service!FinishStopped
<1>2. ASSUME NEW r \in Syncs, RescanLibrary(r) PROVE Goal
  BY <1>2 DEF RescanLibrary, At, Goto, SetStage, Leave, ResetHistory, HInv, StopInv,
       CancelHonoured, TInv, TypeOK, Status, PatchInv, VerdictInv, SInv, LInv, OneRescanAtATime,
       StatusTellsTheTruth, Points, Critical, Reporting, ImplPoints, Service!Next, Service!vars,
       Service!Start, Service!Stop, Service!Finish, Service!FinishStopped
<1>3. ASSUME NEW r \in Jobs, BeginOrCurrent(r) PROVE Goal
  BY <1>3 DEF BeginOrCurrent, At, Goto, SetStage, Leave, ResetHistory, HInv, StopInv,
       CancelHonoured, TInv, TypeOK, Status, PatchInv, VerdictInv, SInv, LInv, OneRescanAtATime,
       StatusTellsTheTruth, Points, Critical, Reporting, ImplPoints, Service!Next, Service!vars,
       Service!Start, Service!Stop, Service!Finish, Service!FinishStopped
<1>4. ASSUME NEW r \in Jobs, Update(r) PROVE Goal
  BY <1>4 DEF Update, At, Goto, SetStage, Leave, ResetHistory, HInv, StopInv, CancelHonoured,
       TInv, TypeOK, Status, PatchInv, VerdictInv, SInv, LInv, OneRescanAtATime,
       StatusTellsTheTruth, Points, Critical, Reporting, ImplPoints, Service!Next, Service!vars,
       Service!Start, Service!Stop, Service!Finish, Service!FinishStopped
<1>5. ASSUME NEW r \in Jobs, Judge(r) PROVE Goal
  BY <1>5 DEF Judge, At, Goto, SetStage, Leave, ResetHistory, HInv, StopInv, CancelHonoured, TInv,
       TypeOK, Status, PatchInv, VerdictInv, SInv, LInv, OneRescanAtATime, StatusTellsTheTruth,
       Points, Critical, Reporting, ImplPoints, Service!Next, Service!vars, Service!Start,
       Service!Stop, Service!Finish, Service!FinishStopped
<1>6. ASSUME NEW r \in Jobs, Report(r) PROVE Goal
  BY <1>6 DEF Report, At, Goto, SetStage, Leave, ResetHistory, HInv, StopInv, CancelHonoured,
       TInv, TypeOK, Status, PatchInv, VerdictInv, SInv, LInv, OneRescanAtATime,
       StatusTellsTheTruth, Points, Critical, Reporting, ImplPoints, Service!Next, Service!vars,
       Service!Start, Service!Stop, Service!Finish, Service!FinishStopped
<1>7. ASSUME NEW r \in Jobs, ReportFailure(r) PROVE Goal
  BY <1>7 DEF ReportFailure, At, Goto, SetStage, Leave, ResetHistory, HInv, StopInv,
       CancelHonoured, TInv, TypeOK, Status, PatchInv, VerdictInv, SInv, LInv, OneRescanAtATime,
       StatusTellsTheTruth, Points, Critical, Reporting, ImplPoints, Service!Next, Service!vars,
       Service!Start, Service!Stop, Service!Finish, Service!FinishStopped
<1>8. ASSUME NEW r \in Jobs, ClearCancelEvent(r) PROVE Goal
  BY <1>8 DEF ClearCancelEvent, At, Goto, SetStage, Leave, ResetHistory, HInv, StopInv,
       CancelHonoured, TInv, TypeOK, Status, PatchInv, VerdictInv, SInv, LInv, OneRescanAtATime,
       StatusTellsTheTruth, Points, Critical, Reporting, ImplPoints, Service!Next, Service!vars,
       Service!Start, Service!Stop, Service!Finish, Service!FinishStopped
<1>9. ASSUME NEW r \in Rescans, StartScan(r) PROVE Goal
  <2>1. CASE r \in Jobs
    <3>1. status.running /\ status'.running
      BY <1>9, <2>1, StartScanFacts
         DEF SInv, LInv, OneRescanAtATime, StatusTellsTheTruth, Critical, Reporting, ImplPoints
    <3>2. QED
      BY <1>9, <3>1, StartScanFacts DEF Service!vars
  <2>2. CASE r \notin Jobs
    BY <1>9, <2>2, StartScanFacts DEF Service!vars
  <2>3. QED
    BY <2>1, <2>2
<1>10. ASSUME NEW r \in Rescans, EnterFolder(r) PROVE Goal
  BY <1>10 DEF EnterFolder, At, Goto, SetStage, Leave, ResetHistory, HInv, StopInv,
       CancelHonoured, TInv, TypeOK, Status, PatchInv, VerdictInv, SInv, LInv, OneRescanAtATime,
       StatusTellsTheTruth, Points, Critical, Reporting, ImplPoints, Service!Next, Service!vars,
       Service!Start, Service!Stop, Service!Finish, Service!FinishStopped
<1>11. ASSUME NEW r \in Rescans, WalkFolder(r) PROVE Goal
  BY <1>11 DEF WalkFolder, At, Goto, SetStage, Leave, ResetHistory, HInv, StopInv, CancelHonoured,
       TInv, TypeOK, Status, PatchInv, VerdictInv, SInv, LInv, OneRescanAtATime,
       StatusTellsTheTruth, Points, Critical, Reporting, ImplPoints, Service!Next, Service!vars,
       Service!Start, Service!Stop, Service!Finish, Service!FinishStopped
<1>12. ASSUME NEW r \in Rescans, EndScan(r) PROVE Goal
  BY <1>12 DEF EndScan, At, Goto, SetStage, Leave, ResetHistory, HInv, StopInv, CancelHonoured,
       TInv, TypeOK, Status, PatchInv, VerdictInv, SInv, LInv, OneRescanAtATime,
       StatusTellsTheTruth, Points, Critical, Reporting, ImplPoints, Service!Next, Service!vars,
       Service!Start, Service!Stop, Service!Finish, Service!FinishStopped
<1>13. ASSUME NEW r \in Rescans, StopAfterScan(r) PROVE Goal
  BY <1>13 DEF StopAfterScan, At, Goto, SetStage, Leave, ResetHistory, HInv, StopInv,
       CancelHonoured, TInv, TypeOK, Status, PatchInv, VerdictInv, SInv, LInv, OneRescanAtATime,
       StatusTellsTheTruth, Points, Critical, Reporting, ImplPoints, Service!Next, Service!vars,
       Service!Start, Service!Stop, Service!Finish, Service!FinishStopped
<1>14. ASSUME NEW r \in Rescans, SubmitFirst(r) PROVE Goal
  BY <1>14 DEF SubmitFirst, At, Goto, SetStage, Leave, ResetHistory, HInv, StopInv,
       CancelHonoured, TInv, TypeOK, Status, PatchInv, VerdictInv, SInv, LInv, OneRescanAtATime,
       StatusTellsTheTruth, Points, Critical, Reporting, ImplPoints, Service!Next, Service!vars,
       Service!Start, Service!Stop, Service!Finish, Service!FinishStopped
<1>15. ASSUME NEW r \in Rescans, Collect(r) PROVE Goal
  BY <1>15 DEF Collect, At, Goto, SetStage, Leave, ResetHistory, HInv, StopInv, CancelHonoured,
       TInv, TypeOK, Status, PatchInv, VerdictInv, SInv, LInv, OneRescanAtATime,
       StatusTellsTheTruth, Points, Critical, Reporting, ImplPoints, Service!Next, Service!vars,
       Service!Start, Service!Stop, Service!Finish, Service!FinishStopped
<1>16. ASSUME NEW r \in Rescans, KeepIndexing(r) PROVE Goal
  BY <1>16 DEF KeepIndexing, FinishIndexing, At, Goto, SetStage, Leave, ResetHistory, HInv,
       StopInv, CancelHonoured, TInv, TypeOK, Status, PatchInv, VerdictInv, SInv, LInv,
       OneRescanAtATime, StatusTellsTheTruth, Points, Critical, Reporting, ImplPoints,
       Service!Next, Service!vars, Service!Start, Service!Stop, Service!Finish,
       Service!FinishStopped
<1>17. ASSUME NEW r \in Rescans, StopIndexing(r) PROVE Goal
  BY <1>17 DEF StopIndexing, FinishIndexing, At, Goto, SetStage, Leave, ResetHistory, HInv,
       StopInv, CancelHonoured, TInv, TypeOK, Status, PatchInv, VerdictInv, SInv, LInv,
       OneRescanAtATime, StatusTellsTheTruth, Points, Critical, Reporting, ImplPoints,
       Service!Next, Service!vars, Service!Start, Service!Stop, Service!Finish,
       Service!FinishStopped
<1>18. ASSUME NEW r \in Rescans, SkipIndexing(r) PROVE Goal
  BY <1>18 DEF SkipIndexing, At, Goto, SetStage, Leave, ResetHistory, HInv, StopInv,
       CancelHonoured, TInv, TypeOK, Status, PatchInv, VerdictInv, SInv, LInv, OneRescanAtATime,
       StatusTellsTheTruth, Points, Critical, Reporting, ImplPoints, Service!Next, Service!vars,
       Service!Start, Service!Stop, Service!Finish, Service!FinishStopped
<1>19. ASSUME NEW r \in Rescans, CloseImpl(r) PROVE Goal
  BY <1>19 DEF CloseImpl, At, Goto, SetStage, Leave, ResetHistory, HInv, StopInv, CancelHonoured,
       TInv, TypeOK, Status, PatchInv, VerdictInv, SInv, LInv, OneRescanAtATime,
       StatusTellsTheTruth, Points, Critical, Reporting, ImplPoints, Service!Next, Service!vars,
       Service!Start, Service!Stop, Service!Finish, Service!FinishStopped
<1>30. ASSUME NEW r \in Rescans, EndSave(r) PROVE Goal
  BY <1>30 DEF EndSave, At, Goto, SetStage, Leave, ResetHistory, HInv, StopInv, CancelHonoured,
       TInv, TypeOK, Status, PatchInv, VerdictInv, SInv, LInv, OneRescanAtATime,
       StatusTellsTheTruth, Points, Critical, Reporting, ImplPoints, Service!Next, Service!vars,
       Service!Start, Service!Stop, Service!Finish, Service!FinishStopped
<1>20. ASSUME NEW r \in Rescans, WorkerSeesCancel(r) PROVE Goal
  BY <1>20 DEF WorkerSeesCancel, At, Goto, SetStage, Leave, ResetHistory, HInv, StopInv,
       CancelHonoured, TInv, TypeOK, Status, PatchInv, VerdictInv, SInv, LInv, OneRescanAtATime,
       StatusTellsTheTruth, Points, Critical, Reporting, ImplPoints, Service!Next, Service!vars,
       Service!Start, Service!Stop, Service!Finish, Service!FinishStopped
<1>21. ASSUME NEW r \in Rescans, Fail(r) PROVE Goal
  BY <1>21 DEF Fail, At, Goto, SetStage, Leave, ResetHistory, HInv, StopInv, CancelHonoured, TInv,
       TypeOK, Status, PatchInv, VerdictInv, SInv, LInv, OneRescanAtATime, StatusTellsTheTruth,
       Points, Critical, Reporting, ImplPoints, Service!Next, Service!vars, Service!Start,
       Service!Stop, Service!Finish, Service!FinishStopped
<1>22. ASSUME NEW r \in Rescans, Release(r) PROVE Goal
  BY <1>22 DEF Release, At, Goto, SetStage, Leave, ResetHistory, HInv, StopInv, CancelHonoured,
       TInv, TypeOK, Status, PatchInv, VerdictInv, SInv, LInv, OneRescanAtATime,
       StatusTellsTheTruth, Points, Critical, Reporting, ImplPoints, Service!Next, Service!vars,
       Service!Start, Service!Stop, Service!Finish, Service!FinishStopped
<1>23. CASE UNCHANGED vars
  BY <1>23 DEF vars, At, Goto, SetStage, Leave, ResetHistory, HInv, StopInv, CancelHonoured, TInv,
       TypeOK, Status, PatchInv, VerdictInv, SInv, LInv, OneRescanAtATime, StatusTellsTheTruth,
       Points, Critical, Reporting, ImplPoints, Service!Next, Service!vars, Service!Start,
       Service!Stop, Service!Finish, Service!FinishStopped
<1>24. QED
  BY <1>1, <1>2, <1>3, <1>4, <1>5, <1>6, <1>7, <1>8, <1>9, <1>10, <1>11, <1>12, <1>13, <1>14,
       <1>15, <1>16, <1>17, <1>18, <1>19, <1>20, <1>21, <1>22, <1>23, <1>30 DEF Next, JobSteps,
       Impl

\* The status the API returns takes only the steps of RescanService: one
\* rescan at a time, and a stop accepted in time never ends as "completed".
THEOREM StatusImplementsService == ASSUME OneJob PROVE Spec => Service!Safety
<1>1. Init => Service!Init
  BY DEF Init, Service!Init
<1>2. TInv /\ SInv /\ HInv /\ HInv' /\ [Next]_vars => [Service!Next]_(Service!vars)
  BY OneJob, StepService
<1>3. QED
  BY <1>1, <1>2, SpecTInv, SpecSInv, SpecHInv, PTL DEF Spec, Service!Safety

-----------------------------------------------------------------------------

\* While the status does not say "running" no job is between its start and its report, so
\* none has a patch to apply.
LEMMA StepLastWord ==
  ASSUME TInv, SInv, [Next]_vars, ~status.running
  PROVE  status' = status \/ status'.running
<1>1. \A j \in Jobs : pc[j] \notin Reporting
  BY DEF SInv, LInv, OneRescanAtATime, StatusTellsTheTruth, Critical
<1>2. ASSUME NEW j \in Jobs, Update(j) PROVE FALSE
  <2>1. pc[j] \in ImplPoints \cup {"judge"}
    BY <1>2 DEF Update, TInv, PatchInv
  <2>2. QED
    BY <1>1, <2>1 DEF Reporting
<1>3. ASSUME NEW j \in Jobs, Report(j) \/ ReportFailure(j) PROVE FALSE
  BY <1>1, <1>3 DEF Report, ReportFailure, Reporting
<1>4. ASSUME NEW r \in Rescans, StartScan(r) PROVE status' = status
  <2>1. pc[r] \in Reporting
    BY <1>4 DEF StartScan, At, Reporting, ImplPoints
  <2>2. QED
    BY <1>1, <1>4, <2>1, StartScanFacts
<1>5. ASSUME NEW j \in Jobs, BeginOrCurrent(j) PROVE status'.running
  BY <1>5 DEF BeginOrCurrent
<1>6. CASE RequestCancel
  BY <1>6 DEF RequestCancel
<1>7. ASSUME NEW r \in Rescans,
             \/ EnterFolder(r) \/ WalkFolder(r) \/ EndScan(r) \/ StopAfterScan(r)
             \/ SubmitFirst(r) \/ Collect(r) \/ KeepIndexing(r) \/ StopIndexing(r)
             \/ EndSave(r) \/ SkipIndexing(r) \/ CloseImpl(r)
      PROVE  status' = status
  BY <1>7 DEF EnterFolder, WalkFolder, EndScan, StopAfterScan, SubmitFirst, Collect,
              KeepIndexing, StopIndexing, EndSave, SkipIndexing, CloseImpl
<1>8. ASSUME NEW r \in Rescans,
             \/ WorkerSeesCancel(r) \/ Fail(r) \/ Release(r)
             \/ r \in Jobs /\ (Judge(r) \/ ClearCancelEvent(r))
             \/ r \in Syncs /\ RescanLibrary(r)
      PROVE  status' = status
  BY <1>8 DEF WorkerSeesCancel, Fail, Release, Judge, ClearCancelEvent, RescanLibrary
<1>9. QED
  BY <1>2, <1>3, <1>4, <1>5, <1>6, <1>7, <1>8 DEF Next, JobSteps, Impl, vars

\* Once a job has reported its end the status stays as it is until the next start, whatever
\* the number of jobs and rescans.
THEOREM LastWordIsKept == Spec => LastWordStays
<1>1. TInv /\ SInv /\ [Next]_vars => [~status.running => status' = status \/ status'.running]_vars
  BY StepLastWord
<1>2. QED
  BY <1>1, SpecTInv, SpecSInv, PTL DEF Spec, LastWordStays

\* With both: the status is earned, whatever the number of jobs and rescans.
THEOREM StatusEarned == Spec => []StatusIsEarned
BY StatusTruth, NoSpuriousStop, PTL DEF StatusIsEarned

-----------------------------------------------------------------------------
(***************************************************************************)
(* How far a rescan is from its end.  ToDo counts what is left to walk and *)
(* to index: a walked folder becomes at most one file, and a file taken    *)
(* from the workers is gone.  Between two of these a rescan only goes down *)
(* the ranks of its control points, and may owe the status one patch.      *)
(***************************************************************************)
PointRank ==
  [off |-> 0, clear |-> 1, release |-> 2, failed |-> 3, report |-> 3, judge |-> 4, close |-> 5,
   saveLast |-> 6, index |-> 7, check |-> 8, save |-> 9, discovered |-> 10, walk |-> 11,
   scan |-> 12, begin |-> 13]

ToDo(r) ==
  IF pc[r] = "begin" THEN 2 * MaxFolders
                     ELSE 2 * work[r].folders + work[r].pending + work[r].inFlight
OwesPatch(r) == IF patch[r] = Free THEN 0 ELSE 1

StepsLeft(r) == 28 * ToDo(r) + 2 * PointRank[pc[r]] + OwesPatch(r)

\* The steps of the rescan's own thread.
OwnStep(r) == Impl(r) \/ Fail(r) \/ Release(r) \/ (r \in Jobs /\ JobSteps(r))

LEMMA ToDoType == ASSUME TInv, NEW r \in Rescans PROVE ToDo(r) \in 0..(2 * MaxFolders)
<1>1. work[r] \in Work
  BY DEF TInv, TypeOK
<1>2. work[r].folders + work[r].pending + work[r].inFlight <= MaxFolders
  BY DEF TInv, WorkInv
<1>3. QED
  BY <1>1, <1>2, BoundsAssumption DEF Work, ToDo

LEMMA RankType == ASSUME TInv, NEW r \in Rescans
                  PROVE  PointRank[pc[r]] \in 0..13 /\ OwesPatch(r) \in 0..1
<1>1. pc[r] \in Points
  BY DEF TInv, TypeOK
<1>2. QED
  BY <1>1 DEF PointRank, Points, Critical, Reporting, ImplPoints, OwesPatch

LEMMA ToDoTypeNext == ASSUME TInv', NEW r \in Rescans PROVE ToDo(r)' \in 0..(2 * MaxFolders)
<1>1. work'[r] \in Work
  BY DEF TInv, TypeOK
<1>2. work'[r].folders + work'[r].pending + work'[r].inFlight <= MaxFolders
  BY DEF TInv, WorkInv
<1>3. QED
  BY <1>1, <1>2, BoundsAssumption DEF Work, ToDo

LEMMA RankTypeNext == ASSUME TInv', NEW r \in Rescans
                      PROVE  PointRank[pc'[r]] \in 0..13 /\ OwesPatch(r)' \in 0..1
<1>1. pc'[r] \in Points
  BY DEF TInv, TypeOK
<1>2. QED
  BY <1>1 DEF PointRank, Points, Critical, Reporting, ImplPoints, OwesPatch

LEMMA Weighed ==
  ASSUME NEW a \in Nat, NEW b \in Nat, NEW k \in 0..13, NEW m \in 0..13,
         NEW d \in 0..1, NEW e \in 0..1,
         b < a \/ (b <= a /\ m < k) \/ (b = a /\ m = k /\ e < d)
  PROVE  28 * b + 2 * m + e < 28 * a + 2 * k + d
OBVIOUS

\* One piece of work less, or a lower point, or a patch less: the rescan is closer to its end.
LEMMA Closer ==
  ASSUME TInv, TInv', NEW r \in Rescans,
         \/ ToDo(r)' < ToDo(r)
         \/ ToDo(r)' <= ToDo(r) /\ PointRank[pc'[r]] < PointRank[pc[r]]
         \/ ToDo(r)' = ToDo(r) /\ pc'[r] = pc[r] /\ patch[r] # Free /\ patch'[r] = Free
  PROVE  StepsLeft(r)' < StepsLeft(r)
<1>1. PICK a \in Nat, b \in Nat : a = ToDo(r) /\ b = ToDo(r)'
  BY ToDoType, ToDoTypeNext, BoundsAssumption
<1>2. PICK k \in 0..13, m \in 0..13 : k = PointRank[pc[r]] /\ m = PointRank[pc'[r]]
  BY RankType, RankTypeNext
<1>3. PICK d \in 0..1, e \in 0..1 : d = OwesPatch(r) /\ e = OwesPatch(r)'
  BY RankType, RankTypeNext
<1>4. b < a \/ (b <= a /\ m < k) \/ (b = a /\ m = k /\ e < d)
  BY <1>1, <1>2, <1>3 DEF OwesPatch
<1>5. 28 * b + 2 * m + e < 28 * a + 2 * k + d
  BY <1>4, Weighed
<1>6. QED
  BY <1>1, <1>2, <1>3, <1>5 DEF StepsLeft

\* The thread takes its next step with less to do or at a lower point.
LEMMA Descends ==
  ASSUME TInv, NEW r \in Rescans, OwnStep(r)
  PROVE  \/ ToDo(r)' < ToDo(r)
         \/ ToDo(r)' <= ToDo(r) /\ PointRank[pc'[r]] < PointRank[pc[r]]
         \/ ToDo(r)' = ToDo(r) /\ pc'[r] = pc[r] /\ patch[r] # Free /\ patch'[r] = Free
<1>0. /\ pc \in [Rescans -> Points] /\ work \in [Rescans -> Work] /\ work[r] \in Work
      /\ MaxFolders \in Nat
  BY BoundsAssumption DEF TInv, TypeOK
<1>1. CASE StartScan(r)
  <2>1. PICK n \in 0..MaxFolders : work' = [work EXCEPT ![r].folders = n]
    BY <1>1 DEF StartScan
  <2>2. pc[r] = "begin" /\ pc'[r] \in {"scan", "judge", "release"}
    BY <1>1, StartScanFacts
  <2>3. work'[r].folders = n /\ work'[r].pending = 0 /\ work'[r].inFlight = 0
    BY <1>0, <1>1, <2>1, StartScanFacts DEF Work
  <2>4. QED
    BY <1>0, <2>2, <2>3 DEF ToDo, PointRank
<1>2. CASE EnterFolder(r)
  BY <1>0, <1>2 DEF EnterFolder, At, Goto, ToDo, PointRank, Work
<1>3. CASE WalkFolder(r)
  <2>1. work[r].folders > 0 /\ pc[r] = "walk" /\ pc'[r] = "scan"
    BY <1>0, <1>3 DEF WalkFolder, At, Goto, TInv, WorkInv
  <2>2. /\ work'[r].folders = work[r].folders - 1 /\ work'[r].inFlight = work[r].inFlight
        /\ work'[r].pending \in {work[r].pending, work[r].pending + 1}
    BY <1>0, <1>3 DEF WalkFolder, Work
  <2>3. QED
    BY <1>0, <2>1, <2>2 DEF ToDo, PointRank, Work
<1>4. CASE EndScan(r)
  BY <1>0, <1>4 DEF EndScan, At, Goto, ToDo, PointRank, Work
<1>5. CASE StopAfterScan(r)
  BY <1>0, <1>5 DEF StopAfterScan, At, Goto, Leave, ToDo, PointRank, Work
<1>6. CASE SubmitFirst(r)
  <2>1. PICK n \in Nat : n <= work[r].pending
                         /\ work' = [work EXCEPT ![r].inFlight = n, ![r].pending = @ - n]
    BY <1>0, <1>6, LesserType, BoundsAssumption DEF SubmitFirst, Work
  <2>2. /\ work'[r].folders = work[r].folders /\ work'[r].inFlight = n
        /\ work'[r].pending = work[r].pending - n
    BY <1>0, <2>1 DEF Work
  <2>3. work[r].inFlight = 0 /\ pc[r] = "discovered" /\ pc'[r] = "index"
    BY <1>0, <1>6 DEF SubmitFirst, At, Goto, TInv, WorkInv, Work
  <2>4. QED
    BY <1>0, <2>1, <2>2, <2>3 DEF ToDo, PointRank, Work
<1>7. CASE Collect(r)
  <2>1. pc[r] = "index" /\ pc'[r] \in {"check", "save"} /\ work[r].inFlight > 0
    BY <1>0, <1>7 DEF Collect, At, Goto
  <2>2. /\ work'[r].folders = work[r].folders
        /\ \/ work[r].pending > 0 /\ work'[r].pending = work[r].pending - 1
              /\ work'[r].inFlight = work[r].inFlight
           \/ work'[r].pending = work[r].pending /\ work'[r].inFlight = work[r].inFlight - 1
    BY <1>0, <1>7 DEF Collect, Work
  <2>3. QED
    BY <1>0, <2>1, <2>2 DEF ToDo, PointRank, Work
<1>8. CASE KeepIndexing(r)
  <2>1. pc[r] = "check" /\ pc'[r] \in {"index", "close", "saveLast"}
    BY <1>8, KeepIndexingFacts DEF TInv
  <2>2. work' = work
    BY <1>8 DEF KeepIndexing
  <2>3. QED
    BY <1>0, <2>1, <2>2 DEF ToDo, PointRank, Work
<1>9. CASE StopIndexing(r)
  <2>1. /\ pc[r] = "check" /\ pc'[r] \in {"close", "saveLast"}
        /\ work'[r].inFlight = 0
        /\ work'[r].folders = work[r].folders /\ work'[r].pending = work[r].pending
    BY <1>9, StopIndexingFacts DEF TInv
  <2>2. QED
    BY <1>0, <2>1 DEF ToDo, PointRank, Work
<1>10. CASE EndSave(r)
  <2>1. /\ work' = work
        /\ \/ pc[r] = "save" /\ pc'[r] = "check"
           \/ pc[r] = "saveLast" /\ pc'[r] = "close"
    <3>1. work' = work
      BY <1>10 DEF EndSave
    <3>2. QED
      BY <1>10, <3>1, EndSaveFacts DEF TInv
  <2>2. QED
    BY <1>0, <2>1 DEF ToDo, PointRank, Work
<1>11. CASE SkipIndexing(r)
  BY <1>0, <1>11 DEF SkipIndexing, At, Goto, ToDo, PointRank, Work
<1>12. CASE CloseImpl(r)
  BY <1>0, <1>12 DEF CloseImpl, At, Goto, Leave, ToDo, PointRank, Work
<1>13. CASE Fail(r)
  <2>1. pc[r] \in ImplPoints /\ pc'[r] \in {"failed", "release"}
    BY <1>0, <1>13 DEF Fail, Goto
  <2>2. /\ work'[r].inFlight = 0
        /\ work'[r].folders = work[r].folders /\ work'[r].pending = work[r].pending
    BY <1>0, <1>13 DEF Fail, Work
  <2>3. pc[r] = "begin" => work[r] = NoWork
    BY DEF TInv, WorkInv
  <2>4. ToDo(r)' <= ToDo(r)
    BY <1>0, <2>1, <2>2, <2>3 DEF ToDo, Work, NoWork
  <2>5. PointRank[pc'[r]] < PointRank[pc[r]]
    BY <2>1 DEF PointRank, ImplPoints
  <2>6. QED
    BY <2>4, <2>5
<1>14. CASE Release(r)
  BY <1>0, <1>14 DEF Release, Goto, ToDo, PointRank, Work
<1>15. CASE r \in Jobs /\ Update(r)
  BY <1>0, <1>15 DEF Update, TInv, TypeOK, ToDo
<1>16. CASE r \in Jobs /\ Judge(r)
  BY <1>0, <1>16 DEF Judge, At, Goto, ToDo, PointRank, Work
<1>17. CASE r \in Jobs /\ (Report(r) \/ ReportFailure(r))
  BY <1>0, <1>17 DEF Report, ReportFailure, Goto, ToDo, PointRank, Work
<1>18. CASE r \in Jobs /\ ClearCancelEvent(r)
  BY <1>0, <1>18 DEF ClearCancelEvent, Goto, ToDo, PointRank, Work
<1>19. QED
  BY <1>1, <1>2, <1>3, <1>4, <1>5, <1>6, <1>7, <1>8, <1>9, <1>10, <1>11, <1>12, <1>13, <1>14,
     <1>15, <1>16, <1>17, <1>18 DEF OwnStep, Impl, JobSteps

\* Nobody else touches a rescan that is under way.
LEMMA OthersLeave ==
  ASSUME TInv, NEW r \in Rescans, pc[r] # "off", [Next]_vars, ~OwnStep(r) \/ UNCHANGED vars
  PROVE  pc'[r] = pc[r] /\ work'[r] = work[r] /\ patch'[r] = patch[r]
<1> USE DEF TInv, TypeOK, Goto, Publish, PublishProgress
<1>1. CASE UNCHANGED vars
  BY <1>1 DEF vars
<1>2. CASE RequestCancel
  BY <1>2 DEF RequestCancel
<1>3. ASSUME NEW q \in Rescans, q # r, Impl(q)
      PROVE  pc'[r] = pc[r] /\ work'[r] = work[r] /\ patch'[r] = patch[r]
  <2>1. CASE StartScan(q) \/ EnterFolder(q) \/ WalkFolder(q) \/ EndScan(q) \/ StopAfterScan(q)
    BY <1>3, <2>1 DEF StartScan, EnterFolder, WalkFolder, EndScan, StopAfterScan, Leave
  <2>2. CASE SubmitFirst(q) \/ Collect(q) \/ SkipIndexing(q) \/ CloseImpl(q)
    BY <1>3, <2>2 DEF SubmitFirst, Collect, SkipIndexing, CloseImpl, Leave
  <2>3. CASE KeepIndexing(q) \/ StopIndexing(q) \/ EndSave(q)
    BY <1>3, <2>3, KeepIndexingFacts, StopIndexingFacts, EndSaveFacts DEF KeepIndexing
  <2>4. QED
    BY <1>3, <2>1, <2>2, <2>3 DEF Impl
<1>4. ASSUME NEW q \in Rescans, q # r, Fail(q) \/ Release(q)
      PROVE  pc'[r] = pc[r] /\ work'[r] = work[r] /\ patch'[r] = patch[r]
  BY <1>4 DEF Fail, Release
<1>5. ASSUME NEW q \in Rescans, WorkerSeesCancel(q)
      PROVE  pc'[r] = pc[r] /\ work'[r] = work[r] /\ patch'[r] = patch[r]
  BY <1>5 DEF WorkerSeesCancel
<1>6. ASSUME NEW q \in Jobs, q # r, JobSteps(q)
      PROVE  pc'[r] = pc[r] /\ work'[r] = work[r] /\ patch'[r] = patch[r]
  BY <1>6 DEF JobSteps, Update, Judge, Report, ReportFailure, ClearCancelEvent
<1>7. ASSUME NEW q \in Rescans, \/ q \in Jobs /\ BeginOrCurrent(q)
                                \/ q \in Syncs /\ RescanLibrary(q)
      PROVE  pc'[r] = pc[r] /\ work'[r] = work[r] /\ patch'[r] = patch[r]
  <2>1. q # r
    BY <1>7 DEF BeginOrCurrent, RescanLibrary
  <2>2. QED
    BY <1>7, <2>1 DEF BeginOrCurrent, RescanLibrary, ResetHistory
<1>8. QED
  BY <1>1, <1>2, <1>3, <1>4, <1>5, <1>6, <1>7 DEF Next, OwnStep

(***************************************************************************)
(* A rescan under way comes closer to its end with every step of its own   *)
(* thread, in at most 56 * MaxFolders + 27 of them, and no stop request,   *)
(* no start and no other rescan ever puts it back.                         *)
(***************************************************************************)
RescansWindDown ==
  \A r \in Rescans : pc[r] # "off" =>
    /\ StepsLeft(r) <= 56 * MaxFolders + 27
    /\ StepsLeft(r)' <= StepsLeft(r)
    /\ OwnStep(r) => StepsLeft(r)' < StepsLeft(r)

LEMMA StepWindsDown == TInv /\ TInv' /\ [Next]_vars => RescansWindDown
<1> SUFFICES ASSUME TInv, TInv', [Next]_vars, NEW r \in Rescans, pc[r] # "off"
             PROVE  /\ StepsLeft(r) <= 56 * MaxFolders + 27
                    /\ StepsLeft(r)' <= StepsLeft(r)
                    /\ OwnStep(r) => StepsLeft(r)' < StepsLeft(r)
  BY DEF RescansWindDown
<1>1. PICK a \in 0..(2 * MaxFolders), k \in 0..13, d \in 0..1 :
        a = ToDo(r) /\ k = PointRank[pc[r]] /\ d = OwesPatch(r)
  BY ToDoType, RankType
<1>2. StepsLeft(r) <= 56 * MaxFolders + 27 /\ StepsLeft(r) \in Nat
  BY <1>1, BoundsAssumption DEF StepsLeft
<1>3. PICK b \in 0..(2 * MaxFolders), m \in 0..13, e \in 0..1 :
        b = ToDo(r)' /\ m = PointRank[pc'[r]] /\ e = OwesPatch(r)'
  BY ToDoTypeNext, RankTypeNext
<1>4. StepsLeft(r)' \in Nat
  BY <1>3, BoundsAssumption DEF StepsLeft
<1>5. OwnStep(r) => StepsLeft(r)' < StepsLeft(r)
  BY Descends, Closer
<1>6. ~OwnStep(r) => StepsLeft(r)' = StepsLeft(r)
  <2>1. ~OwnStep(r) => pc'[r] = pc[r] /\ work'[r] = work[r] /\ patch'[r] = patch[r]
    BY OthersLeave
  <2>2. QED
    BY <2>1 DEF StepsLeft, ToDo, OwesPatch
<1>7. QED
  BY <1>2, <1>4, <1>5, <1>6

\* A rescan does a bounded number of steps: the indexing loop cannot go round without taking a
\* file from the workers, nor the scan without a folder (_rescan_library_impl).
THEOREM RescanWindsDown == Spec => [][RescansWindDown]_vars
<1>1. TInv /\ TInv' /\ [Next]_vars => [RescansWindDown]_vars
  BY StepWindsDown
<1>2. QED
  BY <1>1, SpecTInv, PTL DEF Spec

-----------------------------------------------------------------------------
(***************************************************************************)
(* Nobody is stuck, and the next step is taken.  A job with a patch        *)
(* applies it; at the points after the rescan itself it is a job and goes  *)
(* on; at the points of the rescan one of Impl's guards holds.             *)
(***************************************************************************)
JobGuard(r) ==
  r \in Jobs /\ (patch[r] # Free \/ pc[r] \in {"judge", "report", "failed", "clear"})

ImplGuard(r) ==
  /\ patch[r] = Free /\ pc[r] \in ImplPoints \cup {"release"}
  /\ pc[r] = "walk" => work[r].folders > 0

\* The points that only a job comes to.
JobPointsInv == \A r \in Rescans : pc[r] \in {"judge", "report", "failed", "clear"} => r \in Jobs

LEMMA StepJobPoints == TInv /\ TInv' /\ JobPointsInv /\ [Next]_vars => JobPointsInv'
<1> SUFFICES ASSUME TInv, TInv', JobPointsInv, [Next]_vars, NEW r \in Rescans, r \notin Jobs,
                    pc'[r] \in {"judge", "report", "failed", "clear"}
             PROVE  FALSE
  BY DEF JobPointsInv
<1>0. pc \in [Rescans -> Points] /\ pc[r] \notin {"judge", "report", "failed", "clear"}
  BY DEF TInv, TypeOK, JobPointsInv
<1>1. pc'[r] # pc[r]
  BY <1>0
<1>2. CASE pc[r] # "off"
  <2>1. OwnStep(r)
    BY <1>1, <1>2, OthersLeave
  <2>2. CASE StartScan(r)
    BY <2>2, StartScanFacts
  <2>3. CASE KeepIndexing(r) \/ StopIndexing(r) \/ EndSave(r)
    BY <2>3, KeepIndexingFacts, StopIndexingFacts, EndSaveFacts DEF TInv
  <2>4. CASE EnterFolder(r) \/ WalkFolder(r) \/ EndScan(r) \/ SubmitFirst(r) \/ Collect(r)
             \/ SkipIndexing(r)
    BY <1>0, <2>4 DEF EnterFolder, WalkFolder, EndScan, SubmitFirst, Collect, SkipIndexing, Goto
  <2>5. CASE StopAfterScan(r) \/ CloseImpl(r) \/ Fail(r) \/ Release(r)
    BY <1>0, <2>5 DEF StopAfterScan, CloseImpl, Leave, Fail, Release, Goto
  <2>6. QED
    BY <2>1, <2>2, <2>3, <2>4, <2>5 DEF OwnStep, Impl
<1>3. CASE pc[r] = "off" /\ \E s \in Syncs : RescanLibrary(s)
  BY <1>0, <1>3 DEF RescanLibrary, Goto
<1>4. CASE pc[r] = "off" /\ \E j \in Jobs : BeginOrCurrent(j)
  BY <1>0, <1>4 DEF BeginOrCurrent, Goto
<1>5. CASE pc[r] = "off" /\ OwnStep(r)
  <2>1. Impl(r) => pc[r] # "off"
    BY <1>5, KeepIndexingFacts, StopIndexingFacts, EndSaveFacts
       DEF TInv, Impl, StartScan, EnterFolder, WalkFolder, EndScan, StopAfterScan, SubmitFirst,
           Collect, SkipIndexing, CloseImpl, At
  <2>2. Fail(r) \/ Release(r) => pc[r] # "off"
    BY DEF Fail, Release, ImplPoints
  <2>3. QED
    BY <1>5, <2>1, <2>2 DEF OwnStep
<1>6. CASE pc[r] = "off" /\ ~OwnStep(r)
  <2>1. \A q \in Rescans : q # r /\ Impl(q) => pc'[r] = pc[r]
    <3>1. SUFFICES ASSUME NEW q \in Rescans, q # r, Impl(q) PROVE pc'[r] = pc[r]
      OBVIOUS
    <3>2. CASE StartScan(q) \/ KeepIndexing(q) \/ StopIndexing(q) \/ EndSave(q)
      BY <3>1, <3>2, StartScanFacts, KeepIndexingFacts, StopIndexingFacts, EndSaveFacts DEF TInv
    <3>3. CASE \/ EnterFolder(q) \/ WalkFolder(q) \/ EndScan(q) \/ StopAfterScan(q)
               \/ SubmitFirst(q) \/ Collect(q) \/ SkipIndexing(q) \/ CloseImpl(q)
      BY <1>0, <3>1, <3>3 DEF EnterFolder, WalkFolder, EndScan, StopAfterScan, SubmitFirst,
           Collect, SkipIndexing, CloseImpl, Leave, Goto
    <3>4. QED
      BY <3>1, <3>2, <3>3 DEF Impl
  <2>2. \A q \in Rescans : q # r /\ (Fail(q) \/ Release(q)) => pc'[r] = pc[r]
    BY <1>0 DEF Fail, Release, Goto
  <2>3. \A q \in Jobs : q # r /\ JobSteps(q) => pc'[r] = pc[r]
    BY <1>0 DEF JobSteps, Update, Judge, Report, ReportFailure, ClearCancelEvent, Goto
  <2>4. RequestCancel \/ UNCHANGED vars \/ (\E q \in Rescans : WorkerSeesCancel(q))
          => pc'[r] = pc[r]
    BY DEF RequestCancel, vars, WorkerSeesCancel
  <2>5. QED
    BY <1>1, <1>3, <1>4, <1>6, <2>1, <2>2, <2>3, <2>4 DEF Next, OwnStep
<1>7. QED
  BY <1>2, <1>5, <1>6

LEMMA SpecJobPoints == Spec => []JobPointsInv
<1>1. Init => JobPointsInv
  BY DEF Init, JobPointsInv
<1>2. QED
  BY <1>1, StepJobPoints, SpecTInv, PTL DEF Spec

LEMMA Unstuck ==
  ASSUME TInv, JobPointsInv, NEW r \in Rescans, pc[r] # "off"
  PROVE  JobGuard(r) \/ ImplGuard(r)
<1>1. pc[r] \in Points
  BY DEF TInv, TypeOK
<1>2. patch[r] # Free => r \in Jobs
  BY DEF TInv, PatchInv
<1>3. pc[r] = "walk" => work[r].folders > 0
  BY DEF TInv, WorkInv
<1>4. pc[r] \in ImplPoints \cup {"failed", "judge", "report", "release", "clear"}
  BY <1>1 DEF Points, Critical, Reporting
<1>5. QED
  BY <1>2, <1>3, <1>4 DEF JobGuard, ImplGuard, JobPointsInv

\* A rescan that has started always has a next step of its own: it waits for no other rescan, no
\* reader of the status and no further request, so the lock it holds cannot be part of a deadlock.
NobodyIsStuck == \A r \in Rescans : pc[r] # "off" => JobGuard(r) \/ ImplGuard(r)

\* No rescan that has started is ever without a next step of its own.
THEOREM RescansNeverStuck == Spec => []NobodyIsStuck
<1>1. TInv /\ JobPointsInv => NobodyIsStuck
  BY Unstuck DEF NobodyIsStuck
<1>2. QED
  BY <1>1, SpecTInv, SpecJobPoints, PTL

(***************************************************************************)
(* With the fairness of its own thread a rescan always comes closer to its *)
(* end.  Together with the bound of RescanWindsDown this is RescanEnds,    *)
(* but for the induction over the number of steps left.                    *)
(***************************************************************************)
LeftIs(r, n) == pc[r] # "off" /\ StepsLeft(r) = n
LeftLess(r, n) == pc[r] = "off" \/ StepsLeft(r) < n

LEMMA ProgressStep ==
  ASSUME TInv, TInv', NEW r \in Rescans, NEW n \in Nat, [Next]_vars, LeftIs(r, n)
  PROVE  /\ LeftLess(r, n)' \/ (LeftIs(r, n)' /\ pc'[r] = pc[r] /\ patch'[r] = patch[r]
                                 /\ work'[r] = work[r])
         /\ OwnStep(r) => LeftLess(r, n)'
<1>1. CASE OwnStep(r)
  <2>1. StepsLeft(r)' < StepsLeft(r)
    BY <1>1, Descends, Closer
  <2>2. QED
    BY <2>1 DEF LeftIs, LeftLess
<1>2. CASE ~OwnStep(r)
  <2>1. pc'[r] = pc[r] /\ work'[r] = work[r] /\ patch'[r] = patch[r]
    BY <1>2, OthersLeave DEF LeftIs
  <2>2. StepsLeft(r)' = StepsLeft(r)
    BY <2>1 DEF StepsLeft, ToDo, OwesPatch
  <2>3. QED
    BY <1>2, <2>1, <2>2 DEF LeftIs
<1>3. QED
  BY <1>1, <1>2

\* A rescan with n steps left comes to have fewer, or has ended, by the fair steps of its own
\* thread alone (a sync rescan has no job step, and for it the first fairness says nothing).
THEOREM RescanProgresses ==
  ASSUME NEW r \in Rescans, NEW n \in Nat
  PROVE  Spec /\ WF_vars(r \in Jobs /\ JobSteps(r)) /\ WF_vars(Impl(r) \/ Release(r))
              /\ [](JobGuard(r) => ENABLED <<r \in Jobs /\ JobSteps(r)>>_vars)
              /\ [](ImplGuard(r) => ENABLED <<Impl(r) \/ Release(r)>>_vars)
           => (LeftIs(r, n) ~> LeftLess(r, n))
<1> DEFINE I == TInv /\ JobPointsInv
<1>1. Spec => []I
  BY SpecTInv, SpecJobPoints, PTL
<1>2. I /\ LeftIs(r, n) => JobGuard(r) \/ ImplGuard(r)
  BY Unstuck DEF LeftIs
<1>3. I /\ I' /\ [Next]_vars =>
        /\ LeftIs(r, n) /\ JobGuard(r) => LeftLess(r, n)' \/ (LeftIs(r, n) /\ JobGuard(r))'
        /\ LeftIs(r, n) /\ ImplGuard(r) => LeftLess(r, n)' \/ (LeftIs(r, n) /\ ImplGuard(r))'
  <2>1. SUFFICES ASSUME I, I', [Next]_vars, LeftIs(r, n)
        PROVE  \/ LeftLess(r, n)'
               \/ /\ LeftIs(r, n)'
                  /\ JobGuard(r) => JobGuard(r)'
                  /\ ImplGuard(r) => ImplGuard(r)'
    OBVIOUS
  <2>2. LeftLess(r, n)' \/ (LeftIs(r, n)' /\ pc'[r] = pc[r] /\ patch'[r] = patch[r]
                            /\ work'[r] = work[r])
    BY <2>1, ProgressStep
  <2>3. QED
    BY <2>2 DEF JobGuard, ImplGuard
<1>4. I /\ I' /\ [Next]_vars =>
        /\ LeftIs(r, n) /\ <<r \in Jobs /\ JobSteps(r)>>_vars => LeftLess(r, n)'
        /\ LeftIs(r, n) /\ <<Impl(r) \/ Release(r)>>_vars => LeftLess(r, n)'
  <2>1. I /\ I' /\ [Next]_vars /\ LeftIs(r, n) /\ OwnStep(r) => LeftLess(r, n)'
    BY ProgressStep
  <2>2. QED
    BY <2>1 DEF OwnStep
<1> HIDE DEF I
<1>5. QED
  BY <1>1, <1>2, <1>3, <1>4, PTL DEF Spec

=============================================================================

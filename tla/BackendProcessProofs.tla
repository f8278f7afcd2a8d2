------------------------ MODULE BackendProcessProofs ------------------------
(***************************************************************************)
(* Proofs about BackendProcess, for any number of attempts.                *)
(***************************************************************************)
EXTENDS BackendProcess, TLAPS

States == {"none", "unborn", "booting", "healthy", "gone"}
Child == Attempts \cup {None}
Calls == [pc : {"idle", "read", "rm", "wait", "kill", "wait2", "done"}, handle : Child,
          child : Child, ok : BOOLEAN]

AllTold == \A n \in Attempts : Alive(n) => n \in told

\* Who is current, who was told, and which exits are still expected.
ChildInv ==
  /\ \A n \in Attempts :
       n > boot.attempt \/ (n = boot.attempt /\ boot.pc = "port") => proc[n] = "none"
  /\ boot.pc = "backoff" => boot.attempt < STARTUP_ATTEMPTS
  /\ \A n \in reaped : proc[n] = "gone"
  /\ backendProcess \notin reaped
  /\ Alive(boot.attempt) => backendProcess = boot.attempt
  /\ \A n \in Attempts : Alive(n) /\ n \notin told =>
       /\ backendProcess = n
       /\ boot.pc \in {"probe", "publish", "published", "ready"}
  /\ \A c \in Callers : stop[c].pc \in {"wait", "kill", "wait2"} => stop[c].child \in Attempts

\* A signal is expected to bring an exit, and what was boxed was not expected.
BoxInv ==
  /\ told \subseteq expected /\ doomed \subseteq expected
  /\ boxed \subseteq reaped
  /\ boxed \cap expected = {}

\* How the ways out exclude one another, and what calm says.
QuitInv ==
  /\ calm => isQuitting /\ Settled
  /\ app # "running" => isQuitting
  /\ stop["shutdown"].pc # "idle" =>
       app \in {"stopping", "killing", "fallback", "exited", "rejected"}
  /\ app \in {"killing", "rejected"} => Win32
  /\ clear.pc \in {"no", "asked"} => stop["clear"].pc = "idle"
  /\ clear.pc \notin {"no", "asked"} => isQuitting
  /\ \A c \in Callers : stop[c].pc # "idle" => isQuitting

\* What a call of stopBackendAndWait knows of the child of the last attempt.
StopInv ==
  calm => \A c \in Callers :
    /\ stop[c].pc \in {"wait", "kill", "wait2", "done"} => AllTold
    /\ Alive(boot.attempt) =>
         /\ stop[c].pc \in {"wait", "kill", "wait2"} => stop[c].child = boot.attempt
         /\ stop[c].pc \in {"kill", "wait2", "done"} => boot.attempt \in doomed
         /\ stop[c].pc = "done" => ~stop[c].ok

ExitInv ==
  calm /\ app \in {"leaving", "killing", "fallback", "exited", "rejected"} => AllTold

\* Whoever has to remove the discovery file.
FileInv ==
  /\ file # None =>
       /\ file = boot.attempt
       /\ \/ boot.pc = "published"
          \/ /\ boot.pc = "ready"
             /\ \/ handle = file
                \/ \E c \in Callers : stop[c].pc \in {"read", "rm"} /\ stop[c].handle = file
  /\ handle # None => boot.pc = "ready"
  /\ calm /\ stop["shutdown"].pc # "idle" => handle = None

ClearInv ==
  calm =>
    /\ clear.pc \in {"removing", "removed", "timer"} /\ clear.stopped => ~Alive(boot.attempt)
    /\ clear.pc \in {"removed", "timer"} /\ clear.success => data = "gone"

IInv ==
  /\ TypeOK /\ ChildInv /\ BoxInv /\ QuitInv /\ StopInv /\ ExitInv /\ FileInv /\ ClearInv

-----------------------------------------------------------------------------
(***************************************************************************)
(* What stopBackendAndWait does to its call, with or without a handle.     *)
(***************************************************************************)
LEMMA CallsTyped ==
  ASSUME TypeOK, NEW c \in Callers, NEW r \in Calls
  PROVE  /\ [stop EXCEPT ![c] = r] \in [Callers -> Calls]
         /\ [stop EXCEPT ![c] = r][c] = r
         /\ \A d \in Callers \ {c} : [stop EXCEPT ![c] = r][d] = stop[d]
BY DEF TypeOK, Calls, Child

\* The outcome r of a call of caller c that found backendProcess.
Signalled(r) ==
  \/ backendProcess = None /\ r = Answer(TRUE) /\ UNCHANGED <<told, expected>>
  \/ /\ backendProcess \in Attempts
     /\ told' = told \cup {backendProcess} /\ expected' = expected \cup {backendProcess}
     /\ \/ r = Answer(TRUE) /\ ~Alive(backendProcess)
        \/ r.pc = "wait" /\ r.child = backendProcess

\* The outcome of a call that has just begun.
Begun(r) ==
  /\ handle' = None
  /\ \/ /\ handle # None /\ r.pc = "read" /\ r.handle = handle
        /\ UNCHANGED <<told, expected>>
     \/ handle = None /\ Signalled(r)

LEMMA Signals ==
  ASSUME TypeOK, ChildInv, NEW c \in Callers, SignalCurrent(c)
  PROVE  \E r \in Calls : stop' = [stop EXCEPT ![c] = r] /\ Signalled(r)
<1>1. CASE backendProcess = None
  <2>1. Answer(TRUE) \in Calls
    BY DEF Answer, Calls, Child
  <2> QED BY <1>1, <2>1 DEF SignalCurrent, Signalled
<1>2. CASE backendProcess # None /\ GoneAtOnce(backendProcess)
  <2>1. Answer(TRUE) \in Calls
    BY DEF Answer, Calls, Child
  <2>2. ~Alive(backendProcess)
    BY <1>2 DEF GoneAtOnce, Alive, ChildInv
  <2> QED BY <1>2, <2>1, <2>2 DEF SignalCurrent, Signalled, TypeOK
<1>3. CASE backendProcess # None /\ ~GoneAtOnce(backendProcess)
  <2> DEFINE r == [pc |-> "wait", handle |-> None, child |-> backendProcess, ok |-> FALSE]
  <2>1. r \in Calls
    BY DEF TypeOK, Calls, Child
  <2>2. stop' = [stop EXCEPT ![c] = r] /\ Signalled(r)
    BY <1>3 DEF SignalCurrent, Signalled, TypeOK
  <2> QED BY <2>1, <2>2
<1> QED BY <1>1, <1>2, <1>3

LEMMA Begins ==
  ASSUME TypeOK, ChildInv, NEW c \in Callers, StopBegin(c)
  PROVE  \E r \in Calls : stop' = [stop EXCEPT ![c] = r] /\ Begun(r)
<1>1. CASE handle = None
  BY <1>1, Signals DEF StopBegin, Begun
<1>2. CASE handle # None
  <2> DEFINE r == [Idle EXCEPT !.pc = "read", !.handle = handle]
  <2>1. r \in Calls /\ r.pc = "read" /\ r.handle = handle
    BY DEF TypeOK, Calls, Child, Idle
  <2>2. stop' = [stop EXCEPT ![c] = r]
    BY <1>2 DEF StopBegin
  <2> HIDE DEF r
  <2> QED BY <1>2, <2>1, <2>2 DEF StopBegin, Begun
<1> QED BY <1>1, <1>2

LEMMA QuitTypes ==
  ASSUME TypeOK, BeginQuitting
  PROVE  isQuitting' \in BOOLEAN /\ calm' \in BOOLEAN
<1>1. isQuitting' \in BOOLEAN
  BY DEF BeginQuitting
<1>2. CASE isQuitting
  <2>1. calm' = calm
    BY <1>2, Zenon DEF BeginQuitting
  <2> QED BY <1>1, <2>1 DEF TypeOK
<1>3. CASE ~isQuitting
  <2>1. calm' = Settled
    BY <1>3, Zenon DEF BeginQuitting
  <2>2. Settled \in BOOLEAN
    BY SMT DEF Settled
  <2> QED BY <1>1, <2>1, <2>2, Zenon
<1> QED BY <1>2, <1>3

-----------------------------------------------------------------------------
(***************************************************************************)
(* Each action keeps the invariant.                                        *)
(***************************************************************************)
LEMMA BootsStep == ASSUME IInv, NEW n \in Attempts, Boots(n) PROVE IInv'
<1> USE AttemptsAssumption, NoneAssumption
         DEF Boots, Turn, Running, osVars, exitVars, discoveryVars, quitVars,
         Attempts, Callers, Alive, Settled, AllTold
<1>0. TypeOK'
  BY DEF IInv, TypeOK
<1>1. ChildInv' /\ BoxInv'
  BY DEF IInv, TypeOK, ChildInv, BoxInv
<1>2. QuitInv' /\ StopInv' /\ ExitInv'
  BY DEF IInv, TypeOK, ChildInv, QuitInv, StopInv, ExitInv
<1>3. FileInv' /\ ClearInv'
  BY DEF IInv, TypeOK, ChildInv, QuitInv, StopInv, FileInv, ClearInv
<1> QED BY <1>0, <1>1, <1>2, <1>3 DEF IInv

LEMMA DiesStep == ASSUME IInv, NEW n \in Attempts, Dies(n) PROVE IInv'
<1> USE AttemptsAssumption, NoneAssumption
         DEF Dies, Turn, Running, osVars, exitVars, discoveryVars, quitVars,
         Attempts, Callers, Alive, Settled, AllTold
<1>1. TypeOK'
  BY DEF IInv, TypeOK
<1>2. ChildInv' /\ BoxInv'
  BY SMTT(30) DEF IInv, TypeOK, ChildInv, BoxInv
<1>3. QuitInv' /\ StopInv' /\ ExitInv'
  BY DEF IInv, TypeOK, ChildInv, QuitInv, StopInv, ExitInv
<1>4. FileInv' /\ ClearInv'
  BY DEF IInv, TypeOK, ChildInv, QuitInv, StopInv, FileInv, ClearInv
<1> QED BY <1>1, <1>2, <1>3, <1>4 DEF IInv

LEMMA StopSeesExitStep == ASSUME IInv, NEW c \in Callers, StopSeesExit(c) PROVE IInv'
<1> USE AttemptsAssumption, NoneAssumption
         DEF StopSeesExit, Answer, Turn, Running, osVars, exitVars, discoveryVars, quitVars,
         Attempts, Callers, Alive, Settled, AllTold
<1>0. TypeOK'
  BY DEF IInv, TypeOK
<1>1. ChildInv' /\ BoxInv'
  BY DEF IInv, TypeOK, ChildInv, BoxInv
<1>2. QuitInv' /\ StopInv' /\ ExitInv'
  BY DEF IInv, TypeOK, ChildInv, QuitInv, StopInv, ExitInv
<1>3. FileInv' /\ ClearInv'
  BY DEF IInv, TypeOK, ChildInv, QuitInv, StopInv, FileInv, ClearInv
<1> QED BY <1>0, <1>1, <1>2, <1>3 DEF IInv

LEMMA StopGivesUpStep == ASSUME IInv, NEW c \in Callers, StopGivesUp(c) PROVE IInv'
<1> USE AttemptsAssumption, NoneAssumption
         DEF StopGivesUp, Answer, Turn, Running, osVars, exitVars, discoveryVars, quitVars,
         Attempts, Callers, Alive, Settled, AllTold
<1>0. TypeOK'
  BY DEF IInv, TypeOK
<1>1. ChildInv' /\ BoxInv'
  BY DEF IInv, TypeOK, ChildInv, BoxInv
<1>2. QuitInv' /\ StopInv' /\ ExitInv'
  BY DEF IInv, TypeOK, ChildInv, QuitInv, StopInv, ExitInv
<1>3. FileInv' /\ ClearInv'
  BY DEF IInv, TypeOK, ChildInv, QuitInv, StopInv, FileInv, ClearInv
<1> QED BY <1>0, <1>1, <1>2, <1>3 DEF IInv

LEMMA ShutdownEndsWaitStep == ASSUME IInv, ShutdownEndsWait PROVE IInv'
<1> USE AttemptsAssumption, NoneAssumption
         DEF ShutdownEndsWait, Turn, Running, osVars, exitVars, discoveryVars, quitVars,
         Attempts, Callers, Alive, Settled, AllTold
<1>0. TypeOK'
  BY DEF IInv, TypeOK
<1>1. ChildInv' /\ BoxInv'
  BY DEF IInv, TypeOK, ChildInv, BoxInv
<1>2. QuitInv' /\ StopInv' /\ ExitInv'
  BY DEF IInv, TypeOK, ChildInv, QuitInv, StopInv, ExitInv
<1>3. FileInv' /\ ClearInv'
  BY DEF IInv, TypeOK, ChildInv, QuitInv, StopInv, FileInv, ClearInv
<1> QED BY <1>0, <1>1, <1>2, <1>3 DEF IInv

LEMMA ShutdownWaitsStep == ASSUME IInv, ShutdownWaits PROVE IInv'
<1> USE AttemptsAssumption, NoneAssumption
         DEF ShutdownWaits, Turn, Running, osVars, exitVars, discoveryVars, quitVars,
         Attempts, Callers, Alive, Settled, AllTold
<1>0. TypeOK'
  BY DEF IInv, TypeOK
<1>1. ChildInv' /\ BoxInv'
  BY DEF IInv, TypeOK, ChildInv, BoxInv
<1>2. QuitInv' /\ StopInv' /\ ExitInv'
  BY DEF IInv, TypeOK, ChildInv, QuitInv, StopInv, ExitInv
<1>3. FileInv' /\ ClearInv'
  BY DEF IInv, TypeOK, ChildInv, QuitInv, StopInv, FileInv, ClearInv
<1> QED BY <1>0, <1>1, <1>2, <1>3 DEF IInv

LEMMA LeavesStep == ASSUME IInv, Leaves PROVE IInv'
<1> USE AttemptsAssumption, NoneAssumption
         DEF Leaves, Turn, Running, osVars, exitVars, discoveryVars, quitVars,
         Attempts, Callers, Alive, Settled, AllTold
<1>0. TypeOK'
  BY DEF IInv, TypeOK
<1>1. ChildInv' /\ BoxInv'
  BY DEF IInv, TypeOK, ChildInv, BoxInv
<1>2. QuitInv' /\ StopInv' /\ ExitInv'
  BY DEF IInv, TypeOK, ChildInv, QuitInv, StopInv, ExitInv
<1>3. FileInv' /\ ClearInv'
  BY DEF IInv, TypeOK, ChildInv, QuitInv, StopInv, FileInv, ClearInv
<1> QED BY <1>0, <1>1, <1>2, <1>3 DEF IInv

LEMMA SpawnBackendStep == ASSUME IInv, SpawnBackend PROVE IInv'
<1> USE AttemptsAssumption, NoneAssumption
         DEF SpawnBackend, At, Turn, Running, osVars, exitVars, discoveryVars, quitVars,
         Attempts, Callers, Alive, Settled, AllTold
<1>0. TypeOK'
  BY DEF IInv, TypeOK
<1>1. ChildInv' /\ BoxInv'
  BY DEF IInv, TypeOK, ChildInv, BoxInv
<1>2. QuitInv' /\ StopInv' /\ ExitInv'
  BY DEF IInv, TypeOK, ChildInv, QuitInv, StopInv, ExitInv
<1>3. FileInv' /\ ClearInv'
  BY DEF IInv, TypeOK, ChildInv, QuitInv, StopInv, FileInv, ClearInv
<1> QED BY <1>0, <1>1, <1>2, <1>3 DEF IInv

LEMMA PortFailsStep == ASSUME IInv, PortFails PROVE IInv'
<1> USE AttemptsAssumption, NoneAssumption
         DEF PortFails, At, Turn, Running, osVars, exitVars, discoveryVars, quitVars,
         Attempts, Callers, Alive, Settled, AllTold
<1>0. TypeOK'
  BY DEF IInv, TypeOK
<1>1. ChildInv' /\ BoxInv'
  BY DEF IInv, TypeOK, ChildInv, BoxInv
<1>2. QuitInv' /\ StopInv' /\ ExitInv'
  BY DEF IInv, TypeOK, ChildInv, QuitInv, StopInv, ExitInv
<1>3. FileInv' /\ ClearInv'
  BY DEF IInv, TypeOK, ChildInv, QuitInv, StopInv, FileInv, ClearInv
<1> QED BY <1>0, <1>1, <1>2, <1>3 DEF IInv

LEMMA AttemptFailsStep == ASSUME IInv, AttemptFails PROVE IInv'
<1> USE AttemptsAssumption, NoneAssumption
         DEF AttemptFails, StopBackend, CleanupDiscoverySync, Turn, Running, osVars, exitVars,
             discoveryVars, quitVars,
         Attempts, Callers, Alive, Settled, AllTold
<1>0. TypeOK'
  BY DEF IInv, TypeOK
<1>1. ChildInv' /\ BoxInv'
  BY DEF IInv, TypeOK, ChildInv, BoxInv
<1>2. QuitInv' /\ StopInv' /\ ExitInv'
  BY DEF IInv, TypeOK, ChildInv, QuitInv, StopInv, ExitInv
<1>3. FileInv' /\ ClearInv'
  BY DEF IInv, TypeOK, ChildInv, QuitInv, StopInv, FileInv, ClearInv
<1> QED BY <1>0, <1>1, <1>2, <1>3 DEF IInv

LEMMA NextAttemptStep == ASSUME IInv, NextAttempt PROVE IInv'
<1> USE AttemptsAssumption, NoneAssumption
         DEF NextAttempt, At, Turn, Running, osVars, exitVars, discoveryVars, quitVars,
         Attempts, Callers, Alive, Settled, AllTold
<1>0. TypeOK'
  BY DEF IInv, TypeOK, ChildInv
<1>1. ChildInv' /\ BoxInv'
  BY SMTT(30) DEF IInv, TypeOK, ChildInv, BoxInv
<1>2. QuitInv' /\ StopInv' /\ ExitInv'
  BY DEF IInv, TypeOK, ChildInv, QuitInv, StopInv, ExitInv
<1>3. FileInv' /\ ClearInv'
  BY DEF IInv, TypeOK, ChildInv, QuitInv, StopInv, FileInv, ClearInv
<1> QED BY <1>0, <1>1, <1>2, <1>3 DEF IInv

LEMMA ProbeOkStep == ASSUME IInv, ProbeOk PROVE IInv'
<1> USE AttemptsAssumption, NoneAssumption
         DEF ProbeOk, At, Turn, Running, osVars, exitVars, discoveryVars, quitVars,
         Attempts, Callers, Alive, Settled, AllTold
<1>0. TypeOK'
  BY DEF IInv, TypeOK
<1>1. ChildInv' /\ BoxInv'
  BY DEF IInv, TypeOK, ChildInv, BoxInv
<1>2. QuitInv' /\ StopInv' /\ ExitInv'
  BY DEF IInv, TypeOK, ChildInv, QuitInv, StopInv, ExitInv
<1>3. FileInv' /\ ClearInv'
  BY DEF IInv, TypeOK, ChildInv, QuitInv, StopInv, FileInv, ClearInv
<1> QED BY <1>0, <1>1, <1>2, <1>3 DEF IInv

LEMMA PublishRenamesStep == ASSUME IInv, PublishRenames PROVE IInv'
<1> USE AttemptsAssumption, NoneAssumption
         DEF PublishRenames, At, Turn, Running, osVars, exitVars, discoveryVars, quitVars,
         Attempts, Callers, Alive, Settled, AllTold
<1>0. TypeOK'
  BY DEF IInv, TypeOK
<1>1. ChildInv' /\ BoxInv'
  BY DEF IInv, TypeOK, ChildInv, BoxInv
<1>2. QuitInv' /\ StopInv' /\ ExitInv'
  BY DEF IInv, TypeOK, ChildInv, QuitInv, StopInv, ExitInv
<1>3. FileInv' /\ ClearInv'
  BY DEF IInv, TypeOK, ChildInv, QuitInv, StopInv, FileInv, ClearInv
<1> QED BY <1>0, <1>1, <1>2, <1>3 DEF IInv

LEMMA PublishSkippedStep == ASSUME IInv, PublishSkipped PROVE IInv'
<1> USE AttemptsAssumption, NoneAssumption
         DEF PublishSkipped, At, Turn, Running, osVars, exitVars, discoveryVars, quitVars,
         Attempts, Callers, Alive, Settled, AllTold
<1>0. TypeOK'
  BY DEF IInv, TypeOK
<1>1. ChildInv' /\ BoxInv'
  BY DEF IInv, TypeOK, ChildInv, BoxInv
<1>2. QuitInv' /\ StopInv' /\ ExitInv'
  BY DEF IInv, TypeOK, ChildInv, QuitInv, StopInv, ExitInv
<1>3. FileInv' /\ ClearInv'
  BY DEF IInv, TypeOK, ChildInv, QuitInv, StopInv, FileInv, ClearInv
<1> QED BY <1>0, <1>1, <1>2, <1>3 DEF IInv

LEMMA PublishStoresHandleStep == ASSUME IInv, PublishStoresHandle PROVE IInv'
<1> USE AttemptsAssumption, NoneAssumption
         DEF PublishStoresHandle, At, Turn, Running, osVars, exitVars, discoveryVars, quitVars,
         Attempts, Callers, Alive, Settled, AllTold
<1>0. TypeOK'
  BY DEF IInv, TypeOK
<1>1. ChildInv' /\ BoxInv'
  BY DEF IInv, TypeOK, ChildInv, BoxInv
<1>2. QuitInv' /\ StopInv' /\ ExitInv'
  BY DEF IInv, TypeOK, ChildInv, QuitInv, StopInv, ExitInv
<1>3. FileInv' /\ ClearInv'
  BY DEF IInv, TypeOK, ChildInv, QuitInv, StopInv, FileInv, ClearInv
<1> QED BY <1>0, <1>1, <1>2, <1>3 DEF IInv

LEMMA ClearAskedStep == ASSUME IInv, ClearAsked PROVE IInv'
<1> USE AttemptsAssumption, NoneAssumption
         DEF ClearAsked, Turn, Running, osVars, exitVars, discoveryVars, quitVars,
         Attempts, Callers, Alive, Settled, AllTold
<1>0. TypeOK'
  BY DEF IInv, TypeOK
<1>1. ChildInv' /\ BoxInv'
  BY DEF IInv, TypeOK, ChildInv, BoxInv
<1>2. QuitInv' /\ StopInv' /\ ExitInv'
  BY DEF IInv, TypeOK, ChildInv, QuitInv, StopInv, ExitInv
<1>3. FileInv' /\ ClearInv'
  BY DEF IInv, TypeOK, ChildInv, QuitInv, StopInv, FileInv, ClearInv
<1> QED BY <1>0, <1>1, <1>2, <1>3 DEF IInv

LEMMA ClearStoppedStep == ASSUME IInv, ClearStopped PROVE IInv'
<1> USE AttemptsAssumption, NoneAssumption
         DEF ClearStopped, ClearDue, Turn, Running, osVars, exitVars, discoveryVars, quitVars
<1>1. TypeOK'
  <2>1. stop["clear"].ok \in BOOLEAN
    BY DEF IInv, TypeOK, Callers
  <2>2. PICK ok \in BOOLEAN : clear' = [clear EXCEPT !.pc = "removing", !.stopped = ok]
    BY <2>1
  <2>3. clear' \in [pc : {"no", "asked", "stopping", "removing", "removed", "timer", "over"},
                    stopped : BOOLEAN, success : BOOLEAN]
    BY <2>2 DEF IInv, TypeOK
  <2>4. UNCHANGED <<osVars, exitVars, boot, discoveryVars, stop, quitVars, data>>
    OBVIOUS
  <2>5. QED
    BY <2>3, <2>4 DEF IInv, TypeOK
<1>2. ChildInv' /\ BoxInv'
  BY DEF IInv, TypeOK, ChildInv, BoxInv, Alive
<1>3. QuitInv' /\ StopInv' /\ ExitInv'
  BY DEF IInv, TypeOK, QuitInv, StopInv, ExitInv, Callers, Alive, Settled, AllTold
<1>4. FileInv' /\ ClearInv'
  BY DEF IInv, TypeOK, StopInv, FileInv, ClearInv, Callers, Alive
<1> QED BY <1>1, <1>2, <1>3, <1>4 DEF IInv

LEMMA ClearRemovesDataStep == ASSUME IInv, ClearRemovesData PROVE IInv'
<1> USE AttemptsAssumption, NoneAssumption
         DEF ClearRemovesData, Turn, Running, osVars, exitVars, discoveryVars, quitVars
<1>1. clear' \in [pc : {"removed", "timer"}, stopped : {clear.stopped}, success : BOOLEAN]
      /\ data' \in {"there", "gone"}
      /\ (clear'.success => clear.success \/ data' = "gone")
  BY DEF IInv, TypeOK
<1>2. TypeOK' /\ ChildInv' /\ BoxInv'
  BY <1>1 DEF IInv, TypeOK, ChildInv, BoxInv, Alive
<1>3. QuitInv' /\ StopInv' /\ ExitInv'
  BY <1>1 DEF IInv, TypeOK, QuitInv, StopInv, ExitInv, Callers, Alive, Settled, AllTold
<1>4. FileInv' /\ ClearInv'
  BY <1>1 DEF IInv, TypeOK, StopInv, FileInv, ClearInv, Callers, Alive
<1> QED BY <1>1, <1>2, <1>3, <1>4 DEF IInv

LEMMA ClearFinishesStep == ASSUME IInv, ClearFinishes PROVE IInv'
<1> USE AttemptsAssumption, NoneAssumption
         DEF ClearFinishes, Turn, Running, osVars, exitVars, discoveryVars, quitVars
<1>1. clear' \in [pc : {"removed", "timer"}, stopped : {clear.stopped}, success : BOOLEAN]
      /\ data' \in {"there", "gone"}
      /\ (clear'.success => clear.success \/ data' = "gone")
  BY DEF IInv, TypeOK
<1>2. TypeOK' /\ ChildInv' /\ BoxInv'
  BY <1>1 DEF IInv, TypeOK, ChildInv, BoxInv, Alive
<1>3. QuitInv' /\ StopInv' /\ ExitInv'
  BY <1>1 DEF IInv, TypeOK, QuitInv, StopInv, ExitInv, Callers, Alive, Settled, AllTold
<1>4. FileInv' /\ ClearInv'
  BY <1>1 DEF IInv, TypeOK, StopInv, FileInv, ClearInv, Callers, Alive
<1> QED BY <1>1, <1>2, <1>3, <1>4 DEF IInv

LEMMA StopReadsStep == ASSUME IInv, NEW c \in Callers, StopReads(c) PROVE IInv'
<1>1. CASE file = stop[c].handle
  <2> DEFINE r == [stop[c] EXCEPT !.pc = "rm"]
  <2>1. r \in Calls /\ r.pc = "rm" /\ r.handle = stop[c].handle
    BY DEF IInv, TypeOK, Calls, Child
  <2>2. stop' = [stop EXCEPT ![c] = r] /\ UNCHANGED <<told, expected>>
    BY <1>1 DEF StopReads
  <2> HIDE DEF r
  <2>3. /\ stop' \in [Callers -> Calls] /\ stop'[c] = r
        /\ \A d \in Callers \ {c} : stop'[d] = stop[d]
    BY <2>1, <2>2, CallsTyped DEF IInv
  <2>4. TypeOK' /\ BoxInv'
    BY <2>1, <2>2, <2>3
       DEF StopReads, Turn, Running, osVars, exitVars, discoveryVars, quitVars, IInv, TypeOK,
           ChildInv, BoxInv, Calls, Child, Settled, Callers
  <2>5. ChildInv'
    BY AttemptsAssumption, NoneAssumption, <2>1, <2>2, <2>3
       DEF StopReads, Turn, Running, osVars, exitVars, discoveryVars, quitVars, IInv, TypeOK,
           ChildInv, BoxInv, QuitInv, Attempts, Callers, Alive, Settled, AllTold
  <2>6. QuitInv' /\ StopInv' /\ ExitInv'
    BY AttemptsAssumption, NoneAssumption, <2>1, <2>2, <2>3
       DEF StopReads, Turn, Running, osVars, exitVars, discoveryVars, quitVars, IInv, TypeOK,
           ChildInv, QuitInv, StopInv, ExitInv, Attempts, Callers, Alive, Settled, AllTold
  <2>7. FileInv' /\ ClearInv'
    BY AttemptsAssumption, NoneAssumption, <2>1, <2>2, <2>3
       DEF StopReads, Turn, Running, osVars, exitVars, discoveryVars, quitVars, IInv, TypeOK,
           ChildInv, QuitInv, StopInv, FileInv, ClearInv, Attempts, Callers, Alive, Settled,
           AllTold
  <2> QED BY <2>4, <2>5, <2>6, <2>7 DEF IInv
<1>2. CASE file # stop[c].handle
  <2>1. PICK r \in Calls : stop' = [stop EXCEPT ![c] = r] /\ Signalled(r)
    BY <1>2, Signals DEF StopReads, IInv
  <2>2. /\ stop' \in [Callers -> Calls] /\ stop'[c] = r
        /\ \A d \in Callers \ {c} : stop'[d] = stop[d]
    BY <2>1, CallsTyped DEF IInv
  <2>3. TypeOK' /\ BoxInv'
    BY <1>2, <2>1, <2>2
       DEF StopReads, Signalled, Answer, Turn, Running, osVars, exitVars, discoveryVars,
           quitVars, IInv, TypeOK, ChildInv, BoxInv, Calls, Child, Settled, Callers
  <2>4. ChildInv'
    BY AttemptsAssumption, NoneAssumption, <1>2, <2>1, <2>2
       DEF StopReads, Signalled, Answer, Turn, Running, osVars, exitVars, discoveryVars,
           quitVars, IInv, TypeOK, ChildInv, BoxInv, QuitInv, Attempts, Callers, Alive, Settled,
           AllTold
  <2>5. QuitInv' /\ StopInv' /\ ExitInv'
    BY AttemptsAssumption, NoneAssumption, <1>2, <2>1, <2>2
       DEF StopReads, Signalled, Answer, Turn, Running, osVars, exitVars, discoveryVars,
           quitVars, IInv, TypeOK, ChildInv, QuitInv, StopInv, ExitInv, Attempts, Callers,
           Alive, Settled, AllTold
  <2>6. FileInv' /\ ClearInv'
    BY AttemptsAssumption, NoneAssumption, <1>2, <2>1, <2>2
       DEF StopReads, Signalled, Answer, Turn, Running, osVars, exitVars, discoveryVars,
           quitVars, IInv, TypeOK, ChildInv, QuitInv, StopInv, FileInv, ClearInv, Attempts,
           Callers, Alive, Settled, AllTold
  <2> QED BY <2>3, <2>4, <2>5, <2>6 DEF IInv
<1> QED BY <1>1, <1>2

LEMMA StopRemovesStep == ASSUME IInv, NEW c \in Callers, StopRemoves(c) PROVE IInv'
<1>1. PICK r \in Calls : stop' = [stop EXCEPT ![c] = r] /\ Signalled(r)
  BY Signals DEF StopRemoves, IInv
<1>2. /\ stop' \in [Callers -> Calls] /\ stop'[c] = r
      /\ \A d \in Callers \ {c} : stop'[d] = stop[d]
  BY <1>1, CallsTyped DEF IInv
  <1>3. TypeOK' /\ BoxInv'
    BY <1>1, <1>2
       DEF StopRemoves, Signalled, Answer, Turn, Running, osVars, exitVars, discoveryVars,
           quitVars, IInv, TypeOK, ChildInv, BoxInv, Calls, Child, Settled, Callers
  <1>4. ChildInv'
    BY AttemptsAssumption, NoneAssumption, <1>1, <1>2
       DEF StopRemoves, Signalled, Answer, Turn, Running, osVars, exitVars, discoveryVars,
           quitVars, IInv, TypeOK, ChildInv, BoxInv, QuitInv, Attempts, Callers, Alive, Settled,
           AllTold
  <1>5. QuitInv' /\ StopInv' /\ ExitInv'
    BY AttemptsAssumption, NoneAssumption, <1>1, <1>2
       DEF StopRemoves, Signalled, Answer, Turn, Running, osVars, exitVars, discoveryVars,
           quitVars, IInv, TypeOK, ChildInv, QuitInv, StopInv, ExitInv, Attempts, Callers,
           Alive, Settled, AllTold
  <1>6. FileInv' /\ ClearInv'
    BY AttemptsAssumption, NoneAssumption, <1>1, <1>2
       DEF StopRemoves, Signalled, Answer, Turn, Running, osVars, exitVars, discoveryVars,
           quitVars, IInv, TypeOK, ChildInv, QuitInv, StopInv, FileInv, ClearInv, Attempts,
           Callers, Alive, Settled, AllTold
  <1> QED BY <1>3, <1>4, <1>5, <1>6 DEF IInv

LEMMA StopTimesOutStep == ASSUME IInv, NEW c \in Callers, StopTimesOut(c) PROVE IInv'
<1> DEFINE child == stop[c].child
           r == IF Win32 THEN [stop[c] EXCEPT !.pc = "kill"] ELSE WaitAgain(stop[c])
<1>1. child \in Attempts
  BY DEF StopTimesOut, IInv, ChildInv
<1>2. /\ r \in Calls
      /\ \/ r = Answer(TRUE) /\ (backendProcess # child \/ ~Alive(child))
         \/ r.pc \in {"kill", "wait2"} /\ r.child = child
  BY DEF StopTimesOut, WaitAgain, GoneAtOnce, Alive, IInv, TypeOK, ChildInv, Calls, Child,
         Answer
<1>3. stop' = [stop EXCEPT ![c] = r]
  BY DEF StopTimesOut
<1> HIDE DEF r
<1>4. /\ stop' \in [Callers -> Calls] /\ stop'[c] = r
      /\ \A d \in Callers \ {c} : stop'[d] = stop[d]
  BY <1>2, <1>3, CallsTyped DEF IInv
  <1>5. TypeOK' /\ BoxInv'
    BY <1>1, <1>2, <1>4
       DEF StopTimesOut, Answer, Turn, Running, osVars, exitVars, discoveryVars, quitVars, IInv,
           TypeOK, ChildInv, BoxInv, Calls, Child, Settled, Callers
  <1>6. ChildInv'
    BY AttemptsAssumption, NoneAssumption, <1>1, <1>2, <1>4
       DEF StopTimesOut, Answer, Turn, Running, osVars, exitVars, discoveryVars, quitVars, IInv,
           TypeOK, ChildInv, BoxInv, QuitInv, Attempts, Callers, Alive, Settled, AllTold
  <1>7. QuitInv' /\ StopInv' /\ ExitInv'
    BY AttemptsAssumption, NoneAssumption, <1>1, <1>2, <1>4
       DEF StopTimesOut, Answer, Turn, Running, osVars, exitVars, discoveryVars, quitVars, IInv,
           TypeOK, ChildInv, QuitInv, StopInv, ExitInv, Attempts, Callers, Alive, Settled,
           AllTold
  <1>8. FileInv' /\ ClearInv'
    BY AttemptsAssumption, NoneAssumption, <1>1, <1>2, <1>4
       DEF StopTimesOut, Answer, Turn, Running, osVars, exitVars, discoveryVars, quitVars, IInv,
           TypeOK, ChildInv, QuitInv, StopInv, FileInv, ClearInv, Attempts, Callers, Alive,
           Settled, AllTold
  <1> QED BY <1>5, <1>6, <1>7, <1>8 DEF IInv

LEMMA StopKilledStep == ASSUME IInv, NEW c \in Callers, StopKilled(c) PROVE IInv'
<1> DEFINE child == stop[c].child
           r == WaitAgain(stop[c])
<1>1. child \in Attempts
  BY DEF StopKilled, IInv, ChildInv
<1>2. /\ r \in Calls
      /\ \/ r = Answer(TRUE) /\ (backendProcess # child \/ ~Alive(child))
         \/ r.pc = "wait2" /\ r.child = child
  BY DEF StopKilled, WaitAgain, GoneAtOnce, Alive, IInv, TypeOK, ChildInv, Calls, Child,
         Answer
<1>3. stop' = [stop EXCEPT ![c] = r]
  BY DEF StopKilled
<1> HIDE DEF r
<1>4. /\ stop' \in [Callers -> Calls] /\ stop'[c] = r
      /\ \A d \in Callers \ {c} : stop'[d] = stop[d]
  BY <1>2, <1>3, CallsTyped DEF IInv
  <1>5. TypeOK' /\ BoxInv'
    BY <1>1, <1>2, <1>4
       DEF StopKilled, Answer, Turn, Running, osVars, exitVars, discoveryVars, quitVars, IInv,
           TypeOK, ChildInv, BoxInv, Calls, Child, Settled, Callers
  <1>6. ChildInv'
    BY AttemptsAssumption, NoneAssumption, <1>1, <1>2, <1>4
       DEF StopKilled, Answer, Turn, Running, osVars, exitVars, discoveryVars, quitVars, IInv,
           TypeOK, ChildInv, BoxInv, QuitInv, Attempts, Callers, Alive, Settled, AllTold
  <1>7. QuitInv' /\ StopInv' /\ ExitInv'
    BY AttemptsAssumption, NoneAssumption, <1>1, <1>2, <1>4
       DEF StopKilled, Answer, Turn, Running, osVars, exitVars, discoveryVars, quitVars, IInv,
           TypeOK, ChildInv, QuitInv, StopInv, ExitInv, Attempts, Callers, Alive, Settled,
           AllTold
  <1>8. FileInv' /\ ClearInv'
    BY AttemptsAssumption, NoneAssumption, <1>1, <1>2, <1>4
       DEF StopKilled, Answer, Turn, Running, osVars, exitVars, discoveryVars, quitVars, IInv,
           TypeOK, ChildInv, QuitInv, StopInv, FileInv, ClearInv, Attempts, Callers, Alive,
           Settled, AllTold
  <1> QED BY <1>5, <1>6, <1>7, <1>8 DEF IInv

LEMMA UserQuitsStep == ASSUME IInv, UserQuits PROVE IInv'
<1>1. PICK r \in Calls : stop' = [stop EXCEPT !["shutdown"] = r] /\ Begun(r)
  BY Begins DEF UserQuits, RequestAppQuit, Callers, IInv
<1>2. /\ stop' \in [Callers -> Calls] /\ stop'["shutdown"] = r
      /\ \A d \in Callers \ {"shutdown"} : stop'[d] = stop[d]
  BY <1>1, CallsTyped DEF IInv, Callers
  <1>3. TypeOK' /\ BoxInv'
    BY <1>1, <1>2, QuitTypes
       DEF UserQuits, RequestAppQuit, Begun, Signalled, Answer, Turn, Running, osVars, exitVars,
           discoveryVars, quitVars, IInv, TypeOK, ChildInv, BoxInv, Calls, Child, Settled,
           Callers
  <1>4. ChildInv'
    BY AttemptsAssumption, NoneAssumption, <1>1, <1>2
       DEF UserQuits, RequestAppQuit, BeginQuitting, Begun, Signalled, Answer, Turn, Running,
           osVars, exitVars, discoveryVars, quitVars, IInv, TypeOK, ChildInv, BoxInv, QuitInv,
           Attempts, Callers, Alive, Settled, AllTold
  <1>5. QuitInv' /\ StopInv' /\ ExitInv'
    BY AttemptsAssumption, NoneAssumption, <1>1, <1>2
       DEF UserQuits, RequestAppQuit, BeginQuitting, Begun, Signalled, Answer, Turn, Running,
           osVars, exitVars, discoveryVars, quitVars, IInv, TypeOK, ChildInv, QuitInv, StopInv,
           ExitInv, Attempts, Callers, Alive, Settled, AllTold
  <1>6. FileInv' /\ ClearInv'
    BY AttemptsAssumption, NoneAssumption, <1>1, <1>2
       DEF UserQuits, RequestAppQuit, BeginQuitting, Begun, Signalled, Answer, Turn, Running,
           osVars, exitVars, discoveryVars, quitVars, IInv, TypeOK, ChildInv, QuitInv, StopInv,
           FileInv, ClearInv, Attempts, Callers, Alive, Settled, AllTold
  <1> QED BY <1>3, <1>4, <1>5, <1>6 DEF IInv

LEMMA ClearBeginsStep == ASSUME IInv, ClearBegins PROVE IInv'
<1>1. PICK r \in Calls : stop' = [stop EXCEPT !["clear"] = r] /\ Begun(r)
  BY Begins DEF ClearBegins, Callers, IInv
<1>2. /\ stop' \in [Callers -> Calls] /\ stop'["clear"] = r
      /\ \A d \in Callers \ {"clear"} : stop'[d] = stop[d]
  BY <1>1, CallsTyped DEF IInv, Callers
  <1>3. TypeOK' /\ BoxInv'
    BY <1>1, <1>2, QuitTypes
       DEF ClearBegins, Begun, Signalled, Answer, Turn, Running, osVars, exitVars,
           discoveryVars, quitVars, IInv, TypeOK, ChildInv, BoxInv, Calls, Child, Settled,
           Callers
  <1>4. ChildInv'
    BY AttemptsAssumption, NoneAssumption, <1>1, <1>2
       DEF ClearBegins, BeginQuitting, Begun, Signalled, Answer, Turn, Running, osVars,
           exitVars, discoveryVars, quitVars, IInv, TypeOK, ChildInv, BoxInv, QuitInv, Attempts,
           Callers, Alive, Settled, AllTold
  <1>5. QuitInv' /\ StopInv' /\ ExitInv'
    BY AttemptsAssumption, NoneAssumption, <1>1, <1>2
       DEF ClearBegins, BeginQuitting, Begun, Signalled, Answer, Turn, Running, osVars,
           exitVars, discoveryVars, quitVars, IInv, TypeOK, ChildInv, QuitInv, StopInv, ExitInv,
           Attempts, Callers, Alive, Settled, AllTold
  <1>6. FileInv' /\ ClearInv'
    BY AttemptsAssumption, NoneAssumption, <1>1, <1>2
       DEF ClearBegins, BeginQuitting, Begun, Signalled, Answer, Turn, Running, osVars,
           exitVars, discoveryVars, quitVars, IInv, TypeOK, ChildInv, QuitInv, StopInv, FileInv,
           ClearInv, Attempts, Callers, Alive, Settled, AllTold
  <1> QED BY <1>3, <1>4, <1>5, <1>6 DEF IInv

LEMMA StartAppFailsStep == ASSUME IInv, StartAppFails PROVE IInv'
<1>1. CASE app \in {"running", "leaving"}
  <2>1. PICK r \in Calls : stop' = [stop EXCEPT !["shutdown"] = r] /\ Begun(r)
    BY <1>1, Begins DEF StartAppFails, RequestAppQuit, Callers, IInv
  <2>2. /\ stop' \in [Callers -> Calls] /\ stop'["shutdown"] = r
        /\ \A d \in Callers \ {"shutdown"} : stop'[d] = stop[d]
    BY <2>1, CallsTyped DEF IInv, Callers
  <2>3. TypeOK' /\ BoxInv'
    BY <1>1, <2>1, <2>2, QuitTypes
       DEF StartAppFails, At, RequestAppQuit, Begun, Signalled, Answer, Turn, Running, osVars,
           exitVars, discoveryVars, quitVars, IInv, TypeOK, ChildInv, BoxInv, Calls, Child,
           Settled, Callers
  <2>4. ChildInv'
    BY AttemptsAssumption, NoneAssumption, <1>1, <2>1, <2>2
       DEF StartAppFails, At, RequestAppQuit, BeginQuitting, Begun, Signalled, Answer, Turn,
           Running, osVars, exitVars, discoveryVars, quitVars, IInv, TypeOK, ChildInv, BoxInv,
           QuitInv, Attempts, Callers, Alive, Settled, AllTold
  <2>5. QuitInv' /\ StopInv' /\ ExitInv'
    BY AttemptsAssumption, NoneAssumption, <1>1, <2>1, <2>2
       DEF StartAppFails, At, RequestAppQuit, BeginQuitting, Begun, Signalled, Answer, Turn,
           Running, osVars, exitVars, discoveryVars, quitVars, IInv, TypeOK, ChildInv, QuitInv,
           StopInv, ExitInv, Attempts, Callers, Alive, Settled, AllTold
  <2>6. FileInv' /\ ClearInv'
    BY AttemptsAssumption, NoneAssumption, <1>1, <2>1, <2>2
       DEF StartAppFails, At, RequestAppQuit, BeginQuitting, Begun, Signalled, Answer, Turn,
           Running, osVars, exitVars, discoveryVars, quitVars, IInv, TypeOK, ChildInv, QuitInv,
           StopInv, FileInv, ClearInv, Attempts, Callers, Alive, Settled, AllTold
  <2> QED BY <2>3, <2>4, <2>5, <2>6 DEF IInv
<1>2. CASE app \notin {"running", "leaving"}
  <2>1. TypeOK' /\ BoxInv'
    BY <1>2
       DEF StartAppFails, At, RequestAppQuit, Turn, Running, osVars, exitVars, discoveryVars,
           quitVars, IInv, TypeOK, ChildInv, BoxInv, Calls, Child, Settled, Callers
  <2>2. ChildInv'
    BY AttemptsAssumption, NoneAssumption, <1>2
       DEF StartAppFails, At, RequestAppQuit, Turn, Running, osVars, exitVars, discoveryVars,
           quitVars, IInv, TypeOK, ChildInv, BoxInv, QuitInv, Attempts, Callers, Alive, Settled,
           AllTold
  <2>3. QuitInv' /\ StopInv' /\ ExitInv'
    BY AttemptsAssumption, NoneAssumption, <1>2
       DEF StartAppFails, At, RequestAppQuit, Turn, Running, osVars, exitVars, discoveryVars,
           quitVars, IInv, TypeOK, ChildInv, QuitInv, StopInv, ExitInv, Attempts, Callers,
           Alive, Settled, AllTold
  <2>4. FileInv' /\ ClearInv'
    BY AttemptsAssumption, NoneAssumption, <1>2
       DEF StartAppFails, At, RequestAppQuit, Turn, Running, osVars, exitVars, discoveryVars,
           quitVars, IInv, TypeOK, ChildInv, QuitInv, StopInv, FileInv, ClearInv, Attempts,
           Callers, Alive, Settled, AllTold
  <2> QED BY <2>1, <2>2, <2>3, <2>4 DEF IInv
<1> QED BY <1>1, <1>2

LEMMA ClearExitsStep == ASSUME IInv, ClearExits PROVE IInv'
<1>1. CASE app \in {"running", "leaving"}
  <2>1. PICK r \in Calls : stop' = [stop EXCEPT !["shutdown"] = r] /\ Begun(r)
    BY <1>1, Begins DEF ClearExits, RequestAppQuit, Callers, IInv
  <2>2. /\ stop' \in [Callers -> Calls] /\ stop'["shutdown"] = r
        /\ \A d \in Callers \ {"shutdown"} : stop'[d] = stop[d]
    BY <2>1, CallsTyped DEF IInv, Callers
  <2>3. TypeOK' /\ BoxInv'
    BY <1>1, <2>1, <2>2, QuitTypes
       DEF ClearExits, RequestAppQuit, Begun, Signalled, Answer, Turn, Running, osVars,
           exitVars, discoveryVars, quitVars, IInv, TypeOK, ChildInv, BoxInv, Calls, Child,
           Settled, Callers
  <2>4. ChildInv'
    BY AttemptsAssumption, NoneAssumption, <1>1, <2>1, <2>2
       DEF ClearExits, RequestAppQuit, BeginQuitting, Begun, Signalled, Answer, Turn, Running,
           osVars, exitVars, discoveryVars, quitVars, IInv, TypeOK, ChildInv, BoxInv, QuitInv,
           Attempts, Callers, Alive, Settled, AllTold
  <2>5. QuitInv' /\ StopInv' /\ ExitInv'
    BY AttemptsAssumption, NoneAssumption, <1>1, <2>1, <2>2
       DEF ClearExits, RequestAppQuit, BeginQuitting, Begun, Signalled, Answer, Turn, Running,
           osVars, exitVars, discoveryVars, quitVars, IInv, TypeOK, ChildInv, QuitInv, StopInv,
           ExitInv, Attempts, Callers, Alive, Settled, AllTold
  <2>6. FileInv' /\ ClearInv'
    BY AttemptsAssumption, NoneAssumption, <1>1, <2>1, <2>2
       DEF ClearExits, RequestAppQuit, BeginQuitting, Begun, Signalled, Answer, Turn, Running,
           osVars, exitVars, discoveryVars, quitVars, IInv, TypeOK, ChildInv, QuitInv, StopInv,
           FileInv, ClearInv, Attempts, Callers, Alive, Settled, AllTold
  <2> QED BY <2>3, <2>4, <2>5, <2>6 DEF IInv
<1>2. CASE app \notin {"running", "leaving"}
  <2>1. TypeOK' /\ BoxInv'
    BY <1>2
       DEF ClearExits, RequestAppQuit, Turn, Running, osVars, exitVars, discoveryVars, quitVars,
           IInv, TypeOK, ChildInv, BoxInv, Calls, Child, Settled, Callers
  <2>2. ChildInv'
    BY AttemptsAssumption, NoneAssumption, <1>2
       DEF ClearExits, RequestAppQuit, Turn, Running, osVars, exitVars, discoveryVars, quitVars,
           IInv, TypeOK, ChildInv, BoxInv, QuitInv, Attempts, Callers, Alive, Settled, AllTold
  <2>3. QuitInv' /\ StopInv' /\ ExitInv'
    BY AttemptsAssumption, NoneAssumption, <1>2
       DEF ClearExits, RequestAppQuit, Turn, Running, osVars, exitVars, discoveryVars, quitVars,
           IInv, TypeOK, ChildInv, QuitInv, StopInv, ExitInv, Attempts, Callers, Alive, Settled,
           AllTold
  <2>4. FileInv' /\ ClearInv'
    BY AttemptsAssumption, NoneAssumption, <1>2
       DEF ClearExits, RequestAppQuit, Turn, Running, osVars, exitVars, discoveryVars, quitVars,
           IInv, TypeOK, ChildInv, QuitInv, StopInv, FileInv, ClearInv, Attempts, Callers,
           Alive, Settled, AllTold
  <2> QED BY <2>1, <2>2, <2>3, <2>4 DEF IInv
<1> QED BY <1>1, <1>2

LEMMA ShutdownGoesOnStep == ASSUME IInv, ShutdownGoesOn PROVE IInv'
<1>1. CASE stop["shutdown"].ok \/ backendProcess = None
  <2>1. TypeOK' /\ BoxInv'
    BY <1>1
       DEF ShutdownGoesOn, ShutdownDue, Turn, Running, osVars, exitVars, discoveryVars,
           quitVars, IInv, TypeOK, ChildInv, BoxInv, Calls, Child, Settled, Callers
  <2>2. ChildInv'
    BY AttemptsAssumption, NoneAssumption, <1>1
       DEF ShutdownGoesOn, ShutdownDue, Turn, Running, osVars, exitVars, discoveryVars,
           quitVars, IInv, TypeOK, ChildInv, BoxInv, QuitInv, Attempts, Callers, Alive, Settled,
           AllTold
  <2>3. QuitInv' /\ StopInv' /\ ExitInv'
    BY AttemptsAssumption, NoneAssumption, <1>1
       DEF ShutdownGoesOn, ShutdownDue, Turn, Running, osVars, exitVars, discoveryVars,
           quitVars, IInv, TypeOK, ChildInv, QuitInv, StopInv, ExitInv, Attempts, Callers,
           Alive, Settled, AllTold
  <2>4. FileInv' /\ ClearInv'
    BY AttemptsAssumption, NoneAssumption, <1>1
       DEF ShutdownGoesOn, ShutdownDue, Turn, Running, osVars, exitVars, discoveryVars,
           quitVars, IInv, TypeOK, ChildInv, QuitInv, StopInv, FileInv, ClearInv, Attempts,
           Callers, Alive, Settled, AllTold
  <2> QED BY <2>1, <2>2, <2>3, <2>4 DEF IInv
<1>2. CASE ~(stop["shutdown"].ok \/ backendProcess = None)
  <2>1. backendProcess \in Attempts
    BY <1>2 DEF IInv, TypeOK
  <2>2. TypeOK' /\ BoxInv'
    BY <1>2, <2>1
       DEF ShutdownGoesOn, ShutdownDue, Turn, Running, osVars, exitVars, discoveryVars,
           quitVars, IInv, TypeOK, ChildInv, BoxInv, Calls, Child, Settled, Callers
  <2>3. ChildInv'
    BY AttemptsAssumption, NoneAssumption, <1>2, <2>1
       DEF ShutdownGoesOn, ShutdownDue, Turn, Running, osVars, exitVars, discoveryVars,
           quitVars, IInv, TypeOK, ChildInv, BoxInv, QuitInv, Attempts, Callers, Alive, Settled,
           AllTold
  <2>4. QuitInv' /\ StopInv' /\ ExitInv'
    BY AttemptsAssumption, NoneAssumption, <1>2, <2>1
       DEF ShutdownGoesOn, ShutdownDue, Turn, Running, osVars, exitVars, discoveryVars,
           quitVars, IInv, TypeOK, ChildInv, QuitInv, StopInv, ExitInv, Attempts, Callers,
           Alive, Settled, AllTold
  <2>5. FileInv' /\ ClearInv'
    BY AttemptsAssumption, NoneAssumption, <1>2, <2>1
       DEF ShutdownGoesOn, ShutdownDue, Turn, Running, osVars, exitVars, discoveryVars,
           quitVars, IInv, TypeOK, ChildInv, QuitInv, StopInv, FileInv, ClearInv, Attempts,
           Callers, Alive, Settled, AllTold
  <2> QED BY <2>2, <2>3, <2>4, <2>5 DEF IInv
<1> QED BY <1>1, <1>2

LEMMA BeforeQuitStep == ASSUME IInv, BeforeQuit PROVE IInv'
<1>1. CASE backendProcess = None
  <2>1. TypeOK' /\ BoxInv'
    BY <1>1, QuitTypes
       DEF BeforeQuit, StopBackend, CleanupDiscoverySync, Turn, Running, osVars, exitVars,
           discoveryVars, quitVars, IInv, TypeOK, ChildInv, BoxInv, Calls, Child, Settled,
           Callers
  <2>2. ChildInv'
    BY AttemptsAssumption, NoneAssumption, <1>1
       DEF BeforeQuit, BeginQuitting, StopBackend, CleanupDiscoverySync, Turn, Running, osVars,
           exitVars, discoveryVars, quitVars, IInv, TypeOK, ChildInv, BoxInv, QuitInv, Attempts,
           Callers, Alive, Settled, AllTold
  <2>3. QuitInv' /\ StopInv' /\ ExitInv'
    BY AttemptsAssumption, NoneAssumption, <1>1
       DEF BeforeQuit, BeginQuitting, StopBackend, CleanupDiscoverySync, Turn, Running, osVars,
           exitVars, discoveryVars, quitVars, IInv, TypeOK, ChildInv, QuitInv, StopInv, ExitInv,
           Attempts, Callers, Alive, Settled, AllTold
  <2>4. FileInv' /\ ClearInv'
    BY AttemptsAssumption, NoneAssumption, <1>1
       DEF BeforeQuit, BeginQuitting, StopBackend, CleanupDiscoverySync, Turn, Running, osVars,
           exitVars, discoveryVars, quitVars, IInv, TypeOK, ChildInv, QuitInv, StopInv, FileInv,
           ClearInv, Attempts, Callers, Alive, Settled, AllTold
  <2> QED BY <2>1, <2>2, <2>3, <2>4 DEF IInv
<1>2. CASE backendProcess # None
  <2>1. backendProcess \in Attempts
    BY <1>2 DEF IInv, TypeOK
  <2>2. TypeOK' /\ BoxInv'
    BY <1>2, <2>1, QuitTypes
       DEF BeforeQuit, StopBackend, CleanupDiscoverySync, Turn, Running, osVars, exitVars,
           discoveryVars, quitVars, IInv, TypeOK, ChildInv, BoxInv, Calls, Child, Settled,
           Callers
  <2>3. ChildInv'
    BY AttemptsAssumption, NoneAssumption, <1>2, <2>1
       DEF BeforeQuit, BeginQuitting, StopBackend, CleanupDiscoverySync, Turn, Running, osVars,
           exitVars, discoveryVars, quitVars, IInv, TypeOK, ChildInv, BoxInv, QuitInv, Attempts,
           Callers, Alive, Settled, AllTold
  <2>4. QuitInv' /\ StopInv' /\ ExitInv'
    BY AttemptsAssumption, NoneAssumption, <1>2, <2>1
       DEF BeforeQuit, BeginQuitting, StopBackend, CleanupDiscoverySync, Turn, Running, osVars,
           exitVars, discoveryVars, quitVars, IInv, TypeOK, ChildInv, QuitInv, StopInv, ExitInv,
           Attempts, Callers, Alive, Settled, AllTold
  <2>5. FileInv' /\ ClearInv'
    BY AttemptsAssumption, NoneAssumption, <1>2, <2>1
       DEF BeforeQuit, BeginQuitting, StopBackend, CleanupDiscoverySync, Turn, Running, osVars,
           exitVars, discoveryVars, quitVars, IInv, TypeOK, ChildInv, QuitInv, StopInv, FileInv,
           ClearInv, Attempts, Callers, Alive, Settled, AllTold
  <2> QED BY <2>2, <2>3, <2>4, <2>5 DEF IInv
<1> QED BY <1>1, <1>2

LEMMA ChildExitStep == ASSUME IInv, NEW n \in Attempts, ChildExit(n) PROVE IInv'
<1>1. CASE isQuitting \/ n \in expected
  <2>1. /\ reaped' = reaped \cup {n} /\ proc[n] = "gone"
        /\ backendProcess' = IF backendProcess = n THEN None ELSE backendProcess
        /\ UNCHANGED <<proc, told, doomed, expected, boxed, boot, discoveryVars, stop, quitVars,
                       clear, data>>
    BY <1>1 DEF ChildExit, discoveryVars, quitVars
  <2>2. TypeOK' /\ BoxInv'
    BY <2>1
       DEF Turn, Running, osVars, exitVars, discoveryVars, quitVars, IInv, TypeOK, ChildInv,
           BoxInv, Calls, Child, Settled, Callers
  <2>3. ChildInv'
    BY AttemptsAssumption, NoneAssumption, <2>1, ZenonT(30)
       DEF Turn, Running, osVars, exitVars, discoveryVars, quitVars, IInv, TypeOK, ChildInv,
           BoxInv, QuitInv, Attempts, Callers, Alive, Settled, AllTold
  <2>4. QuitInv' /\ StopInv' /\ ExitInv'
    BY AttemptsAssumption, NoneAssumption, <2>1
       DEF Turn, Running, osVars, exitVars, discoveryVars, quitVars, IInv, TypeOK, ChildInv,
           QuitInv, StopInv, ExitInv, Attempts, Callers, Alive, Settled, AllTold
  <2>5. FileInv' /\ ClearInv'
    BY AttemptsAssumption, NoneAssumption, <2>1
       DEF Turn, Running, osVars, exitVars, discoveryVars, quitVars, IInv, TypeOK, ChildInv,
           QuitInv, StopInv, FileInv, ClearInv, Attempts, Callers, Alive, Settled, AllTold
  <2> QED BY <2>2, <2>3, <2>4, <2>5 DEF IInv
<1>2. CASE ~isQuitting /\ n \notin expected
  <2> DEFINE r == IF handle = None /\ backendProcess = n THEN Answer(TRUE)
                  ELSE [Idle EXCEPT !.pc = "read", !.handle = handle]
  <2>1. /\ r \in Calls
        /\ \/ r = Answer(TRUE) /\ handle = None /\ backendProcess = n
           \/ r.pc = "read" /\ r.handle = handle
    BY DEF IInv, TypeOK, Calls, Child, Answer, Idle
  <2>2. app = "running"
    BY <1>2 DEF IInv, TypeOK, QuitInv
  <2>3. stop' = [stop EXCEPT !["shutdown"] = r]
    BY <1>2, <2>2 DEF ChildExit
  <2> HIDE DEF r
  <2>4. /\ stop' \in [Callers -> Calls] /\ stop'["shutdown"] = r
        /\ \A d \in Callers \ {"shutdown"} : stop'[d] = stop[d]
    BY <2>1, <2>3, CallsTyped DEF IInv, Callers
  <2>5. TypeOK' /\ BoxInv'
    BY <1>2, <2>1, <2>2, <2>4, QuitTypes
       DEF ChildExit, Answer, Turn, Running, osVars, exitVars, discoveryVars, quitVars, IInv,
           TypeOK, ChildInv, BoxInv, Calls, Child, Settled, Callers
  <2>6. ChildInv'
    BY AttemptsAssumption, NoneAssumption, <1>2, <2>1, <2>2, <2>4
       DEF ChildExit, BeginQuitting, Answer, Turn, Running, osVars, exitVars, discoveryVars,
           quitVars, IInv, TypeOK, ChildInv, BoxInv, QuitInv, Attempts, Callers, Alive, Settled,
           AllTold
  <2>7. QuitInv' /\ StopInv' /\ ExitInv'
    BY AttemptsAssumption, NoneAssumption, <1>2, <2>1, <2>2, <2>4
       DEF ChildExit, BeginQuitting, Answer, Turn, Running, osVars, exitVars, discoveryVars,
           quitVars, IInv, TypeOK, ChildInv, QuitInv, StopInv, ExitInv, Attempts, Callers,
           Alive, Settled, AllTold
  <2>8. FileInv' /\ ClearInv'
    BY AttemptsAssumption, NoneAssumption, <1>2, <2>1, <2>2, <2>4
       DEF ChildExit, BeginQuitting, Answer, Turn, Running, osVars, exitVars, discoveryVars,
           quitVars, IInv, TypeOK, ChildInv, QuitInv, StopInv, FileInv, ClearInv, Attempts,
           Callers, Alive, Settled, AllTold
  <2> QED BY <2>5, <2>6, <2>7, <2>8 DEF IInv
<1> QED BY <1>1, <1>2

-----------------------------------------------------------------------------
(***************************************************************************)
(* The invariant holds in the first state and is kept by every step.       *)
(***************************************************************************)
LEMMA Initially == Init => IInv
<1> SUFFICES ASSUME Init PROVE IInv
  OBVIOUS
<1> USE AttemptsAssumption, NoneAssumption DEF Init, Attempts
<1>1. TypeOK
  <2>1. 1 \in Attempts
    OBVIOUS
  <2>2. Idle \in Calls
    BY DEF Idle, Calls, Child
  <2>3. stop \in [Callers -> Calls]
    BY <2>2
  <2> HIDE DEF Attempts
  <2> QED BY <2>1, <2>3 DEF TypeOK, Calls, Child
<1>2. ChildInv /\ BoxInv /\ QuitInv
  BY DEF ChildInv, BoxInv, QuitInv, Alive, Idle, Callers
<1>3. StopInv /\ ExitInv /\ FileInv /\ ClearInv
  BY DEF StopInv, ExitInv, FileInv, ClearInv, Idle, Callers
<1> QED BY <1>1, <1>2, <1>3 DEF IInv

LEMMA Stuttering == ASSUME IInv, UNCHANGED vars PROVE IInv'
<1> USE DEF vars, osVars, exitVars, discoveryVars, quitVars
<1>1. TypeOK'
  BY DEF IInv, TypeOK
<1>2. ChildInv' /\ BoxInv' /\ QuitInv'
  BY DEF IInv, ChildInv, BoxInv, QuitInv, Alive, Settled
<1>3. StopInv' /\ ExitInv' /\ FileInv' /\ ClearInv'
  BY DEF IInv, StopInv, ExitInv, FileInv, ClearInv, Alive, AllTold
<1> QED BY <1>1, <1>2, <1>3 DEF IInv

LEMMA Inductive == IInv /\ [Next]_vars => IInv'
<1> SUFFICES ASSUME IInv, [Next]_vars PROVE IInv'
  OBVIOUS
<1>1. CASE Children
  BY <1>1, BootsStep, DiesStep, ChildExitStep DEF Children
<1>2. CASE Startup
  BY <1>2, SpawnBackendStep, PortFailsStep, AttemptFailsStep, NextAttemptStep, ProbeOkStep,
     PublishRenamesStep, PublishSkippedStep, PublishStoresHandleStep, StartAppFailsStep
     DEF Startup
<1>3. CASE Quit
  BY <1>3, ShutdownGoesOnStep, ShutdownWaitsStep, ShutdownEndsWaitStep, LeavesStep DEF Quit
<1>4. CASE Clear
  BY <1>4, ClearBeginsStep, ClearStoppedStep, ClearRemovesDataStep, ClearFinishesStep,
     ClearExitsStep DEF Clear
<1>5. ASSUME NEW c \in Callers, Stopping(c) PROVE IInv'
  BY <1>5, StopReadsStep, StopRemovesStep, StopSeesExitStep, StopTimesOutStep,
     StopKilledStep, StopGivesUpStep
     DEF Stopping
<1>6. CASE UserQuits \/ BeforeQuit \/ ClearAsked
  BY <1>6, UserQuitsStep, BeforeQuitStep, ClearAskedStep
<1>7. CASE Over \/ UNCHANGED vars
  BY <1>7, Stuttering DEF Over
<1> QED BY <1>1, <1>2, <1>3, <1>4, <1>5, <1>6, <1>7 DEF Next

LEMMA Invariance == Spec => []IInv
<1> QED BY Initially, Inductive, PTL DEF Spec

-----------------------------------------------------------------------------
(***************************************************************************)
(* What the invariant gives.                                               *)
(***************************************************************************)

\* The variables of the start, the ways out and the removal of data keep their types, for any
\* number of attempts.
THEOREM TypeCorrect == Spec => []TypeOK
<1> QED BY Invariance, PTL DEF IInv

\* A child that was told to stop, or killed, is never reported as a crash: every signal goes
\* with an entry in expectedBackendExits, made before the exit can be handled.
THEOREM BoxIsCrash == Spec => []BoxMeansCrash
<1>1. IInv => BoxMeansCrash
  BY DEF IInv, BoxInv, BoxMeansCrash
<1> QED BY <1>1, Invariance, PTL

\* An app that has exited after its start was over leaves no child that was not told to stop,
\* and after a shutdown that waited, not the last one without having killed it.
THEOREM NothingStays == Spec => []NothingLeftBehind
<1>1. IInv => NothingLeftBehind
  BY DEF IInv, StopInv, ExitInv, AllTold, NothingLeftBehind, Callers, Attempts, TypeOK
<1> QED BY <1>1, Invariance, PTL

\* After a shutdown that waited nobody finds the discovery file of an app that is gone.
THEOREM DiscoveryEnds == Spec => []ExitUnpublishes
<1>1. IInv => ExitUnpublishes
  BY NoneAssumption DEF IInv, TypeOK, QuitInv, FileInv, ExitUnpublishes, Callers, Attempts,
      Settled
<1> QED BY <1>1, Invariance, PTL

\* The data are removed with no current backend alive when its stop is said to have succeeded,
\* and the reset is marked only over data that are gone.
THEOREM RemovalQuiet == Spec => []RemovalIsQuiet
<1>1. IInv => RemovalIsQuiet
  BY DEF IInv, ClearInv, RemovalIsQuiet
<1> QED BY <1>1, Invariance, PTL

-----------------------------------------------------------------------------
(***************************************************************************)
(* What is left to do.  Every part of the main process moves in one        *)
(* direction: each rank is how many steps its part has left at most.       *)
(***************************************************************************)
BootRank == [port |-> 6, probe |-> 5, publish |-> 4, published |-> 3, backoff |-> 3,
             failed |-> 1, ready |-> 0, reported |-> 0]
StopRank == [idle |-> 6, read |-> 5, rm |-> 4, wait |-> 3, kill |-> 2, wait2 |-> 1,
             done |-> 0]
AppRank == [running |-> 5, leaving |-> 4, stopping |-> 3, killing |-> 2, fallback |-> 1,
            exited |-> 0, rejected |-> 0]
ClearRank == [no |-> 6, asked |-> 5, stopping |-> 4, removing |-> 3, removed |-> 2,
              timer |-> 1, over |-> 0]
ProcRank == [none |-> 4, booting |-> 3, healthy |-> 2, gone |-> 1, unborn |-> 0]

BootLeft == 8 * (STARTUP_ATTEMPTS - boot.attempt) + BootRank[boot.pc]
StopLeft(c) == StopRank[stop[c].pc]
AppLeft == AppRank[app]
ClearLeft == ClearRank[clear.pc]
ChildLeft(n) == IF n \in reaped THEN 0 ELSE ProcRank[proc[n]]

\* What the main process has left, the calls of users included.
MainLeft == BootLeft + StopLeft("shutdown") + StopLeft("clear") + AppLeft + ClearLeft

NoPartGrows ==
  /\ BootLeft' <= BootLeft /\ AppLeft' <= AppLeft /\ ClearLeft' <= ClearLeft
  /\ \A c \in Callers : StopLeft(c)' <= StopLeft(c)

MainStep ==
  \/ Startup \/ Quit \/ Clear \/ (\E c \in Callers : Stopping(c))
  \/ UserQuits \/ BeforeQuit \/ ClearAsked

\* A step of the main process leaves it less to do, a step of a child leaves that child less.
WindsDown ==
  /\ NoPartGrows
  /\ MainStep => MainLeft' < MainLeft
  /\ \A n \in Attempts :
       /\ ChildLeft(n)' <= ChildLeft(n)
       /\ Boots(n) \/ Dies(n) \/ ChildExit(n) => ChildLeft(n)' < ChildLeft(n)

LeftOK ==
  /\ BootLeft \in Nat /\ AppLeft \in 0..5 /\ ClearLeft \in 0..6
  /\ \A c \in Callers : StopLeft(c) \in 0..6

LEMMA LeftTypes == TypeOK => LeftOK
<1> SUFFICES ASSUME TypeOK PROVE LeftOK
  OBVIOUS
<1>1. BootRank[boot.pc] \in Nat
  BY DEF TypeOK, BootRank
<1>2. boot.attempt \in 1..STARTUP_ATTEMPTS
  BY DEF TypeOK, Attempts
<1>3. 8 * (STARTUP_ATTEMPTS - boot.attempt) \in Nat
  BY <1>2, AttemptsAssumption
<1>4. AppLeft \in 0..5 /\ ClearLeft \in 0..6
  BY DEF TypeOK, AppLeft, AppRank, ClearLeft, ClearRank
<1>5. \A c \in Callers : StopLeft(c) \in 0..6
  BY DEF TypeOK, StopLeft, StopRank
<1> QED BY <1>1, <1>3, <1>4, <1>5 DEF BootLeft, LeftOK

LEMMA LeftTypesNext == TypeOK' => LeftOK'
BY LeftTypes, PTL

LEMMA FiveSum ==
  ASSUME NEW a \in Nat, NEW b \in Nat, NEW c \in Nat, NEW d \in Nat, NEW e \in Nat,
         NEW a1 \in Nat, NEW b1 \in Nat, NEW c1 \in Nat, NEW d1 \in Nat, NEW e1 \in Nat,
         a1 <= a, b1 <= b, c1 <= c, d1 <= d, e1 <= e,
         a1 < a \/ b1 < b \/ c1 < c \/ d1 < d \/ e1 < e
  PROVE  a1 + b1 + c1 + d1 + e1 < a + b + c + d + e
OBVIOUS

\* One part that shrinks, with none that grows, is enough.
LEMMA PartShrinks ==
  ASSUME TypeOK, TypeOK', NoPartGrows,
         \/ BootLeft' < BootLeft \/ AppLeft' < AppLeft \/ ClearLeft' < ClearLeft
         \/ \E c \in Callers : StopLeft(c)' < StopLeft(c)
  PROVE  MainLeft' < MainLeft
<1> DEFINE s1 == StopLeft("shutdown")
           s2 == StopLeft("clear")
<1>1. s1' <= s1 /\ s2' <= s2
  BY DEF NoPartGrows, Callers
<1>2. s1 \in Nat /\ s2 \in Nat /\ s1' \in Nat /\ s2' \in Nat
  BY LeftTypes, LeftTypesNext DEF LeftOK, Callers
<1>3. \/ BootLeft' < BootLeft \/ AppLeft' < AppLeft \/ ClearLeft' < ClearLeft
      \/ s1' < s1 \/ s2' < s2
  BY DEF Callers
<1>4. BootLeft \in Nat /\ AppLeft \in Nat /\ ClearLeft \in Nat
  BY LeftTypes DEF LeftOK
<1>5. BootLeft' \in Nat /\ AppLeft' \in Nat /\ ClearLeft' \in Nat
  BY LeftTypesNext DEF LeftOK
<1>6. MainLeft = BootLeft + s1 + s2 + AppLeft + ClearLeft
      /\ MainLeft' = BootLeft' + s1' + s2' + AppLeft' + ClearLeft'
  BY DEF MainLeft
<1>7. BootLeft' <= BootLeft /\ AppLeft' <= AppLeft /\ ClearLeft' <= ClearLeft
  BY DEF NoPartGrows
<1> HIDE DEF s1, s2
<1>8. BootLeft' + s1' + s2' + AppLeft' + ClearLeft' < BootLeft + s1 + s2 + AppLeft + ClearLeft
  BY <1>1, <1>2, <1>3, <1>4, <1>5, <1>7, FiveSum
<1> QED BY <1>6, <1>8

-----------------------------------------------------------------------------
\* A call of stopBackendAndWait that goes on; the other call stays where it is.
LEMMA CallMoves ==
  ASSUME TypeOK, NEW c \in Callers, NEW r \in Calls, stop' = [stop EXCEPT ![c] = r],
         StopRank[r.pc] <= StopRank[stop[c].pc]
  PROVE  /\ StopLeft(c)' = StopRank[r.pc]
         /\ \A d \in Callers : StopLeft(d)' <= StopLeft(d)
<1>1. stop'[c] = r /\ \A d \in Callers \ {c} : stop'[d] = stop[d]
  BY CallsTyped
<1>2. \A d \in Callers : StopLeft(d) \in 0..6
  BY LeftTypes DEF LeftOK
<1>3. ASSUME NEW d \in Callers PROVE StopLeft(d)' <= StopLeft(d)
  <2>1. CASE d = c
    BY <1>1, <2>1 DEF StopLeft
  <2>2. CASE d # c
    <3>1. StopLeft(d)' = StopLeft(d)
      BY <1>1, <2>2 DEF StopLeft
    <3> QED BY <3>1, <1>2
  <2> QED BY <2>1, <2>2
<1> QED BY <1>1, <1>3 DEF StopLeft

\* The call of a caller that has not called yet.
LEMMA CallBegins ==
  ASSUME IInv, NEW c \in Callers, stop[c].pc = "idle", StopBegin(c)
  PROVE  \A d \in Callers : StopLeft(d)' <= StopLeft(d)
<1>1. PICK r \in Calls : stop' = [stop EXCEPT ![c] = r] /\ Begun(r)
  BY Begins DEF IInv
<1>2. r.pc \in {"read", "wait", "done"}
  BY <1>1 DEF Begun, Signalled, Answer
<1>3. StopRank[r.pc] <= StopRank[stop[c].pc]
  BY <1>2 DEF StopRank
<1> QED BY <1>1, <1>3, CallMoves DEF IInv

LEMMA QuitMoves ==
  ASSUME IInv, RequestAppQuit
  PROVE  /\ AppLeft' <= AppLeft
         /\ \A c \in Callers : StopLeft(c)' <= StopLeft(c)
         /\ app \in {"running", "leaving"} => AppLeft' < AppLeft
<1>1. AppLeft \in 0..5 /\ \A c \in Callers : StopLeft(c) \in 0..6
  BY LeftTypes DEF IInv, LeftOK
<1>2. CASE app \in {"running", "leaving"}
  <2>1. StopBegin("shutdown") /\ app' = "stopping"
    BY <1>2 DEF RequestAppQuit
  <2>2. stop["shutdown"].pc = "idle"
    BY <1>2 DEF IInv, QuitInv
  <2>3. AppLeft' < AppLeft
    BY <1>2, <2>1 DEF AppLeft, AppRank
  <2>4. AppLeft' <= AppLeft
    BY <1>2, <2>1 DEF AppLeft, AppRank
  <2> QED BY <2>1, <2>2, <2>3, <2>4, CallBegins DEF Callers
<1>3. CASE app \notin {"running", "leaving"}
  <2>1. stop' = stop /\ app' = app
    BY <1>3 DEF RequestAppQuit, quitVars
  <2>2. AppLeft' = AppLeft /\ \A c \in Callers : StopLeft(c)' = StopLeft(c)
    BY <2>1 DEF AppLeft, StopLeft
  <2> QED BY <1>1, <1>3, <2>2
<1> QED BY <1>2, <1>3

\* Parts that a step does not touch.
LEMMA PartsKept ==
  ASSUME TypeOK
  PROVE  /\ UNCHANGED boot => BootLeft' <= BootLeft
         /\ UNCHANGED app => AppLeft' <= AppLeft
         /\ UNCHANGED clear => ClearLeft' <= ClearLeft
         /\ UNCHANGED stop => \A c \in Callers : StopLeft(c)' <= StopLeft(c)
<1>1. BootLeft \in Nat /\ AppLeft \in Nat /\ ClearLeft \in Nat
  BY LeftTypes DEF LeftOK
<1>2. \A c \in Callers : StopLeft(c) \in Nat
  BY LeftTypes DEF LeftOK
<1>3. UNCHANGED boot => BootLeft' = BootLeft
  BY DEF BootLeft
<1>4. UNCHANGED app => AppLeft' = AppLeft
  BY DEF AppLeft
<1>5. UNCHANGED clear => ClearLeft' = ClearLeft
  BY DEF ClearLeft
<1>6. UNCHANGED stop => \A c \in Callers : StopLeft(c)' = StopLeft(c)
  BY DEF StopLeft
<1> QED BY <1>1, <1>2, <1>3, <1>4, <1>5, <1>6

LEMMA StartupWinds ==
  ASSUME IInv, Startup
  PROVE  NoPartGrows /\ BootLeft' < BootLeft
<1>1. boot.attempt \in 1..STARTUP_ATTEMPTS /\ STARTUP_ATTEMPTS \in Nat
  BY AttemptsAssumption DEF IInv, TypeOK, Attempts
<1>2. ASSUME boot'.attempt = boot.attempt, BootRank[boot'.pc] < BootRank[boot.pc],
             BootRank[boot.pc] \in Nat, BootRank[boot'.pc] \in Nat
      PROVE  BootLeft' < BootLeft /\ BootLeft' <= BootLeft
  <2> DEFINE k == 8 * (STARTUP_ATTEMPTS - boot.attempt)
  <2>1. k \in Nat
    BY <1>1
  <2>2. BootLeft = k + BootRank[boot.pc] /\ BootLeft' = k + BootRank[boot'.pc]
    BY <1>2 DEF BootLeft
  <2> HIDE DEF k
  <2> QED BY <2>1, <2>2, <1>2
<1>3. CASE NextAttempt
  <2>1. /\ boot.pc = "backoff" /\ boot'.pc = "port" /\ boot'.attempt = boot.attempt + 1
        /\ UNCHANGED <<stop, app, clear>>
    BY <1>3 DEF NextAttempt, At, quitVars
  <2>2. boot.attempt < STARTUP_ATTEMPTS
    BY <2>1 DEF IInv, ChildInv
  <2>3. BootLeft = 8 * (STARTUP_ATTEMPTS - boot.attempt) + 3
        /\ BootLeft' = 8 * (STARTUP_ATTEMPTS - (boot.attempt + 1)) + 6
    BY <2>1 DEF BootLeft, BootRank
  <2>4. BootLeft' < BootLeft /\ BootLeft' <= BootLeft
    BY <1>1, <2>2, <2>3
  <2> QED BY <2>1, <2>4, PartsKept DEF NoPartGrows, IInv
<1>4. CASE StartAppFails
  <2>1. /\ boot.pc = "failed" /\ boot'.pc = "reported" /\ boot'.attempt = boot.attempt
        /\ UNCHANGED clear
    BY <1>4 DEF StartAppFails, At, IInv, TypeOK
  <2>2. BootLeft' < BootLeft /\ BootLeft' <= BootLeft
    BY <1>2, <2>1 DEF BootRank
  <2>3. RequestAppQuit
    BY <1>4 DEF StartAppFails
  <2> QED BY <2>1, <2>2, <2>3, QuitMoves, PartsKept DEF NoPartGrows, IInv
<1>5. CASE SpawnBackend \/ PortFails \/ AttemptFails \/ ProbeOk \/ PublishRenames
           \/ PublishSkipped \/ PublishStoresHandle
  <2>1. UNCHANGED <<stop, app, clear>>
    BY <1>5 DEF SpawnBackend, PortFails, AttemptFails, ProbeOk, PublishRenames, PublishSkipped,
                PublishStoresHandle, quitVars
  <2>2. /\ boot'.attempt = boot.attempt
        /\ \/ boot.pc = "port" /\ boot'.pc \in {"probe", "failed", "backoff"}
           \/ boot.pc = "probe" /\ boot'.pc \in {"publish", "backoff", "failed"}
           \/ boot.pc = "publish" /\ boot'.pc \in {"published", "ready"}
           \/ boot.pc = "published" /\ boot'.pc = "ready"
    BY <1>5 DEF SpawnBackend, PortFails, AttemptFails, ProbeOk, PublishRenames, PublishSkipped,
                PublishStoresHandle, At, IInv, TypeOK
  <2>3. BootRank[boot'.pc] < BootRank[boot.pc] /\ BootRank[boot.pc] \in Nat
        /\ BootRank[boot'.pc] \in Nat
    BY <2>2 DEF BootRank
  <2> QED BY <1>2, <2>1, <2>2, <2>3, PartsKept DEF NoPartGrows, IInv
<1> QED BY <1>3, <1>4, <1>5 DEF Startup

LEMMA StoppingWinds ==
  ASSUME IInv, NEW c \in Callers, Stopping(c)
  PROVE  NoPartGrows /\ StopLeft(c)' < StopLeft(c)
<1>1. UNCHANGED <<boot, app, clear>>
  BY DEF Stopping, StopReads, StopRemoves, StopSeesExit, StopTimesOut, StopKilled, StopGivesUp,
         quitVars
<1>2. PICK r \in Calls : /\ stop' = [stop EXCEPT ![c] = r]
                         /\ StopRank[r.pc] < StopRank[stop[c].pc]
                         /\ StopRank[r.pc] <= StopRank[stop[c].pc]
  <2>1. CASE StopReads(c) /\ file = stop[c].handle
    <3> DEFINE r == [stop[c] EXCEPT !.pc = "rm"]
    <3>1. r \in Calls /\ r.pc = "rm" /\ stop[c].pc = "read" /\ stop' = [stop EXCEPT ![c] = r]
      BY <2>1 DEF StopReads, IInv, TypeOK, Calls, Child
    <3> HIDE DEF r
    <3>2. StopRank[r.pc] < StopRank[stop[c].pc] /\ StopRank[r.pc] <= StopRank[stop[c].pc]
      BY <3>1 DEF StopRank
    <3> QED BY <3>1, <3>2
  <2>2. CASE (StopReads(c) /\ file # stop[c].handle) \/ StopRemoves(c)
    <3>1. stop[c].pc \in {"read", "rm"} /\ SignalCurrent(c)
      BY <2>2 DEF StopReads, StopRemoves
    <3>2. PICK r \in Calls : stop' = [stop EXCEPT ![c] = r] /\ Signalled(r)
      BY <3>1, Signals DEF IInv
    <3>3. r.pc \in {"wait", "done"}
      BY <3>2 DEF Signalled, Answer
    <3>4. StopRank[r.pc] < StopRank[stop[c].pc] /\ StopRank[r.pc] <= StopRank[stop[c].pc]
      BY <3>1, <3>3 DEF StopRank
    <3> QED BY <3>2, <3>4
  <2>3. CASE StopTimesOut(c) \/ StopKilled(c)
    <3> DEFINE r == IF StopTimesOut(c) /\ Win32 THEN [stop[c] EXCEPT !.pc = "kill"]
                    ELSE WaitAgain(stop[c])
    <3>1. /\ r \in Calls /\ stop' = [stop EXCEPT ![c] = r]
          /\ \/ stop[c].pc = "wait" /\ r.pc \in {"kill", "wait2", "done"}
             \/ stop[c].pc = "kill" /\ r.pc \in {"wait2", "done"}
      <4>1. CASE StopTimesOut(c)
        BY <4>1 DEF StopTimesOut, WaitAgain, Answer, IInv, TypeOK, Calls, Child
      <4>2. CASE StopKilled(c)
        BY <4>2 DEF StopKilled, StopTimesOut, WaitAgain, Answer, IInv, TypeOK, Calls, Child
      <4> QED BY <2>3, <4>1, <4>2
    <3> HIDE DEF r
    <3>2. StopRank[r.pc] < StopRank[stop[c].pc] /\ StopRank[r.pc] <= StopRank[stop[c].pc]
      BY <3>1 DEF StopRank
    <3> QED BY <3>1, <3>2
  <2>4. CASE StopSeesExit(c) \/ StopGivesUp(c)
    <3>1. PICK ok \in BOOLEAN : stop' = [stop EXCEPT ![c] = Answer(ok)]
      BY <2>4 DEF StopSeesExit, StopGivesUp
    <3>2. stop[c].pc \in {"wait", "wait2"}
      BY <2>4 DEF StopSeesExit, StopGivesUp
    <3>3. Answer(ok) \in Calls /\ Answer(ok).pc = "done"
      BY DEF Answer, Calls, Child
    <3>4. /\ StopRank[Answer(ok).pc] < StopRank[stop[c].pc]
          /\ StopRank[Answer(ok).pc] <= StopRank[stop[c].pc]
      BY <3>2, <3>3 DEF StopRank
    <3> QED BY <3>1, <3>3, <3>4
  <2> QED BY <2>1, <2>2, <2>3, <2>4 DEF Stopping
<1>3. StopLeft(c)' = StopRank[r.pc] /\ \A d \in Callers : StopLeft(d)' <= StopLeft(d)
  BY <1>2, CallMoves DEF IInv
<1>4. StopLeft(c)' < StopLeft(c)
  BY <1>2, <1>3 DEF StopLeft
<1> QED BY <1>1, <1>3, <1>4, PartsKept DEF NoPartGrows, IInv

LEMMA QuitWinds ==
  ASSUME IInv, Quit \/ UserQuits \/ BeforeQuit
  PROVE  NoPartGrows /\ AppLeft' < AppLeft
<1>1. CASE UserQuits
  <2>1. RequestAppQuit /\ app = "running" /\ UNCHANGED <<boot, clear>>
    BY <1>1 DEF UserQuits
  <2> QED BY <2>1, QuitMoves, PartsKept DEF NoPartGrows, IInv
<1>2. CASE Quit \/ BeforeQuit
  <2>1. /\ \/ app = "stopping" /\ app' \in {"killing", "fallback", "exited"}
           \/ app = "killing" /\ app' \in {"fallback", "rejected"}
           \/ app = "fallback" /\ app' = "exited"
           \/ app = "leaving" /\ app' = "exited"
           \/ app = "running" /\ app' = "leaving"
        /\ UNCHANGED <<boot, stop, clear>>
    BY <1>2 DEF Quit, ShutdownGoesOn, ShutdownDue, ShutdownWaits, ShutdownEndsWait, Leaves,
                BeforeQuit
  <2>2. AppLeft' < AppLeft /\ AppLeft' <= AppLeft
    BY <2>1 DEF AppLeft, AppRank
  <2> QED BY <2>1, <2>2, PartsKept DEF NoPartGrows, IInv
<1> QED BY <1>1, <1>2

LEMMA ClearWinds ==
  ASSUME IInv, Clear \/ ClearAsked
  PROVE  NoPartGrows /\ ClearLeft' < ClearLeft
<1>1. /\ \/ clear.pc = "no" /\ clear'.pc = "asked"
         \/ clear.pc = "asked" /\ clear'.pc = "stopping"
         \/ clear.pc = "stopping" /\ clear'.pc = "removing"
         \/ clear.pc = "removing" /\ clear'.pc = "removed"
         \/ clear.pc = "removed" /\ clear'.pc = "timer"
         \/ clear.pc = "timer" /\ clear'.pc = "over"
      /\ UNCHANGED boot
  <2>1. CASE ClearRemovesData \/ ClearFinishes
    BY <2>1 DEF ClearRemovesData, ClearFinishes, IInv, TypeOK
  <2>2. CASE ClearAsked \/ ClearBegins \/ ClearStopped \/ ClearExits
    BY <2>2 DEF ClearAsked, ClearBegins, ClearStopped, ClearDue, ClearExits, IInv, TypeOK
  <2> QED BY <2>1, <2>2 DEF Clear
<1>2. ClearLeft' < ClearLeft /\ ClearLeft' <= ClearLeft
  BY <1>1 DEF ClearLeft, ClearRank
<1>3. CASE ClearExits
  <2>1. RequestAppQuit
    BY <1>3 DEF ClearExits
  <2> QED BY <1>1, <1>2, <2>1, QuitMoves, PartsKept DEF NoPartGrows, IInv
<1>4. CASE ClearBegins
  <2>1. StopBegin("clear") /\ stop["clear"].pc = "idle" /\ UNCHANGED app
    BY <1>4 DEF ClearBegins, IInv, QuitInv
  <2>2. \A d \in Callers : StopLeft(d)' <= StopLeft(d)
    BY <2>1, CallBegins DEF Callers
  <2> QED BY <1>1, <1>2, <2>1, <2>2, PartsKept DEF NoPartGrows, IInv
<1>5. CASE ClearAsked \/ ClearStopped \/ ClearRemovesData \/ ClearFinishes
  <2>1. UNCHANGED <<app, stop>>
    BY <1>5 DEF ClearAsked, ClearStopped, ClearRemovesData, ClearFinishes, quitVars
  <2> QED BY <1>1, <1>2, <2>1, PartsKept DEF NoPartGrows, IInv
<1> QED BY <1>3, <1>4, <1>5 DEF Clear

LEMMA ChildWinds ==
  ASSUME IInv, NEW n \in Attempts, Boots(n) \/ Dies(n) \/ ChildExit(n)
  PROVE  NoPartGrows /\ ChildLeft(n)' < ChildLeft(n) /\ ChildLeft(n)' <= ChildLeft(n)
<1>1. ChildLeft(n)' < ChildLeft(n) /\ ChildLeft(n)' <= ChildLeft(n)
  <2>1. \A m \in reaped : proc[m] = "gone"
    BY DEF IInv, ChildInv
  <2>2. CASE ChildExit(n)
    BY <2>2 DEF ChildExit, ChildLeft, ProcRank
  <2>3. CASE Boots(n)
    <3>1. proc[n] = "booting" /\ proc'[n] = "healthy" /\ reaped' = reaped
      BY <2>3 DEF Boots, exitVars, IInv, TypeOK
    <3> QED BY <2>1, <3>1 DEF ChildLeft, ProcRank
  <2>4. CASE Dies(n)
    <3>1. proc[n] \in {"booting", "healthy"} /\ proc'[n] = "gone" /\ reaped' = reaped
      BY <2>4 DEF Dies, Alive, exitVars, IInv, TypeOK
    <3> QED BY <2>1, <3>1 DEF ChildLeft, ProcRank
  <2> QED BY <2>2, <2>3, <2>4
<1>2. CASE Boots(n) \/ Dies(n) \/ UNCHANGED <<boot, app, clear, stop>>
  <2>1. UNCHANGED <<boot, app, clear, stop>>
    BY <1>2 DEF Boots, Dies, quitVars
  <2> QED BY <1>1, <2>1, PartsKept DEF NoPartGrows, IInv
<1>3. CASE ChildExit(n) /\ ~UNCHANGED <<boot, app, clear, stop>>
  <2>1. ~isQuitting /\ n \notin expected /\ UNCHANGED <<boot, clear>>
    BY <1>3 DEF ChildExit, quitVars
  <2>2. app = "running" /\ app' = "stopping"
    BY <1>3, <2>1 DEF ChildExit, IInv, TypeOK, QuitInv
  <2>3. AppLeft' <= AppLeft
    BY <2>2 DEF AppLeft, AppRank
  <2> DEFINE r == IF handle = None /\ backendProcess = n THEN Answer(TRUE)
                  ELSE [Idle EXCEPT !.pc = "read", !.handle = handle]
  <2>4. r \in Calls /\ r.pc \in {"read", "done"}
    BY DEF IInv, TypeOK, Calls, Child, Answer, Idle
  <2>5. stop' = [stop EXCEPT !["shutdown"] = r]
    BY <1>3, <2>1, <2>2 DEF ChildExit
  <2> HIDE DEF r
  <2>6. stop["shutdown"].pc = "idle"
    BY <2>2 DEF IInv, QuitInv
  <2>7. StopRank[r.pc] <= StopRank[stop["shutdown"].pc]
    BY <2>4, <2>6 DEF StopRank
  <2>8. \A c \in Callers : StopLeft(c)' <= StopLeft(c)
    BY <2>4, <2>5, <2>7, CallMoves DEF IInv, Callers
  <2> QED BY <1>1, <2>1, <2>3, <2>8, PartsKept DEF NoPartGrows, IInv
<1> QED BY <1>2, <1>3

LEMMA MainWinds ==
  ASSUME IInv, IInv', MainStep
  PROVE  NoPartGrows /\ MainLeft' < MainLeft
<1>1. NoPartGrows
  BY StartupWinds, StoppingWinds, QuitWinds, ClearWinds DEF MainStep
<1>2. \/ BootLeft' < BootLeft \/ AppLeft' < AppLeft \/ ClearLeft' < ClearLeft
      \/ \E c \in Callers : StopLeft(c)' < StopLeft(c)
  BY StartupWinds, StoppingWinds, QuitWinds, ClearWinds DEF MainStep
<1> QED BY <1>1, <1>2, PartShrinks DEF IInv

LEMMA NothingGrows ==
  ASSUME IInv, [Next]_vars
  PROVE  NoPartGrows
<1>1. CASE UNCHANGED vars
  BY <1>1, PartsKept DEF vars, quitVars, NoPartGrows, IInv
<1>2. CASE Next
  BY <1>1, <1>2, StartupWinds, StoppingWinds, QuitWinds, ClearWinds, ChildWinds
     DEF Next, Children, Over
<1> QED BY <1>1, <1>2

\* A child only moves on, from not started to reaped.
LEMMA ChildMovesOn ==
  ASSUME IInv, [Next]_vars, NEW n \in Attempts
  PROVE  ChildLeft(n)' <= ChildLeft(n)
<1>1. ChildLeft(n) \in Nat
  BY DEF ChildLeft, ProcRank, IInv, TypeOK
<1>2. CASE UNCHANGED <<proc, reaped>>
  <2>1. ChildLeft(n)' = ChildLeft(n)
    BY <1>2 DEF ChildLeft
  <2> QED BY <1>1, <2>1
<1>3. CASE \E m \in Attempts : Boots(m) \/ Dies(m) \/ ChildExit(m)
  <2>1. PICK m \in Attempts : Boots(m) \/ Dies(m) \/ ChildExit(m)
    BY <1>3
  <2>2. CASE m = n
    BY <2>1, <2>2, ChildWinds
  <2>3. CASE m # n
    <3>1. proc'[n] = proc[n] /\ (n \in reaped' <=> n \in reaped)
      BY <2>1, <2>3 DEF Boots, Dies, ChildExit, exitVars, IInv, TypeOK
    <3>2. ChildLeft(n)' = ChildLeft(n)
      BY <3>1 DEF ChildLeft
    <3> QED BY <1>1, <3>2
  <2> QED BY <2>2, <2>3
<1>4. CASE SpawnBackend
  <2>1. boot.pc = "port" /\ boot.attempt \in Attempts /\ proc[boot.attempt] = "none"
    BY <1>4 DEF SpawnBackend, At, IInv, TypeOK, ChildInv
  <2>2. boot.attempt \notin reaped /\ reaped' = reaped
    BY <1>4, <2>1 DEF SpawnBackend, IInv, ChildInv
  <2>3. CASE n = boot.attempt
    <3>1. proc'[n] \in {"booting", "unborn"}
      BY <1>4, <2>1, <2>3 DEF SpawnBackend, IInv, TypeOK
    <3> QED BY <2>1, <2>2, <2>3, <3>1 DEF ChildLeft, ProcRank
  <2>4. CASE n # boot.attempt
    <3>1. proc'[n] = proc[n]
      BY <1>4, <2>1, <2>4 DEF SpawnBackend, IInv, TypeOK
    <3>2. ChildLeft(n)' = ChildLeft(n)
      BY <2>2, <3>1 DEF ChildLeft
    <3> QED BY <1>1, <3>2
  <2> QED BY <2>3, <2>4
<1>5. CASE Startup /\ ~SpawnBackend
  BY <1>2, <1>5 DEF Startup, PortFails, AttemptFails, NextAttempt, ProbeOk, PublishRenames,
                    PublishSkipped, PublishStoresHandle, StartAppFails, osVars, exitVars
<1>6. CASE Quit \/ UserQuits \/ BeforeQuit
  BY <1>2, <1>6 DEF Quit, ShutdownGoesOn, ShutdownWaits, ShutdownEndsWait, Leaves, UserQuits,
                    BeforeQuit, osVars, exitVars
<1>7. CASE Clear \/ ClearAsked
  BY <1>2, <1>7 DEF Clear, ClearBegins, ClearStopped, ClearRemovesData, ClearFinishes,
                    ClearExits, ClearAsked, osVars, exitVars
<1>8. CASE \E c \in Callers : Stopping(c)
  BY <1>2, <1>8 DEF Stopping, StopReads, StopRemoves, StopSeesExit, StopTimesOut, StopKilled,
                    StopGivesUp, osVars, exitVars
<1>9. CASE Over \/ UNCHANGED vars
  BY <1>2, <1>9 DEF Over, vars, osVars, exitVars
<1> QED BY <1>3, <1>4, <1>5, <1>6, <1>7, <1>8, <1>9 DEF Next, Children

\* The app winds down from its first step on, whatever the children, the users and the timers
\* do: no part of the main process ever has more left to do (no attempt is repeated, no call of
\* stopBackendAndWait is made twice, no way out is taken back), every step of the main process
\* or of its users leaves it strictly less, and a child goes only from not started to reaped.  A run
\* so takes at most MainLeft steps of the main process: the retries and the timers cannot chase
\* one another for ever.
THEOREM AppWindsDown == Spec => [][WindsDown]_vars
<1>1. IInv /\ IInv' /\ [Next]_vars => [WindsDown]_vars
  <2> SUFFICES ASSUME IInv, IInv', [Next]_vars PROVE WindsDown
    OBVIOUS
  <2>1. NoPartGrows /\ (MainStep => MainLeft' < MainLeft)
    BY NothingGrows, MainWinds
  <2>2. ASSUME NEW n \in Attempts
        PROVE  /\ ChildLeft(n)' <= ChildLeft(n)
               /\ Boots(n) \/ Dies(n) \/ ChildExit(n) => ChildLeft(n)' < ChildLeft(n)
    BY ChildMovesOn, ChildWinds
  <2> QED BY <2>1, <2>2 DEF WindsDown
<1> QED BY <1>1, Invariance, PTL DEF Spec

-----------------------------------------------------------------------------
(***************************************************************************)
(* The shutdown ends.  The provers have no rule for ENABLED: what is left  *)
(* as an assumption is that the guards read off the actions are enough for *)
(* a step.                                                                 *)
(***************************************************************************)
StopGuard(c) == Turn /\ stop[c].pc \in {"read", "rm", "wait", "kill", "wait2"}
QuitGuard == ShutdownDue \/ (Turn /\ app \in {"leaving", "killing", "fallback"})
ClearGuard == ClearDue \/ (Turn /\ clear.pc \in {"asked", "removing", "removed", "timer"})

GuardsSuffice ==
  /\ StopGuard("shutdown") => ENABLED <<Stopping("shutdown")>>_vars
  /\ StopGuard("clear") => ENABLED <<Stopping("clear")>>_vars
  /\ QuitGuard => ENABLED <<Quit>>_vars
  /\ ClearGuard => ENABLED <<Clear>>_vars

Exiting == app \in {"stopping", "killing", "fallback", "exited", "rejected"}
Removing == clear.pc \in {"stopping", "removing", "removed", "timer", "over"}

\* Whoever waits for a call of stopBackendAndWait has made it, and the timer of the removal
\* has put the app on its way out.
WayInv ==
  /\ app = "stopping" => stop["shutdown"].pc # "idle"
  /\ clear.pc = "stopping" => stop["clear"].pc # "idle"
  /\ clear.pc = "over" => Exiting

LEMMA CallBegun ==
  ASSUME IInv, NEW c \in Callers, StopBegin(c)
  PROVE  stop'[c].pc # "idle"
<1>1. PICK r \in Calls : stop' = [stop EXCEPT ![c] = r] /\ Begun(r)
  BY Begins DEF IInv
<1>2. stop'[c] = r
  BY <1>1, CallsTyped DEF IInv
<1> QED BY <1>1, <1>2 DEF Begun, Signalled, Answer

LEMMA QuitBegun ==
  ASSUME IInv, RequestAppQuit
  PROVE  /\ Exiting'
         /\ app = "stopping" \/ app' # "stopping" \/ stop'["shutdown"].pc # "idle"
<1>1. CASE app \in {"running", "leaving"}
  BY <1>1, CallBegun DEF RequestAppQuit, Exiting, Callers
<1>2. CASE app \notin {"running", "leaving"}
  BY <1>2 DEF RequestAppQuit, quitVars, Exiting, IInv, TypeOK
<1> QED BY <1>1, <1>2

\* The app turns to its shutdown only with the call of stopBackendAndWait made.
LEMMA ShutdownCalls ==
  ASSUME IInv, [Next]_vars, app # "stopping", app' = "stopping"
  PROVE  stop'["shutdown"].pc # "idle"
<1>1. CASE StartAppFails \/ UserQuits \/ ClearExits
  BY <1>1, QuitBegun DEF StartAppFails, UserQuits, ClearExits
<1>2. ASSUME NEW n \in Attempts, ChildExit(n) PROVE stop'["shutdown"].pc # "idle"
  <2>1. \/ stop' = [stop EXCEPT !["shutdown"] = Answer(TRUE)]
        \/ stop' = [stop EXCEPT !["shutdown"] = [Idle EXCEPT !.pc = "read", !.handle = handle]]
    BY <1>2 DEF ChildExit, quitVars
  <2>2. Answer(TRUE).pc = "done" /\ [Idle EXCEPT !.pc = "read", !.handle = handle].pc = "read"
    BY DEF Answer, Idle
  <2>3. PICK r : stop' = [stop EXCEPT !["shutdown"] = r] /\ r.pc \in {"done", "read"}
    BY <2>1, <2>2, Zenon
  <2>4. "shutdown" \in DOMAIN stop
    BY DEF IInv, TypeOK, Callers
  <2> QED BY <2>3, <2>4
<1>3. CASE Startup /\ ~StartAppFails
  BY <1>3 DEF Startup, SpawnBackend, PortFails, AttemptFails, NextAttempt, ProbeOk,
              PublishRenames, PublishSkipped, PublishStoresHandle, quitVars
<1>4. CASE Quit \/ BeforeQuit
  BY <1>4 DEF Quit, ShutdownGoesOn, ShutdownWaits, ShutdownEndsWait, Leaves, BeforeQuit
<1>5. CASE (Clear /\ ~ClearExits) \/ ClearAsked
  BY <1>5 DEF Clear, ClearBegins, ClearStopped, ClearRemovesData, ClearFinishes, ClearAsked,
              quitVars
<1>6. CASE \E c \in Callers : Stopping(c)
  BY <1>6 DEF Stopping, StopReads, StopRemoves, StopSeesExit, StopTimesOut, StopKilled, StopGivesUp,
              quitVars
<1>7. CASE \E n \in Attempts : Boots(n) \/ Dies(n)
  BY <1>7 DEF Boots, Dies, quitVars
<1>8. CASE Over \/ UNCHANGED vars
  BY <1>8 DEF Over, vars, quitVars
<1> QED BY <1>1, <1>2, <1>3, <1>4, <1>5, <1>6, <1>7, <1>8 DEF Next, Children, Startup, Clear

\* The only step that the removal of the data takes into each of its points.
LEMMA ClearTurns ==
  ASSUME IInv, [Next]_vars
  PROVE  /\ clear'.pc = "stopping" => clear.pc = "stopping" \/ ClearBegins
         /\ clear'.pc = "over" => clear.pc = "over" \/ ClearExits
<1>1. CASE UNCHANGED clear
  BY <1>1
<1>2. CASE Clear \/ ClearAsked
  <2>1. CASE ClearRemovesData \/ ClearFinishes
    BY <2>1 DEF ClearRemovesData, ClearFinishes, IInv, TypeOK
  <2>2. CASE ClearAsked \/ ClearStopped
    BY <2>2 DEF ClearAsked, ClearStopped, IInv, TypeOK
  <2>3. CASE ClearBegins
    BY <2>3 DEF ClearBegins, IInv, TypeOK
  <2>4. CASE ClearExits
    BY <2>4 DEF ClearExits, IInv, TypeOK
  <2> QED BY <1>2, <2>1, <2>2, <2>3, <2>4 DEF Clear
<1>3. CASE Startup
  BY <1>1, <1>3 DEF Startup, SpawnBackend, PortFails, AttemptFails, NextAttempt, ProbeOk,
              PublishRenames, PublishSkipped, PublishStoresHandle, StartAppFails
<1>4. CASE Quit \/ BeforeQuit \/ UserQuits
  BY <1>1, <1>4 DEF Quit, ShutdownGoesOn, ShutdownWaits, ShutdownEndsWait, Leaves, BeforeQuit,
                    UserQuits
<1>5. CASE \E c \in Callers : Stopping(c)
  BY <1>1, <1>5 DEF Stopping, StopReads, StopRemoves, StopSeesExit, StopTimesOut, StopKilled,
                    StopGivesUp
<1>6. CASE Children
  BY <1>1, <1>6 DEF Children, Boots, Dies, ChildExit
<1>7. CASE Over \/ UNCHANGED vars
  BY <1>1, <1>7 DEF Over, vars
<1> QED BY <1>2, <1>3, <1>4, <1>5, <1>6, <1>7 DEF Next

\* No way out is taken back.
LEMMA ExitingStays ==
  ASSUME IInv, IInv', [Next]_vars, Exiting
  PROVE  Exiting'
<1>1. AppLeft' <= AppLeft
  BY NothingGrows DEF NoPartGrows
<1>2. app' \in {"running", "leaving", "stopping", "killing", "fallback", "exited", "rejected"}
  BY DEF IInv, TypeOK
<1> QED BY <1>1, <1>2 DEF Exiting, AppLeft, AppRank

\* A call that was made stays made.
LEMMA CallStays ==
  ASSUME IInv, IInv', [Next]_vars, NEW c \in Callers, stop[c].pc # "idle"
  PROVE  stop'[c].pc # "idle"
<1>1. StopLeft(c)' <= StopLeft(c)
  BY NothingGrows DEF NoPartGrows
<1>2. stop[c].pc \in {"idle", "read", "rm", "wait", "kill", "wait2", "done"}
  BY DEF IInv, TypeOK
<1> QED BY <1>1, <1>2 DEF StopLeft, StopRank

LEMMA WayKept == IInv /\ IInv' /\ WayInv /\ [Next]_vars => WayInv'
<1> SUFFICES ASSUME IInv, IInv', WayInv, [Next]_vars PROVE WayInv'
  OBVIOUS
<1>1. app' = "stopping" => stop'["shutdown"].pc # "idle"
  BY ShutdownCalls, CallStays DEF WayInv, Callers
<1>2. clear'.pc = "stopping" => stop'["clear"].pc # "idle"
  BY ClearTurns, CallStays, CallBegun DEF WayInv, ClearBegins, Callers
<1>3. clear'.pc = "over" => Exiting'
  BY ClearTurns, ExitingStays, QuitBegun DEF WayInv, ClearExits
<1> QED BY <1>1, <1>2, <1>3 DEF WayInv

LEMMA WayInvariance == Spec => []WayInv
<1>1. Init => WayInv
  BY DEF Init, WayInv
<1> QED BY <1>1, WayKept, Invariance, PTL DEF Spec

\* How far the shutdown is from the exit, and the removal of the data from its timer.
ShutdownRank == IF app = "stopping" THEN 3 + StopLeft("shutdown") ELSE AppLeft
ClearingRank == IF clear.pc = "stopping" THEN 4 + StopLeft("clear") ELSE ClearLeft

Ending(n) == Exiting /\ ShutdownRank <= n
Clearing(n) == Removing /\ ClearingRank <= n

\* Exactly n steps are left at most.
EndsIn(n) == Ending(n) /\ ~Ending(n - 1)
ClearsIn(n) == Clearing(n) /\ ~Clearing(n - 1)

LEMMA RankTypes ==
  ASSUME TypeOK
  PROVE  ShutdownRank \in 0..9 /\ ClearingRank \in 0..10
<1>1. /\ StopLeft("shutdown") \in 0..6 /\ StopLeft("clear") \in 0..6
      /\ AppLeft \in 0..5 /\ ClearLeft \in 0..6
  BY LeftTypes DEF LeftOK, Callers
<1> QED BY <1>1 DEF ShutdownRank, ClearingRank

LEMMA EndsInRank ==
  ASSUME TypeOK, NEW n \in Nat
  PROVE  /\ EndsIn(n) => Exiting /\ ShutdownRank = n
         /\ ClearsIn(n) => Removing /\ ClearingRank = n
<1>1. ShutdownRank \in Nat /\ ClearingRank \in Nat
  BY RankTypes
<1> QED BY <1>1 DEF EndsIn, Ending, ClearsIn, Clearing

LEMMA EndingKept ==
  ASSUME IInv, IInv', [Next]_vars, NEW n \in Nat, Ending(n)
  PROVE  Ending(n)'
<1>1. Exiting'
  BY ExitingStays DEF Ending
<1>2. AppLeft' <= AppLeft /\ StopLeft("shutdown")' <= StopLeft("shutdown")
  BY NothingGrows DEF NoPartGrows, Callers
<1>3. StopLeft("shutdown") \in Nat /\ StopLeft("shutdown")' \in Nat
  BY LeftTypes, LeftTypesNext DEF LeftOK, Callers, IInv
<1>4. app = "stopping" \/ app' # "stopping"
  BY <1>1, <1>2 DEF Ending, Exiting, AppLeft, AppRank
<1>5. app' \in {"killing", "fallback", "exited", "rejected"} => AppLeft' <= 2 /\ AppLeft' \in Nat
  BY DEF AppLeft, AppRank
<1>6. app \in {"killing", "fallback", "exited", "rejected"} => AppLeft \in Nat
  BY DEF AppLeft, AppRank
<1>7. ShutdownRank' = IF app' = "stopping" THEN 3 + StopLeft("shutdown")' ELSE AppLeft'
  BY DEF ShutdownRank
<1>8. ShutdownRank <= n /\ Exiting
  BY DEF Ending
<1> DEFINE s == StopLeft("shutdown")
<1>9. CASE app' = "stopping"
  <2>1. s <= n - 3 /\ s' <= s /\ s \in Nat /\ s' \in Nat
    BY <1>2, <1>3, <1>4, <1>8, <1>9 DEF ShutdownRank
  <2>2. PICK a \in Nat, b \in Nat : a = s /\ b = s'
    BY <2>1
  <2>3. 3 + b <= n
    BY <2>1, <2>2
  <2>4. ShutdownRank' = 3 + b
    BY <1>7, <1>9, <2>2
  <2> QED BY <1>1, <2>3, <2>4 DEF Ending
<1>10. CASE app' # "stopping"
  <2>1. AppLeft' <= n
    <3>1. CASE app = "stopping"
      BY <1>1, <1>3, <1>5, <1>8, <1>10, <3>1 DEF ShutdownRank, Exiting
    <3>2. CASE app # "stopping"
      BY <1>1, <1>2, <1>5, <1>6, <1>8, <1>10, <3>2 DEF ShutdownRank, Exiting
    <3> QED BY <3>1, <3>2
  <2> QED BY <1>1, <1>7, <1>10, <2>1 DEF Ending
<1> QED BY <1>9, <1>10

\* The call of the shutdown goes on at 4 to 8, the shutdown itself at 1 to 3.
LEMMA EndingGuards ==
  ASSUME IInv, NEW n \in 1..8, EndsIn(n), ~ClearDue
  PROVE  IF n \in 4..8 THEN StopGuard("shutdown") ELSE QuitGuard
<1>1. Exiting /\ ShutdownRank = n
  BY EndsInRank DEF IInv
<1>2. AppLeft \in {0, 1, 2} \/ app = "stopping"
  BY <1>1 DEF Exiting, AppLeft, AppRank
<1>3. stop["shutdown"].pc \in {"idle", "read", "rm", "wait", "kill", "wait2", "done"}
  BY DEF IInv, TypeOK, Callers
<1>4. QuitInv /\ (n \in 4..8 => app = "stopping" /\ StopLeft("shutdown") = n - 3)
  BY <1>1, <1>2, LeftTypes DEF ShutdownRank, LeftOK, IInv, Callers
<1>5. CASE n \in 4..8
  <2>1. StopLeft("shutdown") \in 1..5
    BY <1>4, <1>5
  <2>2. stop["shutdown"].pc \in {"read", "rm", "wait", "kill", "wait2"}
    BY <1>3, <2>1 DEF StopLeft, StopRank
  <2> QED BY <1>4, <1>5, <2>2 DEF StopGuard, Turn, Running, ShutdownDue
<1>6. CASE n = 3
  <2>1. app = "stopping" /\ StopLeft("shutdown") = 0
    BY <1>1, <1>2, <1>6, LeftTypes DEF ShutdownRank, LeftOK, IInv, Callers
  <2>2. stop["shutdown"].pc = "done"
    BY <1>3, <2>1 DEF StopLeft, StopRank
  <2> QED BY <1>6, <2>1, <2>2 DEF QuitGuard, ShutdownDue
<1>7. CASE n \in {1, 2}
  <2>1. app \in {"killing", "fallback"}
    BY <1>1, <1>7, LeftTypes DEF ShutdownRank, LeftOK, IInv, Callers, Exiting, AppLeft, AppRank
  <2> QED BY <1>7, <2>1 DEF QuitGuard, Turn, Running, ShutdownDue
<1> QED BY <1>5, <1>6, <1>7

LEMMA EndingMoves ==
  ASSUME IInv, IInv', NEW n \in 1..8, EndsIn(n),
         IF n \in 4..8 THEN Stopping("shutdown") ELSE Quit
  PROVE  Ending(n - 1)'
<1>1. Exiting /\ ShutdownRank = n
  BY EndsInRank DEF IInv
<1>2. CASE n \in 4..8
  <2>1. app = "stopping"
    BY <1>1, <1>2 DEF ShutdownRank, Exiting, AppLeft, AppRank
  <2>2. app' = app
    BY <1>2 DEF Stopping, StopReads, StopRemoves, StopSeesExit, StopTimesOut, StopKilled,
                StopGivesUp, quitVars
  <2>3. StopLeft("shutdown")' < StopLeft("shutdown")
    BY <1>2, StoppingWinds DEF Callers
  <2> DEFINE s == StopLeft("shutdown")
  <2>4. s \in Nat /\ s' \in Nat /\ s' < s /\ 3 + s = n
    BY <1>1, <2>1, <2>3, LeftTypes, LeftTypesNext DEF LeftOK, Callers, IInv, ShutdownRank
  <2>5. PICK a \in Nat, b \in Nat : a = s /\ b = s'
    BY <2>4
  <2>6. 3 + b <= n - 1
    BY <2>4, <2>5
  <2>7. ShutdownRank' = 3 + b
    BY <2>1, <2>2, <2>5 DEF ShutdownRank
  <2> QED BY <2>1, <2>2, <2>6, <2>7 DEF Ending, Exiting
<1>3. CASE n \in 1..3
  <2>1. AppLeft' < AppLeft
    BY <1>3, QuitWinds
  <2>2. app' \in {"running", "leaving", "stopping", "killing", "fallback", "exited", "rejected"}
    BY DEF IInv, TypeOK
  <2>3. app' \in {"killing", "fallback", "exited", "rejected"}
    BY <1>1, <2>1, <2>2 DEF Exiting, AppLeft, AppRank
  <2>4. AppLeft' \in 0..2
    BY <2>3 DEF AppLeft, AppRank
  <2>5. n \in {1, 2} => AppLeft = n
    BY <1>1, LeftTypes DEF ShutdownRank, LeftOK, IInv, Callers
  <2>6. AppLeft' <= n - 1
    BY <1>3, <2>1, <2>4, <2>5
  <2>7. app' # "stopping"
    BY <2>3
  <2> QED BY <2>3, <2>6, <2>7 DEF Ending, Exiting, ShutdownRank
<1> QED BY <1>2, <1>3

\* The continuation of the removal, which the shutdown must let go first, comes at most once.
LEMMA ClearDueOnce ==
  ASSUME IInv, IInv', [Next]_vars
  PROVE  /\ ClearDue => ClearGuard /\ Clearing(4) /\ ~Clearing(3)
         /\ Clearing(3) => ~ClearDue /\ Clearing(3)'
         /\ ClearDue /\ Clear => Clearing(3)'
         /\ ClearDue => ClearDue' \/ Clearing(3)' \/ Ending(0)'
<1>1. ClearLeft' <= ClearLeft /\ StopLeft("clear")' <= StopLeft("clear")
  BY NothingGrows DEF NoPartGrows, Callers
<1>2. clear.pc \in {"no", "asked", "stopping", "removing", "removed", "timer", "over"}
      /\ clear'.pc \in {"no", "asked", "stopping", "removing", "removed", "timer", "over"}
  BY DEF IInv, TypeOK
<1>3. StopLeft("clear") \in Nat
  BY LeftTypes DEF LeftOK, Callers, IInv
<1>4. Clearing(3) <=> clear.pc \in {"removing", "removed", "timer", "over"}
  <2>1. clear.pc \in {"removing", "removed", "timer", "over"} => Clearing(3)
    BY DEF Clearing, Removing, ClearingRank, ClearLeft, ClearRank
  <2>2. Clearing(3) => clear.pc # "stopping"
    BY <1>3 DEF Clearing, Removing, ClearingRank
  <2> QED BY <2>1, <2>2 DEF Clearing, Removing
<1>5. clear'.pc \in {"removing", "removed", "timer", "over"} => Clearing(3)'
  BY DEF Clearing, Removing, ClearingRank, ClearLeft, ClearRank
<1>6. ClearDue => ClearGuard /\ Clearing(4) /\ ~Clearing(3)
  BY <1>4 DEF ClearDue, ClearGuard, Clearing, Removing, ClearingRank, StopLeft, StopRank
<1>7. Clearing(3) => ~ClearDue /\ Clearing(3)'
  BY <1>1, <1>2, <1>4, <1>5 DEF ClearDue, ClearLeft, ClearRank
<1>8. ClearDue /\ Clear => Clearing(3)'
  <2>1. Clear => ClearLeft' < ClearLeft
    BY ClearWinds
  <2> QED BY <1>2, <1>5, <2>1 DEF ClearDue, ClearLeft, ClearRank
<1>9. ASSUME ClearDue, ~Clearing(3)', ~Ending(0)' PROVE ClearDue'
  <2>1. clear'.pc = "stopping"
    BY <1>1, <1>2, <1>5, <1>9 DEF ClearDue, ClearLeft, ClearRank
  <2>2. stop'["clear"].pc = "done"
    <3>1. stop'["clear"].pc \in {"idle", "read", "rm", "wait", "kill", "wait2", "done"}
      BY DEF IInv, TypeOK, Callers
    <3> QED BY <1>1, <1>9, <3>1 DEF ClearDue, StopLeft, StopRank
  <2>3. app' # "exited"
    BY <1>9 DEF Ending, Exiting, ShutdownRank, AppLeft, AppRank
  <2> QED BY <2>1, <2>2, <2>3 DEF ClearDue, Running
<1> QED BY <1>6, <1>7, <1>8, <1>9

\* The ranks of the removal, by its points.
LEMMA ClearingCases ==
  ASSUME TypeOK
  PROVE  /\ Removing /\ clear.pc # "stopping" => ClearingRank = ClearLeft /\ ClearLeft \in 0..3
         /\ clear.pc = "stopping" =>
              Removing /\ ClearingRank = 4 + StopLeft("clear") /\ ClearLeft = 4
         /\ StopLeft("clear") \in 0..6
BY LeftTypes DEF LeftOK, Callers, Removing, ClearingRank, ClearLeft, ClearRank

LEMMA ClearingCasesNext ==
  TypeOK' =>
    /\ Removing' /\ clear'.pc # "stopping" => ClearingRank' = ClearLeft' /\ ClearLeft' \in 0..3
    /\ clear'.pc = "stopping" =>
         Removing' /\ ClearingRank' = 4 + StopLeft("clear")' /\ ClearLeft' = 4
    /\ StopLeft("clear")' \in 0..6
BY LeftTypesNext DEF LeftOK, Callers, Removing, ClearingRank, ClearLeft, ClearRank

LEMMA ClearingKept ==
  ASSUME IInv, IInv', [Next]_vars, NEW n \in Nat, Clearing(n)
  PROVE  Clearing(n)'
<1>1. ClearLeft' <= ClearLeft /\ StopLeft("clear")' <= StopLeft("clear")
  BY NothingGrows DEF NoPartGrows, Callers
<1>2. Removing /\ ClearingRank <= n
  BY DEF Clearing
<1>3. clear'.pc \in {"no", "asked", "stopping", "removing", "removed", "timer", "over"}
  BY DEF IInv, TypeOK
<1>4. Removing'
  BY <1>1, <1>2, <1>3 DEF Removing, ClearLeft, ClearRank
<1>5. PICK r1 \in Nat, r2 \in Nat, s1 \in Nat, s2 \in Nat, l1 \in Nat, l2 \in Nat :
        /\ r1 = ClearingRank /\ r2 = ClearingRank'
        /\ s1 = StopLeft("clear") /\ s2 = StopLeft("clear")'
        /\ l1 = ClearLeft /\ l2 = ClearLeft'
  <2>1. ClearingRank \in Nat /\ StopLeft("clear") \in Nat /\ ClearLeft \in Nat
    BY RankTypes, LeftTypes DEF LeftOK, Callers, IInv
  <2>2. StopLeft("clear")' \in 0..6 /\ ClearLeft' \in Nat
    BY ClearingCasesNext, LeftTypesNext DEF LeftOK, IInv
  <2>3. ClearingRank' \in Nat
    BY <1>4, <2>2, ClearingCasesNext DEF IInv
  <2> QED BY <2>1, <2>2, <2>3
<1>6. /\ clear.pc # "stopping" => r1 = l1 /\ l1 \in 0..3
      /\ clear.pc = "stopping" => r1 = 4 + s1 /\ l1 = 4
  BY <1>2, <1>5, ClearingCases DEF IInv
<1>7. /\ clear'.pc # "stopping" => r2 = l2 /\ l2 \in 0..3
      /\ clear'.pc = "stopping" => r2 = 4 + s2 /\ l2 = 4
  BY <1>4, <1>5, ClearingCasesNext DEF IInv
<1>8. r1 <= n /\ l2 <= l1 /\ s2 <= s1
  BY <1>1, <1>2, <1>5
<1>9. r2 <= n
  BY <1>6, <1>7, <1>8
<1> QED BY <1>4, <1>5, <1>9 DEF Clearing

LEMMA ClearingGuards ==
  ASSUME IInv, NEW n \in 1..9, ClearsIn(n), ~Exiting
  PROVE  IF n \in 5..9 THEN StopGuard("clear") ELSE ClearGuard
<1>1. Removing /\ ClearingRank = n
  BY EndsInRank DEF IInv
<1>2. stop["clear"].pc \in {"idle", "read", "rm", "wait", "kill", "wait2", "done"}
  BY DEF IInv, TypeOK, Callers
<1>3. Running /\ ~ShutdownDue
  BY DEF Running, ShutdownDue, Exiting
<1>4. CASE n \in 5..9
  <2>1. clear.pc = "stopping" /\ StopLeft("clear") \in 1..5
    BY <1>1, <1>4, ClearingCases DEF IInv
  <2>2. stop["clear"].pc \in {"read", "rm", "wait", "kill", "wait2"}
    BY <1>2, <2>1 DEF StopLeft, StopRank
  <2> QED BY <1>3, <1>4, <2>2 DEF StopGuard, Turn, ClearDue
<1>5. CASE n = 4
  <2>1. clear.pc = "stopping" /\ StopLeft("clear") = 0
    BY <1>1, <1>5, ClearingCases DEF IInv
  <2>2. stop["clear"].pc = "done"
    BY <1>2, <2>1 DEF StopLeft, StopRank
  <2> QED BY <1>3, <1>5, <2>1, <2>2 DEF ClearGuard, ClearDue
<1>6. CASE n \in 1..3
  <2>1. clear.pc # "stopping" /\ ClearLeft = n
    BY <1>1, <1>6, ClearingCases DEF IInv
  <2>2. clear.pc \in {"removing", "removed", "timer"}
    BY <1>1, <1>6, <2>1 DEF Removing, ClearLeft, ClearRank
  <2> QED BY <1>3, <1>6, <2>2 DEF ClearGuard, Turn, ClearDue
<1> QED BY <1>4, <1>5, <1>6

LEMMA ClearingMoves ==
  ASSUME IInv, IInv', [Next]_vars, NEW n \in 1..9, ClearsIn(n),
         IF n \in 5..9 THEN Stopping("clear") ELSE Clear
  PROVE  Clearing(n - 1)'
<1>1. Removing /\ ClearingRank = n
  BY EndsInRank DEF IInv
<1>2. Removing'
  <2>1. Clearing(n)
    BY DEF ClearsIn
  <2> QED BY <2>1, ClearingKept DEF Clearing
<1>3. CASE n \in 5..9
  <2>0. clear.pc = "stopping"
    BY <1>1, <1>3, ClearingCases DEF IInv
  <2>1. clear.pc = "stopping" /\ clear' = clear
    BY <1>3, <2>0 DEF Stopping, StopReads, StopRemoves, StopSeesExit, StopTimesOut, StopKilled,
                      StopGivesUp
  <2>2. StopLeft("clear")' < StopLeft("clear")
    BY <1>3, StoppingWinds DEF Callers
  <2>3. PICK a \in Nat, b \in Nat : a = StopLeft("clear") /\ b = StopLeft("clear")'
    BY ClearingCases, ClearingCasesNext DEF IInv
  <2>4. 4 + a = n /\ b < a
    BY <1>1, <2>1, <2>2, <2>3, ClearingCases DEF IInv
  <2>5. ClearingRank' = 4 + b
    BY <2>1, <2>3 DEF ClearingRank
  <2>6. 4 + b <= n - 1
    BY <2>4
  <2> QED BY <1>2, <2>5, <2>6 DEF Clearing
<1>4. CASE n \in 1..4
  <2>1. ClearLeft' < ClearLeft
    BY <1>4, ClearWinds
  <2>2. ClearLeft <= n /\ ClearLeft \in 0..4
    BY <1>1, <1>4, ClearingCases DEF IInv
  <2>3. PICK a \in Nat, b \in Nat : a = ClearLeft /\ b = ClearLeft'
    BY LeftTypes, LeftTypesNext DEF LeftOK, IInv
  <2>4. b <= n - 1 /\ b # 4
    BY <2>1, <2>2, <2>3
  <2>5. ClearingRank' = b
    BY <1>2, <2>3, <2>4, ClearingCasesNext DEF IInv
  <2> QED BY <1>2, <2>4, <2>5 DEF Clearing
<1> QED BY <1>3, <1>4

\* The app is on its way out until its shutdown has ended.
LEMMA EndingFrom ==
  /\ IInv /\ WayInv => (Exiting <=> Ending(8))
  /\ IInv /\ Ending(0) => Ended
<1>1. ASSUME IInv, WayInv, Exiting PROVE Ending(8)
  <2>1. CASE app = "stopping"
    <3>1. stop["shutdown"].pc \in {"read", "rm", "wait", "kill", "wait2", "done"}
      BY <1>1, <2>1 DEF WayInv, IInv, TypeOK, Callers
    <3>2. StopLeft("shutdown") \in 0..5
      BY <3>1 DEF StopLeft, StopRank
    <3> QED BY <1>1, <2>1, <3>2 DEF Ending, ShutdownRank
  <2>2. CASE app # "stopping"
    BY <1>1, <2>2 DEF Exiting, Ending, ShutdownRank, AppLeft, AppRank
  <2> QED BY <2>1, <2>2
<1>2. ASSUME IInv, Ending(0) PROVE Ended
  <2>1. Exiting /\ ShutdownRank <= 0 /\ StopLeft("shutdown") \in Nat
    BY <1>2, LeftTypes DEF Ending, LeftOK, IInv, Callers
  <2>2. app \in {"exited", "rejected"}
    BY <2>1 DEF Exiting, ShutdownRank, AppLeft, AppRank
  <2> QED BY <1>2, <2>2 DEF Ended, IInv, QuitInv
<1> QED BY <1>1, <1>2 DEF Ending

\* So does the removal of the data reach its timer.
LEMMA ClearingFrom ==
  /\ IInv /\ WayInv /\ clear.pc = "stopping" => Clearing(9)
  /\ IInv /\ WayInv /\ Clearing(0) => Exiting
<1>1. ASSUME IInv, WayInv, clear.pc = "stopping" PROVE Clearing(9)
  <2>1. stop["clear"].pc \in {"read", "rm", "wait", "kill", "wait2", "done"}
    BY <1>1 DEF WayInv, IInv, TypeOK, Callers
  <2>2. StopLeft("clear") \in 0..5
    BY <2>1 DEF StopLeft, StopRank
  <2> QED BY <1>1, <2>2 DEF Clearing, Removing, ClearingRank
<1>2. ASSUME IInv, WayInv, Clearing(0) PROVE Exiting
  <2>1. Removing /\ ClearingRank <= 0 /\ StopLeft("clear") \in Nat
    BY <1>2, LeftTypes DEF Clearing, LeftOK, IInv, Callers
  <2>2. clear.pc = "over"
    BY <2>1 DEF Removing, ClearingRank, ClearLeft, ClearRank
  <2> QED BY <1>2, <2>2 DEF WayInv
<1> QED BY <1>1, <1>2

LEMMA ExitComes == FairSpec /\ []GuardsSuffice => (Exiting ~> Ended)
<1> DEFINE I == IInv /\ WayInv
<1>1. Spec => []I
  BY Invariance, WayInvariance, PTL
<1>2. I /\ I' /\ [Next]_vars =>
        /\ Ending(8) => Ending(8)'
        /\ Ending(7) => Ending(7)'
        /\ Ending(6) => Ending(6)'
        /\ Ending(5) => Ending(5)'
        /\ Ending(4) => Ending(4)'
        /\ Ending(3) => Ending(3)'
        /\ Ending(2) => Ending(2)'
        /\ Ending(1) => Ending(1)'
  BY EndingKept
<1>3. I /\ I' =>
        /\ Ending(8) /\ ~Ending(7) /\ <<Stopping("shutdown")>>_vars => Ending(7)'
        /\ Ending(7) /\ ~Ending(6) /\ <<Stopping("shutdown")>>_vars => Ending(6)'
        /\ Ending(6) /\ ~Ending(5) /\ <<Stopping("shutdown")>>_vars => Ending(5)'
        /\ Ending(5) /\ ~Ending(4) /\ <<Stopping("shutdown")>>_vars => Ending(4)'
        /\ Ending(4) /\ ~Ending(3) /\ <<Stopping("shutdown")>>_vars => Ending(3)'
        /\ Ending(3) /\ ~Ending(2) /\ <<Quit>>_vars => Ending(2)'
        /\ Ending(2) /\ ~Ending(1) /\ <<Quit>>_vars => Ending(1)'
        /\ Ending(1) /\ ~Ending(0) /\ <<Quit>>_vars => Ending(0)'
  BY EndingMoves DEF EndsIn
<1>4. I /\ ~ClearDue =>
        /\ Ending(8) /\ ~Ending(7) => StopGuard("shutdown")
        /\ Ending(7) /\ ~Ending(6) => StopGuard("shutdown")
        /\ Ending(6) /\ ~Ending(5) => StopGuard("shutdown")
        /\ Ending(5) /\ ~Ending(4) => StopGuard("shutdown")
        /\ Ending(4) /\ ~Ending(3) => StopGuard("shutdown")
        /\ Ending(3) /\ ~Ending(2) => QuitGuard
        /\ Ending(2) /\ ~Ending(1) => QuitGuard
        /\ Ending(1) /\ ~Ending(0) => QuitGuard
  BY EndingGuards DEF EndsIn
<1>5. I /\ I' /\ [Next]_vars =>
        /\ ClearDue => ClearGuard
        /\ Clearing(3) => ~ClearDue /\ Clearing(3)'
        /\ ClearDue /\ <<Clear>>_vars => Clearing(3)'
        /\ ClearDue => ClearDue' \/ Clearing(3)' \/ Ending(0)'
  BY ClearDueOnce
<1>6. I => (Exiting => Ending(8)) /\ (Ending(0) => Ended)
  BY EndingFrom
<1> HIDE DEF I
<1> QED BY <1>1, <1>2, <1>3, <1>4, <1>5, <1>6, PTL DEF FairSpec, Spec, GuardsSuffice

LEMMA RemovalEndsInExit ==
  FairSpec /\ []GuardsSuffice => (clear.pc = "stopping" ~> Exiting)
<1> DEFINE I == IInv /\ WayInv
<1>1. Spec => []I
  BY Invariance, WayInvariance, PTL
<1>2. I /\ I' /\ [Next]_vars =>
        /\ Clearing(9) => Clearing(9)'
        /\ Clearing(8) => Clearing(8)'
        /\ Clearing(7) => Clearing(7)'
        /\ Clearing(6) => Clearing(6)'
        /\ Clearing(5) => Clearing(5)'
        /\ Clearing(4) => Clearing(4)'
        /\ Clearing(3) => Clearing(3)'
        /\ Clearing(2) => Clearing(2)'
        /\ Clearing(1) => Clearing(1)'
  BY ClearingKept
<1>3. I /\ I' /\ [Next]_vars =>
        /\ Clearing(9) /\ ~Clearing(8) /\ <<Stopping("clear")>>_vars => Clearing(8)'
        /\ Clearing(8) /\ ~Clearing(7) /\ <<Stopping("clear")>>_vars => Clearing(7)'
        /\ Clearing(7) /\ ~Clearing(6) /\ <<Stopping("clear")>>_vars => Clearing(6)'
        /\ Clearing(6) /\ ~Clearing(5) /\ <<Stopping("clear")>>_vars => Clearing(5)'
        /\ Clearing(5) /\ ~Clearing(4) /\ <<Stopping("clear")>>_vars => Clearing(4)'
        /\ Clearing(4) /\ ~Clearing(3) /\ <<Clear>>_vars => Clearing(3)'
        /\ Clearing(3) /\ ~Clearing(2) /\ <<Clear>>_vars => Clearing(2)'
        /\ Clearing(2) /\ ~Clearing(1) /\ <<Clear>>_vars => Clearing(1)'
        /\ Clearing(1) /\ ~Clearing(0) /\ <<Clear>>_vars => Clearing(0)'
  BY ClearingMoves DEF ClearsIn
<1>4. I /\ ~Exiting =>
        /\ Clearing(9) /\ ~Clearing(8) => StopGuard("clear")
        /\ Clearing(8) /\ ~Clearing(7) => StopGuard("clear")
        /\ Clearing(7) /\ ~Clearing(6) => StopGuard("clear")
        /\ Clearing(6) /\ ~Clearing(5) => StopGuard("clear")
        /\ Clearing(5) /\ ~Clearing(4) => StopGuard("clear")
        /\ Clearing(4) /\ ~Clearing(3) => ClearGuard
        /\ Clearing(3) /\ ~Clearing(2) => ClearGuard
        /\ Clearing(2) /\ ~Clearing(1) => ClearGuard
        /\ Clearing(1) /\ ~Clearing(0) => ClearGuard
  BY ClearingGuards DEF ClearsIn
<1>5. I => (clear.pc = "stopping" => Clearing(9)) /\ (Clearing(0) => Exiting)
  BY ClearingFrom
<1> HIDE DEF I
<1> QED BY <1>1, <1>2, <1>3, <1>4, <1>5, PTL DEF FairSpec, Spec, GuardsSuffice

\* A shutdown comes to its end, and so does the removal of the data, for any number of attempts:
\* with app.exit, or on Windows possibly with the rejected shutdown that waits for no child
\* (Ended).  Every wait of stopBackendAndWait and shutdownApp has a timer, each call moves on
\* through at most six points, and the continuation of the removal, which an awaited answer
\* puts before every other event, comes once.  That the steps are enabled where their guards
\* hold is the one thing assumed: the provers have no rule for ENABLED.
THEOREM ShutdownTerminates == FairSpec /\ []GuardsSuffice => ShutdownEnds
<1>1. app = "stopping" => Exiting
  BY DEF Exiting
<1> QED BY <1>1, ExitComes, RemovalEndsInExit, PTL DEF ShutdownEnds

=============================================================================

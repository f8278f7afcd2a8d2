--------------------------- MODULE BackendProcess ---------------------------
(***************************************************************************)
(* The Electron main process and the Python backend it owns               *)
(* (frontend/electron/main.ts, providerDiscovery.ts): the start with its   *)
(* retry, the exit events, the two ways to quit, the removal of the app's  *)
(* data, and the discovery file that tells other programs where the        *)
(* backend listens.  The main process is single threaded: an action is     *)
(* what runs between two awaits.                                           *)
(***************************************************************************)
EXTENDS Naturals, FiniteSets

CONSTANTS
  STARTUP_ATTEMPTS,  \* how often the start of the backend is tried
  Win32,             \* process.platform === 'win32': a kill by force is another program's
  None

ASSUME AttemptsAssumption == STARTUP_ATTEMPTS \in Nat \ {0}
ASSUME Win32Assumption == Win32 \in BOOLEAN
ASSUME NoneAssumption == None \notin 1..STARTUP_ATTEMPTS

Attempts == 1..STARTUP_ATTEMPTS    \* the child of attempt n is child n
Callers == {"shutdown", "clear"}   \* who awaits stopBackendAndWait

VARIABLES
  proc,            \* the operating system's view of each child
  told,            \* children that were sent the polite signal (child.kill())
  doomed,          \* children that were sent SIGKILL or taskkill /F
  reaped,          \* children whose exit event the main process has handled
  expected,        \* expectedBackendExits
  boxed,           \* children whose exit was reported to the user as a failure
  backendProcess,  \* the child the main process holds, or None
  boot,            \* startBackendWithRetry: where it is, and the attempt
  file,            \* provider-discovery.json: the attempt that wrote it, or None
  handle,          \* providerDiscoveryHandle
  stop,            \* per caller: its call of stopBackendAndWait
  app,             \* the way out of the main process
  isQuitting,
  clear,           \* the call of clearAppData
  data,            \* is the folder backend-data there?
  calm             \* was the start over when isQuitting was set?

osVars == <<proc, told, doomed>>
exitVars == <<reaped, expected, boxed, backendProcess>>
discoveryVars == <<file, handle>>
quitVars == <<app, isQuitting, calm>>
vars == <<osVars, exitVars, boot, discoveryVars, stop, quitVars, clear, data>>

-----------------------------------------------------------------------------

Alive(n) == proc[n] \in {"booting", "healthy"}
Settled == boot.pc \in {"ready", "failed", "reported"}
Running == app # "exited"

\* A promise that is settled continues before any other event is handled: the callers of
\* stopBackendAndWait go on at once when its answer is there.
ShutdownDue == app = "stopping" /\ stop["shutdown"].pc = "done"
ClearDue == Running /\ clear.pc = "stopping" /\ stop["clear"].pc = "done"
Turn == Running /\ ~ShutdownDue /\ ~ClearDue

Idle == [pc |-> "idle", handle |-> None, child |-> None, ok |-> FALSE]
Answer(ok) == [pc |-> "done", handle |-> None, child |-> None, ok |-> ok]

Init ==
  /\ proc = [n \in Attempts |-> "none"]
  /\ told = {} /\ doomed = {} /\ reaped = {} /\ expected = {} /\ boxed = {}
  /\ backendProcess = None
  /\ boot = [pc |-> "port", attempt |-> 1]
  /\ file = None /\ handle = None
  /\ stop = [c \in Callers |-> Idle]
  /\ app = "running" /\ isQuitting = FALSE /\ calm = FALSE
  /\ clear = [pc |-> "no", stopped |-> FALSE, success |-> TRUE]
  /\ data = "there"

-----------------------------------------------------------------------------
(* The operating system. *)

Boots(n) ==
  /\ proc[n] = "booting"
  /\ proc' = [proc EXCEPT ![n] = "healthy"]
  /\ UNCHANGED <<told, doomed, exitVars, boot, discoveryVars, stop, quitVars, clear, data>>

\* A child ends: on its own, of the polite signal, or killed.
Dies(n) ==
  /\ Alive(n)
  /\ proc' = [proc EXCEPT ![n] = "gone"]
  /\ UNCHANGED <<told, doomed, exitVars, boot, discoveryVars, stop, quitVars, clear, data>>

-----------------------------------------------------------------------------
(* Stopping the backend. *)

\* cleanupProviderDiscoverySync: only a file that this handle owns is removed.
CleanupDiscoverySync ==
  /\ file' = IF handle # None /\ file = handle THEN None ELSE file
  /\ handle' = None

\* Mutant: the exit that the signal brings is not expected.
SignalOnly ==
  /\ CleanupDiscoverySync
  /\ told' = IF backendProcess = None THEN told ELSE told \cup {backendProcess}
  /\ UNCHANGED expected

\* stopBackend: clean up, expect the exit, send the signal, do not wait.
StopBackend ==
  /\ CleanupDiscoverySync
  /\ IF backendProcess = None
     THEN UNCHANGED <<told, expected>>
     ELSE /\ told' = told \cup {backendProcess}
          /\ expected' = expected \cup {backendProcess}

\* Mutant: a child that was sent a signal counts as gone.
GoneWhenTold(n) == backendProcess # n \/ n \in reaped \cup told \/ proc[n] = "unborn"

\* waitForProcessExit: a child that is not the current one any more, or that was
\* never born, counts as gone without being looked at.
GoneAtOnce(n) == backendProcess # n \/ n \in reaped \/ proc[n] = "unborn"

\* stopBackendAndWait once the discovery file is dealt with.
SignalCurrent(c) ==
  IF backendProcess = None
  THEN /\ stop' = [stop EXCEPT ![c] = Answer(TRUE)]
       /\ UNCHANGED <<told, expected>>
  ELSE /\ told' = told \cup {backendProcess}
       /\ expected' = expected \cup {backendProcess}
       /\ stop' = [stop EXCEPT ![c] =
            IF GoneAtOnce(backendProcess) THEN Answer(TRUE)
            ELSE [pc |-> "wait", handle |-> None, child |-> backendProcess, ok |-> FALSE]]

\* Mutant: the handle is dropped, the file stays.
StopWithoutCleanup(c) == handle' = None /\ SignalCurrent(c)

\* stopBackendAndWait begins: it takes the handle before it awaits the file.
StopBegin(c) ==
  IF handle = None
  THEN SignalCurrent(c) /\ UNCHANGED handle
  ELSE /\ stop' = [stop EXCEPT ![c] = [Idle EXCEPT !.pc = "read", !.handle = handle]]
       /\ handle' = None
       /\ UNCHANGED <<told, expected>>

\* cleanupProviderDiscovery reads the file and, if it owns it, goes on to remove it.
StopReads(c) ==
  /\ Turn /\ stop[c].pc = "read"
  /\ IF file = stop[c].handle
     THEN /\ stop' = [stop EXCEPT ![c].pc = "rm"]
          /\ UNCHANGED <<told, expected>>
     ELSE SignalCurrent(c)
  /\ UNCHANGED <<proc, doomed, reaped, boxed, backendProcess, boot, discoveryVars, quitVars,
                 clear, data>>

StopRemoves(c) ==
  /\ Turn /\ stop[c].pc = "rm"
  /\ file' = None
  /\ SignalCurrent(c)
  /\ UNCHANGED <<proc, doomed, reaped, boxed, backendProcess, boot, handle, quitVars, clear, data>>

StopSeesExit(c) ==
  /\ Turn /\ stop[c].pc \in {"wait", "wait2"}
  /\ stop[c].child \in reaped
  /\ stop' = [stop EXCEPT ![c] = Answer(TRUE)]
  /\ UNCHANGED <<osVars, exitVars, boot, discoveryVars, quitVars, clear, data>>

\* Mutant: when the time is up, the child counts as stopped.
StopAssumesExit(c) ==
  /\ Turn /\ stop[c].pc = "wait"
  /\ stop' = [stop EXCEPT ![c] = Answer(TRUE)]
  /\ UNCHANGED <<osVars, exitVars, boot, discoveryVars, quitVars, clear, data>>

\* Mutant: there is no timer, only the exit is waited for.
StopWaitsForEver(c) == FALSE /\ UNCHANGED vars

\* The second wait of a call.
WaitAgain(call) ==
  IF GoneAtOnce(call.child) THEN Answer(TRUE) ELSE [call EXCEPT !.pc = "wait2"]

\* The first timer: forceKillProcessTree, and another wait.  On Windows taskkill is awaited
\* before that wait begins, and other events are handled meanwhile.
StopTimesOut(c) ==
  /\ Turn /\ stop[c].pc = "wait"
  /\ stop[c].child \notin reaped
  /\ doomed' = doomed \cup {stop[c].child}
  /\ expected' = expected \cup {stop[c].child}
  /\ stop' = [stop EXCEPT ![c] = IF Win32 THEN [@ EXCEPT !.pc = "kill"] ELSE WaitAgain(@)]
  /\ UNCHANGED <<proc, told, reaped, boxed, backendProcess, boot, discoveryVars, quitVars,
                 clear, data>>

\* taskkill has returned.
StopKilled(c) ==
  /\ Turn /\ stop[c].pc = "kill"
  /\ stop' = [stop EXCEPT ![c] = WaitAgain(@)]
  /\ UNCHANGED <<osVars, exitVars, boot, discoveryVars, quitVars, clear, data>>

StopGivesUp(c) ==
  /\ Turn /\ stop[c].pc = "wait2"
  /\ stop[c].child \notin reaped
  /\ stop' = [stop EXCEPT ![c] = Answer(FALSE)]
  /\ UNCHANGED <<osVars, exitVars, boot, discoveryVars, quitVars, clear, data>>

-----------------------------------------------------------------------------
(* Quitting. *)

BeginQuitting ==
  /\ isQuitting' = TRUE
  /\ calm' = IF isQuitting THEN calm ELSE Settled

\* requestAppQuit: shutdownApp returns at once when it is in progress.
RequestAppQuit ==
  IF app \in {"running", "leaving"}
  THEN /\ app' = "stopping"
       /\ BeginQuitting
       /\ StopBegin("shutdown")
  ELSE UNCHANGED <<quitVars, stop, handle, told, expected>>

\* The tray menu, the close prompt, the last window closed.
UserQuits ==
  /\ Turn /\ app = "running"
  /\ RequestAppQuit
  /\ UNCHANGED <<proc, doomed, reaped, boxed, backendProcess, boot, file, clear, data>>

\* shutdownApp after its stop: what is current now is killed by force, if the stop failed.
ShutdownGoesOn ==
  /\ ShutdownDue
  /\ IF stop["shutdown"].ok \/ backendProcess = None
     THEN /\ app' = "exited"
          /\ UNCHANGED <<doomed, expected>>
     ELSE /\ app' = IF Win32 THEN "killing" ELSE "fallback"
          /\ doomed' = doomed \cup {backendProcess}
          /\ expected' = expected \cup {backendProcess}
  /\ UNCHANGED <<proc, told, reaped, boxed, backendProcess, boot, discoveryVars, stop,
                 isQuitting, calm, clear, data>>

\* taskkill has returned, and backendProcess is read again for the last wait: when the exit of
\* the child was handled meanwhile, waitForProcessExit(null) throws before a promise is there
\* to be caught, shutdownApp is rejected and nobody calls app.exit.
ShutdownWaits ==
  /\ Turn /\ app = "killing"
  /\ app' = IF backendProcess = None THEN "rejected" ELSE "fallback"
  /\ UNCHANGED <<osVars, exitVars, boot, discoveryVars, stop, isQuitting, calm, clear, data>>

\* The last wait ends with the exit or with its timer; app.exit follows either way.
ShutdownEndsWait ==
  /\ Turn /\ app = "fallback"
  /\ app' = "exited"
  /\ UNCHANGED <<osVars, exitVars, boot, discoveryVars, stop, isQuitting, calm, clear, data>>

\* before-quit, when the operating system or the dock quits the app: nobody waits.
BeforeQuit ==
  /\ Turn /\ app = "running"
  /\ app' = "leaving"
  /\ BeginQuitting
  /\ StopBackend
  /\ UNCHANGED <<proc, doomed, reaped, boxed, backendProcess, boot, stop, clear, data>>

Leaves ==
  /\ Turn /\ app = "leaving"
  /\ app' = "exited"
  /\ UNCHANGED <<osVars, exitVars, boot, discoveryVars, stop, isQuitting, calm, clear, data>>

\* The exit event of a child.
ChildExit(n) ==
  /\ Turn
  /\ proc[n] = "gone" /\ n \notin reaped
  /\ reaped' = reaped \cup {n}
  /\ backendProcess' = IF backendProcess = n THEN None ELSE backendProcess
  /\ IF isQuitting \/ n \in expected
     THEN UNCHANGED <<boxed, app, isQuitting, calm, stop, handle, told, expected>>
     ELSE \* the box, then requestAppQuit(1), which finds no current child
          /\ boxed' = boxed \cup {n}
          /\ IF app \in {"running", "leaving"}
             THEN /\ app' = "stopping"
                  /\ BeginQuitting
                  /\ handle' = None
                  /\ IF handle = None /\ backendProcess = n
                     THEN stop' = [stop EXCEPT !["shutdown"] = Answer(TRUE)]
                     ELSE stop' = [stop EXCEPT !["shutdown"] =
                                     [Idle EXCEPT !.pc = "read", !.handle = handle]]
             ELSE UNCHANGED <<quitVars, stop, handle>>
          /\ UNCHANGED <<told, expected>>
  /\ UNCHANGED <<proc, doomed, boot, file, clear, data>>

-----------------------------------------------------------------------------
(* Starting the backend: startBackendWithRetry and startBackend. *)

At(pc) == Turn /\ boot.pc = pc

\* A port was found: the folders are made, the child is spawned (a spawn error is
\* reported later) and becomes the current one.  Nothing asks whether the app quits.
SpawnBackend ==
  /\ At("port")
  /\ \E born \in {"booting", "unborn"} :
       proc' = [proc EXCEPT ![boot.attempt] = born]
  /\ backendProcess' = boot.attempt
  /\ data' = "there"
  /\ boot' = [boot EXCEPT !.pc = "probe"]
  /\ UNCHANGED <<told, doomed, reaped, expected, boxed, discoveryVars, stop, quitVars, clear>>

\* pickAvailablePort is outside the try: its failure is not retried.
PortFails ==
  /\ At("port")
  /\ boot' = [boot EXCEPT !.pc = "failed"]
  /\ UNCHANGED <<osVars, exitVars, discoveryVars, stop, quitVars, clear, data>>

\* The attempt throws: a folder or the log cannot be made (before there is a child),
\* the spawn failed, the child exited, or the deadline has passed.
AttemptFails ==
  /\ Turn /\ boot.pc \in {"port", "probe"}
  /\ StopBackend
  /\ boot' = [boot EXCEPT !.pc =
                IF boot.attempt < STARTUP_ATTEMPTS THEN "backoff" ELSE "failed"]
  /\ UNCHANGED <<proc, doomed, reaped, boxed, backendProcess, stop, quitVars, clear, data>>

NextAttempt ==
  /\ At("backoff")
  /\ boot' = [pc |-> "port", attempt |-> boot.attempt + 1]
  /\ UNCHANGED <<osVars, exitVars, discoveryVars, stop, quitVars, clear, data>>

\* pingHealth: status 200 from the child of this attempt.
ProbeOk ==
  /\ At("probe")
  /\ proc[boot.attempt] = "healthy"
  /\ boot' = [boot EXCEPT !.pc = "publish"]
  /\ UNCHANGED <<osVars, exitVars, discoveryVars, stop, quitVars, clear, data>>

\* writeProviderDiscovery: the rename makes the file visible.
PublishRenames ==
  /\ At("publish")
  /\ file' = boot.attempt
  /\ boot' = [boot EXCEPT !.pc = "published"]
  /\ UNCHANGED <<osVars, exitVars, handle, stop, quitVars, clear, data>>

\* A write that fails is only logged.
PublishSkipped ==
  /\ At("publish")
  /\ boot' = [boot EXCEPT !.pc = "ready"]
  /\ UNCHANGED <<osVars, exitVars, discoveryVars, stop, quitVars, clear, data>>

\* The handle is stored when the awaited write returns, whatever happened meanwhile.
PublishStoresHandle ==
  /\ At("published")
  /\ handle' = boot.attempt
  /\ boot' = [boot EXCEPT !.pc = "ready"]
  /\ UNCHANGED <<osVars, exitVars, file, stop, quitVars, clear, data>>

\* startApp is rejected: the fatal error, and requestAppQuit(1).
StartAppFails ==
  /\ At("failed")
  /\ boot' = [boot EXCEPT !.pc = "reported"]
  /\ RequestAppQuit
  /\ UNCHANGED <<proc, doomed, reaped, boxed, backendProcess, file, clear, data>>

-----------------------------------------------------------------------------
(* Removing the app's data: clearAppData with the exit the settings page asks for. *)

\* The request comes from a window, so the app is not quitting yet; the candidates
\* are measured first.
ClearAsked ==
  /\ Turn /\ ~isQuitting /\ clear.pc = "no"
  /\ clear' = [clear EXCEPT !.pc = "asked"]
  /\ UNCHANGED <<osVars, exitVars, boot, discoveryVars, stop, quitVars, data>>

ClearBegins ==
  /\ Turn /\ clear.pc = "asked"
  /\ clear' = [clear EXCEPT !.pc = "stopping"]
  /\ BeginQuitting
  /\ StopBegin("clear")
  /\ UNCHANGED <<proc, doomed, reaped, boxed, backendProcess, boot, file, app, data>>

\* The removal goes on whether or not the backend could be stopped.
ClearStopped ==
  /\ ClearDue
  /\ clear' = [clear EXCEPT !.pc = "removing", !.stopped = stop["clear"].ok]
  /\ UNCHANGED <<osVars, exitVars, boot, discoveryVars, stop, quitVars, data>>

ClearRemovesData ==
  /\ Turn /\ clear.pc = "removing"
  /\ \/ data' = "gone" /\ clear' = [clear EXCEPT !.pc = "removed"]
     \/ data' = data /\ clear' = [clear EXCEPT !.pc = "removed", !.success = FALSE]
  /\ UNCHANGED <<osVars, exitVars, boot, discoveryVars, stop, quitVars>>

\* The other candidates; then the reset marker and the relaunch if nothing failed,
\* and the timer of the exit in any case.
ClearFinishes ==
  /\ Turn /\ clear.pc = "removed"
  /\ \E ok \in BOOLEAN :
       clear' = [clear EXCEPT !.pc = "timer", !.success = @ /\ ok]
  /\ UNCHANGED <<osVars, exitVars, boot, discoveryVars, stop, quitVars, data>>

ClearExits ==
  /\ Turn /\ clear.pc = "timer"
  /\ clear' = [clear EXCEPT !.pc = "over"]
  /\ RequestAppQuit
  /\ UNCHANGED <<proc, doomed, reaped, boxed, backendProcess, boot, file, data>>

-----------------------------------------------------------------------------

\* What the main process does by itself, as opposed to what users and the system do.
Startup ==
  \/ SpawnBackend \/ PortFails \/ AttemptFails \/ NextAttempt \/ ProbeOk
  \/ PublishRenames \/ PublishSkipped \/ PublishStoresHandle \/ StartAppFails
Stopping(c) ==
  \/ StopReads(c) \/ StopRemoves(c) \/ StopSeesExit(c) \/ StopTimesOut(c) \/ StopKilled(c)
  \/ StopGivesUp(c)
Quit == ShutdownGoesOn \/ ShutdownWaits \/ ShutdownEndsWait \/ Leaves
Clear ==
  \/ ClearBegins \/ ClearStopped \/ ClearRemovesData \/ ClearFinishes \/ ClearExits
Children == \E n \in Attempts : Boots(n) \/ Dies(n) \/ ChildExit(n)

\* The app has exited, or hangs in a rejected shutdown, and every child has ended: nothing is
\* left to happen.
Over == app \in {"exited", "rejected"} /\ (\A n \in Attempts : ~Alive(n)) /\ UNCHANGED vars

Next ==
  \/ Children \/ Startup \/ Quit \/ Clear
  \/ \E c \in Callers : Stopping(c)
  \/ UserQuits \/ BeforeQuit \/ ClearAsked
  \/ Over

Spec == Init /\ [][Next]_vars

\* Timers fire, awaited calls return and events are delivered; a child need not become
\* healthy, need not die, and nobody has to quit.
FairSpec ==
  /\ Spec
  /\ WF_vars(Startup) /\ WF_vars(Quit) /\ WF_vars(Clear)
  /\ WF_vars(Stopping("shutdown")) /\ WF_vars(Stopping("clear"))

-----------------------------------------------------------------------------

TypeOK ==
  /\ proc \in [Attempts -> {"none", "unborn", "booting", "healthy", "gone"}]
  /\ told \in SUBSET Attempts /\ doomed \in SUBSET Attempts /\ reaped \in SUBSET Attempts
  /\ expected \in SUBSET Attempts /\ boxed \in SUBSET Attempts
  /\ backendProcess \in Attempts \cup {None}
  /\ boot \in [pc : {"port", "probe", "backoff", "publish", "published", "ready", "failed",
                     "reported"},
               attempt : Attempts]
  /\ file \in Attempts \cup {None} /\ handle \in Attempts \cup {None}
  /\ stop \in [Callers -> [pc : {"idle", "read", "rm", "wait", "kill", "wait2", "done"},
                           handle : Attempts \cup {None}, child : Attempts \cup {None},
                           ok : BOOLEAN]]
  /\ app \in {"running", "leaving", "stopping", "killing", "fallback", "exited", "rejected"}
  /\ isQuitting \in BOOLEAN /\ calm \in BOOLEAN
  /\ clear \in [pc : {"no", "asked", "stopping", "removing", "removed", "timer", "over"},
                stopped : BOOLEAN, success : BOOLEAN]
  /\ data \in {"there", "gone"}

\* The user is told that the document service failed only of a child that ended without
\* having been asked to: no stop, of a failed attempt or of a way out, is taken for a crash
\* (the exit handler and expectedBackendExits).
BoxMeansCrash == boxed \cap (told \cup doomed) = {}

\* When the start was over before the quit began, the app leaves no backend behind that was
\* not told to stop, and after a shutdown that waited, none that was not killed: the waits of
\* stopBackendAndWait and shutdownApp end only with an exit or after a kill.  The same holds of
\* a shutdown that was rejected: what it left running was told to stop or killed.  (A start that is
\* still going on when the quit begins may leave one: shutdownApp stops the child it finds,
\* and the retry may start another behind it.)
NothingLeftBehind ==
  app \in {"exited", "rejected"} /\ calm =>
    \A n \in Attempts : Alive(n) =>
      /\ n \in told
      /\ stop["shutdown"].pc = "done" /\ n = boot.attempt => n \in doomed

\* When the start was over before the quit began, the discovery file of this app is gone when
\* the app has exited through shutdownApp: whoever took the handle finished with the file
\* (unless the app is quit in the instant in which a removal of the data still reads it).
ExitUnpublishes ==
  app = "exited" /\ calm /\ stop["shutdown"].pc = "done" /\ stop["clear"].pc \notin {"read", "rm"}
    => file = None

\* When the start was over before the removal of the data began and the backend was stopped,
\* no current backend lives while the data is removed, and the reset marker is written only
\* over data that is gone (clearAppData, stopBackendAndWait).
RemovalIsQuiet ==
  calm /\ clear.stopped =>
    /\ clear.pc \in {"removing", "removed", "timer"} => ~Alive(boot.attempt)
    /\ clear.pc = "timer" /\ clear.success => data = "gone"

\* A shutdown ends, whatever the backend does with its signals, and so does the app after a
\* removal of its data (the timers of waitForProcessExit, shutdownApp and clearAppData): with
\* app.exit everywhere but on Windows, and there with app.exit or, when the exit of the child is
\* handled while the taskkill of the last resort is awaited, with the exception that leaves the
\* app running without windows (ShutdownWaits).
Ended == app = "exited" \/ (Win32 /\ app = "rejected")

ShutdownEnds ==
  /\ app = "stopping" ~> Ended
  /\ clear.pc = "stopping" ~> Ended

=============================================================================

--------------------------- MODULE DesktopSettings ---------------------------
(***************************************************************************)
(* The settings of the desktop application: the file settings.json, its    *)
(* copy in memory, the global shortcut and the login item of the main      *)
(* process (frontend/electron/main.ts), and the page that shows and        *)
(* changes them (frontend/src/components/FileManager.tsx and               *)
(* file-manager/GeneralSettingsSection.tsx).  A write of the file may fail *)
(* or be cut off by the end of the application, another program may hold a *)
(* shortcut, and the system may ignore the login item.  Whether the        *)
(* palette shows recent documents is kept the way "enabled" is and is left *)
(* out.  One change is under way at a time (a bound): the handlers of the   *)
(* main process are synchronous, each is one step.                         *)
(***************************************************************************)
EXTENDS Naturals

CONSTANTS
  Accelerators, Default,   \* DEFAULT_QUICK_SEARCH_SETTINGS.accelerator
  Contested,               \* bound: the shortcuts that other programs take
  None,
  MaxRuns                  \* bound: starts of the application

VARIABLES
  file,       \* settings.json: the settings, or that it is missing or unreadable
  cache,      \* cachedAppSettings, read when the application starts
  hotkey,     \* registeredQuickSearchAccelerator
  taken,      \* shortcuts that other programs hold
  login,      \* whether the system starts the application at login
  prompt,     \* closePromptInProgress
  shown,      \* the page: closeBehavior, quickSearchSettings, startupSettings
  capture,    \* the page: shortcutCaptureActive
  asking,     \* the page: kinds whose first answer is not there
  call,       \* the change under way: its kind, what was asked, then the answer
  unsure,     \* history: kinds whose last call was rejected, and "close" once the prompt has
              \* stored a choice that the page has not asked for
  runs        \* starts so far

stored == <<file, cache>>
system == <<hotkey, taken, login>>
page == <<shown, capture, asking, call, unsure>>
vars == <<stored, system, prompt, page, runs>>

Behaviors == {"ask", "hide", "quit"}
Kinds == {"close", "quick", "startup"}
Settings == [close : Behaviors, enabled : BOOLEAN, accelerator : Accelerators]
Defaults == [close |-> "ask", enabled |-> TRUE, accelerator |-> Default]
Unreadable == [Defaults EXCEPT !.close = "unreadable"]
Missing == [Defaults EXCEPT !.close = "missing"]

\* readSettings: a file that cannot be read or parsed gives the defaults.
Read(f) == IF f \in Settings THEN f ELSE Defaults

\* computeQuickSearchStatus: what the page gets to know of the shortcut.
Status(c, key) ==
  [supported |-> TRUE, enabled |-> c.enabled, accelerator |-> c.accelerator,
   registered |-> c.enabled /\ key # None]

\* readStartupSettings: what the system says, unless asking it fails.
LoginStatus(on) ==
  {[supported |-> TRUE, enabled |-> on], [supported |-> FALSE, enabled |-> FALSE]}

\* registerQuickSearchShortcut: the old shortcut goes, and the new one may be taken.
Registered(c) ==
  IF c.enabled /\ c.accelerator \notin taken THEN c.accelerator ELSE None

NoCall == [kind |-> None, value |-> None, answered |-> FALSE, ok |-> TRUE]

\* The page before its first answers.
Blank ==
  [close |-> "ask",
   quick |-> [supported |-> FALSE, enabled |-> FALSE, accelerator |-> Default,
              registered |-> FALSE],
   startup |-> [supported |-> FALSE, enabled |-> FALSE]]

\* A start of the application: the main process reads the file and registers the shortcut,
\* the page asks for everything.
Starts(f) ==
  /\ cache' = Read(f)
  /\ hotkey' = Registered(Read(f))
  /\ prompt' = FALSE
  /\ shown' = Blank /\ capture' = FALSE
  /\ asking' = Kinds /\ call' = NoCall
  /\ unsure' = {}

Init ==
  /\ file \in {Missing, Unreadable}
  /\ taken \in SUBSET Contested
  /\ cache = Read(file) /\ hotkey = Registered(Read(file)) /\ login = FALSE
  /\ prompt = FALSE /\ shown = Blank /\ capture = FALSE
  /\ asking = Kinds /\ call = NoCall
  /\ unsure = {} /\ runs = 1

\* closeBehaviorLoading, quickSearchSettingsLoading, startupSettingsLoading
Busy(k) == k \in asking \/ call.kind = k

\* Mutant: the copy in memory changes before the file does.
WritesCacheFirst(next, ok) ==
  /\ cache' = next
  /\ IF ok THEN file' = next ELSE file' \in {file, Unreadable}

\* writeSettings: the copy in memory changes once the file is written; a write that fails may
\* leave the file empty.
WriteSettings(next, ok) ==
  IF ok THEN file' = next /\ cache' = next
        ELSE file' \in {file, Unreadable} /\ UNCHANGED cache

\* The controls of the page; those of a kind are disabled while a call of it is under way.
Call(k, value) ==
  /\ ~Busy(k) /\ call = NoCall
  /\ call' = [NoCall EXCEPT !.kind = k, !.value = value]
  /\ UNCHANGED <<stored, system, prompt, shown, asking, unsure, runs>>

SelectCloseBehavior(b) == b # shown.close /\ Call("close", b) /\ UNCHANGED capture
ToggleStartup ==
  shown.startup.supported /\ Call("startup", ~shown.startup.enabled) /\ UNCHANGED capture
ToggleQuickSearch ==
  shown.quick.supported /\ Call("quick", [enabled |-> ~shown.quick.enabled]) /\ UNCHANGED capture
PickPreset(a) == Call("quick", [accelerator |-> a]) /\ capture' = FALSE

StartCapture ==
  /\ ~Busy("quick") /\ ~capture /\ capture' = TRUE
  /\ UNCHANGED <<stored, system, prompt, shown, asking, call, unsure, runs>>

CancelCapture ==
  /\ ~Busy("quick") /\ capture /\ capture' = FALSE
  /\ UNCHANGED <<stored, system, prompt, shown, asking, call, unsure, runs>>

\* acceleratorFromKeyboardEvent: Escape cancels, a modifier and a key that can be named are a
\* shortcut, and everything else is none.
Outcome(key) ==
  IF key = "Escape" THEN "cancel" ELSE IF key \in Accelerators THEN "valid" ELSE "invalid"

\* A key of the capture: a shortcut is saved at once, one that is none only shows a message.
CaptureKey(key) ==
  /\ capture
  /\ \/ Outcome(key) = "cancel" /\ CancelCapture
     \/ Outcome(key) = "valid" /\ PickPreset(key)
     \/ Outcome(key) = "invalid" /\ ~Busy("quick") /\ UNCHANGED vars

Asked(k) == call.kind = k /\ ~call.answered
Answer(value, ok) ==
  /\ call' = [call EXCEPT !.value = value, !.answered = TRUE, !.ok = ok]
  /\ unsure' = IF ok THEN unsure \ {call.kind} ELSE unsure \cup {call.kind}

\* The page takes over an answer.
Take(k, value) ==
  shown' = CASE k = "close" -> [shown EXCEPT !.close = value]
             [] k = "quick" -> [shown EXCEPT !.quick = value]
             [] k = "startup" -> [shown EXCEPT !.startup = value]

\* What the main process answers to a question.
Current(k) ==
  CASE k = "close" -> {cache.close}
    [] k = "quick" -> {Status(cache, hotkey)}
    [] k = "startup" -> LoginStatus(login)

\* The first answers.
FirstAnswer(k) ==
  /\ k \in asking /\ asking' = asking \ {k}
  /\ \/ (\E value \in Current(k) : Take(k, value)) /\ unsure' = unsure \ {k}
     \/ unsure' = unsure \cup {k} /\ UNCHANGED shown
  /\ UNCHANGED <<stored, system, prompt, capture, call, runs>>

\* setCloseBehavior
ServeClose ==
  /\ Asked("close")
  /\ \E ok \in BOOLEAN :
       /\ WriteSettings([cache EXCEPT !.close = call.value], ok)
       /\ Answer(call.value, ok)
  /\ UNCHANGED <<system, prompt, shown, capture, asking, runs>>

Patched(c, patch) ==
  [c EXCEPT !.enabled = IF "enabled" \in DOMAIN patch THEN patch.enabled ELSE @,
            !.accelerator = IF "accelerator" \in DOMAIN patch THEN patch.accelerator ELSE @]

\* setQuickSearchSettings: a failed write leaves the shortcut alone.
ServeQuick ==
  LET next == Patched(cache, call.value) IN
    /\ Asked("quick")
    /\ \E ok \in BOOLEAN :
         /\ WriteSettings(next, ok)
         /\ hotkey' = IF ok THEN Registered(next) ELSE hotkey
         /\ Answer(Status(next, hotkey'), ok)
    /\ UNCHANGED <<taken, login, prompt, shown, capture, asking, runs>>

\* setStartupSettings: the system may not follow; the answer is what it says afterwards.
ServeStartup ==
  /\ Asked("startup")
  /\ \/ login' \in {login, call.value} /\ \E told \in LoginStatus(login') : Answer(told, TRUE)
     \/ Answer(call.value, FALSE) /\ UNCHANGED login
  /\ UNCHANGED <<stored, hotkey, taken, prompt, shown, capture, asking, runs>>

TakeAnswer == Take(call.kind, call.value)

\* The answer of a change: the page shows what the main process says, or a message.
Deliver ==
  /\ call.answered
  /\ call' = NoCall
  /\ IF call.ok THEN TakeAnswer ELSE UNCHANGED shown
  /\ UNCHANGED <<stored, system, prompt, capture, asking, unsure, runs>>

\* handleMainWindowClose: the stored behaviour, or the prompt with its "remember" box.
CloseHides ==
  /\ ~prompt /\ cache.close = "hide"
  /\ UNCHANGED vars

ClosePrompts ==
  /\ ~prompt /\ cache.close = "ask"
  /\ prompt' = TRUE
  /\ UNCHANGED <<stored, system, page, runs>>

\* The prompt hides the window or not; a write that fails, for hiding or for quitting, leaves
\* the application running.
PromptHides ==
  /\ prompt /\ prompt' = FALSE
  /\ \/ UNCHANGED <<stored, unsure>>
     \/ /\ \E ok \in BOOLEAN : WriteSettings([cache EXCEPT !.close = "hide"], ok)
        /\ unsure' = unsure \cup {"close"}
  /\ UNCHANGED <<system, shown, capture, asking, call, runs>>

PromptCancelled ==
  /\ prompt /\ prompt' = FALSE
  /\ UNCHANGED <<stored, system, page, runs>>

\* The application ends (the stored behaviour or the tray's menu, the prompt with or without
\* its box, a crash, a crash within a write) and is started again.
Restarts(f) ==
  /\ runs < MaxRuns /\ runs' = runs + 1
  /\ file' = f
  /\ Starts(f)
  /\ UNCHANGED <<taken, login>>

Quit == Restarts(file)
PromptQuits ==
  /\ prompt
  /\ \E f \in {[cache EXCEPT !.close = "quit"], Unreadable} : Restarts(f)
CutOff ==
  /\ Asked("close") \/ Asked("quick")
  /\ Restarts(Unreadable)

OtherProgram ==
  /\ \E a \in Contested \ {hotkey} : taken' = (taken \cup {a}) \ (taken \cap {a})
  /\ UNCHANGED <<stored, hotkey, login, prompt, page, runs>>

Next ==
  \/ \E b \in Behaviors : SelectCloseBehavior(b)
  \/ ToggleStartup \/ ToggleQuickSearch \/ StartCapture
  \/ \E a \in Accelerators : PickPreset(a)
  \/ \E key \in Accelerators \cup {"Escape", "Shift"} : CaptureKey(key)
  \/ \E k \in Kinds : FirstAnswer(k)
  \/ Deliver \/ ServeClose \/ ServeQuick \/ ServeStartup
  \/ CloseHides \/ ClosePrompts \/ PromptHides \/ PromptCancelled
  \/ Quit \/ PromptQuits \/ CutOff \/ OtherProgram

Spec == Init /\ [][Next]_vars

-----------------------------------------------------------------------------

TypeOK ==
  /\ file \in Settings \cup {Missing, Unreadable} /\ cache \in Settings
  /\ hotkey \in Accelerators \cup {None} /\ taken \subseteq Accelerators
  /\ shown.close \in Behaviors /\ shown.quick.accelerator \in Accelerators
  /\ {login, prompt, capture, shown.startup.enabled, shown.quick.enabled,
      shown.quick.registered} \subseteq BOOLEAN
  /\ asking \cup unsure \subseteq Kinds /\ call.kind \in Kinds \cup {None}

\* The shortcut that the system delivers is the one that is stored, and none is registered
\* when the quick search is off, whichever writes and registrations fail in between.
HotkeyFollowsSettings == hotkey # None => cache.enabled /\ cache.accelerator = hotkey

\* What the page shows as set is what the application does and what a readable file says,
\* once no call of its kind is under way and unless the last one failed; only a choice that
\* the close prompt has stored is not shown.
ShownIsStored ==
  /\ ~Busy("close") /\ "close" \notin unsure => shown.close = cache.close
  /\ ~Busy("quick") /\ "quick" \notin unsure => shown.quick = Status(cache, hotkey)
  /\ ~Busy("startup") /\ "startup" \notin unsure /\ shown.startup.supported =>
       shown.startup.enabled = login
  /\ file \in Settings => file = cache

=============================================================================

-------------------------- MODULE RescanStatusView --------------------------
(***************************************************************************)
(* What the application shows of a rescan                                  *)
(* (frontend/src/contexts/LibraryRescanContext.tsx): it asks for the       *)
(* status every 700 ms while it shows a running one, and announces the end *)
(* of a rescan that it has seen running.  Answers may overtake each other. *)
(* A step ends with the effects of its rendering.                          *)
(***************************************************************************)
EXTENDS Naturals, FiniteSets

CONSTANTS
  MaxRuns,      \* bound: rescans of the server
  MaxRequests   \* bound: requests that are not answered

VARIABLES
  server,       \* the rescan status of the server
  status,       \* the status that is shown
  summary,      \* the rescan whose summary is shown, 0 for none
  observed,     \* observedRunningRef
  notified,     \* notifiedStatusRef: the rescan whose end was announced last, 0 for none
  requests,     \* slot -> what was asked, and the server's answer
  seen,         \* history: the rescans that were shown running since the last start
  told,         \* history: the rescans whose end was announced since then
  mixed         \* history: an answer about an earlier rescan came after one about a later

view == <<status, summary, observed, notified>>
history == <<seen, told, mixed>>
vars == <<server, view, requests, history>>

Ends == {"completed", "cancelled", "failed"}
Status == [run : 0..MaxRuns, stage : {"idle", "running", "cancelling"} \cup Ends]
NoStatus == [run |-> 0, stage |-> "none"]
Running(s) == s.stage \in {"running", "cancelling"}

Free == {i \in DOMAIN requests : requests[i].kind = "none"}
NoRequest == [kind |-> "none", answer |-> NoStatus]
Send(kind) ==
  \E i \in Free :
    /\ \A j \in Free : i <= j
    /\ requests' = [requests EXCEPT ![i] = [kind |-> kind, answer |-> NoStatus]]

\* The mount effect asks for the status.
Init ==
  /\ server = [run |-> 0, stage |-> "idle"]
  /\ status = NoStatus /\ summary = 0 /\ observed = FALSE /\ notified = 0
  /\ requests = [i \in 1..MaxRequests |-> [NoRequest EXCEPT !.kind = IF i = 1 THEN "poll" ELSE @]]
  /\ seen = {} /\ told = {} /\ mixed = FALSE

\* The interval of a running status.
Poll ==
  /\ Running(status)
  /\ Send("poll")
  /\ UNCHANGED <<server, view, history>>

\* cancelRescan: the button of GlobalRescanProgress.
CancelRescan ==
  /\ status.stage = "running"
  /\ Send("cancel")
  /\ UNCHANGED <<server, view, history>>

\* The effect on status and summary: it announces the end of a rescan that was watched, once.
Effect(s, watched, was, before) ==
  IF watched /\ s.stage \in Ends /\ was # s.run
  THEN /\ notified' = s.run /\ observed' = FALSE
       /\ told' = before \cup {s.run}
  ELSE notified' = was /\ observed' = watched /\ told' = before

\* startRescan up to its await.  Clearing a summary renders, and the effect runs with the
\* status of the last rescan: its end is announced once more.
StartRescan ==
  /\ ~Running(status)
  /\ summary' = 0
  /\ IF summary # 0 THEN Effect(status, TRUE, 0, {})
                    ELSE observed' = TRUE /\ notified' = 0 /\ told' = {}
  /\ seen' = {}
  /\ Send("start")
  /\ UNCHANGED <<server, status, mixed>>

\* The server answers: a start begins a rescan unless one is running.
Serve(i) ==
  /\ requests[i].kind # "none" /\ requests[i].answer = NoStatus
  /\ server' =
       CASE requests[i].kind = "start" /\ ~Running(server) /\ server.run < MaxRuns ->
              [run |-> server.run + 1, stage |-> "running"]
         [] requests[i].kind = "cancel" /\ Running(server) -> [server EXCEPT !.stage = "cancelling"]
         [] OTHER -> server
  /\ requests' = [requests EXCEPT ![i].answer = server']
  /\ UNCHANGED <<view, history>>

RescanEnds ==
  /\ Running(server)
  /\ \E s \in (IF server.stage = "running" THEN {"completed", "failed"} ELSE Ends) :
       server' = [server EXCEPT !.stage = s]
  /\ UNCHANGED <<view, requests, history>>

\* Mutant: only a rescan that was started here is watched.
StartedHere(s) == observed

Watched(s) == observed \/ Running(s)

\* applyStatus and the effect that follows it.  A rescan that failed leaves no summary.
Arrives(i) ==
  LET s == requests[i].answer IN
    /\ s # NoStatus
    /\ requests' = [requests EXCEPT ![i] = NoRequest]
    /\ status' = s
    /\ summary' = IF s.stage \in Ends \ {"failed"} THEN s.run ELSE summary
    /\ seen' = IF Running(s) THEN seen \cup {s.run} ELSE seen
    /\ Effect(s, Watched(s), notified, told)
    /\ mixed' = (mixed \/ s.run < status.run)
    /\ UNCHANGED server

\* A failed poll is silent; a failed start or cancel shows a message only.
Fails(i) ==
  /\ requests[i].kind # "none"
  /\ requests' = [requests EXCEPT ![i] = NoRequest]
  /\ UNCHANGED <<server, view, history>>

\* rescanDetail: the card of the target folders shows the numbers of a running rescan, then
\* those of the summary, or of the summary that came with the status.
CardRun ==
  IF Running(status) THEN status.run
  ELSE IF summary # 0 THEN summary
  ELSE IF status.stage \in Ends \ {"failed"} THEN status.run ELSE 0

Next ==
  \/ Poll \/ CancelRescan \/ StartRescan \/ RescanEnds
  \/ \E i \in DOMAIN requests : Serve(i) \/ Arrives(i) \/ Fails(i)

Spec == Init /\ [][Next]_vars

-----------------------------------------------------------------------------

TypeOK ==
  /\ server \in Status /\ status \in Status \cup {NoStatus}
  /\ {summary, notified} \subseteq 0..MaxRuns /\ observed \in BOOLEAN
  /\ requests \in [1..MaxRequests ->
       [kind : {"none", "poll", "start", "cancel"}, answer : Status \cup {NoStatus}]]
  /\ seen \cup told \subseteq 0..MaxRuns /\ mixed \in BOOLEAN

\* A rescan that was shown running since the last start has been announced when its end is
\* shown, however often its status is answered and in whatever order; only answers about an
\* earlier rescan may have it missed.
EndIsAnnounced ==
  status.stage \in Ends /\ status.run \in seen => status.run \in told \/ mixed

\* Under the title of a rescan that was completed or stopped stand the numbers of that rescan,
\* whichever answers overtook each other and whoever started it.
NumbersFitTheTitle == status.stage \in {"completed", "cancelled"} => CardRun = status.run

=============================================================================

--------------------------- MODULE RescanService ---------------------------
(***************************************************************************)
(* What the rescan API promises to the window that polls it: one rescan at *)
(* a time; a stop that was accepted in time ends as "cancelled" (or as     *)
(* "failed"), never as "completed"; a rescan nobody stops is never         *)
(* reported as cancelled; every rescan ends.                               *)
(***************************************************************************)
VARIABLES
  phase,    \* "idle", "running", or "stopping" after an accepted stop
  outcome   \* how the last rescan ended, "none" while one runs

vars == <<phase, outcome>>

Init == phase = "idle" /\ outcome = "idle"

Start == phase = "idle" /\ phase' = "running" /\ outcome' = "none"

Stop == phase = "running" /\ phase' = "stopping" /\ UNCHANGED outcome

Finish ==
  /\ phase = "running"
  /\ phase' = "idle"
  /\ outcome' \in {"completed", "failed"}

FinishStopped ==
  /\ phase = "stopping"
  /\ phase' = "idle"
  /\ outcome' \in {"cancelled", "failed"}

Next == Start \/ Stop \/ Finish \/ FinishStopped

Safety == Init /\ [][Next]_vars
Spec == Safety /\ WF_vars(Finish \/ FinishStopped)
=============================================================================

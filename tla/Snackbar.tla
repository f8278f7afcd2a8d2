------------------------------ MODULE Snackbar ------------------------------
(***************************************************************************)
(* What the application announces (frontend/src/ui/Snackbar.tsx): the few  *)
(* messages at the bottom of the window, each with a timer that takes it   *)
(* away, and the inbox that keeps them.  A message with a key takes the    *)
(* place of the earlier one with that key.  The timers are set by effects, *)
(* which run some time after the list has changed.                         *)
(***************************************************************************)
EXTENDS Naturals, Sequences, FiniteSets

CONSTANTS
  Keys,
  NoKey,         \* the key of a message that is given none
  MaxActive,     \* MAX_ACTIVE_SNACKS
  MaxHistory,    \* MAX_NOTIFICATION_HISTORY
  MaxShows       \* bound: messages

VARIABLES
  log,       \* the keys of what has been announced: message n is the n-th
  cleared,   \* how many had been announced when the inbox was emptied
  snacks,    \* the messages at the bottom: [id, key, message]
  inbox,     \* notifications: [key, message, count], the newest first
  open,      \* notificationPanelOpen
  timers     \* the timers that are set: the snack, and the message it was set for

vars == <<log, cleared, snacks, inbox, open, timers>>

Init ==
  /\ log = <<>> /\ cleared = 0
  /\ snacks = <<>> /\ inbox = <<>> /\ open = FALSE
  /\ timers = {}

\* The place of the entry with a key, 0 if there is none; messages without one have none.
PlaceOf(entries, key) ==
  LET places == {i \in DOMAIN entries : key # NoKey /\ entries[i].key = key}
  IN  IF places = {} THEN 0 ELSE CHOOSE i \in places : \A j \in places : i <= j

\* The inbox with a message: an entry with its key is renewed and moves to the front, and the
\* ones before it, or all of them, move back by a place.
Kept(entries, key, message) ==
  LET at == PlaceOf(entries, key)
      count == IF at = 0 THEN 1 ELSE entries[at].count + 1
      gap == IF at = 0 THEN Len(entries) + 1 ELSE at
      length == IF at = 0 THEN gap ELSE Len(entries)
  IN  [i \in 1..(IF length < MaxHistory THEN length ELSE MaxHistory) |->
         IF i = 1 THEN [key |-> key, message |-> message, count |-> count]
         ELSE IF i <= gap THEN entries[i - 1] ELSE entries[i]]

\* The last of the messages at the bottom.
LastOf(n, seq) == SubSeq(seq, IF Len(seq) < n THEN 1 ELSE Len(seq) - n + 1, Len(seq))

\* The messages at the bottom with one more: it renews the one with its key where it stands.
Added(shown, key, message) ==
  LET at == PlaceOf(shown, key)
  IN  IF at # 0 THEN [shown EXCEPT ![at].message = message]
      ELSE LastOf(MaxActive, Append(shown, [id |-> message, key |-> key, message |-> message]))

\* show, error, success, info and warn.
Show(key) ==
  /\ Len(log) < MaxShows
  /\ LET message == Len(log) + 1
     IN  /\ inbox' = Kept(inbox, key, message)
         /\ snacks' = Added(snacks, key, message)
  /\ log' = Append(log, key)
  /\ UNCHANGED <<cleared, open, timers>>

\* The effects of the items: a timer for what is shown now, none for what is gone.
SetTimers ==
  /\ timers' = {[id |-> snacks[i].id, message |-> snacks[i].message] : i \in DOMAIN snacks}
  /\ timers' # timers
  /\ UNCHANGED <<log, cleared, snacks, inbox, open>>

\* The snack with an id goes, if it is still there, and those after it move forward.
Without(id) ==
  LET places == {i \in DOMAIN snacks : snacks[i].id = id}
  IN  IF places = {} THEN snacks
      ELSE LET at == CHOOSE i \in places : TRUE
           IN  [i \in 1..(Len(snacks) - 1) |-> IF i < at THEN snacks[i] ELSE snacks[i + 1]]

\* A timer ends.  It may still be that of the message the snack showed before.
TimerEnds(t) ==
  /\ timers' = timers \ {t}
  /\ snacks' = Without(t.id)
  /\ UNCHANGED <<log, cleared, inbox, open>>

\* The close button, and the button of an action once the action is done; the timer is cleared
\* with the item.
Dismiss(i) ==
  /\ snacks' = Without(snacks[i].id)
  /\ timers' = {t \in timers : t.id # snacks[i].id}
  /\ UNCHANGED <<log, cleared, inbox, open>>

ToggleInbox ==
  /\ open' = ~open
  /\ UNCHANGED <<log, cleared, snacks, inbox, timers>>

\* clearNotifications: what is at the bottom stays there.
ClearInbox ==
  /\ open /\ inbox # <<>>
  /\ inbox' = <<>> /\ open' = FALSE
  /\ cleared' = Len(log)
  /\ UNCHANGED <<log, snacks, timers>>

Next ==
  \/ \E key \in Keys \cup {NoKey} : Show(key)
  \/ \E t \in timers : TimerEnds(t)
  \/ \E i \in DOMAIN snacks : Dismiss(i)
  \/ SetTimers \/ ToggleInbox \/ ClearInbox

Spec == Init /\ [][Next]_vars

-----------------------------------------------------------------------------

Messages == DOMAIN log

TypeOK ==
  /\ log \in Seq(Keys \cup {NoKey}) /\ cleared \in 0..Len(log)
  /\ \A i \in DOMAIN snacks :
       snacks[i] \in [id : Messages, key : Keys \cup {NoKey}, message : Messages]
  /\ \A i \in DOMAIN inbox :
       inbox[i] \in [key : Keys \cup {NoKey}, message : Messages, count : Messages]
  /\ open \in BOOLEAN /\ timers \subseteq [id : Messages, message : Messages]

\* No later message has taken its place.
IsLatest(m) == log[m] = NoKey \/ \A later \in Messages : later > m => log[later] # log[m]

\* The inbox holds, the newest first, the last messages since it was emptied that no message
\* with their key has replaced: whatever was dismissed, timed out or renewed meanwhile, and
\* also when entries were pushed out of it (setNotifications in show).
InboxIsExact ==
  LET since == {m \in Messages : m > cleared /\ IsLatest(m)}
      kept == {inbox[i].message : i \in DOMAIN inbox}
  IN  /\ Len(inbox) <= MaxHistory /\ kept \subseteq since
      /\ \A i, j \in DOMAIN inbox : i < j => inbox[j].message < inbox[i].message
      /\ \A m \in since \ kept : Len(inbox) = MaxHistory /\ \A n \in kept : m < n

\* What stands at the bottom is never out of date: a message that a later one with its key
\* has replaced is not shown, nor two of them at once, and the number of snacks is limited.
SnacksAreCurrent ==
  /\ Len(snacks) <= MaxActive
  /\ \A i \in DOMAIN snacks : log[snacks[i].message] = snacks[i].key /\ IsLatest(snacks[i].message)

=============================================================================

---------------------------- MODULE SearchCache ----------------------------
(***************************************************************************)
(* The answers search_documents gives (backend/application/                *)
(* search_service.py) from the cache of backend/core/search_cache.py and   *)
(* from the database, read through one shared connection                   *)
(* (persistent_search_read_connection, backend/database.py), while writers *)
(* change what a search can see.  A change bumps the cache's epoch and     *)
(* closes the shared connection after its commit                           *)
(* (_invalidate_search_cache).                                             *)
(*                                                                         *)
(* The rows of an answer are abstracted to the changes they show.          *)
(***************************************************************************)
EXTENDS Naturals, FiniteSets

CONSTANTS
  Writers,     \* calls that change what a search can see, each made once
  Repairs,     \* those of them that are repair_search_indexes
  Searches,    \* calls of search_documents
  Questions,   \* what a request asks for: query, scope, filters, page
  MaxEntries,  \* OW_SEARCH_CACHE_MAX_ENTRIES
  MaxEpoch,    \* bound on the epochs a rescan's end adds
  None         \* nobody

ASSUME WritersAssumption  == Repairs \subseteq Writers /\ None \notin Writers \cup Searches
ASSUME SearchesAssumption == Searches \cap Writers = {} /\ Questions # {}
ASSUME LimitsAssumption   == MaxEntries \in Nat /\ MaxEpoch \in Nat

VARIABLES
  db,         \* the changes that are committed
  index,      \* state and updated_at of the search index
  writeLock,  \* _DB_WRITE_LOCK
  wpc,        \* the control point of each writer
  mark,       \* the epoch bump_search_cache_epoch returned to it, 0 before
  epoch,      \* _EPOCH
  entries,    \* _CACHE; the order of use is left out
  readLock,   \* _SEARCH_READ_LOCK
  open,       \* whether there is a shared connection
  spc,        \* the control point of each search
  asks,       \* its question
  since,      \* the changes that had returned when it was called
  seenIndex,  \* the index status it read
  seenEpoch,  \* the epoch it read
  shows,      \* the changes its rows show
  texts       \* whether it searched the contents

writerVars == <<db, index, writeLock, wpc, mark>>
cacheVars  == <<epoch, entries>>
connVars   == <<readLock, open>>
searchVars == <<spc, asks, since, seenIndex, seenEpoch, shows, texts>>
vars       == <<writerVars, cacheVars, connVars, searchVars>>

Statuses     == [state : {"ready", "repair_needed", "refreshing", "error"}, updated_at : Nat]
Keys         == [asks : Questions, epoch : Nat, index : Statuses]
Entries      == [key : Keys, shows : SUBSET Writers, texts : {"searched", "left out"}]
WriterPoints == {"idle", "waiting", "writing", "committed", "bumped", "done", "failed"}
SearchPoints == {"idle", "waiting", "borrowed", "status", "keyed", "names", "texts", "store",
                 "answered", "failed"}
Using        == {"borrowed", "status", "keyed", "names", "texts", "store"}

TypeOK ==
  /\ db \in SUBSET Writers
  /\ index \in Statuses
  /\ writeLock \in Writers \cup {None}
  /\ wpc \in [Writers -> WriterPoints]
  /\ mark \in [Writers -> Nat]
  /\ epoch \in Nat
  /\ entries \in SUBSET Entries
  /\ readLock \in Searches \cup Writers \cup {None}
  /\ open \in BOOLEAN
  /\ spc \in [Searches -> SearchPoints]
  /\ asks \in [Searches -> Questions]
  /\ since \in [Searches -> SUBSET Writers]
  /\ seenIndex \in [Searches -> Statuses]
  /\ seenEpoch \in [Searches -> Nat]
  /\ shows \in [Searches -> SUBSET Writers]
  /\ texts \in [Searches -> {"unread", "searched", "left out"}]

Init ==
  /\ db = {}
  /\ index \in [state : {"ready", "repair_needed"}, updated_at : {0}]
  /\ writeLock = None
  /\ wpc = [w \in Writers |-> "idle"]
  /\ mark = [w \in Writers |-> 0]
  /\ epoch = 0
  /\ entries = {}
  /\ readLock = None
  /\ open = FALSE
  /\ spc = [s \in Searches |-> "idle"]
  /\ asks \in [Searches -> Questions]
  /\ since = [s \in Searches |-> {}]
  /\ seenIndex = [s \in Searches |-> index]
  /\ seenEpoch = [s \in Searches |-> 0]
  /\ shows = [s \in Searches |-> {}]
  /\ texts = [s \in Searches |-> "unread"]

Ready(status) == status.state = "ready"
Stamped(state) == [state |-> state, updated_at |-> index.updated_at + 1]

-----------------------------------------------------------------------------
(***************************************************************************)
(* A writer.  Some calls leave the write lock before they invalidate the   *)
(* cache (delete_file, update_file_mtime, ...), others after it            *)
(* (register_file, save_prepared_indexed_file, a repair, ...).             *)
(***************************************************************************)
StartWrite(w) ==
  /\ wpc[w] = "idle"
  /\ wpc' = [wpc EXCEPT ![w] = "waiting"]
  /\ UNCHANGED <<db, index, writeLock, mark, cacheVars, connVars, searchVars>>

\* A repair that finds the index ready has nothing to do; else it commits that
\* it has begun.
LockWrite(w) ==
  /\ wpc[w] = "waiting" /\ writeLock = None
  /\ IF w \in Repairs /\ Ready(index)
     THEN wpc' = [wpc EXCEPT ![w] = "failed"] /\ UNCHANGED <<index, writeLock>>
     ELSE /\ wpc' = [wpc EXCEPT ![w] = "writing"]
          /\ writeLock' = w
          /\ IF w \in Repairs THEN index' = Stamped("refreshing") ELSE UNCHANGED index
  /\ UNCHANGED <<db, mark, cacheVars, connVars, searchVars>>

Commit(w) ==
  /\ wpc[w] = "writing"
  /\ db' = db \cup {w}
  /\ IF w \in Repairs THEN index' = Stamped("ready") ELSE UNCHANGED index
  /\ wpc' = [wpc EXCEPT ![w] = "committed"]
  /\ UNCHANGED <<writeLock, mark, cacheVars, connVars, searchVars>>

\* Rolled back, or nothing to change.
Abandon(w) ==
  /\ wpc[w] = "writing"
  /\ IF w \in Repairs THEN index' = Stamped("error") ELSE UNCHANGED index
  /\ writeLock' = None
  /\ wpc' = [wpc EXCEPT ![w] = "failed"]
  /\ UNCHANGED <<db, mark, cacheVars, connVars, searchVars>>

LeaveWrite(w) ==
  /\ wpc[w] = "committed" /\ writeLock = w /\ w \notin Repairs
  /\ writeLock' = None
  /\ UNCHANGED <<db, index, wpc, mark, cacheVars, connVars, searchVars>>

\* Mutant: the entries are dropped, the epoch stays.
ClearOnly(w) ==
  /\ wpc[w] = "committed"
  /\ entries' = {}
  /\ mark' = [mark EXCEPT ![w] = epoch]
  /\ wpc' = [wpc EXCEPT ![w] = "bumped"]
  /\ UNCHANGED <<epoch, db, index, writeLock, connVars, searchVars>>

Bump(w) ==
  /\ wpc[w] = "committed"
  /\ epoch' = epoch + 1
  /\ entries' = {}
  /\ mark' = [mark EXCEPT ![w] = epoch']
  /\ wpc' = [wpc EXCEPT ![w] = "bumped"]
  /\ UNCHANGED <<db, index, writeLock, connVars, searchVars>>

\* Mutant: the shared connection is closed without its lock.
CloseAtOnce(w) ==
  /\ wpc[w] = "bumped"
  /\ open' = FALSE
  /\ writeLock' = IF writeLock = w THEN None ELSE writeLock
  /\ wpc' = [wpc EXCEPT ![w] = "done"]
  /\ UNCHANGED <<db, index, mark, cacheVars, readLock, searchVars>>

\* close_persistent_search_read_connection, then the call returns.
CloseConnection(w) ==
  /\ wpc[w] = "bumped" /\ readLock = None
  /\ open' = FALSE
  /\ writeLock' = IF writeLock = w THEN None ELSE writeLock
  /\ wpc' = [wpc EXCEPT ![w] = "done"]
  /\ UNCHANGED <<db, index, mark, cacheVars, readLock, searchVars>>

\* A rescan, or a reindex, bumps the epoch once more when it ends.
RescanDone ==
  /\ epoch < MaxEpoch
  /\ epoch' = epoch + 1
  /\ entries' = {}
  /\ UNCHANGED <<writerVars, connVars, searchVars>>

-----------------------------------------------------------------------------
(***************************************************************************)
(* search_documents                                                        *)
(***************************************************************************)
Call(s) ==
  /\ spc[s] = "idle"
  /\ spc' = [spc EXCEPT ![s] = "waiting"]
  /\ since' = [since EXCEPT ![s] = {w \in Writers : wpc[w] = "done"}]
  /\ UNCHANGED <<writerVars, cacheVars, connVars, asks, seenIndex, seenEpoch, shows, texts>>

\* The connection is opened unless an earlier search has left one.
Borrow(s) ==
  /\ spc[s] = "waiting" /\ readLock = None
  /\ readLock' = s
  /\ open' = TRUE
  /\ spc' = [spc EXCEPT ![s] = "borrowed"]
  /\ UNCHANGED <<writerVars, cacheVars, asks, since, seenIndex, seenEpoch, shows, texts>>

ReadStatus(s) ==
  /\ spc[s] = "borrowed"
  /\ seenIndex' = [seenIndex EXCEPT ![s] = index]
  /\ spc' = [spc EXCEPT ![s] = "status"]
  /\ UNCHANGED <<writerVars, cacheVars, connVars, asks, since, seenEpoch, shows, texts>>

ReadEpoch(s) ==
  /\ spc[s] = "status"
  /\ seenEpoch' = [seenEpoch EXCEPT ![s] = epoch]
  /\ spc' = [spc EXCEPT ![s] = "keyed"]
  /\ UNCHANGED <<writerVars, cacheVars, connVars, asks, since, seenIndex, shows, texts>>

\* Mutant: the epoch of the moment, not the one read before the rows.
KeyOfNow(s) == [asks |-> asks[s], epoch |-> epoch, index |-> seenIndex[s]]

Key(s) == [asks |-> asks[s], epoch |-> seenEpoch[s], index |-> seenIndex[s]]

Hit(s) ==
  /\ spc[s] = "keyed" /\ MaxEntries > 0
  /\ \E e \in entries :
       /\ e.key = Key(s)
       /\ shows' = [shows EXCEPT ![s] = e.shows]
       /\ texts' = [texts EXCEPT ![s] = e.texts]
  /\ spc' = [spc EXCEPT ![s] = "answered"]
  /\ readLock' = None
  /\ UNCHANGED <<writerVars, cacheVars, open, asks, since, seenIndex, seenEpoch>>

\* There is no entry, or it is older than the ttl and dropped.
Miss(s) ==
  /\ spc[s] = "keyed"
  /\ entries' = IF MaxEntries > 0 THEN {e \in entries : e.key # Key(s)} ELSE entries
  /\ spc' = [spc EXCEPT ![s] = "names"]
  /\ UNCHANGED <<writerVars, epoch, connVars, asks, since, seenIndex, seenEpoch, shows, texts>>

SearchNames(s) ==
  /\ spc[s] = "names"
  /\ shows' = [shows EXCEPT ![s] = db]
  /\ spc' = [spc EXCEPT ![s] = "texts"]
  /\ UNCHANGED <<writerVars, cacheVars, connVars, asks, since, seenIndex, seenEpoch, texts>>

\* The contents are searched when the index was ready (a page that the names
\* fill counts as searched).
SearchTexts(s) ==
  /\ spc[s] = "texts"
  /\ IF Ready(seenIndex[s])
     THEN /\ shows' = [shows EXCEPT ![s] = @ \cap db]
          /\ texts' = [texts EXCEPT ![s] = "searched"]
     ELSE texts' = [texts EXCEPT ![s] = "left out"] /\ UNCHANGED shows
  /\ spc' = [spc EXCEPT ![s] = "store"]
  /\ UNCHANGED <<writerVars, cacheVars, connVars, asks, since, seenIndex, seenEpoch>>

\* Mutant: a failed search keeps the connection.
FailsAndKeeps(s) ==
  /\ spc[s] \in {"borrowed", "names", "texts"}
  /\ open' \in BOOLEAN
  /\ spc' = [spc EXCEPT ![s] = "failed"]
  /\ UNCHANGED <<writerVars, cacheVars, readLock, asks, since, seenIndex, seenEpoch, shows, texts>>

\* The connection cannot be opened, or a query fails: an SQLite error closes
\* the connection, another one leaves it.
SearchFails(s) ==
  /\ \/ spc[s] = "waiting" /\ readLock = None /\ ~open /\ open' = FALSE
     \/ spc[s] \in {"borrowed", "names", "texts"} /\ open' \in BOOLEAN
  /\ readLock' = None
  /\ spc' = [spc EXCEPT ![s] = "failed"]
  /\ UNCHANGED <<writerVars, cacheVars, asks, since, seenIndex, seenEpoch, shows, texts>>

Others(s) == {e \in entries : e.key # Key(s)}
Answer(s) == [key |-> Key(s), shows |-> shows[s], texts |-> texts[s]]

\* At the limit the entry that was not used for longest goes: any other one.
Store(s) ==
  /\ spc[s] = "store"
  /\ \/ MaxEntries = 0 /\ UNCHANGED entries
     \/ Cardinality(Others(s)) < MaxEntries /\ entries' = Others(s) \cup {Answer(s)}
     \/ \E oldest \in Others(s) :
          /\ MaxEntries > 0 /\ Cardinality(Others(s)) >= MaxEntries
          /\ entries' = (Others(s) \ {oldest}) \cup {Answer(s)}
  /\ spc' = [spc EXCEPT ![s] = "answered"]
  /\ readLock' = None
  /\ UNCHANGED <<writerVars, epoch, open, asks, since, seenIndex, seenEpoch, shows, texts>>

Ended ==
  /\ \A w \in Writers : wpc[w] \in {"done", "failed"}
  /\ \A s \in Searches : spc[s] \in {"answered", "failed"}
  /\ UNCHANGED vars

-----------------------------------------------------------------------------
Write(w) ==
  LockWrite(w) \/ Commit(w) \/ Abandon(w) \/ LeaveWrite(w) \/ Bump(w) \/ CloseConnection(w)

Search(s) ==
  \/ Borrow(s) \/ ReadStatus(s) \/ ReadEpoch(s) \/ Hit(s) \/ Miss(s)
  \/ SearchNames(s) \/ SearchTexts(s) \/ SearchFails(s) \/ Store(s)

Next ==
  \/ \E w \in Writers : StartWrite(w) \/ Write(w)
  \/ \E s \in Searches : Call(s) \/ Search(s)
  \/ RescanDone
  \/ Ended

Spec     == Init /\ [][Next]_vars
FairSpec == Spec /\ (\A w \in Writers : WF_vars(Write(w))) /\ (\A s \in Searches : WF_vars(Search(s)))

-----------------------------------------------------------------------------
(***************************************************************************)
(* Properties                                                              *)
(***************************************************************************)

\* An answer, from the cache or not, shows every change whose call had returned
\* before the search was called.
FreshAnswers == \A s \in Searches : spc[s] = "answered" => since[s] \subseteq shows[s]

\* An answer leaves the contents out exactly when the search itself found the
\* index not ready: the cache never passes on the answer of another index.
AnswersMatchIndex ==
  \A s \in Searches :
    spc[s] = "answered" => (texts[s] = "searched" <=> Ready(seenIndex[s]))

\* When no writer is under way, an entry that a search can still hit shows all
\* there is in the database.
CacheIsExact ==
  (\A w \in Writers : wpc[w] \in {"idle", "waiting", "bumped", "done", "failed"}) =>
    \A e \in entries : e.key.epoch = epoch => db \subseteq e.shows

\* The cache keeps to its limit, and holds one answer for a key.
CacheBounded ==
  /\ Cardinality(entries) <= MaxEntries
  /\ \A d, e \in entries : d.key = e.key => d = e

\* The cache is exact for the present epoch, never mixes the states of the text index, and
\* keeps to its limit, however searches and writers interleave.
CacheIsSound == CacheIsExact /\ AnswersMatchIndex /\ CacheBounded

\* No writer closes the shared connection under a search, and no two searches
\* use it at once.
BorrowedStaysOpen ==
  \A s \in Searches : spc[s] \in Using => open /\ readLock = s

\* Searches and writers do not block one another for good.
EveryoneEnds ==
  /\ \A w \in Writers : wpc[w] = "waiting" ~> wpc[w] \in {"done", "failed"}
  /\ \A s \in Searches : spc[s] = "waiting" ~> spc[s] \in {"answered", "failed"}
=============================================================================

--------------------------- MODULE RescanPipeline ---------------------------
(***************************************************************************)
(* The indexing part of a rescan (backend/core/library.py,                 *)
(* _rescan_library_impl from the indexing_start on): a pool of workers     *)
(* prepares the files that were found, one thread collects what they       *)
(* return, buffers the prepared writes under the limits of                 *)
(* RescanWritePolicy (backend/core/rescan.py) and saves them in batches,   *)
(* in the database or, for the first index of a large library, in a        *)
(* staging database that replaces it at the end.  A stop request drains    *)
(* the pool.                                                               *)
(***************************************************************************)
EXTENDS Naturals, Sequences, FiniteSets

CONSTANTS
  Paths,       \* the files found
  Size,        \* the chunk count of each prepared file
  Workers,     \* threads of the pool
  FileLimit,   \* BATCH_FLUSH_FILE_LIMIT
  ChunkLimit,  \* BATCH_FLUSH_CHUNK_LIMIT
  None         \* no file

ASSUME PathsAssumption  == IsFiniteSet(Paths) /\ Paths # {} /\ None \notin Paths
ASSUME SizeAssumption   == Size \in [Paths -> Nat]
ASSUME LimitsAssumption ==
  Workers \in Nat \ {0} /\ FileLimit \in Nat \ {0} /\ ChunkLimit \in Nat \ {0}

VARIABLES
  pc,           \* the control point of the collecting thread
  cancelEvent,  \* _cancel_event
  future,       \* what became of each file's future
  item,         \* the prepared write in hand
  buffer,       \* write_buffer
  chunks,       \* its chunk count
  due,          \* the flush reason found after an append
  draining,     \* the loop over the futures left after a stop request
  results,      \* the results recorded for each file
  staging,      \* initial_staging
  staged,       \* files saved in it
  main          \* files saved in the database

vars == <<pc, cancelEvent, future, item, buffer, chunks, due, draining, results,
          staging, staged, main>>

Kinds    == {"saved", "returned", "failed", "cancelled"}
Finished == {"prepared", "returned", "failed"}
Futures  == {"none", "queued", "running", "cancelled", "collected"} \cup Finished
Points   == {"begin", "collect", "append", "submit", "flush", "check", "stop", "drain",
             "final", "finalize", "done", "raised", "error"}

TypeOK ==
  /\ pc \in Points
  /\ cancelEvent \in BOOLEAN
  /\ future \in [Paths -> Futures]
  /\ item \in Paths \cup {None}
  /\ buffer \in SUBSET Paths
  /\ chunks \in Nat
  /\ due \in BOOLEAN
  /\ draining \in BOOLEAN
  /\ results \in [Paths -> Seq(Kinds)]
  /\ staging \in {"off", "on", "closed", "moved"}
  /\ staged \in SUBSET Paths
  /\ main \in SUBSET Paths

Init ==
  /\ pc = "begin"
  /\ cancelEvent = FALSE
  /\ future = [p \in Paths |-> "none"]
  /\ item = None
  /\ buffer = {}
  /\ chunks = 0
  /\ due = FALSE
  /\ draining = FALSE
  /\ results = [p \in Paths |-> <<>>]
  /\ staging = "off"
  /\ staged = {}
  /\ main = {}

Pending  == {p \in Paths : future[p] = "none"}
InFlight == {p \in Paths : future[p] \in {"queued", "running", "cancelled"} \cup Finished}

Record(p, kind) == results' = [results EXCEPT ![p] = Append(@, kind)]

\* After a file has been dealt with: the next round, or the next one to drain.
NextRound == IF draining THEN "drain" ELSE "check"

-----------------------------------------------------------------------------
(***************************************************************************)
(* The pool.  A worker gives its file up when it sees the event before it  *)
(* parses; a file that has not changed, or cannot be read, has a result of *)
(* its own; the others are prepared for a write.                           *)
(***************************************************************************)
StartFuture(p) ==
  /\ future[p] = "queued"
  /\ future' = [future EXCEPT ![p] = "running"]
  /\ UNCHANGED <<pc, cancelEvent, item, buffer, chunks, due, draining, results,
                 staging, staged, main>>

FinishFuture(p) ==
  /\ future[p] = "running"
  /\ \E outcome \in Finished : future' = [future EXCEPT ![p] = outcome]
  /\ UNCHANGED <<pc, cancelEvent, item, buffer, chunks, due, draining, results,
                 staging, staged, main>>

RequestCancel ==
  /\ ~cancelEvent
  /\ cancelEvent' = TRUE
  /\ UNCHANGED <<pc, future, item, buffer, chunks, due, draining, results,
                 staging, staged, main>>

-----------------------------------------------------------------------------
(***************************************************************************)
(* The collecting thread.                                                  *)
(***************************************************************************)
Submit(ps) == future' = [p \in Paths |-> IF p \in ps THEN "queued" ELSE future[p]]

\* The first files are submitted.  An empty database and many files: stage.
Begin ==
  /\ pc = "begin"
  /\ \E first \in SUBSET Paths :
       /\ Cardinality(first) = IF Workers < Cardinality(Paths) THEN Workers ELSE Cardinality(Paths)
       /\ Submit(first)
  /\ staging' \in {"off", "on"}
  /\ pc' = "collect"
  /\ UNCHANGED <<cancelEvent, item, buffer, chunks, due, draining, results, staged, main>>

\* One future that is done is taken; the drain takes the cancelled ones too.
Take(p) ==
  /\ \/ pc = "collect" /\ future[p] \in Finished
     \/ pc = "drain" /\ future[p] \in Finished \cup {"cancelled"}
  /\ future' = [future EXCEPT ![p] = "collected"]
  /\ IF future[p] = "prepared"
     THEN item' = p /\ pc' = "append" /\ UNCHANGED results
     ELSE /\ Record(p, future[p])
          /\ pc' = IF draining THEN "drain" ELSE "submit"
          /\ UNCHANGED item
  /\ UNCHANGED <<cancelEvent, buffer, chunks, due, draining, staging, staged, main>>

(***************************************************************************)
(* _flush_write_buffer: one transaction for the batch.  When it fails the  *)
(* files are saved one by one, or, with a staging database, the rescan     *)
(* fails.                                                                  *)
(***************************************************************************)
\* Mutant: the file to come is not counted.
OverflowAlready(p) == buffer # {} /\ chunks > ChunkLimit

Overflow(p) == buffer # {} /\ chunks + Size[p] > ChunkLimit

Saved(ok) ==
  /\ results' = [p \in Paths |->
                   IF p \in buffer THEN Append(results[p], IF p \in ok THEN "saved" ELSE "failed")
                                   ELSE results[p]]
  /\ buffer' = {} /\ chunks' = 0
  /\ IF staging = "on"
     THEN staged' = staged \cup ok /\ UNCHANGED main
     ELSE main' = main \cup ok /\ UNCHANGED staged

Flush(next) ==
  /\ \/ Saved(buffer) /\ pc' = next /\ UNCHANGED staging
     \/ /\ staging # "on" /\ buffer # {}
        /\ \E ok \in SUBSET buffer : Saved(ok)
        /\ pc' = next /\ UNCHANGED staging
     \/ /\ staging = "on" /\ buffer # {}
        /\ staging' = "closed" /\ buffer' = {} /\ chunks' = 0
        /\ pc' = "raised"
        /\ UNCHANGED <<results, staged, main>>
  /\ UNCHANGED <<cancelEvent, future, item, draining>>

FlushBeforeAppend ==
  /\ pc = "append" /\ Overflow(item)
  /\ Flush("append")
  /\ UNCHANGED due

\* The interval since the last flush may be over at any time.
AppendPrepared ==
  /\ pc = "append" /\ ~Overflow(item)
  /\ buffer' = buffer \cup {item}
  /\ chunks' = chunks + Size[item]
  /\ due' \in {TRUE, chunks' >= ChunkLimit \/ Cardinality(buffer') >= FileLimit}
  /\ item' = None
  /\ pc' = IF ~draining THEN "submit" ELSE IF due' THEN "flush" ELSE "drain"
  /\ UNCHANGED <<cancelEvent, future, draining, results, staging, staged, main>>

SubmitNext ==
  /\ pc = "submit"
  /\ \/ /\ ~cancelEvent
        /\ \E p \in Pending : Submit({p})
     \/ /\ cancelEvent \/ Pending = {}
        /\ UNCHANGED future
  /\ pc' = IF due THEN "flush" ELSE "check"
  /\ UNCHANGED <<cancelEvent, item, buffer, chunks, due, draining, results, staging, staged, main>>

FlushDue ==
  /\ pc = "flush"
  /\ Flush(NextRound)
  /\ due' = FALSE

Check ==
  /\ pc = "check"
  /\ pc' = IF cancelEvent THEN "stop" ELSE IF InFlight = {} THEN "final" ELSE "collect"
  /\ UNCHANGED <<cancelEvent, future, item, buffer, chunks, due, draining, results,
                 staging, staged, main>>

\* A stop request: save what there is, then cancel what no worker has begun.
FlushOnCancel ==
  /\ pc = "stop" /\ buffer # {}
  /\ Flush("stop")
  /\ UNCHANGED due

\* Mutant: what cancel() returns is not looked at.
CancelAndRecord ==
  /\ pc = "stop" /\ buffer = {}
  /\ results' = [p \in Paths |-> IF p \in InFlight THEN Append(results[p], "cancelled")
                                                  ELSE results[p]]
  /\ future' = [p \in Paths |-> IF future[p] = "queued" THEN "collected" ELSE future[p]]
  /\ draining' = TRUE
  /\ pc' = "drain"
  /\ UNCHANGED <<cancelEvent, item, buffer, chunks, due, staging, staged, main>>

CancelFutures ==
  /\ pc = "stop" /\ buffer = {}
  /\ future' = [p \in Paths |-> IF future[p] = "queued" THEN "cancelled" ELSE future[p]]
  /\ draining' = TRUE
  /\ pc' = "drain"
  /\ UNCHANGED <<cancelEvent, item, buffer, chunks, due, results, staging, staged, main>>

EndDrain ==
  /\ pc = "drain" /\ InFlight = {}
  /\ pc' = "final"
  /\ UNCHANGED <<cancelEvent, future, item, buffer, chunks, due, draining, results,
                 staging, staged, main>>

FinalFlush ==
  /\ pc = "final"
  /\ Flush(IF staging = "on" THEN "finalize" ELSE "done")
  /\ UNCHANGED due

\* finalize_to_main replaces the database by the staging one.
Finalize ==
  /\ pc = "finalize"
  /\ \/ main' = staged /\ staging' = "moved" /\ pc' = "done"
     \/ UNCHANGED main /\ staging' = "closed" /\ pc' = "error"
  /\ UNCHANGED <<cancelEvent, future, item, buffer, chunks, due, draining, results, staged>>

\* An error leaves the block of the pool, which waits for its threads.
LeavePool ==
  /\ pc = "raised"
  /\ \A p \in Paths : future[p] \notin {"queued", "running"}
  /\ pc' = "error"
  /\ UNCHANGED <<cancelEvent, future, item, buffer, chunks, due, draining, results,
                 staging, staged, main>>

Ended == pc \in {"done", "error"} /\ UNCHANGED vars

-----------------------------------------------------------------------------
Pool    == \E p \in Paths : StartFuture(p) \/ FinishFuture(p)
Collect == (\E p \in Paths : Take(p)) \/ SubmitNext \/ Check
Save    == FlushBeforeAppend \/ AppendPrepared \/ FlushDue \/ FinalFlush \/ Finalize
Stop    == FlushOnCancel \/ CancelFutures \/ EndDrain \/ LeavePool

Next == Begin \/ Pool \/ RequestCancel \/ Collect \/ Save \/ Stop \/ Ended

Spec     == Init /\ [][Next]_vars
FairSpec == Spec /\ WF_vars(Begin \/ Collect \/ Save \/ Stop)
                 /\ \A p \in Paths : WF_vars(StartFuture(p) \/ FinishFuture(p))

-----------------------------------------------------------------------------
(***************************************************************************)
(* Properties                                                              *)
(***************************************************************************)

\* No file gets two results, however its future, the flushes and a stop
\* request interleave.
ResultsOnce == \A p \in Paths : Len(results[p]) <= 1

\* A rescan that ends has a result for every file it submitted, also for those
\* that were in flight or in the buffer when it was stopped; without a stop it
\* has submitted them all.
NothingLost ==
  pc = "done" =>
    /\ \A p \in Paths : \/ future[p] = "collected" /\ Len(results[p]) = 1
                        \/ future[p] = "none" /\ results[p] = <<>>
    /\ Pending = {} \/ cancelEvent

\* What a rescan reports as registered or updated is in the database, and
\* nothing else that it saved: also when a batch was saved only in part.
ReportIsTrue ==
  pc = "done" => main = {p \in Paths : results[p] = <<"saved">>}

\* A batch never exceeds the file limit, and exceeds the chunk limit only when
\* it is one large file.
BatchBounded ==
  /\ Cardinality(buffer) <= FileLimit
  /\ chunks <= ChunkLimit \/ \E p \in Paths : buffer = {p}

\* No more files are with the pool than it has workers.
PoolBounded == Cardinality(InFlight) <= Workers

\* The report accounts for the files: each has one result, and "saved" is what is saved.
FilesAreAccounted == ResultsOnce /\ NothingLost /\ ReportIsTrue

\* Neither the batch nor the pool outgrows its limits, in whatever order results arrive.
WithinLimits == BatchBounded /\ PoolBounded

\* The rescan ends, stopped or not, whatever fails.
RescanEnds == <>(pc \in {"done", "error"})
=============================================================================

------------------------ MODULE RescanPipelineProofs ------------------------
(***************************************************************************)
(* What RescanPipeline promises for any number of files of any size, any   *)
(* number of workers and any limits.                                       *)
(***************************************************************************)
EXTENDS RescanPipeline, FiniteSetTheorems, TLAPS

(***************************************************************************)
(* A flush either empties the buffer into results and a database and goes  *)
(* on, or empties it and raises.                                           *)
(***************************************************************************)
LEMMA FlushFacts ==
  ASSUME NEW next, Flush(next)
  PROVE  /\ UNCHANGED <<cancelEvent, future, item, draining>>
         /\ buffer' = {} /\ chunks' = 0
         /\ \/ /\ pc' = next /\ staging' = staging
               /\ \E ok \in SUBSET buffer : Saved(ok)
            \/ /\ pc' = "raised" /\ staging' = "closed"
               /\ UNCHANGED <<results, staged, main>>
BY DEF Flush, Saved

LEMMA SavedFacts ==
  ASSUME TypeOK, NEW ok \in SUBSET buffer, Saved(ok)
  PROVE  /\ results' \in [Paths -> Seq(Kinds)]
         /\ staged' \in SUBSET Paths
         /\ main' \in SUBSET Paths
<1>1. "saved" \in Kinds /\ "failed" \in Kinds
  BY DEF Kinds
<1>2. QED
  BY <1>1 DEF Saved, TypeOK

\* Every flush of the collecting thread.
Flushes == FlushBeforeAppend \/ FlushDue \/ FlushOnCancel \/ FinalFlush

-----------------------------------------------------------------------------
(***************************************************************************)
(* Type correctness and where control can be.                              *)
(***************************************************************************)
ControlInv ==
  /\ pc = "append" => item \in Paths
  /\ item # None => pc \in {"append", "raised", "error"}
  /\ pc = "begin" => /\ staging = "off" /\ staged = {} /\ main = {}
                     /\ \A p \in Paths : future[p] = "none"
  /\ pc \in {"stop", "drain"} => cancelEvent
  /\ draining => cancelEvent
  /\ pc \in {"submit", "check", "stop", "collect", "begin"} => ~draining
  /\ pc = "drain" => draining
  /\ pc \in {"final", "finalize", "done"} => InFlight = {}
  /\ pc \in {"finalize", "done"} => buffer = {}
  /\ pc = "finalize" => staging = "on"
  /\ pc = "done" => staging \in {"off", "moved"}
  /\ staging = "closed" => pc \in {"raised", "error"}
  /\ staging = "moved" => pc = "done"
  /\ due => pc \in {"submit", "flush", "raised", "error"}

TInv == TypeOK /\ ControlInv

LEMMA InitTInv == Init => TInv
<1> SUFFICES ASSUME Init PROVE TInv
  OBVIOUS
<1>1. <<>> \in Seq(Kinds)
  OBVIOUS
<1>2. TypeOK
  BY <1>1 DEF Init, TypeOK, Points, Futures
<1>3. ControlInv
  BY DEF Init, ControlInv
<1>4. QED
  BY <1>2, <1>3 DEF TInv

LEMMA TakeFacts ==
  ASSUME TypeOK, NEW p \in Paths, Take(p)
  PROVE  /\ future' = [future EXCEPT ![p] = "collected"]
         /\ future[p] \in Finished \cup {"cancelled"}
         /\ \/ /\ future[p] = "prepared"
               /\ item' = p /\ pc' = "append" /\ results' = results
            \/ /\ future[p] \in {"returned", "failed", "cancelled"}
               /\ results' = [results EXCEPT ![p] = Append(@, future[p])]
               /\ pc' = (IF draining THEN "drain" ELSE "submit")
               /\ item' = item
         /\ pc \in {"collect", "drain"}
         /\ UNCHANGED <<cancelEvent, buffer, chunks, due, draining, staging, staged, main>>
BY DEF Take, Record, Finished

LEMMA NextTInv == TInv /\ [Next]_vars => TInv'
<1> SUFFICES ASSUME TInv, [Next]_vars PROVE TInv'
  OBVIOUS
<1> USE DEF TInv
<1> USE PathsAssumption, SizeAssumption, LimitsAssumption
<1>1. CASE Begin
  <2>1. future' \in [Paths -> Futures]
    BY <1>1 DEF Begin, Submit, TypeOK, Futures
  <2>2. TypeOK'
    BY <1>1, <2>1 DEF Begin, TypeOK, Points
  <2>3. ControlInv'
    BY <1>1 DEF Begin, ControlInv, TypeOK
  <2>4. QED
    BY <2>2, <2>3
<1>2. CASE Pool
  <2>1. future' \in [Paths -> Futures]
    BY <1>2 DEF Pool, StartFuture, FinishFuture, TypeOK, Futures, Finished
  <2>2. TypeOK'
    BY <1>2, <2>1 DEF Pool, StartFuture, FinishFuture, TypeOK
  <2>3. InFlight' = InFlight
    BY <1>2 DEF Pool, StartFuture, FinishFuture, TypeOK, InFlight, Finished
  <2>4. pc # "begin"
    BY <1>2 DEF Pool, StartFuture, FinishFuture, ControlInv
  <2>5. ControlInv'
    BY <1>2, <2>3, <2>4 DEF Pool, StartFuture, FinishFuture, ControlInv
  <2>6. QED
    BY <2>2, <2>5
<1>3. CASE RequestCancel
  BY <1>3 DEF RequestCancel, TypeOK, ControlInv, InFlight
<1>4. CASE \E p \in Paths : Take(p)
  <2> PICK p \in Paths : Take(p)
    BY <1>4
  <2>1. future' \in [Paths -> Futures]
    BY TakeFacts DEF TypeOK, Futures
  <2>2. results' \in [Paths -> Seq(Kinds)]
    <3>1. results[p] \in Seq(Kinds)
      BY DEF TypeOK
    <3>2. ASSUME future[p] \in {"returned", "failed", "cancelled"}
          PROVE  Append(results[p], future[p]) \in Seq(Kinds)
      BY <3>1, <3>2 DEF Kinds
    <3>3. CASE future[p] = "prepared"
      BY <3>3, TakeFacts DEF TypeOK
    <3>4. CASE future[p] # "prepared"
      <4>1. results' = [results EXCEPT ![p] = Append(results[p], future[p])]
        BY <3>4, TakeFacts
      <4>2. Append(results[p], future[p]) \in Seq(Kinds)
        BY <3>2, <3>4, TakeFacts
      <4>3. QED
        BY <4>1, <4>2 DEF TypeOK
    <3>5. QED
      BY <3>3, <3>4
  <2>3. TypeOK'
    BY TakeFacts, <2>1, <2>2 DEF TypeOK, Points
  <2>4. ControlInv'
    BY TakeFacts DEF ControlInv, TypeOK
  <2>5. QED
    BY <2>3, <2>4
<1>5. CASE SubmitNext
  <2>1. future' \in [Paths -> Futures]
    BY <1>5 DEF SubmitNext, Submit, TypeOK, Futures
  <2>2. TypeOK'
    BY <1>5, <2>1 DEF SubmitNext, TypeOK, Points
  <2>3. ControlInv'
    BY <1>5 DEF SubmitNext, ControlInv, TypeOK
  <2>4. QED
    BY <2>2, <2>3
<1>6. CASE Check
  BY <1>6 DEF Check, TypeOK, Points, ControlInv, InFlight
<1>7. CASE Flushes
  <2>1. PICK next : /\ Flush(next)
                    /\ due' = due \/ due' = FALSE
                    /\ \/ pc = "append" /\ next = "append"
                       \/ pc = "flush" /\ next = NextRound /\ due' = FALSE
                       \/ pc = "stop" /\ next = "stop"
                       \/ pc = "final" /\ next = (IF staging = "on" THEN "finalize" ELSE "done")
    BY <1>7 DEF Flushes, FlushBeforeAppend, FlushDue, FlushOnCancel, FinalFlush
  <2>2. TypeOK'
    <3>1. pc' \in Points
      BY <2>1, FlushFacts DEF Points, NextRound
    <3>2. due' \in BOOLEAN /\ staging' \in {"off", "on", "closed", "moved"}
      BY <2>1, FlushFacts DEF TypeOK
    <3>3. /\ results' \in [Paths -> Seq(Kinds)]
          /\ staged' \in SUBSET Paths /\ main' \in SUBSET Paths
      BY <2>1, FlushFacts, SavedFacts DEF TypeOK
    <3>4. QED
      BY <2>1, <3>1, <3>2, <3>3, FlushFacts DEF TypeOK
  <2>3. InFlight' = InFlight /\ (due' => due)
    BY <2>1, FlushFacts DEF InFlight
  <2>4. ControlInv'
    <3>1. CASE pc' = "raised" /\ staging' = "closed"
      BY <2>1, <2>3, <3>1, FlushFacts DEF ControlInv, TypeOK
    <3>2. CASE pc' = next /\ staging' = staging
      <4>1. CASE pc = "append" /\ next = "append"
        BY <2>1, <2>2, <2>3, <3>2, <4>1, FlushFacts DEF ControlInv, TypeOK
      <4>2. CASE pc = "flush" /\ next = NextRound /\ due' = FALSE
        BY <2>1, <2>3, <3>2, <4>2, FlushFacts DEF ControlInv, TypeOK, NextRound
      <4>3. CASE pc = "stop" /\ next = "stop"
        BY <2>1, <2>3, <3>2, <4>3, FlushFacts DEF ControlInv, TypeOK
      <4>4. CASE pc = "final" /\ next = (IF staging = "on" THEN "finalize" ELSE "done")
        BY <2>1, <2>3, <3>2, <4>4, FlushFacts DEF ControlInv, TypeOK
      <4>5. QED
        BY <2>1, <4>1, <4>2, <4>3, <4>4
    <3>3. QED
      BY <2>1, <3>1, <3>2, FlushFacts
  <2>5. QED
    BY <2>2, <2>4
<1>8. CASE AppendPrepared
  <2>1. item \in Paths /\ Size[item] \in Nat
    BY <1>8 DEF AppendPrepared, ControlInv
  <2>2. due' \in BOOLEAN
    BY <1>8 DEF AppendPrepared
  <2>3. TypeOK'
    BY <1>8, <2>1, <2>2 DEF AppendPrepared, TypeOK, Points
  <2>4. ControlInv'
    BY <1>8 DEF AppendPrepared, ControlInv, InFlight, TypeOK
  <2>5. QED
    BY <2>3, <2>4
<1>9. CASE CancelFutures
  <2>1. future' \in [Paths -> Futures]
    BY <1>9 DEF CancelFutures, TypeOK, Futures
  <2>2. TypeOK'
    BY <1>9, <2>1 DEF CancelFutures, TypeOK, Points
  <2>3. ControlInv'
    BY <1>9 DEF CancelFutures, ControlInv, TypeOK
  <2>4. QED
    BY <2>2, <2>3
<1>10. CASE EndDrain \/ LeavePool \/ Finalize
  BY <1>10 DEF EndDrain, LeavePool, Finalize, TypeOK, Points, ControlInv, InFlight
<1>11. CASE UNCHANGED vars
  BY <1>11 DEF vars, TypeOK, ControlInv, InFlight
<1>12. QED
  BY <1>1, <1>2, <1>3, <1>4, <1>5, <1>6, <1>7, <1>8, <1>9, <1>10, <1>11
  DEF Next, Collect, Save, Stop, Ended, Flushes

\* The types are right in every reachable state.
THEOREM TypeCorrect == Spec => []TypeOK
<1>1. Init => TInv
  BY InitTInv
<1>2. TInv /\ [Next]_vars => TInv'
  BY NextTInv
<1>3. TInv => TypeOK
  BY DEF TInv
<1>4. QED
  BY <1>1, <1>2, <1>3, PTL DEF Spec

-----------------------------------------------------------------------------
(***************************************************************************)
(* Every file is in one place: with the pool and without a result, in      *)
(* hand, in the buffer, or recorded once.  Only an error loses it.         *)
(***************************************************************************)
LedgerInv ==
  \A p \in Paths :
    /\ Len(results[p]) <= 1
    /\ future[p] # "collected" => results[p] = <<>> /\ p \notin buffer /\ item # p
    /\ p \in buffer => results[p] = <<>> /\ item # p
    /\ item = p => results[p] = <<>>
    /\ future[p] = "collected" =>
         \/ Len(results[p]) = 1 \/ p \in buffer \/ item = p
         \/ pc \in {"raised", "error"}

\* While no stop is requested, the loop goes on until every file is submitted.
SubmitInv ==
  pc \in {"check", "final", "finalize", "done"} \/ (pc = "flush" /\ ~draining) =>
    cancelEvent \/ Pending = {} \/ InFlight # {}

LInv == TInv /\ LedgerInv /\ SubmitInv

LEMMA InitLInv == Init => LInv
<1> SUFFICES ASSUME Init PROVE LInv
  OBVIOUS
<1>1. \A p \in Paths : results[p] = <<>> /\ Len(results[p]) = 0
  BY DEF Init
<1>2. LedgerInv
  BY <1>1, PathsAssumption DEF Init, LedgerInv
<1>3. SubmitInv
  BY DEF Init, SubmitInv
<1>4. QED
  BY <1>2, <1>3, InitTInv DEF LInv

LEMMA AppendOne ==
  ASSUME NEW s, s = <<>>, NEW k
  PROVE  Append(s, k) = <<k>> /\ Len(Append(s, k)) = 1
OBVIOUS

LEMMA SavedResults ==
  ASSUME TypeOK, LedgerInv, NEW ok \in SUBSET buffer, Saved(ok), NEW p \in Paths
  PROVE  IF p \in buffer
         THEN results'[p] = <<IF p \in ok THEN "saved" ELSE "failed">> /\ Len(results'[p]) = 1
         ELSE results'[p] = results[p]
<1>1. results'[p] = IF p \in buffer THEN Append(results[p], IF p \in ok THEN "saved" ELSE "failed")
                                    ELSE results[p]
  BY DEF Saved
<1>2. p \in buffer => results[p] = <<>>
  BY DEF LedgerInv
<1>3. QED
  BY <1>1, <1>2, AppendOne

LEMMA TakeResults ==
  ASSUME TypeOK, LedgerInv, NEW p \in Paths, Take(p)
  PROVE  /\ \A q \in Paths \ {p} : results'[q] = results[q] /\ future'[q] = future[q]
         /\ future'[p] = "collected" /\ future[p] \notin {"collected", "none"}
         /\ item' \in {item, p}
         /\ IF item' = p THEN results'[p] = <<>> ELSE results'[p] = <<future[p]>>
         /\ Len(results'[p]) <= 1 /\ (item' # p => Len(results'[p]) = 1)
<1>1. results[p] = <<>> /\ item # p
  BY TakeFacts DEF LedgerInv, Finished
<1>2. /\ \A q \in Paths \ {p} : future'[q] = future[q]
      /\ future'[p] = "collected" /\ future[p] \notin {"collected", "none"}
  BY TakeFacts DEF TypeOK, Finished
<1>3. CASE future[p] = "prepared"
  BY <1>1, <1>2, <1>3, TakeFacts
<1>4. CASE future[p] # "prepared"
  <2>1. results' = [results EXCEPT ![p] = Append(results[p], future[p])] /\ item' = item
    BY <1>4, TakeFacts
  <2>2. results'[p] = <<future[p]>> /\ Len(results'[p]) = 1
    BY <1>1, <2>1, AppendOne DEF TypeOK
  <2>3. \A q \in Paths \ {p} : results'[q] = results[q]
    BY <2>1 DEF TypeOK
  <2>4. QED
    BY <1>1, <1>2, <2>1, <2>2, <2>3
<1>5. QED
  BY <1>3, <1>4

LEMMA NextLInv == LInv /\ [Next]_vars => LInv'
<1> SUFFICES ASSUME LInv, [Next]_vars PROVE LedgerInv' /\ SubmitInv'
  BY NextTInv DEF LInv
<1> USE PathsAssumption DEF LInv, TInv
<1>1. CASE Begin
  <2>1. \A p \in Paths : future[p] # "collected" /\ future'[p] # "collected"
    BY <1>1 DEF Begin, Submit, ControlInv
  <2>2. QED
    BY <1>1, <2>1 DEF Begin, LedgerInv, SubmitInv
<1>2. CASE Pool
  <2>1. /\ \A p \in Paths : future[p] = "collected" <=> future'[p] = "collected"
        /\ InFlight' = InFlight /\ Pending' = Pending
    BY <1>2 DEF Pool, StartFuture, FinishFuture, TypeOK, InFlight, Pending, Finished
  <2>2. UNCHANGED <<pc, cancelEvent, item, buffer, draining, results>>
    BY <1>2 DEF Pool, StartFuture, FinishFuture
  <2>3. QED
    BY <2>1, <2>2 DEF LedgerInv, SubmitInv
<1>3. CASE RequestCancel
  BY <1>3 DEF RequestCancel, LedgerInv, SubmitInv
<1>4. CASE \E p \in Paths : Take(p)
  <2> PICK p \in Paths : Take(p)
    BY <1>4
  <2>1. pc' \notin {"check", "final", "finalize", "done", "flush"}
    BY TakeFacts
  <2>2. pc \notin {"append", "raised", "error"} /\ item = None /\ buffer' = buffer
    BY TakeFacts DEF ControlInv, TypeOK
  <2>3. LedgerInv'
    BY <2>2, TakeResults, Zenon DEF LedgerInv
  <2>4. QED
    BY <2>1, <2>3 DEF SubmitInv
<1>5. CASE SubmitNext
  <2>1. \A p \in Paths : future[p] = "collected" <=> future'[p] = "collected"
    BY <1>5 DEF SubmitNext, Submit, Pending, TypeOK
  <2>2. cancelEvent' \/ Pending' = {} \/ InFlight' # {}
    BY <1>5 DEF SubmitNext, Submit, Pending, InFlight
  <2>3. pc \notin {"raised", "error"} /\ UNCHANGED <<item, buffer, results>>
    BY <1>5 DEF SubmitNext
  <2>4. QED
    BY <2>1, <2>2, <2>3 DEF LedgerInv, SubmitInv
<1>6. CASE Check
  BY <1>6 DEF Check, LedgerInv, SubmitInv, Pending, InFlight
<1>7. CASE Flushes
  <2>1. PICK next : /\ Flush(next)
                    /\ \/ pc = "append" /\ next = "append"
                       \/ pc = "flush" /\ next = NextRound
                       \/ pc = "stop" /\ next = "stop"
                       \/ pc = "final" /\ next = (IF staging = "on" THEN "finalize" ELSE "done")
    BY <1>7 DEF Flushes, FlushBeforeAppend, FlushDue, FlushOnCancel, FinalFlush
  <2>2. Pending' = Pending /\ InFlight' = InFlight
    BY <2>1, FlushFacts DEF Pending, InFlight
  <2>3. SubmitInv'
    BY <2>1, <2>2, FlushFacts DEF SubmitInv, NextRound
  <2>4. CASE pc' = "raised" /\ UNCHANGED results
    <3>1. UNCHANGED <<future, item>> /\ buffer' = {}
      BY <2>1, FlushFacts
    <3>2. LedgerInv'
      BY <2>4, <3>1 DEF LedgerInv
    <3>3. QED
      BY <2>3, <3>2
  <2>5. CASE pc' = next /\ \E ok \in SUBSET buffer : Saved(ok)
    <3>1. PICK ok \in SUBSET buffer : Saved(ok)
      BY <2>5
    <3>2. UNCHANGED <<future, item>> /\ buffer' = {} /\ pc \notin {"raised", "error"}
      BY <2>1, FlushFacts
    <3>3. ASSUME NEW p \in Paths
          PROVE  /\ Len(results'[p]) <= 1
                 /\ p \notin buffer => results'[p] = results[p]
                 /\ p \in buffer => Len(results'[p]) = 1 /\ item # p /\ future[p] = "collected"
      <4>1. Len(results[p]) <= 1 /\ (p \in buffer => item # p /\ future[p] = "collected")
        BY DEF LedgerInv
      <4>2. IF p \in buffer THEN Len(results'[p]) = 1 ELSE results'[p] = results[p]
        BY <3>1, SavedResults
      <4>3. CASE p \in buffer
        <5>1. Len(results'[p]) = 1
          BY <4>2, <4>3
        <5>2. Len(results'[p]) <= 1
          BY <5>1
        <5>3. QED
          BY <4>1, <4>3, <5>1, <5>2
      <4>4. CASE p \notin buffer
        BY <4>1, <4>2, <4>4
      <4>5. QED
        BY <4>3, <4>4
    <3>4. LedgerInv'
      BY <3>2, <3>3 DEF LedgerInv
    <3>5. QED
      BY <2>3, <3>4
  <2>6. QED
    BY <2>1, <2>3, <2>4, <2>5, FlushFacts
<1>8. CASE AppendPrepared
  BY <1>8 DEF AppendPrepared, ControlInv, LedgerInv, SubmitInv, TypeOK
<1>9. CASE CancelFutures
  <2>1. \A p \in Paths : future[p] = "collected" <=> future'[p] = "collected"
    BY <1>9 DEF CancelFutures
  <2>2. QED
    BY <1>9, <2>1 DEF CancelFutures, LedgerInv, SubmitInv
<1>10. CASE EndDrain \/ LeavePool \/ Finalize
  BY <1>10 DEF EndDrain, LeavePool, Finalize, LedgerInv, SubmitInv, ControlInv, Pending, InFlight
<1>11. CASE UNCHANGED vars
  BY <1>11 DEF vars, LedgerInv, SubmitInv, Pending, InFlight
<1>12. QED
  BY <1>1, <1>2, <1>3, <1>4, <1>5, <1>6, <1>7, <1>8, <1>9, <1>10, <1>11
  DEF Next, Collect, Save, Stop, Ended, Flushes

\* No file gets two results.
THEOREM OneResult == Spec => []ResultsOnce
<1>1. LInv => ResultsOnce
  BY DEF LInv, LedgerInv, ResultsOnce
<1>2. QED
  BY <1>1, InitLInv, NextLInv, PTL DEF Spec

\* A rescan that ends has one result for every file it submitted, and without a
\* stop request it has submitted them all.
THEOREM NothingIsLost == Spec => []NothingLost
<1>1. LInv => NothingLost
  <2> SUFFICES ASSUME LInv, pc = "done"
               PROVE  /\ \A p \in Paths :
                           \/ future[p] = "collected" /\ Len(results[p]) = 1
                           \/ future[p] = "none" /\ results[p] = <<>>
                      /\ Pending = {} \/ cancelEvent
    BY DEF NothingLost
  <2>1. InFlight = {} /\ buffer = {} /\ item = None
    BY DEF LInv, TInv, ControlInv
  <2>2. \A p \in Paths : future[p] \in {"none", "collected"}
    BY <2>1 DEF InFlight, LInv, TInv, TypeOK, Futures
  <2>3. QED
    BY <2>1, <2>2, PathsAssumption DEF LInv, LedgerInv, SubmitInv
<1>2. QED
  BY <1>1, InitLInv, NextLInv, PTL DEF Spec

-----------------------------------------------------------------------------
(***************************************************************************)
(* What is reported saved is in the database that the rescan writes: the   *)
(* staging one while there is one, then the one it has replaced.           *)
(***************************************************************************)
Reported == {p \in Paths : results[p] = <<"saved">>}

StoreInv ==
  /\ staging = "off" => main = Reported
  /\ staging = "on" => staged = Reported
  /\ staging = "moved" => main = Reported

SInv == LInv /\ StoreInv

LEMMA InitSInv == Init => SInv
<1> SUFFICES ASSUME Init PROVE SInv
  OBVIOUS
<1>1. <<>> # <<"saved">>
  OBVIOUS
<1>2. Reported = {}
  BY <1>1 DEF Init, Reported
<1>3. QED
  BY <1>2, InitLInv DEF Init, SInv, StoreInv

LEMMA SavedReports ==
  ASSUME TypeOK, LedgerInv, NEW ok \in SUBSET buffer, Saved(ok)
  PROVE  Reported' = Reported \cup ok
<1>1. <<>> # <<"saved">> /\ <<"failed">> # <<"saved">>
  OBVIOUS
<1>2. ASSUME NEW p \in Paths
      PROVE  results'[p] = <<"saved">> <=> results[p] = <<"saved">> \/ p \in ok
  <2>1. CASE p \in buffer
    BY <1>1, <2>1, SavedResults DEF LedgerInv
  <2>2. CASE p \notin buffer
    BY <2>2, SavedResults
  <2>3. QED
    BY <2>1, <2>2
<1>3. ok \subseteq Paths
  BY DEF TypeOK
<1>4. QED
  BY <1>2, <1>3 DEF Reported

LEMMA NextSInv == SInv /\ [Next]_vars => SInv'
<1> SUFFICES ASSUME SInv, [Next]_vars PROVE StoreInv'
  BY NextLInv DEF SInv
<1> USE PathsAssumption DEF SInv, LInv, TInv
<1>1. CASE Begin
  <2>1. <<>> # <<"saved">>
    OBVIOUS
  <2>2. Reported = {} /\ Reported' = Reported
    BY <1>1, <2>1 DEF Begin, Reported, ControlInv, LedgerInv
  <2>3. staging = "off" /\ main = {} /\ staged = {}
    BY <1>1 DEF Begin, ControlInv
  <2>4. QED
    BY <1>1, <2>2, <2>3 DEF Begin, StoreInv
<1>2. CASE \E p \in Paths : Take(p)
  <2> PICK p \in Paths : Take(p)
    BY <1>2
  <2>1. /\ future[p] # "saved" /\ results[p] = <<>>
        /\ \A q \in Paths \ {p} : results'[q] = results[q]
        /\ results'[p] \in {<<>>, <<future[p]>>}
    BY TakeResults, TakeFacts DEF LedgerInv, Finished
  <2>2. <<>> # <<"saved">> /\ <<future[p]>> # <<"saved">>
    BY <2>1
  <2>3. Reported' = Reported
    BY <2>1, <2>2 DEF Reported
  <2>4. UNCHANGED <<staging, staged, main>>
    BY TakeFacts
  <2>5. QED
    BY <2>3, <2>4 DEF StoreInv
<1>3. CASE Flushes
  <2>1. PICK next : Flush(next)
    BY <1>3 DEF Flushes, FlushBeforeAppend, FlushDue, FlushOnCancel, FinalFlush
  <2>2. CASE staging' = "closed"
    BY <2>2 DEF StoreInv
  <2>3. CASE staging' = staging /\ \E ok \in SUBSET buffer : Saved(ok)
    <3>1. PICK ok \in SUBSET buffer : Saved(ok)
      BY <2>3
    <3>2. Reported' = Reported \cup ok
      BY <3>1, SavedReports
    <3>3. staging # "moved"
      BY <1>3 DEF Flushes, FlushBeforeAppend, FlushDue, FlushOnCancel, FinalFlush, ControlInv
    <3>4. IF staging = "on" THEN staged' = staged \cup ok ELSE main' = main \cup ok
      BY <3>1 DEF Saved
    <3>5. QED
      BY <2>3, <3>2, <3>3, <3>4 DEF StoreInv
  <2>4. QED
    BY <2>1, <2>2, <2>3, FlushFacts
<1>4. CASE Finalize
  BY <1>4 DEF Finalize, StoreInv, ControlInv, Reported
<1>5. CASE \/ Pool \/ RequestCancel \/ SubmitNext \/ Check \/ AppendPrepared
           \/ CancelFutures \/ EndDrain \/ LeavePool \/ UNCHANGED vars
  <2>1. UNCHANGED <<results, staging, staged, main>>
    BY <1>5 DEF Pool, StartFuture, FinishFuture, RequestCancel, SubmitNext, Check,
                AppendPrepared, CancelFutures, EndDrain, LeavePool, vars
  <2>2. QED
    BY <2>1 DEF StoreInv, Reported
<1>6. QED
  BY <1>1, <1>2, <1>3, <1>4, <1>5 DEF Next, Collect, Save, Stop, Ended, Flushes

\* When the rescan ends, the database holds exactly what it reports as saved.
THEOREM ReportTrue == Spec => []ReportIsTrue
<1>1. SInv => ReportIsTrue
  BY DEF SInv, LInv, TInv, ControlInv, StoreInv, Reported, ReportIsTrue
<1>2. QED
  BY <1>1, InitSInv, NextSInv, PTL DEF Spec

-----------------------------------------------------------------------------
(***************************************************************************)
(* The limits.  Before a write is appended the buffer is below the file    *)
(* limit: a buffer that reaches a limit is flushed before the next write   *)
(* is taken.                                                               *)
(***************************************************************************)
BatchInv ==
  /\ IsFiniteSet(buffer)
  /\ ~due => buffer = {} \/ Cardinality(buffer) < FileLimit

BInv == TInv /\ BatchInv /\ BatchBounded

LEMMA InitBInv == Init => BInv
BY InitTInv, FS_EmptySet, LimitsAssumption DEF Init, BInv, BatchInv, BatchBounded

LEMMA NextBInv == BInv /\ [Next]_vars => BInv'
<1> SUFFICES ASSUME BInv, [Next]_vars PROVE BatchInv' /\ BatchBounded'
  BY NextTInv DEF BInv
<1> USE PathsAssumption, SizeAssumption, LimitsAssumption DEF BInv, TInv
<1>1. CASE AppendPrepared
  <2>1. item \in Paths /\ ~due /\ ~Overflow(item)
    BY <1>1 DEF AppendPrepared, ControlInv, TypeOK
  <2>2. Cardinality(buffer) \in Nat /\ Cardinality(buffer) < FileLimit
    BY <2>1, FS_EmptySet, FS_CardinalityType DEF BatchInv
  <2>3. buffer' = buffer \cup {item} /\ IsFiniteSet(buffer')
    BY <1>1, FS_AddElement DEF AppendPrepared, BatchInv
  <2>4. Cardinality(buffer') \in Nat /\ Cardinality(buffer') <= FileLimit
    <3>1. IsFiniteSet(buffer)
      BY DEF BatchInv
    <3>2. Cardinality(buffer') = Cardinality(buffer)
            \/ Cardinality(buffer') = Cardinality(buffer) + 1
      BY <2>3, <3>1, FS_AddElement
    <3>3. QED
      BY <2>2, <3>2
  <2>5. ~due' => Cardinality(buffer') < FileLimit
    <3>1. due' = TRUE \/ due' = (chunks' >= ChunkLimit \/ Cardinality(buffer') >= FileLimit)
      BY <1>1 DEF AppendPrepared
    <3>2. ~due' => ~(Cardinality(buffer') >= FileLimit)
      BY <3>1, Zenon
    <3>3. QED
      BY <2>4, <3>2
  <2>6. chunks' <= ChunkLimit \/ buffer' = {item}
    <3>1. CASE buffer = {}
      BY <2>3, <3>1
    <3>2. CASE buffer # {}
      BY <1>1, <2>1, <3>2 DEF AppendPrepared, Overflow, TypeOK
    <3>3. QED
      BY <3>1, <3>2
  <2>7. QED
    BY <2>1, <2>3, <2>4, <2>5, <2>6 DEF BatchInv, BatchBounded
<1>2. CASE Flushes
  <2>1. buffer' = {} /\ chunks' = 0
    BY <1>2, FlushFacts DEF Flushes, FlushBeforeAppend, FlushDue, FlushOnCancel, FinalFlush
  <2>2. QED
    BY <2>1, FS_EmptySet DEF BatchInv, BatchBounded
<1>3. CASE \/ Begin \/ Pool \/ RequestCancel \/ (\E p \in Paths : Take(p)) \/ SubmitNext \/ Check
           \/ CancelFutures \/ EndDrain \/ LeavePool \/ Finalize \/ UNCHANGED vars
  <2>1. UNCHANGED <<buffer, chunks, due>>
    BY <1>3 DEF Begin, Pool, StartFuture, FinishFuture, RequestCancel, Take, SubmitNext, Check,
                CancelFutures, EndDrain, LeavePool, Finalize, vars
  <2>2. QED
    BY <2>1 DEF BatchInv, BatchBounded
<1>4. QED
  BY <1>1, <1>2, <1>3 DEF Next, Collect, Save, Stop, Ended, Flushes

\* No batch exceeds the limits, except by one large file of its own.
THEOREM BatchesBounded == Spec => []BatchBounded
<1>1. BInv => BatchBounded
  BY DEF BInv
<1>2. QED
  BY <1>1, InitBInv, NextBInv, PTL DEF Spec

-----------------------------------------------------------------------------
(***************************************************************************)
(* The pool.  A file is submitted only after one has been taken, so that   *)
(* there is room for it.                                                   *)
(***************************************************************************)
PoolInv == pc \in {"append", "submit"} /\ ~draining => Cardinality(InFlight) < Workers

PInv == TInv /\ PoolInv /\ PoolBounded

LEMMA InFlightFinite ==
  /\ IsFiniteSet(InFlight) /\ Cardinality(InFlight) \in Nat
  /\ IsFiniteSet(InFlight') /\ Cardinality(InFlight') \in Nat
BY PathsAssumption, FS_Subset, FS_CardinalityType DEF InFlight

LEMMA InitPInv == Init => PInv
<1> SUFFICES ASSUME Init PROVE PoolInv /\ PoolBounded
  BY InitTInv DEF PInv
<1>1. InFlight = {}
  BY DEF Init, InFlight, Finished
<1>2. QED
  BY <1>1, FS_EmptySet, LimitsAssumption DEF Init, PoolInv, PoolBounded

LEMMA NextPInv == PInv /\ [Next]_vars => PInv'
<1> SUFFICES ASSUME PInv, [Next]_vars PROVE PoolInv' /\ PoolBounded'
  BY NextTInv DEF PInv
<1> USE PathsAssumption, LimitsAssumption, InFlightFinite DEF PInv, TInv
<1>1. CASE Begin
  <2>1. PICK first \in SUBSET Paths :
           /\ Cardinality(first) = IF Workers < Cardinality(Paths) THEN Workers ELSE Cardinality(Paths)
           /\ Submit(first)
    BY <1>1 DEF Begin
  <2>2. InFlight' = first
    BY <1>1, <2>1 DEF Begin, Submit, InFlight, ControlInv, Finished
  <2>3. Cardinality(first) <= Workers
    BY <2>1, FS_CardinalityType
  <2>4. QED
    BY <1>1, <2>2, <2>3 DEF Begin, PoolInv, PoolBounded
<1>2. CASE \E p \in Paths : Take(p)
  <2> PICK p \in Paths : Take(p)
    BY <1>2
  <2>1. p \in InFlight /\ InFlight' = InFlight \ {p}
    BY TakeFacts DEF InFlight, TypeOK, Finished
  <2>2. Cardinality(InFlight') = Cardinality(InFlight) - 1
    BY <2>1, FS_RemoveElement
  <2>3. QED
    BY <2>2 DEF PoolInv, PoolBounded
<1>3. CASE SubmitNext
  <2>1. pc' \notin {"append", "submit"}
    BY <1>3 DEF SubmitNext
  <2>2. Cardinality(InFlight) < Workers
    BY <1>3 DEF SubmitNext, ControlInv, PoolInv
  <2>3. Cardinality(InFlight') <= Workers
    <3>1. CASE UNCHANGED future
      BY <2>2, <3>1 DEF InFlight
    <3>2. CASE \E p \in Pending : Submit({p})
      <4>1. PICK p \in Pending : Submit({p})
        BY <3>2
      <4>2. p \notin InFlight /\ InFlight' = InFlight \cup {p}
        BY <4>1 DEF Pending, Submit, InFlight, Finished, TypeOK
      <4>3. Cardinality(InFlight') = Cardinality(InFlight) + 1
        BY <4>2, FS_AddElement
      <4>4. QED
        BY <2>2, <4>3
    <3>3. QED
      BY <1>3, <3>1, <3>2 DEF SubmitNext
  <2>4. QED
    BY <2>1, <2>3 DEF PoolInv, PoolBounded
<1>4. CASE Pool \/ CancelFutures
  <2>1. InFlight' = InFlight
    BY <1>4 DEF Pool, StartFuture, FinishFuture, CancelFutures, InFlight, Finished, TypeOK
  <2>2. pc' \in {"append", "submit"} /\ ~draining' => pc' = pc /\ draining' = draining
    BY <1>4 DEF Pool, StartFuture, FinishFuture, CancelFutures
  <2>3. QED
    BY <2>1, <2>2 DEF PoolInv, PoolBounded
<1>5. CASE Flushes
  <2>1. PICK next : /\ Flush(next)
                    /\ next \in {"append", "submit"} => pc = "append"
    BY <1>5 DEF Flushes, FlushBeforeAppend, FlushDue, FlushOnCancel, FinalFlush, NextRound
  <2>2. InFlight' = InFlight /\ draining' = draining
    BY <2>1, FlushFacts DEF InFlight
  <2>3. pc' \in {"append", "submit"} => pc = "append"
    BY <2>1, FlushFacts
  <2>4. QED
    BY <2>2, <2>3 DEF PoolInv, PoolBounded
<1>6. CASE \/ RequestCancel \/ Check \/ AppendPrepared \/ EndDrain \/ LeavePool \/ Finalize
           \/ UNCHANGED vars
  <2>1. UNCHANGED <<future, draining>>
    BY <1>6 DEF RequestCancel, Check, AppendPrepared, EndDrain, LeavePool, Finalize, vars
  <2>2. InFlight' = InFlight
    BY <2>1 DEF InFlight
  <2>3. pc' \in {"append", "submit"} => pc \in {"append", "submit"}
    BY <1>6 DEF RequestCancel, Check, AppendPrepared, EndDrain, LeavePool, Finalize, vars
  <2>4. QED
    BY <2>1, <2>2, <2>3 DEF PoolInv, PoolBounded
<1>7. QED
  BY <1>1, <1>2, <1>3, <1>4, <1>5, <1>6 DEF Next, Collect, Save, Stop, Ended, Flushes

\* The rescan never has more files with the pool than it has workers.
THEOREM PoolIsBounded == Spec => []PoolBounded
<1>1. PInv => PoolBounded
  BY DEF PInv
<1>2. QED
  BY <1>1, InitPInv, NextPInv, PTL DEF Spec

-----------------------------------------------------------------------------

\* The three facts about results together: every file is accounted for.
THEOREM AllAccounted == Spec => []FilesAreAccounted
BY OneResult, NothingIsLost, ReportTrue, PTL DEF FilesAreAccounted

\* Both limits hold, whatever the sizes of the files and the number of workers.
THEOREM LimitsHold == Spec => []WithinLimits
BY BatchesBounded, PoolIsBounded, PTL DEF WithinLimits

-----------------------------------------------------------------------------
(***************************************************************************)
(* How far the rescan is from its end.  A file only goes forward, from     *)
(* none to queued, running, finished and collected; between two of these   *)
(* moves the collecting thread goes down the ranks of its control points,  *)
(* or empties the buffer where it is.                                      *)
(***************************************************************************)
Uncollected == {p \in Paths : future[p] # "collected"}
Unfinished  == {p \in Paths : future[p] \in {"none", "queued", "running"}}
Unstarted   == {p \in Paths : future[p] \in {"none", "queued"}}

FilesLeft == Cardinality(Uncollected) + Cardinality(Unfinished) + Cardinality(Unstarted)
               + Cardinality(Pending)

PointRank ==
  [begin |-> 11, append |-> 10, submit |-> 9, flush |-> 8, check |-> 7, collect |-> 6,
   stop |-> 6, drain |-> 5, final |-> 4, finalize |-> 3, raised |-> 1, done |-> 0, error |-> 0]

RoundLeft == 2 * PointRank[pc] + (IF buffer = {} THEN 0 ELSE 1)

StepsLeft == 24 * FilesLeft + RoundLeft

\* A file never goes back.
FilesAdvance ==
  /\ Uncollected' \subseteq Uncollected /\ Unfinished' \subseteq Unfinished
  /\ Unstarted' \subseteq Unstarted /\ Pending' \subseteq Pending

FilesMove ==
  \/ Uncollected' # Uncollected \/ Unfinished' # Unfinished
  \/ Unstarted' # Unstarted \/ Pending' # Pending

LEMMA FilesCount ==
  ASSUME FilesAdvance
  PROVE  /\ FilesLeft \in 0..(4 * Cardinality(Paths)) /\ FilesLeft' \in Nat
         /\ FilesLeft' <= FilesLeft
         /\ FilesMove => FilesLeft' < FilesLeft
<1>1. /\ Uncollected \in SUBSET Paths /\ Unfinished \in SUBSET Paths
      /\ Unstarted \in SUBSET Paths /\ Pending \in SUBSET Paths
  BY DEF Uncollected, Unfinished, Unstarted, Pending
<1>2. /\ Uncollected' \in SUBSET Uncollected /\ Unfinished' \in SUBSET Unfinished
      /\ Unstarted' \in SUBSET Unstarted /\ Pending' \in SUBSET Pending
  BY DEF FilesAdvance
<1>3. FilesLeft' = Cardinality(Uncollected') + Cardinality(Unfinished') + Cardinality(Unstarted')
                     + Cardinality(Pending')
  BY DEF FilesLeft
<1>4. PICK A \in SUBSET Paths, B \in SUBSET Paths, C \in SUBSET Paths, D \in SUBSET Paths :
        A = Uncollected /\ B = Unfinished /\ C = Unstarted /\ D = Pending
  BY <1>1
<1>5. PICK a \in SUBSET A, b \in SUBSET B, c \in SUBSET C, d \in SUBSET D :
        a = Uncollected' /\ b = Unfinished' /\ c = Unstarted' /\ d = Pending'
  BY <1>2, <1>4
<1>6. \A S \in SUBSET Paths : IsFiniteSet(S) /\ Cardinality(S) \in 0..Cardinality(Paths)
  BY PathsAssumption, FS_Subset, FS_CardinalityType
<1>7. \A S \in SUBSET Paths : \A s \in SUBSET S :
        Cardinality(s) <= Cardinality(S) /\ (s # S => Cardinality(s) < Cardinality(S))
  BY <1>6, FS_Subset, FS_CardinalityType
<1>8. PICK n \in Nat : n = Cardinality(Paths)
  BY PathsAssumption, FS_CardinalityType
<1>9. PICK i \in 0..n, j \in 0..n, k \in 0..n, l \in 0..n :
        i = Cardinality(A) /\ j = Cardinality(B) /\ k = Cardinality(C) /\ l = Cardinality(D)
  BY <1>6, <1>8
<1>10. PICK w \in 0..n, x \in 0..n, y \in 0..n, z \in 0..n :
         w = Cardinality(a) /\ x = Cardinality(b) /\ y = Cardinality(c) /\ z = Cardinality(d)
  BY <1>6, <1>8
<1>11. /\ w <= i /\ x <= j /\ y <= k /\ z <= l
       /\ (a # A => w < i) /\ (b # B => x < j) /\ (c # C => y < k) /\ (d # D => z < l)
  BY <1>7, <1>9, <1>10
<1>12. /\ i + j + k + l \in 0..(4 * n) /\ w + x + y + z \in Nat
       /\ w + x + y + z <= i + j + k + l
       /\ a # A \/ b # B \/ c # C \/ d # D => w + x + y + z < i + j + k + l
  BY <1>11
<1>13. FilesLeft = i + j + k + l /\ FilesLeft' = w + x + y + z
  BY <1>3, <1>4, <1>5, <1>9, <1>10 DEF FilesLeft
<1>14. QED
  BY <1>4, <1>5, <1>8, <1>12, <1>13 DEF FilesMove

LEMMA RoundType == ASSUME TInv PROVE RoundLeft \in 0..23
<1>1. PointRank[pc] \in 0..11
  BY DEF TInv, TypeOK, Points, PointRank
<1>2. QED
  BY <1>1 DEF RoundLeft

LEMMA RoundTypeNext == ASSUME TInv' PROVE RoundLeft' \in 0..23
<1>1. PointRank[pc'] \in 0..11
  BY DEF TInv, TypeOK, Points, PointRank
<1>2. QED
  BY <1>1 DEF RoundLeft

LEMMA Weighed ==
  ASSUME NEW n \in Nat, NEW i \in 0..(4 * n), NEW j \in Nat, NEW k \in 0..23, NEW m \in 0..23
  PROVE  /\ 24 * i + k \in 0..(96 * n + 23) /\ 24 * j + m \in Nat
         /\ j < i \/ (j <= i /\ m < k) => 24 * j + m < 24 * i + k
OBVIOUS

LEMMA Closer ==
  ASSUME TInv, TInv', FilesAdvance
  PROVE  /\ StepsLeft \in 0..(96 * Cardinality(Paths) + 23) /\ StepsLeft' \in Nat
         /\ FilesMove \/ RoundLeft' < RoundLeft => StepsLeft' < StepsLeft
<1>1. PICK n \in Nat : n = Cardinality(Paths)
  BY PathsAssumption, FS_CardinalityType
<1>2. PICK i \in 0..(4 * n), j \in Nat : i = FilesLeft /\ j = FilesLeft'
  BY <1>1, FilesCount
<1>3. PICK k \in 0..23, m \in 0..23 : k = RoundLeft /\ m = RoundLeft'
  BY RoundType, RoundTypeNext
<1>4. j <= i /\ (FilesMove => j < i)
  BY <1>2, FilesCount
<1>5. StepsLeft = 24 * i + k /\ StepsLeft' = 24 * j + m
  BY <1>2, <1>3 DEF StepsLeft
<1>6. /\ 24 * i + k \in 0..(96 * n + 23) /\ 24 * j + m \in Nat
      /\ j < i \/ (j <= i /\ m < k) => 24 * j + m < 24 * i + k
  BY Weighed
<1>7. QED
  BY <1>1, <1>3, <1>4, <1>5, <1>6

\* The steps of the pool and of the collecting thread.
Collector == Begin \/ Collect \/ Save \/ Stop

LEMMA FlushRound ==
  ASSUME TInv, NEW next, Flush(next),
         \/ next = pc /\ buffer # {} /\ pc \in {"append", "stop"}
         \/ pc = "flush" /\ next \in {"check", "drain"}
         \/ pc = "final" /\ next \in {"finalize", "done"}
  PROVE  RoundLeft' < RoundLeft
<1>1. buffer' = {} /\ pc' \in {next, "raised"}
  BY FlushFacts
<1>2. RoundLeft' = 2 * PointRank[pc']
  BY <1>1 DEF RoundLeft, PointRank
<1>3. CASE next = pc /\ buffer # {} /\ pc \in {"append", "stop"}
  BY <1>1, <1>2, <1>3 DEF RoundLeft, PointRank
<1>4. CASE ~(next = pc /\ buffer # {} /\ pc \in {"append", "stop"})
  BY <1>1, <1>2, <1>4 DEF RoundLeft, PointRank
<1>5. QED
  BY <1>3, <1>4

LEMMA CollectorMoves ==
  ASSUME TInv, Collector
  PROVE  FilesAdvance /\ (FilesMove \/ RoundLeft' < RoundLeft)
<1> USE DEF TInv
<1>1. CASE Begin
  <2>1. PICK first \in SUBSET Paths :
          /\ Cardinality(first) =
               (IF Workers < Cardinality(Paths) THEN Workers ELSE Cardinality(Paths))
          /\ Submit(first)
    BY <1>1 DEF Begin
  <2>2. \A p \in Paths : future[p] = "none"
    BY <1>1 DEF Begin, ControlInv
  <2>3. FilesAdvance
    BY <2>1, <2>2 DEF FilesAdvance, Submit, Uncollected, Unfinished, Unstarted, Pending
  <2>4. pc = "begin" /\ pc' = "collect" /\ buffer' = buffer
    BY <1>1 DEF Begin
  <2>5. RoundLeft' < RoundLeft
    BY <2>4 DEF RoundLeft, PointRank
  <2>6. QED
    BY <2>3, <2>5
<1>2. CASE \E p \in Paths : Take(p)
  <2>1. PICK p \in Paths : Take(p)
    BY <1>2
  <2>2. future' = [future EXCEPT ![p] = "collected"] /\ future[p] \in Finished \cup {"cancelled"}
    BY <2>1, TakeFacts
  <2>3. FilesAdvance
    BY <2>2 DEF FilesAdvance, Uncollected, Unfinished, Unstarted, Pending, TypeOK, Finished
  <2>4. p \in Uncollected /\ p \notin Uncollected'
    BY <2>2 DEF Uncollected, TypeOK, Finished
  <2>5. QED
    BY <2>3, <2>4 DEF FilesMove
<1>3. CASE SubmitNext
  <2>1. \/ future' = future
        \/ \E p \in Pending : Submit({p})
    BY <1>3 DEF SubmitNext
  <2>2. FilesAdvance
    BY <2>1 DEF FilesAdvance, Submit, Uncollected, Unfinished, Unstarted, Pending, TypeOK
  <2>3. pc = "submit" /\ pc' \in {"flush", "check"} /\ buffer' = buffer
    BY <1>3 DEF SubmitNext
  <2>4. RoundLeft' < RoundLeft
    BY <2>3 DEF RoundLeft, PointRank
  <2>5. QED
    BY <2>2, <2>4
<1>4. CASE CancelFutures
  <2>1. FilesAdvance
    BY <1>4 DEF CancelFutures, FilesAdvance, Uncollected, Unfinished, Unstarted, Pending, TypeOK
  <2>2. pc = "stop" /\ pc' = "drain" /\ buffer' = buffer
    BY <1>4 DEF CancelFutures
  <2>3. RoundLeft' < RoundLeft
    BY <2>2 DEF RoundLeft, PointRank
  <2>4. QED
    BY <2>1, <2>3
<1>5. CASE Check \/ AppendPrepared \/ Finalize \/ EndDrain \/ LeavePool
  <2>1. future' = future
    BY <1>5 DEF Check, AppendPrepared, Finalize, EndDrain, LeavePool
  <2>2. \/ pc = "check" /\ pc' \in {"stop", "final", "collect"} /\ buffer' = buffer
        \/ pc = "append" /\ pc' \in {"submit", "flush", "drain"}
        \/ pc = "finalize" /\ pc' \in {"done", "error"} /\ buffer' = buffer
        \/ pc = "drain" /\ pc' = "final" /\ buffer' = buffer
        \/ pc = "raised" /\ pc' = "error" /\ buffer' = buffer
    BY <1>5 DEF Check, AppendPrepared, Finalize, EndDrain, LeavePool
  <2>3. RoundLeft' < RoundLeft
    BY <2>2 DEF RoundLeft, PointRank
  <2>4. QED
    BY <2>1, <2>3 DEF FilesAdvance, Uncollected, Unfinished, Unstarted, Pending
<1>6. CASE Flushes
  <2>1. PICK next : /\ Flush(next)
                    /\ \/ next = pc /\ buffer # {} /\ pc \in {"append", "stop"}
                       \/ pc = "flush" /\ next \in {"check", "drain"}
                       \/ pc = "final" /\ next \in {"finalize", "done"}
    BY <1>6 DEF Flushes, FlushBeforeAppend, Overflow, FlushDue, FlushOnCancel, FinalFlush,
         NextRound
  <2>2. future' = future
    BY <2>1, FlushFacts
  <2>3. RoundLeft' < RoundLeft
    BY <2>1, FlushRound
  <2>4. QED
    BY <2>2, <2>3 DEF FilesAdvance, Uncollected, Unfinished, Unstarted, Pending
<1>7. QED
  BY <1>1, <1>2, <1>3, <1>4, <1>5, <1>6 DEF Collector, Collect, Save, Stop, Flushes

LEMMA PoolMoves ==
  ASSUME TInv, Pool
  PROVE  FilesAdvance /\ FilesMove
<1> USE DEF TInv
<1>1. PICK p \in Paths : StartFuture(p) \/ FinishFuture(p)
  BY DEF Pool
<1>2. CASE StartFuture(p)
  <2>1. FilesAdvance
    BY <1>2 DEF StartFuture, FilesAdvance, Uncollected, Unfinished, Unstarted, Pending, TypeOK
  <2>2. p \in Unstarted /\ p \notin Unstarted'
    BY <1>2 DEF StartFuture, Unstarted, TypeOK
  <2>3. QED
    BY <2>1, <2>2 DEF FilesMove
<1>3. CASE FinishFuture(p)
  <2>1. PICK outcome \in Finished : future' = [future EXCEPT ![p] = outcome]
    BY <1>3 DEF FinishFuture
  <2>2. future[p] = "running"
    BY <1>3 DEF FinishFuture
  <2>3. FilesAdvance
    BY <2>1, <2>2 DEF FilesAdvance, Uncollected, Unfinished, Unstarted, Pending, TypeOK, Finished
  <2>4. p \in Unfinished /\ p \notin Unfinished'
    BY <2>1, <2>2 DEF Unfinished, TypeOK, Finished
  <2>5. QED
    BY <2>3, <2>4 DEF FilesMove
<1>4. QED
  BY <1>1, <1>2, <1>3

\* The rest, a stop request among it, leaves the work as it is.
LEMMA RestMoves ==
  ASSUME TInv, [Next]_vars, ~Collector, ~Pool
  PROVE  UNCHANGED <<pc, future, buffer>>
BY DEF Next, RequestCancel, Ended, vars, Collector

(***************************************************************************)
(* Every step of the pool and of the collecting thread brings the rescan   *)
(* closer to its end, which at most 96 steps for every file and 23 more    *)
(* reach; nothing takes it back, and a stop request leaves it where it is. *)
(***************************************************************************)
RescanWindsDown ==
  /\ StepsLeft <= 96 * Cardinality(Paths) + 23
  /\ StepsLeft' <= StepsLeft
  /\ Collector \/ Pool => StepsLeft' < StepsLeft

LEMMA StepWindsDown == TInv /\ TInv' /\ [Next]_vars => RescanWindsDown
<1> SUFFICES ASSUME TInv, TInv', [Next]_vars PROVE RescanWindsDown
  OBVIOUS
<1>1. Cardinality(Paths) \in Nat
  BY PathsAssumption, FS_CardinalityType
<1>2. CASE Collector \/ Pool
  <2>1. FilesAdvance /\ (FilesMove \/ RoundLeft' < RoundLeft)
    BY <1>2, CollectorMoves, PoolMoves
  <2>2. /\ StepsLeft \in 0..(96 * Cardinality(Paths) + 23) /\ StepsLeft' \in Nat
        /\ StepsLeft' < StepsLeft
    BY <2>1, Closer
  <2>3. QED
    BY <1>1, <2>2 DEF RescanWindsDown
<1>3. CASE ~(Collector \/ Pool)
  <2>1. UNCHANGED <<pc, future, buffer>>
    BY <1>3, RestMoves
  <2>2. FilesAdvance
    BY <2>1 DEF FilesAdvance, Uncollected, Unfinished, Unstarted, Pending
  <2>3. StepsLeft' = StepsLeft
    BY <2>1 DEF StepsLeft, FilesLeft, RoundLeft, Uncollected, Unfinished, Unstarted, Pending
  <2>4. StepsLeft \in 0..(96 * Cardinality(Paths) + 23)
    BY <2>2, Closer
  <2>5. QED
    BY <1>1, <1>3, <2>3, <2>4 DEF RescanWindsDown
<1>4. QED
  BY <1>2, <1>3

\* Indexing takes a number of steps that the number of files bounds, whatever fails and whenever
\* the stop request comes: neither the rounds of the loop nor those of the drain go on for ever.
THEOREM IndexingWindsDown == Spec => [][RescanWindsDown]_vars
<1>1. TInv /\ TInv' /\ [Next]_vars => [RescanWindsDown]_vars
  BY StepWindsDown
<1>2. QED
  BY <1>1, InitTInv, NextTInv, PTL DEF Spec

-----------------------------------------------------------------------------
(***************************************************************************)
(* Nobody is stuck.  The collecting thread waits in three places: for a    *)
(* file in the loop, for one in the drain, and for the threads of the pool *)
(* after an error.  What it waits for is then with the pool, whose threads *)
(* wait for nobody.                                                        *)
(***************************************************************************)
WaitInv ==
  /\ pc = "collect" => InFlight # {}
  /\ \A p \in Paths : future[p] = "cancelled" => draining

LEMMA NextWaitInv == TInv /\ WaitInv /\ [Next]_vars => WaitInv'
<1> SUFFICES ASSUME TInv, WaitInv, [Next]_vars PROVE WaitInv'
  OBVIOUS
<1> USE DEF TInv, WaitInv
<1>1. CASE Begin
  <2>1. PICK first \in SUBSET Paths :
          /\ Cardinality(first) =
               (IF Workers < Cardinality(Paths) THEN Workers ELSE Cardinality(Paths))
          /\ Submit(first)
    BY <1>1 DEF Begin
  <2>2. Cardinality(Paths) # 0 /\ Cardinality({}) = 0
    BY PathsAssumption, FS_EmptySet
  <2>3. first # {}
    BY <2>1, <2>2, LimitsAssumption
  <2>4. PICK p \in first : future'[p] = "queued"
    BY <2>1, <2>3 DEF Submit
  <2>5. InFlight' # {}
    BY <2>4 DEF InFlight
  <2>6. \A q \in Paths : future'[q] # "cancelled"
    BY <1>1, <2>1 DEF Begin, Submit, ControlInv
  <2>7. QED
    BY <2>5, <2>6
<1>2. CASE Pool
  <2>1. InFlight' = InFlight
    BY <1>2 DEF Pool, StartFuture, FinishFuture, InFlight, Finished, TypeOK
  <2>2. \A q \in Paths : future'[q] = "cancelled" => future[q] = "cancelled"
    BY <1>2 DEF Pool, StartFuture, FinishFuture, Finished, TypeOK
  <2>3. pc' = pc /\ draining' = draining
    BY <1>2 DEF Pool, StartFuture, FinishFuture
  <2>4. QED
    BY <2>1, <2>2, <2>3
<1>3. CASE \E p \in Paths : Take(p)
  <2>1. PICK p \in Paths : Take(p)
    BY <1>3
  <2>2. future' = [future EXCEPT ![p] = "collected"] /\ draining' = draining
        /\ pc' \in {"append", "drain", "submit"}
    BY <2>1, TakeFacts
  <2>3. QED
    BY <2>2 DEF TypeOK
<1>4. CASE SubmitNext
  <2>1. \A q \in Paths : future'[q] = "cancelled" => future[q] = "cancelled"
    BY <1>4 DEF SubmitNext, Submit, TypeOK
  <2>2. QED
    BY <1>4, <2>1 DEF SubmitNext
<1>5. CASE CancelFutures
  BY <1>5 DEF CancelFutures
<1>6. CASE Flushes
  <2>1. PICK next \in {"append", "stop", "check", "drain", "finalize", "done"} : Flush(next)
    BY <1>6 DEF Flushes, FlushBeforeAppend, FlushDue, FlushOnCancel, FinalFlush, NextRound
  <2>2. pc' # "collect" /\ future' = future /\ draining' = draining
    BY <2>1, FlushFacts
  <2>3. QED
    BY <2>2
<1>7. CASE \/ RequestCancel \/ Check \/ AppendPrepared \/ EndDrain \/ LeavePool \/ Finalize
           \/ UNCHANGED vars
  <2>1. UNCHANGED <<future, draining>>
    BY <1>7 DEF RequestCancel, Check, AppendPrepared, EndDrain, LeavePool, Finalize, vars
  <2>2. InFlight' = InFlight
    BY <2>1 DEF InFlight
  <2>3. pc' = "collect" => pc = "collect" \/ InFlight # {}
    BY <1>7 DEF RequestCancel, Check, AppendPrepared, EndDrain, LeavePool, Finalize, vars
  <2>4. QED
    BY <2>1, <2>2, <2>3
<1>8. QED
  BY <1>1, <1>2, <1>3, <1>4, <1>5, <1>6, <1>7 DEF Next, Collect, Save, Stop, Ended, Flushes

LEMMA SpecWaitInv == Spec => [](TInv /\ WaitInv)
<1>1. Init => WaitInv
  BY DEF Init, WaitInv
<1>2. QED
  BY <1>1, InitTInv, NextTInv, NextWaitInv, PTL DEF Spec

PoolGuard == \E p \in Paths : future[p] \in {"queued", "running"}

CollectorGuard ==
  /\ pc \notin {"done", "error"}
  /\ pc = "collect" => \E p \in Paths : future[p] \in Finished
  /\ pc = "drain" => InFlight = {} \/ \E p \in Paths : future[p] \in Finished \cup {"cancelled"}
  /\ pc = "raised" => ~PoolGuard

\* While the rescan goes on, the collecting thread can take a step or a thread of the pool can.
NobodyIsStuck == pc \notin {"done", "error"} => CollectorGuard \/ PoolGuard

\* The collecting thread never waits for a file that nobody brings, in the loop or in the drain
\* after a stop, and an error never waits for a thread that has none.
THEOREM IndexingNeverStuck == Spec => []NobodyIsStuck
<1>1. TInv /\ WaitInv => NobodyIsStuck
  <2> SUFFICES ASSUME TInv, WaitInv, pc \notin {"done", "error"}, ~PoolGuard
               PROVE  CollectorGuard
    BY DEF NobodyIsStuck
  <2>1. \A p \in InFlight : future[p] \in Finished \cup {"cancelled"}
    BY DEF PoolGuard, InFlight
  <2>2. pc = "collect" => ~draining
    BY DEF TInv, ControlInv
  <2>3. pc = "collect" => \E p \in Paths : future[p] \in Finished
    BY <2>1, <2>2 DEF WaitInv, InFlight
  <2>4. InFlight = {} \/ \E p \in Paths : future[p] \in Finished \cup {"cancelled"}
    BY <2>1 DEF InFlight
  <2>5. QED
    BY <2>3, <2>4 DEF CollectorGuard
<1>2. QED
  BY <1>1, SpecWaitInv, PTL

(***************************************************************************)
(* With fair threads the rescan always comes closer to its end.  FairSpec  *)
(* is fair to each file's future; what is needed here is that some thread  *)
(* of the pool goes on while one can.  With the bound of IndexingWindsDown *)
(* this is RescanEnds but for the induction over the steps that are left.  *)
(***************************************************************************)
Ends == pc \in {"done", "error"}
LeftIs(n) == ~Ends /\ StepsLeft = n
LeftLess(n) == Ends \/ StepsLeft < n

LEMMA ProgressStep ==
  ASSUME TInv, TInv', NEW n \in Nat, [Next]_vars, LeftIs(n)
  PROVE  /\ LeftLess(n)' \/ (LeftIs(n)' /\ UNCHANGED <<pc, future, buffer>>)
         /\ Collector \/ Pool => LeftLess(n)'
<1>1. CASE Collector \/ Pool
  <2>1. StepsLeft' < StepsLeft
    BY <1>1, StepWindsDown DEF RescanWindsDown
  <2>2. QED
    BY <2>1 DEF LeftIs, LeftLess
<1>2. CASE ~(Collector \/ Pool)
  <2>1. UNCHANGED <<pc, future, buffer>>
    BY <1>2, RestMoves
  <2>2. StepsLeft' = StepsLeft /\ (Ends <=> Ends')
    BY <2>1 DEF StepsLeft, FilesLeft, RoundLeft, Uncollected, Unfinished, Unstarted, Pending,
         Ends
  <2>3. QED
    BY <1>2, <2>1, <2>2 DEF LeftIs
<1>3. QED
  BY <1>1, <1>2

\* A rescan with n steps left comes to have fewer, or has ended, stopped or not and whatever
\* fails, when its own threads are scheduled fairly.
THEOREM IndexingProgresses ==
  ASSUME NEW n \in Nat
  PROVE  Spec /\ WF_vars(Collector) /\ WF_vars(Pool)
              /\ [](CollectorGuard => ENABLED <<Collector>>_vars)
              /\ [](PoolGuard => ENABLED <<Pool>>_vars)
           => (LeftIs(n) ~> LeftLess(n))
<1> DEFINE I == TInv /\ NobodyIsStuck
<1>1. Spec => []I
  BY SpecWaitInv, IndexingNeverStuck, PTL
<1>2. I /\ LeftIs(n) => CollectorGuard \/ PoolGuard
  BY DEF LeftIs, Ends, NobodyIsStuck
<1>3. I /\ I' /\ [Next]_vars =>
        /\ LeftIs(n) /\ CollectorGuard => LeftLess(n)' \/ (LeftIs(n) /\ CollectorGuard)'
        /\ LeftIs(n) /\ PoolGuard => LeftLess(n)' \/ (LeftIs(n) /\ PoolGuard)'
  <2>1. SUFFICES ASSUME I, I', [Next]_vars, LeftIs(n)
        PROVE  \/ LeftLess(n)'
               \/ /\ LeftIs(n)'
                  /\ CollectorGuard => CollectorGuard'
                  /\ PoolGuard => PoolGuard'
    OBVIOUS
  <2>2. LeftLess(n)' \/ (LeftIs(n)' /\ UNCHANGED <<pc, future, buffer>>)
    BY <2>1, ProgressStep
  <2>3. UNCHANGED <<pc, future, buffer>> =>
          (CollectorGuard => CollectorGuard') /\ (PoolGuard => PoolGuard')
    BY DEF CollectorGuard, PoolGuard, InFlight
  <2>4. QED
    BY <2>2, <2>3
<1>4. I /\ I' /\ [Next]_vars =>
        /\ LeftIs(n) /\ <<Collector>>_vars => LeftLess(n)'
        /\ LeftIs(n) /\ <<Pool>>_vars => LeftLess(n)'
  BY ProgressStep
<1> HIDE DEF I
<1>5. QED
  BY <1>1, <1>2, <1>3, <1>4, PTL DEF Spec

=============================================================================

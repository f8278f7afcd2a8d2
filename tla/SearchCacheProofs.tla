------------------------- MODULE SearchCacheProofs -------------------------
(***************************************************************************)
(* Proofs about SearchCache, for any number of writers, searches and       *)
(* questions and any limit of the cache.                                   *)
(*                                                                         *)
(* The argument for freshness orders the changes by the epoch their bump   *)
(* returned (mark): whoever holds the epoch e, a search or an entry, shows *)
(* every change marked 1..e, because the rows are read after the epoch and *)
(* a change is marked after its commit (FreshInv).                         *)
(***************************************************************************)
EXTENDS SearchCache, TLAPS, FiniteSetTheorems

USE DEF WriterPoints, SearchPoints, Using

AfterEpoch == {"keyed", "names", "texts", "store"}
Committed  == {"committed", "bumped", "done"}

\* The change of w is one that the epoch e covers.
Covered(w, e) == 0 < mark[w] /\ mark[w] <= e

WriterInv ==
  \A w \in Writers :
    /\ w \in db <=> wpc[w] \in Committed
    /\ wpc[w] \in {"bumped", "done"} <=> mark[w] > 0
    /\ mark[w] <= epoch

SearchOK(s) ==
  /\ seenEpoch[s] <= epoch
  /\ \A w \in since[s] : wpc[w] = "done"
  /\ spc[s] \in AfterEpoch => \A w \in since[s] : Covered(w, seenEpoch[s])
  /\ spc[s] \in {"texts", "store"} => \A w \in Writers : Covered(w, seenEpoch[s]) => w \in shows[s]
  /\ spc[s] = "answered" => since[s] \subseteq shows[s]

EntryOK(e) ==
  /\ e.key.epoch <= epoch
  /\ \A w \in Writers : Covered(w, e.key.epoch) => w \in e.shows

SearchInv == \A s \in Searches : SearchOK(s)
EntryInv  == \A e \in entries : EntryOK(e)

FreshInv == WriterInv /\ SearchInv /\ EntryInv

MatchOK(s) ==
  spc[s] \in {"store", "answered"} => (texts[s] = "searched" <=> Ready(seenIndex[s]))

MatchInv ==
  /\ \A s \in Searches : MatchOK(s)
  /\ \A e \in entries : e.texts = "searched" <=> Ready(e.key.index)

SizeInv == IsFiniteSet(entries) /\ CacheBounded

-----------------------------------------------------------------------------
\* The numbers of the state.
LEMMA Numbers ==
  ASSUME TypeOK
  PROVE  epoch \in Nat /\ index \in Statuses /\ index.updated_at \in Nat
<1>1. epoch \in Nat /\ index \in Statuses
  BY DEF TypeOK
<1>2. QED
  BY <1>1 DEF Statuses

\* A new state of the index.
LEMMA StampedType ==
  ASSUME TypeOK, NEW state \in {"ready", "refreshing", "error"}
  PROVE  Stamped(state) \in Statuses
<1>1. index.updated_at + 1 \in Nat
  BY Numbers
<1>2. QED
  BY <1>1 DEF Stamped, Statuses

\* A key, and the answer a search stores under it, are of their types.
LEMMA KeyType ==
  ASSUME TypeOK, NEW s \in Searches
  PROVE  Key(s) \in Keys
BY DEF TypeOK, Key, Keys

LEMMA AnswerType ==
  ASSUME TypeOK, NEW s \in Searches, texts[s] # "unread"
  PROVE  Answer(s) \in Entries
BY KeyType DEF TypeOK, Answer, Entries

\* What the store leaves in the cache: old entries and the answer.
LEMMA StoreEntries ==
  ASSUME NEW s \in Searches, Store(s)
  PROVE  \A e \in entries' : e \in entries \/ e = Answer(s)
BY DEF Store, Others

\* A search that stores has looked at the contents, or left them out.
ReadInv == \A s \in Searches : spc[s] = "store" => texts[s] # "unread"

TypeInv == TypeOK /\ ReadInv

LEMMA TypeInit == Init => TypeInv
<1> SUFFICES ASSUME Init PROVE TypeInv
  OBVIOUS
<1>1. index \in Statuses
  BY DEF Init, Statuses
<1>2. /\ db \in SUBSET Writers /\ wpc \in [Writers -> WriterPoints]
      /\ mark \in [Writers -> Nat] /\ epoch \in Nat /\ entries \in SUBSET Entries
      /\ writeLock = None /\ readLock = None /\ open \in BOOLEAN
  BY DEF Init
<1>3. /\ spc \in [Searches -> SearchPoints] /\ asks \in [Searches -> Questions]
      /\ since \in [Searches -> SUBSET Writers] /\ shows \in [Searches -> SUBSET Writers]
      /\ texts \in [Searches -> {"unread", "searched", "left out"}]
  BY DEF Init
<1>4. seenIndex \in [Searches -> Statuses] /\ seenEpoch \in [Searches -> Nat]
  BY <1>1 DEF Init
<1>5. ReadInv
  BY DEF Init, ReadInv
<1>6. QED
  BY <1>1, <1>2, <1>3, <1>4, <1>5 DEF TypeInv, TypeOK

LEMMA TypeStep == TypeInv /\ [Next]_vars => TypeInv'
<1> SUFFICES ASSUME TypeOK, ReadInv, [Next]_vars
             PROVE  TypeOK' /\ ReadInv'
  BY DEF TypeInv
<1>1. ASSUME NEW w \in Writers, StartWrite(w) PROVE TypeOK' /\ ReadInv'
  BY <1>1 DEF TypeOK, ReadInv, StartWrite, cacheVars, connVars, searchVars
<1>2. ASSUME NEW w \in Writers, LockWrite(w) PROVE TypeOK' /\ ReadInv'
  BY <1>2, StampedType DEF TypeOK, ReadInv, LockWrite, cacheVars, connVars, searchVars
<1>3. ASSUME NEW w \in Writers, Commit(w) PROVE TypeOK' /\ ReadInv'
  BY <1>3, StampedType DEF TypeOK, ReadInv, Commit, cacheVars, connVars, searchVars
<1>4. ASSUME NEW w \in Writers, Abandon(w) PROVE TypeOK' /\ ReadInv'
  BY <1>4, StampedType DEF TypeOK, ReadInv, Abandon, cacheVars, connVars, searchVars
<1>5. ASSUME NEW w \in Writers, LeaveWrite(w) PROVE TypeOK' /\ ReadInv'
  BY <1>5 DEF TypeOK, ReadInv, LeaveWrite, cacheVars, connVars, searchVars
<1>6. ASSUME NEW w \in Writers, Bump(w) PROVE TypeOK' /\ ReadInv'
  <2>1. epoch' \in Nat /\ entries' = {}
    BY <1>6, Numbers DEF Bump
  <2>2. mark' \in [Writers -> Nat] /\ wpc' \in [Writers -> WriterPoints]
    BY <1>6, <2>1 DEF TypeOK, Bump
  <2>3. QED
    BY <1>6, <2>1, <2>2 DEF TypeOK, ReadInv, Bump, connVars, searchVars
<1>7. ASSUME NEW w \in Writers, CloseConnection(w) PROVE TypeOK' /\ ReadInv'
  BY <1>7 DEF TypeOK, ReadInv, CloseConnection, cacheVars, searchVars
<1>8. ASSUME NEW s \in Searches, Call(s) PROVE TypeOK' /\ ReadInv'
  BY <1>8 DEF TypeOK, ReadInv, Call, writerVars, cacheVars, connVars
<1>9. ASSUME NEW s \in Searches, Borrow(s) PROVE TypeOK' /\ ReadInv'
  BY <1>9 DEF TypeOK, ReadInv, Borrow, writerVars, cacheVars
<1>10. ASSUME NEW s \in Searches, ReadStatus(s) PROVE TypeOK' /\ ReadInv'
  BY <1>10 DEF TypeOK, ReadInv, ReadStatus, writerVars, cacheVars, connVars
<1>11. ASSUME NEW s \in Searches, ReadEpoch(s) PROVE TypeOK' /\ ReadInv'
  BY <1>11 DEF TypeOK, ReadInv, ReadEpoch, writerVars, cacheVars, connVars
<1>12. ASSUME NEW s \in Searches, Hit(s) PROVE TypeOK' /\ ReadInv'
  BY <1>12, ZenonT(30) DEF TypeOK, ReadInv, Hit, writerVars, cacheVars, Entries
<1>13. ASSUME NEW s \in Searches, Miss(s) PROVE TypeOK' /\ ReadInv'
  BY <1>13 DEF TypeOK, ReadInv, Miss, writerVars, connVars
<1>14. ASSUME NEW s \in Searches, SearchNames(s) PROVE TypeOK' /\ ReadInv'
  BY <1>14 DEF TypeOK, ReadInv, SearchNames, writerVars, cacheVars, connVars
<1>15. ASSUME NEW s \in Searches, SearchTexts(s) PROVE TypeOK' /\ ReadInv'
  <2>1. shows' \in [Searches -> SUBSET Writers]
    <3>1. shows[s] \cap db \in SUBSET Writers
      BY DEF TypeOK
    <3>2. QED
      BY <1>15, <3>1 DEF TypeOK, SearchTexts
  <2>2. /\ texts' \in [Searches -> {"unread", "searched", "left out"}]
        /\ spc' \in [Searches -> SearchPoints]
    BY <1>15 DEF TypeOK, SearchTexts
  <2>3. ReadInv'
    BY <1>15 DEF TypeOK, ReadInv, SearchTexts
  <2>4. QED
    BY <1>15, <2>1, <2>2, <2>3 DEF TypeOK, SearchTexts, writerVars, cacheVars, connVars
<1>16. ASSUME NEW s \in Searches, SearchFails(s) PROVE TypeOK' /\ ReadInv'
  BY <1>16 DEF TypeOK, ReadInv, SearchFails, writerVars, cacheVars
<1>17. ASSUME NEW s \in Searches, Store(s) PROVE TypeOK' /\ ReadInv'
  <2>1. entries' \in SUBSET Entries
    BY <1>17, AnswerType, StoreEntries DEF TypeOK, ReadInv, Store
  <2>2. QED
    BY <1>17, <2>1 DEF TypeOK, ReadInv, Store, writerVars
<1>18. CASE RescanDone
  <2>1. epoch' \in Nat /\ entries' = {}
    BY <1>18, Numbers DEF RescanDone
  <2>2. QED
    BY <1>18, <2>1 DEF TypeOK, ReadInv, RescanDone, writerVars, connVars, searchVars
<1>19. CASE UNCHANGED vars
  BY <1>19 DEF TypeOK, ReadInv, vars, writerVars, cacheVars, connVars, searchVars
<1>20. QED
  BY <1>1, <1>2, <1>3, <1>4, <1>5, <1>6, <1>7, <1>8, <1>9,
     <1>10, <1>11, <1>12, <1>13, <1>14, <1>15, <1>16, <1>17, <1>18, <1>19
     DEF Next, Write, Search, Ended

(***************************************************************************)
(* Type correctness.                                                       *)
(***************************************************************************)
THEOREM TypeCorrect == Spec => []TypeOK
<1>1. TypeInv => TypeOK
  BY DEF TypeInv
<1>2. QED
  BY TypeInit, TypeStep, <1>1, PTL DEF Spec

-----------------------------------------------------------------------------
(***************************************************************************)
(* Freshness.                                                              *)
(***************************************************************************)

\* What a step may do to the changes: marks are given once, above the epoch.
Grows ==
  /\ db \subseteq db' /\ epoch <= epoch'
  /\ \A w \in Writers :
       /\ mark'[w] = mark[w] \/ (mark[w] = 0 /\ mark'[w] > epoch)
       /\ wpc[w] = "done" => wpc'[w] = "done"

LEMMA WriterStep ==
  ASSUME TypeInv, WriterInv, [Next]_vars
  PROVE  WriterInv' /\ Grows
<1>0. /\ epoch \in Nat /\ mark \in [Writers -> Nat] /\ wpc \in [Writers -> WriterPoints]
      /\ db \in SUBSET Writers
  BY DEF TypeInv, TypeOK
<1>1. ASSUME NEW w \in Writers, StartWrite(w) PROVE WriterInv' /\ Grows
  BY <1>0, <1>1 DEF WriterInv, Committed, Grows, StartWrite, cacheVars
<1>2. ASSUME NEW w \in Writers, LockWrite(w) PROVE WriterInv' /\ Grows
  BY <1>0, <1>2 DEF WriterInv, Committed, Grows, LockWrite, cacheVars
<1>3. ASSUME NEW w \in Writers, Commit(w) PROVE WriterInv' /\ Grows
  BY <1>0, <1>3 DEF WriterInv, Committed, Grows, Commit, cacheVars
<1>4. ASSUME NEW w \in Writers, Abandon(w) PROVE WriterInv' /\ Grows
  BY <1>0, <1>4 DEF WriterInv, Committed, Grows, Abandon, cacheVars
<1>5. ASSUME NEW w \in Writers, LeaveWrite(w) PROVE WriterInv' /\ Grows
  BY <1>0, <1>5 DEF WriterInv, Committed, Grows, LeaveWrite, cacheVars
<1>6. ASSUME NEW w \in Writers, Bump(w) PROVE WriterInv' /\ Grows
  BY <1>0, <1>6 DEF WriterInv, Committed, Grows, Bump, cacheVars
<1>7. ASSUME NEW w \in Writers, CloseConnection(w) PROVE WriterInv' /\ Grows
  BY <1>0, <1>7 DEF WriterInv, Committed, Grows, CloseConnection, cacheVars
<1>8. CASE RescanDone
  BY <1>0, <1>8 DEF WriterInv, Committed, Grows, RescanDone, writerVars
<1>9. ASSUME UNCHANGED writerVars, UNCHANGED epoch PROVE WriterInv' /\ Grows
  BY <1>0, <1>9 DEF WriterInv, Committed, Grows, writerVars
<1>10. ASSUME NEW s \in Searches, Call(s) \/ Search(s) PROVE UNCHANGED writerVars /\ UNCHANGED epoch
  BY <1>10 DEF Search, Call, Borrow, ReadStatus, ReadEpoch, Hit, Miss, SearchNames, SearchTexts,
       SearchFails, Store, cacheVars
<1>11. CASE UNCHANGED vars
  BY <1>9, <1>11 DEF vars, cacheVars
<1>12. QED
  BY <1>1, <1>2, <1>3, <1>4, <1>5, <1>6, <1>7, <1>8, <1>9, <1>10, <1>11
     DEF Next, Write, Ended

\* Being covered by an epoch that is not to come does not change.
LEMMA CoveredSame ==
  ASSUME TypeInv, TypeInv', Grows, NEW w \in Writers, NEW e \in Nat, e <= epoch
  PROVE  0 < mark'[w] /\ mark'[w] <= e <=> Covered(w, e)
<1>1. epoch \in Nat /\ mark[w] \in Nat /\ mark'[w] \in Nat
  BY DEF TypeInv, TypeOK
<1>2. QED
  BY <1>1 DEF Grows, Covered

LEMMA SearchStep ==
  ASSUME TypeInv, TypeInv', WriterInv, SearchInv, EntryInv, Grows, [Next]_vars
  PROVE  SearchInv'
<1> SUFFICES ASSUME NEW t \in Searches PROVE SearchOK(t)'
  BY DEF SearchInv
<1>0. /\ epoch \in Nat /\ epoch' \in Nat /\ seenEpoch[t] \in Nat /\ since[t] \subseteq Writers
      /\ spc \in [Searches -> SearchPoints] /\ since \in [Searches -> SUBSET Writers]
      /\ shows \in [Searches -> SUBSET Writers] /\ seenEpoch \in [Searches -> Nat]
      /\ mark \in [Writers -> Nat]
  BY DEF TypeInv, TypeOK
<1>1. SearchOK(t)
  BY DEF SearchInv
<1>2. seenEpoch[t] <= epoch'
  BY <1>0, <1>1 DEF SearchOK, Grows
<1>3. \A w \in Writers : 0 < mark'[w] /\ mark'[w] <= seenEpoch[t] <=> Covered(w, seenEpoch[t])
  BY <1>0, <1>1, CoveredSame DEF SearchOK
<1>4. \A w \in since[t] : wpc'[w] = "done"
  BY <1>0, <1>1 DEF SearchOK, Grows
<1>5. ASSUME UNCHANGED <<spc[t], since[t], seenEpoch[t], shows[t]>>
      PROVE  SearchOK(t)'
  <2>1. spc[t] \in AfterEpoch => \A w \in since[t] : 0 < mark'[w] /\ mark'[w] <= seenEpoch[t]
    BY <1>0, <1>1, <1>3 DEF SearchOK
  <2>2. spc[t] \in {"texts", "store"} =>
          \A w \in Writers : 0 < mark'[w] /\ mark'[w] <= seenEpoch[t] => w \in shows[t]
    BY <1>1, <1>3 DEF SearchOK
  <2>3. spc[t] = "answered" => since[t] \subseteq shows[t]
    BY <1>1 DEF SearchOK
  <2>4. QED
    BY <1>2, <1>4, <1>5, <2>1, <2>2, <2>3 DEF SearchOK, AfterEpoch, Covered
<1>6. ASSUME UNCHANGED searchVars PROVE SearchOK(t)'
  BY <1>5, <1>6 DEF searchVars
\* The steps of the searches leave the writers alone.
<1>7. ASSUME NEW s \in Searches, Call(s) \/ Search(s), s # t PROVE SearchOK(t)'
  BY <1>0, <1>5, <1>7 DEF Search, Call, Borrow, ReadStatus, ReadEpoch, Hit, Miss, SearchNames,
                          SearchTexts, SearchFails, Store
<1>8. ASSUME Call(t) \/ Search(t) PROVE UNCHANGED <<epoch, db, mark, wpc>>
  BY <1>8 DEF Search, Call, Borrow, ReadStatus, ReadEpoch, Hit, Miss, SearchNames,
              SearchTexts, SearchFails, Store, writerVars, cacheVars
<1>9. CASE Call(t)
  <2>1. \A w \in since'[t] : wpc[w] = "done"
    BY <1>0, <1>9 DEF Call
  <2>2. spc'[t] = "waiting" /\ seenEpoch' = seenEpoch
    BY <1>0, <1>9 DEF Call
  <2>3. QED
    BY <1>2, <1>8, <1>9, <2>1, <2>2 DEF SearchOK, AfterEpoch
<1>10. CASE Borrow(t) \/ ReadStatus(t) \/ SearchFails(t)
  <2>1. /\ spc'[t] \in {"borrowed", "status", "failed"}
        /\ UNCHANGED <<since, seenEpoch, shows>>
    BY <1>0, <1>10 DEF Borrow, ReadStatus, SearchFails
  <2>2. QED
    BY <1>2, <1>4, <2>1 DEF SearchOK, AfterEpoch
<1>11. CASE ReadEpoch(t)
  <2>1. spc'[t] = "keyed" /\ seenEpoch'[t] = epoch /\ since' = since
    BY <1>0, <1>11 DEF ReadEpoch
  <2>2. \A w \in since[t] : 0 < mark[w] /\ mark[w] <= epoch
    BY <1>0, <1>1 DEF SearchOK, WriterInv
  <2>3. QED
    BY <1>0, <1>4, <1>8, <1>11, <2>1, <2>2 DEF SearchOK, Search, Covered
<1>12. CASE Hit(t)
  <2>1. PICK e \in entries : e.key = Key(t) /\ shows' = [shows EXCEPT ![t] = e.shows]
    BY <1>12 DEF Hit
  <2>2. spc[t] = "keyed" /\ spc'[t] = "answered" /\ UNCHANGED <<since, seenEpoch>>
    BY <1>0, <1>12 DEF Hit
  <2>3. e.key.epoch = seenEpoch[t]
    BY <2>1 DEF Key
  <2>4. since[t] \subseteq e.shows
    BY <1>0, <1>1, <2>2, <2>3 DEF SearchOK, AfterEpoch, EntryInv, EntryOK
  <2>5. QED
    BY <1>0, <1>2, <1>4, <2>1, <2>2, <2>4 DEF SearchOK, AfterEpoch
<1>13. CASE Miss(t)
  <2>1. spc[t] = "keyed" /\ spc'[t] = "names" /\ UNCHANGED <<since, seenEpoch>>
    BY <1>0, <1>13 DEF Miss
  <2>2. QED
    BY <1>1, <1>2, <1>4, <1>8, <1>13, <2>1 DEF SearchOK, Search, AfterEpoch, Covered
<1>14. CASE SearchNames(t)
  <2>1. /\ spc[t] = "names" /\ spc'[t] = "texts" /\ shows'[t] = db
        /\ UNCHANGED <<since, seenEpoch>>
    BY <1>0, <1>14 DEF SearchNames
  <2>2. \A w \in Writers : mark[w] > 0 => w \in db
    BY <1>0 DEF WriterInv, Committed
  <2>3. QED
    BY <1>0, <1>1, <1>2, <1>4, <1>8, <1>14, <2>1, <2>2 DEF SearchOK, Search, AfterEpoch, Covered
<1>15. CASE SearchTexts(t)
  <2>1. /\ spc[t] = "texts" /\ spc'[t] = "store" /\ UNCHANGED <<since, seenEpoch>>
        /\ shows'[t] = shows[t] \cap db \/ shows'[t] = shows[t]
    BY <1>0, <1>15 DEF SearchTexts
  <2>2. \A w \in Writers : mark[w] > 0 => w \in db
    BY <1>0 DEF WriterInv, Committed
  <2>3. QED
    BY <1>0, <1>1, <1>2, <1>4, <1>8, <1>15, <2>1, <2>2 DEF SearchOK, Search, AfterEpoch, Covered
<1>16. CASE Store(t)
  <2>1. spc[t] = "store" /\ spc'[t] = "answered" /\ UNCHANGED <<since, seenEpoch, shows>>
    BY <1>0, <1>16 DEF Store
  <2>2. since[t] \subseteq shows[t]
    BY <1>0, <1>1, <2>1 DEF SearchOK, AfterEpoch
  <2>3. QED
    BY <1>2, <1>4, <2>1, <2>2 DEF SearchOK, AfterEpoch
<1>17. CASE RescanDone \/ UNCHANGED vars
  BY <1>6, <1>17 DEF RescanDone, vars
<1>18. ASSUME NEW w \in Writers, StartWrite(w) \/ Write(w) PROVE SearchOK(t)'
  BY <1>6, <1>18 DEF Write, StartWrite, LockWrite, Commit, Abandon, LeaveWrite, Bump,
                     CloseConnection
<1>19. ASSUME Search(t) PROVE SearchOK(t)'
  BY <1>10, <1>11, <1>12, <1>13, <1>14, <1>15, <1>16, <1>19 DEF Search
<1>20. QED
  BY <1>7, <1>9, <1>17, <1>18, <1>19 DEF Next, Ended

LEMMA EntryStep ==
  ASSUME TypeInv, TypeInv', SearchInv, EntryInv, Grows, [Next]_vars
  PROVE  EntryInv'
<1>0. epoch \in Nat /\ epoch' \in Nat /\ entries \in SUBSET Entries
  BY DEF TypeInv, TypeOK
<1>1. ASSUME NEW e \in entries PROVE EntryOK(e)'
  <2>1. e.key.epoch \in Nat /\ e.key.epoch <= epoch
    BY <1>0 DEF Entries, Keys, EntryInv, EntryOK
  <2>2. e.key.epoch <= epoch'
    BY <1>0, <2>1 DEF Grows
  <2>3. \A w \in Writers : 0 < mark'[w] /\ mark'[w] <= e.key.epoch => w \in e.shows
    BY <2>1, CoveredSame DEF EntryInv, EntryOK
  <2>4. QED
    BY <2>2, <2>3 DEF EntryOK, Covered
<1>2. CASE entries' \subseteq entries
  BY <1>1, <1>2 DEF EntryInv
<1>3. ASSUME NEW s \in Searches, Store(s) PROVE EntryInv'
  <2>1. spc[s] = "store" /\ SearchOK(s)
    BY <1>3 DEF Store, SearchInv
  <2>2. seenEpoch[s] \in Nat /\ seenEpoch[s] <= epoch
    BY <2>1 DEF TypeInv, TypeOK, SearchOK
  <2>3. UNCHANGED <<epoch, mark>>
    BY <1>3 DEF Store, writerVars
  <2>4. Answer(s).key.epoch = seenEpoch[s] /\ Answer(s).shows = shows[s]
    BY DEF Answer, Key
  <2>5. \A w \in Writers : Covered(w, seenEpoch[s]) => w \in shows[s]
    BY <2>1 DEF SearchOK
  <2>6. ASSUME NEW e \in entries', e = Answer(s) PROVE EntryOK(e)'
    <3>1. e.key.epoch <= epoch'
      BY <2>2, <2>3, <2>4, <2>6
    <3>2. \A w \in Writers : 0 < mark'[w] /\ mark'[w] <= e.key.epoch => w \in e.shows
      BY <2>3, <2>4, <2>5, <2>6 DEF Covered
    <3>3. QED
      BY <3>1, <3>2 DEF EntryOK, Covered
  <2>7. QED
    BY <1>1, <1>3, <2>6, StoreEntries DEF EntryInv
<1>4. ASSUME NEW w \in Writers, StartWrite(w) \/ Write(w) PROVE entries' \subseteq entries
  BY <1>4 DEF StartWrite, Write, LockWrite, Commit, Abandon, LeaveWrite, Bump, CloseConnection,
              cacheVars
<1>5. ASSUME NEW s \in Searches, Call(s) \/ Search(s), ~Store(s) PROVE entries' \subseteq entries
  BY <1>5 DEF Call, Search, Borrow, ReadStatus, ReadEpoch, Hit, Miss, SearchNames, SearchTexts,
              SearchFails, cacheVars
<1>6. CASE RescanDone \/ UNCHANGED vars
  BY <1>2, <1>6 DEF RescanDone, vars, cacheVars
<1>7. QED
  BY <1>2, <1>3, <1>4, <1>5, <1>6 DEF Next, Ended

LEMMA FreshInit == Init => FreshInv
<1> SUFFICES ASSUME Init PROVE FreshInv
  OBVIOUS
<1>1. WriterInv
  BY DEF Init, WriterInv, Committed
<1>2. SearchInv
  BY DEF Init, SearchInv, SearchOK, AfterEpoch
<1>3. EntryInv
  BY DEF Init, EntryInv
<1>4. QED
  BY <1>1, <1>2, <1>3 DEF FreshInv

LEMMA FreshStep == TypeInv /\ TypeInv' /\ FreshInv /\ [Next]_vars => FreshInv'
BY WriterStep, SearchStep, EntryStep DEF FreshInv

LEMMA Freshness == Spec => [](TypeInv /\ FreshInv)
<1>1. Spec => []TypeInv
  BY TypeInit, TypeStep, PTL DEF Spec
<1>2. QED
  BY <1>1, FreshInit, FreshStep, PTL DEF Spec

(***************************************************************************)
(* An answer shows every change whose call had returned before the search  *)
(* was called: the cache is never stale for the one who made the change.   *)
(***************************************************************************)
THEOREM AnswersAreFresh == Spec => []FreshAnswers
<1>1. FreshInv => FreshAnswers
  BY DEF FreshInv, SearchInv, SearchOK, FreshAnswers
<1>2. QED
  BY <1>1, Freshness, PTL

(***************************************************************************)
(* Between two writes, an entry that can still be hit shows the whole      *)
(* database.                                                               *)
(***************************************************************************)
THEOREM CurrentEntriesAreExact == Spec => []CacheIsExact
<1>1. TypeInv /\ FreshInv => CacheIsExact
  <2> SUFFICES ASSUME TypeInv, FreshInv,
                      \A w \in Writers : wpc[w] \in {"idle", "waiting", "bumped", "done", "failed"},
                      NEW e \in entries, e.key.epoch = epoch, NEW w \in db
               PROVE  w \in e.shows
    BY DEF CacheIsExact
  <2>1. w \in Writers /\ mark[w] \in Nat /\ epoch \in Nat
    BY DEF TypeInv, TypeOK
  <2>2. wpc[w] \in {"bumped", "done"}
    BY <2>1 DEF FreshInv, WriterInv, Committed
  <2>3. 0 < mark[w] /\ mark[w] <= epoch
    BY <2>1, <2>2 DEF FreshInv, WriterInv
  <2>4. QED
    BY <2>1, <2>3 DEF FreshInv, EntryInv, EntryOK, Covered
<1>2. QED
  BY <1>1, Freshness, PTL

-----------------------------------------------------------------------------
(***************************************************************************)
(* The cache never passes on the answer of another state of the index: the *)
(* status is part of the key.                                              *)
(***************************************************************************)
LEMMA MatchStep == TypeInv /\ MatchInv /\ [Next]_vars => MatchInv'
<1> SUFFICES ASSUME TypeInv, MatchInv, [Next]_vars PROVE MatchInv'
  OBVIOUS
<1>0. /\ spc \in [Searches -> SearchPoints] /\ seenIndex \in [Searches -> Statuses]
      /\ texts \in [Searches -> {"unread", "searched", "left out"}]
  BY DEF TypeInv, TypeOK
<1>1. ASSUME entries' \subseteq entries, UNCHANGED <<spc, texts, seenIndex>> PROVE MatchInv'
  BY <1>1 DEF MatchInv, MatchOK, Ready
<1>2. ASSUME NEW s \in Searches, entries' \subseteq entries, spc'[s] \notin {"store", "answered"},
             \A t \in Searches \ {s} : UNCHANGED <<spc[t], texts[t], seenIndex[t]>>
      PROVE  MatchInv'
  BY <1>2 DEF MatchInv, MatchOK, Ready
<1>3. ASSUME NEW s \in Searches,
             Call(s) \/ Borrow(s) \/ ReadStatus(s) \/ ReadEpoch(s) \/ Miss(s) \/ SearchNames(s)
             \/ SearchFails(s)
      PROVE  MatchInv'
  BY <1>0, <1>2, <1>3 DEF Call, Borrow, ReadStatus, ReadEpoch, Miss, SearchNames, SearchFails,
                          cacheVars
<1>4. ASSUME NEW s \in Searches, Hit(s) PROVE MatchInv'
  <2>1. PICK e \in entries : e.key = Key(s) /\ texts' = [texts EXCEPT ![s] = e.texts]
    BY <1>4 DEF Hit
  <2>2. UNCHANGED <<entries, seenIndex>> /\ spc' = [spc EXCEPT ![s] = "answered"]
    BY <1>4 DEF Hit, cacheVars
  <2>3. e.texts = "searched" <=> Ready(seenIndex[s])
    BY <2>1 DEF MatchInv, Key
  <2>4. QED
    BY <1>0, <2>1, <2>2, <2>3 DEF MatchInv, MatchOK, Ready
<1>5. ASSUME NEW s \in Searches, SearchTexts(s) PROVE MatchInv'
  <2>1. /\ UNCHANGED <<entries, seenIndex>> /\ spc' = [spc EXCEPT ![s] = "store"]
        /\ texts' = [texts EXCEPT ![s] = IF Ready(seenIndex[s]) THEN "searched" ELSE "left out"]
    BY <1>5 DEF SearchTexts, cacheVars
  <2>2. QED
    BY <1>0, <2>1 DEF MatchInv, MatchOK, Ready
<1>6. ASSUME NEW s \in Searches, Store(s) PROVE MatchInv'
  <2>1. spc[s] = "store" /\ spc' = [spc EXCEPT ![s] = "answered"] /\ UNCHANGED <<seenIndex, texts>>
    BY <1>6 DEF Store
  <2>2. Answer(s).texts = "searched" <=> Ready(Answer(s).key.index)
    BY <2>1 DEF MatchInv, MatchOK, Answer, Key
  <2>3. \A e \in entries' : e.texts = "searched" <=> Ready(e.key.index)
    BY <1>6, <2>2, StoreEntries DEF MatchInv
  <2>4. QED
    BY <1>0, <2>1, <2>3 DEF MatchInv, MatchOK, Ready
<1>7. ASSUME NEW w \in Writers, StartWrite(w) \/ Write(w) PROVE MatchInv'
  BY <1>1, <1>7 DEF StartWrite, Write, LockWrite, Commit, Abandon, LeaveWrite, Bump,
                    CloseConnection, cacheVars, searchVars
<1>8. CASE RescanDone \/ UNCHANGED vars
  BY <1>1, <1>8 DEF RescanDone, vars, cacheVars, searchVars
<1>9. QED
  BY <1>3, <1>4, <1>5, <1>6, <1>7, <1>8 DEF Next, Search, Ended

THEOREM AnswersMatch == Spec => []AnswersMatchIndex
<1>1. Init => MatchInv
  BY DEF Init, MatchInv, MatchOK
<1>2. MatchInv => AnswersMatchIndex
  BY DEF MatchInv, MatchOK, AnswersMatchIndex
<1>3. Spec => []TypeInv
  BY TypeInit, TypeStep, PTL DEF Spec
<1>4. QED
  BY <1>1, <1>2, <1>3, MatchStep, PTL DEF Spec

(***************************************************************************)
(* The shared connection stays open for the one search that has borrowed   *)
(* it.                                                                     *)
(***************************************************************************)
THEOREM BorrowIsExclusive == Spec => []BorrowedStaysOpen
<1>1. Init => BorrowedStaysOpen
  BY DEF Init, BorrowedStaysOpen
<1>2. TypeInv /\ BorrowedStaysOpen /\ [Next]_vars => BorrowedStaysOpen'
  <2> SUFFICES ASSUME TypeInv, BorrowedStaysOpen, [Next]_vars PROVE BorrowedStaysOpen'
    OBVIOUS
  <2>0. spc \in [Searches -> SearchPoints] /\ None \notin Searches
    BY WritersAssumption DEF TypeInv, TypeOK
  <2>1. ASSUME NEW s \in Searches, Call(s) PROVE BorrowedStaysOpen'
    BY <2>0, <2>1 DEF BorrowedStaysOpen, Call, connVars
  <2>2. ASSUME NEW s \in Searches, Borrow(s) PROVE BorrowedStaysOpen'
    BY <2>0, <2>2 DEF BorrowedStaysOpen, Borrow
  <2>3. ASSUME NEW s \in Searches,
               ReadStatus(s) \/ ReadEpoch(s) \/ Miss(s) \/ SearchNames(s) \/ SearchTexts(s)
        PROVE  BorrowedStaysOpen'
    <3>1. \A t \in Searches : spc'[t] \in Using => spc[t] \in Using
      BY <2>0, <2>3 DEF ReadStatus, ReadEpoch, Miss, SearchNames, SearchTexts
    <3>2. UNCHANGED connVars
      BY <2>3 DEF ReadStatus, ReadEpoch, Miss, SearchNames, SearchTexts
    <3>3. QED
      BY <3>1, <3>2 DEF BorrowedStaysOpen, connVars
  <2>4. ASSUME NEW s \in Searches, Hit(s) \/ SearchFails(s) \/ Store(s) PROVE BorrowedStaysOpen'
    BY <2>0, <2>4 DEF BorrowedStaysOpen, Hit, SearchFails, Store
  <2>5. ASSUME NEW w \in Writers, CloseConnection(w) PROVE BorrowedStaysOpen'
    BY <2>0, <2>5 DEF BorrowedStaysOpen, CloseConnection, searchVars
  <2>6. ASSUME NEW w \in Writers,
               StartWrite(w) \/ LockWrite(w) \/ Commit(w) \/ Abandon(w) \/ LeaveWrite(w) \/ Bump(w)
        PROVE  BorrowedStaysOpen'
    BY <2>6 DEF BorrowedStaysOpen, StartWrite, LockWrite, Commit, Abandon, LeaveWrite, Bump,
                connVars, searchVars
  <2>7. CASE RescanDone \/ UNCHANGED vars
    BY <2>7 DEF BorrowedStaysOpen, RescanDone, vars, connVars, searchVars
  <2>8. QED
    BY <2>1, <2>2, <2>3, <2>4, <2>5, <2>6, <2>7 DEF Next, Write, Search, Ended
<1>3. Spec => []TypeInv
  BY TypeInit, TypeStep, PTL DEF Spec
<1>4. QED
  BY <1>1, <1>2, <1>3, PTL DEF Spec

-----------------------------------------------------------------------------
(***************************************************************************)
(* The cache keeps to its limit.                                           *)
(***************************************************************************)
LEMMA SizeStep == SizeInv /\ [Next]_vars => SizeInv'
<1> SUFFICES ASSUME SizeInv, [Next]_vars PROVE SizeInv'
  OBVIOUS
<1>0. /\ IsFiniteSet(entries) /\ MaxEntries \in Nat
      /\ Cardinality(entries) \in Nat /\ Cardinality(entries) <= MaxEntries
  BY LimitsAssumption, FS_CardinalityType DEF SizeInv, CacheBounded
<1>1. ASSUME entries' \subseteq entries PROVE SizeInv'
  <2>1. IsFiniteSet(entries') /\ Cardinality(entries') <= Cardinality(entries)
    BY <1>0, <1>1, FS_Subset
  <2>2. Cardinality(entries') \in Nat
    BY <2>1, FS_CardinalityType
  <2>3. Cardinality(entries') <= MaxEntries
    BY <1>0, <2>1, <2>2
  <2>4. \A d, e \in entries' : d.key = e.key => d = e
    BY <1>1 DEF SizeInv, CacheBounded
  <2>5. QED
    BY <2>1, <2>3, <2>4 DEF SizeInv, CacheBounded
<1>2. ASSUME NEW s \in Searches, NEW kept \in SUBSET Others(s), Cardinality(kept) < MaxEntries,
             entries' = kept \cup {Answer(s)}
      PROVE  SizeInv'
  <2>1. kept \subseteq entries /\ \A e \in kept : e.key # Answer(s).key
    BY DEF Others, Answer
  <2>2. IsFiniteSet(kept) /\ Cardinality(kept) \in Nat /\ Answer(s) \notin kept
    BY <1>0, <2>1, FS_Subset, FS_CardinalityType
  <2>3. IsFiniteSet(entries') /\ Cardinality(entries') = Cardinality(kept) + 1
    BY <1>2, <2>2, FS_AddElement
  <2>4. Cardinality(entries') <= MaxEntries
    BY <1>0, <1>2, <2>2, <2>3
  <2>5. \A d, e \in entries' : d.key = e.key => d = e
    BY <1>2, <2>1 DEF SizeInv, CacheBounded
  <2>6. QED
    BY <2>3, <2>4, <2>5 DEF SizeInv, CacheBounded
<1>3. ASSUME NEW s \in Searches, Store(s) PROVE SizeInv'
  <2>1. CASE entries' = entries
    BY <1>1, <2>1
  <2>2. CASE Cardinality(Others(s)) < MaxEntries /\ entries' = Others(s) \cup {Answer(s)}
    BY <1>2, <2>2
  <2>3. ASSUME NEW oldest \in Others(s), MaxEntries > 0,
               entries' = (Others(s) \ {oldest}) \cup {Answer(s)}
        PROVE  SizeInv'
    <3>1. Others(s) \subseteq entries /\ oldest \in entries
      BY DEF Others
    <3>2. /\ Others(s) \ {oldest} \subseteq entries \ {oldest}
          /\ IsFiniteSet(entries \ {oldest})
          /\ Cardinality(entries \ {oldest}) = Cardinality(entries) - 1
      BY <1>0, <3>1, FS_RemoveElement
    <3>3. Cardinality(Others(s) \ {oldest}) <= Cardinality(entries \ {oldest})
      BY <3>2, FS_Subset
    <3>4. Cardinality(Others(s) \ {oldest}) \in Nat
      BY <3>2, FS_Subset, FS_CardinalityType
    <3>5. Cardinality(Others(s) \ {oldest}) < MaxEntries
      BY <1>0, <3>2, <3>3, <3>4
    <3>6. QED
      BY <1>2, <2>3, <3>5
  <2>4. QED
    BY <1>3, <2>1, <2>2, <2>3 DEF Store
<1>4. ASSUME NEW w \in Writers, StartWrite(w) \/ Write(w) PROVE entries' \subseteq entries
  BY <1>4 DEF StartWrite, Write, LockWrite, Commit, Abandon, LeaveWrite, Bump, CloseConnection,
              cacheVars
<1>5. ASSUME NEW s \in Searches, Call(s) \/ Search(s), ~Store(s) PROVE entries' \subseteq entries
  BY <1>5 DEF Call, Search, Borrow, ReadStatus, ReadEpoch, Hit, Miss, SearchNames, SearchTexts,
              SearchFails, cacheVars
<1>6. CASE RescanDone \/ UNCHANGED vars
  BY <1>1, <1>6 DEF RescanDone, vars, cacheVars
<1>7. QED
  BY <1>1, <1>3, <1>4, <1>5, <1>6 DEF Next, Ended

THEOREM CacheIsBounded == Spec => []CacheBounded
<1>1. Init => SizeInv
  BY LimitsAssumption, FS_EmptySet DEF Init, SizeInv, CacheBounded
<1>2. SizeInv => CacheBounded
  BY DEF SizeInv
<1>3. QED
  BY <1>1, <1>2, SizeStep, PTL DEF Spec

-----------------------------------------------------------------------------

\* What the entries promise, together.
THEOREM CacheSound == Spec => []CacheIsSound
BY CurrentEntriesAreExact, AnswersMatch, CacheIsBounded, PTL DEF CacheIsSound

-----------------------------------------------------------------------------
(***************************************************************************)
(* What is left to do: every call moves on, and none waits for ever on one *)
(* that waits on it.                                                       *)
(***************************************************************************)
WriterRank == [idle |-> 7, waiting |-> 6, writing |-> 5, committed |-> 3, bumped |-> 2,
               done |-> 0, failed |-> 0]
SearchRank == [idle |-> 8, waiting |-> 7, borrowed |-> 6, status |-> 5, keyed |-> 4, names |-> 3,
               texts |-> 2, store |-> 1, answered |-> 0, failed |-> 0]

\* A committed writer may still have to leave the write lock.
WriterLeft(w) == IF wpc[w] = "committed" /\ writeLock = w THEN 4 ELSE WriterRank[wpc[w]]
SearchLeft(s) == SearchRank[spc[s]]

\* No step gives a call more to do, and each step of a call leaves that call less.
CallsWindDown ==
  /\ \A w \in Writers :
       /\ WriterLeft(w)' <= WriterLeft(w)
       /\ StartWrite(w) \/ Write(w) => WriterLeft(w)' < WriterLeft(w)
  /\ \A s \in Searches :
       /\ SearchLeft(s)' <= SearchLeft(s)
       /\ Call(s) \/ Search(s) => SearchLeft(s)' < SearchLeft(s)

LEMMA CallsLeft ==
  ASSUME TypeOK
  PROVE  /\ \A w \in Writers : WriterLeft(w) \in 0..7
         /\ \A s \in Searches : SearchLeft(s) \in 0..8
<1>1. ASSUME NEW w \in Writers PROVE WriterLeft(w) \in 0..7
  <2>1. wpc[w] \in WriterPoints
    BY DEF TypeOK
  <2> QED BY <2>1 DEF WriterLeft, WriterRank
<1>2. ASSUME NEW s \in Searches PROVE SearchLeft(s) \in 0..8
  <2>1. spc[s] \in SearchPoints
    BY DEF TypeOK
  <2> QED BY <2>1 DEF SearchLeft, SearchRank
<1> QED BY <1>1, <1>2

\* Where a step of a writer takes it.
LEMMA WriterMoves ==
  ASSUME TypeOK, NEW w \in Writers, StartWrite(w) \/ Write(w)
  PROVE  WriterLeft(w)' < WriterLeft(w) /\ WriterLeft(w)' <= WriterLeft(w)
<1>0. wpc \in [Writers -> WriterPoints] /\ None \notin Writers
  BY WritersAssumption DEF TypeOK
<1>1. CASE LeaveWrite(w)
  <2>1. wpc[w] = "committed" /\ writeLock = w /\ writeLock' # w /\ wpc' = wpc
    BY <1>0, <1>1 DEF LeaveWrite
  <2> QED BY <2>1 DEF WriterLeft, WriterRank
<1>2. CASE ~LeaveWrite(w)
  <2>1. \/ wpc[w] = "idle" /\ wpc'[w] = "waiting"
        \/ wpc[w] = "waiting" /\ wpc'[w] \in {"failed", "writing"}
        \/ wpc[w] = "writing" /\ wpc'[w] \in {"committed", "failed"}
        \/ wpc[w] = "committed" /\ wpc'[w] = "bumped"
        \/ wpc[w] = "bumped" /\ wpc'[w] = "done"
    BY <1>0, <1>2 DEF Write, StartWrite, LockWrite, Commit, Abandon, Bump, CloseConnection
  <2> QED BY <2>1 DEF WriterLeft, WriterRank
<1> QED BY <1>1, <1>2

\* The step of another leaves it where it is, and does not give it the write lock.
LEMMA WriterRests ==
  ASSUME TypeOK, [Next]_vars, NEW w \in Writers, ~(StartWrite(w) \/ Write(w))
  PROVE  wpc'[w] = wpc[w] /\ (writeLock' = w => writeLock = w)
<1>0. wpc \in [Writers -> WriterPoints] /\ None \notin Writers
  BY WritersAssumption DEF TypeOK
<1>1. ASSUME NEW v \in Writers \ {w}, StartWrite(v) \/ Write(v)
      PROVE  wpc'[w] = wpc[w] /\ (writeLock' = w => writeLock = w)
  BY <1>0, <1>1 DEF Write, StartWrite, LockWrite, Commit, Abandon, LeaveWrite, Bump,
                    CloseConnection
<1>2. CASE UNCHANGED writerVars
  BY <1>2 DEF writerVars
<1>3. ASSUME NEW s \in Searches, Call(s) \/ Search(s) PROVE UNCHANGED writerVars
  BY <1>3 DEF Search, Call, Borrow, ReadStatus, ReadEpoch, Hit, Miss, SearchNames, SearchTexts,
              SearchFails, Store
<1>4. CASE RescanDone \/ UNCHANGED vars
  BY <1>2, <1>4 DEF RescanDone, vars
<1> QED BY <1>1, <1>2, <1>3, <1>4 DEF Next, Ended

LEMMA SearchMoves ==
  ASSUME TypeOK, NEW s \in Searches, Call(s) \/ Search(s)
  PROVE  SearchLeft(s)' < SearchLeft(s) /\ SearchLeft(s)' <= SearchLeft(s)
<1>0. spc \in [Searches -> SearchPoints]
  BY DEF TypeOK
<1>1. CASE Call(s) \/ Borrow(s) \/ ReadStatus(s) \/ ReadEpoch(s) \/ Miss(s) \/ SearchNames(s)
           \/ SearchTexts(s)
  <2>1. \/ spc[s] = "idle" /\ spc'[s] = "waiting"
        \/ spc[s] = "waiting" /\ spc'[s] = "borrowed"
        \/ spc[s] = "borrowed" /\ spc'[s] = "status"
        \/ spc[s] = "status" /\ spc'[s] = "keyed"
        \/ spc[s] = "keyed" /\ spc'[s] = "names"
        \/ spc[s] = "names" /\ spc'[s] = "texts"
        \/ spc[s] = "texts" /\ spc'[s] = "store"
    BY <1>0, <1>1 DEF Call, Borrow, ReadStatus, ReadEpoch, Miss, SearchNames, SearchTexts
  <2> QED BY <2>1 DEF SearchLeft, SearchRank
<1>2. CASE Hit(s) \/ SearchFails(s) \/ Store(s)
  <2>1. /\ spc[s] \in {"waiting", "borrowed", "keyed", "names", "texts", "store"}
        /\ spc'[s] \in {"answered", "failed"}
    BY <1>0, <1>2 DEF Hit, SearchFails, Store
  <2> QED BY <2>1 DEF SearchLeft, SearchRank
<1> QED BY <1>1, <1>2 DEF Search

LEMMA SearchRests ==
  ASSUME TypeOK, [Next]_vars, NEW s \in Searches, ~(Call(s) \/ Search(s))
  PROVE  spc'[s] = spc[s]
<1>0. spc \in [Searches -> SearchPoints]
  BY DEF TypeOK
<1>1. ASSUME NEW t \in Searches \ {s}, Call(t) \/ Search(t) PROVE spc'[s] = spc[s]
  BY <1>0, <1>1 DEF Search, Call, Borrow, ReadStatus, ReadEpoch, Hit, Miss, SearchNames,
                    SearchTexts, SearchFails, Store
<1>2. ASSUME NEW w \in Writers, StartWrite(w) \/ Write(w) PROVE spc' = spc
  BY <1>2 DEF Write, StartWrite, LockWrite, Commit, Abandon, LeaveWrite, Bump, CloseConnection,
              searchVars
<1>3. CASE RescanDone \/ UNCHANGED vars
  BY <1>3 DEF RescanDone, vars, searchVars
<1> QED BY <1>1, <1>2, <1>3 DEF Next, Ended

\* Searches and writers wind down, however they interleave: no step of one call sends another
\* back, so each writer takes at most 7 steps and each search at most 8, and what they can do
\* to one another is to wait.
THEOREM EveryCallWindsDown == Spec => [][CallsWindDown]_vars
<1>1. TypeInv /\ [Next]_vars => [CallsWindDown]_vars
  <2> SUFFICES ASSUME TypeOK, [Next]_vars PROVE CallsWindDown
    BY DEF TypeInv
  <2>1. ASSUME NEW w \in Writers, ~(StartWrite(w) \/ Write(w))
        PROVE  WriterLeft(w)' <= WriterLeft(w)
    <3>1. wpc'[w] = wpc[w] /\ (writeLock' = w => writeLock = w) /\ wpc[w] \in WriterPoints
      BY <2>1, WriterRests DEF TypeOK
    <3> QED BY <3>1 DEF WriterLeft, WriterRank
  <2>2. ASSUME NEW s \in Searches, ~(Call(s) \/ Search(s))
        PROVE  SearchLeft(s)' <= SearchLeft(s)
    <3>1. SearchLeft(s)' = SearchLeft(s)
      BY <2>2, SearchRests DEF SearchLeft
    <3> QED BY <3>1, CallsLeft
  <2> QED BY <2>1, <2>2, WriterMoves, SearchMoves DEF CallsWindDown
<1>2. Spec => []TypeInv
  BY TypeInit, TypeStep, PTL DEF Spec
<1> QED BY <1>1, <1>2, PTL DEF Spec

-----------------------------------------------------------------------------
(***************************************************************************)
(* Who holds the locks.                                                    *)
(***************************************************************************)
LockInv ==
  /\ \A w \in Writers : wpc[w] = "writing" => writeLock = w
  /\ writeLock # None => wpc[writeLock] \in {"writing", "committed", "bumped"}
  /\ readLock # None => readLock \in Searches /\ spc[readLock] \in Using

\* The store finds room: no cache, a free place, or another entry to drop.
HasRoom(s) ==
  \/ MaxEntries = 0 \/ Cardinality(Others(s)) < MaxEntries
  \/ MaxEntries > 0 /\ Cardinality(Others(s)) >= MaxEntries /\ Others(s) # {}

\* A search that holds the connection can go on without waiting for anybody.
Goes(s) == spc[s] \in Using /\ (spc[s] = "store" => HasRoom(s))

\* The lock order: who holds the connection waits for nobody, and who holds the write lock waits at
\* most for the connection.
LocksAreOrdered ==
  /\ \A s \in Searches : spc[s] \in Using => Goes(s)
  /\ readLock # None => readLock \in Searches /\ Goes(readLock)
  /\ writeLock # None =>
       writeLock \in Writers /\ wpc[writeLock] \in {"writing", "committed", "bumped"}

LEMMA LockInit == Init => LockInv
BY DEF Init, LockInv

LEMMA LockStep == TypeInv /\ LockInv /\ BorrowedStaysOpen /\ [Next]_vars => LockInv'
<1> SUFFICES ASSUME TypeInv, LockInv, BorrowedStaysOpen, [Next]_vars PROVE LockInv'
  OBVIOUS
<1>0. /\ wpc \in [Writers -> WriterPoints] /\ spc \in [Searches -> SearchPoints]
      /\ writeLock \in Writers \cup {None} /\ None \notin Writers \cup Searches
  BY WritersAssumption DEF TypeInv, TypeOK
<1>1. ASSUME NEW w \in Writers, StartWrite(w) \/ Commit(w) \/ LeaveWrite(w) \/ Bump(w)
      PROVE  LockInv'
  BY <1>0, <1>1 DEF LockInv, StartWrite, Commit, LeaveWrite, Bump, connVars, searchVars
<1>2. ASSUME NEW w \in Writers, LockWrite(w) \/ Abandon(w) \/ CloseConnection(w) PROVE LockInv'
  <2>1. UNCHANGED <<readLock, spc>>
    BY <1>2 DEF LockWrite, Abandon, CloseConnection, connVars, searchVars
  <2>2. (\A v \in Writers : wpc'[v] = "writing" => writeLock' = v)
        /\ (writeLock' # None => wpc'[writeLock'] \in {"writing", "committed", "bumped"})
    BY <1>0, <1>2 DEF LockInv, LockWrite, Abandon, CloseConnection
  <2> QED BY <2>1, <2>2 DEF LockInv
<1>3. ASSUME NEW s \in Searches, Call(s) \/ Search(s) PROVE LockInv'
  <2>1. UNCHANGED <<writeLock, wpc>>
    BY <1>3 DEF Search, Call, Borrow, ReadStatus, ReadEpoch, Hit, Miss, SearchNames, SearchTexts,
                SearchFails, Store, writerVars
  <2>2. readLock' # None => readLock' \in Searches /\ spc'[readLock'] \in Using
    <3>1. CASE Hit(s) \/ SearchFails(s) \/ Store(s)
      BY <3>1 DEF Hit, SearchFails, Store
    <3>2. CASE Borrow(s)
      BY <1>0, <3>2 DEF Borrow
    <3>3. CASE Call(s) \/ ReadStatus(s) \/ ReadEpoch(s) \/ Miss(s) \/ SearchNames(s)
               \/ SearchTexts(s)
      <4>1. readLock' = readLock
        BY <3>3 DEF Call, ReadStatus, ReadEpoch, Miss, SearchNames, SearchTexts, connVars
      <4>2. \A t \in Searches : spc[t] \in Using => spc'[t] \in Using
        BY <1>0, <3>3 DEF Call, ReadStatus, ReadEpoch, Miss, SearchNames, SearchTexts
      <4> QED BY <4>1, <4>2 DEF LockInv
    <3> QED BY <1>3, <3>1, <3>2, <3>3 DEF Search
  <2> QED BY <2>1, <2>2 DEF LockInv
<1>4. CASE RescanDone \/ UNCHANGED vars
  BY <1>4 DEF LockInv, RescanDone, vars, writerVars, connVars, searchVars
<1> QED BY <1>1, <1>2, <1>3, <1>4 DEF Next, Write, Ended

LEMMA RoomForAll ==
  ASSUME SizeInv, NEW s \in Searches
  PROVE  HasRoom(s)
<1>1. Others(s) \subseteq entries /\ IsFiniteSet(entries) /\ MaxEntries \in Nat
  BY LimitsAssumption DEF Others, SizeInv
<1>2. Cardinality(Others(s)) \in Nat
  BY <1>1, FS_Subset, FS_CardinalityType
<1>3. Others(s) = {} => Cardinality(Others(s)) = 0
  BY FS_EmptySet
<1> QED BY <1>1, <1>2, <1>3 DEF HasRoom

LEMMA SizeAlways == Spec => []SizeInv
<1>1. Init => SizeInv
  BY LimitsAssumption, FS_EmptySet DEF Init, SizeInv, CacheBounded
<1> QED BY <1>1, SizeStep, PTL DEF Spec

\* Searches and writers cannot block one another for good: the shared connection is held only
\* by a search whose next step waits for nothing (a full cache included: there is always an entry
\* to drop), and the write lock only by a writer that waits for the connection at most.
THEOREM LocksOrdered == Spec => []LocksAreOrdered
<1>1. TypeInv /\ LockInv /\ SizeInv => LocksAreOrdered
  <2> SUFFICES ASSUME TypeInv, LockInv, SizeInv PROVE LocksAreOrdered
    OBVIOUS
  <2>1. \A s \in Searches : spc[s] \in Using => Goes(s)
    BY RoomForAll DEF Goes
  <2>2. writeLock \in Writers \cup {None}
    BY DEF TypeInv, TypeOK
  <2> QED BY <2>1, <2>2 DEF LocksAreOrdered, LockInv
<1>2. Spec => []TypeInv
  BY TypeInit, TypeStep, PTL DEF Spec
<1> QED BY <1>1, <1>2, LockInit, LockStep, BorrowIsExclusive, SizeAlways, PTL DEF Spec

-----------------------------------------------------------------------------
(***************************************************************************)
(* The connection comes back.  The provers have no rule for ENABLED: what  *)
(* is assumed is that a search whose guard holds can take its step.        *)
(***************************************************************************)
Over(s) == spc[s] \in {"answered", "failed"}
AtMost(s, n) == spc[s] \in Using \cup {"answered", "failed"} /\ SearchLeft(s) <= n

LEMMA UsingMoves ==
  ASSUME TypeOK, TypeOK', [Next]_vars, NEW s \in Searches, NEW n \in 0..6, AtMost(s, n)
  PROVE  /\ AtMost(s, n)'
         /\ Search(s) /\ n > 0 => AtMost(s, n - 1)'
<1>0. SearchLeft(s) \in Nat /\ spc'[s] \in SearchPoints
  <2>1. SearchLeft(s) \in Nat
    BY CallsLeft
  <2> QED BY <2>1 DEF TypeOK
<1>1. spc'[s] \in SearchPoints => SearchLeft(s)' \in Nat
  BY DEF SearchLeft, SearchRank
<1>2. CASE Call(s) \/ Search(s)
  <2>1. SearchLeft(s)' < SearchLeft(s) /\ SearchLeft(s) <= n
    BY <1>2, SearchMoves DEF AtMost
  <2>2. PICK a \in Nat, b \in Nat : a = SearchLeft(s) /\ b = SearchLeft(s)'
    BY <1>0, <1>1
  <2>3. b < 6 /\ b <= n /\ b <= n - 1
    BY <2>1, <2>2
  <2>4. spc'[s] \in Using \cup {"answered", "failed"}
    BY <1>0, <2>2, <2>3 DEF SearchLeft, SearchRank
  <2> QED BY <2>2, <2>3, <2>4 DEF AtMost
<1>3. CASE ~(Call(s) \/ Search(s))
  <2>1. spc'[s] = spc[s]
    BY <1>3, SearchRests
  <2> QED BY <1>3, <2>1 DEF AtMost, SearchLeft
<1> QED BY <1>2, <1>3

LEMMA UsingRanks ==
  ASSUME TypeOK, NEW s \in Searches
  PROVE  /\ spc[s] \in Using => AtMost(s, 6)
         /\ AtMost(s, 0) => Over(s)
         /\ \A n \in 1..6 : AtMost(s, n) /\ ~AtMost(s, n - 1) => spc[s] \in Using
<1>1. spc[s] \in SearchPoints
  BY DEF TypeOK
<1>2. spc[s] \in Using => SearchLeft(s) \in 1..6
  BY DEF SearchLeft, SearchRank
<1>3. Over(s) => SearchLeft(s) = 0
  BY DEF Over, SearchLeft, SearchRank
<1>4. ASSUME NEW n \in 1..6, AtMost(s, n), ~AtMost(s, n - 1) PROVE spc[s] \in Using
  <2>1. Over(s) => AtMost(s, n - 1)
    BY <1>3 DEF AtMost, Over
  <2> QED BY <1>4, <2>1 DEF AtMost, Over
<1> QED BY <1>2, <1>3, <1>4 DEF AtMost, Over

\* A search that has borrowed the shared connection ends, and gives it back, by its own fair
\* steps alone: whatever the writers, the other searches and the rescans do, and whether or not
\* they ever move.
THEOREM ConnectionComesBack ==
  ASSUME NEW s \in Searches
  PROVE  Spec /\ WF_vars(Search(s)) /\ [](Goes(s) => ENABLED <<Search(s)>>_vars)
           => (readLock = s ~> Over(s) /\ readLock # s)
<1> DEFINE I == TypeInv /\ LockInv /\ SizeInv /\ BorrowedStaysOpen
<1>1. Spec => []I
  <2>1. Spec => []TypeInv
    BY TypeInit, TypeStep, PTL DEF Spec
  <2> QED BY <2>1, LockInit, LockStep, BorrowIsExclusive, SizeAlways, PTL DEF Spec
<1>2. I /\ I' /\ [Next]_vars =>
        /\ AtMost(s, 6) => AtMost(s, 6)'
        /\ AtMost(s, 5) => AtMost(s, 5)'
        /\ AtMost(s, 4) => AtMost(s, 4)'
        /\ AtMost(s, 3) => AtMost(s, 3)'
        /\ AtMost(s, 2) => AtMost(s, 2)'
        /\ AtMost(s, 1) => AtMost(s, 1)'
  BY UsingMoves DEF TypeInv
<1>3. I /\ I' /\ [Next]_vars =>
        /\ AtMost(s, 6) /\ <<Search(s)>>_vars => AtMost(s, 5)'
        /\ AtMost(s, 5) /\ <<Search(s)>>_vars => AtMost(s, 4)'
        /\ AtMost(s, 4) /\ <<Search(s)>>_vars => AtMost(s, 3)'
        /\ AtMost(s, 3) /\ <<Search(s)>>_vars => AtMost(s, 2)'
        /\ AtMost(s, 2) /\ <<Search(s)>>_vars => AtMost(s, 1)'
        /\ AtMost(s, 1) /\ <<Search(s)>>_vars => AtMost(s, 0)'
  BY UsingMoves DEF TypeInv
<1>4. I =>
        /\ AtMost(s, 6) /\ ~AtMost(s, 5) => Goes(s)
        /\ AtMost(s, 5) /\ ~AtMost(s, 4) => Goes(s)
        /\ AtMost(s, 4) /\ ~AtMost(s, 3) => Goes(s)
        /\ AtMost(s, 3) /\ ~AtMost(s, 2) => Goes(s)
        /\ AtMost(s, 2) /\ ~AtMost(s, 1) => Goes(s)
        /\ AtMost(s, 1) /\ ~AtMost(s, 0) => Goes(s)
  BY UsingRanks, RoomForAll DEF TypeInv, Goes
<1>5. I => (readLock = s => AtMost(s, 6)) /\ (AtMost(s, 0) => Over(s) /\ readLock # s)
  <2>1. I /\ Over(s) => readLock # s
    BY WritersAssumption DEF LockInv, Over
  <2>2. I /\ readLock = s => spc[s] \in Using
    BY WritersAssumption DEF LockInv
  <2> QED BY <2>1, <2>2, UsingRanks DEF TypeInv
<1> HIDE DEF I
<1> QED BY <1>1, <1>2, <1>3, <1>4, <1>5, PTL DEF Spec

=============================================================================

----------------------------- MODULE PagesProofs -----------------------------
(***************************************************************************)
(* What the pages promise, for every number of documents, groups, folders, *)
(* requests and versions.  Each page has an inductive invariant of its     *)
(* own, in a section of its own: what it promises, the types that this     *)
(* rests on, and what is true of the requests that are on their way.  Only *)
(* one page is open (OnePage), so the theorems put these together.         *)
(***************************************************************************)
EXTENDS Pages, FiniteSetTheorems, SequenceTheorems, WellFoundedInduction, TLAPS

\* The page that is open stays open, and only its own actions change its variables.
LEMMA OnePage ==
  ASSUME [Next]_vars
  PROVE  /\ screen' = screen
         /\ screen = "quick" => Quick!Next \/ UNCHANGED Quick!vars
         /\ screen = "search" => Search!Next \/ UNCHANGED Search!vars
         /\ screen = "landing" => Landing!Next \/ UNCHANGED Landing!vars
         /\ screen = "groups" => List!Next \/ UNCHANGED List!vars
         /\ screen = "history" => History!Next \/ UNCHANGED History!vars
         /\ screen = "tour" => Tour!Next \/ UNCHANGED Tour!vars
         /\ screen = "files" => Registered!Next \/ UNCHANGED Registered!vars
         /\ screen = "rescan" => Rescan!Next \/ UNCHANGED Rescan!vars
         /\ screen = "update" => Update!Next \/ UNCHANGED Update!vars
         /\ screen = "desktop" => Desktop!Next \/ UNCHANGED Desktop!vars
         /\ screen = "sources" => Sources!Next \/ UNCHANGED Sources!vars
         /\ screen = "reset" => Reset!Next \/ UNCHANGED Reset!vars
         /\ screen = "excel" => Excel!Next \/ UNCHANGED Excel!vars
         /\ screen = "manual" => Manual!Next \/ UNCHANGED Manual!vars
         /\ screen = "duplicates" => Duplicates!Next \/ UNCHANGED Duplicates!vars
         /\ screen = "snackbar" => Snacks!Next \/ UNCHANGED Snacks!vars
<1> USE DEF vars, Next, QuickStep, SearchStep, LandingStep, ListStep, HistoryStep, TourStep,
            RegisteredStep, RescanStep, UpdateStep, DesktopStep, SourcesStep, ResetStep,
            ExcelStep, ManualStep, DuplicatesStep, SnacksStep
<1>1. screen' = screen
  OBVIOUS
<1>2. screen = "quick" => Quick!Next \/ UNCHANGED Quick!vars
  BY DEF Quick!vars, Quick!winVars, Quick!timerVars, Quick!settingVars, Quick!pageVars
<1>3. screen = "search" => Search!Next \/ UNCHANGED Search!vars
  BY DEF Search!vars, Search!criteria, Search!list, Search!flags
<1>4. screen = "landing" => Landing!Next \/ UNCHANGED Landing!vars
  BY DEF Landing!vars, Landing!page, Landing!flags, Landing!folderVars
<1>5. screen = "groups" => List!Next \/ UNCHANGED List!vars
  BY DEF List!vars, List!answer, List!timers
<1>6. screen = "history" => History!Next \/ UNCHANGED History!vars
  BY DEF History!vars, History!busy
<1>7. screen = "tour" => Tour!Next \/ UNCHANGED Tour!vars
  BY DEF Tour!vars
<1>8. screen = "files" => Registered!Next \/ UNCHANGED Registered!vars
  BY DEF Registered!vars, Registered!list, Registered!dialogs, Registered!work
<1>9. screen = "update" => Update!Next \/ UNCHANGED Update!vars
  BY DEF Update!vars, Update!dialog
<1>10. screen = "desktop" => Desktop!Next \/ UNCHANGED Desktop!vars
  BY DEF Desktop!vars, Desktop!stored, Desktop!system, Desktop!page
<1>11. screen = "sources" => Sources!Next \/ UNCHANGED Sources!vars
  BY DEF Sources!vars, Sources!input, Sources!history
<1>12. screen = "manual" => Manual!Next \/ UNCHANGED Manual!vars
  BY DEF Manual!vars, Manual!list, Manual!group, Manual!choice
<1>13. screen = "duplicates" => Duplicates!Next \/ UNCHANGED Duplicates!vars
  BY DEF Duplicates!vars, Duplicates!rows
<1>14. screen = "rescan" => Rescan!Next \/ UNCHANGED Rescan!vars
  BY DEF Rescan!vars, Rescan!view, Rescan!history
<1>15. screen = "reset" => Reset!Next \/ UNCHANGED Reset!vars
  BY DEF Reset!vars, Reset!page, Reset!section
<1>16. screen = "snackbar" => Snacks!Next \/ UNCHANGED Snacks!vars
  BY DEF Snacks!vars
<1>17. screen = "excel" => Excel!Next \/ UNCHANGED Excel!vars
  BY DEF Excel!vars
<1> QED
  BY <1>2, <1>3, <1>4, <1>5, <1>6, <1>7, <1>8, <1>9, <1>10, <1>11, <1>12, <1>13, <1>14, <1>15,
     <1>16, <1>17

\* A set of numbers has a least one.
LEMMA HasLeast ==
  ASSUME NEW T \in SUBSET Nat, T # {}
  PROVE  \E x \in T : \A y \in T : x <= y
<1> DEFINE R == OpToRel(<, Nat)
<1>1. IsWellFoundedOn(R, Nat)
  BY NatLessThanWellFounded, Zenon
<1>2. \A x, y \in Nat : y < x => <<y, x>> \in R
  BY DEF OpToRel
<1> HIDE DEF R
<1>3. \E x \in T : \A y \in T : ~ (<<y, x>> \in R)
  <2>1. T \subseteq Nat
    OBVIOUS
  <2> QED
    BY <1>1, <2>1, WFMin
<1>4. PICK x \in T : \A y \in T : ~ (<<y, x>> \in R)
  BY <1>3
<1>5. ASSUME NEW y \in T PROVE x <= y
  <2>1. ~(y < x) /\ y \in Nat /\ x \in Nat
    BY <1>2, <1>4, Zenon
  <2> QED
    BY <2>1
<1> QED
  BY <1>5

-----------------------------------------------------------------------------
(* The list of groups. *)

ListInv == List!TypeOK /\ List!NoticeIsPolled /\ List!ListSpinner

\* The criteria of an answer, and what stands for no criteria, are told apart.
LEMMA ListCriteria ==
  /\ List!Default \in List!Criteria
  /\ List!Nothing \notin List!Criteria
  BY ListAssumption DEF List!Default, List!Criteria, List!Nothing

\* The list starts with the fetch of the first page.
LEMMA ListInit == List!Init => ListInv
<1> SUFFICES ASSUME List!Init PROVE ListInv
  OBVIOUS
<1>1. List!TypeOK
  BY ListAssumption, ListCriteria DEF List!Init, List!TypeOK
<1>2. 1 \in List!InFlight
  BY ListAssumption, ListCriteria DEF List!Init, List!InFlight
<1> QED
  BY <1>1, <1>2 DEF ListInv, List!NoticeIsPolled, List!ListSpinner, List!Init

\* What fetchGroups asks for is awaited.
LEMMA ListFetches ==
  ASSUME List!TypeOK, NEW c \in List!Criteria, List!Fetch(c)
  PROVE  /\ v6' \in [1..ListMaxFetches -> List!Criteria \cup {List!Nothing}]
         /\ v7' = TRUE
         /\ (List!InFlight)' # {}
  BY ListCriteria DEF List!Fetch, List!TypeOK, List!InFlight

\* Everything but the end of a fetch keeps a fetch under way, or leaves fetches and notices alone.
LEMMA ListKeeps ==
  ASSUME ListInv, List!Next \/ UNCHANGED List!vars
  PROVE  ListInv'
<1> USE DEF ListInv
<1>t. List!TypeOK
  OBVIOUS
<1>a. v1 \in List!Criteria /\ v4 \in ListQueries /\ 0 \in 0..ListLastPage
  BY ListAssumption DEF List!TypeOK
<1>c. /\ \A f \in ListFilters : [v1 EXCEPT !.filter = f, !.page = 0] \in List!Criteria
      /\ \A q \in ListQueries : [v1 EXCEPT !.query = q, !.page = 0] \in List!Criteria
      /\ \A p \in 0..ListLastPage : [v1 EXCEPT !.page = p] \in List!Criteria
      /\ [v1 EXCEPT !.page = 0] \in List!Criteria
      /\ v4 \in ListQueries
  BY <1>a, Zenon DEF List!Criteria
<1>f. ASSUME NEW c \in List!Criteria, List!Fetch(c),
             v1' = v1, v2' = v2, v9' = v9, v11' = v11, v4' \in ListQueries, v8' \in BOOLEAN,
             v10' \in BOOLEAN, {v3', v5'} \subseteq List!Criteria \cup {List!Nothing}
      PROVE  ListInv'
  BY <1>t, <1>f, ListFetches DEF List!TypeOK, List!NoticeIsPolled, List!ListSpinner
<1>1. ASSUME NEW f \in ListFilters, List!ChangeFilter(f) PROVE ListInv'
  BY <1>1, <1>f, <1>c, <1>t, Zenon DEF List!ChangeFilter, List!TypeOK, List!answer, List!timers
<1>2. ASSUME NEW q \in ListQueries, List!TypeDraft(q) PROVE ListInv'
  <2>1. List!TypeOK'
    BY <1>2, <1>c, <1>t, Zenon DEF List!TypeDraft, List!TypeOK, List!answer
  <2> QED
    BY <1>2, <2>1
    DEF List!TypeDraft, List!answer, List!NoticeIsPolled, List!ListSpinner, List!InFlight
<1>3. ASSUME NEW p \in 0..ListLastPage, List!GoToPage(p) PROVE ListInv'
  BY <1>3, <1>f, <1>c, <1>t, Zenon DEF List!GoToPage, List!TypeOK, List!answer, List!timers
<1>4. CASE List!Search
  BY <1>4, <1>f, <1>c, <1>t, Zenon DEF List!Search, List!TypeOK, List!answer
<1>5. CASE List!ClearSearch
  BY <1>5, <1>f, <1>c, <1>t, ListAssumption, Zenon DEF List!ClearSearch, List!TypeOK, List!answer
<1>6. CASE List!ResetFilters
  BY <1>6, <1>f, ListAssumption, ListCriteria DEF List!ResetFilters, List!TypeOK, List!answer
<1>7. CASE List!LibraryChanged
  BY <1>7, <1>f, <1>c, <1>t, Zenon DEF List!LibraryChanged, List!TypeOK, List!answer, List!timers
<1>8. CASE List!GuideStarts
  BY <1>8, <1>f, ListAssumption, ListCriteria DEF List!GuideStarts, List!TypeOK, List!answer
<1>9. CASE List!GuideEnds \/ List!IndexReady \/ UNCHANGED List!vars
  <2>1. List!TypeOK'
    BY <1>9, <1>t DEF List!GuideEnds, List!IndexReady, List!TypeOK, List!answer, List!timers,
                      List!vars
  <2> QED
    BY <1>9, <2>1 DEF List!GuideEnds, List!IndexReady, List!answer, List!timers, List!vars,
                      List!NoticeIsPolled, List!ListSpinner, List!InFlight
<1>10. CASE List!GuideAsks
  BY <1>10, <1>f, ListCriteria DEF List!GuideAsks, List!TypeOK, List!answer, List!timers
<1>11. CASE List!DebounceEnds
  BY <1>11, <1>f DEF List!DebounceEnds, List!TypeOK, List!answer
<1>12. CASE List!RefreshFires
  BY <1>12, <1>f DEF List!RefreshFires, List!TypeOK, List!answer
<1>13. ASSUME NEW i \in DOMAIN v6, List!Arrives(i) PROVE ListInv'
  <2>1. v6[i] \in List!Criteria /\ v6[i] # List!Nothing
    BY <1>13 DEF List!Arrives, List!InFlight, List!TypeOK
  <2>2. v3' \in List!Criteria \cup {List!Nothing} /\ (v2' => v3' # List!Nothing)
    BY <1>13, <2>1, <1>t DEF List!Arrives, List!Rearm, List!TypeOK
  <2>3. List!TypeOK'
    BY <1>13, <2>1, <2>2, <1>t DEF List!Arrives, List!Settle, List!HoldsTarget, List!TypeOK
  <2> QED
    BY <1>13, <2>2, <2>3
    DEF List!Arrives, List!Settle, List!NoticeIsPolled, List!ListSpinner
<1>14. ASSUME NEW i \in DOMAIN v6, List!Fails(i) PROVE ListInv'
  <2>1. List!TypeOK'
    BY <1>14, <1>t DEF List!Fails, List!Settle, List!TypeOK
  <2> QED
    BY <1>14, <2>1 DEF List!Fails, List!Settle, List!NoticeIsPolled, List!ListSpinner
<1> QED
  BY <1>1, <1>2, <1>3, <1>4, <1>5, <1>6, <1>7, <1>8, <1>9, <1>10, <1>11, <1>12, <1>13, <1>14
  DEF List!Next, List!User, List!App, List!Server

\* While the page says that the groups are being prepared, something will ask again.
THEOREM NoticePolled == Spec => []NoticeIsPolled
<1> DEFINE Inv == screen = "groups" => ListInv
<1>1. Init => Inv
  BY ListInit DEF Init
<1>2. Inv /\ [Next]_vars => Inv'
  BY OnePage, ListKeeps
<1>3. Inv => NoticeIsPolled
  BY DEF ListInv, NoticeIsPolled
<1> QED
  BY <1>1, <1>2, <1>3, PTL DEF Spec

-----------------------------------------------------------------------------
(* Documents with the same contents. *)

\* The rows are those of the library with total groups, on the page at offset.
DuplicatesRows ==
  v2 = {g \in 1..v3 : v4 < g /\ g <= v4 + DuplicatesPageSize}

DuplicatesInv == Duplicates!TypeOK /\ DuplicatesRows /\ Duplicates!DuplicatesSpinner

\* The page starts with a request for its first rows.
LEMMA DuplicatesInit == Duplicates!Init => DuplicatesInv
<1> SUFFICES ASSUME Duplicates!Init PROVE DuplicatesInv
  OBVIOUS
<1> USE DEF Duplicates!Init
<1>1. 0 \in 0..DuplicatesGroups /\ 1 \in 1..DuplicatesMaxRequests
  BY DuplicatesAssumption
<1>2. v7 \subseteq [n : 1..DuplicatesMaxRequests, offset : 0..DuplicatesGroups]
  BY <1>1
<1>3. DuplicatesRows
  BY DEF DuplicatesRows
<1> QED
  BY <1>1, <1>2, <1>3 DEF DuplicatesInv, Duplicates!TypeOK, Duplicates!DuplicatesSpinner

\* fetchDuplicates up to its await.
LEMMA DuplicatesFetches ==
  ASSUME Duplicates!TypeOK, NEW nextOffset \in 0..DuplicatesGroups, Duplicates!Fetch(nextOffset)
  PROVE  /\ v7' \subseteq [n : 1..DuplicatesMaxRequests, offset : 0..DuplicatesGroups]
         /\ v7' # {} /\ v5' = TRUE
<1>1. PICK n \in 1..DuplicatesMaxRequests : v7' = v7 \cup {[n |-> n, offset |-> nextOffset]}
  BY DEF Duplicates!Fetch
<1>2. [n |-> n, offset |-> nextOffset]
        \in [n : 1..DuplicatesMaxRequests, offset : 0..DuplicatesGroups]
  OBVIOUS
<1> QED
  BY <1>1, <1>2 DEF Duplicates!TypeOK, Duplicates!Fetch

\* Answers, failures and changes of the library keep what the page knows of its requests.
LEMMA DuplicatesKeeps ==
  ASSUME DuplicatesInv, Duplicates!Next \/ UNCHANGED Duplicates!vars
  PROVE  DuplicatesInv'
<1> USE DEF DuplicatesInv, Duplicates!rows
<1>t. Duplicates!TypeOK
  OBVIOUS
<1>0. 0 \in 0..DuplicatesGroups
  BY DuplicatesAssumption
<1>f. ASSUME NEW nextOffset \in 0..DuplicatesGroups, Duplicates!Fetch(nextOffset),
             UNCHANGED <<v1, Duplicates!rows, v6>>
      PROVE  DuplicatesInv'
  BY <1>f, <1>t, DuplicatesFetches
  DEF Duplicates!TypeOK, DuplicatesRows, Duplicates!DuplicatesSpinner
<1>1. CASE Duplicates!LibraryChanges
  BY <1>1
  DEF Duplicates!LibraryChanges, Duplicates!TypeOK, DuplicatesRows, Duplicates!DuplicatesSpinner
<1>2. CASE Duplicates!RevisionChanges
  BY <1>2, <1>f, <1>0 DEF Duplicates!RevisionChanges
<1>3. CASE Duplicates!Refresh
  BY <1>3, <1>f, <1>0 DEF Duplicates!Refresh
<1>4. CASE Duplicates!TypeWords
  BY <1>4
  DEF Duplicates!TypeWords, Duplicates!TypeOK, DuplicatesRows, Duplicates!DuplicatesSpinner
<1>5. ASSUME NEW nextOffset \in 0..DuplicatesGroups, Duplicates!Turn(nextOffset)
      PROVE  DuplicatesInv'
  BY <1>5, <1>f DEF Duplicates!Turn
<1>6. ASSUME NEW r \in v7, Duplicates!Arrives(r) PROVE DuplicatesInv'
  <2>1. r.offset \in 0..DuplicatesGroups /\ v1 \in 0..DuplicatesGroups
    BY DEF Duplicates!TypeOK
  <2>2. v2' \subseteq 1..DuplicatesGroups /\ DuplicatesRows'
    BY <1>6, <2>1, DuplicatesAssumption
    DEF Duplicates!Arrives, Duplicates!PageFrom, DuplicatesRows
  <2> QED
    BY <1>6, <1>t, <2>1, <2>2
    DEF Duplicates!Arrives, Duplicates!TypeOK, Duplicates!DuplicatesSpinner
<1>7. ASSUME NEW r \in v7, Duplicates!Fails(r) PROVE DuplicatesInv'
  BY <1>7, <1>t
  DEF Duplicates!Fails, Duplicates!TypeOK, DuplicatesRows, Duplicates!DuplicatesSpinner
<1>8. CASE UNCHANGED Duplicates!vars
  BY <1>8 DEF Duplicates!vars, Duplicates!TypeOK, DuplicatesRows, Duplicates!DuplicatesSpinner
<1> QED
  BY <1>1, <1>2, <1>3, <1>4, <1>5, <1>6, <1>7, <1>8 DEF Duplicates!Next

\* The number of elements, as the page's module counts it.
LEMMA DuplicatesCounts == \A S : Duplicates!Cardinality(S) = Cardinality(S)
  BY Zenon DEF Duplicates!Cardinality, Cardinality

\* The rows of a page are a range of numbers, and as many as the range is long.
LEMMA DuplicatesRange == DuplicatesInv => Duplicates!RangeIsOfTheRows
<1> SUFFICES ASSUME DuplicatesInv PROVE Duplicates!RangeIsOfTheRows
  OBVIOUS
<1> DEFINE last == IF v4 + DuplicatesPageSize < v3 THEN v4 + DuplicatesPageSize ELSE v3
<1>1. v3 \in Nat /\ v4 \in Nat /\ last \in Nat
  BY DuplicatesAssumption DEF DuplicatesInv, Duplicates!TypeOK
<1>2. v2 = (v4 + 1)..last
  BY <1>1, DuplicatesAssumption DEF DuplicatesInv, DuplicatesRows
<1> HIDE DEF last
<1>3. ASSUME v2 # {} PROVE v2 = Duplicates!visibleStart..Duplicates!visibleEnd
  <2>1. v4 + 1 <= last
    BY <1>1, <1>2, <1>3
  <2>2. Cardinality(v2) = last - v4
    BY <1>1, <1>2, <2>1, FS_Interval
  <2>3. last <= v3 /\ (v4 + DuplicatesPageSize >= v3 => last = v3)
    BY <1>1 DEF last
  <2>4. v4 + Cardinality(v2) = last /\ v3 # 0
    BY <1>1, <2>1, <2>2, <2>3
  <2> QED
    BY <1>1, <1>2, <2>3, <2>4, DuplicatesCounts DEF Duplicates!visibleStart, Duplicates!visibleEnd
<1>4. ASSUME v2 = {} PROVE v4 >= v3
  BY <1>1, <1>2, <1>4, DuplicatesAssumption DEF last
<1>5. Duplicates!Shown = "no groups" => v2 = {}
  BY DEF Duplicates!Shown, DuplicatesInv, Duplicates!TypeOK
<1> QED
  BY <1>3, <1>4, <1>5, Zenon DEF Duplicates!RangeIsOfTheRows

-----------------------------------------------------------------------------
(* The documents before a search. *)

\* The list is a beginning of the server's documents, the newest first.
LandingPrefix ==
  Len(v4) <= v1 /\ \A i \in 1..Len(v4) : v4[i] = v1 + 1 - i

\* Of the requests one at most is current: it shows as loading what it will bring, and a further
\* page continues the list.
LandingAsked ==
  /\ \A r, s \in v8 : r.current /\ s.current => r = s
  /\ \A r \in v8 :
       /\ r.offset <= v1
       /\ r.current /\ r.more => ~v6 /\ r.offset = Len(v4)
       /\ ~r.more => r.offset = 0

LandingInv ==
  /\ v4 \in Seq(1..LandingMaxDocs) /\ Landing!TypeOK
  /\ v2 <= v1 /\ v5 <= v1
  /\ LandingAsked
  /\ v3 /\ v2 = v1 /\ ~v6 => LandingPrefix

\* The empty search page starts with nothing asked.
LEMMA LandingInit == Landing!Init => LandingInv
<1> SUFFICES ASSUME Landing!Init PROVE LandingInv
  OBVIOUS
<1> USE DEF Landing!Init
<1>1. v4 = <<>> /\ v4 \in Seq(1..LandingMaxDocs) /\ Landing!Range(v4) = {}
  BY DEF Landing!Range
<1>2. 1 \in 1..LandingMaxDocs /\ 0 \in 0..LandingMaxDocs
  BY LandingAssumption
<1>3. Landing!TypeOK
  BY <1>1, <1>2 DEF Landing!TypeOK, Landing!Unknown
<1> QED
  BY <1>3 DEF LandingInv, LandingAsked, LandingPrefix

\* What a request that begins after o documents finds.
LandingLast(o) == IF o + LandingPageSize < v1 THEN o + LandingPageSize ELSE v1
LandingItems(o) == SubSeq(Landing!Documents, o + 1, LandingLast(o))

\* The server's documents from an offset on, the newest first.
LEMMA LandingFinds ==
  ASSUME v1 \in 1..LandingMaxDocs, NEW o \in Nat, o <= v1
  PROVE  /\ LandingItems(o) \in Seq(1..LandingMaxDocs)
         /\ Len(LandingItems(o)) <= v1 - o
         /\ \A i \in 1..Len(LandingItems(o)) : LandingItems(o)[i] = v1 + 1 - (o + i)
<1>1. v1 \in Nat \ {0} /\ v1 <= LandingMaxDocs
  BY LandingAssumption
<1>2. /\ Landing!Documents \in Seq(1..LandingMaxDocs) /\ Len(Landing!Documents) = v1
      /\ \A i \in 1..v1 : Landing!Documents[i] = v1 + 1 - i
  BY LandingAssumption DEF Landing!Documents
<1>3. /\ LandingLast(o) \in o..v1 /\ LandingLast(o) \in Nat
  BY LandingAssumption DEF LandingLast
<1>a. o + 1 \in Int /\ LandingLast(o) \in Int
  BY <1>3
<1>b. ASSUME NEW i \in (o + 1)..LandingLast(o)
      PROVE  Landing!Documents[i] \in 1..LandingMaxDocs
  <2>1. i \in 1..v1
    BY <1>3
  <2> QED
    BY <1>1, <1>2, <2>1, LandingAssumption
<1>4. /\ LandingItems(o) \in Seq(1..LandingMaxDocs)
      /\ Len(LandingItems(o)) = LandingLast(o) - o
      /\ \A i \in 1..(LandingLast(o) - o) : LandingItems(o)[i] = Landing!Documents[o + i]
  BY <1>b, <1>3 DEF LandingItems
<1> QED
  BY <1>2, <1>3, <1>4

\* The elements of a list of documents are documents.
LEMMA LandingRange ==
  ASSUME NEW s \in Seq(1..LandingMaxDocs)
  PROVE  /\ Landing!Range(s) \subseteq 1..LandingMaxDocs
         /\ \A i \in 1..Len(s) : s[i] \in 1..LandingMaxDocs
<1> DEFINE D == 1..LandingMaxDocs
<1>1. s \in Seq(D)
  OBVIOUS
<1> HIDE DEF D
<1>2. DOMAIN s = 1..Len(s) /\ \A i \in 1..Len(s) : s[i] \in D
  BY <1>1
<1>3. Landing!Range(s) \subseteq D
  BY <1>2 DEF Landing!Range
<1> QED
  BY <1>2, <1>3 DEF D

\* The first page is asked for, and the requests before are out of date.
LEMMA LandingLoads ==
  ASSUME LandingInv, Landing!LoadFirst
  PROVE  /\ v8' \subseteq [offset : 0..LandingMaxDocs, more : BOOLEAN, current : BOOLEAN]
         /\ v6' = TRUE /\ v7' = v7
         /\ v4' = v4 /\ v1' = v1 => LandingAsked'
<1> DEFINE new == [offset |-> 0, more |-> FALSE, current |-> TRUE]
           old == Landing!OutOfDate(v8)
<1>1. v8' = old \cup {new}
  BY DEF Landing!LoadFirst
<1>2. v8 \subseteq [offset : 0..LandingMaxDocs, more : BOOLEAN, current : BOOLEAN]
  BY DEF LandingInv, Landing!TypeOK
<1>3. new \in [offset : 0..LandingMaxDocs, more : BOOLEAN, current : BOOLEAN]
  BY LandingAssumption
<1>4. ASSUME NEW r \in old
      PROVE  /\ r \in [offset : 0..LandingMaxDocs, more : BOOLEAN, current : BOOLEAN]
             /\ ~r.current
             /\ r.offset <= v1 /\ (~r.more => r.offset = 0)
  <2>1. PICK q \in v8 : r = [q EXCEPT !.current = FALSE]
    BY DEF Landing!OutOfDate
  <2>2. q \in [offset : 0..LandingMaxDocs, more : BOOLEAN, current : BOOLEAN]
    BY <1>2
  <2>3. q.offset <= v1 /\ (~q.more => q.offset = 0)
    BY DEF LandingInv, LandingAsked
  <2> QED
    BY <2>1, <2>2, <2>3
<1>5. v1 \in Nat
  BY DEF LandingInv, Landing!TypeOK
<1> HIDE DEF old
<1>6. v6' = TRUE /\ v7' = v7
  BY DEF Landing!LoadFirst
<1>7. ASSUME v4' = v4, v1' = v1 PROVE LandingAsked'
  <2>1. \A r \in v8' : r = new \/ r \in old
    BY <1>1
  <2>2. new.offset = 0 /\ new.more = FALSE
    OBVIOUS
  <2> HIDE DEF new
  <2>3. \A r, s \in v8' : r.current /\ s.current => r = s
    BY <2>1, <1>4
  <2>4. \A r \in v8' : r.current => r = new
    BY <2>1, <1>4
  <2>5. \A r \in v8' : r.offset <= v1 /\ (~r.more => r.offset = 0)
    BY <2>1, <2>2, <1>4, <1>5
  <2> QED
    BY <2>2, <2>4, <2>5, <1>7 DEF LandingAsked
<1> QED
  BY <1>1, <1>3, <1>4, <1>6, <1>7

\* The folders are asked for.
LEMMA LandingAsks ==
  ASSUME Landing!TypeOK, NEW now \in 1..LandingMaxDocs, Landing!LoadFolders(now)
  PROVE  v10' \subseteq [at : 1..LandingMaxDocs, current : BOOLEAN]
<1>1. \A r \in Landing!OutOfDate(v10) : r \in [at : 1..LandingMaxDocs, current : BOOLEAN]
  BY DEF Landing!OutOfDate, Landing!TypeOK
<1>2. [at |-> now, current |-> TRUE] \in [at : 1..LandingMaxDocs, current : BOOLEAN]
  OBVIOUS
<1> QED
  BY <1>1, <1>2 DEF Landing!LoadFolders

\* A step that keeps lists and requests.
LEMMA LandingRests ==
  ASSUME LandingInv, v1' = v1, v4' = v4, v5' = v5, v6' = v6, v7' \in BOOLEAN, v8' = v8,
         v2' = v2, v3' \in BOOLEAN, v3' => v3, v9' \in 0..LandingMaxDocs,
         v10' \subseteq [at : 1..LandingMaxDocs, current : BOOLEAN]
  PROVE  LandingInv'
  BY DEF LandingInv, Landing!TypeOK, Landing!Range, LandingAsked, LandingPrefix

\* Every step of the empty search page.
LEMMA LandingKeeps ==
  ASSUME LandingInv, Landing!Next \/ UNCHANGED Landing!vars
  PROVE  LandingInv'
<1>t. Landing!TypeOK
  BY DEF LandingInv
<1>n. /\ v1 \in 1..LandingMaxDocs /\ v1 \in Nat /\ v2 \in Nat /\ v2 <= v1 /\ v5 \in Nat /\ v5 <= v1
      /\ v4 \in Seq(1..LandingMaxDocs)
  BY DEF LandingInv, Landing!TypeOK
<1> USE DEF Landing!page, Landing!flags, Landing!folderVars
<1>1. CASE Landing!Registered
  BY <1>1, LandingAssumption
  DEF Landing!Registered, Landing!TypeOK, Landing!Range, LandingInv, LandingAsked
<1>2. CASE Landing!Announced
  <2>1. CASE v3
    <3>1. /\ Landing!LoadFirst /\ Landing!LoadFolders(v1)
          /\ UNCHANGED <<v1, v3, v4, v5, v9>> /\ v2' = v1
      BY <1>2, <2>1 DEF Landing!Announced
    <3>2. Landing!TypeOK'
      BY <1>t, <3>1, LandingLoads, LandingAsks DEF Landing!TypeOK, Landing!Range
    <3>3. LandingAsked' /\ v6' = TRUE
      BY <3>1, LandingLoads
    <3> QED
      BY <3>1, <3>2, <3>3, <1>n DEF LandingInv
  <2>2. CASE ~v3
    BY <1>2, <2>2 DEF Landing!Announced, Landing!TypeOK, Landing!Range, LandingInv, LandingAsked
  <2> QED
    BY <2>1, <2>2
<1>3. CASE Landing!Activate
  <2>1. /\ Landing!LoadFirst /\ Landing!LoadFolders(v1)
        /\ UNCHANGED <<v1, v2, v4, v5, v9>> /\ v3' = TRUE
    BY <1>3 DEF Landing!Activate
  <2>2. Landing!TypeOK'
    BY <1>t, <2>1, LandingLoads, LandingAsks DEF Landing!TypeOK, Landing!Range
  <2> QED
    BY <2>1, <2>2, <1>n, LandingLoads DEF LandingInv
<1>4. CASE Landing!Deactivate
  <2>1. v10' \subseteq [at : 1..LandingMaxDocs, current : BOOLEAN]
    BY <1>4, <1>t DEF Landing!Deactivate, Landing!OutOfDate, Landing!TypeOK
  <2> QED
    BY <1>4, <1>t, <2>1, LandingRests DEF Landing!Deactivate, Landing!TypeOK
<1>5. CASE Landing!LoadMore
  <2> DEFINE new == [offset |-> Len(v4), more |-> TRUE, current |-> TRUE]
             old == Landing!OutOfDate(v8)
             Kind == [offset : 0..LandingMaxDocs, more : BOOLEAN, current : BOOLEAN]
  <2>1. v8' = old \cup {new} /\ v7' = TRUE /\ UNCHANGED <<v1, v2, v3, v4, v5, v6, v9, v10>>
    BY <1>5 DEF Landing!LoadMore
  <2>2. Len(v4) < v5 /\ ~v6 /\ Len(v4) \in Nat
    BY <1>5 DEF Landing!LoadMore
  <2>3. new \in Kind
    BY <1>t, <2>2, LandingAssumption DEF Landing!TypeOK
  <2>4. ASSUME NEW r \in old
        PROVE  r \in Kind /\ ~r.current /\ r.offset <= v1 /\ (~r.more => r.offset = 0)
    <3>1. PICK q \in v8 : r = [q EXCEPT !.current = FALSE]
      BY DEF Landing!OutOfDate
    <3>2. q \in Kind
      BY <1>t DEF Landing!TypeOK
    <3>3. q.offset <= v1 /\ (~q.more => q.offset = 0)
      BY DEF LandingInv, LandingAsked
    <3> QED
      BY <3>1, <3>2, <3>3
  <2>5. new.offset = Len(v4) /\ new.more
    OBVIOUS
  <2> HIDE DEF new, old
  <2>6. LandingAsked'
    BY <2>1, <2>2, <2>4, <2>5, <1>n DEF LandingAsked
  <2>7. v8' \subseteq Kind
    BY <2>1, <2>3, <2>4
  <2>8. Landing!TypeOK'
    BY <1>t, <2>1, <2>7 DEF Landing!TypeOK, Landing!Range
  <2> QED
    BY <2>1, <2>6, <2>8 DEF LandingInv, LandingPrefix
<1>6. ASSUME NEW r \in v8, Landing!Arrives(r) PROVE LandingInv'
  <2>1. v8' \subseteq v8 /\ r \notin v8' /\ UNCHANGED <<v1, v2, v3, v9, v10>>
    BY <1>6 DEF Landing!Arrives
  <2>2. CASE ~r.current
    BY <1>6, <2>2
    DEF Landing!Arrives, Landing!Stale, Landing!TypeOK, Landing!Range, LandingInv, LandingAsked,
        LandingPrefix
  <2>3. CASE r.current
    <3> DEFINE items == LandingItems(r.offset)
    <3>1. /\ v4' = IF r.more THEN v4 \o items ELSE items
          /\ v5' = v1 /\ v6' = FALSE /\ v7' = FALSE
      BY <1>6, <2>3 DEF Landing!Arrives, Landing!Stale, LandingItems, LandingLast
    <3>2. r.offset \in Nat /\ r.offset <= v1 /\ (~r.more => r.offset = 0)
          /\ (r.more => ~v6 /\ r.offset = Len(v4)) /\ r.more \in BOOLEAN
      BY <2>3 DEF LandingInv, LandingAsked, Landing!TypeOK
    <3>a. v1 \in 1..LandingMaxDocs /\ r.offset \in Nat /\ r.offset <= v1
      BY <1>n, <3>2
    <3>b. /\ items \in Seq(1..LandingMaxDocs)
          /\ Len(items) <= v1 - r.offset
          /\ \A i \in 1..Len(items) : items[i] = v1 + 1 - (r.offset + i)
      BY <3>a, LandingFinds
    <3>3. items \in Seq(1..LandingMaxDocs) /\ Len(items) \in Nat
      BY <3>b
    <3> HIDE DEF items
    <3>4. /\ v4 \o items \in Seq(1..LandingMaxDocs)
          /\ Len(v4 \o items) = Len(v4) + Len(items)
          /\ \A i \in 1..Len(v4) : (v4 \o items)[i] = v4[i]
          /\ \A i \in (Len(v4) + 1)..(Len(v4) + Len(items)) : (v4 \o items)[i] = items[i - Len(v4)]
      BY <1>n, <3>3
    <3>5. v4' \in Seq(1..LandingMaxDocs)
      BY <3>1, <3>3, <3>4
    <3>6. LandingAsked'
      BY <2>1, <2>3 DEF LandingInv, LandingAsked, Landing!TypeOK
    <3>7. ASSUME v3, v2 = v1 PROVE LandingPrefix'
      <4>1. CASE r.more
        <5>1. LandingPrefix
          BY <3>2, <3>7, <4>1 DEF LandingInv
        <5>2. ASSUME NEW i \in 1..(Len(v4) + Len(items)) PROVE (v4 \o items)[i] = v1 + 1 - i
          <6>1. CASE i \in 1..Len(v4)
            BY <5>1, <6>1 DEF LandingPrefix
          <6>2. CASE i \notin 1..Len(v4)
            <7>1. Len(v4) \in Nat
              BY <1>n
            <7>2. i \in (Len(v4) + 1)..(Len(v4) + Len(items)) /\ i - Len(v4) \in 1..Len(items)
              BY <6>2
            <7>3. (v4 \o items)[i] = items[i - Len(v4)]
              BY <7>2
            <7>4. items[i - Len(v4)] = v1 + 1 - (Len(v4) + (i - Len(v4)))
              BY <7>2, <3>b, <3>2, <4>1
            <7> QED
              BY <7>1, <7>2, <7>3, <7>4
          <6> QED
            BY <6>1, <6>2
        <5>3. Len(v4 \o items) <= v1
          BY <3>2, <3>b, <4>1, <1>n
        <5> QED
          BY <2>1, <3>1, <4>1, <5>2, <5>3 DEF LandingPrefix
      <4>2. CASE ~r.more
        BY <2>1, <3>1, <3>2, <3>b, <4>2, <1>n DEF LandingPrefix
      <4> QED
        BY <4>1, <4>2
    <3>8. Landing!TypeOK'
      <4>1. Landing!Range(v4') \subseteq 1..LandingMaxDocs
        BY <3>5, LandingRange
      <4>2. v5' \in 0..LandingMaxDocs
        BY <3>1, <1>n
      <4> QED
        BY <1>t, <2>1, <3>1, <4>1, <4>2 DEF Landing!TypeOK, Landing!Range
    <3> QED
      BY <1>n, <2>1, <3>1, <3>5, <3>6, <3>7, <3>8 DEF LandingInv
  <2> QED
    BY <2>2, <2>3
<1>7. ASSUME NEW r \in v8, Landing!Fails(r) PROVE LandingInv'
  <2>1. v8' \subseteq v8 /\ r \notin v8' /\ UNCHANGED <<v1, v2, v3, v9, v10>>
    BY <1>7 DEF Landing!Fails
  <2>2. CASE ~r.current
    BY <1>7, <2>2
    DEF Landing!Fails, Landing!Stale, Landing!TypeOK, Landing!Range, LandingInv, LandingAsked,
        LandingPrefix
  <2>3. CASE r.current
    <3>1. /\ \/ r.more /\ UNCHANGED <<v4, v5>>
             \/ ~r.more /\ v4' = <<>> /\ v5' = 0
          /\ v6' = FALSE /\ v7' = FALSE
      BY <1>7, <2>3 DEF Landing!Fails, Landing!Stale
    <3>2. v4' \in Seq(1..LandingMaxDocs) /\ v5' \in 0..LandingMaxDocs /\ v5' <= v1
      <4>1. v5 \in 0..LandingMaxDocs /\ 0 \in 0..LandingMaxDocs /\ 0 <= v1
        BY <1>n, LandingAssumption DEF Landing!TypeOK
      <4>2. CASE r.more /\ UNCHANGED <<v4, v5>>
        BY <4>1, <4>2, <1>n
      <4>3. CASE v4' = <<>> /\ v5' = 0
        BY <4>1, <4>3
      <4> QED
        BY <3>1, <4>2, <4>3
    <3>3. LandingAsked'
      BY <2>1, <2>3 DEF LandingInv, LandingAsked, Landing!TypeOK
    <3>4. v3 /\ v2 = v1 => LandingPrefix'
      BY <2>1, <2>3, <3>1 DEF LandingInv, LandingAsked, LandingPrefix
    <3>5. Landing!TypeOK'
      <4>1. Landing!Range(v4') \subseteq 1..LandingMaxDocs
        BY <3>2, LandingRange
      <4> QED
        BY <1>t, <2>1, <3>1, <3>2, <4>1 DEF Landing!TypeOK, Landing!Range
    <3> QED
      BY <2>1, <3>2, <3>3, <3>4, <3>5 DEF LandingInv
  <2> QED
    BY <2>2, <2>3
<1>8. ASSUME NEW r \in v10, Landing!FoldersArrive(r) PROVE LandingInv'
  BY <1>8, <1>t, LandingAssumption, LandingRests
  DEF Landing!FoldersArrive, Landing!Unknown, Landing!TypeOK
<1>9. CASE UNCHANGED Landing!vars
  BY <1>9, <1>t, LandingRests DEF Landing!vars, Landing!TypeOK
<1> QED
  BY <1>1, <1>2, <1>3, <1>4, <1>5, <1>6, <1>7, <1>8, <1>9 DEF Landing!Next

\* A list that is a beginning of the documents is a prefix of them.
LEMMA LandingFollows == LandingInv => Landing!LandingFollowsLibrary
<1> SUFFICES ASSUME LandingInv, LandingPrefix
             PROVE  /\ Len(v4) <= Len(Landing!Documents)
                    /\ \A i \in DOMAIN v4 : v4[i] = Landing!Documents[i]
  BY DEF Landing!LandingFollowsLibrary, LandingInv
<1>1. v1 \in Nat /\ v1 <= LandingMaxDocs /\ v4 \in Seq(1..LandingMaxDocs) /\ Len(v4) \in Nat
  BY DEF LandingInv, Landing!TypeOK
<1>2. /\ Len(Landing!Documents) = v1
      /\ \A i \in 1..v1 : Landing!Documents[i] = v1 + 1 - i
  BY <1>1 DEF Landing!Documents
<1> QED
  BY <1>2 DEF LandingPrefix

-----------------------------------------------------------------------------
(* The registered documents. *)

RegisteredRows == 0..RegisteredPageSize
RegisteredOffsets == 0..RegisteredMaxFiles

\* The numbers of TypeOK, and what the slots of requests and removals hold.
RegisteredTypes ==
  /\ v1 \in RegisteredOffsets
  /\ v2 \in [rows : RegisteredRows, total : RegisteredOffsets, offset : RegisteredOffsets,
             query : RegisteredQueries]
  /\ v3 \in RegisteredOffsets /\ v4 \in RegisteredQueries
  /\ v6 \in [1..RegisteredMaxFetches ->
               [asked : BOOLEAN, by : 0..RegisteredMaxRemovals, offset : RegisteredOffsets,
                query : RegisteredQueries]]
  /\ v7 \in [targets : RegisteredRows, rows : RegisteredRows, offset : RegisteredOffsets,
             query : RegisteredQueries]
  /\ v10 \in [1..RegisteredMaxRemovals ->
                [stage : {"none", "files", "list", "all", "listAll"}, todo : RegisteredRows,
                 done : RegisteredRows, rows : RegisteredRows, offset : RegisteredOffsets,
                 query : RegisteredQueries]]
  /\ \A i \in 1..RegisteredMaxRemovals : v10[i].todo + v10[i].done <= RegisteredPageSize
  /\ {v5, v8, v9, v11} \subseteq BOOLEAN

RegisteredInv ==
  RegisteredTypes /\ Registered!HeaderMatchesRows /\ Registered!ListSpinner

\* Zero is a number of rows and of documents.
LEMMA RegisteredZero ==
  0 \in RegisteredRows /\ 0 \in RegisteredOffsets /\ RegisteredNoQuery \in RegisteredQueries
  BY RegisteredAssumption DEF RegisteredRows, RegisteredOffsets

\* The list starts with a request for its first page.
LEMMA RegisteredInit == Registered!Init => RegisteredInv
<1> SUFFICES ASSUME Registered!Init PROVE RegisteredInv
  OBVIOUS
<1> USE DEF Registered!Init, Registered!NoPage, Registered!NoFetch, Registered!Closed,
            Registered!NoRemoval
<1>1. 1 \in 1..RegisteredMaxFetches /\ 0 \in 0..RegisteredMaxRemovals
  BY RegisteredAssumption
<1>2. \A i \in 1..RegisteredMaxFetches : v6[i] \in
        [asked : BOOLEAN, by : 0..RegisteredMaxRemovals, offset : RegisteredOffsets,
         query : RegisteredQueries]
  BY <1>1, RegisteredZero
<1>3. 1 \in Registered!Asked
  BY <1>1 DEF Registered!Asked
<1>4. RegisteredTypes
  <2>1. /\ \A i \in 1..RegisteredMaxRemovals : v10[i] = Registered!NoRemoval
        /\ Registered!NoRemoval \in
             [stage : {"none", "files", "list", "all", "listAll"}, todo : RegisteredRows,
              done : RegisteredRows, rows : RegisteredRows, offset : RegisteredOffsets,
              query : RegisteredQueries]
    BY RegisteredZero
  <2>2. \A i \in 1..RegisteredMaxRemovals : v10[i].todo + v10[i].done <= RegisteredPageSize
    BY RegisteredAssumption
  <2>3. v1 \in RegisteredOffsets
    BY DEF RegisteredOffsets
  <2>4. /\ v6 = [i \in 1..RegisteredMaxFetches |-> v6[i]]
        /\ v10 = [i \in 1..RegisteredMaxRemovals |-> v10[i]]
    OBVIOUS
  <2>5. v6 \in [1..RegisteredMaxFetches ->
               [asked : BOOLEAN, by : 0..RegisteredMaxRemovals, offset : RegisteredOffsets,
                query : RegisteredQueries]]
    BY <1>2
  <2>6. v2 \in [rows : RegisteredRows, total : RegisteredOffsets, offset : RegisteredOffsets,
                query : RegisteredQueries]
    BY RegisteredZero
  <2>7. v7 \in [targets : RegisteredRows, rows : RegisteredRows, offset : RegisteredOffsets,
             query : RegisteredQueries]
    BY RegisteredZero
  <2> QED
    BY <2>1, <2>2, <2>3, <2>4, <2>5, <2>6, <2>7, RegisteredZero DEF RegisteredTypes
<1> QED
  BY <1>3, <1>4 DEF RegisteredInv, Registered!HeaderMatchesRows, Registered!ListSpinner

\* A free slot is found when there is one.
LEMMA RegisteredFirst ==
  ASSUME NEW S \in SUBSET Nat, S # {}
  PROVE  Registered!FirstOf(S) \in S
  BY HasLeast DEF Registered!FirstOf

\* fetchFiles up to its await: the request takes a free slot.
LEMMA RegisteredFetches ==
  ASSUME RegisteredTypes, NEW by \in 0..RegisteredMaxRemovals, NEW offset \in RegisteredOffsets,
         NEW q \in RegisteredQueries, Registered!FetchBy(by, offset, q)
  PROVE  /\ v6' \in [1..RegisteredMaxFetches ->
               [asked : BOOLEAN, by : 0..RegisteredMaxRemovals, offset : RegisteredOffsets,
                query : RegisteredQueries]]
         /\ v5' = TRUE /\ (Registered!Asked)' # {}
<1> DEFINE k == Registered!FirstOf(DOMAIN v6 \ Registered!Asked)
           f == [asked |-> TRUE, by |-> by, offset |-> offset, query |-> q]
           Fetches == [asked : BOOLEAN, by : 0..RegisteredMaxRemovals,
                       offset : RegisteredOffsets, query : RegisteredQueries]
<1>1. v6 \in [1..RegisteredMaxFetches -> Fetches]
  BY DEF RegisteredTypes
<1>2. k \in 1..RegisteredMaxFetches
  BY <1>1, RegisteredFirst DEF Registered!FetchBy, Registered!Asked
<1>3. v6' = [v6 EXCEPT ![k] = f] /\ v5' = TRUE
  BY DEF Registered!FetchBy
<1>4. f \in Fetches /\ f.asked
  OBVIOUS
<1> HIDE DEF k, f, Fetches
<1>5. v6' \in [1..RegisteredMaxFetches -> Fetches] /\ v6'[k] = f
  BY <1>1, <1>2, <1>3, <1>4
<1>6. k \in (Registered!Asked)'
  BY <1>2, <1>4, <1>5 DEF Registered!Asked
<1> QED
  BY <1>3, <1>5, <1>6 DEF Fetches

RegisteredRemovals ==
  [stage : {"none", "files", "list", "all", "listAll"}, todo : RegisteredRows,
   done : RegisteredRows, rows : RegisteredRows, offset : RegisteredOffsets,
   query : RegisteredQueries]

\* A removal takes a free slot.
LEMMA RegisteredStarts ==
  ASSUME RegisteredTypes, NEW r \in RegisteredRemovals, r.stage # "none",
         r.todo + r.done <= RegisteredPageSize,
         Registered!Removing # DOMAIN v10,
         v10' = [v10 EXCEPT ![Registered!FirstOf(DOMAIN v10 \ Registered!Removing)] = r]
  PROVE  /\ v10' \in [1..RegisteredMaxRemovals -> RegisteredRemovals]
         /\ \A i \in 1..RegisteredMaxRemovals : v10'[i].todo + v10'[i].done <= RegisteredPageSize
         /\ (Registered!Removing)' # {}
<1> DEFINE k == Registered!FirstOf(DOMAIN v10 \ Registered!Removing)
<1>1. /\ v10 \in [1..RegisteredMaxRemovals -> RegisteredRemovals]
      /\ \A i \in 1..RegisteredMaxRemovals : v10[i].todo + v10[i].done <= RegisteredPageSize
  BY DEF RegisteredTypes, RegisteredRemovals
<1>2. k \in 1..RegisteredMaxRemovals
  BY <1>1, RegisteredFirst DEF Registered!Removing
<1>3. v10' = [v10 EXCEPT ![k] = r]
  OBVIOUS
<1> HIDE DEF k
<1>4. v10' \in [1..RegisteredMaxRemovals -> RegisteredRemovals] /\ v10'[k] = r
  BY <1>1, <1>2, <1>3
<1>5. k \in (Registered!Removing)'
  BY <1>2, <1>4 DEF Registered!Removing
<1> QED
  BY <1>1, <1>2, <1>4, <1>5

\* A step after which a request is under way.
LEMMA RegisteredAwaits ==
  ASSUME RegisteredTypes', (Registered!Asked)' # {}, v9' => (Registered!Removing)' # {}
  PROVE  RegisteredInv'
  BY DEF RegisteredInv, Registered!HeaderMatchesRows, Registered!ListSpinner

\* A step that leaves list and requests alone.
LEMMA RegisteredRests ==
  ASSUME RegisteredInv, UNCHANGED <<v2, v3, v4, v5, v6, v11>>, RegisteredTypes',
         v9' => (Registered!Removing)' # {}
  PROVE  RegisteredInv'
  BY DEF Registered!Asked, RegisteredInv, Registered!HeaderMatchesRows, Registered!ListSpinner

\* What the actions leave of the removals.
LEMMA RegisteredWork ==
  ASSUME RegisteredInv, v10' = v10, v9' => v9
  PROVE  v9' => (Registered!Removing)' # {}
  BY DEF RegisteredInv, Registered!ListSpinner, Registered!Removing

\* The steps that ask for a page of the list.
LEMMA RegisteredSearches ==
  ASSUME RegisteredInv,
         \/ Registered!LibraryChanged
         \/ \E q \in RegisteredQueries : Registered!Search(q)
         \/ Registered!Refresh
         \/ \E offset \in 0..RegisteredMaxFiles : Registered!GoToPage(offset)
  PROVE  RegisteredInv'
<1> USE DEF Registered!dialogs, Registered!work, Registered!Fetch
<1>t. RegisteredTypes
  BY DEF RegisteredInv
<1>1. PICK offset \in RegisteredOffsets, q \in RegisteredQueries :
        /\ Registered!FetchBy(0, offset, q)
        /\ v3' \in RegisteredOffsets /\ v4' = v4 /\ v1' \in RegisteredOffsets
        /\ UNCHANGED <<v2, v7, v8, v9, v10, v11>>
  <2>1. CASE Registered!LibraryChanged
    BY <1>t, <2>1, RegisteredZero
    DEF Registered!LibraryChanged, RegisteredTypes, RegisteredOffsets
  <2>2. ASSUME NEW q \in RegisteredQueries, Registered!Search(q)
        PROVE  /\ Registered!FetchBy(0, 0, q)
               /\ v3' \in RegisteredOffsets /\ v4' = v4 /\ v1' \in RegisteredOffsets
               /\ UNCHANGED <<v2, v7, v8, v9, v10, v11>>
    BY <1>t, <2>2, RegisteredZero DEF Registered!Search, RegisteredTypes
  <2>3. CASE Registered!Refresh
    BY <1>t, <2>3 DEF Registered!Refresh, RegisteredTypes
  <2>4. ASSUME NEW offset \in 0..RegisteredMaxFiles, Registered!GoToPage(offset)
        PROVE  /\ Registered!FetchBy(0, offset, v4)
               /\ v3' \in RegisteredOffsets /\ v4' = v4 /\ v1' \in RegisteredOffsets
               /\ UNCHANGED <<v2, v7, v8, v9, v10, v11>>
    BY <1>t, <2>4 DEF Registered!GoToPage, RegisteredTypes, RegisteredOffsets
  <2>5. v4 \in RegisteredQueries /\ RegisteredOffsets = 0..RegisteredMaxFiles
    BY <1>t DEF RegisteredTypes, RegisteredOffsets
  <2> QED
    BY <2>1, <2>2, <2>3, <2>4, <2>5, RegisteredZero
<1>2. 0 \in 0..RegisteredMaxRemovals
  BY RegisteredAssumption
<1>3. /\ v6' \in [1..RegisteredMaxFetches ->
               [asked : BOOLEAN, by : 0..RegisteredMaxRemovals, offset : RegisteredOffsets,
                query : RegisteredQueries]]
      /\ v5' = TRUE /\ (Registered!Asked)' # {}
  BY <1>t, <1>1, <1>2, RegisteredFetches
<1>4. RegisteredTypes'
  BY <1>t, <1>1, <1>3 DEF RegisteredTypes
<1>5. v9' => (Registered!Removing)' # {}
  BY <1>1, RegisteredWork
<1> QED
  BY <1>3, <1>4, <1>5, RegisteredAwaits

\* The dialogs.
LEMMA RegisteredTalks ==
  ASSUME RegisteredInv,
         Registered!AskToDelete \/ Registered!AskToClear \/ Registered!CloseDialog
  PROVE  RegisteredInv'
<1> USE DEF Registered!list, Registered!work
<1>t. RegisteredTypes
  BY DEF RegisteredInv
<1>1. UNCHANGED <<v1, v2, v3, v4, v5, v6, v9, v10, v11>> /\ v8' \in BOOLEAN
  BY <1>t DEF Registered!AskToDelete, Registered!AskToClear, Registered!CloseDialog, RegisteredTypes
<1>2. v7' \in [targets : RegisteredRows, rows : RegisteredRows, offset : RegisteredOffsets,
               query : RegisteredQueries]
  <2>1. ASSUME NEW n \in RegisteredRows
        PROVE  Registered!Rendering(n) \in
                 [targets : RegisteredRows, rows : RegisteredRows, offset : RegisteredOffsets,
                  query : RegisteredQueries]
    BY <1>t DEF Registered!Rendering, RegisteredTypes
  <2>2. \A n \in 1..v2.rows : n \in RegisteredRows
    BY <1>t, RegisteredAssumption DEF RegisteredTypes, RegisteredRows
  <2>3. v2.rows # 0 => 1 \in RegisteredRows
    BY <1>t, RegisteredAssumption DEF RegisteredTypes, RegisteredRows
  <2>4. Registered!Closed \in
          [targets : RegisteredRows, rows : RegisteredRows, offset : RegisteredOffsets,
           query : RegisteredQueries]
    BY RegisteredZero DEF Registered!Closed
  <2>5. CASE Registered!AskToDelete
    BY <2>1, <2>2, <2>3, <2>5 DEF Registered!AskToDelete, Registered!RowButton
  <2>6. CASE Registered!AskToClear
    BY <1>t, <2>6 DEF Registered!AskToClear, RegisteredTypes
  <2>7. CASE Registered!CloseDialog
    BY <1>t, <2>4, <2>7 DEF Registered!CloseDialog, RegisteredTypes
  <2> QED
    BY <2>5, <2>6, <2>7
<1>3. RegisteredTypes'
  BY <1>t, <1>1, <1>2 DEF RegisteredTypes
<1> QED
  BY <1>1, <1>3, RegisteredWork, RegisteredRests

\* A removal begins.
LEMMA RegisteredRemoves ==
  ASSUME RegisteredInv,
         Registered!PressEnter \/ Registered!PressDelete \/ Registered!ClearAll
  PROVE  RegisteredInv'
<1> USE DEF Registered!list, Registered!dialogs
<1>t. RegisteredTypes
  BY DEF RegisteredInv
<1>1. UNCHANGED <<v1, v2, v3, v4, v5, v6, v7, v8, v11>> /\ v9' = TRUE
      /\ Registered!Removing # DOMAIN v10
  BY DEF Registered!PressEnter, Registered!PressDelete, Registered!ClearAll,
         Registered!StartRemoval
<1>2. PICK r \in RegisteredRemovals :
        /\ r.stage # "none" /\ r.todo + r.done <= RegisteredPageSize
        /\ v10' = [v10 EXCEPT ![Registered!FirstOf(DOMAIN v10 \ Registered!Removing)] = r]
  <2>1. ASSUME NEW c \in [targets : RegisteredRows, rows : RegisteredRows,
                          offset : RegisteredOffsets, query : RegisteredQueries]
        PROVE  LET r == [stage |-> "files", todo |-> c.targets, done |-> 0, rows |-> c.rows,
                         offset |-> c.offset, query |-> c.query]
               IN  /\ r \in RegisteredRemovals /\ r.stage # "none"
                   /\ r.todo + r.done <= RegisteredPageSize
    BY RegisteredZero DEF RegisteredRemovals, RegisteredRows
  <2>2. CASE Registered!PressEnter
    <3>1. v7 \in [targets : RegisteredRows, rows : RegisteredRows,
                  offset : RegisteredOffsets, query : RegisteredQueries]
      BY <1>t DEF RegisteredTypes
    <3> QED
      BY <2>1, <2>2, <3>1 DEF Registered!PressEnter, Registered!StartRemoval
  <2>3. CASE Registered!PressDelete
    <3>1. Registered!Rendering(v7.targets) \in
            [targets : RegisteredRows, rows : RegisteredRows,
             offset : RegisteredOffsets, query : RegisteredQueries]
      BY <1>t DEF RegisteredTypes, Registered!Rendering
    <3> QED
      BY <2>1, <2>3, <3>1 DEF Registered!PressDelete, Registered!StartRemoval
  <2>4. CASE Registered!ClearAll
    <3>1. [Registered!NoRemoval EXCEPT !.stage = "all"] =
            [stage |-> "all", todo |-> 0, done |-> 0, rows |-> 0, offset |-> 0,
             query |-> RegisteredNoQuery]
      BY DEF Registered!NoRemoval
    <3>2. [stage |-> "all", todo |-> 0, done |-> 0, rows |-> 0, offset |-> 0,
           query |-> RegisteredNoQuery] \in RegisteredRemovals
      BY RegisteredZero DEF RegisteredRemovals
    <3> DEFINE r == [Registered!NoRemoval EXCEPT !.stage = "all"]
    <3>3. r \in RegisteredRemovals /\ r.stage # "none" /\ r.todo + r.done <= RegisteredPageSize
      BY <3>1, <3>2, RegisteredAssumption
    <3>4. v10' = [v10 EXCEPT ![Registered!FirstOf(DOMAIN v10 \ Registered!Removing)] = r]
      BY <2>4 DEF Registered!ClearAll
    <3> HIDE DEF r
    <3> QED
      BY <3>3, <3>4
  <2> QED
    BY <2>2, <2>3, <2>4
<1>3. /\ v10' \in [1..RegisteredMaxRemovals -> RegisteredRemovals]
      /\ \A i \in 1..RegisteredMaxRemovals : v10'[i].todo + v10'[i].done <= RegisteredPageSize
      /\ (Registered!Removing)' # {}
  BY <1>t, <1>1, <1>2, RegisteredStarts
<1>4. RegisteredTypes'
  BY <1>t, <1>1, <1>3 DEF RegisteredTypes, RegisteredRemovals
<1> QED
  BY <1>1, <1>3, <1>4, RegisteredRests

\* A removal goes on or ends.
LEMMA RegisteredGoesOn ==
  ASSUME RegisteredTypes, NEW i \in 1..RegisteredMaxRemovals, NEW r \in RegisteredRemovals,
         r.todo + r.done <= RegisteredPageSize, v10' = [v10 EXCEPT ![i] = r]
  PROVE  /\ v10' \in [1..RegisteredMaxRemovals -> RegisteredRemovals]
         /\ \A j \in 1..RegisteredMaxRemovals : v10'[j].todo + v10'[j].done <= RegisteredPageSize
         /\ r.stage # "none" => (Registered!Removing)' # {}
  BY DEF RegisteredTypes, RegisteredRemovals, Registered!Removing

\* A removal goes on to its next document.
LEMMA RegisteredDeletes ==
  ASSUME RegisteredInv, NEW i \in DOMAIN v10, Registered!DeleteNext(i)
  PROVE  RegisteredInv'
<1> USE DEF Registered!list, Registered!dialogs
<1>t. RegisteredTypes
  BY DEF RegisteredInv
<1>1. /\ i \in 1..RegisteredMaxRemovals
      /\ v10 \in [1..RegisteredMaxRemovals -> RegisteredRemovals]
      /\ v10[i].todo + v10[i].done <= RegisteredPageSize
      /\ v10[i] \in RegisteredRemovals
  BY <1>t DEF RegisteredTypes, RegisteredRemovals
<1>2. /\ UNCHANGED <<v2, v3, v4, v5, v6, v7, v8, v9, v11>>
      /\ v10[i].stage = "files" /\ v10[i].todo # 0
      /\ v1' \in {v1, v1 - 1} /\ (v1 = 0 => v1' = v1)
      /\ \/ v10' = [v10 EXCEPT ![i].todo = @ - 1, ![i].done = @ + 1]
         \/ v10' = [v10 EXCEPT ![i].todo = @ - 1]
  BY DEF Registered!DeleteNext
<1>3. v1' \in RegisteredOffsets
  BY <1>t, <1>2, RegisteredAssumption DEF RegisteredTypes, RegisteredOffsets
<1>4. /\ v10[i].todo \in RegisteredRows /\ v10[i].done \in RegisteredRows
      /\ v10[i].rows \in RegisteredRows /\ v10[i].offset \in RegisteredOffsets
      /\ v10[i].query \in RegisteredQueries
  BY <1>1 DEF RegisteredRemovals
<1>5. /\ v10[i].todo - 1 \in RegisteredRows
      /\ v10[i].todo - 1 + v10[i].done <= RegisteredPageSize
      /\ v10[i].done + 1 \in RegisteredRows
      /\ v10[i].todo - 1 + (v10[i].done + 1) <= RegisteredPageSize
  <2>1. \A t, d \in RegisteredRows : t # 0 /\ t + d <= RegisteredPageSize =>
          /\ t - 1 \in RegisteredRows /\ t - 1 + d <= RegisteredPageSize
          /\ d + 1 \in RegisteredRows /\ t - 1 + (d + 1) <= RegisteredPageSize
    BY RegisteredAssumption DEF RegisteredRows
  <2>2. v10[i].todo # 0 /\ v10[i].todo + v10[i].done <= RegisteredPageSize
    BY <1>1, <1>2
  <2> QED
    BY <1>4, <2>1, <2>2
<1> DEFINE R(t, d) == [stage |-> "files", todo |-> t, done |-> d, rows |-> v10[i].rows,
                       offset |-> v10[i].offset, query |-> v10[i].query]
<1>6. \A t, d \in RegisteredRows : R(t, d) \in RegisteredRemovals /\ R(t, d).todo = t
                                   /\ R(t, d).done = d /\ R(t, d).stage = "files"
  BY <1>4 DEF RegisteredRemovals
<1>7. \E d \in {v10[i].done, v10[i].done + 1} :
        v10' = [v10 EXCEPT ![i] = R(v10[i].todo - 1, d)]
  <2>1. v10[i] = [stage |-> "files", todo |-> v10[i].todo, done |-> v10[i].done,
                  rows |-> v10[i].rows, offset |-> v10[i].offset, query |-> v10[i].query]
    BY <1>1, <1>2 DEF RegisteredRemovals
  <2>2. CASE v10' = [v10 EXCEPT ![i].todo = @ - 1, ![i].done = @ + 1]
    <3>1. v10' = [v10 EXCEPT ![i] = [@ EXCEPT !.todo = v10[i].todo - 1,
                                               !.done = v10[i].done + 1]]
      BY <2>2, <1>1
    <3>2. [v10[i] EXCEPT !.todo = v10[i].todo - 1, !.done = v10[i].done + 1]
            = R(v10[i].todo - 1, v10[i].done + 1)
      <4>1. [v10[i] EXCEPT !.todo = v10[i].todo - 1] = R(v10[i].todo - 1, v10[i].done)
        BY <2>1
      <4>2. [R(v10[i].todo - 1, v10[i].done) EXCEPT !.done = v10[i].done + 1]
              = R(v10[i].todo - 1, v10[i].done + 1)
        OBVIOUS
      <4> QED
        BY <4>1, <4>2
    <3> QED
      BY <3>1, <3>2
  <2>3. CASE v10' = [v10 EXCEPT ![i].todo = @ - 1]
    <3>1. [v10[i] EXCEPT !.todo = v10[i].todo - 1] = R(v10[i].todo - 1, v10[i].done)
      BY <2>1
    <3> QED
      BY <2>3, <3>1
  <2> QED
    BY <1>2, <2>3
<1>8. PICK d \in {v10[i].done, v10[i].done + 1} :
        v10' = [v10 EXCEPT ![i] = R(v10[i].todo - 1, d)]
  BY <1>7
<1>9. /\ R(v10[i].todo - 1, d) \in RegisteredRemovals
      /\ R(v10[i].todo - 1, d).todo + R(v10[i].todo - 1, d).done <= RegisteredPageSize
      /\ R(v10[i].todo - 1, d).stage # "none"
  <2>1. d \in RegisteredRows /\ v10[i].todo - 1 + d <= RegisteredPageSize
    BY <1>4, <1>5
  <2> HIDE DEF R
  <2>2. /\ R(v10[i].todo - 1, d) \in RegisteredRemovals
        /\ R(v10[i].todo - 1, d).todo = v10[i].todo - 1
        /\ R(v10[i].todo - 1, d).done = d
        /\ R(v10[i].todo - 1, d).stage = "files"
    BY <1>5, <1>6, <2>1
  <2> QED
    BY <2>1, <2>2
<1> HIDE DEF R
<1>10. /\ v10' \in [1..RegisteredMaxRemovals -> RegisteredRemovals]
       /\ \A j \in 1..RegisteredMaxRemovals :
            v10'[j].todo + v10'[j].done <= RegisteredPageSize
       /\ (Registered!Removing)' # {}
  BY <1>t, <1>1, <1>8, <1>9, RegisteredGoesOn
<1>11. RegisteredTypes'
  BY <1>t, <1>2, <1>3, <1>10 DEF RegisteredTypes, RegisteredRemovals
<1> QED
  BY <1>2, <1>10, <1>11, RegisteredRests

\* The removals of this page ask for the list anew.
LEMMA RegisteredAsksAgain ==
  ASSUME RegisteredInv, NEW i \in DOMAIN v10,
         Registered!DeletedAll(i) \/ Registered!Cleared(i)
  PROVE  RegisteredInv'
<1> USE DEF Registered!list, Registered!dialogs
<1>t. RegisteredTypes
  BY DEF RegisteredInv
<1>1. /\ i \in 1..RegisteredMaxRemovals
      /\ v10 \in [1..RegisteredMaxRemovals -> RegisteredRemovals]
      /\ v10[i].todo + v10[i].done <= RegisteredPageSize
      /\ v10[i] \in RegisteredRemovals
  BY <1>t DEF RegisteredTypes, RegisteredRemovals
<1>2. i \in 0..RegisteredMaxRemovals
  BY <1>1
<1>3. /\ v10[i].todo \in RegisteredRows /\ v10[i].done \in RegisteredRows
      /\ v10[i].rows \in RegisteredRows /\ v10[i].offset \in RegisteredOffsets
      /\ v10[i].query \in RegisteredQueries
  BY <1>1 DEF RegisteredRemovals
<1>4. PICK offset \in RegisteredOffsets, q \in RegisteredQueries :
        /\ Registered!FetchBy(i, offset, q)
        /\ v1' \in RegisteredOffsets /\ v3' \in RegisteredOffsets /\ v4' \in RegisteredQueries
        /\ UNCHANGED <<v2, v7, v8, v9, v11>>
  <2>1. CASE Registered!DeletedAll(i)
    <3>1. Registered!NextOffset(v10[i]) \in RegisteredOffsets
      BY <1>3, RegisteredAssumption
      DEF Registered!NextOffset, Registered!Less, RegisteredOffsets, RegisteredRows
    <3>2. v1 \in RegisteredOffsets /\ v3 \in RegisteredOffsets /\ v4 \in RegisteredQueries
      BY <1>t DEF RegisteredTypes
    <3>3. /\ Registered!FetchBy(i, Registered!NextOffset(v10[i]), v10[i].query)
          /\ UNCHANGED <<v1, v2, v3, v4, v7, v8, v9, v11>>
      BY <2>1 DEF Registered!DeletedAll
    <3> QED
      BY <1>3, <3>1, <3>2, <3>3
  <2>2. CASE Registered!Cleared(i)
    BY <2>2, RegisteredZero DEF Registered!Cleared
  <2> QED
    BY <2>1, <2>2
<1>5. PICK r \in RegisteredRemovals :
        /\ r.stage # "none" /\ r.todo + r.done <= RegisteredPageSize
        /\ v10' = [v10 EXCEPT ![i] = r]
  <2>1. CASE Registered!DeletedAll(i)
    <3>1. [Registered!NoRemoval EXCEPT !.stage = "list"] =
            [stage |-> "list", todo |-> 0, done |-> 0, rows |-> 0, offset |-> 0,
             query |-> RegisteredNoQuery]
      BY DEF Registered!NoRemoval
    <3>2. [stage |-> "list", todo |-> 0, done |-> 0, rows |-> 0, offset |-> 0,
           query |-> RegisteredNoQuery] \in RegisteredRemovals
      BY RegisteredZero DEF RegisteredRemovals
    <3> DEFINE r == [Registered!NoRemoval EXCEPT !.stage = "list"]
    <3>3. r \in RegisteredRemovals /\ r.stage # "none" /\ r.todo + r.done <= RegisteredPageSize
      BY <3>1, <3>2, RegisteredAssumption
    <3>4. v10' = [v10 EXCEPT ![i] = r]
      BY <2>1 DEF Registered!DeletedAll
    <3> HIDE DEF r
    <3> QED
      BY <3>3, <3>4
  <2>2. CASE Registered!Cleared(i)
    <3> DEFINE r == [stage |-> "listAll", todo |-> v10[i].todo, done |-> v10[i].done,
                     rows |-> v10[i].rows, offset |-> v10[i].offset, query |-> v10[i].query]
    <3>1. r \in RegisteredRemovals /\ r.stage # "none" /\ r.todo = v10[i].todo
          /\ r.done = v10[i].done
      BY <1>3 DEF RegisteredRemovals
    <3>2. v10' = [v10 EXCEPT ![i].stage = "listAll"]
      BY <2>2 DEF Registered!Cleared
    <3>3. [v10[i] EXCEPT !.stage = "listAll"] = r
      BY <1>1 DEF RegisteredRemovals
    <3>4. v10' = [v10 EXCEPT ![i] = r]
      BY <3>2, <3>3
    <3> HIDE DEF r
    <3>5. r.todo + r.done <= RegisteredPageSize
      BY <1>1, <3>1
    <3> QED
      BY <3>1, <3>4, <3>5
  <2> QED
    BY <2>1, <2>2
<1>6. /\ v10' \in [1..RegisteredMaxRemovals -> RegisteredRemovals]
      /\ \A j \in 1..RegisteredMaxRemovals :
           v10'[j].todo + v10'[j].done <= RegisteredPageSize
      /\ (Registered!Removing)' # {}
  BY <1>t, <1>1, <1>5, RegisteredGoesOn
<1>7. /\ v6' \in [1..RegisteredMaxFetches ->
               [asked : BOOLEAN, by : 0..RegisteredMaxRemovals, offset : RegisteredOffsets,
                query : RegisteredQueries]]
      /\ v5' = TRUE /\ (Registered!Asked)' # {}
  BY <1>t, <1>2, <1>4, RegisteredFetches
<1>8. RegisteredTypes'
  BY <1>t, <1>4, <1>6, <1>7 DEF RegisteredTypes, RegisteredRemovals
<1> QED
  BY <1>6, <1>7, <1>8, RegisteredAwaits

\* The finally of a removal.
LEMMA RegisteredFinishes ==
  ASSUME RegisteredTypes, NEW i \in 1..RegisteredMaxRemovals, Registered!Finish(i)
  PROVE  /\ v10' \in [1..RegisteredMaxRemovals -> RegisteredRemovals]
         /\ \A j \in 1..RegisteredMaxRemovals : v10'[j].todo + v10'[j].done <= RegisteredPageSize
         /\ v9' = FALSE /\ v8' \in BOOLEAN
         /\ v7' \in [targets : RegisteredRows, rows : RegisteredRows,
                     offset : RegisteredOffsets, query : RegisteredQueries]
<1>1. Registered!NoRemoval \in RegisteredRemovals
      /\ Registered!NoRemoval.todo + Registered!NoRemoval.done <= RegisteredPageSize
  BY RegisteredZero, RegisteredAssumption DEF Registered!NoRemoval, RegisteredRemovals
<1>2. v10' = [v10 EXCEPT ![i] = Registered!NoRemoval] /\ v9' = FALSE
  BY DEF Registered!Finish
<1>3. /\ v10' \in [1..RegisteredMaxRemovals -> RegisteredRemovals]
      /\ \A j \in 1..RegisteredMaxRemovals : v10'[j].todo + v10'[j].done <= RegisteredPageSize
  BY <1>1, <1>2, RegisteredGoesOn
<1>4. /\ v8 \in BOOLEAN
      /\ v7 \in [targets : RegisteredRows, rows : RegisteredRows,
                 offset : RegisteredOffsets, query : RegisteredQueries]
  BY DEF RegisteredTypes
<1>5. Registered!Closed \in [targets : RegisteredRows, rows : RegisteredRows,
                             offset : RegisteredOffsets, query : RegisteredQueries]
  BY RegisteredZero DEF Registered!Closed
<1>6. v8' \in {FALSE, v8} /\ v7' \in {Registered!Closed, v7}
  BY DEF Registered!Finish
<1> QED
  BY <1>2, <1>3, <1>4, <1>5, <1>6

\* The removal of everything fails.
LEMMA RegisteredClearFails ==
  ASSUME RegisteredInv, NEW i \in DOMAIN v10, Registered!ClearFails(i)
  PROVE  RegisteredInv'
<1>t. RegisteredTypes
  BY DEF RegisteredInv
<1>1. i \in 1..RegisteredMaxRemovals
  BY <1>t DEF RegisteredTypes
<1>2. Registered!Finish(i) /\ UNCHANGED <<v1, v2, v3, v4, v5, v6, v11>>
  BY DEF Registered!ClearFails, Registered!list
<1>3. RegisteredTypes' /\ v9' = FALSE
  BY <1>t, <1>1, <1>2, RegisteredFinishes DEF RegisteredTypes, RegisteredRemovals
<1> QED
  BY <1>2, <1>3, RegisteredRests

\* A request is settled.
LEMMA RegisteredSettles ==
  ASSUME RegisteredInv, NEW i \in DOMAIN v6, Registered!Settle(i)
  PROVE  /\ v1' \in RegisteredOffsets /\ v5' = FALSE
         /\ v6' \in [1..RegisteredMaxFetches ->
               [asked : BOOLEAN, by : 0..RegisteredMaxRemovals, offset : RegisteredOffsets,
                query : RegisteredQueries]]
         /\ v10' \in [1..RegisteredMaxRemovals -> RegisteredRemovals]
         /\ \A j \in 1..RegisteredMaxRemovals : v10'[j].todo + v10'[j].done <= RegisteredPageSize
         /\ v8' \in BOOLEAN /\ v9' \in BOOLEAN
         /\ v7' \in [targets : RegisteredRows, rows : RegisteredRows,
                     offset : RegisteredOffsets, query : RegisteredQueries]
         /\ v9' => (Registered!Removing)' # {}
<1> DEFINE Fetches == [asked : BOOLEAN, by : 0..RegisteredMaxRemovals,
                       offset : RegisteredOffsets, query : RegisteredQueries]
           Dialogs == [targets : RegisteredRows, rows : RegisteredRows,
                       offset : RegisteredOffsets, query : RegisteredQueries]
<1>t. RegisteredTypes
  BY DEF RegisteredInv
<1>1. /\ v6 \in [1..RegisteredMaxFetches -> Fetches] /\ v1 \in RegisteredOffsets
      /\ v6[i].by \in 0..RegisteredMaxRemovals
      /\ v10 \in [1..RegisteredMaxRemovals -> RegisteredRemovals]
      /\ \A j \in 1..RegisteredMaxRemovals : v10[j].todo + v10[j].done <= RegisteredPageSize
      /\ v7 \in Dialogs /\ v8 \in BOOLEAN /\ v9 \in BOOLEAN
  BY <1>t DEF RegisteredTypes, RegisteredRemovals
<1>2. v6' = [v6 EXCEPT ![i] = Registered!NoFetch] /\ v5' = FALSE /\ v1' = v1
  BY DEF Registered!Settle
<1>3. Registered!NoFetch \in Fetches
  BY RegisteredZero, RegisteredAssumption DEF Registered!NoFetch
<1>4. v6' \in [1..RegisteredMaxFetches -> Fetches]
  <2> HIDE DEF Fetches
  <2> QED
    BY <1>1, <1>2, <1>3
<1>5. CASE v6[i].by = 0
  BY <1>5, RegisteredWork, <1>1, <1>4 DEF Registered!Settle, Registered!dialogs, Registered!work
<1>6. CASE v6[i].by # 0
  <2>1. v6[i].by \in 1..RegisteredMaxRemovals
    BY <1>1, <1>6
  <2>2. Registered!Finish(v6[i].by)
    BY <1>6 DEF Registered!Settle
  <2> QED
    BY <1>t, <1>1, <1>2, <1>4, <2>1, <2>2, RegisteredFinishes
<1> QED
  BY <1>5, <1>6

\* A request for the list is answered, or fails.
LEMMA RegisteredAnswers ==
  ASSUME RegisteredInv, NEW i \in DOMAIN v6, Registered!Arrives(i) \/ Registered!Fails(i)
  PROVE  RegisteredInv'
<1>t. RegisteredTypes
  BY DEF RegisteredInv
<1>1. Registered!Settle(i)
  BY DEF Registered!Arrives, Registered!Fails
<1>2. v6[i].offset \in RegisteredOffsets /\ v6[i].query \in RegisteredQueries
  BY <1>t DEF RegisteredTypes
<1>3. /\ v2' \in [rows : RegisteredRows, total : RegisteredOffsets,
                  offset : RegisteredOffsets, query : RegisteredQueries]
      /\ v3' \in RegisteredOffsets /\ v4' \in RegisteredQueries /\ v11' \in BOOLEAN
      /\ ~v11' => v3' = v2'.offset /\ v4' = v2'.query
  <2>1. CASE Registered!Arrives(i)
    <3> DEFINE p == Registered!PageOf(v6[i].offset, v6[i].query)
    <3>1. /\ v2' = p
          /\ v3' = v6[i].offset /\ v4' = v6[i].query /\ v11' = FALSE
      BY <2>1 DEF Registered!Arrives, Registered!TakeHeader
    <3>2. PICK all \in RegisteredOffsets :
            p = [rows |-> Registered!Least(RegisteredPageSize,
                                           Registered!Less(v6[i].offset, all)),
                 total |-> all, offset |-> v6[i].offset, query |-> v6[i].query]
      BY <1>t, RegisteredAssumption
      DEF RegisteredTypes, RegisteredOffsets, Registered!Least, Registered!PageOf
    <3>3. Registered!Least(RegisteredPageSize, Registered!Less(v6[i].offset, all))
            \in RegisteredRows
      BY <1>2, RegisteredAssumption
      DEF RegisteredRows, RegisteredOffsets, Registered!Least, Registered!Less
    <3>4. /\ p \in [rows : RegisteredRows, total : RegisteredOffsets,
                    offset : RegisteredOffsets, query : RegisteredQueries]
          /\ p.offset = v6[i].offset /\ p.query = v6[i].query
      BY <1>2, <3>2, <3>3
    <3> HIDE DEF p
    <3> QED
      BY <1>2, <3>1, <3>4
  <2>2. CASE Registered!Fails(i)
    BY <1>t, <2>2 DEF Registered!Fails, RegisteredTypes
  <2> QED
    BY <2>1, <2>2
<1>4. RegisteredTypes'
  BY <1>1, <1>3, RegisteredSettles DEF RegisteredTypes, RegisteredRemovals
<1>5. v5' = FALSE /\ (v9' => (Registered!Removing)' # {})
  BY <1>1, RegisteredSettles
<1> QED
  BY <1>3, <1>4, <1>5
  DEF RegisteredInv, Registered!HeaderMatchesRows, Registered!ListSpinner

\* Every step of the list of registered documents.
LEMMA RegisteredKeeps ==
  ASSUME RegisteredInv, Registered!Next \/ UNCHANGED Registered!vars
  PROVE  RegisteredInv'
<1>1. CASE Registered!User
  BY <1>1, RegisteredSearches, RegisteredTalks, RegisteredRemoves DEF Registered!User
<1>2. CASE Registered!Server
  BY <1>2, RegisteredSearches, RegisteredDeletes, RegisteredAsksAgain, RegisteredClearFails,
     RegisteredAnswers DEF Registered!Server
<1>3. CASE UNCHANGED Registered!vars
  BY <1>3, RegisteredWork, RegisteredRests
  DEF Registered!vars, Registered!list, Registered!dialogs, Registered!work, RegisteredInv,
      RegisteredTypes
<1> QED
  BY <1>1, <1>2, <1>3 DEF Registered!Next

\* What is said of the library belongs to the rows that are shown, however requests, removals
\* and rescans overlap: on the empty search page, in the registered files, and in the groups
\* with the same contents.
THEOREM ListsFollow == Spec => []ListsFollowTheLibrary
<1> DEFINE Inv == /\ screen = "landing" => LandingInv
                  /\ screen = "files" => RegisteredInv
                  /\ screen = "duplicates" => DuplicatesInv
<1>1. Init => Inv
  BY LandingInit, RegisteredInit, DuplicatesInit DEF Init
<1>2. Inv /\ [Next]_vars => Inv'
  BY OnePage, LandingKeeps, RegisteredKeeps, DuplicatesKeeps
<1>3. Inv => ListsFollowTheLibrary
  BY LandingFollows, DuplicatesRange DEF RegisteredInv, ListsFollowTheLibrary
<1> QED
  BY <1>1, <1>2, <1>3, PTL DEF Spec

-----------------------------------------------------------------------------
(* The download of an update. *)

UpdateNames == Update!Names
UpdateContents == [holds : {"nothing", "other"} \cup UpdateTags, ours : BOOLEAN]
UpdateStages == {"idle", "checksum", "look", "request", "body", "verify"}
UpdateReleases == [tag : UpdateTags \cup {UpdateNoTag}, zip : BOOLEAN, sha : BOOLEAN]

\* What the variables hold, the download's record and the folder included.
UpdateTypes ==
  /\ v1 \in [tag : UpdateTags, zip : BOOLEAN, sha : BOOLEAN]
  /\ v2 \in [UpdateNames -> UpdateContents]
  /\ v4 \in UpdateReleases /\ v6 \in UpdateReleases
  /\ v5 \in [at : UpdateStages, tag : UpdateTags \cup {UpdateNoTag},
             name : UpdateNames \cup {Update!NoName}]
  /\ v9 \in UpdateNames \cup {Update!NoName}
  /\ v3 \in BOOLEAN /\ v7 \in BOOLEAN /\ v8 \in BOOLEAN /\ v10 \in BOOLEAN
  /\ v11 \in UpdateTags \cup {UpdateNoTag} /\ v13 \subseteq UpdateNames
  /\ v14 \in BOOLEAN

\* A download has a name from the request to its end, is for the release that the dialog
\* offers, and shows no file; the file it has not created yet is not the application's.
UpdateJob ==
  /\ v5.at \in {"request", "body", "verify"} <=> v5.name \in UpdateNames
  /\ v5.at # "idle" => v3 /\ v8 /\ v5.tag = v6.tag /\ v6.tag \in UpdateTags /\ v9 = Update!NoName
  /\ v7 => v6.tag = v4.tag /\ v6.tag \in UpdateTags /\ v3
  /\ ~v3 => v9 = Update!NoName /\ ~v7
  /\ v9 # Update!NoName => v6.tag \in UpdateTags
  /\ v5.at = "request" => ~v2[v5.name].ours

UpdateInv == UpdateTypes /\ UpdateJob /\ Update!ShownIsVerified /\ Update!NoLeftovers

\* The absence of a name is not the name of a file.
LEMMA UpdateNoName == Update!NoName \notin UpdateNames
  BY UpdateAssumption DEF UpdateNames, Update!Names, Update!NoName

\* What a file can hold, and what no file of a release can be.
LEMMA UpdateHolds ==
  /\ Update!Absent \in UpdateContents /\ Update!Foreign \in UpdateContents
  /\ Update!Partial \in UpdateContents
  /\ \A t \in UpdateTags, b \in BOOLEAN : Update!Zip(t, b) \in UpdateContents
  /\ Update!Absent.holds = "nothing" /\ ~Update!Absent.ours
  /\ ~Update!Foreign.ours /\ \A t : ~Update!Zip(t, FALSE).ours
  /\ \A t, b : Update!Zip(t, b).holds = t
  /\ "other" \notin UpdateTags /\ "nothing" \notin UpdateTags /\ UpdateNoTag \notin UpdateTags
  BY UpdateAssumption
  DEF UpdateContents, Update!Absent, Update!Foreign, Update!Partial, Update!Zip

\* Nothing is downloaded, shown or known of a release at the start.
LEMMA UpdateInit == Update!Init => UpdateInv
<1> SUFFICES ASSUME Update!Init PROVE UpdateInv
  OBVIOUS
<1>1. v2 \in [UpdateNames -> UpdateContents] /\ \A n \in UpdateNames : ~v2[n].ours
  BY UpdateHolds DEF Update!Init, UpdateNames
<1>2. Update!NoRelease \in UpdateReleases /\ v5 = Update!Idle /\ v5.at = "idle"
      /\ v5.name = Update!NoName
  BY DEF Update!Init, Update!NoRelease, UpdateReleases, Update!Idle
<1>3. v5 \in [at : UpdateStages, tag : UpdateTags \cup {UpdateNoTag},
              name : UpdateNames \cup {Update!NoName}]
  BY <1>2 DEF Update!Idle, UpdateStages
<1>4. UpdateTypes
  BY <1>1, <1>2, <1>3 DEF Update!Init, UpdateTypes
<1>5. UpdateJob
  BY <1>2, UpdateNoName DEF Update!Init, UpdateJob
<1>6. Update!NoLeftovers
  BY <1>1 DEF Update!NoLeftovers, UpdateNames
<1> QED
  BY <1>4, <1>5, <1>6 DEF UpdateInv, Update!Init, Update!ShownIsVerified

\* The first of some names is one of them.
LEMMA UpdateFirst ==
  ASSUME NEW S \in SUBSET UpdateNames, S # {}
  PROVE  Update!FirstName(S) \in S
<1> DEFINE N == {n[2] : n \in S}
<1>1. \A n \in UpdateNames : n[2] \in Nat
  BY DEF UpdateNames, Update!Names
<1>2. N \in SUBSET Nat /\ N # {}
  BY <1>1
<1>3. PICK k \in N : \A l \in N : k <= l
  BY <1>2, HasLeast
<1>4. \E n \in S : \A m \in S : n[2] <= m[2]
  BY <1>3
<1> QED
  BY <1>4 DEF Update!FirstName

\* The check of a start, and the dialog.
LEMMA UpdateChecks ==
  ASSUME UpdateInv, Update!CheckSucceeds \/ Update!CheckFails \/ Update!Dismiss
  PROVE  UpdateInv'
<1>t. UpdateTypes /\ UpdateJob
  BY DEF UpdateInv
<1>1. UNCHANGED <<v1, v2, v5, v8, v13, v14>>
  BY DEF Update!CheckSucceeds, Update!CheckFails, Update!Dismiss, Update!dialog
<1>2. CASE Update!CheckSucceeds
  <2>1. Update!Found(v1) \in UpdateReleases /\ Update!Found(v1).tag = v1.tag
        /\ v1.tag \in UpdateTags
    BY <1>t DEF Update!Found, UpdateTypes, UpdateReleases
  <2>2. ~v3 /\ v3' = TRUE /\ v4' = Update!Found(v1) /\ v11' = v11
        /\ \/ v6' = Update!Found(v1) /\ v7' = TRUE /\ v9' = Update!NoName /\ v10' = FALSE
           \/ UNCHANGED <<v6, v7, v9, v10>>
    BY <1>2 DEF Update!CheckSucceeds
  <2>3. v5.at = "idle" /\ v9 = Update!NoName /\ ~v7
    BY <1>t, <2>2 DEF UpdateJob
  <2>4. UpdateTypes'
    BY <1>t, <1>1, <2>1, <2>2 DEF UpdateTypes
  <2>5. UpdateJob'
    BY <1>t, <1>1, <2>1, <2>2 DEF UpdateJob
  <2> QED
    BY <1>1, <2>2, <2>4, <2>5 DEF UpdateInv, Update!ShownIsVerified, Update!NoLeftovers
<1>3. CASE Update!CheckFails
  BY <1>3
  DEF Update!CheckFails, Update!dialog, UpdateTypes, UpdateJob, UpdateInv, Update!ShownIsVerified,
      Update!NoLeftovers
<1>4. CASE Update!Dismiss
  <2>1. v11' = v6.tag /\ v7' = FALSE /\ v9' = Update!NoName /\ v10' = FALSE
        /\ UNCHANGED <<v3, v4, v6>>
    BY <1>4 DEF Update!Dismiss
  <2>2. v6.tag \in UpdateTags \cup {UpdateNoTag}
    BY <1>t DEF UpdateTypes, UpdateReleases
  <2>3. UpdateTypes' /\ UpdateJob'
    BY <1>t, <1>1, <2>1, <2>2 DEF UpdateTypes, UpdateJob
  <2> QED
    BY <1>1, <2>1, <2>3 DEF UpdateInv, Update!ShownIsVerified, Update!NoLeftovers
<1> QED
  BY <1>2, <1>3, <1>4

\* A download that ends with no file of its own in the folder but for one that nobody removed.
LEMMA UpdateEnds ==
  ASSUME UpdateInv, UNCHANGED <<v1, v3, v4, v6, v7, v11>>,
         v5' = Update!Idle, v8' = FALSE, v10' \in BOOLEAN, v14' \in BOOLEAN,
         v2' \in [UpdateNames -> UpdateContents],
         v13' \subseteq UpdateNames, v13 \subseteq v13',
         \/ v9' = Update!NoName
         \/ v9' \in UpdateNames /\ v2'[v9'].holds = v6.tag /\ v6.tag \in UpdateTags /\ v3,
         \A n \in UpdateNames :
           v2'[n].ours /\ v2'[n].holds = "other" =>
             (v2[n] = v2'[n] /\ n # v5.name) \/ n \in v13'
  PROVE  UpdateInv'
<1>t. UpdateTypes /\ UpdateJob
  BY DEF UpdateInv
<1>1. v5'.at = "idle" /\ v5'.name = Update!NoName
      /\ v5' \in [at : UpdateStages, tag : UpdateTags \cup {UpdateNoTag},
                  name : UpdateNames \cup {Update!NoName}]
  BY DEF Update!Idle, UpdateStages
<1>2. UpdateTypes'
  BY <1>t, <1>1 DEF UpdateTypes
<1>3. UpdateJob'
  BY <1>t, <1>1, UpdateNoName DEF UpdateJob
<1>4. Update!ShownIsVerified'
  BY DEF Update!ShownIsVerified
<1>5. Update!NoLeftovers'
  BY DEF UpdateInv, Update!NoLeftovers, UpdateNames
<1> QED
  BY <1>2, <1>3, <1>4, <1>5 DEF UpdateInv

\* A step of the download that shows nothing.
LEMMA UpdateGoesOn ==
  ASSUME UpdateInv, UNCHANGED <<v1, v3, v4, v6, v7, v9, v11, v13, v14>>,
         v3, v5'.at # "idle", v9 = Update!NoName, v8' = TRUE, v10' \in BOOLEAN,
         v5' \in [at : UpdateStages, tag : UpdateTags \cup {UpdateNoTag},
                  name : UpdateNames \cup {Update!NoName}],
         v5'.tag = v6.tag, v6.tag \in UpdateTags,
         v5'.at \in {"request", "body", "verify"} <=> v5'.name \in UpdateNames,
         v5'.at = "request" => ~v2'[v5'.name].ours,
         v2' \in [UpdateNames -> UpdateContents],
         \A n \in UpdateNames :
           v2'[n].ours /\ v2'[n].holds = "other" =>
             n = v5'.name \/ (v2[n] = v2'[n] /\ n # v5.name)
  PROVE  UpdateInv'
  BY DEF UpdateInv, UpdateTypes, UpdateJob, Update!NoLeftovers, UpdateNames,
         Update!ShownIsVerified

\* What the download's own steps find.
LEMMA UpdateFinds ==
  ASSUME UpdateInv, v5.at # "idle"
  PROVE  /\ v3 /\ v9 = Update!NoName /\ v5.tag = v6.tag /\ v6.tag \in UpdateTags
         /\ v8 = TRUE /\ v10 \in BOOLEAN /\ v14 \in BOOLEAN /\ v13 \subseteq UpdateNames
         /\ v2 \in [UpdateNames -> UpdateContents]
         /\ v5 = [at |-> v5.at, tag |-> v5.tag, name |-> v5.name]
         /\ v5.name \in UpdateNames \cup {Update!NoName}
         /\ \A n \in UpdateNames : v2[n] \in UpdateContents
  BY DEF UpdateInv, UpdateTypes, UpdateJob

\* The dialog asks for the download of the release it shows.
LEMMA UpdateInstalls ==
  ASSUME UpdateInv, Update!Install
  PROVE  UpdateInv'
<1>t. UpdateTypes /\ UpdateJob
  BY DEF UpdateInv
<1>1. v7 /\ v3 /\ v6.tag = v4.tag /\ v6.tag \in UpdateTags
  BY <1>t DEF UpdateJob, Update!Install
<1>2. UNCHANGED <<v1, v2, v3, v4, v6, v7, v11, v13, v14>>
  BY DEF Update!Install, Update!Reject
<1>3. v2 \in [UpdateNames -> UpdateContents] /\ v13 \subseteq UpdateNames /\ v14 \in BOOLEAN
  BY <1>t DEF UpdateTypes
<1>4. v5.at = "idle" /\ v5.name \notin UpdateNames
  BY <1>t DEF UpdateJob, UpdateTypes, Update!Install
<1>5. CASE Update!Reject
  BY <1>2, <1>3, <1>4, <1>5, UpdateEnds DEF Update!Reject
<1>6. CASE ~Update!Reject
  <2>1. /\ v5' = [at |-> "checksum", tag |-> v4.tag, name |-> Update!NoName]
        /\ v8' = TRUE /\ v10' = FALSE /\ v9' = Update!NoName
    BY <1>6 DEF Update!Install
  <2>2. /\ v5' \in [at : UpdateStages, tag : UpdateTags \cup {UpdateNoTag},
                    name : UpdateNames \cup {Update!NoName}]
        /\ v5'.at = "checksum" /\ v5'.tag = v6.tag /\ v5'.name = Update!NoName
    BY <1>1, <2>1 DEF UpdateStages
  <2>3. UpdateTypes'
    BY <1>t, <1>2, <2>1, <2>2 DEF UpdateTypes
  <2>4. UpdateJob'
    BY <1>1, <1>2, <2>1, UpdateNoName DEF UpdateJob
  <2>5. Update!NoLeftovers'
    BY <1>2, <1>4 DEF UpdateInv, Update!NoLeftovers, UpdateNames
  <2> QED
    BY <2>1, <2>3, <2>4, <2>5 DEF UpdateInv, Update!ShownIsVerified
<1> QED
  BY <1>5, <1>6

\* The end of a download that found nothing to keep, or tried to remove what it had, or left it.
LEMMA UpdateRejects ==
  ASSUME UpdateInv, v5.at # "idle", Update!Reject, Update!InFolder,
         v5.name \in UpdateNames =>
           Update!Removed(v5.name) \/ (v2' = v2 /\ v13' = v13 /\ v5.at = "request"),
         v5.name \notin UpdateNames => v2' = v2 /\ v13' = v13
  PROVE  UpdateInv'
<1>1. v2 \in [UpdateNames -> UpdateContents] /\ v13 \subseteq UpdateNames
  BY UpdateFinds
<1>2. UNCHANGED <<v1, v3, v4, v6, v7, v11, v14>> /\ v14 \in BOOLEAN
  BY UpdateFinds DEF Update!Reject, Update!InFolder
<1>3. CASE v5.name \in UpdateNames /\ v2' = [v2 EXCEPT ![v5.name] = Update!Absent] /\ v13' = v13
  <2>1. v2' \in [UpdateNames -> UpdateContents]
        /\ \A n \in UpdateNames : v2'[n].ours => v2[n] = v2'[n] /\ n # v5.name
    BY <1>1, <1>3, UpdateHolds
  <2> QED
    BY <1>1, <1>2, <1>3, <2>1, UpdateEnds DEF Update!Reject
<1>4. CASE v5.name \in UpdateNames /\ v2' = v2 /\ v13' = v13 \cup {v5.name}
  <2>1. v13' \subseteq UpdateNames /\ v13 \subseteq v13' /\ v5.name \in v13'
    BY <1>1, <1>4
  <2> QED
    BY <1>1, <1>2, <1>4, <2>1, UpdateEnds DEF Update!Reject
<1>5. CASE v2' = v2 /\ v13' = v13 /\ (v5.name \in UpdateNames => v5.at = "request")
  <2>1. \A n \in UpdateNames : v2'[n].ours => n # v5.name
    BY <1>5 DEF UpdateInv, UpdateJob
  <2> QED
    BY <1>1, <1>2, <1>5, <2>1, UpdateEnds DEF Update!Reject
<1> QED
  BY <1>3, <1>4, <1>5 DEF Update!Removed

\* The steps of a download that write nothing.
LEMMA UpdateAsks ==
  ASSUME UpdateInv,
         \/ Update!ChecksumArrives \/ Update!ChecksumFails \/ Update!LookFinds
         \/ Update!Resolve \/ Update!ResolveFails
  PROVE  UpdateInv'
<1>1. v5.at \in {"checksum", "look"} /\ v5.at # "idle" /\ v2' = v2 /\ v13' = v13
      /\ Update!InFolder
  BY DEF Update!ChecksumArrives, Update!ChecksumFails, Update!LookFinds, Update!Resolve,
         Update!ResolveFails, Update!Goes
<1>2. v5.name \notin UpdateNames /\ v5.name = Update!NoName
  BY <1>1, UpdateFinds DEF UpdateInv, UpdateJob
<1>3. UNCHANGED <<v1, v3, v4, v11>>
  BY <1>1 DEF Update!InFolder
<1>4. CASE Update!ChecksumArrives
  BY <1>1, <1>4, UpdateFinds, <1>2, <1>3, UpdateGoesOn
  DEF Update!ChecksumArrives, Update!Goes, Update!dialog, UpdateStages
<1>5. CASE Update!ChecksumFails \/ Update!ResolveFails
  BY <1>1, <1>2, <1>5, UpdateRejects DEF Update!ChecksumFails, Update!ResolveFails
<1>6. CASE Update!LookFinds
  <2>1. PICK n \in Update!Verified(v5.tag) : Update!Answer(n)
    BY <1>6 DEF Update!LookFinds
  <2>2. n \in UpdateNames /\ v2[n].holds = v5.tag
    BY DEF Update!Verified, Update!NamesOf, UpdateNames
  <2>3. v5' = Update!Idle /\ v8' = FALSE /\ v10' = FALSE /\ v9' = n /\ v14' = FALSE
        /\ UNCHANGED <<v6, v7>>
    BY <2>1 DEF Update!Answer
  <2> QED
    BY <1>1, <1>2, <1>3, <2>2, <2>3, UpdateFinds, UpdateEnds
<1>7. CASE Update!Resolve
  <2> DEFINE k == Update!FirstName(Update!Free(v5.tag))
  <2>1. Update!Free(v5.tag) \in SUBSET UpdateNames
    BY DEF Update!Free, Update!NamesOf, UpdateNames
  <2>2. v5' = [v5 EXCEPT !.at = "request", !.name = k] /\ Update!Free(v5.tag) # {}
        /\ UNCHANGED <<v6, v7, v8, v9, v10, v14>>
    BY <1>7 DEF Update!Resolve, Update!Goes, Update!dialog
  <2>3. k \in Update!Free(v5.tag)
    BY <2>1, <2>2, UpdateFirst
  <2>4. k \in UpdateNames /\ v2[k] = Update!Absent
    BY <2>1, <2>3 DEF Update!Free
  <2> HIDE DEF k
  <2>5. v5' = [at |-> "request", tag |-> v5.tag, name |-> k]
    BY <1>1, <2>2, UpdateFinds
  <2>6. /\ v5' \in [at : UpdateStages, tag : UpdateTags \cup {UpdateNoTag},
                   name : UpdateNames \cup {Update!NoName}]
        /\ v5'.at = "request" /\ v5'.tag = v6.tag /\ v5'.name = k
    BY <1>1, <2>4, <2>5, UpdateFinds DEF UpdateStages
  <2> QED
    BY <1>1, <1>2, <1>3, <2>2, <2>4, <2>6, UpdateFinds, UpdateGoesOn, UpdateHolds
<1> QED
  BY <1>4, <1>5, <1>6, <1>7

\* The transfer and the comparison of its checksum.
LEMMA UpdateTransfers ==
  ASSUME UpdateInv,
         \/ Update!ResponseArrives \/ Update!ResponseTooLate \/ Update!RequestFails
         \/ Update!BodyEnds \/ Update!BodyFails
         \/ Update!VerifySucceeds \/ Update!VerifyFails \/ Update!HashFails
  PROVE  UpdateInv'
<1>1. v5.at \in {"request", "body", "verify"} /\ v5.at # "idle" /\ Update!InFolder
  BY DEF Update!ResponseArrives, Update!ResponseTooLate, Update!RequestFails, Update!BodyEnds,
         Update!BodyFails, Update!VerifySucceeds, Update!VerifyFails, Update!HashFails, Update!Goes
<1>2. v5.name \in UpdateNames /\ v2 \in [UpdateNames -> UpdateContents] /\ v3
  BY <1>1, UpdateFinds DEF UpdateInv, UpdateJob
<1>3. UNCHANGED <<v1, v3, v4, v11>>
  BY <1>1 DEF Update!InFolder
<1>4. ASSUME NEW at \in {"body", "verify"}, v5' = [v5 EXCEPT !.at = at],
             Update!Goes,
             NEW c \in UpdateContents, v2' = [v2 EXCEPT ![v5.name] = c]
      PROVE  UpdateInv'
  <2>1. UNCHANGED <<v6, v7, v8, v9, v10, v13, v14>>
    BY <1>4 DEF Update!Goes, Update!dialog
  <2> QED
    BY <1>1, <1>4, <2>1, UpdateFinds, <1>2, <1>3, UpdateGoesOn DEF UpdateStages
<1>5. CASE Update!ResponseArrives
  BY <1>4, <1>5, UpdateHolds DEF Update!ResponseArrives
<1>6. CASE Update!RequestFails
  BY <1>1, <1>2, <1>6, UpdateRejects DEF Update!RequestFails
<1>7. CASE Update!BodyEnds
  <2>1. PICK c \in {Update!Zip(v5.tag, TRUE), Update!Partial} : v2' = [v2 EXCEPT ![v5.name] = c]
    BY <1>7 DEF Update!BodyEnds
  <2>2. c \in UpdateContents
    BY <1>1, UpdateFinds, UpdateHolds
  <2> QED
    BY <1>4, <1>7, <2>1, <2>2 DEF Update!BodyEnds
<1>8. CASE Update!ResponseTooLate \/ Update!BodyFails \/ Update!VerifyFails
  BY <1>1, <1>2, <1>8, UpdateRejects
  DEF Update!ResponseTooLate, Update!BodyFails, Update!VerifyFails
<1>9. CASE Update!VerifySucceeds
  <2>1. v2[v5.name].holds = v5.tag /\ Update!Answer(v5.name) /\ v2' = v2 /\ v13' = v13
    BY <1>9 DEF Update!VerifySucceeds, Update!Matches
  <2>2. v5' = Update!Idle /\ v8' = FALSE /\ v10' = FALSE /\ v9' = v5.name /\ v14' = FALSE
        /\ UNCHANGED <<v6, v7>>
    BY <2>1 DEF Update!Answer
  <2>3. v5.tag = v6.tag /\ v6.tag \in UpdateTags /\ v6.tag # "other" /\ v13 \subseteq UpdateNames
    BY <1>1, UpdateFinds, UpdateHolds
  <2> QED
    BY <1>2, <1>3, <2>1, <2>2, <2>3, UpdateEnds
<1>10. CASE Update!HashFails
  BY <1>1, <1>2, <1>10, UpdateRejects DEF Update!HashFails, Update!Removed
<1> QED
  BY <1>5, <1>6, <1>7, <1>8, <1>9, <1>10

\* What other programs, the publisher and the user do meanwhile.
LEMMA UpdateElsewhere ==
  ASSUME UpdateInv, Update!OtherProgram \/ Update!NewRelease
  PROVE  UpdateInv'
<1>t. UpdateTypes /\ UpdateJob
  BY DEF UpdateInv
<1>1. UNCHANGED <<v3, v4, v5, v6, v7, v8, v9, v10, v11>>
  BY DEF Update!OtherProgram, Update!NewRelease, Update!dialog
<1>2. CASE Update!OtherProgram
  <2>1. PICK n \in UpdateNames :
          /\ \E c \in {Update!Zip(n[1], FALSE), Update!Foreign, Update!Absent} :
               v2' = [v2 EXCEPT ![n] = c]
          /\ v13' = v13 \ {n} /\ v14' = (v14 \/ n = v9)
    BY <1>2 DEF Update!OtherProgram, UpdateNames
  <2>2. PICK c \in {Update!Zip(n[1], FALSE), Update!Foreign, Update!Absent} :
          v2' = [v2 EXCEPT ![n] = c]
    BY <2>1
  <2>3. n[1] \in UpdateTags
    BY DEF UpdateNames, Update!Names
  <2>4. c \in UpdateContents /\ ~c.ours
    BY <2>3, UpdateHolds
  <2>5. v2 \in [UpdateNames -> UpdateContents] /\ v1' = v1
    BY <1>t, <1>2 DEF UpdateTypes, Update!OtherProgram
  <2>6. v2' \in [UpdateNames -> UpdateContents]
        /\ \A m \in UpdateNames : (m # n /\ v2'[m] = v2[m]) \/ (m = n /\ ~v2'[m].ours)
    BY <2>2, <2>4, <2>5
  <2>7. v13' \subseteq UpdateNames /\ (\A m : m # n => (m \in v13' <=> m \in v13))
    BY <1>t, <2>1 DEF UpdateTypes
  <2>8. v14' \in BOOLEAN /\ (~v14' => ~v14 /\ n # v9)
    <3>1. v14 \in BOOLEAN
      BY <1>t DEF UpdateTypes
    <3>2. v14' \in BOOLEAN
      BY <2>1, <3>1
    <3> QED
      BY <2>1, <3>2
  <2>9. UpdateTypes'
    BY <1>t, <1>1, <2>5, <2>6, <2>7, <2>8 DEF UpdateTypes
  <2>10. UpdateJob'
    BY <1>t, <1>1, <2>6 DEF UpdateJob
  <2>11. Update!NoLeftovers'
    BY <1>1, <2>6, <2>7 DEF UpdateInv, Update!NoLeftovers, UpdateNames
  <2>12. Update!ShownIsVerified'
    BY <1>1, <2>6, <2>8 DEF UpdateTypes, UpdateInv, Update!ShownIsVerified
  <2> QED
    BY <2>9, <2>10, <2>11, <2>12 DEF UpdateInv
<1>3. CASE Update!NewRelease
  <2>1. UNCHANGED <<v2, v13, v14>> /\ v1' \in [tag : UpdateTags, zip : BOOLEAN, sha : BOOLEAN]
    BY <1>3 DEF Update!NewRelease
  <2>2. UpdateTypes' /\ UpdateJob'
    BY <1>t, <1>1, <2>1 DEF UpdateTypes, UpdateJob
  <2> QED
    BY <1>1, <2>1, <2>2 DEF UpdateInv, Update!ShownIsVerified, Update!NoLeftovers
<1> QED
  BY <1>2, <1>3

\* The application ends and starts again, with the files as they are.
LEMMA UpdateRestarts ==
  ASSUME UpdateInv, Update!Restart
  PROVE  UpdateInv'
<1>t. UpdateTypes /\ UpdateJob
  BY DEF UpdateInv
<1>1. /\ v3' = FALSE /\ v5' = Update!Idle /\ v6' = Update!NoRelease /\ v4' = Update!NoRelease
      /\ v7' = FALSE /\ v8' = FALSE /\ v9' = Update!NoName /\ v10' = FALSE
      /\ v14' = FALSE /\ UNCHANGED <<v1, v2, v11>>
      /\ v13' = IF v5.at \in {"body", "verify"} THEN v13 \cup {v5.name} ELSE v13
  BY DEF Update!Restart
<1>2. /\ v5'.at = "idle" /\ v5'.name = Update!NoName
      /\ v5' \in [at : UpdateStages, tag : UpdateTags \cup {UpdateNoTag},
                  name : UpdateNames \cup {Update!NoName}]
      /\ Update!NoRelease \in UpdateReleases
  BY <1>1 DEF Update!Idle, UpdateStages, Update!NoRelease, UpdateReleases
<1>3. v13' \subseteq UpdateNames /\ v13 \subseteq v13'
      /\ (v5.at \in {"body", "verify"} => v5.name \in v13')
  BY <1>t, <1>1 DEF UpdateTypes, UpdateJob
<1>4. UpdateTypes'
  BY <1>t, <1>1, <1>2, <1>3 DEF UpdateTypes
<1>5. UpdateJob'
  BY <1>1, <1>2, UpdateNoName DEF UpdateJob
<1>6. Update!NoLeftovers'
  BY <1>1 DEF UpdateInv, Update!NoLeftovers, UpdateNames, UpdateJob
<1> QED
  BY <1>1, <1>4, <1>5, <1>6 DEF UpdateInv, Update!ShownIsVerified

\* Every step of the download of an update.
LEMMA UpdateKeeps ==
  ASSUME UpdateInv, Update!Next \/ UNCHANGED Update!vars
  PROVE  UpdateInv'
  BY UpdateChecks, UpdateInstalls, UpdateAsks, UpdateTransfers, UpdateElsewhere, UpdateRestarts
  DEF Update!Next, Update!Download, Update!vars, Update!dialog, UpdateInv, UpdateTypes, UpdateJob,
      Update!ShownIsVerified, Update!NoLeftovers

\* A download that the dialog shows was verified against the checksum of the release on offer
\* and holds its zip as long as no other program changes it, whatever those do to the folder and
\* wherever the application ends; and the application leaves no unverified file of a download
\* there, but for one whose removal failed, one that could not be read for its checksum, or one
\* that the end of the application cut off.
THEOREM DownloadsVerified == Spec => []DownloadsAreVerified
<1> DEFINE Inv == screen = "update" => UpdateInv
<1>1. Init => Inv
  BY UpdateInit DEF Init
<1>2. Inv /\ [Next]_vars => Inv'
  BY OnePage, UpdateKeeps
<1>3. Inv => DownloadsAreVerified
  BY DEF UpdateInv, DownloadsAreVerified
<1> QED
  BY <1>1, <1>2, <1>3, PTL DEF Spec

-----------------------------------------------------------------------------
(* What a list keeps of its elements. *)

\* The cardinality of the instance is that of the library.
LEMMA SearchCounts == \A S : Search!Cardinality(S) = Cardinality(S)
  BY Zenon DEF Search!Cardinality, Cardinality

\* How many elements of a set of places are not after a place.
LEMMA RankIsCount ==
  ASSUME NEW m \in Nat, NEW K \in SUBSET (1..m), NEW i \in Nat
  PROVE  /\ IsFiniteSet(K) /\ Cardinality(K) \in Nat
         /\ Search!Rank(i, K) = Cardinality({j \in K : j <= i})
         /\ IsFiniteSet({j \in K : j <= i}) /\ Search!Rank(i, K) \in Nat
<1>1. IsFiniteSet(K)
  <2>1. IsFiniteSet(1..m)
    BY FS_Interval
  <2> QED
    BY <2>1, FS_Subset
<1>2. IsFiniteSet({j \in K : j <= i})
  BY <1>1, FS_Subset
<1>3. Search!Rank(i, K) = Cardinality({j \in K : j <= i})
  BY SearchCounts DEF Search!Rank
<1>4. Cardinality(K) \in Nat /\ Cardinality({j \in K : j <= i}) \in Nat
  BY <1>1, <1>2, FS_CardinalityType
<1> QED
  BY <1>1, <1>2, <1>3, <1>4

\* Up to the number of its elements, every number is the rank of one of them.
LEMMA RankExists ==
  ASSUME NEW m \in Nat, NEW K \in SUBSET (1..m), NEW n \in 1..Cardinality(K)
  PROVE  \E i \in K : Search!Rank(i, K) = n
<1> DEFINE R(i) == {j \in K : j <= i}
<1>1. \A i \in Nat : /\ IsFiniteSet(R(i)) /\ Search!Rank(i, K) = Cardinality(R(i))
                     /\ Cardinality(R(i)) \in Nat
  BY RankIsCount DEF R
<1>2. IsFiniteSet(K) /\ Cardinality(K) \in Nat /\ n \in Nat /\ 0 < n
  <2>1. 0 \in Nat /\ IsFiniteSet(K) /\ Cardinality(K) \in Nat
    BY RankIsCount
  <2> QED
    BY <2>1
<1> HIDE DEF R
<1>0. \A j \in K : j \in 1..m /\ j \in Nat /\ 1 <= j /\ j <= m
  OBVIOUS
<1> DEFINE T == {i \in 1..m : n <= Cardinality(R(i))}
<1>3. m \in T
  <2>1. R(m) = K
    BY <1>0 DEF R
  <2>2. K # {}
    BY FS_EmptySet
  <2>3. m \in 1..m
    <3>1. PICK j \in K : j \in Nat /\ 1 <= j /\ j <= m
      BY <1>0, <2>2
    <3> QED
      BY <3>1
  <2> QED
    BY <2>1, <2>3
<1>4. T \in SUBSET Nat
  OBVIOUS
<1>5. PICK i \in T : \A j \in T : i <= j
  BY <1>3, <1>4, HasLeast
<1>6. i - 1 \in Nat /\ Cardinality(R(i - 1)) \in Nat /\ Cardinality(R(i - 1)) < n
  <2>1. CASE i = 1
    <3>1. \A j \in K : ~(j <= i - 1)
      BY <2>1
    <3>2. R(i - 1) = {}
      BY <3>1 DEF R
    <3> QED
      BY <3>2, FS_EmptySet
  <2>2. CASE i # 1
    BY <2>2, <1>5, <1>1
  <2> QED
    BY <2>1, <2>2
<1>7. i \in Nat /\ n <= Cardinality(R(i))
  BY <1>5
<1>8. i \in K
  <2>1. ASSUME i \notin K PROVE FALSE
    <3>1. \A j \in K : j <= i <=> j <= i - 1
      BY <2>1
    <3>2. R(i) = R(i - 1)
      BY <3>1 DEF R
    <3> QED
      BY <1>6, <3>2
  <2> QED
    BY <2>1
<1>9. R(i) = R(i - 1) \cup {i} /\ i \notin R(i - 1)
  <2>1. \A j \in K : j <= i <=> j <= i - 1 \/ j = i
    OBVIOUS
  <2>2. i <= i /\ ~(i <= i - 1)
    BY <1>7
  <2> QED
    BY <1>8, <2>1, <2>2 DEF R
<1>10. Cardinality(R(i)) = Cardinality(R(i - 1)) + 1
  BY <1>1, <1>6, <1>9, FS_AddElement
<1>11. Cardinality(R(i)) = n
  BY <1>6, <1>10
<1> QED
  BY <1>1, <1>8, <1>11

\* What is filtered comes from the places it is filtered to.
LEMMA FilteredIs ==
  ASSUME NEW S, NEW s \in Seq(S), NEW K \in SUBSET (DOMAIN s)
  PROVE  /\ Search!Filtered(s, K) \in Seq(S)
         /\ Len(Search!Filtered(s, K)) = Cardinality(K) /\ Cardinality(K) \in Nat
         /\ \A n \in 1..Cardinality(K) :
              \E i \in K : Search!Filtered(s, K)[n] = s[i] /\ Search!Rank(i, K) = n
<1> DEFINE t == Search!Filtered(s, K)
           at(n) == CHOOSE i \in K : Search!Rank(i, K) = n
<1>1. Len(s) \in Nat /\ K \in SUBSET (1..Len(s))
  OBVIOUS
<1>2. Cardinality(K) \in Nat
  BY <1>1, RankIsCount
<1>3. t = [n \in 1..Cardinality(K) |-> s[at(n)]]
  BY SearchCounts DEF Search!Filtered
<1>4. ASSUME NEW n \in 1..Cardinality(K)
      PROVE  at(n) \in K /\ Search!Rank(at(n), K) = n
  BY <1>1, RankExists
<1> HIDE DEF at
<1>5. \A n \in 1..Cardinality(K) : t[n] = s[at(n)] /\ at(n) \in K
  BY <1>3, <1>4
<1>6. \A n \in 1..Cardinality(K) : t[n] \in S
  BY <1>5
<1>7. t \in Seq(S) /\ Len(t) = Cardinality(K)
  BY <1>2, <1>3, <1>5
<1> QED
  BY <1>4, <1>5, <1>7

\* What is filtered from a sequence without repetition has none.
LEMMA FilteredApart ==
  ASSUME NEW S, NEW s \in Seq(S), NEW K \in SUBSET (DOMAIN s),
         \A i, j \in DOMAIN s : s[i] = s[j] => i = j,
         NEW m \in 1..Cardinality(K), NEW n \in 1..Cardinality(K),
         Search!Filtered(s, K)[m] = Search!Filtered(s, K)[n]
  PROVE  m = n
  BY FilteredIs

-----------------------------------------------------------------------------
(* The comparison of files chosen by hand. *)

\* Until the selection is changed, what is compared and what is shown is what is selected;
\* while a comparison runs there is no result yet.
ManualInv ==
  /\ Manual!ComparedFit
  /\ Manual!loading => v12 = <<>> /\ (~v13 => v10 = v11)
  /\ Manual!ResultFitsSelection

\* Nothing is selected or compared at the start.
LEMMA ManualInit == Manual!Init => ManualInv
  BY DEF Manual!Init, ManualInv, Manual!ComparedFit, Manual!loading,
         Manual!ResultFitsSelection, Manual!ResultOnScreen

\* A step that leaves the comparison and the selection alone.
LEMMA ManualRests ==
  ASSUME ManualInv, UNCHANGED <<v10, v11, v12, v13>>
  PROVE  ManualInv'
  BY DEF ManualInv, Manual!ComparedFit, Manual!loading, Manual!ResultFitsSelection,
         Manual!ResultOnScreen

\* A change of the selection takes the result away.
LEMMA ManualReselects ==
  ASSUME ManualInv, NEW next, Manual!Reselect(next)
  PROVE  ManualInv'
  BY DEF ManualInv, Manual!ComparedFit, Manual!loading, Manual!ResultFitsSelection,
         Manual!ResultOnScreen, Manual!Reselect

\* Every step of the card.
LEMMA ManualKeeps ==
  ASSUME ManualInv, Manual!Next \/ UNCHANGED Manual!vars
  PROVE  ManualInv'
<1> USE DEF Manual!choice
<1>1. CASE \/ \E q \in ManualQueries : Manual!Search(q)
           \/ \E offset \in {n * ManualPageSize : n \in 0..Len(ManualFiles)} :
                Manual!GoToPage(offset)
           \/ \E i \in DOMAIN v7 : Manual!FilesArrive(i) \/ Manual!FilesFail(i)
           \/ Manual!OpenGroup \/ Manual!CloseGroup
  BY <1>1, ManualRests
  DEF Manual!Search, Manual!GoToPage, Manual!FilesArrive, Manual!FilesFail, Manual!OpenGroup,
      Manual!CloseGroup
<1>2. ASSUME NEW f, Manual!Toggle(f) PROVE ManualInv'
  BY <1>2, ManualReselects DEF Manual!Toggle
<1>3. CASE Manual!Check
  BY <1>3
  DEF Manual!Check, Manual!ComparedFit, Manual!validateFilesForCheck, ManualInv, Manual!loading,
      Manual!ResultFitsSelection, Manual!ResultOnScreen
<1>4. CASE Manual!ResultArrives
  BY <1>4 DEF Manual!ResultArrives, ManualInv, Manual!ComparedFit, Manual!loading,
              Manual!ResultFitsSelection, Manual!ResultOnScreen
<1>5. CASE Manual!CheckFails
  BY <1>5 DEF Manual!CheckFails, ManualInv, Manual!ComparedFit, Manual!loading,
              Manual!ResultFitsSelection, Manual!ResultOnScreen
<1>6. CASE Manual!LibraryChanges
  BY <1>6 DEF Manual!LibraryChanges, ManualInv, Manual!ComparedFit, Manual!loading,
              Manual!ResultFitsSelection, Manual!ResultOnScreen
<1>7. CASE UNCHANGED Manual!vars
  BY <1>7, ManualRests DEF Manual!vars
<1> QED
  BY <1>1, <1>2, <1>3, <1>4, <1>5, <1>6, <1>7 DEF Manual!Next

\* Files chosen by hand are compared only when they can be, and the result that is shown is
\* that of the files that are selected, however the check boxes, the answers of the list and
\* the changes of the library interleave with the comparison.
THEOREM ComparisonFollows == Spec => []ComparisonIsOfSelection
<1> DEFINE Inv == screen = "manual" => ManualInv
<1>1. Init => Inv
  BY ManualInit DEF Init
<1>2. Inv /\ [Next]_vars => Inv'
  BY OnePage, ManualKeeps
<1>3. Inv => ComparisonIsOfSelection
  BY DEF ManualInv, ComparisonIsOfSelection
<1> QED
  BY <1>1, <1>2, <1>3, PTL DEF Spec

\* A sequence without one of its elements is one shorter.
LEMMA SequenceWithout ==
  ASSUME NEW S, NEW s \in Seq(S), NEW i \in DOMAIN s
  PROVE  LET t == SubSeq(s, 1, i - 1) \o SubSeq(s, i + 1, Len(s))
         IN  t \in Seq(S) /\ Len(t) = Len(s) - 1
<1> DEFINE n == Len(s)
<1>1. n \in Nat /\ i \in 1..n /\ \A j \in 1..n : s[j] \in S
  OBVIOUS
<1>2. 1 \in Int /\ i - 1 \in Int /\ i + 1 \in Int /\ n \in Int
  BY <1>1
<1>3. (\A j \in 1..(i - 1) : s[j] \in S) /\ (\A j \in (i + 1)..n : s[j] \in S)
  BY <1>1
<1>4. /\ SubSeq(s, 1, i - 1) \in Seq(S)
      /\ Len(SubSeq(s, 1, i - 1)) = IF 1 <= i - 1 THEN i - 1 - 1 + 1 ELSE 0
  OBVIOUS
<1>5. /\ SubSeq(s, i + 1, n) \in Seq(S)
      /\ Len(SubSeq(s, i + 1, n)) = IF i + 1 <= n THEN n - (i + 1) + 1 ELSE 0
  OBVIOUS
<1> HIDE DEF n
<1>6. i \in Nat /\ 1 <= i /\ i <= n /\ n \in Nat
  BY <1>1
<1>7. /\ Len(SubSeq(s, 1, i - 1)) = i - 1 /\ Len(SubSeq(s, i + 1, n)) = n - i
      /\ i - 1 + (n - i) = n - 1
  BY <1>4, <1>6
<1>8. /\ SubSeq(s, 1, i - 1) \o SubSeq(s, i + 1, n) \in Seq(S)
      /\ Len(SubSeq(s, 1, i - 1) \o SubSeq(s, i + 1, n)) = i - 1 + (n - i)
  BY <1>5, <1>7
<1> QED
  BY <1>7, <1>8 DEF n

-----------------------------------------------------------------------------
(* The settings of the desktop application. *)

DesktopStored == Desktop!Settings
DesktopQuicks == [supported : BOOLEAN, enabled : BOOLEAN, accelerator : DesktopAccelerators,
                  registered : BOOLEAN]
DesktopLogins == [supported : BOOLEAN, enabled : BOOLEAN]
DesktopPatches == [enabled : BOOLEAN] \cup [accelerator : DesktopAccelerators]

DesktopFields == {"kind", "value", "answered", "ok"}

\* What is stored, shown, asked for and answered, but for the value of a call.
DesktopTypes ==
  /\ v2 \in DesktopStored /\ v5 \in BOOLEAN
  /\ v7 \in [close : Desktop!Behaviors, quick : DesktopQuicks, startup : DesktopLogins]
  /\ v9 \subseteq Desktop!Kinds
  /\ DOMAIN v10 = DesktopFields
  /\ v10.kind \in Desktop!Kinds \cup {DesktopNone}
  /\ v10.answered \in BOOLEAN /\ v10.ok \in BOOLEAN

\* A call of a kind is made when its first answer is there.  Until it is answered it holds
\* what was asked for; then what was answered, which stays true until the page takes it over
\* unless the prompt stores another behaviour.
DesktopCall ==
  /\ v10.kind \notin v9
  /\ v10.answered => v10.kind \in Desktop!Kinds
  /\ v10.answered /\ ~v10.ok => v10.kind \in v11
  /\ v10.kind = "close" => v10.value \in Desktop!Behaviors
  /\ v10.kind = "quick" /\ ~v10.answered => v10.value \in DesktopPatches
  /\ v10.kind = "startup" /\ ~v10.answered => v10.value \in BOOLEAN
  /\ v10.kind = "close" /\ v10.answered /\ v10.ok /\ "close" \notin v11 =>
       v10.value = v2.close
  /\ v10.kind = "quick" /\ v10.answered /\ v10.ok => v10.value = Desktop!Status(v2, v3)
  /\ v10.kind = "startup" /\ v10.answered /\ v10.ok =>
       v10.value \in DesktopLogins /\ (v10.value.supported => v10.value.enabled = v5)

DesktopInv ==
  DesktopTypes /\ DesktopCall /\ Desktop!HotkeyFollowsSettings /\ Desktop!ShownIsStored

\* What the page is told of the stored settings, and changes of one of them.
LEMMA DesktopStatus ==
  ASSUME NEW c \in DesktopStored, NEW key
  PROVE  /\ Desktop!Status(c, key) \in DesktopQuicks
         /\ c.close \in Desktop!Behaviors
         /\ \A b \in Desktop!Behaviors :
              /\ [c EXCEPT !.close = b] \in DesktopStored
              /\ [c EXCEPT !.close = b].close = b
              /\ [c EXCEPT !.close = b].enabled = c.enabled
              /\ [c EXCEPT !.close = b].accelerator = c.accelerator
              /\ Desktop!Status([c EXCEPT !.close = b], key) = Desktop!Status(c, key)
  BY DEF DesktopStored, Desktop!Settings, Desktop!Status, DesktopQuicks

\* A patch of the quick search settings leaves the others alone.
LEMMA DesktopPatched ==
  ASSUME NEW c \in DesktopStored, NEW patch \in DesktopPatches
  PROVE  /\ Desktop!Patched(c, patch) \in DesktopStored
         /\ Desktop!Patched(c, patch).close = c.close
<1> DEFINE e == IF "enabled" \in DOMAIN patch THEN patch.enabled ELSE c.enabled
           a == IF "accelerator" \in DOMAIN patch THEN patch.accelerator ELSE c.accelerator
<1>1. e \in BOOLEAN /\ a \in DesktopAccelerators
  BY DEF DesktopPatches, DesktopStored, Desktop!Settings
<1>2. c = [close |-> c.close, enabled |-> c.enabled, accelerator |-> c.accelerator]
      /\ c.close \in Desktop!Behaviors
  BY DEF DesktopStored, Desktop!Settings
<1>3. Desktop!Patched(c, patch) = [c EXCEPT !.enabled = e, !.accelerator = a]
  BY DEF Desktop!Patched
<1> HIDE DEF e, a
<1>4. [c EXCEPT !.enabled = e] = [close |-> c.close, enabled |-> e, accelerator |-> c.accelerator]
  BY <1>2
<1>5. Desktop!Patched(c, patch) = [close |-> c.close, enabled |-> e, accelerator |-> a]
  BY <1>3, <1>4
<1> QED
  BY <1>1, <1>5 DEF DesktopStored, Desktop!Settings

\* A file that cannot be read means the defaults, any other one what it holds.
LEMMA DesktopReads ==
  ASSUME NEW f
  PROVE  /\ Desktop!Read(f) \in DesktopStored
         /\ f \in DesktopStored => Desktop!Read(f) = f
  BY DesktopAssumption
  DEF Desktop!Read, Desktop!Defaults, DesktopStored, Desktop!Settings, Desktop!Behaviors

\* The start of the page: nothing is answered and no call is made.
LEMMA DesktopBegins ==
  ASSUME v2' \in DesktopStored, v5' \in BOOLEAN, v7' = Desktop!Blank, v9' = Desktop!Kinds,
         v10' = Desktop!NoCall, v1' \in DesktopStored => v1' = v2',
         v3' # DesktopNone => v2'.enabled /\ v2'.accelerator = v3'
  PROVE  DesktopInv'
  BY DesktopAssumption
  DEF Desktop!Blank, Desktop!Behaviors, DesktopQuicks, DesktopLogins, Desktop!NoCall,
      Desktop!Kinds, DesktopTypes, DesktopFields, DesktopCall, DesktopInv,
      Desktop!HotkeyFollowsSettings, Desktop!ShownIsStored, Desktop!Busy, DesktopStored

\* The settings that are stored are registered and read at the start.
LEMMA DesktopInit == Desktop!Init => DesktopInv
<1> SUFFICES ASSUME Desktop!Init PROVE DesktopInv
  OBVIOUS
<1>1. v2 \in DesktopStored /\ v5 \in BOOLEAN
  BY DesktopReads DEF Desktop!Init
<1>2. v1 \in {Desktop!Missing, Desktop!Unreadable}
  BY DEF Desktop!Init
<1>3. v1 \notin DesktopStored
  BY <1>2 DEF Desktop!Missing, Desktop!Unreadable, Desktop!Defaults, DesktopStored,
              Desktop!Settings, Desktop!Behaviors
<1>4. v3 # DesktopNone => v2.enabled /\ v2.accelerator = v3
  BY DEF Desktop!Init, Desktop!Registered
<1>5. Desktop!Blank \in [close : Desktop!Behaviors, quick : DesktopQuicks,
                         startup : DesktopLogins]
  BY DesktopAssumption DEF Desktop!Blank, Desktop!Behaviors, DesktopQuicks, DesktopLogins
<1>6. /\ Desktop!NoCall = [kind |-> DesktopNone, value |-> DesktopNone, answered |-> FALSE,
                           ok |-> TRUE]
      /\ DesktopNone \notin Desktop!Kinds
  BY DesktopAssumption DEF Desktop!NoCall, Desktop!Kinds
<1>7. v7 = Desktop!Blank /\ v9 = Desktop!Kinds /\ v10 = Desktop!NoCall
  BY DEF Desktop!Init
<1>8. DesktopTypes
  BY <1>1, <1>5, <1>6, <1>7 DEF DesktopTypes, DesktopFields
<1>9. DesktopCall
  BY <1>6, <1>7 DEF DesktopCall, Desktop!Kinds
<1> QED
  BY <1>3, <1>4, <1>7, <1>8, <1>9
  DEF DesktopInv, Desktop!HotkeyFollowsSettings, Desktop!ShownIsStored, Desktop!Busy,
      Desktop!Kinds, DesktopStored

\* What the system says of the login item is what it is, unless asking it fails.
LEMMA DesktopLoginStatus ==
  ASSUME NEW on \in BOOLEAN, NEW told \in Desktop!LoginStatus(on)
  PROVE  told \in DesktopLogins /\ (told.supported => told.enabled = on)
<1>1. CASE told = [supported |-> TRUE, enabled |-> on]
  BY <1>1 DEF DesktopLogins
<1>2. CASE told = [supported |-> FALSE, enabled |-> FALSE]
  BY <1>2 DEF DesktopLogins
<1> QED
  BY <1>1, <1>2 DEF Desktop!LoginStatus

\* A step that leaves the settings and what the page knows alone.
LEMMA DesktopRests ==
  ASSUME DesktopInv, UNCHANGED <<v1, v2, v3, v5, v7, v9, v10, v11>>
  PROVE  DesktopInv'
  BY DEF DesktopInv, DesktopTypes, DesktopCall, Desktop!HotkeyFollowsSettings,
         Desktop!ShownIsStored, Desktop!Busy

\* The page asks for a change.
LEMMA DesktopCalls ==
  ASSUME DesktopInv, NEW k \in Desktop!Kinds, NEW value, Desktop!Call(k, value),
         k = "close" => value \in Desktop!Behaviors,
         k = "quick" => value \in DesktopPatches,
         k = "startup" => value \in BOOLEAN
  PROVE  DesktopInv'
<1>1. v10' = [Desktop!NoCall EXCEPT !.kind = k, !.value = value] /\ k \notin v9
      /\ UNCHANGED <<v1, v2, v3, v5, v7, v9, v11>>
  BY DEF Desktop!Call, Desktop!Busy, Desktop!stored, Desktop!system
<1>3. /\ v10'.kind = k /\ v10'.value = value /\ v10'.answered = FALSE /\ v10'.ok = TRUE
      /\ DOMAIN v10' = DesktopFields
  BY <1>1 DEF Desktop!NoCall, DesktopFields
<1>4. DesktopTypes'
  BY <1>1, <1>3 DEF DesktopInv, DesktopTypes
<1>5. DesktopCall'
  BY <1>1, <1>3 DEF DesktopCall
<1>6. v10.kind = DesktopNone
  BY DEF Desktop!Call, Desktop!NoCall
<1>7. Desktop!ShownIsStored'
  BY <1>1, <1>6, DesktopAssumption DEF DesktopInv, Desktop!ShownIsStored, Desktop!Busy
<1> QED
  BY <1>1, <1>4, <1>5, <1>7 DEF DesktopInv, Desktop!HotkeyFollowsSettings

\* The controls of the page.
LEMMA DesktopAsks ==
  ASSUME DesktopInv,
         \/ \E b \in Desktop!Behaviors : Desktop!SelectCloseBehavior(b)
         \/ Desktop!ToggleStartup \/ Desktop!ToggleQuickSearch
         \/ \E a \in DesktopAccelerators : Desktop!PickPreset(a)
  PROVE  DesktopInv'
<1> USE DEF Desktop!Kinds
<1>1. ASSUME NEW b \in Desktop!Behaviors, Desktop!SelectCloseBehavior(b) PROVE DesktopInv'
  BY <1>1, DesktopCalls DEF Desktop!SelectCloseBehavior
<1>2. v7.startup.enabled \in BOOLEAN /\ v7.quick.enabled \in BOOLEAN
  BY DEF DesktopInv, DesktopTypes, DesktopQuicks, DesktopLogins
<1>3. CASE Desktop!ToggleStartup
  <2>1. (~v7.startup.enabled) \in BOOLEAN
    BY <1>2
  <2> QED
    BY <1>3, <2>1, DesktopCalls DEF Desktop!ToggleStartup
<1>4. CASE Desktop!ToggleQuickSearch
  <2>1. [enabled |-> ~v7.quick.enabled] \in DesktopPatches
    BY DEF DesktopPatches
  <2> QED
    BY <1>4, <2>1, DesktopCalls DEF Desktop!ToggleQuickSearch
<1>5. ASSUME NEW a \in DesktopAccelerators, Desktop!PickPreset(a) PROVE DesktopInv'
  BY <1>5, DesktopCalls DEF DesktopPatches, Desktop!PickPreset
<1> QED
  BY <1>1, <1>3, <1>4, <1>5

\* The capture of a shortcut.
LEMMA DesktopCaptures ==
  ASSUME DesktopInv,
         \/ Desktop!StartCapture
         \/ \E key \in DesktopAccelerators \cup {"Escape", "Shift"} : Desktop!CaptureKey(key)
  PROVE  DesktopInv'
<1> USE DEF Desktop!stored, Desktop!system
<1>1. CASE Desktop!StartCapture
  BY <1>1, DesktopRests DEF Desktop!StartCapture
<1>2. ASSUME NEW key \in DesktopAccelerators \cup {"Escape", "Shift"}, Desktop!CaptureKey(key)
      PROVE  DesktopInv'
  <2>1. CASE Desktop!CancelCapture
    BY <2>1, DesktopRests DEF Desktop!CancelCapture
  <2>2. CASE Desktop!Outcome(key) = "valid" /\ Desktop!PickPreset(key)
    BY <2>2, DesktopAsks DEF Desktop!Outcome
  <2>3. CASE UNCHANGED Desktop!vars
    BY <2>3, DesktopRests DEF Desktop!vars, Desktop!page
  <2> QED
    BY <1>2, <2>1, <2>2, <2>3 DEF Desktop!CaptureKey
<1> QED
  BY <1>1, <1>2

\* The first answers.
LEMMA DesktopLearns ==
  ASSUME DesktopInv, NEW k \in Desktop!Kinds, Desktop!FirstAnswer(k)
  PROVE  DesktopInv'
<1>t. DesktopTypes /\ DesktopCall
  BY DEF DesktopInv
<1>1. k \in v9 /\ v9' = v9 \ {k} /\ UNCHANGED <<v1, v2, v3, v5, v10>>
  BY DEF Desktop!FirstAnswer, Desktop!stored, Desktop!system
<1>2. v10.kind # k
  BY <1>1 DEF DesktopInv, DesktopCall
<1>3. CASE v11' = v11 \cup {k} /\ v7' = v7
  BY <1>1, <1>3
  DEF DesktopTypes, DesktopCall, DesktopInv, Desktop!ShownIsStored, Desktop!Busy,
      Desktop!HotkeyFollowsSettings
<1>4. ASSUME NEW value \in Desktop!Current(k), Desktop!Take(k, value), v11' = v11 \ {k}
      PROVE  DesktopInv'
  <2> DEFINE Shown == [close : Desktop!Behaviors, quick : DesktopQuicks,
                       startup : DesktopLogins]
  <2>1. v7 \in Shown /\ v2 \in DesktopStored
    BY <1>t DEF DesktopTypes
  <2>2. CASE k = "close"
    <3>1. value = v2.close /\ v7' = [v7 EXCEPT !.close = value]
      BY <1>4, <2>2 DEF Desktop!Current, Desktop!Take
    <3>2. value \in Desktop!Behaviors
      BY <2>1, <3>1, DesktopStatus
    <3> HIDE DEF Shown
    <3>3. v7' \in Shown /\ v7'.close = v2.close /\ v7'.quick = v7.quick
          /\ v7'.startup = v7.startup
      BY <2>1, <3>1, <3>2 DEF Shown
    <3>4. DesktopTypes'
      BY <1>t, <1>1, <3>3 DEF DesktopTypes, Shown
    <3>5. DesktopCall'
      BY <1>t, <1>1, <1>4 DEF DesktopCall
    <3>6. Desktop!ShownIsStored'
      BY <1>1, <1>4, <2>2, <3>3 DEF DesktopInv, Desktop!ShownIsStored, Desktop!Busy
    <3> QED
      BY <1>1, <3>4, <3>5, <3>6 DEF DesktopInv, Desktop!HotkeyFollowsSettings
  <2>3. CASE k = "quick"
    <3>1. value = Desktop!Status(v2, v3) /\ v7' = [v7 EXCEPT !.quick = value]
      BY <1>4, <2>3 DEF Desktop!Current, Desktop!Take
    <3>2. value \in DesktopQuicks
      BY <2>1, <3>1, DesktopStatus
    <3> HIDE DEF Shown
    <3>3. v7' \in Shown /\ v7'.close = v7.close /\ v7'.quick = value
          /\ v7'.startup = v7.startup
      BY <2>1, <3>1, <3>2 DEF Shown
    <3>4. DesktopTypes'
      BY <1>t, <1>1, <3>3 DEF DesktopTypes, Shown
    <3>5. DesktopCall'
      BY <1>t, <1>1, <1>4 DEF DesktopCall
    <3>6. Desktop!Status(v2, v3)' = Desktop!Status(v2, v3)
      BY <1>1
    <3>7. Desktop!ShownIsStored'
      BY <1>1, <1>4, <2>3, <3>1, <3>6 DEF DesktopInv, Desktop!ShownIsStored, Desktop!Busy
    <3> QED
      BY <1>1, <3>4, <3>5, <3>7 DEF DesktopInv, Desktop!HotkeyFollowsSettings
  <2>4. CASE k = "startup"
    <3>1. value \in Desktop!LoginStatus(v5) /\ v7' = [v7 EXCEPT !.startup = value]
      BY <1>4, <2>4 DEF Desktop!Current, Desktop!Take
    <3>2. value \in DesktopLogins /\ (value.supported => value.enabled = v5)
      BY <1>t, <3>1, DesktopLoginStatus DEF DesktopTypes
    <3> HIDE DEF Shown
    <3>3. v7' \in Shown /\ v7'.close = v7.close /\ v7'.quick = v7.quick
          /\ v7'.startup = value
      BY <2>1, <3>1, <3>2 DEF Shown
    <3>4. DesktopTypes'
      BY <1>t, <1>1, <3>3 DEF DesktopTypes, Shown
    <3>5. DesktopCall'
      BY <1>t, <1>1, <1>4 DEF DesktopCall
    <3>6. Desktop!ShownIsStored'
      BY <1>1, <1>4, <2>4, <3>2, <3>3 DEF DesktopInv, Desktop!ShownIsStored, Desktop!Busy
    <3> QED
      BY <1>1, <3>4, <3>5, <3>6 DEF DesktopInv, Desktop!HotkeyFollowsSettings
  <2> QED
    BY <2>2, <2>3, <2>4 DEF Desktop!Kinds
<1> QED
  BY <1>3, <1>4 DEF Desktop!FirstAnswer

\* The answer to a call: what the page knows of the other kinds is left alone.
LEMMA DesktopAnswers ==
  ASSUME DesktopInv, NEW k \in Desktop!Kinds, Desktop!Asked(k), NEW value, NEW ok \in BOOLEAN,
         Desktop!Answer(value, ok), UNCHANGED <<v7, v9>>,
         v2' \in DesktopStored, v5' \in BOOLEAN, v1' \in DesktopStored => v1' = v2',
         k # "close" => v2'.close = v2.close,
         k # "quick" => Desktop!Status(v2, v3)' = Desktop!Status(v2, v3),
         k # "startup" => v5' = v5,
         v3' # DesktopNone => v2'.enabled /\ v2'.accelerator = v3',
         k = "close" => value \in Desktop!Behaviors /\ (ok => value = v2'.close),
         k = "quick" => (ok => value = Desktop!Status(v2, v3)'),
         k = "startup" => (ok => value \in DesktopLogins
                                 /\ (value.supported => value.enabled = v5'))
  PROVE  DesktopInv'
<1>t. DesktopTypes /\ DesktopCall
  BY DEF DesktopInv
<1>1. v10.kind = k /\ k \notin v9
  BY <1>t DEF Desktop!Asked, DesktopCall
<1>2. v10' = [v10 EXCEPT !.value = value, !.answered = TRUE, !.ok = ok]
      /\ DOMAIN v10 = DesktopFields
  BY <1>t DEF Desktop!Answer, DesktopTypes
<1>3. /\ v10'.kind = k /\ v10'.value = value /\ v10'.answered = TRUE /\ v10'.ok = ok
      /\ DOMAIN v10' = DesktopFields
  BY <1>1, <1>2 DEF DesktopFields
<1>4. v11' = IF ok THEN v11 \ {k} ELSE v11 \cup {k}
  BY <1>1 DEF Desktop!Answer
<1>5. DesktopTypes'
  BY <1>t, <1>3 DEF DesktopTypes
<1>6. DesktopCall'
  BY <1>1, <1>3, <1>4 DEF DesktopCall
<1>7. Desktop!ShownIsStored'
  BY <1>1, <1>3, <1>4
  DEF DesktopInv, Desktop!ShownIsStored, Desktop!Busy, DesktopStored, Desktop!Kinds
<1> QED
  BY <1>5, <1>6, <1>7 DEF DesktopInv, Desktop!HotkeyFollowsSettings

\* A write of the file, that may fail.
LEMMA DesktopWrites ==
  ASSUME DesktopInv, NEW next \in DesktopStored, NEW ok \in BOOLEAN,
         Desktop!WriteSettings(next, ok)
  PROVE  v2' = (IF ok THEN next ELSE v2) /\ (v1' \in DesktopStored => v1' = v2')
  BY DEF Desktop!Unreadable, Desktop!Defaults, DesktopStored, Desktop!Settings, Desktop!Behaviors,
         Desktop!WriteSettings, DesktopInv, Desktop!ShownIsStored

\* The main process serves the change that was asked for.
LEMMA DesktopServes ==
  ASSUME DesktopInv, Desktop!ServeClose \/ Desktop!ServeQuick \/ Desktop!ServeStartup
  PROVE  DesktopInv'
<1> USE DEF Desktop!Kinds
<1>t. DesktopTypes /\ DesktopCall
  BY DEF DesktopInv
<1>1. /\ v2 \in DesktopStored /\ v5 \in BOOLEAN
      /\ (v3 # DesktopNone => v2.enabled /\ v2.accelerator = v3)
      /\ (v1 \in DesktopStored => v1 = v2)
  BY DEF DesktopTypes, DesktopInv, Desktop!HotkeyFollowsSettings, Desktop!ShownIsStored,
         DesktopStored
<1>2. CASE Desktop!ServeClose
  <2>1. Desktop!Asked("close") /\ UNCHANGED <<v3, v5, v7, v9>>
    BY <1>2 DEF Desktop!ServeClose, Desktop!system
  <2>2. v10.value \in Desktop!Behaviors
    BY <1>t, <2>1 DEF DesktopCall, Desktop!Asked
  <2> DEFINE next == [v2 EXCEPT !.close = v10.value]
  <2>3. PICK ok \in BOOLEAN :
          Desktop!WriteSettings(next, ok) /\ Desktop!Answer(v10.value, ok)
    BY <1>2 DEF Desktop!ServeClose
  <2>4. /\ next \in DesktopStored /\ next.close = v10.value
        /\ next.enabled = v2.enabled /\ next.accelerator = v2.accelerator
        /\ Desktop!Status(next, v3) = Desktop!Status(v2, v3)
    BY <1>1, <2>2, DesktopStatus
  <2> HIDE DEF next
  <2>5. v2' = (IF ok THEN next ELSE v2) /\ (v1' \in DesktopStored => v1' = v2')
    BY <2>3, <2>4, DesktopWrites
  <2>6. Desktop!Status(v2, v3)' = Desktop!Status(v2, v3)
    BY <2>1, <2>4, <2>5
  <2> QED
    BY <1>1, <2>1, <2>2, <2>3, <2>4, <2>5, <2>6, DesktopAnswers
<1>3. CASE Desktop!ServeQuick
  <2>1. Desktop!Asked("quick") /\ UNCHANGED <<v5, v7, v9>>
    BY <1>3 DEF Desktop!ServeQuick
  <2>2. v10.value \in DesktopPatches
    BY <1>t, <2>1 DEF DesktopCall, Desktop!Asked
  <2> DEFINE next == Desktop!Patched(v2, v10.value)
  <2>3. PICK ok \in BOOLEAN :
          /\ Desktop!WriteSettings(next, ok)
          /\ v3' = IF ok THEN Desktop!Registered(next) ELSE v3
          /\ Desktop!Answer(Desktop!Status(next, v3'), ok)
    BY <1>3 DEF Desktop!ServeQuick
  <2>4. next \in DesktopStored /\ next.close = v2.close
    BY <1>1, <2>2, DesktopPatched
  <2> HIDE DEF next
  <2>5. v2' = (IF ok THEN next ELSE v2) /\ (v1' \in DesktopStored => v1' = v2')
    BY <2>3, <2>4, DesktopWrites
  <2>6. v3' # DesktopNone => v2'.enabled /\ v2'.accelerator = v3'
    BY <1>1, <2>3, <2>5 DEF Desktop!Registered
  <2>7. ok => Desktop!Status(next, v3') = Desktop!Status(v2, v3)'
    BY <2>5
  <2> QED
    BY <1>1, <2>1, <2>3, <2>4, <2>5, <2>6, <2>7, DesktopAnswers
<1>4. CASE Desktop!ServeStartup
  <2>1. Desktop!Asked("startup") /\ UNCHANGED <<v1, v2, v3, v7, v9>>
    BY <1>4 DEF Desktop!ServeStartup, Desktop!stored
  <2>2. v10.value \in BOOLEAN
    BY <1>t, <2>1 DEF DesktopCall, Desktop!Asked
  <2>3. PICK told, ok :
          /\ ok \in BOOLEAN /\ v5' \in BOOLEAN /\ Desktop!Answer(told, ok)
          /\ ok => told \in Desktop!LoginStatus(v5')
    BY <1>1, <1>4, <2>2 DEF Desktop!ServeStartup
  <2>4. ok => told \in DesktopLogins /\ (told.supported => told.enabled = v5')
    BY <2>3, DesktopLoginStatus
  <2>5. Desktop!Status(v2, v3)' = Desktop!Status(v2, v3)
    BY <2>1
  <2> QED
    BY <1>1, <2>1, <2>3, <2>4, DesktopAnswers
<1> QED
  BY <1>2, <1>3, <1>4

\* The answer of a change reaches the page.
LEMMA DesktopDelivers ==
  ASSUME DesktopInv, Desktop!Deliver
  PROVE  DesktopInv'
<1>t. DesktopTypes /\ DesktopCall
  BY DEF DesktopInv
<1> DEFINE k == v10.kind
           Shown == [close : Desktop!Behaviors, quick : DesktopQuicks, startup : DesktopLogins]
<1>1. /\ v10.answered /\ v10' = Desktop!NoCall /\ UNCHANGED <<v1, v2, v3, v5, v9, v11>>
      /\ IF v10.ok THEN Desktop!Take(k, v10.value) ELSE v7' = v7
  BY DEF Desktop!Deliver, Desktop!TakeAnswer, Desktop!stored, Desktop!system
<1>2. k \in Desktop!Kinds /\ v7 \in Shown /\ v2 \in DesktopStored
  BY <1>t, <1>1 DEF DesktopTypes, DesktopCall
<1>3. /\ v10'.kind = DesktopNone /\ v10'.answered = FALSE /\ v10'.ok = TRUE
      /\ DOMAIN v10' = DesktopFields
  BY <1>1 DEF Desktop!NoCall, DesktopFields
<1>4. v10.value \in DesktopQuicks \/ ~v10.ok \/ k # "quick"
  BY <1>t, <1>1, <1>2, DesktopStatus DEF DesktopCall
<1>5. /\ v7' \in Shown
      /\ v7'.close = IF v10.ok /\ k = "close" THEN v10.value ELSE v7.close
      /\ v7'.quick = IF v10.ok /\ k = "quick" THEN v10.value ELSE v7.quick
      /\ v7'.startup = IF v10.ok /\ k = "startup" THEN v10.value ELSE v7.startup
  <2>1. CASE ~v10.ok
    BY <1>1, <1>2, <2>1
  <2>2. CASE v10.ok /\ k = "close"
    BY <1>t, <1>1, <2>2, <1>2 DEF Desktop!Take, DesktopCall
  <2>3. CASE v10.ok /\ k = "quick"
    <3>1. v7' = [v7 EXCEPT !.quick = v10.value] /\ v10.value \in DesktopQuicks
      BY <1>1, <1>4, <2>3 DEF Desktop!Take
    <3> HIDE DEF Shown
    <3>2. v7' \in Shown /\ v7'.quick = v10.value /\ v7'.close = v7.close
          /\ v7'.startup = v7.startup
      BY <1>2, <3>1 DEF Shown
    <3> QED
      BY <2>3, <3>2
  <2>4. CASE v10.ok /\ k = "startup"
    <3>1. v7' = [v7 EXCEPT !.startup = v10.value] /\ v10.value \in DesktopLogins
      BY <1>t, <1>1, <2>4 DEF Desktop!Take, DesktopCall
    <3> HIDE DEF Shown
    <3>2. v7' \in Shown /\ v7'.startup = v10.value /\ v7'.close = v7.close
          /\ v7'.quick = v7.quick
      BY <1>2, <3>1 DEF Shown
    <3> QED
      BY <2>4, <3>2
  <2> QED
    BY <1>2, <2>1, <2>2, <2>3, <2>4 DEF Desktop!Kinds
<1>6. DesktopTypes'
  BY <1>t, <1>1, <1>3, <1>5 DEF DesktopTypes
<1>7. DesktopCall'
  <2>1. DesktopNone \notin Desktop!Kinds
    BY DesktopAssumption DEF Desktop!Kinds
  <2> QED
    BY <1>t, <1>1, <1>3, <2>1 DEF DesktopCall, DesktopTypes, Desktop!Kinds
<1>8. Desktop!ShownIsStored'
  <2>1. \A j \in Desktop!Kinds : j \notin v9 /\ j # k => ~Desktop!Busy(j)
    BY DEF Desktop!Busy
  <2>2. \A j \in Desktop!Kinds : ~Desktop!Busy(j)' => j \notin v9
    BY <1>1 DEF Desktop!Busy
  <2>3. "close" \notin v9 /\ "close" \notin v11 => v7'.close = v2.close
    BY <1>1, <1>5 DEF DesktopCall, DesktopInv, Desktop!ShownIsStored, Desktop!Busy
  <2>4. "quick" \notin v9 /\ "quick" \notin v11 => v7'.quick = Desktop!Status(v2, v3)
    BY <1>1, <1>5 DEF DesktopCall, DesktopInv, Desktop!ShownIsStored, Desktop!Busy
  <2>5. "startup" \notin v9 /\ "startup" \notin v11 /\ v7'.startup.supported =>
          v7'.startup.enabled = v5
    BY <1>1, <1>5 DEF DesktopCall, DesktopInv, Desktop!ShownIsStored, Desktop!Busy
  <2>6. v1' \in DesktopStored => v1' = v2'
    BY <1>1 DEF DesktopInv, Desktop!ShownIsStored, DesktopStored
  <2>7. Desktop!Status(v2, v3)' = Desktop!Status(v2, v3)
    BY <1>1
  <2> QED
    BY <1>1, <2>2, <2>3, <2>4, <2>5, <2>6, <2>7
    DEF Desktop!ShownIsStored, DesktopStored, Desktop!Kinds
<1> QED
  BY <1>1, <1>6, <1>7, <1>8 DEF DesktopInv, Desktop!HotkeyFollowsSettings

\* The prompt stores that the window is hidden.
LEMMA DesktopHides ==
  ASSUME DesktopInv, Desktop!PromptHides
  PROVE  DesktopInv'
<1>t. DesktopTypes /\ DesktopCall
  BY DEF DesktopInv
<1>1. UNCHANGED <<v3, v5, v7, v9, v10>>
  BY DEF Desktop!PromptHides, Desktop!system
<1>2. CASE UNCHANGED <<Desktop!stored, v11>>
  BY <1>1, <1>2, DesktopRests DEF Desktop!stored
<1>3. ASSUME NEW ok \in BOOLEAN, Desktop!WriteSettings([v2 EXCEPT !.close = "hide"], ok),
             v11' = v11 \cup {"close"}
      PROVE  DesktopInv'
  <2> DEFINE next == [v2 EXCEPT !.close = "hide"]
  <2>1. "hide" \in Desktop!Behaviors /\ v2 \in DesktopStored
    BY <1>t DEF Desktop!Behaviors, DesktopTypes
  <2>2. /\ next \in DesktopStored /\ next.enabled = v2.enabled
        /\ next.accelerator = v2.accelerator
        /\ Desktop!Status(next, v3) = Desktop!Status(v2, v3)
    BY <2>1, DesktopStatus
  <2> HIDE DEF next
  <2>3. v2' = (IF ok THEN next ELSE v2) /\ (v1' \in DesktopStored => v1' = v2')
    BY <1>3, <2>2, DesktopWrites DEF next
  <2>4. Desktop!Status(v2, v3)' = Desktop!Status(v2, v3)
    BY <1>1, <2>2, <2>3
  <2>5. DesktopTypes'
    BY <1>t, <1>1, <2>2, <2>3 DEF DesktopTypes
  <2>6. DesktopCall'
    BY <1>t, <1>1, <1>3, <2>4 DEF DesktopCall
  <2>7. Desktop!HotkeyFollowsSettings'
    BY <1>1, <2>2, <2>3 DEF DesktopInv, Desktop!HotkeyFollowsSettings
  <2>8. Desktop!ShownIsStored'
    BY <1>1, <1>3, <2>3, <2>4 DEF DesktopInv, Desktop!ShownIsStored, Desktop!Busy, DesktopStored
  <2> QED
    BY <2>5, <2>6, <2>7, <2>8 DEF DesktopInv
<1> QED
  BY <1>2, <1>3 DEF Desktop!PromptHides

\* The application ends and starts again, with the file as it is.
LEMMA DesktopRestarts ==
  ASSUME DesktopInv, Desktop!Quit \/ Desktop!PromptQuits \/ Desktop!CutOff
  PROVE  DesktopInv'
  BY DesktopReads, DesktopBegins
  DEF Desktop!Quit, Desktop!PromptQuits, Desktop!CutOff, Desktop!Restarts, Desktop!Starts,
      Desktop!Registered, DesktopInv, DesktopTypes

\* Every step of the desktop settings.
LEMMA DesktopKeeps ==
  ASSUME DesktopInv, Desktop!Next \/ UNCHANGED Desktop!vars
  PROVE  DesktopInv'
<1> USE DEF Desktop!stored, Desktop!page
<1>1. CASE Desktop!CloseHides \/ UNCHANGED Desktop!vars
  BY <1>1, DesktopRests DEF Desktop!CloseHides, Desktop!vars, Desktop!system
<1>2. CASE Desktop!ClosePrompts \/ Desktop!PromptCancelled
  BY <1>2, DesktopRests DEF Desktop!ClosePrompts, Desktop!PromptCancelled, Desktop!system
<1>3. CASE Desktop!OtherProgram
  BY <1>3, DesktopRests DEF Desktop!OtherProgram
<1> QED
  BY <1>1, <1>2, <1>3, DesktopAsks, DesktopCaptures, DesktopLearns, DesktopDelivers,
     DesktopServes, DesktopHides, DesktopRestarts DEF Desktop!Next

-----------------------------------------------------------------------------
(* The document sources. *)

SourcesFields == {"id", "save", "value", "adds", "from", "served"}

\* A folder that normalisation leaves alone.
SourcesNormal(p) == p \in DOMAIN SourcesFolder /\ SourcesFolder[p] = p

\* Settings are records with folders, and requests say what they are.
SourcesTypes ==
  /\ "folders" \in DOMAIN v1 /\ DOMAIN v2 = {"settings", "loaded"}
  /\ "folders" \in DOMAIN v2.settings
  /\ v4 \in SourcesTyped \cup {SourcesNoPath}
  /\ v12 \in BOOLEAN
  /\ \A r \in v8 :
       /\ DOMAIN r = SourcesFields /\ r.served \in BOOLEAN
       /\ r.save <=> r.from # "load"
       /\ r.from = "add" => r.adds \in SourcesTyped
       /\ "folders" \in DOMAIN r.value

\* While no save was rushed: a save is the only call under way; what was confirmed is in the
\* stored settings, in the page's copy once it was loaded, and in what every save sends and
\* every answer brings; and what a save adds is in what it sends and then in what is stored.
SourcesKept ==
  /\ v11 \subseteq v1.folders
  /\ \A p \in v11 : SourcesNormal(p)
  /\ v2.loaded => v11 \subseteq v2.settings.folders
  /\ \A r \in v8 :
       /\ r.save => \A q \in v8 : q = r
       /\ r.save \/ r.served => v11 \subseteq r.value.folders
       /\ r.from = "add" /\ ~r.served => r.adds \in r.value.folders
       /\ r.from = "add" /\ r.served =>
            SourcesFolder[r.adds] \in r.value.folders \cap v1.folders

SourcesInv == SourcesTypes /\ (~v12 => SourcesKept)

\* What is shown before the first answer is a record of folders.
LEMMA SourcesUnloaded ==
  "folders" \in DOMAIN Sources!Unloaded
  BY DEF Sources!Unloaded

\* A typed path has a folder, and that is normal.
LEMMA SourcesFolders ==
  ASSUME NEW p \in DOMAIN SourcesFolder
  PROVE  SourcesNormal(SourcesFolder[p])
  BY SourcesAssumption DEF SourcesNormal

\* The page starts with a request for the stored folders.
LEMMA SourcesInit == Sources!Init => SourcesInv
<1> SUFFICES ASSUME Sources!Init PROVE SourcesInv
  OBVIOUS
<1> DEFINE r == Sources!Request(0, Sources!Unloaded, SourcesNoPath, "load")
<1>1. /\ DOMAIN r = SourcesFields /\ r.served = FALSE /\ ~r.save
      /\ r.value = Sources!Unloaded /\ r.from = "load"
  BY DEF Sources!Request, SourcesFields
<1>2. v8 = {r}
  BY DEF Sources!Init
<1> HIDE DEF r
<1>3. /\ v2 = [settings |-> Sources!Unloaded, loaded |-> FALSE] /\ v4 = SourcesNoPath
      /\ v12 = FALSE /\ v11 = v1.folders
  BY DEF Sources!Init
<1>4. PICK folders \in {{}} \cup {{SourcesFolder[p]} : p \in SourcesTyped} :
        v1 = [Sources!Unloaded EXCEPT !.folders = folders]
  BY DEF Sources!Init
<1>5. "folders" \in DOMAIN v1 /\ v1.folders = folders
  BY <1>4, SourcesUnloaded
<1>6. \A p \in folders : SourcesNormal(p)
  BY SourcesFolders, SourcesAssumption
<1>7. SourcesTypes
  BY <1>1, <1>2, <1>3, <1>5, SourcesUnloaded DEF SourcesTypes
<1>8. SourcesKept
  BY <1>1, <1>2, <1>3, <1>5, <1>6 DEF SourcesKept
<1> QED
  BY <1>7, <1>8 DEF SourcesInv

\* A step that leaves settings and calls alone.
LEMMA SourcesRests ==
  ASSUME SourcesInv, UNCHANGED <<v1, v2, v8, v11, v12>>,
         v4' \in SourcesTyped \cup {SourcesNoPath}
  PROVE  SourcesInv'
  BY DEF SourcesInv, SourcesTypes, SourcesKept

\* A load is asked for; when a save is under way, it is rushed.
LEMMA SourcesFetches ==
  ASSUME SourcesInv, Sources!Fetch
  PROVE  SourcesInv'
<1> DEFINE r == Sources!Load
<1>1. /\ DOMAIN r = SourcesFields /\ r.served = FALSE /\ ~r.save
      /\ r.value = Sources!Unloaded /\ r.from = "load"
  BY DEF Sources!Load, Sources!Request, SourcesFields
<1> HIDE DEF r
<1>2. /\ v8' = v8 \cup {r} /\ UNCHANGED <<v1, v2, v4, v11>>
      /\ v12' = (v12 \/ \E q \in v8 : q.save)
  BY DEF Sources!Fetch, Sources!input, r
<1>3. SourcesTypes'
  BY <1>1, <1>2, SourcesUnloaded DEF SourcesInv, SourcesTypes
<1>4. ~v12' => SourcesKept'
  BY <1>1, <1>2 DEF SourcesInv, SourcesKept
<1> QED
  BY <1>3, <1>4 DEF SourcesInv

\* A save goes out: unless it is rushed, nothing else is under way and the copy was loaded.
LEMMA SourcesSaves ==
  ASSUME SourcesInv, NEW next, NEW adds \in SourcesTyped \cup {SourcesNoPath},
         NEW from \in {"add", "remove", "refresh", "dialog"},
         Sources!Save(next, adds, from), v4' = v4, "folders" \in DOMAIN next,
         v11' \subseteq v11, v2.settings.folders \cap v11' \subseteq next.folders,
         from = "add" => adds \in next.folders /\ adds \in SourcesTyped
  PROVE  SourcesInv'
<1> DEFINE r == Sources!Request(v9 + v10, next, adds, from)
<1>1. /\ DOMAIN r = SourcesFields /\ r.served = FALSE /\ r.save
      /\ r.value = next /\ r.from = from /\ r.adds = adds
  BY DEF Sources!Request, SourcesFields
<1>2. /\ v8' = v8 \cup {r} /\ UNCHANGED <<v1, v2>>
      /\ ~v12' => ~v12 /\ v8 = {} /\ v2.loaded
      /\ v12' \in BOOLEAN
  BY DEF Sources!Save, SourcesInv, SourcesTypes
<1> HIDE DEF r
<1>3. SourcesTypes'
  BY <1>1, <1>2 DEF SourcesInv, SourcesTypes
<1>4. ~v12' => SourcesKept'
  BY <1>1, <1>2 DEF SourcesInv, SourcesKept
<1> QED
  BY <1>3, <1>4 DEF SourcesInv

\* The changes of the page, each a save of the whole copy.
LEMMA SourcesChanges ==
  ASSUME SourcesInv,
         \/ \E key \in BOOLEAN : Sources!AddFolder(key)
         \/ \E p \in Sources!Folders : Sources!RemoveFolder(p)
         \/ \E v \in SourcesRefreshes : Sources!ChangeRefresh(v)
         \/ Sources!SaveDialog
  PROVE  SourcesInv'
<1> USE DEF Sources!input
<1> DEFINE copy == v2.settings
<1>1. "folders" \in DOMAIN copy /\ v4 \in SourcesTyped \cup {SourcesNoPath}
  BY DEF SourcesInv, SourcesTypes
<1>2. ASSUME NEW key \in BOOLEAN, Sources!AddFolder(key) PROVE SourcesInv'
  <2> DEFINE next == [copy EXCEPT !.folders = Sources!Added(copy.folders)]
  <2>1. Sources!Save(next, v4, "add") /\ v4' = v4 /\ v11' = v11 /\ v4 # SourcesNoPath
    BY <1>2 DEF Sources!AddFolder
  <2>2. "folders" \in DOMAIN next /\ next.folders = copy.folders \cup {v4}
    BY <1>1 DEF Sources!Added
  <2> HIDE DEF next
  <2> QED
    BY <1>1, <2>1, <2>2, SourcesSaves
<1>3. ASSUME NEW p \in Sources!Folders, Sources!RemoveFolder(p) PROVE SourcesInv'
  <2> DEFINE next == [copy EXCEPT !.folders = copy.folders \ {p}]
  <2>1. Sources!Save(next, SourcesNoPath, "remove") /\ v4' = v4 /\ v11' = v11 \ {p}
    BY <1>3 DEF Sources!RemoveFolder
  <2>2. "folders" \in DOMAIN next /\ next.folders = copy.folders \ {p}
    BY <1>1
  <2> HIDE DEF next
  <2> QED
    BY <2>1, <2>2, SourcesSaves
<1>4. ASSUME NEW v \in SourcesRefreshes, Sources!ChangeRefresh(v) PROVE SourcesInv'
  <2> DEFINE next == [copy EXCEPT !.refresh = v]
  <2>1. Sources!Save(next, SourcesNoPath, "refresh") /\ v4' = v4 /\ v11' = v11
    BY <1>4 DEF Sources!ChangeRefresh
  <2>2. "folders" \in DOMAIN next /\ next.folders = copy.folders
    BY <1>1
  <2> HIDE DEF next
  <2> QED
    BY <2>1, <2>2, SourcesSaves
<1>5. CASE Sources!SaveDialog
  <2> DEFINE next == Sources!WithDraft
  <2>1. Sources!Save(next, SourcesNoPath, "dialog") /\ v4' = v4 /\ v11' = v11
    BY <1>5 DEF Sources!SaveDialog
  <2>2. "folders" \in DOMAIN next /\ next.folders = copy.folders
    BY <1>1 DEF Sources!WithDraft
  <2> HIDE DEF next
  <2> QED
    BY <2>1, <2>2, SourcesSaves
<1> QED
  BY <1>2, <1>3, <1>4, <1>5

\* The backend serves a call.
LEMMA SourcesServes ==
  ASSUME SourcesInv, NEW r \in v8, Sources!Serve(r)
  PROVE  SourcesInv'
<1> DEFINE answer == IF r.save THEN Sources!Normal(r.value) ELSE v1
           s == [r EXCEPT !.value = answer, !.served = TRUE]
<1>1. /\ ~r.served /\ v1' = answer /\ v8' = (v8 \ {r}) \cup {s}
      /\ UNCHANGED <<v2, v4, v11, v12>>
  BY DEF Sources!Serve, Sources!input, Sources!history
<1>2. DOMAIN r = SourcesFields /\ "folders" \in DOMAIN r.value /\ "folders" \in DOMAIN v1
  BY DEF SourcesInv, SourcesTypes
<1>3. /\ "folders" \in DOMAIN answer
      /\ r.save => answer.folders = {SourcesFolder[p] : p \in r.value.folders}
      /\ ~r.save => answer = v1
  BY <1>2 DEF Sources!Normal
<1> HIDE DEF answer
<1>4. /\ DOMAIN s = SourcesFields /\ s.value = answer /\ s.served = TRUE
      /\ s.save = r.save /\ s.from = r.from /\ s.adds = r.adds
  BY <1>2 DEF SourcesFields
<1> HIDE DEF s
<1>5. SourcesTypes'
  BY <1>1, <1>3, <1>4 DEF SourcesInv, SourcesTypes
<1>6. ASSUME ~v12, SourcesKept PROVE SourcesKept'
  <2>1. CASE r.save
    BY <1>1, <1>6, <2>1, <1>3, <1>4 DEF SourcesKept, SourcesNormal
  <2>2. CASE ~r.save
    BY <1>1, <1>3, <2>2, <1>6, <1>4 DEF SourcesInv, SourcesTypes, SourcesKept
  <2> QED
    BY <2>1, <2>2
<1> QED
  BY <1>1, <1>5, <1>6 DEF SourcesInv

\* An answer, or a failure, reaches the page.
LEMMA SourcesAnswers ==
  ASSUME SourcesInv, NEW r \in v8, Sources!Deliver(r) \/ Sources!Reject(r)
  PROVE  SourcesInv'
<1>1. CASE Sources!Reject(r)
  BY <1>1
  DEF Sources!Reject, Sources!input, Sources!history, SourcesInv, SourcesTypes, SourcesKept
<1>2. CASE Sources!Deliver(r)
  <2>1. /\ r.served /\ v8' = v8 \ {r} /\ v2' = [settings |-> r.value, loaded |-> TRUE]
        /\ v4' = (IF r.from = "add" THEN SourcesNoPath ELSE v4)
        /\ v11' = v11 \cup (IF r.from = "add" THEN {SourcesFolder[r.adds]} ELSE {})
        /\ UNCHANGED <<v1, v12>>
    BY <1>2 DEF Sources!Deliver
  <2>2. SourcesTypes'
    BY <2>1 DEF SourcesInv, SourcesTypes
  <2>3. ASSUME ~v12, SourcesKept PROVE SourcesKept'
    BY <2>1, <2>3, SourcesAssumption, SourcesFolders DEF SourcesKept, SourcesInv, SourcesTypes
  <2> QED
    BY <2>1, <2>2, <2>3 DEF SourcesInv
<1> QED
  BY <1>1, <1>2

\* Every step of the folders.
LEMMA SourcesKeeps ==
  ASSUME SourcesInv, Sources!Next \/ UNCHANGED Sources!vars
  PROVE  SourcesInv'
<1> USE DEF Sources!input, Sources!history
<1>t. v4 \in SourcesTyped \cup {SourcesNoPath}
  BY DEF SourcesInv, SourcesTypes
<1>1. CASE Sources!Reload \/ Sources!RescanEnds
  BY <1>1, SourcesFetches DEF Sources!Reload, Sources!RescanEnds
<1>2. CASE Sources!RescanStarts \/ Sources!Pick \/ Sources!OpenDialog \/ Sources!CloseDialog
  BY <1>t, <1>2, SourcesRests
  DEF Sources!RescanStarts, Sources!Pick, Sources!OpenDialog, Sources!CloseDialog
<1>3. ASSUME NEW n \in Sources!Names, Sources!EditDialog(n) PROVE SourcesInv'
  BY <1>t, <1>3, SourcesRests DEF Sources!EditDialog
<1>4. ASSUME NEW p \in SourcesTyped \cup {SourcesNoPath}, Sources!Type(p) PROVE SourcesInv'
  BY <1>4, SourcesRests DEF Sources!Type
<1>5. CASE Sources!Picked
  BY <1>t, <1>5, SourcesRests DEF Sources!Picked
<1>6. CASE UNCHANGED Sources!vars
  BY <1>t, <1>6, SourcesRests DEF Sources!vars
<1> QED
  BY <1>1, <1>2, <1>3, <1>4, <1>5, <1>6, SourcesChanges, SourcesServes, SourcesAnswers
  DEF Sources!Next

\* Settings are what was written: the registered shortcut is the stored one and the page shows
\* what is stored, whichever writes and registrations fail, and folders that a save confirmed
\* stay until the user takes them out, unless a save was sent before any copy was loaded or
\* while another call was under way.
THEOREM SettingsTrue == Spec => []SettingsAreTrue
<1> DEFINE Inv == /\ screen = "desktop" => DesktopInv
                  /\ screen = "sources" => SourcesInv
<1>1. Init => Inv
  BY DesktopInit, SourcesInit DEF Init
<1>2. Inv /\ [Next]_vars => Inv'
  BY OnePage, DesktopKeeps, SourcesKeeps
<1>3. Inv => SettingsAreTrue
  BY DEF DesktopInv, SourcesInv, SourcesTypes, SourcesKept, Sources!ConfirmedFoldersStay,
         SettingsAreTrue
<1> QED
  BY <1>1, <1>2, <1>3, PTL DEF Spec

-----------------------------------------------------------------------------
(* The guided tour. *)

TourCalls ==
  [kind : {"create", "cleanup"}, path : Nat \ {0}, state : {"sent", "ok", "failed"}]

\* The library of a create call is of no other call and is not the one to remove, and calls
\* are served in the order they were sent.
TourOrder ==
  /\ v16 \in Seq(TourCalls) /\ v18 \in Nat /\ v4 \in 0..v18
  /\ \A i \in DOMAIN v16 : v16[i].path <= v18
  /\ \A i \in DOMAIN v16 :
       v16[i].kind = "create" =>
         v16[i].path # v4 /\ \A j \in DOMAIN v16 : v16[j].path = v16[i].path => j = i
  /\ \A i, j \in DOMAIN v16 : i <= j /\ v16[i].state = "sent" => v16[j].state = "sent"

\* A library a served cleanup removed is gone, and since a create call was served there are
\* only the libraries of the calls from that one on.
TourServed ==
  /\ \A i \in DOMAIN v16 :
       v16[i].kind = "cleanup" /\ v16[i].state # "sent" => v16[i].path \notin v17 \ v19
  /\ \A i \in DOMAIN v16 :
       v16[i].kind = "create" /\ v16[i].state # "sent" =>
         \A p \in v17 \ v19 :
           \E j \in DOMAIN v16 : /\ i <= j /\ v16[j].kind = "create"
                                 /\ v16[j].state = "ok" /\ v16[j].path = p

TourBook == TourOrder /\ TourServed /\ Tour!ExampleRemembered

\* What the tour needs to know to keep its promises.
TourInv == TourBook /\ Tour!TimersMatchTheStep

\* The tour starts with no library made.
LEMMA TourInit == Tour!Init => TourInv
  BY DEF Tour!Init, TourInv, TourBook, TourOrder, TourServed, Tour!ExampleRemembered,
         Tour!TimersMatchTheStep

\* A step that makes, sends and answers no call.
LEMMA TourRests ==
  ASSUME TourBook, UNCHANGED <<v4, v16, v17, v18, v19>>
  PROVE  TourBook'
  BY DEF TourBook, TourOrder, TourServed, Tour!ExampleRemembered

\* A call is sent: the new one is behind the others and not served.
LEMMA TourSends ==
  ASSUME TourBook, NEW c \in TourCalls, c.state = "sent", v16' = Append(v16, c),
         UNCHANGED <<v17, v19>>, v18' \in Nat, v18 <= v18', c.path <= v18',
         \/ c.kind = "create" /\ c.path = v18 + 1 /\ v4' = v4
         \/ c.kind = "cleanup" /\ c.path = v4 /\ v4' = 0
  PROVE  TourBook'
<1> DEFINE n == Len(v16)
<1>1. v16 \in Seq(TourCalls) /\ n \in Nat /\ DOMAIN v16 = 1..n /\ v18 \in Nat /\ v4 \in 0..v18
  BY DEF TourBook, TourOrder
<1>2. /\ v16' \in Seq(TourCalls) /\ DOMAIN v16' = 1..(n + 1) /\ v16'[n + 1] = c
      /\ \A i \in 1..n : v16'[i] = v16[i]
  BY <1>1
<1> HIDE DEF n
<1>3. /\ c.path \in Nat \ {0}
      /\ \A i \in 1..n : v16[i].path \in Nat \ {0} /\ v16[i].path <= v18
  <2>1. c.path \in Nat \ {0}
    BY DEF TourCalls
  <2>2. ASSUME NEW i \in 1..n PROVE v16[i].path \in Nat \ {0}
    <3>1. v16[i] \in TourCalls
      BY <1>1
    <3> QED
      BY <3>1 DEF TourCalls
  <2>3. \A i \in 1..n : v16[i].path <= v18
    BY <1>1 DEF TourBook, TourOrder
  <2> QED
    BY <2>1, <2>2, <2>3
<1>4. \A i \in 1..n : v16[i].kind = "create" => v16[i].path # c.path
  BY <1>1, <1>3 DEF TourBook, TourOrder
<1>5. c.kind = "create" => c.path # v4' /\ \A i \in 1..n : v16[i].path # c.path
  BY <1>1, <1>3
<1>6. v4' \in 0..v18' /\ \A i \in 1..(n + 1) : v16'[i].path <= v18'
  BY <1>1, <1>3
<1>7. \A i \in 1..(n + 1) :
        v16'[i].kind = "create" =>
          v16'[i].path # v4' /\ \A j \in 1..(n + 1) : v16'[j].path = v16'[i].path => j = i
  <2>1. ASSUME NEW i \in 1..(n + 1), v16'[i].kind = "create"
        PROVE  v16'[i].path # v4'
    BY <1>1, <1>3, <1>5, <2>1 DEF TourBook, TourOrder
  <2>2. ASSUME NEW i \in 1..(n + 1), v16'[i].kind = "create",
               NEW j \in 1..(n + 1), v16'[j].path = v16'[i].path
        PROVE  j = i
    BY <1>1, <2>2 DEF TourBook, TourOrder
  <2> QED
    BY <2>1, <2>2
<1>8. \A i, j \in 1..(n + 1) : i <= j /\ v16'[i].state = "sent" => v16'[j].state = "sent"
  BY <1>2, <1>1 DEF TourBook, TourOrder
<1>9. TourOrder'
  BY <1>2, <1>6, <1>7, <1>8 DEF TourOrder
<1>10. TourServed'
  BY <1>1 DEF TourBook, TourServed
<1>11. Tour!ExampleRemembered'
  BY <1>1 DEF TourBook, Tour!ExampleRemembered
<1> QED
  BY <1>9, <1>10, <1>11 DEF TourBook

\* The oldest of n calls is taken away, and the others move up.
TourTail(n) ==
  /\ n \in Nat \ {0} /\ DOMAIN v16 = 1..n
  /\ v16' \in Seq(TourCalls) /\ DOMAIN v16' = 1..(n - 1)
  /\ \A i \in 1..(n - 1) : v16'[i] = v16[i + 1]

\* The answer to the oldest call is taken; the library of a create call that was served is
\* the next one to remove.
LEMMA TourTakes ==
  ASSUME TourBook, NEW n, TourTail(n), v16[1].state # "sent", UNCHANGED <<v17, v18, v19>>,
         \/ v16[1].kind = "cleanup" /\ v4' = v4
         \/ v16[1].kind = "create" /\ v16[1].state = "ok" /\ v4' = v16[1].path
         \/ v16[1].kind = "create" /\ v16[1].state = "failed" /\ v4' = 0
  PROVE  TourBook'
<1>1. /\ v16 \in Seq(TourCalls) /\ DOMAIN v16 = 1..n /\ 1 \in 1..n /\ n \in Nat \ {0}
      /\ v18 \in Nat /\ v4 \in 0..v18
  BY DEF TourBook, TourOrder, TourTail
<1>2. /\ v16' \in Seq(TourCalls) /\ DOMAIN v16' = 1..(n - 1)
      /\ \A i \in 1..(n - 1) : v16'[i] = v16[i + 1] /\ i + 1 \in 1..n
      /\ \A i \in 1..n : i = 1 \/ (i - 1 \in 1..(n - 1) /\ v16'[i - 1] = v16[i])
  BY DEF TourTail
<1>3. \A i \in 1..n : v16[i].path \in Nat \ {0} /\ v16[i].path <= v18
  <2>1. ASSUME NEW i \in 1..n PROVE v16[i].path \in Nat \ {0}
    <3>1. v16[i] \in TourCalls
      BY <1>1
    <3> QED
      BY <3>1 DEF TourCalls
  <2>2. \A i \in 1..n : v16[i].path <= v18
    BY <1>1 DEF TourBook, TourOrder
  <2> QED
    BY <2>1, <2>2
<1>4. v4' \in 0..v18'
  BY <1>1, <1>3
<1>5. \A i \in 1..(n - 1) : v16'[i].path <= v18'
  BY <1>2, <1>3
<1>6. \A i \in 1..(n - 1) :
        v16'[i].kind = "create" =>
          v16'[i].path # v4' /\ \A j \in 1..(n - 1) : v16'[j].path = v16'[i].path => j = i
  <2>1. ASSUME NEW i \in 1..(n - 1), v16'[i].kind = "create" PROVE v16'[i].path # v4'
    <3>1. i + 1 # 1 /\ v16'[i] = v16[i + 1] /\ i + 1 \in 1..n
      BY <1>2
    <3>2. /\ v16[i + 1].path # v4 /\ v16[i + 1].path # 0
          /\ v16[1].path # v16[i + 1].path
      BY <1>1, <1>3, <2>1, <3>1 DEF TourBook, TourOrder
    <3> QED
      BY <3>1, <3>2
  <2>2. ASSUME NEW i \in 1..(n - 1), v16'[i].kind = "create",
               NEW j \in 1..(n - 1), v16'[j].path = v16'[i].path
        PROVE  j = i
    <3>1. /\ v16'[i] = v16[i + 1] /\ i + 1 \in 1..n /\ v16'[j] = v16[j + 1] /\ j + 1 \in 1..n
      BY <1>2
    <3>2. j + 1 = i + 1
      BY <1>1, <2>2, <3>1 DEF TourBook, TourOrder
    <3> QED
      BY <3>2
  <2> QED
    BY <2>1, <2>2
<1>7. \A i, j \in 1..(n - 1) : i <= j /\ v16'[i].state = "sent" => v16'[j].state = "sent"
  <2>1. ASSUME NEW i \in 1..(n - 1), NEW j \in 1..(n - 1), i <= j, v16'[i].state = "sent"
        PROVE  v16'[j].state = "sent"
    <3>1. /\ v16'[i] = v16[i + 1] /\ i + 1 \in 1..n /\ v16'[j] = v16[j + 1] /\ j + 1 \in 1..n
          /\ i + 1 <= j + 1
      BY <1>2, <2>1
    <3> QED
      BY <1>1, <2>1, <3>1 DEF TourBook, TourOrder
  <2> QED
    BY <2>1
<1>8. TourOrder'
  BY <1>1, <1>2, <1>4, <1>5, <1>6, <1>7 DEF TourOrder
<1>9. ASSUME NEW i \in 1..(n - 1), v16'[i].kind = "cleanup", v16'[i].state # "sent"
      PROVE  v16'[i].path \notin v17 \ v19
  <2>1. v16'[i] = v16[i + 1] /\ i + 1 \in DOMAIN v16
    BY <1>1, <1>2
  <2> QED
    BY <1>9, <2>1 DEF TourBook, TourServed
<1>10. \A i \in 1..(n - 1) :
         v16'[i].kind = "create" /\ v16'[i].state # "sent" =>
           \A p \in v17 \ v19 :
             \E j \in 1..(n - 1) : /\ i <= j /\ v16'[j].kind = "create"
                                   /\ v16'[j].state = "ok" /\ v16'[j].path = p
  <2> SUFFICES ASSUME NEW i \in 1..(n - 1), v16'[i].kind = "create",
                      v16'[i].state # "sent", NEW p \in v17 \ v19
               PROVE  \E j \in 1..(n - 1) :
                        /\ i <= j /\ v16'[j].kind = "create"
                        /\ v16'[j].state = "ok" /\ v16'[j].path = p
    OBVIOUS
  <2>1. v16'[i] = v16[i + 1] /\ i + 1 \in 1..n
    BY <1>2
  <2>2. PICK j \in 1..n : /\ i + 1 <= j /\ v16[j].kind = "create"
                          /\ v16[j].state = "ok" /\ v16[j].path = p
    BY <1>1, <2>1 DEF TourBook, TourServed
  <2>3. j - 1 \in 1..(n - 1) /\ v16'[j - 1] = v16[j] /\ i <= j - 1
    BY <1>2, <2>2
  <2> QED
    BY <2>2, <2>3
<1>11. TourServed'
  <2>1. v17' \ v19' = v17 \ v19 /\ DOMAIN v16' = 1..(n - 1)
    BY <1>2
  <2>2. ASSUME NEW i \in DOMAIN v16', v16'[i].kind = "cleanup", v16'[i].state # "sent"
        PROVE  v16'[i].path \notin v17' \ v19'
    BY <2>1, <2>2, <1>9
  <2>3. ASSUME NEW i \in DOMAIN v16', v16'[i].kind = "create", v16'[i].state # "sent",
               NEW p \in v17' \ v19'
        PROVE  \E j \in DOMAIN v16' : /\ i <= j /\ v16'[j].kind = "create"
                                      /\ v16'[j].state = "ok" /\ v16'[j].path = p
    <3>1. i \in 1..(n - 1) /\ p \in v17 \ v19
      BY <2>1
    <3>2. PICK j \in 1..(n - 1) : /\ i <= j /\ v16'[j].kind = "create"
                                  /\ v16'[j].state = "ok" /\ v16'[j].path = p
      BY <1>10, <2>3, <3>1
    <3> QED
      BY <2>1, <3>2, Zenon
  <2> QED
    BY <2>2, <2>3 DEF TourServed
<1>12. ASSUME NEW p \in v17 \ v19
       PROVE  p = v4' \/ \E i \in 1..(n - 1) : v16'[i].path = p
  <2>1. CASE v16[1].kind = "cleanup"
    BY <1>1, <2>1, <1>2 DEF TourBook, TourServed, Tour!ExampleRemembered
  <2>2. CASE v16[1].kind = "create"
    <3>1. PICK j \in 1..n : v16[j].kind = "create" /\ v16[j].state = "ok" /\ v16[j].path = p
      BY <1>1, <2>2 DEF TourBook, TourServed
    <3>2. CASE j = 1
      BY <3>1, <3>2
    <3>3. CASE j # 1
      BY <1>2, <3>1
    <3> QED
      BY <3>2, <3>3
  <2> QED
    BY <2>1, <2>2
<1>13. Tour!ExampleRemembered'
  BY <1>2, <1>12 DEF Tour!ExampleRemembered
<1> QED
  BY <1>8, <1>11, <1>13 DEF TourBook

\* The oldest call that is not served is served: before it all are, behind it none.
LEMMA TourNext ==
  ASSUME TourBook, NEW i, Tour!IsNext(i)
  PROVE  /\ i \in DOMAIN v16 /\ v16[i].state = "sent"
         /\ \A j \in DOMAIN v16 : v16[j].state # "sent" => j < i
  BY DEF Tour!IsNext, Tour!Unserved, TourBook, TourOrder

\* Only the state of a call changes when it is served.
LEMMA TourMarks ==
  ASSUME TourBook, NEW i \in DOMAIN v16, NEW s \in {"ok", "failed"},
         v16' = [v16 EXCEPT ![i].state = s]
  PROVE  /\ v16' \in Seq(TourCalls) /\ DOMAIN v16' = DOMAIN v16 /\ DOMAIN v16 \subseteq Nat
         /\ v16'[i].state = s /\ \A j \in DOMAIN v16 : j # i => v16'[j] = v16[j]
         /\ \A j \in DOMAIN v16 : v16'[j].kind = v16[j].kind /\ v16'[j].path = v16[j].path
<1>1. v16 \in Seq(TourCalls) /\ v16[i] \in TourCalls
  BY DEF TourBook, TourOrder
<1> DEFINE c == [v16[i] EXCEPT !.state = s]
<1>2. c \in TourCalls /\ c.state = s /\ c.kind = v16[i].kind /\ c.path = v16[i].path
  BY <1>1 DEF TourCalls
<1>3. v16' = [v16 EXCEPT ![i] = c]
  OBVIOUS
<1> HIDE DEF c
<1> QED
  BY <1>1, <1>2, <1>3

\* Serving the next call keeps the calls in their order.
LEMMA TourStaysInOrder ==
  ASSUME TourBook, NEW i \in DOMAIN v16, NEW s \in {"ok", "failed"}, Tour!IsNext(i),
         v16' = [v16 EXCEPT ![i].state = s], UNCHANGED <<v4, v18>>
  PROVE  TourOrder'
<1>1. /\ v16' \in Seq(TourCalls) /\ DOMAIN v16' = DOMAIN v16 /\ DOMAIN v16 \subseteq Nat
      /\ v16'[i].state = s /\ \A j \in DOMAIN v16 : j # i => v16'[j] = v16[j]
      /\ \A j \in DOMAIN v16 : v16'[j].kind = v16[j].kind /\ v16'[j].path = v16[j].path
  BY TourMarks
<1>2. \A j \in DOMAIN v16 : v16[j].state # "sent" => j < i
  BY TourNext
<1>3. ASSUME NEW j \in DOMAIN v16, NEW k \in DOMAIN v16, j <= k, v16'[j].state = "sent"
      PROVE  v16'[k].state = "sent"
  BY <1>3 DEF TourBook, TourOrder, Tour!IsNext, Tour!Unserved
<1>4. \A j \in DOMAIN v16' :
        v16'[j].kind = "create" =>
          v16'[j].path # v4' /\ \A k \in DOMAIN v16' : v16'[k].path = v16'[j].path => k = j
  BY DEF TourBook, TourOrder
<1> QED
  BY <1>1, <1>3 DEF TourBook, TourOrder

\* The server makes the library it was asked for, and the one before is gone.
LEMMA TourCreates ==
  ASSUME TourBook, NEW i \in DOMAIN v16, Tour!CreateServed(i)
  PROVE  TourBook'
<1>1. /\ Tour!IsNext(i) /\ v16[i].kind = "create" /\ v16' = [v16 EXCEPT ![i].state = "ok"]
      /\ v17' = {v16[i].path} /\ UNCHANGED <<v4, v18, v19>>
  BY DEF Tour!CreateServed
<1>2. TourOrder'
  BY <1>1, TourStaysInOrder
<1>3. /\ v16' \in Seq(TourCalls) /\ DOMAIN v16' = DOMAIN v16 /\ DOMAIN v16 \subseteq Nat
      /\ v16'[i].state = "ok" /\ \A j \in DOMAIN v16 : j # i => v16'[j] = v16[j]
      /\ \A j \in DOMAIN v16 : v16'[j].kind = v16[j].kind /\ v16'[j].path = v16[j].path
  BY <1>1, TourMarks
<1>4. \A j \in DOMAIN v16 : v16[j].state # "sent" => j < i
  BY <1>1, TourNext
<1>5. \A j \in DOMAIN v16 : v16[j].path = v16[i].path => j = i
  BY <1>1 DEF TourBook, TourOrder
<1>6. \A j \in DOMAIN v16' :
        v16'[j].kind = "cleanup" /\ v16'[j].state # "sent" => v16'[j].path \notin v17' \ v19'
  BY <1>1, <1>5
<1>7. \A j \in DOMAIN v16' :
        v16'[j].kind = "create" /\ v16'[j].state # "sent" =>
          \A p \in v17' \ v19' :
            \E k \in DOMAIN v16' : /\ j <= k /\ v16'[k].kind = "create"
                                   /\ v16'[k].state = "ok" /\ v16'[k].path = p
  BY <1>3, <1>4, <1>1
<1>8. Tour!ExampleRemembered'
  BY <1>1 DEF Tour!ExampleRemembered
<1> QED
  BY <1>2, <1>6, <1>7, <1>8 DEF TourBook, TourServed

\* The server removes the library it was asked to.
LEMMA TourRemoves ==
  ASSUME TourBook, NEW i \in DOMAIN v16, Tour!CleanupServed(i)
  PROVE  TourBook'
<1>1. /\ Tour!IsNext(i) /\ v16[i].kind = "cleanup" /\ v16' = [v16 EXCEPT ![i].state = "ok"]
      /\ v17' = v17 \ {v16[i].path} /\ UNCHANGED <<v4, v18, v19>>
  BY DEF Tour!CleanupServed
<1>2. TourOrder'
  BY <1>1, TourStaysInOrder
<1>3. /\ v16' \in Seq(TourCalls) /\ DOMAIN v16' = DOMAIN v16 /\ DOMAIN v16 \subseteq Nat
      /\ v16'[i].state = "ok" /\ \A j \in DOMAIN v16 : j # i => v16'[j] = v16[j]
      /\ \A j \in DOMAIN v16 : v16'[j].kind = v16[j].kind /\ v16'[j].path = v16[j].path
  BY <1>1, TourMarks
<1>4. \A j \in DOMAIN v16' :
        v16'[j].kind = "cleanup" /\ v16'[j].state # "sent" => v16'[j].path \notin v17' \ v19'
  BY <1>1 DEF TourBook, TourServed
<1>5. \A j \in DOMAIN v16' :
        v16'[j].kind = "create" /\ v16'[j].state # "sent" =>
          \A p \in v17' \ v19' :
            \E k \in DOMAIN v16' : /\ j <= k /\ v16'[k].kind = "create"
                                   /\ v16'[k].state = "ok" /\ v16'[k].path = p
  BY <1>1 DEF TourBook, TourServed
<1>6. Tour!ExampleRemembered'
  BY <1>1 DEF TourBook, Tour!ExampleRemembered
<1> QED
  BY <1>2, <1>4, <1>5, <1>6 DEF TourBook, TourServed

\* What a failing call leaves on disk is excused.
LEMMA TourFails ==
  ASSUME TourBook, NEW i \in DOMAIN v16, Tour!CallFailed(i)
  PROVE  TourBook'
<1>1. /\ Tour!IsNext(i) /\ v16' = [v16 EXCEPT ![i].state = "failed"]
      /\ v17' \ v19' = {} /\ UNCHANGED <<v4, v18>>
  BY DEF Tour!CallFailed
<1>2. TourOrder'
  BY <1>1, TourStaysInOrder
<1>3. TourServed' /\ Tour!ExampleRemembered'
  BY <1>1 DEF TourServed, Tour!ExampleRemembered
<1> QED
  BY <1>2, <1>3 DEF TourBook

\* The clean-up of a step, when there is something to clean up, sends its call.
LEMMA TourCleans ==
  ASSUME TourBook, Tour!Cleanup(v4, v5), UNCHANGED <<v17, v18, v19>>
  PROVE  TourBook'
<1>1. CASE v6 \/ v4 = 0
  BY <1>1, TourRests DEF Tour!Cleanup
<1>2. CASE ~(v6 \/ v4 = 0)
  <2> DEFINE c == [kind |-> "cleanup", path |-> v4, state |-> "sent"]
  <2>1. v4' = 0 /\ v16' = Append(v16, c)
    BY <1>2 DEF Tour!Cleanup
  <2>2. v18 \in Nat /\ v4 \in Nat \ {0} /\ v4 <= v18
    BY <1>2 DEF TourBook, TourOrder
  <2>3. c \in TourCalls /\ c.state = "sent" /\ c.kind = "cleanup" /\ c.path = v4
    BY <2>2 DEF TourCalls
  <2> HIDE DEF c
  <2> QED
    BY <2>1, <2>2, <2>3, TourSends
<1> QED
  BY <1>1, <1>2

\* Nothing that is remembered changes, or one clean-up is sent.
TourMild ==
  /\ UNCHANGED <<v17, v18, v19>>
  /\ UNCHANGED <<v4, v16>> \/ Tour!Cleanup(v4, v5)

\* The mild steps keep the book of libraries.
LEMMA TourMildKeeps ==
  ASSUME TourBook, TourMild
  PROVE  TourBook'
  BY TourRests, TourCleans DEF TourMild

\* A render of the window starts the timers of its own step only.
LEMMA TourRenders ==
  ASSUME NEW t, NEW s, Tour!Render(t, s), v9' = v9
  PROVE  Tour!TimersMatchTheStep'
<1>1. /\ v1' = t /\ v2' = s
      /\ v7' # TourNone => v7' = s /\ Tour!TargetTab(s) = t
  BY DEF Tour!Render, Tour!HudEffect
<1>2. v10' => s = "search" /\ v9
  BY Zenon DEF Tour!Render, Tour!SearchEffect
<1>3. Tour!TargetTab(v2)' = Tour!TargetTab(v2')
  BY DEF Tour!TargetTab
<1> QED
  BY <1>1, <1>2 DEF Tour!TimersMatchTheStep

\* A step that touches neither the step of the tour nor its timers.
LEMMA TourTimersRest ==
  ASSUME Tour!TimersMatchTheStep, UNCHANGED <<v1, v2, v7, v10, v9>>
  PROVE  Tour!TimersMatchTheStep'
  BY DEF Tour!TimersMatchTheStep, Tour!TargetTab

\* The steps of the window and of its dialog.
LEMMA TourWindow ==
  ASSUME TourInv,
         \/ \E t \in Tour!Tabs : Tour!SelectTab(t)
         \/ Tour!Rerender \/ Tour!ResetAnswered \/ Tour!NoResetAnswered
         \/ Tour!ReplayOnboarding \/ Tour!StartOwnFolder
         \/ Tour!Escape \/ Tour!CloseDone \/ Tour!AutoAdvance
         \/ Tour!AddFolder \/ Tour!RefreshDocuments
         \/ Tour!SearchAdvance \/ Tour!Open \/ Tour!ExpandSlide \/ Tour!SelectCell
         \/ \E ok \in BOOLEAN : \/ Tour!FolderSaved(ok) \/ Tour!RescanEnded(ok)
                                \/ \E s \in DOMAIN Tour!OpenedTo : Tour!Opened(s, ok)
  PROVE  TourInv'
<1> USE DEF Tour!page, Tour!disk, Tour!timers, Tour!NoCleanup, Tour!MoveTo
<1>1. TourMild
  BY DEF TourMild, Tour!SelectTab, Tour!Rerender, Tour!ResetAnswered, Tour!NoResetAnswered,
         Tour!ReplayOnboarding, Tour!StartOwnFolder, Tour!Escape, Tour!CloseDone,
         Tour!AutoAdvance, Tour!AddFolder, Tour!RefreshDocuments, Tour!SearchAdvance,
         Tour!Open, Tour!ExpandSlide, Tour!SelectCell, Tour!FolderSaved, Tour!RescanEnded,
         Tour!Opened
<1>2. \/ v9' = v9 /\ \E t, s : Tour!Render(t, s)
      \/ UNCHANGED <<v1, v2, v7, v10, v9>>
  BY DEF Tour!SelectTab, Tour!Rerender, Tour!ResetAnswered, Tour!NoResetAnswered,
         Tour!ReplayOnboarding, Tour!StartOwnFolder, Tour!Escape, Tour!CloseDone,
         Tour!AutoAdvance, Tour!AddFolder, Tour!RefreshDocuments, Tour!SearchAdvance,
         Tour!Open, Tour!ExpandSlide, Tour!SelectCell, Tour!FolderSaved, Tour!RescanEnded,
         Tour!Opened
<1> QED
  BY <1>1, <1>2, TourMildKeeps, TourRenders, TourTimersRest DEF TourInv

\* The searches of the search page, which do not render the window.
LEMMA TourSearches ==
  ASSUME TourInv, NEW ok \in BOOLEAN,
         Tour!ButtonSearch \/ Tour!TypedSearch(ok) \/ Tour!ButtonAnswered(ok)
  PROVE  TourInv'
<1>1. TourMild
  BY DEF TourMild, Tour!ButtonSearch, Tour!TypedSearch, Tour!ButtonAnswered, Tour!NoCleanup,
         Tour!disk
<1>2. CASE Tour!ButtonSearch \/ Tour!TypedSearch(ok)
  <2>1. v10' => v2 = "search" /\ v9'
    BY <1>2 DEF Tour!ButtonSearch, Tour!TypedSearch, Tour!SearchEffect
  <2>2. UNCHANGED <<v1, v2, v7>>
    BY <1>2 DEF Tour!ButtonSearch, Tour!TypedSearch
  <2>3. Tour!TargetTab(v2)' = Tour!TargetTab(v2)
    BY <2>2 DEF Tour!TargetTab
  <2> QED
    BY <1>1, <2>1, <2>2, <2>3, TourMildKeeps, Zenon DEF TourInv, Tour!TimersMatchTheStep
<1>3. CASE Tour!ButtonAnswered(ok) /\ ok
  <2>1. v1' = v1 /\ v2' = "search-review" /\ ~v10'
    BY <1>3, Zenon DEF Tour!ButtonAnswered, Tour!SearchEffect
  <2>2. v7' # TourNone => v7' = "search-review" /\ Tour!TargetTab("search-review") = v1
    BY <1>3 DEF Tour!ButtonAnswered, Tour!HudEffect
  <2>3. Tour!TargetTab(v2)' = Tour!TargetTab("search-review")
    BY <2>1 DEF Tour!TargetTab
  <2> QED
    BY <1>1, <2>1, <2>2, <2>3, TourMildKeeps, Zenon DEF TourInv, Tour!TimersMatchTheStep
<1>4. CASE Tour!ButtonAnswered(ok) /\ ~ok
  <2>1. UNCHANGED <<v1, v2, v7>> /\ ~v10'
    BY <1>4 DEF Tour!ButtonAnswered, Tour!SearchEffect
  <2>2. Tour!TargetTab(v2)' = Tour!TargetTab(v2)
    BY <2>1 DEF Tour!TargetTab
  <2> QED
    BY <1>1, <2>1, <2>2, TourMildKeeps, Zenon DEF TourInv, Tour!TimersMatchTheStep
<1> QED
  BY <1>2, <1>3, <1>4 DEF TourInv

\* The calls: one is sent for the example, and answers are taken.
LEMMA TourCallsKeep ==
  ASSUME TourInv, Tour!StartExample \/ Tour!CreateAnswered \/ Tour!CleanupAnswered
  PROVE  TourInv'
<1>1. CASE Tour!StartExample
  <2> DEFINE c == [kind |-> "create", path |-> v18 + 1, state |-> "sent"]
  <2>1. /\ v16' = Append(v16, c) /\ v18' = v18 + 1
        /\ UNCHANGED <<v1, v2, v4, v7, v9, v10, v17, v19>>
    BY <1>1 DEF Tour!StartExample, Tour!timers, Tour!page
  <2>2. v18 \in Nat
    BY DEF TourInv, TourBook, TourOrder
  <2>3. c \in TourCalls /\ c.state = "sent" /\ c.kind = "create" /\ c.path = v18 + 1
    BY <2>2 DEF TourCalls
  <2> HIDE DEF c
  <2>4. TourBook'
    BY <2>1, <2>2, <2>3, TourSends DEF TourInv
  <2> QED
    BY <2>1, <2>4, TourTimersRest DEF TourInv
<1>2. CASE Tour!CreateAnswered \/ Tour!CleanupAnswered
  <2>1. v9' = v9 /\ \E t, s : Tour!Render(t, s)
    BY <1>2 DEF Tour!CreateAnswered, Tour!CleanupAnswered, Tour!page
  <2>2. /\ v16 # <<>> /\ v16[1].state # "sent" /\ v16' = Tail(v16)
        /\ UNCHANGED <<v17, v18, v19>>
    BY <1>2 DEF Tour!CreateAnswered, Tour!CleanupAnswered, Tour!disk
  <2>3. \/ v16[1].kind = "cleanup" /\ v4' = v4
        \/ v16[1].kind = "create" /\ v16[1].state = "ok" /\ v4' = v16[1].path
        \/ v16[1].kind = "create" /\ v16[1].state = "failed" /\ v4' = 0
    BY <1>2 DEF Tour!CreateAnswered, Tour!CleanupAnswered
  <2>4. v16 \in Seq(TourCalls) /\ Len(v16) \in Nat \ {0} /\ DOMAIN v16 = 1..Len(v16)
    BY <2>2 DEF TourInv, TourBook, TourOrder
  <2>5. TourTail(Len(v16))
    BY <2>2, <2>4 DEF TourTail
  <2>6. TourBook'
    BY <2>2, <2>3, <2>5, TourTakes DEF TourInv
  <2> QED
    BY <2>1, <2>6, TourRenders DEF TourInv
<1> QED
  BY <1>1, <1>2

\* Every step of the tour.
LEMMA TourKeeps ==
  ASSUME TourInv, Tour!Next \/ UNCHANGED Tour!vars
  PROVE  TourInv'
<1>1. ASSUME NEW i \in DOMAIN v16,
             Tour!CreateServed(i) \/ Tour!CleanupServed(i) \/ Tour!CallFailed(i)
      PROVE  TourInv'
  BY <1>1, TourCreates, TourRemoves, TourFails, TourTimersRest
  DEF TourInv, Tour!CreateServed, Tour!CleanupServed, Tour!CallFailed, Tour!timers, Tour!page
<1>2. CASE UNCHANGED Tour!vars
  BY <1>2, TourRests, TourTimersRest DEF Tour!vars, TourInv
<1>3. ASSUME NEW ok \in BOOLEAN, Tour!TypedSearch(ok) \/ Tour!ButtonAnswered(ok)
      PROVE  TourInv'
  BY <1>3, TourSearches
<1>4. CASE Tour!ButtonSearch
  BY <1>4, TourSearches
<1>5. CASE Tour!StartExample \/ Tour!CreateAnswered \/ Tour!CleanupAnswered
  BY <1>5, TourCallsKeep
<1>6. CASE \/ \E t \in Tour!Tabs : Tour!SelectTab(t)
           \/ Tour!Rerender \/ Tour!ResetAnswered \/ Tour!NoResetAnswered
           \/ Tour!ReplayOnboarding \/ Tour!StartOwnFolder
           \/ Tour!Escape \/ Tour!CloseDone \/ Tour!AutoAdvance
           \/ Tour!AddFolder \/ Tour!RefreshDocuments
           \/ Tour!SearchAdvance \/ Tour!Open \/ Tour!ExpandSlide \/ Tour!SelectCell
           \/ \E ok \in BOOLEAN : \/ Tour!FolderSaved(ok) \/ Tour!RescanEnded(ok)
                                  \/ \E s \in DOMAIN Tour!OpenedTo : Tour!Opened(s, ok)
  BY <1>6, TourWindow
<1> QED
  BY <1>1, <1>2, <1>3, <1>4, <1>5, <1>6 DEF Tour!Next

\* The tour keeps track of what it started, however its calls overlap with each other, with
\* Escape and with a tour started again: an example library on disk is the one to be removed
\* next, or a call about it is under way, or a call failed; and the timers that move the tour
\* on are those of the step that is shown.
THEOREM TourTracks == Spec => []TourKeepsTrack
<1> DEFINE Inv == screen = "tour" => TourInv
<1>1. Init => Inv
  BY TourInit DEF Init
<1>2. Inv /\ [Next]_vars => Inv'
  BY OnePage, TourKeeps
<1>3. Inv => TourKeepsTrack
  BY DEF TourInv, TourBook, TourKeepsTrack
<1> QED
  BY <1>1, <1>2, <1>3, PTL DEF Spec

-----------------------------------------------------------------------------
(* The quick search. *)

QuickFields ==
  {"query", "docs", "loading", "searched", "error", "selected", "panel", "cleared"}
QuickAsked == {"q", "at", "found", "current"}

\* At most one search is not out of date.  It is for what is typed, and once it awaits the
\* contents its documents are on the page.
QuickInv ==
  /\ DOMAIN v12 = QuickFields
  /\ \A r \in v13 : DOMAIN r = QuickAsked
  /\ \A r, s \in v13 : r.current /\ s.current => r = s
  /\ \A r \in v13 :
       r.current => r.q = v12.query /\ (r.at = "content" => v12.docs.q = r.q)
  /\ Quick!DocumentsAnswerTheQuery
  /\ Quick!SpinnerHasASearch

\* A fresh page has every field, no query and nothing found.
LEMMA QuickFresh ==
  /\ DOMAIN Quick!FreshPage = QuickFields
  /\ Quick!FreshPage.query = QuickNone /\ Quick!FreshPage.docs.q = QuickNone
  /\ Quick!FreshPage.loading = FALSE
  BY DEF Quick!FreshPage, Quick!Nothing, QuickFields

\* The palette starts with a fresh page and no search.
LEMMA QuickInit == Quick!Init => QuickInv
  BY QuickFresh DEF Quick!Init, Quick!DocumentsAnswerTheQuery, Quick!SpinnerHasASearch, QuickInv

\* A step that touches neither the page nor its searches.
LEMMA QuickRests ==
  ASSUME QuickInv, UNCHANGED <<v12, v13>>
  PROVE  QuickInv'
  BY DEF QuickInv, Quick!DocumentsAnswerTheQuery, Quick!SpinnerHasASearch

\* Once they are out of date no search is current.
LEMMA QuickOutOfDate ==
  ASSUME QuickInv
  PROVE  \A s \in Quick!OutOfDate(v13) : s.current = FALSE /\ DOMAIN s = QuickAsked
  BY DEF QuickInv, QuickAsked, Quick!OutOfDate

\* The page is cleared, and every search is out of date or gone.
LEMMA QuickClears ==
  ASSUME QuickInv, DOMAIN v12' = QuickFields, v12'.query = QuickNone,
         v12'.docs.q = QuickNone, v12'.loading = FALSE,
         v13' = {} \/ v13' = Quick!OutOfDate(v13)
  PROVE  QuickInv'
<1>1. \A s \in v13' : s.current = FALSE /\ DOMAIN s = QuickAsked
  BY QuickOutOfDate
<1>2. Quick!DocumentsAnswerTheQuery' /\ Quick!SpinnerHasASearch'
  BY DEF Quick!DocumentsAnswerTheQuery, Quick!SpinnerHasASearch
<1> QED
  BY <1>1, <1>2 DEF QuickInv

\* Typing makes the earlier searches stale.
LEMMA QuickTypes ==
  ASSUME QuickInv, NEW q, Quick!Type(q)
  PROVE  QuickInv'
<1>1. CASE q = QuickNone
  <2>1. v12' = [Quick!FreshPage EXCEPT !.error = FALSE] /\ v13' = Quick!OutOfDate(v13)
    BY <1>1 DEF Quick!Type, Quick!SearchEffect
  <2>2. /\ DOMAIN v12' = QuickFields /\ v12'.query = QuickNone
        /\ v12'.docs.q = QuickNone /\ v12'.loading = FALSE
    BY <2>1, QuickFresh DEF QuickFields
  <2> QED
    BY <2>1, <2>2, QuickClears
<1>2. CASE q # QuickNone
  <2> DEFINE new == [q |-> q, at |-> "timer", found |-> {}, current |-> TRUE]
  <2>1. /\ v12' = [v12 EXCEPT !.query = q, !.loading = TRUE, !.error = FALSE]
        /\ v13' = Quick!OutOfDate(v13) \cup {new}
    BY <1>2 DEF Quick!Type, Quick!SearchEffect
  <2>2. /\ DOMAIN v12' = QuickFields /\ v12'.query = q /\ v12'.loading = TRUE
        /\ v12'.docs = v12.docs
    BY <2>1 DEF QuickInv, QuickFields
  <2>3. new.q = q /\ new.at = "timer" /\ new.current = TRUE /\ DOMAIN new = QuickAsked
    BY DEF QuickAsked
  <2> HIDE DEF new
  <2>4. \A s \in v13' : DOMAIN s = QuickAsked /\ (s.current => s = new)
    BY <2>1, <2>3, QuickOutOfDate
  <2>5. Quick!DocumentsAnswerTheQuery' /\ Quick!SpinnerHasASearch'
    BY <2>1, <2>3 DEF Quick!DocumentsAnswerTheQuery, Quick!SpinnerHasASearch
  <2> QED
    BY <2>2, <2>3, <2>4, <2>5 DEF QuickInv
<1> QED
  BY <1>1, <1>2

\* A step of a search that is out of date: the page stays, and only it changes.
LEMMA QuickStale ==
  ASSUME QuickInv, v12' = v12, NEW r \in v13, ~r.current,
         NEW s, ~s.current, DOMAIN s = QuickAsked,
         v13' = v13 \ {r} \/ v13' = (v13 \ {r}) \cup {s}
  PROVE  QuickInv'
  BY DEF QuickInv, Quick!DocumentsAnswerTheQuery, Quick!SpinnerHasASearch

\* The current search goes on as another, with its documents on the page or without a change
\* of it.
LEMMA QuickGoesOn ==
  ASSUME QuickInv, NEW r \in v13, r.current, NEW s, s.q = r.q, s.current = r.current,
         DOMAIN s = QuickAsked, v13' = (v13 \ {r}) \cup {s},
         DOMAIN v12' = QuickFields, v12'.query = v12.query, v12'.loading = v12.loading,
         v12'.docs.q = r.q \/ (v12'.docs.q = v12.docs.q /\ s.at # "content")
  PROVE  QuickInv'
<1>1. \A x \in v13' : DOMAIN x = QuickAsked /\ (x.current => x = s)
  BY DEF QuickInv
<1>2. Quick!DocumentsAnswerTheQuery'
  BY DEF QuickInv, Quick!DocumentsAnswerTheQuery
<1>3. Quick!SpinnerHasASearch'
  <2>1. s \in v13' /\ s.current /\ s.q = v12'.query
    BY DEF QuickInv
  <2> QED
    BY <2>1 DEF Quick!SpinnerHasASearch
<1> QED
  BY <1>2, <1>3 DEF QuickInv

\* The current search ends, with its documents on the page or with none.
LEMMA QuickEnds ==
  ASSUME QuickInv, NEW r \in v13, r.current, v13' = v13 \ {r},
         DOMAIN v12' = QuickFields, v12'.query = v12.query, v12'.loading = FALSE,
         v12'.docs.q \in {r.q, QuickNone}
  PROVE  QuickInv'
  BY DEF QuickInv, Quick!DocumentsAnswerTheQuery, Quick!SpinnerHasASearch

\* Only the selection, the panel, the error or the mark that it is cleared change.
LEMMA QuickSettles ==
  ASSUME QuickInv, DOMAIN v12' = QuickFields, v12'.query = v12.query,
         v12'.docs = v12.docs, v12'.loading = v12.loading,
         \/ v13' = v13 /\ v12'.cleared = v12.cleared
         \/ v13' = Quick!OutOfDate(v13) /\ v12'.cleared = TRUE
  PROVE  QuickInv'
<1>1. CASE v13' = v13 /\ v12'.cleared = v12.cleared
  BY <1>1 DEF QuickInv, Quick!DocumentsAnswerTheQuery, Quick!SpinnerHasASearch
<1>2. CASE v13' = Quick!OutOfDate(v13) /\ v12'.cleared = TRUE
  <2>1. \A s \in v13' : s.current = FALSE /\ DOMAIN s = QuickAsked
    BY <1>2, QuickOutOfDate
  <2>2. Quick!DocumentsAnswerTheQuery' /\ Quick!SpinnerHasASearch'
    BY DEF QuickInv, Quick!DocumentsAnswerTheQuery, Quick!SpinnerHasASearch
  <2> QED
    BY <2>1, <2>2 DEF QuickInv
<1> QED
  BY <1>1, <1>2

\* A search asks the server.
LEMMA QuickStarts ==
  ASSUME QuickInv, NEW r \in v13, Quick!SearchStarts(r)
  PROVE  QuickInv'
<1> DEFINE s == [r EXCEPT !.at = IF r.q \in QuickCombined THEN "filename" ELSE "single"]
<1>1. /\ DOMAIN s = QuickAsked /\ s.q = r.q /\ s.current = r.current
      /\ s.at \in {"filename", "single"}
  BY DEF QuickInv, QuickAsked
<1>2. v12' = v12 /\ v13' = (v13 \ {r}) \cup (IF ~r.current THEN {} ELSE {s})
  BY DEF Quick!SearchStarts, Quick!Stale
<1> HIDE DEF s
<1>3. CASE ~r.current
  BY <1>2, <1>3, QuickStale DEF QuickInv
<1>4. CASE r.current
  <2>1. v13' = (v13 \ {r}) \cup {s}
    BY <1>2, <1>4
  <2>2. DOMAIN v12' = QuickFields
    BY <1>2 DEF QuickInv
  <2> QED
    BY <1>1, <1>2, <1>4, <2>1, <2>2, QuickGoesOn
<1> QED
  BY <1>3, <1>4

\* What applyDocuments makes of the page.
LEMMA QuickApplies ==
  ASSUME QuickInv, NEW r \in v13, NEW parts
  PROVE  /\ ~r.current => Quick!Applied(r, parts) = v12
         /\ r.current =>
              /\ DOMAIN Quick!Applied(r, parts) = QuickFields
              /\ Quick!Applied(r, parts).query = v12.query
              /\ Quick!Applied(r, parts).loading = v12.loading
              /\ Quick!Applied(r, parts).docs.q = r.q
  BY DEF Quick!Applied, Quick!Stale, QuickInv, QuickFields

\* The names that were found are shown if their search is current.
LEMMA QuickNames ==
  ASSUME QuickInv, NEW r \in v13, Quick!NamesArrive(r)
  PROVE  QuickInv'
<1>1. PICK found \in {{}, {"filename"}} :
        /\ v12' = Quick!Applied(r, found)
        /\ v13' = (v13 \ {r}) \cup {[r EXCEPT !.at = "content", !.found = found]}
  BY DEF Quick!NamesArrive
<1> DEFINE s == [r EXCEPT !.at = "content", !.found = found]
<1>2. DOMAIN s = QuickAsked /\ s.q = r.q /\ s.current = r.current
  BY DEF QuickInv, QuickAsked
<1>3. v13' = (v13 \ {r}) \cup {s}
  BY <1>1
<1> HIDE DEF s
<1>4. CASE ~r.current
  BY <1>1, <1>4, QuickApplies, <1>2, <1>3, QuickStale
<1>5. CASE r.current
  <2>1. /\ DOMAIN v12' = QuickFields /\ v12'.query = v12.query
        /\ v12'.loading = v12.loading /\ v12'.docs.q = r.q
    BY <1>1, <1>5, QuickApplies
  <2> QED
    BY <1>2, <1>3, <1>5, <2>1, QuickGoesOn
<1> QED
  BY <1>4, <1>5

\* The contents that were found end their search.
LEMMA QuickContents ==
  ASSUME QuickInv, NEW r \in v13, Quick!ContentsArrive(r)
  PROVE  QuickInv'
<1>1. PICK found \in {{}, {"content"}} :
        v12' = Quick!Finished(r, Quick!Applied(r, r.found \cup found))
  BY DEF Quick!ContentsArrive
<1> DEFINE p == Quick!Applied(r, r.found \cup found)
<1>2. v13' = v13 \ {r} /\ DOMAIN r = QuickAsked
  BY DEF Quick!ContentsArrive, QuickInv
<1>3. /\ ~r.current => p = v12
      /\ r.current => /\ DOMAIN p = QuickFields /\ p.query = v12.query
                      /\ p.docs.q = r.q
  BY QuickApplies
<1>4. v12' = IF ~r.current THEN p ELSE [p EXCEPT !.loading = FALSE]
  BY <1>1 DEF Quick!Finished, Quick!Stale
<1> HIDE DEF p
<1>5. CASE ~r.current
  BY <1>2, <1>3, <1>4, <1>5, QuickStale
<1>6. CASE r.current
  BY <1>3, <1>4, <1>6, <1>2, QuickEnds DEF QuickFields
<1> QED
  BY <1>5, <1>6

\* A failure ends the search, and says so if it is current.
LEMMA QuickFails ==
  ASSUME QuickInv, NEW r \in v13, Quick!SearchFails(r)
  PROVE  QuickInv'
<1> DEFINE p == IF Quick!Stale(r) \/ r.at = "content" THEN v12
                ELSE [v12 EXCEPT !.docs = Quick!Nothing, !.panel = FALSE, !.searched = TRUE,
                                 !.error = TRUE]
<1>1. /\ v12' = (IF ~r.current THEN p ELSE [p EXCEPT !.loading = FALSE])
      /\ v13' = v13 \ {r} /\ DOMAIN r = QuickAsked
  BY DEF Quick!SearchFails, Quick!Finished, Quick!Stale, QuickInv
<1>2. /\ ~r.current => p = v12
      /\ r.current => /\ DOMAIN p = QuickFields /\ p.query = v12.query
                      /\ p.docs.q \in {r.q, QuickNone}
  BY DEF Quick!Stale, QuickInv, QuickFields, Quick!Nothing
<1> HIDE DEF p
<1>3. CASE ~r.current
  BY <1>1, <1>2, <1>3, QuickStale
<1>4. CASE r.current
  BY <1>1, <1>2, <1>4, QuickEnds DEF QuickFields
<1> QED
  BY <1>3, <1>4

\* The steps of the page that are none of a search.
LEMMA QuickPage ==
  ASSUME QuickInv, \/ Quick!Select \/ Quick!StayingAction \/ Quick!HandlePrepare
                   \/ Quick!RenderPrepared \/ Quick!PageLoads \/ Quick!Quit
  PROVE  QuickInv'
<1>1. CASE Quick!Select \/ Quick!StayingAction
  <2>1. /\ v13' = v13
        /\ \/ \E i \in 0..1 : v12' = [v12 EXCEPT !.selected = i]
           \/ \E b : v12' = [v12 EXCEPT !.panel = b]
    BY <1>1 DEF Quick!Select, Quick!StayingAction
  <2>2. /\ DOMAIN v12' = QuickFields /\ v12'.query = v12.query /\ v12'.docs = v12.docs
        /\ v12'.loading = v12.loading /\ v12'.cleared = v12.cleared
    BY <2>1 DEF QuickInv, QuickFields
  <2> QED
    BY <2>1, <2>2, QuickSettles
<1>2. CASE Quick!HandlePrepare
  BY <1>2, QuickSettles DEF Quick!HandlePrepare, QuickInv, QuickFields
<1>3. CASE Quick!RenderPrepared \/ Quick!PageLoads \/ Quick!Quit
  <2>1. v12' = Quick!FreshPage /\ (v13' = {} \/ v13' = Quick!OutOfDate(v13))
    BY <1>3 DEF Quick!RenderPrepared, Quick!PageLoads, Quick!Quit
  <2> QED
    BY <2>1, QuickFresh, QuickClears
<1> QED
  BY <1>1, <1>2, <1>3

\* Every step of the palette.
LEMMA QuickKeeps ==
  ASSUME QuickInv, Quick!Next \/ UNCHANGED Quick!vars
  PROVE  QuickInv'
<1>1. ASSUME NEW r \in v13, \/ Quick!SearchStarts(r) \/ Quick!NamesArrive(r)
                            \/ Quick!ContentsArrive(r) \/ Quick!SearchFails(r)
      PROVE  QuickInv'
  BY <1>1, QuickStarts, QuickNames, QuickContents, QuickFails
<1>2. ASSUME NEW q \in QuickQueries \cup {QuickNone}, Quick!Type(q) PROVE QuickInv'
  BY <1>2, QuickTypes
<1>3. CASE \/ Quick!Select \/ Quick!StayingAction \/ Quick!HandlePrepare
           \/ Quick!RenderPrepared \/ Quick!PageLoads \/ Quick!Quit
  BY <1>3, QuickPage
<1>4. CASE \/ Quick!Open \/ Quick!Toggle \/ Quick!Dismiss \/ Quick!HandleOpened
           \/ Quick!LoadFails \/ Quick!SchedulePrewarm \/ Quick!PrewarmFires
           \/ Quick!TimerPrepares \/ Quick!Done \/ UNCHANGED Quick!vars
           \/ \E on \in BOOLEAN : Quick!SetEnabled(on)
  BY <1>4, QuickRests
  DEF Quick!Open, Quick!Toggle, Quick!Hide, Quick!Dismiss, Quick!HandleOpened, Quick!LoadFails,
      Quick!SchedulePrewarm, Quick!PrewarmFires, Quick!TimerPrepares, Quick!Done,
      Quick!SetEnabled, Quick!vars, Quick!pageVars
<1> QED
  BY <1>1, <1>2, <1>3, <1>4 DEF Quick!Next, Quick!User, Quick!Page, Quick!Main

-----------------------------------------------------------------------------
(* The search page. *)

\* When all is kept, nothing changes.
LEMMA FilteredAll ==
  ASSUME NEW S, NEW s \in Seq(S)
  PROVE  Search!Filtered(s, DOMAIN s) = s
<1> DEFINE m == Len(s)
           t == Search!Filtered(s, DOMAIN s)
<1>1. m \in Nat /\ DOMAIN s = 1..m /\ 1..m \in SUBSET (1..m)
  OBVIOUS
<1>2. Cardinality(1..m) = m
  BY <1>1, FS_Interval
<1>3. \A i \in 1..m : Search!Rank(i, 1..m) = i
  <2>1. ASSUME NEW i \in 1..m PROVE Search!Rank(i, 1..m) = i
    <3>1. i \in Nat /\ i \in Int /\ 1 \in Int /\ ~(1 > i) /\ i - 1 + 1 = i
      BY <1>1
    <3>2. {j \in 1..m : j <= i} = 1..i
      BY <1>1
    <3>3. Cardinality(1..i) = i
      BY FS_Interval
    <3> QED
      BY <1>1, <3>1, <3>2, <3>3, RankIsCount
  <2> QED
    BY <2>1
<1>4. t \in Seq(S) /\ Len(t) = m
  BY <1>2, FilteredIs
<1>5. \A n \in 1..m : t[n] = s[n]
  BY <1>2, FilteredIs, <1>3
<1> HIDE DEF t
<1>6. t = s
  BY <1>4, <1>5
<1> QED
  BY <1>6 DEF t

SearchDocs == {SearchFiles[i] : i \in DOMAIN SearchFiles}
SearchTexts == SearchQueries \cup {SearchBlank}
SearchEntries == [file : SearchDocs, q : SearchTexts]
SearchAsked == {"q", "filters", "hidden", "offset", "limit", "more", "current"}

\* What a search finds, it finds once.
LEMMA HitsAre ==
  ASSUME NEW q, NEW f, NEW h
  PROVE  /\ Search!Hits(q, f, h) \in Seq(SearchDocs)
         /\ \A i, j \in 1..Len(Search!Hits(q, f, h)) :
              Search!Hits(q, f, h)[i] = Search!Hits(q, f, h)[j] => i = j
<1>1. PICK K \in SUBSET (DOMAIN SearchFiles) :
        Search!Hits(q, f, h) = Search!Filtered(SearchFiles, K)
  BY DEF Search!Hits
<1>2. SearchFiles \in Seq(SearchDocs)
  BY SearchAssumption DEF SearchDocs
<1>3. \A i, j \in DOMAIN SearchFiles : SearchFiles[i] = SearchFiles[j] => i = j
  BY SearchAssumption
<1>4. /\ Search!Filtered(SearchFiles, K) \in Seq(SearchDocs)
      /\ Len(Search!Filtered(SearchFiles, K)) = Cardinality(K)
  BY <1>2, FilteredIs
<1>5. \A i, j \in 1..Cardinality(K) :
        Search!Filtered(SearchFiles, K)[i] = Search!Filtered(SearchFiles, K)[j] => i = j
  BY <1>2, <1>3, FilteredApart
<1> QED
  BY <1>1, <1>4, <1>5

\* The entries of a list that are new to another one follow it.
LEMMA MergeIs ==
  ASSUME NEW old \in Seq(SearchEntries), NEW new \in Seq(SearchEntries)
  PROVE  /\ Search!Merge(old, new) \in Seq(SearchEntries)
         /\ \A n \in DOMAIN Search!Merge(old, new) :
              \/ \E i \in DOMAIN old : Search!Merge(old, new)[n] = old[i]
              \/ \E i \in DOMAIN new : Search!Merge(old, new)[n] = new[i]
         /\ (\A i \in DOMAIN old, j \in DOMAIN new : old[i] # new[j]) =>
              Search!Merge(old, new) = old \o new
<1> DEFINE K == {i \in DOMAIN new : \A j \in DOMAIN old : old[j] # new[i]}
           t == Search!Filtered(new, K)
<1>1. Search!Merge(old, new) = old \o t
  BY DEF Search!Merge
<1>2. K \in SUBSET (DOMAIN new)
  OBVIOUS
<1> HIDE DEF K
<1>3. /\ t \in Seq(SearchEntries) /\ Len(t) = Cardinality(K) /\ Cardinality(K) \in Nat
      /\ \A n \in 1..Cardinality(K) : \E i \in K : t[n] = new[i]
  BY <1>2, FilteredIs
<1>4. ASSUME \A i \in DOMAIN old, j \in DOMAIN new : old[i] # new[j]
      PROVE  t = new
  <2>1. K = DOMAIN new
    BY <1>4 DEF K
  <2> QED
    BY <2>1, FilteredAll
<1> HIDE DEF t
<1>5. /\ old \o t \in Seq(SearchEntries) /\ DOMAIN (old \o t) = 1..(Len(old) + Len(t))
      /\ Len(old) \in Nat /\ Len(t) \in Nat /\ DOMAIN old = 1..Len(old)
      /\ \A n \in 1..(Len(old) + Len(t)) :
           (old \o t)[n] = IF n <= Len(old) THEN old[n] ELSE t[n - Len(old)]
  <2>1. Len(old) \in Nat /\ Len(t) \in Nat /\ DOMAIN old = 1..Len(old)
    BY <1>3
  <2>2. /\ old \o t \in Seq(SearchEntries) /\ Len(old \o t) = Len(old) + Len(t)
        /\ \A n \in 1..(Len(old) + Len(t)) :
             (old \o t)[n] = IF n <= Len(old) THEN old[n] ELSE t[n - Len(old)]
    BY <1>3, ConcatProperties
  <2>3. DOMAIN (old \o t) = 1..Len(old \o t)
    BY <2>2
  <2> QED
    BY <2>2
<1>6. ASSUME NEW n \in DOMAIN (old \o t)
      PROVE  \/ \E i \in DOMAIN old : (old \o t)[n] = old[i]
             \/ \E i \in DOMAIN new : (old \o t)[n] = new[i]
  <2>1. CASE n <= Len(old)
    BY <2>1
  <2>2. CASE ~(n <= Len(old))
    BY <1>5, <2>2, <1>3, <1>2
  <2> QED
    BY <2>2
<1> QED
  BY <1>1, <1>4, <1>5, <1>6

SearchTyped ==
  /\ v1 \in SearchTexts /\ v5 \in Seq(SearchEntries) /\ v7 \in Nat
  /\ \A r \in v12 :
       DOMAIN r = SearchAsked /\ r.q \in SearchTexts /\ r.offset \in Nat /\ r.limit \in Nat

\* One answer at most is used: for the text in the field, unless that is being changed, and a
\* next page for what follows the pages that the list has.
SearchAsks ==
  /\ v4.set => v4.q = v1
  /\ \A r, s \in v12 : r.current /\ s.current => r = s
  /\ \A r \in v12 : r.current =>
       /\ r.q # SearchBlank /\ (r.more => ~v9) /\ (~r.more => r.offset = 0)
       /\ ~v4.set => r.q = v1 /\ (r.more => r.offset = v7)

SearchFits == \A i \in DOMAIN v5 : v5[i].q = v1

\* The list is what a search finds, up to what was fetched.
SearchBegins(f, h) ==
  /\ Len(v5) = v7 /\ v7 <= Len(Search!Hits(v1, f, h))
  /\ \A n \in 1..v7 : v5[n].file = Search!Hits(v1, f, h)[n]

\* Pages asked under the same criteria make such a list.  Folders hidden since are no matter:
\* what they hold is not found under a criterion that hides them.
SearchPages ==
  \A f, h : v6 \subseteq {Search!Criteria(f, h)} /\ v3 \subseteq h => SearchBegins(f, h)

SearchShows ==
  ~v4.set /\ ~v9 => SearchFits /\ (v1 # SearchBlank => SearchPages)

SearchInv == SearchTyped /\ SearchAsks /\ SearchShows /\ Search!SearchSpinner

\* What is cut off is not current any more.
LEMMA SearchCuts ==
  ASSUME SearchTyped
  PROVE  \A s \in Search!OutOfDate(v12) :
           /\ DOMAIN s = SearchAsked /\ s.q \in SearchTexts /\ s.offset \in Nat
           /\ s.limit \in Nat /\ ~s.current
<1> SUFFICES ASSUME NEW s \in Search!OutOfDate(v12)
             PROVE  /\ DOMAIN s = SearchAsked /\ s.q \in SearchTexts /\ s.offset \in Nat
                    /\ s.limit \in Nat /\ ~s.current
  OBVIOUS
<1>1. PICK r \in v12 :
        s = [r EXCEPT !.current = FALSE, !.filters = SearchNoFilter, !.hidden = {},
                      !.offset = 0, !.limit = 1, !.more = FALSE]
  BY Zenon DEF Search!OutOfDate
<1>2. DOMAIN r = SearchAsked /\ r.q \in SearchTexts
  BY DEF SearchTyped
<1>3. /\ DOMAIN s = SearchAsked /\ s.q = r.q /\ s.offset = 0 /\ s.limit = 1 /\ ~s.current
  BY <1>1, <1>2
<1> QED
  BY <1>2, <1>3

\* Nothing has been searched at the start.
LEMMA SearchInit ==
  ASSUME Search!Init
  PROVE  SearchInv
<1> USE DEF Search!Init
<1>1. SearchTyped
  BY DEF SearchTyped, SearchTexts
<1>2. ~v4.set
  BY DEF Search!NoTimer
<1>3. SearchAsks
  BY <1>2 DEF SearchAsks
<1>4. v5 = <<>> /\ DOMAIN v5 = {} /\ Len(v5) = 0 /\ v7 = 0 /\ v1 = SearchBlank
  OBVIOUS
<1>5. SearchShows
  BY DEF SearchShows, SearchFits
<1>6. Search!SearchSpinner
  BY DEF Search!SearchSpinner
<1> QED
  BY <1>1, <1>3, <1>5, <1>6 DEF SearchInv

\* A first page: what was asked before is cut off, and the list is hidden by a spinner or empty.
LEMMA SearchDoes ==
  ASSUME SearchInv, NEW q \in SearchTexts, NEW f, NEW h, Search!DoSearch(q, f, h), v1' = q,
         v4'.set => v4'.q = v1'
  PROVE  SearchInv'
<1> USE DEF SearchInv
<1>1. CASE q = SearchBlank
  <2>1. /\ v5' = <<>> /\ v6' = {} /\ v7' = 0 /\ ~v9' /\ ~v10' /\ v12' = Search!OutOfDate(v12)
        /\ DOMAIN v5' = {}
    BY <1>1 DEF Search!DoSearch, Search!EmptyList, Search!emptySearchMeta
  <2>2. \A s \in v12' : ~s.current
    BY <2>1, SearchCuts
  <2>3. SearchTyped'
    BY <2>1, SearchCuts DEF SearchTyped
  <2>4. SearchAsks'
    BY <2>2 DEF SearchAsks
  <2>5. SearchShows'
    BY <1>1, <2>1 DEF SearchShows, SearchFits
  <2>6. (Search!SearchSpinner)'
    BY <2>1 DEF Search!SearchSpinner
  <2> QED
    BY <2>3, <2>4, <2>5, <2>6
<1>2. CASE q # SearchBlank
  <2> DEFINE new == Search!Request(q, f, h, 0, SearchPageSize, FALSE)
  <2>1. /\ v12' = Search!OutOfDate(v12) \cup {new} /\ v9' /\ UNCHANGED <<v5, v6, v7, v10>>
    BY <1>2 DEF Search!DoSearch, Search!list
  <2>2. /\ DOMAIN new = SearchAsked /\ new.q = q /\ new.offset = 0 /\ new.limit = SearchPageSize
        /\ new.more = FALSE /\ new.current
    BY DEF Search!Request, SearchAsked
  <2> HIDE DEF new
  <2>3. \A s \in v12' : s.current => s = new
    BY <2>1, SearchCuts
  <2>4. SearchTyped'
    BY SearchAssumption, <2>1, <2>2, SearchCuts DEF SearchTyped
  <2>5. SearchAsks'
    BY <1>2, <2>2, <2>3 DEF SearchAsks
  <2>6. SearchShows'
    BY <2>1 DEF SearchShows
  <2>7. (Search!SearchSpinner)'
    BY <2>1, <2>2 DEF Search!SearchSpinner
  <2> QED
    BY <2>4, <2>5, <2>6, <2>7
<1> QED
  BY <1>1, <1>2

\* What keeps the list, the requests and the page's flags.
LEMMA SearchSame ==
  ASSUME SearchInv, v1' = v1, v4' = v4, UNCHANGED <<v5, v6, v7, v9, v10, v12>>,
         v3 \subseteq v3' \/ v1 = SearchBlank
  PROVE  SearchInv'
<1> USE DEF SearchInv
<1>1. SearchTyped'
  BY DEF SearchTyped
<1>2. SearchAsks'
  BY DEF SearchAsks
<1>3. SearchFits' <=> SearchFits
  BY DEF SearchFits
<1>4. ASSUME v1 # SearchBlank, SearchPages PROVE SearchPages'
  BY <1>4 DEF SearchBegins, SearchPages
<1>5. SearchShows'
  BY <1>3, <1>4 DEF SearchShows
<1>6. (Search!SearchSpinner)'
  BY DEF Search!SearchSpinner
<1> QED
  BY <1>1, <1>2, <1>5, <1>6

\* Typing makes every request stale and waits for the debounce.
LEMMA SearchTypes ==
  ASSUME SearchInv, NEW q \in SearchTexts, Search!Type(q)
  PROVE  SearchInv'
<1> USE DEF SearchInv
<1>1. /\ v1' = q /\ v4'.set /\ v4'.q = q
      /\ UNCHANGED <<v5, v6, v7, v9, v10, v12>>
  BY DEF Search!Type, Search!list, Search!flags
<1>2. SearchTyped'
  BY <1>1 DEF SearchTyped
<1>3. SearchAsks'
  BY <1>1 DEF SearchAsks
<1>4. SearchShows'
  BY <1>1 DEF SearchShows
<1>5. (Search!SearchSpinner)'
  BY <1>1 DEF Search!SearchSpinner
<1> QED
  BY <1>2, <1>3, <1>4, <1>5

\* The texts that the page searches.
LEMMA SearchAsksTexts ==
  ASSUME SearchInv
  PROVE  /\ v1 \in SearchTexts /\ (v4.set => v4.q = v1)
         /\ ~Search!NoTimer.set
  BY DEF SearchInv, SearchTyped, SearchAsks, Search!NoTimer

\* When the debounce is over the typed text is searched, under the criteria it was typed with.
LEMMA SearchDebounce ==
  ASSUME SearchInv, Search!DebounceEnds
  PROVE  SearchInv'
  BY SearchAsksTexts, SearchDoes DEF Search!DebounceEnds, Search!criteria

\* A change of the criteria.
LEMMA SearchUnless ==
  ASSUME SearchInv, NEW f, NEW h, Search!SearchUnlessBlank(v1, f, h), v1' = v1
  PROVE  SearchInv'
  BY SearchSame, SearchAsksTexts, SearchDoes
  DEF Search!SearchUnlessBlank, Search!list, Search!flags

\* Another filter starts another search.
LEMMA SearchFilter ==
  ASSUME SearchInv, NEW f, Search!ChangeFilters(f)
  PROVE  SearchInv'
  BY SearchUnless DEF Search!ChangeFilters

\* A folder that is shown again starts another search.
LEMMA SearchUnhides ==
  ASSUME SearchInv, NEW d, Search!UnhideFolder(d)
  PROVE  SearchInv'
  BY SearchUnless DEF Search!UnhideFolder

\* The enter key searches at once.
LEMMA SearchNows ==
  ASSUME SearchInv, Search!SearchNow
  PROVE  SearchInv'
  BY SearchAsksTexts, SearchDoes DEF Search!SearchNow, Search!criteria

\* The filters and the hidden folders are reset.
LEMMA SearchResets ==
  ASSUME SearchInv, Search!ResetFilters
  PROVE  SearchInv'
  BY SearchSame, SearchAsksTexts, SearchDoes DEF Search!ResetFilters, Search!list, Search!flags

\* The application starts a search of its own.
LEMMA SearchLaunches ==
  ASSUME SearchInv, NEW q \in SearchTexts, Search!Launch(q)
  PROVE  SearchInv'
  BY SearchAsksTexts, SearchDoes DEF Search!Launch

\* A list that is emptied.
LEMMA SearchEmpties ==
  ASSUME SearchTyped, v5' = <<>>, v6' = {}, v7' = 0, v1' = SearchBlank
  PROVE  SearchShows'
  BY DEF SearchShows, SearchFits

\* The search is cleared.
LEMMA SearchClears ==
  ASSUME SearchInv, Search!ClearQuery
  PROVE  SearchInv'
<1> USE DEF SearchInv
<1>1. /\ v5' = <<>> /\ v6' = {} /\ v7' = 0 /\ v1' = SearchBlank /\ v12' = Search!OutOfDate(v12)
      /\ ~v9' /\ ~v10' /\ ~v4'.set
  BY SearchAsksTexts DEF Search!ClearQuery, Search!EmptyList, Search!emptySearchMeta
<1>2. SearchTyped'
  BY <1>1, SearchCuts DEF SearchTyped, SearchTexts
<1>3. SearchAsks'
  BY <1>1, SearchCuts DEF SearchAsks
<1>4. SearchShows'
  BY <1>1, SearchEmpties
<1>5. (Search!SearchSpinner)'
  BY <1>1 DEF Search!SearchSpinner
<1> QED
  BY <1>2, <1>3, <1>4, <1>5

\* The library has changed, and the page searches again.
LEMMA SearchRefreshes ==
  ASSUME SearchInv, Search!LibraryChanged
  PROVE  SearchInv'
<1> USE DEF SearchInv
<1>0. v1' = v1 /\ v4' = v4 /\ v3' = v3
  BY DEF Search!LibraryChanged, Search!criteria
<1>1. CASE v1 = SearchBlank
  BY <1>1, <1>0, SearchEmpties
  DEF Search!LibraryChanged, Search!EmptyList, Search!emptySearchMeta, Search!flags, SearchTyped,
      SearchAsks, Search!SearchSpinner
<1>2. CASE v1 # SearchBlank
  BY <1>2, <1>0, SearchAsksTexts, SearchDoes DEF Search!LibraryChanged
<1> QED
  BY <1>1, <1>2

\* A next page is asked for when no first page is.
LEMMA SearchLoadsMore ==
  ASSUME SearchInv, Search!LoadMore
  PROVE  SearchInv'
<1> USE DEF SearchInv
<1>1. PICK limit :
        /\ limit \in Nat /\ ~v9 /\ v1 # SearchBlank
        /\ v12' = Search!OutOfDate(v12) \cup {Search!Request(v1, v2, v3, v7, limit, TRUE)}
  <2>1. SearchMaxFiles \in Nat /\ SearchPageSize \in Nat /\ v7 \in Nat
    BY SearchAssumption DEF SearchTyped
  <2>2. \A x \in Nat : \A y \in Int : y > 0 => (IF y < x THEN y ELSE x) \in Nat
    OBVIOUS
  <2>3. /\ ~v9 /\ v1 # SearchBlank
        /\ (IF SearchMaxFiles - v7 < SearchPageSize THEN SearchMaxFiles - v7
            ELSE SearchPageSize) > 0
        /\ v12' = Search!OutOfDate(v12) \cup
             {Search!Request(v1, v2, v3, v7,
                             IF SearchMaxFiles - v7 < SearchPageSize THEN SearchMaxFiles - v7
                             ELSE SearchPageSize, TRUE)}
    BY DEF Search!LoadMore, Search!MoreOffered
  <2>4. (IF SearchMaxFiles - v7 < SearchPageSize THEN SearchMaxFiles - v7
         ELSE SearchPageSize) \in Nat
    BY <2>1, <2>3
  <2> QED
    BY <2>3, <2>4
<1>2. v1' = v1 /\ v3' = v3 /\ v4' = v4 /\ UNCHANGED <<v5, v6, v7, v9>>
  BY DEF Search!LoadMore, Search!criteria, Search!list
<1> DEFINE new == Search!Request(v1, v2, v3, v7, limit, TRUE)
<1>3. /\ DOMAIN new = SearchAsked /\ new.q = v1 /\ new.offset = v7 /\ new.limit = limit
      /\ new.more /\ new.current
  BY DEF Search!Request, SearchAsked
<1>4. v12' = Search!OutOfDate(v12) \cup {new}
  BY <1>1
<1> HIDE DEF new
<1>5. \A s \in v12' : s.current => s = new
  BY <1>4, SearchCuts
<1>6. SearchTyped'
  <2>1. \A r \in v12' : /\ DOMAIN r = SearchAsked /\ r.q \in SearchTexts
                        /\ r.offset \in Nat /\ r.limit \in Nat
    BY <1>1, <1>3, <1>4, SearchCuts DEF SearchTyped
  <2> QED
    BY <1>2, <2>1 DEF SearchTyped
<1>7. SearchAsks'
  BY <1>1, <1>2, <1>3, <1>5 DEF SearchAsks
<1>8. SearchShows'
  BY <1>2 DEF SearchFits, SearchPages, SearchBegins, SearchShows
<1>9. (Search!SearchSpinner)'
  BY <1>3, <1>4 DEF Search!SearchSpinner
<1> QED
  BY <1>6, <1>7, <1>8, <1>9

\* What is found under hidden folders lies in none of them, or of fewer.
LEMMA HitsAreShown ==
  ASSUME NEW q, NEW f, NEW h, NEW n \in 1..Len(Search!Hits(q, f, h))
  PROVE  Search!Shown(Search!Hits(q, f, h)[n], h)
<1> DEFINE K == {i \in DOMAIN SearchFiles : SearchFiles[i] \in SearchFound[q][f] /\
                                            Search!Shown(SearchFiles[i], h)}
<1>1. Search!Hits(q, f, h) = Search!Filtered(SearchFiles, K)
  BY DEF Search!Hits
<1>2. SearchFiles \in Seq(SearchDocs)
  BY SearchAssumption DEF SearchDocs
<1>3. K \in SUBSET (DOMAIN SearchFiles) /\ \A i \in K : Search!Shown(SearchFiles[i], h)
  OBVIOUS
<1> HIDE DEF K
<1>4. /\ Len(Search!Filtered(SearchFiles, K)) = Cardinality(K)
      /\ \A m \in 1..Cardinality(K) :
           \E i \in K : Search!Filtered(SearchFiles, K)[m] = SearchFiles[i]
  BY <1>2, <1>3, FilteredIs
<1>5. PICK i \in K : Search!Hits(q, f, h)[n] = SearchFiles[i]
  BY <1>1, <1>4
<1> QED
  BY <1>3, <1>5

\* Hiding a folder takes nothing from a list that was asked without it.
LEMMA SearchHides ==
  ASSUME SearchInv, NEW d, Search!HideFolder(d)
  PROVE  SearchInv'
<1> USE DEF SearchInv
<1> DEFINE K == {i \in DOMAIN v5 : Search!Shown(v5[i].file, v3')}
<1>1. /\ ~v9 /\ v5' = Search!Filtered(v5, K) /\ v3 \subseteq v3'
      /\ UNCHANGED <<v1, v4, v6, v7, v9, v10, v12>>
  BY DEF Search!HideFolder, Search!flags
<1>2. K \in SUBSET (DOMAIN v5) /\ v5 \in Seq(SearchEntries) /\ DOMAIN v5 = 1..Len(v5)
  BY DEF SearchTyped
<1>3. (\A i \in DOMAIN v5 : Search!Shown(v5[i].file, v3')) => K = DOMAIN v5
  OBVIOUS
<1> HIDE DEF K
<1>4. /\ v5' \in Seq(SearchEntries) /\ Len(v5') = Cardinality(K) /\ DOMAIN v5' = 1..Len(v5')
      /\ \A n \in 1..Cardinality(K) : \E i \in K : v5'[n] = v5[i]
  BY <1>1, <1>2, FilteredIs
<1>5. SearchTyped'
  BY <1>1, <1>4 DEF SearchTyped
<1>6. SearchAsks'
  BY <1>1 DEF SearchAsks
<1>7. SearchFits => SearchFits'
  BY <1>2, <1>4, <1>1 DEF SearchFits
<1>8. ASSUME SearchPages, NEW f, NEW h, v6' \subseteq {Search!Criteria(f, h)}, v3' \subseteq h
      PROVE  SearchBegins(f, h)'
  <2>1. SearchBegins(f, h)
    BY <1>1, <1>8 DEF SearchPages
  <2>2. ASSUME NEW i \in DOMAIN v5 PROVE Search!Shown(v5[i].file, v3')
    BY <2>1, HitsAreShown, <1>8 DEF SearchBegins, SearchTyped, Search!Shown
  <2>3. v5' = v5
    BY <1>1, <1>2, <1>3, <2>2, FilteredAll
  <2> QED
    BY <1>1, <2>1, <2>3 DEF SearchBegins
<1>9. SearchPages => SearchPages'
  BY <1>8 DEF SearchPages
<1>10. SearchShows'
  BY <1>1, <1>7, <1>9 DEF SearchShows
<1>11. (Search!SearchSpinner)'
  BY <1>1 DEF Search!SearchSpinner
<1> QED
  BY <1>5, <1>6, <1>10, <1>11

\* An answer that is too late for the list.
LEMMA SearchLate ==
  ASSUME SearchInv, NEW r \in v12, ~r.current, v12' = v12 \ {r},
         UNCHANGED <<v1, v3, v4, v5, v6, v7, v9, v10>>
  PROVE  SearchInv'
<1> USE DEF SearchInv
<1>1. SearchTyped'
  BY DEF SearchTyped
<1>2. SearchAsks'
  BY DEF SearchAsks
<1>3. SearchFits' <=> SearchFits
  BY DEF SearchFits
<1>4. SearchPages' <=> SearchPages
  BY DEF SearchPages, SearchBegins
<1>5. SearchShows'
  BY <1>3, <1>4 DEF SearchShows
<1>6. (Search!SearchSpinner)'
  BY DEF Search!SearchSpinner
<1> QED
  BY <1>1, <1>2, <1>5, <1>6

\* A request fails.
LEMMA SearchFails ==
  ASSUME SearchInv, NEW r \in v12, Search!Fails(r)
  PROVE  SearchInv'
<1>1. v12' = v12 \ {r} /\ UNCHANGED <<v1, v3, v4>>
  BY DEF Search!Fails, Search!criteria
<1>2. CASE ~r.current
  BY <1>2, <1>1, SearchLate DEF Search!Fails, Search!Stale, Search!list, Search!flags
<1>3. CASE r.current
  <2> USE DEF SearchInv
  <2>1. v5' = <<>> /\ v6' = {} /\ v7' = 0 /\ ~v9' /\ ~v10' /\ DOMAIN v5' = {} /\ Len(v5') = 0
    BY <1>3 DEF Search!Fails, Search!Stale, Search!emptySearchMeta
  <2>2. \A s \in v12' : ~s.current
    BY <1>1, <1>3 DEF SearchAsks
  <2>3. SearchTyped'
    BY <1>1, <2>1 DEF SearchTyped
  <2>4. SearchAsks'
    BY <1>1, <2>2 DEF SearchAsks
  <2>5. SearchFits'
    BY <2>1 DEF SearchFits
  <2>6. \A f, h : SearchBegins(f, h)'
    BY <2>1 DEF SearchBegins
  <2>7. SearchShows'
    BY <2>5, <2>6 DEF SearchShows, SearchPages
  <2>8. (Search!SearchSpinner)'
    BY <2>1 DEF Search!SearchSpinner
  <2> QED
    BY <2>3, <2>4, <2>7, <2>8
<1> QED
  BY <1>2, <1>3

\* A page of an answer, with its query.
LEMMA SearchPageIs ==
  ASSUME NEW r, r.q \in SearchTexts, r.offset \in Nat, r.limit \in Nat
  PROVE  LET hits == Search!Hits(r.q, r.filters, r.hidden)
             new == Search!Tagged(Search!PageOf(r).files, r.q)
         IN  /\ new \in Seq(SearchEntries) /\ Len(new) \in Nat
             /\ Len(Search!PageOf(r).files) = Len(new) /\ Len(new) <= r.limit
             /\ \A j \in 1..Len(new) : new[j].q = r.q
             /\ r.offset <= Len(hits) =>
                  /\ r.offset + Len(new) <= Len(hits)
                  /\ \A j \in 1..Len(new) : new[j].file = hits[r.offset + j]
<1> DEFINE hits == Search!Hits(r.q, r.filters, r.hidden)
           from == IF r.offset > Len(hits) THEN Len(hits) ELSE r.offset
           upto == IF from + r.limit > Len(hits) THEN Len(hits) ELSE from + r.limit
           files == SubSeq(hits, from + 1, upto)
           new == Search!Tagged(Search!PageOf(r).files, r.q)
<1>1. hits \in Seq(SearchDocs) /\ Len(hits) \in Nat
  BY HitsAre
<1>2. Search!PageOf(r).files = files
  BY DEF Search!PageOf
<1>3. new = [i \in DOMAIN files |-> [file |-> files[i], q |-> r.q]]
  BY <1>2 DEF Search!Tagged
<1> HIDE DEF hits
<1>4. from \in Nat /\ from <= Len(hits) /\ (r.offset <= Len(hits) => from = r.offset)
  BY <1>1
<1> HIDE DEF from
<1>5. upto \in Nat /\ from <= upto /\ upto <= Len(hits) /\ upto - from <= r.limit
  BY <1>4
<1> HIDE DEF upto
<1>6. /\ files \in Seq(SearchDocs) /\ Len(files) = upto - from
      /\ \A j \in 1..(upto - from) : files[j] = hits[from + j]
  BY <1>1, <1>4, <1>5
<1> HIDE DEF files
<1>7. /\ new \in Seq(SearchEntries) /\ Len(new) = Len(files) /\ Len(files) \in Nat
      /\ \A j \in 1..Len(files) : new[j].q = r.q /\ new[j].file = files[j]
  <2>1. DOMAIN files = 1..Len(files) /\ Len(files) \in Nat
        /\ \A j \in 1..Len(files) : files[j] \in SearchDocs
    BY <1>6
  <2>2. \A j \in 1..Len(files) : /\ new[j] \in SearchEntries /\ new[j].q = r.q
                                 /\ new[j].file = files[j]
    BY <1>3, <2>1 DEF SearchEntries
  <2>3. new \in Seq(SearchEntries) /\ Len(new) = Len(files)
    BY <1>3, <2>1, <2>2
  <2> QED
    BY <2>2, <2>3
<1> HIDE DEF new
<1>8. Len(files) = upto - from
  BY <1>6
<1>9. from + Len(files) <= Len(hits)
  BY <1>4, <1>5, <1>8
<1>10. \A j \in 1..Len(files) : new[j].file = hits[from + j]
  BY <1>6, <1>7
<1>0. Len(files) <= r.limit
  BY <1>5, <1>8
<1>11. /\ new \in Seq(SearchEntries) /\ Len(new) \in Nat
       /\ Len(Search!PageOf(r).files) = Len(new) /\ Len(new) <= r.limit
       /\ \A j \in 1..Len(new) : new[j].q = r.q
       /\ r.offset <= Len(hits) =>
            /\ r.offset + Len(new) <= Len(hits)
            /\ \A j \in 1..Len(new) : new[j].file = hits[r.offset + j]
  BY <1>0, <1>2, <1>4, <1>7, <1>9, <1>10
<1> QED
  BY <1>11 DEF new, hits

\* The answer that is used.
LEMMA SearchUsed ==
  ASSUME SearchInv, NEW r \in v12, r.current, Search!Arrives(r)
  PROVE  SearchInv'
<1> USE DEF SearchInv
<1> DEFINE hits == Search!Hits(r.q, r.filters, r.hidden)
           new == Search!Tagged(Search!PageOf(r).files, r.q)
<1>1. /\ v12' = v12 \ {r} /\ UNCHANGED <<v1, v3, v4>> /\ ~v9' /\ ~v10'
      /\ v5' = IF r.more THEN Search!Merge(v5, new) ELSE new
      /\ v6' = (IF r.more THEN v6 ELSE {}) \cup {Search!Criteria(r.filters, r.hidden)}
      /\ v7' = r.offset + Len(Search!PageOf(r).files)
  BY DEF Search!Arrives, Search!Stale, Search!criteria, Search!FetchedAfter
<1>2. /\ r.q \in SearchTexts /\ r.offset \in Nat /\ r.limit \in Nat /\ (r.more => ~v9)
      /\ (~r.more => r.offset = 0) /\ (~v4.set => r.q = v1 /\ (r.more => r.offset = v7))
  BY DEF SearchTyped, SearchAsks
<1>3. /\ new \in Seq(SearchEntries) /\ Len(new) \in Nat
      /\ Len(Search!PageOf(r).files) = Len(new)
      /\ \A j \in 1..Len(new) : new[j].q = r.q
      /\ r.offset <= Len(hits) =>
           /\ r.offset + Len(new) <= Len(hits)
           /\ \A j \in 1..Len(new) : new[j].file = hits[r.offset + j]
  BY <1>2, SearchPageIs
<1>4. Len(hits) \in Nat /\ \A i, j \in 1..Len(hits) : hits[i] = hits[j] => i = j
  BY HitsAre
<1> HIDE DEF hits, new
<1>5. /\ v5 \in Seq(SearchEntries) /\ v7 \in Nat
      /\ DOMAIN v5 = 1..Len(v5) /\ DOMAIN new = 1..Len(new) /\ Len(v5) \in Nat
  BY DEF SearchTyped
<1>6. /\ Search!Merge(v5, new) \in Seq(SearchEntries)
      /\ \A n \in DOMAIN Search!Merge(v5, new) :
           \/ \E i \in DOMAIN v5 : Search!Merge(v5, new)[n] = v5[i]
           \/ \E i \in DOMAIN new : Search!Merge(v5, new)[n] = new[i]
      /\ (\A i \in DOMAIN v5, j \in DOMAIN new : v5[i] # new[j]) =>
           Search!Merge(v5, new) = v5 \o new
  BY <1>3, <1>5, MergeIs
<1>7. \A s \in v12' : ~s.current
  BY <1>1 DEF SearchAsks
<1>8. SearchTyped'
  BY <1>1, <1>3, <1>6 DEF SearchTyped
<1>9. SearchAsks'
  BY <1>1 DEF SearchAsks
<1>10. ASSUME ~v4.set PROVE SearchFits'
  <2>1. \A j \in DOMAIN new : new[j].q = v1
    BY <1>2, <1>3, <1>10
  <2>2. CASE r.more
    BY <1>2, <1>10, <1>1, <1>6, <2>1 DEF SearchShows, SearchFits
  <2>3. CASE ~r.more
    BY <1>1, <2>3, <2>1 DEF SearchFits
  <2> QED
    BY <2>2, <2>3
<1>11. ASSUME ~v4.set, v1 # SearchBlank, NEW f, NEW h, v6' \subseteq {Search!Criteria(f, h)},
              v3' \subseteq h
       PROVE  SearchBegins(f, h)'
  <2>1. r.filters = f /\ r.hidden = h
    <3>1. Search!Criteria(r.filters, r.hidden) = Search!Criteria(f, h)
      BY <1>1, <1>11
    <3> QED
      BY <3>1 DEF Search!Criteria
  <2>2. hits = Search!Hits(v1, f, h) /\ hits = Search!Hits(v1', f, h)
    BY <1>1, <1>2, <1>11, <2>1 DEF hits
  <2>3. v7' = r.offset + Len(new)
    BY <1>1, <1>3
  <2>4. SUFFICES /\ Len(v5') = v7' /\ v7' <= Len(hits)
                 /\ \A n \in 1..v7' : v5'[n].file = hits[n]
    BY <2>2 DEF SearchBegins
  <2>5. CASE ~r.more
    BY <1>1, <1>2, <2>5, <1>3, <2>3
  <2>6. CASE r.more
    <3>1. SearchBegins(f, h)
      BY <1>1, <1>2, <1>11, <2>6 DEF SearchShows, SearchPages
    <3>2. /\ Len(v5) = v7 /\ v7 <= Len(hits) /\ \A n \in 1..v7 : v5[n].file = hits[n]
      BY <2>2, <3>1 DEF SearchBegins
    <3>3. /\ r.offset = v7 /\ v7 + Len(new) <= Len(hits)
          /\ \A j \in 1..Len(new) : new[j].file = hits[v7 + j]
      BY <1>2, <1>3, <1>11, <2>6, <3>2
    <3>4. \A i \in 1..v7, j \in 1..Len(new) :
            i \in 1..Len(hits) /\ v7 + j \in 1..Len(hits) /\ i # v7 + j
      BY <1>3, <1>4, <1>5, <3>3
    <3>5. \A i \in DOMAIN v5, j \in DOMAIN new : v5[i] # new[j]
      <4>1. ASSUME NEW i \in 1..v7, NEW j \in 1..Len(new) PROVE v5[i].file # new[j].file
        BY <1>4, <3>2, <3>3, <3>4
      <4> QED
        BY <1>5, <3>2, <4>1
    <3>6. v5' = v5 \o new
      BY <1>1, <1>6, <2>6, <3>5
    <3>7. /\ Len(v5') = v7 + Len(new)
          /\ \A n \in 1..(v7 + Len(new)) :
               v5'[n] = IF n <= v7 THEN v5[n] ELSE new[n - v7]
      <4>1. v5 \in Seq(SearchEntries) /\ new \in Seq(SearchEntries)
        BY <1>3, <1>5
      <4>2. /\ Len(v5 \o new) = Len(v5) + Len(new)
            /\ \A n \in 1..(Len(v5) + Len(new)) :
                 (v5 \o new)[n] = IF n <= Len(v5) THEN v5[n] ELSE new[n - Len(v5)]
        OBVIOUS
      <4>3. Len(v5) = v7
        BY <3>2
      <4> QED
        BY <3>6, <4>3
    <3>8. ASSUME NEW n \in 1..(v7 + Len(new)) PROVE v5'[n].file = hits[n]
      <4>1. CASE n <= v7
        BY <3>7, <4>1, <3>2
      <4>2. CASE ~(n <= v7)
        BY <1>3, <1>5, <3>7, <4>2, <3>3
      <4> QED
        BY <4>1, <4>2
    <3> QED
      BY <2>3, <3>3, <3>7, <3>8
  <2> QED
    BY <2>5, <2>6
<1>12. SearchShows'
  BY <1>1, <1>10, <1>11 DEF SearchShows, SearchPages
<1>13. (Search!SearchSpinner)'
  BY <1>1 DEF Search!SearchSpinner
<1> QED
  BY <1>8, <1>9, <1>12, <1>13

\* An answer replaces the list or continues it, if it is that of the current request.
LEMMA SearchArrives ==
  ASSUME SearchInv, NEW r \in v12, Search!Arrives(r)
  PROVE  SearchInv'
<1>1. CASE ~r.current
  BY <1>1, SearchLate DEF Search!Arrives, Search!Stale, Search!list, Search!flags, Search!criteria
<1> QED
  BY <1>1, SearchUsed

\* Every step of the search page.
LEMMA SearchKeeps ==
  ASSUME SearchInv, Search!Next \/ UNCHANGED Search!vars
  PROVE  SearchInv'
<1>1. ASSUME Search!User PROVE SearchInv'
  BY <1>1, SearchTypes, SearchFilter, SearchHides, SearchUnhides, SearchNows, SearchResets,
     SearchClears, SearchLoadsMore DEF Search!User, SearchTexts
<1>2. ASSUME Search!App PROVE SearchInv'
  BY <1>2, SearchRefreshes, SearchLaunches DEF Search!App, SearchTexts
<1>3. ASSUME Search!Server PROVE SearchInv'
  BY <1>3, SearchArrives, SearchFails DEF Search!Server
<1>4. ASSUME UNCHANGED Search!vars PROVE SearchInv'
  BY <1>4, SearchSame DEF Search!vars, Search!criteria, Search!list, Search!flags
<1> QED
  BY <1>1, <1>2, <1>3, <1>4, SearchDebounce DEF Search!Next

\* The list under the criteria of now is a beginning of what is found.
LEMMA SearchContiguous == SearchInv => Search!PagesAreContiguous
<1> DEFINE hits == Search!Hits(v1, v2, v3)
<1> SUFFICES ASSUME SearchInv, Search!Settled, v6 \subseteq {Search!Criteria(v2, v3)},
                    v1 # SearchBlank
             PROVE  Len(v5) <= Len(hits) /\ \A i \in DOMAIN v5 : v5[i].file = hits[i]
  BY DEF Search!PagesAreContiguous
<1>1. SearchBegins(v2, v3)
  BY DEF SearchInv, SearchShows, Search!Settled, SearchPages
<1>2. /\ v5 \in Seq(SearchEntries) /\ v7 \in Nat /\ Len(v5) = v7 /\ v7 <= Len(hits)
      /\ \A n \in 1..v7 : v5[n].file = hits[n]
  BY <1>1 DEF SearchBegins, SearchInv, SearchTyped
<1> HIDE DEF hits
<1> QED
  BY <1>2

\* The list is that of the typed text, and a spinner has its request.
LEMMA SearchTrue == SearchInv => Search!ResultsAnswerTheQuery /\ Search!SearchSpinner
  BY DEF SearchInv, SearchShows, SearchFits, Search!ResultsAnswerTheQuery, Search!Settled

\* What is listed was found by the words that are typed, whatever answers come late: in the
\* palette and on the search page.
THEOREM AnswersFit == Spec => []AnswersFitTheQuery
<1> DEFINE Inv == (screen = "quick" => QuickInv) /\ (screen = "search" => SearchInv)
<1>1. Init => Inv
  BY QuickInit, SearchInit DEF Init
<1>2. Inv /\ [Next]_vars => Inv'
  BY OnePage, QuickKeeps, SearchKeeps
<1>3. Inv => AnswersFitTheQuery
  BY SearchTrue DEF QuickInv, AnswersFitTheQuery
<1> QED
  BY <1>1, <1>2, <1>3, PTL DEF Spec

\* Pages asked under the criteria of now follow one another without a gap or a repetition,
\* however many documents there are and however large a page is.
THEOREM PagesContiguous == Spec => []PagesAreContiguous
<1> DEFINE Inv == screen = "search" => SearchInv
<1>1. Init => Inv
  BY SearchInit DEF Init
<1>2. Inv /\ [Next]_vars => Inv'
  BY OnePage, SearchKeeps
<1>3. Inv => PagesAreContiguous
  BY SearchContiguous DEF PagesAreContiguous
<1> QED
  BY <1>1, <1>2, <1>3, PTL DEF Spec

-----------------------------------------------------------------------------
(* An opened group. *)

HistoryFiles(g) == History!FilesOf(g)

HistoryOf(d) ==
  d.g \in HistoryGroups /\ d.pin \in HistoryFiles(d.g) \cup {HistoryNone}

\* The files of a group and the absence of one.
LEMMA HistoryMembersAre ==
  ASSUME NEW g \in HistoryGroups
  PROVE  /\ HistoryMembers[g] \in Seq(HistoryFiles(g)) /\ HistoryMembers[g] # <<>>
         /\ HistoryNone \notin HistoryFiles(g)
  BY HistoryAssumption DEF HistoryFiles, History!FilesOf, History!Range

\* The order in which they are shown.
LEMMA HistoryOrder ==
  ASSUME NEW d, HistoryOf(d)
  PROVE  /\ History!Order(d) \in Seq(HistoryFiles(d.g)) /\ 1 <= Len(History!Order(d))
         /\ Len(History!Order(d)) \in Nat
         /\ DOMAIN History!Order(d) = 1..Len(History!Order(d))
<1> DEFINE files == HistoryMembers[d.g]
           F == HistoryFiles(d.g)
           place == CHOOSE i \in DOMAIN files : files[i] = d.pin
           o == History!Order(d)
<1>1. files \in Seq(F) /\ files # <<>> /\ d.pin \in F \cup {HistoryNone}
  BY HistoryMembersAre DEF HistoryOf
<1>2. o = IF d.pin = HistoryNone THEN files
          ELSE [i \in DOMAIN files |->
                  IF i = 1 THEN d.pin ELSE IF i <= place THEN files[i - 1] ELSE files[i]]
  BY DEF History!Order
<1> HIDE DEF place, o, F, files
<1>3. Len(files) \in Nat /\ 1 <= Len(files) /\ DOMAIN files = 1..Len(files)
  BY <1>1
<1>4. o \in Seq(F) /\ Len(o) = Len(files)
  BY <1>1, <1>2
<1> QED
  BY <1>3, <1>4 DEF o, F

\* The first of the other files is one of them.
LEMMA HistoryOthers ==
  ASSUME NEW d, HistoryOf(d), NEW f, History!Others(d, f) # {}
  PROVE  /\ History!Order(d)[History!Min(History!Others(d, f))] \in HistoryFiles(d.g)
         /\ History!Order(d)[History!Min(History!Others(d, f))] # f
<1> DEFINE T == History!Others(d, f)
<1>1. /\ History!Order(d) \in Seq(HistoryFiles(d.g))
      /\ DOMAIN History!Order(d) = 1..Len(History!Order(d))
      /\ Len(History!Order(d)) \in Nat
  BY HistoryOrder
<1>2. T = {i \in 1..Len(History!Order(d)) : History!Order(d)[i] # f} /\ T # {}
  BY DEF History!Others
<1> HIDE DEF T
<1>3. T \in SUBSET Nat
  BY <1>2
<1>4. \E x \in T : \A y \in T : x <= y
  BY <1>2, <1>3, HasLeast
<1>5. History!Min(T) = CHOOSE x \in T : \A y \in T : x <= y
  BY Zenon DEF History!Min
<1>6. History!Min(T) \in T
  BY <1>4, <1>5
<1>7. /\ History!Order(d)[History!Min(T)] \in HistoryFiles(d.g)
      /\ History!Order(d)[History!Min(T)] # f
  BY <1>1, <1>2, <1>6
<1> QED
  BY <1>7 DEF T

\* Normalising a selection twice is normalising it once: it is of the group's files, and its
\* sides differ.
LEMMA HistoryNormal ==
  ASSUME NEW d, HistoryOf(d), NEW pair
  PROVE  History!Normalised(d, History!Normalised(d, pair)) = History!Normalised(d, pair)
<1> DEFINE F == HistoryFiles(d.g)
           default == History!DefaultPair(d)
           other(to) == IF History!Others(d, to) = {} THEN HistoryNone
                        ELSE History!Order(d)[History!Min(History!Others(d, to))]
           From(p) == IF p.from \in F THEN p.from ELSE default.from
           To(p) == IF p.to \in F THEN p.to ELSE default.to
           result(p) == [from |-> IF From(p) # To(p) THEN From(p) ELSE other(To(p)),
                         to |-> To(p)]
<1>1. ASSUME NEW p PROVE History!Normalised(d, p) = result(p)
  BY DEF History!Normalised, HistoryFiles
<1>2. HistoryNone \notin F
  BY HistoryMembersAre DEF HistoryOf
<1>3. default.to \in F
  BY HistoryOrder DEF History!DefaultPair
<1>4. \/ default.from = HistoryNone
      \/ /\ default.from \in F /\ 2 \in DOMAIN History!Order(d)
         /\ default.from = History!Order(d)[2]
  BY HistoryOrder DEF History!DefaultPair
<1>5. ASSUME NEW to, History!Others(d, to) # {} PROVE other(to) \in F /\ other(to) # to
  BY <1>5, HistoryOthers
<1>6. ASSUME NEW to, History!Others(d, to) = {}
      PROVE  other(to) = HistoryNone /\ \A i \in DOMAIN History!Order(d) : History!Order(d)[i] = to
  BY <1>6 DEF History!Others
<1> HIDE DEF F, default, other
<1> DEFINE p == result(pair)
<1>7. p.to = To(pair) /\ p.to \in F
  BY <1>3
<1>8. To(p) = p.to
  BY <1>7
<1>9. p.from = (IF From(pair) # To(pair) THEN From(pair) ELSE other(To(pair))) /\ p.from # p.to
  BY <1>2, <1>5, <1>6, <1>7
<1>10. result(p) = p
  <2> HIDE DEF From, To
  <2>0. /\ result(p) = [from |-> IF From(p) # To(p) THEN From(p) ELSE other(To(p)), to |-> To(p)]
        /\ p = [from |-> p.from, to |-> p.to]
    OBVIOUS
  <2> HIDE DEF result, p
  <2>1. CASE p.from \in F
    BY <2>1, <1>8, <1>9, <2>0 DEF From
  <2>2. CASE p.from \notin F
    <3>1. From(p) = default.from
      BY <2>2 DEF From
    <3>2. CASE From(pair) # To(pair)
      BY <1>9, <3>2, <1>8, <2>0, <3>1 DEF From
    <3>3. CASE From(pair) = To(pair)
      <4>1. p.from = other(p.to)
        BY <1>7, <1>9, <3>3
      <4>2. History!Others(d, p.to) = {}
        BY <1>5, <2>2, <4>1
      <4>3. p.from = HistoryNone /\ (default.from = HistoryNone \/ default.from = p.to)
        BY <1>4, <1>6, <4>1, <4>2
      <4>4. CASE default.from = HistoryNone
        BY <1>8, <1>9, <2>0, <3>1, <4>3, <4>4
      <4>5. CASE default.from = p.to
        BY <1>8, <2>0, <3>1, <4>1, <4>5
      <4> QED
        BY <4>3, <4>4, <4>5
    <3> QED
      BY <3>2, <3>3
  <2> QED
    BY <2>1, <2>2
<1> QED
  BY <1>1, <1>10

HistoryCalled == {"kind", "g", "pair", "file", "current"}

\* The files that are pinned are files of their groups, here and in what is asked.
HistoryTyped ==
  /\ v1 = History!NoDetail \/ HistoryOf(v1)
  /\ v2 = [g \in HistoryGroups |-> v2[g]]
  /\ DOMAIN v3 = {"g", "pair", "status", "loading"}
  /\ DOMAIN v6 = {"setting", "clearing"}
  /\ v8 = [g \in HistoryGroups |-> v8[g]]
  /\ \A g \in HistoryGroups : v8[g] \in HistoryFiles(g) \cup {HistoryNone}
  /\ \A c \in v4 :
       /\ DOMAIN c = HistoryCalled /\ c.g \in HistoryGroups
       /\ c.kind \in {"pin", "unpin"} => c.file \in HistoryFiles(c.g) \cup {HistoryNone}

\* One comparison at most is the current one.
HistoryOneRun ==
  \A b, c \in v4 : b.kind = "run" /\ b.current /\ c.kind = "run" /\ c.current => b = c

HistoryInv ==
  /\ HistoryTyped /\ HistoryOneRun
  /\ History!HistoryFollowsSelection /\ History!HistoryIsFinished
  /\ History!ButtonsStopSpinning

\* No group is selected at the start, and nothing is asked.
LEMMA HistoryInit ==
  ASSUME History!Init
  PROVE  HistoryInv
<1> USE DEF History!Init
<1>1. HistoryTyped
  BY DEF HistoryTyped, History!NoHistory, History!NotBusy
<1>2. HistoryOneRun
  BY DEF HistoryOneRun
<1>3. History!HistoryFollowsSelection
  BY DEF History!HistoryFollowsSelection
<1>4. History!HistoryIsFinished
  BY DEF History!HistoryIsFinished, History!NoHistory
<1>5. History!ButtonsStopSpinning
  BY DEF History!ButtonsStopSpinning, History!NotBusy
<1> QED
  BY <1>1, <1>2, <1>3, <1>4, <1>5 DEF HistoryInv

\* The fields of a call.
LEMMA HistoryCalls ==
  ASSUME NEW kind, NEW g, NEW pair, NEW file
  PROVE  /\ DOMAIN History!Call(kind, g, pair, file) = HistoryCalled
         /\ History!Call(kind, g, pair, file).kind = kind
         /\ History!Call(kind, g, pair, file).g = g
         /\ History!Call(kind, g, pair, file).pair = pair
         /\ History!Call(kind, g, pair, file).file = file
         /\ History!Call(kind, g, pair, file).current
  BY DEF History!Call, HistoryCalled

\* The runs before are out of date, and the other calls are what they were.
LEMMA HistoryCuts ==
  ASSUME HistoryTyped, NEW cs \in SUBSET v4
  PROVE  /\ \A c \in History!OutOfDate(cs) :
              /\ DOMAIN c = HistoryCalled /\ c.g \in HistoryGroups
              /\ c.kind \in {"pin", "unpin"} => c.file \in HistoryFiles(c.g) \cup {HistoryNone}
              /\ ~(c.kind = "run" /\ c.current)
         /\ \A c \in cs : c.kind # "run" => c \in History!OutOfDate(cs)
<1>1. ASSUME NEW c \in History!OutOfDate(cs)
      PROVE  /\ DOMAIN c = HistoryCalled /\ c.g \in HistoryGroups
             /\ c.kind \in {"pin", "unpin"} => c.file \in HistoryFiles(c.g) \cup {HistoryNone}
             /\ ~(c.kind = "run" /\ c.current)
  <2>1. PICK b \in cs : c = IF b.kind = "run" THEN [b EXCEPT !.current = FALSE] ELSE b
    BY Zenon DEF History!OutOfDate
  <2>2. /\ DOMAIN b = HistoryCalled /\ b.g \in HistoryGroups
        /\ b.kind \in {"pin", "unpin"} => b.file \in HistoryFiles(b.g) \cup {HistoryNone}
    BY DEF HistoryTyped
  <2>3. CASE b.kind = "run"
    BY <2>1, <2>2 DEF HistoryCalled
  <2>4. CASE b.kind # "run"
    BY <2>1, <2>2
  <2> QED
    BY <2>3, <2>4
<1>2. ASSUME NEW c \in cs, c.kind # "run" PROVE c \in History!OutOfDate(cs)
  BY <1>2, Zenon DEF History!OutOfDate
<1> QED
  BY <1>1, <1>2

\* A comparison starts for the group that is open.
LEMMA HistoryRuns ==
  ASSUME HistoryInv, NEW d, HistoryOf(d), NEW requested, NEW cs \in SUBSET v4,
         History!RunHistory(d, requested, cs), v1' = d
  PROVE  /\ v4' \subseteq History!OutOfDate(cs) \cup
              {History!Call("run", d.g, History!Normalised(d, requested), HistoryNone)}
         /\ History!OutOfDate(cs) \subseteq v4'
         /\ v2' = [g \in HistoryGroups |-> v2'[g]]
         /\ DOMAIN v3' = {"g", "pair", "status", "loading"}
         /\ HistoryOneRun'
         /\ (History!HistoryFollowsSelection)' /\ (History!HistoryIsFinished)'
<1> DEFINE pair == History!Normalised(d, requested)
           run == History!Call("run", d.g, pair, HistoryNone)
           cut == History!OutOfDate(cs)
<1>0. HistoryTyped /\ d.g \in HistoryGroups
  BY DEF HistoryInv, HistoryOf
<1>1. /\ v2' = [v2 EXCEPT ![d.g] = pair]
      /\ \/ /\ v3' = [g |-> d.g, pair |-> pair, status |-> "loading", loading |-> TRUE]
            /\ v4' = cut \cup {run}
         \/ /\ v3' = [g |-> d.g, pair |-> pair, status |-> "none", loading |-> FALSE]
            /\ v4' = cut
  BY DEF History!RunHistory
<1>2. v2' = [g \in HistoryGroups |-> v2'[g]] /\ v2'[d.g] = pair
  BY <1>0, <1>1 DEF HistoryTyped
<1>3. run.kind = "run" /\ run.g = d.g /\ run.pair = pair /\ run.current
  BY HistoryCalls
<1>4. History!Normalised(d, pair) = pair
  BY HistoryNormal
<1>5. \A c \in cut : ~(c.kind = "run" /\ c.current)
  BY <1>0, HistoryCuts
<1> HIDE DEF pair, run, cut
<1>6. v4' \subseteq cut \cup {run} /\ cut \subseteq v4'
  BY <1>1
<1>7. HistoryOneRun'
  BY <1>5, <1>6 DEF HistoryOneRun
<1>8. v3'.g = d.g /\ v3'.pair = pair /\ DOMAIN v3' = {"g", "pair", "status", "loading"}
  BY <1>1
<1>9. (History!HistoryFollowsSelection)'
  BY <1>2, <1>4, <1>8 DEF History!HistoryFollowsSelection
<1>10. (History!HistoryIsFinished)'
  BY <1>3, <1>1 DEF History!HistoryIsFinished
<1> QED
  BY <1>2, <1>6, <1>7, <1>8, <1>9, <1>10 DEF pair, run, cut

\* The types after a comparison has started.
LEMMA HistoryRunTyped ==
  ASSUME HistoryInv, NEW d, HistoryOf(d), NEW requested, NEW cs \in SUBSET v4,
         History!RunHistory(d, requested, cs), v1' = d, DOMAIN v6' = {"setting", "clearing"},
         v8' = [g \in HistoryGroups |-> v8'[g]],
         \A g \in HistoryGroups : v8'[g] \in HistoryFiles(g) \cup {HistoryNone}
  PROVE  HistoryTyped'
<1> DEFINE run == History!Call("run", d.g, History!Normalised(d, requested), HistoryNone)
<1>0. HistoryTyped
  BY DEF HistoryInv
<1>1. /\ v4' \subseteq History!OutOfDate(cs) \cup {run}
      /\ v2' = [g \in HistoryGroups |-> v2'[g]] /\ DOMAIN v3' = {"g", "pair", "status", "loading"}
  BY HistoryRuns
<1>2. DOMAIN run = HistoryCalled /\ run.g \in HistoryGroups /\ run.kind = "run"
  BY HistoryCalls DEF HistoryOf
<1> HIDE DEF run
<1>3. \A c \in History!OutOfDate(cs) :
        /\ DOMAIN c = HistoryCalled /\ c.g \in HistoryGroups
        /\ c.kind \in {"pin", "unpin"} => c.file \in HistoryFiles(c.g) \cup {HistoryNone}
  BY <1>0, HistoryCuts
<1>4. \A c \in v4' :
        /\ DOMAIN c = HistoryCalled /\ c.g \in HistoryGroups
        /\ c.kind \in {"pin", "unpin"} => c.file \in HistoryFiles(c.g) \cup {HistoryNone}
  BY <1>1, <1>2, <1>3
<1>5. v1' = History!NoDetail \/ HistoryOf(v1')
  OBVIOUS
<1> QED
  BY <1>1, <1>4 DEF HistoryTyped, HistoryOf

\* A group is selected, or closed.
LEMMA HistorySelects ==
  ASSUME HistoryInv, NEW f, NEW side, History!SelectSlot(f, side)
  PROVE  HistoryInv'
<1>0. HistoryTyped /\ History!ButtonsStopSpinning
  BY DEF HistoryInv
<1>1. PICK next : History!RunHistory(v1, next, v4)
  BY DEF History!SelectSlot
<1>2. HistoryOf(v1)
  BY <1>0 DEF History!SelectSlot, History!CanSelect, History!Idle, HistoryTyped
<1>3. v1' = v1 /\ v5' = v5 /\ v6' = v6 /\ v8' = v8
  BY DEF History!SelectSlot, History!busy
<1>4. v4 \in SUBSET v4
  OBVIOUS
<1>5. HistoryTyped'
  BY <1>0, <1>3, <1>1, <1>2, HistoryRunTyped DEF HistoryTyped
<1>6. /\ HistoryOneRun' /\ (History!HistoryFollowsSelection)' /\ (History!HistoryIsFinished)'
      /\ History!OutOfDate(v4) \subseteq v4'
  BY <1>1, <1>2, <1>3, HistoryRuns
<1>7. (History!ButtonsStopSpinning)'
  BY <1>0, <1>6, HistoryCuts, <1>3 DEF History!ButtonsStopSpinning
<1> QED
  BY <1>5, <1>6, <1>7 DEF HistoryInv

\* The details of a group arrive, and its comparison is asked for.
LEMMA HistoryDetails ==
  ASSUME HistoryInv, NEW c \in v4, History!DetailArrives(c)
  PROVE  HistoryInv'
<1> DEFINE d == [g |-> c.g, pin |-> v8[c.g]]
<1>0. HistoryTyped /\ History!ButtonsStopSpinning
  BY DEF HistoryInv
<1>1. /\ History!RunHistory(d, c.pair, v4 \ {c}) /\ v1' = d /\ v5' = HistoryNone
      /\ v6' = v6 /\ v8' = v8 /\ c.kind = "detail"
  BY DEF History!DetailArrives
<1>2. HistoryOf(d)
  BY <1>0 DEF HistoryTyped, HistoryOf
<1> HIDE DEF d
<1>4. v4 \ {c} \in SUBSET v4
  OBVIOUS
<1>5. HistoryTyped'
  BY <1>0, <1>1, <1>2, HistoryRunTyped DEF HistoryTyped
<1>6. /\ HistoryOneRun' /\ (History!HistoryFollowsSelection)' /\ (History!HistoryIsFinished)'
      /\ History!OutOfDate(v4 \ {c}) \subseteq v4'
  BY <1>1, <1>2, HistoryRuns
<1>7. (History!ButtonsStopSpinning)'
  BY <1>0, <1>6, HistoryCuts, <1>1 DEF History!ButtonsStopSpinning
<1> QED
  BY <1>5, <1>6, <1>7 DEF HistoryInv

\* The end of a call that pins: one of the two marks goes.
LEMMA HistoryDone ==
  ASSUME HistoryTyped, NEW c, c.kind \in {"pin", "unpin"}, History!LatestDone(c)
  PROVE  /\ v5' = HistoryNone /\ DOMAIN v6' = {"setting", "clearing"}
         /\ v6'.setting = IF c.kind = "pin" THEN HistoryNone ELSE v6.setting
         /\ v6'.clearing = IF c.kind = "pin" THEN v6.clearing ELSE HistoryNone
  BY DEF HistoryTyped, History!LatestDone

\* The buttons after such a call.
LEMMA HistoryDoneButtons ==
  ASSUME HistoryTyped, History!ButtonsStopSpinning, NEW c, c.kind \in {"pin", "unpin"},
         History!LatestDone(c), \A b \in v4 : b.kind # "run" /\ b # c => b \in v4'
  PROVE  (History!ButtonsStopSpinning)'
  BY HistoryDone DEF History!ButtonsStopSpinning

\* A pinned file arrives, and the comparison with it is asked for.
LEMMA HistoryLatest ==
  ASSUME HistoryInv, NEW c \in v4, History!LatestArrives(c)
  PROVE  HistoryInv'
<1> DEFINE d == [g |-> c.g, pin |-> c.file]
<1>0. HistoryTyped /\ History!ButtonsStopSpinning
  BY DEF HistoryInv
<1>1. /\ History!RunHistory(d, History!DefaultPair(d), v4 \ {c}) /\ v1' = d
      /\ v8' = [v8 EXCEPT ![c.g] = c.file] /\ c.kind \in {"pin", "unpin"}
      /\ History!LatestDone(c)
  BY DEF History!LatestArrives
<1>2. HistoryOf(d) /\ c.g \in HistoryGroups
      /\ c.file \in HistoryFiles(c.g) \cup {HistoryNone}
  BY <1>0, <1>1 DEF HistoryTyped, HistoryOf
<1> HIDE DEF d
<1>4. v4 \ {c} \in SUBSET v4
  OBVIOUS
<1>5. HistoryTyped'
  BY <1>0, <1>1, HistoryDone, <1>2, HistoryRunTyped DEF HistoryTyped
<1>6. /\ HistoryOneRun' /\ (History!HistoryFollowsSelection)' /\ (History!HistoryIsFinished)'
      /\ History!OutOfDate(v4 \ {c}) \subseteq v4'
  BY <1>1, <1>2, HistoryRuns
<1>7. (History!ButtonsStopSpinning)'
  BY <1>0, <1>6, HistoryCuts, <1>1, HistoryDoneButtons
<1> QED
  BY <1>5, <1>6, <1>7 DEF HistoryInv

\* Calls that are no runs come and go; what is open and compared stays.
LEMMA HistoryKept ==
  ASSUME HistoryInv, UNCHANGED <<v1, v2, v3, v8>>, DOMAIN v6' = {"setting", "clearing"},
         \A c \in v4 : c.kind = "run" => c \in v4',
         \A c \in v4' : c \in v4 \/
           /\ DOMAIN c = HistoryCalled /\ c.g \in HistoryGroups /\ c.kind # "run"
           /\ c.kind \in {"pin", "unpin"} => c.file \in HistoryFiles(c.g) \cup {HistoryNone},
         (History!ButtonsStopSpinning)'
  PROVE  HistoryInv'
<1> USE DEF HistoryInv
<1>1. HistoryTyped'
  BY DEF HistoryTyped, HistoryOf
<1>2. HistoryOneRun'
  BY DEF HistoryOneRun
<1>3. (History!HistoryFollowsSelection)'
  BY DEF History!HistoryFollowsSelection
<1>4. (History!HistoryIsFinished)'
  BY DEF History!HistoryIsFinished
<1> QED
  BY <1>1, <1>2, <1>3, <1>4

\* A call that is made: the buttons that spin are those of before, or wait for it.
LEMMA HistoryAsks ==
  ASSUME HistoryInv, NEW kind \in {"detail", "pin", "unpin", "grid"}, NEW g \in HistoryGroups,
         NEW pair, NEW file,
         kind \in {"pin", "unpin"} => file \in HistoryFiles(g) \cup {HistoryNone},
         v4' = v4 \cup {History!Call(kind, g, pair, file)}, UNCHANGED <<v1, v2, v3, v8>>,
         DOMAIN v6' = {"setting", "clearing"},
         v5' = v5 \/ (v5' = g /\ kind # "grid"),
         v6'.setting = v6.setting \/ (v6'.setting = file /\ kind = "pin"),
         v6'.clearing = v6.clearing \/ (v6'.clearing = g /\ kind = "unpin")
  PROVE  HistoryInv'
<1> DEFINE new == History!Call(kind, g, pair, file)
<1>1. DOMAIN new = HistoryCalled /\ new.kind = kind /\ new.g = g /\ new.file = file
  BY HistoryCalls
<1> HIDE DEF new
<1>2. v4' = v4 \cup {new} /\ new \in v4' /\ kind # "run"
  BY DEF new
<1>3. (History!ButtonsStopSpinning)'
  BY <1>1, <1>2 DEF HistoryInv, History!ButtonsStopSpinning
<1>4. \A c \in v4' : c \in v4 \/
        /\ DOMAIN c = HistoryCalled /\ c.g \in HistoryGroups /\ c.kind # "run"
        /\ c.kind \in {"pin", "unpin"} => c.file \in HistoryFiles(c.g) \cup {HistoryNone}
  BY <1>1, <1>2
<1> QED
  BY <1>3, <1>4, HistoryKept

\* A group of the list is opened.
LEMMA HistoryOpens ==
  ASSUME HistoryInv, NEW g \in HistoryGroups, History!OpenGroup(g)
  PROVE  HistoryInv'
  BY HistoryAsks DEF History!OpenGroup, HistoryInv, HistoryTyped

\* The group that is open, while nothing of it is compared.
LEMMA HistoryIdle ==
  ASSUME HistoryInv, History!Idle
  PROVE  HistoryOf(v1) /\ v1.g \in HistoryGroups /\ DOMAIN v6 = {"setting", "clearing"}
  BY DEF HistoryInv, HistoryTyped, HistoryOf, History!Idle

\* A file is pinned as the latest one.
LEMMA HistorySets ==
  ASSUME HistoryInv, NEW f, History!SetLatest(f)
  PROVE  HistoryInv'
  BY HistoryIdle, HistoryAsks DEF History!SetLatest, History!CanPin, HistoryFiles

\* The pinned file is released.
LEMMA HistoryUnsets ==
  ASSUME HistoryInv, History!ClearLatest
  PROVE  HistoryInv'
  BY HistoryIdle, HistoryAsks DEF History!ClearLatest, History!CanUnpin

\* The window of the sheets is asked for.
LEMMA HistoryGrids ==
  ASSUME HistoryInv, History!OpenGrid
  PROVE  HistoryInv'
  BY HistoryIdle, HistoryAsks DEF History!OpenGrid, History!CanOpenGrid, History!busy

\* A call that ends without a new comparison.
LEMMA HistoryEnds ==
  ASSUME HistoryInv, NEW c \in v4,
         History!DetailFails(c) \/ History!LatestFails(c) \/ History!GridArrives(c)
  PROVE  HistoryInv'
<1>0. HistoryTyped /\ History!ButtonsStopSpinning
  BY DEF HistoryInv
<1>1. v4' = v4 \ {c} /\ UNCHANGED <<v1, v2, v3, v8>> /\ c.kind # "run"
  BY DEF History!DetailFails, History!LatestFails, History!GridArrives
<1>2. CASE History!DetailFails(c)
  BY <1>2, <1>0, HistoryKept DEF History!DetailFails, History!ButtonsStopSpinning, HistoryTyped
<1>3. CASE History!LatestFails(c)
  BY <1>3, <1>0, HistoryDoneButtons, HistoryDone, HistoryKept DEF History!LatestFails
<1>4. CASE History!GridArrives(c)
  BY <1>4, <1>0, HistoryKept
  DEF History!GridArrives, History!busy, History!ButtonsStopSpinning, HistoryTyped
<1> QED
  BY <1>2, <1>3, <1>4

\* What is open is closed.
LEMMA HistoryCloses ==
  ASSUME HistoryInv, History!CloseGroup \/ History!ListChanges
  PROVE  HistoryInv'
<1> USE DEF HistoryInv
<1>1. /\ v1' = History!NoDetail /\ v3' = History!NoHistory
      /\ UNCHANGED <<v2, v4, v5, v6, v8>>
  BY DEF History!CloseGroup, History!ListChanges, History!busy
<1>2. HistoryTyped'
  BY <1>1 DEF HistoryTyped, History!NoHistory, History!NoDetail
<1>3. HistoryOneRun'
  BY <1>1 DEF HistoryOneRun
<1>4. (History!HistoryFollowsSelection)'
  BY <1>1 DEF History!HistoryFollowsSelection, History!NoHistory
<1>5. (History!HistoryIsFinished)'
  BY <1>1 DEF History!HistoryIsFinished, History!NoHistory
<1>6. (History!ButtonsStopSpinning)'
  BY <1>1 DEF History!ButtonsStopSpinning
<1> QED
  BY <1>2, <1>3, <1>4, <1>5, <1>6

\* The answer of a comparison ends the one that is shown, and no other.
LEMMA HistoryAnswers ==
  ASSUME HistoryInv, NEW c \in v4, History!RunArrives(c)
  PROVE  HistoryInv'
<1> USE DEF HistoryInv
<1>1. /\ v4' = v4 \ {c} /\ c.kind = "run" /\ UNCHANGED <<v1, v2, v5, v6, v8>>
  BY DEF History!RunArrives, History!busy
<1>2. PICK status \in {"done", "error"} :
        v3' = IF ~History!CurrentRun(c) \/ v3.g # c.g THEN v3
              ELSE [v3 EXCEPT !.status = IF v3.pair = c.pair THEN status ELSE @,
                              !.loading = FALSE]
  BY DEF History!RunArrives
<1>3. DOMAIN v3 = {"g", "pair", "status", "loading"} /\ c.g \in HistoryGroups
  BY DEF HistoryTyped
<1>4. \/ v3' = v3 /\ (~c.current \/ v3.g # c.g)
      \/ /\ c.current /\ v3.g = c.g /\ v3 # History!NoHistory /\ v3'.loading = FALSE
         /\ DOMAIN v3' = {"g", "pair", "status", "loading"} /\ v3'.g = v3.g /\ v3'.pair = v3.pair
         /\ v3'.status = IF v3.pair = c.pair THEN status ELSE v3.status
  BY <1>2, <1>3, HistoryAssumption DEF History!CurrentRun, History!NoHistory
<1>5. HistoryTyped'
  BY <1>1, <1>4 DEF HistoryTyped, HistoryOf
<1>6. HistoryOneRun'
  BY <1>1 DEF HistoryOneRun
<1>7. (History!HistoryFollowsSelection)'
  BY <1>1, <1>4 DEF History!HistoryFollowsSelection
<1>8. (History!HistoryIsFinished)'
  <2>1. CASE v3' = v3 /\ (~c.current \/ v3.g # c.g)
    BY <1>1, <2>1 DEF History!HistoryIsFinished
  <2>2. CASE /\ c.current /\ v3.g = c.g /\ v3'.loading = FALSE
             /\ v3'.status = IF v3.pair = c.pair THEN status ELSE v3.status
    BY <1>1, <2>2 DEF HistoryOneRun, History!HistoryIsFinished
  <2> QED
    BY <1>4, <2>1, <2>2
<1>9. (History!ButtonsStopSpinning)'
  BY <1>1 DEF History!ButtonsStopSpinning
<1> QED
  BY <1>5, <1>6, <1>7, <1>8, <1>9

\* Every step of the history page.
LEMMA HistoryKeeps ==
  ASSUME HistoryInv, History!Next \/ UNCHANGED History!vars
  PROVE  HistoryInv'
<1>1. ASSUME History!User PROVE HistoryInv'
  BY HistoryKept, HistorySelects, <1>1, HistoryOpens, HistorySets, HistoryCloses, HistoryUnsets,
     HistoryGrids
  DEF History!CloseGrid, History!busy, HistoryInv, HistoryTyped, History!ButtonsStopSpinning,
      History!User
<1>2. ASSUME History!Server PROVE HistoryInv'
  BY <1>2, HistoryAnswers, HistoryDetails, HistoryLatest, HistoryEnds DEF History!Server
<1>3. ASSUME UNCHANGED History!vars PROVE HistoryInv'
  BY <1>3, HistoryKept
  DEF History!vars, History!busy, HistoryInv, HistoryTyped, History!ButtonsStopSpinning
<1> QED
  BY <1>1, <1>2, <1>3, HistoryCloses DEF History!Next

\* The changes that are shown are those of the two files that are marked, whatever is opened,
\* pinned and chosen while answers are on their way.
THEOREM HistoryFollows == Spec => []HistoryFollowsSelection
<1> DEFINE Inv == screen = "history" => HistoryInv
<1>1. Init => Inv
  BY HistoryInit DEF Init
<1>2. Inv /\ [Next]_vars => Inv'
  BY OnePage, HistoryKeeps
<1>3. Inv => HistoryFollowsSelection
  BY DEF HistoryInv, HistoryFollowsSelection
<1> QED
  BY <1>1, <1>2, <1>3, PTL DEF Spec

-----------------------------------------------------------------------------
(* The status of a rescan. *)

\* A rescan that runs has a number, in whatever copy of the status.
RescanRuns ==
  /\ \A s \in {v1, v2} : Rescan!Running(s) => s.run # 0
  /\ \A i \in DOMAIN v6 : Rescan!Running(v6[i].answer) => v6[i].answer.run # 0

\* As long as no answer about an earlier rescan came late, the rescans seen running are not later
\* than the one that is shown, and its end is still watched for unless it was announced.
RescanSeen ==
  /\ 0 \notin v7 /\ (v5 # 0 => v5 \in v8)
  /\ ~v9 => /\ \A r \in v7 : r <= v2.run
            /\ ~v4 /\ v2.run \in v7 => v2.run \in v8

\* What stands under the title.
RescanShows ==
  /\ Rescan!EndIsAnnounced
  /\ v2.stage \in {"completed", "cancelled"} => v3 \in {0, v2.run}

RescanInv == Rescan!TypeOK /\ RescanRuns /\ RescanSeen /\ RescanShows

\* The statuses have numbers and stages.
LEMMA RescanStatuses ==
  /\ Rescan!NoStatus.run = 0 /\ Rescan!NoStatus.stage = "none"
  /\ \A s \in Rescan!Status :
       /\ s.run \in 0..RescanMaxRuns /\ s.run \in Nat
       /\ s.stage \in {"idle", "running", "cancelling", "completed", "cancelled", "failed"}
  BY RescanAssumption DEF Rescan!NoStatus, Rescan!Status, Rescan!Ends

\* Nothing is known of a rescan at the start, and the status is asked for.
LEMMA RescanInit == Rescan!Init => RescanInv
<1> SUFFICES ASSUME Rescan!Init PROVE RescanInv
  OBVIOUS
<1>1. /\ v1 = [run |-> 0, stage |-> "idle"] /\ v2 = Rescan!NoStatus /\ v3 = 0 /\ v4 = FALSE
      /\ v5 = 0 /\ v7 = {} /\ v8 = {} /\ v9 = FALSE
  BY DEF Rescan!Init
<1>2. /\ DOMAIN v6 = 1..RescanMaxRequests
      /\ v6 \in [1..RescanMaxRequests ->
           [kind : {"none", "poll", "start", "cancel"},
            answer : Rescan!Status \cup {Rescan!NoStatus}]]
      /\ \A i \in 1..RescanMaxRequests : v6[i].answer = Rescan!NoStatus
  BY DEF Rescan!Init, Rescan!NoRequest
<1>3. v1 \in Rescan!Status
  BY <1>1, RescanAssumption DEF Rescan!Status
<1>4. Rescan!TypeOK
  <2>1. {v3, v5} \subseteq 0..RescanMaxRuns /\ v7 \cup v8 \subseteq 0..RescanMaxRuns
    BY <1>1, RescanAssumption
  <2>2. v4 \in BOOLEAN /\ v9 \in BOOLEAN /\ v2 \in Rescan!Status \cup {Rescan!NoStatus}
    BY <1>1
  <2> QED
    BY <1>2, <1>3, <2>1, <2>2 DEF Rescan!TypeOK
<1>5. RescanRuns
  BY <1>1, <1>2, RescanStatuses DEF RescanRuns, Rescan!Running
<1> QED
  BY <1>1, <1>4, <1>5 DEF RescanInv, RescanSeen, RescanShows, Rescan!EndIsAnnounced, Rescan!Ends

\* A step that leaves what is shown alone, and neither a request nor the server forgets that a
\* rescan has a number.
LEMMA RescanSame ==
  ASSUME RescanInv, UNCHANGED <<v2, v3, v4, v5, v7, v8, v9>>,
         v1' \in Rescan!Status, Rescan!Running(v1') => v1'.run # 0,
         v6' \in [1..RescanMaxRequests ->
           [kind : {"none", "poll", "start", "cancel"},
            answer : Rescan!Status \cup {Rescan!NoStatus}]],
         \A i \in DOMAIN v6' : Rescan!Running(v6'[i].answer) => v6'[i].answer.run # 0
  PROVE  RescanInv'
  BY DEF RescanInv, Rescan!TypeOK, Rescan!Status, Rescan!NoStatus, Rescan!Ends, RescanRuns,
         Rescan!Running, RescanSeen, RescanShows, Rescan!EndIsAnnounced

\* A request is made in a free slot.
LEMMA RescanSends ==
  ASSUME RescanInv, NEW kind \in {"poll", "start", "cancel"}, Rescan!Send(kind)
  PROVE  /\ v6' \in [1..RescanMaxRequests ->
              [kind : {"none", "poll", "start", "cancel"},
               answer : Rescan!Status \cup {Rescan!NoStatus}]]
         /\ \A i \in DOMAIN v6' : Rescan!Running(v6'[i].answer) => v6'[i].answer.run # 0
  BY DEF Rescan!Send, Rescan!Free, RescanInv, Rescan!TypeOK, Rescan!Running, Rescan!NoStatus,
         RescanRuns

\* A request goes, answered or not.
LEMMA RescanFrees ==
  ASSUME RescanInv, NEW i \in DOMAIN v6, v6' = [v6 EXCEPT ![i] = Rescan!NoRequest]
  PROVE  /\ v6' \in [1..RescanMaxRequests ->
              [kind : {"none", "poll", "start", "cancel"},
               answer : Rescan!Status \cup {Rescan!NoStatus}]]
         /\ \A j \in DOMAIN v6' : Rescan!Running(v6'[j].answer) => v6'[j].answer.run # 0
  BY DEF RescanInv, Rescan!TypeOK, Rescan!Running, Rescan!NoStatus, Rescan!NoRequest, RescanRuns

\* The server's status stays one.
LEMMA RescanServer ==
  RescanInv => v1 \in Rescan!Status /\ (Rescan!Running(v1) => v1.run # 0)
  BY DEF RescanInv, Rescan!TypeOK, RescanRuns

\* A rescan is asked for: what was seen and announced is forgotten.
LEMMA RescanStarts ==
  ASSUME RescanInv, Rescan!StartRescan
  PROVE  RescanInv'
<1>1. /\ UNCHANGED <<v1, v2, v9>> /\ v3' = 0 /\ v7' = {} /\ ~Rescan!Running(v2)
      /\ Rescan!Send("start")
  BY DEF Rescan!StartRescan
<1>2. /\ v6' \in [1..RescanMaxRequests ->
           [kind : {"none", "poll", "start", "cancel"},
            answer : Rescan!Status \cup {Rescan!NoStatus}]]
      /\ \A i \in DOMAIN v6' : Rescan!Running(v6'[i].answer) => v6'[i].answer.run # 0
  BY <1>1, RescanSends
<1>3. v2 \in Rescan!Status \cup {Rescan!NoStatus} /\ v2.run \in 0..RescanMaxRuns
  BY RescanStatuses, RescanAssumption DEF RescanInv, Rescan!TypeOK
<1>4. \/ v4' = FALSE /\ v5' = v2.run /\ v8' = {v2.run}
      \/ v4' = TRUE /\ v5' = 0 /\ v8' = {}
  BY DEF Rescan!StartRescan, Rescan!Effect
<1>5. /\ {v3', v5'} \subseteq 0..RescanMaxRuns /\ v8' \subseteq 0..RescanMaxRuns
      /\ v4' \in BOOLEAN /\ (v5' # 0 => v5' \in v8')
  <2>1. v5' \in {0, v2.run} /\ (v8' \subseteq {v2.run}) /\ v3' = 0
    BY <1>1, <1>4
  <2>2. v4' \in BOOLEAN
    BY <1>4
  <2>3. 0 \in 0..RescanMaxRuns
    BY RescanAssumption
  <2> QED
    BY <1>3, <1>4, <2>1, <2>2, <2>3
<1>6. Rescan!TypeOK'
  BY <1>1, <1>2, <1>5 DEF RescanInv, Rescan!TypeOK, Rescan!Status, Rescan!NoStatus, Rescan!Ends
<1>7. RescanRuns'
  BY <1>1, <1>2 DEF RescanInv, RescanRuns, Rescan!Running
<1> QED
  BY <1>1, <1>5, <1>6, <1>7
     DEF RescanInv, RescanSeen, RescanShows, Rescan!EndIsAnnounced, Rescan!Ends

\* The server answers with its status.
LEMMA RescanServes ==
  ASSUME RescanInv, NEW i \in DOMAIN v6, Rescan!Serve(i)
  PROVE  RescanInv'
<1>1. /\ UNCHANGED <<v2, v3, v4, v5, v7, v8, v9>>
      /\ v6' = [v6 EXCEPT ![i].answer = v1']
  BY DEF Rescan!Serve, Rescan!view, Rescan!history
<1>2. v1 \in Rescan!Status /\ (Rescan!Running(v1) => v1.run # 0)
  BY RescanServer
<1>3. v1' \in Rescan!Status /\ (Rescan!Running(v1') => v1'.run # 0)
  BY <1>2, RescanAssumption DEF Rescan!Running, Rescan!Status, Rescan!Serve
<1>4. v6 \in [1..RescanMaxRequests ->
         [kind : {"none", "poll", "start", "cancel"},
          answer : Rescan!Status \cup {Rescan!NoStatus}]]
  BY DEF RescanInv, Rescan!TypeOK
<1>5. v6[i] \in [kind : {"none", "poll", "start", "cancel"},
                 answer : Rescan!Status \cup {Rescan!NoStatus}]
  BY <1>4
<1>6. /\ [v6[i] EXCEPT !.answer = v1'] \in [kind : {"none", "poll", "start", "cancel"},
                                            answer : Rescan!Status \cup {Rescan!NoStatus}]
      /\ [v6[i] EXCEPT !.answer = v1'].answer = v1'
  BY <1>3, <1>5
<1>7. /\ v6' \in [1..RescanMaxRequests ->
           [kind : {"none", "poll", "start", "cancel"},
            answer : Rescan!Status \cup {Rescan!NoStatus}]]
      /\ \A j \in DOMAIN v6' : v6'[j].answer \in {v6[j].answer, v1'} /\ j \in DOMAIN v6
  BY <1>1, <1>4, <1>6
<1>8. \A j \in DOMAIN v6' : Rescan!Running(v6'[j].answer) => v6'[j].answer.run # 0
  BY <1>3, <1>7 DEF RescanInv, RescanRuns, Rescan!Running
<1> QED
  BY <1>1, <1>3, <1>7, <1>8, RescanSame

\* A rescan of the server ends.
LEMMA RescanEnds ==
  ASSUME RescanInv, Rescan!RescanEnds
  PROVE  RescanInv'
  BY RescanServer, RescanSame
  DEF Rescan!RescanEnds, Rescan!view, Rescan!history, Rescan!Ends, Rescan!Status, RescanInv,
      Rescan!TypeOK, RescanRuns, Rescan!Running

\* What an answer brings.
LEMMA RescanBrings ==
  ASSUME RescanInv, NEW i \in DOMAIN v6, Rescan!Arrives(i)
  PROVE  \E s \in Rescan!Status :
           /\ Rescan!Running(s) => s.run # 0
           /\ v1' = v1 /\ v6' = [v6 EXCEPT ![i] = Rescan!NoRequest] /\ v2' = s
           /\ v3' = IF s.stage \in Rescan!Ends \ {"failed"} THEN s.run ELSE v3
           /\ v7' = IF Rescan!Running(s) THEN v7 \cup {s.run} ELSE v7
           /\ Rescan!Effect(s, v4 \/ Rescan!Running(s), v5, v8)
           /\ v9' = (v9 \/ s.run < v2.run)
<1>1. v6[i].answer # Rescan!NoStatus /\ v6[i].answer \in Rescan!Status \cup {Rescan!NoStatus}
  BY DEF Rescan!Arrives, RescanInv, Rescan!TypeOK
<1>2. Rescan!Running(v6[i].answer) => v6[i].answer.run # 0
  BY DEF RescanInv, RescanRuns
<1>3. v6[i].answer \in Rescan!Status
  BY <1>1
<1> WITNESS v6[i].answer \in Rescan!Status
<1> QED
  BY <1>2 DEF Rescan!Arrives, Rescan!Watched

\* An answer is shown, and an end that was watched for is announced.
LEMMA RescanArrives ==
  ASSUME RescanInv, NEW i \in DOMAIN v6, Rescan!Arrives(i)
  PROVE  RescanInv'
<1>1. PICK s \in Rescan!Status :
           /\ Rescan!Running(s) => s.run # 0
           /\ v1' = v1 /\ v6' = [v6 EXCEPT ![i] = Rescan!NoRequest] /\ v2' = s
           /\ v3' = IF s.stage \in Rescan!Ends \ {"failed"} THEN s.run ELSE v3
           /\ v7' = IF Rescan!Running(s) THEN v7 \cup {s.run} ELSE v7
           /\ Rescan!Effect(s, v4 \/ Rescan!Running(s), v5, v8)
           /\ v9' = (v9 \/ s.run < v2.run)
  BY RescanBrings
<1> DEFINE watched == v4 \/ Rescan!Running(s)
<1>2. \/ s.stage \in Rescan!Ends /\ v5' = s.run /\ v4' = FALSE /\ v8' = v8 \cup {s.run}
      \/ /\ ~(watched /\ s.stage \in Rescan!Ends /\ v5 # s.run)
         /\ v5' = v5 /\ v4' = watched /\ v8' = v8
  BY <1>1 DEF Rescan!Effect
<1>3. /\ s.run \in Nat /\ s.run \in 0..RescanMaxRuns
      /\ v2.run \in Nat
      /\ v7 \subseteq Nat /\ v7 \subseteq 0..RescanMaxRuns /\ v8 \subseteq 0..RescanMaxRuns
      /\ v3 \in 0..RescanMaxRuns /\ v5 \in 0..RescanMaxRuns
  BY RescanStatuses DEF RescanInv, Rescan!TypeOK
<1>4. s.stage \in Rescan!Ends <=> s.stage \in {"completed", "cancelled", "failed"}
  BY DEF Rescan!Ends
<1>5. Rescan!Running(s) <=> s.stage \in {"running", "cancelling"}
  BY DEF Rescan!Running
<1>6. Rescan!TypeOK'
  <2>1. v6' \in [1..RescanMaxRequests ->
           [kind : {"none", "poll", "start", "cancel"},
            answer : Rescan!Status \cup {Rescan!NoStatus}]]
    BY <1>1, RescanFrees
  <2>2. v1' \in Rescan!Status /\ v2' \in Rescan!Status
    BY <1>1, RescanServer
  <2>3. v4' \in BOOLEAN
    BY <1>2 DEF RescanInv, Rescan!TypeOK, Rescan!Running
  <2>4. v9' \in BOOLEAN
    BY <1>1
  <2>5. v7' \cup v8' \subseteq 0..RescanMaxRuns
    BY <1>1, <1>2, <1>3
  <2>6. v3' \in 0..RescanMaxRuns /\ v5' \in 0..RescanMaxRuns
    BY <1>1, <1>2, <1>3
  <2> QED
    BY <2>1, <2>2, <2>3, <2>4, <2>5, <2>6
       DEF Rescan!TypeOK, Rescan!Status, Rescan!NoStatus, Rescan!Ends
<1>7. RescanRuns'
  <2>1. \A j \in DOMAIN v6' : Rescan!Running(v6'[j].answer) => v6'[j].answer.run # 0
    BY <1>1, RescanFrees
  <2> QED
    BY <1>1, <2>1, RescanServer DEF RescanRuns, Rescan!Running
<1>8. 0 \notin v7' /\ (v5' # 0 => v5' \in v8')
  BY <1>1, <1>2 DEF RescanInv, RescanSeen
<1>9. ASSUME ~v9'
      PROVE  /\ \A r \in v7' : r <= s.run
             /\ ~v4' /\ s.run \in v7' => s.run \in v8'
             /\ s.stage \in Rescan!Ends /\ s.run \in v7' => s.run \in v8'
  <2>1. ~v9 /\ v2.run <= s.run
    <3>1. ~v9 /\ ~(s.run < v2.run)
      BY <1>1, <1>9, Zenon
    <3> QED
      BY <1>3, <3>1
  <2>2. \A r \in v7 : r <= v2.run /\ r \in Nat
    BY <1>3, <2>1 DEF RescanInv, RescanSeen
  <2>3. \A r \in v7' : r <= s.run
    BY <1>1, <1>3, <2>1, <2>2
  <2>4. ~watched /\ s.run \in v7' => s.run \in v8
    BY <1>1, <1>3, <2>1 DEF RescanInv, RescanSeen
  <2>5. v8 \subseteq v8' /\ (v4' => watched) /\ (~v4' => ~watched \/ s.run \in v8')
    BY <1>2
  <2>6. s.stage \in Rescan!Ends /\ s.run \in v7' => s.run \in v8'
    BY <1>2, <2>4, <1>1, <2>5 DEF RescanInv, RescanSeen
  <2> QED
    BY <2>3, <2>4, <2>5, <2>6
<1>10. RescanSeen'
  BY <1>1, <1>8, <1>9 DEF RescanSeen
<1>11. RescanShows'
  BY <1>1, <1>4, <1>9 DEF RescanShows, Rescan!EndIsAnnounced
<1> QED
  BY <1>6, <1>7, <1>10, <1>11 DEF RescanInv

\* Every step of the status of a rescan.
LEMMA RescanKeeps ==
  ASSUME RescanInv, Rescan!Next \/ UNCHANGED Rescan!vars
  PROVE  RescanInv'
<1>1. /\ v1 \in Rescan!Status /\ (Rescan!Running(v1) => v1.run # 0)
      /\ v6 \in [1..RescanMaxRequests ->
           [kind : {"none", "poll", "start", "cancel"},
            answer : Rescan!Status \cup {Rescan!NoStatus}]]
      /\ \A j \in DOMAIN v6 : Rescan!Running(v6[j].answer) => v6[j].answer.run # 0
  BY DEF RescanInv, Rescan!TypeOK, RescanRuns
<1>2. ASSUME UNCHANGED <<v1, v2, v3, v4, v5, v7, v8, v9>>,
             \/ UNCHANGED v6
             \/ \E kind \in {"poll", "start", "cancel"} : Rescan!Send(kind)
             \/ \E i \in DOMAIN v6 : v6' = [v6 EXCEPT ![i] = Rescan!NoRequest]
      PROVE  RescanInv'
  <2>1. v1' \in Rescan!Status /\ (Rescan!Running(v1') => v1'.run # 0)
    BY <1>1, <1>2 DEF Rescan!Running
  <2>2. /\ v6' \in [1..RescanMaxRequests ->
             [kind : {"none", "poll", "start", "cancel"},
              answer : Rescan!Status \cup {Rescan!NoStatus}]]
        /\ \A j \in DOMAIN v6' : Rescan!Running(v6'[j].answer) => v6'[j].answer.run # 0
    <3>1. CASE UNCHANGED v6
      BY <1>1, <3>1 DEF Rescan!Running
    <3> QED
      BY <1>2, <3>1, RescanSends, RescanFrees
  <2> QED
    BY <1>2, <2>1, <2>2, RescanSame
<1>3. CASE Rescan!Poll \/ Rescan!CancelRescan
  BY <1>2, <1>3 DEF Rescan!Poll, Rescan!CancelRescan, Rescan!view, Rescan!history
<1>4. ASSUME NEW i \in DOMAIN v6, Rescan!Fails(i) PROVE RescanInv'
  BY <1>2, <1>4 DEF Rescan!Fails, Rescan!view, Rescan!history
<1>5. CASE UNCHANGED Rescan!vars
  BY <1>2, <1>5 DEF Rescan!vars, Rescan!view, Rescan!history
<1> QED
  BY <1>3, <1>4, <1>5, RescanStarts, RescanEnds, RescanServes, RescanArrives DEF Rescan!Next

\* The numbers under the title of a rescan that was completed or stopped are its own.
LEMMA RescanNumbers == RescanInv => Rescan!NumbersFitTheTitle
  BY DEF RescanInv, RescanShows, Rescan!NumbersFitTheTitle, Rescan!CardRun, Rescan!Running,
         Rescan!Ends

-----------------------------------------------------------------------------
(* The removal of application data. *)

\* Nothing that a reset was to remove is left from the run it was made in or an earlier one.
ResetGone(m) ==
  /\ m.targets \subseteq ResetCandidates /\ m.run \in Nat /\ m.run <= v13
  /\ \A t \in m.targets : \A c \in ResetInside[t] : v1[c] = 0 \/ v1[c] > m.run

\* A removal without a failure has removed the targets that are not left.
ResetJob ==
  /\ DOMAIN v9 = {"stage", "targets", "left", "ok"} /\ v9.targets \subseteq ResetCandidates
  /\ v9.ok => \A t \in v9.targets \ v9.left : \A c \in ResetInside[t] : v1[c] = 0

ResetInv ==
  /\ v1 \in [ResetCandidates -> Nat] /\ v13 \in Nat
  /\ v4 \subseteq ResetCandidates /\ v6 \subseteq ResetCandidates
  /\ ResetJob /\ ResetGone(v10) /\ ResetGone(v11)

\* Nothing is removed, marked or announced at the start.
LEMMA ResetInit == Reset!Init => ResetInv
  BY DEF Reset!Init, Reset!Idle, Reset!NoReset, ResetInv, ResetJob, ResetGone

\* A reset stays done while contents only go or begin in a later run.
LEMMA ResetStays ==
  ASSUME NEW m, v1 \in [ResetCandidates -> Nat], v13 \in Nat, ResetGone(m),
         v13' \in Nat, v13 <= v13',
         \A c \in ResetCandidates : v1'[c] \in {v1[c], 0} \/ (v1'[c] = v13' /\ v13 < v13')
  PROVE  /\ m.targets \subseteq ResetCandidates /\ m.run \in Nat /\ m.run <= v13'
         /\ \A t \in m.targets : \A c \in ResetInside[t] : v1'[c] = 0 \/ v1'[c] > m.run
  BY ResetAssumption DEF ResetGone

\* A step that touches neither the data nor the removal, marker and notice.
LEMMA ResetSame ==
  ASSUME ResetInv, UNCHANGED <<v1, v9, v10, v11, v13>>,
         v4' \subseteq ResetCandidates, v6' \subseteq ResetCandidates
  PROVE  ResetInv'
  BY DEF ResetInv, ResetJob, ResetGone

\* A removal begins with all of its targets left.
LEMMA ResetConfirms ==
  ASSUME ResetInv, Reset!Confirm
  PROVE  ResetInv'
  BY DEF Reset!Confirm, Reset!section, ResetInv, Reset!Targets, ResetJob, ResetGone

\* The removal goes on to another stage, or fails.
LEMMA ResetGoesOn ==
  ASSUME ResetInv, UNCHANGED <<v1, v4, v6, v10, v11, v13>>, DOMAIN v9' = DOMAIN v9,
         v9'.targets = v9.targets, v9'.ok => v9.ok /\ v9'.left = v9.left
  PROVE  ResetInv'
  BY DEF ResetInv, ResetJob, ResetGone

\* The window is closed before session data are removed.
LEMMA ResetCloses ==
  ASSUME ResetInv, Reset!CloseRenderer
  PROVE  ResetInv'
  BY ResetGoesOn DEF Reset!CloseRenderer, Reset!section, ResetInv, ResetJob

\* The backend cannot be stopped: nothing is removed, and the removal has failed.
LEMMA ResetStopFails ==
  ASSUME ResetInv, Reset!StopFails
  PROVE  ResetInv'
  BY ResetGoesOn DEF Reset!StopFails, Reset!page, Reset!section, ResetInv, ResetJob

\* Data go, and what was to go with the target is gone if there is no failure.
LEMMA ResetLoses ==
  ASSUME ResetInv, UNCHANGED <<v4, v6, v10, v11, v13>>, NEW gone, Reset!Removed(gone),
         DOMAIN v9' = DOMAIN v9, v9'.targets = v9.targets,
         v9'.ok => /\ v9.ok
                   /\ \A t \in v9.targets \ v9'.left :
                        t \in v9.left => ResetInside[t] \subseteq gone
  PROVE  ResetInv'
  BY ResetStays, ResetAssumption DEF ResetInv, ResetJob, Reset!Removed, ResetGone

\* A target is removed with all it holds.
LEMMA ResetRemoves ==
  ASSUME ResetInv, NEW c, Reset!Remove(c)
  PROVE  ResetInv'
  BY ResetLoses DEF Reset!Remove, Reset!page, Reset!section, ResetInv, ResetJob

\* A target is removed in part, and the removal has failed.
LEMMA ResetRemoveFails ==
  ASSUME ResetInv, NEW c, Reset!RemoveFails(c)
  PROVE  ResetInv'
  BY ResetLoses DEF Reset!RemoveFails, Reset!page, Reset!section, ResetInv, ResetJob

\* The marker names the targets of a removal that has removed them all.
LEMMA ResetFinishes ==
  ASSUME ResetInv, Reset!Finish
  PROVE  ResetInv'
  BY DEF Reset!Finish, Reset!page, Reset!section, ResetInv, ResetJob, ResetGone, Reset!Marked

\* In a new run data begin again, with its number.
LEMMA ResetOpens ==
  ASSUME ResetInv, Reset!EndAndStart
  PROVE  ResetInv'
<1>1. /\ UNCHANGED v10 /\ v4' = {} /\ v6' = {} /\ v9' = Reset!Idle /\ v11' = Reset!NoReset
      /\ v13' = v13 + 1
      /\ v1' = [c \in ResetCandidates |->
                  IF v1[c] > 0 \/ c \in ResetLasting THEN v1[c] ELSE v13 + 1]
  BY DEF Reset!EndAndStart, Reset!Opened
<1>2. v1 \in [ResetCandidates -> Nat] /\ v13 \in Nat /\ ResetGone(v10)
  BY DEF ResetInv
<1>3. v1' \in [ResetCandidates -> Nat] /\ v13' \in Nat /\ v13 < v13' /\ v13 <= v13'
  BY <1>1, <1>2
<1>4. \A c \in ResetCandidates : v1'[c] \in {v1[c], 0} \/ (v1'[c] = v13' /\ v13 < v13')
  BY <1>1, <1>2
<1>5. ResetGone(v10)'
  BY <1>1, <1>2, ResetStays DEF ResetGone
<1>6. ResetJob'
  BY <1>1 DEF ResetJob, Reset!Idle
<1>7. ResetGone(v11)'
  BY <1>1, <1>3 DEF ResetGone, Reset!NoReset
<1> QED
  BY <1>1, <1>5, <1>6, <1>7 DEF ResetInv

\* The notice is what the marker says.
LEMMA ResetConsumes ==
  ASSUME ResetInv, Reset!Consume
  PROVE  ResetInv'
  BY DEF Reset!Consume, Reset!page, Reset!section, ResetInv, ResetJob, ResetGone, Reset!NoReset

\* Every step of the removal of application data.
LEMMA ResetKeeps ==
  ASSUME ResetInv, Reset!Next \/ UNCHANGED Reset!vars
  PROVE  ResetInv'
  BY ResetSame, ResetConfirms, ResetCloses, ResetStopFails, ResetRemoves, ResetRemoveFails,
     ResetFinishes, ResetOpens, ResetConsumes
  DEF ResetInv, Reset!Exists, Reset!PathsArrive, Reset!PathsFail, Reset!RefreshPaths,
      Reset!Preset, Reset!OpenDialog, Reset!CloseDialog, Reset!ResultArrives, Reset!Toggle,
      Reset!vars, Reset!page, Reset!section, Reset!ExistingIds, Reset!Next

\* What is announced has been removed.
LEMMA ResetAnnounced == ResetInv => Reset!AnnouncedMeansRemoved
  BY DEF ResetInv, ResetGone, Reset!AnnouncedMeansRemoved

-----------------------------------------------------------------------------
(* What is announced. *)

SnackKeys == SnacksKeys \cup {SnacksNoKey}
SnackItems == [id : Nat, key : SnackKeys, message : Nat]
SnackEntries == [key : SnackKeys, message : Nat, count : Nat]

SnacksTyped ==
  /\ v1 \in Seq(SnackKeys) /\ v2 \in Nat /\ v2 <= Len(v1)
  /\ v3 \in Seq(SnackItems) /\ v4 \in Seq(SnackEntries)

\* Entries of the inbox are of messages, with their keys, and count no more than there were.
SnacksInbox ==
  \A i \in 1..Len(v4) : /\ v4[i].message \in 1..Len(v1) /\ v4[i].count \in 1..Len(v1)
                         /\ v1[v4[i].message] = v4[i].key

\* No two snacks show the same message.
SnacksBottom ==
  /\ \A i \in 1..Len(v3) : v3[i].message \in 1..Len(v1) /\ v3[i].id \in 1..Len(v1)
  /\ \A i, j \in 1..Len(v3) : i # j => v3[i].message # v3[j].message

SnacksInv ==
  /\ SnacksTyped /\ SnacksInbox /\ SnacksBottom
  /\ Snacks!InboxIsExact /\ Snacks!SnacksAreCurrent

\* Nothing has been announced yet.
LEMMA SnacksInit == Snacks!Init => SnacksInv
  BY SnacksAssumption
  DEF Snacks!Init, SnacksTyped, SnacksInbox, SnacksBottom, Snacks!InboxIsExact,
      Snacks!SnacksAreCurrent, Snacks!Messages, SnacksInv

\* The first entry with a key.
LEMMA SnacksPlace ==
  ASSUME NEW S, NEW entries \in Seq(S), NEW key, NEW at, at = Snacks!PlaceOf(entries, key)
  PROVE  \/ at = 0 /\ \A i \in 1..Len(entries) : key = SnacksNoKey \/ entries[i].key # key
         \/ at \in 1..Len(entries) /\ key # SnacksNoKey /\ entries[at].key = key
<1> DEFINE places == {i \in DOMAIN entries : key # SnacksNoKey /\ entries[i].key = key}
<1>1. at = IF places = {} THEN 0 ELSE CHOOSE i \in places : \A j \in places : i <= j
  BY DEF Snacks!PlaceOf
<1>2. DOMAIN entries = 1..Len(entries) /\ Len(entries) \in Nat
  OBVIOUS
<1>3. CASE places = {}
  BY <1>1, <1>3
<1>4. CASE places # {}
  <2>1. places \in SUBSET Nat
    BY <1>2
  <2> HIDE DEF places
  <2>2. \E i \in places : \A j \in places : i <= j
    BY <1>4, <2>1, HasLeast
  <2>3. at \in places
    BY <1>1, <2>2
  <2> QED
    BY <2>3 DEF places
<1> QED
  BY <1>3, <1>4

\* No later message has the key of this one, in the messages up to now.
LatestIn(log, m) ==
  log[m] = SnacksNoKey \/ \A later \in DOMAIN log : later > m => log[later] # log[m]

\* A further message is the latest with its key, and no other is.
LEMMA SnacksLatest ==
  ASSUME NEW log \in Seq(SnackKeys), NEW key \in SnackKeys
  PROVE  /\ Append(log, key) \in Seq(SnackKeys) /\ Len(Append(log, key)) = Len(log) + 1
         /\ Append(log, key)[Len(log) + 1] = key
         /\ LatestIn(Append(log, key), Len(log) + 1)
         /\ \A m \in 1..Len(log) :
              /\ Append(log, key)[m] = log[m]
              /\ LatestIn(Append(log, key), m) <=>
                   LatestIn(log, m) /\ (log[m] # key \/ key = SnacksNoKey)
<1> DEFINE next == Append(log, key)
<1>1. /\ next \in Seq(SnackKeys) /\ Len(next) = Len(log) + 1 /\ next[Len(log) + 1] = key
      /\ \A m \in 1..Len(log) : next[m] = log[m]
      /\ DOMAIN log = 1..Len(log) /\ DOMAIN next = 1..(Len(log) + 1) /\ Len(log) \in Nat
  OBVIOUS
<1> HIDE DEF next
<1>2. LatestIn(next, Len(log) + 1)
  BY <1>1 DEF LatestIn
<1>3. ASSUME NEW m \in 1..Len(log)
      PROVE  LatestIn(next, m) <=> LatestIn(log, m) /\ (log[m] # key \/ key = SnacksNoKey)
  BY <1>1 DEF LatestIn
<1> QED
  BY <1>2, <1>3 DEF next

\* Where the entries of the inbox stand after a message.
LEMMA SnacksKept ==
  ASSUME SnacksTyped, SnacksInbox, NEW key \in SnackKeys,
         v4' = Snacks!Kept(v4, key, Len(v1) + 1), Len(v4) <= SnacksMaxHistory
  PROVE  /\ v4' \in Seq(SnackEntries) /\ Len(v4') <= SnacksMaxHistory /\ Len(v4') >= 1
         /\ v4'[1].message = Len(v1) + 1 /\ v4'[1].key = key
         /\ v4'[1].count \in 1..(Len(v1) + 1)
         /\ \/ /\ \A i \in 1..Len(v4) : key = SnacksNoKey \/ v4[i].key # key
               /\ Len(v4') = Len(v4) + 1 \/ Len(v4') = SnacksMaxHistory
               /\ Len(v4') <= Len(v4) + 1
               /\ \A i \in 2..Len(v4') : v4'[i] = v4[i - 1]
            \/ \E at \in 1..Len(v4) :
                 /\ key # SnacksNoKey /\ v4[at].key = key /\ Len(v4') = Len(v4)
                 /\ \A i \in 2..at : v4'[i] = v4[i - 1]
                 /\ \A i \in (at + 1)..Len(v4) : v4'[i] = v4[i]
<1>1. PICK at : at = Snacks!PlaceOf(v4, key)
  OBVIOUS
<1>2. v4 \in Seq(SnackEntries) /\ Len(v4) \in Nat /\ Len(v1) \in Nat
  BY DEF SnacksTyped
<1>3. \/ at = 0 /\ \A i \in 1..Len(v4) : key = SnacksNoKey \/ v4[i].key # key
      \/ at \in 1..Len(v4) /\ key # SnacksNoKey /\ v4[at].key = key
  BY <1>1, <1>2, SnacksPlace
<1> DEFINE count == IF at = 0 THEN 1 ELSE v4[at].count + 1
           gap == IF at = 0 THEN Len(v4) + 1 ELSE at
           length == IF at = 0 THEN gap ELSE Len(v4)
           size == IF length < SnacksMaxHistory THEN length ELSE SnacksMaxHistory
           entry == [key |-> key, message |-> Len(v1) + 1, count |-> count]
<1>4. v4' = [i \in 1..size |-> IF i = 1 THEN entry ELSE IF i <= gap THEN v4[i - 1] ELSE v4[i]]
  BY <1>1 DEF Snacks!Kept
<1>5. count \in 1..(Len(v1) + 1)
  BY <1>3 DEF SnacksInbox
<1>6. /\ entry \in SnackEntries /\ entry.message = Len(v1) + 1 /\ entry.key = key
      /\ entry.count \in 1..(Len(v1) + 1)
  <2> HIDE DEF count
  <2> QED
    BY <1>5 DEF SnackEntries
<1> HIDE DEF entry, count
<1>7. size \in Nat /\ size >= 1 /\ size <= SnacksMaxHistory
  BY <1>3, SnacksAssumption
<1>8. CASE at = 0
  <2>1. gap = Len(v4) + 1 /\ (size = Len(v4) + 1 \/ size = SnacksMaxHistory) /\ size <= Len(v4) + 1
    BY <1>8, SnacksAssumption
  <2> HIDE DEF size, gap
  <2>2. \A i \in 1..size : i # 1 => i <= gap /\ i - 1 \in 1..Len(v4)
    BY <1>7, <2>1
  <2>3. /\ v4' \in Seq(SnackEntries) /\ Len(v4') = size /\ v4'[1] = entry
        /\ \A i \in 2..size : v4'[i] = v4[i - 1]
    BY <1>2, <1>6, <2>2, <1>4, <1>7
  <2> QED
    BY <1>3, <1>6, <1>7, <1>8, <2>1, <2>3
<1>9. CASE at # 0
  <2>1. gap = at /\ size = Len(v4) /\ at \in 1..Len(v4)
    BY <1>3, <1>9, SnacksAssumption
  <2> HIDE DEF size, gap
  <2>2. \A i \in 1..size : i # 1 => i - 1 \in 1..Len(v4) /\ i \in 1..Len(v4)
    BY <2>1
  <2>3. \A i \in 1..size : (IF i = 1 THEN entry ELSE IF i <= gap THEN v4[i - 1] ELSE v4[i])
                             \in SnackEntries
    BY <1>2, <1>6, <2>2
  <2>4. v4' \in Seq(SnackEntries) /\ Len(v4') = size
    BY <1>4, <1>7, <2>3
  <2>5. /\ \A i \in 2..at : i \in 1..size /\ i # 1 /\ i <= gap
        /\ \A i \in (at + 1)..size : i \in 1..size /\ i # 1 /\ ~(i <= gap)
        /\ 1 \in 1..size
    BY <2>1
  <2>6. v4'[1] = entry
    BY <1>4, <2>5
  <2>7. \A i \in 2..at : v4'[i] = v4[i - 1]
    BY <1>4, <2>5
  <2>8. \A i \in (at + 1)..size : v4'[i] = v4[i]
    BY <1>4, <2>5
  <2> QED
    BY <1>3, <1>6, <1>7, <1>9, <2>1, <2>4, <2>6, <2>7, <2>8
<1> QED
  BY <1>8, <1>9

\* The inbox is exact again after a message.
LEMMA SnacksInboxShows ==
  ASSUME SnacksInv, NEW key \in SnackKeys, v1' = Append(v1, key), v2' = v2,
         v4' = Snacks!Kept(v4, key, Len(v1) + 1)
  PROVE  v4' \in Seq(SnackEntries) /\ SnacksInbox' /\ Snacks!InboxIsExact'
<1> DEFINE n == Len(v1) + 1
           since == {m \in 1..Len(v1) : m > v2 /\ LatestIn(v1, m)}
           kept == {v4[i].message : i \in 1..Len(v4)}
<1>1. /\ v1 \in Seq(SnackKeys) /\ v4 \in Seq(SnackEntries) /\ Len(v1) \in Nat /\ Len(v4) \in Nat
      /\ v2 \in Nat /\ v2 <= Len(v1) /\ SnacksInbox
      /\ DOMAIN v4 = 1..Len(v4) /\ DOMAIN v1 = 1..Len(v1)
  BY DEF SnacksInv, SnacksTyped
<1>2. /\ Len(v4) <= SnacksMaxHistory /\ kept \subseteq since
      /\ \A i, j \in 1..Len(v4) : i < j => v4[j].message < v4[i].message
      /\ \A m \in since \ kept : Len(v4) = SnacksMaxHistory /\ \A k \in kept : m < k
  BY <1>1 DEF SnacksInv, Snacks!InboxIsExact, Snacks!Messages, Snacks!IsLatest, LatestIn
<1>3. /\ v1' \in Seq(SnackKeys) /\ Len(v1') = n /\ v1'[n] = key
      /\ LatestIn(v1', n)
      /\ \A m \in 1..Len(v1) :
           /\ v1'[m] = v1[m]
           /\ LatestIn(v1', m) <=> LatestIn(v1, m) /\ (v1[m] # key \/ key = SnacksNoKey)
  BY <1>1, SnacksLatest
<1>4. /\ v4' \in Seq(SnackEntries) /\ Len(v4') <= SnacksMaxHistory /\ Len(v4') >= 1
      /\ v4'[1].message = n /\ v4'[1].key = key /\ v4'[1].count \in 1..n
      /\ \/ /\ \A i \in 1..Len(v4) : key = SnacksNoKey \/ v4[i].key # key
            /\ Len(v4') = Len(v4) + 1 \/ Len(v4') = SnacksMaxHistory
            /\ Len(v4') <= Len(v4) + 1
            /\ \A i \in 2..Len(v4') : v4'[i] = v4[i - 1]
         \/ \E at \in 1..Len(v4) :
              /\ key # SnacksNoKey /\ v4[at].key = key /\ Len(v4') = Len(v4)
              /\ \A i \in 2..at : v4'[i] = v4[i - 1]
              /\ \A i \in (at + 1)..Len(v4) : v4'[i] = v4[i]
  BY <1>1, <1>2, SnacksKept DEF SnacksInv
<1>5. \A i \in 1..Len(v4) : /\ v4[i].message \in since /\ v4[i].message \in 1..Len(v1)
                            /\ v4[i].count \in 1..Len(v1)
                            /\ v1[v4[i].message] = v4[i].key
  BY <1>1, <1>2 DEF SnacksInbox
<1>6. /\ Len(v4') \in Nat /\ DOMAIN v4' = 1..Len(v4')
      /\ DOMAIN v1' = 1..n
  OBVIOUS
<1>7. ASSUME NEW m
      PROVE  m \in 1..n /\ m > v2 /\ LatestIn(v1', m) <=>
               m = n \/ (m \in since /\ (v1[m] # key \/ key = SnacksNoKey))
  <2>1. m \in 1..n <=> m \in 1..Len(v1) \/ m = n
    BY <1>1
  <2>2. n > v2 /\ n \notin 1..Len(v1)
    BY <1>1
  <2>3. m \in since <=> m \in 1..Len(v1) /\ m > v2 /\ LatestIn(v1, m)
    OBVIOUS
  <2> HIDE DEF since, n
  <2> QED
    BY <1>3, <2>2, <2>3
<1>8. \A i \in 2..Len(v4') : \E j \in 1..Len(v4) :
        v4'[i] = v4[j] /\ (key = SnacksNoKey \/ v4[j].key # key)
  <2>1. CASE /\ \A i \in 1..Len(v4) : key = SnacksNoKey \/ v4[i].key # key
             /\ Len(v4') <= Len(v4) + 1
             /\ \A i \in 2..Len(v4') : v4'[i] = v4[i - 1]
    BY <1>6, <2>1
  <2>2. ASSUME NEW at \in 1..Len(v4), key # SnacksNoKey, v4[at].key = key,
               Len(v4') = Len(v4),
               \A i \in 2..at : v4'[i] = v4[i - 1],
               \A i \in (at + 1)..Len(v4) : v4'[i] = v4[i],
               NEW i \in 2..Len(v4')
        PROVE  \E j \in 1..Len(v4) : v4'[i] = v4[j] /\ v4[j].key # key
    <3>1. \A j \in 1..Len(v4) : j # at => v4[j].key # key
      <4>1. SUFFICES ASSUME NEW j \in 1..Len(v4), j # at, v4[j].key = key PROVE FALSE
        OBVIOUS
      <4>2. v4[j].message # v4[at].message
        BY <1>5, <4>1, <1>2
      <4>3. /\ v4[j].message \in 1..Len(v1) /\ v4[at].message \in 1..Len(v1)
            /\ v1[v4[j].message] = key /\ v1[v4[at].message] = key
            /\ LatestIn(v1, v4[j].message) /\ LatestIn(v1, v4[at].message)
        BY <1>5, <2>2, <4>1
      <4> QED
        BY <2>2, <4>2, <4>3 DEF LatestIn
    <3>2. CASE i <= at
      <4>1. i \in 2..at /\ i - 1 \in 1..Len(v4) /\ i - 1 # at
        BY <3>2
      <4> QED
        BY <2>2, <3>1, <4>1
    <3>3. CASE i > at
      BY <2>2, <3>3, <3>1
    <3> QED
      BY <3>2, <3>3
  <2> QED
    BY <1>4, <2>1, <2>2
<1>9. SnacksInbox'
  <2>1. ASSUME NEW i \in 1..Len(v4')
        PROVE  /\ v4'[i].message \in 1..n /\ v4'[i].count \in 1..n
               /\ v1'[v4'[i].message] = v4'[i].key
    <3>1. CASE i = 1
      BY <1>4, <3>1
    <3>2. CASE i # 1
      BY <3>2, <1>8, <1>5, <1>3
    <3> QED
      BY <3>1, <3>2
  <2> QED
    BY <2>1 DEF SnacksInbox
<1>10. \A i \in 1..Len(v4') : i # 1 => i \in 2..Len(v4')
  BY <1>6
<1>11. \A i \in 1..Len(v4') : /\ v4'[i].message \in 1..n /\ v4'[i].message > v2
                              /\ LatestIn(v1', v4'[i].message)
  <2>1. ASSUME NEW i \in 1..Len(v4') PROVE v4'[i].message = n \/
          (v4'[i].message \in since /\ (v1[v4'[i].message] # key \/ key = SnacksNoKey))
    <3>1. CASE i = 1
      BY <1>4, <3>1
    <3>2. CASE i # 1
      BY <1>8, <1>10, <3>2, <1>5
    <3> QED
      BY <3>1, <3>2
  <2> HIDE DEF since, n
  <2> QED
    BY <1>7, <2>1
<1>12. \A i, j \in 1..Len(v4') : i < j => v4'[j].message < v4'[i].message
  <2>1. SUFFICES ASSUME NEW i \in 1..Len(v4'), NEW j \in 1..Len(v4'), i < j
                 PROVE  v4'[j].message < v4'[i].message
    OBVIOUS
  <2>2. j \in 2..Len(v4') /\ i \in Nat /\ j \in Nat
    BY <2>1
  <2>3. CASE i = 1
    BY <1>8, <2>2, <1>5, <1>1, <1>4, <2>3
  <2>4. CASE i # 1
    <3>1. i \in 2..Len(v4')
      BY <2>4
    <3>2. \E k, l \in 1..Len(v4) : k < l /\ v4'[i] = v4[k] /\ v4'[j] = v4[l]
      <4>1. CASE /\ Len(v4') <= Len(v4) + 1
                 /\ \A h \in 2..Len(v4') : v4'[h] = v4[h - 1]
        <5>1. i - 1 \in 1..Len(v4) /\ j - 1 \in 1..Len(v4) /\ i - 1 < j - 1
          BY <2>1, <3>1, <4>1
        <5> QED
          BY <2>2, <4>1, <5>1
      <4>2. ASSUME NEW at \in 1..Len(v4), Len(v4') = Len(v4),
                   \A h \in 2..at : v4'[h] = v4[h - 1],
                   \A h \in (at + 1)..Len(v4) : v4'[h] = v4[h]
            PROVE  \E k, l \in 1..Len(v4) : k < l /\ v4'[i] = v4[k] /\ v4'[j] = v4[l]
        <5>1. CASE j <= at
          <6>1. /\ i - 1 \in 1..Len(v4) /\ j - 1 \in 1..Len(v4) /\ i - 1 < j - 1
                /\ i \in 2..at /\ j \in 2..at
            BY <2>1, <3>1, <5>1
          <6> QED
            BY <4>2, <6>1
        <5>2. CASE i <= at /\ j > at
          <6>1. /\ i - 1 \in 1..Len(v4) /\ j \in 1..Len(v4) /\ i - 1 < j
                /\ i \in 2..at /\ j \in (at + 1)..Len(v4)
            BY <3>1, <4>2, <5>2
          <6> QED
            BY <4>2, <6>1
        <5>3. CASE i > at
          BY <2>1, <2>2, <4>2, <5>3
        <5> QED
          BY <5>1, <5>2, <5>3
      <4> QED
        BY <1>4, <4>1, <4>2
    <3> QED
      BY <1>2, <3>2
  <2> QED
    BY <2>3, <2>4
<1>13. ASSUME NEW m \in since, v1[m] # key \/ key = SnacksNoKey,
              \A i \in 1..Len(v4') : v4'[i].message # m
       PROVE  Len(v4') = SnacksMaxHistory /\ \A i \in 1..Len(v4') : m < v4'[i].message
  <2>1. m \in 1..Len(v1) /\ m < n
    BY <1>1
  <2>2. CASE m \notin kept
    <3>1. Len(v4) = SnacksMaxHistory /\ \A j \in 1..Len(v4) : m < v4[j].message
      BY <1>2, <2>2
    <3>2. Len(v4') = SnacksMaxHistory
      BY <1>4, <3>1
    <3>3. ASSUME NEW i \in 1..Len(v4') PROVE m < v4'[i].message
      <4>1. CASE i = 1
        BY <1>4, <4>1
      <4>2. CASE i # 1
        BY <1>8, <4>2, <3>1
      <4> QED
        BY <4>1, <4>2
    <3> QED
      BY <3>2, <3>3
  <2>3. CASE m \in kept
    <3>1. PICK j \in 1..Len(v4) : v4[j].message = m
      BY <2>3
    <3>2. key = SnacksNoKey \/ v4[j].key # key
      BY <1>5, <1>13, <3>1
    <3>3. CASE /\ Len(v4') = Len(v4) + 1 \/ Len(v4') = SnacksMaxHistory
               /\ Len(v4') <= Len(v4) + 1
               /\ \A i \in 2..Len(v4') : v4'[i] = v4[i - 1]
      <4>1. ~(j + 1 <= Len(v4'))
        BY <3>3, <1>13, <3>1
      <4>2. Len(v4') = SnacksMaxHistory
        BY <3>3, <4>1
      <4>3. ASSUME NEW i \in 1..Len(v4') PROVE m < v4'[i].message
        <5>1. CASE i = 1
          BY <1>4, <5>1
        <5>2. CASE i # 1
          <6>1. i \in 2..Len(v4') /\ i - 1 \in 1..Len(v4) /\ i - 1 < j
            BY <4>1, <5>2
          <6>2. v4'[i] = v4[i - 1]
            BY <3>3, <6>1
          <6> QED
            BY <1>2, <3>1, <6>1, <6>2
        <5> QED
          BY <5>1, <5>2
      <4> QED
        BY <4>2, <4>3
    <3>4. ASSUME NEW at \in 1..Len(v4), key # SnacksNoKey, v4[at].key = key,
                 Len(v4') = Len(v4),
                 \A h \in 2..at : v4'[h] = v4[h - 1],
                 \A h \in (at + 1)..Len(v4) : v4'[h] = v4[h]
          PROVE  FALSE
      <4>1. j # at
        BY <3>2, <3>4
      <4>2. CASE j < at
        <5>1. j + 1 \in 2..at /\ j + 1 \in 1..Len(v4') /\ j + 1 - 1 = j
          BY <3>4, <4>2
        <5>2. v4'[j + 1] = v4[j]
          BY <3>4, <5>1
        <5> QED
          BY <1>13, <3>1, <5>1, <5>2
      <4>3. CASE j > at
        BY <3>4, <4>3, <1>13, <3>1
      <4> QED
        BY <4>1, <4>2, <4>3
    <3> QED
      BY <1>4, <3>3, <3>4
  <2> QED
    BY <2>2, <2>3
<1> HIDE DEF since, kept, n
<1>14. Snacks!InboxIsExact'
  <2> DEFINE now == {m \in 1..n : m > v2' /\ LatestIn(v1', m)}
             left == {v4'[i].message : i \in 1..Len(v4')}
  <2>1. left \subseteq now
    BY <1>11
  <2>2. ASSUME NEW m \in now \ left
        PROVE  Len(v4') = SnacksMaxHistory /\ \A k \in left : m < k
    <3>1. \A i \in 1..Len(v4') : v4'[i].message # m
      OBVIOUS
    <3>2. m = n \/ (m \in since /\ (v1[m] # key \/ key = SnacksNoKey))
      BY <1>7
    <3>3. m # n
      BY <1>4
    <3>4. Len(v4') = SnacksMaxHistory /\ \A i \in 1..Len(v4') : m < v4'[i].message
      BY <1>13, <3>2, <3>3
    <3> QED
      BY <3>4
  <2>3. Len(v4') <= SnacksMaxHistory
    BY <1>4
  <2> QED
    BY <1>6, <1>12, <2>1, <2>2, <2>3
       DEF Snacks!InboxIsExact, Snacks!Messages, Snacks!IsLatest, LatestIn
<1> QED
  BY <1>4, <1>9, <1>14

\* A snack with its message, and the message that it was first shown with.
SnackIsCurrent(log, item) ==
  /\ item.message \in 1..Len(log) /\ item.id \in 1..Len(log)
  /\ log[item.message] = item.key
  /\ LatestIn(log, item.message)

\* The invariants of the bottom, snack by snack.
LEMMA SnacksCurrent ==
  ASSUME SnacksTyped
  PROVE  SnacksBottom /\ Snacks!SnacksAreCurrent <=>
           /\ Len(v3) <= SnacksMaxActive
           /\ \A i \in 1..Len(v3) : SnackIsCurrent(v1, v3[i])
           /\ \A i, j \in 1..Len(v3) : i # j => v3[i].message # v3[j].message
  BY DEF SnacksTyped, SnacksBottom, Snacks!SnacksAreCurrent, Snacks!IsLatest, Snacks!Messages,
         SnackIsCurrent, LatestIn

\* A message renews the snack with its key where it stands, or is put after the others, the
\* first of which may go.
LEMMA SnacksAdded ==
  ASSUME SnacksTyped, Len(v3) <= SnacksMaxActive, NEW key \in SnackKeys,
         v3' = Snacks!Added(v3, key, Len(v1) + 1)
  PROVE  /\ v3' \in Seq(SnackItems) /\ Len(v3') <= SnacksMaxActive
         /\ \/ /\ \A i \in 1..Len(v3) : key = SnacksNoKey \/ v3[i].key # key
               /\ \E d \in Nat : \A i \in 1..Len(v3') :
                    \/ i + d \in 1..Len(v3) /\ v3'[i] = v3[i + d]
                    \/ /\ i + d = Len(v3) + 1
                       /\ v3'[i].key = key /\ v3'[i].message = Len(v1) + 1
                       /\ v3'[i].id = Len(v1) + 1
            \/ \E at \in 1..Len(v3) :
                 /\ key # SnacksNoKey /\ v3[at].key = key /\ Len(v3') = Len(v3)
                 /\ v3'[at].key = key /\ v3'[at].message = Len(v1) + 1
                 /\ v3'[at].id = v3[at].id
                 /\ \A i \in 1..Len(v3) : i # at => v3'[i] = v3[i]
<1>1. PICK at : at = Snacks!PlaceOf(v3, key)
  OBVIOUS
<1>2. v3 \in Seq(SnackItems) /\ Len(v3) \in Nat /\ Len(v1) \in Nat
  BY DEF SnacksTyped
<1>3. \/ at = 0 /\ \A i \in 1..Len(v3) : key = SnacksNoKey \/ v3[i].key # key
      \/ at \in 1..Len(v3) /\ key # SnacksNoKey /\ v3[at].key = key
  BY <1>1, <1>2, SnacksPlace
<1>4. CASE at = 0
  <2> DEFINE item == [id |-> Len(v1) + 1, key |-> key, message |-> Len(v1) + 1]
             all == Append(v3, item)
             d == IF Len(all) < SnacksMaxActive THEN 0 ELSE Len(all) - SnacksMaxActive
  <2>1. /\ item \in SnackItems /\ item.key = key
        /\ item.message = Len(v1) + 1 /\ item.id = Len(v1) + 1
    BY DEF SnackItems
  <2> HIDE DEF item
  <2>2. /\ all \in Seq(SnackItems) /\ Len(all) = Len(v3) + 1 /\ all[Len(v3) + 1] = item
        /\ \A i \in 1..Len(v3) : all[i] = v3[i]
    BY <1>2, <2>1
  <2>3. v3' = SubSeq(all, IF Len(all) < SnacksMaxActive THEN 1
                          ELSE Len(all) - SnacksMaxActive + 1, Len(all))
    BY <1>1, <1>4 DEF Snacks!Added, Snacks!LastOf, item
  <2> HIDE DEF all
  <2>4. /\ d \in Nat /\ d <= Len(all) /\ Len(all) \in Nat
        /\ Len(all) - d <= SnacksMaxActive
        /\ d + 1 = IF Len(all) < SnacksMaxActive THEN 1 ELSE Len(all) - SnacksMaxActive + 1
    BY SnacksAssumption
  <2> HIDE DEF d
  <2>5. v3' = SubSeq(all, d + 1, Len(all))
    BY <2>3, <2>4
  <2>6. /\ SubSeq(all, d + 1, Len(all)) \in Seq(SnackItems)
        /\ Len(SubSeq(all, d + 1, Len(all))) = Len(all) - d
        /\ \A i \in 1..(Len(all) - d) : SubSeq(all, d + 1, Len(all))[i] = all[i + d]
    BY <2>2, <2>4
  <2>7. \A i \in 1..(Len(all) - d) : i + d \in 1..Len(v3) \/ i + d = Len(v3) + 1
    BY <2>2, <2>4
  <2>8. v3' \in Seq(SnackItems) /\ Len(v3') = Len(all) - d /\ Len(v3') <= SnacksMaxActive
    BY <2>4, <2>5, <2>6
  <2>9. \A i \in 1..Len(v3') :
          \/ i + d \in 1..Len(v3) /\ v3'[i] = v3[i + d]
          \/ i + d = Len(v3) + 1 /\ v3'[i] = item
    BY <2>2, <2>5, <2>6, <2>7, <2>8
  <2>10. \A i \in 1..Len(v3) : key = SnacksNoKey \/ v3[i].key # key
    BY <1>3, <1>4
  <2>11. \A i \in 1..Len(v3') :
           \/ i + d \in 1..Len(v3) /\ v3'[i] = v3[i + d]
           \/ /\ i + d = Len(v3) + 1
              /\ v3'[i].key = key /\ v3'[i].message = Len(v1) + 1
              /\ v3'[i].id = Len(v1) + 1
    BY <2>1, <2>9
  <2>12. d \in Nat
    BY <2>4
  <2> QED
    BY <2>8, <2>10, <2>11, <2>12, Zenon
<1>5. CASE at # 0
  <2>1. at \in 1..Len(v3) /\ key # SnacksNoKey /\ v3[at].key = key
    BY <1>3, <1>5
  <2>2. v3' = [v3 EXCEPT ![at].message = Len(v1) + 1]
    BY <1>1, <1>5 DEF Snacks!Added
  <2>3. v3[at] \in SnackItems /\ v3[at].key = key /\ Len(v1) + 1 \in Nat
    BY <1>2, <2>1
  <2>4. /\ [v3[at] EXCEPT !.message = Len(v1) + 1] \in SnackItems
        /\ [v3[at] EXCEPT !.message = Len(v1) + 1].message = Len(v1) + 1
        /\ [v3[at] EXCEPT !.message = Len(v1) + 1].key = key
        /\ [v3[at] EXCEPT !.message = Len(v1) + 1].id = v3[at].id
    BY <2>3 DEF SnackItems
  <2>5. v3' \in Seq(SnackItems) /\ Len(v3') = Len(v3)
    BY <1>2, <2>2, <2>4
  <2>6. /\ v3'[at] = [v3[at] EXCEPT !.message = Len(v1) + 1]
        /\ \A i \in 1..Len(v3) : i # at => v3'[i] = v3[i]
    BY <2>1, <2>2
  <2> QED
    BY <2>1, <2>4, <2>5, <2>6
<1> QED
  BY <1>4, <1>5

\* What stands at the bottom is current again after a message.
LEMMA SnacksBottomShows ==
  ASSUME SnacksInv, NEW key \in SnackKeys, v1' = Append(v1, key),
         v3' = Snacks!Added(v3, key, Len(v1) + 1)
  PROVE  /\ v3' \in Seq(SnackItems) /\ Len(v3') <= SnacksMaxActive
         /\ \A i \in 1..Len(v3') : SnackIsCurrent(v1', v3'[i])
         /\ \A i, j \in 1..Len(v3') : i # j => v3'[i].message # v3'[j].message
<1> DEFINE n == Len(v1) + 1
<1>1. /\ SnacksTyped /\ v1 \in Seq(SnackKeys) /\ v3 \in Seq(SnackItems)
      /\ Len(v1) \in Nat /\ Len(v3) \in Nat
  BY DEF SnacksInv, SnacksTyped
<1>2. /\ Len(v3) <= SnacksMaxActive
      /\ \A i \in 1..Len(v3) : SnackIsCurrent(v1, v3[i])
      /\ \A i, j \in 1..Len(v3) : i # j => v3[i].message # v3[j].message
  BY SnacksCurrent DEF SnacksInv
<1>3. /\ v1' \in Seq(SnackKeys) /\ Len(v1') = n /\ v1'[n] = key
      /\ LatestIn(v1', n)
      /\ \A m \in 1..Len(v1) :
           /\ v1'[m] = v1[m]
           /\ LatestIn(v1', m) <=> LatestIn(v1, m) /\ (v1[m] # key \/ key = SnacksNoKey)
  BY <1>1, SnacksLatest
<1>4. /\ v3' \in Seq(SnackItems) /\ Len(v3') <= SnacksMaxActive
      /\ \/ /\ \A i \in 1..Len(v3) : key = SnacksNoKey \/ v3[i].key # key
            /\ \E d \in Nat : \A i \in 1..Len(v3') :
                 \/ i + d \in 1..Len(v3) /\ v3'[i] = v3[i + d]
                 \/ /\ i + d = Len(v3) + 1
                    /\ v3'[i].key = key /\ v3'[i].message = Len(v1) + 1
                    /\ v3'[i].id = Len(v1) + 1
         \/ \E at \in 1..Len(v3) :
              /\ key # SnacksNoKey /\ v3[at].key = key /\ Len(v3') = Len(v3)
              /\ v3'[at].key = key /\ v3'[at].message = Len(v1) + 1
              /\ v3'[at].id = v3[at].id
              /\ \A i \in 1..Len(v3) : i # at => v3'[i] = v3[i]
  BY <1>1, <1>2, SnacksAdded, Zenon
<1>5. \A i \in 1..Len(v3) : /\ v3[i].message \in 1..Len(v1) /\ v3[i].message # n
                            /\ v3[i].id \in 1..Len(v1)
                            /\ v1[v3[i].message] = v3[i].key /\ LatestIn(v1, v3[i].message)
  BY <1>2 DEF SnackIsCurrent
<1>6. ASSUME NEW i \in 1..Len(v3), v3[i].key # key \/ key = SnacksNoKey
      PROVE  SnackIsCurrent(v1', v3[i])
  BY <1>3, <1>5, <1>6 DEF SnackIsCurrent
<1>7. ASSUME NEW item, item.key = key, item.message = n, item.id = n \/ item.id \in 1..Len(v1)
      PROVE  SnackIsCurrent(v1', item)
  BY <1>3, <1>7 DEF SnackIsCurrent
<1>8. Len(v3') \in Nat
  BY <1>4
<1>9. CASE /\ \A i \in 1..Len(v3) : key = SnacksNoKey \/ v3[i].key # key
           /\ \E d \in Nat : \A i \in 1..Len(v3') :
                \/ i + d \in 1..Len(v3) /\ v3'[i] = v3[i + d]
                \/ /\ i + d = Len(v3) + 1 /\ v3'[i].key = key
                   /\ v3'[i].message = n /\ v3'[i].id = n
  <2>1. PICK d \in Nat : \A i \in 1..Len(v3') :
          \/ i + d \in 1..Len(v3) /\ v3'[i] = v3[i + d]
          \/ /\ i + d = Len(v3) + 1 /\ v3'[i].key = key
             /\ v3'[i].message = n /\ v3'[i].id = n
    BY <1>9
  <2> HIDE DEF n
  <2>2. \A i \in 1..Len(v3') : SnackIsCurrent(v1', v3'[i])
    BY <1>6, <1>7, <1>9
  <2>3. ASSUME NEW i \in 1..Len(v3'), NEW j \in 1..Len(v3'), i # j
        PROVE  v3'[i].message # v3'[j].message
    <3>1. i + d # j + d /\ ~(i + d = Len(v3) + 1 /\ j + d = Len(v3) + 1)
      BY <2>3
    <3>2. /\ \/ i + d \in 1..Len(v3) /\ v3'[i] = v3[i + d]
             \/ i + d = Len(v3) + 1 /\ v3'[i].message = n
          /\ \/ j + d \in 1..Len(v3) /\ v3'[j] = v3[j + d]
             \/ j + d = Len(v3) + 1 /\ v3'[j].message = n
      BY <2>1
    <3>3. ASSUME NEW k \in 1..Len(v3) PROVE v3[k].message # n
      BY <1>5
    <3>4. CASE /\ i + d \in 1..Len(v3) /\ v3'[i] = v3[i + d]
               /\ j + d \in 1..Len(v3) /\ v3'[j] = v3[j + d]
      BY <1>2, <3>1, <3>4
    <3> QED
      BY <3>1, <3>2, <3>3, <3>4
  <2> QED
    BY <1>4, <2>2, <2>3
<1>10. ASSUME NEW at \in 1..Len(v3),
              key # SnacksNoKey, v3[at].key = key, Len(v3') = Len(v3),
              v3'[at].key = key, v3'[at].message = n, v3'[at].id = v3[at].id,
              \A i \in 1..Len(v3) : i # at => v3'[i] = v3[i]
       PROVE  /\ \A i \in 1..Len(v3') : SnackIsCurrent(v1', v3'[i])
              /\ \A i, j \in 1..Len(v3') : i # j => v3'[i].message # v3'[j].message
  <2> HIDE DEF n
  <2>1. \A i \in 1..Len(v3) : i # at => v3[i].key # key
    BY <1>2, <1>5, <1>10, <1>1 DEF LatestIn
  <2>2. \A i \in 1..Len(v3') : SnackIsCurrent(v1', v3'[i])
    BY <1>5, <1>6, <1>7, <1>10, <2>1
  <2>3. \A i \in 1..Len(v3') : i # at => v3'[i].message # n /\ v3'[i] = v3[i]
    BY <1>5, <1>10
  <2> QED
    BY <1>2, <1>10, <2>2, <2>3
<1> QED
  BY <1>4, <1>9, <1>10

\* A step of the bottom that shows no message: a snack may go.
LEMMA SnacksGo ==
  ASSUME SnacksInv, UNCHANGED <<v1, v2, v4>>, NEW id, v3' = Snacks!Without(id)
  PROVE  SnacksInv'
<1> DEFINE places == {i \in DOMAIN v3 : v3[i].id = id}
           at == CHOOSE i \in places : TRUE
<1>1. SnacksTyped /\ v3 \in Seq(SnackItems) /\ Len(v3) \in Nat /\ DOMAIN v3 = 1..Len(v3)
  BY DEF SnacksInv, SnacksTyped
<1>2. /\ Len(v3) <= SnacksMaxActive
      /\ \A i \in 1..Len(v3) : SnackIsCurrent(v1, v3[i])
      /\ \A i, j \in 1..Len(v3) : i # j => v3[i].message # v3[j].message
  BY SnacksCurrent DEF SnacksInv
<1>3. /\ v3' \in Seq(SnackItems) /\ Len(v3') <= Len(v3)
      /\ \A i \in 1..Len(v3') : \E k \in 1..Len(v3) : v3'[i] = v3[k]
      /\ \A i, j \in 1..Len(v3') :
           i < j => \E k, l \in 1..Len(v3) : k < l /\ v3'[i] = v3[k] /\ v3'[j] = v3[l]
  <2>1. CASE places = {}
    BY <2>1, <1>1 DEF Snacks!Without
  <2>2. CASE places # {}
    <3>1. at \in places
      BY <2>2
    <3>2. v3' = [i \in 1..(Len(v3) - 1) |-> IF i < at THEN v3[i] ELSE v3[i + 1]]
      BY <2>2 DEF Snacks!Without
    <3>3. at \in 1..Len(v3)
      BY <3>1
    <3> HIDE DEF at
    <3>4. \A i \in 1..(Len(v3) - 1) : i \in 1..Len(v3) /\ i + 1 \in 1..Len(v3)
      BY <1>1
    <3>5. Len(v3) - 1 \in Nat /\ \A i \in 1..(Len(v3) - 1) :
            (IF i < at THEN v3[i] ELSE v3[i + 1]) \in SnackItems
      BY <1>1, <3>3
    <3>6. v3' \in Seq(SnackItems) /\ Len(v3') = Len(v3) - 1
      BY <3>2, <3>5
    <3>7. \A i \in 1..Len(v3') : v3'[i] = IF i < at THEN v3[i] ELSE v3[i + 1]
      BY <3>2, <3>6
    <3>8. ASSUME NEW i \in 1..Len(v3'), NEW j \in 1..Len(v3'), i < j
          PROVE  \E k, l \in 1..Len(v3) : k < l /\ v3'[i] = v3[k] /\ v3'[j] = v3[l]
      <4>1. /\ i \in 1..Len(v3) /\ i + 1 \in 1..Len(v3)
            /\ j \in 1..Len(v3) /\ j + 1 \in 1..Len(v3)
            /\ i < j + 1 /\ i + 1 < j + 1
        BY <3>6, <3>8
      <4>2. CASE j < at
        BY <1>1, <3>3, <3>7, <3>8, <4>2
      <4>3. CASE i < at /\ ~(j < at)
        BY <3>7, <4>1, <4>3
      <4>4. CASE ~(i < at)
        BY <3>3, <3>7, <4>1, <4>4
      <4> QED
        BY <4>2, <4>3, <4>4
    <3>9. \A i \in 1..Len(v3') : \E k \in 1..Len(v3) : v3'[i] = v3[k]
      BY <3>6, <3>7
    <3> QED
      BY <3>6, <3>8, <3>9
  <2> QED
    BY <2>1, <2>2
<1> HIDE DEF places, at
<1>4. SnacksTyped'
  BY <1>1, <1>3 DEF SnacksTyped
<1>5. SnacksBottom' /\ Snacks!SnacksAreCurrent'
  <2>1. Len(v3') <= SnacksMaxActive
    BY <1>2, <1>3, SnacksAssumption
  <2>2. \A i \in 1..Len(v3') : SnackIsCurrent(v1', v3'[i])
    BY <1>2, <1>3
  <2>3. ASSUME NEW i \in 1..Len(v3'), NEW j \in 1..Len(v3'), i # j
        PROVE  v3'[i].message # v3'[j].message
    <3>1. i < j \/ j < i
      BY <2>3
    <3>2. \E k, l \in 1..Len(v3) : k # l /\ v3'[i] = v3[k] /\ v3'[j] = v3[l]
      <4>1. \A k, l \in 1..Len(v3) : k < l => k # l
        BY <1>1
      <4> QED
        BY <1>3, <3>1
    <3> QED
      BY <1>2, <3>2
  <2>4. DOMAIN v3' = 1..Len(v3') /\ DOMAIN v1 = 1..Len(v1)
    BY DEF SnacksTyped
  <2> QED
    BY <2>1, <2>2, <2>3
    DEF SnacksBottom, Snacks!SnacksAreCurrent, Snacks!IsLatest, Snacks!Messages, SnackIsCurrent,
        LatestIn
<1>6. SnacksInbox' /\ Snacks!InboxIsExact'
  BY DEF SnacksInv, SnacksInbox, Snacks!InboxIsExact, Snacks!IsLatest, Snacks!Messages
<1> QED
  BY <1>4, <1>5, <1>6 DEF SnacksInv

\* A message is announced.
LEMMA SnacksShow ==
  ASSUME SnacksInv, NEW key \in SnackKeys, Snacks!Show(key)
  PROVE  SnacksInv'
<1>1. /\ v1' = Append(v1, key) /\ v2' = v2 /\ v4' = Snacks!Kept(v4, key, Len(v1) + 1)
      /\ v3' = Snacks!Added(v3, key, Len(v1) + 1)
  BY DEF Snacks!Show
<1>2. v4' \in Seq(SnackEntries) /\ SnacksInbox' /\ Snacks!InboxIsExact'
  BY <1>1, SnacksInboxShows
<1>3. /\ v3' \in Seq(SnackItems) /\ Len(v3') <= SnacksMaxActive
      /\ \A i \in 1..Len(v3') : SnackIsCurrent(v1', v3'[i])
      /\ \A i, j \in 1..Len(v3') : i # j => v3'[i].message # v3'[j].message
  BY <1>1, SnacksBottomShows
<1>4. SnacksTyped'
  BY <1>1, <1>2, <1>3 DEF SnacksInv, SnacksTyped
<1>5. SnacksBottom' /\ Snacks!SnacksAreCurrent'
  <2>1. DOMAIN v3' = 1..Len(v3') /\ DOMAIN v1' = 1..Len(v1')
    BY DEF SnacksTyped
  <2> QED
    BY <1>3, <2>1
       DEF SnacksBottom, Snacks!SnacksAreCurrent, Snacks!IsLatest, Snacks!Messages,
           SnackIsCurrent, LatestIn
<1> QED
  BY <1>2, <1>4, <1>5 DEF SnacksInv

\* Emptying the inbox leaves nothing that is announced since.
LEMMA SnacksCleared ==
  ASSUME SnacksInv, Snacks!ClearInbox
  PROVE  SnacksInv'
  BY SnacksAssumption
  DEF Snacks!ClearInbox, SnacksInv, SnacksTyped, SnacksInbox, SnacksBottom,
      Snacks!SnacksAreCurrent, Snacks!IsLatest, Snacks!Messages, Snacks!InboxIsExact

\* Every step of the announcements.
LEMMA SnacksKeeps ==
  ASSUME SnacksInv, Snacks!Next \/ UNCHANGED Snacks!vars
  PROVE  SnacksInv'
<1>1. CASE UNCHANGED <<v1, v2, v3, v4>>
  BY <1>1 DEF SnacksInv, SnacksTyped, SnacksInbox, SnacksBottom, Snacks!InboxIsExact,
              Snacks!SnacksAreCurrent, Snacks!IsLatest, Snacks!Messages
<1>2. ASSUME NEW key \in SnacksKeys \cup {SnacksNoKey}, Snacks!Show(key) PROVE SnacksInv'
  BY <1>2, SnacksShow DEF SnackKeys
<1>3. ASSUME NEW t \in v6, Snacks!TimerEnds(t) PROVE SnacksInv'
  BY <1>3, SnacksGo DEF Snacks!TimerEnds
<1>4. ASSUME NEW i \in DOMAIN v3, Snacks!Dismiss(i) PROVE SnacksInv'
  BY <1>4, SnacksGo DEF Snacks!Dismiss
<1>5. CASE Snacks!SetTimers \/ Snacks!ToggleInbox \/ UNCHANGED Snacks!vars
  BY <1>1, <1>5 DEF Snacks!SetTimers, Snacks!ToggleInbox, Snacks!vars
<1> QED
  BY <1>2, <1>3, <1>4, <1>5, SnacksCleared DEF Snacks!Next

\* Announcements are true and are kept, however answers, timers and the ends of the application
\* come: the end of every rescan that was seen running is announced with its own numbers, a
\* reset only when what it was to remove is gone, and a message replaces those it supersedes
\* and can be read again in the inbox.
THEOREM AnnouncementsTrue == Spec => []AnnouncementsAreTrue
<1> DEFINE Inv == /\ screen = "rescan" => RescanInv
                  /\ screen = "reset" => ResetInv
                  /\ screen = "snackbar" => SnacksInv
<1>1. Init => Inv
  BY RescanInit, ResetInit, SnacksInit DEF Init
<1>2. Inv /\ [Next]_vars => Inv'
  BY OnePage, RescanKeeps, ResetKeeps, SnacksKeeps
<1>3. Inv => AnnouncementsAreTrue
  BY RescanNumbers, ResetAnnounced
     DEF RescanInv, RescanShows, SnacksInv, AnnouncementsAreTrue
<1> QED
  BY <1>1, <1>2, <1>3, PTL DEF Spec
-----------------------------------------------------------------------------
(* The Excel grid.  What is shown of a sheet are ranges, and a cell is     *)
(* shown if the point it is lies inside one of them.  Points are gathered  *)
(* into ranges, which only grow, so each stays inside some range.          *)
ExcelRange == [top : Nat, bottom : Nat, left : Nat, right : Nat]
ExcelInside(x, y) ==
  y.top <= x.top /\ x.bottom <= y.bottom /\ y.left <= x.left /\ x.right <= y.right
ExcelWithin(w) == {r \in ExcelRange : ExcelInside(r, w)}
ExcelCovered(x, ranges) == \E i \in 1..Len(ranges) : ExcelInside(x, ranges[i])

\* The smaller of two numbers.
LEMMA LeastOfTwo ==
  ASSUME NEW a \in Int, NEW b \in Int
  PROVE  /\ Excel!Least({a, b}) \in {a, b}
         /\ Excel!Least({a, b}) <= a /\ Excel!Least({a, b}) <= b
<1>1. \E x \in {a, b} : \A y \in {a, b} : x <= y
  OBVIOUS
<1> QED
  BY DEF Excel!Least

\* The greater of two numbers.
LEMMA GreatestOfTwo ==
  ASSUME NEW a \in Int, NEW b \in Int
  PROVE  /\ Excel!Greatest({a, b}) \in {a, b}
         /\ a <= Excel!Greatest({a, b}) /\ b <= Excel!Greatest({a, b})
<1>1. \E x \in {a, b} : \A y \in {a, b} : y <= x
  OBVIOUS
<1> QED
  BY DEF Excel!Greatest

\* A bounded set of numbers has a greatest one.
LEMMA HasGreatest ==
  ASSUME NEW b \in Nat, NEW T \in SUBSET (0..b), T # {}
  PROVE  Excel!Greatest(T) \in T /\ \A y \in T : y <= Excel!Greatest(T)
<1> DEFINE U == {n \in 0..b : b - n \in T}
<1>1. U \in SUBSET Nat /\ U # {}
  <2>1. PICK t \in T : TRUE
    OBVIOUS
  <2>2. t \in 0..b /\ b - t \in 0..b /\ b - (b - t) = t
    BY <2>1
  <2>3. b - t \in U
    OBVIOUS
  <2> QED
    BY <2>3
<1>2. PICK n \in U : \A m \in U : n <= m
  BY <1>1, HasLeast
<1>3. b - n \in T
  BY <1>2
<1>4. ASSUME NEW y \in T PROVE y <= b - n
  <2>1. y \in 0..b /\ b - y \in 0..b /\ b - (b - y) = y
    OBVIOUS
  <2>2. b - y \in U
    BY <2>1
  <2>3. n <= b - y /\ n \in 0..b
    BY <1>2, <2>2
  <2> QED
    BY <2>3
<1>5. \E x \in T : \A y \in T : y <= x
  BY <1>4
<1> QED
  BY <1>5 DEF Excel!Greatest

\* The hull of two ranges has both inside, and is inside what both are inside.
LEMMA HullHolds ==
  ASSUME NEW w, NEW x \in ExcelWithin(w), NEW y \in ExcelWithin(w), w \in ExcelRange
  PROVE  /\ Excel!Hull(x, y) \in ExcelWithin(w)
         /\ ExcelInside(x, Excel!Hull(x, y)) /\ ExcelInside(y, Excel!Hull(x, y))
<1> DEFINE h == Excel!Hull(x, y)
<1>1. x \in ExcelRange /\ y \in ExcelRange /\ ExcelInside(x, w) /\ ExcelInside(y, w)
  BY DEF ExcelWithin
<1>2. /\ {x.top, x.bottom, x.left, x.right} \subseteq Nat
      /\ {y.top, y.bottom, y.left, y.right} \subseteq Nat
  BY <1>1 DEF ExcelRange
<1>3. /\ h = [top |-> h.top, bottom |-> h.bottom, left |-> h.left, right |-> h.right]
      /\ h.top = Excel!Least({x.top, y.top}) /\ h.bottom = Excel!Greatest({x.bottom, y.bottom})
      /\ h.left = Excel!Least({x.left, y.left}) /\ h.right = Excel!Greatest({x.right, y.right})
  BY DEF Excel!Hull
<1> HIDE DEF h
<1>4. h.top \in {x.top, y.top} /\ h.top <= x.top /\ h.top <= y.top
  BY <1>2, <1>3, LeastOfTwo
<1>5. h.left \in {x.left, y.left} /\ h.left <= x.left /\ h.left <= y.left
  BY <1>2, <1>3, LeastOfTwo
<1>6. h.bottom \in {x.bottom, y.bottom} /\ x.bottom <= h.bottom /\ y.bottom <= h.bottom
  BY <1>2, <1>3, GreatestOfTwo
<1>7. h.right \in {x.right, y.right} /\ x.right <= h.right /\ y.right <= h.right
  BY <1>2, <1>3, GreatestOfTwo
<1>8. h \in ExcelRange
  BY <1>2, <1>3, <1>4, <1>5, <1>6, <1>7 DEF ExcelRange
<1>9. ExcelInside(x, h) /\ ExcelInside(y, h) /\ ExcelInside(h, w)
  BY <1>1, <1>4, <1>5, <1>6, <1>7 DEF ExcelInside
<1> QED
  BY <1>8, <1>9 DEF h, ExcelWithin

\* What lies inside a range lies inside every range that one lies inside.
LEMMA InsideInside ==
  ASSUME NEW x \in ExcelRange, NEW y \in ExcelRange, NEW z \in ExcelRange,
         ExcelInside(x, y), ExcelInside(y, z)
  PROVE  ExcelInside(x, z)
BY DEF ExcelInside, ExcelRange

\* A range that is absorbed is covered, and what was covered before still is.
LEMMA AbsorbCovers ==
  ASSUME NEW w \in ExcelRange, NEW ranges \in Seq(ExcelWithin(w)), NEW r \in ExcelWithin(w),
         NEW gap
  PROVE  LET grown == Excel!Absorb(ranges, r, gap)
         IN  /\ grown \in Seq(ExcelWithin(w)) /\ ExcelCovered(r, grown)
             /\ \A x \in ExcelRange : ExcelCovered(x, ranges) => ExcelCovered(x, grown)
<1> DEFINE grown == Excel!Absorb(ranges, r, gap)
           near == Excel!NearTo(ranges, r, gap)
<1>1. r \in ExcelRange /\ ExcelInside(r, r)
  BY DEF ExcelWithin, ExcelInside, ExcelRange
<1>2. Len(ranges) \in Nat /\ \A i \in 1..Len(ranges) : ranges[i] \in ExcelWithin(w)
  OBVIOUS
<1>3. near \in SUBSET (1..Len(ranges))
  BY DEF Excel!NearTo
<1>4. CASE near = {}
  <2>1. grown = Append(ranges, r)
    BY <1>4 DEF Excel!Absorb
  <2>2. /\ grown \in Seq(ExcelWithin(w)) /\ Len(grown) = Len(ranges) + 1
        /\ grown[Len(ranges) + 1] = r
        /\ \A i \in 1..Len(ranges) : grown[i] = ranges[i]
    BY <2>1
  <2>3. ExcelCovered(r, grown)
    BY <1>1, <2>2 DEF ExcelCovered
  <2>4. \A x \in ExcelRange : ExcelCovered(x, ranges) => ExcelCovered(x, grown)
    BY <2>2 DEF ExcelCovered
  <2> QED
    BY <2>2, <2>3, <2>4
<1>5. CASE near # {}
  <2> DEFINE k == Excel!Least(near)
             h == Excel!Hull(ranges[k], r)
  <2>1. k \in near
    BY <1>3, <1>5, HasLeast DEF Excel!Least
  <2>2. k \in 1..Len(ranges)
    BY <1>3, <2>1
  <2>3. grown = [ranges EXCEPT ![k] = h]
    BY <1>5 DEF Excel!Absorb
  <2>4. h \in ExcelWithin(w) /\ ExcelInside(ranges[k], h) /\ ExcelInside(r, h)
    BY <2>2, HullHolds
  <2> HIDE DEF k, h, near, grown
  <2>5. /\ grown \in Seq(ExcelWithin(w)) /\ Len(grown) = Len(ranges) /\ grown[k] = h
        /\ \A i \in 1..Len(ranges) : i # k => grown[i] = ranges[i]
    BY <2>2, <2>3, <2>4
  <2>6. ExcelCovered(r, grown)
    BY <2>2, <2>4, <2>5 DEF ExcelCovered
  <2>7. ASSUME NEW x \in ExcelRange, ExcelCovered(x, ranges) PROVE ExcelCovered(x, grown)
    BY <2>7, <2>4, InsideInside, <2>5 DEF ExcelCovered, ExcelWithin
  <2> QED
    BY <2>5, <2>6, <2>7 DEF grown
<1> QED
  BY <1>4, <1>5

\* Gathering one range after the other is a function on the numbers of ranges.
LEMMA GatheredStepwise ==
  ASSUME NEW ranges, NEW gap, Len(ranges) \in Nat
  PROVE  \E f : /\ DOMAIN f = 0..Len(ranges) /\ f[0] = <<>>
                /\ \A n \in 1..Len(ranges) : f[n] = Excel!Absorb(f[n - 1], ranges[n], gap)
                /\ Excel!Gathered(ranges, gap) = f[Len(ranges)]
<1> DEFINE Upto(f, m) ==
             f = [n \in 0..m |->
                    IF n = 0 THEN <<>> ELSE Excel!Absorb(f[n - 1], ranges[n], gap)]
           bad == {m \in Nat : ~ \E f : Upto(f, m)}
           all == CHOOSE f : Upto(f, Len(ranges))
<1>1. bad = {}
  <2> SUFFICES ASSUME bad # {} PROVE FALSE
    OBVIOUS
  <2>1. PICK m \in bad : \A k \in bad : m <= k
    BY HasLeast
  <2>2. m \in Nat /\ ~ \E f : Upto(f, m)
    BY <2>1
  <2>3. m # 0
    <3>1. Upto([n \in 0..0 |-> <<>>], 0)
      OBVIOUS
    <3> QED
      BY <2>2, <3>1
  <2>4. m - 1 \in Nat /\ m - 1 \notin bad
    <3> DEFINE k == m - 1
    <3>1. k \in Nat /\ ~ (m <= k)
      BY <2>3
    <3> HIDE DEF k, bad
    <3>2. k \notin bad
      BY <2>1, <3>1
    <3> QED
      BY <3>1, <3>2 DEF k
  <2>5. PICK f : Upto(f, m - 1)
    <3> HIDE DEF Upto
    <3>1. \E f : Upto(f, m - 1)
      BY <2>4
    <3> QED
      BY <3>1
  <2> DEFINE g == [n \in 0..m |->
                     IF n = m THEN Excel!Absorb(f[m - 1], ranges[m], gap) ELSE f[n]]
  <2>6. ASSUME NEW n \in 0..m
        PROVE  g[n] = IF n = 0 THEN <<>> ELSE Excel!Absorb(g[n - 1], ranges[n], gap)
    BY <2>3, <2>5
  <2>7. Upto(g, m)
    <3> HIDE DEF Upto
    <3>1. Upto(g, m) <=>
            g = [n \in 0..m |->
                   IF n = 0 THEN <<>> ELSE Excel!Absorb(g[n - 1], ranges[n], gap)]
      BY DEF Upto
    <3>2. DOMAIN g = 0..m /\ g = [n \in 0..m |-> g[n]]
      OBVIOUS
    <3> HIDE DEF g
    <3> QED
      BY <2>6, <3>1, <3>2
  <2> QED
    BY <2>2, <2>7
<1>2. Upto(all, Len(ranges))
  <2>1. \E f : Upto(f, Len(ranges))
    BY <1>1
  <2> HIDE DEF Upto
  <2> QED
    BY <2>1
<1>3. Excel!Gathered(ranges, gap) = all[Len(ranges)]
  BY DEF Excel!Gathered
<1> HIDE DEF all
<1>4. /\ DOMAIN all = 0..Len(ranges) /\ all[0] = <<>>
      /\ \A n \in 1..Len(ranges) : all[n] = Excel!Absorb(all[n - 1], ranges[n], gap)
  BY <1>2
<1> QED
  BY <1>3, <1>4

\* Gathered ranges cover each of those they are made of, and stay in the same bounds.
LEMMA GatheredCovers ==
  ASSUME NEW w \in ExcelRange, NEW ranges \in Seq(ExcelWithin(w)), NEW gap
  PROVE  /\ Excel!Gathered(ranges, gap) \in Seq(ExcelWithin(w))
         /\ \A x \in ExcelRange :
              ExcelCovered(x, ranges) => ExcelCovered(x, Excel!Gathered(ranges, gap))
<1>1. Len(ranges) \in Nat /\ \A i \in 1..Len(ranges) : ranges[i] \in ExcelWithin(w)
  OBVIOUS
<1>2. PICK f : /\ DOMAIN f = 0..Len(ranges) /\ f[0] = <<>>
               /\ \A n \in 1..Len(ranges) : f[n] = Excel!Absorb(f[n - 1], ranges[n], gap)
               /\ Excel!Gathered(ranges, gap) = f[Len(ranges)]
  BY <1>1, GatheredStepwise
<1> DEFINE Good(n) ==
             /\ f[n] \in Seq(ExcelWithin(w))
             /\ \A i \in 1..n : \A x \in ExcelRange :
                  ExcelInside(x, ranges[i]) => ExcelCovered(x, f[n])
           bad == {n \in 0..Len(ranges) : ~ Good(n)}
<1>3. bad = {}
  <2> SUFFICES ASSUME bad # {} PROVE FALSE
    OBVIOUS
  <2>1. bad \in SUBSET Nat
    BY <1>1
  <2>2. PICK n \in bad : \A k \in bad : n <= k
    BY <2>1, HasLeast
  <2>3. n \in 0..Len(ranges) /\ ~ Good(n)
    BY <2>2
  <2>4. n # 0
    <3>1. f[0] \in Seq(ExcelWithin(w)) /\ 1..0 = {}
      BY <1>2
    <3>2. Good(0)
      BY <3>1
    <3> QED
      BY <3>2
  <2>5. n - 1 \in 0..Len(ranges) /\ n \in 1..Len(ranges) /\ n - 1 \notin bad
    BY <2>2, <2>4
  <2>6. Good(n - 1)
    BY <2>5
  <2>7. f[n] = Excel!Absorb(f[n - 1], ranges[n], gap) /\ ranges[n] \in ExcelWithin(w)
    BY <1>2, <2>5
  <2>8. /\ f[n] \in Seq(ExcelWithin(w)) /\ ExcelCovered(ranges[n], f[n])
        /\ \A x \in ExcelRange : ExcelCovered(x, f[n - 1]) => ExcelCovered(x, f[n])
    BY <2>6, <2>7, AbsorbCovers
  <2>9. ASSUME NEW i \in 1..n, NEW x \in ExcelRange, ExcelInside(x, ranges[i])
        PROVE  ExcelCovered(x, f[n])
    <3>1. CASE i = n
      BY <2>8, <2>9, <3>1, InsideInside DEF ExcelCovered, ExcelWithin
    <3>2. CASE i # n
      BY <2>5, <3>2, <2>8, <2>9
    <3> QED
      BY <3>1, <3>2
  <2> QED
    BY <2>8, <2>9
<1>4. Good(Len(ranges))
  BY <1>3
<1> QED
  BY <1>2, <1>4 DEF ExcelCovered

-----------------------------------------------------------------------------
(* The cells of the workbook, in their order. *)
ExcelSheetCells(s) == {s} \X (1..ExcelRows[s]) \X (1..ExcelColumns[s])

\* The cardinality of the instance is that of the library.
LEMMA ExcelCounts == \A S : Excel!Cardinality(S) = Cardinality(S)
  BY Zenon DEF Excel!Cardinality, Cardinality

\* An initial interval of the numbers is finite.
LEMMA IntervalIsFinite == \A n \in Nat : IsFiniteSet(1..n)
<1> TAKE n \in Nat
<1>1. 1 \in Int /\ n \in Int
  OBVIOUS
<1> QED
  BY FS_Interval

\* A cell is of one sheet, and within its bounds.
LEMMA CellsAre ==
  /\ Len(ExcelSheets) \in Nat \ {0} /\ DOMAIN ExcelSheets = 1..Len(ExcelSheets)
  /\ Excel!Cells = UNION {ExcelSheetCells(ExcelSheets[n]) : n \in 1..Len(ExcelSheets)}
  /\ \A s \in Excel!Range(ExcelSheets) : ExcelRows[s] \in Nat \ {0} /\ ExcelColumns[s] \in Nat \ {0}
  /\ \A c \in Excel!Cells :
       /\ c = <<c[1], c[2], c[3]>> /\ c[1] \in Excel!Range(ExcelSheets)
       /\ c[2] \in 1..ExcelRows[c[1]] /\ c[3] \in 1..ExcelColumns[c[1]]
<1>1. /\ Len(ExcelSheets) \in Nat \ {0} /\ DOMAIN ExcelSheets = 1..Len(ExcelSheets)
  BY ExcelAssumption
<1>2. Excel!Range(ExcelSheets) = {ExcelSheets[n] : n \in 1..Len(ExcelSheets)}
  BY <1>1 DEF Excel!Range
<1>3. Excel!Cells = UNION {ExcelSheetCells(s) : s \in Excel!Range(ExcelSheets)}
  BY DEF Excel!Cells, ExcelSheetCells
<1>4. Excel!Cells = UNION {ExcelSheetCells(ExcelSheets[n]) : n \in 1..Len(ExcelSheets)}
  BY <1>2, <1>3
<1>5. \A s \in Excel!Range(ExcelSheets) :
        ExcelRows[s] \in Nat \ {0} /\ ExcelColumns[s] \in Nat \ {0}
  BY <1>2, ExcelAssumption
<1>6. ASSUME NEW c \in Excel!Cells
      PROVE  /\ c = <<c[1], c[2], c[3]>> /\ c[1] \in Excel!Range(ExcelSheets)
             /\ c[2] \in 1..ExcelRows[c[1]] /\ c[3] \in 1..ExcelColumns[c[1]]
  BY <1>3 DEF ExcelSheetCells
<1> QED
  BY <1>1, <1>4, <1>5, <1>6

\* A workbook has finitely many cells.
LEMMA CellsAreFinite == IsFiniteSet(Excel!Cells)
<1> DEFINE all == {ExcelSheetCells(ExcelSheets[n]) : n \in 1..Len(ExcelSheets)}
<1>1. IsFiniteSet(all)
  <2> DEFINE f == [n \in 1..Len(ExcelSheets) |-> ExcelSheetCells(ExcelSheets[n])]
  <2>1. f \in Surjection(1..Len(ExcelSheets), all)
    BY DEF Surjection
  <2>2. IsFiniteSet(1..Len(ExcelSheets))
    BY IntervalIsFinite
  <2> HIDE DEF f
  <2> QED
    BY <2>1, <2>2, FS_Surjection
<1>2. ASSUME NEW n \in 1..Len(ExcelSheets)
      PROVE  IsFiniteSet(ExcelSheetCells(ExcelSheets[n]))
  <2> DEFINE s == ExcelSheets[n]
             rows == 1..ExcelRows[s]
             columns == 1..ExcelColumns[s]
             f == [p \in rows \X columns |-> <<s, p[1], p[2]>>]
  <2>1. ExcelRows[s] \in Nat \ {0} /\ ExcelColumns[s] \in Nat \ {0}
    BY ExcelAssumption
  <2>2. IsFiniteSet(rows) /\ IsFiniteSet(columns)
    BY <2>1, IntervalIsFinite
  <2>3. IsFiniteSet(rows \X columns)
    BY <2>2, FS_Product
  <2>4. f \in Surjection(rows \X columns, ExcelSheetCells(s))
    <3> HIDE DEF s, rows, columns
    <3>1. f \in [rows \X columns -> ExcelSheetCells(s)]
      BY DEF ExcelSheetCells, rows, columns
    <3>2. \A c \in ExcelSheetCells(s) : \E p \in rows \X columns : f[p] = c
      <4> TAKE c \in ExcelSheetCells(s)
      <4>1. c = <<s, c[2], c[3]>> /\ <<c[2], c[3]>> \in rows \X columns
        BY DEF ExcelSheetCells, rows, columns
      <4>2. f[<<c[2], c[3]>>] = c
        BY <4>1
      <4> QED
        BY <4>1
    <3> QED
      BY <3>1, <3>2 DEF Surjection
  <2> HIDE DEF f, s, rows, columns
  <2>5. IsFiniteSet(ExcelSheetCells(s))
    BY <2>3, <2>4, FS_Surjection
  <2> QED
    BY <2>5 DEF s
<1>3. \A T \in all : IsFiniteSet(T)
  BY <1>2
<1> HIDE DEF all
<1>4. IsFiniteSet(UNION all)
  BY <1>1, <1>3, FS_UNION
<1> QED
  BY <1>4, CellsAre DEF all

\* A sheet has one place.
LEMMA PlacesAre ==
  \A s \in Excel!Range(ExcelSheets) :
    Excel!Place(s) \in 1..Len(ExcelSheets) /\ ExcelSheets[Excel!Place(s)] = s
BY CellsAre DEF Excel!Place, Excel!Range

\* The order of the cells is linear.
LEMMA BeforeIsLinear ==
  ASSUME NEW c \in Excel!Cells, NEW d \in Excel!Cells
  PROVE  /\ ~ Excel!Before(c, c)
         /\ c # d => Excel!Before(c, d) \/ Excel!Before(d, c)
         /\ \A e \in Excel!Cells :
              Excel!Before(c, d) /\ Excel!Before(d, e) => Excel!Before(c, e)
<1>1. \A e \in Excel!Cells :
        /\ e = <<e[1], e[2], e[3]>> /\ e[2] \in Nat /\ e[3] \in Nat
        /\ Excel!Place(e[1]) \in Nat /\ ExcelSheets[Excel!Place(e[1])] = e[1]
  BY CellsAre, PlacesAre
<1>2. ~ Excel!Before(c, c)
  BY <1>1 DEF Excel!Before
<1>3. ASSUME c # d PROVE Excel!Before(c, d) \/ Excel!Before(d, c)
  BY <1>1, <1>3 DEF Excel!Before
<1>4. ASSUME NEW e \in Excel!Cells, Excel!Before(c, d), Excel!Before(d, e)
      PROVE  Excel!Before(c, e)
  BY <1>1, <1>4 DEF Excel!Before
<1> QED
  BY <1>2, <1>3, <1>4

\* A set of cells is put in order: each of them has its place, and nothing else has one.
LEMMA SortedIs ==
  ASSUME NEW S \in SUBSET Excel!Cells
  PROVE  /\ Excel!Sorted(S) \in Seq(S)
         /\ \A c \in S : \E n \in 1..Len(Excel!Sorted(S)) : Excel!Sorted(S)[n] = c
<1> DEFINE before(c) == {d \in S : Excel!Before(d, c)}
           rank == [c \in S |-> Excel!Cardinality(before(c))]
           count == Excel!Cardinality(S)
           sorted == [n \in 1..count |-> CHOOSE c \in S : rank[c] = n - 1]
<1>1. Excel!Sorted(S) = sorted
  BY DEF Excel!Sorted
<1>2. IsFiniteSet(S) /\ count = Cardinality(S) /\ count \in Nat
  BY CellsAreFinite, ExcelCounts, FS_Subset, FS_CardinalityType
<1>3. ASSUME NEW c \in S
      PROVE  IsFiniteSet(before(c)) /\ Cardinality(before(c)) \in 0..(count - 1)
  <2>1. before(c) \in SUBSET S /\ c \notin before(c)
    BY BeforeIsLinear
  <2> HIDE DEF before
  <2>2. /\ IsFiniteSet(before(c)) /\ Cardinality(before(c)) <= count
        /\ count = Cardinality(before(c)) => S = before(c)
    BY <1>2, <2>1, FS_Subset
  <2>3. Cardinality(before(c)) \in Nat
    BY <2>2, FS_CardinalityType
  <2>4. Cardinality(before(c)) # count
    BY <2>1, <2>2
  <2> QED
    BY <1>2, <2>2, <2>3, <2>4
<1>4. ASSUME NEW c \in S, NEW d \in S, Excel!Before(c, d)
      PROVE  rank[c] # rank[d]
  <2>1. before(c) \in SUBSET before(d)
    BY <1>4, BeforeIsLinear
  <2>2. c \in before(d) /\ c \notin before(c)
    BY <1>4, BeforeIsLinear
  <2>3. IsFiniteSet(before(d))
    BY <1>3
  <2>4. rank[c] = Cardinality(before(c)) /\ rank[d] = Cardinality(before(d))
    BY ExcelCounts
  <2> HIDE DEF before, rank
  <2>5. Cardinality(before(c)) # Cardinality(before(d))
    BY <2>1, <2>2, <2>3, FS_Subset
  <2> QED
    BY <2>4, <2>5
<1>5. rank \in Injection(S, 0..(count - 1))
  <2>1. rank \in [S -> 0..(count - 1)]
    BY <1>3, ExcelCounts
  <2>2. \A c, d \in S : rank[c] = rank[d] => c = d
    <3> HIDE DEF rank
    <3> QED
      BY <1>4, BeforeIsLinear
  <2> HIDE DEF rank
  <2> QED
    BY <2>1, <2>2 DEF Injection, IsInjective
<1>6. IsFiniteSet(0..(count - 1)) /\ Cardinality(0..(count - 1)) = count
  <2>1. 0 \in Int /\ count - 1 \in Int
    BY <1>2
  <2>2. /\ IsFiniteSet(0..(count - 1))
        /\ Cardinality(0..(count - 1)) = IF 0 > count - 1 THEN 0 ELSE count - 1 - 0 + 1
    BY <2>1, FS_Interval
  <2> HIDE DEF count
  <2> QED
    BY <1>2, <2>2
<1> HIDE DEF rank
<1>7. rank \in Surjection(S, 0..(count - 1))
  BY <1>2, <1>5, <1>6, FS_Injection
<1> HIDE DEF count
<1>8. ASSUME NEW n \in 1..count PROVE sorted[n] \in S /\ rank[sorted[n]] = n - 1
  <2>1. n - 1 \in 0..(count - 1)
    BY <1>2
  <2>2. \E c \in S : rank[c] = n - 1
    BY <1>7, <2>1 DEF Surjection
  <2>3. sorted[n] = CHOOSE c \in S : rank[c] = n - 1
    OBVIOUS
  <2> HIDE DEF sorted
  <2> QED
    BY <2>2, <2>3
<1>9. sorted \in Seq(S) /\ Len(sorted) = count
  <2>1. sorted \in [1..count -> S]
    BY <1>8
  <2> HIDE DEF sorted
  <2> QED
    BY <1>2, <2>1
<1>10. ASSUME NEW c \in S PROVE \E n \in 1..count : sorted[n] = c
  <2>1. rank[c] \in 0..(count - 1) /\ \A d \in S : rank[c] = rank[d] => c = d
    BY <1>5 DEF Injection, IsInjective
  <2>2. rank[c] + 1 \in 1..count /\ rank[c] + 1 - 1 = rank[c]
    BY <1>2, <2>1
  <2> HIDE DEF sorted
  <2>3. sorted[rank[c] + 1] = c
    BY <1>8, <2>1, <2>2
  <2> QED
    BY <2>2, <2>3
<1> QED
  BY <1>1, <1>9, <1>10

-----------------------------------------------------------------------------
(* The ranges that are shown of a sheet. *)
ExcelCellsOf(s) == {d \in Excel!Cells : d[1] = s}

\* A whole sheet is a range, and has all of its cells inside.
LEMMA WholeIs ==
  ASSUME NEW s \in Excel!Range(ExcelSheets)
  PROVE  /\ Excel!Whole(s) \in ExcelRange /\ Excel!Whole(s) \in ExcelWithin(Excel!Whole(s))
         /\ \A c \in ExcelCellsOf(s) : Excel!Point(c) \in ExcelWithin(Excel!Whole(s))
  BY CellsAre DEF Excel!Whole, ExcelRange, ExcelWithin, ExcelInside, ExcelCellsOf, Excel!Point

\* A widened range stays in its sheet, and holds what it held of the sheet before.
LEMMA WidenedHolds ==
  ASSUME NEW s \in Excel!Range(ExcelSheets), NEW r \in ExcelRange
  PROVE  /\ Excel!Widened(r, s) \in ExcelWithin(Excel!Whole(s))
         /\ \A x \in ExcelWithin(Excel!Whole(s)) :
              ExcelInside(x, r) => ExcelInside(x, Excel!Widened(r, s))
<1> DEFINE w == Excel!Widened(r, s)
<1>1. /\ ExcelRows[s] \in Nat /\ ExcelColumns[s] \in Nat /\ ExcelBuffer \in Nat
      /\ {r.top, r.bottom, r.left, r.right} \subseteq Nat
  BY CellsAre, ExcelAssumption DEF ExcelRange
<1>2. /\ w = [top |-> w.top, bottom |-> w.bottom, left |-> w.left, right |-> w.right]
      /\ w.top = Excel!Greatest({1, r.top - ExcelBuffer})
      /\ w.bottom = Excel!Least({ExcelRows[s], r.bottom + ExcelBuffer})
      /\ w.left = Excel!Greatest({1, r.left - ExcelBuffer})
      /\ w.right = Excel!Least({ExcelColumns[s], r.right + ExcelBuffer})
  BY DEF Excel!Widened
<1> HIDE DEF w
<1>3. /\ r.top - ExcelBuffer \in Int /\ r.left - ExcelBuffer \in Int
      /\ r.bottom + ExcelBuffer \in Nat /\ r.right + ExcelBuffer \in Nat
      /\ r.top - ExcelBuffer <= r.top /\ r.left - ExcelBuffer <= r.left
      /\ r.bottom <= r.bottom + ExcelBuffer /\ r.right <= r.right + ExcelBuffer
  BY <1>1
<1>4. w.top \in {1, r.top - ExcelBuffer} /\ 1 <= w.top
  <2> DEFINE x == 1
             y == r.top - ExcelBuffer
  <2>1. x \in Int /\ y \in Int /\ w.top = Excel!Greatest({x, y})
    BY <1>2, <1>3
  <2> HIDE DEF x, y
  <2>2. w.top \in {x, y} /\ x <= w.top
    BY <2>1, GreatestOfTwo
  <2> QED
    BY <2>2 DEF x, y
<1>5. w.left \in {1, r.left - ExcelBuffer} /\ 1 <= w.left
  <2> DEFINE x == 1
             y == r.left - ExcelBuffer
  <2>1. x \in Int /\ y \in Int /\ w.left = Excel!Greatest({x, y})
    BY <1>2, <1>3
  <2> HIDE DEF x, y
  <2>2. w.left \in {x, y} /\ x <= w.left
    BY <2>1, GreatestOfTwo
  <2> QED
    BY <2>2 DEF x, y
<1>6. w.bottom \in {ExcelRows[s], r.bottom + ExcelBuffer} /\ w.bottom <= ExcelRows[s]
  <2> DEFINE a == ExcelRows[s]
             b == r.bottom + ExcelBuffer
  <2>1. a \in Int /\ b \in Int /\ w.bottom = Excel!Least({a, b})
    BY <1>1, <1>2
  <2> HIDE DEF a, b
  <2>2. w.bottom \in {a, b} /\ w.bottom <= a
    BY <2>1, LeastOfTwo
  <2> QED
    BY <2>2 DEF a, b
<1>7. w.right \in {ExcelColumns[s], r.right + ExcelBuffer} /\ w.right <= ExcelColumns[s]
  <2> DEFINE a == ExcelColumns[s]
             b == r.right + ExcelBuffer
  <2>1. a \in Int /\ b \in Int /\ w.right = Excel!Least({a, b})
    BY <1>1, <1>2
  <2> HIDE DEF a, b
  <2>2. w.right \in {a, b} /\ w.right <= a
    BY <2>1, LeastOfTwo
  <2> QED
    BY <2>2 DEF a, b
<1>8. w \in ExcelRange
  BY <1>1, <1>4, <1>5, <1>6, <1>7, <1>2 DEF ExcelRange
<1>9. ExcelInside(w, Excel!Whole(s))
  BY <1>4, <1>5, <1>6, <1>7 DEF ExcelInside, Excel!Whole
<1>10. ASSUME NEW x \in ExcelWithin(Excel!Whole(s)), ExcelInside(x, r)
       PROVE  ExcelInside(x, w)
  BY <1>10, <1>1, <1>4, <1>5, <1>6, <1>7 DEF ExcelWithin, ExcelRange, ExcelInside, Excel!Whole
<1> QED
  BY <1>8, <1>9, <1>10 DEF w, ExcelWithin

\* What covers a point also covers it when every range is widened.
LEMMA WidenedCover ==
  ASSUME NEW s \in Excel!Range(ExcelSheets),
         NEW ranges \in Seq(ExcelWithin(Excel!Whole(s)))
  PROVE  LET widened == [i \in DOMAIN ranges |-> Excel!Widened(ranges[i], s)]
         IN  /\ widened \in Seq(ExcelWithin(Excel!Whole(s)))
             /\ \A x \in ExcelWithin(Excel!Whole(s)) :
                  ExcelCovered(x, ranges) => ExcelCovered(x, widened)
<1> DEFINE widened == [i \in DOMAIN ranges |-> Excel!Widened(ranges[i], s)]
<1>1. Len(ranges) \in Nat /\ DOMAIN ranges = 1..Len(ranges)
  OBVIOUS
<1>2. \A i \in 1..Len(ranges) : ranges[i] \in ExcelRange
  BY DEF ExcelWithin
<1>3. \A i \in 1..Len(ranges) : Excel!Widened(ranges[i], s) \in ExcelWithin(Excel!Whole(s))
  BY <1>2, WidenedHolds
<1>4. widened \in [1..Len(ranges) -> ExcelWithin(Excel!Whole(s))]
  BY <1>3
<1>5. \A i \in 1..Len(ranges) : widened[i] = Excel!Widened(ranges[i], s)
  BY <1>1
<1> HIDE DEF widened
<1>6. widened \in Seq(ExcelWithin(Excel!Whole(s))) /\ Len(widened) = Len(ranges)
  BY <1>4
<1>7. ASSUME NEW x \in ExcelWithin(Excel!Whole(s)), ExcelCovered(x, ranges)
      PROVE  ExcelCovered(x, widened)
  BY <1>7, <1>2, <1>5, WidenedHolds, <1>6 DEF ExcelCovered
<1> QED
  BY <1>6, <1>7 DEF widened

\* Whichever way the ranges of a sheet are chosen, they stay in it and cover the cells they
\* were chosen for.
LEMMA RangesCover ==
  ASSUME NEW s \in Excel!Range(ExcelSheets), NEW C \in SUBSET ExcelCellsOf(s)
  PROVE  /\ Excel!Ranges(s, C) \in Seq(ExcelWithin(Excel!Whole(s)))
         /\ \A c \in C : ExcelCovered(Excel!Point(c), Excel!Ranges(s, C))
         /\ Excel!Full(s) => Len(Excel!Ranges(s, C)) = 1
<1> DEFINE W == ExcelWithin(Excel!Whole(s))
           sorted == Excel!Sorted(C)
           points == [i \in DOMAIN sorted |-> Excel!Point(sorted[i])]
           box == [top |-> 1, bottom |-> Excel!Greatest({c[2] : c \in C}),
                   left |-> 1, right |-> Excel!Greatest({c[3] : c \in C})]
           corner == Excel!Widened(box, s)
           clusters == Excel!Gathered(points, ExcelGap)
           widened == [i \in DOMAIN clusters |-> Excel!Widened(clusters[i], s)]
           ranges == Excel!Ranges(s, C)
<1>1. ranges = IF Excel!Full(s) THEN <<Excel!Whole(s)>>
               ELSE IF C = {} THEN <<Excel!Whole(s)>>
               ELSE IF Excel!Size(corner) <= ExcelTopLeftLimit THEN <<corner>>
               ELSE Excel!Gathered(widened, 0)
  BY DEF Excel!Ranges
<1>2. /\ Excel!Whole(s) \in ExcelRange /\ Excel!Whole(s) \in W
      /\ \A c \in C : Excel!Point(c) \in W /\ Excel!Point(c) \in ExcelRange
  BY WholeIs DEF ExcelWithin
<1>3. C \in SUBSET Excel!Cells
  BY DEF ExcelCellsOf
<1> HIDE DEF W, ranges, widened, corner
<1>4. CASE Excel!Full(s) \/ C = {}
  <2>1. ranges = <<Excel!Whole(s)>>
    BY <1>1, <1>4
  <2>2. ranges \in Seq(W) /\ Len(ranges) = 1 /\ ranges[1] = Excel!Whole(s)
    BY <1>2, <2>1
  <2>3. \A c \in C : ExcelInside(Excel!Point(c), Excel!Whole(s))
    BY <1>2 DEF W, ExcelWithin
  <2>4. \A c \in C : ExcelCovered(Excel!Point(c), ranges)
    BY <2>2, <2>3 DEF ExcelCovered
  <2> QED
    BY <2>2, <2>4 DEF W, ranges
<1>5. CASE ~(Excel!Full(s) \/ C = {}) /\ Excel!Size(corner) <= ExcelTopLeftLimit
  <2>1. ranges = <<corner>>
    BY <1>1, <1>5
  <2>2. /\ ExcelRows[s] \in Nat /\ ExcelColumns[s] \in Nat
        /\ \A c \in C : c[2] \in 1..ExcelRows[s] /\ c[3] \in 1..ExcelColumns[s]
    BY CellsAre DEF ExcelCellsOf
  <2> DEFINE rows == {c[2] : c \in C}
             columns == {c[3] : c \in C}
  <2>3. /\ rows \in SUBSET (0..ExcelRows[s]) /\ rows # {}
        /\ columns \in SUBSET (0..ExcelColumns[s]) /\ columns # {}
    BY <1>5, <2>2
  <2>4. \A c \in C : c[2] \in rows /\ c[3] \in columns
    OBVIOUS
  <2>5. /\ box.top = 1 /\ box.left = 1
        /\ box.bottom = Excel!Greatest(rows) /\ box.right = Excel!Greatest(columns)
        /\ box = [top |-> box.top, bottom |-> box.bottom, left |-> box.left,
                  right |-> box.right]
    OBVIOUS
  <2> HIDE DEF rows, columns, box
  <2>6. box.bottom \in rows /\ \A y \in rows : y <= box.bottom
    BY <2>2, <2>3, <2>5, HasGreatest
  <2>7. box.right \in columns /\ \A y \in columns : y <= box.right
    BY <2>2, <2>3, <2>5, HasGreatest
  <2>8. box \in ExcelRange
    BY <2>3, <2>5, <2>6, <2>7 DEF ExcelRange
  <2>9. \A c \in C : ExcelInside(Excel!Point(c), box)
    BY <2>2, <2>4, <2>5, <2>6, <2>7 DEF ExcelInside, Excel!Point
  <2>10. corner \in W /\ \A c \in C : ExcelInside(Excel!Point(c), corner)
    BY <1>2, <2>8, <2>9, WidenedHolds DEF corner, W
  <2>11. ranges \in Seq(W) /\ Len(ranges) = 1 /\ ranges[1] = corner
    BY <2>1, <2>10
  <2>12. \A c \in C : ExcelCovered(Excel!Point(c), ranges)
    BY <2>10, <2>11 DEF ExcelCovered
  <2> QED
    BY <2>11, <2>12 DEF W, ranges
<1>6. CASE ~(Excel!Full(s) \/ C = {}) /\ ~(Excel!Size(corner) <= ExcelTopLeftLimit)
  <2>1. ranges = Excel!Gathered(widened, 0)
    BY <1>1, <1>6
  <2>2. /\ sorted \in Seq(C) /\ \A c \in C : \E n \in 1..Len(sorted) : sorted[n] = c
    BY <1>3, SortedIs
  <2> HIDE DEF sorted
  <2>3. Len(sorted) \in Nat /\ DOMAIN sorted = 1..Len(sorted)
    BY <2>2
  <2>4. points \in [1..Len(sorted) -> W]
    BY <1>2, <2>2
  <2>5. \A n \in 1..Len(sorted) : points[n] = Excel!Point(sorted[n])
    BY <2>3
  <2> HIDE DEF points
  <2>6. points \in Seq(W) /\ Len(points) = Len(sorted)
    BY <2>4
  <2>7. \A c \in C : ExcelCovered(Excel!Point(c), points)
    <3> TAKE c \in C
    <3>1. PICK n \in 1..Len(sorted) : sorted[n] = c
      BY <2>2
    <3>2. ExcelInside(Excel!Point(c), points[n])
      BY <1>2, <2>5, <3>1 DEF ExcelInside, ExcelRange
    <3> QED
      BY <2>6, <3>2 DEF ExcelCovered
  <2>8. /\ clusters \in Seq(W)
        /\ \A c \in C : ExcelCovered(Excel!Point(c), clusters)
    BY <1>2, <2>6, <2>7, GatheredCovers DEF W
  <2> HIDE DEF clusters
  <2>9. /\ widened \in Seq(W)
        /\ \A c \in C : ExcelCovered(Excel!Point(c), widened)
    BY <1>2, <2>8, WidenedCover DEF W, widened
  <2>10. /\ Excel!Gathered(widened, 0) \in Seq(W)
         /\ \A c \in C : ExcelCovered(Excel!Point(c), Excel!Gathered(widened, 0))
    BY <1>2, <2>9, GatheredCovers DEF W
  <2> QED
    BY <1>6, <2>1, <2>10 DEF W, ranges
<1> QED
  BY <1>4, <1>5, <1>6

\* A sheet always has a range to show.
LEMMA RangesExist ==
  ASSUME NEW s \in Excel!Range(ExcelSheets), NEW C \in SUBSET ExcelCellsOf(s)
  PROVE  Len(Excel!Ranges(s, C)) \in Nat \ {0}
<1>1. CASE C = {}
  BY <1>1 DEF Excel!Ranges
<1>2. CASE C # {}
  BY <1>2, RangesCover DEF ExcelCovered
<1> QED
  BY <1>1, <1>2

-----------------------------------------------------------------------------
(* The changes that the comparison lists, and what is told of a cell. *)
ExcelBook(b) == \A c \in Excel!Cells : \A i \in 1..3 : b[c][i] # Excel!EmptyLabel
ExcelTells(b, c, h) ==
  /\ h.from \in 1..3 /\ h.to \in 1..3
  /\ Excel!displayExcelGridValue(h.before) = b[c][h.from]
  /\ Excel!displayExcelGridValue(h.after) = b[c][h.to]
ExcelColoured(b, c, h) ==
  h.from = 2 /\ h.to = 1 =>
    Excel!Differs(b, c, 2, 1) /\ h.kind = Excel!Kind(b[c][2], b[c][1])

\* What is listed are finitely many cells that differ, with what the two files have there.
LEMMA IssuesAre ==
  ASSUME NEW b, NEW from, NEW to
  PROVE  /\ IsFiniteSet(Excel!Issues(b, from, to))
         /\ \A f \in Excel!Issues(b, from, to) :
              /\ f.cell \in Excel!Cells /\ Excel!Differs(b, f.cell, from, to)
              /\ f.history = Excel!Labelled(Excel!History(b, f.cell, from, to))
<1> DEFINE S == {c \in Excel!Cells : Excel!Differs(b, c, from, to)}
           sorted == Excel!Sorted(S)
           K == {j \in DOMAIN sorted : j <= ExcelIssueLimit}
           At(i) == [cell |-> sorted[i],
                     history |-> Excel!Labelled(Excel!History(b, sorted[i], from, to))]
           F == {At(i) : i \in K}
<1>1. Excel!Issues(b, from, to) = F
  BY DEF Excel!Issues
<1>2. sorted \in Seq(S) /\ Len(sorted) \in Nat /\ DOMAIN sorted = 1..Len(sorted)
  <2>1. sorted \in Seq(S)
    BY SortedIs
  <2> HIDE DEF sorted
  <2> QED
    BY <2>1
<1> HIDE DEF sorted
<1>3. K \in SUBSET (1..Len(sorted)) /\ \A i \in K : sorted[i] \in S
  BY <1>2
<1>4. IsFiniteSet(F)
  <2> DEFINE g == [i \in K |-> At(i)]
  <2>1. IsFiniteSet(1..Len(sorted))
    BY IntervalIsFinite
  <2>2. IsFiniteSet(K)
    BY <2>1, FS_Subset
  <2>3. g \in Surjection(K, F)
    BY DEF Surjection
  <2> HIDE DEF g, K, F
  <2> QED
    BY <2>2, <2>3, FS_Surjection
<1>5. ASSUME NEW f \in F
      PROVE  /\ f.cell \in Excel!Cells /\ Excel!Differs(b, f.cell, from, to)
             /\ f.history = Excel!Labelled(Excel!History(b, f.cell, from, to))
  BY <1>3
<1> QED
  BY <1>1, <1>4, <1>5

\* A difference is told as the files have it, also with the label of an empty cell.
LEMMA HistoryTells ==
  ASSUME NEW b, ExcelBook(b), NEW c \in Excel!Cells, NEW from \in 1..3, NEW to \in 1..3,
         Excel!Differs(b, c, from, to),
         NEW h \in {Excel!History(b, c, from, to),
                    Excel!Labelled(Excel!History(b, c, from, to))}
  PROVE  ExcelTells(b, c, h) /\ ExcelColoured(b, c, h) /\ h.from = from /\ h.to = to
<1> DEFINE x == b[c][from]
           y == b[c][to]
           k == Excel!Kind(x, y)
<1>1. x # Excel!EmptyLabel /\ y # Excel!EmptyLabel
  BY DEF ExcelBook
<1> DEFINE r == Excel!History(b, c, from, to)
           z == Excel!Labelled(r)
<1>2. /\ r.from = from /\ r.to = to /\ r.kind = k /\ r.before = x /\ r.after = y
      /\ z.from = from /\ z.to = to /\ z.kind = k
      /\ z.before = Excel!Label(x) /\ z.after = Excel!Label(y)
  <2> DEFINE before == Excel!Label(r.before)
             after == Excel!Label(r.after)
  <2>1. r = [from |-> from, to |-> to, kind |-> k, before |-> x, after |-> y]
    BY DEF Excel!History
  <2>2. z = [[r EXCEPT !.before = before] EXCEPT !.after = after]
    BY DEF Excel!Labelled
  <2> HIDE DEF r, z, k, x, y
  <2>3. before = Excel!Label(x) /\ after = Excel!Label(y)
    BY <2>1
  <2> HIDE DEF before, after
  <2>4. DOMAIN r = {"from", "to", "kind", "before", "after"}
    BY <2>1
  <2>5. /\ z.from = r.from /\ z.to = r.to /\ z.kind = r.kind
        /\ z.before = before /\ z.after = after
    BY <2>2
  <2> QED
    BY <2>1, <2>3, <2>5
<1>3. h \in {r, z}
  OBVIOUS
<1> HIDE DEF x, y, k, r, z
<1>4. /\ h.from = from /\ h.to = to /\ h.kind = k
      /\ h.before \in {x, Excel!Label(x)} /\ h.after \in {y, Excel!Label(y)}
  BY <1>2, <1>3
<1>5. /\ Excel!displayExcelGridValue(h.before) = x
      /\ Excel!displayExcelGridValue(h.after) = y
  BY <1>1, <1>4 DEF Excel!displayExcelGridValue, Excel!Label
<1>6. ExcelTells(b, c, h)
  BY <1>4, <1>5 DEF ExcelTells, x, y
<1>7. ExcelColoured(b, c, h)
  BY <1>4 DEF ExcelColoured, k, x, y
<1> QED
  BY <1>4, <1>6, <1>7

\* What the sheets tell of a cell is true, and has what was listed for it.
LEMMA HistoriesTell ==
  ASSUME NEW b, ExcelBook(b), NEW from \in 1..3, NEW to \in 1..3, NEW s
  PROVE  LET focuses == Excel!Issues(b, from, to)
             H == Excel!SheetHistories(b, s, focuses)
         IN  /\ DOMAIN H = ExcelCellsOf(s)
             /\ \A c \in ExcelCellsOf(s) : \A h \in H[c] :
                  ExcelTells(b, c, h) /\ ExcelColoured(b, c, h)
             /\ \A f \in Excel!Located(focuses) : f.cell[1] = s => f.history \in H[f.cell]
             /\ ~ Excel!Full(s) =>
                  {c \in DOMAIN H : H[c] # {}} =
                    {f.cell : f \in {g \in Excel!Located(focuses) : g.cell[1] = s}}
<1> DEFINE focuses == Excel!Issues(b, from, to)
           H == Excel!SheetHistories(b, s, focuses)
           asked(c) == {f.history : f \in {g \in Excel!Located(focuses) : g.cell = c}}
           NewTo(known, c, i) ==
             /\ Excel!Differs(b, c, i + 1, i)
             /\ \A h \in known :
                  ExcelNames[h.from] # ExcelNames[i + 1] \/ ExcelNames[h.to] # ExcelNames[i]
           Extend(known, c, i) ==
             IF NewTo(known, c, i) THEN known \cup {Excel!History(b, c, i + 1, i)} ELSE known
<1>1. H = [c \in ExcelCellsOf(s) |->
             IF Excel!Full(s) THEN Extend(Extend(asked(c), c, 1), c, 2) ELSE asked(c)]
  BY DEF Excel!SheetHistories, ExcelCellsOf
<1>2. \A f \in focuses :
        /\ f.cell \in Excel!Cells /\ Excel!Differs(b, f.cell, from, to)
        /\ f.history = Excel!Labelled(Excel!History(b, f.cell, from, to))
  BY IssuesAre
<1>3. Excel!Located(focuses) \subseteq focuses
  BY DEF Excel!Located
<1> HIDE DEF focuses, H
<1>4. ASSUME NEW c \in ExcelCellsOf(s)
      PROVE  /\ asked(c) \subseteq H[c] /\ (~ Excel!Full(s) => H[c] = asked(c))
             /\ \A h \in H[c] : ExcelTells(b, c, h) /\ ExcelColoured(b, c, h)
  <2> DEFINE once == Extend(asked(c), c, 1)
             twice == Extend(once, c, 2)
  <2>1. c \in Excel!Cells
    BY DEF ExcelCellsOf
  <2>2. \A h \in asked(c) : ExcelTells(b, c, h) /\ ExcelColoured(b, c, h)
    BY <1>2, <1>3, HistoryTells
  <2>3. Excel!Differs(b, c, 2, 1) =>
          /\ ExcelTells(b, c, Excel!History(b, c, 2, 1))
          /\ ExcelColoured(b, c, Excel!History(b, c, 2, 1))
    BY <2>1, HistoryTells
  <2>4. Excel!Differs(b, c, 3, 2) =>
          /\ ExcelTells(b, c, Excel!History(b, c, 3, 2))
          /\ ExcelColoured(b, c, Excel!History(b, c, 3, 2))
    BY <2>1, HistoryTells
  <2>5. H[c] = IF Excel!Full(s) THEN twice ELSE asked(c)
    BY <1>1
  <2> DEFINE Good(known) ==
               \A h \in known : ExcelTells(b, c, h) /\ ExcelColoured(b, c, h)
  <2> HIDE DEF asked
  <2>6. asked(c) \subseteq once /\ Good(once)
    BY <2>2, <2>3
  <2> HIDE DEF once
  <2>7. once \subseteq twice /\ Good(twice)
    BY <2>4, <2>6
  <2> HIDE DEF twice
  <2> QED
    BY <2>5, <2>6, <2>7
<1>5. ASSUME NEW f \in Excel!Located(focuses), f.cell[1] = s PROVE f.history \in H[f.cell]
  BY <1>2, <1>3, <1>5, <1>4 DEF ExcelCellsOf
<1>6. DOMAIN H = ExcelCellsOf(s)
  BY <1>1
<1>7. ASSUME ~ Excel!Full(s)
      PROVE  {c \in DOMAIN H : H[c] # {}} =
               {f.cell : f \in {g \in Excel!Located(focuses) : g.cell[1] = s}}
  BY <1>4, <1>6, <1>7, <1>2, <1>3 DEF ExcelCellsOf
<1> QED
  BY <1>4, <1>5, <1>6, <1>7 DEF focuses, H

-----------------------------------------------------------------------------
(* The sections of the sheets. *)
ExcelSection ==
  [sheet : Excel!Range(ExcelSheets), partial : BOOLEAN, cells : SUBSET Excel!Cells]

\* The sections of a sheet have its cells only, and all that have a history, unless there are
\* more ranges than sections.
LEMMA SheetShows ==
  ASSUME NEW s \in Excel!Range(ExcelSheets), NEW H, DOMAIN H = ExcelCellsOf(s)
  PROVE  LET C == {c \in DOMAIN H : H[c] # {}}
             sections == Excel!SheetSections(s, H)
         IN  /\ sections \in Seq(ExcelSection) /\ sections # <<>>
             /\ \A i \in 1..Len(sections) :
                  sections[i].sheet = s /\ sections[i].cells \subseteq ExcelCellsOf(s)
             /\ Len(Excel!Ranges(s, C)) <= ExcelMaxSections =>
                  \A c \in C : \E i \in 1..Len(sections) : c \in sections[i].cells
<1> DEFINE C == {c \in DOMAIN H : H[c] # {}}
           ranges == Excel!Ranges(s, C)
           least == Excel!Least({Len(ranges), ExcelMaxSections})
           kept == SubSeq(ranges, 1, least)
           Cut(r) == {s} \X (r.top..r.bottom) \X ({1} \cup r.left..r.right)
           sections == [i \in DOMAIN kept |->
                          [sheet |-> s, partial |-> ~ Excel!Full(s), cells |-> Cut(kept[i])]]
           W == ExcelWithin(Excel!Whole(s))
<1>1. Excel!SheetSections(s, H) = sections
  BY DEF Excel!SheetSections
<1>2. C \in SUBSET ExcelCellsOf(s)
  OBVIOUS
<1>3. ranges \in Seq(W) /\ \A c \in C : ExcelCovered(Excel!Point(c), ranges)
  <2> HIDE DEF C
  <2> QED
    BY <1>2, RangesCover
<1>0. Len(ranges) \in Nat \ {0}
  <2> HIDE DEF C
  <2> QED
    BY <1>2, RangesExist
<1> HIDE DEF ranges, W
<1>4. Len(ranges) \in Nat \ {0} /\ ExcelMaxSections \in Nat \ {0}
  BY <1>0, ExcelAssumption
<1>5. /\ least \in 0..Len(ranges) /\ least # 0
      /\ Len(ranges) <= ExcelMaxSections => least = Len(ranges)
  <2> DEFINE x == Len(ranges)
             y == ExcelMaxSections
  <2>1. x \in Nat /\ y \in Nat /\ x # 0 /\ y # 0 /\ least = Excel!Least({x, y})
    BY <1>4
  <2> HIDE DEF x, y, least
  <2>4. x \in Int /\ y \in Int
    BY <2>1
  <2>2. least \in {x, y} /\ least <= x /\ least <= y
    BY <2>1, <2>4, LeastOfTwo, Zenon
  <2>3. least \in 0..x /\ least # 0 /\ (x <= y => least = x)
    BY <2>1, <2>2
  <2> QED
    BY <2>3 DEF x, y
<1> HIDE DEF least
<1>6. /\ kept \in Seq(W) /\ Len(kept) = least /\ DOMAIN kept = 1..least
      /\ \A i \in 1..least : kept[i] = ranges[i]
  BY <1>3, <1>5
<1> HIDE DEF kept
<1>7. ASSUME NEW r \in W PROVE Cut(r) \subseteq ExcelCellsOf(s)
  BY CellsAre
  DEF W, ExcelWithin, ExcelRange, ExcelInside, Excel!Whole, ExcelSheetCells, ExcelCellsOf,
      Excel!Cells
<1>8. /\ DOMAIN sections = 1..least
      /\ \A i \in 1..least :
           sections[i] = [sheet |-> s, partial |-> ~ Excel!Full(s), cells |-> Cut(ranges[i])]
  BY <1>6
<1>9. \A i \in 1..least :
        Cut(ranges[i]) \subseteq ExcelCellsOf(s) /\ Cut(ranges[i]) \in SUBSET Excel!Cells
  <2> TAKE i \in 1..least
  <2>1. ranges[i] \in W
    BY <1>3, <1>5
  <2>2. Cut(ranges[i]) \subseteq ExcelCellsOf(s)
    BY <1>7, <2>1
  <2>3. ExcelCellsOf(s) \subseteq Excel!Cells
    BY DEF ExcelCellsOf
  <2> HIDE DEF Cut
  <2> QED
    BY <2>2, <2>3
<1>10. Excel!Full(s) \in BOOLEAN
  BY DEF Excel!Full
<1> HIDE DEF sections
<1>11. \A i \in 1..least :
         /\ sections[i].sheet = s /\ sections[i].cells = Cut(ranges[i])
  BY <1>8
<1>12. \A i \in 1..least : sections[i] \in ExcelSection
  <2> TAKE i \in 1..least
  <2> DEFINE cells == Cut(ranges[i])
             partial == ~ Excel!Full(s)
  <2>1. cells \in SUBSET Excel!Cells /\ partial \in BOOLEAN
    BY <1>9
  <2>2. sections[i] = [sheet |-> s, partial |-> partial, cells |-> cells]
    BY <1>8
  <2> HIDE DEF cells, partial
  <2> QED
    BY <2>1, <2>2 DEF ExcelSection
<1>13. sections \in Seq(ExcelSection) /\ Len(sections) = least
  BY <1>6, <1>5, <1>12 DEF sections
<1>14. ASSUME Len(ranges) <= ExcelMaxSections, NEW c \in C
       PROVE  \E i \in 1..Len(sections) : c \in sections[i].cells
  <2>1. PICK i \in 1..Len(ranges) : ExcelInside(Excel!Point(c), ranges[i])
    BY <1>3 DEF ExcelCovered
  <2>2. /\ c = <<c[1], c[2], c[3]>> /\ c[1] = s
        /\ c[2] \in Nat /\ c[3] \in Nat
    BY CellsAre DEF ExcelCellsOf
  <2>3. /\ ranges[i].top \in Nat /\ ranges[i].bottom \in Nat
        /\ ranges[i].left \in Nat /\ ranges[i].right \in Nat
    BY <1>3, <2>1 DEF W, ExcelWithin, ExcelRange
  <2>4. /\ c[2] \in ranges[i].top..ranges[i].bottom
        /\ c[3] \in ranges[i].left..ranges[i].right
    BY <2>1, <2>2 DEF ExcelInside, Excel!Point
  <2>5. c \in Cut(ranges[i])
    BY <2>2, <2>4
  <2> QED
    BY <1>5, <1>11, <1>13, <1>14, <2>5
<1>15. \A i \in 1..Len(sections) :
         sections[i].sheet = s /\ sections[i].cells \subseteq ExcelCellsOf(s)
  <2> HIDE DEF Cut
  <2> QED
    BY <1>9, <1>11, <1>13
<1>16. sections # <<>>
  BY <1>5, <1>13
<1> QED
  BY <1>1, <1>13, <1>14, <1>15, <1>16 DEF ranges

ExcelPart(b, focuses, n) ==
  IF n \in Excel!Tried(focuses)
  THEN Excel!SheetSections(ExcelSheets[n],
         Excel!SheetHistories(b, ExcelSheets[n], focuses))
  ELSE <<>>

\* Joining the parts of one sheet after the other is a function on the numbers of sheets.
LEMMA SectionsStepwise ==
  ASSUME NEW b, NEW focuses
  PROVE  \E f : /\ DOMAIN f = 0..Len(ExcelSheets) /\ f[0] = <<>>
                /\ \A n \in 1..Len(ExcelSheets) :
                     f[n] = f[n - 1] \o ExcelPart(b, focuses, n)
                /\ Excel!SectionsOf(b, focuses) = f[Len(ExcelSheets)]
<1> DEFINE Upto(f, m) ==
             f = [n \in 0..m |->
                    IF n = 0 THEN <<>> ELSE f[n - 1] \o ExcelPart(b, focuses, n)]
           bad == {m \in Nat : ~ \E f : Upto(f, m)}
           all == CHOOSE f : Upto(f, Len(ExcelSheets))
<1>1. bad = {}
  <2> SUFFICES ASSUME bad # {} PROVE FALSE
    OBVIOUS
  <2>1. PICK m \in bad : \A k \in bad : m <= k
    BY HasLeast
  <2>2. m \in Nat /\ ~ \E f : Upto(f, m)
    BY <2>1
  <2>3. m # 0
    <3>1. Upto([n \in 0..0 |-> <<>>], 0)
      OBVIOUS
    <3> QED
      BY <2>2, <3>1
  <2>4. m - 1 \in Nat /\ m - 1 \notin bad
    <3> DEFINE k == m - 1
    <3>1. k \in Nat /\ ~ (m <= k)
      BY <2>3
    <3> HIDE DEF k, bad
    <3>2. k \notin bad
      BY <2>1, <3>1
    <3> QED
      BY <3>1, <3>2 DEF k
  <2>5. PICK f : Upto(f, m - 1)
    <3> HIDE DEF Upto
    <3>1. \E f : Upto(f, m - 1)
      BY <2>4
    <3> QED
      BY <3>1
  <2> DEFINE g == [n \in 0..m |->
                     IF n = m THEN f[m - 1] \o ExcelPart(b, focuses, m) ELSE f[n]]
  <2>6. ASSUME NEW n \in 0..m
        PROVE  g[n] = IF n = 0 THEN <<>> ELSE g[n - 1] \o ExcelPart(b, focuses, n)
    <3>1. CASE n = m
      <4>1. m - 1 \in 0..m /\ m - 1 # m
        BY <2>3
      <4>2. g[m - 1] = f[m - 1]
        BY <4>1
      <4> QED
        BY <2>2, <2>3, <3>1, <4>2
    <3>2. CASE n # m
      <4>1. n \in 0..(m - 1) /\ g[n] = f[n]
        BY <3>2
      <4>2. f[n] = IF n = 0 THEN <<>> ELSE f[n - 1] \o ExcelPart(b, focuses, n)
        BY <2>5, <4>1
      <4>3. n # 0 => n - 1 \in 0..m /\ n - 1 # m
        OBVIOUS
      <4>4. n # 0 => g[n - 1] = f[n - 1]
        BY <4>3
      <4> QED
        BY <4>1, <4>2
    <3> QED
      BY <3>1, <3>2
  <2>7. Upto(g, m)
    <3> HIDE DEF Upto
    <3>1. Upto(g, m) <=>
            g = [n \in 0..m |->
                   IF n = 0 THEN <<>> ELSE g[n - 1] \o ExcelPart(b, focuses, n)]
      BY DEF Upto
    <3>2. g = [n \in 0..m |-> g[n]]
      OBVIOUS
    <3> HIDE DEF g
    <3> QED
      BY <2>6, <3>2
  <2> QED
    BY <2>2, <2>7
<1>2. Len(ExcelSheets) \in Nat
  BY CellsAre
<1>3. Upto(all, Len(ExcelSheets))
  <2>1. \E f : Upto(f, Len(ExcelSheets))
    BY <1>1, <1>2
  <2> HIDE DEF Upto
  <2> QED
    BY <2>1
<1>4. Excel!SectionsOf(b, focuses) = all[Len(ExcelSheets)]
  BY DEF Excel!SectionsOf, ExcelPart
<1> HIDE DEF all
<1> DEFINE L == Len(ExcelSheets)
<1>5. all = [n \in 0..L |->
               IF n = 0 THEN <<>> ELSE all[n - 1] \o ExcelPart(b, focuses, n)]
  BY <1>3
<1>6. L \in Nat
  BY <1>2
<1> HIDE DEF L
<1>7. DOMAIN all = 0..L
  BY <1>5
<1>8. 0 \in 0..L /\ all[0] = <<>>
  BY <1>5, <1>6
<1>9. ASSUME NEW n \in 1..L PROVE all[n] = all[n - 1] \o ExcelPart(b, focuses, n)
  <2>1. n \in 0..L /\ n # 0
    BY <1>6
  <2> QED
    BY <1>5, <2>1
<1>10. DOMAIN all = 0..L /\ all[0] = <<>> /\ Excel!SectionsOf(b, focuses) = all[L]
  BY <1>7 DEF L
<1> HIDE DEF Upto
<1> QED
  BY <1>9, <1>10 DEF L

\* The sections are those of the sheets, and each of theirs is among them.
ExcelParts(b, focuses) ==
  \A n \in 1..Len(ExcelSheets) : ExcelPart(b, focuses, n) \in Seq(ExcelSection)
ExcelJoined(b, focuses, sections) ==
  /\ sections \in Seq(ExcelSection)
  /\ \A j \in 1..Len(sections) : \E n \in 1..Len(ExcelSheets) :
       \E i \in 1..Len(ExcelPart(b, focuses, n)) : sections[j] = ExcelPart(b, focuses, n)[i]
  /\ \A n \in 1..Len(ExcelSheets) : \A i \in 1..Len(ExcelPart(b, focuses, n)) :
       \E j \in 1..Len(sections) : sections[j] = ExcelPart(b, focuses, n)[i]

\* The sections of the window are those of its sheets, one sheet after another.
LEMMA SectionsAreParts ==
  ASSUME NEW b, NEW focuses, ExcelParts(b, focuses)
  PROVE  ExcelJoined(b, focuses, Excel!SectionsOf(b, focuses))
<1> DEFINE P(n) == ExcelPart(b, focuses, n)
           L == Len(ExcelSheets)
<1>1. L \in Nat /\ \A n \in 1..L : P(n) \in Seq(ExcelSection)
  BY DEF ExcelParts
<1>2. PICK f : /\ DOMAIN f = 0..L /\ f[0] = <<>>
               /\ \A n \in 1..L : f[n] = f[n - 1] \o P(n)
               /\ Excel!SectionsOf(b, focuses) = f[L]
  BY SectionsStepwise
<1> HIDE DEF P, L
<1> DEFINE From(t, m) ==
             \A j \in 1..Len(t) : \E n \in 1..m : \E i \in 1..Len(P(n)) : t[j] = P(n)[i]
           Has(t, m) ==
             \A n \in 1..m : \A i \in 1..Len(P(n)) : \E j \in 1..Len(t) : t[j] = P(n)[i]
           Good(m) == f[m] \in Seq(ExcelSection) /\ From(f[m], m) /\ Has(f[m], m)
           bad == {m \in 0..L : ~ Good(m)}
<1>3. bad = {}
  <2> SUFFICES ASSUME bad # {} PROVE FALSE
    OBVIOUS
  <2>1. bad \in SUBSET Nat
    BY <1>1
  <2>2. PICK m \in bad : \A k \in bad : m <= k
    BY <2>1, HasLeast
  <2>3. m \in 0..L /\ ~ Good(m)
    BY <2>2
  <2>4. m # 0
    <3>1. f[0] \in Seq(ExcelSection) /\ Len(f[0]) = 0 /\ 1..0 = {}
      BY <1>2
    <3>2. Good(0)
      BY <3>1
    <3> QED
      BY <3>2
  <2>5. m - 1 \in 0..L /\ m \in 1..L /\ ~ (m <= m - 1)
    BY <1>1, <2>4
  <2>6. Good(m - 1)
    <3> DEFINE k == m - 1
    <3>1. k \in 0..L /\ ~ (m <= k)
      BY <2>5
    <3> HIDE DEF k, Good
    <3>2. k \notin bad
      BY <2>2, <3>1
    <3>3. Good(k)
      BY <3>1, <3>2
    <3> QED
      BY <3>3 DEF k
  <2> DEFINE s == f[m - 1]
             t == f[m]
  <2>7. s \in Seq(ExcelSection) /\ From(s, m - 1) /\ Has(s, m - 1)
    BY <2>6
  <2>8. P(m) \in Seq(ExcelSection) /\ t = s \o P(m)
    BY <1>1, <1>2, <2>5
  <2> HIDE DEF s, t
  <2>9. /\ t \in Seq(ExcelSection) /\ Len(t) = Len(s) + Len(P(m))
        /\ Len(s) \in Nat /\ Len(P(m)) \in Nat
        /\ \A j \in 1..Len(s) : t[j] = s[j]
        /\ \A i \in 1..Len(P(m)) : t[Len(s) + i] = P(m)[i]
    BY <2>7, <2>8
  <2>10. From(t, m)
    <3> SUFFICES ASSUME NEW j \in 1..Len(t)
                 PROVE  \E n \in 1..m : \E i \in 1..Len(P(n)) : t[j] = P(n)[i]
      OBVIOUS
    <3>1. CASE j <= Len(s)
      <4>1. j \in 1..Len(s) /\ t[j] = s[j]
        BY <2>9, <3>1
      <4>2. PICK n \in 1..(m - 1) : \E i \in 1..Len(P(n)) : s[j] = P(n)[i]
        BY <2>7, <4>1
      <4>3. n \in 1..m
        BY <2>5
      <4> QED
        BY <4>1, <4>2
    <3>2. CASE ~(j <= Len(s))
      <4> DEFINE i == j - Len(s)
      <4>1. i \in 1..Len(P(m)) /\ Len(s) + i = j
        BY <2>9, <3>2
      <4>2. t[j] = P(m)[i]
        BY <2>9, <4>1
      <4>3. m \in 1..m
        BY <2>5
      <4> HIDE DEF i
      <4> QED
        BY <4>1, <4>2, <4>3
    <3> QED
      BY <3>1, <3>2
  <2>11. Has(t, m)
    <3> SUFFICES ASSUME NEW n \in 1..m, NEW i \in 1..Len(P(n))
                 PROVE  \E j \in 1..Len(t) : t[j] = P(n)[i]
      OBVIOUS
    <3>1. CASE n = m
      <4>1. i \in 1..Len(P(m))
        BY <3>1
      <4>2. Len(s) + i \in 1..Len(t) /\ t[Len(s) + i] = P(n)[i]
        BY <2>9, <3>1
      <4> QED
        BY <4>2
    <3>2. CASE n # m
      <4>1. n \in 1..(m - 1)
        BY <3>2
      <4>2. PICK j \in 1..Len(s) : s[j] = P(n)[i]
        BY <2>7, <4>1
      <4>3. j \in 1..Len(t) /\ t[j] = s[j]
        BY <2>9
      <4> QED
        BY <4>2, <4>3
    <3> QED
      BY <3>1, <3>2
  <2> QED
    BY <2>9, <2>10, <2>11 DEF t
<1>4. Good(L)
  <2>1. L \in 0..L
    BY <1>1
  <2> HIDE DEF Good
  <2> QED
    BY <1>3, <2>1
<1>5. Excel!SectionsOf(b, focuses) = f[L]
  BY <1>2
<1> DEFINE joined == f[L]
<1>6. joined \in Seq(ExcelSection) /\ From(joined, L) /\ Has(joined, L)
  BY <1>4
<1> HIDE DEF joined
<1>7. ExcelJoined(b, focuses, joined)
  BY <1>6 DEF P, L, ExcelJoined
<1> QED
  BY <1>5, <1>7 DEF joined

\* The sheets that are tried are sheets, and each has sections of its own.
LEMMA PartsAre ==
  ASSUME NEW b, ExcelBook(b), NEW from \in 1..3, NEW to \in 1..3
  PROVE  LET focuses == Excel!Issues(b, from, to)
         IN  /\ Excel!Tried(focuses) \in SUBSET (1..Len(ExcelSheets))
             /\ Excel!Tried(focuses) # {}
             /\ IsFiniteSet(Excel!Named(focuses))
             /\ \A n \in 1..Len(ExcelSheets) :
                  /\ ExcelPart(b, focuses, n) \in Seq(ExcelSection)
                  /\ n \in Excel!Tried(focuses) => ExcelPart(b, focuses, n) # <<>>
                  /\ \A i \in 1..Len(ExcelPart(b, focuses, n)) :
                       /\ ExcelPart(b, focuses, n)[i].sheet = ExcelSheets[n]
                       /\ ExcelPart(b, focuses, n)[i].cells \subseteq ExcelCellsOf(ExcelSheets[n])
                       /\ n \in Excel!Tried(focuses)
<1> DEFINE focuses == Excel!Issues(b, from, to)
           tried == Excel!Tried(focuses)
           named == Excel!Named(focuses)
           L == Len(ExcelSheets)
<1>1. L \in Nat \ {0} /\ DOMAIN ExcelSheets = 1..L
  BY CellsAre
<1>2. named \in SUBSET (1..L)
  BY DEF Excel!Named
<1>3. tried \in SUBSET (1..L)
  BY <1>1, <1>2 DEF Excel!Tried
<1>4. IsFiniteSet(named)
  BY IntervalIsFinite, <1>2, FS_Subset
<1>5. ASSUME NEW n \in 1..L
      PROVE  /\ ExcelPart(b, focuses, n) \in Seq(ExcelSection)
             /\ n \in tried => ExcelPart(b, focuses, n) # <<>>
             /\ \A i \in 1..Len(ExcelPart(b, focuses, n)) :
                  /\ ExcelPart(b, focuses, n)[i].sheet = ExcelSheets[n]
                  /\ ExcelPart(b, focuses, n)[i].cells \subseteq ExcelCellsOf(ExcelSheets[n])
                  /\ n \in tried
  <2> DEFINE s == ExcelSheets[n]
             H == Excel!SheetHistories(b, s, focuses)
             part == ExcelPart(b, focuses, n)
  <2>1. s \in Excel!Range(ExcelSheets)
    BY DEF Excel!Range
  <2>2. DOMAIN H = ExcelCellsOf(s)
    BY HistoriesTell
  <2>3. part = IF n \in tried THEN Excel!SheetSections(s, H) ELSE <<>>
    BY DEF ExcelPart
  <2> HIDE DEF s, H, part, tried
  <2>4. /\ Excel!SheetSections(s, H) \in Seq(ExcelSection)
        /\ Excel!SheetSections(s, H) # <<>>
        /\ \A i \in 1..Len(Excel!SheetSections(s, H)) :
             /\ Excel!SheetSections(s, H)[i].sheet = s
             /\ Excel!SheetSections(s, H)[i].cells \subseteq ExcelCellsOf(s)
    BY <2>1, <2>2, SheetShows
  <2>5. /\ part \in Seq(ExcelSection) /\ (n \in tried => part # <<>>)
        /\ \A i \in 1..Len(part) :
             part[i].sheet = s /\ part[i].cells \subseteq ExcelCellsOf(s) /\ n \in tried
    BY <2>3, <2>4
  <2> QED
    BY <2>5 DEF part, s
<1>6. tried # {}
  <2>1. CASE named = {}
    BY <2>1 DEF Excel!Tried
  <2>2. CASE named # {}
    <3>1. PICK n \in named : \A m \in named : n <= m
      BY <1>2, <2>2, HasLeast
    <3>2. {m \in named : m < n} = {} /\ ExcelMaxSheets \in Nat \ {0}
      BY <1>2, <3>1, ExcelAssumption
    <3>3. Excel!Cardinality({m \in named : m < n}) < ExcelMaxSheets
      BY <3>2, ExcelCounts, FS_EmptySet
    <3> HIDE DEF named
    <3>4. n \in tried
      BY <3>3 DEF Excel!Tried, named
    <3> QED
      BY <3>4
  <2> QED
    BY <2>1, <2>2
<1> QED
  BY <1>3, <1>4, <1>5, <1>6

\* The cells of the window are those of its sheets, and their histories are told there.
ExcelSheetsTried(focuses) == {ExcelSheets[n] : n \in Excel!Tried(focuses)}
ExcelOfSheets(focuses) == {f \in focuses : f.cell[1] \in ExcelSheetsTried(focuses)}
ExcelGridOf(b, focuses, grid) ==
  /\ grid.sections \in Seq(ExcelSection) /\ grid.sections # <<>>
  /\ \A i \in 1..Len(grid.sections) : \A c \in grid.sections[i].cells :
       c[1] = grid.sections[i].sheet
  /\ Excel!SheetNames(grid) \subseteq ExcelSheetsTried(focuses)
  /\ \A c \in Excel!ShownCells(grid) : c \in Excel!Cells /\ c[1] \in ExcelSheetsTried(focuses)
  /\ \A c \in Excel!Cells : c[1] \in ExcelSheetsTried(focuses) =>
       /\ grid.histories[c] = Excel!SheetHistories(b, c[1], focuses)[c]
       /\ grid.colours[c] = Excel!Colour(b, c, grid.histories[c])
  /\ \A s \in ExcelSheetsTried(focuses) :
       \A x \in Excel!Range(Excel!SheetSections(s, Excel!SheetHistories(b, s, focuses))) :
         x.cells \subseteq Excel!ShownCells(grid)
  /\ grid.omitted =
       Excel!Cardinality(ExcelOfSheets(focuses) \ Excel!Located(ExcelOfSheets(focuses)))
         + Excel!Cardinality(Excel!Named(focuses) \ Excel!Tried(focuses))

\* What a grid holds, and what it counts as not shown, by its sheets and its changes.
LEMMA GridCells ==
  ASSUME NEW b, ExcelBook(b), NEW from \in 1..3, NEW to \in 1..3
  PROVE  ExcelGridOf(b, Excel!Issues(b, from, to), Excel!Grid(b, Excel!Issues(b, from, to)))
<1> DEFINE focuses == Excel!Issues(b, from, to)
           grid == Excel!Grid(b, focuses)
           tried == Excel!Tried(focuses)
           sheets == ExcelSheetsTried(focuses)
           found == [c \in {d \in Excel!Cells : d[1] \in sheets} |->
                       Excel!SheetHistories(b, c[1], focuses)[c]]
           L == Len(ExcelSheets)
           P(n) == ExcelPart(b, focuses, n)
           inside == ExcelOfSheets(focuses)
           omitted == Excel!Cardinality(inside \ Excel!Located(inside))
                        + Excel!Cardinality(Excel!Named(focuses) \ Excel!Tried(focuses))
           sections == Excel!SectionsOf(b, focuses)
           colours == [c \in DOMAIN found |-> Excel!Colour(b, c, found[c])]
<1>1. grid = [sections |-> sections, histories |-> found, colours |-> colours,
              omitted |-> omitted]
  <2>1. sheets = {ExcelSheets[n] : n \in tried} /\ inside = {f \in focuses : f.cell[1] \in sheets}
    BY DEF ExcelSheetsTried, ExcelOfSheets
  <2> HIDE DEF sheets, inside, focuses
  <2> QED
    BY <2>1 DEF Excel!Grid
<1>2. /\ tried \in SUBSET (1..L) /\ tried # {}
      /\ \A n \in 1..L :
           /\ P(n) \in Seq(ExcelSection)
           /\ n \in tried => P(n) # <<>>
           /\ \A i \in 1..Len(P(n)) :
                /\ P(n)[i].sheet = ExcelSheets[n]
                /\ P(n)[i].cells \subseteq ExcelCellsOf(ExcelSheets[n])
                /\ n \in tried
  BY PartsAre
<1>3. /\ sections \in Seq(ExcelSection)
      /\ \A j \in 1..Len(sections) : \E n \in 1..L : \E i \in 1..Len(P(n)) :
           sections[j] = P(n)[i]
      /\ \A n \in 1..L : \A i \in 1..Len(P(n)) : \E j \in 1..Len(sections) :
           sections[j] = P(n)[i]
  <2>1. ExcelParts(b, focuses)
    BY <1>2 DEF ExcelParts
  <2> HIDE DEF sections, focuses
  <2>2. sections = Excel!SectionsOf(b, focuses)
    BY DEF sections
  <2>3. ExcelJoined(b, focuses, sections)
    BY <2>1, <2>2, SectionsAreParts
  <2> QED
    BY <2>3 DEF ExcelJoined, P, L
<1>4. sheets = {ExcelSheets[n] : n \in tried}
  BY DEF ExcelSheetsTried
<1>5. /\ grid.sections = sections /\ grid.histories = found /\ grid.colours = colours
      /\ grid.omitted = omitted
  <2> HIDE DEF sections, found, colours, omitted
  <2> QED
    BY <1>1
<1>6. /\ Excel!SheetNames(grid) = {sections[i].sheet : i \in DOMAIN sections}
      /\ Excel!ShownCells(grid) = UNION {x.cells : x \in Excel!Range(sections)}
  BY <1>5 DEF Excel!SheetNames, Excel!ShownCells
<1>7. \A n \in tried : P(n) = Excel!SheetSections(ExcelSheets[n],
                                Excel!SheetHistories(b, ExcelSheets[n], focuses))
  BY DEF ExcelPart
<1> HIDE DEF sections, P, grid
<1>8. DOMAIN sections = 1..Len(sections)
  BY <1>3
<1>9. ASSUME NEW j \in 1..Len(sections)
      PROVE  /\ sections[j].sheet \in sheets
             /\ \A c \in sections[j].cells :
                  c \in Excel!Cells /\ c[1] \in sheets /\ c[1] = sections[j].sheet
  <2>1. PICK n \in 1..L : \E i \in 1..Len(P(n)) : sections[j] = P(n)[i]
    BY <1>3
  <2>2. PICK i \in 1..Len(P(n)) : sections[j] = P(n)[i]
    BY <2>1
  <2>3. /\ sections[j].sheet = ExcelSheets[n] /\ n \in tried
        /\ sections[j].cells \subseteq ExcelCellsOf(ExcelSheets[n])
    BY <1>2, <2>2
  <2>4. ExcelSheets[n] \in sheets
    BY <1>4, <2>3
  <2> HIDE DEF sheets, tried
  <2> QED
    BY <2>3, <2>4 DEF ExcelCellsOf
<1>10. Excel!SheetNames(grid) \subseteq sheets
  <2> HIDE DEF sheets
  <2> QED
    BY <1>6, <1>9
<1>11. ASSUME NEW c \in Excel!ShownCells(grid) PROVE c \in Excel!Cells /\ c[1] \in sheets
  <2>1. PICK x \in Excel!Range(sections) : c \in x.cells
    BY <1>6
  <2>2. PICK j \in 1..Len(sections) : x = sections[j]
    BY DEF Excel!Range
  <2> HIDE DEF sheets
  <2> QED
    BY <1>9, <2>1, <2>2
<1>12. ASSUME NEW c \in Excel!Cells, c[1] \in sheets
       PROVE  /\ grid.histories[c] = Excel!SheetHistories(b, c[1], focuses)[c]
              /\ grid.colours[c] = Excel!Colour(b, c, grid.histories[c])
  <2> HIDE DEF sheets
  <2>1. c \in {d \in Excel!Cells : d[1] \in sheets}
    BY <1>12
  <2>2. found[c] = Excel!SheetHistories(b, c[1], focuses)[c] /\ c \in DOMAIN found
    BY <2>1
  <2> HIDE DEF found
  <2>3. colours[c] = Excel!Colour(b, c, found[c])
    BY <2>2
  <2> QED
    BY <1>5, <2>2
<1>13. ASSUME NEW s \in sheets,
              NEW x \in Excel!Range(Excel!SheetSections(s, Excel!SheetHistories(b, s, focuses)))
       PROVE  x.cells \subseteq Excel!ShownCells(grid)
  <2>1. PICK n \in tried : s = ExcelSheets[n]
    BY <1>4
  <2>2. n \in 1..L /\ x \in Excel!Range(P(n)) /\ P(n) \in Seq(ExcelSection)
    BY <1>2, <1>7, <2>1
  <2>3. PICK i \in 1..Len(P(n)) : x = P(n)[i]
    BY <2>2 DEF Excel!Range
  <2>4. PICK j \in 1..Len(sections) : sections[j] = x
    BY <1>3, <2>2, <2>3
  <2>5. x \in Excel!Range(sections)
    BY <2>4 DEF Excel!Range
  <2> QED
    BY <1>6, <2>5
<1>14. grid.omitted = omitted
  BY <1>5
<1>15. sections # <<>>
  BY <1>2, <1>3
<1>16. /\ grid.sections \in Seq(ExcelSection) /\ grid.sections # <<>>
       /\ \A i \in 1..Len(grid.sections) : \A c \in grid.sections[i].cells :
            c[1] = grid.sections[i].sheet
  BY <1>3, <1>5, <1>9, <1>15
<1> QED
  BY <1>10, <1>11, <1>12, <1>13, <1>14, <1>16 DEF grid, ExcelGridOf

-----------------------------------------------------------------------------
(* What the window promises of the sheets it was given. *)

\* A colour is that of the change of the newest pair.
LEMMA ColourIsTrue ==
  ASSUME NEW b, NEW c, NEW histories, \A h \in histories : ExcelColoured(b, c, h)
  PROVE  LET colour == Excel!Colour(b, c, histories)
         IN  /\ colour # "none" =>
                  Excel!Differs(b, c, 2, 1) /\ colour = Excel!Kind(b[c][2], b[c][1])
             /\ Excel!Full(c[1]) /\ Excel!Differs(b, c, 2, 1) => colour # "none"
<1> DEFINE colour == Excel!Colour(b, c, histories)
           newest == {h \in histories : h.from = 2 /\ h.to = 1}
           chosen == CHOOSE h \in histories : h.from = 2 /\ h.to = 1
           kind == Excel!Kind(b[c][2], b[c][1])
           whole == Excel!Full(c[1]) /\ Excel!Differs(b, c, 2, 1)
<1>1. kind # "none"
  BY DEF Excel!Kind
<1>2. colour = IF whole THEN kind ELSE IF newest # {} THEN chosen.kind ELSE "none"
  BY DEF Excel!Colour
<1>3. newest # {} => chosen.kind = kind /\ Excel!Differs(b, c, 2, 1)
  <2>1. newest # {} => chosen \in histories /\ chosen.from = 2 /\ chosen.to = 1
    OBVIOUS
  <2> HIDE DEF newest, chosen
  <2> QED
    BY <2>1 DEF ExcelColoured
<1>4. whole => Excel!Differs(b, c, 2, 1)
  OBVIOUS
<1> HIDE DEF kind, newest, chosen, colour
<1>5. colour # "none" => Excel!Differs(b, c, 2, 1) /\ colour = kind
  <2> HIDE DEF whole
  <2> QED
    BY <1>2, <1>3, <1>4
<1>6. whole => colour # "none"
  <2> HIDE DEF whole
  <2> QED
    BY <1>1, <1>2
<1> QED
  BY <1>5, <1>6 DEF colour, kind

ExcelCut(b, from, to, s) ==
  Len(Excel!Ranges(s, {f.cell : f \in {g \in Excel!Located(Excel!Issues(b, from, to)) :
                                         g.cell[1] = s}})) > ExcelMaxSections

\* A listed change whose column counts as found is in a section of its sheet.
LEMMA LocatedIsShown ==
  ASSUME NEW b, ExcelBook(b), NEW from \in 1..3, NEW to \in 1..3,
         NEW f \in Excel!Located(Excel!Issues(b, from, to)), ~ ExcelCut(b, from, to, f.cell[1])
  PROVE  LET H == Excel!SheetHistories(b, f.cell[1], Excel!Issues(b, from, to))
         IN  /\ \E x \in Excel!Range(Excel!SheetSections(f.cell[1], H)) : f.cell \in x.cells
             /\ f.history \in H[f.cell]
<1> DEFINE focuses == Excel!Issues(b, from, to)
           s == f.cell[1]
           H == Excel!SheetHistories(b, s, focuses)
           C == {c \in DOMAIN H : H[c] # {}}
           located == {g.cell : g \in {e \in Excel!Located(focuses) : e.cell[1] = s}}
           sections == Excel!SheetSections(s, H)
<1>1. f.cell \in Excel!Cells /\ s \in Excel!Range(ExcelSheets)
  BY IssuesAre, CellsAre DEF Excel!Located
<1>2. /\ DOMAIN H = ExcelCellsOf(s) /\ f.history \in H[f.cell]
      /\ ~ Excel!Full(s) => C = located
  BY HistoriesTell
<1>3. f.cell \in C
  BY <1>1, <1>2 DEF ExcelCellsOf
<1>4. Len(Excel!Ranges(s, C)) <= ExcelMaxSections
  <2>1. CASE Excel!Full(s)
    <3>1. Excel!Ranges(s, C) = <<Excel!Whole(s)>>
      BY <2>1 DEF Excel!Ranges
    <3> DEFINE n == Len(Excel!Ranges(s, C))
    <3>2. n = 1
      BY <3>1
    <3> HIDE DEF n
    <3>3. n <= ExcelMaxSections
      BY <3>2, ExcelAssumption
    <3> QED
      BY <3>3 DEF n
  <2>2. CASE ~ Excel!Full(s)
    <3>1. C = located
      BY <1>2, <2>2
    <3> DEFINE n == Len(Excel!Ranges(s, located))
    <3>2. ~ (n > ExcelMaxSections)
      BY DEF ExcelCut
    <3>3. n \in Nat
      <4>1. located \in SUBSET ExcelCellsOf(s)
        BY <1>2, <3>1
      <4> HIDE DEF located
      <4>2. Excel!Ranges(s, located) \in Seq(ExcelWithin(Excel!Whole(s)))
        BY <1>1, <4>1, RangesCover
      <4> QED
        BY <4>2
    <3>4. n <= ExcelMaxSections
      <4> HIDE DEF n
      <4> QED
        BY <3>2, <3>3, ExcelAssumption
    <3> QED
      BY <3>1, <3>4
  <2> QED
    BY <2>1, <2>2
<1>5. /\ sections \in Seq(ExcelSection)
      /\ \A c \in C : \E i \in 1..Len(sections) : c \in sections[i].cells
  <2> HIDE DEF H, s
  <2> QED
    BY <1>1, <1>2, <1>4, SheetShows
<1>6. PICK i \in 1..Len(sections) : f.cell \in sections[i].cells
  <2> HIDE DEF C, sections, H, s
  <2> QED
    BY <1>3, <1>5
<1>7. sections[i] \in Excel!Range(sections)
  <2> HIDE DEF sections
  <2>1. i \in DOMAIN sections
    BY <1>5
  <2> QED
    BY DEF Excel!Range
<1> QED
  BY <1>2, <1>6, <1>7

\* Every change that is listed for a sheet of the window is shown there, or counted.
LEMMA GridIsComplete ==
  ASSUME NEW b, ExcelBook(b), NEW from \in 1..3, NEW to \in 1..3
  PROVE  LET focuses == Excel!Issues(b, from, to)
             grid == Excel!Grid(b, focuses)
             Seen(f) ==
               /\ f.cell \in Excel!ShownCells(grid)
               /\ \E h \in grid.histories[f.cell] :
                    /\ h.from = from /\ h.to = to
                    /\ Excel!displayExcelGridValue(h.before) = b[f.cell][h.from]
                    /\ Excel!displayExcelGridValue(h.after) = b[f.cell][h.to]
             missed == {f \in focuses : f.cell[1] \in Excel!SheetNames(grid) /\ ~ Seen(f)}
         IN  \/ \E s \in Excel!SheetNames(grid) : ExcelCut(b, from, to, s)
             \/ Excel!Cardinality(missed) <= grid.omitted
<1> DEFINE focuses == Excel!Issues(b, from, to)
           grid == Excel!Grid(b, focuses)
           sheets == ExcelSheetsTried(focuses)
           Seen(f) ==
             /\ f.cell \in Excel!ShownCells(grid)
             /\ \E h \in grid.histories[f.cell] :
                  /\ h.from = from /\ h.to = to
                  /\ Excel!displayExcelGridValue(h.before) = b[f.cell][h.from]
                  /\ Excel!displayExcelGridValue(h.after) = b[f.cell][h.to]
           missed == {f \in focuses : f.cell[1] \in Excel!SheetNames(grid) /\ ~ Seen(f)}
           inside == ExcelOfSheets(focuses)
           unseen == inside \ Excel!Located(inside)
           beyond == Excel!Named(focuses) \ Excel!Tried(focuses)
<1> SUFFICES ASSUME ~ \E s \in Excel!SheetNames(grid) : ExcelCut(b, from, to, s)
             PROVE  Excel!Cardinality(missed) <= grid.omitted
  <2> HIDE DEF missed, grid
  <2> QED
    BY DEF missed, grid
<1>1. /\ IsFiniteSet(focuses)
      /\ \A f \in focuses :
           /\ f.cell \in Excel!Cells /\ Excel!Differs(b, f.cell, from, to)
           /\ f.history = Excel!Labelled(Excel!History(b, f.cell, from, to))
  BY IssuesAre
<1>2. /\ Excel!SheetNames(grid) \subseteq sheets
      /\ \A c \in Excel!Cells : c[1] \in sheets =>
           grid.histories[c] = Excel!SheetHistories(b, c[1], focuses)[c]
      /\ \A s \in sheets :
           \A x \in Excel!Range(Excel!SheetSections(s, Excel!SheetHistories(b, s, focuses))) :
             x.cells \subseteq Excel!ShownCells(grid)
      /\ grid.omitted = Excel!Cardinality(unseen) + Excel!Cardinality(beyond)
  <2>1. ExcelGridOf(b, focuses, grid)
    BY GridCells
  <2> HIDE DEF focuses, grid
  <2> QED
    BY <2>1 DEF ExcelGridOf
<1>3. IsFiniteSet(Excel!Named(focuses))
  BY PartsAre
<1> HIDE DEF grid
<1>4. ASSUME NEW f \in focuses, f.cell[1] \in Excel!SheetNames(grid), f.cell[3] # 1
      PROVE  Seen(f)
  <2> DEFINE s == f.cell[1]
             H == Excel!SheetHistories(b, s, focuses)
  <2>1. f \in Excel!Located(focuses)
    BY <1>4 DEF Excel!Located
  <2>2. ~ ExcelCut(b, from, to, s)
    BY <1>4
  <2>3. /\ \E x \in Excel!Range(Excel!SheetSections(s, H)) : f.cell \in x.cells
        /\ f.history \in H[f.cell]
    <3> HIDE DEF focuses
    <3> QED
      BY <2>1, <2>2, LocatedIsShown DEF focuses
  <2>4. s \in sheets
    BY <1>2, <1>4
  <2>5. f.cell \in Excel!ShownCells(grid)
    <3> HIDE DEF s
    <3> QED
      BY <1>2, <2>3, <2>4
  <2>6. grid.histories[f.cell] = H[f.cell]
    BY <1>1, <1>2, <1>4
  <2>7. /\ ExcelTells(b, f.cell, f.history)
        /\ f.history.from = from /\ f.history.to = to
    BY <1>1, HistoryTells
  <2> QED
    BY <2>3, <2>5, <2>6, <2>7 DEF ExcelTells
<1>5. missed \subseteq unseen
  <2> SUFFICES ASSUME NEW f \in missed PROVE f \in unseen
    OBVIOUS
  <2>1. f \in focuses /\ f.cell[1] \in Excel!SheetNames(grid) /\ ~ Seen(f)
    OBVIOUS
  <2> HIDE DEF Seen, focuses
  <2>2. f.cell[3] = 1
    BY <1>4
  <2>3. f.cell[1] \in sheets
    BY <1>2
  <2>4. f \in inside
    BY <2>3 DEF ExcelOfSheets
  <2>5. f \notin Excel!Located(inside)
    <3> HIDE DEF inside
    <3> QED
      BY <2>2 DEF Excel!Located
  <2> QED
    BY <2>4, <2>5
<1>6. IsFiniteSet(unseen) /\ IsFiniteSet(beyond)
  <2>1. unseen \subseteq focuses /\ beyond \subseteq Excel!Named(focuses)
    BY DEF ExcelOfSheets
  <2> HIDE DEF unseen, beyond, focuses
  <2> QED
    BY <1>1, <1>3, <2>1, FS_Subset
<1> HIDE DEF missed, unseen, beyond
<1>7. /\ Cardinality(missed) \in Nat /\ Cardinality(missed) <= Cardinality(unseen)
      /\ Cardinality(unseen) \in Nat /\ Cardinality(beyond) \in Nat
  BY <1>5, <1>6, FS_Subset, FS_CardinalityType
<1> QED
  BY <1>2, <1>7, ExcelCounts

\* What is told of a cell of the window is true, and so is its colour.
LEMMA GridIsTrue ==
  ASSUME NEW b, ExcelBook(b), NEW from \in 1..3, NEW to \in 1..3
  PROVE  LET grid == Excel!Grid(b, Excel!Issues(b, from, to))
         IN  \A c \in Excel!ShownCells(grid) :
               /\ \A h \in grid.histories[c] : ExcelTells(b, c, h)
               /\ grid.colours[c] # "none" =>
                    /\ Excel!Differs(b, c, 2, 1)
                    /\ grid.colours[c] = Excel!Kind(b[c][2], b[c][1])
               /\ Excel!Full(c[1]) /\ Excel!Differs(b, c, 2, 1) => grid.colours[c] # "none"
<1> DEFINE focuses == Excel!Issues(b, from, to)
           grid == Excel!Grid(b, focuses)
<1>1. \A c \in Excel!ShownCells(grid) :
        /\ c \in Excel!Cells
        /\ grid.histories[c] = Excel!SheetHistories(b, c[1], focuses)[c]
        /\ grid.colours[c] = Excel!Colour(b, c, grid.histories[c])
  <2>1. ExcelGridOf(b, focuses, grid)
    BY GridCells
  <2> HIDE DEF focuses, grid
  <2> QED
    BY <2>1 DEF ExcelGridOf
<1>2. ASSUME NEW c \in Excel!Cells
      PROVE  \A h \in Excel!SheetHistories(b, c[1], focuses)[c] :
               ExcelTells(b, c, h) /\ ExcelColoured(b, c, h)
  <2>1. c \in ExcelCellsOf(c[1])
    BY DEF ExcelCellsOf
  <2> QED
    BY <2>1, HistoriesTell
<1> HIDE DEF grid, focuses
<1>3. ASSUME NEW c \in Excel!ShownCells(grid)
      PROVE  /\ \A h \in grid.histories[c] : ExcelTells(b, c, h)
             /\ grid.colours[c] # "none" =>
                  /\ Excel!Differs(b, c, 2, 1)
                  /\ grid.colours[c] = Excel!Kind(b[c][2], b[c][1])
             /\ Excel!Full(c[1]) /\ Excel!Differs(b, c, 2, 1) => grid.colours[c] # "none"
  <2> DEFINE histories == grid.histories[c]
             colour == grid.colours[c]
  <2>1. /\ \A h \in histories : ExcelTells(b, c, h) /\ ExcelColoured(b, c, h)
        /\ colour = Excel!Colour(b, c, histories)
    BY <1>1, <1>2
  <2> HIDE DEF histories, colour
  <2>2. /\ colour # "none" =>
             Excel!Differs(b, c, 2, 1) /\ colour = Excel!Kind(b[c][2], b[c][1])
        /\ Excel!Full(c[1]) /\ Excel!Differs(b, c, 2, 1) => colour # "none"
    BY <2>1, ColourIsTrue
  <2> QED
    BY <2>1, <2>2 DEF histories, colour
<1> QED
  BY <1>3 DEF grid, focuses

-----------------------------------------------------------------------------
(* The window of the sheets.  Its answer is that of the pair it was asked  *)
(* for, and an opened cell tells what the files have there.                *)
ExcelPair == [from : 1..3, to : 1..3]
ExcelModalFields == {"at", "of", "grid", "sheet", "opened"}
ExcelWindow(b, modal) ==
  /\ DOMAIN modal = ExcelModalFields /\ modal = [field \in ExcelModalFields |-> modal[field]]
  /\ modal.at = "shown" =>
       /\ modal.of \in ExcelPair
       /\ modal.grid = Excel!Grid(b, Excel!Issues(b, modal.of.from, modal.of.to))
  /\ \A h \in modal.opened.histories : ExcelTells(b, modal.opened.cell, h)
ExcelState(b, pair, calls, modal) ==
  /\ ExcelBook(b)
  /\ pair \in ExcelPair \cup {Excel!NoPair} /\ calls \in Seq(ExcelPair)
  /\ ExcelWindow(b, modal)
ExcelInv == ExcelState(v1, v2, v4, v5)

\* No cell contains the label of an empty one, and the window is closed.
LEMMA ClosedIs == \A b : ExcelWindow(b, Excel!Closed) /\ Excel!Closed.at = "closed"
BY DEF ExcelWindow, ExcelModalFields, Excel!Closed, Excel!NoCell

\* No window is open when a comparison begins.
LEMMA ExcelInit == Excel!Init => ExcelInv
<1> SUFFICES ASSUME Excel!Init PROVE ExcelInv
  OBVIOUS
<1>1. PICK D \in SUBSET Excel!Cells : \E f \in [D -> ExcelCourses] :
        v1 = [c \in Excel!Cells |-> IF c \in D THEN f[c] ELSE ExcelSame]
  BY DEF Excel!Init
<1>2. PICK f \in [D -> ExcelCourses] :
        v1 = [c \in Excel!Cells |-> IF c \in D THEN f[c] ELSE ExcelSame]
  BY <1>1
<1>3. ASSUME NEW c \in Excel!Cells, NEW i \in 1..3 PROVE v1[c][i] # Excel!EmptyLabel
  BY <1>2, ExcelAssumption DEF Excel!EmptyLabel
<1>4. ExcelBook(v1)
  BY <1>3 DEF ExcelBook
<1>5. v2 = Excel!NoPair /\ v4 = <<>> /\ v5 = Excel!Closed
  BY DEF Excel!Init
<1> QED
  BY <1>4, <1>5, ClosedIs DEF ExcelInv, ExcelState

\* Another pair is compared.
LEMMA ExcelCompare ==
  ASSUME ExcelInv, NEW from \in 1..3, NEW to \in 1..3, Excel!Compare(from, to)
  PROVE  ExcelInv'
  BY DEF Excel!Compare, ExcelPair, ExcelInv, ExcelState

\* A window that waits or has failed shows nothing.
LEMMA EmptyWindow ==
  ASSUME NEW b, NEW at \in {"loading", "failed"}
  PROVE  ExcelWindow(b, [Excel!Closed EXCEPT !.at = at])
<1> DEFINE modal == [Excel!Closed EXCEPT !.at = at]
<1>1. DOMAIN Excel!Closed = ExcelModalFields /\ Excel!Closed.opened.histories = {}
  BY DEF Excel!Closed, Excel!NoCell, ExcelModalFields
<1>2. /\ DOMAIN modal = ExcelModalFields /\ modal.at = at
      /\ modal.opened = Excel!Closed.opened
      /\ modal = [field \in ExcelModalFields |-> modal[field]]
  BY <1>1 DEF ExcelModalFields
<1> HIDE DEF modal
<1>3. modal.at # "shown" /\ modal.opened.histories = {}
  BY <1>1, <1>2
<1> QED
  BY <1>2, <1>3 DEF ExcelWindow, modal

\* Opening the grid shows an empty window that waits.
LEMMA ExcelOpen ==
  ASSUME ExcelInv, Excel!OpenGrid
  PROVE  ExcelInv'
  BY EmptyWindow DEF Excel!OpenGrid, ExcelInv, ExcelState

\* Closing it leaves nothing.
LEMMA ExcelClose ==
  ASSUME ExcelInv, Excel!CloseGrid
  PROVE  ExcelInv'
  BY ClosedIs DEF Excel!CloseGrid, ExcelInv, ExcelState

\* The calls that wait on are calls, and one less.
LEMMA ExcelUnanswered ==
  ASSUME ExcelInv, NEW i \in DOMAIN v4
  PROVE  /\ Excel!Unanswered(i) \in Seq(ExcelPair) /\ v4[i] \in ExcelPair
         /\ Len(Excel!Unanswered(i)) = Len(v4) - 1 /\ Len(v4) \in Nat
  BY SequenceWithout DEF ExcelInv, ExcelState, Excel!Unanswered

\* The answer of a call is shown, and with it the opened cell of the window, if any.
LEMMA ExcelArrives ==
  ASSUME ExcelInv, NEW i \in DOMAIN v4, Excel!GridArrives(i)
  PROVE  ExcelInv'
<1> DEFINE of == v4[i]
           grid == Excel!Grid(v1, Excel!Issues(v1, of.from, of.to))
           kept == v5.sheet \in Excel!SheetNames(grid)
           sheet == IF kept THEN v5.sheet ELSE grid.sections[1].sheet
           opened == IF kept THEN v5.opened ELSE Excel!NoCell
<1>1. v5' = [at |-> "shown", of |-> of, grid |-> grid, sheet |-> sheet, opened |-> opened]
  BY DEF Excel!GridArrives
<1>2. v4' = Excel!Unanswered(i) /\ UNCHANGED <<v1, v2>>
  BY DEF Excel!GridArrives
<1>3. Excel!Unanswered(i) \in Seq(ExcelPair) /\ of \in ExcelPair
  BY ExcelUnanswered
<1>4. \A h \in opened.histories : ExcelTells(v1, opened.cell, h)
  <2>1. opened = v5.opened \/ opened = Excel!NoCell
    OBVIOUS
  <2>2. \A h \in v5.opened.histories : ExcelTells(v1, v5.opened.cell, h)
    BY DEF ExcelInv, ExcelState, ExcelWindow
  <2>3. Excel!NoCell.histories = {}
    BY DEF Excel!NoCell
  <2> HIDE DEF opened
  <2> QED
    BY <2>1, <2>2, <2>3
<1> HIDE DEF sheet, opened, kept
<1>5. ExcelWindow(v1, v5')
  <2> DEFINE modal == v5'
  <2>1. modal = [at |-> "shown", of |-> of, grid |-> grid, sheet |-> sheet,
                 opened |-> opened]
    BY <1>1
  <2>2. grid = Excel!Grid(v1, Excel!Issues(v1, of.from, of.to))
    OBVIOUS
  <2> HIDE DEF modal, grid, of
  <2>3. /\ DOMAIN modal = ExcelModalFields
        /\ modal = [field \in ExcelModalFields |-> modal[field]]
        /\ modal.of = of /\ modal.grid = grid /\ modal.opened = opened
    BY <2>1 DEF ExcelModalFields
  <2>4. ExcelWindow(v1, modal)
    BY <1>3, <1>4, <2>2, <2>3 DEF ExcelWindow
  <2> QED
    BY <2>4 DEF modal
<1> QED
  BY <1>2, <1>3, <1>5 DEF ExcelInv, ExcelState

\* A grid that could not be fetched leaves an empty window.
LEMMA ExcelFails ==
  ASSUME ExcelInv, NEW i \in DOMAIN v4, Excel!GridFails(i)
  PROVE  ExcelInv'
<1>1. /\ v5' = [Excel!Closed EXCEPT !.at = "failed"] /\ v4' = Excel!Unanswered(i)
      /\ UNCHANGED <<v1, v2>>
  BY DEF Excel!GridFails
<1> QED
  BY <1>1, ExcelUnanswered, EmptyWindow DEF ExcelInv, ExcelState

\* A window whose chosen sheet or opened cell changes keeps what it shows.
LEMMA WindowChanges ==
  ASSUME NEW b, NEW modal, ExcelWindow(b, modal), NEW sheet, NEW opened,
         \A h \in opened.histories : ExcelTells(b, opened.cell, h),
         NEW next, next = [modal EXCEPT !.sheet = sheet, !.opened = opened]
  PROVE  ExcelWindow(b, next)
<1>1. DOMAIN modal = ExcelModalFields
  BY DEF ExcelWindow
<1>2. /\ DOMAIN next = ExcelModalFields /\ next = [field \in ExcelModalFields |-> next[field]]
      /\ next.at = modal.at /\ next.of = modal.of /\ next.grid = modal.grid
      /\ next.opened = opened
  BY <1>1 DEF ExcelModalFields
<1> QED
  BY <1>2, Zenon DEF ExcelWindow

\* Choosing a sheet changes nothing that is shown of the others.
LEMMA ExcelSelectSheet ==
  ASSUME ExcelInv, NEW s, Excel!SelectSheet(s)
  PROVE  ExcelInv'
<1>1. /\ v5' = [v5 EXCEPT !.sheet = s, !.opened = Excel!NoCell] /\ UNCHANGED <<v1, v2, v4>>
  BY DEF Excel!SelectSheet
<1>2. \A h \in Excel!NoCell.histories : ExcelTells(v1, Excel!NoCell.cell, h)
  BY DEF Excel!NoCell
<1>3. ExcelWindow(v1, v5)
  BY DEF ExcelInv, ExcelState
<1>4. ExcelWindow(v1, v5')
  <2> DEFINE next == v5'
             none == Excel!NoCell
  <2>1. next = [v5 EXCEPT !.sheet = s, !.opened = none]
    BY <1>1
  <2> HIDE DEF next, none
  <2>2. ExcelWindow(v1, next)
    BY <1>2, <1>3, <2>1, WindowChanges, Zenon DEF none
  <2> QED
    BY <2>2 DEF next
<1> QED
  BY <1>1, <1>4 DEF ExcelInv, ExcelState

\* An opened cell shows only what is told of it.
LEMMA ExcelSelectCell ==
  ASSUME ExcelInv, NEW c, Excel!SelectCell(c)
  PROVE  ExcelInv'
<1> DEFINE opened == [cell |-> c, histories |-> v5.grid.histories[c]]
<1>1. /\ c \in Excel!CellsOnScreen /\ v5' = [v5 EXCEPT !.opened = opened]
      /\ UNCHANGED <<v1, v2, v4>>
  BY DEF Excel!SelectCell
<1>2. v5.at = "shown" /\ c \in Excel!ShownCells(v5.grid)
  BY <1>1 DEF Excel!CellsOnScreen, Excel!visibleSections, Excel!ShownCells
<1>3. ExcelWindow(v1, v5) /\ ExcelBook(v1)
  BY DEF ExcelInv, ExcelState
<1>4. /\ v5.of.from \in 1..3 /\ v5.of.to \in 1..3
      /\ v5.grid = Excel!Grid(v1, Excel!Issues(v1, v5.of.from, v5.of.to))
  BY <1>2, <1>3 DEF ExcelWindow, ExcelPair
<1>5. \A h \in v5.grid.histories[c] : ExcelTells(v1, c, h)
  BY <1>2, <1>3, <1>4, GridIsTrue
<1>6. \A h \in opened.histories : ExcelTells(v1, opened.cell, h)
  BY <1>5
<1> HIDE DEF opened
<1>7. v5' = [v5 EXCEPT !.sheet = v5.sheet, !.opened = opened]
  <2>1. DOMAIN v5 = ExcelModalFields /\ v5 = [field \in ExcelModalFields |-> v5[field]]
    BY <1>3 DEF ExcelWindow
  <2> QED
    BY <1>1, <2>1 DEF ExcelModalFields
<1>8. ExcelWindow(v1, v5')
  <2> DEFINE next == v5'
             sheet == v5.sheet
  <2>1. next = [v5 EXCEPT !.sheet = sheet, !.opened = opened]
    BY <1>7
  <2> HIDE DEF next, sheet
  <2>2. ExcelWindow(v1, next)
    BY <1>3, <1>6, <2>1, WindowChanges, Zenon
  <2> QED
    BY <2>2 DEF next
<1> QED
  BY <1>1, <1>8 DEF ExcelInv, ExcelState

\* Every step of the page.
LEMMA ExcelKeeps ==
  ASSUME ExcelInv, Excel!Next \/ UNCHANGED Excel!vars
  PROVE  ExcelInv'
  BY ExcelCompare, ExcelOpen, ExcelClose, ExcelArrives, ExcelFails, ExcelSelectSheet,
     ExcelSelectCell
  DEF ExcelInv, Excel!vars, Excel!Next, Excel!Files

\* What the invariant says of the window.
LEMMA ExcelPromises ==
  ASSUME ExcelInv
  PROVE  Excel!ChangesAreShown /\ Excel!ColoursAreTrue
<1>1. ExcelBook(v1) /\ ExcelWindow(v1, v5)
  BY DEF ExcelInv, ExcelState
<1> SUFFICES ASSUME v5.at = "shown" PROVE Excel!ChangesAreShown /\ Excel!ColoursAreTrue
  BY DEF Excel!ChangesAreShown, Excel!ColoursAreTrue
<1>2. /\ v5.of.from \in 1..3 /\ v5.of.to \in 1..3
      /\ v5.grid = Excel!Grid(v1, Excel!Issues(v1, v5.of.from, v5.of.to))
  BY <1>1 DEF ExcelWindow, ExcelPair
<1>3. Excel!ChangesAreShown
  BY <1>1, <1>2, GridIsComplete DEF Excel!ChangesAreShown, ExcelCut
<1>4. Excel!ColoursAreTrue
  <2>1. \A c \in Excel!ShownCells(v5.grid) :
          /\ v5.grid.colours[c] # "none" =>
               /\ Excel!Differs(v1, c, 2, 1)
               /\ v5.grid.colours[c] = Excel!Kind(v1[c][2], v1[c][1])
          /\ Excel!Full(c[1]) /\ Excel!Differs(v1, c, 2, 1) => v5.grid.colours[c] # "none"
    BY <1>1, <1>2, GridIsTrue
  <2>2. \A h \in v5.opened.histories : ExcelTells(v1, v5.opened.cell, h)
    BY <1>1 DEF ExcelWindow
  <2>3. \A h \in Excel!CellDetail :
          /\ h.before = v1[v5.opened.cell][h.from]
          /\ h.after = v1[v5.opened.cell][h.to]
    BY <2>2 DEF Excel!CellDetail, ExcelTells
  <2> QED
    BY <2>1, <2>3 DEF Excel!ColoursAreTrue
<1> QED
  BY <1>3, <1>4

\* Every change that was listed for a sheet of the window is in one of its sections, with the
\* contents that the two files have, or is counted as not shown, and the colours and the
\* histories are those of the files: for sheets and limits of every size, whatever answers come.
THEOREM GridShows == Spec => []GridShowsTheChanges
<1> DEFINE Inv == screen = "excel" => ExcelInv
<1>1. Init => Inv
  BY ExcelInit DEF Init
<1>2. Inv /\ [Next]_vars => Inv'
  BY OnePage, ExcelKeeps
<1>3. Inv => GridShowsTheChanges
  BY ExcelPromises DEF GridShowsTheChanges
<1> QED
  BY <1>1, <1>2, <1>3, PTL DEF Spec

-----------------------------------------------------------------------------
(* All pages. *)

\* A page that shows that it is working has a request whose end will stop it.
THEOREM SpinnersTrue == Spec => []SpinnersAreTrue
<1> DEFINE Inv == /\ screen = "quick" => QuickInv
                  /\ screen = "search" => SearchInv
                  /\ screen = "groups" => ListInv
                  /\ screen = "history" => HistoryInv
                  /\ screen = "files" => RegisteredInv
                  /\ screen = "duplicates" => DuplicatesInv
<1>1. Init => Inv
  BY QuickInit, SearchInit, ListInit, HistoryInit, RegisteredInit, DuplicatesInit DEF Init
<1>2. Inv /\ [Next]_vars => Inv'
  BY OnePage, QuickKeeps, SearchKeeps, ListKeeps, HistoryKeeps, RegisteredKeeps, DuplicatesKeeps
<1>3. Inv => SpinnersAreTrue
  BY SearchTrue DEF QuickInv, ListInv, HistoryInv, RegisteredInv, DuplicatesInv, SpinnersAreTrue
<1> QED
  BY <1>1, <1>2, <1>3, PTL DEF Spec

=============================================================================

---------------------- MODULE GroupIndexRefreshProofs ----------------------
(***************************************************************************)
(* The index of the groups, for every set of files, clients and readers:   *)
(* the types, one refresh at a time, and that an undisturbed index which   *)
(* calls itself ready shows the registered files. TypeOK is proved group   *)
(* of variables by group of variables; RefreshExclusive is inductive with  *)
(* it; UndisturbedIsFresh needs Undisturbed, whose heart is InHands: a     *)
(* file that the tables do not show as registered is always in the hands   *)
(* of somebody who will bring it there.                                    *)
(***************************************************************************)
EXTENDS GroupIndexRefresh, TLAPS

-----------------------------------------------------------------------------
(***************************************************************************)
(* The type invariant, by the tables it is about.                          *)
(***************************************************************************)
RegType == reg \in [Files -> [status : {"new", "available", "missing", "deleted"}, ver : Versions]]
TablesType ==
  facts \in [Files -> Versions] /\ group \in [Files -> Versions] /\ dirty \subseteq Keys
IndexRecord == [state : States, targeted : BOOLEAN]
IndexType ==
  /\ index \in IndexRecord /\ scanning \in BOOLEAN /\ refreshLock \in Refreshers \cup {Free}
  /\ pendingFull \in BOOLEAN /\ disturbances \in Scenarios
PcType == pc \in [Processes -> Points]
ArgsType == args \in [Processes -> Args]
LocalType == local \in [Processes -> Local]
Types == RegType /\ TablesType /\ IndexType /\ PcType /\ ArgsType /\ LocalType

LEMMA TypesAreTypeOK == TypeOK <=> Types
BY DEF TypeOK, Types, RegType, TablesType, IndexType, IndexRecord, PcType, ArgsType, LocalType

LEMMA Sorts ==
  /\ Worker \in Refreshers /\ Scan \in Changers /\ Readers \subseteq Refreshers
  /\ Clients \subseteq Changers /\ Changers \subseteq Processes /\ Refreshers \subseteq Processes
  /\ {Worker, Scan} \subseteq Processes /\ Clients \subseteq Processes /\ Readers \subseteq Processes
  /\ Scan # Worker /\ Scan \notin Clients /\ Worker \notin Readers
  /\ \A c \in Changers, r \in Refreshers : c # r
BY ProcessesAssumption DEF Processes, Refreshers, Changers

LEMMA NoArgsType == NoArgs \in Args /\ FullArgs \in Args
BY DEF NoArgs, FullArgs, Args

LEMMA NoLocalType == NoLocal \in Local
BY BoundAssumption DEF NoLocal, Local, Versions

LEMMA KeysOfType == ASSUME NEW a \in Args PROVE KeysOf(a) \subseteq Keys
BY DEF KeysOf, Keys, Args

LEMMA SetStateType == ASSUME NEW st \in States, SetState(st) PROVE index' \in IndexRecord
BY DEF SetState, IndexRecord

LEMMA MarkDirtyType ==
  ASSUME TablesType, IndexType, NEW a \in Args, MarkDirty(a)
  PROVE dirty' \subseteq Keys /\ index' \in IndexRecord
<1>1. dirty' \subseteq Keys BY KeysOfType DEF MarkDirty, TablesType
<1>2. "stale" \in States BY DEF States
<1>3. index' \in IndexRecord BY <1>2, SetStateType DEF MarkDirty, IndexType, IndexRecord
<1> QED BY <1>1, <1>3

LEMMA AskType ==
  ASSUME TablesType, IndexType, NEW a \in Args, Ask(a)
  PROVE dirty' \subseteq Keys /\ index' \in IndexRecord
<1>1. "repair_needed" \in States BY DEF States
<1>2. CASE a.full BY <1>1, <1>2, SetStateType DEF Ask, TablesType
<1>3. CASE ~a.full BY <1>3, MarkDirtyType DEF Ask
<1> QED BY <1>2, <1>3

LEMMA AvailableType == ASSUME RegType PROVE Available \in [Files -> Versions]
        /\ [f \in Files |-> IF Row(f) THEN reg[f].ver ELSE 0] \in [Files -> Versions]
BY BoundAssumption DEF RegType, Available, Row, Versions

LEMMA RepairArgsType == [NoArgs EXCEPT !.full = NeedsRepair] \in Args
<1>1. [NoArgs EXCEPT !.full = TRUE] \in Args /\ [NoArgs EXCEPT !.full = FALSE] \in Args
  BY DEF NoArgs, Args
<1>2. NeedsRepair = TRUE \/ NeedsRepair = FALSE BY DEF NeedsRepair
<1> QED BY <1>1, <1>2

LEMMA RegisterType == ASSUME Types, NEW c \in Clients, NEW f \in Files, Register(c, f) PROVE Types'
<1>0. TablesType' /\ LocalType' BY DEF Register, Types, TablesType, LocalType
<1>1. RegType'
  BY BoundAssumption DEF Register, MayChange, Save, NeedRepair, Carry, Goto, Types, RegType,
      Versions
<1>3. IndexType'
  BY Sorts DEF Register, MayChange, Save, NeedRepair, Carry, Goto, Types, RegType, TablesType,
      IndexType, IndexRecord, ArgsType, Args, States, Refreshers, Processes, Changers
<1>4. PcType'
  BY Sorts DEF Register, MayChange, Save, NeedRepair, Carry, Goto, Types, PcType, Points
<1>5. ArgsType'
  BY Sorts, NoArgsType DEF Register, MayChange, Save, NeedRepair, Carry, Goto, NoArgs, Types,
      ArgsType, Args
<1> QED BY <1>0, <1>1, <1>3, <1>4, <1>5 DEF Types

LEMMA RemoveType == ASSUME Types, NEW c \in Clients, NEW f \in Files, Remove(c, f) PROVE Types'
<1>0. LocalType' BY DEF Remove, Types, LocalType
<1>1. RegType'
  BY BoundAssumption DEF Remove, MayChange, Row, Delete, NeedRepair, Carry, Goto, Types, RegType,
      Versions
<1>2. TablesType'
  BY BoundAssumption DEF Remove, MayChange, Row, Delete, NeedRepair, Carry, Goto, Types, RegType,
      TablesType, LocalType, ArgsType, Local, Args, Keys, Versions, Refreshers, Processes
<1>3. IndexType'
  BY Sorts DEF Remove, MayChange, Row, Delete, NeedRepair, Carry, Goto, Types, RegType,
      TablesType, IndexType, IndexRecord, ArgsType, Args, States, Refreshers, Processes, Changers
<1>4. PcType'
  BY Sorts DEF Remove, MayChange, Row, Delete, NeedRepair, Carry, Goto, Types, PcType, Points
<1>5. ArgsType'
  BY Sorts, NoArgsType DEF Remove, MayChange, Row, Delete, NeedRepair, Carry, Goto, NoArgs, Types,
      ArgsType, Args
<1> QED BY <1>0, <1>1, <1>2, <1>3, <1>4, <1>5 DEF Types

LEMMA RemoveAllType == ASSUME Types, NEW c \in Clients, RemoveAll(c) PROVE Types'
<1>0. LocalType' BY DEF RemoveAll, Types, LocalType
<1>1. RegType'
  BY BoundAssumption DEF RemoveAll, MayChange, Row, Delete, SetState, Carry, Goto, Types, RegType,
      Versions
<1>2. TablesType'
  BY BoundAssumption DEF RemoveAll, MayChange, Row, Delete, SetState, Carry, Goto, Types, RegType,
      TablesType, LocalType, ArgsType, Local, Args, Keys, Versions, Refreshers, Processes
<1>3. IndexType'
  BY Sorts DEF RemoveAll, MayChange, Row, Delete, SetState, Carry, Goto, Types, RegType,
      TablesType, IndexType, IndexRecord, ArgsType, Args, States, Refreshers, Processes, Changers
<1>4. PcType'
  BY Sorts DEF RemoveAll, MayChange, Row, Delete, SetState, Carry, Goto, Types, PcType, Points
<1>5. ArgsType'
  BY Sorts, NoArgsType DEF RemoveAll, MayChange, Row, Delete, SetState, Carry, FullArgs, NoArgs,
      Goto, Types, ArgsType, Args
<1> QED BY <1>0, <1>1, <1>2, <1>3, <1>4, <1>5 DEF Types

LEMMA ScanBeginType == ASSUME Types, ScanBegin PROVE Types'
<1>0. RegType' /\ TablesType' /\ LocalType'
  BY DEF ScanBegin, Types, RegType, TablesType, LocalType
<1>3. IndexType'
  BY Sorts DEF ScanBegin, Carry, Goto, Types, RegType, TablesType, IndexType, IndexRecord,
      ArgsType, Args, States, Refreshers, Processes, Changers
<1>4. PcType' BY Sorts DEF ScanBegin, Carry, Goto, Types, PcType, Points
<1>5. ArgsType' BY Sorts, NoArgsType DEF ScanBegin, Carry, Goto, NoArgs, Types, ArgsType, Args
<1> QED BY <1>0, <1>3, <1>4, <1>5 DEF Types

LEMMA ScanMissingType == ASSUME Types, ScanMissing PROVE Types'
<1>0. TablesType' /\ LocalType' BY DEF ScanMissing, Types, TablesType, LocalType
<1>1. RegType'
  BY BoundAssumption DEF ScanMissing, NeedRepair, Carry, Goto, Types, RegType, Versions
<1>s. [state |-> "repair_needed", targeted |-> FALSE] \in IndexRecord BY DEF IndexRecord, States
<1>t. index' = index \/ index' = [state |-> "repair_needed", targeted |-> FALSE]
  BY DEF ScanMissing, NeedRepair
<1>3. IndexType' BY <1>s, <1>t DEF ScanMissing, Types, IndexType, IndexRecord
<1>4. PcType' BY Sorts DEF ScanMissing, NeedRepair, Carry, Goto, Types, PcType, Points
<1>5. ArgsType'
  <2>1. FullArgs \in Args
    BY NoArgsType DEF FullArgs, NoArgs, Args
  <2>2. args' = args \/ args' = [args EXCEPT ![Scan] = FullArgs]
    BY DEF ScanMissing, Carry
  <2>3. QED
    BY <2>1, <2>2 DEF Types, ArgsType
<1> QED BY <1>0, <1>1, <1>3, <1>4, <1>5 DEF Types

LEMMA ScanSaveType == ASSUME Types, NEW f \in Files, ScanSave(f) PROVE Types'
<1>0. TablesType' /\ PcType' /\ LocalType' BY DEF ScanSave, Types, TablesType, PcType, LocalType
<1>1. RegType' BY BoundAssumption DEF ScanSave, Save, NeedRepair, Types, RegType, Versions
<1>3. IndexType'
  BY Sorts DEF ScanSave, Save, NeedRepair, Types, RegType, TablesType, IndexType, IndexRecord,
      ArgsType, Args, States, Refreshers, Processes, Changers
<1>5. ArgsType' BY Sorts, NoArgsType DEF ScanSave, Save, NeedRepair, Types, ArgsType, Args
<1> QED BY <1>0, <1>1, <1>3, <1>5 DEF Types

LEMMA ScanRecoverType == ASSUME Types, NEW f \in Files, ScanRecover(f) PROVE Types'
<1>0. TablesType' /\ PcType' /\ LocalType'
  BY DEF ScanRecover, Types, TablesType, PcType, LocalType
<1>1. RegType' BY BoundAssumption DEF ScanRecover, NeedRepair, Types, RegType, Versions
<1>3. IndexType'
  BY Sorts DEF ScanRecover, NeedRepair, Types, RegType, TablesType, IndexType, IndexRecord,
      ArgsType, Args, States, Refreshers, Processes, Changers
<1>5. ArgsType' BY Sorts, NoArgsType DEF ScanRecover, NeedRepair, Types, ArgsType, Args
<1> QED BY <1>0, <1>1, <1>3, <1>5 DEF Types

LEMMA ScanRelocateType == ASSUME Types, NEW f \in Files, ScanRelocate(f) PROVE Types'
<1>0. TablesType' /\ PcType' /\ ArgsType' /\ LocalType'
  BY DEF ScanRelocate, Types, TablesType, PcType, ArgsType, LocalType
<1>1. RegType' BY BoundAssumption DEF ScanRelocate, Save, NeedRepair, Types, RegType, Versions
<1>3. IndexType'
  BY Sorts DEF ScanRelocate, Save, NeedRepair, Types, RegType, TablesType, IndexType, IndexRecord,
      ArgsType, Args, States, Refreshers, Processes, Changers
<1> QED BY <1>0, <1>1, <1>3 DEF Types

LEMMA ScanPurgeType == ASSUME Types, NEW f \in Files, ScanPurge(f) PROVE Types'
<1>0. LocalType' BY DEF ScanPurge, Types, LocalType
<1>1. RegType'
  BY BoundAssumption DEF ScanPurge, Delete, NeedRepair, Goto, Types, RegType, Versions
<1>2. TablesType'
  BY BoundAssumption DEF ScanPurge, Delete, NeedRepair, Goto, Types, RegType, TablesType,
      LocalType, ArgsType, Local, Args, Keys, Versions, Refreshers, Processes
<1>3. IndexType'
  BY Sorts DEF ScanPurge, Delete, NeedRepair, Goto, Types, RegType, TablesType, IndexType,
      IndexRecord, ArgsType, Args, States, Refreshers, Processes, Changers
<1>4. PcType' BY Sorts DEF ScanPurge, Delete, NeedRepair, Goto, Types, PcType, Points
<1>5. ArgsType'
  BY Sorts, NoArgsType DEF ScanPurge, Delete, NeedRepair, Goto, Types, ArgsType, Args
<1> QED BY <1>0, <1>1, <1>2, <1>3, <1>4, <1>5 DEF Types

LEMMA ScanEndType == ASSUME Types, ScanEnd PROVE Types'
<1>0. RegType' /\ TablesType' /\ LocalType'
  BY DEF ScanEnd, Types, RegType, TablesType, LocalType
<1>3. IndexType'
  BY Sorts DEF ScanEnd, Goto, Forget, Carry, Types, RegType, TablesType, IndexType, IndexRecord,
      ArgsType, Args, States, Refreshers, Processes, Changers
<1>4. PcType' BY Sorts DEF ScanEnd, Goto, Forget, Carry, Types, PcType, Points
<1>5. ArgsType'
  BY Sorts, NoArgsType DEF ScanEnd, Goto, Forget, Carry, NoArgs, Types, ArgsType, Args
<1> QED BY <1>0, <1>3, <1>4, <1>5 DEF Types

LEMMA ScheduleAfterRescanType == ASSUME Types, ScheduleAfterRescan PROVE Types'
<1>0. RegType' /\ TablesType' /\ IndexType' /\ LocalType'
  BY DEF ScheduleAfterRescan, Types, RegType, TablesType, IndexType, LocalType, IndexRecord
<1>p. "schedule" \in Points /\ "off" \in Points BY DEF Points
<1>q. \E x \in Points : pc' = [pc EXCEPT ![Scan] = x]
  BY <1>p DEF ScheduleAfterRescan, Goto, Forget
<1>4. PcType' BY <1>q DEF Types, PcType
<1>a. args[Scan] \in Args BY Sorts DEF Types, ArgsType
<1>r. \E x \in Args : args' = [args EXCEPT ![Scan] = x]
  <2>1. CASE args[Scan].full BY <2>1, NoArgsType DEF ScheduleAfterRescan, Carry, Forget
  <2>2. CASE ~args[Scan].full /\ args[Scan].changed # {}
    BY <2>2, <1>a DEF ScheduleAfterRescan, Types, ArgsType
  <2>3. CASE ~args[Scan].full /\ args[Scan].changed = {}
    BY <2>3, NoArgsType, RepairArgsType DEF ScheduleAfterRescan, Carry, Forget
  <2> QED BY <2>1, <2>2, <2>3
<1>5. ArgsType' BY <1>r DEF Types, ArgsType
<1> QED BY <1>0, <1>4, <1>5 DEF Types

LEMMA ScheduleType == ASSUME Types, NEW p \in Processes, Schedule(p) PROVE Types'
<1>a. args[p] \in Args BY Sorts DEF Types, ArgsType
<1>d. dirty' \subseteq Keys /\ index' \in IndexRecord BY AskType, <1>a DEF Schedule, Types
<1>0. RegType' /\ ArgsType' /\ LocalType' BY DEF Schedule, Types, RegType, ArgsType, LocalType
<1>2. TablesType' BY <1>d DEF Schedule, Types, TablesType
<1>3. IndexType' BY <1>d DEF Schedule, Types, IndexType, IndexRecord
<1>4. PcType'
  BY Sorts DEF Schedule, Ask, MarkDirty, KeysOf, SetState, Goto, Types, PcType, Points
<1> QED BY <1>0, <1>2, <1>3, <1>4 DEF Types

LEMMA LaunchType == ASSUME Types, NEW p \in Processes, Launch(p) PROVE Types'
<1>0. RegType' /\ TablesType' /\ LocalType' BY DEF Launch, Types, RegType, TablesType, LocalType
<1>3. IndexType'
  BY Sorts DEF Launch, Forget, Carry, Goto, Types, RegType, TablesType, IndexType, IndexRecord,
      ArgsType, Args, States, Refreshers, Processes, Changers
<1>4. PcType' BY Sorts DEF Launch, Forget, Carry, Goto, Types, PcType, Points
<1>5. ArgsType'
  BY Sorts, NoArgsType, ZenonT(30) DEF Launch, Forget, Carry, Goto, NoArgs, Types, ArgsType, Args
<1> QED BY <1>0, <1>3, <1>4, <1>5 DEF Types

LEMMA RequestType == ASSUME Types, NEW r \in Readers, Request(r) PROVE Types'
<1>0. RegType' /\ TablesType' /\ IndexType' /\ LocalType'
  BY DEF Request, Types, RegType, TablesType, IndexType, LocalType, IndexRecord
<1>4. PcType' BY Sorts DEF Request, Goto, Types, PcType, Points
<1>5. ArgsType' BY Sorts, RepairArgsType DEF Request, Carry, Types, ArgsType
<1> QED BY <1>0, <1>4, <1>5 DEF Types

LEMMA EnterType == ASSUME Types, NEW p \in Refreshers, Enter(p) PROVE Types'
<1>a. args[p] \in Args BY Sorts DEF Types, ArgsType
<1>b. ASSUME scanning PROVE dirty' \subseteq Keys /\ index' \in IndexRecord
  <2>1. Ask(args[p]) BY <1>b DEF Enter
  <2> QED BY <1>a, <2>1, AskType DEF Types
<1>c. ASSUME ~scanning PROVE dirty' \subseteq Keys /\ index' \in IndexRecord
  BY <1>c DEF Enter, Types, TablesType, IndexType, IndexRecord
<1>d. dirty' \subseteq Keys /\ index' \in IndexRecord BY <1>b, <1>c
<1>0. RegType' /\ LocalType' BY DEF Enter, Types, RegType, LocalType
<1>2. TablesType' BY <1>d DEF Enter, Types, TablesType
<1>3. IndexType' BY <1>d DEF Enter, Types, IndexType, IndexRecord
<1>4. PcType'
  BY Sorts DEF Enter, Ask, MarkDirty, KeysOf, SetState, Done, Carry, Goto, Types, PcType, Points
<1>5. ArgsType'
  BY Sorts, NoArgsType DEF Enter, Ask, MarkDirty, KeysOf, SetState, Done, Carry, Goto, NoArgs,
      Types, ArgsType, Args
<1> QED BY <1>0, <1>2, <1>3, <1>4, <1>5 DEF Types

LEMMA AcquireType == ASSUME Types, NEW p \in Refreshers, Acquire(p) PROVE Types'
<1>0. RegType' /\ TablesType' /\ ArgsType' /\ LocalType'
  BY DEF Acquire, Types, RegType, TablesType, ArgsType, LocalType
<1>3. IndexType'
  BY Sorts DEF Acquire, Goto, Types, RegType, TablesType, IndexType, IndexRecord, ArgsType, Args,
      States, Refreshers, Processes, Changers
<1>4. PcType' BY Sorts DEF Acquire, Goto, Types, PcType, Points
<1> QED BY <1>0, <1>3, <1>4 DEF Types

LEMMA TimeOutType == ASSUME Types, NEW p \in Refreshers, TimeOut(p) PROVE Types'
<1>a. args[p] \in Args BY Sorts DEF Types, ArgsType
<1>d. dirty' \subseteq Keys /\ index' \in IndexRecord BY AskType, <1>a DEF TimeOut, Types
<1>0. RegType' /\ LocalType' BY DEF TimeOut, Types, RegType, LocalType
<1>2. TablesType' BY <1>d DEF TimeOut, Types, TablesType
<1>3. IndexType' BY <1>d DEF TimeOut, Types, IndexType, IndexRecord
<1>4. PcType'
  BY Sorts DEF TimeOut, Ask, MarkDirty, KeysOf, SetState, Done, Carry, Goto, Types, PcType, Points
<1>5. ArgsType'
  BY Sorts, NoArgsType DEF TimeOut, Ask, MarkDirty, KeysOf, SetState, Done, Carry, Goto, NoArgs,
      Types, ArgsType, Args
<1> QED BY <1>0, <1>2, <1>3, <1>4, <1>5 DEF Types

LEMMA DecideType == ASSUME Types, NEW p \in Refreshers, Decide(p) PROVE Types'
<1>0. RegType' /\ TablesType' /\ ArgsType' /\ LocalType'
  BY DEF Decide, Types, RegType, TablesType, ArgsType, LocalType
<1>3. IndexType'
  BY Sorts DEF Decide, SetState, Goto, Types, RegType, TablesType, IndexType, IndexRecord,
      ArgsType, Args, States, Refreshers, Processes, Changers
<1>4. PcType' BY Sorts DEF Decide, SetState, Goto, Types, PcType, Points
<1> QED BY <1>0, <1>3, <1>4 DEF Types

LEMMA ReadAllType == ASSUME Types, NEW p \in Refreshers, ReadAll(p) PROVE Types'
<1>0. RegType' /\ TablesType' /\ IndexType' /\ ArgsType'
  BY DEF ReadAll, Types, RegType, TablesType, IndexType, ArgsType, IndexRecord
<1>4. PcType' BY Sorts DEF ReadAll, Available, Goto, Types, PcType, Points
<1>6. LocalType' BY Sorts, AvailableType, BoundAssumption, SMTT(30) DEF ReadAll, Types, LocalType, Local
<1> QED BY <1>0, <1>4, <1>6 DEF Types

LEMMA ReplaceAllType == ASSUME Types, NEW p \in Refreshers, ReplaceAll(p) PROVE Types'
<1>0. RegType' /\ ArgsType' /\ LocalType' BY DEF ReplaceAll, Types, RegType, ArgsType, LocalType
<1>2. TablesType'
  BY BoundAssumption DEF ReplaceAll, SetState, Goto, Types, RegType, TablesType, LocalType,
      ArgsType, Local, Args, Keys, Versions, Refreshers, Processes
<1>3. IndexType'
  BY Sorts DEF ReplaceAll, SetState, Goto, Types, RegType, TablesType, IndexType, IndexRecord,
      ArgsType, Args, States, Refreshers, Processes, Changers
<1>4. PcType' BY Sorts DEF ReplaceAll, SetState, Goto, Types, PcType, Points
<1> QED BY <1>0, <1>2, <1>3, <1>4 DEF Types

LEMMA MarkType == ASSUME Types, NEW p \in Refreshers, Mark(p) PROVE Types'
<1>a. args[p] \in Args BY Sorts DEF Types, ArgsType
<1>d. dirty' \subseteq Keys /\ index' \in IndexRecord BY MarkDirtyType, <1>a DEF Mark, Types
<1>0. RegType' /\ ArgsType' BY DEF Mark, Types, RegType, ArgsType
<1>2. TablesType' BY <1>d DEF Mark, Types, TablesType
<1>3. IndexType' BY <1>d DEF Mark, Types, IndexType, IndexRecord
<1>4. PcType' BY Sorts DEF Mark, MarkDirty, KeysOf, SetState, Goto, Types, PcType, Points
<1>6. LocalType'
  BY Sorts, NoLocalType, BoundAssumption, ZenonT(30) DEF Mark, MarkDirty, KeysOf, SetState, Goto,
       Types,
      LocalType, TablesType, ArgsType, Args, RegType, Local, Keys, Versions, IndexType
<1> QED BY <1>0, <1>2, <1>3, <1>4, <1>6 DEF Types

LEMMA ReadRowsType == ASSUME Types, NEW p \in Refreshers, ReadRows(p) PROVE Types'
<1>0. RegType' /\ TablesType' /\ IndexType' /\ ArgsType'
  BY DEF ReadRows, Types, RegType, TablesType, IndexType, ArgsType, IndexRecord
<1>4. PcType' BY Sorts DEF ReadRows, Goto, Types, PcType, Points
<1>6. LocalType' BY Sorts, AvailableType, BoundAssumption, ZenonT(30) DEF ReadRows, Types, LocalType, Local
<1> QED BY <1>0, <1>4, <1>6 DEF Types

LEMMA WriteFactsType == ASSUME Types, NEW p \in Refreshers, WriteFacts(p) PROVE Types'
<1>0. RegType' /\ IndexType' /\ ArgsType' /\ LocalType'
  BY DEF WriteFacts, Types, RegType, IndexType, ArgsType, LocalType, IndexRecord
<1>2. TablesType'
  BY BoundAssumption DEF WriteFacts, Goto, Types, RegType, TablesType, LocalType, ArgsType, Local,
      Args, Keys, Versions, Refreshers, Processes
<1>4. PcType' BY Sorts DEF WriteFacts, Goto, Types, PcType, Points
<1> QED BY <1>0, <1>2, <1>4 DEF Types

LEMMA BuildType == ASSUME Types, NEW p \in Refreshers, Build(p) PROVE Types'
<1>0. RegType' /\ TablesType' /\ IndexType' /\ ArgsType'
  BY DEF Build, Types, RegType, TablesType, IndexType, ArgsType, IndexRecord
<1>4. PcType' BY Sorts DEF Build, Goto, Types, PcType, Points
<1>6. LocalType'
  BY Sorts, NoLocalType, BoundAssumption DEF Build, Goto, Types, LocalType, TablesType, ArgsType,
      Args, RegType, Local, Keys, Versions, IndexType
<1> QED BY <1>0, <1>4, <1>6 DEF Types

LEMMA ReplaceType == ASSUME Types, NEW p \in Refreshers, Replace(p) PROVE Types'
<1>0. RegType' /\ ArgsType' /\ LocalType' BY DEF Replace, Types, RegType, ArgsType, LocalType
<1>2. TablesType'
  BY BoundAssumption DEF Replace, SetState, Goto, Types, RegType, TablesType, LocalType, ArgsType,
      Local, Args, Keys, Versions, Refreshers, Processes
<1>3. IndexType'
  BY Sorts DEF Replace, SetState, Goto, Types, RegType, TablesType, IndexType, IndexRecord,
      ArgsType, Args, States, Refreshers, Processes, Changers
<1>4. PcType' BY Sorts DEF Replace, SetState, Goto, Types, PcType, Points
<1> QED BY <1>0, <1>2, <1>3, <1>4 DEF Types

LEMMA CheckType == ASSUME Types, NEW p \in Refreshers, Check(p) PROVE Types'
<1>0. RegType' /\ TablesType' /\ IndexType' /\ ArgsType'
  BY DEF Check, Types, RegType, TablesType, IndexType, ArgsType, IndexRecord
<1>4. PcType' BY Sorts DEF Check, Goto, Types, PcType, Points
<1>6. LocalType'
  BY Sorts, NoLocalType, BoundAssumption DEF Check, Goto, Types, LocalType, TablesType, ArgsType,
      Args, RegType, Local, Keys, Versions, IndexType
<1> QED BY <1>0, <1>4, <1>6 DEF Types

LEMMA SettleType == ASSUME Types, NEW p \in Refreshers, Settle(p) PROVE Types'
<1>0. RegType' /\ TablesType' /\ ArgsType' /\ LocalType'
  BY DEF Settle, Types, RegType, TablesType, ArgsType, LocalType
<1>s. "stale" \in States /\ "ready" \in States BY DEF States
<1>t. index' \in IndexRecord BY <1>s, SetStateType DEF Settle, Types, IndexType, IndexRecord
<1>3. IndexType' BY <1>t DEF Settle, Types, IndexType, IndexRecord
<1>4. PcType' BY Sorts DEF Settle, SetState, Goto, Types, PcType, Points
<1> QED BY <1>0, <1>3, <1>4 DEF Types

LEMMA FailRefreshType == ASSUME Types, NEW p \in Refreshers, FailRefresh(p) PROVE Types'
<1>0. RegType' /\ TablesType' /\ ArgsType' /\ LocalType'
  BY DEF FailRefresh, Types, RegType, TablesType, ArgsType, LocalType
<1>3. IndexType'
  BY Sorts DEF FailRefresh, SetState, Goto, Types, RegType, TablesType, IndexType, IndexRecord,
      ArgsType, Args, States, Refreshers, Processes, Changers
<1>4. PcType' BY Sorts DEF FailRefresh, SetState, Goto, Types, PcType, Points
<1> QED BY <1>0, <1>3, <1>4 DEF Types

LEMMA UnlockType == ASSUME Types, NEW p \in Refreshers, Unlock(p) PROVE Types'
<1>0. RegType' /\ TablesType' BY DEF Unlock, Types, RegType, TablesType
<1>3. IndexType'
  BY Sorts DEF Unlock, Done, Carry, Goto, Types, RegType, TablesType, IndexType, IndexRecord,
      ArgsType, Args, States, Refreshers, Processes, Changers
<1>4. PcType' BY Sorts DEF Unlock, Done, Carry, Goto, Types, PcType, Points
<1>5. ArgsType'
  BY Sorts, NoArgsType DEF Unlock, Done, Carry, Goto, NoArgs, NoLocal, Types, ArgsType, Args
<1>6. LocalType'
  BY Sorts, NoLocalType, BoundAssumption DEF Unlock, Done, Carry, Goto, Types, LocalType,
      TablesType, ArgsType, Args, RegType, Local, Keys, Versions, IndexType
<1> QED BY <1>0, <1>3, <1>4, <1>5, <1>6 DEF Types

LEMMA TakePendingType == ASSUME Types, TakePending PROVE Types'
<1>0. RegType' /\ TablesType' /\ ArgsType'
  BY DEF TakePending, Types, RegType, TablesType, ArgsType
<1>3. IndexType'
  BY Sorts DEF TakePending, Goto, Types, RegType, TablesType, IndexType, IndexRecord, ArgsType,
      Args, States, Refreshers, Processes, Changers
<1>4. PcType' BY Sorts DEF TakePending, Goto, Types, PcType, Points
<1>6. LocalType'
  BY Sorts, NoLocalType, BoundAssumption DEF TakePending, Goto, Types, LocalType, TablesType,
      ArgsType, Args, RegType, Local, Keys, Versions, IndexType
<1> QED BY <1>0, <1>3, <1>4, <1>6 DEF Types

LEMMA AgainType == ASSUME Types, Again PROVE Types'
<1>0. RegType' /\ TablesType' /\ IndexType'
  BY DEF Again, Types, RegType, TablesType, IndexType, IndexRecord
<1>4. PcType' BY Sorts DEF Again, Goto, Forget, Types, PcType, Points
<1>a. [NoArgs EXCEPT !.full = local[Worker].left] \in Args
  <2>1. local[Worker].left \in BOOLEAN BY Sorts DEF Types, LocalType, Local
  <2>2. [NoArgs EXCEPT !.full = TRUE] \in Args /\ [NoArgs EXCEPT !.full = FALSE] \in Args
    BY DEF NoArgs, Args
  <2> QED BY <2>1, <2>2
<1>5. ArgsType' BY Sorts, NoArgsType, <1>a DEF Again, Carry, Forget, Types, ArgsType
<1>6. LocalType'
  BY Sorts, NoLocalType, BoundAssumption DEF Again, Carry, Goto, Forget, Types, LocalType,
      TablesType, ArgsType, Args, RegType, Local, Keys, Versions, IndexType
<1> QED BY <1>0, <1>4, <1>5, <1>6 DEF Types

LEMMA TypeStep == ASSUME Types, Next PROVE Types'
<1>1. ASSUME NEW c \in Clients, NEW f \in Files, Register(c, f) PROVE Types'
  BY <1>1, RegisterType
<1>2. ASSUME NEW c \in Clients, NEW f \in Files, Remove(c, f) PROVE Types' BY <1>2, RemoveType
<1>3. ASSUME NEW c \in Clients, RemoveAll(c) PROVE Types' BY <1>3, RemoveAllType
<1>4. ASSUME ScanBegin PROVE Types' BY <1>4, ScanBeginType
<1>5. ASSUME ScanMissing PROVE Types' BY <1>5, ScanMissingType
<1>6. ASSUME NEW f \in Files, ScanSave(f) PROVE Types' BY <1>6, ScanSaveType
<1>7. ASSUME NEW f \in Files, ScanRecover(f) PROVE Types' BY <1>7, ScanRecoverType
<1>8. ASSUME NEW f \in Files, ScanRelocate(f) PROVE Types' BY <1>8, ScanRelocateType
<1>9. ASSUME NEW f \in Files, ScanPurge(f) PROVE Types' BY <1>9, ScanPurgeType
<1>10. ASSUME ScanEnd PROVE Types' BY <1>10, ScanEndType
<1>11. ASSUME ScheduleAfterRescan PROVE Types' BY <1>11, ScheduleAfterRescanType
<1>12. ASSUME NEW p \in Processes, Schedule(p) PROVE Types' BY <1>12, ScheduleType
<1>13. ASSUME NEW p \in Processes, Launch(p) PROVE Types' BY <1>13, LaunchType
<1>14. ASSUME NEW r \in Readers, Request(r) PROVE Types' BY <1>14, RequestType
<1>15. ASSUME NEW p \in Refreshers, Enter(p) PROVE Types' BY <1>15, EnterType
<1>16. ASSUME NEW p \in Refreshers, Acquire(p) PROVE Types' BY <1>16, AcquireType
<1>17. ASSUME NEW p \in Refreshers, TimeOut(p) PROVE Types' BY <1>17, TimeOutType
<1>18. ASSUME NEW p \in Refreshers, Decide(p) PROVE Types' BY <1>18, DecideType
<1>19. ASSUME NEW p \in Refreshers, ReadAll(p) PROVE Types' BY <1>19, ReadAllType
<1>20. ASSUME NEW p \in Refreshers, ReplaceAll(p) PROVE Types' BY <1>20, ReplaceAllType
<1>21. ASSUME NEW p \in Refreshers, Mark(p) PROVE Types' BY <1>21, MarkType
<1>22. ASSUME NEW p \in Refreshers, ReadRows(p) PROVE Types' BY <1>22, ReadRowsType
<1>23. ASSUME NEW p \in Refreshers, WriteFacts(p) PROVE Types' BY <1>23, WriteFactsType
<1>24. ASSUME NEW p \in Refreshers, Build(p) PROVE Types' BY <1>24, BuildType
<1>25. ASSUME NEW p \in Refreshers, Replace(p) PROVE Types' BY <1>25, ReplaceType
<1>26. ASSUME NEW p \in Refreshers, Check(p) PROVE Types' BY <1>26, CheckType
<1>27. ASSUME NEW p \in Refreshers, Settle(p) PROVE Types' BY <1>27, SettleType
<1>28. ASSUME NEW p \in Refreshers, FailRefresh(p) PROVE Types' BY <1>28, FailRefreshType
<1>29. ASSUME NEW p \in Refreshers, Unlock(p) PROVE Types' BY <1>29, UnlockType
<1>30. ASSUME TakePending PROVE Types' BY <1>30, TakePendingType
<1>31. ASSUME Again PROVE Types' BY <1>31, AgainType
<1> QED
  BY <1>1, <1>2, <1>3, <1>4, <1>5, <1>6, <1>7, <1>8, <1>9, <1>10, <1>11, <1>12, <1>13, <1>14,
      <1>15, <1>16, <1>17, <1>18, <1>19, <1>20, <1>21, <1>22, <1>23, <1>24, <1>25, <1>26, <1>27,
      <1>28, <1>29, <1>30, <1>31 DEF Next, Change, ScheduleStep, RefreshStep, FullSteps,
      IncrementalSteps

-----------------------------------------------------------------------------
(***************************************************************************)
(* One refresh at a time: the lock is taken and given back where a refresh *)
(* enters and leaves the part it protects.                                 *)
(***************************************************************************)
LEMMA LockStep == ASSUME Types, RefreshExclusive, Next PROVE RefreshExclusive'
<1> USE ProcessesAssumption DEF Types, PcType, IndexType, RefreshExclusive, Locked, Points,
        Processes, Refreshers, Changers, Goto, Done, Forget
<1>1. ASSUME NEW c \in Clients, NEW f \in Files, Register(c, f) PROVE RefreshExclusive'
  BY <1>1 DEF Register
<1>2. ASSUME NEW c \in Clients, NEW f \in Files, Remove(c, f) PROVE RefreshExclusive'
  BY <1>2 DEF Remove
<1>3. ASSUME NEW c \in Clients, RemoveAll(c) PROVE RefreshExclusive' BY <1>3 DEF RemoveAll
<1>4. ASSUME ScanBegin PROVE RefreshExclusive' BY <1>4 DEF ScanBegin
<1>5. ASSUME ScanMissing PROVE RefreshExclusive' BY <1>5 DEF ScanMissing
<1>6. ASSUME NEW f \in Files, ScanSave(f) PROVE RefreshExclusive' BY <1>6 DEF ScanSave
<1>7. ASSUME NEW f \in Files, ScanRecover(f) PROVE RefreshExclusive' BY <1>7 DEF ScanRecover
<1>8. ASSUME NEW f \in Files, ScanRelocate(f) PROVE RefreshExclusive' BY <1>8 DEF ScanRelocate
<1>9. ASSUME NEW f \in Files, ScanPurge(f) PROVE RefreshExclusive' BY <1>9 DEF ScanPurge
<1>10. ASSUME ScanEnd PROVE RefreshExclusive' BY <1>10 DEF ScanEnd
<1>11. ASSUME ScheduleAfterRescan PROVE RefreshExclusive' BY <1>11 DEF ScheduleAfterRescan
<1>12. ASSUME NEW p \in Processes, Schedule(p) PROVE RefreshExclusive' BY <1>12 DEF Schedule
<1>13. ASSUME NEW p \in Processes, Launch(p) PROVE RefreshExclusive' BY <1>13 DEF Launch
<1>14. ASSUME NEW r \in Readers, Request(r) PROVE RefreshExclusive' BY <1>14 DEF Request
<1>15. ASSUME NEW p \in Refreshers, Enter(p) PROVE RefreshExclusive' BY <1>15 DEF Enter
<1>16. ASSUME NEW p \in Refreshers, Acquire(p) PROVE RefreshExclusive' BY <1>16 DEF Acquire
<1>17. ASSUME NEW p \in Refreshers, TimeOut(p) PROVE RefreshExclusive' BY <1>17 DEF TimeOut
<1>18. ASSUME NEW p \in Refreshers, Decide(p) PROVE RefreshExclusive' BY <1>18 DEF Decide
<1>19. ASSUME NEW p \in Refreshers, ReadAll(p) PROVE RefreshExclusive' BY <1>19 DEF ReadAll
<1>20. ASSUME NEW p \in Refreshers, ReplaceAll(p) PROVE RefreshExclusive'
  BY <1>20 DEF ReplaceAll
<1>21. ASSUME NEW p \in Refreshers, Mark(p) PROVE RefreshExclusive' BY <1>21 DEF Mark
<1>22. ASSUME NEW p \in Refreshers, ReadRows(p) PROVE RefreshExclusive' BY <1>22 DEF ReadRows
<1>23. ASSUME NEW p \in Refreshers, WriteFacts(p) PROVE RefreshExclusive'
  BY <1>23 DEF WriteFacts
<1>24. ASSUME NEW p \in Refreshers, Build(p) PROVE RefreshExclusive' BY <1>24 DEF Build
<1>25. ASSUME NEW p \in Refreshers, Replace(p) PROVE RefreshExclusive' BY <1>25 DEF Replace
<1>26. ASSUME NEW p \in Refreshers, Check(p) PROVE RefreshExclusive' BY <1>26 DEF Check
<1>27. ASSUME NEW p \in Refreshers, Settle(p) PROVE RefreshExclusive' BY <1>27 DEF Settle
<1>28. ASSUME NEW p \in Refreshers, FailRefresh(p) PROVE RefreshExclusive'
  BY <1>28 DEF FailRefresh
<1>29. ASSUME NEW p \in Refreshers, Unlock(p) PROVE RefreshExclusive' BY <1>29 DEF Unlock
<1>30. ASSUME TakePending PROVE RefreshExclusive' BY <1>30 DEF TakePending
<1>31. ASSUME Again PROVE RefreshExclusive' BY <1>31 DEF Again
<1> QED
  BY <1>1, <1>2, <1>3, <1>4, <1>5, <1>6, <1>7, <1>8, <1>9, <1>10, <1>11, <1>12, <1>13, <1>14,
      <1>15, <1>16, <1>17, <1>18, <1>19, <1>20, <1>21, <1>22, <1>23, <1>24, <1>25, <1>26, <1>27,
      <1>28, <1>29, <1>30, <1>31 DEF Next, Change, ScheduleStep, RefreshStep, FullSteps,
      IncrementalSteps

-----------------------------------------------------------------------------
(***************************************************************************)
(* What holds as long as nothing disturbs a refresh.                       *)
(***************************************************************************)
\* Nothing disturbs: one changer at a time, and alone.
Alone ==
  \A c \in Changers : pc[c] # "off" => \A p \in Processes \ {c} : pc[p] = "off"

\* Where the processes can be.
Scanning == {"lifecycle", "commit", "purged"}
Places ==
  /\ scanning <=> pc[Scan] \in Scanning
  /\ \A c \in Clients : pc[c] \in {"off", "schedule", "launch"}
  /\ pc[Scan] \in Scanning \cup {"off", "result", "schedule", "launch"}
  /\ \A r \in Refreshers : pc[r] \notin Scanning \cup {"result"}

\* The ids a process carries are those of files in the state it put them in.
Ids(p) == args[p].changed \cup args[p].deleted
Carried ==
  /\ \A p \in Processes : pc[p] # "off" =>
       /\ \A f \in args[p].changed : reg[f].status = "available"
       /\ \A f \in args[p].deleted : reg[f].status = "deleted"
  /\ pc[Scan] = "lifecycle" => args[Scan] = NoArgs
  /\ pc[Scan] # "off" => args[Scan].deleted = {}
  /\ \A r \in Readers : pc[r] # "off" => Ids(r) = {}

\* A targeted reason is the reason of a change that is about to be scheduled.
Reasoned ==
  index.targeted => \E c \in Changers :
    /\ pc[c] \in {"schedule", "commit", "purged", "result"}
    /\ args[c].full \/ Ids(c) # {}

\* What a refresh has read is still so.
Read ==
  /\ \A p \in Refreshers :
       /\ pc[p] = "replaceAll" => local[p].seen = Available
       /\ pc[p] = "replace" => local[p].seen = facts
  /\ pc[Worker] = "writeFacts" =>
       \A f \in args[Worker].changed : local[Worker].seen[f] = Available[f]
  /\ pc[Worker] \in {"readRows", "writeFacts"} =>
       {KeyOf[f] : f \in Ids(Worker)} \subseteq local[Worker].keys

\* Every file the tables do not show as registered is in the hands of the
\* process that changed it, or of the worker.
Owed(f) == facts[f] # Available[f] \/ group[f] # Available[f]

ByChanger(f) == \E c \in Changers : pc[c] # "off" /\ (args[c].full \/ f \in Ids(c))
ByWorker(f)  ==
  \/ pc[Worker] \in {"enter", "wait", "decide"} /\ (args[Worker].full \/ f \in Ids(Worker))
  \/ pc[Worker] \in {"readAll", "replaceAll"}
  \/ pc[Worker] \in {"mark", "readRows", "writeFacts"} /\ f \in Ids(Worker)
  \/ /\ pc[Worker] \in {"build", "replace"}
     /\ KeyOf[f] \in local[Worker].keys /\ facts[f] = Available[f]
InHands == \A f \in Files : Owed(f) => ByChanger(f) \/ ByWorker(f)

Undisturbed == Alone /\ Places /\ Carried /\ Reasoned /\ Read /\ InHands
Calm == Types /\ RefreshExclusive /\ Undisturbed /\ disturbances = {}

\* When nothing is under way nothing is owed.
LEMMA QuietOwesNothing == ASSUME Calm, Quiet
  PROVE /\ \A f \in Files : ~Owed(f)
        /\ ~index.targeted /\ ~scanning
        /\ \A p \in Processes : pc[p] = "off"
BY Sorts DEF Calm, Undisturbed, InHands, Reasoned, Quiet, ByChanger, ByWorker, Alone, Places

\* While a process changes files it is alone, and has all that is owed.
LEMMA ChangerIsAlone == ASSUME Calm, NEW c \in Changers, pc[c] # "off" PROVE
  /\ \A p \in Processes \ {c} : pc[p] = "off"
  /\ \A f \in Files : Owed(f) => args[c].full \/ f \in Ids(c)
BY Sorts DEF Calm, Undisturbed, InHands, ByChanger, ByWorker, Alone

\* While somebody refreshes, or waits to, no file changes and the worker has all
\* that is owed.
LEMMA RefreshersOnly == ASSUME Calm, NEW r \in Refreshers, pc[r] # "off" PROVE
  /\ \A c \in Changers : pc[c] = "off"
  /\ ~scanning /\ ~index.targeted
  /\ \A f \in Files : Owed(f) => ByWorker(f)
BY Sorts DEF Calm, Undisturbed, InHands, ByChanger, Alone, Reasoned, Places, Scanning

\* Nobody else is inside the part the lock protects.
LEMMA Single ==
  ASSUME Calm, NEW r \in Refreshers, pc[r] \in Locked
  PROVE \A q \in Refreshers \ {r} : pc[q] \notin Locked
BY DEF Calm, RefreshExclusive

Reading == {"replaceAll", "replace", "readRows", "writeFacts"}
Stays(q) == /\ pc'[q] = pc[q] /\ args'[q] = args[q] /\ local'[q] = local[q]
            /\ Available' = Available /\ facts' = facts

\* A step that lets no refresh begin or go on with stale reads.
LEMMA Unread == ASSUME Calm, \A q \in Refreshers : pc'[q] \notin Reading \/ Stays(q) PROVE Read'
BY Sorts DEF Calm, Undisturbed, Read, Reading, Stays, Ids

\* The keys of a request are those of its files.
LEMMA KeysOfIds ==
  ASSUME Calm, NEW p \in Processes, pc[p] # "off"
  PROVE \A f \in Ids(p) : f \in Files /\ KeyOf[f] \in KeysOf(args[p])
<1>1. args[p] \in Args BY DEF Calm, Types, ArgsType
<1> QED BY <1>1 DEF Calm, Undisturbed, Carried, Ids, KeysOf, Row, Args

\* Marking or asking never makes a reason a targeted one.
LEMMA Untargeted ==
  ASSUME Calm, NEW a \in Args, Ask(a) \/ MarkDirty(a)
  PROVE index'.targeted => index' = index
BY DEF Ask, MarkDirty, SetState

LEMMA RegisterCalm == ASSUME Calm, NEW c \in Clients, NEW f \in Files, Register(c, f) PROVE
    Undisturbed'
<1>q. Quiet BY DEF Calm, MayChange, Register
<1>1. Alone'
  BY Sorts, QuietOwesNothing, <1>q DEF Register, MayChange, Save, NeedRepair, Carry, Goto, Calm,
      Types, PcType, Undisturbed, Alone, Places, Scanning
<1>2. Places'
  BY Sorts, QuietOwesNothing, <1>q DEF Register, MayChange, Save, NeedRepair, Carry, Goto, Calm,
      Types, PcType, Undisturbed, Alone, Places, Scanning
<1>3. Carried'
  BY Sorts, QuietOwesNothing, <1>q DEF Register, MayChange, Save, NeedRepair, Carry, Goto, Calm,
      Types, PcType, ArgsType, Args, RegType, Undisturbed, Carried, Ids, Places, Scanning, NoArgs,
      FullArgs
<1>4. Reasoned'
  BY Sorts, QuietOwesNothing, <1>q DEF Register, MayChange, Save, NeedRepair, Carry, Goto, Calm,
      Types, PcType, ArgsType, Args, Undisturbed, Reasoned, Ids, NoArgs, FullArgs, Places,
      Scanning
<1>5. Read'
  BY Sorts, QuietOwesNothing, <1>q DEF Register, MayChange, Save, NeedRepair, Carry, Goto, Calm,
      Types, PcType, LocalType, Local, Undisturbed, Read, Ids, Available
<1>6. InHands'
  BY Sorts, QuietOwesNothing, <1>q DEF Register, MayChange, Save, NeedRepair, Carry, Goto, Calm,
      Types, PcType, ArgsType, Args, LocalType, Local, Undisturbed, InHands, Owed, ByChanger,
      ByWorker, Available, Ids, NoArgs, FullArgs
<1> QED BY <1>1, <1>2, <1>3, <1>4, <1>5, <1>6 DEF Undisturbed

LEMMA RemoveCalm == ASSUME Calm, NEW c \in Clients, NEW f \in Files, Remove(c, f) PROVE
    Undisturbed'
<1>q. Quiet BY DEF Calm, MayChange, Remove
<1>1. Alone'
  BY Sorts, QuietOwesNothing, <1>q DEF Remove, MayChange, Row, Delete, NeedRepair, Carry, Goto,
      Calm, Types, PcType, Undisturbed, Alone, Places, Scanning
<1>2. Places'
  BY Sorts, QuietOwesNothing, <1>q DEF Remove, MayChange, Row, Delete, NeedRepair, Carry, Goto,
      Calm, Types, PcType, Undisturbed, Alone, Places, Scanning
<1>3. Carried'
  BY Sorts, QuietOwesNothing, <1>q DEF Remove, MayChange, Row, Delete, NeedRepair, Carry, Goto,
      Calm, Types, PcType, ArgsType, Args, RegType, Undisturbed, Carried, Ids, Places, Scanning,
      NoArgs, FullArgs
<1>4. Reasoned'
  BY Sorts, QuietOwesNothing, <1>q DEF Remove, MayChange, Row, Delete, NeedRepair, Carry, Goto,
      Calm, Types, PcType, ArgsType, Args, Undisturbed, Reasoned, Ids, NoArgs, FullArgs, Places,
      Scanning
<1>5. Read'
  BY Sorts, QuietOwesNothing, <1>q DEF Remove, MayChange, Row, Delete, NeedRepair, Carry, Goto,
      Calm, Types, PcType, LocalType, Local, Undisturbed, Read, Ids, Available
<1>6. InHands'
  BY Sorts, QuietOwesNothing, <1>q DEF Remove, MayChange, Row, Delete, NeedRepair, Carry, Goto,
      Calm, Types, PcType, ArgsType, Args, LocalType, Local, Undisturbed, InHands, Owed,
      ByChanger, ByWorker, Available, Ids, NoArgs, FullArgs
<1> QED BY <1>1, <1>2, <1>3, <1>4, <1>5, <1>6 DEF Undisturbed

LEMMA RemoveAllCalm == ASSUME Calm, NEW c \in Clients, RemoveAll(c) PROVE Undisturbed'
<1>q. Quiet BY DEF Calm, MayChange, RemoveAll
<1>1. Alone'
  BY Sorts, QuietOwesNothing, <1>q DEF RemoveAll, MayChange, Row, Delete, SetState, Carry, Goto,
      Calm, Types, PcType, Undisturbed, Alone, Places, Scanning
<1>2. Places'
  BY Sorts, QuietOwesNothing, <1>q DEF RemoveAll, MayChange, Row, Delete, SetState, Carry, Goto,
      Calm, Types, PcType, Undisturbed, Alone, Places, Scanning
<1>3. Carried'
  BY Sorts, QuietOwesNothing, <1>q DEF RemoveAll, MayChange, Row, Delete, SetState, Carry, Goto,
      Calm, Types, PcType, ArgsType, Args, RegType, Undisturbed, Carried, Ids, Places, Scanning,
      NoArgs, FullArgs
<1>4. Reasoned'
  BY Sorts, QuietOwesNothing, <1>q DEF RemoveAll, MayChange, Row, Delete, SetState, Carry, Goto,
      Calm, Types, PcType, ArgsType, Args, Undisturbed, Reasoned, Ids, NoArgs, FullArgs, Places,
      Scanning
<1>5. Read'
  BY Sorts, QuietOwesNothing, <1>q DEF RemoveAll, MayChange, Row, Delete, SetState, Carry, Goto,
      Calm, Types, PcType, LocalType, Local, Undisturbed, Read, Ids, Available
<1>6. InHands'
  BY Sorts, QuietOwesNothing, <1>q DEF RemoveAll, MayChange, Row, Delete, SetState, Carry, Goto,
      Calm, Types, PcType, ArgsType, Args, LocalType, Local, Undisturbed, InHands, Owed,
      ByChanger, ByWorker, Available, Ids, NoArgs, FullArgs
<1> QED BY <1>1, <1>2, <1>3, <1>4, <1>5, <1>6 DEF Undisturbed

LEMMA ScanBeginCalm == ASSUME Calm, ScanBegin PROVE Undisturbed'
<1>q. Quiet BY DEF Calm, MayChange, ScanBegin
<1>1. Alone'
  BY Sorts, QuietOwesNothing, <1>q DEF ScanBegin, Carry, Goto, Calm, Types, PcType, Undisturbed,
      Alone, Places, Scanning
<1>2. Places'
  BY Sorts, QuietOwesNothing, <1>q DEF ScanBegin, Carry, Goto, Calm, Types, PcType, Undisturbed,
      Alone, Places, Scanning
<1>3. Carried'
  BY Sorts, QuietOwesNothing, <1>q DEF ScanBegin, Carry, Goto, Calm, Types, PcType, ArgsType,
      Args, RegType, Undisturbed, Carried, Ids, Places, Scanning, NoArgs, FullArgs
<1>4. Reasoned'
  BY Sorts, QuietOwesNothing, <1>q DEF ScanBegin, Carry, Goto, Calm, Types, PcType, ArgsType,
      Args, Undisturbed, Reasoned, Ids, NoArgs, FullArgs, Places, Scanning
<1>5. Read'
  BY Sorts, QuietOwesNothing, <1>q DEF ScanBegin, Carry, Goto, Calm, Types, PcType, LocalType,
      Local, Undisturbed, Read, Ids, Available
<1>6. InHands'
  BY Sorts, QuietOwesNothing, <1>q DEF ScanBegin, Carry, Goto, Calm, Types, PcType, ArgsType,
      Args, LocalType, Local, Undisturbed, InHands, Owed, ByChanger, ByWorker, Available, Ids,
      NoArgs, FullArgs
<1> QED BY <1>1, <1>2, <1>3, <1>4, <1>5, <1>6 DEF Undisturbed

LEMMA ScanMissingCalm == ASSUME Calm, ScanMissing PROVE Undisturbed'
<1>1. Alone'
  BY Sorts, ChangerIsAlone DEF ScanMissing, NeedRepair, Carry, Goto, Calm, Types, PcType,
      Undisturbed, Alone, Places, Scanning
<1>2. Places'
  BY Sorts, ChangerIsAlone DEF ScanMissing, NeedRepair, Carry, Goto, Calm, Types, PcType,
      Undisturbed, Alone, Places, Scanning
<1>3. Carried'
  <2>1. args[Scan] = NoArgs BY DEF ScanMissing, Calm, Undisturbed, Carried
  <2>2. args'[Scan] = NoArgs \/ args'[Scan] = FullArgs
    BY <2>1, Sorts DEF ScanMissing, Carry, Calm, Types, ArgsType
  <2>3. pc'[Scan] = "commit" /\ \A q \in Processes \ {Scan} : pc'[q] = "off"
    BY Sorts, ChangerIsAlone DEF ScanMissing, Goto, Calm, Types, PcType
  <2> QED BY <2>2, <2>3, Sorts DEF Carried, Ids, NoArgs, FullArgs
<1>4. Reasoned'
  BY Sorts, ChangerIsAlone DEF ScanMissing, NeedRepair, Carry, Goto, Calm, Types, PcType,
      ArgsType, Args, Undisturbed, Reasoned, Ids, NoArgs, FullArgs, Places, Scanning
<1>5. Read'
  BY Sorts, ChangerIsAlone DEF ScanMissing, NeedRepair, Carry, Goto, Calm, Types, PcType,
      LocalType, Local, Undisturbed, Read, Ids, Available
<1>6. InHands'
  BY Sorts, ChangerIsAlone DEF ScanMissing, NeedRepair, Carry, Goto, Calm, Types, PcType,
      ArgsType, Args, LocalType, Local, Undisturbed, InHands, Owed, ByChanger, ByWorker,
      Available, Ids, NoArgs, FullArgs
<1> QED BY <1>1, <1>2, <1>3, <1>4, <1>5, <1>6 DEF Undisturbed

LEMMA ScanSaveCalm == ASSUME Calm, NEW f \in Files, ScanSave(f) PROVE Undisturbed'
<1>1. Alone'
  BY Sorts, ChangerIsAlone DEF ScanSave, Save, NeedRepair, Calm, Types, PcType, Undisturbed,
      Alone, Places, Scanning
<1>2. Places'
  BY Sorts, ChangerIsAlone DEF ScanSave, Save, NeedRepair, Calm, Types, PcType, Undisturbed,
      Alone, Places, Scanning
<1>3. Carried'
  BY Sorts, ChangerIsAlone DEF ScanSave, Save, NeedRepair, Calm, Types, PcType, ArgsType, Args,
      RegType, Undisturbed, Carried, Ids, Places, Scanning, NoArgs, FullArgs
<1>4. Reasoned'
  <2>1. pc'[Scan] = "commit" /\ f \in Ids(Scan)'
    BY Sorts DEF ScanSave, Ids, Calm, Types, ArgsType, Args
  <2> QED BY <2>1, Sorts DEF Reasoned
<1>5. Read'
  BY Sorts, ChangerIsAlone DEF ScanSave, Save, NeedRepair, Calm, Types, PcType, LocalType, Local,
      Undisturbed, Read, Ids, Available
<1>6. InHands'
  BY Sorts, ChangerIsAlone DEF ScanSave, Save, NeedRepair, Calm, Types, PcType, ArgsType, Args,
      LocalType, Local, Undisturbed, InHands, Owed, ByChanger, ByWorker, Available, Ids, NoArgs,
      FullArgs
<1> QED BY <1>1, <1>2, <1>3, <1>4, <1>5, <1>6 DEF Undisturbed

LEMMA ScanRecoverCalm == ASSUME Calm, NEW f \in Files, ScanRecover(f) PROVE Undisturbed'
<1>1. Alone'
  BY Sorts, ChangerIsAlone DEF ScanRecover, NeedRepair, Calm, Types, PcType, Undisturbed, Alone,
      Places, Scanning
<1>2. Places'
  BY Sorts, ChangerIsAlone DEF ScanRecover, NeedRepair, Calm, Types, PcType, Undisturbed, Alone,
      Places, Scanning
<1>3. Carried'
  BY Sorts, ChangerIsAlone DEF ScanRecover, NeedRepair, Calm, Types, PcType, ArgsType, Args,
      RegType, Undisturbed, Carried, Ids, Places, Scanning, NoArgs, FullArgs
<1>4. Reasoned'
  BY Sorts, ChangerIsAlone DEF ScanRecover, NeedRepair, Calm, Types, PcType, ArgsType, Args,
      Undisturbed, Reasoned, Ids, NoArgs, FullArgs, Places, Scanning
<1>5. Read'
  BY Sorts, ChangerIsAlone DEF ScanRecover, NeedRepair, Calm, Types, PcType, LocalType, Local,
      Undisturbed, Read, Ids, Available
<1>6. InHands'
  BY Sorts, ChangerIsAlone DEF ScanRecover, NeedRepair, Calm, Types, PcType, ArgsType, Args,
      LocalType, Local, Undisturbed, InHands, Owed, ByChanger, ByWorker, Available, Ids, NoArgs,
      FullArgs
<1> QED BY <1>1, <1>2, <1>3, <1>4, <1>5, <1>6 DEF Undisturbed

LEMMA ScanPurgeCalm == ASSUME Calm, NEW f \in Files, ScanPurge(f) PROVE Undisturbed'
<1>1. Alone'
  BY Sorts, ChangerIsAlone DEF ScanPurge, Delete, NeedRepair, Goto, Calm, Types, PcType,
      Undisturbed, Alone, Places, Scanning
<1>2. Places'
  BY Sorts, ChangerIsAlone DEF ScanPurge, Delete, NeedRepair, Goto, Calm, Types, PcType,
      Undisturbed, Alone, Places, Scanning
<1>3. Carried'
  BY Sorts, ChangerIsAlone DEF ScanPurge, Delete, NeedRepair, Goto, Calm, Types, PcType, ArgsType,
      Args, RegType, Undisturbed, Carried, Ids, Places, Scanning, NoArgs, FullArgs
<1>4. Reasoned'
  BY Sorts, ChangerIsAlone DEF ScanPurge, Delete, NeedRepair, Goto, Calm, Types, PcType, ArgsType,
      Args, Undisturbed, Reasoned, Ids, NoArgs, FullArgs, Places, Scanning
<1>5. Read'
  BY Sorts, ChangerIsAlone DEF ScanPurge, Delete, NeedRepair, Goto, Calm, Types, PcType,
      LocalType, Local, Undisturbed, Read, Ids, Available
<1>6. InHands'
  BY Sorts, ChangerIsAlone DEF ScanPurge, Delete, NeedRepair, Goto, Calm, Types, PcType, ArgsType,
      Args, LocalType, Local, Undisturbed, InHands, Owed, ByChanger, ByWorker, Available, Ids,
      NoArgs, FullArgs
<1> QED BY <1>1, <1>2, <1>3, <1>4, <1>5, <1>6 DEF Undisturbed

LEMMA ScanEndCalm == ASSUME Calm, ScanEnd PROVE Undisturbed'
<1>1. Alone'
  BY Sorts, ChangerIsAlone DEF ScanEnd, Goto, Forget, Carry, Calm, Types, PcType, Undisturbed,
      Alone, Places, Scanning
<1>2. Places'
  BY Sorts, ChangerIsAlone DEF ScanEnd, Goto, Forget, Carry, Calm, Types, PcType, Undisturbed,
      Alone, Places, Scanning
<1>3. Carried'
  BY Sorts, ChangerIsAlone, SMTT(30) DEF ScanEnd, Goto, Forget, Carry, Calm, Types, PcType,
       ArgsType, Args,
      RegType, Undisturbed, Carried, Ids, Places, Scanning, NoArgs, FullArgs
<1>4. Reasoned'
  BY Sorts, ChangerIsAlone DEF ScanEnd, Goto, Forget, Carry, Calm, Types, PcType, ArgsType, Args,
      Undisturbed, Reasoned, Ids, NoArgs, FullArgs, Places, Scanning
<1>5. Read'
  <2>1. \A q \in Refreshers : pc'[q] \notin Reading \/ Stays(q)
    BY Sorts, ChangerIsAlone DEF ScanEnd, Goto, Forget, Carry, Calm, Types, PcType, ArgsType,
        Args, LocalType, Local, Reading, Stays, Available
  <2> QED BY <2>1, Unread
<1>6. InHands'
  BY Sorts, ChangerIsAlone, SMTT(30) DEF ScanEnd, Goto, Forget, Carry, Calm, Types, PcType,
       ArgsType, Args,
      LocalType, Local, Undisturbed, InHands, Owed, ByChanger, ByWorker, Available, Ids, NoArgs,
      FullArgs
<1> QED BY <1>1, <1>2, <1>3, <1>4, <1>5, <1>6 DEF Undisturbed

LEMMA ScheduleAfterRescanCalm == ASSUME Calm, ScheduleAfterRescan PROVE Undisturbed'
<1>o. \A q \in Processes \ {Scan} : pc'[q] = "off" /\ pc[q] = "off"
  BY Sorts, ChangerIsAlone DEF ScheduleAfterRescan, Carry, Goto, Forget, Calm, Types, PcType
<1>a. args[Scan] \in Args BY Sorts DEF Calm, Types, ArgsType
<1>w. pc'[Scan] \in {"off", "schedule"}
  BY Sorts DEF ScheduleAfterRescan, Goto, Forget, Calm, Types, PcType
<1>k. \/ args[Scan].full /\ pc'[Scan] = "schedule" /\ args'[Scan].full
      \/ Ids(Scan) # {} /\ pc'[Scan] = "schedule" /\ args'[Scan] = args[Scan]
      \/ Ids(Scan) = {} /\ ~args[Scan].full
  <2>1. args[Scan].deleted = {} BY DEF ScheduleAfterRescan, Calm, Undisturbed, Carried
  <2>2. Ids(Scan) = args[Scan].changed BY <2>1 DEF Ids
  <2>3. CASE args[Scan].full
    BY <2>3, Sorts DEF ScheduleAfterRescan, Carry, Goto, FullArgs, NoArgs, Calm, Types, PcType,
        ArgsType
  <2>4. CASE ~args[Scan].full /\ args[Scan].changed # {}
    BY <2>2, <2>4, Sorts DEF ScheduleAfterRescan, Goto, Calm, Types, PcType
  <2>5. CASE ~args[Scan].full /\ args[Scan].changed = {} BY <2>2, <2>5
  <2> QED BY <2>3, <2>4, <2>5
<1>1. Alone'
  BY Sorts, ChangerIsAlone DEF ScheduleAfterRescan, Carry, Goto, Forget, NeedsRepair, Calm, Types,
      PcType, Undisturbed, Alone, Places, Scanning
<1>2. Places'
  BY Sorts, ChangerIsAlone DEF ScheduleAfterRescan, Carry, Goto, Forget, NeedsRepair, Calm, Types,
      PcType, Undisturbed, Alone, Places, Scanning
<1>3. Carried'
  <2>1. args'[Scan].changed \subseteq args[Scan].changed /\ args'[Scan].deleted = {}
    BY Sorts DEF ScheduleAfterRescan, Carry, Forget, NoArgs, FullArgs, Calm, Types, ArgsType,
        Undisturbed, Carried
  <2>2. reg' = reg /\ \A f \in args[Scan].changed : reg[f].status = "available"
    BY Sorts DEF ScheduleAfterRescan, Calm, Undisturbed, Carried
  <2> QED BY <2>1, <2>2, <1>o, <1>w, Sorts DEF Carried, Ids
<1>4. Reasoned'
  <2>1. SUFFICES ASSUME index.targeted PROVE Reasoned' BY DEF ScheduleAfterRescan, Reasoned
  <2>2. args[Scan].full \/ Ids(Scan) # {} BY <2>1, <1>o, Sorts DEF Calm, Undisturbed, Reasoned
  <2>3. pc'[Scan] = "schedule" /\ (args'[Scan].full \/ Ids(Scan)' # {}) BY <2>2, <1>k DEF Ids
  <2> QED BY <2>3, Sorts DEF Reasoned
<1>5. Read'
  <2>1. \A q \in Refreshers : pc'[q] \notin Reading \/ Stays(q)
    BY Sorts, ChangerIsAlone DEF ScheduleAfterRescan, Carry, Goto, Forget, NeedsRepair, Calm,
        Types, PcType, ArgsType, Args, LocalType, Local, Reading, Stays, Available
  <2> QED BY <2>1, Unread
<1>6. InHands'
  <2>1. ASSUME NEW f \in Files, Owed(f)' PROVE ByChanger(f)'
    <3>1. Owed(f) BY <2>1 DEF ScheduleAfterRescan, Owed, Available
    <3>2. args[Scan].full \/ f \in Ids(Scan)
      BY <3>1, ChangerIsAlone, Sorts DEF ScheduleAfterRescan
    <3>3. pc'[Scan] # "off" /\ (args'[Scan].full \/ f \in Ids(Scan)') BY <3>2, <1>k DEF Ids
    <3> QED BY <3>3, Sorts DEF ByChanger
  <2> QED BY <2>1 DEF InHands
<1> QED BY <1>1, <1>2, <1>3, <1>4, <1>5, <1>6 DEF Undisturbed

LEMMA ScheduleCalm == ASSUME Calm, NEW p \in Processes, Schedule(p) PROVE Undisturbed'
<1>1. Alone'
  BY Sorts, ChangerIsAlone, RefreshersOnly DEF Schedule, SetState, Goto, Calm, Types, PcType,
      Undisturbed, Alone, Places, Scanning
<1>2. Places'
  BY Sorts, ChangerIsAlone, RefreshersOnly DEF Schedule, SetState, Goto, Calm, Types, PcType,
      Undisturbed, Alone, Places, Scanning
<1>3. Carried'
  BY Sorts, ChangerIsAlone, RefreshersOnly DEF Schedule, SetState, Goto, Calm, Types, PcType,
      ArgsType, Args, RegType, Undisturbed, Carried, Ids, Places, Scanning, NoArgs, FullArgs
<1>4. Reasoned'
  <2>1. args[p] \in Args BY Sorts DEF Calm, Types, ArgsType
  <2>2. CASE p \in Refreshers BY <2>1, <2>2, Untargeted, RefreshersOnly DEF Schedule, Reasoned
  <2>3. CASE p \in Changers
    <3>1. Ids(p) # {} => KeysOf(args[p]) # {} BY KeysOfIds DEF Schedule
    <3>2. SUFFICES ASSUME index'.targeted PROVE FALSE BY DEF Reasoned
    <3>3. index' = index /\ ~args[p].full /\ KeysOf(args[p]) = {}
      BY <3>2, <2>1 DEF Schedule, Ask, MarkDirty, SetState
    <3>4. PICK c \in Changers : pc[c] # "off" /\ (args[c].full \/ Ids(c) # {})
      BY <3>2, <3>3 DEF Calm, Undisturbed, Reasoned
    <3>5. c = p BY <3>4, <2>3, ChangerIsAlone, Sorts DEF Schedule
    <3> QED BY <3>1, <3>3, <3>4, <3>5
  <2> QED BY <2>2, <2>3 DEF Processes
<1>5. Read'
  <2>1. \A q \in Refreshers : pc'[q] \notin Reading \/ Stays(q)
    BY Sorts DEF Schedule, SetState, Goto, Calm, Types, PcType, ArgsType, Args, LocalType, Local,
        Reading, Stays, Available
  <2> QED BY <2>1, Unread
<1>6. InHands'
  BY Sorts, ChangerIsAlone, RefreshersOnly DEF Schedule, SetState, Goto, Calm, Types, PcType,
      ArgsType, Args, LocalType, Local, Undisturbed, InHands, Owed, ByChanger, ByWorker,
      Available, Ids, NoArgs, FullArgs
<1> QED BY <1>1, <1>2, <1>3, <1>4, <1>5, <1>6 DEF Undisturbed

LEMMA LaunchCalm == ASSUME Calm, NEW p \in Processes, Launch(p) PROVE Undisturbed'
<1>1. Alone'
  BY Sorts, ChangerIsAlone, RefreshersOnly DEF Launch, Forget, Carry, Goto, Calm, Types, PcType,
      Undisturbed, Alone, Places, Scanning
<1>2. Places'
  BY Sorts, ChangerIsAlone, RefreshersOnly DEF Launch, Forget, Carry, Goto, Calm, Types, PcType,
      Undisturbed, Alone, Places, Scanning
<1>3. Carried'
  <2>1. \A q \in Processes \ {Worker} : pc'[q] = "off" \/ (pc'[q] = pc[q] /\ args'[q] = args[q])
    BY Sorts DEF Launch, Forget, Carry, Goto, Calm, Types, PcType, ArgsType
  <2>2. \/ pc'[Worker] = "off"
        \/ pc'[Worker] = pc[Worker] /\ args'[Worker] = args[Worker]
        \/ args'[Worker] = args[p]
    BY Sorts DEF Launch, Forget, Carry, Goto, Calm, Types, PcType, ArgsType
  <2>3. reg' = reg /\ pc[p] # "off" BY DEF Launch
  <2> QED BY <2>1, <2>2, <2>3, Sorts DEF Calm, Undisturbed, Carried, Ids
<1>4. Reasoned'
  BY Sorts, ChangerIsAlone, RefreshersOnly DEF Launch, Forget, Carry, Goto, Calm, Types, PcType,
      ArgsType, Args, Undisturbed, Reasoned, Ids, NoArgs, FullArgs, Places, Scanning
<1>5. Read'
  <2>1. \A q \in Refreshers : pc'[q] \notin Reading \/ Stays(q)
    BY Sorts DEF Launch, Forget, Carry, Goto, Calm, Types, PcType, ArgsType, Args, LocalType,
        Local, Reading, Stays, Available
  <2> QED BY <2>1, Unread
<1>6. InHands'
  <2>v. Available' = Available /\ facts' = facts /\ group' = group /\ local' = local
    BY DEF Launch, Available
  <2>1. ASSUME NEW f \in Files, Owed(f)' PROVE ByWorker(f)'
    <3>0. Owed(f) BY <2>1, <2>v DEF Owed
    <3>1. CASE p \in Changers
      <4>1. pc[Worker] = "off" BY <3>1, ChangerIsAlone, Sorts DEF Launch
      <4>2. ~scanning
        <5>1. pc[Scan] \notin Scanning BY <3>1, ChangerIsAlone, Sorts DEF Launch, Scanning
        <5> QED BY <5>1 DEF Calm, Undisturbed, Places
      <4>3. args'[Worker] = args[p] /\ pc'[Worker] = "enter"
        BY <4>1, <4>2, <3>1, Sorts DEF Launch, Calm, Types, PcType, ArgsType
      <4>4. args[p].full \/ f \in Ids(p) BY <3>0, <3>1, ChangerIsAlone DEF Launch
      <4> QED BY <4>3, <4>4 DEF ByWorker, Ids
    <3>2. CASE p \in Refreshers
      <4>1. ByWorker(f) BY <3>0, <3>2, RefreshersOnly DEF Launch
      <4>2. pc[Worker] # "off" /\ p # Worker BY <4>1 DEF ByWorker, Launch
      <4>3. pc'[Worker] = pc[Worker] /\ args'[Worker] = args[Worker]
        BY <4>2, Sorts DEF Launch, Forget, Carry, Goto, Calm, Types, PcType, ArgsType
      <4> QED BY <4>1, <4>3, <2>v DEF ByWorker, Ids
    <3> QED BY <3>1, <3>2 DEF Processes
  <2> QED BY <2>1 DEF InHands
<1> QED BY <1>1, <1>2, <1>3, <1>4, <1>5, <1>6 DEF Undisturbed

LEMMA RequestCalm == ASSUME Calm, NEW r \in Readers, Request(r) PROVE Undisturbed'
<1>m. \A c \in Changers : pc[c] = "off" BY DEF Request, MayRequest, Calm
<1>n. r # Worker /\ r # Scan /\ r \in Processes /\ (\A c \in Changers : c # r) BY Sorts
<1>o. pc' \in [Processes -> Points] /\ pc'[r] \in {"schedule", "enter"} /\ \A q \in Processes \
    {r} : pc'[q] = pc[q] /\ args'[q] = args[q]
  BY <1>n DEF Request, Goto, Carry, Calm, Types, PcType, ArgsType, Points
<1>k. Ids(r)' = {} /\ args'[r].changed = {} /\ args'[r].deleted = {}
  BY <1>n DEF Request, Carry, NoArgs, Ids, Calm, Types, ArgsType
<1>1. Alone' BY <1>m, <1>n, <1>o, Sorts DEF Alone
<1>2. Places'
  BY Sorts, QuietOwesNothing, ChangerIsAlone, RefreshersOnly DEF Request, Carry, Goto,
      NeedsRepair, Calm, Types, PcType, Undisturbed, Alone, Places, Scanning
<1>3. Carried' BY <1>n, <1>o, <1>k, Sorts DEF Request, Calm, Undisturbed, Carried, Ids
<1>4. Reasoned'
  BY Sorts, QuietOwesNothing, ChangerIsAlone, RefreshersOnly DEF Request, Carry, Goto,
      NeedsRepair, Calm, Types, PcType, ArgsType, Args, Undisturbed, Reasoned, Ids, NoArgs,
      FullArgs, Places, Scanning
<1>5. Read'
  <2>1. \A q \in Refreshers : pc'[q] \notin Reading \/ Stays(q)
    BY Sorts DEF Request, Carry, Goto, NeedsRepair, Calm, Types, PcType, ArgsType, Args,
        LocalType, Local, Reading, Stays, Available
  <2> QED BY <2>1, Unread
<1>6. InHands'
  <2>1. ASSUME NEW f \in Files, Owed(f)' PROVE ByWorker(f)'
    <3>1. Owed(f) BY <2>1 DEF Request, Owed, Available
    <3>2. ByWorker(f) BY <3>1, <1>m DEF Calm, Undisturbed, InHands, ByChanger
    <3> QED BY <3>2, <1>n, <1>o, Sorts DEF Request, ByWorker, Ids, Available
  <2> QED BY <2>1 DEF InHands
<1> QED BY <1>1, <1>2, <1>3, <1>4, <1>5, <1>6 DEF Undisturbed

LEMMA EnterCalm == ASSUME Calm, NEW p \in Refreshers, Enter(p) PROVE Undisturbed'
<1>1. Alone'
  BY Sorts, RefreshersOnly DEF Enter, SetState, Done, Carry, Goto, Calm, Types, PcType,
      Undisturbed, Alone, Places, Scanning
<1>2. Places'
  BY Sorts, RefreshersOnly DEF Enter, SetState, Done, Carry, Goto, Calm, Types, PcType,
      Undisturbed, Alone, Places, Scanning
<1>3. Carried'
  BY Sorts, RefreshersOnly DEF Enter, SetState, Done, Carry, Goto, Calm, Types, PcType, ArgsType,
      Args, RegType, Undisturbed, Carried, Ids, Places, Scanning, NoArgs, FullArgs
<1>4. Reasoned'
  BY Sorts, RefreshersOnly DEF Enter, SetState, Done, Carry, Goto, Calm, Types, PcType, ArgsType,
      Args, Undisturbed, Reasoned, Ids, NoArgs, FullArgs, Places, Scanning
<1>5. Read'
  <2>1. \A q \in Refreshers : pc'[q] \notin Reading \/ Stays(q)
    BY Sorts, RefreshersOnly DEF Enter, SetState, Done, Carry, Goto, Calm, Types, PcType,
        ArgsType, Args, LocalType, Local, Reading, Stays, Available
  <2> QED BY <2>1, Unread
<1>6. InHands'
  BY Sorts, RefreshersOnly DEF Enter, SetState, Done, Carry, Goto, Calm, Types, PcType, ArgsType,
      Args, LocalType, Local, Undisturbed, InHands, Owed, ByChanger, ByWorker, Available, Ids,
      NoArgs, FullArgs
<1> QED BY <1>1, <1>2, <1>3, <1>4, <1>5, <1>6 DEF Undisturbed

LEMMA AcquireCalm == ASSUME Calm, NEW p \in Refreshers, Acquire(p) PROVE Undisturbed'
<1>1. Alone'
  BY Sorts, RefreshersOnly DEF Acquire, Goto, Calm, Types, PcType, Undisturbed, Alone, Places,
      Scanning
<1>2. Places'
  BY Sorts, RefreshersOnly DEF Acquire, Goto, Calm, Types, PcType, Undisturbed, Alone, Places,
      Scanning
<1>3. Carried'
  BY Sorts, RefreshersOnly DEF Acquire, Goto, Calm, Types, PcType, ArgsType, Args, RegType,
      Undisturbed, Carried, Ids, Places, Scanning, NoArgs, FullArgs
<1>4. Reasoned'
  BY Sorts, RefreshersOnly DEF Acquire, Goto, Calm, Types, PcType, ArgsType, Args, Undisturbed,
      Reasoned, Ids, NoArgs, FullArgs, Places, Scanning
<1>5. Read'
  <2>1. \A q \in Refreshers : pc'[q] \notin Reading \/ Stays(q)
    BY Sorts, RefreshersOnly DEF Acquire, Goto, Calm, Types, PcType, ArgsType, Args, LocalType,
        Local, Reading, Stays, Available
  <2> QED BY <2>1, Unread
<1>6. InHands'
  BY Sorts, RefreshersOnly DEF Acquire, Goto, Calm, Types, PcType, ArgsType, Args, LocalType,
      Local, Undisturbed, InHands, Owed, ByChanger, ByWorker, Available, Ids, NoArgs, FullArgs
<1> QED BY <1>1, <1>2, <1>3, <1>4, <1>5, <1>6 DEF Undisturbed

LEMMA DecideCalm == ASSUME Calm, NEW p \in Refreshers, Decide(p) PROVE Undisturbed'
<1>1. Alone'
  BY Sorts, RefreshersOnly DEF Decide, SetState, Goto, Calm, Types, PcType, Undisturbed, Alone,
      Places, Scanning
<1>2. Places'
  BY Sorts, RefreshersOnly DEF Decide, SetState, Goto, Calm, Types, PcType, Undisturbed, Alone,
      Places, Scanning
<1>3. Carried'
  BY Sorts, RefreshersOnly DEF Decide, SetState, Goto, Calm, Types, PcType, ArgsType, Args,
      RegType, Undisturbed, Carried, Ids, Places, Scanning, NoArgs, FullArgs
<1>4. Reasoned'
  BY Sorts, RefreshersOnly DEF Decide, SetState, Goto, Calm, Types, PcType, ArgsType, Args,
      Undisturbed, Reasoned, Ids, NoArgs, FullArgs, Places, Scanning
<1>5. Read'
  <2>1. \A q \in Refreshers : pc'[q] \notin Reading \/ Stays(q)
    BY Sorts, RefreshersOnly DEF Decide, SetState, Goto, Calm, Types, PcType, ArgsType, Args,
        LocalType, Local, Reading, Stays, Available
  <2> QED BY <2>1, Unread
<1>6. InHands'
  <2>1. args[p].full => ForceFull(args[p]) BY RefreshersOnly DEF Decide, ForceFull, Targeted
  <2>2. ASSUME NEW f \in Files, Owed(f)' PROVE ByWorker(f)'
    <3>1. ByWorker(f) BY <2>2, RefreshersOnly DEF Decide, Owed, Available
    <3>2. CASE p # Worker
      BY <3>1, <3>2, Sorts DEF Decide, Goto, ByWorker, Ids, Available, Calm, Types, PcType
    <3>3. CASE p = Worker
      BY <3>1, <3>3, <2>1, Sorts DEF Decide, Goto, ByWorker, Ids, Available, Calm, Types, PcType
    <3> QED BY <3>2, <3>3
  <2> QED BY <2>2 DEF InHands
<1> QED BY <1>1, <1>2, <1>3, <1>4, <1>5, <1>6 DEF Undisturbed

LEMMA ReadAllCalm == ASSUME Calm, NEW p \in Refreshers, ReadAll(p) PROVE Undisturbed'
<1>1. Alone'
  BY Sorts, RefreshersOnly DEF ReadAll, Available, Goto, Calm, Types, PcType, Undisturbed, Alone,
      Places, Scanning
<1>2. Places'
  BY Sorts, RefreshersOnly DEF ReadAll, Available, Goto, Calm, Types, PcType, Undisturbed, Alone,
      Places, Scanning
<1>3. Carried'
  BY Sorts, RefreshersOnly DEF ReadAll, Available, Goto, Calm, Types, PcType, ArgsType, Args,
      RegType, Undisturbed, Carried, Ids, Places, Scanning, NoArgs, FullArgs
<1>4. Reasoned'
  BY Sorts, RefreshersOnly DEF ReadAll, Available, Goto, Calm, Types, PcType, ArgsType, Args,
      Undisturbed, Reasoned, Ids, NoArgs, FullArgs, Places, Scanning
<1>5. Read'
  <2>a. \A q \in Refreshers \ {p} : pc'[q] \notin Locked
    BY Sorts, Single DEF ReadAll, Goto, Calm, Types, PcType, ArgsType, Args, LocalType, Local,
        Locked
  <2>v. Available' = Available /\ facts' = facts BY DEF ReadAll, Available
  <2>b. pc'[p] = "replaceAll" /\ local'[p].seen = Available
    BY Sorts DEF ReadAll, Goto, Calm, Types, PcType, LocalType, Local
  <2> QED BY <2>a, <2>b, <2>v, Sorts DEF Read, Locked
<1>6. InHands'
  BY Sorts, RefreshersOnly DEF ReadAll, Available, Goto, Calm, Types, PcType, ArgsType, Args,
      LocalType, Local, Undisturbed, InHands, Owed, ByChanger, ByWorker, Available, Ids, NoArgs,
      FullArgs
<1> QED BY <1>1, <1>2, <1>3, <1>4, <1>5, <1>6 DEF Undisturbed

LEMMA ReplaceAllCalm == ASSUME Calm, NEW p \in Refreshers, ReplaceAll(p) PROVE Undisturbed'
<1>1. Alone'
  BY Sorts, RefreshersOnly DEF ReplaceAll, SetState, Goto, Calm, Types, PcType, Undisturbed,
      Alone, Places, Scanning
<1>2. Places'
  BY Sorts, RefreshersOnly DEF ReplaceAll, SetState, Goto, Calm, Types, PcType, Undisturbed,
      Alone, Places, Scanning
<1>3. Carried'
  BY Sorts, RefreshersOnly DEF ReplaceAll, SetState, Goto, Calm, Types, PcType, ArgsType, Args,
      RegType, Undisturbed, Carried, Ids, Places, Scanning, NoArgs, FullArgs
<1>4. Reasoned'
  BY Sorts, RefreshersOnly DEF ReplaceAll, SetState, Goto, Calm, Types, PcType, ArgsType, Args,
      Undisturbed, Reasoned, Ids, NoArgs, FullArgs, Places, Scanning
<1>5. Read'
  <2>1. \A q \in Refreshers : pc'[q] \notin Reading \/ Stays(q)
    BY Sorts, Single DEF ReplaceAll, SetState, Goto, Calm, Types, PcType, ArgsType, Args,
        LocalType, Local, Reading, Stays, Available, Locked
  <2> QED BY <2>1, Unread
<1>6. InHands'
  <2>1. facts' = Available' /\ group' = Available'
    BY DEF ReplaceAll, Available, Calm, Undisturbed, Read
  <2> QED BY <2>1 DEF InHands, Owed
<1> QED BY <1>1, <1>2, <1>3, <1>4, <1>5, <1>6 DEF Undisturbed

LEMMA MarkCalm == ASSUME Calm, NEW p \in Refreshers, Mark(p) PROVE Undisturbed'
<1>1. Alone'
  BY Sorts, RefreshersOnly DEF Mark, SetState, Goto, Calm, Types, PcType, Undisturbed, Alone,
      Places, Scanning
<1>2. Places'
  BY Sorts, RefreshersOnly DEF Mark, SetState, Goto, Calm, Types, PcType, Undisturbed, Alone,
      Places, Scanning
<1>3. Carried'
  BY Sorts, RefreshersOnly DEF Mark, SetState, Goto, Calm, Types, PcType, ArgsType, Args, RegType,
      Undisturbed, Carried, Ids, Places, Scanning, NoArgs, FullArgs
<1>4. Reasoned'
  <2>1. args[p] \in Args BY Sorts DEF Calm, Types, ArgsType
  <2>2. ~index'.targeted BY <2>1, Untargeted, RefreshersOnly DEF Mark
  <2> QED BY <2>2 DEF Reasoned
<1>5. Read'
  <2>a. \A q \in Refreshers \ {p} : pc'[q] \notin Locked
    BY Sorts, Single DEF Mark, SetState, Goto, Calm, Types, PcType, ArgsType, Args, LocalType,
        Local, Locked
  <2>v. Available' = Available /\ facts' = facts BY DEF Mark, Available
  <2>b. pc'[p] = "readRows" /\ KeysOf(args[p]) \subseteq local'[p].keys /\ args' = args
    BY Sorts DEF Mark, Goto, Calm, Types, PcType, LocalType, Local
  <2>c. {KeyOf[f] : f \in Ids(p)} \subseteq local'[p].keys BY <2>b, KeysOfIds, Sorts DEF Mark
  <2>d. {KeyOf[f] : f \in Ids(p)'} \subseteq local'[p].keys BY <2>b, <2>c DEF Ids
  <2> QED BY <2>a, <2>b, <2>d, <2>v, Sorts DEF Read, Locked
<1>6. InHands'
  BY Sorts, RefreshersOnly DEF Mark, SetState, Goto, Calm, Types, PcType, ArgsType, Args,
      LocalType, Local, Undisturbed, InHands, Owed, ByChanger, ByWorker, Available, Ids, NoArgs,
      FullArgs
<1> QED BY <1>1, <1>2, <1>3, <1>4, <1>5, <1>6 DEF Undisturbed

LEMMA ReadRowsCalm == ASSUME Calm, NEW p \in Refreshers, ReadRows(p) PROVE Undisturbed'
<1>1. Alone'
  BY Sorts, RefreshersOnly DEF ReadRows, Goto, Calm, Types, PcType, Undisturbed, Alone, Places,
      Scanning
<1>2. Places'
  BY Sorts, RefreshersOnly DEF ReadRows, Goto, Calm, Types, PcType, Undisturbed, Alone, Places,
      Scanning
<1>3. Carried'
  BY Sorts, RefreshersOnly DEF ReadRows, Goto, Calm, Types, PcType, ArgsType, Args, RegType,
      Undisturbed, Carried, Ids, Places, Scanning, NoArgs, FullArgs
<1>4. Reasoned'
  BY Sorts, RefreshersOnly DEF ReadRows, Goto, Calm, Types, PcType, ArgsType, Args, Undisturbed,
      Reasoned, Ids, NoArgs, FullArgs, Places, Scanning
<1>5. Read'
  <2>a. \A q \in Refreshers \ {p} : pc'[q] \notin Locked
    BY Sorts, Single DEF ReadRows, Goto, Calm, Types, PcType, ArgsType, Args, LocalType, Local,
        Locked
  <2>v. Available' = Available /\ facts' = facts BY DEF ReadRows, Available
  <2>b. pc'[p] = "writeFacts" /\ local'[p].keys = local[p].keys /\ args' = args /\ local'[p].seen
      = [f \in Files |-> IF Row(f) THEN reg[f].ver ELSE 0]
    BY Sorts DEF ReadRows, Goto, Calm, Types, PcType, LocalType, Local
  <2>c. \A f \in args[p].changed : f \in Files /\ reg[f].status = "available"
    BY Sorts DEF ReadRows, Calm, Types, ArgsType, Args, Undisturbed, Carried
  <2>d. \A f \in args'[p].changed : local'[p].seen[f] = Available'[f]
    BY <2>b, <2>c, <2>v DEF Available, Row
  <2>e. p = Worker => {KeyOf[f] : f \in Ids(p)} \subseteq local[p].keys
    BY DEF ReadRows, Calm, Undisturbed, Read
  <2>f. p = Worker => {KeyOf[f] : f \in Ids(p)'} \subseteq local'[p].keys BY <2>b, <2>e DEF Ids
  <2> QED BY <2>a, <2>b, <2>d, <2>f, <2>v, Sorts DEF Read, Locked
<1>6. InHands'
  BY Sorts, RefreshersOnly DEF ReadRows, Goto, Calm, Types, PcType, ArgsType, Args, LocalType,
      Local, Undisturbed, InHands, Owed, ByChanger, ByWorker, Available, Ids, NoArgs, FullArgs
<1> QED BY <1>1, <1>2, <1>3, <1>4, <1>5, <1>6 DEF Undisturbed

LEMMA WriteFactsCalm == ASSUME Calm, NEW p \in Refreshers, WriteFacts(p) PROVE Undisturbed'
<1>1. Alone'
  BY Sorts, RefreshersOnly DEF WriteFacts, Goto, Calm, Types, PcType, Undisturbed, Alone, Places,
      Scanning
<1>2. Places'
  BY Sorts, RefreshersOnly DEF WriteFacts, Goto, Calm, Types, PcType, Undisturbed, Alone, Places,
      Scanning
<1>3. Carried'
  BY Sorts, RefreshersOnly DEF WriteFacts, Goto, Calm, Types, PcType, ArgsType, Args, RegType,
      Undisturbed, Carried, Ids, Places, Scanning, NoArgs, FullArgs
<1>4. Reasoned'
  BY Sorts, RefreshersOnly DEF WriteFacts, Goto, Calm, Types, PcType, ArgsType, Args, Undisturbed,
      Reasoned, Ids, NoArgs, FullArgs, Places, Scanning
<1>5. Read'
  <2>1. \A q \in Refreshers : pc'[q] \notin Reading \/ Stays(q)
    BY Sorts, Single DEF WriteFacts, Goto, Calm, Types, PcType, ArgsType, Args, LocalType, Local,
        Reading, Stays, Available, Locked
  <2> QED BY <2>1, Unread
<1>6. InHands'
  <2>v. Available' = Available /\ group' = group BY DEF WriteFacts, Available
  <2>1. ASSUME NEW f \in Files, Owed(f)' PROVE ByWorker(f)'
    <3>1. CASE p # Worker
      <4>1. p \in Readers BY <3>1 DEF Refreshers
      <4>2. args[p].changed = {} /\ args[p].deleted = {}
        BY <4>1 DEF WriteFacts, Calm, Undisturbed, Carried, Ids
      <4>3. facts' = facts BY <4>2 DEF WriteFacts, Calm, Types, TablesType
      <4>4. ByWorker(f) BY <4>3, <2>v, <2>1, RefreshersOnly DEF WriteFacts, Owed
      <4> QED
        BY <4>3, <4>4, <3>1, <2>v, Sorts DEF WriteFacts, Goto, ByWorker, Ids, Calm, Types, PcType
    <3>2. CASE p = Worker
      <4>1. f \in Ids(p) BY <3>2, <2>1, <2>v, RefreshersOnly DEF WriteFacts, Owed, ByWorker, Ids
      <4>2. KeyOf[f] \in local[p].keys BY <4>1, <3>2 DEF WriteFacts, Calm, Undisturbed, Read
      <4>3. pc'[p] = "build" BY <4>2, Sorts DEF WriteFacts, Goto, Calm, Types, PcType
      <4>4. \A g \in args[p].deleted : g \in Files => Available[g] = 0
        BY Sorts DEF WriteFacts, Available, Calm, Undisturbed, Carried
      <4>5. facts'[f] = Available[f]
        BY <4>1, <4>4, <3>2 DEF WriteFacts, Ids, Calm, Undisturbed, Read
      <4> QED BY <4>2, <4>3, <4>5, <3>2, <2>v DEF ByWorker, WriteFacts
    <3> QED BY <3>1, <3>2
  <2> QED BY <2>1 DEF InHands
<1> QED BY <1>1, <1>2, <1>3, <1>4, <1>5, <1>6 DEF Undisturbed

LEMMA BuildCalm == ASSUME Calm, NEW p \in Refreshers, Build(p) PROVE Undisturbed'
<1>1. Alone'
  BY Sorts, RefreshersOnly DEF Build, Goto, Calm, Types, PcType, Undisturbed, Alone, Places,
      Scanning
<1>2. Places'
  BY Sorts, RefreshersOnly DEF Build, Goto, Calm, Types, PcType, Undisturbed, Alone, Places,
      Scanning
<1>3. Carried'
  BY Sorts, RefreshersOnly DEF Build, Goto, Calm, Types, PcType, ArgsType, Args, RegType,
      Undisturbed, Carried, Ids, Places, Scanning, NoArgs, FullArgs
<1>4. Reasoned'
  BY Sorts, RefreshersOnly DEF Build, Goto, Calm, Types, PcType, ArgsType, Args, Undisturbed,
      Reasoned, Ids, NoArgs, FullArgs, Places, Scanning
<1>5. Read'
  <2>a. \A q \in Refreshers \ {p} : pc'[q] \notin Locked
    BY Sorts, Single DEF Build, Goto, Calm, Types, PcType, ArgsType, Args, LocalType, Local,
        Locked
  <2>v. Available' = Available /\ facts' = facts BY DEF Build, Available
  <2>b. pc'[p] = "replace" /\ local'[p].seen = facts
    BY Sorts DEF Build, Goto, Calm, Types, PcType, LocalType, Local
  <2> QED BY <2>a, <2>b, <2>v, Sorts DEF Read, Locked
<1>6. InHands'
  BY Sorts, RefreshersOnly DEF Build, Goto, Calm, Types, PcType, ArgsType, Args, LocalType, Local,
      Undisturbed, InHands, Owed, ByChanger, ByWorker, Available, Ids, NoArgs, FullArgs
<1> QED BY <1>1, <1>2, <1>3, <1>4, <1>5, <1>6 DEF Undisturbed

LEMMA ReplaceCalm == ASSUME Calm, NEW p \in Refreshers, Replace(p) PROVE Undisturbed'
<1>1. Alone'
  BY Sorts, RefreshersOnly DEF Replace, SetState, Goto, Calm, Types, PcType, Undisturbed, Alone,
      Places, Scanning
<1>2. Places'
  BY Sorts, RefreshersOnly DEF Replace, SetState, Goto, Calm, Types, PcType, Undisturbed, Alone,
      Places, Scanning
<1>3. Carried'
  BY Sorts, RefreshersOnly DEF Replace, SetState, Goto, Calm, Types, PcType, ArgsType, Args,
      RegType, Undisturbed, Carried, Ids, Places, Scanning, NoArgs, FullArgs
<1>4. Reasoned'
  BY Sorts, RefreshersOnly DEF Replace, SetState, Goto, Calm, Types, PcType, ArgsType, Args,
      Undisturbed, Reasoned, Ids, NoArgs, FullArgs, Places, Scanning
<1>5. Read'
  <2>1. \A q \in Refreshers : pc'[q] \notin Reading \/ Stays(q)
    BY Sorts, Single DEF Replace, SetState, Goto, Calm, Types, PcType, ArgsType, Args, LocalType,
        Local, Reading, Stays, Available, Locked
  <2> QED BY <2>1, Unread
<1>6. InHands'
  <2>v. Available' = Available /\ facts' = facts /\ local' = local /\ args' = args
    BY DEF Replace, Available
  <2>g. \A f \in Files : group'[f] = IF KeyOf[f] \in local[p].keys THEN facts[f] ELSE group[f]
    BY DEF Replace, Calm, Undisturbed, Read
  <2>1. ASSUME NEW f \in Files, Owed(f)' PROVE ByWorker(f)'
    <3>1. Owed(f) BY <2>1, <2>v, <2>g DEF Owed
    <3>2. ByWorker(f) BY <3>1, RefreshersOnly DEF Replace
    <3>3. CASE p # Worker
      BY <3>2, <3>3, <2>v, Sorts DEF Replace, Goto, ByWorker, Ids, Calm, Types, PcType
    <3>4. CASE p = Worker BY <3>2, <3>4, <2>v, <2>g, <2>1 DEF Replace, ByWorker, Owed
    <3> QED BY <3>3, <3>4
  <2> QED BY <2>1 DEF InHands
<1> QED BY <1>1, <1>2, <1>3, <1>4, <1>5, <1>6 DEF Undisturbed

LEMMA CheckCalm == ASSUME Calm, NEW p \in Refreshers, Check(p) PROVE Undisturbed'
<1>1. Alone'
  BY Sorts, RefreshersOnly DEF Check, Goto, Calm, Types, PcType, Undisturbed, Alone, Places,
      Scanning
<1>2. Places'
  BY Sorts, RefreshersOnly DEF Check, Goto, Calm, Types, PcType, Undisturbed, Alone, Places,
      Scanning
<1>3. Carried'
  BY Sorts, RefreshersOnly DEF Check, Goto, Calm, Types, PcType, ArgsType, Args, RegType,
      Undisturbed, Carried, Ids, Places, Scanning, NoArgs, FullArgs
<1>4. Reasoned'
  BY Sorts, RefreshersOnly DEF Check, Goto, Calm, Types, PcType, ArgsType, Args, Undisturbed,
      Reasoned, Ids, NoArgs, FullArgs, Places, Scanning
<1>5. Read'
  <2>1. \A q \in Refreshers : pc'[q] \notin Reading \/ Stays(q)
    BY Sorts, RefreshersOnly DEF Check, Goto, Calm, Types, PcType, ArgsType, Args, LocalType,
        Local, Reading, Stays, Available
  <2> QED BY <2>1, Unread
<1>6. InHands'
  BY Sorts, RefreshersOnly DEF Check, Goto, Calm, Types, PcType, ArgsType, Args, LocalType, Local,
      Undisturbed, InHands, Owed, ByChanger, ByWorker, Available, Ids, NoArgs, FullArgs
<1> QED BY <1>1, <1>2, <1>3, <1>4, <1>5, <1>6 DEF Undisturbed

LEMMA SettleCalm == ASSUME Calm, NEW p \in Refreshers, Settle(p) PROVE Undisturbed'
<1>1. Alone'
  BY Sorts, RefreshersOnly DEF Settle, SetState, Goto, Calm, Types, PcType, Undisturbed, Alone,
      Places, Scanning
<1>2. Places'
  BY Sorts, RefreshersOnly DEF Settle, SetState, Goto, Calm, Types, PcType, Undisturbed, Alone,
      Places, Scanning
<1>3. Carried'
  BY Sorts, RefreshersOnly DEF Settle, SetState, Goto, Calm, Types, PcType, ArgsType, Args,
      RegType, Undisturbed, Carried, Ids, Places, Scanning, NoArgs, FullArgs
<1>4. Reasoned'
  BY Sorts, RefreshersOnly DEF Settle, SetState, Goto, Calm, Types, PcType, ArgsType, Args,
      Undisturbed, Reasoned, Ids, NoArgs, FullArgs, Places, Scanning
<1>5. Read'
  <2>1. \A q \in Refreshers : pc'[q] \notin Reading \/ Stays(q)
    BY Sorts, RefreshersOnly DEF Settle, SetState, Goto, Calm, Types, PcType, ArgsType, Args,
        LocalType, Local, Reading, Stays, Available
  <2> QED BY <2>1, Unread
<1>6. InHands'
  BY Sorts, RefreshersOnly DEF Settle, SetState, Goto, Calm, Types, PcType, ArgsType, Args,
      LocalType, Local, Undisturbed, InHands, Owed, ByChanger, ByWorker, Available, Ids, NoArgs,
      FullArgs
<1> QED BY <1>1, <1>2, <1>3, <1>4, <1>5, <1>6 DEF Undisturbed

LEMMA UnlockCalm == ASSUME Calm, NEW p \in Refreshers, Unlock(p) PROVE Undisturbed'
<1>1. Alone'
  BY Sorts, RefreshersOnly DEF Unlock, Done, Carry, Goto, Calm, Types, PcType, Undisturbed, Alone,
      Places, Scanning
<1>2. Places'
  BY Sorts, RefreshersOnly DEF Unlock, Done, Carry, Goto, Calm, Types, PcType, Undisturbed, Alone,
      Places, Scanning
<1>3. Carried'
  BY Sorts, RefreshersOnly DEF Unlock, Done, Carry, Goto, Calm, Types, PcType, ArgsType, Args,
      RegType, Undisturbed, Carried, Ids, Places, Scanning, NoArgs, FullArgs
<1>4. Reasoned'
  BY Sorts, RefreshersOnly DEF Unlock, Done, Carry, Goto, Calm, Types, PcType, ArgsType, Args,
      Undisturbed, Reasoned, Ids, NoArgs, FullArgs, Places, Scanning
<1>5. Read'
  <2>1. \A q \in Refreshers : pc'[q] \notin Reading \/ Stays(q)
    BY Sorts, RefreshersOnly DEF Unlock, Done, Carry, Goto, Calm, Types, PcType, ArgsType, Args,
        LocalType, Local, Reading, Stays, Available
  <2> QED BY <2>1, Unread
<1>6. InHands'
  BY Sorts, RefreshersOnly DEF Unlock, Done, Carry, Goto, Calm, Types, PcType, ArgsType, Args,
      LocalType, Local, Undisturbed, InHands, Owed, ByChanger, ByWorker, Available, Ids, NoArgs,
      FullArgs
<1> QED BY <1>1, <1>2, <1>3, <1>4, <1>5, <1>6 DEF Undisturbed

LEMMA TakePendingCalm == ASSUME Calm, TakePending PROVE Undisturbed'
<1>1. Alone'
  BY Sorts, RefreshersOnly DEF TakePending, Goto, Calm, Types, PcType, Undisturbed, Alone, Places,
      Scanning
<1>2. Places'
  BY Sorts, RefreshersOnly DEF TakePending, Goto, Calm, Types, PcType, Undisturbed, Alone, Places,
      Scanning
<1>3. Carried'
  BY Sorts, RefreshersOnly DEF TakePending, Goto, Calm, Types, PcType, ArgsType, Args, RegType,
      Undisturbed, Carried, Ids, Places, Scanning, NoArgs, FullArgs
<1>4. Reasoned'
  BY Sorts, RefreshersOnly DEF TakePending, Goto, Calm, Types, PcType, ArgsType, Args,
      Undisturbed, Reasoned, Ids, NoArgs, FullArgs, Places, Scanning
<1>5. Read'
  <2>1. \A q \in Refreshers : pc'[q] \notin Reading \/ Stays(q)
    BY Sorts, RefreshersOnly DEF TakePending, Goto, Calm, Types, PcType, ArgsType, Args,
        LocalType, Local, Reading, Stays, Available
  <2> QED BY <2>1, Unread
<1>6. InHands'
  BY Sorts, RefreshersOnly DEF TakePending, Goto, Calm, Types, PcType, ArgsType, Args, LocalType,
      Local, Undisturbed, InHands, Owed, ByChanger, ByWorker, Available, Ids, NoArgs, FullArgs
<1> QED BY <1>1, <1>2, <1>3, <1>4, <1>5, <1>6 DEF Undisturbed

LEMMA AgainCalm == ASSUME Calm, Again PROVE Undisturbed'
<1>1. Alone'
  BY Sorts, RefreshersOnly DEF Again, Carry, Goto, Forget, Calm, Types, PcType, Undisturbed,
      Alone, Places, Scanning
<1>2. Places'
  BY Sorts, RefreshersOnly DEF Again, Carry, Goto, Forget, Calm, Types, PcType, Undisturbed,
      Alone, Places, Scanning
<1>3. Carried'
  <2>1. \A q \in Processes \ {Worker} : pc'[q] = pc[q] /\ args'[q] = args[q]
    BY Sorts DEF Again, Forget, Carry, Goto, Calm, Types, PcType, ArgsType
  <2>2. args'[Worker].changed = {} /\ args'[Worker].deleted = {}
    BY Sorts DEF Again, Forget, Carry, NoArgs, Calm, Types, ArgsType
  <2>3. reg' = reg BY DEF Again
  <2> QED BY <2>1, <2>2, <2>3, Sorts DEF Calm, Undisturbed, Carried, Ids
<1>4. Reasoned'
  BY Sorts, RefreshersOnly DEF Again, Carry, Goto, Forget, Calm, Types, PcType, ArgsType, Args,
      Undisturbed, Reasoned, Ids, NoArgs, FullArgs, Places, Scanning
<1>5. Read'
  <2>1. \A q \in Refreshers : pc'[q] \notin Reading \/ Stays(q)
    BY Sorts, RefreshersOnly DEF Again, Carry, Goto, Forget, Calm, Types, PcType, ArgsType, Args,
        LocalType, Local, Reading, Stays, Available
  <2> QED BY <2>1, Unread
<1>6. InHands'
  BY Sorts, RefreshersOnly DEF Again, Carry, Goto, Forget, Calm, Types, PcType, ArgsType, Args,
      LocalType, Local, Undisturbed, InHands, Owed, ByChanger, ByWorker, Available, Ids, NoArgs,
      FullArgs
<1> QED BY <1>1, <1>2, <1>3, <1>4, <1>5, <1>6 DEF Undisturbed

LEMMA CalmStep == ASSUME Calm, Next PROVE Undisturbed'
<1>1. ASSUME NEW c \in Clients, NEW f \in Files, Register(c, f) PROVE Undisturbed'
  BY <1>1, RegisterCalm
<1>2. ASSUME NEW c \in Clients, NEW f \in Files, Remove(c, f) PROVE Undisturbed'
  BY <1>2, RemoveCalm
<1>3. ASSUME NEW c \in Clients, RemoveAll(c) PROVE Undisturbed' BY <1>3, RemoveAllCalm
<1>4. ASSUME ScanBegin PROVE Undisturbed' BY <1>4, ScanBeginCalm
<1>5. ASSUME ScanMissing PROVE Undisturbed' BY <1>5, ScanMissingCalm
<1>6. ASSUME NEW f \in Files, ScanSave(f) PROVE Undisturbed' BY <1>6, ScanSaveCalm
<1>7. ASSUME NEW f \in Files, ScanRecover(f) PROVE Undisturbed' BY <1>7, ScanRecoverCalm
<1>8. ASSUME NEW f \in Files, ScanRelocate(f) PROVE Undisturbed' BY <1>8 DEF ScanRelocate, Calm
<1>9. ASSUME NEW f \in Files, ScanPurge(f) PROVE Undisturbed' BY <1>9, ScanPurgeCalm
<1>10. ASSUME ScanEnd PROVE Undisturbed' BY <1>10, ScanEndCalm
<1>11. ASSUME ScheduleAfterRescan PROVE Undisturbed' BY <1>11, ScheduleAfterRescanCalm
<1>12. ASSUME NEW p \in Processes, Schedule(p) PROVE Undisturbed' BY <1>12, ScheduleCalm
<1>13. ASSUME NEW p \in Processes, Launch(p) PROVE Undisturbed' BY <1>13, LaunchCalm
<1>14. ASSUME NEW r \in Readers, Request(r) PROVE Undisturbed' BY <1>14, RequestCalm
<1>15. ASSUME NEW p \in Refreshers, Enter(p) PROVE Undisturbed' BY <1>15, EnterCalm
<1>16. ASSUME NEW p \in Refreshers, Acquire(p) PROVE Undisturbed' BY <1>16, AcquireCalm
<1>17. ASSUME NEW p \in Refreshers, TimeOut(p) PROVE Undisturbed' BY <1>17 DEF TimeOut, Calm
<1>18. ASSUME NEW p \in Refreshers, Decide(p) PROVE Undisturbed' BY <1>18, DecideCalm
<1>19. ASSUME NEW p \in Refreshers, ReadAll(p) PROVE Undisturbed' BY <1>19, ReadAllCalm
<1>20. ASSUME NEW p \in Refreshers, ReplaceAll(p) PROVE Undisturbed' BY <1>20, ReplaceAllCalm
<1>21. ASSUME NEW p \in Refreshers, Mark(p) PROVE Undisturbed' BY <1>21, MarkCalm
<1>22. ASSUME NEW p \in Refreshers, ReadRows(p) PROVE Undisturbed' BY <1>22, ReadRowsCalm
<1>23. ASSUME NEW p \in Refreshers, WriteFacts(p) PROVE Undisturbed' BY <1>23, WriteFactsCalm
<1>24. ASSUME NEW p \in Refreshers, Build(p) PROVE Undisturbed' BY <1>24, BuildCalm
<1>25. ASSUME NEW p \in Refreshers, Replace(p) PROVE Undisturbed' BY <1>25, ReplaceCalm
<1>26. ASSUME NEW p \in Refreshers, Check(p) PROVE Undisturbed' BY <1>26, CheckCalm
<1>27. ASSUME NEW p \in Refreshers, Settle(p) PROVE Undisturbed' BY <1>27, SettleCalm
<1>28. ASSUME NEW p \in Refreshers, FailRefresh(p) PROVE Undisturbed'
  BY <1>28 DEF FailRefresh, Calm
<1>29. ASSUME NEW p \in Refreshers, Unlock(p) PROVE Undisturbed' BY <1>29, UnlockCalm
<1>30. ASSUME TakePending PROVE Undisturbed' BY <1>30, TakePendingCalm
<1>31. ASSUME Again PROVE Undisturbed' BY <1>31, AgainCalm
<1> QED
  BY <1>1, <1>2, <1>3, <1>4, <1>5, <1>6, <1>7, <1>8, <1>9, <1>10, <1>11, <1>12, <1>13, <1>14,
      <1>15, <1>16, <1>17, <1>18, <1>19, <1>20, <1>21, <1>22, <1>23, <1>24, <1>25, <1>26, <1>27,
      <1>28, <1>29, <1>30, <1>31 DEF Next, Change, ScheduleStep, RefreshStep, FullSteps,
      IncrementalSteps

LEMMA CalmStutter == ASSUME Calm, UNCHANGED vars PROVE Undisturbed'
<1> USE DEF vars, Calm, Undisturbed
<1>1. Alone' /\ Places' BY DEF Alone, Places
<1>2. Carried' BY DEF Carried, Ids
<1>3. Reasoned' BY DEF Reasoned, Ids
<1>4. Read' BY DEF Read, Ids, Available
<1>5. InHands' BY DEF InHands, Owed, ByChanger, ByWorker, Available, Ids
<1> QED BY <1>1, <1>2, <1>3, <1>4, <1>5

-----------------------------------------------------------------------------
(***************************************************************************)
(* The theorems.                                                           *)
(***************************************************************************)
IInv == Types /\ RefreshExclusive /\ (disturbances = {} => Undisturbed)

LEMMA InitIInv == Init => IInv
<1> SUFFICES ASSUME Init PROVE IInv OBVIOUS
<1>1. Types
  <2>1. RegType /\ TablesType BY BoundAssumption DEF Init, RegType, TablesType, Versions
  <2>2. IndexType BY DEF Init, IndexType, IndexRecord, States
  <2>3. PcType BY DEF Init, PcType, Points
  <2>4. ArgsType BY NoArgsType DEF Init, ArgsType
  <2>5. LocalType BY NoLocalType DEF Init, LocalType
  <2> QED BY <2>1, <2>2, <2>3, <2>4, <2>5 DEF Types
<1>2. \A p \in Processes : pc[p] = "off" BY DEF Init
<1>3. RefreshExclusive
  BY <1>2, ProcessesAssumption, Sorts DEF Init, RefreshExclusive, Locked, Processes
<1>4. Alone /\ Places BY <1>2, Sorts DEF Init, Alone, Places, Scanning
<1>5. Carried /\ Read BY <1>2, Sorts DEF Carried, Read
<1>6. Reasoned BY DEF Init, Reasoned
<1>7. InHands BY DEF Init, InHands, Owed, Available
<1> QED BY <1>1, <1>3, <1>4, <1>5, <1>6, <1>7 DEF IInv, Undisturbed

LEMMA NextIInv == IInv /\ [Next]_vars => IInv'
<1> SUFFICES ASSUME IInv, [Next]_vars PROVE IInv' OBVIOUS
<1>1. CASE Next
  <2>1. disturbances' = disturbances
    BY <1>1, ZenonT(30) DEF Next, Change, ScheduleStep, RefreshStep, FullSteps, IncrementalSteps,
         Register,
        Remove, RemoveAll, ScanBegin, ScanMissing, ScanSave, ScanRecover, ScanRelocate, ScanPurge,
        ScanEnd, ScheduleAfterRescan, Schedule, Launch, Request, Enter, Acquire, TimeOut, Decide,
        ReadAll, ReplaceAll, Mark, ReadRows, WriteFacts, Build, Replace, Check, Settle,
        FailRefresh, Unlock, TakePending, Again
  <2>2. Types' /\ RefreshExclusive' BY <1>1, TypeStep, LockStep DEF IInv
  <2>3. disturbances' = {} => Undisturbed' BY <1>1, <2>1, CalmStep DEF IInv, Calm
  <2> QED BY <2>2, <2>3 DEF IInv
<1>2. CASE UNCHANGED vars
  <2>1. Types'
    BY <1>2 DEF IInv, vars, Types, RegType, TablesType, IndexType, PcType, ArgsType, LocalType
  <2>2. RefreshExclusive' BY <1>2 DEF IInv, vars, RefreshExclusive
  <2>3. disturbances' = {} => Undisturbed' BY <1>2, CalmStutter DEF IInv, Calm, vars
  <2> QED BY <2>1, <2>2, <2>3 DEF IInv
<1> QED BY <1>1, <1>2

LEMMA Invariance == Spec => []IInv
BY InitIInv, NextIInv, PTL DEF Spec

\* The tables, the index and the threads keep their types.
THEOREM TypeCorrect == Spec => []TypeOK
<1>1. IInv => TypeOK BY TypesAreTypeOK DEF IInv
<1> QED BY <1>1, Invariance, PTL

\* At most one thread refreshes, whoever asks, fails or gives up waiting
\* (refresh_group_index_now).
THEOREM ExclusiveRefresh == Spec => []RefreshExclusive
<1>1. IInv => RefreshExclusive BY DEF IInv
<1> QED BY <1>1, Invariance, PTL

\* Undisturbed, an index that says it is ready when nothing is under way shows
\* every available file in its last version and no other, for any number of
\* files, callers and requests.
THEOREM FreshWhenUndisturbed == Spec => []UndisturbedIsFresh
<1>1. ASSUME IInv PROVE UndisturbedIsFresh
  <2> SUFFICES ASSUME disturbances = {}, Quiet PROVE group = Available
    BY DEF UndisturbedIsFresh, ReadyMeansFresh
  <2>1. \A f \in Files : ~Owed(f) BY <1>1, QuietOwesNothing DEF IInv, Calm
  <2>2. group \in [Files -> Versions] BY <1>1 DEF IInv, Types, TablesType
  <2> QED BY <2>1, <2>2 DEF Owed, Available
<1> QED BY <1>1, Invariance, PTL
-----------------------------------------------------------------------------
(***************************************************************************)
(* How far a refresh is from its end.  Nothing in the module loops: the    *)
(* worker that starts over (Again) only schedules, and finds itself alive. *)
(***************************************************************************)
StepRank ==
  [off |-> 0, launch |-> 1, schedule |-> 2, again |-> 3, takePending |-> 4, unlock |-> 5,
   settle |-> 6, check |-> 7, replace |-> 8, build |-> 9, writeFacts |-> 10, readRows |-> 11,
   replaceAll |-> 11, mark |-> 12, readAll |-> 12, decide |-> 13, wait |-> 14, enter |-> 15,
   lifecycle |-> 0, commit |-> 0, purged |-> 0, result |-> 0]

StepsLeft(p) == StepRank[pc[p]]

LEMMA StepsLeftType == ASSUME Types, NEW p \in Processes PROVE StepsLeft(p) \in 0..15
BY DEF Types, PcType, Points, StepsLeft, StepRank

\* The steps of a refresher's own thread.
OwnStep(p) ==
  \/ RefreshStep(p) \/ FailRefresh(p) \/ ScheduleStep(p)
  \/ p = Worker /\ (TakePending \/ Again)

LEMMA RefreshMoves ==
  ASSUME Types, NEW p \in Refreshers, RefreshStep(p) \/ FailRefresh(p)
  PROVE  \/ pc[p] = "enter" /\ pc'[p] = "wait"
         \/ pc[p] = "wait" /\ pc'[p] = "decide"
         \/ pc[p] \in {"enter", "wait", "unlock"} /\ pc'[p] \in {"off", "takePending"}
         \/ pc[p] = "decide" /\ pc'[p] \in {"readAll", "mark"}
         \/ pc[p] = "readAll" /\ pc'[p] = "replaceAll"
         \/ pc[p] = "mark" /\ pc'[p] = "readRows"
         \/ pc[p] = "readRows" /\ pc'[p] = "writeFacts"
         \/ pc[p] = "writeFacts" /\ pc'[p] \in {"check", "build"}
         \/ pc[p] = "build" /\ pc'[p] = "replace"
         \/ pc[p] = "replace" /\ pc'[p] = "check"
         \/ pc[p] = "check" /\ pc'[p] = "settle"
         \/ pc[p] \in Locked \ {"unlock"} /\ pc'[p] = "unlock"
<1> USE Sorts DEF Types, PcType, Goto, Done
<1>1. CASE Enter(p) BY <1>1 DEF Enter
<1>2. CASE Acquire(p) BY <1>2 DEF Acquire
<1>3. CASE TimeOut(p) BY <1>3 DEF TimeOut
<1>4. CASE Decide(p) BY <1>4 DEF Decide
<1>5. CASE ReadAll(p) BY <1>5 DEF ReadAll
<1>6. CASE ReplaceAll(p) BY <1>6 DEF ReplaceAll, Locked
<1>7. CASE Mark(p) BY <1>7 DEF Mark
<1>8. CASE ReadRows(p) BY <1>8 DEF ReadRows
<1>9. CASE WriteFacts(p) BY <1>9 DEF WriteFacts
<1>10. CASE Build(p) BY <1>10 DEF Build
<1>11. CASE Replace(p) BY <1>11 DEF Replace
<1>12. CASE Check(p) BY <1>12 DEF Check
<1>13. CASE Settle(p) BY <1>13 DEF Settle, Locked
<1>14. CASE Unlock(p) BY <1>14 DEF Unlock
<1>15. CASE FailRefresh(p) BY <1>15 DEF FailRefresh
<1> QED
  BY <1>1, <1>2, <1>3, <1>4, <1>5, <1>6, <1>7, <1>8, <1>9, <1>10, <1>11, <1>12, <1>13, <1>14,
      <1>15 DEF RefreshStep, FullSteps, IncrementalSteps

LEMMA OwnStepDescends ==
  ASSUME Types, NEW p \in Refreshers, OwnStep(p)
  PROVE  StepsLeft(p)' < StepsLeft(p)
<1>1. CASE RefreshStep(p) \/ FailRefresh(p)
  BY <1>1, RefreshMoves DEF StepsLeft, StepRank, Locked
<1>2. CASE Schedule(p)
  BY <1>2, Sorts DEF Schedule, Goto, Types, PcType, StepsLeft, StepRank
<1>3. CASE Launch(p)
  <2>1. pc[p] = "launch" /\ pc'[p] = "off"
    BY <1>3, Sorts DEF Launch, Forget, Goto, Types, PcType
  <2> QED BY <2>1 DEF StepsLeft, StepRank
<1>4. CASE p = Worker /\ TakePending
  BY <1>4, Sorts DEF TakePending, Goto, Types, PcType, StepsLeft, StepRank
<1>5. CASE p = Worker /\ Again
  <2>1. pc[p] = "again" /\ pc'[p] \in {"off", "schedule"}
    BY <1>5, Sorts DEF Again, Forget, Goto, Types, PcType
  <2> QED BY <2>1 DEF StepsLeft, StepRank
<1> QED BY <1>1, <1>2, <1>3, <1>4, <1>5 DEF OwnStep, ScheduleStep

\* Nobody else moves a refresher that is under way: only an idle worker is started by others.
LEMMA OthersLeave ==
  ASSUME Types, NEW p \in Refreshers, pc[p] # "off", Next, ~OwnStep(p)
  PROVE  pc'[p] = pc[p]
<1> USE Sorts DEF Types, PcType, Goto
<1>1. ASSUME NEW c \in Clients, NEW f \in Files, Register(c, f) \/ Remove(c, f)
      PROVE  pc'[p] = pc[p]
  BY <1>1 DEF Register, Remove
<1>2. ASSUME NEW c \in Clients, RemoveAll(c) PROVE pc'[p] = pc[p] BY <1>2 DEF RemoveAll
<1>3. CASE ScanBegin BY <1>3 DEF ScanBegin
<1>4. ASSUME NEW f \in Files, ScanSave(f) \/ ScanRecover(f) \/ ScanRelocate(f) \/ ScanPurge(f)
      PROVE  pc'[p] = pc[p]
  BY <1>4 DEF ScanSave, ScanRecover, ScanRelocate, ScanPurge
<1>5. CASE ScanMissing BY <1>5 DEF ScanMissing
<1>6. CASE ScanEnd BY <1>6 DEF ScanEnd, Forget
<1>7. CASE ScheduleAfterRescan BY <1>7 DEF ScheduleAfterRescan, Forget
<1>8. ASSUME NEW q \in Processes, Schedule(q), q # p PROVE pc'[p] = pc[p] BY <1>8 DEF Schedule
<1>9. ASSUME NEW q \in Processes, Launch(q), q # p PROVE pc'[p] = pc[p]
  BY <1>9 DEF Launch, Forget
<1>10. ASSUME NEW r \in Readers, Request(r) PROVE pc'[p] = pc[p] BY <1>10 DEF Request
<1>11. ASSUME NEW q \in Refreshers, RefreshStep(q) \/ FailRefresh(q), q # p
       PROVE  pc'[p] = pc[p]
  BY <1>11 DEF RefreshStep, FullSteps, IncrementalSteps, Enter, Acquire, TimeOut, Decide, ReadAll,
      ReplaceAll, Mark, ReadRows, WriteFacts, Build, Replace, Check, Settle, FailRefresh, Unlock,
      Done
<1>12. CASE TakePending /\ p # Worker BY <1>12 DEF TakePending
<1>13. CASE Again /\ p # Worker BY <1>13 DEF Again, Forget
<1> QED
  BY <1>1, <1>2, <1>3, <1>4, <1>5, <1>6, <1>7, <1>8, <1>9, <1>10, <1>11, <1>12, <1>13
      DEF Next, Change, ScheduleStep, OwnStep

(***************************************************************************)
(* A refresh, once begun, is brought closer to its end by every step of    *)
(* its own thread, at most fifteen of them, and by nothing put back: no    *)
(* change, rescan, request or other refresh makes it start over.           *)
(***************************************************************************)
RefreshesWindDown ==
  \A p \in Refreshers : pc[p] # "off" =>
    /\ StepsLeft(p)' <= StepsLeft(p) /\ StepsLeft(p) <= 15
    /\ OwnStep(p) => StepsLeft(p)' < StepsLeft(p)

\* No refresh and no worker runs for ever, whatever changes, fails or is requested meanwhile:
\* the worker that finds more to do at its end (_group_refresh_worker) does not loop.
THEOREM RefreshWindsDown == Spec => [][RefreshesWindDown]_vars
<1>1. ASSUME IInv, Next PROVE RefreshesWindDown
  <2> SUFFICES ASSUME NEW p \in Refreshers, pc[p] # "off"
               PROVE  /\ StepsLeft(p)' <= StepsLeft(p) /\ StepsLeft(p) <= 15
                      /\ OwnStep(p) => StepsLeft(p)' < StepsLeft(p)
    BY DEF RefreshesWindDown
  <2>0. Types /\ Types' BY <1>1, TypeStep DEF IInv
  <2>1. StepsLeft(p) \in 0..15 BY <2>0, StepsLeftType, Sorts
  <2>2. StepsLeft(p)' \in 0..15
    <3>1. pc'[p] \in Points BY <2>0, Sorts DEF Types, PcType
    <3> QED BY <3>1 DEF Points, StepsLeft, StepRank
  <2>3. OwnStep(p) => StepsLeft(p)' < StepsLeft(p) BY <2>0, OwnStepDescends
  <2>4. ~OwnStep(p) => StepsLeft(p)' = StepsLeft(p)
    <3>1. ~OwnStep(p) => pc'[p] = pc[p] BY <1>1, <2>0, OthersLeave
    <3> QED BY <3>1 DEF StepsLeft
  <2> QED BY <2>1, <2>2, <2>3, <2>4
<1>2. ASSUME IInv, [Next]_vars PROVE [RefreshesWindDown]_vars BY <1>1, <1>2
<1> QED BY <1>2, Invariance, PTL DEF Spec

-----------------------------------------------------------------------------
(***************************************************************************)
(* The lock comes back.  A holder goes from point to point down the ranks  *)
(* of Locked, thirteen to five, whatever path the refresh takes, and gives *)
(* the lock back with the last of them.                                    *)
(***************************************************************************)
Holds(p, n) == refreshLock = p /\ StepsLeft(p) <= n

LEMMA LockedRanks ==
  ASSUME IInv, NEW p \in Refreshers, refreshLock = p
  PROVE  pc[p] \in Locked /\ StepsLeft(p) \in 5..13
<1>1. pc[p] \in Locked BY DEF IInv, RefreshExclusive
<1> QED BY <1>1 DEF Locked, StepsLeft, StepRank

\* Under [Next]_vars the holder keeps the lock or comes no further from its end; with a step
\* of its own it comes closer.
LEMMA HolderMoves ==
  ASSUME IInv, IInv', NEW p \in Refreshers, [Next]_vars, NEW n \in 5..13, Holds(p, n)
  PROVE  /\ Holds(p, n)' \/ (refreshLock # p)'
         /\ <<RefreshStep(p)>>_vars => Holds(p, n - 1)' \/ (refreshLock # p)'
<1>0. Types /\ p \in Processes BY Sorts DEF IInv
<1>1. pc[p] \in Locked /\ StepsLeft(p) \in 5..13 /\ pc[p] # "off"
  <2>1. pc[p] \in Locked /\ StepsLeft(p) \in 5..13 BY LockedRanks DEF Holds
  <2> QED BY <2>1 DEF Locked
<1>2. StepsLeft(p)' \in 0..15
  <2>1. pc'[p] \in Points BY Sorts DEF IInv, Types, PcType
  <2> QED BY <2>1 DEF Points, StepsLeft, StepRank
<1>3. CASE Next /\ OwnStep(p)
  <2>1. StepsLeft(p)' < StepsLeft(p) BY <1>0, <1>3, OwnStepDescends
  <2> QED BY <1>1, <1>2, <2>1 DEF Holds
<1>4. CASE (Next /\ ~OwnStep(p)) \/ UNCHANGED vars
  <2>1. StepsLeft(p)' = StepsLeft(p)
    <3>1. pc'[p] = pc[p] BY <1>0, <1>1, <1>4, OthersLeave DEF vars
    <3> QED BY <3>1 DEF StepsLeft
  <2>2. ~<<RefreshStep(p)>>_vars BY <1>4 DEF OwnStep
  <2> QED BY <2>1, <2>2 DEF Holds
<1> QED BY <1>3, <1>4

\* A refresh that has the lock gives it back, by the fair steps of its own thread alone: whatever
\* the rescan, the callers and the other requests do, and also when it fails (the finally of
\* refresh_group_index_now).
THEOREM LockComesBack ==
  ASSUME NEW p \in Refreshers
  PROVE  Spec /\ WF_vars(RefreshStep(p))
              /\ [](pc[p] \in Locked => ENABLED <<RefreshStep(p)>>_vars)
           => (refreshLock = p ~> refreshLock # p)
<1>1. IInv => (refreshLock = p => pc[p] \in Locked /\ Holds(p, 13))
  <2>1. IInv /\ refreshLock = p => pc[p] \in Locked /\ StepsLeft(p) \in 5..13 BY LockedRanks
  <2> QED BY <2>1 DEF Holds
<1>2. IInv => ~Holds(p, 4)
  <2>1. IInv /\ refreshLock = p => StepsLeft(p) \in 5..13 BY LockedRanks
  <2> QED BY <2>1 DEF Holds
<1>3. Holds(p, 13) \/ Holds(p, 12) \/ Holds(p, 11) \/ Holds(p, 10) \/ Holds(p, 9)
        \/ Holds(p, 8) \/ Holds(p, 7) \/ Holds(p, 6) \/ Holds(p, 5) => refreshLock = p
  BY DEF Holds
<1>4. IInv /\ IInv' /\ [Next]_vars =>
        /\ Holds(p, 13) => Holds(p, 13)' \/ (refreshLock # p)'
        /\ Holds(p, 12) => Holds(p, 12)' \/ (refreshLock # p)'
        /\ Holds(p, 11) => Holds(p, 11)' \/ (refreshLock # p)'
        /\ Holds(p, 10) => Holds(p, 10)' \/ (refreshLock # p)'
        /\ Holds(p, 9) => Holds(p, 9)' \/ (refreshLock # p)'
        /\ Holds(p, 8) => Holds(p, 8)' \/ (refreshLock # p)'
        /\ Holds(p, 7) => Holds(p, 7)' \/ (refreshLock # p)'
        /\ Holds(p, 6) => Holds(p, 6)' \/ (refreshLock # p)'
        /\ Holds(p, 5) => Holds(p, 5)' \/ (refreshLock # p)'
  BY HolderMoves
<1>5. IInv /\ IInv' /\ [Next]_vars =>
        /\ Holds(p, 13) /\ <<RefreshStep(p)>>_vars => Holds(p, 12)' \/ (refreshLock # p)'
        /\ Holds(p, 12) /\ <<RefreshStep(p)>>_vars => Holds(p, 11)' \/ (refreshLock # p)'
        /\ Holds(p, 11) /\ <<RefreshStep(p)>>_vars => Holds(p, 10)' \/ (refreshLock # p)'
        /\ Holds(p, 10) /\ <<RefreshStep(p)>>_vars => Holds(p, 9)' \/ (refreshLock # p)'
        /\ Holds(p, 9) /\ <<RefreshStep(p)>>_vars => Holds(p, 8)' \/ (refreshLock # p)'
        /\ Holds(p, 8) /\ <<RefreshStep(p)>>_vars => Holds(p, 7)' \/ (refreshLock # p)'
        /\ Holds(p, 7) /\ <<RefreshStep(p)>>_vars => Holds(p, 6)' \/ (refreshLock # p)'
        /\ Holds(p, 6) /\ <<RefreshStep(p)>>_vars => Holds(p, 5)' \/ (refreshLock # p)'
        /\ Holds(p, 5) /\ <<RefreshStep(p)>>_vars => Holds(p, 4)' \/ (refreshLock # p)'
  BY HolderMoves
<1> QED BY <1>1, <1>2, <1>3, <1>4, <1>5, Invariance, PTL DEF Spec

-----------------------------------------------------------------------------
(***************************************************************************)
(* Nobody is stuck: a refresher is always at a point whose step it can     *)
(* take, or waits for a lock whose holder is at such a point.              *)
(***************************************************************************)
Serving == Locked \cup {"off", "schedule", "launch", "enter", "wait"}

Posts ==
  /\ \A r \in Readers : pc[r] \in Serving
  /\ pc[Worker] \in Serving \cup {"takePending", "again"}

LEMMA PostStep == ASSUME Types, Posts, Next PROVE Posts'
<1>1. ASSUME NEW p \in Refreshers, pc[p] # "off", OwnStep(p)
      PROVE  pc'[p] \in Serving \/ (p = Worker /\ pc'[p] \in {"takePending", "again"})
  <2>1. CASE RefreshStep(p) \/ FailRefresh(p)
    <3>1. pc'[p] \in Serving \cup {"takePending"} BY <2>1, RefreshMoves DEF Serving, Locked
    <3>2. pc'[p] = "takePending" => p = Worker
      BY <2>1, Sorts DEF Types, PcType, RefreshStep, FullSteps, IncrementalSteps, Enter, Acquire,
          TimeOut, Decide, ReadAll, ReplaceAll, Mark, ReadRows, WriteFacts, Build, Replace,
          Check, Settle, FailRefresh, Unlock, Done, Goto
    <3> QED BY <3>1, <3>2
  <2>2. CASE Schedule(p)
    BY <2>2, Sorts DEF Schedule, Goto, Types, PcType, Serving
  <2>3. CASE Launch(p)
    <3>1. pc'[p] = "off" BY <2>3, Sorts DEF Launch, Forget, Goto, Types, PcType
    <3> QED BY <3>1 DEF Serving
  <2>4. CASE p = Worker /\ (TakePending \/ Again)
    BY <2>4, Sorts DEF TakePending, Again, Forget, Goto, Types, PcType, Serving
  <2> QED BY <1>1, <2>1, <2>2, <2>3, <2>4 DEF OwnStep, ScheduleStep
<1>2. ASSUME NEW p \in Refreshers, pc[p] = "off"
      PROVE  pc'[p] \in {"off", "enter", "schedule"}
  <2> USE <1>2, Sorts DEF Types, PcType, Goto
  <2>1. ASSUME NEW c \in Clients, NEW f \in Files, Register(c, f) \/ Remove(c, f)
        PROVE  pc'[p] = "off"
    BY <2>1 DEF Register, Remove
  <2>2. ASSUME NEW c \in Clients, RemoveAll(c) PROVE pc'[p] = "off" BY <2>2 DEF RemoveAll
  <2>3. CASE ScanBegin BY <2>3 DEF ScanBegin
  <2>4. ASSUME NEW f \in Files, ScanSave(f) \/ ScanRecover(f) \/ ScanRelocate(f) \/ ScanPurge(f)
        PROVE  pc'[p] = "off"
    BY <2>4 DEF ScanSave, ScanRecover, ScanRelocate, ScanPurge
  <2>5. CASE ScanMissing BY <2>5 DEF ScanMissing
  <2>6. CASE ScanEnd BY <2>6 DEF ScanEnd, Forget
  <2>7. CASE ScheduleAfterRescan BY <2>7 DEF ScheduleAfterRescan, Forget
  <2>8. ASSUME NEW q \in Processes, Schedule(q) PROVE pc'[p] = "off" BY <2>8 DEF Schedule
  <2>9. ASSUME NEW q \in Processes, Launch(q) PROVE pc'[p] \in {"off", "enter"}
    BY <2>9 DEF Launch, Forget
  <2>10. ASSUME NEW r \in Readers, Request(r) PROVE pc'[p] \in {"off", "enter", "schedule"}
    BY <2>10 DEF Request
  <2>11. ASSUME NEW q \in Refreshers, RefreshStep(q) \/ FailRefresh(q) PROVE pc'[p] = "off"
    <3>1. pc[q] # "off" BY <2>11, RefreshMoves DEF Locked
    <3> QED
      BY <2>11, <3>1 DEF RefreshStep, FullSteps, IncrementalSteps, Enter, Acquire, TimeOut,
          Decide, ReadAll, ReplaceAll, Mark, ReadRows, WriteFacts, Build, Replace, Check, Settle,
          FailRefresh, Unlock, Done
  <2>12. CASE TakePending BY <2>12 DEF TakePending
  <2>13. CASE Again BY <2>13 DEF Again, Forget
  <2> QED
    BY <2>1, <2>2, <2>3, <2>4, <2>5, <2>6, <2>7, <2>8, <2>9, <2>10, <2>11, <2>12, <2>13
        DEF Next, Change, ScheduleStep
<1>3. ASSUME NEW p \in Refreshers
      PROVE  \/ pc'[p] = pc[p] \/ pc'[p] \in Serving
             \/ p = Worker /\ pc'[p] \in {"takePending", "again"}
  <2>1. CASE pc[p] = "off" BY <2>1, <1>2 DEF Serving
  <2>2. CASE pc[p] # "off" /\ OwnStep(p) BY <2>2, <1>1
  <2>3. CASE pc[p] # "off" /\ ~OwnStep(p) BY <2>3, OthersLeave
  <2> QED BY <2>1, <2>2, <2>3
<1> QED BY <1>3, Sorts DEF Posts

\* What a refresher is doing can go on: each point but the wait has a step without a guard, and
\* whoever waits for the lock finds it free or waits for a refresh that is at such a point.
NobodyIsStuck ==
  \A p \in Refreshers : pc[p] # "off" =>
    \/ pc[p] \in Locked \cup {"schedule", "launch", "enter"}
    \/ p = Worker /\ pc[p] \in {"takePending", "again"}
    \/ pc[p] = "wait" /\ (refreshLock = Free
                          \/ (refreshLock \in Refreshers \ {p} /\ pc[refreshLock] \in Locked))

\* No refresher waits for a lock that its holder has lost or forgotten, nor for itself: the
\* execution lock cannot deadlock the requests and the worker.
THEOREM RefreshersNeverStuck == Spec => []NobodyIsStuck
<1> DEFINE I == IInv /\ Posts
<1>1. Init => I
  BY InitIInv, Sorts DEF Init, Posts, Serving
<1>2. I /\ [Next]_vars => I'
  <2>1. IInv /\ Posts /\ UNCHANGED vars => Posts' BY DEF Posts, vars
  <2>2. IInv /\ Posts /\ Next => Posts' BY PostStep DEF IInv
  <2> QED BY <2>1, <2>2, NextIInv
<1>3. I => NobodyIsStuck
  <2> SUFFICES ASSUME I, NEW p \in Refreshers, pc[p] = "wait", refreshLock # Free
               PROVE  refreshLock \in Refreshers \ {p} /\ pc[refreshLock] \in Locked
    BY DEF NobodyIsStuck, Posts, Serving, Refreshers
  <2>1. refreshLock \in Refreshers BY DEF IInv, Types, IndexType
  <2>2. pc[refreshLock] \in Locked BY <2>1 DEF IInv, RefreshExclusive
  <2> QED BY <2>1, <2>2 DEF Locked
<1> HIDE DEF I
<1> QED BY <1>1, <1>2, <1>3, PTL DEF Spec

=============================================================================

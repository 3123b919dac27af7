-------------------------- MODULE RecordSync_proofs --------------------------
(***************************************************************************)
(* Proofs about RecordSync, for every set of ids, contents and bounds.     *)
(***************************************************************************)
EXTENDS RecordSync, SequenceTheorems, TLAPS

-----------------------------------------------------------------------------
(* The decision table.                                                     *)

\* An entry of the decision table: what to do, and whose record to do it with.
Entry == [type : RecordActionTypes, side : Sides]

\* An entry names a record that exists, and the entries that overwrite or
\* delete the device's record are never in the row of a record the user
\* changed on the device.
EntryOK(e, ds, ks) ==
    /\ e.type # "unexpectedRecordState" =>
         /\ e.side = "device" => ds # "notFound"
         /\ e.side = "desktop" => ks # "notFound"
    /\ e.type = "ADD_ON_DEVICE" => e.side = "desktop" /\ ds # "changed"
    /\ e.type = "DELETE_ON_DEVICE" => e.side = "device" /\ ds # "changed"

\* Each list the rows are made of is a sequence of table entries.
LEMMA ListsTyped ==
    /\ Nothing \in Seq(Entry) /\ Unexpected \in Seq(Entry)
    /\ Push \in Seq(Entry) /\ Pull \in Seq(Entry)
    /\ RemoveDevice \in Seq(Entry) /\ RemoveDesktop \in Seq(Entry)
    /\ KeepDevice \in Seq(Entry) /\ KeepDesktop \in Seq(Entry)
    /\ KeepBoth \in Seq(Entry)
    /\ RetireDesktop \in Seq(Entry) /\ RetireDevice \in Seq(Entry)
    /\ ForkDevice \in Seq(Entry) /\ ForkDesktop \in Seq(Entry)
<1>1. \A t \in RecordActionTypes : Device(t) \in Entry /\ Desktop(t) \in Entry
  BY DEF Device, Desktop, Entry, Sides
<1>2. /\ Nothing \in Seq(Entry) /\ Unexpected \in Seq(Entry)
      /\ Push \in Seq(Entry) /\ Pull \in Seq(Entry)
      /\ RemoveDevice \in Seq(Entry) /\ RemoveDesktop \in Seq(Entry)
      /\ KeepDevice \in Seq(Entry) /\ KeepDesktop \in Seq(Entry)
  BY <1>1 DEF Nothing, Unexpected, Push, Pull, RemoveDevice, RemoveDesktop,
              KeepDevice, KeepDesktop, RecordActionTypes
<1>3. /\ KeepBoth \in Seq(Entry)
      /\ RetireDesktop \in Seq(Entry) /\ RetireDevice \in Seq(Entry)
  BY <1>1 DEF KeepBoth, RetireDesktop, RetireDevice, RecordActionTypes
<1>4. ForkDevice \in Seq(Entry) /\ ForkDesktop \in Seq(Entry)
  BY <1>1 DEF ForkDevice, ForkDesktop, RecordActionTypes
<1>5. QED
  BY <1>2, <1>3, <1>4

\* The row of each device record state, by name.
LEMMA Rows ==
    /\ RecordSyncLogic["notFound"] = OnNotFound
    /\ RecordSyncLogic["archivedChanged"] = OnArchivedChanged
    /\ RecordSyncLogic["archivedUnchanged"] = OnArchivedUnchanged
    /\ RecordSyncLogic["deleted"] = OnDeleted
    /\ RecordSyncLogic["changed"] = OnChanged
    /\ RecordSyncLogic["unchanged"] = OnUnchanged
BY DEF RecordSyncLogic

\* RECORD_SYNC_LOGIC has a list of entries for every pair of record states.
LEMMA LogicTyped ==
    ASSUME NEW ds \in RecordStates, NEW ks \in RecordStates
    PROVE  RecordSyncLogic[ds][ks] \in Seq(Entry)
<1>1. CASE ds \in {"notFound", "archivedChanged"}
  BY <1>1, Rows, ListsTyped DEF RecordStates, OnNotFound, OnArchivedChanged,
     IfIdentical, SameBuffer
<1>2. CASE ds \in {"archivedUnchanged", "deleted"}
  BY <1>2, Rows, ListsTyped DEF RecordStates, OnArchivedUnchanged, OnDeleted,
     IfIdentical, SameBuffer
<1>3. CASE ds \in {"changed", "unchanged"}
  BY <1>3, Rows, ListsTyped DEF RecordStates, OnChanged, OnUnchanged,
     IfIdentical, SameBuffer
<1>4. QED
  BY <1>1, <1>2, <1>3 DEF RecordStates

\* Every entry of RECORD_SYNC_LOGIC names an existing record and spares the
\* device's edits.
LEMMA LogicSound ==
    ASSUME NEW ds \in RecordStates, NEW ks \in RecordStates,
           NEW n \in DOMAIN RecordSyncLogic[ds][ks]
    PROVE  EntryOK(RecordSyncLogic[ds][ks][n], ds, ks)
<1>1. CASE ds = "notFound"
  BY <1>1, Rows DEF RecordStates, OnNotFound, EntryOK, Device, Desktop,
     Nothing, Unexpected, Push, KeepDesktop
<1>2. CASE ds = "archivedChanged"
  BY <1>2, Rows DEF RecordStates, OnArchivedChanged, EntryOK, Device, Desktop,
     IfIdentical, SameBuffer, KeepDevice, KeepBoth, RetireDesktop, ForkDevice
<1>3. CASE ds = "archivedUnchanged"
  BY <1>3, Rows DEF RecordStates, OnArchivedUnchanged, EntryOK, Device, Desktop,
     IfIdentical, SameBuffer, KeepDevice, KeepBoth, RetireDesktop, Unexpected,
     Push
<1>4. CASE ds = "deleted"
  BY <1>4, Rows DEF RecordStates, OnDeleted, EntryOK, Device, Desktop,
     Nothing, KeepDesktop, Push, RemoveDesktop
<1>5. CASE ds = "changed"
  BY <1>5, Rows DEF RecordStates, OnChanged, EntryOK, Device, Desktop,
     IfIdentical, SameBuffer, Nothing, Pull, ForkDesktop
<1>6. CASE ds = "unchanged"
  BY <1>6, Rows DEF RecordStates, OnUnchanged, EntryOK, Device, Desktop,
     Nothing, RetireDevice, RemoveDevice, Push, Unexpected
<1>7. QED
  BY <1>1, <1>2, <1>3, <1>4, <1>5, <1>6 DEF RecordStates

-----------------------------------------------------------------------------
(* The inductive invariant.                                                *)

\* A record sits under its own id.
Keyed(db) == \A k \in Keys : db[k] # NoRecord => db[k].id = k

\* While it plans, a sync changes neither database, and the objects it has
\* read are their records.
Reading ==
    phase \in {"readDevice", "readDesktop"} =>
        /\ device = startDevice
        /\ \A k \in Keys : /\ devObj[k] = NoRecord \/ devObj[k] = device[k]
                           /\ deskObj[k] = NoRecord \/ deskObj[k] = desktop[k]

\* A planned action has its record object, and in a fast sync it neither
\* overwrites nor deletes a record the user edited on the device.
ActionOK(a) ==
    /\ Object(a) # NoRecord
    /\ a.type # "unexpectedRecordState"
    /\ ~slow /\ a.type = "ADD_ON_DEVICE" =>
           a.side = "desktop" /\ ~LiveEdit(startDevice[a.key])
    /\ ~slow /\ a.type = "DELETE_ON_DEVICE" =>
           a.side = "device" /\ ~LiveEdit(startDevice[a.key])

\* An object keeps the id it was read with, or has the fresh one it was given.
ObjectOK(o, k) ==
    o # NoRecord => o.id = k \/ (~slow => ~LiveEdit(startDevice[o.id]))

\* The inductive invariant: records sit under their ids, the plan is sound, and
\* what the user edited on the device is still there.
IInv ==
    /\ TypeOK
    /\ Keyed(device) /\ Keyed(file) /\ Keyed(desktop) /\ Keyed(startDevice)
    /\ Reading
    /\ \A n \in DOMAIN actions : ActionOK(actions[n])
    /\ \A k \in Keys : ObjectOK(devObj[k], k) /\ ObjectOK(deskObj[k], k)
    /\ phase = "idle" => ~slow
    /\ DeviceEditsKept

\* computeRecordState() is total; it says notFound of no record but null, and
\* in a fast sync changed of every live edited record.
LEMMA RecordStateTyped ==
    ASSUME NEW r \in Record \cup {NoRecord}, NEW s \in BOOLEAN,
           NEW o \in Record \cup {NoRecord}
    PROVE  /\ RecordState(r, s, o) \in RecordStates
           /\ RecordState(r, s, o) = "notFound" <=> r = NoRecord
           /\ ~s /\ LiveEdit(r) => RecordState(r, s, o) = "changed"
BY ConstantsAssumption
   DEF RecordState, RecordStates, Record, Statuses, LiveEdit, IsLive

\* What EntryOK becomes for an action planned for records d and r of key k.
PlannedOK(a, d, r, s, k) ==
    /\ a.key = k
    /\ a.type # "unexpectedRecordState" =>
          /\ a.side = "device" => d # NoRecord
          /\ a.side = "desktop" => r # NoRecord
    /\ ~s /\ a.type = "ADD_ON_DEVICE" => a.side = "desktop" /\ ~LiveEdit(d)
    /\ ~s /\ a.type = "DELETE_ON_DEVICE" => a.side = "device" /\ ~LiveEdit(d)

\* computeRecordActions() returns actions of its own key on records that exist.
LEMMA PlanSound ==
    ASSUME NEW d \in Record \cup {NoRecord}, NEW r \in Record \cup {NoRecord},
           NEW s \in BOOLEAN, NEW k \in Keys
    PROVE  /\ ComputeRecordActions(d, r, s, k) \in Seq(RecordAction)
           /\ \A n \in DOMAIN ComputeRecordActions(d, r, s, k) :
                 PlannedOK(ComputeRecordActions(d, r, s, k)[n], d, r, s, k)
<1> DEFINE ds == RecordState(d, s, r)
           ks == RecordState(r, s, d)
           logic == RecordSyncLogic[ds][ks]
<1>1. /\ ds \in RecordStates /\ ks \in RecordStates
      /\ ds = "notFound" <=> d = NoRecord
      /\ ks = "notFound" <=> r = NoRecord
      /\ ~s /\ LiveEdit(d) => ds = "changed"
  BY RecordStateTyped
<1>2. logic \in Seq(Entry)
  BY <1>1, LogicTyped
<1>3. \A n \in DOMAIN logic : EntryOK(logic[n], ds, ks)
  BY <1>1, LogicSound
<1>4. ComputeRecordActions(d, r, s, k) =
        [n \in DOMAIN logic |->
           [type |-> logic[n].type, side |-> logic[n].side, key |-> k]]
  BY DEF ComputeRecordActions
<1> HIDE DEF logic, ds, ks
<1>5. ComputeRecordActions(d, r, s, k) \in Seq(RecordAction)
  <2>1. PICK m \in Nat : DOMAIN logic = 1..m
    BY <1>2
  <2>2. ASSUME NEW n \in DOMAIN logic
        PROVE  [type |-> logic[n].type, side |-> logic[n].side, key |-> k]
                  \in RecordAction
    <3>1. logic[n] \in Entry
      BY <1>2
    <3>2. QED
      BY <3>1 DEF Entry, RecordAction
  <2>3. ComputeRecordActions(d, r, s, k) \in [1..m -> RecordAction]
    BY <1>4, <2>1, <2>2
  <2>4. QED
    BY <2>3, SeqDef
<1>6. QED
  BY <1>1, <1>3, <1>4, <1>5, <1>2 DEF EntryOK, Entry, PlannedOK

\* cleanUp keeps a database well-formed; what it does not remove it keeps.
LEMMA CleanUpTyped ==
    ASSUME NEW db \in Db, Keyed(db)
    PROVE  /\ DropRemoved(db) \in Db /\ Keyed(DropRemoved(db))
           /\ ResetDirty(db) \in Db /\ Keyed(ResetDirty(db))
           /\ CleanUp(db) \in Db /\ Keyed(CleanUp(db))
           /\ \A k \in Keys : IsLive(db[k]) =>
                 /\ DropRemoved(db)[k] = db[k]
                 /\ IsLive(ResetDirty(db)[k])
                 /\ ResetDirty(db)[k].data = db[k].data
<1>1. ASSUME NEW f \in Db, Keyed(f)
      PROVE  /\ DropRemoved(f) \in Db /\ Keyed(DropRemoved(f))
             /\ \A k \in Keys : IsLive(f[k]) => DropRemoved(f)[k] = f[k]
  BY <1>1 DEF DropRemoved, Db, Keyed, IsLive
<1>2. ASSUME NEW f \in Db, Keyed(f)
      PROVE  /\ ResetDirty(f) \in Db /\ Keyed(ResetDirty(f))
             /\ \A k \in Keys : IsLive(f[k]) =>
                   /\ IsLive(ResetDirty(f)[k])
                   /\ ResetDirty(f)[k].data = f[k].data
  <2>1. ASSUME NEW k \in Keys, f[k] # NoRecord
        PROVE  LET r == [f[k] EXCEPT !.dirty = FALSE]
               IN  /\ r \in Record /\ r # NoRecord
                   /\ r.id = f[k].id /\ r.data = f[k].data
                   /\ r.status = f[k].status
    <3>1. f[k] \in Record
      BY <2>1 DEF Db
    <3>2. QED
      BY <3>1, ConstantsAssumption DEF Record
  <2>2. \A k \in Keys : ResetDirty(f)[k] =
           IF f[k] = NoRecord THEN NoRecord ELSE [f[k] EXCEPT !.dirty = FALSE]
    BY DEF ResetDirty
  <2>3. ResetDirty(f) \in Db
    BY <2>1 DEF ResetDirty, Db
  <2>4. QED
    BY <1>2, <2>1, <2>2, <2>3 DEF Keyed, IsLive
<1>3. QED
  BY <1>1, <1>2 DEF CleanUp

\* The databases after the first download satisfy the invariant.
LEMMA InitIInv == Init => IInv
<1> SUFFICES ASSUME Init PROVE IInv
  OBVIOUS
<1>1. PICK db \in [InitIds -> Record \cup {NoRecord}] :
         /\ \A k \in InitIds : db[k] # NoRecord =>
               /\ db[k].id = k
               /\ db[k].status = "archived" => db[k].dirty \/ InitArchived
         /\ device = [k \in Keys |-> IF k \in InitIds THEN db[k] ELSE NoRecord]
  BY DEF Init
<1>2. device \in Db /\ Keyed(device)
  <2>1. \A k \in Keys : device[k] = IF k \in InitIds THEN db[k] ELSE NoRecord
    BY <1>1
  <2>2. device \in Db
    BY <1>1, <2>1 DEF Db
  <2>3. Keyed(device)
    BY <1>1, <2>1 DEF Keyed
  <2>4. QED
    BY <2>2, <2>3
<1>3. file \in Db /\ Keyed(file)
  BY <1>2, CleanUpTyped DEF Init
<1>4. EmptyDb \in Db /\ Keyed(EmptyDb)
  BY DEF EmptyDb, Db, Keyed
<1>5. TypeOK
  <2>1. actions \in Seq(RecordAction)
    BY DEF Init
  <2>2. QED
    BY <1>2, <1>3, <1>4, <2>1 DEF Init, TypeOK
<1>6. \A k \in Keys : ObjectOK(devObj[k], k) /\ ObjectOK(deskObj[k], k)
  BY DEF Init, ObjectOK, EmptyDb
<1>7. QED
  BY <1>2, <1>3, <1>4, <1>5, <1>6
     DEF IInv, Init, Reading, DeviceEditsKept

-----------------------------------------------------------------------------
(* Every step preserves it: first the steps outside a sync.                *)

\* The database without records is well-formed.
LEMMA EmptyDbTyped == EmptyDb \in Db /\ Keyed(EmptyDb)
BY DEF EmptyDb, Db, Keyed

\* One record written under its own id leaves a well-formed database.
LEMMA WriteTyped ==
    ASSUME NEW db \in Db, Keyed(db), NEW k \in Keys,
           NEW r \in Record \cup {NoRecord}, r # NoRecord => r.id = k
    PROVE  [db EXCEPT ![k] = r] \in Db /\ Keyed([db EXCEPT ![k] = r])
BY DEF Db, Keyed

\* A record a user or another PC creates is a record under its id.
LEMMA NewRecordTyped ==
    ASSUME NEW k \in Keys, NEW d \in Data
    PROVE  /\ NewRecord(k, d) \in Record /\ NewRecord(k, d).id = k
           /\ ClearRecordAttrs(NewRecord(k, d)) \in Record
           /\ ClearRecordAttrs(NewRecord(k, d)).id = k
BY DEF NewRecord, Record, Statuses, ClearRecordAttrs

\* A user's edit of a record keeps the record's id.
LEMMA UserEditsTyped ==
    ASSUME NEW r \in Record, NEW e \in UserEdits(r)
    PROVE  e \in Record /\ e.id = r.id
BY DEF UserEdits, Record, Statuses

\* Ids the device hands out are ids.
LEMMA FreshTyped == \A n \in FreshIds : n \in Keys
BY DEF FreshIds, Keys

\* Users and other PCs keep the invariant: they act between syncs only.
LEMMA OutsideSync ==
    ASSUME IInv, DeviceEdit \/ DesktopEdit \/ OtherPcSync
    PROVE  IInv'
<1> USE DEF IInv
<1>1. phase = "idle"
  BY DEF DeviceEdit, DesktopEdit, OtherPcSync
<1>2. CASE DeviceEdit
  <2>1. device' \in Db /\ Keyed(device')
    <3>1. ASSUME NEW k \in Ids, device[k] # NoRecord,
                 NEW r \in UserEdits(device[k]),
                 device' = [device EXCEPT ![k] = r]
          PROVE  device' \in Db /\ Keyed(device')
      <4>1. k \in Keys /\ device[k] \in Record /\ device[k].id = k
        BY <3>1 DEF Keys, TypeOK, Db, Keyed
      <4>2. r \in Record /\ r.id = k
        BY <4>1, UserEditsTyped
      <4>3. QED
        BY <3>1, <4>1, <4>2, WriteTyped DEF TypeOK
    <3>2. ASSUME NEW k \in FreshIds, NEW d \in Data,
                 device' = [device EXCEPT ![k] = NewRecord(k, d)]
          PROVE  device' \in Db /\ Keyed(device')
      <4>1. k \in Keys
        BY FreshTyped
      <4>2. NewRecord(k, d) \in Record /\ NewRecord(k, d).id = k
        BY <4>1, NewRecordTyped
      <4>3. QED
        BY <3>2, <4>1, <4>2, WriteTyped DEF TypeOK
    <3>3. QED
      BY <1>2, <3>1, <3>2 DEF DeviceEdit
  <2>2. QED
    BY <1>1, <1>2, <2>1
       DEF DeviceEdit, session, TypeOK, Reading, ActionOK, Object, ObjectOK,
           DeviceEditsKept, LiveEdit, IsLive
<1>3. CASE DesktopEdit
  <2>1. file' \in Db /\ Keyed(file')
    <3>1. ASSUME NEW k \in Keys, file[k] # NoRecord,
                 NEW r \in UserEdits(file[k]),
                 file' = [file EXCEPT ![k] = r]
          PROVE  file' \in Db /\ Keyed(file')
      <4>1. file[k] \in Record /\ file[k].id = k
        BY <3>1 DEF TypeOK, Db, Keyed
      <4>2. r \in Record /\ r.id = k
        BY <4>1, UserEditsTyped
      <4>3. QED
        BY <3>1, <4>1, <4>2, WriteTyped DEF TypeOK
    <3>2. ASSUME NEW k \in DesktopNewIds, NEW d \in Data,
                 file' = [file EXCEPT ![k] = NewRecord(k, d)]
          PROVE  file' \in Db /\ Keyed(file')
      <4>1. k \in Keys
        BY ConstantsAssumption
      <4>2. NewRecord(k, d) \in Record /\ NewRecord(k, d).id = k
        BY <4>1, NewRecordTyped
      <4>3. QED
        BY <3>2, <4>1, <4>2, WriteTyped DEF TypeOK
    <3>3. QED
      BY <1>3, <3>1, <3>2 DEF DesktopEdit
  <2>2. QED
    BY <1>1, <1>3, <2>1
       DEF DesktopEdit, session, TypeOK, Reading, ActionOK, Object, ObjectOK,
           DeviceEditsKept, LiveEdit, IsLive
<1>4. CASE OtherPcSync
  <2>1. CleanUp(device) \in Db /\ Keyed(CleanUp(device))
    BY CleanUpTyped DEF TypeOK
  <2>2. device' \in Db /\ Keyed(device')
    <3>1. ASSUME NEW k \in Ids,
                 device' = [CleanUp(device) EXCEPT ![k] = NoRecord]
          PROVE  device' \in Db /\ Keyed(device')
      BY <2>1, <3>1, WriteTyped DEF Keys
    <3>2. ASSUME NEW k \in Ids, NEW d \in Data,
                 device' = [CleanUp(device) EXCEPT
                               ![k] = ClearRecordAttrs(NewRecord(k, d))]
          PROVE  device' \in Db /\ Keyed(device')
      <4>1. k \in Keys
        BY DEF Keys
      <4>2. /\ ClearRecordAttrs(NewRecord(k, d)) \in Record
            /\ ClearRecordAttrs(NewRecord(k, d)).id = k
        BY <4>1, NewRecordTyped
      <4>3. QED
        BY <2>1, <3>2, <4>1, <4>2, WriteTyped
    <3>3. QED
      BY <1>4, <2>1, <3>1, <3>2 DEF OtherPcSync
  <2>3. QED
    BY <1>1, <1>4, <2>2
       DEF OtherPcSync, session, TypeOK, Reading, ActionOK, Object, ObjectOK,
           DeviceEditsKept, LiveEdit, IsLive
<1>5. QED
  BY <1>2, <1>3, <1>4

-----------------------------------------------------------------------------
(* The steps of a sync.                                                    *)

\* A sync starts with no action planned and no record object read.
LEMMA StartKeeps ==
    ASSUME IInv, StartSync
    PROVE  IInv'
<1> USE DEF IInv
<1>1. TypeOK'
  <2>1. <<>> \in Seq(RecordAction)
    OBVIOUS
  <2>2. pending' \subseteq Keys
    BY DEF StartSync, IdsToRead
  <2>3. QED
    BY <2>1, <2>2, EmptyDbTyped DEF TypeOK, StartSync
<1>2. \A k \in Keys : EmptyDb[k] = NoRecord
  BY DEF EmptyDb
<1>3. QED
  BY <1>1, <1>2
     DEF StartSync, Reading, ObjectOK, DeviceEditsKept, LiveEdit, IsLive, Keyed

\* A sync that is given up leaves no session behind.
LEMMA AbandonKeeps ==
    ASSUME IInv, NEW why \in {"dlpError", "unexpectedState", "idMismatch",
                              "noSuchRecord", "notArchived"},
           Abandon(why), device' \in Db, Keyed(device'),
           lastSyncPc' \in {"this", "other"}
    PROVE  IInv'
<1> USE DEF IInv
<1>1. TypeOK'
  <2>1. <<>> \in Seq(RecordAction)
    OBVIOUS
  <2>2. QED
    BY <2>1, EmptyDbTyped DEF TypeOK, Abandon
<1>2. \A k \in Keys : EmptyDb[k] = NoRecord
  BY DEF EmptyDb
<1>3. QED
  BY <1>1, <1>2, EmptyDbTyped
     DEF Abandon, Reading, ObjectOK, DeviceEditsKept, Keyed

\* A failing DLP request gives the sync up and touches neither database.
LEMMA FailureKeeps ==
    ASSUME IInv, DlpFailure
    PROVE  IInv'
BY AbandonKeeps DEF DlpFailure, IInv, TypeOK

\* A file whose write is cut short leaves no session behind either.
LEMMA TearKeeps ==
    ASSUME IInv, TearFile
    PROVE  IInv'
<1> USE DEF IInv
<1>1. TypeOK'
  <2>1. <<>> \in Seq(RecordAction)
    OBVIOUS
  <2>2. QED
    BY <2>1, EmptyDbTyped DEF TypeOK, TearFile
<1>2. \A k \in Keys : EmptyDb[k] = NoRecord
  BY DEF EmptyDb
<1>3. QED
  BY <1>1, <1>2, EmptyDbTyped
     DEF TearFile, Reading, ObjectOK, DeviceEditsKept, Keyed

\* A session that cannot read the file does nothing to this database.
LEMMA ReadTornKeeps ==
    ASSUME IInv, ReadTornFile
    PROVE  IInv'
BY DEF ReadTornFile, session, IInv, TypeOK, Keyed, Reading, ActionOK, Object,
       ObjectOK, DeviceEditsKept, LiveEdit, IsLive

\* Planning one record adds only sound actions on the objects it has read.
LEMMA PlanRecordKeeps ==
    ASSUME IInv, phase \in {"readDevice", "readDesktop"},
           NEW k \in Keys, PlanRecord(k)
    PROVE  IInv'
<1> USE DEF IInv
<1> DEFINE plan == ComputeRecordActions(device[k], desktop[k], slow, k)
<1>1. /\ device[k] \in Record \cup {NoRecord}
      /\ desktop[k] \in Record \cup {NoRecord}
      /\ slow \in BOOLEAN
  BY DEF TypeOK, Db
<1>2. /\ plan \in Seq(RecordAction)
      /\ \A n \in DOMAIN plan : PlannedOK(plan[n], device[k], desktop[k], slow, k)
  BY <1>1, PlanSound
<1>3. CASE \E n \in DOMAIN plan : plan[n].type = "unexpectedRecordState"
  BY <1>3, AbandonKeeps DEF PlanRecord, Throw, TypeOK
<1>4. CASE \A n \in DOMAIN plan : plan[n].type # "unexpectedRecordState"
  <2>1. /\ actions' = actions \o plan
        /\ devObj' = [devObj EXCEPT ![k] = device[k]]
        /\ deskObj' = [deskObj EXCEPT ![k] = desktop[k]]
        /\ pending' = pending \ {k}
        /\ UNCHANGED <<device, file, phase, slow, desktop, archiveDb,
                       startDevice, lastSyncPc, result, edits, syncs>>
    BY <1>4 DEF PlanRecord
  <2> HIDE DEF plan
  <2>2. /\ actions' \in Seq(RecordAction)
        /\ Len(actions') = Len(actions) + Len(plan)
        /\ \A i \in 1 .. Len(actions) + Len(plan) :
              actions'[i] = IF i <= Len(actions) THEN actions[i]
                            ELSE plan[i - Len(actions)]
    BY <1>2, <2>1, ConcatProperties DEF TypeOK
  <2>3. TypeOK'
    BY <1>1, <2>1, <2>2 DEF TypeOK, Db
  <2>4. \A j \in Keys : /\ devObj'[j] = IF j = k THEN device[k] ELSE devObj[j]
                        /\ deskObj'[j] = IF j = k THEN desktop[k] ELSE deskObj[j]
    BY <2>1 DEF TypeOK, Db
  <2>5. ASSUME NEW i \in DOMAIN actions'
        PROVE  ActionOK(actions[i])' 
    <3>1. i \in 1 .. Len(actions) + Len(plan)
      BY <2>2
    <3>2. CASE i <= Len(actions)
      <4>1. i \in DOMAIN actions /\ actions'[i] = actions[i]
        BY <2>2, <3>1, <3>2 DEF TypeOK
      <4>2. ActionOK(actions[i]) /\ actions[i] \in RecordAction
        BY <4>1 DEF TypeOK
      <4>3. Object(actions[i])' # NoRecord
        BY <4>1, <4>2, <2>4 DEF ActionOK, Object, Reading, RecordAction, Sides
      <4>4. QED
        BY <4>1, <4>2, <4>3, <2>1 DEF ActionOK, LiveEdit, IsLive
    <3>3. CASE i > Len(actions)
      <4> DEFINE n == i - Len(actions)
      <4>1. n \in DOMAIN plan /\ actions'[i] = plan[n]
        BY <1>2, <2>2, <3>1, <3>3 DEF TypeOK
      <4>2. plan[n] \in RecordAction
        BY <1>2, <4>1
      <4>3. Object(actions[i])' # NoRecord
        BY <1>2, <1>4, <2>4, <4>1, <4>2 DEF PlannedOK, Object, RecordAction, Sides
      <4>4. device[k] = startDevice[k]
        BY DEF Reading
      <4>5. QED
        BY <1>2, <1>4, <2>1, <4>1, <4>3, <4>4
           DEF PlannedOK, ActionOK, LiveEdit, IsLive
    <3>4. QED
      BY <3>1, <3>2, <3>3 DEF TypeOK
  <2>6. \A j \in Keys : (ObjectOK(devObj[j], j) /\ ObjectOK(deskObj[j], j))'
    BY <2>1, <2>4 DEF ObjectOK, Keyed, LiveEdit, IsLive
  <2>7. Reading'
    BY <2>1, <2>4 DEF Reading
  <2>8. QED
    BY <2>1, <2>3, <2>5, <2>6, <2>7 DEF Keyed, DeviceEditsKept, LiveEdit, IsLive
<1>5. QED
  BY <1>3, <1>4

\* Neither reading loop breaks the invariant.
LEMMA PlanKeeps ==
    ASSUME IInv, Plan
    PROVE  IInv'
<1>1. CASE PlanDeviceRecord
  BY <1>1, PlanRecordKeeps DEF PlanDeviceRecord, IInv, TypeOK
<1>2. CASE PlanDesktopRecord
  BY <1>2, PlanRecordKeeps DEF PlanDesktopRecord, IInv, TypeOK
<1>3. CASE ReadDesktopRecords \/ SkipDesktopRecord \/ ExecuteActions
  <2>1. /\ UNCHANGED <<device, file, slow, desktop, actions, devObj, deskObj,
                       archiveDb, startDevice, lastSyncPc, result, edits, syncs>>
        /\ phase' \in {"readDesktop", "execute"}
        /\ phase \in {"readDevice", "readDesktop"}
        /\ pending' \subseteq Keys
    BY <1>3 DEF ReadDesktopRecords, SkipDesktopRecord, ExecuteActions, session,
                IdsToRead, IInv, TypeOK
  <2>2. QED
    BY <2>1 DEF IInv, TypeOK, Keyed, Reading, ActionOK, Object, ObjectOK,
                DeviceEditsKept, LiveEdit, IsLive
<1>4. QED
  BY <1>1, <1>2, <1>3 DEF Plan

\* The head of the list is a sound action on an existing object, and the rest
\* of the list stays sound while each object stays an object.
LEMMA HeadSound ==
    ASSUME IInv, phase = "execute", actions # <<>>
    PROVE  /\ Head(actions) \in RecordAction
           /\ ActionOK(Head(actions))
           /\ Object(Head(actions)) \in Record
           /\ ObjectOK(Object(Head(actions)), Head(actions).key)
           /\ Tail(actions) \in Seq(RecordAction)
           /\ \A n \in DOMAIN Tail(actions) :
                 Tail(actions)[n] \in RecordAction /\ ActionOK(Tail(actions)[n])
<1> USE DEF IInv
<1>1. actions \in Seq(RecordAction)
  BY DEF TypeOK
<1>2. /\ Head(actions) \in RecordAction
      /\ Tail(actions) \in Seq(RecordAction)
      /\ Len(Tail(actions)) = Len(actions) - 1
      /\ \A i \in 1 .. Len(Tail(actions)) : Tail(actions)[i] = actions[i+1]
  BY <1>1, HeadTailProperties
<1>3. 1 \in DOMAIN actions /\ Head(actions) = actions[1]
  BY <1>1
<1>4. ActionOK(Head(actions))
  BY <1>3
<1>5. \A n \in DOMAIN Tail(actions) : n + 1 \in DOMAIN actions
  BY <1>1, <1>2
<1>6. \A n \in DOMAIN Tail(actions) :
         Tail(actions)[n] \in RecordAction /\ ActionOK(Tail(actions)[n])
  BY <1>1, <1>2, <1>5
<1>7. Object(Head(actions)) \in Record
  BY <1>2, <1>4 DEF ActionOK, Object, RecordAction, TypeOK, Db
<1>8. ObjectOK(Object(Head(actions)), Head(actions).key)
  BY <1>2 DEF Object, RecordAction
<1>9. QED
  BY <1>2, <1>4, <1>6, <1>7, <1>8

\* clearRecordAttrs() returns a live record of the same id.
LEMMA ClearTyped ==
    ASSUME NEW r \in Record
    PROVE  /\ ClearRecordAttrs(r) \in Record /\ ClearRecordAttrs(r) # NoRecord
           /\ ClearRecordAttrs(r).id = r.id
           /\ IsLive(ClearRecordAttrs(r))
           /\ \A n \in Keys : /\ [ClearRecordAttrs(r) EXCEPT !.id = n] \in Record
                              /\ [ClearRecordAttrs(r) EXCEPT !.id = n].id = n
BY ConstantsAssumption DEF ClearRecordAttrs, Record, Statuses, IsLive

\* What is left of IInv' once the databases are dealt with, for an action that
\* replaces its record object by o.
LEMMA ObjectsKeep ==
    ASSUME IInv, phase = "execute", actions # <<>>, ActionDone,
           NEW o \in Record, SetObject(Head(actions), o),
           ObjectOK(o, Head(actions).key),
           device' \in Db, Keyed(device'), desktop' \in Db, Keyed(desktop'),
           archiveDb' = archiveDb,
           DeviceEditsKept'
    PROVE  IInv'
<1> USE DEF IInv
<1> DEFINE a == Head(actions)
<1>1. /\ a \in RecordAction
      /\ Tail(actions) \in Seq(RecordAction)
      /\ \A n \in DOMAIN Tail(actions) :
            Tail(actions)[n] \in RecordAction /\ ActionOK(Tail(actions)[n])
  BY HeadSound
<1>2. o # NoRecord
  BY ConstantsAssumption
<1>3. /\ actions' = Tail(actions)
      /\ UNCHANGED <<file, phase, slow, pending, startDevice, lastSyncPc, result,
                     edits, syncs>>
  BY DEF ActionDone
<1>4. \A k \in Keys :
         /\ devObj'[k] = IF a.side = "device" /\ k = a.key THEN o ELSE devObj[k]
         /\ deskObj'[k] = IF a.side # "device" /\ k = a.key THEN o ELSE deskObj[k]
  BY <1>1 DEF SetObject, TypeOK, Db
<1>5. devObj' \in Db /\ deskObj' \in Db
  BY <1>1 DEF SetObject, TypeOK, Db
<1> HIDE DEF a
<1>6. TypeOK'
  BY <1>1, <1>3, <1>5 DEF TypeOK
<1>7. ASSUME NEW b \in RecordAction, ActionOK(b)
      PROVE  ActionOK(b)'
  <2>1. Object(b)' # NoRecord
    BY <1>2, <1>4, <1>7 DEF Object, ActionOK, RecordAction
  <2>2. QED
    BY <1>3, <1>7, <2>1 DEF ActionOK, LiveEdit, IsLive
<1>8. \A n \in DOMAIN actions' : ActionOK(actions[n])'
  BY <1>1, <1>3, <1>7
<1>9. \A k \in Keys : (ObjectOK(devObj[k], k) /\ ObjectOK(deskObj[k], k))'
  <2>1. ObjectOK(o, a.key)
    BY DEF a
  <2>2. QED
    BY <1>3, <1>4, <2>1 DEF ObjectOK, LiveEdit, IsLive
<1>10. QED
  BY <1>3, <1>6, <1>8, <1>9 DEF Reading, Keyed

\* The same for an action that leaves the record objects alone.
LEMMA ObjectsSame ==
    ASSUME IInv, phase = "execute", actions # <<>>, ActionDone,
           UNCHANGED <<devObj, deskObj>>,
           device' \in Db, Keyed(device'), desktop' \in Db, Keyed(desktop'),
           archiveDb' \subseteq Record,
           DeviceEditsKept'
    PROVE  IInv'
<1> USE DEF IInv
<1>1. /\ Tail(actions) \in Seq(RecordAction)
      /\ \A n \in DOMAIN Tail(actions) : ActionOK(Tail(actions)[n])
  BY HeadSound
<1>2. /\ actions' = Tail(actions)
      /\ UNCHANGED <<file, phase, slow, pending, startDevice, lastSyncPc, result,
                     edits, syncs>>
  BY DEF ActionDone
<1>3. TypeOK'
  BY <1>1, <1>2 DEF TypeOK
<1>4. \A n \in DOMAIN actions' : ActionOK(actions[n])'
  BY <1>1, <1>2 DEF ActionOK, Object, LiveEdit, IsLive
<1>5. \A k \in Keys : (ObjectOK(devObj[k], k) /\ ObjectOK(deskObj[k], k))'
  BY <1>2 DEF ObjectOK, LiveEdit, IsLive
<1>6. QED
  BY <1>2, <1>3, <1>4, <1>5 DEF Reading, Keyed

\* ADD_ON_DEVICE overwrites no edit of the device, even when its record was
\* renumbered by an earlier action.
LEMMA AddOnDeviceKeeps ==
    ASSUME IInv, AddOnDevice
    PROVE  IInv'
<1> DEFINE a == Head(actions)
           r == ClearRecordAttrs(Object(a))
<1>1. phase = "execute" /\ actions # <<>> /\ a.type = "ADD_ON_DEVICE"
  BY DEF AddOnDevice, Executing
<1>2. /\ a \in RecordAction /\ ActionOK(a) /\ Object(a) \in Record
      /\ ObjectOK(Object(a), a.key)
  BY <1>1, HeadSound
<1>3. /\ r \in Record /\ r.id = Object(a).id /\ r # NoRecord
      /\ \A n \in Keys : [r EXCEPT !.id = n] \in Record
                         /\ [r EXCEPT !.id = n].id = n
  BY <1>2, ClearTyped
<1>4. r.id \in Keys
  BY <1>3 DEF Record
<1>5. CASE r.id # 0
  <2>1. /\ device' = [device EXCEPT ![r.id] = r]
        /\ SetObject(a, r)
        /\ ActionDone /\ UNCHANGED <<desktop, archiveDb>>
    BY <1>5 DEF AddOnDevice
  <2> HIDE DEF r, a
  <2>2. device' \in Db /\ Keyed(device')
    BY <1>3, <1>4, <2>1, WriteTyped DEF IInv, TypeOK
  <2>3. ~slow => ~LiveEdit(startDevice[r.id])
    <3>1. ~slow => a.side = "desktop" /\ ~LiveEdit(startDevice[a.key])
      BY <1>1, <1>2 DEF ActionOK, a
    <3>2. r.id = a.key \/ (~slow => ~LiveEdit(startDevice[r.id]))
      BY <1>2, <1>3, ConstantsAssumption DEF ObjectOK
    <3>3. QED
      BY <3>1, <3>2
  <2>4. DeviceEditsKept'
    BY <1>4, <2>1, <2>3, <1>1
       DEF DeviceEditsKept, IInv, TypeOK, Db, LiveEdit, IsLive, ActionDone
  <2>5. ObjectOK(r, a.key)
    BY <1>2, <1>3, ConstantsAssumption DEF ObjectOK
  <2>6. desktop' \in Db /\ Keyed(desktop')
    BY <2>1 DEF IInv, TypeOK
  <2>7. QED
    BY <1>1, <1>3, <2>1, <2>2, <2>4, <2>5, <2>6, ObjectsKeep DEF a
<1>6. CASE r.id = 0
  <2>1. /\ \E n \in FreshIds : device' = [device EXCEPT ![n] = [r EXCEPT !.id = n]]
        /\ Throw("idMismatch")
    BY <1>6 DEF AddOnDevice
  <2>2. device' \in Db /\ Keyed(device')
    <3> HIDE DEF r
    <3>1. PICK n \in FreshIds : device' = [device EXCEPT ![n] = [r EXCEPT !.id = n]]
      BY <2>1
    <3>2. n \in Keys
      BY FreshTyped
    <3>3. QED
      BY <1>3, <3>1, <3>2, WriteTyped DEF IInv, TypeOK
  <2>3. QED
    BY <2>1, <2>2, AbandonKeeps DEF Throw
<1>7. QED
  BY <1>5, <1>6

\* ADD_ON_DEVICE_WITH_NEW_ID writes to an id that held nothing.
LEMMA AddOnDeviceWithNewIdKeeps ==
    ASSUME IInv, AddOnDeviceWithNewId
    PROVE  IInv'
<1> DEFINE a == Head(actions)
           c == ClearRecordAttrs(Object(a))
<1>1. phase = "execute" /\ actions # <<>>
  BY DEF AddOnDeviceWithNewId, Executing
<1>2. a \in RecordAction /\ Object(a) \in Record
  BY <1>1, HeadSound
<1>3. PICK n \in FreshIds : /\ device' = [device EXCEPT ![n] = [c EXCEPT !.id = n]]
                            /\ SetObject(a, [c EXCEPT !.id = n])
  BY DEF AddOnDeviceWithNewId
<1>4. ActionDone /\ UNCHANGED <<desktop, archiveDb>>
  BY DEF AddOnDeviceWithNewId
<1>5. n \in Keys /\ device[n] = NoRecord
  BY DEF FreshIds, Keys
<1> DEFINE r == [c EXCEPT !.id = n]
<1>6. r \in Record /\ r.id = n
  BY <1>2, <1>5, ClearTyped
<1> HIDE DEF r
<1>7. device' = [device EXCEPT ![n] = r] /\ SetObject(a, r)
  BY <1>3 DEF r
<1>8. device' \in Db /\ Keyed(device')
  BY <1>5, <1>6, <1>7, WriteTyped DEF IInv, TypeOK
<1>9. ~slow => ~LiveEdit(startDevice[n])
  BY <1>1, <1>5 DEF IInv, DeviceEditsKept, IsLive
<1>10. DeviceEditsKept'
  BY <1>1, <1>4, <1>5, <1>7, <1>9
     DEF DeviceEditsKept, IInv, TypeOK, Db, LiveEdit, IsLive, ActionDone
<1>11. ObjectOK(r, a.key)
  BY <1>6, <1>9 DEF ObjectOK
<1>12. desktop' \in Db /\ Keyed(desktop')
  BY <1>4 DEF IInv, TypeOK
<1>13. QED
  BY <1>1, <1>4, <1>6, <1>7, <1>8, <1>10, <1>11, <1>12, ObjectsKeep

\* ADD_ON_DESKTOP leaves the device alone and the desktop well-formed.
LEMMA AddOnDesktopKeeps ==
    ASSUME IInv, AddOnDesktop
    PROVE  IInv'
<1> DEFINE a == Head(actions)
           r == ClearRecordAttrs(Object(a))
<1>1. phase = "execute" /\ actions # <<>>
  BY DEF AddOnDesktop, Executing
<1>2. /\ a \in RecordAction /\ Object(a) \in Record
      /\ ObjectOK(Object(a), a.key)
  BY <1>1, HeadSound
<1>3. r \in Record /\ r.id = Object(a).id /\ r # NoRecord
  BY <1>2, ClearTyped
<1>4. r.id \in Keys
  BY <1>3 DEF Record
<1>5. /\ desktop' = [desktop EXCEPT ![r.id] = r]
      /\ SetObject(a, r) /\ ActionDone /\ UNCHANGED <<device, archiveDb>>
  BY DEF AddOnDesktop
<1> HIDE DEF r, a
<1>6. desktop' \in Db /\ Keyed(desktop')
  BY <1>3, <1>4, <1>5, WriteTyped DEF IInv, TypeOK
<1>7. DeviceEditsKept'
  BY <1>1, <1>5 DEF DeviceEditsKept, IInv, LiveEdit, IsLive, ActionDone
<1>8. ObjectOK(r, a.key)
  BY <1>2, <1>3, ConstantsAssumption DEF ObjectOK
<1>9. device' \in Db /\ Keyed(device')
  BY <1>5 DEF IInv, TypeOK
<1>10. QED
  BY <1>1, <1>3, <1>5, <1>6, <1>7, <1>8, <1>9, ObjectsKeep DEF a

\* DELETE_ON_DEVICE deletes no record the user edited on the device.
LEMMA DeleteOnDeviceKeeps ==
    ASSUME IInv, DeleteOnDevice
    PROVE  IInv'
<1> DEFINE a == Head(actions)
           r == Object(a)
<1>1. phase = "execute" /\ actions # <<>> /\ a.type = "DELETE_ON_DEVICE"
  BY DEF DeleteOnDevice, Executing
<1>2. /\ a \in RecordAction /\ ActionOK(a) /\ r \in Record
      /\ ObjectOK(r, a.key)
  BY <1>1, HeadSound
<1>3. r.id \in Keys /\ r # NoRecord
  BY <1>2, ConstantsAssumption DEF Record
<1>4. CASE device[r.id] # NoRecord
  <2>1. /\ device' = [device EXCEPT ![r.id] = NoRecord]
        /\ ActionDone /\ UNCHANGED <<desktop, devObj, deskObj, archiveDb>>
    BY <1>4 DEF DeleteOnDevice
  <2> HIDE DEF r, a
  <2>2. device' \in Db /\ Keyed(device')
    BY <1>3, <2>1, WriteTyped DEF IInv, TypeOK
  <2>3. ~slow => ~LiveEdit(startDevice[r.id])
    BY <1>1, <1>2, <1>3 DEF ActionOK, ObjectOK
  <2>4. DeviceEditsKept'
    BY <1>1, <1>3, <2>1, <2>3
       DEF DeviceEditsKept, IInv, TypeOK, Db, LiveEdit, IsLive, ActionDone
  <2>5. desktop' \in Db /\ Keyed(desktop') /\ archiveDb' \subseteq Record
    BY <2>1 DEF IInv, TypeOK
  <2>6. QED
    BY <1>1, <2>1, <2>2, <2>4, <2>5, ObjectsSame
<1>5. CASE device[r.id] = NoRecord
  BY <1>5, AbandonKeeps DEF DeleteOnDevice, Throw, IInv, TypeOK
<1>6. QED
  BY <1>4, <1>5

\* DELETE_ON_DESKTOP leaves the device alone, whether or not it throws.
LEMMA DeleteOnDesktopKeeps ==
    ASSUME IInv, DeleteOnDesktop
    PROVE  IInv'
<1> DEFINE r == Object(Head(actions))
<1>1. phase = "execute" /\ actions # <<>>
  BY DEF DeleteOnDesktop, Executing
<1>2. r \in Record
  BY <1>1, HeadSound
<1>3. r.id \in Keys
  BY <1>2 DEF Record
<1>4. CASE desktop[r.id] # NoRecord
  <2>1. /\ desktop' = [desktop EXCEPT ![r.id] = NoRecord]
        /\ ActionDone /\ UNCHANGED <<device, devObj, deskObj, archiveDb>>
    BY <1>4 DEF DeleteOnDesktop
  <2> HIDE DEF r
  <2>2. desktop' \in Db /\ Keyed(desktop')
    BY <1>3, <2>1, WriteTyped DEF IInv, TypeOK
  <2>3. DeviceEditsKept'
    BY <1>1, <2>1 DEF DeviceEditsKept, IInv, LiveEdit, IsLive, ActionDone
  <2>4. device' \in Db /\ Keyed(device') /\ archiveDb' \subseteq Record
    BY <2>1 DEF IInv, TypeOK
  <2>5. QED
    BY <1>1, <2>1, <2>2, <2>3, <2>4, ObjectsSame
<1>5. CASE desktop[r.id] = NoRecord
  BY <1>5, AbandonKeeps DEF DeleteOnDesktop, Throw, IInv, TypeOK
<1>6. QED
  BY <1>4, <1>5

\* ARCHIVE changes neither database.
LEMMA ArchiveKeeps ==
    ASSUME IInv, Archive
    PROVE  IInv'
<1> DEFINE r == Object(Head(actions))
<1>1. phase = "execute" /\ actions # <<>>
  BY DEF Archive, Executing
<1>2. r \in Record
  BY <1>1, HeadSound
<1>3. CASE r.status = "archived"
  <2>1. /\ archiveDb' = archiveDb \cup {r}
        /\ ActionDone /\ UNCHANGED <<device, desktop, devObj, deskObj>>
    BY <1>3 DEF Archive
  <2> HIDE DEF r
  <2>2. archiveDb' \subseteq Record
    BY <1>2, <2>1 DEF IInv, TypeOK
  <2>3. DeviceEditsKept'
    BY <1>1, <2>1 DEF DeviceEditsKept, IInv, LiveEdit, IsLive, ActionDone
  <2>4. /\ device' \in Db /\ Keyed(device')
        /\ desktop' \in Db /\ Keyed(desktop')
    BY <2>1 DEF IInv, TypeOK
  <2>5. QED
    BY <1>1, <2>1, <2>2, <2>3, <2>4, ObjectsSame
<1>4. CASE r.status # "archived"
  BY <1>4, AbandonKeeps DEF Archive, Throw, IInv, TypeOK
<1>5. QED
  BY <1>3, <1>4

\* The clean-ups remove no live record, and saving ends the session.
LEMMA FinishKeeps ==
    ASSUME IInv, Finish
    PROVE  IInv'
<1> USE DEF IInv
<1>1. /\ \A k \in Keys : IsLive(device[k]) =>
            /\ DropRemoved(device)[k] = device[k]
            /\ IsLive(ResetDirty(device)[k])
            /\ ResetDirty(device)[k].data = device[k].data
      /\ DropRemoved(device) \in Db /\ Keyed(DropRemoved(device))
      /\ ResetDirty(device) \in Db /\ Keyed(ResetDirty(device))
      /\ CleanUp(desktop) \in Db /\ Keyed(CleanUp(desktop))
  BY CleanUpTyped DEF TypeOK
<1>2. CASE CleanUpDevice \/ ResetSyncFlags
  <2>1. /\ device' \in {DropRemoved(device), ResetDirty(device)}
        /\ phase \in {"execute", "resetSyncFlags"}
        /\ phase' \in {"resetSyncFlags", "cleanUpDesktop"}
        /\ UNCHANGED <<file, session, lastSyncPc, result, edits, syncs>>
    BY <1>2 DEF CleanUpDevice, ResetSyncFlags
  <2>2. TypeOK' /\ Keyed(device')
    BY <1>1, <2>1 DEF TypeOK, session
  <2>3. DeviceEditsKept'
    BY <1>1, <2>1 DEF DeviceEditsKept, session, LiveEdit, IsLive
  <2>4. QED
    BY <2>1, <2>2, <2>3
       DEF session, Keyed, Reading, ActionOK, Object, ObjectOK, LiveEdit, IsLive
<1>3. CASE CleanUpDesktop
  <2>1. TypeOK' /\ Keyed(desktop')
    BY <1>1, <1>3 DEF TypeOK, CleanUpDesktop
  <2>2. QED
    BY <1>3, <2>1
       DEF CleanUpDesktop, Keyed, Reading, ActionOK, Object, ObjectOK,
           DeviceEditsKept, LiveEdit, IsLive
<1>4. CASE CloseAndSave
  <2>1. <<>> \in Seq(RecordAction)
    OBVIOUS
  <2>2. \A k \in Keys : EmptyDb[k] = NoRecord
    BY DEF EmptyDb
  <2>3. TypeOK'
    BY <1>4, <2>1, EmptyDbTyped DEF TypeOK, CloseAndSave
  <2>4. QED
    BY <1>4, <2>2, <2>3, EmptyDbTyped
       DEF CloseAndSave, Reading, ObjectOK, DeviceEditsKept, Keyed
<1>5. QED
  BY <1>2, <1>3, <1>4 DEF Finish

-----------------------------------------------------------------------------

\* Every step preserves the invariant.
LEMMA NextIInv == IInv /\ [Next]_vars => IInv'
<1> SUFFICES ASSUME IInv, [Next]_vars PROVE IInv'
  OBVIOUS
<1>1. CASE DeviceEdit \/ DesktopEdit \/ OtherPcSync
  BY <1>1, OutsideSync
<1>2. CASE StartSync
  BY <1>2, StartKeeps
<1>3. CASE Plan
  BY <1>3, PlanKeeps
<1>4. CASE Execute
  BY <1>4, AddOnDeviceKeeps, AddOnDeviceWithNewIdKeeps, AddOnDesktopKeeps,
     DeleteOnDeviceKeeps, DeleteOnDesktopKeeps, ArchiveKeeps DEF Execute
<1>5. CASE Finish
  BY <1>5, FinishKeeps
<1>6. CASE DlpFailure
  BY <1>6, FailureKeeps
<1>7. CASE ReadTornFile \/ TearFile
  BY <1>7, ReadTornKeeps, TearKeeps
<1>8. CASE UNCHANGED vars
  BY <1>8 DEF vars, session, IInv, TypeOK, Keyed, Reading, ActionOK, Object,
     ObjectOK, DeviceEditsKept, LiveEdit, IsLive
<1>9. QED
  BY <1>1, <1>2, <1>3, <1>4, <1>5, <1>6, <1>7, <1>8 DEF Next, SyncStep

\* IInv, the inductive invariant, holds in every behaviour of the sync.
THEOREM Invariance == Spec => []IInv
BY InitIInv, NextIInv, PTL DEF Spec

\* Every variable keeps its type: in particular each planned action refers to
\* a record object that exists when it is executed.
THEOREM TypeCorrect == Spec => []TypeOK
<1>1. IInv => TypeOK
  BY DEF IInv
<1>2. QED
  BY <1>1, Invariance, PTL

\* Whatever the two databases hold and wherever a fast sync is cut short, no
\* record the user changed on the device has been overwritten or deleted.
THEOREM DeviceEditsAreKept == Spec => []DeviceEditsKept
<1>1. IInv => DeviceEditsKept
  BY DEF IInv
<1>2. QED
  BY <1>1, Invariance, PTL
=============================================================================

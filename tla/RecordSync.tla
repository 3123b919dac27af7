----------------------------- MODULE RecordSync -----------------------------
(***************************************************************************)
(* Two-way synchronisation of one record database between a Palm OS        *)
(* device and the desktop copy of it: src/sync-utils/sync-db.ts, with the  *)
(* per-database loop of src/conduits/sync-databases-conduit.ts around it.  *)
(*                                                                         *)
(* A database is a function from record ids to records, NoRecord where it  *)
(* has none.  Key 0 is the id of a record a desktop program created and    *)
(* the device has not numbered yet.  A record object read from either side *)
(* is mutated by the actions that run on it (clearRecordAttrs, and the new *)
(* id of ADD_ON_DEVICE_WITH_NEW_ID), and actions refer to objects, not to  *)
(* values: devObj and deskObj are that heap.                               *)
(***************************************************************************)
EXTENDS Naturals, Sequences

CONSTANTS
    Ids,            \* record ids, positive numbers
    Data,           \* record contents (data and category)
    NoRecord,       \* "null"
    InitIds,        \* ids of the records the device may hold at the start
    InitArchived,   \* TRUE: one of them may be archived and unmodified
    DesktopNewIds,  \* ids a desktop program may give to a record it creates
    Faults,         \* TRUE: a DLP request or the file write may fail
    OtherPcs,       \* TRUE: the device is also synced with another PC
    MaxEdits,       \* bound on user edits in a behaviour
    MaxSyncs        \* bound on syncs in a behaviour

Keys == Ids \cup {0}

Statuses == {"live", "deleted", "archived"}

Record == [id : Keys, data : Data, status : Statuses, dirty : BOOLEAN]

ASSUME ConstantsAssumption ==
    /\ Ids \subseteq Nat \ {0}
    /\ InitIds \subseteq Ids
    /\ DesktopNewIds \subseteq Keys \ InitIds
    /\ NoRecord \notin Record
    /\ InitArchived \in BOOLEAN
    /\ Faults \in BOOLEAN
    /\ OtherPcs \in BOOLEAN
    /\ MaxEdits \in Nat
    /\ MaxSyncs \in Nat

Db == [Keys -> Record \cup {NoRecord}]

EmptyDb == [k \in Keys |-> NoRecord]

VARIABLES
    device,       \* the database on the device
    file,         \* the database in the desktop's storage
    phase,        \* where fastSync / slowSync is
    slow,         \* TRUE in a slow sync
    desktop,      \* the desktop database in memory during a sync
    pending,      \* ids the current reading loop has still to visit
    actions,      \* recordActions: the actions not yet executed
    devObj,       \* the record objects read from the device
    deskObj,      \* the record objects read from the desktop database
    archiveDb,    \* ctx.archiveDb
    startDevice,  \* history: the device as it was when the sync began
    lastSyncPc,   \* the PC the device remembers having synced with last
    result,       \* outcome of the last sync; "torn": the file is cut short
    edits,        \* user edits so far
    syncs         \* syncs so far

session == <<slow, desktop, pending, actions, devObj, deskObj, archiveDb,
             startDevice>>
vars == <<device, file, phase, session, lastSyncPc, result, edits, syncs>>

-----------------------------------------------------------------------------
(* Record states and the decision table.                                   *)

RecordStates == {"notFound", "archivedChanged", "archivedUnchanged",
                 "deleted", "changed", "unchanged"}

RecordActionTypes == {"ADD_ON_DESKTOP", "ADD_ON_DEVICE",
                      "ADD_ON_DEVICE_WITH_NEW_ID", "DELETE_ON_DESKTOP",
                      "DELETE_ON_DEVICE", "ARCHIVE", "unexpectedRecordState"}

Sides == {"device", "desktop"}

RecordAction == [type : RecordActionTypes, side : Sides, key : Keys]

\* compareRec(): category, then data.
SameContent(r, other) == r.data = other.data

\* computeRecordState()
RecordState(r, slowSync, other) ==
    CASE r = NoRecord -> "notFound"
      [] r # NoRecord /\ r.status = "archived" ->
            IF r.dirty THEN "archivedChanged" ELSE "archivedUnchanged"
      [] r # NoRecord /\ r.status = "deleted" -> "deleted"
      [] r # NoRecord /\ r.status = "live" ->
            IF slowSync /\ other # NoRecord
            THEN IF SameContent(r, other) THEN "unchanged" ELSE "changed"
            ELSE IF r.dirty THEN "changed" ELSE "unchanged"

\* deviceRecord?.data === desktopRecord?.data compares two Buffers that came
\* from two different reads: object identity, never equality of content.
SameBuffer == FALSE

IfIdentical(then, else) == IF SameBuffer THEN then ELSE else

\* An entry of the table: what to do, with the record object of which side.
Device(t)  == [type |-> t, side |-> "device"]
Desktop(t) == [type |-> t, side |-> "desktop"]

\* The rows' entries are made of these lists.
Nothing       == <<>>
Unexpected    == <<Device("unexpectedRecordState")>>
Push          == <<Desktop("ADD_ON_DEVICE")>>
Pull          == <<Device("ADD_ON_DESKTOP")>>
RemoveDevice  == <<Device("DELETE_ON_DEVICE")>>
RemoveDesktop == <<Desktop("DELETE_ON_DESKTOP")>>
KeepDevice    == <<Device("ARCHIVE")>>
KeepDesktop   == <<Desktop("ARCHIVE")>>
KeepBoth      == <<Device("ARCHIVE"), Desktop("ARCHIVE")>>
RetireDesktop == <<Device("ARCHIVE"), Desktop("DELETE_ON_DESKTOP")>>
RetireDevice  == <<Desktop("ARCHIVE"), Device("DELETE_ON_DEVICE")>>
ForkDevice    == <<Device("ADD_ON_DEVICE_WITH_NEW_ID"),
                   Desktop("ADD_ON_DEVICE"), Device("ADD_ON_DESKTOP")>>
ForkDesktop   == <<Desktop("ADD_ON_DEVICE_WITH_NEW_ID"),
                   Desktop("ADD_ON_DESKTOP"), Device("ADD_ON_DESKTOP")>>

\* RECORD_SYNC_LOGIC[deviceRecordState], a function of desktopRecordState.
OnNotFound ==
    [notFound          |-> Nothing,     archivedChanged |-> KeepDesktop,
     archivedUnchanged |-> Unexpected,  deleted         |-> Nothing,
     changed           |-> Push,        unchanged       |-> Unexpected]

OnArchivedChanged ==
    [notFound          |-> KeepDevice,
     archivedChanged   |-> IfIdentical(KeepDevice, KeepBoth),
     archivedUnchanged |-> IfIdentical(KeepDevice, KeepBoth),
     deleted           |-> KeepDevice,
     changed           |-> IfIdentical(RetireDesktop, ForkDevice),
     unchanged         |-> RetireDesktop]

OnArchivedUnchanged ==
    [notFound          |-> Unexpected,
     archivedChanged   |-> IfIdentical(KeepDevice, KeepBoth),
     archivedUnchanged |-> KeepDevice,  deleted         |-> KeepDevice,
     changed           |-> Push,        unchanged       |-> RetireDesktop]

\* Mutated row: a removal on the device wins over an edit on the desktop.
DeletionWins ==
    [notFound          |-> Nothing,     archivedChanged |-> KeepDesktop,
     archivedUnchanged |-> KeepDesktop, deleted         |-> Nothing,
     changed           |-> RemoveDesktop, unchanged     |-> RemoveDesktop]

OnDeleted ==
    [notFound          |-> Nothing,     archivedChanged |-> KeepDesktop,
     archivedUnchanged |-> KeepDesktop, deleted         |-> Nothing,
     changed           |-> Push,        unchanged       |-> RemoveDesktop]

\* Mutated rows: a desktop copy that did not change is pushed over the
\* device's edit; in a conflict the device's version replaces the desktop's.
UnchangedPushed ==
    [notFound          |-> Pull,
     archivedChanged   |-> IfIdentical(RetireDevice, ForkDesktop),
     archivedUnchanged |-> Pull,        deleted         |-> Pull,
     changed           |-> IfIdentical(Nothing, ForkDesktop),
     unchanged         |-> Push]

DeviceWins ==
    [notFound          |-> Pull,
     archivedChanged   |-> IfIdentical(RetireDevice, ForkDesktop),
     archivedUnchanged |-> Pull,        deleted         |-> Pull,
     changed           |-> Pull,        unchanged       |-> Pull]

OnChanged ==
    [notFound          |-> Pull,
     archivedChanged   |-> IfIdentical(RetireDevice, ForkDesktop),
     archivedUnchanged |-> Pull,        deleted         |-> Pull,
     changed           |-> IfIdentical(Nothing, ForkDesktop),
     unchanged         |-> Pull]

\* Mutated row: a record only the desktop changed is left alone.
DesktopEditIgnored ==
    [notFound          |-> Unexpected,  archivedChanged |-> RetireDevice,
     archivedUnchanged |-> RetireDevice, deleted        |-> RemoveDevice,
     changed           |-> Nothing,     unchanged       |-> Nothing]

OnUnchanged ==
    [notFound          |-> Unexpected,  archivedChanged |-> RetireDevice,
     archivedUnchanged |-> RetireDevice, deleted        |-> RemoveDevice,
     changed           |-> Push,        unchanged       |-> Nothing]

RecordSyncLogic ==
    [notFound |-> OnNotFound, archivedChanged |-> OnArchivedChanged,
     archivedUnchanged |-> OnArchivedUnchanged, deleted |-> OnDeleted,
     changed |-> OnChanged, unchanged |-> OnUnchanged]

\* computeRecordActions() for the records both sides hold under key k.
ComputeRecordActions(deviceRecord, desktopRecord, slowSync, k) ==
    LET logic == RecordSyncLogic
                    [RecordState(deviceRecord, slowSync, desktopRecord)]
                    [RecordState(desktopRecord, slowSync, deviceRecord)]
    IN  [n \in DOMAIN logic |->
            [type |-> logic[n].type, side |-> logic[n].side, key |-> k]]

-----------------------------------------------------------------------------
(* The databases.                                                          *)

\* clearRecordAttrs()
ClearRecordAttrs(r) == [r EXCEPT !.status = "live", !.dirty = FALSE]

\* Mutated form: archived records stay.
DropDeleted(db) ==
    [k \in Keys |-> IF db[k] # NoRecord /\ db[k].status = "deleted"
                    THEN NoRecord ELSE db[k]]

\* DlpCleanUpDatabase, and the first half of RawPdbDatabaseSyncInterface.cleanUp
DropRemoved(db) ==
    [k \in Keys |-> IF db[k] # NoRecord /\ db[k].status # "live"
                    THEN NoRecord ELSE db[k]]

\* DlpResetSyncFlags, and the second half of cleanUp
ResetDirty(db) ==
    [k \in Keys |-> IF db[k] = NoRecord THEN NoRecord
                    ELSE [db[k] EXCEPT !.dirty = FALSE]]

\* cleanUp() of a desktop database
CleanUp(db) == ResetDirty(DropRemoved(db))

\* Mutated form: a slow sync reads only what is flagged.
FlaggedIds(db, slowSync) ==
    {k \in Keys : /\ db[k] # NoRecord
                  /\ RecordState(db[k], FALSE, NoRecord) # "unchanged"}

\* readAllRecords() in a slow sync, readModifiedRecords() in a fast one
IdsToRead(db, slowSync) ==
    {k \in Keys : /\ db[k] # NoRecord
                  /\ slowSync \/ RecordState(db[k], FALSE, NoRecord) # "unchanged"}

\* Mutated form: an id the desktop has given to a new record is given again.
IdsFreeOnDevice == {n \in Ids : device[n] = NoRecord}

\* The device numbers records from a counter it never resets, so an id it
\* hands out is in use on neither side.
FreshIds ==
    {n \in Ids \ DesktopNewIds : /\ device[n] = NoRecord
                                 /\ file[n] = NoRecord
                                 /\ desktop[n] = NoRecord}

-----------------------------------------------------------------------------
(* Users and other PCs, between syncs.                                     *)

\* Nothing can be read from the file any more.
Torn == result = "torn"

\* What a program that follows the record-flag convention leaves of a record.
UserEdits(r) ==
    {[r EXCEPT !.data = d, !.dirty = TRUE] : d \in Data}
        \cup {[r EXCEPT !.status = "deleted"], [r EXCEPT !.status = "archived"]}

NewRecord(k, d) == [id |-> k, data |-> d, status |-> "live", dirty |-> TRUE]

DeviceEdit ==
    /\ phase = "idle" /\ edits < MaxEdits
    /\ \/ \E k \in Ids : /\ device[k] # NoRecord /\ device[k].status = "live"
                         /\ \E r \in UserEdits(device[k]) :
                               device' = [device EXCEPT ![k] = r]
       \/ \E k \in FreshIds, d \in Data :
             device' = [device EXCEPT ![k] = NewRecord(k, d)]
    /\ edits' = edits + 1
    /\ UNCHANGED <<file, phase, session, lastSyncPc, result, syncs>>

DesktopEdit ==
    /\ phase = "idle" /\ edits < MaxEdits /\ ~Torn
    /\ \/ \E k \in Keys : /\ file[k] # NoRecord /\ file[k].status = "live"
                          /\ \E r \in UserEdits(file[k]) :
                                file' = [file EXCEPT ![k] = r]
       \/ \E k \in DesktopNewIds, d \in Data :
             /\ file[k] = NoRecord /\ device[k] = NoRecord
             /\ file' = [file EXCEPT ![k] = NewRecord(k, d)]
    /\ edits' = edits + 1
    /\ UNCHANGED <<device, phase, session, lastSyncPc, result, syncs>>

\* A HotSync with another PC clears the flags and may add, change or remove
\* a record.
OtherPcSync ==
    /\ OtherPcs /\ phase = "idle" /\ edits < MaxEdits
    /\ \/ device' = CleanUp(device)
       \/ \E k \in Ids : /\ device[k] # NoRecord
                         /\ device' = [CleanUp(device) EXCEPT ![k] = NoRecord]
       \/ \E k \in Ids, d \in Data :
             /\ device[k] # NoRecord \/ k \in FreshIds
             /\ device' = [CleanUp(device) EXCEPT
                              ![k] = ClearRecordAttrs(NewRecord(k, d))]
    /\ lastSyncPc' = "other"
    /\ edits' = edits + 1
    /\ UNCHANGED <<file, phase, session, result, syncs>>

-----------------------------------------------------------------------------
(* fastSync() and slowSync().                                              *)

\* readDatabase() throws outside the try block of the conduit: the session ends
\* before it has looked at this database.
ReadTornFile ==
    /\ phase = "idle" /\ syncs < MaxSyncs /\ Torn
    /\ syncs' = syncs + 1
    /\ UNCHANGED <<device, file, phase, session, lastSyncPc, result, edits>>

StartSync ==
    /\ phase = "idle" /\ syncs < MaxSyncs /\ ~Torn
    /\ phase' = "readDevice"
    /\ slow' = (lastSyncPc = "other")
    /\ desktop' = file
    /\ pending' = IdsToRead(device, lastSyncPc = "other")
    /\ actions' = <<>> /\ archiveDb' = {}
    /\ devObj' = EmptyDb /\ deskObj' = EmptyDb
    /\ startDevice' = device
    /\ syncs' = syncs + 1
    /\ UNCHANGED <<device, file, lastSyncPc, result, edits>>

\* An exception leaves fastSync: the conduit logs it, skips the database and
\* does not write the file.  The in-memory copy is gone.
Abandon(why) ==
    /\ phase' = "idle" /\ result' = why
    /\ desktop' = EmptyDb /\ pending' = {} /\ actions' = <<>>
    /\ devObj' = EmptyDb /\ deskObj' = EmptyDb /\ archiveDb' = {}
    /\ slow' = FALSE
    /\ UNCHANGED <<file, startDevice, edits, syncs>>

\* A caught error lets the later conduits run, update-sync-info among them.
Throw(why) == Abandon(why) /\ lastSyncPc' = "this"

\* The body of both reading loops for the records under key k.
PlanRecord(k) ==
    LET plan == ComputeRecordActions(device[k], desktop[k], slow, k)
    IN  IF \E n \in DOMAIN plan : plan[n].type = "unexpectedRecordState"
        THEN Throw("unexpectedState") /\ UNCHANGED device
        ELSE /\ actions' = actions \o plan
             /\ devObj' = [devObj EXCEPT ![k] = device[k]]
             /\ deskObj' = [deskObj EXCEPT ![k] = desktop[k]]
             /\ pending' = pending \ {k}
             /\ UNCHANGED <<device, file, phase, slow, desktop, archiveDb,
                            startDevice, lastSyncPc, result, edits, syncs>>

PlanDeviceRecord ==
    /\ phase = "readDevice"
    /\ \E k \in pending : PlanRecord(k)

ReadDesktopRecords ==
    /\ phase = "readDevice" /\ pending = {}
    /\ phase' = "readDesktop"
    /\ pending' = IdsToRead(desktop, slow) \ IdsToRead(device, slow)
    /\ UNCHANGED <<device, file, slow, desktop, actions, devObj, deskObj,
                   archiveDb, startDevice, lastSyncPc, result, edits, syncs>>

PlanDesktopRecord ==
    /\ phase = "readDesktop"
    /\ \E k \in pending : ~(slow /\ device[k] = NoRecord) /\ PlanRecord(k)

\* slowSync(): "No device record! Skipping..."
SkipDesktopRecord ==
    /\ phase = "readDesktop" /\ slow
    /\ \E k \in pending : device[k] = NoRecord /\ pending' = pending \ {k}
    /\ UNCHANGED <<device, file, phase, slow, desktop, actions, devObj, deskObj,
                   archiveDb, startDevice, lastSyncPc, result, edits, syncs>>

ExecuteActions ==
    /\ phase = "readDesktop" /\ pending = {}
    /\ phase' = "execute"
    /\ UNCHANGED <<device, file, session, lastSyncPc, result, edits, syncs>>

-----------------------------------------------------------------------------
(* RECORD_ACTION_FNS, one action per type; each takes the head of the list. *)

\* The record object an action refers to, as earlier actions left it.
Object(a) == IF a.side = "device" THEN devObj[a.key] ELSE deskObj[a.key]

SetObject(a, r) ==
    IF a.side = "device"
    THEN devObj' = [devObj EXCEPT ![a.key] = r] /\ UNCHANGED deskObj
    ELSE deskObj' = [deskObj EXCEPT ![a.key] = r] /\ UNCHANGED devObj

Executing(type) ==
    phase = "execute" /\ actions # <<>> /\ Head(actions).type = type

ActionDone ==
    /\ actions' = Tail(actions)
    /\ UNCHANGED <<file, phase, slow, pending, startDevice, lastSyncPc, result,
                   edits, syncs>>

\* The device numbers a record that comes with id 0; the code then finds that
\* the id it got back is not the one it asked for.
AddOnDevice ==
    /\ Executing("ADD_ON_DEVICE")
    /\ LET r == ClearRecordAttrs(Object(Head(actions)))
       IN  IF r.id # 0
           THEN /\ device' = [device EXCEPT ![r.id] = r]
                /\ SetObject(Head(actions), r)
                /\ ActionDone /\ UNCHANGED <<desktop, archiveDb>>
           ELSE /\ \E n \in FreshIds :
                      device' = [device EXCEPT ![n] = [r EXCEPT !.id = n]]
                /\ Throw("idMismatch")

AddOnDeviceWithNewId ==
    /\ Executing("ADD_ON_DEVICE_WITH_NEW_ID")
    /\ \E n \in FreshIds :
          LET r == [ClearRecordAttrs(Object(Head(actions))) EXCEPT !.id = n]
          IN  /\ device' = [device EXCEPT ![n] = r]
              /\ SetObject(Head(actions), r)
    /\ ActionDone /\ UNCHANGED <<desktop, archiveDb>>

\* Never called with id 0: only ADD_ON_DEVICE meets one, and it throws.
AddOnDesktop ==
    /\ Executing("ADD_ON_DESKTOP")
    /\ LET r == ClearRecordAttrs(Object(Head(actions)))
       IN  /\ desktop' = [desktop EXCEPT ![r.id] = r]
           /\ SetObject(Head(actions), r)
    /\ ActionDone /\ UNCHANGED <<device, archiveDb>>

DeleteOnDevice ==
    /\ Executing("DELETE_ON_DEVICE")
    /\ LET r == Object(Head(actions))
       IN  IF device[r.id] # NoRecord
           THEN /\ device' = [device EXCEPT ![r.id] = NoRecord]
                /\ ActionDone /\ UNCHANGED <<desktop, devObj, deskObj, archiveDb>>
           ELSE Throw("noSuchRecord") /\ UNCHANGED device

DeleteOnDesktop ==
    /\ Executing("DELETE_ON_DESKTOP")
    /\ LET r == Object(Head(actions))
       IN  IF desktop[r.id] # NoRecord
           THEN /\ desktop' = [desktop EXCEPT ![r.id] = NoRecord]
                /\ ActionDone /\ UNCHANGED <<device, devObj, deskObj, archiveDb>>
           ELSE Throw("noSuchRecord") /\ UNCHANGED device

\* Mutated form: the other side's record is archived.
ArchiveOther ==
    /\ Executing("ARCHIVE")
    /\ LET a == Head(actions)
       IN  archiveDb' = archiveDb \cup
              {IF a.side = "device" THEN deskObj[a.key] ELSE devObj[a.key]}
    /\ ActionDone /\ UNCHANGED <<device, desktop, devObj, deskObj>>

Archive ==
    /\ Executing("ARCHIVE")
    /\ LET r == Object(Head(actions))
       IN  IF r.status = "archived"
           THEN /\ archiveDb' = archiveDb \cup {r}
                /\ ActionDone /\ UNCHANGED <<device, desktop, devObj, deskObj>>
           ELSE Throw("notArchived") /\ UNCHANGED device

-----------------------------------------------------------------------------
(* device.cleanUp(), desktop.cleanUp(), and what the conduit does next.    *)

CleanUpDevice ==
    /\ phase = "execute" /\ actions = <<>>
    /\ device' = DropRemoved(device)
    /\ phase' = "resetSyncFlags"
    /\ UNCHANGED <<file, session, lastSyncPc, result, edits, syncs>>

ResetSyncFlags ==
    /\ phase = "resetSyncFlags"
    /\ device' = ResetDirty(device)
    /\ phase' = "cleanUpDesktop"
    /\ UNCHANGED <<file, session, lastSyncPc, result, edits, syncs>>

CleanUpDesktop ==
    /\ phase = "cleanUpDesktop"
    /\ desktop' = CleanUp(desktop)
    /\ phase' = "close"
    /\ UNCHANGED <<device, file, slow, pending, actions, devObj, deskObj,
                   archiveDb, startDevice, lastSyncPc, result, edits, syncs>>

\* Mutated form: the merged database is never written.
CloseOnly ==
    /\ phase = "close"
    /\ phase' = "idle" /\ result' = "ok" /\ lastSyncPc' = "this"
    /\ desktop' = EmptyDb /\ actions' = <<>> /\ pending' = {}
    /\ devObj' = EmptyDb /\ deskObj' = EmptyDb /\ archiveDb' = {}
    /\ slow' = FALSE
    /\ UNCHANGED <<device, file, startDevice, edits, syncs>>

\* DlpCloseDB, then dbStg.writeDatabase(); update-sync-info follows.
CloseAndSave ==
    /\ phase = "close"
    /\ file' = desktop
    /\ phase' = "idle" /\ result' = "ok" /\ lastSyncPc' = "this"
    /\ desktop' = EmptyDb /\ actions' = <<>> /\ pending' = {}
    /\ devObj' = EmptyDb /\ deskObj' = EmptyDb /\ archiveDb' = {}
    /\ slow' = FALSE
    /\ UNCHANGED <<device, startDevice, edits, syncs>>

\* A DLP request fails, or the write of the file before it has opened it.  An
\* error caught for this database lets the session go on to update-sync-info, a
\* dead link does not.
DlpFailure ==
    /\ Faults /\ phase # "idle"
    /\ Abandon("dlpError")
    /\ lastSyncPc' \in {lastSyncPc, "this"}
    /\ UNCHANGED device

\* Mutated form of TearFile: the file is written before the device is cleaned up.
TearFileEarly ==
    /\ Faults /\ phase \in {"resetSyncFlags", "close"}
    /\ file' = EmptyDb
    /\ phase' = "idle" /\ result' = "torn"
    /\ lastSyncPc' \in {lastSyncPc, "this"}
    /\ desktop' = EmptyDb /\ actions' = <<>> /\ pending' = {}
    /\ devObj' = EmptyDb /\ deskObj' = EmptyDb /\ archiveDb' = {}
    /\ slow' = FALSE
    /\ UNCHANGED <<device, startDevice, edits, syncs>>

\* fs.writeFile() overwrites the file in place: the write fails, or the process
\* dies, when it has emptied it.
TearFile ==
    /\ Faults /\ phase = "close"
    /\ file' = EmptyDb
    /\ phase' = "idle" /\ result' = "torn"
    /\ lastSyncPc' \in {lastSyncPc, "this"}
    /\ desktop' = EmptyDb /\ actions' = <<>> /\ pending' = {}
    /\ devObj' = EmptyDb /\ deskObj' = EmptyDb /\ archiveDb' = {}
    /\ slow' = FALSE
    /\ UNCHANGED <<device, startDevice, edits, syncs>>

-----------------------------------------------------------------------------

\* The storage holds no database before the first sync, which downloads the
\* device's and cleans the copy up; the device keeps its flags.
Init ==
    /\ \E db \in [InitIds -> Record \cup {NoRecord}] :
          /\ \A k \in InitIds : db[k] # NoRecord =>
                /\ db[k].id = k
                /\ db[k].status = "archived" => db[k].dirty \/ InitArchived
          /\ device = [k \in Keys |-> IF k \in InitIds THEN db[k] ELSE NoRecord]
    /\ file = CleanUp(device)
    /\ phase = "idle" /\ slow = FALSE
    /\ desktop = EmptyDb /\ pending = {} /\ actions = <<>>
    /\ devObj = EmptyDb /\ deskObj = EmptyDb /\ archiveDb = {}
    /\ startDevice = device
    /\ lastSyncPc = "this" /\ result = "none"
    /\ edits = 0 /\ syncs = 0

Plan == \/ PlanDeviceRecord \/ ReadDesktopRecords \/ PlanDesktopRecord
        \/ SkipDesktopRecord \/ ExecuteActions

Execute == \/ AddOnDevice \/ AddOnDeviceWithNewId \/ AddOnDesktop
           \/ DeleteOnDevice \/ DeleteOnDesktop \/ Archive

Finish == CleanUpDevice \/ ResetSyncFlags \/ CleanUpDesktop \/ CloseAndSave

SyncStep == Plan \/ Execute \/ Finish

Next == DeviceEdit \/ DesktopEdit \/ OtherPcSync \/ ReadTornFile \/ StartSync
            \/ SyncStep \/ DlpFailure \/ TearFile

\* The sync is one chain of awaits: whatever it waits for is answered.
Spec == Init /\ [][Next]_vars /\ WF_vars(SyncStep)

-----------------------------------------------------------------------------
(* Properties.                                                             *)

TypeOK ==
    /\ device \in Db /\ file \in Db /\ desktop \in Db
    /\ devObj \in Db /\ deskObj \in Db /\ startDevice \in Db
    /\ phase \in {"idle", "readDevice", "readDesktop", "execute",
                  "resetSyncFlags", "cleanUpDesktop", "close"}
    /\ slow \in BOOLEAN
    /\ pending \subseteq Keys
    /\ actions \in Seq(RecordAction)
    /\ archiveDb \subseteq Record
    /\ lastSyncPc \in {"this", "other"}
    /\ result \in {"none", "ok", "dlpError", "torn", "unexpectedState",
                   "idMismatch", "noSuchRecord", "notArchived"}
    /\ edits \in Nat /\ syncs \in Nat

IsLive(r) == r # NoRecord /\ r.status = "live"

LiveEdit(r) == IsLive(r) /\ r.dirty

\* A record that has not changed since the last sync, archived or not.
IsUnchanged(r) == r # NoRecord /\ r.status # "deleted" /\ ~r.dirty

\* What the "this should not happen" rows of RECORD_SYNC_LOGIC rest on: a
\* record that is unchanged on one side is known to the other, and one that
\* is unchanged on both has the same content there.
FlagsTellTheTruth ==
    phase = "idle" =>
      \A k \in Keys :
        /\ IsUnchanged(device[k]) => file[k] # NoRecord
        /\ IsUnchanged(file[k]) => device[k] # NoRecord
        /\ IsUnchanged(device[k]) /\ IsUnchanged(file[k]) =>
              device[k].data = file[k].data

\* No exception of the sync code itself ends a sync (unexpectedRecordState,
\* an id that comes back different, archiving what is no longer archived,
\* deleting what is not there): the plan is always one that can be executed.
NoInternalError == result \in {"none", "ok", "dlpError", "torn"}

\* While a fast sync runs, and when it has been given up half way, every edit
\* the user made on the device is still on the device, under its id.
DeviceEditsKept ==
    phase # "idle" /\ ~slow =>
      \A k \in Keys : LiveEdit(startDevice[k]) =>
         IsLive(device[k]) /\ device[k].data = startDevice[k].data

\* Two record objects that later actions will write never carry one id, so
\* no write of a sync undoes another one of it.
ObjectsDistinct ==
    \A j, k \in Keys :
       /\ j # k /\ devObj[j] # NoRecord /\ devObj[k] # NoRecord =>
             devObj[j].id # devObj[k].id
       /\ j # k /\ deskObj[j] # NoRecord /\ deskObj[k] # NoRecord =>
             deskObj[j].id # deskObj[k].id
       /\ j # k /\ devObj[j] # NoRecord /\ deskObj[k] # NoRecord =>
             devObj[j].id # deskObj[k].id

SyncSucceeds == phase = "close" /\ phase' = "idle" /\ result' = "ok"

\* "After a successful HotSync, both devices are guaranteed to end up with the
\* same" records: same ids, same contents, and clean flags.
SyncConverges == [][SyncSucceeds => device' = file']_vars

\* A fast sync that succeeds loses no edit: each version a user wrote, on either
\* side, is on both sides under one id, also when the other side has edited the
\* record, archived it or removed it.
FastSyncKeepsEdits ==
    [][SyncSucceeds /\ ~slow =>
         \A k \in Keys : \A r \in {startDevice[k], file[k]} : LiveEdit(r) =>
            \E j \in Keys : IsLive(device'[j]) /\ device'[j].data = r.data
                              /\ file'[j] = device'[j]]_vars

\* A slow sync trusts no flag, so at least everything the device holds must
\* be on the desktop, identical, when it is over.
SlowSyncPulls ==
    [][SyncSucceeds /\ slow =>
          \A k \in Keys : device'[k] # NoRecord => file'[k] = device'[k]]_vars

\* A version edited on one side that differs from what the other side has is
\* on both sides when a slow sync is over: the device's always, the desktop's
\* when the device knows the record.
SlowSyncKeepsEdits ==
    [][SyncSucceeds /\ slow =>
         \A k \in Keys :
            /\ startDevice[k] = NoRecord \/ file[k] = NoRecord
                  \/ startDevice[k].data # file[k].data
            /\ startDevice[k] # NoRecord
            => \A r \in {startDevice[k], file[k]} : LiveEdit(r) =>
                  \E j \in Keys : IsLive(device'[j]) /\ device'[j].data = r.data
                                    /\ file'[j] = device'[j]]_vars

SyncOutcome ==
    CASE result = "none" -> "none"
      [] result = "ok" -> "merged"
      [] result = "torn" -> "torn"
      [] OTHER -> "interrupted"

\* The device as TwoWaySync sees it: a running sync has not happened yet.
SettledDevice == IF phase = "idle" THEN device ELSE startDevice

TWS == INSTANCE TwoWaySync WITH device <- SettledDevice, desktop <- file,
                                outcome <- SyncOutcome

\* fastSync() is an atomic merge, or an interrupted one that loses no edit; a
\* file that is torn is torn when the device has the whole merge.
ImplementsTwoWaySync == TWS!Spec

\* What of it is true with other PCs as well, after any failures and any slow
\* syncs: each step of a fast sync is a step of TwoWaySync or changes nothing of
\* what it sees.
FastSyncsMerge ==
    [][~slow /\ ~OtherPcSync =>
        [TWS!Next]_<<SettledDevice, file, SyncOutcome>>]_vars

\* RECORD_SYNC_LOGIC, changed on both sides: "If identical, nothing to do."
IdenticalEditsNotDuplicated ==
    [][SyncSucceeds /\ (\A k \in Keys :
                           \/ LiveEdit(startDevice[k]) /\ LiveEdit(file[k])
                                 /\ startDevice[k].data = file[k].data
                           \/ ~TWS!Modified(startDevice[k]) /\ ~TWS!Modified(file[k]))
          => {k \in Keys : device'[k] # NoRecord}
                = {k \in Keys : startDevice[k] # NoRecord}]_vars
=============================================================================

-------------------------- MODULE RecordMerge_proofs --------------------------
(***************************************************************************)
(* What a sync of RecordSync makes of the two databases, for every set of  *)
(* ids, contents and bounds.                                               *)
(*                                                                         *)
(* While a sync runs, startDevice and file keep the two records it found   *)
(* under a key.  The table's row for them is a plan of up to three actions *)
(* and says at each of its stages what the databases and the two record    *)
(* objects hold (OnPlan).  Syncs interleave the plans of all keys, and a   *)
(* copy gets an id that is nobody's, so the invariant MInv says this of    *)
(* every key at once; where all plans have ended it gives the outcome.     *)
(***************************************************************************)
EXTENDS RecordSync_proofs

-----------------------------------------------------------------------------
(* Where a key is on the way through its plan.                             *)

\* The row entry for two records.
Row(d, r, s) == RecordSyncLogic[RecordState(d, s, r)][RecordState(r, s, d)]

\* An action of a plan.
To(type, side, k) == [type |-> type, side |-> side, key |-> k]

\* The record a sync leaves under id k of a version r.
Synced(r, k) == [r EXCEPT !.id = k, !.status = "live", !.dirty = FALSE]

\* What the original of a conflict can have become: the same edit under an id
\* of its own.
Copies(original, k) == {Synced(original, n) : n \in Ids \ {k}}

\* What can be found while the plan for the records d and r of key k is
\* executed: the actions left, the two records, the two record objects.  The
\* list "Push" of the table has the stages PushStages, and so on.
PushStages(k, d, r) ==
    {<<{To("ADD_ON_DEVICE", "desktop", k)}, d, r, d, r>>,
     <<{}, ClearRecordAttrs(r), r, d, ClearRecordAttrs(r)>>}

PullStages(k, d, r) ==
    {<<{To("ADD_ON_DESKTOP", "device", k)}, d, r, d, r>>,
     <<{}, d, ClearRecordAttrs(d), ClearRecordAttrs(d), r>>}

RemoveDeviceStages(k, d, r) ==
    {<<{To("DELETE_ON_DEVICE", "device", k)}, d, r, d, r>>,
     <<{}, NoRecord, r, d, r>>}

RemoveDesktopStages(k, d, r) ==
    {<<{To("DELETE_ON_DESKTOP", "desktop", k)}, d, r, d, r>>,
     <<{}, d, NoRecord, d, r>>}

KeepDeviceStages(k, d, r) ==
    {<<left, d, r, d, r>> : left \in {{To("ARCHIVE", "device", k)}, {}}}

KeepDesktopStages(k, d, r) ==
    {<<left, d, r, d, r>> : left \in {{To("ARCHIVE", "desktop", k)}, {}}}

KeepBothStages(k, d, r) ==
    {<<left, d, r, d, r>> :
        left \in {{To("ARCHIVE", "device", k), To("ARCHIVE", "desktop", k)},
                  {To("ARCHIVE", "desktop", k)}, {}}}

RetireDesktopStages(k, d, r) ==
    {<<{To("ARCHIVE", "device", k), To("DELETE_ON_DESKTOP", "desktop", k)}, d, r, d, r>>}
        \cup RemoveDesktopStages(k, d, r)

RetireDeviceStages(k, d, r) ==
    {<<{To("ARCHIVE", "desktop", k), To("DELETE_ON_DEVICE", "device", k)}, d, r, d, r>>}
        \cup RemoveDeviceStages(k, d, r)

\* A conflict the desktop's version wins: the device's becomes the copy c.
ForkDeviceStages(k, d, r) ==
    {<<{To("ADD_ON_DEVICE_WITH_NEW_ID", "device", k), To("ADD_ON_DEVICE", "desktop", k),
        To("ADD_ON_DESKTOP", "device", k)}, d, r, d, r>>}
    \cup UNION {{<<{To("ADD_ON_DEVICE", "desktop", k), To("ADD_ON_DESKTOP", "device", k)},
                   d, r, c, r>>,
                 <<{To("ADD_ON_DESKTOP", "device", k)},
                   ClearRecordAttrs(r), r, c, ClearRecordAttrs(r)>>,
                 <<{}, ClearRecordAttrs(r), r, c, ClearRecordAttrs(r)>>}
                : c \in Copies(d, k)}

\* A conflict the device's version wins: the desktop's becomes the copy c.
ForkDesktopStages(k, d, r) ==
    {<<{To("ADD_ON_DEVICE_WITH_NEW_ID", "desktop", k), To("ADD_ON_DESKTOP", "desktop", k),
        To("ADD_ON_DESKTOP", "device", k)}, d, r, d, r>>}
    \cup UNION {{<<{To("ADD_ON_DESKTOP", "desktop", k), To("ADD_ON_DESKTOP", "device", k)},
                   d, r, d, c>>,
                 <<{To("ADD_ON_DESKTOP", "device", k)}, d, r, d, c>>,
                 <<{}, d, ClearRecordAttrs(d), ClearRecordAttrs(d), c>>}
                : c \in Copies(r, k)}

\* v is a stage of the plan for the records d and r of key k.
OnPlan(k, s, d, r, v) ==
    \/ Row(d, r, s) = Nothing /\ v = <<{}, d, r, d, r>>
    \/ Row(d, r, s) = Push /\ v \in PushStages(k, d, r)
    \/ Row(d, r, s) = Pull /\ v \in PullStages(k, d, r)
    \/ Row(d, r, s) = RemoveDevice /\ v \in RemoveDeviceStages(k, d, r)
    \/ Row(d, r, s) = RemoveDesktop /\ v \in RemoveDesktopStages(k, d, r)
    \/ Row(d, r, s) = KeepDevice /\ v \in KeepDeviceStages(k, d, r)
    \/ Row(d, r, s) = KeepDesktop /\ v \in KeepDesktopStages(k, d, r)
    \/ Row(d, r, s) = KeepBoth /\ v \in KeepBothStages(k, d, r)
    \/ Row(d, r, s) = RetireDesktop /\ v \in RetireDesktopStages(k, d, r)
    \/ Row(d, r, s) = RetireDevice /\ v \in RetireDeviceStages(k, d, r)
    \/ Row(d, r, s) = ForkDevice /\ v \in ForkDeviceStages(k, d, r)
    \/ Row(d, r, s) = ForkDesktop /\ v \in ForkDesktopStages(k, d, r)

-----------------------------------------------------------------------------
(* The invariant of the merge.                                             *)

\* The actions left for key k.
Left(k) == {actions[n] : n \in {m \in DOMAIN actions : actions[m].key = k}}

\* The records under k have been read.
Read(k) == devObj[k] # NoRecord \/ deskObj[k] # NoRecord

\* All of where k is.
View(k) == <<Left(k), device[k], desktop[k], devObj[k], deskObj[k]>>

\* A record object of key k carries the id n.
HasId(k, n) ==
    \/ devObj[k] # NoRecord /\ devObj[k].id = n
    \/ deskObj[k] # NoRecord /\ deskObj[k].id = n

\* The object o of key k, when it is a copy: under its id neither side had a
\* record, the device has the copy and, once it was added there, the desktop.
CopyOK(k, o, side) ==
    o # NoRecord /\ o.id # k =>
        /\ startDevice[o.id] = NoRecord /\ file[o.id] = NoRecord
        /\ device[o.id] = o
        /\ To("ADD_ON_DESKTOP", side, k) \in Left(k) \/ desktop[o.id] = o

\* A key that was read is on its way through its plan; another one is as it
\* was, or is the id of a copy.
KeyOK(k) ==
    \/ /\ Read(k)
       /\ OnPlan(k, slow, startDevice[k], file[k], View(k))
       /\ CopyOK(k, devObj[k], "device") /\ CopyOK(k, deskObj[k], "desktop")
    \/ /\ ~Read(k) /\ Left(k) = {}
       /\ \/ device[k] = startDevice[k] /\ desktop[k] = file[k]
          \/ \E j \in Keys \ {k} : HasId(j, k)

\* The order in which a plan has its actions.
Rank(a) ==
    CASE a.type = "ARCHIVE" -> IF a.side = "device" THEN 0 ELSE 1
      [] a.type \in {"DELETE_ON_DEVICE", "DELETE_ON_DESKTOP"} -> 2
      [] a.type = "ADD_ON_DEVICE_WITH_NEW_ID" -> 3
      [] a.type = "ADD_ON_DEVICE" -> 4
      [] a.type = "ADD_ON_DESKTOP" -> IF a.side = "desktop" THEN 5 ELSE 6
      [] OTHER -> 7

\* The list of actions has those of one key in this order.
Ordered ==
    \A m, n \in DOMAIN actions :
        m < n /\ actions[m].key = actions[n].key => Rank(actions[m]) < Rank(actions[n])

\* The keys a sync has to look at, and those it has looked at.
Due == IdsToRead(startDevice, slow) \cup IdsToRead(file, slow)

\* A record a slow sync does not look at, as the device has none under its id.
Skipped(k) == slow /\ startDevice[k] = NoRecord

\* How far the reading loops are.
Visiting ==
    /\ \A k \in Keys : Read(k) => k \in Due
    /\ phase = "idle" => \A k \in Keys : ~Read(k)
    /\ phase \in {"readDevice", "readDesktop"} => desktop = file
    /\ phase = "readDevice" =>
          /\ pending \subseteq IdsToRead(startDevice, slow)
          /\ \A k \in Keys : Read(k) <=> k \in IdsToRead(startDevice, slow) \ pending
    /\ phase = "readDesktop" =>
          /\ pending \subseteq Due /\ \A k \in pending : ~Read(k)
          /\ \A k \in Due : Read(k) \/ k \in pending \/ Skipped(k)
    /\ phase = "execute" => \A k \in Due : Read(k) \/ Skipped(k)

\* A version a user wrote and has not thrown away.
Edited(r) == r # NoRecord /\ r.dirty /\ r.status # "deleted"

\* Both sides edited the record, and at least one still wants it live.
Contested == {k \in Keys : /\ Edited(startDevice[k]) /\ Edited(file[k])
                           /\ LiveEdit(startDevice[k]) \/ LiveEdit(file[k])}

\* Its flags say that the record is not what the last sync left.
Modified(r) == r # NoRecord /\ (r.status # "live" \/ r.dirty)

\* What a fast sync makes of a database db, where keep says whose version of a
\* conflict keeps its id and copy under which id the other one goes on.
Merge(db, keep, copy) ==
    LET Kept(k)   == IF keep[k] = "device" THEN startDevice[k] ELSE file[k]
        Other(k)  == IF keep[k] = "device" THEN file[k] ELSE startDevice[k]
        Copied(n) == CHOOSE k \in Contested : copy[k] = n
        IsCopy(n) == \E k \in Contested : copy[k] = n
    IN  [n \in Keys |->
           IF n \in Contested THEN Synced(Kept(n), n)
           ELSE IF IsCopy(n) THEN Synced(Other(Copied(n)), n)
           ELSE IF ~Modified(startDevice[n]) /\ ~Modified(file[n]) THEN db[n]
           ELSE IF LiveEdit(startDevice[n]) THEN Synced(startDevice[n], n)
           ELSE IF LiveEdit(file[n]) THEN Synced(file[n], n)
           ELSE NoRecord]

\* What a fast sync makes of both: the merge of TwoWaySync.
FastOutcome(dev, desk) ==
    \E keep \in [Contested -> {"device", "desktop"}],
       copy \in [Contested -> {n \in Ids : startDevice[n] = NoRecord
                                           /\ file[n] = NoRecord}] :
        /\ \A j, k \in Contested : copy[j] = copy[k] => j = k
        /\ dev = Merge(startDevice, keep, copy)
        /\ desk = Merge(file, keep, copy)

\* What a slow sync makes of them: nothing on the device that is not on the
\* desktop, and of two versions that differ, each one that was edited.
SlowOutcome(dev, desk) ==
    /\ \A k \in Keys : dev[k] # NoRecord => desk[k] = dev[k]
    /\ \A k \in Keys :
          /\ startDevice[k] = NoRecord \/ file[k] = NoRecord
                \/ startDevice[k].data # file[k].data
          /\ startDevice[k] # NoRecord
          => \A r \in {startDevice[k], file[k]} : LiveEdit(r) =>
                \E j \in Keys : IsLive(dev[j]) /\ dev[j].data = r.data /\ desk[j] = dev[j]

\* What a sync makes of them.
Outcome(dev, desk) ==
    IF slow THEN SlowOutcome(dev, desk) ELSE FastOutcome(dev, desk)

\* Once everything is executed, only cleaning up is between the databases and
\* the outcome.
Finishing ==
    /\ phase = "resetSyncFlags" => Outcome(ResetDirty(device), CleanUp(desktop))
    /\ phase = "cleanUpDesktop" => Outcome(device, CleanUp(desktop))
    /\ phase = "close" => Outcome(device, desktop)

\* The invariant of the merge, next to IInv.
MInv ==
    /\ Ordered /\ Visiting /\ ObjectsDistinct
    /\ phase \in {"readDevice", "readDesktop", "execute"} => \A k \in Keys : KeyOK(k)
    /\ phase \in {"idle", "resetSyncFlags", "cleanUpDesktop", "close"} => actions = <<>>
    /\ Finishing
-----------------------------------------------------------------------------
(* The rows of the decision table.                                         *)

\* What tells the lists of the table apart: their lengths and first entries.
LEMMA ListHeads ==
    /\ Len(Nothing) = 0
    /\ Len(Unexpected) = 1 /\ Unexpected[1] = Device("unexpectedRecordState")
    /\ Len(Push) = 1 /\ Push[1] = Desktop("ADD_ON_DEVICE")
    /\ Len(Pull) = 1 /\ Pull[1] = Device("ADD_ON_DESKTOP")
    /\ Len(RemoveDevice) = 1 /\ RemoveDevice[1] = Device("DELETE_ON_DEVICE")
    /\ Len(RemoveDesktop) = 1 /\ RemoveDesktop[1] = Desktop("DELETE_ON_DESKTOP")
    /\ Len(KeepDevice) = 1 /\ KeepDevice[1] = Device("ARCHIVE")
    /\ Len(KeepDesktop) = 1 /\ KeepDesktop[1] = Desktop("ARCHIVE")
    /\ Len(KeepBoth) = 2 /\ KeepBoth[1] = Device("ARCHIVE")
    /\ KeepBoth[2] = Desktop("ARCHIVE")
    /\ Len(RetireDesktop) = 2 /\ RetireDesktop[1] = Device("ARCHIVE")
    /\ RetireDesktop[2] = Desktop("DELETE_ON_DESKTOP")
    /\ Len(RetireDevice) = 2 /\ RetireDevice[1] = Desktop("ARCHIVE")
    /\ RetireDevice[2] = Device("DELETE_ON_DEVICE")
    /\ Len(ForkDevice) = 3 /\ ForkDevice[1] = Device("ADD_ON_DEVICE_WITH_NEW_ID")
    /\ ForkDevice[2] = Desktop("ADD_ON_DEVICE")
    /\ ForkDevice[3] = Device("ADD_ON_DESKTOP")
    /\ Len(ForkDesktop) = 3 /\ ForkDesktop[1] = Desktop("ADD_ON_DEVICE_WITH_NEW_ID")
    /\ ForkDesktop[2] = Desktop("ADD_ON_DESKTOP")
    /\ ForkDesktop[3] = Device("ADD_ON_DESKTOP")
BY DEF Nothing, Unexpected, Push, Pull, RemoveDevice, RemoveDesktop, KeepDevice,
       KeepDesktop, KeepBoth, RetireDesktop, RetireDevice, ForkDevice, ForkDesktop

\* No two lists of the table are the same.
LEMMA Differ ==
    /\ Nothing \notin {Unexpected, Push, Pull, RemoveDevice, RemoveDesktop,
                       KeepDevice, KeepDesktop, KeepBoth, RetireDesktop,
                       RetireDevice, ForkDevice, ForkDesktop}
    /\ Unexpected \notin {Push, Pull, RemoveDevice, RemoveDesktop, KeepDevice,
                          KeepDesktop, KeepBoth, RetireDesktop, RetireDevice,
                          ForkDevice, ForkDesktop}
    /\ Push \notin {Pull, RemoveDevice, RemoveDesktop, KeepDevice, KeepDesktop,
                    KeepBoth, RetireDesktop, RetireDevice, ForkDevice,
                    ForkDesktop}
    /\ Pull \notin {RemoveDevice, RemoveDesktop, KeepDevice, KeepDesktop,
                    KeepBoth, RetireDesktop, RetireDevice, ForkDevice,
                    ForkDesktop}
    /\ RemoveDevice \notin {RemoveDesktop, KeepDevice, KeepDesktop, KeepBoth,
                            RetireDesktop, RetireDevice, ForkDevice,
                            ForkDesktop}
    /\ RemoveDesktop \notin {KeepDevice, KeepDesktop, KeepBoth, RetireDesktop,
                             RetireDevice, ForkDevice, ForkDesktop}
    /\ KeepDevice \notin {KeepDesktop, KeepBoth, RetireDesktop, RetireDevice,
                          ForkDevice, ForkDesktop}
    /\ KeepDesktop \notin {KeepBoth, RetireDesktop, RetireDevice, ForkDevice,
                           ForkDesktop}
    /\ KeepBoth \notin {RetireDesktop, RetireDevice, ForkDevice, ForkDesktop}
    /\ RetireDesktop \notin {RetireDevice, ForkDevice, ForkDesktop}
    /\ RetireDevice \notin {ForkDevice, ForkDesktop}
    /\ ForkDevice # ForkDesktop
BY ListHeads DEF Device, Desktop

\* The record states for which the table has each of its lists.
LEMMA Cells ==
    ASSUME NEW ds \in RecordStates, NEW ks \in RecordStates
    PROVE  LET p == RecordSyncLogic[ds][ks]
               archived == {"archivedChanged", "archivedUnchanged"}
               gone == {"notFound", "deleted"}
           IN  /\ p \in {Nothing, Unexpected, Push, Pull, RemoveDevice, RemoveDesktop,
                         KeepDevice, KeepDesktop, KeepBoth, RetireDesktop,
                         RetireDevice, ForkDevice, ForkDesktop}
               /\ p = Nothing => \/ ds \in gone /\ ks \in gone
                                 \/ ds = "unchanged" /\ ks = "unchanged"
               /\ p = Unexpected =>
                     \/ ds = "notFound" /\ ks \in {"archivedUnchanged", "unchanged"}
                     \/ ks = "notFound" /\ ds \in {"archivedUnchanged", "unchanged"}
               /\ p = Push =>
                     ks = "changed" /\ ds \notin {"archivedChanged", "changed"}
               /\ p = Pull =>
                     ds = "changed" /\ ks \notin {"archivedChanged", "changed"}
               /\ p = RemoveDevice => ds = "unchanged" /\ ks = "deleted"
               /\ p = RemoveDesktop => ds = "deleted" /\ ks = "unchanged"
               /\ p = KeepDevice =>
                     ds \in archived /\ ks \in gone \cup {"archivedUnchanged"}
               /\ p = KeepDesktop => ds \in gone /\ ks \in archived
               /\ p = KeepBoth => ds \in archived /\ ks \in archived
               /\ p = RetireDesktop => ds \in archived /\ ks = "unchanged"
               /\ p = RetireDevice => ds = "unchanged" /\ ks \in archived
               /\ p = ForkDevice => ds = "archivedChanged" /\ ks = "changed"
               /\ p = ForkDesktop =>
                     ds = "changed" /\ ks \in {"archivedChanged", "changed"}
<1>1. CASE ds = "notFound"
  BY <1>1, Rows, Differ DEF RecordStates, OnNotFound, IfIdentical, SameBuffer
<1>2. CASE ds = "archivedChanged"
  BY <1>2, Rows, Differ DEF RecordStates, OnArchivedChanged, IfIdentical, SameBuffer
<1>3. CASE ds = "archivedUnchanged"
  BY <1>3, Rows, Differ DEF RecordStates, OnArchivedUnchanged, IfIdentical, SameBuffer
<1>4. CASE ds = "deleted"
  BY <1>4, Rows, Differ DEF RecordStates, OnDeleted, IfIdentical, SameBuffer
<1>5. CASE ds = "changed"
  BY <1>5, Rows, Differ DEF RecordStates, OnChanged, IfIdentical, SameBuffer
<1>6. CASE ds = "unchanged"
  BY <1>6, Rows, Differ DEF RecordStates, OnUnchanged, IfIdentical, SameBuffer
<1>7. QED
  BY <1>1, <1>2, <1>3, <1>4, <1>5, <1>6 DEF RecordStates

\* What computeRecordState() says of a record.
LEMMA StateMeaning ==
    ASSUME NEW r \in Record \cup {NoRecord}, NEW s \in BOOLEAN,
           NEW o \in Record \cup {NoRecord}
    PROVE  LET state == RecordState(r, s, o)
               compared == s /\ o # NoRecord
           IN  /\ state \in RecordStates
               /\ state = "notFound" <=> r = NoRecord
               /\ state = "archivedChanged" =>
                     r # NoRecord /\ r.status = "archived" /\ r.dirty
               /\ state = "archivedUnchanged" =>
                     r # NoRecord /\ r.status = "archived" /\ ~r.dirty
               /\ state = "deleted" => r # NoRecord /\ r.status = "deleted"
               /\ state = "changed" => /\ IsLive(r)
                                       /\ IF compared THEN r.data # o.data ELSE r.dirty
               /\ state = "unchanged" => /\ IsLive(r)
                                         /\ IF compared THEN r.data = o.data ELSE ~r.dirty
BY ConstantsAssumption
   DEF RecordState, RecordStates, Record, Statuses, IsLive, SameContent

-----------------------------------------------------------------------------
(* Records.                                                                *)

\* What cleanUp leaves of a record.
Settled(r) == IF IsLive(r) THEN ClearRecordAttrs(r) ELSE NoRecord

\* Two records with the same fields are the same record.
LEMMA SameRecord ==
    ASSUME NEW r \in Record, NEW o \in Record,
           r.id = o.id, r.data = o.data, r.status = o.status, r.dirty = o.dirty
    PROVE  r = o
BY DEF Record

\* clearRecordAttrs(): the record live and clean.
LEMMA ClearFields ==
    ASSUME NEW r \in Record
    PROVE  /\ ClearRecordAttrs(r) \in Record
           /\ ClearRecordAttrs(r).id = r.id
           /\ ClearRecordAttrs(r).data = r.data
           /\ ClearRecordAttrs(r).status = "live"
           /\ ClearRecordAttrs(r).dirty = FALSE
BY DEF ClearRecordAttrs, Record, Statuses

\* The same record under the id n.
LEMMA SyncedFields ==
    ASSUME NEW r \in Record, NEW n \in Keys
    PROVE  /\ Synced(r, n) \in Record
           /\ Synced(r, n).id = n
           /\ Synced(r, n).data = r.data
           /\ Synced(r, n).status = "live"
           /\ Synced(r, n).dirty = FALSE
           /\ Synced(r, n) = [ClearRecordAttrs(r) EXCEPT !.id = n]
BY DEF Synced, ClearRecordAttrs, Record, Statuses

\* A record that is live and clean is what a sync leaves of it.
LEMMA CleanSettled ==
    ASSUME NEW r \in Record, r.status = "live", ~r.dirty
    PROVE  /\ r # NoRecord /\ IsLive(r)
           /\ ClearRecordAttrs(r) = r
           /\ Settled(r) = r
<1>1. r.dirty = FALSE
  BY DEF Record
<1> DEFINE c == ClearRecordAttrs(r)
<1>2. /\ c \in Record /\ c.id = r.id /\ c.data = r.data
      /\ c.status = "live" /\ c.dirty = FALSE
  BY ClearFields
<1> HIDE DEF c
<1>3. c = r
  BY <1>1, <1>2, SameRecord
<1>4. r # NoRecord
  BY ConstantsAssumption
<1>5. QED
  BY <1>3, <1>4 DEF c, Settled, IsLive

\* So it is with a cleared record, and with a copy.
LEMMA ClearSettled ==
    ASSUME NEW r \in Record
    PROVE  /\ ClearRecordAttrs(r) # NoRecord /\ IsLive(ClearRecordAttrs(r))
           /\ Settled(ClearRecordAttrs(r)) = ClearRecordAttrs(r)
           /\ Synced(r, r.id) = ClearRecordAttrs(r)
           /\ \A n \in Keys : /\ Synced(r, n) # NoRecord /\ IsLive(Synced(r, n))
                              /\ Settled(Synced(r, n)) = Synced(r, n)
<1> DEFINE c == ClearRecordAttrs(r)
<1>1. /\ c \in Record /\ c.id = r.id /\ c.data = r.data
      /\ c.status = "live" /\ c.dirty = FALSE
  BY ClearFields
<1> HIDE DEF c
<1>2. c # NoRecord /\ IsLive(c) /\ Settled(c) = c
  BY <1>1, CleanSettled
<1>3. ASSUME NEW n \in Keys
      PROVE  /\ Synced(r, n) # NoRecord /\ IsLive(Synced(r, n))
             /\ Settled(Synced(r, n)) = Synced(r, n)
  BY <1>3, SyncedFields, CleanSettled
<1>4. Synced(r, r.id) = c
  <2> DEFINE o == Synced(r, r.id)
  <2>1. r.id \in Keys
    BY DEF Record
  <2>2. /\ o \in Record /\ o.id = r.id /\ o.data = r.data
        /\ o.status = "live" /\ o.dirty = FALSE
    BY <2>1, SyncedFields
  <2> HIDE DEF o
  <2>3. o = c
    BY <1>1, <2>2, SameRecord
  <2>4. QED
    BY <2>3 DEF o
<1>5. QED
  BY <1>2, <1>3, <1>4 DEF c

\* cleanUp of a database, and the two DLP requests of the device's.
LEMMA CleanUpSettles ==
    ASSUME NEW db \in Db
    PROVE  /\ CleanUp(db) = [k \in Keys |-> Settled(db[k])]
           /\ ResetDirty(DropRemoved(db)) = CleanUp(db)
<1>1. ASSUME NEW k \in Keys
      PROVE  ResetDirty(DropRemoved(db))[k] = Settled(db[k])
  <2>1. CASE IsLive(db[k])
    <3>1. db[k] \in Record
      BY <2>1 DEF Db, IsLive
    <3>2. DropRemoved(db)[k] = db[k]
      BY <2>1 DEF DropRemoved, IsLive
    <3>3. ResetDirty(DropRemoved(db))[k] = [db[k] EXCEPT !.dirty = FALSE]
      BY <2>1, <3>2 DEF ResetDirty, IsLive
    <3>4. [db[k] EXCEPT !.dirty = FALSE] = ClearRecordAttrs(db[k])
      <4> DEFINE c == [db[k] EXCEPT !.dirty = FALSE]
                 o == ClearRecordAttrs(db[k])
      <4>1. /\ c \in Record /\ c.id = db[k].id /\ c.data = db[k].data
            /\ c.status = "live" /\ c.dirty = FALSE
        BY <2>1, <3>1 DEF Record, IsLive
      <4>2. /\ o \in Record /\ o.id = db[k].id /\ o.data = db[k].data
            /\ o.status = "live" /\ o.dirty = FALSE
        BY <1>1, <3>1, ClearFields
      <4> HIDE DEF c, o
      <4>3. c = o
        BY <4>1, <4>2, SameRecord
      <4>4. QED
        BY <4>3 DEF c, o
    <3>5. QED
      BY <2>1, <3>3, <3>4 DEF Settled
  <2>2. CASE ~IsLive(db[k])
    <3>1. DropRemoved(db)[k] = NoRecord
      BY <2>2 DEF DropRemoved, IsLive
    <3>2. QED
      BY <2>2, <3>1 DEF ResetDirty, Settled
  <2>3. QED
    BY <2>1, <2>2
<1>2. ResetDirty(DropRemoved(db)) = [k \in Keys |-> ResetDirty(DropRemoved(db))[k]]
  BY DEF ResetDirty
<1>3. QED
  BY <1>1, <1>2 DEF CleanUp

-----------------------------------------------------------------------------
(* Where a plan ends.                                                      *)

\* The two records and the two record objects of key k when its plan for the
\* records d and r has been executed.
Ended(k, p, d, r, dev, desk, dobj, kobj) ==
    \/ /\ p \in {Nothing, KeepDevice, KeepDesktop, KeepBoth}
       /\ dev = d /\ desk = r /\ dobj = d /\ kobj = r
    \/ /\ p = Push
       /\ dev = ClearRecordAttrs(r) /\ desk = r /\ dobj = d /\ kobj = ClearRecordAttrs(r)
    \/ /\ p = Pull
       /\ dev = d /\ desk = ClearRecordAttrs(d) /\ dobj = ClearRecordAttrs(d) /\ kobj = r
    \/ /\ p \in {RemoveDevice, RetireDevice}
       /\ dev = NoRecord /\ desk = r /\ dobj = d /\ kobj = r
    \/ /\ p \in {RemoveDesktop, RetireDesktop}
       /\ dev = d /\ desk = NoRecord /\ dobj = d /\ kobj = r
    \/ /\ p = ForkDevice
       /\ dev = ClearRecordAttrs(r) /\ desk = r
       /\ dobj \in Copies(d, k) /\ kobj = ClearRecordAttrs(r)
    \/ /\ p = ForkDesktop
       /\ dev = d /\ desk = ClearRecordAttrs(d)
       /\ dobj = ClearRecordAttrs(d) /\ kobj \in Copies(r, k)

\* A plan with no action left has come to its end.
LEMMA PlanEnds ==
    ASSUME NEW k, NEW s, NEW d, NEW r, NEW dev, NEW desk, NEW dobj, NEW kobj,
           OnPlan(k, s, d, r, <<{}, dev, desk, dobj, kobj>>)
    PROVE  Ended(k, Row(d, r, s), d, r, dev, desk, dobj, kobj)
<1> DEFINE v == <<{}, dev, desk, dobj, kobj>>
<1>1. \A left, a, b, c, e : v = <<left, a, b, c, e>> =>
          left = {} /\ dev = a /\ desk = b /\ dobj = c /\ kobj = e
  OBVIOUS
<1>2. \A x, y, z : {x} # {} /\ {x, y} # {} /\ {x, y, z} # {}
  OBVIOUS
<1> HIDE DEF v
<1>3. Row(d, r, s) = Nothing /\ v = <<{}, d, r, d, r>> =>
          Ended(k, Row(d, r, s), d, r, dev, desk, dobj, kobj)
  BY <1>1 DEF Ended
<1>4. Row(d, r, s) = Push /\ v \in PushStages(k, d, r) =>
          Ended(k, Row(d, r, s), d, r, dev, desk, dobj, kobj)
  BY <1>1, <1>2 DEF Ended, PushStages
<1>5. Row(d, r, s) = Pull /\ v \in PullStages(k, d, r) =>
          Ended(k, Row(d, r, s), d, r, dev, desk, dobj, kobj)
  BY <1>1, <1>2 DEF Ended, PullStages
<1>6. Row(d, r, s) \in {RemoveDevice, RetireDevice}
        /\ v \in RemoveDeviceStages(k, d, r) \cup RetireDeviceStages(k, d, r) =>
          Ended(k, Row(d, r, s), d, r, dev, desk, dobj, kobj)
  BY <1>1, <1>2 DEF Ended, RemoveDeviceStages, RetireDeviceStages
<1>7. Row(d, r, s) \in {RemoveDesktop, RetireDesktop}
        /\ v \in RemoveDesktopStages(k, d, r) \cup RetireDesktopStages(k, d, r) =>
          Ended(k, Row(d, r, s), d, r, dev, desk, dobj, kobj)
  BY <1>1, <1>2 DEF Ended, RemoveDesktopStages, RetireDesktopStages
<1>8. Row(d, r, s) \in {KeepDevice, KeepDesktop, KeepBoth}
        /\ v \in KeepDeviceStages(k, d, r) \cup KeepDesktopStages(k, d, r)
                    \cup KeepBothStages(k, d, r) =>
          Ended(k, Row(d, r, s), d, r, dev, desk, dobj, kobj)
  BY <1>1 DEF Ended, KeepDeviceStages, KeepDesktopStages, KeepBothStages
<1>9. Row(d, r, s) = ForkDevice /\ v \in ForkDeviceStages(k, d, r) =>
          Ended(k, Row(d, r, s), d, r, dev, desk, dobj, kobj)
  BY <1>1, <1>2 DEF Ended, ForkDeviceStages
<1>10. Row(d, r, s) = ForkDesktop /\ v \in ForkDesktopStages(k, d, r) =>
          Ended(k, Row(d, r, s), d, r, dev, desk, dobj, kobj)
  BY <1>1, <1>2 DEF Ended, ForkDesktopStages
<1>11. QED
  BY <1>3, <1>4, <1>5, <1>6, <1>7, <1>8, <1>9, <1>10 DEF OnPlan, v

\* What the table's list p for two records says of them.
RowFor(p, d, r, s) ==
    LET archived(x) == x # NoRecord /\ x.status = "archived"
        gone(x) == x = NoRecord \/ x.status = "deleted"
        live(x, y) == IsLive(x) /\ (x.dirty \/ (s /\ y # NoRecord))
        clean(x, y) == IsLive(x) /\ IF s /\ y # NoRecord THEN x.data = y.data ELSE ~x.dirty
    IN  /\ p \in {Nothing, Unexpected, Push, Pull, RemoveDevice, RemoveDesktop,
                  KeepDevice, KeepDesktop, KeepBoth, RetireDesktop,
                  RetireDevice, ForkDevice, ForkDesktop}
        /\ p = Nothing =>
              \/ gone(d) /\ gone(r)
              \/ IsLive(d) /\ IsLive(r)
                   /\ IF s THEN d.data = r.data ELSE ~d.dirty /\ ~r.dirty
        /\ p = Unexpected =>
              \/ d = NoRecord /\ r # NoRecord /\ r.status # "deleted" /\ ~r.dirty
              \/ r = NoRecord /\ d # NoRecord /\ d.status # "deleted" /\ ~d.dirty
        /\ p = Push => /\ live(r, d) /\ (archived(d) => ~d.dirty)
                       /\ IsLive(d) => ~s /\ ~d.dirty
        /\ p = Pull => /\ live(d, r) /\ (archived(r) => ~r.dirty)
                       /\ IsLive(r) => ~s /\ ~r.dirty
        /\ p = RemoveDevice => clean(d, r) /\ r # NoRecord /\ r.status = "deleted"
        /\ p = RemoveDesktop => clean(r, d) /\ d # NoRecord /\ d.status = "deleted"
        /\ p = KeepDevice => archived(d) /\ (gone(r) \/ archived(r))
        /\ p = KeepDesktop => archived(r) /\ (gone(d) \/ archived(d))
        /\ p = KeepBoth => archived(d) /\ archived(r)
        /\ p = RetireDesktop => archived(d) /\ clean(r, d)
        /\ p = RetireDevice => archived(r) /\ clean(d, r)
        /\ p = ForkDevice => archived(d) /\ d.dirty /\ live(r, d)
        /\ p = ForkDesktop => live(d, r) /\ (live(r, d) \/ (archived(r) /\ r.dirty))

\* RECORD_SYNC_LOGIC by what the records are.
LEMMA RowCells ==
    ASSUME NEW d \in Record \cup {NoRecord}, NEW r \in Record \cup {NoRecord},
           NEW s \in BOOLEAN
    PROVE  RowFor(Row(d, r, s), d, r, s)
<1> DEFINE ds == RecordState(d, s, r)
           ks == RecordState(r, s, d)
           meaning(x, st, y) ==
               LET compared == s /\ y # NoRecord
               IN  /\ st = "notFound" <=> x = NoRecord
                   /\ st = "archivedChanged" =>
                         x # NoRecord /\ x.status = "archived" /\ x.dirty
                   /\ st = "archivedUnchanged" =>
                         x # NoRecord /\ x.status = "archived" /\ ~x.dirty
                   /\ st = "deleted" => x # NoRecord /\ x.status = "deleted"
                   /\ st = "changed" =>
                         IsLive(x) /\ IF compared THEN x.data # y.data ELSE x.dirty
                   /\ st = "unchanged" =>
                         IsLive(x) /\ IF compared THEN x.data = y.data ELSE ~x.dirty
<1>1. /\ ds \in RecordStates /\ ks \in RecordStates
      /\ meaning(d, ds, r) /\ meaning(r, ks, d)
  BY StateMeaning
<1>2. Row(d, r, s) = RecordSyncLogic[ds][ks]
  BY DEF Row
<1> HIDE DEF ds, ks
<1>3. QED
  BY <1>1, <1>2, Cells DEF RowFor, IsLive, RecordStates

\* Records d and r of key k, each null or under that id.
Pair(k, d, r) ==
    /\ d \in Record \cup {NoRecord} /\ r \in Record \cup {NoRecord}
    /\ d # NoRecord => d.id = k
    /\ r # NoRecord => r.id = k

\* The records of both sides of key k when a fast sync is over.
FastKept(k, p, d, r, dev, desk, dobj, kobj) ==
    /\ Edited(d) /\ Edited(r) /\ (LiveEdit(d) \/ LiveEdit(r)) =>
          \/ /\ Settled(dev) = Synced(r, k) /\ Settled(desk) = Synced(r, k)
             /\ p = ForkDevice /\ dobj \in Copies(d, k)
             /\ kobj.id = k
          \/ /\ Settled(dev) = Synced(d, k) /\ Settled(desk) = Synced(d, k)
             /\ p = ForkDesktop /\ kobj \in Copies(r, k)
             /\ dobj.id = k
    /\ ~(Edited(d) /\ Edited(r) /\ (LiveEdit(d) \/ LiveEdit(r))) =>
          /\ dobj # NoRecord => dobj.id = k
          /\ kobj # NoRecord => kobj.id = k
          /\ LiveEdit(d) =>
                Settled(dev) = Synced(d, k) /\ Settled(desk) = Synced(d, k)
          /\ ~LiveEdit(d) /\ LiveEdit(r) =>
                Settled(dev) = Synced(r, k) /\ Settled(desk) = Synced(r, k)
          /\ ~LiveEdit(d) /\ ~LiveEdit(r) /\ (Modified(d) \/ Modified(r)) =>
                Settled(dev) = NoRecord /\ Settled(desk) = NoRecord

\* Every end of a plan of a fast sync is as it should be.
LEMMA FastEnds ==
    ASSUME NEW k \in Keys, NEW p, NEW d, NEW r, Pair(k, d, r),
           RowFor(p, d, r, FALSE), NEW dev, NEW desk, NEW dobj, NEW kobj,
           Ended(k, p, d, r, dev, desk, dobj, kobj)
    PROVE  FastKept(k, p, d, r, dev, desk, dobj, kobj)
<1> USE DEF FastKept
<1>1. ASSUME NEW x \in Record, x.id = k
      PROVE  /\ ClearRecordAttrs(x) = Synced(x, k)
             /\ Settled(ClearRecordAttrs(x)) = Synced(x, k)
             /\ IsLive(x) => Settled(x) = Synced(x, k)
             /\ ClearRecordAttrs(x).id = k
             /\ x # NoRecord /\ x.dirty \in BOOLEAN
             /\ x.status \in {"live", "deleted", "archived"}
  <2>1. x # NoRecord /\ x.dirty \in BOOLEAN /\ x.status \in {"live", "deleted", "archived"}
    BY <1>1, ConstantsAssumption DEF Record, Statuses
  <2>2. QED
    BY <1>1, <2>1, ClearSettled, ClearFields DEF Settled
<1>2. /\ \A x : Settled(NoRecord) = NoRecord
      /\ \A x : ~IsLive(x) => Settled(x) = NoRecord
  BY DEF Settled, IsLive
<1>3. /\ d = NoRecord \/ (d \in Record /\ d.id = k)
      /\ r = NoRecord \/ (r \in Record /\ r.id = k)
  BY DEF Pair
<1>4. Ended(k, p, d, r, dev, desk, dobj, kobj)
  OBVIOUS
<1>5. CASE p = Push
  <2>1. /\ r \in Record /\ r.id = k /\ LiveEdit(r) /\ IsLive(r) /\ ~Edited(d)
        /\ dev = ClearRecordAttrs(r) /\ desk = r /\ dobj = d
        /\ kobj = ClearRecordAttrs(r)
    BY <1>1, <1>3, <1>4, <1>5, Differ DEF RowFor, Pair, Ended, LiveEdit, IsLive, Edited
  <2>2. ~LiveEdit(d)
    BY <2>1, <1>1, <1>3 DEF LiveEdit, IsLive, Edited
  <2>3. QED
    BY <1>1, <1>3, <2>1, <2>2
<1>6. CASE p = Pull
  <2>1. /\ d \in Record /\ d.id = k /\ LiveEdit(d) /\ IsLive(d) /\ ~Edited(r)
        /\ dev = d /\ desk = ClearRecordAttrs(d) /\ dobj = ClearRecordAttrs(d)
        /\ kobj = r
    BY <1>1, <1>3, <1>4, <1>6, Differ DEF RowFor, Pair, Ended, LiveEdit, IsLive, Edited
  <2>2. QED
    BY <1>1, <1>3, <2>1
<1>7. CASE p \in {Nothing, RemoveDevice, RemoveDesktop, KeepDevice, KeepDesktop,
                  KeepBoth, RetireDesktop, RetireDevice}
  <2>1. /\ ~LiveEdit(d) /\ ~LiveEdit(r) /\ dobj = d /\ kobj = r
        /\ Modified(d) \/ Modified(r) => ~IsLive(dev) /\ ~IsLive(desk)
    <3>1. CASE p = Nothing
      <4>1. dev = d /\ desk = r /\ dobj = d /\ kobj = r
        BY <1>4, <3>1, Differ DEF Ended
      <4>2. \/ ~IsLive(d) /\ ~IsLive(r)
            \/ IsLive(d) /\ IsLive(r) /\ ~d.dirty /\ ~r.dirty
        BY <3>1, <1>3 DEF RowFor, IsLive
      <4>3. QED
        BY <4>1, <4>2 DEF LiveEdit, IsLive, Modified
    <3>2. CASE p \in {KeepDevice, KeepDesktop, KeepBoth}
      <4>1. dev = d /\ desk = r /\ dobj = d /\ kobj = r
        BY <1>4, <3>2, Differ DEF Ended
      <4>2. ~IsLive(d) /\ ~IsLive(r)
        BY <3>2, <1>3 DEF RowFor, IsLive
      <4>3. QED
        BY <4>1, <4>2 DEF LiveEdit
    <3>3. CASE p \in {RemoveDevice, RetireDevice}
      <4>1. dev = NoRecord /\ desk = r /\ dobj = d /\ kobj = r
        BY <1>4, <3>3, Differ DEF Ended
      <4>2. IsLive(d) /\ ~d.dirty /\ ~IsLive(r)
        BY <3>3, <1>3 DEF RowFor, IsLive
      <4>3. QED
        BY <4>1, <4>2 DEF LiveEdit, IsLive
    <3>4. CASE p \in {RemoveDesktop, RetireDesktop}
      <4>1. dev = d /\ desk = NoRecord /\ dobj = d /\ kobj = r
        BY <1>4, <3>4, Differ DEF Ended
      <4>2. IsLive(r) /\ ~r.dirty /\ ~IsLive(d)
        BY <3>4, <1>3 DEF RowFor, IsLive
      <4>3. QED
        BY <4>1, <4>2 DEF LiveEdit, IsLive
    <3>5. QED
      BY <1>7, <3>1, <3>2, <3>3, <3>4
  <2>2. QED
    BY <1>2, <1>3, <2>1
<1>8. CASE p = ForkDevice
  <2>1. /\ r \in Record /\ r.id = k /\ LiveEdit(r) /\ IsLive(r) /\ Edited(d)
        /\ dev = ClearRecordAttrs(r) /\ desk = r /\ dobj \in Copies(d, k)
        /\ kobj = ClearRecordAttrs(r)
    BY <1>1, <1>3, <1>4, <1>8, Differ DEF RowFor, Pair, Ended, LiveEdit, IsLive, Edited
  <2>2. Edited(r)
    BY <2>1 DEF LiveEdit, IsLive, Edited
  <2>3. QED
    BY <1>1, <1>3, <1>8, <2>1, <2>2
<1>9. CASE p = ForkDesktop
  <2>1. /\ d \in Record /\ d.id = k /\ LiveEdit(d) /\ IsLive(d) /\ Edited(r)
        /\ dev = d /\ desk = ClearRecordAttrs(d) /\ dobj = ClearRecordAttrs(d)
        /\ kobj \in Copies(r, k)
    BY <1>1, <1>3, <1>4, <1>9, Differ DEF RowFor, Pair, Ended, LiveEdit, IsLive, Edited
  <2>2. Edited(d)
    BY <2>1 DEF LiveEdit, IsLive, Edited
  <2>3. QED
    BY <1>1, <1>3, <1>9, <2>1, <2>2
<1>10. QED
  BY <1>4, <1>5, <1>6, <1>7, <1>8, <1>9 DEF Ended

\* The records of both sides of key k when a slow sync is over: the desktop
\* has what the device has, and of two versions that differ both are kept.
SlowKept(k, d, r, dev, desk, kobj) ==
    /\ Settled(dev) # NoRecord => Settled(desk) = Settled(dev)
    /\ d # NoRecord /\ (r = NoRecord \/ d.data # r.data) =>
          /\ LiveEdit(d) => IsLive(Settled(dev)) /\ Settled(dev).data = d.data
          /\ LiveEdit(r) =>
                \/ IsLive(Settled(dev)) /\ Settled(dev).data = r.data
                \/ kobj \in Copies(r, k)

\* Every end of a plan of a slow sync is as it should be.
LEMMA SlowEnds ==
    ASSUME NEW k \in Keys, NEW p, NEW d, NEW r, Pair(k, d, r),
           RowFor(p, d, r, TRUE), NEW dev, NEW desk, NEW dobj, NEW kobj,
           Ended(k, p, d, r, dev, desk, dobj, kobj)
    PROVE  SlowKept(k, d, r, dev, desk, kobj)
<1> USE DEF SlowKept
<1>1. ASSUME NEW x \in Record, x.id = k
      PROVE  /\ IsLive(ClearRecordAttrs(x)) /\ ClearRecordAttrs(x).data = x.data
             /\ Settled(ClearRecordAttrs(x)) = ClearRecordAttrs(x)
             /\ IsLive(x) => Settled(x) = ClearRecordAttrs(x)
             /\ x # NoRecord /\ x.dirty \in BOOLEAN
             /\ x.status \in {"live", "deleted", "archived"}
  <2>1. x # NoRecord /\ x.dirty \in BOOLEAN /\ x.status \in {"live", "deleted", "archived"}
    BY <1>1, ConstantsAssumption DEF Record, Statuses
  <2>2. QED
    BY <1>1, <2>1, ClearSettled, ClearFields DEF Settled
<1>2. \A x : ~IsLive(x) => Settled(x) = NoRecord
  BY DEF Settled
<1>3. /\ d = NoRecord \/ (d \in Record /\ d.id = k)
      /\ r = NoRecord \/ (r \in Record /\ r.id = k)
      /\ ~IsLive(NoRecord)
  BY DEF Pair, IsLive
<1>4. Ended(k, p, d, r, dev, desk, dobj, kobj)
  OBVIOUS
<1>5. CASE p = Push
  <2>1. /\ r \in Record /\ r.id = k /\ IsLive(r) /\ ~LiveEdit(d)
        /\ dev = ClearRecordAttrs(r) /\ desk = r
    BY <1>1, <1>3, <1>4, <1>5, Differ DEF RowFor, Pair, Ended, LiveEdit, IsLive
  <2>2. QED
    BY <1>1, <1>3, <2>1
<1>6. CASE p = Pull
  <2>1. /\ d \in Record /\ d.id = k /\ IsLive(d) /\ ~LiveEdit(r)
        /\ dev = d /\ desk = ClearRecordAttrs(d)
    BY <1>1, <1>3, <1>4, <1>6, Differ DEF RowFor, Pair, Ended, LiveEdit, IsLive
  <2>2. QED
    BY <1>1, <1>3, <2>1
<1>7. CASE p \in {RemoveDevice, RemoveDesktop, KeepDevice, KeepDesktop,
                  KeepBoth, RetireDesktop, RetireDevice}
  <2>1. /\ ~IsLive(dev)
        /\ ~LiveEdit(d) \/ (r # NoRecord /\ d.data = r.data)
        /\ d # NoRecord => ~LiveEdit(r) \/ (r # NoRecord /\ d.data = r.data)
    <3>1. CASE p \in {KeepDevice, KeepDesktop, KeepBoth}
      <4>1. dev = d
        BY <1>4, <3>1, Differ DEF Ended
      <4>2. ~IsLive(d) /\ ~IsLive(r)
        BY <3>1, <1>3 DEF RowFor, IsLive
      <4>3. QED
        BY <4>1, <4>2 DEF LiveEdit
    <3>2. CASE p \in {RemoveDevice, RetireDevice}
      <4>1. dev = NoRecord
        BY <1>4, <3>2, Differ DEF Ended
      <4>2. ~IsLive(r) /\ r # NoRecord /\ d.data = r.data
        BY <3>2, <1>3 DEF RowFor, IsLive
      <4>3. QED
        BY <4>1, <4>2, <1>3 DEF LiveEdit
    <3>3. CASE p \in {RemoveDesktop, RetireDesktop}
      <4>1. dev = d
        BY <1>4, <3>3, Differ DEF Ended
      <4>2. ~IsLive(d) /\ r # NoRecord /\ (d # NoRecord => r.data = d.data)
        BY <3>3, <1>3 DEF RowFor, IsLive
      <4>3. QED
        BY <4>1, <4>2 DEF LiveEdit
    <3>4. QED
      BY <1>7, <3>1, <3>2, <3>3
  <2>2. QED
    BY <1>2, <1>3, <2>1 DEF LiveEdit, IsLive
<1>8. CASE p = ForkDevice
  <2>1. /\ r \in Record /\ r.id = k /\ IsLive(r) /\ ~LiveEdit(d)
        /\ dev = ClearRecordAttrs(r) /\ desk = r
    BY <1>1, <1>3, <1>4, <1>8, Differ DEF RowFor, Pair, Ended, LiveEdit, IsLive
  <2>2. QED
    BY <1>1, <1>3, <2>1
<1>9. CASE p = ForkDesktop
  <2>1. /\ d \in Record /\ d.id = k /\ IsLive(d) /\ kobj \in Copies(r, k)
        /\ dev = d /\ desk = ClearRecordAttrs(d)
    BY <1>1, <1>3, <1>4, <1>9, Differ DEF RowFor, Pair, Ended, LiveEdit, IsLive
  <2>2. QED
    BY <1>1, <1>3, <2>1
<1>10. CASE p = Nothing
  <2>1. dev = d /\ desk = r
    BY <1>4, <1>10, Differ DEF Ended
  <2>2. \/ ~IsLive(d) /\ ~IsLive(r)
        \/ IsLive(d) /\ IsLive(r) /\ d.data = r.data
    BY <1>10, <1>3 DEF RowFor, IsLive
  <2>3. IsLive(d) /\ IsLive(r) => Settled(d) = Settled(r)
    <3> SUFFICES ASSUME IsLive(d), IsLive(r) PROVE Settled(d) = Settled(r)
      OBVIOUS
    <3> DEFINE x == ClearRecordAttrs(d)
               y == ClearRecordAttrs(r)
    <3>1. /\ x \in Record /\ y \in Record /\ x.id = y.id /\ x.data = y.data
          /\ x.status = y.status /\ x.dirty = y.dirty
      BY <1>3, <2>2, ClearFields
    <3> HIDE DEF x, y
    <3>2. x = y
      BY <3>1, SameRecord
    <3>3. QED
      BY <3>2 DEF x, y, Settled
  <2>4. QED
    BY <1>2, <1>3, <2>1, <2>2, <2>3 DEF LiveEdit, IsLive
<1>11. QED
  BY <1>4, <1>5, <1>6, <1>7, <1>8, <1>9, <1>10 DEF Ended

-----------------------------------------------------------------------------
(* The list of actions, seen from one key.                                 *)

\* The actions a list of the table makes for key k.
Acts(p, k) == {To(p[n].type, p[n].side, k) : n \in DOMAIN p}

\* The order of the actions that occur.
LEMMA Ranks ==
    ASSUME NEW k
    PROVE  /\ Rank(To("ARCHIVE", "device", k)) = 0
           /\ Rank(To("ARCHIVE", "desktop", k)) = 1
           /\ Rank(To("DELETE_ON_DEVICE", "device", k)) = 2
           /\ Rank(To("DELETE_ON_DESKTOP", "desktop", k)) = 2
           /\ Rank(To("ADD_ON_DEVICE_WITH_NEW_ID", "device", k)) = 3
           /\ Rank(To("ADD_ON_DEVICE_WITH_NEW_ID", "desktop", k)) = 3
           /\ Rank(To("ADD_ON_DEVICE", "desktop", k)) = 4
           /\ Rank(To("ADD_ON_DESKTOP", "desktop", k)) = 5
           /\ Rank(To("ADD_ON_DESKTOP", "device", k)) = 6
BY DEF Rank, To

\* The table has the actions of each list in that order.
LEMMA PlansOrdered ==
    ASSUME NEW k,
           NEW p \in {Nothing, Push, Pull, RemoveDevice, RemoveDesktop, KeepDevice,
                      KeepDesktop, KeepBoth, RetireDesktop, RetireDevice, ForkDevice,
                      ForkDesktop},
           NEW m \in DOMAIN p, NEW n \in DOMAIN p, m < n
    PROVE  Rank(To(p[m].type, p[m].side, k)) < Rank(To(p[n].type, p[n].side, k))
<1>1. p \in Seq(Entry)
  BY ListsTyped
<1>2. m \in 1 .. Len(p) /\ n \in 1 .. Len(p) /\ Len(p) \in Nat
  BY <1>1
<1>3. p \in {KeepBoth, RetireDesktop, RetireDevice, ForkDevice, ForkDesktop}
  <2>1. Len(p) > 1
    BY <1>2
  <2>2. QED
    BY <2>1, ListHeads
<1>4. CASE p \in {KeepBoth, RetireDesktop, RetireDevice}
  <2>1. Len(p) = 2
    BY <1>4, ListHeads
  <2>2. m = 1 /\ n = 2
    BY <1>2, <2>1
  <2>3. QED
    BY <1>4, <2>2, ListHeads, Ranks DEF Device, Desktop
<1>5. CASE p \in {ForkDevice, ForkDesktop}
  <2>1. Len(p) = 3
    BY <1>5, ListHeads
  <2>2. (m = 1 /\ n = 2) \/ (m = 1 /\ n = 3) \/ (m = 2 /\ n = 3)
    BY <1>2, <2>1
  <2>3. QED
    BY <1>5, <2>2, ListHeads, Ranks DEF Device, Desktop
<1>6. QED
  BY <1>3, <1>4, <1>5

\* A plan starts with all of its actions.
LEMMA PlanStarts ==
    ASSUME NEW k, NEW s, NEW d, NEW r, RowFor(Row(d, r, s), d, r, s),
           Row(d, r, s) # Unexpected
    PROVE  OnPlan(k, s, d, r, <<Acts(Row(d, r, s), k), d, r, d, r>>)
<1> DEFINE p == Row(d, r, s)
<1>1. p \in {Nothing, Push, Pull, RemoveDevice, RemoveDesktop, KeepDevice,
             KeepDesktop, KeepBoth, RetireDesktop, RetireDevice, ForkDevice,
             ForkDesktop}
  BY DEF RowFor
<1> HIDE DEF p
<1>2. /\ DOMAIN p = 1 .. Len(p)
      /\ Acts(p, k) = {To(p[n].type, p[n].side, k) : n \in 1 .. Len(p)}
  <2>1. p \in Seq(Entry)
    BY <1>1, ListsTyped
  <2>2. QED
    BY <2>1 DEF Acts
<1>3. 1 .. 0 = {} /\ 1 .. 1 = {1} /\ 1 .. 2 = {1, 2} /\ 1 .. 3 = {1, 2, 3}
  OBVIOUS
<1>4. \A t : /\ Device(t).type = t /\ Device(t).side = "device"
             /\ Desktop(t).type = t /\ Desktop(t).side = "desktop"
  BY DEF Device, Desktop
<1>5. /\ Len(p) = 0 => Acts(p, k) = {}
      /\ Len(p) = 1 => Acts(p, k) = {To(p[1].type, p[1].side, k)}
      /\ Len(p) = 2 => Acts(p, k) = {To(p[1].type, p[1].side, k),
                                    To(p[2].type, p[2].side, k)}
      /\ Len(p) = 3 => Acts(p, k) = {To(p[1].type, p[1].side, k),
                                    To(p[2].type, p[2].side, k),
                                    To(p[3].type, p[3].side, k)}
  BY <1>2, <1>3
<1>6. /\ p = Nothing => Acts(p, k) = {}
      /\ p = Push => Acts(p, k) = {To("ADD_ON_DEVICE", "desktop", k)}
      /\ p = Pull => Acts(p, k) = {To("ADD_ON_DESKTOP", "device", k)}
      /\ p = RemoveDevice => Acts(p, k) = {To("DELETE_ON_DEVICE", "device", k)}
      /\ p = RemoveDesktop => Acts(p, k) = {To("DELETE_ON_DESKTOP", "desktop", k)}
      /\ p = KeepDevice => Acts(p, k) = {To("ARCHIVE", "device", k)}
      /\ p = KeepDesktop => Acts(p, k) = {To("ARCHIVE", "desktop", k)}
  BY <1>4, <1>5, ListHeads
<1>7. /\ p = KeepBoth =>
            Acts(p, k) = {To("ARCHIVE", "device", k), To("ARCHIVE", "desktop", k)}
      /\ p = RetireDesktop =>
            Acts(p, k) = {To("ARCHIVE", "device", k), To("DELETE_ON_DESKTOP", "desktop", k)}
      /\ p = RetireDevice =>
            Acts(p, k) = {To("ARCHIVE", "desktop", k), To("DELETE_ON_DEVICE", "device", k)}
  BY <1>4, <1>5, ListHeads
<1>8. /\ p = ForkDevice =>
            Acts(p, k) = {To("ADD_ON_DEVICE_WITH_NEW_ID", "device", k),
                          To("ADD_ON_DEVICE", "desktop", k),
                          To("ADD_ON_DESKTOP", "device", k)}
      /\ p = ForkDesktop =>
            Acts(p, k) = {To("ADD_ON_DEVICE_WITH_NEW_ID", "desktop", k),
                          To("ADD_ON_DESKTOP", "desktop", k),
                          To("ADD_ON_DESKTOP", "device", k)}
  BY <1>4, <1>5, ListHeads
<1>9. QED
  BY <1>1, <1>6, <1>7, <1>8
     DEF OnPlan, PushStages, PullStages, RemoveDeviceStages, RemoveDesktopStages,
         KeepDeviceStages, KeepDesktopStages, KeepBothStages, RetireDesktopStages,
         RetireDeviceStages, ForkDeviceStages, ForkDesktopStages, p

\* Planning key k adds its plan to what is left for it, and to no other key's.
LEMMA LeftAppended ==
    ASSUME NEW k, actions \in Seq(RecordAction), NEW plan \in Seq(RecordAction),
           \A n \in DOMAIN plan : plan[n].key = k,
           actions' = actions \o plan
    PROVE  /\ Left(k)' = Left(k) \cup {plan[n] : n \in DOMAIN plan}
           /\ \A j : j # k => Left(j)' = Left(j)
<1>1. /\ actions' \in Seq(RecordAction)
      /\ Len(actions') = Len(actions) + Len(plan)
      /\ \A i \in 1 .. Len(actions) + Len(plan) :
            actions'[i] = IF i <= Len(actions) THEN actions[i]
                          ELSE plan[i - Len(actions)]
  BY ConcatProperties
<1>2. /\ DOMAIN actions' = 1 .. Len(actions) + Len(plan)
      /\ DOMAIN actions = 1 .. Len(actions) /\ DOMAIN plan = 1 .. Len(plan)
      /\ Len(actions) \in Nat /\ Len(plan) \in Nat
  BY <1>1
<1>3. \A a, j : a \in Left(j) <=>
          a.key = j /\ \E n \in DOMAIN actions : a = actions[n]
  BY DEF Left
<1>4. \A a, j : a \in Left(j)' <=>
          a.key = j /\ \E n \in DOMAIN actions' : a = actions'[n]
  BY DEF Left
<1>5. \A a : (\E n \in DOMAIN actions' : a = actions'[n]) <=>
          \/ \E n \in DOMAIN actions : a = actions[n]
          \/ \E n \in DOMAIN plan : a = plan[n]
  <2>1. ASSUME NEW n \in DOMAIN actions
        PROVE  n \in DOMAIN actions' /\ actions'[n] = actions[n]
    BY <1>1, <1>2, <2>1
  <2>2. ASSUME NEW n \in DOMAIN plan
        PROVE  /\ n + Len(actions) \in DOMAIN actions'
               /\ actions'[n + Len(actions)] = plan[n]
    BY <1>1, <1>2, <2>2
  <2>3. ASSUME NEW n \in DOMAIN actions'
        PROVE  \/ n \in DOMAIN actions /\ actions'[n] = actions[n]
               \/ /\ n - Len(actions) \in DOMAIN plan
                  /\ actions'[n] = plan[n - Len(actions)]
    BY <1>1, <1>2, <2>3
  <2>4. ASSUME NEW a, NEW n \in DOMAIN actions', a = actions'[n]
        PROVE  \/ \E i \in DOMAIN actions : a = actions[i]
               \/ \E i \in DOMAIN plan : a = plan[i]
    BY <2>3, <2>4
  <2>5. ASSUME NEW a, NEW n \in DOMAIN actions, a = actions[n]
        PROVE  \E i \in DOMAIN actions' : a = actions'[i]
    BY <2>1, <2>5
  <2>6. ASSUME NEW a, NEW n \in DOMAIN plan, a = plan[n]
        PROVE  \E i \in DOMAIN actions' : a = actions'[i]
    BY <2>2, <2>6
  <2>7. QED
    BY <2>4, <2>5, <2>6
<1>6. \A a : (\E n \in DOMAIN plan : a = plan[n]) => a.key = k
  OBVIOUS
<1>7. ASSUME NEW j, NEW a
      PROVE  a \in Left(j)' <=>
               a \in Left(j) \/ (j = k /\ \E n \in DOMAIN plan : a = plan[n])
  <2>1. a \in Left(j)' <=> a.key = j /\ \E n \in DOMAIN actions' : a = actions'[n]
    BY <1>4
  <2>2. a \in Left(j) <=> a.key = j /\ \E n \in DOMAIN actions : a = actions[n]
    BY <1>3
  <2>3. (\E n \in DOMAIN actions' : a = actions'[n]) <=>
            \/ \E n \in DOMAIN actions : a = actions[n]
            \/ \E n \in DOMAIN plan : a = plan[n]
    BY <1>5
  <2>4. (\E n \in DOMAIN plan : a = plan[n]) => a.key = k
    BY <1>6
  <2> HIDE <1>1, <1>2, <1>3, <1>4, <1>5, <1>6
  <2>5. QED
    BY <2>1, <2>2, <2>3, <2>4, Zenon
<1>8. \A j : j # k => Left(j)' = Left(j)
  <2>1. ASSUME NEW j, j # k
        PROVE  \A a : a \in Left(j)' <=> a \in Left(j)
    BY <1>7, <2>1
  <2>2. QED
    BY <2>1 DEF Left
<1>9. Left(k)' = Left(k) \cup {plan[n] : n \in DOMAIN plan}
  <2>1. \A a : a \in Left(k)' <=> a \in Left(k) \cup {plan[n] : n \in DOMAIN plan}
    BY <1>7
  <2>2. QED
    BY <2>1 DEF Left
<1>10. QED
  BY <1>8, <1>9

\* The first action of the list is the first of its key, and executing it
\* leaves the others.
LEMMA HeadFirst ==
    ASSUME actions \in Seq(RecordAction), actions # <<>>, Ordered,
           NEW a, a = Head(actions), NEW k, k = a.key
    PROVE  /\ a \in RecordAction /\ a \in Left(k)
           /\ \A b \in Left(k) : b # a => Rank(a) < Rank(b)
           /\ actions' = Tail(actions) =>
                 /\ Left(k)' = Left(k) \ {a}
                 /\ \A j : j # k => Left(j)' = Left(j)
                 /\ Ordered'
<1>1. /\ a \in RecordAction /\ a = actions[1] /\ 1 \in DOMAIN actions
      /\ DOMAIN actions = 1 .. Len(actions) /\ Len(actions) \in Nat
  OBVIOUS
<1>2. \A b, j : b \in Left(j) <=>
          b.key = j /\ \E n \in DOMAIN actions : b = actions[n]
  BY DEF Left
<1>3. a \in Left(k)
  BY <1>1, <1>2
<1>4. \A n \in DOMAIN actions : n # 1 /\ actions[n].key = k => Rank(a) < Rank(actions[n])
  BY <1>1 DEF Ordered
<1>5. \A b \in Left(k) : b # a => Rank(a) < Rank(b)
  BY <1>1, <1>2, <1>4
<1>6. ASSUME actions' = Tail(actions)
      PROVE  /\ Left(k)' = Left(k) \ {a}
             /\ \A j : j # k => Left(j)' = Left(j)
             /\ Ordered'
  <2>1. /\ DOMAIN actions' = 1 .. Len(actions) - 1
        /\ \A n \in DOMAIN actions' : actions'[n] = actions[n + 1]
    BY <1>6, <1>1, HeadTailProperties
  <2>2. \A b, j : b \in Left(j)' <=>
            b.key = j /\ \E n \in DOMAIN actions' : b = actions'[n]
    BY DEF Left
  <2>3. \A n \in DOMAIN actions' : n + 1 \in DOMAIN actions /\ n + 1 # 1
    BY <1>1, <2>1
  <2>4. \A n \in DOMAIN actions : n # 1 =>
            n - 1 \in DOMAIN actions' /\ actions'[n - 1] = actions[n]
    BY <1>1, <2>1
  <2>5. \A b : (\E n \in DOMAIN actions' : b = actions'[n]) <=>
            \E n \in DOMAIN actions : n # 1 /\ b = actions[n]
    BY <2>1, <2>3, <2>4
  <2>6. \A n \in DOMAIN actions : n # 1 /\ actions[n].key = k => actions[n] # a
    <3>1. Rank(a) \in Nat
      BY DEF Rank
    <3>2. QED
      BY <1>4, <3>1
  <2>7. /\ Left(k)' = Left(k) \ {a}
        /\ \A j : j # k => Left(j)' = Left(j)
    <3>1. ASSUME NEW b
          PROVE  b \in Left(k)' <=> b \in Left(k) \ {a}
      <4>1. b \in Left(k)' <=> b.key = k /\ \E n \in DOMAIN actions : n # 1 /\ b = actions[n]
        BY <2>2, <2>5
      <4>2. b \in Left(k) <=> b.key = k /\ \E n \in DOMAIN actions : b = actions[n]
        BY <1>2
      <4>3. b # a => ((\E n \in DOMAIN actions : b = actions[n]) <=>
                        \E n \in DOMAIN actions : n # 1 /\ b = actions[n])
        BY <1>1
      <4>4. b = a => ~(b.key = k /\ \E n \in DOMAIN actions : n # 1 /\ b = actions[n])
        BY <2>6
      <4>5. QED
        BY <4>1, <4>2, <4>3, <4>4
    <3>2. ASSUME NEW j, j # k
          PROVE  \A b : b \in Left(j)' <=> b \in Left(j)
      BY <1>1, <1>2, <2>2, <2>5, <3>2
    <3>3. QED
      BY <3>1, <3>2 DEF Left
  <2>8. Ordered'
    <3>1. ASSUME NEW m \in DOMAIN actions', NEW n \in DOMAIN actions', m < n,
                 actions'[m].key = actions'[n].key
          PROVE  Rank(actions'[m]) < Rank(actions'[n])
      <4>1. m \in Nat /\ n \in Nat
        BY <1>1, <2>1, <3>1
      <4>2. m + 1 < n + 1
        BY <3>1, <4>1
      <4>3. QED
        BY <2>1, <2>3, <3>1, <4>2 DEF Ordered
    <3>2. QED
      BY <3>1 DEF Ordered, Rank
  <2>9. QED
    BY <2>7, <2>8
<1>7. QED
  BY <1>1, <1>3, <1>5, <1>6

-----------------------------------------------------------------------------
(* What the steps for one key leave of the others.                         *)

\* No two keys' objects carry one id.
LEMMA Apart ==
    ObjectsDistinct <=>
        \A j, k \in Keys : j # k => \A n : ~(HasId(j, n) /\ HasId(k, n))
BY DEF ObjectsDistinct, HasId

\* A key that was read had a record on one side.
LEMMA ReadHadRecord ==
    ASSUME Visiting, NEW k \in Keys, Read(k)
    PROVE  startDevice[k] # NoRecord \/ file[k] # NoRecord
BY DEF Visiting, Due, IdsToRead

\* An action of key k writes at most the record n, its own or a new one, and no
\* object but those of k.
Local(k, n) ==
    /\ UNCHANGED <<file, slow, startDevice>>
    /\ \A j \in Keys \ {n} : device'[j] = device[j] /\ desktop'[j] = desktop[j]
    /\ \A j \in Keys \ {k} :
          devObj'[j] = devObj[j] /\ deskObj'[j] = deskObj[j] /\ Left(j)' = Left(j)
    /\ Read(k) /\ Read(k)'
    /\ n = k \/ (startDevice[n] = NoRecord /\ file[n] = NoRecord /\ HasId(k, n)')
    /\ \A j \in Keys \ {k} : ~HasId(j, n)
    /\ \A m : HasId(k, m)' => HasId(k, m) \/ m = n
    /\ \A m : m # k /\ HasId(k, m) => HasId(k, m)'

\* Such a step leaves every other key where it is.
LEMMA Elsewhere ==
    ASSUME IInv, Visiting, ObjectsDistinct, \A j \in Keys : KeyOK(j),
           NEW k \in Keys, NEW n \in Keys, Local(k, n)
    PROVE  /\ ObjectsDistinct'
           /\ \A j \in Keys : Read(j)' <=> Read(j)
           /\ \A j \in Keys \ {k} : KeyOK(j)'
<1>1. \A j \in Keys \ {k} : \A m : HasId(j, m)' <=> HasId(j, m)
  BY DEF Local, HasId
<1>2. ObjectsDistinct'
  <2>1. \A i, j \in Keys : i # j => \A m : ~(HasId(i, m) /\ HasId(j, m))
    BY Apart
  <2>2. ASSUME NEW i \in Keys, NEW j \in Keys, i # j, NEW m, HasId(i, m)', HasId(j, m)'
        PROVE  FALSE
    <3>1. CASE i # k /\ j # k
      BY <1>1, <2>1, <2>2, <3>1
    <3>2. ASSUME NEW x \in Keys \ {k}, HasId(x, m)', HasId(k, m)' PROVE FALSE
      BY <1>1, <2>1, <3>2 DEF Local
    <3>3. QED
      BY <2>2, <3>1, <3>2
  <2>3. QED
    BY <2>2 DEF ObjectsDistinct, HasId
<1>3. \A j \in Keys : Read(j)' <=> Read(j)
  BY DEF Local, Read
<1>4. ASSUME NEW j \in Keys \ {k}
      PROVE  KeyOK(j)'
  <2>1. KeyOK(j)
    OBVIOUS
  <2>2. /\ file' = file /\ slow' = slow /\ startDevice' = startDevice
        /\ devObj'[j] = devObj[j] /\ deskObj'[j] = deskObj[j] /\ Left(j)' = Left(j)
    BY <1>4 DEF Local
  <2>3. CASE Read(j)
    <3>1. j # n
      BY <1>4, <2>3, ReadHadRecord DEF Local
    <3>2. View(j)' = View(j)
      BY <1>4, <2>2, <3>1 DEF Local, View
    <3>3. OnPlan(j, slow, startDevice[j], file[j], View(j))'
      BY <2>1, <2>2, <2>3, <3>2 DEF KeyOK
    <3>4. ASSUME NEW o \in {devObj[j], deskObj[j]}, NEW side,
                 CopyOK(j, o, side)
          PROVE  CopyOK(j, o, side)'
      <4>1. o # NoRecord => o.id \in Keys /\ o.id # n
        BY <1>4, <3>4 DEF Local, HasId, IInv, TypeOK, Db, Record
      <4>2. QED
        BY <2>2, <3>4, <4>1 DEF CopyOK, Local
    <3>5. QED
      BY <1>3, <1>4, <2>1, <2>2, <2>3, <3>3, <3>4 DEF KeyOK
  <2>4. CASE ~Read(j)
    <3>1. ~Read(j)' /\ Left(j)' = {}
      BY <1>3, <1>4, <2>1, <2>2, <2>4 DEF KeyOK
    <3>2. CASE device[j] = startDevice[j] /\ desktop[j] = file[j] /\ j # n
      BY <1>4, <2>2, <3>1, <3>2 DEF KeyOK, Local
    <3>3. CASE j = n
      <4>1. HasId(k, j)'
        BY <1>4, <3>3 DEF Local
      <4>2. QED
        BY <1>4, <3>1, <4>1 DEF KeyOK
    <3>4. CASE \E i \in Keys \ {j} : HasId(i, j)
      <4>1. PICK i \in Keys \ {j} : HasId(i, j)
        BY <3>4
      <4>2. HasId(i, j)'
        BY <1>1, <1>4, <4>1 DEF Local
      <4>3. QED
        BY <3>1, <4>1, <4>2 DEF KeyOK
    <3>5. QED
      BY <2>1, <2>4, <3>2, <3>3, <3>4 DEF KeyOK
  <2>5. QED
    BY <2>3, <2>4
<1>5. QED
  BY <1>2, <1>3, <1>4

\* The two records a sync finds under a key, and what their row says of them.
LEMMA Pairs ==
    ASSUME IInv, NEW k \in Keys
    PROVE  /\ Pair(k, startDevice[k], file[k])
           /\ RowFor(Row(startDevice[k], file[k], slow), startDevice[k], file[k], slow)
BY RowCells DEF IInv, TypeOK, Db, Keyed, Pair

\* While its plan is executed, a record only the device has stays there.
LEMMA LoneRecordStays ==
    ASSUME NEW k, NEW s, NEW d, d # NoRecord, RowFor(Row(d, NoRecord, s), d, NoRecord, s),
           NEW left, NEW dev, NEW desk, NEW dobj, NEW kobj,
           OnPlan(k, s, d, NoRecord, <<left, dev, desk, dobj, kobj>>)
    PROVE  dev = d
<1> DEFINE v == <<left, dev, desk, dobj, kobj>>
           p == Row(d, NoRecord, s)
<1>1. \A x, a, b, c, e : v = <<x, a, b, c, e>> => dev = a
  OBVIOUS
<1>2. p \notin {Push, RemoveDevice, RemoveDesktop, KeepDesktop, KeepBoth,
                RetireDesktop, RetireDevice, ForkDevice, ForkDesktop}
  BY DEF RowFor, IsLive
<1>3. \/ v = <<{}, d, NoRecord, d, NoRecord>>
      \/ v \in PullStages(k, d, NoRecord)
      \/ v \in KeepDeviceStages(k, d, NoRecord)
  BY <1>2 DEF OnPlan
<1> HIDE DEF v
<1>4. QED
  BY <1>1, <1>3 DEF PullStages, KeepDeviceStages

\* An id the device hands out during a sync was used on no side, and by no
\* record object.
LEMMA FreshIsNew ==
    ASSUME IInv, Visiting, \A j \in Keys : KeyOK(j), NEW n \in FreshIds
    PROVE  /\ n \in Ids /\ n \in Keys
           /\ startDevice[n] = NoRecord /\ file[n] = NoRecord
           /\ device[n] = NoRecord /\ desktop[n] = NoRecord
           /\ ~Read(n)
           /\ \A j \in Keys : ~HasId(j, n)
<1>1. /\ n \in Ids /\ n \in Keys
      /\ file[n] = NoRecord /\ device[n] = NoRecord /\ desktop[n] = NoRecord
  BY DEF FreshIds, Keys
<1>2. ~Read(n)
  <2> SUFFICES ASSUME Read(n) PROVE FALSE
    OBVIOUS
  <2>1. startDevice[n] # NoRecord
    BY <1>1, ReadHadRecord
  <2>2. OnPlan(n, slow, startDevice[n], NoRecord, View(n))
    BY <1>1 DEF KeyOK
  <2>3. device[n] = startDevice[n]
    BY <1>1, <2>1, <2>2, Pairs, LoneRecordStays DEF View
  <2>4. QED
    BY <1>1, <2>1, <2>3
<1>3. ASSUME NEW j \in Keys, HasId(j, n)
      PROVE  FALSE
  <2>1. Read(j) /\ j # n
    BY <1>2, <1>3 DEF Read, HasId
  <2>2. CopyOK(j, devObj[j], "device") /\ CopyOK(j, deskObj[j], "desktop")
    BY <2>1 DEF KeyOK
  <2>3. device[n] # NoRecord
    BY <1>3, <2>1, <2>2 DEF CopyOK, HasId
  <2>4. QED
    BY <1>1, <2>3
<1>4. startDevice[n] = NoRecord
  BY <1>1, <1>2, <1>3 DEF KeyOK
<1>5. QED
  BY <1>1, <1>2, <1>3, <1>4

-----------------------------------------------------------------------------
(* One step through a plan.                                                *)

\* Of a set of actions, the first one of the plan and the others.
LEMMA FirstOf ==
    ASSUME NEW left, NEW a \in left, \A b \in left : b # a => Rank(a) < Rank(b)
    PROVE  /\ \A x : left = {x} => a = x /\ left \ {a} = {}
           /\ \A x, y : /\ left = {x, y} /\ Rank(x) \in Nat /\ Rank(y) \in Nat
                        /\ Rank(x) < Rank(y)
                        => a = x /\ left \ {a} = {y}
           /\ \A x, y, z : /\ left = {x, y, z}
                           /\ Rank(x) \in Nat /\ Rank(y) \in Nat /\ Rank(z) \in Nat
                           /\ Rank(x) < Rank(y) /\ Rank(y) < Rank(z)
                           => a = x /\ left \ {a} = {y, z}
<1>1. \A x : left = {x} => a = x /\ left \ {a} = {}
  OBVIOUS
<1>2. ASSUME NEW x, NEW y, left = {x, y}, Rank(x) \in Nat, Rank(y) \in Nat,
             Rank(x) < Rank(y)
      PROVE  a = x /\ left \ {a} = {y}
  <2>1. x # y
    BY <1>2
  <2>2. a = x
    BY <1>2
  <2>3. QED
    BY <1>2, <2>1, <2>2
<1>3. ASSUME NEW x, NEW y, NEW z, left = {x, y, z}, Rank(x) \in Nat,
             Rank(y) \in Nat, Rank(z) \in Nat, Rank(x) < Rank(y), Rank(y) < Rank(z)
      PROVE  a = x /\ left \ {a} = {y, z}
  <2>1. x # y /\ y # z /\ x # z
    BY <1>3
  <2>2. a = x
    BY <1>3
  <2>3. QED
    BY <1>3, <2>1, <2>2
<1>4. QED
  BY <1>1, <1>2, <1>3

\* What the plan of key k expects of its next action a, and where it goes.
Turn(k, s, d, r, a, left, dev, desk, dobj, kobj) ==
    \/ /\ a \in {To("ARCHIVE", "device", k), To("ARCHIVE", "desktop", k)}
       /\ LET o == IF a.side = "device" THEN dobj ELSE kobj
          IN  o # NoRecord /\ o.status = "archived"
       /\ OnPlan(k, s, d, r, <<left \ {a}, dev, desk, dobj, kobj>>)
    \/ /\ a = To("DELETE_ON_DEVICE", "device", k)
       /\ dobj = d /\ dev = d
       /\ OnPlan(k, s, d, r, <<left \ {a}, NoRecord, desk, dobj, kobj>>)
    \/ /\ a = To("DELETE_ON_DESKTOP", "desktop", k)
       /\ kobj = r /\ desk = r
       /\ OnPlan(k, s, d, r, <<left \ {a}, dev, NoRecord, dobj, kobj>>)
    \/ /\ a = To("ADD_ON_DEVICE_WITH_NEW_ID", "device", k)
       /\ dobj = d /\ kobj = r /\ To("ADD_ON_DESKTOP", "device", k) \in left \ {a}
       /\ \A c \in Copies(d, k) : OnPlan(k, s, d, r, <<left \ {a}, dev, desk, c, kobj>>)
    \/ /\ a = To("ADD_ON_DEVICE_WITH_NEW_ID", "desktop", k)
       /\ dobj = d /\ kobj = r /\ To("ADD_ON_DESKTOP", "desktop", k) \in left \ {a}
       /\ \A c \in Copies(r, k) : OnPlan(k, s, d, r, <<left \ {a}, dev, desk, dobj, c>>)
    \/ /\ a = To("ADD_ON_DEVICE", "desktop", k)
       /\ kobj = r
       /\ OnPlan(k, s, d, r, <<left \ {a}, ClearRecordAttrs(kobj), desk, dobj,
                               ClearRecordAttrs(kobj)>>)
    \/ /\ a = To("ADD_ON_DESKTOP", "device", k)
       /\ dobj = d
       /\ OnPlan(k, s, d, r, <<left \ {a}, dev, ClearRecordAttrs(dobj),
                               ClearRecordAttrs(dobj), kobj>>)
    \/ /\ d # NoRecord /\ r # NoRecord
       /\ \/ a = To("ADD_ON_DESKTOP", "device", k) /\ dobj \in Copies(d, k)
          \/ a = To("ADD_ON_DESKTOP", "desktop", k) /\ kobj \in Copies(r, k)
       /\ OnPlan(k, s, d, r, <<left \ {a}, dev, desk, dobj, kobj>>)

\* The first action left for a key is the one its plan has there.
LEMMA Turns ==
    ASSUME NEW k, NEW s, NEW d, NEW r, RowFor(Row(d, r, s), d, r, s),
           NEW left, NEW dev, NEW desk, NEW dobj, NEW kobj,
           OnPlan(k, s, d, r, <<left, dev, desk, dobj, kobj>>),
           NEW a \in left, \A b \in left : b # a => Rank(a) < Rank(b)
    PROVE  Turn(k, s, d, r, a, left, dev, desk, dobj, kobj)
<1> DEFINE v == <<left, dev, desk, dobj, kobj>>
           p == Row(d, r, s)
           goal == Turn(k, s, d, r, a, left, dev, desk, dobj, kobj)
           Plan1(w) == OnPlan(k, s, d, r, w)
<1>1. \A x, e, f, g, h : v = <<x, e, f, g, h>> =>
          left = x /\ dev = e /\ desk = f /\ dobj = g /\ kobj = h
  OBVIOUS
<1>2. /\ p = Push => \A w \in PushStages(k, d, r) : Plan1(w)
      /\ p = Pull => \A w \in PullStages(k, d, r) : Plan1(w)
      /\ p = RemoveDevice => \A w \in RemoveDeviceStages(k, d, r) : Plan1(w)
      /\ p = RemoveDesktop => \A w \in RemoveDesktopStages(k, d, r) : Plan1(w)
      /\ p = KeepDevice => \A w \in KeepDeviceStages(k, d, r) : Plan1(w)
      /\ p = KeepDesktop => \A w \in KeepDesktopStages(k, d, r) : Plan1(w)
      /\ p = KeepBoth => \A w \in KeepBothStages(k, d, r) : Plan1(w)
      /\ p = RetireDesktop => \A w \in RetireDesktopStages(k, d, r) : Plan1(w)
      /\ p = RetireDevice => \A w \in RetireDeviceStages(k, d, r) : Plan1(w)
      /\ p = ForkDevice => \A w \in ForkDeviceStages(k, d, r) : Plan1(w)
      /\ p = ForkDesktop => \A w \in ForkDesktopStages(k, d, r) : Plan1(w)
  BY DEF OnPlan
<1>3. \A t, side : To(t, side, k).side = side
  BY DEF To
<1>4. \/ p = Nothing /\ v = <<{}, d, r, d, r>>
      \/ p = Push /\ v \in PushStages(k, d, r)
      \/ p = Pull /\ v \in PullStages(k, d, r)
      \/ p = RemoveDevice /\ v \in RemoveDeviceStages(k, d, r)
      \/ p = RemoveDesktop /\ v \in RemoveDesktopStages(k, d, r)
      \/ p = KeepDevice /\ v \in KeepDeviceStages(k, d, r)
      \/ p = KeepDesktop /\ v \in KeepDesktopStages(k, d, r)
      \/ p = KeepBoth /\ v \in KeepBothStages(k, d, r)
      \/ p = RetireDesktop /\ v \in RetireDesktopStages(k, d, r)
      \/ p = RetireDevice /\ v \in RetireDeviceStages(k, d, r)
      \/ p = ForkDevice /\ v \in ForkDeviceStages(k, d, r)
      \/ p = ForkDesktop /\ v \in ForkDesktopStages(k, d, r)
  BY DEF OnPlan
<1>5. RowFor(p, d, r, s)
  OBVIOUS
<1> HIDE DEF v, p, Plan1
<1>6. CASE p = Nothing /\ v = <<{}, d, r, d, r>>
  BY <1>1, <1>6
<1>7. CASE p = Push /\ v \in PushStages(k, d, r)
  <2>1. left = {To("ADD_ON_DEVICE", "desktop", k)} /\ dobj = d /\ kobj = r /\ desk = r
    BY <1>1, <1>7 DEF PushStages
  <2>2. a = To("ADD_ON_DEVICE", "desktop", k) /\ left \ {a} = {}
    BY <2>1, FirstOf
  <2>3. Plan1(<<{}, ClearRecordAttrs(r), r, d, ClearRecordAttrs(r)>>)
    BY <1>2, <1>7 DEF PushStages
  <2>4. QED
    BY <2>1, <2>2, <2>3 DEF Turn, Plan1
<1>8. CASE p = Pull /\ v \in PullStages(k, d, r)
  <2>1. left = {To("ADD_ON_DESKTOP", "device", k)} /\ dobj = d /\ kobj = r /\ dev = d
    BY <1>1, <1>8 DEF PullStages
  <2>2. a = To("ADD_ON_DESKTOP", "device", k) /\ left \ {a} = {}
    BY <2>1, FirstOf
  <2>3. Plan1(<<{}, d, ClearRecordAttrs(d), ClearRecordAttrs(d), r>>)
    BY <1>2, <1>8 DEF PullStages
  <2>4. QED
    BY <2>1, <2>2, <2>3 DEF Turn, Plan1
<1>9. ASSUME Plan1(<<{}, NoRecord, r, d, r>>), v \in RemoveDeviceStages(k, d, r)
      PROVE  goal
  <2>1. /\ left = {To("DELETE_ON_DEVICE", "device", k)}
        /\ dev = d /\ desk = r /\ dobj = d /\ kobj = r
    BY <1>1, <1>9 DEF RemoveDeviceStages
  <2>2. a = To("DELETE_ON_DEVICE", "device", k) /\ left \ {a} = {}
    BY <2>1, FirstOf
  <2>3. QED
    BY <1>9, <2>1, <2>2 DEF Turn, Plan1
<1>10. ASSUME Plan1(<<{}, d, NoRecord, d, r>>), v \in RemoveDesktopStages(k, d, r)
       PROVE  goal
  <2>1. /\ left = {To("DELETE_ON_DESKTOP", "desktop", k)}
        /\ dev = d /\ desk = r /\ dobj = d /\ kobj = r
    BY <1>1, <1>10 DEF RemoveDesktopStages
  <2>2. a = To("DELETE_ON_DESKTOP", "desktop", k) /\ left \ {a} = {}
    BY <2>1, FirstOf
  <2>3. QED
    BY <1>10, <2>1, <2>2 DEF Turn, Plan1
<1>11. CASE p = RemoveDevice /\ v \in RemoveDeviceStages(k, d, r)
  BY <1>2, <1>9, <1>11 DEF RemoveDeviceStages
<1>12. CASE p = RemoveDesktop /\ v \in RemoveDesktopStages(k, d, r)
  BY <1>2, <1>10, <1>12 DEF RemoveDesktopStages
<1>13. CASE p = KeepDevice /\ v \in KeepDeviceStages(k, d, r)
  <2>1. /\ left = {To("ARCHIVE", "device", k)}
        /\ dev = d /\ desk = r /\ dobj = d /\ kobj = r
    BY <1>1, <1>13 DEF KeepDeviceStages
  <2>2. a = To("ARCHIVE", "device", k) /\ left \ {a} = {}
    BY <2>1, FirstOf
  <2>3. Plan1(<<{}, d, r, d, r>>)
    BY <1>2, <1>13 DEF KeepDeviceStages
  <2>4. d # NoRecord /\ d.status = "archived"
    BY <1>5, <1>13 DEF RowFor
  <2>5. QED
    BY <1>3, <2>1, <2>2, <2>3, <2>4 DEF Turn, Plan1
<1>14. CASE p = KeepDesktop /\ v \in KeepDesktopStages(k, d, r)
  <2>1. /\ left = {To("ARCHIVE", "desktop", k)}
        /\ dev = d /\ desk = r /\ dobj = d /\ kobj = r
    BY <1>1, <1>14 DEF KeepDesktopStages
  <2>2. a = To("ARCHIVE", "desktop", k) /\ left \ {a} = {}
    BY <2>1, FirstOf
  <2>3. Plan1(<<{}, d, r, d, r>>)
    BY <1>2, <1>14 DEF KeepDesktopStages
  <2>4. r # NoRecord /\ r.status = "archived"
    BY <1>5, <1>14 DEF RowFor
  <2>5. QED
    BY <1>3, <2>1, <2>2, <2>3, <2>4 DEF Turn, Plan1
<1>15. CASE p = KeepBoth /\ v \in KeepBothStages(k, d, r)
  <2>1. /\ d # NoRecord /\ d.status = "archived"
        /\ r # NoRecord /\ r.status = "archived"
    BY <1>5, <1>15 DEF RowFor
  <2>2. /\ dev = d /\ desk = r /\ dobj = d /\ kobj = r
        /\ \/ left = {To("ARCHIVE", "device", k), To("ARCHIVE", "desktop", k)}
           \/ left = {To("ARCHIVE", "desktop", k)}
    BY <1>1, <1>15 DEF KeepBothStages
  <2>3. CASE left = {To("ARCHIVE", "device", k), To("ARCHIVE", "desktop", k)}
    <3>1. /\ a = To("ARCHIVE", "device", k)
          /\ left \ {a} = {To("ARCHIVE", "desktop", k)}
      BY <2>3, FirstOf, Ranks
    <3>2. Plan1(<<{To("ARCHIVE", "desktop", k)}, d, r, d, r>>)
      BY <1>2, <1>15 DEF KeepBothStages
    <3>3. QED
      BY <1>3, <2>1, <2>2, <3>1, <3>2 DEF Turn, Plan1
  <2>4. CASE left = {To("ARCHIVE", "desktop", k)}
    <3>1. a = To("ARCHIVE", "desktop", k) /\ left \ {a} = {}
      BY <2>4, FirstOf
    <3>2. Plan1(<<{}, d, r, d, r>>)
      BY <1>2, <1>15 DEF KeepBothStages
    <3>3. QED
      BY <1>3, <2>1, <2>2, <3>1, <3>2 DEF Turn, Plan1
  <2>5. QED
    BY <2>2, <2>3, <2>4
<1>16. CASE p = RetireDesktop /\ v \in RetireDesktopStages(k, d, r)
  <2>1. CASE v \in RemoveDesktopStages(k, d, r)
    <3>1. Plan1(<<{}, d, NoRecord, d, r>>)
      BY <1>2, <1>16 DEF RetireDesktopStages, RemoveDesktopStages
    <3>2. QED
      BY <1>10, <2>1, <3>1
  <2>2. CASE v \notin RemoveDesktopStages(k, d, r)
    <3>1. /\ left = {To("ARCHIVE", "device", k), To("DELETE_ON_DESKTOP", "desktop", k)}
          /\ dev = d /\ desk = r /\ dobj = d /\ kobj = r
      BY <1>1, <1>16, <2>2 DEF RetireDesktopStages
    <3>2. /\ a = To("ARCHIVE", "device", k)
          /\ left \ {a} = {To("DELETE_ON_DESKTOP", "desktop", k)}
      BY <3>1, FirstOf, Ranks
    <3>3. Plan1(<<{To("DELETE_ON_DESKTOP", "desktop", k)}, d, r, d, r>>)
      BY <1>2, <1>16 DEF RetireDesktopStages, RemoveDesktopStages
    <3>4. d # NoRecord /\ d.status = "archived"
      BY <1>5, <1>16 DEF RowFor
    <3>5. QED
      BY <1>3, <3>1, <3>2, <3>3, <3>4 DEF Turn, Plan1
  <2>3. QED
    BY <2>1, <2>2
<1>17. CASE p = RetireDevice /\ v \in RetireDeviceStages(k, d, r)
  <2>1. CASE v \in RemoveDeviceStages(k, d, r)
    <3>1. Plan1(<<{}, NoRecord, r, d, r>>)
      BY <1>2, <1>17 DEF RetireDeviceStages, RemoveDeviceStages
    <3>2. QED
      BY <1>9, <2>1, <3>1
  <2>2. CASE v \notin RemoveDeviceStages(k, d, r)
    <3>1. /\ left = {To("ARCHIVE", "desktop", k), To("DELETE_ON_DEVICE", "device", k)}
          /\ dev = d /\ desk = r /\ dobj = d /\ kobj = r
      BY <1>1, <1>17, <2>2 DEF RetireDeviceStages
    <3>2. /\ a = To("ARCHIVE", "desktop", k)
          /\ left \ {a} = {To("DELETE_ON_DEVICE", "device", k)}
      BY <3>1, FirstOf, Ranks
    <3>3. Plan1(<<{To("DELETE_ON_DEVICE", "device", k)}, d, r, d, r>>)
      BY <1>2, <1>17 DEF RetireDeviceStages, RemoveDeviceStages
    <3>4. r # NoRecord /\ r.status = "archived"
      BY <1>5, <1>17 DEF RowFor
    <3>5. QED
      BY <1>3, <3>1, <3>2, <3>3, <3>4 DEF Turn, Plan1
  <2>3. QED
    BY <2>1, <2>2
<1>18. CASE p = ForkDevice /\ v \in ForkDeviceStages(k, d, r)
  <2> DEFINE x == To("ADD_ON_DEVICE_WITH_NEW_ID", "device", k)
             y == To("ADD_ON_DEVICE", "desktop", k)
             z == To("ADD_ON_DESKTOP", "device", k)
             e == ClearRecordAttrs(r)
  <2>1. /\ Plan1(<<{x, y, z}, d, r, d, r>>)
        /\ \A c \in Copies(d, k) : /\ Plan1(<<{y, z}, d, r, c, r>>)
                                   /\ Plan1(<<{z}, e, r, c, e>>)
                                   /\ Plan1(<<{}, e, r, c, e>>)
    BY <1>2, <1>18 DEF ForkDeviceStages
  <2>8. d # NoRecord /\ r # NoRecord
    BY <1>5, <1>18 DEF RowFor, IsLive
  <2>2. Rank(x) = 3 /\ Rank(y) = 4 /\ Rank(z) = 6
    BY Ranks
  <2>3. \/ v = <<{x, y, z}, d, r, d, r>>
        \/ \E c \in Copies(d, k) : v \in {<<{y, z}, d, r, c, r>>, <<{z}, e, r, c, e>>}
    BY <1>1, <1>18 DEF ForkDeviceStages
  <2> HIDE DEF x, y, z, e
  <2>4. CASE v = <<{x, y, z}, d, r, d, r>>
    <3>1. left = {x, y, z} /\ dev = d /\ desk = r /\ dobj = d /\ kobj = r
      BY <1>1, <2>4
    <3>2. a = x /\ left \ {a} = {y, z}
      BY <2>2, <3>1, FirstOf
    <3>3. QED
      BY <2>1, <3>1, <3>2 DEF Turn, Plan1, x, z
  <2>5. ASSUME NEW c \in Copies(d, k), v = <<{y, z}, d, r, c, r>>
        PROVE  goal
    <3>1. left = {y, z} /\ dev = d /\ desk = r /\ dobj = c /\ kobj = r
      BY <1>1, <2>5
    <3>2. a = y /\ left \ {a} = {z}
      BY <2>2, <3>1, FirstOf
    <3>3. QED
      BY <2>1, <2>5, <3>1, <3>2 DEF Turn, Plan1, y, e
  <2>6. ASSUME NEW c \in Copies(d, k), v = <<{z}, e, r, c, e>>
        PROVE  goal
    <3>1. left = {z} /\ dev = e /\ desk = r /\ dobj = c /\ kobj = e
      BY <1>1, <2>6
    <3>2. a = z /\ left \ {a} = {}
      BY <3>1, FirstOf
    <3>3. QED
      BY <2>1, <2>6, <2>8, <3>1, <3>2 DEF Turn, Plan1, z
  <2>7. QED
    BY <2>3, <2>4, <2>5, <2>6
<1>19. CASE p = ForkDesktop /\ v \in ForkDesktopStages(k, d, r)
  <2> DEFINE x == To("ADD_ON_DEVICE_WITH_NEW_ID", "desktop", k)
             y == To("ADD_ON_DESKTOP", "desktop", k)
             z == To("ADD_ON_DESKTOP", "device", k)
             e == ClearRecordAttrs(d)
  <2>1. /\ Plan1(<<{x, y, z}, d, r, d, r>>)
        /\ \A c \in Copies(r, k) : /\ Plan1(<<{y, z}, d, r, d, c>>)
                                   /\ Plan1(<<{z}, d, r, d, c>>)
                                   /\ Plan1(<<{}, d, e, e, c>>)
    BY <1>2, <1>19 DEF ForkDesktopStages
  <2>8. d # NoRecord /\ r # NoRecord
    BY <1>5, <1>19 DEF RowFor, IsLive
  <2>2. Rank(x) = 3 /\ Rank(y) = 5 /\ Rank(z) = 6
    BY Ranks
  <2>3. \/ v = <<{x, y, z}, d, r, d, r>>
        \/ \E c \in Copies(r, k) : v \in {<<{y, z}, d, r, d, c>>, <<{z}, d, r, d, c>>}
    BY <1>1, <1>19 DEF ForkDesktopStages
  <2> HIDE DEF x, y, z, e
  <2>4. CASE v = <<{x, y, z}, d, r, d, r>>
    <3>1. left = {x, y, z} /\ dev = d /\ desk = r /\ dobj = d /\ kobj = r
      BY <1>1, <2>4
    <3>2. a = x /\ left \ {a} = {y, z}
      BY <2>2, <3>1, FirstOf
    <3>3. QED
      BY <2>1, <3>1, <3>2 DEF Turn, Plan1, x, y
  <2>5. ASSUME NEW c \in Copies(r, k), v = <<{y, z}, d, r, d, c>>
        PROVE  goal
    <3>1. left = {y, z} /\ dev = d /\ desk = r /\ dobj = d /\ kobj = c
      BY <1>1, <2>5
    <3>2. a = y /\ left \ {a} = {z}
      BY <2>2, <3>1, FirstOf
    <3>3. QED
      BY <2>1, <2>5, <2>8, <3>1, <3>2 DEF Turn, Plan1, y
  <2>6. ASSUME NEW c \in Copies(r, k), v = <<{z}, d, r, d, c>>
        PROVE  goal
    <3>1. left = {z} /\ dev = d /\ desk = r /\ dobj = d /\ kobj = c
      BY <1>1, <2>6
    <3>2. a = z /\ left \ {a} = {}
      BY <3>1, FirstOf
    <3>3. QED
      BY <2>1, <2>6, <2>8, <3>1, <3>2 DEF Turn, Plan1, z, e
  <2>7. QED
    BY <2>3, <2>4, <2>5, <2>6
<1>20. QED
  BY <1>4, <1>6, <1>7, <1>8, <1>11, <1>12, <1>13, <1>14, <1>15, <1>16, <1>17,
     <1>18, <1>19

-----------------------------------------------------------------------------
(* Executing one action.                                                   *)

\* What is known of the first action of the list while the plans are executed.
AtTurn(a, k) ==
    /\ k \in Keys /\ a \in RecordAction /\ a.key = k /\ Read(k)
    /\ Turn(k, slow, startDevice[k], file[k], a, Left(k),
            device[k], desktop[k], devObj[k], deskObj[k])
    /\ CopyOK(k, devObj[k], "device") /\ CopyOK(k, deskObj[k], "desktop")
    /\ Object(a) \in Record
    /\ startDevice[k] # NoRecord => startDevice[k] \in Record /\ startDevice[k].id = k
    /\ file[k] # NoRecord => file[k] \in Record /\ file[k].id = k

\* The first action of the list is the one the plan of its key has there.
LEMMA HeadAtTurn ==
    ASSUME IInv, MInv, phase = "execute", actions # <<>>,
           NEW a, a = Head(actions), NEW k, k = a.key
    PROVE  AtTurn(a, k)
<1>1. actions \in Seq(RecordAction) /\ Ordered /\ \A j \in Keys : KeyOK(j)
  BY DEF IInv, TypeOK, MInv
<1>2. /\ a \in RecordAction /\ a \in Left(k)
      /\ \A b \in Left(k) : b # a => Rank(a) < Rank(b)
  BY <1>1, HeadFirst
<1>3. k \in Keys
  BY <1>2 DEF RecordAction
<1>4. /\ Read(k) /\ OnPlan(k, slow, startDevice[k], file[k], View(k))
      /\ CopyOK(k, devObj[k], "device") /\ CopyOK(k, deskObj[k], "desktop")
  BY <1>1, <1>2, <1>3 DEF KeyOK
<1>5. OnPlan(k, slow, startDevice[k], file[k],
             <<Left(k), device[k], desktop[k], devObj[k], deskObj[k]>>)
  BY <1>4 DEF View
<1>6. Turn(k, slow, startDevice[k], file[k], a, Left(k),
           device[k], desktop[k], devObj[k], deskObj[k])
  BY <1>2, <1>3, <1>5, Pairs, Turns
<1>7. Object(a) \in Record
  <2>1. Object(a) # NoRecord
    <3>1. 1 \in DOMAIN actions /\ a = actions[1]
      BY <1>1
    <3>2. QED
      BY <3>1 DEF IInv, ActionOK
  <2>2. QED
    BY <2>1, <1>3 DEF Object, IInv, TypeOK, Db
<1>8. /\ startDevice[k] # NoRecord => startDevice[k] \in Record /\ startDevice[k].id = k
      /\ file[k] # NoRecord => file[k] \in Record /\ file[k].id = k
  BY <1>3 DEF IInv, TypeOK, Db, Keyed
<1>9. QED
  BY <1>2, <1>3, <1>4, <1>6, <1>7, <1>8 DEF AtTurn

\* No other key's object carries the id of a key that was read.
LEMMA OwnId ==
    ASSUME Visiting, \A j \in Keys : KeyOK(j), NEW k \in Keys, Read(k),
           NEW j \in Keys, j # k
    PROVE  ~HasId(j, k)
<1> SUFFICES ASSUME HasId(j, k) PROVE FALSE
  OBVIOUS
<1>1. Read(j)
  BY DEF HasId, Read
<1>2. CopyOK(j, devObj[j], "device") /\ CopyOK(j, deskObj[j], "desktop")
  BY <1>1 DEF KeyOK
<1>3. startDevice[k] = NoRecord /\ file[k] = NoRecord
  BY <1>2 DEF HasId, CopyOK
<1>4. QED
  BY <1>3, ReadHadRecord

\* A step that executes an action and stays on the plan of its key keeps the
\* invariant.
LEMMA Moved ==
    ASSUME IInv, MInv, phase = "execute", actions # <<>>,
           NEW a, a = Head(actions), NEW k, k = a.key, ActionDone, NEW n \in Keys,
           \A j \in Keys \ {n} : device'[j] = device[j] /\ desktop'[j] = desktop[j],
           \A j \in Keys \ {k} : devObj'[j] = devObj[j] /\ deskObj'[j] = deskObj[j],
           n = k \/ (startDevice[n] = NoRecord /\ file[n] = NoRecord /\ HasId(k, n)'),
           \A j \in Keys \ {k} : ~HasId(j, n),
           \A m : HasId(k, m)' => HasId(k, m) \/ m = n,
           \A m : m # k /\ HasId(k, m) => HasId(k, m)',
           Read(k)',
           OnPlan(k, slow, startDevice[k], file[k],
                  <<Left(k) \ {a}, device'[k], desktop'[k], devObj'[k], deskObj'[k]>>),
           Left(k)' = Left(k) \ {a} =>
               CopyOK(k, devObj[k], "device")' /\ CopyOK(k, deskObj[k], "desktop")'
    PROVE  MInv'
<1>1. /\ actions \in Seq(RecordAction) /\ Ordered /\ Visiting /\ ObjectsDistinct
      /\ \A j \in Keys : KeyOK(j)
  BY DEF IInv, TypeOK, MInv
<1>2. AtTurn(a, k)
  BY HeadAtTurn
<1>3. /\ Left(k)' = Left(k) \ {a} /\ Ordered'
      /\ \A j : j # k => Left(j)' = Left(j)
  BY <1>1, HeadFirst DEF ActionDone
<1>4. /\ k \in Keys /\ Read(k)
      /\ UNCHANGED <<file, phase, slow, pending, startDevice>>
  BY <1>2 DEF AtTurn, ActionDone
<1>5. Local(k, n)
  BY <1>3, <1>4 DEF Local
<1>6. /\ ObjectsDistinct' /\ \A j \in Keys : Read(j)' <=> Read(j)
      /\ \A j \in Keys \ {k} : KeyOK(j)'
  BY <1>1, <1>4, <1>5, Elsewhere
<1>7. KeyOK(k)'
  BY <1>3, <1>4 DEF KeyOK, View
<1>8. \A j \in Keys : KeyOK(j)'
  BY <1>6, <1>7
<1>9. Visiting'
  <2>1. /\ Due' = Due /\ Due \subseteq Keys
        /\ \A j : Skipped(j)' <=> Skipped(j)
    BY <1>4 DEF Due, Skipped, IdsToRead
  <2>2. QED
    BY <1>1, <1>4, <1>6, <2>1 DEF Visiting
<1>10. QED
  BY <1>3, <1>4, <1>6, <1>8, <1>9 DEF MInv, Finishing

\* A sync that ends, whichever way, leaves nothing behind in memory.
LEMMA EndsClean ==
    ASSUME phase' = "idle", actions' = <<>>, devObj' = EmptyDb, deskObj' = EmptyDb
    PROVE  MInv'
<1>1. \A k \in Keys : ~Read(k)'
  BY DEF Read, EmptyDb
<1>2. ObjectsDistinct'
  BY DEF ObjectsDistinct, EmptyDb
<1>3. Ordered'
  BY DEF Ordered
<1>4. Visiting'
  BY <1>1 DEF Visiting
<1>5. QED
  BY <1>2, <1>3, <1>4 DEF MInv, Finishing

\* ARCHIVE finds an archived record and changes neither database.
LEMMA ArchiveMoves ==
    ASSUME IInv, MInv, Archive
    PROVE  MInv' /\ result' = result
<1>1. phase = "execute" /\ actions # <<>> /\ Head(actions).type = "ARCHIVE"
  BY DEF Archive, Executing
<1>2. PICK a, k : a = Head(actions) /\ k = a.key
  OBVIOUS
<1>3. AtTurn(a, k)
  BY <1>1, <1>2, HeadAtTurn
<1>4. /\ Object(a) # NoRecord /\ Object(a).status = "archived"
      /\ OnPlan(k, slow, startDevice[k], file[k],
                <<Left(k) \ {a}, device[k], desktop[k], devObj[k], deskObj[k]>>)
  <2>1. Turn(k, slow, startDevice[k], file[k], a, Left(k),
             device[k], desktop[k], devObj[k], deskObj[k])
    BY <1>3 DEF AtTurn
  <2>2. a.type = "ARCHIVE"
    BY <1>1, <1>2
  <2>3. /\ LET o == IF a.side = "device" THEN devObj[k] ELSE deskObj[k]
           IN  o # NoRecord /\ o.status = "archived"
        /\ OnPlan(k, slow, startDevice[k], file[k],
                  <<Left(k) \ {a}, device[k], desktop[k], devObj[k], deskObj[k]>>)
    BY <2>1, <2>2 DEF Turn, To
  <2>4. QED
    BY <1>2, <2>3 DEF Object
<1>5. ActionDone /\ UNCHANGED <<device, desktop, devObj, deskObj>>
  BY <1>2, <1>4 DEF Archive
<1>6. \A m : HasId(k, m)' <=> HasId(k, m)
  BY <1>5 DEF HasId
<1>7. \A j \in Keys \ {k} : ~HasId(j, k)
  BY <1>3, <1>1, OwnId DEF MInv, AtTurn
<1>8. Left(k)' = Left(k) \ {a} =>
          CopyOK(k, devObj[k], "device")' /\ CopyOK(k, deskObj[k], "desktop")'
  <2>1. CopyOK(k, devObj[k], "device") /\ CopyOK(k, deskObj[k], "desktop")
    BY <1>3 DEF AtTurn
  <2>2. \A side : To("ADD_ON_DESKTOP", side, k) # a
    BY <1>1, <1>2 DEF To
  <2>3. UNCHANGED <<startDevice, file, device, desktop, devObj, deskObj>>
    BY <1>5 DEF ActionDone
  <2>4. ASSUME NEW o, NEW side, CopyOK(k, o, side), Left(k)' = Left(k) \ {a}
        PROVE  CopyOK(k, o, side)'
    BY <2>2, <2>3, <2>4 DEF CopyOK
  <2>5. Left(k)' = Left(k) \ {a} =>
           CopyOK(k, devObj[k], "device")' /\ CopyOK(k, deskObj[k], "desktop")'
    BY <2>1, <2>3, <2>4 DEF CopyOK
  <2>6. QED
    BY <2>5
<1>9. Read(k)' /\ k \in Keys
  BY <1>3, <1>5 DEF AtTurn, Read
<1>10. MInv'
  BY <1>1, <1>2, <1>4, <1>5, <1>6, <1>7, <1>8, <1>9, Moved
<1>11. QED
  BY <1>5, <1>10 DEF ActionDone

\* DELETE_ON_DEVICE finds the record it deletes.
LEMMA DeleteOnDeviceMoves ==
    ASSUME IInv, MInv, DeleteOnDevice
    PROVE  MInv' /\ result' = result
<1>1. phase = "execute" /\ actions # <<>> /\ Head(actions).type = "DELETE_ON_DEVICE"
  BY DEF DeleteOnDevice, Executing
<1>2. PICK a, k : a = Head(actions) /\ k = a.key
  OBVIOUS
<1>3. AtTurn(a, k)
  BY <1>1, <1>2, HeadAtTurn
<1>4. /\ a.side = "device" /\ devObj[k] = startDevice[k] /\ device[k] = startDevice[k]
      /\ OnPlan(k, slow, startDevice[k], file[k],
                <<Left(k) \ {a}, NoRecord, desktop[k], devObj[k], deskObj[k]>>)
  <2>1. Turn(k, slow, startDevice[k], file[k], a, Left(k),
             device[k], desktop[k], devObj[k], deskObj[k])
    BY <1>3 DEF AtTurn
  <2>2. a.type = "DELETE_ON_DEVICE"
    BY <1>1, <1>2
  <2>3. QED
    BY <2>1, <2>2 DEF Turn, To
<1>5. /\ Object(a) = devObj[k] /\ Object(a).id = k /\ device[k] # NoRecord
      /\ k \in Keys
  BY <1>2, <1>3, <1>4, ConstantsAssumption DEF AtTurn, Object
<1>6. /\ ActionDone /\ UNCHANGED <<desktop, devObj, deskObj>>
      /\ device' = [device EXCEPT ![k] = NoRecord]
  BY <1>2, <1>5 DEF DeleteOnDevice
<1>7. /\ device'[k] = NoRecord
      /\ \A j \in Keys \ {k} : device'[j] = device[j]
  BY <1>5, <1>6 DEF IInv, TypeOK, Db
<1>8. \A m : HasId(k, m)' <=> HasId(k, m)
  BY <1>6 DEF HasId
<1>9. \A j \in Keys \ {k} : ~HasId(j, k)
  BY <1>3, <1>1, OwnId DEF MInv, AtTurn
<1>10. ASSUME NEW o \in {devObj[k], deskObj[k]}, NEW side, CopyOK(k, o, side),
              Left(k)' = Left(k) \ {a}
       PROVE  CopyOK(k, o, side)'
  <2>1. o # NoRecord => o.id \in Keys
    BY <1>5, <1>10 DEF IInv, TypeOK, Db, Record
  <2>2. To("ADD_ON_DESKTOP", side, k) # a
    BY <1>1, <1>2 DEF To
  <2>3. QED
    BY <1>6, <1>7, <1>10, <2>1, <2>2 DEF CopyOK, ActionDone
<1>11. Left(k)' = Left(k) \ {a} =>
          CopyOK(k, devObj[k], "device")' /\ CopyOK(k, deskObj[k], "desktop")'
  BY <1>3, <1>6, <1>10 DEF AtTurn, CopyOK
<1>12. Read(k)'
  BY <1>3, <1>6 DEF AtTurn, Read
<1>13. MInv'
  BY <1>1, <1>2, <1>4, <1>5, <1>6, <1>7, <1>8, <1>9, <1>11, <1>12, Moved
<1>14. QED
  BY <1>6, <1>13 DEF ActionDone

\* DELETE_ON_DESKTOP finds the record it deletes.
LEMMA DeleteOnDesktopMoves ==
    ASSUME IInv, MInv, DeleteOnDesktop
    PROVE  MInv' /\ result' = result
<1>1. phase = "execute" /\ actions # <<>> /\ Head(actions).type = "DELETE_ON_DESKTOP"
  BY DEF DeleteOnDesktop, Executing
<1>2. PICK a, k : a = Head(actions) /\ k = a.key
  OBVIOUS
<1>3. AtTurn(a, k)
  BY <1>1, <1>2, HeadAtTurn
<1>4. /\ a.side = "desktop" /\ deskObj[k] = file[k] /\ desktop[k] = file[k]
      /\ OnPlan(k, slow, startDevice[k], file[k],
                <<Left(k) \ {a}, device[k], NoRecord, devObj[k], deskObj[k]>>)
  <2>1. Turn(k, slow, startDevice[k], file[k], a, Left(k),
             device[k], desktop[k], devObj[k], deskObj[k])
    BY <1>3 DEF AtTurn
  <2>2. a.type = "DELETE_ON_DESKTOP"
    BY <1>1, <1>2
  <2>3. QED
    BY <2>1, <2>2 DEF Turn, To
<1>5. /\ Object(a) = deskObj[k] /\ Object(a).id = k /\ desktop[k] # NoRecord
      /\ k \in Keys
  BY <1>2, <1>3, <1>4, ConstantsAssumption DEF AtTurn, Object
<1>6. /\ ActionDone /\ UNCHANGED <<device, devObj, deskObj>>
      /\ desktop' = [desktop EXCEPT ![k] = NoRecord]
  BY <1>2, <1>5 DEF DeleteOnDesktop
<1>7. /\ desktop'[k] = NoRecord
      /\ \A j \in Keys \ {k} : desktop'[j] = desktop[j]
  BY <1>5, <1>6 DEF IInv, TypeOK, Db
<1>8. \A m : HasId(k, m)' <=> HasId(k, m)
  BY <1>6 DEF HasId
<1>9. \A j \in Keys \ {k} : ~HasId(j, k)
  BY <1>3, <1>1, OwnId DEF MInv, AtTurn
<1>10. ASSUME NEW o \in {devObj[k], deskObj[k]}, NEW side, CopyOK(k, o, side),
              Left(k)' = Left(k) \ {a}
       PROVE  CopyOK(k, o, side)'
  <2>1. o # NoRecord => o.id \in Keys
    BY <1>5, <1>10 DEF IInv, TypeOK, Db, Record
  <2>2. To("ADD_ON_DESKTOP", side, k) # a
    BY <1>1, <1>2 DEF To
  <2>3. QED
    BY <1>6, <1>7, <1>10, <2>1, <2>2 DEF CopyOK, ActionDone
<1>11. Left(k)' = Left(k) \ {a} =>
          CopyOK(k, devObj[k], "device")' /\ CopyOK(k, deskObj[k], "desktop")'
  BY <1>3, <1>6, <1>10 DEF AtTurn, CopyOK
<1>12. Read(k)'
  BY <1>3, <1>6 DEF AtTurn, Read
<1>13. MInv'
  BY <1>1, <1>2, <1>4, <1>5, <1>6, <1>7, <1>8, <1>9, <1>11, <1>12, Moved
<1>14. QED
  BY <1>6, <1>13 DEF ActionDone

\* ADD_ON_DEVICE_WITH_NEW_ID turns a record object into a copy of itself.
LEMMA AddOnDeviceWithNewIdMoves ==
    ASSUME IInv, MInv, AddOnDeviceWithNewId
    PROVE  MInv' /\ result' = result
<1>1. /\ phase = "execute" /\ actions # <<>>
      /\ Head(actions).type = "ADD_ON_DEVICE_WITH_NEW_ID"
  BY DEF AddOnDeviceWithNewId, Executing
<1>2. PICK a, k : a = Head(actions) /\ k = a.key
  OBVIOUS
<1>3. AtTurn(a, k) /\ k \in Keys /\ Object(a) \in Record /\ Read(k)
  BY <1>1, <1>2, HeadAtTurn DEF AtTurn
<1>4. PICK n \in FreshIds :
         /\ device' = [device EXCEPT ![n] = [ClearRecordAttrs(Object(a)) EXCEPT !.id = n]]
         /\ SetObject(a, [ClearRecordAttrs(Object(a)) EXCEPT !.id = n])
  BY <1>2 DEF AddOnDeviceWithNewId
<1>5. /\ n \in Ids /\ n \in Keys /\ startDevice[n] = NoRecord /\ file[n] = NoRecord
      /\ ~Read(n) /\ \A j \in Keys : ~HasId(j, n)
  BY <1>1, FreshIsNew DEF MInv
<1>6. PICK c : c = Synced(Object(a), n)
  OBVIOUS
<1>7. /\ c \in Record /\ c.id = n /\ c # NoRecord
      /\ device' = [device EXCEPT ![n] = c] /\ SetObject(a, c)
  <2>1. c = [ClearRecordAttrs(Object(a)) EXCEPT !.id = n] /\ c \in Record /\ c.id = n
    BY <1>3, <1>5, <1>6, SyncedFields
  <2>2. QED
    BY <1>4, <2>1, ConstantsAssumption
<1>8. n # k
  BY <1>3, <1>5
<1>9. ActionDone /\ result' = result /\ UNCHANGED desktop
  BY DEF AddOnDeviceWithNewId, ActionDone
<1>10. /\ device'[n] = c /\ device'[k] = device[k] /\ desktop'[k] = desktop[k]
       /\ \A j \in Keys \ {n} : device'[j] = device[j] /\ desktop'[j] = desktop[j]
  BY <1>3, <1>5, <1>7, <1>8, <1>9 DEF IInv, TypeOK, Db
<1>11. /\ a.type = "ADD_ON_DEVICE_WITH_NEW_ID"
       /\ Turn(k, slow, startDevice[k], file[k], a, Left(k),
               device[k], desktop[k], devObj[k], deskObj[k])
  BY <1>1, <1>2, <1>3 DEF AtTurn
<1>12. /\ devObj[k] = startDevice[k] /\ deskObj[k] = file[k]
       /\ \/ /\ a.side = "device" /\ To("ADD_ON_DESKTOP", "device", k) \in Left(k) \ {a}
             /\ \A o \in Copies(startDevice[k], k) :
                   OnPlan(k, slow, startDevice[k], file[k],
                          <<Left(k) \ {a}, device[k], desktop[k], o, deskObj[k]>>)
          \/ /\ a.side = "desktop" /\ To("ADD_ON_DESKTOP", "desktop", k) \in Left(k) \ {a}
             /\ \A o \in Copies(file[k], k) :
                   OnPlan(k, slow, startDevice[k], file[k],
                          <<Left(k) \ {a}, device[k], desktop[k], devObj[k], o>>)
  BY <1>11 DEF Turn, To
<1>13. /\ devObj[k] # NoRecord => devObj[k].id = k
       /\ deskObj[k] # NoRecord => deskObj[k].id = k
  BY <1>3, <1>12 DEF AtTurn
<1>14. c \in Copies(Object(a), k)
  BY <1>5, <1>6, <1>8 DEF Copies
<1>15. CASE a.side = "device"
  <2>1. /\ devObj' = [devObj EXCEPT ![k] = c] /\ UNCHANGED deskObj
        /\ Object(a) = devObj[k]
    BY <1>2, <1>7, <1>15 DEF SetObject, Object
  <2>2. /\ devObj'[k] = c /\ deskObj'[k] = deskObj[k]
        /\ \A j \in Keys \ {k} : devObj'[j] = devObj[j] /\ deskObj'[j] = deskObj[j]
    BY <1>3, <2>1 DEF IInv, TypeOK, Db
  <2>3. OnPlan(k, slow, startDevice[k], file[k],
               <<Left(k) \ {a}, device'[k], desktop'[k], devObj'[k], deskObj'[k]>>)
    BY <1>10, <1>12, <1>14, <1>15, <2>1, <2>2
  <2>4. /\ HasId(k, n)' /\ \A m : HasId(k, m)' => HasId(k, m) \/ m = n
        /\ \A m : m # k /\ HasId(k, m) => HasId(k, m)'
    BY <1>7, <1>13, <2>2 DEF HasId
  <2>5. Left(k)' = Left(k) \ {a} => CopyOK(k, devObj[k], "device")'
    BY <1>5, <1>7, <1>9, <1>10, <1>12, <1>15, <2>2 DEF CopyOK, ActionDone
  <2>6. CopyOK(k, deskObj[k], "desktop")'
    BY <1>13, <2>2 DEF CopyOK
  <2>7. Read(k)'
    BY <1>7, <2>2 DEF Read
  <2>8. Left(k)' = Left(k) \ {a} =>
           CopyOK(k, devObj[k], "device")' /\ CopyOK(k, deskObj[k], "desktop")'
    BY <2>5, <2>6
  <2>9. QED
    BY <1>1, <1>2, <1>5, <1>9, <1>10, <2>2, <2>3, <2>4, <2>7, <2>8, Moved
<1>16. CASE a.side = "desktop"
  <2>1. /\ deskObj' = [deskObj EXCEPT ![k] = c] /\ UNCHANGED devObj
        /\ Object(a) = deskObj[k]
    BY <1>2, <1>7, <1>16 DEF SetObject, Object
  <2>2. /\ deskObj'[k] = c /\ devObj'[k] = devObj[k]
        /\ \A j \in Keys \ {k} : devObj'[j] = devObj[j] /\ deskObj'[j] = deskObj[j]
    BY <1>3, <2>1 DEF IInv, TypeOK, Db
  <2>3. OnPlan(k, slow, startDevice[k], file[k],
               <<Left(k) \ {a}, device'[k], desktop'[k], devObj'[k], deskObj'[k]>>)
    BY <1>10, <1>12, <1>14, <1>16, <2>1, <2>2
  <2>4. /\ HasId(k, n)' /\ \A m : HasId(k, m)' => HasId(k, m) \/ m = n
        /\ \A m : m # k /\ HasId(k, m) => HasId(k, m)'
    BY <1>7, <1>13, <2>2 DEF HasId
  <2>5. Left(k)' = Left(k) \ {a} => CopyOK(k, deskObj[k], "desktop")'
    BY <1>5, <1>7, <1>9, <1>10, <1>12, <1>16, <2>2 DEF CopyOK, ActionDone
  <2>6. CopyOK(k, devObj[k], "device")'
    BY <1>13, <2>2 DEF CopyOK
  <2>7. Read(k)'
    BY <1>7, <2>2 DEF Read
  <2>8. Left(k)' = Left(k) \ {a} =>
           CopyOK(k, devObj[k], "device")' /\ CopyOK(k, deskObj[k], "desktop")'
    BY <2>5, <2>6
  <2>9. QED
    BY <1>1, <1>2, <1>5, <1>9, <1>10, <2>2, <2>3, <2>4, <2>7, <2>8, Moved
<1>17. QED
  BY <1>12, <1>15, <1>16

\* ADD_ON_DEVICE writes the desktop's record under its id; the id 0 of a record
\* a desktop program created is the one way an action fails.
LEMMA AddOnDeviceMoves ==
    ASSUME IInv, MInv, AddOnDevice
    PROVE  MInv' /\ (result' = result \/ file[0] # NoRecord)
<1>1. phase = "execute" /\ actions # <<>> /\ Head(actions).type = "ADD_ON_DEVICE"
  BY DEF AddOnDevice, Executing
<1>2. PICK a, k : a = Head(actions) /\ k = a.key
  OBVIOUS
<1>3. AtTurn(a, k) /\ k \in Keys /\ Object(a) \in Record /\ Read(k)
  BY <1>1, <1>2, HeadAtTurn DEF AtTurn
<1>4. PICK c : c = ClearRecordAttrs(Object(a))
  OBVIOUS
<1>5. /\ a.type = "ADD_ON_DEVICE"
      /\ Turn(k, slow, startDevice[k], file[k], a, Left(k),
              device[k], desktop[k], devObj[k], deskObj[k])
  BY <1>1, <1>2, <1>3 DEF AtTurn
<1>6. /\ a.side = "desktop" /\ deskObj[k] = file[k]
      /\ OnPlan(k, slow, startDevice[k], file[k],
                <<Left(k) \ {a}, ClearRecordAttrs(deskObj[k]), desktop[k], devObj[k],
                  ClearRecordAttrs(deskObj[k])>>)
  BY <1>5 DEF Turn, To
<1>7. Object(a) = deskObj[k] /\ file[k] # NoRecord /\ deskObj[k].id = k
  BY <1>2, <1>3, <1>6, ConstantsAssumption DEF AtTurn, Object
<1>8. c \in Record /\ c.id = k /\ c # NoRecord
  BY <1>3, <1>4, <1>7, ClearFields, ConstantsAssumption
<1>9. CASE k # 0
  <2>1. /\ device' = [device EXCEPT ![k] = c] /\ SetObject(a, c)
        /\ ActionDone /\ UNCHANGED desktop
    BY <1>2, <1>4, <1>8, <1>9 DEF AddOnDevice
  <2>2. deskObj' = [deskObj EXCEPT ![k] = c] /\ UNCHANGED devObj
    BY <1>2, <1>6, <2>1 DEF SetObject
  <2>3. /\ device'[k] = c /\ deskObj'[k] = c
        /\ \A j \in Keys \ {k} : device'[j] = device[j] /\ desktop'[j] = desktop[j]
        /\ \A j \in Keys \ {k} : devObj'[j] = devObj[j] /\ deskObj'[j] = deskObj[j]
        /\ devObj'[k] = devObj[k] /\ desktop'[k] = desktop[k]
    BY <1>3, <2>1, <2>2 DEF IInv, TypeOK, Db
  <2>4. OnPlan(k, slow, startDevice[k], file[k],
               <<Left(k) \ {a}, device'[k], desktop'[k], devObj'[k], deskObj'[k]>>)
    BY <1>4, <1>6, <1>7, <2>3
  <2>5. \A m : HasId(k, m)' <=> HasId(k, m)
    BY <1>7, <1>8, <1>3, ConstantsAssumption, <2>3 DEF HasId
  <2>6. \A j \in Keys \ {k} : ~HasId(j, k)
    BY <1>3, <1>1, OwnId DEF MInv
  <2>7. Left(k)' = Left(k) \ {a} => CopyOK(k, devObj[k], "device")'
    <3>1. CopyOK(k, devObj[k], "device")
      BY <1>3 DEF AtTurn
    <3>2. devObj[k] # NoRecord => devObj[k].id \in Keys
      BY <1>3 DEF IInv, TypeOK, Db, Record
    <3>3. To("ADD_ON_DESKTOP", "device", k) # a
      BY <1>5 DEF To
    <3>4. QED
      BY <2>1, <2>3, <3>1, <3>2, <3>3 DEF CopyOK, ActionDone
  <2>8. CopyOK(k, deskObj[k], "desktop")'
    BY <1>8, <2>3 DEF CopyOK
  <2>9. Read(k)'
    BY <1>8, <2>3 DEF Read
  <2>10. /\ \A j \in Keys \ {k} : device'[j] = device[j] /\ desktop'[j] = desktop[j]
         /\ \A j \in Keys \ {k} : devObj'[j] = devObj[j] /\ deskObj'[j] = deskObj[j]
    BY <2>3
  <2>11. Left(k)' = Left(k) \ {a} =>
           CopyOK(k, devObj[k], "device")' /\ CopyOK(k, deskObj[k], "desktop")'
    BY <2>7, <2>8
  <2>12. /\ \A m : HasId(k, m)' => HasId(k, m) \/ m = k
         /\ \A m : m # k /\ HasId(k, m) => HasId(k, m)'
    BY <2>5
  <2>13. ActionDone
    BY <2>1
  <2>14. MInv'
    BY <1>1, <1>2, <1>3, <2>4, <2>6, <2>9, <2>10, <2>11, <2>12, <2>13, Moved
  <2>15. QED
    BY <2>13, <2>14 DEF ActionDone
<1>10. CASE k = 0
  <2>1. Throw("idMismatch")
    BY <1>2, <1>4, <1>8, <1>10 DEF AddOnDevice
  <2>2. MInv'
    BY <2>1, EndsClean DEF Throw, Abandon
  <2>3. QED
    BY <1>7, <1>10, <2>2
<1>11. QED
  BY <1>9, <1>10

\* ADD_ON_DESKTOP writes the device's record under its id, or a copy.
LEMMA AddOnDesktopMoves ==
    ASSUME IInv, MInv, AddOnDesktop
    PROVE  MInv' /\ result' = result
<1>1. phase = "execute" /\ actions # <<>> /\ Head(actions).type = "ADD_ON_DESKTOP"
  BY DEF AddOnDesktop, Executing
<1>2. PICK a, k : a = Head(actions) /\ k = a.key
  OBVIOUS
<1>3. AtTurn(a, k) /\ k \in Keys /\ Object(a) \in Record /\ Read(k)
  BY <1>1, <1>2, HeadAtTurn DEF AtTurn
<1>4. PICK c, n : c = ClearRecordAttrs(Object(a)) /\ n = c.id
  OBVIOUS
<1>5. /\ a.type = "ADD_ON_DESKTOP"
      /\ Turn(k, slow, startDevice[k], file[k], a, Left(k),
              device[k], desktop[k], devObj[k], deskObj[k])
  BY <1>1, <1>2, <1>3 DEF AtTurn
<1>6. \/ /\ a.side = "device" /\ devObj[k] = startDevice[k]
         /\ OnPlan(k, slow, startDevice[k], file[k],
                   <<Left(k) \ {a}, device[k], ClearRecordAttrs(devObj[k]),
                     ClearRecordAttrs(devObj[k]), deskObj[k]>>)
      \/ /\ startDevice[k] # NoRecord /\ file[k] # NoRecord
         /\ \/ a = To("ADD_ON_DESKTOP", "device", k) /\ devObj[k] \in Copies(startDevice[k], k)
            \/ a = To("ADD_ON_DESKTOP", "desktop", k) /\ deskObj[k] \in Copies(file[k], k)
         /\ OnPlan(k, slow, startDevice[k], file[k],
                   <<Left(k) \ {a}, device[k], desktop[k], devObj[k], deskObj[k]>>)
  BY <1>5 DEF Turn, To
<1>7. /\ c \in Record /\ c # NoRecord /\ n \in Keys /\ Object(a).id = n
      /\ desktop' = [desktop EXCEPT ![n] = c] /\ SetObject(a, c)
      /\ ActionDone /\ result' = result /\ UNCHANGED device
  BY <1>2, <1>3, <1>4, ClearFields, ConstantsAssumption
     DEF AddOnDesktop, ActionDone, Record
<1>8. /\ desktop'[n] = c
      /\ \A j \in Keys \ {n} : device'[j] = device[j] /\ desktop'[j] = desktop[j]
      /\ device'[n] = device[n] /\ device'[k] = device[k]
  BY <1>3, <1>7 DEF IInv, TypeOK, Db
<1>9. CASE a.side = "device" /\ devObj[k] = startDevice[k]
           /\ OnPlan(k, slow, startDevice[k], file[k],
                     <<Left(k) \ {a}, device[k], ClearRecordAttrs(devObj[k]),
                       ClearRecordAttrs(devObj[k]), deskObj[k]>>)
  <2>1. /\ devObj' = [devObj EXCEPT ![k] = c] /\ UNCHANGED deskObj
        /\ Object(a) = devObj[k]
    BY <1>2, <1>7, <1>9 DEF SetObject, Object
  <2>2. n = k
    BY <1>3, <1>7, <1>9, <2>1, ConstantsAssumption DEF AtTurn
  <2>3. /\ devObj'[k] = c /\ deskObj'[k] = deskObj[k]
        /\ \A j \in Keys \ {k} : devObj'[j] = devObj[j] /\ deskObj'[j] = deskObj[j]
    BY <1>3, <2>1 DEF IInv, TypeOK, Db
  <2>4. OnPlan(k, slow, startDevice[k], file[k],
               <<Left(k) \ {a}, device'[k], desktop'[k], devObj'[k], deskObj'[k]>>)
    BY <1>4, <1>8, <1>9, <2>1, <2>2, <2>3
  <2>5. \A m : HasId(k, m)' <=> HasId(k, m)
    BY <1>3, <1>4, <1>7, ConstantsAssumption, <2>1, <2>3 DEF HasId
  <2>6. \A j \in Keys \ {k} : ~HasId(j, k)
    BY <1>3, <1>1, OwnId DEF MInv
  <2>7. Left(k)' = Left(k) \ {a} => CopyOK(k, deskObj[k], "desktop")'
    <3>1. CopyOK(k, deskObj[k], "desktop")
      BY <1>3 DEF AtTurn
    <3>2. deskObj[k] # NoRecord => deskObj[k].id \in Keys
      BY <1>3 DEF IInv, TypeOK, Db, Record
    <3>3. To("ADD_ON_DESKTOP", "desktop", k) # a
      BY <1>9 DEF To
    <3>4. QED
      BY <1>7, <1>8, <2>2, <2>3, <3>1, <3>2, <3>3 DEF CopyOK, ActionDone
  <2>8. CopyOK(k, devObj[k], "device")'
    BY <1>4, <2>2, <2>3 DEF CopyOK
  <2>9. Read(k)'
    BY <1>7, <2>3 DEF Read
  <2>10. Left(k)' = Left(k) \ {a} =>
           CopyOK(k, devObj[k], "device")' /\ CopyOK(k, deskObj[k], "desktop")'
    BY <2>7, <2>8
  <2>11. \A j \in Keys \ {k} : device'[j] = device[j] /\ desktop'[j] = desktop[j]
    BY <1>8, <2>2
  <2>12. QED
    BY <1>1, <1>2, <1>3, <1>7, <2>3, <2>4, <2>5, <2>6, <2>9, <2>10, <2>11, Moved
<1>10. CASE /\ startDevice[k] # NoRecord /\ file[k] # NoRecord
            /\ \/ a = To("ADD_ON_DESKTOP", "device", k)
                  /\ devObj[k] \in Copies(startDevice[k], k)
               \/ a = To("ADD_ON_DESKTOP", "desktop", k)
                  /\ deskObj[k] \in Copies(file[k], k)
            /\ OnPlan(k, slow, startDevice[k], file[k],
                      <<Left(k) \ {a}, device[k], desktop[k], devObj[k], deskObj[k]>>)
  <2>1. /\ a.side = "device" => /\ Object(a) = devObj[k] /\ Object(a) \in Copies(startDevice[k], k)
                                /\ a = To("ADD_ON_DESKTOP", "device", k)
        /\ a.side # "device" => /\ Object(a) = deskObj[k] /\ Object(a) \in Copies(file[k], k)
                                /\ a = To("ADD_ON_DESKTOP", "desktop", k)
    BY <1>2, <1>10 DEF Object, To
  <2>2. c = Object(a) /\ n # k
    <3>1. ASSUME NEW o, o \in Record, Object(a) \in Copies(o, k)
          PROVE  c = Object(a) /\ n # k
      <4>1. PICK m \in Ids \ {k} : Object(a) = Synced(o, m)
        BY <3>1 DEF Copies
      <4>2. o \in Record /\ m \in Keys
        BY <3>1, <4>1 DEF Keys
      <4>3. Object(a).id = m /\ Object(a).status = "live" /\ ~Object(a).dirty
        <5>1. /\ Synced(o, m).id = m /\ Synced(o, m).status = "live"
              /\ ~Synced(o, m).dirty
          BY <4>2, SyncedFields
        <5>2. QED
          BY <4>1, <5>1
      <4>4. QED
        BY <1>3, <1>4, <1>7, <4>1, <4>3, CleanSettled
    <3>2. \E o \in {startDevice[k], file[k]} : Object(a) \in Copies(o, k) /\ o \in Record
      BY <1>3, <1>10, <2>1 DEF AtTurn
    <3>3. QED
      BY <3>1, <3>2
  <2>3. devObj' = devObj /\ deskObj' = deskObj
    BY <1>2, <1>3, <1>7, <2>1, <2>2 DEF SetObject, IInv, TypeOK, Db
  <2>4. HasId(k, n) /\ \A m : HasId(k, m)' <=> HasId(k, m)
    BY <1>7, <2>1, <2>2, <2>3 DEF HasId
  <2>5. \A j \in Keys \ {k} : ~HasId(j, n)
    BY <1>3, <2>4, Apart DEF MInv
  <2>6. /\ CopyOK(k, devObj[k], "device") /\ CopyOK(k, deskObj[k], "desktop")
        /\ startDevice[n] = NoRecord /\ file[n] = NoRecord /\ device[n] = c
    BY <1>3, <1>7, <2>1, <2>2 DEF AtTurn, CopyOK
  <2>7. OnPlan(k, slow, startDevice[k], file[k],
               <<Left(k) \ {a}, device'[k], desktop'[k], devObj'[k], deskObj'[k]>>)
    BY <1>3, <1>8, <1>10, <2>2, <2>3
  <2>8. ASSUME Left(k)' = Left(k) \ {a}
        PROVE  CopyOK(k, devObj[k], "device")' /\ CopyOK(k, deskObj[k], "desktop")'
    <3>1. ASSUME NEW o \in {devObj[k], deskObj[k]}, NEW side, CopyOK(k, o, side),
                 a = To("ADD_ON_DESKTOP", side, k) => o = c
          PROVE  CopyOK(k, o, side)'
      <4>1. o # NoRecord => o.id \in Keys
        BY <1>3, <3>1 DEF IInv, TypeOK, Db, Record
      <4>2. CASE o # NoRecord /\ o.id = n
        BY <1>7, <1>8, <2>6, <3>1, <4>2 DEF CopyOK, ActionDone
      <4>3. CASE o # NoRecord /\ o.id # n
        BY <1>7, <1>8, <2>8, <3>1, <4>1, <4>3, <1>4 DEF CopyOK, ActionDone
      <4>4. QED
        BY <4>2, <4>3 DEF CopyOK
    <3>2. QED
      BY <2>1, <2>2, <2>3, <2>6, <3>1, <1>10 DEF To
  <2>9. Read(k)'
    BY <1>3, <2>3 DEF Read
  <2>10. /\ startDevice[n] = NoRecord /\ file[n] = NoRecord /\ HasId(k, n)'
         /\ \A j \in Keys \ {k} : devObj'[j] = devObj[j] /\ deskObj'[j] = deskObj[j]
    BY <2>3, <2>4, <2>6
  <2>11. /\ \A m : HasId(k, m)' => HasId(k, m) \/ m = n
         /\ \A m : m # k /\ HasId(k, m) => HasId(k, m)'
    BY <2>4
  <2>12. /\ n \in Keys /\ ActionDone /\ result' = result
         /\ \A j \in Keys \ {n} : device'[j] = device[j] /\ desktop'[j] = desktop[j]
    BY <1>7, <1>8
  <2>13. MInv'
    BY <1>1, <1>2, <2>5, <2>7, <2>8, <2>9, <2>10, <2>11, <2>12, Moved
  <2>14. QED
    BY <2>12, <2>13
<1>11. QED
  BY <1>6, <1>9, <1>10

-----------------------------------------------------------------------------
(* Planning.                                                               *)

\* A step that touches no record, no object and no action leaves every key
\* where it is.
LEMMA Still ==
    ASSUME UNCHANGED <<device, file, slow, desktop, actions, devObj, deskObj,
                       startDevice>>
    PROVE  /\ Ordered <=> Ordered'
           /\ ObjectsDistinct <=> ObjectsDistinct'
           /\ \A k : (Read(k) <=> Read(k)') /\ (KeyOK(k) <=> KeyOK(k)')
           /\ Due' = Due /\ \A k : Skipped(k)' <=> Skipped(k)
<1>1. Ordered <=> Ordered'
  BY DEF Ordered
<1>2. ObjectsDistinct <=> ObjectsDistinct'
  BY DEF ObjectsDistinct
<1>3. \A k : /\ Read(k) <=> Read(k)'
             /\ Left(k)' = Left(k) /\ View(k)' = View(k)
             /\ \A n : HasId(k, n)' <=> HasId(k, n)
  BY DEF Read, Left, View, HasId
<1>4. \A k, o, side : CopyOK(k, o, side) <=> CopyOK(k, o, side)'
  BY <1>3 DEF CopyOK
<1>5. ASSUME NEW k
      PROVE  KeyOK(k) <=> KeyOK(k)'
  BY <1>3, <1>4 DEF KeyOK
<1>6. Due' = Due /\ \A k : Skipped(k)' <=> Skipped(k)
  BY DEF Due, Skipped
<1>7. QED
  BY <1>1, <1>2, <1>3, <1>5, <1>6

\* A sync starts with no record read and no action planned.
LEMMA StartSyncMerge ==
    ASSUME StartSync
    PROVE  MInv'
<1>1. /\ phase' = "readDevice" /\ actions' = <<>> /\ desktop' = file'
      /\ devObj' = EmptyDb /\ deskObj' = EmptyDb /\ startDevice' = device'
      /\ pending' = IdsToRead(startDevice', slow')
  BY DEF StartSync
<1>2. \A k \in Keys : ~Read(k)'
  BY <1>1 DEF Read, EmptyDb
<1>3. \A k \in Keys : Left(k)' = {}
  BY <1>1 DEF Left
<1>4. Ordered' /\ ObjectsDistinct'
  BY <1>1 DEF Ordered, ObjectsDistinct, EmptyDb
<1>5. Visiting'
  BY <1>1, <1>2 DEF Visiting
<1>6. \A k \in Keys : KeyOK(k)'
  BY <1>1, <1>2, <1>3 DEF KeyOK
<1>7. QED
  BY <1>1, <1>4, <1>5, <1>6 DEF MInv, Finishing

\* The list of actions the table's list p makes for key k.
RowPlan(plan, p, k) ==
    /\ plan \in Seq(RecordAction) /\ \A n \in DOMAIN plan : plan[n].key = k
    /\ {plan[n] : n \in DOMAIN plan} = Acts(p, k)
    /\ p = Unexpected <=> \E n \in DOMAIN plan : plan[n].type = "unexpectedRecordState"
    /\ p # Unexpected =>
          \A m, n \in DOMAIN plan : m < n => Rank(plan[m]) < Rank(plan[n])

\* It is what computeRecordActions() returns.
LEMMA PlanIsRow ==
    ASSUME NEW d \in Record \cup {NoRecord}, NEW r \in Record \cup {NoRecord},
           NEW s \in BOOLEAN, NEW k \in Keys
    PROVE  RowPlan(ComputeRecordActions(d, r, s, k), Row(d, r, s), k)
<1> DEFINE p == Row(d, r, s)
           plan == ComputeRecordActions(d, r, s, k)
<1>1. /\ plan \in Seq(RecordAction)
      /\ \A n \in DOMAIN plan : plan[n].key = k
  <2>1. /\ plan \in Seq(RecordAction)
        /\ \A n \in DOMAIN plan : PlannedOK(plan[n], d, r, s, k)
    BY PlanSound
  <2> HIDE DEF plan
  <2>2. QED
    BY <2>1 DEF PlannedOK
<1>2. plan = [n \in DOMAIN p |-> To(p[n].type, p[n].side, k)]
  BY DEF ComputeRecordActions, Row, To
<1>3. p \in {Nothing, Unexpected, Push, Pull, RemoveDevice, RemoveDesktop,
             KeepDevice, KeepDesktop, KeepBoth, RetireDesktop,
             RetireDevice, ForkDevice, ForkDesktop}
  BY RowCells DEF RowFor
<1> HIDE DEF p, plan
<1>4. {plan[n] : n \in DOMAIN plan} = Acts(p, k)
  BY <1>2 DEF Acts
<1>5. ASSUME p # Unexpected, NEW m \in DOMAIN plan, NEW n \in DOMAIN plan, m < n
      PROVE  Rank(plan[m]) < Rank(plan[n])
  <2>1. m \in DOMAIN p /\ n \in DOMAIN p
    BY <1>2, <1>5
  <2>2. Rank(To(p[m].type, p[m].side, k)) < Rank(To(p[n].type, p[n].side, k))
    BY <1>3, <1>5, <2>1, PlansOrdered
  <2>3. QED
    BY <1>2, <2>1, <2>2
<1>6. p = Unexpected => \E n \in DOMAIN plan : plan[n].type = "unexpectedRecordState"
  <2> SUFFICES ASSUME p = Unexpected
               PROVE  \E n \in DOMAIN plan : plan[n].type = "unexpectedRecordState"
    OBVIOUS
  <2>1. 1 \in DOMAIN p /\ p[1].type = "unexpectedRecordState"
    BY DEF Unexpected, Device
  <2>2. QED
    BY <1>2, <2>1 DEF To
<1>7. ASSUME p # Unexpected, NEW n \in DOMAIN plan
      PROVE  plan[n].type # "unexpectedRecordState"
  <2>1. n \in DOMAIN p /\ plan[n].type = p[n].type
    BY <1>2, <1>7 DEF To
  <2>2. p \in Seq(Entry)
    BY <1>3, ListsTyped
  <2>3. DOMAIN p = 1 .. Len(p) /\ Len(p) \in Nat
    BY <2>2
  <2>4. Len(p) \in 0 .. 3
    BY <1>3, ListHeads
  <2>5. n = 1 \/ (n = 2 /\ Len(p) \in {2, 3}) \/ (n = 3 /\ Len(p) = 3)
    BY <2>1, <2>3, <2>4
  <2>6. n = 1 => p[1].type # "unexpectedRecordState"
    <3>1. n = 1 => p # Nothing
      BY <2>1, <2>3, ListHeads
    <3>2. QED
      BY <1>3, <1>7, <3>1, ListHeads DEF Device, Desktop
  <2>7. Len(p) = 2 => p[2].type # "unexpectedRecordState"
    BY <1>3, ListHeads DEF Device, Desktop
  <2>8. Len(p) = 3 => /\ p[2].type # "unexpectedRecordState"
                      /\ p[3].type # "unexpectedRecordState"
    <3>1. ASSUME Len(p) = 3
          PROVE  p \in {ForkDevice, ForkDesktop}
      <4>1. \A x \in {Nothing, Unexpected, Push, Pull, RemoveDevice, RemoveDesktop,
                     KeepDevice, KeepDesktop, KeepBoth, RetireDesktop, RetireDevice} :
                Len(x) # 3
        <5>1. \A x \in {Nothing, Unexpected, Push, Pull, RemoveDevice, RemoveDesktop,
                       KeepDevice, KeepDesktop, KeepBoth, RetireDesktop, RetireDevice} :
                  Len(x) \in {0, 1, 2}
          BY ListHeads
        <5>2. QED
          BY <5>1
      <4>2. QED
        BY <1>3, <3>1, <4>1, Zenon
    <3>2. QED
      BY <3>1, ListHeads DEF Device, Desktop
  <2>9. p[n].type # "unexpectedRecordState"
    <3>1. CASE n = 1
      BY <2>6, <3>1
    <3>2. CASE n = 2 /\ Len(p) \in {2, 3}
      BY <2>7, <2>8, <3>2
    <3>3. CASE n = 3 /\ Len(p) = 3
      BY <2>8, <3>3
    <3>4. QED
      BY <2>5, <3>1, <3>2, <3>3
  <2>10. QED
    BY <2>1, <2>9
<1>8. QED
  BY <1>1, <1>4, <1>5, <1>6, <1>7 DEF RowPlan, p, plan

\* A key gets its plan when it has none yet; the rows that should not occur end
\* the sync.
LEMMA PlanRecordMerge ==
    ASSUME IInv, MInv, IInv', phase \in {"readDevice", "readDesktop"},
           NEW k \in pending, PlanRecord(k)
    PROVE  /\ MInv'
           /\ \/ UNCHANGED <<phase, result>>
              \/ Row(startDevice[k], file[k], slow) = Unexpected
<1> DEFINE d == startDevice[k]
           r == file[k]
<1>1. PICK plan : plan = ComputeRecordActions(device[k], desktop[k], slow, k)
  OBVIOUS
<1>2. /\ k \in Keys /\ ~Read(k) /\ Left(k) = {} /\ k \in Due
      /\ device[k] = d /\ desktop[k] = r
  <2>1. k \in Keys /\ pending \subseteq Keys /\ desktop = file /\ device = startDevice
    BY DEF IInv, TypeOK, Reading, MInv, Visiting
  <2>2. ~Read(k) /\ k \in Due
    BY <2>1 DEF MInv, Visiting, Due
  <2>3. Left(k) = {}
    BY <2>1, <2>2 DEF MInv, KeyOK
  <2>4. QED
    BY <2>1, <2>2, <2>3
<1>3. Pair(k, d, r) /\ RowFor(Row(d, r, slow), d, r, slow) /\ slow \in BOOLEAN
  BY <1>2, Pairs DEF IInv, TypeOK
<1>4. d \in Record \cup {NoRecord} /\ r \in Record \cup {NoRecord}
  BY <1>3 DEF Pair
<1>5. RowPlan(plan, Row(d, r, slow), k)
  BY <1>1, <1>2, <1>3, <1>4, PlanIsRow
<1> HIDE DEF d, r
<1>6. CASE Row(d, r, slow) = Unexpected
  <2>1. Throw("unexpectedState")
    BY <1>1, <1>5, <1>6 DEF PlanRecord, RowPlan
  <2>2. MInv'
    BY <2>1, EndsClean DEF Throw, Abandon
  <2>3. QED
    BY <1>6, <2>2 DEF d, r
<1>7. CASE Row(d, r, slow) # Unexpected
  <2>1. /\ actions' = actions \o plan
        /\ devObj' = [devObj EXCEPT ![k] = d] /\ deskObj' = [deskObj EXCEPT ![k] = r]
        /\ pending' = pending \ {k}
        /\ UNCHANGED <<device, file, phase, slow, desktop, startDevice, result>>
    BY <1>1, <1>2, <1>5, <1>7 DEF PlanRecord, RowPlan
  <2>2. /\ devObj'[k] = d /\ deskObj'[k] = r
        /\ \A j \in Keys \ {k} : devObj'[j] = devObj[j] /\ deskObj'[j] = deskObj[j]
    BY <1>2, <2>1 DEF IInv, TypeOK, Db
  <2>3. /\ Left(k)' = Acts(Row(d, r, slow), k)
        /\ \A j : j # k => Left(j)' = Left(j)
    <3>1. /\ actions \in Seq(RecordAction) /\ plan \in Seq(RecordAction)
          /\ \A n \in DOMAIN plan : plan[n].key = k
      BY <1>5 DEF RowPlan, IInv, TypeOK
    <3>2. actions' = actions \o plan
      BY <2>1
    <3>3. /\ Left(k)' = Left(k) \cup {plan[n] : n \in DOMAIN plan}
          /\ \A j : j # k => Left(j)' = Left(j)
      BY <3>1, <3>2, LeftAppended
    <3>4. QED
      BY <1>2, <1>5, <3>3 DEF RowPlan
  <2>4. Read(k)'
    BY <1>2, <2>2 DEF Read, Due, IdsToRead, d, r
  <2>5. \A j \in Keys \ {k} : Read(j)' <=> Read(j)
    BY <2>2 DEF Read
  <2>6. ObjectsDistinct'
    <3>1. phase' \in {"readDevice", "readDesktop"}
      BY <2>1
    <3>2. QED
      BY <3>1 DEF IInv, Reading, Keyed, ObjectsDistinct
  <2>7. KeyOK(k)'
    <3>1. OnPlan(k, slow, d, r, <<Acts(Row(d, r, slow), k), d, r, d, r>>)
      BY <1>3, <1>7, PlanStarts
    <3>2. View(k)' = <<Acts(Row(d, r, slow), k), d, r, d, r>>
      BY <1>2, <2>1, <2>2, <2>3 DEF View
    <3>3. CopyOK(k, devObj[k], "device")' /\ CopyOK(k, deskObj[k], "desktop")'
      BY <1>3, <2>2 DEF CopyOK, Pair
    <3>4. slow' = slow /\ startDevice'[k] = d /\ file'[k] = r
      BY <2>1 DEF d, r
    <3>5. QED
      BY <2>4, <3>1, <3>2, <3>3, <3>4 DEF KeyOK
  <2>8. ASSUME NEW j \in Keys \ {k}
        PROVE  KeyOK(j)'
    <3>1. /\ KeyOK(j) /\ View(j)' = View(j) /\ Left(j)' = Left(j)
          /\ devObj'[j] = devObj[j] /\ deskObj'[j] = deskObj[j]
          /\ Read(j)' <=> Read(j)
      BY <2>1, <2>2, <2>3, <2>5, <2>8 DEF MInv, View
    <3>2. \A o, side : CopyOK(j, o, side) <=> CopyOK(j, o, side)'
      BY <2>1, <3>1 DEF CopyOK
    <3>3. ASSUME NEW i \in Keys \ {j}, HasId(i, j)
          PROVE  HasId(i, j)'
      <4>1. i # k
        BY <1>2, <3>3 DEF HasId, Read
      <4>2. QED
        BY <2>2, <3>3, <4>1 DEF HasId
    <3>4. QED
      BY <2>1, <3>1, <3>2, <3>3 DEF KeyOK
  <2>9. Ordered'
    <3>1. /\ actions \in Seq(RecordAction)
          /\ DOMAIN actions = 1 .. Len(actions) /\ DOMAIN plan = 1 .. Len(plan)
          /\ Len(actions) \in Nat /\ Len(plan) \in Nat
          /\ DOMAIN actions' = 1 .. Len(actions) + Len(plan)
          /\ \A i \in DOMAIN actions' :
                actions'[i] = IF i <= Len(actions) THEN actions[i]
                              ELSE plan[i - Len(actions)]
      BY <1>5, <2>1, ConcatProperties DEF RowPlan, IInv, TypeOK
    <3>2. \A n \in DOMAIN actions : actions[n].key # k
      BY <1>2 DEF Left
    <3>3. ASSUME NEW m \in DOMAIN actions', NEW n \in DOMAIN actions', m < n,
                 actions'[m].key = actions'[n].key
          PROVE  Rank(actions'[m]) < Rank(actions'[n])
      <4>1. m \in Nat /\ n \in Nat
        BY <3>1, <3>3
      <4>2. CASE n <= Len(actions)
        <5>1. m \in DOMAIN actions /\ n \in DOMAIN actions
          BY <3>1, <3>3, <4>1, <4>2
        <5>2. actions'[m] = actions[m] /\ actions'[n] = actions[n]
          BY <3>1, <3>3, <4>1, <4>2
        <5>3. QED
          BY <3>3, <5>1, <5>2 DEF MInv, Ordered
      <4>3. CASE m > Len(actions)
        <5>1. /\ m - Len(actions) \in DOMAIN plan /\ n - Len(actions) \in DOMAIN plan
              /\ m - Len(actions) < n - Len(actions)
          BY <3>1, <3>3, <4>1, <4>3
        <5>2. /\ actions'[m] = plan[m - Len(actions)]
              /\ actions'[n] = plan[n - Len(actions)]
          BY <3>1, <3>3, <4>1, <4>3
        <5>3. QED
          BY <1>5, <1>7, <5>1, <5>2 DEF RowPlan
      <4>4. CASE m <= Len(actions) /\ n > Len(actions)
        <5>1. m \in DOMAIN actions /\ n - Len(actions) \in DOMAIN plan
          BY <3>1, <3>3, <4>1, <4>4
        <5>2. actions'[m] = actions[m] /\ actions'[n] = plan[n - Len(actions)]
          BY <3>1, <3>3, <4>1, <4>4
        <5>3. QED
          BY <1>5, <3>2, <3>3, <5>1, <5>2 DEF RowPlan
      <4>5. QED
        BY <3>1, <4>1, <4>2, <4>3, <4>4
    <3>4. QED
      BY <3>3 DEF Ordered, Rank
  <2>10. Visiting'
    <3>1. /\ Due' = Due /\ \A j : Skipped(j)' <=> Skipped(j)
          /\ IdsToRead(startDevice, slow)' = IdsToRead(startDevice, slow)
          /\ Due \subseteq Keys
      BY <2>1 DEF Due, Skipped, IdsToRead
    <3>2. Visiting
      BY DEF MInv
    <3>3. \A j \in Keys : Read(j)' => j \in Due'
      BY <1>2, <2>5, <3>1, <3>2 DEF Visiting
    <3>4. phase = "readDevice" =>
            /\ pending' \subseteq IdsToRead(startDevice, slow)
            /\ \A j \in Keys : Read(j)' <=> j \in IdsToRead(startDevice, slow) \ pending'
      BY <2>1, <2>4, <2>5, <3>2, <1>2 DEF Visiting
    <3>5. phase = "readDesktop" =>
            /\ pending' \subseteq Due /\ \A j \in pending' : ~Read(j)'
            /\ \A j \in Due : Read(j)' \/ j \in pending' \/ Skipped(j)
      BY <2>1, <2>4, <2>5, <3>1, <3>2, <1>2 DEF Visiting
    <3>6. QED
      BY <2>1, <3>1, <3>2, <3>3, <3>4, <3>5 DEF Visiting
  <2>11. MInv'
    BY <2>1, <2>6, <2>7, <2>8, <2>9, <2>10 DEF MInv, Finishing
  <2>12. QED
    BY <2>1, <2>11
<1>8. QED
  BY <1>6, <1>7

-----------------------------------------------------------------------------
(* The outcome.                                                            *)

\* A copy is on both sides, under an id neither had.
Placed(k, o) ==
    o # NoRecord /\ o.id # k =>
        /\ startDevice[o.id] = NoRecord /\ file[o.id] = NoRecord
        /\ device[o.id] = o /\ desktop[o.id] = o

\* When no action is left, each key that was read is where its plan ends, and
\* another one is as it was, or is the id of a copy.
LEMMA AllEnded ==
    ASSUME IInv, MInv, phase = "execute", actions = <<>>, NEW k \in Keys
    PROVE  /\ Read(k) => /\ Ended(k, Row(startDevice[k], file[k], slow),
                                  startDevice[k], file[k], device[k], desktop[k],
                                  devObj[k], deskObj[k])
                         /\ Placed(k, devObj[k]) /\ Placed(k, deskObj[k])
           /\ ~Read(k) => \/ device[k] = startDevice[k] /\ desktop[k] = file[k]
                          \/ \E j \in Keys \ {k} : HasId(j, k)
<1>1. KeyOK(k) /\ Left(k) = {}
  BY DEF MInv, Left
<1>2. CASE Read(k)
  <2>1. OnPlan(k, slow, startDevice[k], file[k],
               <<{}, device[k], desktop[k], devObj[k], deskObj[k]>>)
    BY <1>1, <1>2 DEF KeyOK, View
  <2>2. CopyOK(k, devObj[k], "device") /\ CopyOK(k, deskObj[k], "desktop")
    BY <1>1, <1>2 DEF KeyOK
  <2>3. QED
    BY <1>1, <1>2, <2>1, <2>2, PlanEnds DEF CopyOK, Placed
<1>3. CASE ~Read(k)
  BY <1>1, <1>3 DEF KeyOK
<1>4. QED
  BY <1>2, <1>3

\* What a slow sync leaves.
LEMMA SlowMergeDone ==
    ASSUME IInv, MInv, phase = "execute", actions = <<>>, slow
    PROVE  SlowOutcome(CleanUp(device), CleanUp(desktop))
<1> DEFINE dev == CleanUp(device)
           desk == CleanUp(desktop)
<1>1. \A k \in Keys : dev[k] = Settled(device[k]) /\ desk[k] = Settled(desktop[k])
  BY CleanUpSettles DEF IInv, TypeOK
<1>2. \A k \in Keys : startDevice[k] # NoRecord => Read(k)
  BY DEF MInv, Visiting, Due, IdsToRead, Skipped
<1>3. ASSUME NEW k \in Keys, Read(k)
      PROVE  LET d == startDevice[k]
                 r == file[k]
             IN  /\ dev[k] # NoRecord => desk[k] = dev[k]
                 /\ d # NoRecord /\ (r = NoRecord \/ d.data # r.data) =>
                       /\ LiveEdit(d) => IsLive(dev[k]) /\ dev[k].data = d.data
                       /\ LiveEdit(r) => \/ IsLive(dev[k]) /\ dev[k].data = r.data
                                         \/ deskObj[k] \in Copies(r, k)
  <2>1. Ended(k, Row(startDevice[k], file[k], slow), startDevice[k], file[k],
              device[k], desktop[k], devObj[k], deskObj[k])
    BY <1>3, AllEnded
  <2>2. /\ Pair(k, startDevice[k], file[k])
        /\ RowFor(Row(startDevice[k], file[k], slow), startDevice[k], file[k], slow)
    BY <1>3, Pairs
  <2>3. slow = TRUE
    BY DEF IInv, TypeOK
  <2>4. RowFor(Row(startDevice[k], file[k], slow), startDevice[k], file[k], TRUE)
    BY <2>2, <2>3
  <2>5. SlowKept(k, startDevice[k], file[k], device[k], desktop[k], deskObj[k])
    BY <1>3, <2>1, <2>2, <2>4, SlowEnds
  <2>6. dev[k] = Settled(device[k]) /\ desk[k] = Settled(desktop[k])
    BY <1>1, <1>3
  <2> HIDE DEF dev, desk
  <2>7. QED
    BY <2>5, <2>6 DEF SlowKept
<1> HIDE DEF dev, desk
<1>4. ASSUME NEW k \in Keys, dev[k] # NoRecord
      PROVE  desk[k] = dev[k]
  <2>1. CASE Read(k)
    BY <1>3, <1>4, <2>1
  <2>2. CASE ~Read(k)
    <3>1. startDevice[k] = NoRecord
      BY <1>2, <2>2
    <3>2. device[k] # NoRecord
      BY <1>1, <1>4 DEF Settled, IsLive
    <3>3. PICK j \in Keys \ {k} : HasId(j, k)
      BY <2>2, <3>1, <3>2, AllEnded
    <3>4. Read(j) /\ Placed(j, devObj[j]) /\ Placed(j, deskObj[j])
      BY <3>3, AllEnded DEF HasId, Read
    <3>5. device[k] = desktop[k]
      BY <3>3, <3>4 DEF HasId, Placed
    <3>6. QED
      BY <1>1, <3>5
  <2>3. QED
    BY <2>1, <2>2
<1>5. ASSUME NEW k \in Keys, startDevice[k] # NoRecord,
             file[k] = NoRecord \/ startDevice[k].data # file[k].data,
             NEW r \in {startDevice[k], file[k]}, LiveEdit(r)
      PROVE  \E j \in Keys : IsLive(dev[j]) /\ dev[j].data = r.data /\ desk[j] = dev[j]
  <2>1. Read(k)
    BY <1>2, <1>5
  <2>2. \/ IsLive(dev[k]) /\ dev[k].data = r.data
        \/ r = file[k] /\ deskObj[k] \in Copies(r, k)
    BY <1>3, <1>5, <2>1
  <2>3. CASE IsLive(dev[k]) /\ dev[k].data = r.data
    BY <1>4, <2>3 DEF IsLive
  <2>4. CASE r = file[k] /\ deskObj[k] \in Copies(r, k)
    <3>1. r \in Record
      BY <1>5, <2>4 DEF LiveEdit, IsLive, IInv, TypeOK, Db
    <3>2. PICK n \in Ids \ {k} : deskObj[k] = Synced(r, n)
      BY <2>4 DEF Copies
    <3>3. n \in Keys
      BY <3>2 DEF Keys
    <3>4. /\ deskObj[k] # NoRecord /\ deskObj[k].id = n /\ deskObj[k].data = r.data
          /\ IsLive(deskObj[k]) /\ Settled(deskObj[k]) = deskObj[k]
      <4>1. /\ Synced(r, n) # NoRecord /\ Synced(r, n).id = n
            /\ Synced(r, n).data = r.data /\ IsLive(Synced(r, n))
            /\ Settled(Synced(r, n)) = Synced(r, n)
        BY <3>1, <3>3, SyncedFields, ClearSettled
      <4>2. QED
        BY <3>2, <4>1
    <3>5. device[n] = deskObj[k] /\ desktop[n] = deskObj[k]
      BY <2>1, <3>2, <3>4, AllEnded DEF Placed
    <3>6. QED
      BY <1>1, <3>3, <3>4, <3>5
  <2>5. QED
    BY <2>2, <2>3, <2>4
<1>6. QED
  BY <1>4, <1>5 DEF SlowOutcome, dev, desk

\* A record that is not flagged is what a sync leaves of it.
LEMMA UnmodifiedSettled ==
    ASSUME NEW r \in Record \cup {NoRecord}, ~Modified(r)
    PROVE  Settled(r) = r
<1>1. CASE r = NoRecord
  BY <1>1 DEF Settled, IsLive
<1>2. CASE r # NoRecord
  <2>1. r \in Record /\ r.status = "live" /\ ~r.dirty
    BY <1>2 DEF Modified
  <2>2. QED
    BY <2>1, CleanSettled
<1>3. QED
  BY <1>1, <1>2

\* A fast sync looks at the flagged records, and at no others.
LEMMA FastDue ==
    ASSUME IInv, ~slow, NEW k \in Keys
    PROVE  k \in Due <=> Modified(startDevice[k]) \/ Modified(file[k])
<1>1. ASSUME NEW r \in Record
      PROVE  RecordState(r, FALSE, NoRecord) # "unchanged" <=> Modified(r)
  BY ConstantsAssumption DEF RecordState, Modified, Record, Statuses
<1>2. slow = FALSE
  BY DEF IInv, TypeOK
<1>3. /\ startDevice[k] # NoRecord => startDevice[k] \in Record
      /\ file[k] # NoRecord => file[k] \in Record
  BY DEF IInv, TypeOK, Db
<1>4. QED
  BY <1>1, <1>2, <1>3 DEF Due, IdsToRead, Modified

\* What a fast sync leaves: the merge, with the choices its plans made.
LEMMA FastMergeDone ==
    ASSUME IInv, MInv, phase = "execute", actions = <<>>, ~slow
    PROVE  FastOutcome(CleanUp(device), CleanUp(desktop))
<1> DEFINE dev == CleanUp(device)
           desk == CleanUp(desktop)
           row(k) == Row(startDevice[k], file[k], slow)
           keep == [k \in Contested |-> IF row(k) = ForkDevice THEN "desktop" ELSE "device"]
           copy == [k \in Contested |-> IF row(k) = ForkDevice THEN devObj[k].id
                                        ELSE deskObj[k].id]
           kept(k) == IF keep[k] = "device" THEN startDevice[k] ELSE file[k]
           other(k) == IF keep[k] = "device" THEN file[k] ELSE startDevice[k]
<1>1. /\ dev = [k \in Keys |-> Settled(device[k])]
      /\ desk = [k \in Keys |-> Settled(desktop[k])]
  BY CleanUpSettles DEF IInv, TypeOK
<1>2. \A k \in Keys : Read(k) <=> Modified(startDevice[k]) \/ Modified(file[k])
  BY FastDue DEF MInv, Visiting, Skipped
<1>3. ASSUME NEW k \in Keys, Read(k)
      PROVE  /\ FastKept(k, row(k), startDevice[k], file[k], device[k], desktop[k],
                         devObj[k], deskObj[k])
             /\ Placed(k, devObj[k]) /\ Placed(k, deskObj[k])
  <2>1. /\ Ended(k, row(k), startDevice[k], file[k], device[k], desktop[k],
                 devObj[k], deskObj[k])
        /\ Placed(k, devObj[k]) /\ Placed(k, deskObj[k])
    BY <1>3, AllEnded
  <2>2. Pair(k, startDevice[k], file[k]) /\ RowFor(row(k), startDevice[k], file[k], slow)
    BY <1>3, Pairs
  <2>3. slow = FALSE
    BY DEF IInv, TypeOK
  <2>4. RowFor(row(k), startDevice[k], file[k], FALSE)
    BY <2>2, <2>3
  <2>5. QED
    BY <1>3, <2>1, <2>2, <2>4, FastEnds
<1>4. ASSUME NEW k \in Contested
      PROVE  /\ k \in Keys /\ Read(k)
             /\ startDevice[k] \in Record /\ file[k] \in Record
             /\ Edited(startDevice[k]) /\ Edited(file[k])
             /\ LiveEdit(startDevice[k]) \/ LiveEdit(file[k])
  BY <1>2 DEF Contested, Edited, Modified, IInv, TypeOK, Db
<1>5. ASSUME NEW k \in Contested
      PROVE  /\ copy[k] \in Ids /\ copy[k] # k /\ copy[k] \in Keys
             /\ startDevice[copy[k]] = NoRecord /\ file[copy[k]] = NoRecord
             /\ HasId(k, copy[k])
             /\ \A m : HasId(k, m) => m = k \/ m = copy[k]
             /\ Settled(device[k]) = Synced(kept(k), k)
             /\ Settled(desktop[k]) = Synced(kept(k), k)
             /\ Settled(device[copy[k]]) = Synced(other(k), copy[k])
             /\ Settled(desktop[copy[k]]) = Synced(other(k), copy[k])
  <2>1. /\ keep[k] = IF row(k) = ForkDevice THEN "desktop" ELSE "device"
        /\ copy[k] = IF row(k) = ForkDevice THEN devObj[k].id ELSE deskObj[k].id
    OBVIOUS
  <2>2. /\ FastKept(k, row(k), startDevice[k], file[k], device[k], desktop[k],
                    devObj[k], deskObj[k])
        /\ Placed(k, devObj[k]) /\ Placed(k, deskObj[k])
    BY <1>3, <1>4
  <2>3. \/ /\ Settled(device[k]) = Synced(file[k], k)
           /\ Settled(desktop[k]) = Synced(file[k], k)
           /\ row(k) = ForkDevice /\ devObj[k] \in Copies(startDevice[k], k)
           /\ deskObj[k].id = k
        \/ /\ Settled(device[k]) = Synced(startDevice[k], k)
           /\ Settled(desktop[k]) = Synced(startDevice[k], k)
           /\ row(k) = ForkDesktop /\ deskObj[k] \in Copies(file[k], k)
           /\ devObj[k].id = k
    BY <1>4, <2>2 DEF FastKept
  <2> HIDE DEF keep, copy, row
  <2>4. ASSUME NEW r \in Record, NEW o, o \in Copies(r, k), Placed(k, o)
        PROVE  /\ o.id \in Ids /\ o.id # k /\ o.id \in Keys /\ o # NoRecord
               /\ startDevice[o.id] = NoRecord /\ file[o.id] = NoRecord
               /\ Settled(device[o.id]) = Synced(r, o.id)
               /\ Settled(desktop[o.id]) = Synced(r, o.id)
    <3>1. PICK n \in Ids \ {k} : o = Synced(r, n)
      BY <2>4 DEF Copies
    <3>2. n \in Keys
      BY <3>1 DEF Keys
    <3>3. /\ Synced(r, n).id = n /\ Synced(r, n) # NoRecord
          /\ Settled(Synced(r, n)) = Synced(r, n)
      BY <2>4, <3>2, SyncedFields, ClearSettled
    <3>4. /\ startDevice[n] = NoRecord /\ file[n] = NoRecord
          /\ device[n] = o /\ desktop[n] = o
      BY <2>4, <3>1, <3>3 DEF Placed
    <3>5. o.id = n
      BY <3>1, <3>3
    <3>6. QED
      BY <3>1, <3>2, <3>3, <3>4, <3>5
  <2>5. CASE row(k) = ForkDevice
    <3>1. /\ keep[k] = "desktop" /\ copy[k] = devObj[k].id
          /\ Settled(device[k]) = Synced(file[k], k)
          /\ Settled(desktop[k]) = Synced(file[k], k)
          /\ devObj[k] \in Copies(startDevice[k], k) /\ deskObj[k].id = k
      BY <2>1, <2>3, <2>5, Differ
    <3>2. /\ copy[k] \in Ids /\ copy[k] # k /\ copy[k] \in Keys /\ devObj[k] # NoRecord
          /\ startDevice[copy[k]] = NoRecord /\ file[copy[k]] = NoRecord
          /\ Settled(device[copy[k]]) = Synced(startDevice[k], copy[k])
          /\ Settled(desktop[copy[k]]) = Synced(startDevice[k], copy[k])
      BY <1>4, <2>2, <2>4, <3>1
    <3>3. kept(k) = file[k] /\ other(k) = startDevice[k]
      BY <3>1
    <3>4. HasId(k, copy[k]) /\ \A m : HasId(k, m) => m = k \/ m = copy[k]
      BY <3>1, <3>2 DEF HasId
    <3> HIDE DEF kept, other
    <3>5. QED
      BY <3>1, <3>2, <3>3, <3>4
  <2>6. CASE row(k) # ForkDevice
    <3>1. /\ keep[k] = "device" /\ copy[k] = deskObj[k].id
          /\ Settled(device[k]) = Synced(startDevice[k], k)
          /\ Settled(desktop[k]) = Synced(startDevice[k], k)
          /\ deskObj[k] \in Copies(file[k], k) /\ devObj[k].id = k
      BY <2>1, <2>3, <2>6
    <3>2. /\ copy[k] \in Ids /\ copy[k] # k /\ copy[k] \in Keys /\ deskObj[k] # NoRecord
          /\ startDevice[copy[k]] = NoRecord /\ file[copy[k]] = NoRecord
          /\ Settled(device[copy[k]]) = Synced(file[k], copy[k])
          /\ Settled(desktop[copy[k]]) = Synced(file[k], copy[k])
      BY <1>4, <2>2, <2>4, <3>1
    <3>3. kept(k) = startDevice[k] /\ other(k) = file[k]
      BY <3>1
    <3>4. HasId(k, copy[k]) /\ \A m : HasId(k, m) => m = k \/ m = copy[k]
      BY <3>1, <3>2 DEF HasId
    <3> HIDE DEF kept, other
    <3>5. QED
      BY <3>1, <3>2, <3>3, <3>4
  <2>7. QED
    BY <2>5, <2>6
<1>6. /\ keep \in [Contested -> {"device", "desktop"}]
      /\ copy \in [Contested -> {n \in Ids : startDevice[n] = NoRecord /\ file[n] = NoRecord}]
  <2>1. \A k \in Contested : copy[k] \in {n \in Ids : startDevice[n] = NoRecord
                                                        /\ file[n] = NoRecord}
    BY <1>5
  <2>2. keep \in [Contested -> {"device", "desktop"}]
    OBVIOUS
  <2>3. copy = [k \in Contested |-> copy[k]]
    OBVIOUS
  <2> HIDE DEF copy, keep
  <2>4. QED
    BY <2>1, <2>2, <2>3
<1> HIDE DEF keep, copy, row, dev, desk
<1>7. \A j, k \in Contested : copy[j] = copy[k] => j = k
  BY <1>4, <1>5, Apart DEF MInv
<1>8. ASSUME NEW n \in Keys, n \notin Contested, \A k \in Contested : copy[k] # n
      PROVE  LET merged(x) ==
                   IF ~Modified(startDevice[n]) /\ ~Modified(file[n]) THEN x
                   ELSE IF LiveEdit(startDevice[n]) THEN Synced(startDevice[n], n)
                   ELSE IF LiveEdit(file[n]) THEN Synced(file[n], n)
                   ELSE NoRecord
             IN  /\ Settled(device[n]) = merged(startDevice[n])
                 /\ Settled(desktop[n]) = merged(file[n])
  <2>1. CASE Read(n)
    <3>1. FastKept(n, row(n), startDevice[n], file[n], device[n], desktop[n],
                   devObj[n], deskObj[n])
      BY <1>3, <1>8, <2>1
    <3>2. /\ ~(/\ Edited(startDevice[n]) /\ Edited(file[n])
               /\ LiveEdit(startDevice[n]) \/ LiveEdit(file[n]))
          /\ Modified(startDevice[n]) \/ Modified(file[n])
      BY <1>2, <1>8, <2>1 DEF Contested
    <3>3. QED
      BY <3>1, <3>2 DEF FastKept
  <2>2. CASE ~Read(n)
    <3>1. ~Modified(startDevice[n]) /\ ~Modified(file[n])
      BY <1>2, <1>8, <2>2
    <3>2. ASSUME NEW j \in Keys \ {n}, HasId(j, n)
          PROVE  FALSE
      <4>1. Read(j)
        BY <3>2 DEF HasId, Read
      <4>2. j \notin Contested
        BY <1>5, <1>8, <3>2
      <4>3. FastKept(j, row(j), startDevice[j], file[j], device[j], desktop[j],
                     devObj[j], deskObj[j])
        BY <1>3, <3>2, <4>1
      <4>4. ~(/\ Edited(startDevice[j]) /\ Edited(file[j])
              /\ LiveEdit(startDevice[j]) \/ LiveEdit(file[j]))
        BY <3>2, <4>2 DEF Contested
      <4>5. QED
        BY <3>2, <4>3, <4>4 DEF FastKept, HasId
    <3>3. device[n] = startDevice[n] /\ desktop[n] = file[n]
      BY <1>8, <2>2, <3>2, AllEnded
    <3>4. /\ startDevice[n] \in Record \cup {NoRecord}
          /\ file[n] \in Record \cup {NoRecord}
      BY <1>8 DEF IInv, TypeOK, Db
    <3>5. QED
      BY <3>1, <3>3, <3>4, UnmodifiedSettled
  <2>3. QED
    BY <2>1, <2>2
<1>9. ASSUME NEW n \in Keys
      PROVE  /\ dev[n] = Merge(startDevice, keep, copy)[n]
             /\ desk[n] = Merge(file, keep, copy)[n]
  <2>1. dev[n] = Settled(device[n]) /\ desk[n] = Settled(desktop[n])
    BY <1>1, <1>9
  <2> DEFINE copied == CHOOSE k \in Contested : copy[k] = n
             rest(x) == IF ~Modified(startDevice[n]) /\ ~Modified(file[n]) THEN x
                        ELSE IF LiveEdit(startDevice[n]) THEN Synced(startDevice[n], n)
                        ELSE IF LiveEdit(file[n]) THEN Synced(file[n], n)
                        ELSE NoRecord
             merged(x) == IF n \in Contested THEN Synced(kept(n), n)
                          ELSE IF \E k \in Contested : copy[k] = n
                          THEN Synced(other(copied), n)
                          ELSE rest(x)
  <2>2. /\ Merge(startDevice, keep, copy)[n] = merged(startDevice[n])
        /\ Merge(file, keep, copy)[n] = merged(file[n])
    BY <1>9 DEF Merge
  <2>3. CASE n \in Contested
    <3>1. Settled(device[n]) = Synced(kept(n), n) /\ Settled(desktop[n]) = Synced(kept(n), n)
      BY <1>5, <2>3
    <3> HIDE DEF kept, other, copied, rest
    <3>2. QED
      BY <2>1, <2>2, <2>3, <3>1
  <2>4. CASE n \notin Contested /\ \E k \in Contested : copy[k] = n
    <3>1. copied \in Contested /\ copy[copied] = n
      BY <2>4
    <3> HIDE DEF copied
    <3>2. /\ Settled(device[n]) = Synced(other(copied), n)
          /\ Settled(desktop[n]) = Synced(other(copied), n)
      BY <1>5, <3>1
    <3> HIDE DEF kept, other, rest
    <3>3. QED
      BY <2>1, <2>2, <2>4, <3>2
  <2>5. CASE n \notin Contested /\ ~\E k \in Contested : copy[k] = n
    <3>1. Settled(device[n]) = rest(startDevice[n]) /\ Settled(desktop[n]) = rest(file[n])
      BY <1>8, <1>9, <2>5
    <3> HIDE DEF kept, other, copied, rest
    <3>2. QED
      BY <2>1, <2>2, <2>5, <3>1
  <2>6. QED
    BY <2>3, <2>4, <2>5
<1>10. dev = Merge(startDevice, keep, copy) /\ desk = Merge(file, keep, copy)
  <2>1. /\ DOMAIN Merge(startDevice, keep, copy) = Keys
        /\ DOMAIN Merge(file, keep, copy) = Keys
        /\ Merge(startDevice, keep, copy) =
              [n \in Keys |-> Merge(startDevice, keep, copy)[n]]
        /\ Merge(file, keep, copy) = [n \in Keys |-> Merge(file, keep, copy)[n]]
    BY DEF Merge
  <2>2. dev = [n \in Keys |-> dev[n]] /\ desk = [n \in Keys |-> desk[n]]
    BY <1>1
  <2>3. QED
    BY <1>9, <2>1, <2>2
<1>11. QED
  BY <1>6, <1>7, <1>10 DEF FastOutcome, dev, desk

-----------------------------------------------------------------------------
(* The invariant of the merge is one.                                      *)

\* There is nothing to merge before the first sync.
LEMMA InitMerge == Init => MInv
<1> SUFFICES ASSUME Init PROVE MInv
  OBVIOUS
<1>1. phase = "idle" /\ actions = <<>> /\ devObj = EmptyDb /\ deskObj = EmptyDb
  BY DEF Init
<1>2. (\A k \in Keys : ~Read(k)) /\ Ordered /\ ObjectsDistinct
  BY <1>1 DEF Read, EmptyDb, Ordered, ObjectsDistinct
<1>3. Visiting
  BY <1>1, <1>2 DEF Visiting
<1>4. QED
  BY <1>1, <1>2, <1>3 DEF MInv, Finishing

\* What a sync makes of two databases depends on the two it began with.
LEMMA OutcomeStill ==
    ASSUME UNCHANGED <<slow, file, startDevice>>, NEW e, NEW f, Outcome(e, f)
    PROVE  Outcome(e, f)'
<1>1. CASE slow
  <2>1. SlowOutcome(e, f)
    BY <1>1 DEF Outcome
  <2>2. SlowOutcome(e, f)'
    BY <2>1 DEF SlowOutcome
  <2>3. QED
    BY <1>1, <2>2 DEF Outcome
<1>2. CASE ~slow
  <2>1. Contested' = Contested
    BY DEF Contested
  <2>2. PICK keep \in [Contested -> {"device", "desktop"}],
             copy \in [Contested -> {n \in Ids : startDevice[n] = NoRecord
                                               /\ file[n] = NoRecord}] :
          /\ \A j, k \in Contested : copy[j] = copy[k] => j = k
          /\ e = Merge(startDevice, keep, copy)
          /\ f = Merge(file, keep, copy)
    BY <1>2 DEF Outcome, FastOutcome
  <2>3. /\ Merge(startDevice, keep, copy)' = Merge(startDevice, keep, copy)
        /\ Merge(file, keep, copy)' = Merge(file, keep, copy)
    BY <2>1 DEF Merge
  <2>4. /\ keep \in [Contested' -> {"device", "desktop"}]
        /\ copy \in [Contested' -> {n \in Ids : startDevice'[n] = NoRecord
                                               /\ file'[n] = NoRecord}]
        /\ \A j, k \in Contested' : copy[j] = copy[k] => j = k
    BY <2>1, <2>2
  <2>5. FastOutcome(e, f)'
    BY <2>2, <2>3, <2>4 DEF FastOutcome
  <2>6. QED
    BY <1>2, <2>5 DEF Outcome
<1>3. QED
  BY <1>1, <1>2

\* Users and other PCs act between syncs, when no record object is left.
LEMMA OutsideMerge ==
    ASSUME MInv, DeviceEdit \/ DesktopEdit \/ OtherPcSync \/ ReadTornFile \/ UNCHANGED vars
    PROVE  MInv'
<1>1. CASE DeviceEdit \/ DesktopEdit \/ OtherPcSync \/ ReadTornFile
  <2>1. /\ phase = "idle" /\ phase' = "idle"
        /\ UNCHANGED <<actions, devObj, deskObj>>
    BY <1>1 DEF DeviceEdit, DesktopEdit, OtherPcSync, ReadTornFile, session
  <2>2. (\A k \in Keys : ~Read(k)) /\ Ordered /\ ObjectsDistinct /\ actions = <<>>
    BY <2>1 DEF MInv, Visiting
  <2>3. (\A k \in Keys : ~Read(k)') /\ Ordered' /\ ObjectsDistinct'
    BY <2>1, <2>2 DEF Read, Ordered, ObjectsDistinct
  <2>4. Visiting'
    BY <2>1, <2>3 DEF Visiting
  <2>5. QED
    BY <2>1, <2>2, <2>3, <2>4 DEF MInv, Finishing
<1>2. CASE UNCHANGED vars
  <2>1. UNCHANGED <<device, file, phase, slow, desktop, pending, actions, devObj,
                    deskObj, startDevice>>
    BY <1>2 DEF vars, session
  <2>2. /\ Ordered' /\ ObjectsDistinct'
        /\ \A k : (Read(k) <=> Read(k)') /\ (KeyOK(k) <=> KeyOK(k)')
        /\ Due' = Due /\ \A k : Skipped(k)' <=> Skipped(k)
    BY <2>1, Still DEF MInv
  <2>3. Visiting'
    BY <2>1, <2>2 DEF MInv, Visiting
  <2>4. Finishing'
    <3>1. \A e, f : Outcome(e, f) => Outcome(e, f)'
      BY <2>1, OutcomeStill
    <3>2. ResetDirty(device)' = ResetDirty(device) /\ CleanUp(desktop)' = CleanUp(desktop)
      BY <2>1
    <3>3. QED
      BY <2>1, <3>1, <3>2 DEF MInv, Finishing
  <2>5. QED
    BY <2>1, <2>2, <2>3, <2>4 DEF MInv
<1>3. QED
  BY <1>1, <1>2

\* Reading and planning; only a row that should not occur ends it.
LEMMA PlanMerge ==
    ASSUME IInv, MInv, IInv', Plan
    PROVE  /\ MInv'
           /\ \/ phase' # "idle" /\ UNCHANGED result
              \/ \E k \in Keys : Row(startDevice[k], file[k], slow) = Unexpected
<1>1. CASE PlanDeviceRecord \/ PlanDesktopRecord
  <2>1. PICK k \in pending : PlanRecord(k)
    BY <1>1 DEF PlanDeviceRecord, PlanDesktopRecord
  <2>2. phase \in {"readDevice", "readDesktop"} /\ pending \subseteq Keys
    BY <1>1 DEF PlanDeviceRecord, PlanDesktopRecord, IInv, TypeOK
  <2>3. QED
    BY <2>1, <2>2, PlanRecordMerge
<1>2. CASE ReadDesktopRecords \/ SkipDesktopRecord \/ ExecuteActions
  <2>1. /\ UNCHANGED <<device, file, slow, desktop, actions, devObj, deskObj,
                       startDevice, result>>
        /\ phase' \in {"readDesktop", "execute"}
    BY <1>2 DEF ReadDesktopRecords, SkipDesktopRecord, ExecuteActions, session
  <2>2. /\ Ordered' /\ ObjectsDistinct'
        /\ \A k : (Read(k) <=> Read(k)') /\ (KeyOK(k) <=> KeyOK(k)')
        /\ Due' = Due /\ \A k : Skipped(k)' <=> Skipped(k)
    BY <2>1, Still DEF MInv
  <2>3. phase \in {"readDevice", "readDesktop"}
    BY <1>2 DEF ReadDesktopRecords, SkipDesktopRecord, ExecuteActions
  <2>4. device = startDevice /\ desktop = file
    BY <2>3 DEF IInv, Reading, MInv, Visiting
  <2>5. Due \subseteq Keys /\ pending \subseteq Keys
    BY DEF Due, IdsToRead, IInv, TypeOK
  <2>6. CASE ReadDesktopRecords
    <3>1. /\ phase = "readDevice" /\ pending = {} /\ phase' = "readDesktop"
          /\ pending' = IdsToRead(file, slow) \ IdsToRead(startDevice, slow)
      BY <2>4, <2>6 DEF ReadDesktopRecords
    <3>2. \A k \in Keys : Read(k) <=> k \in IdsToRead(startDevice, slow)
      BY <3>1 DEF MInv, Visiting
    <3>3. /\ pending' \subseteq Due /\ \A k \in pending' : ~Read(k)
          /\ \A k \in Due : Read(k) \/ k \in pending'
      BY <2>5, <3>1, <3>2 DEF Due
    <3>4. Visiting'
      BY <2>1, <2>2, <2>4, <2>5, <3>1, <3>3 DEF MInv, Visiting
    <3>5. QED
      BY <2>1, <2>2, <2>3, <3>4 DEF MInv, Finishing
  <2>7. CASE SkipDesktopRecord
    <3>1. PICK k \in pending : device[k] = NoRecord /\ pending' = pending \ {k}
      BY <2>7 DEF SkipDesktopRecord
    <3>2. phase = "readDesktop" /\ phase' = "readDesktop" /\ Skipped(k)
      BY <2>4, <2>7, <3>1 DEF SkipDesktopRecord, Skipped
    <3>3. /\ pending' \subseteq Due /\ \A j \in pending' : ~Read(j)
          /\ \A j \in Due : Read(j) \/ j \in pending' \/ Skipped(j)
      BY <3>1, <3>2 DEF MInv, Visiting
    <3>4. Visiting'
      BY <2>1, <2>2, <2>4, <2>5, <3>2, <3>3 DEF MInv, Visiting
    <3>5. QED
      BY <2>1, <2>2, <2>3, <3>4 DEF MInv, Finishing
  <2>8. CASE ExecuteActions
    <3>1. phase = "readDesktop" /\ pending = {} /\ phase' = "execute"
      BY <2>8 DEF ExecuteActions
    <3>2. \A k \in Due : Read(k) \/ Skipped(k)
      BY <3>1 DEF MInv, Visiting
    <3>3. Visiting'
      BY <2>1, <2>2, <2>5, <3>1, <3>2 DEF MInv, Visiting
    <3>4. QED
      BY <2>1, <2>2, <2>3, <3>1, <3>3 DEF MInv, Finishing
  <2>9. QED
    BY <1>2, <2>6, <2>7, <2>8
<1>3. QED
  BY <1>1, <1>2 DEF Plan

\* Executing; only a record without an id of its own ends it.
LEMMA ExecuteMerge ==
    ASSUME IInv, MInv, Execute
    PROVE  MInv' /\ (UNCHANGED result \/ file[0] # NoRecord)
BY AddOnDeviceMoves, AddOnDeviceWithNewIdMoves, AddOnDesktopMoves,
   DeleteOnDeviceMoves, DeleteOnDesktopMoves, ArchiveMoves DEF Execute

\* Cleaning up and closing.
LEMMA FinishMerge ==
    ASSUME IInv, MInv, Finish
    PROVE  MInv'
<1>1. CASE CloseAndSave
  BY <1>1, EndsClean DEF CloseAndSave
<1>2. ASSUME UNCHANGED <<file, slow, pending, actions, devObj, deskObj, startDevice>>,
             actions = <<>>, phase \in {"execute", "resetSyncFlags", "cleanUpDesktop"},
             phase' \in {"resetSyncFlags", "cleanUpDesktop", "close"}, Finishing'
      PROVE  MInv'
  <2>1. Ordered' /\ ObjectsDistinct'
    BY <1>2 DEF MInv, Ordered, ObjectsDistinct
  <2>2. Visiting'
    <3>1. \A k \in Keys : Read(k)' <=> Read(k)
      BY <1>2 DEF Read
    <3>2. Due' = Due
      BY <1>2 DEF Due
    <3>3. \A k \in Keys : Read(k) => k \in Due
      BY DEF MInv, Visiting
    <3>4. QED
      BY <1>2, <3>1, <3>2, <3>3 DEF Visiting
  <2>3. QED
    BY <1>2, <2>1, <2>2 DEF MInv
<1>3. CASE CleanUpDevice
  <2>1. /\ phase = "execute" /\ actions = <<>> /\ phase' = "resetSyncFlags"
        /\ device' = DropRemoved(device) /\ desktop' = desktop
        /\ UNCHANGED <<file, slow, pending, actions, devObj, deskObj, startDevice>>
    BY <1>3 DEF CleanUpDevice, session
  <2>2. Outcome(CleanUp(device), CleanUp(desktop))
    BY <2>1, SlowMergeDone, FastMergeDone DEF Outcome
  <2>3. PICK e, f : e = CleanUp(device) /\ f = CleanUp(desktop)
    OBVIOUS
  <2>4. Outcome(e, f)'
    BY <2>1, <2>2, <2>3, OutcomeStill
  <2>5. ResetDirty(device)' = e /\ CleanUp(desktop)' = f
    BY <2>1, <2>3, CleanUpSettles DEF IInv, TypeOK
  <2>6. Finishing'
    BY <2>1, <2>4, <2>5 DEF Finishing
  <2>7. QED
    BY <1>2, <2>1, <2>6
<1>4. CASE ResetSyncFlags
  <2>1. /\ phase = "resetSyncFlags" /\ phase' = "cleanUpDesktop"
        /\ device' = ResetDirty(device) /\ desktop' = desktop
        /\ UNCHANGED <<file, slow, pending, actions, devObj, deskObj, startDevice>>
    BY <1>4 DEF ResetSyncFlags, session
  <2>2. PICK e, f : e = ResetDirty(device) /\ f = CleanUp(desktop)
    OBVIOUS
  <2>3. Outcome(e, f)
    BY <2>1, <2>2 DEF MInv, Finishing
  <2>4. Outcome(e, f)'
    BY <2>1, <2>3, OutcomeStill
  <2>5. device' = e /\ CleanUp(desktop)' = f
    BY <2>1, <2>2
  <2>6. Finishing' /\ actions = <<>>
    BY <2>1, <2>4, <2>5 DEF MInv, Finishing
  <2>7. QED
    BY <1>2, <2>1, <2>6
<1>5. CASE CleanUpDesktop
  <2>1. /\ phase = "cleanUpDesktop" /\ phase' = "close"
        /\ desktop' = CleanUp(desktop) /\ device' = device
        /\ UNCHANGED <<file, slow, pending, actions, devObj, deskObj, startDevice>>
    BY <1>5 DEF CleanUpDesktop
  <2>2. PICK e, f : e = device /\ f = CleanUp(desktop)
    OBVIOUS
  <2>3. Outcome(e, f)
    BY <2>1, <2>2 DEF MInv, Finishing
  <2>4. Outcome(e, f)'
    BY <2>1, <2>3, OutcomeStill
  <2>5. device' = e /\ desktop' = f
    BY <2>1, <2>2
  <2>6. Finishing' /\ actions = <<>>
    BY <2>1, <2>4, <2>5 DEF MInv, Finishing
  <2>7. QED
    BY <1>2, <2>1, <2>6
<1>6. QED
  BY <1>1, <1>3, <1>4, <1>5 DEF Finish

\* Every step keeps it.
LEMMA NextMInv == IInv /\ MInv /\ [Next]_vars => MInv'
<1> SUFFICES ASSUME IInv, MInv, [Next]_vars PROVE MInv'
  OBVIOUS
<1>1. IInv'
  BY NextIInv
<1>2. CASE DlpFailure \/ TearFile
  BY <1>2, EndsClean DEF DlpFailure, Abandon, TearFile
<1>3. QED
  BY <1>1, <1>2, OutsideMerge, StartSyncMerge, PlanMerge, ExecuteMerge, FinishMerge
     DEF Next, SyncStep

-----------------------------------------------------------------------------
(* What it is for.                                                         *)

\* In every behaviour, and at every action of every sync, each key is at a stage
\* of the plan its two records had when the sync began, copies stand where no
\* record was, and a sync that has finished has made the outcome.
THEOREM MergeInvariance == Spec => [](IInv /\ MInv)
<1>1. Init => IInv /\ MInv
  BY InitIInv, InitMerge
<1>2. IInv /\ MInv /\ [Next]_vars => IInv' /\ MInv'
  BY NextIInv, NextMInv
<1>3. QED
  BY <1>1, <1>2, PTL DEF Spec

\* No two record objects a sync will still write carry one id, so no write of a
\* sync undoes another one of it: an id that the device gave to a copy is never
\* the id of a record that was read.
THEOREM ObjectsStayDistinct == Spec => []ObjectsDistinct
<1>1. MInv => ObjectsDistinct
  BY DEF MInv
<1>2. QED
  BY <1>1, MergeInvariance, PTL

\* The only step that ends a sync well is the one that writes the file.
LEMMA SuccessCloses ==
    ASSUME IInv, [Next]_vars, SyncSucceeds
    PROVE  CloseAndSave
<1>1. phase = "close" /\ phase' = "idle" /\ result' = "ok"
  BY DEF SyncSucceeds
<1>2. ~(DeviceEdit \/ DesktopEdit \/ OtherPcSync \/ ReadTornFile \/ StartSync)
  BY <1>1 DEF DeviceEdit, DesktopEdit, OtherPcSync, ReadTornFile, StartSync
<1>3. ~Plan
  BY <1>1 DEF Plan, PlanDeviceRecord, ReadDesktopRecords, PlanDesktopRecord,
              SkipDesktopRecord, ExecuteActions
<1>4. ~Execute
  BY <1>1 DEF Execute, AddOnDevice, AddOnDeviceWithNewId, AddOnDesktop,
              DeleteOnDevice, DeleteOnDesktop, Archive, Executing
<1>5. ~(CleanUpDevice \/ ResetSyncFlags \/ CleanUpDesktop)
  BY <1>1 DEF CleanUpDevice, ResetSyncFlags, CleanUpDesktop
<1>6. ~DlpFailure /\ ~TearFile
  BY <1>1 DEF DlpFailure, Abandon, TearFile
<1>7. ~UNCHANGED vars
  BY <1>1 DEF vars
<1>8. QED
  BY <1>2, <1>3, <1>4, <1>5, <1>6, <1>7 DEF Next, SyncStep, Finish

\* What the two sides hold when a sync has succeeded.
LEMMA SuccessMerges ==
    ASSUME IInv, MInv, [Next]_vars, SyncSucceeds
    PROVE  Outcome(device', file')
<1>1. phase = "close" /\ device' = device /\ file' = desktop
  BY SuccessCloses DEF CloseAndSave
<1>2. QED
  BY <1>1 DEF MInv, Finishing

\* A slow sync leaves every record of the device on the desktop, identical.
THEOREM SlowSyncsPull == Spec => SlowSyncPulls
<1>1. ASSUME IInv, MInv, [Next]_vars, SyncSucceeds, slow
      PROVE  \A k \in Keys : device'[k] # NoRecord => file'[k] = device'[k]
  BY <1>1, SuccessMerges DEF Outcome, SlowOutcome
<1>2. QED
  BY <1>1, MergeInvariance, PTL DEF Spec, SlowSyncPulls

\* Of two versions of a record that differ, a slow sync keeps each one that was
\* edited, on both sides: by far the longest way through the table, where a copy
\* gets an id of its own and must still be there when everything else is done.
THEOREM SlowSyncsKeepEdits == Spec => SlowSyncKeepsEdits
<1>1. ASSUME IInv, MInv, [Next]_vars, SyncSucceeds, slow, NEW k \in Keys,
             startDevice[k] = NoRecord \/ file[k] = NoRecord
                  \/ startDevice[k].data # file[k].data,
             startDevice[k] # NoRecord,
             NEW r \in {startDevice[k], file[k]}, LiveEdit(r)
      PROVE  \E j \in Keys : /\ IsLive(device'[j]) /\ device'[j].data = r.data
                             /\ file'[j] = device'[j]
  BY <1>1, SuccessMerges DEF Outcome, SlowOutcome
<1>2. IInv /\ MInv /\ [Next]_vars =>
        [SyncSucceeds /\ slow =>
           \A k \in Keys :
              /\ startDevice[k] = NoRecord \/ file[k] = NoRecord
                    \/ startDevice[k].data # file[k].data
              /\ startDevice[k] # NoRecord
              => \A r \in {startDevice[k], file[k]} : LiveEdit(r) =>
                    \E j \in Keys : IsLive(device'[j]) /\ device'[j].data = r.data
                                      /\ file'[j] = device'[j]]_vars
  BY <1>1
<1>3. QED
  BY <1>2, MergeInvariance, PTL DEF Spec, SlowSyncKeepsEdits

\* What a fast sync makes of two databases has each edit on both sides.
LEMMA MergeKeepsEdits ==
    ASSUME IInv, NEW dev, NEW desk, FastOutcome(dev, desk), NEW k \in Keys,
           NEW r \in {startDevice[k], file[k]}, LiveEdit(r)
    PROVE  \E j \in Keys : IsLive(dev[j]) /\ dev[j].data = r.data /\ desk[j] = dev[j]
<1>1. PICK keep \in [Contested -> {"device", "desktop"}],
           copy \in [Contested -> {n \in Ids : startDevice[n] = NoRecord
                                             /\ file[n] = NoRecord}] :
        /\ \A i, j \in Contested : copy[i] = copy[j] => i = j
        /\ dev = Merge(startDevice, keep, copy)
        /\ desk = Merge(file, keep, copy)
  BY DEF FastOutcome
<1>2. r \in Record
  BY DEF LiveEdit, IsLive, IInv, TypeOK, Db
<1>3. ASSUME NEW n \in Keys PROVE IsLive(Synced(r, n)) /\ Synced(r, n).data = r.data
  <2>1. /\ Synced(r, n) \in Record /\ Synced(r, n).data = r.data
        /\ Synced(r, n).status = "live"
    BY <1>2, SyncedFields
  <2>2. QED
    BY <2>1, ConstantsAssumption DEF IsLive
<1>4. k \notin Contested => \A n \in Contested : copy[n] # k
  BY <1>1 DEF LiveEdit, IsLive
<1>5. CASE k \in Contested /\ r = (IF keep[k] = "device" THEN startDevice[k] ELSE file[k])
  <2>1. dev[k] = Synced(r, k) /\ desk[k] = Synced(r, k)
    BY <1>1, <1>5 DEF Merge
  <2>2. QED
    BY <1>3, <2>1
<1>6. CASE k \in Contested /\ r = (IF keep[k] = "device" THEN file[k] ELSE startDevice[k])
  <2>1. PICK n : n = copy[k]
    OBVIOUS
  <2>2. n \in Keys /\ n \notin Contested /\ \A j \in Contested : copy[j] = n => j = k
    BY <1>1, <1>6, <2>1 DEF Keys, Contested, Edited
  <2>3. (CHOOSE j \in Contested : copy[j] = n) = k
    BY <1>6, <2>1, <2>2
  <2>4. dev[n] = Synced(r, n) /\ desk[n] = Synced(r, n)
    BY <1>1, <1>6, <2>1, <2>2, <2>3 DEF Merge
  <2>5. QED
    BY <1>3, <2>2, <2>4
<1>7. CASE k \notin Contested
  <2>1. /\ Modified(r) /\ (r = startDevice[k] \/ r = file[k])
        /\ LiveEdit(startDevice[k]) => r = startDevice[k] \/ ~LiveEdit(file[k])
    BY <1>2, <1>7 DEF LiveEdit, IsLive, Modified, Contested, Edited
  <2>2. dev[k] = Synced(r, k) /\ desk[k] = Synced(r, k)
    BY <1>1, <1>4, <1>7, <2>1 DEF Merge
  <2>3. QED
    BY <1>3, <2>2
<1>8. QED
  BY <1>5, <1>6, <1>7

\* No edit of either side is lost by a fast sync that succeeds, whatever has
\* failed before, however many PCs there are and whatever ids records have.
THEOREM FastSyncsKeepEdits == Spec => FastSyncKeepsEdits
<1>1. ASSUME IInv, MInv, [Next]_vars, SyncSucceeds, ~slow, NEW k \in Keys,
             NEW r \in {startDevice[k], file[k]}, LiveEdit(r)
      PROVE  \E j \in Keys : /\ IsLive(device'[j]) /\ device'[j].data = r.data
                             /\ file'[j] = device'[j]
  <2>1. FastOutcome(device', file')
    BY <1>1, SuccessMerges DEF Outcome
  <2>2. QED
    BY <1>1, <2>1, MergeKeepsEdits
<1>2. IInv /\ MInv /\ [Next]_vars =>
        [SyncSucceeds /\ ~slow =>
           \A k \in Keys : \A r \in {startDevice[k], file[k]} : LiveEdit(r) =>
              \E j \in Keys : IsLive(device'[j]) /\ device'[j].data = r.data
                                /\ file'[j] = device'[j]]_vars
  BY <1>1
<1>3. QED
  BY <1>2, MergeInvariance, PTL DEF Spec, FastSyncKeepsEdits

-----------------------------------------------------------------------------
(* The refinement.                                                         *)

\* A step inside a sync that goes on.
Proceeds ==
    phase # "idle" /\ phase' # "idle" /\ UNCHANGED <<file, startDevice, result>>

\* A step that gives the sync up: what is live on the device stays.
GivesUp ==
    /\ phase # "idle" /\ phase' = "idle" /\ UNCHANGED <<file, startDevice>>
    /\ result' \notin {"none", "ok", "torn"}
    /\ \A k \in Keys : IsLive(device[k]) => device'[k] = device[k]

\* The steps between the start of a sync and its close do one or the other.
LEMMA InnerSteps ==
    ASSUME IInv,
           \/ Plan \/ Execute \/ CleanUpDevice \/ ResetSyncFlags \/ CleanUpDesktop
           \/ DlpFailure
    PROVE  Proceeds \/ GivesUp
<1>1. \A why : /\ Throw(why) /\ why \notin {"none", "ok", "torn"} /\ phase # "idle"
               /\ \A k \in Keys : IsLive(device[k]) => device'[k] = device[k]
               => GivesUp
  BY DEF Throw, Abandon, GivesUp
<1>2. CASE Plan
  <2>1. phase \in {"readDevice", "readDesktop"}
    BY <1>2 DEF Plan, PlanDeviceRecord, ReadDesktopRecords, PlanDesktopRecord,
                SkipDesktopRecord, ExecuteActions
  <2>2. CASE PlanDeviceRecord \/ PlanDesktopRecord
    <3>1. PICK k \in pending : PlanRecord(k)
      BY <2>2 DEF PlanDeviceRecord, PlanDesktopRecord
    <3>2. QED
      BY <1>1, <2>1, <3>1 DEF PlanRecord, Proceeds
  <2>3. CASE ReadDesktopRecords \/ SkipDesktopRecord \/ ExecuteActions
    BY <2>1, <2>3 DEF ReadDesktopRecords, SkipDesktopRecord, ExecuteActions, session,
                      Proceeds
  <2>4. QED
    BY <1>2, <2>2, <2>3 DEF Plan
<1>3. CASE Execute
  <2>1. phase = "execute"
    BY <1>3 DEF Execute, AddOnDevice, AddOnDeviceWithNewId, AddOnDesktop,
                DeleteOnDevice, DeleteOnDesktop, Archive, Executing
  <2>2. ActionDone => Proceeds
    BY <2>1 DEF ActionDone, Proceeds
  <2>3. CASE AddOnDeviceWithNewId \/ AddOnDesktop
    BY <2>2, <2>3 DEF AddOnDeviceWithNewId, AddOnDesktop
  <2>4. CASE DeleteOnDevice \/ DeleteOnDesktop \/ Archive
    BY <1>1, <2>1, <2>2, <2>4 DEF DeleteOnDevice, DeleteOnDesktop, Archive
  <2>5. CASE AddOnDevice
    <3>1. CASE ActionDone
      BY <2>2, <3>1
    <3>2. CASE ~ActionDone
      <4>1. PICK c : c = ClearRecordAttrs(Object(Head(actions)))
        OBVIOUS
      <4>2. /\ \E n \in FreshIds : device' = [device EXCEPT ![n] = [c EXCEPT !.id = n]]
            /\ Throw("idMismatch")
        BY <2>5, <3>2, <4>1 DEF AddOnDevice
      <4>3. PICK n \in FreshIds : device' = [device EXCEPT ![n] = [c EXCEPT !.id = n]]
        BY <4>2
      <4>4. device[n] = NoRecord
        BY <4>3 DEF FreshIds
      <4>5. \A k \in Keys : IsLive(device[k]) => device'[k] = device[k]
        BY <4>3, <4>4 DEF IsLive, IInv, TypeOK, Db
      <4>6. QED
        BY <1>1, <2>1, <4>2, <4>5
    <3>3. QED
      BY <3>1, <3>2
  <2>6. QED
    BY <1>3, <2>3, <2>4, <2>5 DEF Execute
<1>4. CASE CleanUpDevice \/ ResetSyncFlags \/ CleanUpDesktop
  BY <1>4 DEF CleanUpDevice, ResetSyncFlags, CleanUpDesktop, session, Proceeds
<1>5. CASE DlpFailure
  BY <1>5 DEF DlpFailure, Abandon, GivesUp
<1>6. QED
  BY <1>2, <1>3, <1>4, <1>5

\* Without another PC every sync is a fast one.
OnePc == lastSyncPc = "this" /\ ~slow

\* Before the first sync there was no other PC.
LEMMA InitOnePc == Init => OnePc
BY DEF Init, OnePc

\* A sync, however it ends, leaves this PC as the last one.
LEMMA NextOnePc ==
    ASSUME ~OtherPcs, OnePc, [Next]_vars
    PROVE  OnePc'
<1>1. \A why : Throw(why) => OnePc'
  BY DEF Throw, Abandon, OnePc
<1>2. UNCHANGED <<slow, lastSyncPc>> => OnePc'
  BY DEF OnePc
<1>3. CASE DeviceEdit \/ DesktopEdit \/ OtherPcSync \/ ReadTornFile \/ StartSync
  BY <1>2, <1>3
     DEF DeviceEdit, DesktopEdit, OtherPcSync, ReadTornFile, StartSync, session, OnePc
<1>4. CASE Plan
  BY <1>1, <1>2, <1>4
     DEF Plan, PlanDeviceRecord, ReadDesktopRecords, PlanDesktopRecord, PlanRecord,
         SkipDesktopRecord, ExecuteActions, session
<1>5. CASE Execute
  BY <1>1, <1>2, <1>5
     DEF Execute, AddOnDevice, AddOnDeviceWithNewId, AddOnDesktop, DeleteOnDevice,
         DeleteOnDesktop, Archive, ActionDone
<1>6. CASE Finish
  BY <1>2, <1>6 DEF Finish, CleanUpDevice, ResetSyncFlags, CleanUpDesktop, CloseAndSave,
                    session, OnePc
<1>7. CASE DlpFailure \/ TearFile
  BY <1>7 DEF DlpFailure, Abandon, TearFile, OnePc
<1>8. CASE UNCHANGED vars
  BY <1>2, <1>8 DEF vars, session
<1>9. QED
  BY <1>3, <1>4, <1>5, <1>6, <1>7, <1>8 DEF Next, SyncStep

\* No sync runs on a file that is cut short.
Readable == phase # "idle" => ~Torn

LEMMA NextReadable ==
    ASSUME IInv, Readable, [Next]_vars
    PROVE  Readable'
<1>1. CASE Proceeds \/ GivesUp \/ UNCHANGED vars
  BY <1>1 DEF Proceeds, GivesUp, vars, Readable, Torn
<1>2. CASE DeviceEdit \/ DesktopEdit \/ OtherPcSync \/ ReadTornFile
  BY <1>2 DEF DeviceEdit, DesktopEdit, OtherPcSync, ReadTornFile, Readable
<1>3. CASE StartSync \/ CloseAndSave \/ TearFile
  BY <1>3 DEF StartSync, CloseAndSave, TearFile, Readable, Torn
<1>4. QED
  BY <1>1, <1>2, <1>3, InnerSteps DEF Next, SyncStep, Finish

\* The abstract specification's words mean what they mean here, once the running
\* sync is taken back.
LEMMA SameWords ==
    /\ TWS!Keys = Keys
    /\ \A r : /\ TWS!Edited(r) <=> Edited(r)
              /\ TWS!LiveEdit(r) <=> LiveEdit(r)
              /\ TWS!Modified(r) <=> Modified(r)
              /\ TWS!Is(r, "live") <=> IsLive(r)
    /\ \A r, k : TWS!Synced(r, k) = Synced(r, k)
BY DEF TWS!Keys, Keys, TWS!Edited, Edited, TWS!LiveEdit, LiveEdit, IsLive,
       TWS!Modified, Modified, TWS!Is, TWS!Synced, Synced

\* So do its conflicts, while a sync runs.
LEMMA SameConflicts ==
    ASSUME phase # "idle"
    PROVE  /\ TWS!Conflicts = Contested
           /\ \A n : TWS!Touched(n) <=> Modified(startDevice[n]) \/ Modified(file[n])
BY SameWords DEF TWS!Conflicts, Contested, TWS!Touched, SettledDevice

\* The merge of two databases is the abstract specification's.
LEMMA SameMerge ==
    ASSUME phase # "idle",
           NEW keep \in [Contested -> {"device", "desktop"}],
           NEW copy \in [Contested -> {n \in Ids : startDevice[n] = NoRecord
                                                  /\ file[n] = NoRecord}],
           NEW db
    PROVE  TWS!Merged(db, keep, copy) = Merge(db, keep, copy)
<1> DEFINE kept(k)   == IF keep[k] = "device" THEN startDevice[k] ELSE file[k]
           other(k)  == IF keep[k] = "device" THEN file[k] ELSE startDevice[k]
           copied(n) == CHOOSE k \in TWS!Conflicts : copy[k] = n
           copies    == {copy[k] : k \in TWS!Conflicts}
           here(n)   == IF n \in Contested THEN Synced(kept(n), n)
                        ELSE IF n \in copies THEN Synced(other(copied(n)), n)
                        ELSE IF ~Modified(startDevice[n]) /\ ~Modified(file[n]) THEN db[n]
                        ELSE IF LiveEdit(startDevice[n]) THEN Synced(startDevice[n], n)
                        ELSE IF LiveEdit(file[n]) THEN Synced(file[n], n)
                        ELSE NoRecord
           there(n)  == CASE n \in TWS!Conflicts -> TWS!Synced(kept(n), n)
                          [] n \in copies -> TWS!Synced(other(copied(n)), n)
                          [] n \notin copies /\ ~TWS!Touched(n) -> db[n]
                          [] n \notin TWS!Conflicts /\ TWS!LiveEdit(startDevice[n])
                                -> TWS!Synced(startDevice[n], n)
                          [] n \notin TWS!Conflicts /\ TWS!LiveEdit(file[n])
                                -> TWS!Synced(file[n], n)
                          [] OTHER -> NoRecord
<1>1. TWS!Conflicts = Contested /\ TWS!Keys = Keys /\ SettledDevice = startDevice
  BY SameConflicts, SameWords DEF SettledDevice
<1>2. \A n \in copies : startDevice[n] = NoRecord /\ file[n] = NoRecord
  BY <1>1
<1>3. \A n : (\E k \in Contested : copy[k] = n) <=> n \in copies
  BY <1>1
<1>4. \A n : copied(n) = CHOOSE k \in Contested : copy[k] = n
  BY <1>1
<1>5. \A k \in Contested : k \notin copies /\ Modified(startDevice[k])
  BY <1>2 DEF Contested, Edited, Modified
<1>6. Merge(db, keep, copy) = [n \in Keys |-> here(n)]
  BY <1>3, <1>4 DEF Merge
<1>7. TWS!Merged(db, keep, copy) = [n \in TWS!Keys |-> there(n)]
  BY <1>1 DEF TWS!Merged
<1> HIDE DEF kept, other, copied, copies
<1>8. ASSUME NEW n \in Keys PROVE here(n) = there(n)
  <2>1. ~(LiveEdit(startDevice[n]) /\ LiveEdit(file[n])) \/ n \in Contested
    BY DEF Contested, LiveEdit, IsLive, Edited
  <2>2. LiveEdit(startDevice[n]) \/ LiveEdit(file[n]) =>
          /\ Modified(startDevice[n]) \/ Modified(file[n])
          /\ n \notin copies
    BY <1>2 DEF LiveEdit, IsLive, Modified
  <2>3. n \in Contested =>
          n \notin copies /\ (Modified(startDevice[n]) \/ Modified(file[n]))
    BY <1>5
  <2>4. /\ TWS!Touched(n) <=> Modified(startDevice[n]) \/ Modified(file[n])
        /\ TWS!LiveEdit(startDevice[n]) <=> LiveEdit(startDevice[n])
        /\ TWS!LiveEdit(file[n]) <=> LiveEdit(file[n])
        /\ \A r : TWS!Synced(r, n) = Synced(r, n)
    BY SameWords, SameConflicts
  <2>5. CASE n \in Contested
    BY <1>1, <2>3, <2>4, <2>5
  <2>6. CASE n \in copies
    BY <1>1, <1>5, <2>2, <2>4, <2>6
  <2>7. CASE n \notin Contested /\ n \notin copies /\ ~TWS!Touched(n)
    BY <1>1, <2>2, <2>4, <2>7
  <2>8. CASE n \notin Contested /\ n \notin copies /\ TWS!Touched(n)
    BY <1>1, <2>1, <2>4, <2>8
  <2> HIDE DEF here, there
  <2>9. QED
    BY <2>5, <2>6, <2>7, <2>8
<1>9. QED
  <2> HIDE DEF here, there
  <2>1. QED
    BY <1>1, <1>6, <1>7, <1>8

\* The merge that a fast sync makes is the one step of the abstract sync, and so
\* it is when only the device keeps it.
LEMMA MergeIsSync ==
    ASSUME phase # "idle", ~Torn, phase' = "idle",
           NEW desk, FastOutcome(device', desk),
           \/ result' = "ok" /\ file' = desk
           \/ result' = "torn" /\ file' = EmptyDb
    PROVE  TWS!Sync
<1>1. PICK keep \in [Contested -> {"device", "desktop"}],
           copy \in [Contested -> {n \in Ids : startDevice[n] = NoRecord
                                             /\ file[n] = NoRecord}] :
        /\ \A j, k \in Contested : copy[j] = copy[k] => j = k
        /\ device' = Merge(startDevice, keep, copy)
        /\ desk = Merge(file, keep, copy)
  BY DEF FastOutcome
<1>2. /\ TWS!Conflicts = Contested /\ TWS!Keys = Keys
      /\ SettledDevice = startDevice /\ SettledDevice' = device'
  BY SameConflicts, SameWords DEF SettledDevice
<1>3. /\ device' = TWS!Merged(startDevice, keep, copy)
      /\ desk = TWS!Merged(file, keep, copy)
  BY <1>1, SameMerge
<1>4. EmptyDb = [n \in TWS!Keys |-> NoRecord]
  BY <1>2 DEF EmptyDb
<1>5. /\ SyncOutcome # "torn"
      /\ result' = "ok" => SyncOutcome' = "merged"
      /\ result' = "torn" => SyncOutcome' = "torn"
  BY DEF SyncOutcome, Torn
<1>6. \/ file' = TWS!Merged(file, keep, copy) /\ SyncOutcome' = "merged"
      \/ file' = [n \in TWS!Keys |-> NoRecord] /\ SyncOutcome' = "torn"
  BY <1>3, <1>4, <1>5
<1>7. QED
  BY <1>1, <1>2, <1>3, <1>5, <1>6 DEF TWS!Sync

\* A user's edit changes one record, which then counts as modified.
LEMMA EditTouchesOne ==
    ASSUME IInv, DeviceEdit \/ DesktopEdit
    PROVE  /\ DeviceEdit => \E k \in Keys :
                /\ Modified(device'[k]) /\ \A j \in Keys \ {k} : device'[j] = device[j]
           /\ DesktopEdit => \E k \in Keys :
                /\ Modified(file'[k]) /\ \A j \in Keys \ {k} : file'[j] = file[j]
<1>1. /\ device \in Db /\ file \in Db /\ NoRecord \notin Record /\ Ids \subseteq Keys
      /\ DesktopNewIds \subseteq Keys /\ FreshIds \subseteq Ids
  BY ConstantsAssumption DEF IInv, TypeOK, Keys, FreshIds
<1>2. ASSUME NEW r \in Record, NEW e \in UserEdits(r)
      PROVE  Modified(e)
  <2>1. e \in Record /\ e # NoRecord
    BY <1>1, UserEditsTyped
  <2>2. e.dirty \/ e.status # "live"
    BY DEF UserEdits, Record, Statuses
  <2>3. QED
    BY <2>1, <2>2 DEF Modified
<1>3. ASSUME NEW k \in Keys, NEW d \in Data
      PROVE  Modified(NewRecord(k, d))
  <2>1. NewRecord(k, d) \in Record /\ NewRecord(k, d) # NoRecord
    BY <1>1, NewRecordTyped
  <2>2. NewRecord(k, d).dirty
    BY DEF NewRecord
  <2>3. QED
    BY <2>1, <2>2 DEF Modified
<1>4. ASSUME NEW db \in Db, NEW k \in Keys, NEW r, NEW f, f = [db EXCEPT ![k] = r],
             Modified(r)
      PROVE  \E n \in Keys : Modified(f[n]) /\ \A j \in Keys \ {n} : f[j] = db[j]
  BY <1>4 DEF Db
<1>5. \A db \in Db, k \in Keys : db[k] # NoRecord => db[k] \in Record
  BY DEF Db
<1>6. DeviceEdit => \E k \in Keys : \E r : Modified(r) /\ device' = [device EXCEPT ![k] = r]
  BY <1>1, <1>2, <1>3, <1>5 DEF DeviceEdit
<1>7. DesktopEdit => \E k \in Keys : \E r : Modified(r) /\ file' = [file EXCEPT ![k] = r]
  BY <1>1, <1>2, <1>3, <1>5 DEF DesktopEdit
<1>8. QED
  BY <1>1, <1>4, <1>6, <1>7

\* Every step outside slow syncs maps to a step of the abstract specification, or
\* to none.
LEMMA StepTwoWay ==
    ASSUME ~slow, ~OtherPcSync, Readable, IInv, MInv, [Next]_vars
    PROVE  [TWS!Next]_<<SettledDevice, file, SyncOutcome>>
<1>1. CASE Proceeds \/ ReadTornFile \/ UNCHANGED vars
  BY <1>1 DEF Proceeds, ReadTornFile, vars, session, SettledDevice, SyncOutcome
<1>2. CASE StartSync
  BY <1>2 DEF StartSync, SettledDevice, SyncOutcome
<1>3. CASE GivesUp
  <2>1. \A k \in Keys : LiveEdit(startDevice[k]) =>
          IsLive(device'[k]) /\ device'[k].data = startDevice[k].data
    BY <1>3, SameWords DEF GivesUp, IInv, DeviceEditsKept
  <2>2. SyncOutcome # "torn" /\ SyncOutcome' = "interrupted"
    BY <1>3 DEF GivesUp, Readable, Torn, SyncOutcome
  <2>3. TWS!Interrupted
    BY <1>3, <2>1, <2>2, SameWords DEF GivesUp, SettledDevice, TWS!Interrupted
  <2>4. QED
    BY <2>3 DEF TWS!Next
<1>4. CASE CloseAndSave \/ TearFile
  <2>1. Outcome(device', desktop)
    BY <1>4 DEF CloseAndSave, TearFile, MInv, Finishing
  <2>2. FastOutcome(device', desktop)
    BY <2>1 DEF Outcome
  <2>3. TWS!Sync
    BY <1>4, <2>2, MergeIsSync DEF CloseAndSave, TearFile, Readable
  <2>4. QED
    BY <2>3 DEF TWS!Next
<1>5. CASE DeviceEdit
  <2>1. /\ SettledDevice = device /\ SettledDevice' = device'
        /\ file' = file /\ SyncOutcome' = SyncOutcome
        /\ \E k \in Keys : /\ Modified(device'[k])
                           /\ \A j \in Keys \ {k} : device'[j] = device[j]
    BY <1>5, EditTouchesOne DEF DeviceEdit, SettledDevice, SyncOutcome
  <2>2. TWS!Edit
    BY <2>1, SameWords DEF TWS!Edit
  <2>3. QED
    BY <2>2 DEF TWS!Next
<1>6. CASE DesktopEdit
  <2>1. /\ SettledDevice' = SettledDevice /\ SyncOutcome' = SyncOutcome
        /\ SyncOutcome # "torn"
        /\ \E k \in Keys : /\ Modified(file'[k])
                           /\ \A j \in Keys \ {k} : file'[j] = file[j]
    BY <1>6, EditTouchesOne DEF DesktopEdit, Torn, SettledDevice, SyncOutcome
  <2>2. TWS!Edit
    BY <2>1, SameWords DEF TWS!Edit
  <2>3. QED
    BY <2>2 DEF TWS!Next
<1>7. QED
  BY <1>1, <1>2, <1>3, <1>4, <1>5, <1>6, InnerSteps
     DEF Next, SyncStep, Finish

\* Each fast sync is an atomic merge, or is given up and leaves the file and the
\* device's live edits alone, or has merged all but the file, which it has cut
\* short: after any syncs with other PCs, slow syncs and failures.
THEOREM FastSyncsAreMerges == Spec => FastSyncsMerge
<1>1. (Init => Readable) /\ (IInv /\ Readable /\ [Next]_vars => Readable')
  BY NextReadable DEF Init, Readable, Torn
<1>2. Readable /\ IInv /\ MInv /\ [Next]_vars =>
        [~slow /\ ~OtherPcSync =>
           [TWS!Next]_<<SettledDevice, file, SyncOutcome>>]_vars
  BY StepTwoWay
<1>3. QED
  BY <1>1, <1>2, MergeInvariance, PTL DEF Spec, FastSyncsMerge

\* With one PC, fastSync() is an atomic merge of what the two users left; or it is
\* given up, and then the file is as it was and no edit of the device is lost; or
\* the write of the file is cut short, and then the device has the whole merge:
\* whichever step fails, whatever ids the users' programs give, for any databases.
THEOREM FastSyncImplements == ~OtherPcs => (Spec => ImplementsTwoWaySync)
<1>1. Init => OnePc
  BY InitOnePc
<1>2. ~OtherPcs /\ OnePc /\ [Next]_vars => OnePc'
  BY NextOnePc
<1>3. (Init => Readable) /\ (IInv /\ Readable /\ [Next]_vars => Readable')
  BY NextReadable DEF Init, Readable, Torn
<1>4. ~OtherPcs /\ OnePc /\ Readable /\ IInv /\ MInv /\ [Next]_vars =>
         [TWS!Next]_<<SettledDevice, file, SyncOutcome>>
  BY StepTwoWay DEF OnePc, OtherPcSync
<1>5. CASE ~OtherPcs
  BY <1>1, <1>2, <1>3, <1>4, <1>5, MergeInvariance, PTL
     DEF Spec, ImplementsTwoWaySync, TWS!Spec
<1>6. QED
  BY <1>5

-----------------------------------------------------------------------------
(* As long as nothing fails.                                               *)

\* No request fails, there is no other PC, desktop programs give new records an
\* id, and no record is archived unmodified before the first sync.
Undisturbed ==
    ~Faults /\ ~OtherPcs /\ ~InitArchived /\ 0 \notin DesktopNewIds

\* The flags of the two databases tell the truth about each other.
Truth(dev, desk) ==
    \A k \in Keys :
        /\ IsUnchanged(dev[k]) => desk[k] # NoRecord
        /\ IsUnchanged(desk[k]) => dev[k] # NoRecord
        /\ IsUnchanged(dev[k]) /\ IsUnchanged(desk[k]) => dev[k].data = desk[k].data

\* Then the flags tell the truth between two syncs, told it when the running one
\* began, and every sync so far has succeeded.
Calm ==
    /\ OnePc /\ result \in {"none", "ok"}
    /\ IF phase = "idle" THEN Truth(device, file) /\ device[0] = NoRecord
                         ELSE Truth(startDevice, file) /\ startDevice[0] = NoRecord
    /\ file[0] = NoRecord

\* The first download leaves flags that tell the truth.
LEMMA InitCalm == Undisturbed /\ Init => Calm
<1> SUFFICES ASSUME Undisturbed, Init PROVE Calm
  OBVIOUS
<1>1. /\ device \in Db /\ phase = "idle" /\ result = "none" /\ file = CleanUp(device)
  BY InitIInv DEF Init, IInv, TypeOK
<1>2. /\ 0 \in Keys /\ 0 \notin InitIds /\ NoRecord \notin Record
  BY ConstantsAssumption DEF Keys
<1>3. device[0] = NoRecord
  BY <1>2 DEF Init
<1>4. \A k \in Keys : device[k] # NoRecord /\ device[k].status = "archived" => device[k].dirty
  BY DEF Init, Undisturbed
<1>5. \A k \in Keys : file[k] = Settled(device[k])
  BY <1>1, CleanUpSettles
<1>6. ASSUME NEW k \in Keys
      PROVE  /\ file[k] # NoRecord => device[k] # NoRecord
             /\ IsUnchanged(device[k]) =>
                   file[k] # NoRecord /\ file[k].data = device[k].data
  <2>1. file[k] # NoRecord => device[k] # NoRecord
    BY <1>5 DEF Settled, IsLive
  <2>2. CASE IsUnchanged(device[k])
    <3>1. device[k] \in Record /\ device[k].status = "live" /\ ~device[k].dirty
      BY <1>1, <1>4, <2>2 DEF IsUnchanged, Db, Record, Statuses
    <3>2. file[k] = device[k]
      BY <1>5, <3>1, CleanSettled
    <3>3. QED
      BY <2>1, <2>2, <3>2 DEF IsUnchanged
  <2>3. QED
    BY <2>1, <2>2
<1>7. Truth(device, file)
  BY <1>6 DEF Truth, IsUnchanged
<1>8. QED
  BY <1>1, <1>2, <1>3, <1>5, <1>7, InitOnePc DEF Calm, Settled, IsLive

\* An edit leaves the flags of a record truthful: what it does not flag, it does
\* not change.
LEMMA EditFlags ==
    ASSUME NEW r \in Record, r.status = "live", NEW e \in UserEdits(r)
    PROVE  /\ e # NoRecord
           /\ IsUnchanged(e) => IsUnchanged(r) /\ e.data = r.data
<1>1. e \in Record /\ r # NoRecord /\ e # NoRecord
  BY UserEditsTyped, ConstantsAssumption
<1>2. ASSUME IsUnchanged(e) PROVE IsUnchanged(r) /\ e.data = r.data
  <2>1. ~e.dirty /\ e.status # "deleted"
    BY <1>2 DEF IsUnchanged
  <2>2. e = [r EXCEPT !.status = "archived"]
    BY <2>1 DEF UserEdits, Record, Statuses
  <2>3. QED
    BY <1>1, <2>1, <2>2 DEF IsUnchanged, Record
<1>3. QED
  BY <1>1, <1>2

\* Nor does it make the other record look wrong.
LEMMA EditOK ==
    ASSUME NEW db \in Db, NEW other \in Db, Truth(db, other) \/ Truth(other, db),
           NEW k \in Keys, NEW e, e # NoRecord,
           IsUnchanged(e) => IsUnchanged(db[k]) /\ e.data = db[k].data
    PROVE  LET f == [db EXCEPT ![k] = e]
           IN  /\ Truth(db, other) => Truth(f, other)
               /\ Truth(other, db) => Truth(other, f)
<1> DEFINE f == [db EXCEPT ![k] = e]
<1>1. f[k] = e /\ \A j \in Keys \ {k} : f[j] = db[j]
  BY DEF Db
<1> HIDE DEF f
<1>2. Truth(db, other) => Truth(f, other)
  BY <1>1 DEF Truth
<1>3. Truth(other, db) => Truth(other, f)
  BY <1>1 DEF Truth
<1>4. QED
  BY <1>2, <1>3 DEF f

\* Users keep it so.
LEMMA EditsCalm ==
    ASSUME Undisturbed, IInv, Calm, DeviceEdit \/ DesktopEdit
    PROVE  Calm'
<1>1. /\ device \in Db /\ file \in Db /\ NoRecord \notin Record /\ Ids \subseteq Keys
      /\ DesktopNewIds \subseteq Keys /\ FreshIds \subseteq Ids /\ 0 \notin Ids
      /\ 0 \notin DesktopNewIds /\ 0 \in Keys
  BY ConstantsAssumption DEF IInv, TypeOK, Keys, FreshIds, Undisturbed
<1>2. /\ phase = "idle" /\ phase' = "idle" /\ result' = result
      /\ UNCHANGED <<slow, lastSyncPc>>
  BY DEF DeviceEdit, DesktopEdit, session
<1>3. Truth(device, file) /\ device[0] = NoRecord /\ file[0] = NoRecord
  BY <1>2 DEF Calm
<1>4. \A k \in Keys, d \in Data :
        NewRecord(k, d) # NoRecord /\ ~IsUnchanged(NewRecord(k, d))
  <2> SUFFICES ASSUME NEW k \in Keys, NEW d \in Data
               PROVE  NewRecord(k, d) # NoRecord /\ ~IsUnchanged(NewRecord(k, d))
    OBVIOUS
  <2>1. NewRecord(k, d) \in Record
    BY NewRecordTyped
  <2>2. QED
    BY <1>1, <2>1 DEF NewRecord, IsUnchanged
<1>5. ASSUME NEW db \in Db, NEW k \in Keys, db[k] # NoRecord, db[k].status = "live",
             NEW e \in UserEdits(db[k])
      PROVE  e # NoRecord /\ (IsUnchanged(e) => IsUnchanged(db[k]) /\ e.data = db[k].data)
  BY <1>5, EditFlags DEF Db
<1>6. CASE DeviceEdit
  <2>1. \E k \in Keys : \E e :
          /\ k # 0 /\ e # NoRecord /\ device' = [device EXCEPT ![k] = e]
          /\ IsUnchanged(e) => IsUnchanged(device[k]) /\ e.data = device[k].data
    BY <1>1, <1>4, <1>5, <1>6 DEF DeviceEdit
  <2>2. PICK k \in Keys : \E e :
          /\ k # 0 /\ e # NoRecord /\ device' = [device EXCEPT ![k] = e]
          /\ IsUnchanged(e) => IsUnchanged(device[k]) /\ e.data = device[k].data
    BY <2>1
  <2>3. PICK e :
          /\ k # 0 /\ e # NoRecord /\ device' = [device EXCEPT ![k] = e]
          /\ IsUnchanged(e) => IsUnchanged(device[k]) /\ e.data = device[k].data
    BY <2>2
  <2>4. Truth(device', file)
    BY <1>1, <1>3, <2>3, EditOK
  <2>5. file' = file /\ device'[0] = NoRecord
    BY <1>1, <1>3, <1>6, <2>3 DEF DeviceEdit, Db
  <2>6. QED
    BY <1>2, <1>3, <2>4, <2>5 DEF Calm, OnePc
<1>7. CASE DesktopEdit
  <2>1. \E k \in Keys : \E e :
          /\ k # 0 /\ e # NoRecord /\ file' = [file EXCEPT ![k] = e]
          /\ IsUnchanged(e) => IsUnchanged(file[k]) /\ e.data = file[k].data
    <3>1. CASE \E k \in Keys : /\ file[k] # NoRecord /\ file[k].status = "live"
                                /\ \E e \in UserEdits(file[k]) :
                                      file' = [file EXCEPT ![k] = e]
      <4>1. PICK k \in Keys : /\ file[k] # NoRecord /\ file[k].status = "live"
                             /\ \E e \in UserEdits(file[k]) :
                                   file' = [file EXCEPT ![k] = e]
        BY <3>1
      <4>2. PICK e \in UserEdits(file[k]) : file' = [file EXCEPT ![k] = e]
        BY <4>1
      <4>3. e # NoRecord /\ (IsUnchanged(e) => IsUnchanged(file[k]) /\ e.data = file[k].data)
        BY <1>1, <1>5, <4>1
      <4>4. k # 0
        BY <1>3, <4>1
      <4>5. QED
        BY <4>2, <4>3, <4>4
    <3>2. CASE \E k \in DesktopNewIds, d \in Data :
                  file' = [file EXCEPT ![k] = NewRecord(k, d)]
      BY <1>1, <1>4, <3>2
    <3>3. QED
      BY <1>7, <3>1, <3>2 DEF DesktopEdit
  <2>2. PICK k \in Keys : \E e :
          /\ k # 0 /\ e # NoRecord /\ file' = [file EXCEPT ![k] = e]
          /\ IsUnchanged(e) => IsUnchanged(file[k]) /\ e.data = file[k].data
    BY <2>1
  <2>3. PICK e :
          /\ k # 0 /\ e # NoRecord /\ file' = [file EXCEPT ![k] = e]
          /\ IsUnchanged(e) => IsUnchanged(file[k]) /\ e.data = file[k].data
    BY <2>2
  <2>4. Truth(device, file')
    BY <1>1, <1>3, <2>3, EditOK
  <2>5. device' = device /\ file'[0] = NoRecord
    BY <1>1, <1>3, <1>7, <2>3 DEF DesktopEdit, Db
  <2>6. QED
    BY <1>2, <1>3, <2>4, <2>5 DEF Calm, OnePc
<1>8. QED
  BY <1>6, <1>7

\* Two databases whose flags tell the truth merge into one.
LEMMA MergesAgree ==
    ASSUME IInv, Truth(startDevice, file), startDevice[0] = NoRecord, file[0] = NoRecord,
           NEW dev, NEW desk, FastOutcome(dev, desk)
    PROVE  dev = desk /\ dev[0] = NoRecord
<1>1. PICK keep \in [Contested -> {"device", "desktop"}],
           copy \in [Contested -> {n \in Ids : startDevice[n] = NoRecord
                                             /\ file[n] = NoRecord}] :
        /\ dev = Merge(startDevice, keep, copy)
        /\ desk = Merge(file, keep, copy)
  BY DEF FastOutcome
<1>2. ASSUME NEW n \in Keys, ~Modified(startDevice[n]), ~Modified(file[n])
      PROVE  startDevice[n] = file[n]
  <2>1. /\ startDevice[n] \in Record \cup {NoRecord} /\ file[n] \in Record \cup {NoRecord}
        /\ startDevice[n] # NoRecord => startDevice[n].id = n
        /\ file[n] # NoRecord => file[n].id = n
    BY DEF IInv, TypeOK, Db, Keyed
  <2>2. \A r : r # NoRecord /\ ~Modified(r) => IsUnchanged(r) /\ r.status = "live"
    BY DEF Modified, IsUnchanged
  <2>3. CASE startDevice[n] = NoRecord \/ file[n] = NoRecord
    BY <1>2, <2>2, <2>3 DEF Truth
  <2>4. CASE startDevice[n] # NoRecord /\ file[n] # NoRecord
    <3>1. startDevice[n] \in Record /\ file[n] \in Record
      BY <2>1, <2>4
    <3>2. /\ startDevice[n].data = file[n].data /\ startDevice[n].id = file[n].id
          /\ startDevice[n].status = "live" /\ file[n].status = "live"
      BY <1>2, <2>1, <2>2, <2>4 DEF Truth
    <3>3. startDevice[n].dirty = FALSE /\ file[n].dirty = FALSE
      BY <1>2, <2>4, <3>1 DEF Modified, Record
    <3>4. QED
      BY <3>1, <3>2, <3>3, SameRecord
  <2>5. QED
    BY <2>3, <2>4
<1>3. dev = desk
  BY <1>1, <1>2 DEF Merge
<1>4. 0 \in Keys /\ 0 \notin Contested /\ ~Modified(startDevice[0]) /\ ~Modified(file[0])
  BY DEF Keys, Contested, Edited, Modified
<1>5. ~\E k \in Contested : copy[k] = 0
  BY <1>1, ConstantsAssumption
<1>6. dev[0] = startDevice[0]
  BY <1>1, <1>4, <1>5 DEF Merge
<1>7. QED
  BY <1>3, <1>6

\* A sync that succeeds leaves the same records on both sides.
LEMMA SuccessAgrees ==
    ASSUME Undisturbed, IInv, MInv, Calm, CloseAndSave
    PROVE  device' = file' /\ file'[0] = NoRecord
<1>1. phase = "close" /\ device' = device /\ file' = desktop
  BY DEF CloseAndSave
<1>2. FastOutcome(device', file')
  BY <1>1 DEF MInv, Finishing, Outcome, Calm, OnePc
<1>3. QED
  BY <1>1, <1>2, MergesAgree DEF Calm

\* Every step keeps it.
LEMMA NextCalm ==
    ASSUME Undisturbed, IInv, MInv, Calm, [Next]_vars
    PROVE  Calm'
<1>1. OnePc'
  BY NextOnePc DEF Undisturbed, Calm
<1>2. CASE Proceeds
  BY <1>1, <1>2 DEF Proceeds, Calm
<1>3. CASE StartSync
  BY <1>1, <1>3 DEF StartSync, Calm
<1>4. CASE UNCHANGED vars
  BY <1>1, <1>4 DEF vars, session, Calm
<1>5. CASE Plan
  <2>1. IInv'
    BY NextIInv
  <2>2. ASSUME NEW k \in Keys, Row(startDevice[k], file[k], slow) = Unexpected
        PROVE  FALSE
    <3>1. /\ RowFor(Row(startDevice[k], file[k], slow), startDevice[k], file[k], slow)
      BY Pairs
    <3>2. \/ startDevice[k] = NoRecord /\ IsUnchanged(file[k])
          \/ file[k] = NoRecord /\ IsUnchanged(startDevice[k])
      BY <2>2, <3>1 DEF RowFor, IsUnchanged
    <3>3. phase # "idle"
      BY <1>5 DEF Plan, PlanDeviceRecord, ReadDesktopRecords, PlanDesktopRecord,
                  SkipDesktopRecord, ExecuteActions
    <3>4. QED
      BY <3>2, <3>3 DEF Calm, Truth
  <2>3. phase' # "idle"
    BY <1>5, <2>1, <2>2, PlanMerge
  <2>4. Proceeds
    BY <1>5, <2>3, InnerSteps DEF GivesUp
  <2>5. QED
    BY <1>2, <2>4
<1>6. CASE Execute
  <2>1. UNCHANGED result
    BY <1>6, ExecuteMerge DEF Calm
  <2>2. Proceeds
    BY <1>6, <2>1, InnerSteps DEF GivesUp, Calm
  <2>3. QED
    BY <1>2, <2>2
<1>7. CASE CleanUpDevice \/ ResetSyncFlags \/ CleanUpDesktop
  <2>1. Proceeds
    BY <1>7, InnerSteps DEF GivesUp, CleanUpDevice, ResetSyncFlags, CleanUpDesktop
  <2>2. QED
    BY <1>2, <2>1
<1>8. CASE CloseAndSave
  <2>1. device' = file' /\ file'[0] = NoRecord
    BY <1>8, SuccessAgrees
  <2>2. Truth(device', file')
    BY <2>1 DEF Truth, IsUnchanged
  <2>3. phase' = "idle" /\ result' = "ok"
    BY <1>8 DEF CloseAndSave
  <2>4. QED
    BY <1>1, <2>1, <2>2, <2>3 DEF Calm
<1>9. ~DlpFailure /\ ~TearFile /\ ~OtherPcSync /\ ~ReadTornFile
  BY DEF Undisturbed, DlpFailure, TearFile, OtherPcSync, ReadTornFile, Torn, Calm
<1>10. QED
  BY <1>3, <1>4, <1>5, <1>6, <1>7, <1>8, <1>9, EditsCalm DEF Next, SyncStep, Finish

\* So it holds in every behaviour in which nothing disturbs the syncs.
LEMMA CalmInvariant == Undisturbed => (Spec => [](IInv /\ MInv /\ Calm))
<1>1. CASE Undisturbed
  <2>1. Init => Calm
    BY <1>1, InitCalm
  <2>2. IInv /\ MInv /\ Calm /\ [Next]_vars => Calm'
    BY <1>1, NextCalm
  <2>3. QED
    BY <2>1, <2>2, MergeInvariance, PTL DEF Spec
<1>2. QED
  BY <1>1

\* Undisturbed, the sync code never stops a sync: the rows of RECORD_SYNC_LOGIC
\* that "should not happen" do not, an id that comes back is the one asked for,
\* and what is archived or deleted is there to be.
THEOREM SyncsNeverBreak == Undisturbed => (Spec => []NoInternalError)
<1>1. Calm => NoInternalError
  BY DEF Calm, NoInternalError
<1>2. QED
  BY <1>1, CalmInvariant, PTL

\* Undisturbed, an unmodified record is known to the other side with the same
\* content whenever no sync runs: what a fast sync, which reads only modified
\* records, rests on.
THEOREM FlagsStayTruthful == Undisturbed => (Spec => []FlagsTellTheTruth)
<1>1. Calm => FlagsTellTheTruth
  BY DEF Calm, Truth, FlagsTellTheTruth
<1>2. QED
  BY <1>1, CalmInvariant, PTL

\* "After a successful HotSync, both devices are guaranteed to end up with the
\* same" records: undisturbed they do, whatever the users edited, in every sync.
THEOREM SyncsConverge == Undisturbed => (Spec => SyncConverges)
<1>1. CASE Undisturbed
  <2>1. IInv /\ MInv /\ Calm /\ [Next]_vars => [SyncSucceeds => device' = file']_vars
    BY <1>1, SuccessCloses, SuccessAgrees
  <2>2. QED
    BY <1>1, <2>1, CalmInvariant, PTL DEF Spec, SyncConverges
<1>2. QED
  BY <1>1
=============================================================================

----------------------- MODULE HotSyncSession_proofs -----------------------
(***************************************************************************)
(* Theorems about HotSyncSession, for any number of folders, PCs, users    *)
(* and databases: a backup never gives way to one that holds less, and     *)
(* what a fast sync rests on is true, so that a session that ends well     *)
(* leaves an up-to-date backup.                                            *)
(***************************************************************************)
EXTENDS HotSyncSession, TLAPS

-----------------------------------------------------------------------------
(* The inductive invariant.                                                *)

\* The databases that are never installed.
Ordinary == Dbs \ Resources

\* What the device remembers of its user and of its last sync.
Known ==
    /\ userInfo \in [userName : {Name[s] : s \in Stores} \cup {None},
                     lastSyncPc : {Pc[s] : s \in Stores} \cup {None}]
    /\ userInfo.userName = None => userInfo.lastSyncPc = None

FlagsInside(db) == Has(db) => db.flagged \subseteq db.edits

Files ==
    /\ \A d \in Ordinary : FlagsInside(device[d])
    /\ \A s \in Stores, d \in Ordinary :
          /\ FlagsInside(backup[s][d]) /\ FlagsInside(queued[s][d])
          /\ install[s][d] = Absent
          /\ queued[s][d] # Absent => ~Has(backup[s][d])
    /\ \A s \in Stores, d \in Dbs :
          s \notin folders => backup[s][d] = Absent /\ queued[s][d] = Absent

\* Nothing is torn or lost unless something has failed.
Unfailed ==
    faults = 0 =>
      /\ \A s \in Stores, d \in Dbs : backup[s][d] = Truncated => queued[s][d] # Absent
      /\ resets = 0 => \A d \in Ordinary : Has(device[d])

\* The session there is: its folder, its kind, and what its conduits may
\* count on.
InSession ==
    /\ store \in folders /\ syncType \in SyncTypes
    /\ userInfo.userName \in {None, Name[store]}
    /\ newlySet = (userInfo.userName = None)

BeforeSync ==
    /\ \A d \in Dbs : queued[store][d] = Absent
    /\ phase # "list" => syncType = "SLOW_SYNC"
    /\ phase = "restore" => \A d \in todo : Has(backup[store][d])
    /\ phase = "list" => todo = {}
    /\ syncType = "FIRST_SYNC" => \A d \in Dbs : backup[store][d] = Absent

Listed ==
    /\ todo \subseteq dbList
    /\ \A d \in dbList : Has(device[d])
    /\ \A d \in Dbs : queued[store][d] # Absent =>
          Has(device[d]) /\ queued[store][d].edits = device[d].edits

Session ==
    /\ Idle => todo = {}
    /\ ~Idle => InSession
    /\ phase \in {"readBackup", "restore", "list"} => BeforeSync
    /\ phase = "syncDbs" =>
          IF syncType = "FIRST_SYNC"
          THEN \A d \in todo : queued[store][d] = Absent /\ backup[store][d] = Absent
          ELSE \A d \in Dbs : queued[store][d] = Absent
    /\ phase \in {"syncDbs", "download"} => Listed
    /\ phase \in {"syncDbs", "download", "install"} =>
          \A d \in Ordinary : Has(device[d]) => d \in dbList
    /\ phase = "install" =>
          \A d \in todo : Has(toInstall[d]) /\ install[store][d] # Absent

IInv == TypeOK /\ Known /\ Files /\ Unfailed /\ Session

-----------------------------------------------------------------------------
(* Databases.                                                              *)

LEMMA Constants ==
    /\ Absent \notin Database /\ Truncated \notin Database /\ Absent # Truncated
    /\ None \notin Stores
    /\ \A s \in Stores : Pc[s] # None /\ Name[s] # None
    /\ MaxEdits \in Nat /\ MaxSyncs \in Nat /\ MaxResets \in Nat /\ MaxFaults \in Nat
BY SessionAssumption

LEMMA DatabaseIs ==
    ASSUME NEW db
    PROVE  Has(db) <=> /\ db = [edits |-> db.edits, flagged |-> db.flagged]
                       /\ db.edits \subseteq Edits /\ db.flagged \subseteq Edits
BY DEF Has, Database

LEMMA EditedIs ==
    ASSUME NEW db, NEW e \in Edits
    PROVE  /\ Has(Edited(db, e))
           /\ Edited(db, e).edits = IF Has(db) THEN db.edits \cup {e} ELSE {e}
           /\ Edited(db, e).flagged = IF Has(db) THEN db.flagged \cup {e} ELSE {e}
           /\ FlagsInside(db) => FlagsInside(Edited(db, e))
BY DEF Has, Database, Edited, FlagsInside

LEMMA MergedIs ==
    ASSUME NEW db, NEW other, Has(db), Has(other)
    PROVE  /\ Has(Merged(db, other)) /\ FlagsInside(Merged(db, other))
           /\ Merged(db, other).edits = db.edits \cup Moved(other)
           /\ Merged(db, other).flagged = {}
           /\ Moved(other) = IF syncType = "FAST_SYNC" THEN other.flagged ELSE other.edits
           /\ Moved(other) \subseteq Edits
BY DEF Has, Database, Merged, Moved, FlagsInside

LEMMA DownloadedIs ==
    ASSUME NEW db, Has(db)
    PROVE  LET q == [edits |-> db.edits, flagged |-> {}]
           IN  /\ Has(q) /\ FlagsInside(q) /\ q.edits = db.edits /\ q.flagged = {}
               /\ q # Absent
BY Constants DEF Has, Database, FlagsInside

\* One file of one folder is replaced.
LEMMA Replaced ==
    ASSUME NEW A, NEW B, NEW C, NEW f \in [A -> [B -> C]],
           NEW a \in A, NEW b \in B, NEW c \in C
    PROVE  LET g == [f EXCEPT ![a][b] = c]
           IN  /\ g \in [A -> [B -> C]]
               /\ g[a][b] = c
               /\ \A x \in A, y \in B : x # a \/ y # b => g[x][y] = f[x][y]
OBVIOUS

\* What a database may be when the conduit fails at it.
LEMMA HalfDoneIs ==
    ASSUME IInv, ~Idle, NEW d \in todo, device' \in HalfDone(d)
    PROVE  /\ device' \in [Dbs -> Database \cup {Absent}]
           /\ \A e \in Dbs : e # d => device'[e] = device[e]
           /\ FlagsInside(device[d]) /\ d \in Ordinary => FlagsInside(device'[d])
           /\ phase \in {"syncDbs", "download"} => Has(device'[d])
           /\ phase \in {"syncDbs", "download"} /\ ~Syncing(d) => device' = device
           /\ Syncing(d) /\ ~Has(backup[store][d]) => device' = device
           /\ phase \in {"syncDbs", "download"} => device[d].edits \subseteq device'[d].edits
           /\ phase = "install" => d \in Resources
<1>1. /\ device \in [Dbs -> Database \cup {Absent}] /\ d \in Dbs /\ store \in Stores
      /\ backup \in [Stores -> [Dbs -> Database \cup {Absent, Truncated}]]
  BY DEF IInv, TypeOK, Session, InSession
<1>2. PICK l : /\ device' = [device EXCEPT ![d] = l]
               /\ phase = "restore" => l \in PartlyWritten(d, backup[store][d])
               /\ phase = "install" => l \in PartlyWritten(d, toInstall[d])
               /\ Syncing(d) /\ Has(backup[store][d]) => l \in PartlyMerged(d)
               /\ phase \notin {"restore", "install"}
                     /\ ~(Syncing(d) /\ Has(backup[store][d])) => l = device[d]
  BY DEF HalfDone, Syncing
<1>3. ASSUME NEW db, Has(db), l \in PartlyWritten(d, db)
      PROVE  l \in Database \cup {Absent} /\ (FlagsInside(device[d]) => FlagsInside(l))
  BY <1>1, <1>3, Constants DEF PartlyWritten, Has, Database, FlagsInside
<1>4. ASSUME Has(device[d]), Has(backup[store][d]), l \in PartlyMerged(d)
      PROVE  /\ Has(l) /\ device[d].edits \subseteq l.edits
             /\ FlagsInside(device[d]) => FlagsInside(l)
  <2>1. CASE l = Merged(device[d], backup[store][d])
    BY <1>4, <2>1, MergedIs
  <2>2. CASE l # Merged(device[d], backup[store][d])
    <3>1. PICK part \in SUBSET Moved(backup[store][d]) :
             l = [device[d] EXCEPT !.edits = @ \cup part]
      BY <1>4, <2>2 DEF PartlyMerged
    <3>2. part \subseteq Edits
      BY <1>4, MergedIs
    <3> QED
      BY <1>4, <3>1, <3>2 DEF Has, Database, FlagsInside
  <2> QED
    BY <2>1, <2>2
<1>5. /\ phase \in {"syncDbs", "download"} => Has(device[d])
      /\ phase = "restore" => Has(backup[store][d])
      /\ phase = "install" => Has(toInstall[d]) /\ d \in Resources
  <2>1. /\ phase \in {"syncDbs", "download"} => Listed
        /\ phase = "restore" => BeforeSync
        /\ phase = "install" => Has(toInstall[d]) /\ install[store][d] # Absent
    BY DEF IInv, Session
  <2>2. d \in Ordinary => install[store][d] = Absent
    BY <1>1 DEF IInv, Files
  <2> QED
    BY <1>1, <2>1, <2>2 DEF Listed, BeforeSync, Ordinary
<1>6. device[d] \in Database \cup {Absent} /\ [device EXCEPT ![d] = device[d]] = device
  BY <1>1
<1>7. /\ l \in Database \cup {Absent}
      /\ FlagsInside(device[d]) /\ d \in Ordinary => FlagsInside(l)
      /\ phase \in {"syncDbs", "download"} => Has(l) /\ device[d].edits \subseteq l.edits
      /\ phase \in {"syncDbs", "download"} /\ ~(Syncing(d) /\ Has(backup[store][d])) =>
            l = device[d]
  <2>1. CASE phase = "restore"
    <3>1. l \in PartlyWritten(d, backup[store][d])
      BY <1>2, <2>1
    <3>2. l \in Database \cup {Absent} /\ (FlagsInside(device[d]) => FlagsInside(l))
      BY <1>3, <1>5, <2>1, <3>1
    <3> QED
      BY <2>1, <3>2
  <2>2. CASE phase = "install"
    <3>1. l \in PartlyWritten(d, toInstall[d])
      BY <1>2, <2>2
    <3>2. l \in Database \cup {Absent} /\ (FlagsInside(device[d]) => FlagsInside(l))
      BY <1>3, <1>5, <2>2, <3>1
    <3> QED
      BY <2>2, <3>2
  <2>3. CASE Syncing(d) /\ Has(backup[store][d])
    <3>1. phase = "syncDbs" /\ l \in PartlyMerged(d)
      BY <1>2, <2>3 DEF Syncing
    <3> QED
      BY <1>4, <1>5, <2>3, <3>1 DEF Has
  <2>4. CASE phase \notin {"restore", "install"} /\ ~(Syncing(d) /\ Has(backup[store][d]))
    <3>1. l = device[d]
      BY <1>2, <2>4
    <3> QED
      BY <1>5, <1>6, <3>1
  <2> QED
    BY <2>1, <2>2, <2>3, <2>4
<1>8. device'[d] = l /\ \A e \in Dbs : e # d => device'[e] = device[e]
  BY <1>1, <1>2
<1>9. device' \in [Dbs -> Database \cup {Absent}]
  BY <1>1, <1>2, <1>7
<1>10. l = device[d] => device' = device
  BY <1>2, <1>6
<1> QED
  BY <1>5, <1>7, <1>8, <1>9, <1>10 DEF Syncing

\* A session that ends leaves what the devices hold, if it loses no more.
LEMMA EndKeeps ==
    ASSUME IInv, ~Idle, NoSession, phase' = "idle",
           result' \in {"ok", "error", "crash"}, UNCHANGED <<world, faults, bounds>>
    PROVE  IInv'
<1>1. TypeOK'
  BY Constants DEF IInv, TypeOK, NoSession, world, bounds
<1>2. Known' /\ Files' /\ Unfailed'
  BY DEF IInv, Known, Files, FlagsInside, Unfailed, world, bounds
<1>3. Session'
  BY DEF Session, NoSession, Idle
<1> QED
  BY <1>1, <1>2, <1>3 DEF IInv

\* Whatever the conduit was doing when the session ended.
LEMMA LeftHalfDone ==
    ASSUME IInv, ~Idle, device' = device \/ \E d \in todo : device' \in HalfDone(d)
    PROVE  /\ device' \in [Dbs -> Database \cup {Absent}]
           /\ \A d \in Ordinary : FlagsInside(device'[d])
<1>1. CASE device' = device
  BY <1>1 DEF IInv, TypeOK, Files
<1>2. ASSUME NEW d \in todo, device' \in HalfDone(d)
      PROVE  /\ device' \in [Dbs -> Database \cup {Absent}]
             /\ \A x \in Ordinary : FlagsInside(device'[x])
  <2>1. /\ device' \in [Dbs -> Database \cup {Absent}]
        /\ \A e \in Dbs : e # d => device'[e] = device[e]
        /\ FlagsInside(device[d]) /\ d \in Ordinary => FlagsInside(device'[d])
    BY <1>2, HalfDoneIs
  <2> QED
    BY <2>1 DEF IInv, Files, Ordinary
<1> QED
  BY <1>1, <1>2

LEMMA DeviceEditKeeps ==
    ASSUME IInv, DeviceEdit
    PROVE  IInv'
<1>1. PICK d \in Ordinary : device' = [device EXCEPT ![d] = Edited(@, edits + 1)]
  BY DEF DeviceEdit, Ordinary
<1>2. edits + 1 \in Edits /\ edits' \in 0 .. MaxEdits
  BY Constants DEF IInv, TypeOK, DeviceEdit, NewEdit, Edits
<1>3. /\ d \in Dbs /\ device \in [Dbs -> Database \cup {Absent}]
      /\ Idle /\ FlagsInside(device[d])
  BY DEF IInv, TypeOK, Files, Ordinary, DeviceEdit, NewEdit
<1>4. /\ device'[d] = Edited(device[d], edits + 1)
      /\ \A x \in Dbs : x # d => device'[x] = device[x]
  BY <1>1, <1>3
<1>5. Has(device'[d]) /\ FlagsInside(device'[d])
  <2>1. /\ Has(Edited(device[d], edits + 1))
        /\ FlagsInside(Edited(device[d], edits + 1))
    BY <1>2, <1>3, EditedIs
  <2> QED
    BY <1>4, <2>1
<1>6. device' \in [Dbs -> Database \cup {Absent}]
  BY <1>1, <1>3, <1>4, <1>5 DEF Has
<1>7. TypeOK'
  BY <1>2, <1>6 DEF IInv, TypeOK, DeviceEdit, session
<1>8. Known'
  BY DEF IInv, Known, DeviceEdit
<1>9. Files'
  BY <1>4, <1>5 DEF IInv, Files, FlagsInside, Has, DeviceEdit, Ordinary
<1>10. Unfailed'
  BY <1>4, <1>5 DEF IInv, Unfailed, Has, DeviceEdit, Ordinary
<1>11. Session'
  BY <1>3 DEF IInv, Session, Idle, DeviceEdit, session
<1> QED
  BY <1>7, <1>8, <1>9, <1>10, <1>11 DEF IInv

LEMMA DesktopEditKeeps ==
    ASSUME IInv, DesktopEdit
    PROVE  IInv'
<1>1. PICK s \in Stores, d \in Ordinary :
         /\ Has(backup[s][d])
         /\ backup' = [backup EXCEPT ![s][d] = Edited(backup[s][d], edits + 1)]
  BY DEF DesktopEdit, Ordinary
<1>2. edits + 1 \in Edits /\ edits' \in 0 .. MaxEdits
  BY Constants DEF IInv, TypeOK, DesktopEdit, NewEdit, Edits
<1>3. d \in Dbs /\ Idle /\ FlagsInside(backup[s][d]) /\ queued[s][d] = Absent
  BY <1>1 DEF IInv, Files, Ordinary, DesktopEdit, NewEdit
<1>4. /\ Has(Edited(backup[s][d], edits + 1))
      /\ FlagsInside(Edited(backup[s][d], edits + 1))
  BY <1>2, <1>3, EditedIs
<1>5. Edited(backup[s][d], edits + 1) \in Database \cup {Absent, Truncated}
  BY <1>4 DEF Has
<1>6. backup \in [Stores -> [Dbs -> Database \cup {Absent, Truncated}]]
  BY DEF IInv, TypeOK
<1>7. /\ backup' \in [Stores -> [Dbs -> Database \cup {Absent, Truncated}]]
      /\ backup'[s][d] = Edited(backup[s][d], edits + 1)
      /\ \A t \in Stores, x \in Dbs : t # s \/ x # d => backup'[t][x] = backup[t][x]
  BY <1>1, <1>3, <1>5, <1>6, Replaced
<1>8. TypeOK'
  BY <1>2, <1>7 DEF IInv, TypeOK, DesktopEdit, session
<1>9. Known'
  BY DEF IInv, Known, DesktopEdit
<1>10. Files'
  <2>1. s \in folders
    BY <1>1, <1>3, Constants DEF IInv, Files, Has
  <2> QED
    BY <2>1, <1>3, <1>4, <1>7 DEF IInv, Files, FlagsInside, Has, DesktopEdit,
       Ordinary
<1>11. Unfailed'
  BY <1>4, <1>7, Constants DEF IInv, Unfailed, Has, DesktopEdit, Ordinary
<1>12. Session'
  BY <1>3 DEF IInv, Session, Idle, DesktopEdit, session
<1> QED
  BY <1>8, <1>9, <1>10, <1>11, <1>12 DEF IInv

LEMMA AddToInstallKeeps ==
    ASSUME IInv, AddToInstall
    PROVE  IInv'
<1>1. PICK s \in folders, d \in Resources, name \in FileNames :
         install' = [install EXCEPT ![s][d] =
                       [db |-> [edits |-> {edits + 1}, flagged |-> {}], name |-> name]]
  BY DEF AddToInstall
<1>2. /\ edits + 1 \in Edits /\ edits' \in 0 .. MaxEdits
      /\ s \in Stores /\ d \in Dbs /\ Idle
  BY Constants, SessionAssumption DEF IInv, TypeOK, AddToInstall, NewEdit, Edits
<1>3. [db |-> [edits |-> {edits + 1}, flagged |-> {}], name |-> name]
         \in [db : Database, name : FileNames] \cup {Absent}
  BY <1>2 DEF Database
<1>4. install \in [Stores -> [Dbs -> [db : Database, name : FileNames] \cup {Absent}]]
  BY DEF IInv, TypeOK
<1>5. /\ install' \in [Stores -> [Dbs -> [db : Database, name : FileNames] \cup {Absent}]]
      /\ \A t \in Stores, x \in Dbs : t # s \/ x # d => install'[t][x] = install[t][x]
  BY <1>1, <1>2, <1>3, <1>4, Replaced
<1>6. TypeOK'
  BY <1>2, <1>5 DEF IInv, TypeOK, AddToInstall, session
<1>7. Known'
  BY DEF IInv, Known, AddToInstall
<1>8. Files'
  BY <1>5 DEF IInv, Files, FlagsInside, AddToInstall, Ordinary
<1>9. Unfailed'
  BY DEF IInv, Unfailed, AddToInstall
<1>10. Session'
  BY <1>2 DEF IInv, Session, Idle, AddToInstall, session
<1> QED
  BY <1>6, <1>7, <1>8, <1>9, <1>10 DEF IInv

LEMMA HardResetKeeps ==
    ASSUME IInv, HardReset
    PROVE  IInv'
<1>1. TypeOK'
  BY Constants DEF IInv, TypeOK, HardReset, session
<1>2. Known'
  BY DEF IInv, Known, HardReset
<1>3. Files'
  BY Constants DEF IInv, Files, Ordinary, FlagsInside, Has, HardReset
<1>4. Unfailed'
  BY DEF IInv, Unfailed, TypeOK, HardReset
<1>5. Session'
  BY DEF IInv, Session, HardReset, session, Idle
<1> QED
  BY <1>1, <1>2, <1>3, <1>4, <1>5 DEF IInv

LEMMA ConnectKeeps ==
    ASSUME IInv, NEW s \in Stores, Connect(s)
    PROVE  IInv'
<1>1. syncs' \in 0 .. MaxSyncs /\ Idle
  BY Constants DEF IInv, TypeOK, Connect
<1>2. CASE userInfo.userName \notin {None, Name[s]}
  <2>1. UNCHANGED <<device, userInfo, folders, backup, install, queued, phase,
                    session, faults, edits, resets>> /\ result' = "wrongUser"
    BY <1>2 DEF Connect
  <2>2. TypeOK'
    BY <1>1, <2>1 DEF IInv, TypeOK, session
  <2> QED
    BY <2>1, <2>2 DEF IInv, Known, Files, Unfailed, Session, InSession, BeforeSync,
       Listed, Idle, session
<1>3. CASE userInfo.userName \in {None, Name[s]}
  <2>1. /\ store' = s /\ newlySet' = (userInfo.userName = None)
        /\ syncType' = KindOfSync(s) /\ folders' = folders \cup {s}
        /\ phase' = IF s \in folders /\ newlySet' THEN "readBackup" ELSE "list"
        /\ UNCHANGED <<device, userInfo, backup, install, queued, result, faults,
                       edits, resets, dbList, todo, toInstall>>
        /\ \A d \in Dbs : queued[s][d] = Absent
    BY <1>3, Constants DEF Connect, IInv, Known
  <2>2. todo = {} /\ syncType' \in SyncTypes
    BY <1>1, <2>1 DEF IInv, Session, KindOfSync, SyncTypes
  <2>3. TypeOK'
    BY <1>1, <2>1, <2>2 DEF IInv, TypeOK
  <2>4. Known' /\ Files' /\ Unfailed'
    BY <2>1 DEF IInv, Known, Files, FlagsInside, Unfailed
  <2>5. InSession'
    BY <1>3, <2>1, <2>2 DEF InSession
  <2>6. BeforeSync'
    <3>1. phase' # "list" => syncType' = "SLOW_SYNC"
      BY <2>1, Constants DEF IInv, Known, KindOfSync
    <3>2. syncType' = "FIRST_SYNC" => \A d \in Dbs : backup'[s][d] = Absent
      BY <2>1 DEF IInv, Files, KindOfSync
    <3> QED
      BY <2>1, <2>2, <3>1, <3>2 DEF BeforeSync
  <2>7. Session'
    BY <2>1, <2>5, <2>6 DEF Session, Idle
  <2> QED
    BY <2>3, <2>4, <2>5, <2>7 DEF IInv
<1> QED
  BY <1>2, <1>3

LEMMA ReadBackupKeeps ==
    ASSUME IInv, ReadBackup
    PROVE  IInv'
<1>1. UNCHANGED <<world, faults, bounds>> /\ phase = "readBackup"
  BY DEF ReadBackup
<1>2. CASE \E d \in Dbs : backup[store][d] = Truncated
  <2>1. phase' = "idle" /\ result' = "error" /\ NoSession
    BY <1>2 DEF ReadBackup, EndSession
  <2> QED
    BY <1>1, <2>1, EndKeeps DEF Idle
<1>3. CASE \A d \in Dbs : backup[store][d] # Truncated
  <2>1. /\ phase' = "restore" /\ todo' = {d \in Dbs : Has(backup[store][d])}
        /\ UNCHANGED <<store, syncType, newlySet, dbList, toInstall, result>>
    BY <1>3 DEF ReadBackup
  <2>2. TypeOK'
    BY <1>1, <2>1 DEF IInv, TypeOK, world, bounds
  <2>3. Known' /\ Files' /\ Unfailed'
    BY <1>1 DEF IInv, Known, Files, FlagsInside, Unfailed, world, bounds
  <2>4. Session'
    BY <1>1, <2>1 DEF IInv, Session, InSession, BeforeSync, Idle, world
  <2> QED
    BY <2>2, <2>3, <2>4 DEF IInv
<1> QED
  BY <1>2, <1>3

LEMMA RestoreDbKeeps ==
    ASSUME IInv, RestoreDb
    PROVE  IInv'
<1>1. TypeOK'
  BY DEF IInv, TypeOK, Session, BeforeSync, Has, RestoreDb, Done, bounds
<1>2. Known'
  BY DEF IInv, Known, RestoreDb
<1>3. Files'
  BY DEF IInv, Files, TypeOK, Session, InSession, RestoreDb
<1>4. Unfailed'
  BY DEF IInv, Unfailed, Session, BeforeSync, RestoreDb, bounds
<1>5. Session'
  BY DEF IInv, Session, InSession, BeforeSync, RestoreDb, Done, Idle
<1> QED
  BY <1>1, <1>2, <1>3, <1>4, <1>5 DEF IInv

LEMMA RestoreFailsKeeps ==
    ASSUME IInv, RestoreFails
    PROVE  IInv'
<1>1. PICK d \in todo : todo' = todo \ {d} /\ device' \in HalfDone(d)
  BY DEF RestoreFails, Done
<1>2. /\ phase = "restore" /\ d \in Dbs /\ ~Idle
      /\ UNCHANGED <<userInfo, folders, backup, install, queued, phase, store,
                     syncType, newlySet, dbList, toInstall, result, bounds>>
  BY <1>1 DEF RestoreFails, IInv, TypeOK, Idle
<1>3. /\ device' \in [Dbs -> Database \cup {Absent}]
      /\ \A e \in Dbs : e # d => device'[e] = device[e]
      /\ FlagsInside(device[d]) /\ d \in Ordinary => FlagsInside(device'[d])
  BY <1>1, <1>2, HalfDoneIs
<1>4. faults' # 0 /\ faults' \in 0 .. MaxFaults
  BY Constants DEF IInv, TypeOK, RestoreFails, Fault
<1>5. TypeOK'
  BY <1>1, <1>2, <1>3, <1>4 DEF IInv, TypeOK, bounds
<1>6. Known' /\ Unfailed'
  BY <1>2, <1>4 DEF IInv, Known, Unfailed
<1>7. Files'
  BY <1>2, <1>3 DEF IInv, Files, Ordinary
<1>8. Session'
  BY <1>1, <1>2 DEF IInv, Session, InSession, BeforeSync, Idle
<1> QED
  BY <1>5, <1>6, <1>7, <1>8 DEF IInv

LEMMA ReadDbListKeeps ==
    ASSUME IInv, ReadDbList
    PROVE  IInv'
<1>1. /\ phase \in {"restore", "list"} /\ phase' = "syncDbs"
      /\ dbList' = {d \in Dbs : device[d] # Absent} /\ todo' = dbList'
      /\ UNCHANGED <<world, store, syncType, newlySet, toInstall, result, faults, bounds>>
  BY DEF ReadDbList
<1>2. TypeOK'
  BY <1>1 DEF IInv, TypeOK, world, bounds
<1>3. Known' /\ Files' /\ Unfailed'
  BY <1>1 DEF IInv, Known, Files, FlagsInside, Unfailed, world, bounds
<1>4. BeforeSync /\ InSession /\ store \in Stores
  BY <1>1 DEF IInv, TypeOK, Session, InSession, Idle
<1>5. \A d \in Dbs : Has(device[d]) <=> d \in dbList'
  BY <1>1, Constants DEF IInv, TypeOK, Has
<1>6. Listed'
  BY <1>1, <1>4, <1>5 DEF Listed, BeforeSync, world
<1>7. Session'
  BY <1>1, <1>4, <1>5, <1>6 DEF Session, InSession, BeforeSync, Idle, world,
     Ordinary
<1> QED
  BY <1>2, <1>3, <1>7 DEF IInv

LEMMA FirstSyncDbKeeps ==
    ASSUME IInv, FirstSyncDb
    PROVE  IInv'
<1>1. TypeOK'
  BY DownloadedIs DEF IInv, TypeOK, Session, InSession, Listed, Has, FirstSyncDb,
     Done, Download, bounds
<1>2. Known'
  BY DEF IInv, Known, FirstSyncDb
<1>3. Files'
  BY Constants DEF IInv, Files, Session, InSession, FlagsInside, Has, FirstSyncDb,
     Download
<1>4. Unfailed'
  BY DEF IInv, Unfailed, Session, FirstSyncDb, Download, bounds
<1>5. Session'
  BY DEF IInv, Session, InSession, Listed, FirstSyncDb, Done, Download, Idle
<1> QED
  BY <1>1, <1>2, <1>3, <1>4, <1>5 DEF IInv

LEMMA SkipDbKeeps ==
    ASSUME IInv, SkipDb
    PROVE  IInv'
<1>1. TypeOK'
  BY DEF IInv, TypeOK, SkipDb, Done, world, bounds
<1>2. Known'
  BY DEF IInv, Known, SkipDb, world
<1>3. Files'
  BY DEF IInv, Files, SkipDb, world
<1>4. Unfailed'
  BY DEF IInv, Unfailed, SkipDb, world, bounds
<1>5. Session'
  BY DEF IInv, Session, InSession, Listed, SkipDb, Done, world, Idle
<1> QED
  BY <1>1, <1>2, <1>3, <1>4, <1>5 DEF IInv

LEMMA SyncDbKeeps ==
    ASSUME IInv, SyncDb
    PROVE  IInv'
<1>1. TypeOK'
  BY MergedIs DEF IInv, TypeOK, Session, InSession, Listed, Has, SyncDb, Done,
     Syncing, bounds
<1>2. Known'
  BY DEF IInv, Known, SyncDb
<1>3. Files'
  BY Constants, MergedIs DEF IInv, Files, Session, Listed, Has, SyncDb, Syncing
<1>4. Unfailed'
  BY Constants, MergedIs DEF IInv, Unfailed, Session, Listed, Has, SyncDb, Syncing,
     bounds
<1>5. Session'
  BY MergedIs DEF IInv, Session, InSession, Listed, SyncDb, Done, Syncing, Idle
<1> QED
  BY <1>1, <1>2, <1>3, <1>4, <1>5 DEF IInv

\* A write that is cut short comes after a sync that is done on the device, and
\* leaves the other files alone.
LEMMA CutShortIs ==
    ASSUME IInv, NEW d \in todo, Syncing(d), Has(backup[store][d]), WriteCutShort(d)
    PROVE  /\ device' \in HalfDone(d)
           /\ backup' \in [Stores -> [Dbs -> Database \cup {Absent, Truncated}]]
           /\ \A s \in Stores, x \in Dbs :
                 backup'[s][x] = backup[s][x] \/ (s = store /\ backup'[s][x] = Truncated)
<1>1. device' \in HalfDone(d)
  <2>1. phase = "syncDbs"
    BY DEF Syncing
  <2>2. HalfDone(d) = {[device EXCEPT ![d] = l] : l \in PartlyMerged(d)}
    BY <2>1 DEF HalfDone
  <2>3. Merged(device[d], backup[store][d]) \in PartlyMerged(d)
    BY DEF PartlyMerged
  <2> QED
    BY <2>2, <2>3 DEF WriteCutShort
<1>2. store \in Stores /\ d \in Dbs
  BY DEF IInv, TypeOK, Session, InSession, Syncing, Idle
<1>3. backup \in [Stores -> [Dbs -> Database \cup {Absent, Truncated}]]
  BY DEF IInv, TypeOK
<1>4. /\ backup' \in [Stores -> [Dbs -> Database \cup {Absent, Truncated}]]
      /\ backup'[store][d] = Truncated
      /\ \A s \in Stores, x \in Dbs : s # store \/ x # d => backup'[s][x] = backup[s][x]
  BY <1>2, <1>3, Replaced DEF WriteCutShort
<1> QED
  BY <1>1, <1>4

LEMMA SyncDbFailsKeeps ==
    ASSUME IInv, SyncDbFails
    PROVE  IInv'
<1>1. PICK d \in todo : /\ Syncing(d) /\ Has(backup[store][d]) /\ todo' = todo \ {d}
                       /\ \/ device' \in HalfDone(d) /\ UNCHANGED backup
                          \/ WriteCutShort(d)
  BY DEF SyncDbFails, Done
<1>2. /\ phase = "syncDbs" /\ syncType # "FIRST_SYNC" /\ d \in Dbs /\ ~Idle
      /\ store \in folders
  BY <1>1 DEF Syncing, IInv, TypeOK, Idle, Session, InSession
<1>3. /\ device' \in HalfDone(d)
      /\ backup' \in [Stores -> [Dbs -> Database \cup {Absent, Truncated}]]
      /\ \A s \in Stores, x \in Dbs :
            backup'[s][x] = backup[s][x] \/ (s = store /\ backup'[s][x] = Truncated)
  BY <1>1, CutShortIs DEF IInv, TypeOK
<1>4. /\ device' \in [Dbs -> Database \cup {Absent}]
      /\ \A e \in Dbs : e # d => device'[e] = device[e]
      /\ FlagsInside(device[d]) /\ d \in Ordinary => FlagsInside(device'[d])
      /\ Has(device'[d])
  BY <1>1, <1>2, <1>3, HalfDoneIs
<1>5. faults' # 0 /\ faults' \in 0 .. MaxFaults
  BY Constants DEF IInv, TypeOK, SyncDbFails, Fault
<1>6. TypeOK'
  BY <1>1, <1>3, <1>4, <1>5 DEF IInv, TypeOK, SyncDbFails, bounds
<1>7. Known' /\ Unfailed'
  BY <1>5 DEF IInv, Known, Unfailed, SyncDbFails
<1>8. Files'
  <2>1. ASSUME NEW s \in Stores, NEW x \in Ordinary
        PROVE  /\ FlagsInside(backup'[s][x]) /\ FlagsInside(queued'[s][x])
               /\ install'[s][x] = Absent
               /\ queued'[s][x] # Absent => ~Has(backup'[s][x])
    <3>1. /\ FlagsInside(backup[s][x]) /\ FlagsInside(queued[s][x])
          /\ install[s][x] = Absent
          /\ queued[s][x] # Absent => ~Has(backup[s][x])
      BY DEF IInv, Files
    <3>2. /\ backup'[s][x] \in {backup[s][x], Truncated}
          /\ UNCHANGED <<queued, install>>
      BY <1>3 DEF Ordinary, SyncDbFails
    <3> QED
      BY <3>1, <3>2, Constants DEF FlagsInside, Has
  <2>2. ASSUME NEW s \in Stores, NEW x \in Dbs, s \notin folders
        PROVE  backup'[s][x] = Absent /\ queued'[s][x] = Absent
    BY <1>2, <1>3, <2>2 DEF IInv, Files, SyncDbFails
  <2>3. \A x \in Ordinary : FlagsInside(device'[x])
    BY <1>4 DEF IInv, Files, Ordinary
  <2> QED
    BY <2>1, <2>2, <2>3 DEF Files, SyncDbFails
<1>9. Session'
  <2>1. /\ Listed /\ InSession /\ \A x \in Dbs : queued[store][x] = Absent
        /\ \A x \in Ordinary : Has(device[x]) => x \in dbList
    BY <1>2 DEF IInv, Session
  <2>2. UNCHANGED <<phase, store, syncType, newlySet, dbList, userInfo, folders, queued>>
    BY DEF SyncDbFails
  <2>3. Listed'
    BY <1>1, <1>2, <1>4, <2>1, <2>2 DEF Listed, IInv, TypeOK
  <2>4. \A x \in Ordinary : Has(device'[x]) => x \in dbList
    BY <1>1, <1>4, <2>1 DEF Ordinary, Listed
  <2> QED
    BY <1>2, <2>1, <2>2, <2>3, <2>4 DEF Session, InSession, Idle
<1> QED
  BY <1>6, <1>7, <1>8, <1>9 DEF IInv

LEMMA ReadTruncatedKeeps ==
    ASSUME IInv, ReadTruncated
    PROVE  IInv'
BY EndKeeps DEF ReadTruncated, EndSession, Syncing, Idle

LEMMA StartDownloadKeeps ==
    ASSUME IInv, StartDownload
    PROVE  IInv'
<1>1. TypeOK'
  BY DEF IInv, TypeOK, StartDownload, GoOn, world, bounds
<1>2. Known'
  BY DEF IInv, Known, StartDownload, world
<1>3. Files'
  BY DEF IInv, Files, StartDownload, world
<1>4. Unfailed'
  BY DEF IInv, Unfailed, StartDownload, world, bounds
<1>5. Session'
  BY DEF IInv, Session, InSession, Listed, StartDownload, GoOn, world, Idle
<1> QED
  BY <1>1, <1>2, <1>3, <1>4, <1>5 DEF IInv

LEMMA DownloadDbKeeps ==
    ASSUME IInv, DownloadDb
    PROVE  IInv'
<1>1. PICK d \in todo :
         /\ todo' = todo \ {d}
         /\ IF backup[store][d] = Absent THEN Download(d) ELSE UNCHANGED queued
  BY DEF DownloadDb, Done
<1>2. phase = "download" /\ d \in Dbs /\ store \in Stores /\ store \in folders
  BY <1>1 DEF DownloadDb, IInv, TypeOK, Session, InSession, Idle
<1>3. UNCHANGED <<device, userInfo, folders, backup, install, phase, store,
                  syncType, newlySet, dbList, toInstall, result, faults, bounds>>
  BY DEF DownloadDb
<1>4. CASE backup[store][d] # Absent
  BY <1>1, <1>2, <1>3, <1>4 DEF IInv, TypeOK, Known, Files, Unfailed, Session,
     InSession, Listed, Idle, bounds
<1>5. CASE backup[store][d] = Absent
  <2> DEFINE q == [edits |-> device[d].edits, flagged |-> {}]
  <2>1. Has(device[d])
    BY <1>2 DEF IInv, Session, Listed
  <2>2. /\ Has(q) /\ FlagsInside(q) /\ q.edits = device[d].edits
        /\ q \in Database \cup {Absent} /\ q # Absent
    BY <2>1, DownloadedIs DEF Has
  <2> HIDE DEF q
  <2>3. /\ queued' \in [Stores -> [Dbs -> Database \cup {Absent}]]
        /\ queued'[store][d] = q
        /\ \A s \in Stores, x \in Dbs : s # store \/ x # d => queued'[s][x] = queued[s][x]
    <3>1. queued' = [queued EXCEPT ![store][d] = q]
      BY <1>1, <1>5 DEF Download, q
    <3>2. queued \in [Stores -> [Dbs -> Database \cup {Absent}]]
      BY DEF IInv, TypeOK
    <3> QED
      BY <1>2, <2>2, <3>1, <3>2, Replaced
  <2>4. TypeOK'
    BY <1>1, <1>2, <1>3, <2>3 DEF IInv, TypeOK, bounds
  <2>5. Known'
    BY <1>3 DEF IInv, Known
  <2>6. Files'
    BY <1>2, <1>3, <1>5, <2>2, <2>3, Constants DEF IInv, Files, Has, Ordinary
  <2>7. Unfailed'
    BY <1>3, <2>2, <2>3 DEF IInv, Unfailed, bounds
  <2>8. Session'
    <3>1. Listed /\ InSession
      BY <1>2 DEF IInv, Session, Idle
    <3>2. Listed' /\ InSession'
      BY <1>1, <1>2, <1>3, <2>1, <2>2, <2>3, <3>1 DEF Listed, InSession
    <3> QED
      BY <1>2, <1>3, <3>2 DEF IInv, Session, Idle
  <2> QED
    BY <2>4, <2>5, <2>6, <2>7, <2>8 DEF IInv
<1> QED
  BY <1>4, <1>5

LEMMA DownloadFailsKeeps ==
    ASSUME IInv, DownloadFails
    PROVE  IInv'
<1>1. TypeOK'
  BY Constants DEF IInv, TypeOK, DownloadFails, Done, Fault, world, bounds
<1>2. Known'
  BY DEF IInv, Known, DownloadFails, world
<1>3. Files'
  BY DEF IInv, Files, DownloadFails, world
<1>4. Unfailed'
  BY DEF IInv, Unfailed, TypeOK, DownloadFails, Fault
<1>5. Session'
  BY DEF IInv, Session, InSession, Listed, DownloadFails, Done, world, Idle
<1> QED
  BY <1>1, <1>2, <1>3, <1>4, <1>5 DEF IInv

LEMMA StartInstallKeeps ==
    ASSUME IInv, StartInstall
    PROVE  IInv'
<1>1. TypeOK'
  BY DEF IInv, TypeOK, Session, InSession, StartInstall, GoOn, ReadToInstall, world,
     bounds, Idle
<1>2. Known'
  BY DEF IInv, Known, StartInstall, world
<1>3. Files'
  BY DEF IInv, Files, StartInstall, world
<1>4. Unfailed'
  BY DEF IInv, Unfailed, StartInstall, world, bounds
<1>5. Session'
  BY DEF IInv, Session, TypeOK, InSession, Has, StartInstall, GoOn, ReadToInstall,
     world, Idle
<1> QED
  BY <1>1, <1>2, <1>3, <1>4, <1>5 DEF IInv

LEMMA InstallDbKeeps ==
    ASSUME IInv, InstallDb
    PROVE  IInv'
<1>1. TypeOK'
  BY DEF IInv, TypeOK, Session, InSession, Has, InstallDb, Done, bounds
<1>2. Known'
  BY DEF IInv, Known, InstallDb
<1>3. Files'
  BY DEF IInv, Files, TypeOK, Session, InSession, InstallDb
<1>4. Unfailed'
  BY Constants DEF IInv, Unfailed, TypeOK, Session, InstallDb, bounds
<1>5. Session'
  BY DEF IInv, Session, TypeOK, InSession, Files, InstallDb, Done, Idle
<1> QED
  BY <1>1, <1>2, <1>3, <1>4, <1>5 DEF IInv

LEMMA InstallFailsKeeps ==
    ASSUME IInv, InstallFails
    PROVE  IInv'
<1>1. PICK d \in todo : device' \in HalfDone(d)
  BY DEF InstallFails
<1>2. phase = "install" /\ todo' = {} /\ d \in Dbs /\ ~Idle
  BY <1>1 DEF InstallFails, IInv, TypeOK, Idle
<1>3. /\ device' \in [Dbs -> Database \cup {Absent}]
      /\ \A e \in Dbs : e # d => device'[e] = device[e]
      /\ d \in Resources
  BY <1>1, <1>2, HalfDoneIs
<1>4. faults' # 0 /\ faults' \in 0 .. MaxFaults
  BY Constants DEF IInv, TypeOK, InstallFails, Fault
<1>5. TypeOK'
  BY <1>2, <1>3, <1>4 DEF IInv, TypeOK, InstallFails, bounds
<1>6. \A x \in Ordinary : device'[x] = device[x]
  BY <1>3 DEF Ordinary
<1>7. Known' /\ Unfailed'
  BY <1>4 DEF IInv, Known, Unfailed, InstallFails
<1>8. Files'
  BY <1>6 DEF IInv, Files, FlagsInside, Has, InstallFails
<1>9. Session'
  BY <1>2, <1>6 DEF IInv, Session, InSession, Idle, InstallFails
<1> QED
  BY <1>5, <1>7, <1>8, <1>9 DEF IInv

LEMMA UpdateSyncInfoKeeps ==
    ASSUME IInv, UpdateSyncInfo
    PROVE  IInv'
<1>1. /\ userInfo' = [userName |-> IF newlySet THEN Name[store] ELSE userInfo.userName,
                      lastSyncPc |-> Pc[store]]
      /\ phase = "install" /\ phase' = "idle" /\ result' = "ok" /\ NoSession
      /\ UNCHANGED <<device, folders, backup, install, queued, faults, bounds>>
  BY DEF UpdateSyncInfo, EndSession
<1>2. InSession /\ store \in Stores
  BY <1>1 DEF IInv, TypeOK, Session, InSession, Idle
<1>3. /\ userInfo'.userName \in {Name[s] : s \in Stores} /\ userInfo'.userName # None
      /\ userInfo'.lastSyncPc \in {Pc[s] : s \in Stores}
  <2>1. userInfo'.userName = Name[store] /\ userInfo'.lastSyncPc = Pc[store]
    BY <1>1, <1>2 DEF InSession
  <2> QED
    BY <1>2, <2>1, Constants
<1>4. Known'
  BY <1>1, <1>3 DEF Known
<1>5. TypeOK'
  BY <1>1, <1>3, Constants DEF IInv, TypeOK, NoSession, bounds
<1>6. Files' /\ Unfailed'
  BY <1>1 DEF IInv, Files, FlagsInside, Unfailed, bounds
<1>7. Session'
  BY <1>1 DEF Session, NoSession, Idle
<1> QED
  BY <1>4, <1>5, <1>6, <1>7 DEF IInv

LEMMA SessionFailsKeeps ==
    ASSUME IInv, SessionFails
    PROVE  IInv'
<1>1. ~Idle /\ faults' # 0 /\ faults' \in 0 .. MaxFaults
  BY Constants DEF IInv, TypeOK, SessionFails, Fault
<1>2. /\ phase' = "idle" /\ result' = "error" /\ NoSession
      /\ UNCHANGED <<userInfo, folders, backup, install, queued, bounds>>
  BY DEF SessionFails, EndSession
<1>3. /\ device' \in [Dbs -> Database \cup {Absent}]
      /\ \A d \in Ordinary : FlagsInside(device'[d])
  BY <1>1, LeftHalfDone DEF SessionFails
<1>4. TypeOK'
  BY <1>1, <1>2, <1>3, Constants DEF IInv, TypeOK, NoSession, bounds
<1>5. Known' /\ Files' /\ Unfailed'
  BY <1>1, <1>2, <1>3 DEF IInv, Known, Files, FlagsInside, Unfailed
<1>6. Session'
  BY <1>2 DEF Session, NoSession, Idle
<1> QED
  BY <1>4, <1>5, <1>6 DEF IInv

LEMMA CrashKeeps ==
    ASSUME IInv, Crash
    PROVE  IInv'
<1>1. /\ ~Idle /\ faults' # 0 /\ faults' \in 0 .. MaxFaults
      /\ store \in Stores /\ store \in folders
  BY Constants DEF IInv, TypeOK, Session, InSession, Crash, Fault
<1>2. /\ phase' = "idle" /\ result' = "crash" /\ NoSession
      /\ UNCHANGED <<userInfo, folders, install, bounds>>
      /\ queued' = [queued EXCEPT ![store] = [d \in Dbs |-> Absent]]
  BY DEF Crash, EndSession
<1>3. /\ queued' \in [Stores -> [Dbs -> Database \cup {Absent}]]
      /\ \A s \in Stores, d \in Dbs : queued'[s][d] \in {queued[s][d], Absent}
  BY <1>1, <1>2 DEF IInv, TypeOK
<1>4. /\ device' \in [Dbs -> Database \cup {Absent}]
      /\ \A d \in Ordinary : FlagsInside(device'[d])
      /\ backup' \in [Stores -> [Dbs -> Database \cup {Absent, Truncated}]]
      /\ \A s \in Stores, d \in Dbs :
            backup'[s][d] = backup[s][d] \/ (s = store /\ backup'[s][d] = Truncated)
  <2>1. CASE /\ device' = device \/ \E d \in todo : device' \in HalfDone(d)
             /\ UNCHANGED backup
    <3>1. /\ device' \in [Dbs -> Database \cup {Absent}]
          /\ \A d \in Ordinary : FlagsInside(device'[d])
      BY <1>1, <2>1, LeftHalfDone
    <3> QED
      BY <2>1, <3>1 DEF IInv, TypeOK
  <2>2. ASSUME NEW d \in todo, Syncing(d), Has(backup[store][d]), WriteCutShort(d)
        PROVE  /\ device' \in [Dbs -> Database \cup {Absent}]
               /\ \A x \in Ordinary : FlagsInside(device'[x])
               /\ backup' \in [Stores -> [Dbs -> Database \cup {Absent, Truncated}]]
               /\ \A s \in Stores, x \in Dbs :
                     backup'[s][x] = backup[s][x] \/ (s = store /\ backup'[s][x] = Truncated)
    <3>1. device' \in HalfDone(d)
      BY <2>2, CutShortIs
    <3>2. /\ device' \in [Dbs -> Database \cup {Absent}]
          /\ \A x \in Ordinary : FlagsInside(device'[x])
      BY <1>1, <3>1, LeftHalfDone
    <3> QED
      BY <2>2, <3>2, CutShortIs
  <2> QED
    BY <2>1, <2>2 DEF Crash
<1>5. TypeOK'
  BY <1>1, <1>2, <1>3, <1>4, Constants DEF IInv, TypeOK, NoSession, bounds
<1>6. Known' /\ Unfailed'
  BY <1>1, <1>2 DEF IInv, Known, Unfailed
<1>7. Files'
  <2>1. ASSUME NEW s \in Stores, NEW d \in Ordinary
        PROVE  /\ FlagsInside(backup'[s][d]) /\ FlagsInside(queued'[s][d])
               /\ install'[s][d] = Absent
               /\ queued'[s][d] # Absent => ~Has(backup'[s][d])
    <3>1. /\ FlagsInside(backup[s][d]) /\ FlagsInside(queued[s][d])
          /\ install[s][d] = Absent
          /\ queued[s][d] # Absent => ~Has(backup[s][d])
      BY DEF IInv, Files
    <3>2. /\ backup'[s][d] \in {backup[s][d], Truncated}
          /\ queued'[s][d] \in {queued[s][d], Absent}
      BY <1>3, <1>4 DEF Ordinary
    <3> QED
      BY <1>2, <3>1, <3>2, Constants DEF FlagsInside, Has
  <2>2. ASSUME NEW s \in Stores, NEW d \in Dbs, s \notin folders
        PROVE  backup'[s][d] = Absent /\ queued'[s][d] = Absent
    BY <1>1, <1>3, <1>4, <2>2 DEF IInv, Files
  <2> QED
    BY <1>2, <1>4, <2>1, <2>2 DEF Files
<1>8. Session'
  BY <1>2 DEF Session, NoSession, Idle
<1> QED
  BY <1>5, <1>6, <1>7, <1>8 DEF IInv

LEMMA StartWriteKeeps ==
    ASSUME IInv, StartWrite
    PROVE  IInv'
<1>1. TypeOK'
  BY DEF IInv, TypeOK, StartWrite, session, bounds
<1>2. Known'
  BY DEF IInv, Known, StartWrite
<1>3. Files'
  BY Constants DEF IInv, Files, FlagsInside, Has, StartWrite
<1>4. Unfailed'
  BY DEF IInv, Unfailed, StartWrite, bounds
<1>5. Session'
  BY DEF IInv, Session, InSession, BeforeSync, Listed, StartWrite, session, Idle
<1> QED
  BY <1>1, <1>2, <1>3, <1>4, <1>5 DEF IInv

LEMMA FinishWriteKeeps ==
    ASSUME IInv, FinishWrite
    PROVE  IInv'
<1>1. TypeOK'
  BY DEF IInv, TypeOK, FinishWrite, session, bounds
<1>2. Known'
  BY DEF IInv, Known, FinishWrite
<1>3. Files'
  BY Constants DEF IInv, Files, TypeOK, FlagsInside, Has, FinishWrite
<1>4. Unfailed'
  BY Constants DEF IInv, Unfailed, TypeOK, FinishWrite, bounds
<1>5. Session'
  BY DEF IInv, Session, InSession, BeforeSync, Listed, FinishWrite, session, Idle
<1> QED
  BY <1>1, <1>2, <1>3, <1>4, <1>5 DEF IInv

LEMMA LateWriteFailsKeeps ==
    ASSUME IInv, LateWriteFails
    PROVE  IInv'
<1>1. faults' # 0 /\ faults' \in 0 .. MaxFaults
  BY Constants DEF IInv, TypeOK, LateWriteFails, Fault
<1>2. /\ queued' \in [Stores -> [Dbs -> Database \cup {Absent}]]
      /\ \A s \in Stores, d \in Dbs : queued'[s][d] \in {queued[s][d], Absent}
  BY DEF IInv, TypeOK, LateWriteFails
<1>3. TypeOK'
  BY <1>1, <1>2 DEF IInv, TypeOK, LateWriteFails, session, bounds
<1>4. Known' /\ Unfailed'
  BY <1>1 DEF IInv, Known, Unfailed, LateWriteFails
<1>5. Files'
  BY <1>2, Constants DEF IInv, Files, FlagsInside, Has, Ordinary, LateWriteFails
<1>6. Session'
  BY DEF IInv, Session, LateWriteFails, session, Idle
<1> QED
  BY <1>3, <1>4, <1>5, <1>6 DEF IInv

-----------------------------------------------------------------------------
(* The invariant.                                                          *)

LEMMA InitIInv == Init => IInv
<1> SUFFICES ASSUME Init PROVE IInv
  OBVIOUS
<1>1. TypeOK
  <2>1. [edits |-> {}, flagged |-> {}] \in Database
    BY DEF Database
  <2>2. 0 \in 0 .. MaxEdits /\ 0 \in 0 .. MaxSyncs /\ 0 \in 0 .. MaxResets /\ 0 \in 0 .. MaxFaults
    BY Constants
  <2> QED
    BY <2>1, <2>2 DEF Init, TypeOK
<1>2. Known /\ Files /\ Unfailed
  BY Constants DEF Init, Known, Files, FlagsInside, Has, Ordinary, Unfailed, Database
<1>3. Session
  BY DEF Init, Session, Idle
<1> QED
  BY <1>1, <1>2, <1>3 DEF IInv

LEMMA StutterKeeps ==
    ASSUME IInv, UNCHANGED vars
    PROVE  IInv'
BY
   DEF IInv, TypeOK, Known, Files, FlagsInside, Unfailed, Session, InSession,
       BeforeSync,
   Listed, Idle, vars, world, session, bounds

LEMMA StepIInv == IInv /\ [Next]_vars => IInv'
<1> SUFFICES ASSUME IInv, [Next]_vars PROVE IInv'
  OBVIOUS
<1>1. CASE User
  BY <1>1, DeviceEditKeeps, DesktopEditKeeps, AddToInstallKeeps, HardResetKeeps DEF User
<1>2. CASE \E s \in Stores : Connect(s)
  BY <1>2, ConnectKeeps
<1>3. CASE Restore \/ ReadDbList
  BY <1>3, ReadBackupKeeps, RestoreDbKeeps, RestoreFailsKeeps, ReadDbListKeeps
     DEF Restore
<1>4. CASE SyncDatabases
  BY <1>4, FirstSyncDbKeeps, SkipDbKeeps, SyncDbKeeps, SyncDbFailsKeeps,
         ReadTruncatedKeeps
     DEF SyncDatabases
<1>5. CASE DownloadNew
  BY <1>5, StartDownloadKeeps, DownloadDbKeeps, DownloadFailsKeeps DEF DownloadNew
<1>6. CASE InstallNew
  BY <1>6, StartInstallKeeps, InstallDbKeeps, InstallFailsKeeps DEF InstallNew
<1>7. CASE UpdateSyncInfo \/ SessionFails \/ Crash
  BY <1>7, UpdateSyncInfoKeeps, SessionFailsKeeps, CrashKeeps
<1>8. CASE StartWrite \/ FinishWrite \/ LateWriteFails
  BY <1>8, StartWriteKeeps, FinishWriteKeeps, LateWriteFailsKeeps
<1>9. CASE UNCHANGED vars
  BY <1>9, StutterKeeps
<1> QED
  BY <1>1, <1>2, <1>3, <1>4, <1>5, <1>6, <1>7, <1>8, <1>9 DEF Next

\* The invariant of every reachable state.
LEMMA Invariant == Spec => []IInv
BY InitIInv, StepIInv, PTL DEF Spec

\* Every variable keeps its type: a session reads and writes databases where
\* the conduits expect databases.
THEOREM TypeCorrect == Spec => []TypeOK
<1>1. IInv => TypeOK
  BY DEF IInv
<1> QED
  BY <1>1, Invariant, PTL

-----------------------------------------------------------------------------
(* The backup never shrinks.                                               *)

LEMMA WrittenIs ==
    \A s \in Stores, d \in Dbs :
       /\ Written[s][d] = IF queued[s][d] # Absent THEN queued[s][d] ELSE backup[s][d]
       /\ Written'[s][d] = IF queued'[s][d] # Absent THEN queued'[s][d] ELSE backup'[s][d]
BY DEF Written

\* A write that nobody waits for changes nothing once it counts as done.
LEMMA WritesKeepContent ==
    ASSUME IInv, StartWrite \/ FinishWrite
    PROVE  \A s \in Stores, d \in Dbs : Written'[s][d] = Written[s][d]
<1>1. PICK s \in Stores, d \in Dbs :
         /\ queued[s][d] # Absent
         /\ \/ /\ backup' = [backup EXCEPT ![s][d] = Truncated] /\ queued' = queued
            \/ /\ backup' = [backup EXCEPT ![s][d] = queued[s][d]]
               /\ queued' = [queued EXCEPT ![s][d] = Absent]
  BY DEF StartWrite, FinishWrite
<1>2. /\ backup \in [Stores -> [Dbs -> Database \cup {Absent, Truncated}]]
      /\ queued \in [Stores -> [Dbs -> Database \cup {Absent}]]
  BY DEF IInv, TypeOK
<1>3. \A t \in Stores, x \in Dbs : t # s \/ x # d =>
         backup'[t][x] = backup[t][x] /\ queued'[t][x] = queued[t][x]
  BY <1>1, <1>2
<1>4. Written'[s][d] = Written[s][d]
  BY WrittenIs, <1>1, <1>2
<1> QED
  BY WrittenIs, <1>3, <1>4

\* The database read is the only one whose content changes.
LEMMA DownloadIs ==
    ASSUME IInv, store \in Stores, NEW d \in Dbs, Has(device[d]), Download(d),
           UNCHANGED backup
    PROVE  /\ Has(Written'[store][d])
           /\ Written'[store][d].edits = device[d].edits
           /\ Written'[store][d].flagged = {}
           /\ \A s \in Stores, x \in Dbs : s # store \/ x # d =>
                 Written'[s][x] = Written[s][x]
<1> DEFINE q == [edits |-> device[d].edits, flagged |-> {}]
<1>1. Has(q) /\ q.edits = device[d].edits /\ q.flagged = {} /\ q # Absent
      /\ q \in Database \cup {Absent}
  BY DownloadedIs DEF Has
<1>2. queued' = [queued EXCEPT ![store][d] = q]
  BY DEF Download
<1>3. queued \in [Stores -> [Dbs -> Database \cup {Absent}]]
  BY DEF IInv, TypeOK
<1> HIDE DEF q
<1>4. /\ queued'[store][d] = q
      /\ \A s \in Stores, x \in Dbs : s # store \/ x # d => queued'[s][x] = queued[s][x]
  BY <1>1, <1>2, <1>3, Replaced
<1> QED
  BY WrittenIs, <1>1, <1>4

LEMMA SyncDbIs ==
    ASSUME IInv, SyncDb
    PROVE  \E d \in todo :
              /\ d \in Dbs /\ phase = "syncDbs" /\ syncType # "FIRST_SYNC" /\ store \in Stores
              /\ Syncing(d) /\ todo' = todo \ {d}
              /\ Has(device[d]) /\ Has(Written[store][d]) /\ Written[store][d] = backup[store][d]
              /\ device'[d] = Merged(device[d], Written[store][d])
              /\ Written'[store][d] = Merged(Written[store][d], device[d])
              /\ \A x \in Dbs : x # d => device'[x] = device[x]
              /\ \A s \in Stores, x \in Dbs : s # store \/ x # d =>
                    Written'[s][x] = Written[s][x]
<1>1. PICK d \in todo :
         /\ Syncing(d) /\ Has(backup[store][d]) /\ todo' = todo \ {d}
         /\ device' = [device EXCEPT ![d] = Merged(device[d], backup[store][d])]
         /\ backup' = [backup EXCEPT ![store][d] = Merged(backup[store][d], device[d])]
  BY DEF SyncDb, Done
<1>2. /\ phase = "syncDbs" /\ syncType # "FIRST_SYNC" /\ queued' = queued /\ store' = store
      /\ d \in Dbs /\ store \in Stores /\ Has(device[d]) /\ queued[store][d] = Absent
  BY <1>1 DEF IInv, TypeOK, Session, InSession, Listed, Idle, SyncDb, Syncing
<1>3. /\ backup \in [Stores -> [Dbs -> Database \cup {Absent, Truncated}]]
      /\ device \in [Dbs -> Database \cup {Absent}]
  BY DEF IInv, TypeOK
<1>4. Merged(backup[store][d], device[d]) \in Database \cup {Absent, Truncated}
  BY <1>1, <1>2, MergedIs DEF Has
<1>5. /\ backup'[store][d] = Merged(backup[store][d], device[d])
      /\ \A s \in Stores, x \in Dbs : s # store \/ x # d => backup'[s][x] = backup[s][x]
  BY <1>1, <1>2, <1>3, <1>4, Replaced
<1>6. /\ device'[d] = Merged(device[d], backup[store][d])
      /\ \A x \in Dbs : x # d => device'[x] = device[x]
  BY <1>1, <1>2, <1>3
<1> QED
  BY WrittenIs, <1>1, <1>2, <1>5, <1>6

NeverShrinks ==
    \A s \in Stores, d \in Ordinary :
       Has(Written[s][d]) /\ Has(Written'[s][d]) =>
          Written[s][d].edits \subseteq Written'[s][d].edits

LEMMA DesktopEditIs ==
    ASSUME IInv, DesktopEdit
    PROVE  \E s \in Stores, d \in Ordinary :
              /\ Has(Written[s][d]) /\ Idle /\ edits + 1 \in Edits /\ UNCHANGED device
              /\ Written'[s][d] = Edited(Written[s][d], edits + 1)
              /\ \A t \in Stores, x \in Dbs : t # s \/ x # d => Written'[t][x] = Written[t][x]
<1>1. PICK s \in Stores, d \in Ordinary :
         /\ Has(backup[s][d])
         /\ backup' = [backup EXCEPT ![s][d] = Edited(backup[s][d], edits + 1)]
  BY DEF DesktopEdit, Ordinary
<1>2. /\ edits + 1 \in Edits /\ Idle /\ queued[s][d] = Absent /\ d \in Dbs
      /\ queued' = queued /\ device' = device
  BY <1>1, Constants DEF IInv, TypeOK, Files, DesktopEdit, NewEdit, Edits, Ordinary
<1>3. backup \in [Stores -> [Dbs -> Database \cup {Absent, Truncated}]]
  BY DEF IInv, TypeOK
<1>4. Edited(backup[s][d], edits + 1) \in Database \cup {Absent, Truncated}
  BY <1>2, EditedIs DEF Has
<1>5. /\ backup'[s][d] = Edited(backup[s][d], edits + 1)
      /\ \A t \in Stores, x \in Dbs : t # s \/ x # d => backup'[t][x] = backup[t][x]
  BY <1>1, <1>2, <1>3, <1>4, Replaced
<1> QED
  BY WrittenIs, <1>1, <1>2, <1>5

\* Which steps touch the files at all.
LEMMA ShrinksNot ==
    ASSUME IInv, [Next]_vars
    PROVE  NeverShrinks
<1>1. ASSUME UNCHANGED <<backup, queued>>
      PROVE  NeverShrinks
  BY WrittenIs, <1>1 DEF NeverShrinks, Ordinary
<1>2. CASE DesktopEdit
  <2>1. PICK s \in Stores, d \in Ordinary :
           /\ Has(Written[s][d]) /\ edits + 1 \in Edits
           /\ Written'[s][d] = Edited(Written[s][d], edits + 1)
           /\ \A t \in Stores, x \in Dbs : t # s \/ x # d => Written'[t][x] = Written[t][x]
    BY <1>2, DesktopEditIs
  <2>2. Written[s][d].edits \subseteq Written'[s][d].edits
    <3>1. Edited(Written[s][d], edits + 1).edits = Written[s][d].edits \cup {edits + 1}
      BY <2>1, EditedIs
    <3> QED
      BY <2>1, <3>1
  <2> QED
    BY <2>1, <2>2 DEF NeverShrinks, Ordinary
<1>3. CASE FirstSyncDb
  <2>1. PICK d \in todo : Download(d)
    BY <1>3 DEF FirstSyncDb
  <2>2. /\ d \in Dbs /\ store \in Stores /\ Has(device[d]) /\ UNCHANGED backup
        /\ queued[store][d] = Absent /\ backup[store][d] = Absent
    BY <1>3 DEF FirstSyncDb, IInv, TypeOK, Session, InSession, Listed, Idle
  <2>3. \A s \in Stores, x \in Dbs : s # store \/ x # d => Written'[s][x] = Written[s][x]
    BY <2>1, <2>2, DownloadIs
  <2>4. ~Has(Written[store][d])
    BY WrittenIs, <2>2, Constants DEF Has
  <2> QED
    BY <2>3, <2>4 DEF NeverShrinks, Ordinary
<1>4. CASE SyncDb
  <2>1. PICK d \in Dbs :
           /\ Has(device[d]) /\ Has(Written[store][d])
           /\ Written'[store][d] = Merged(Written[store][d], device[d])
           /\ \A s \in Stores, x \in Dbs : s # store \/ x # d => Written'[s][x] = Written[s][x]
    BY <1>4, SyncDbIs
  <2>2. Written[store][d].edits \subseteq Written'[store][d].edits
    BY <2>1, MergedIs
  <2> QED
    BY <2>1, <2>2 DEF NeverShrinks, Ordinary
<1>5. CASE DownloadDb
  <2>1. PICK d \in todo :
           IF backup[store][d] = Absent THEN Download(d) ELSE UNCHANGED queued
    BY <1>5 DEF DownloadDb
  <2>2. /\ d \in Dbs /\ store \in Stores /\ UNCHANGED backup /\ Listed /\ Has(device[d])
    BY <1>5 DEF DownloadDb, IInv, TypeOK, Session, InSession, Listed, Idle
  <2>3. CASE backup[store][d] = Absent
    <3>1. /\ Written'[store][d].edits = device[d].edits
          /\ \A s \in Stores, x \in Dbs : s # store \/ x # d => Written'[s][x] = Written[s][x]
      BY <2>1, <2>2, <2>3, DownloadIs
    <3>2. Has(Written[store][d]) => Written[store][d].edits = device[d].edits
      BY WrittenIs, <2>2, <2>3, Constants DEF Has, Listed
    <3> QED
      BY <3>1, <3>2 DEF NeverShrinks, Ordinary
  <2> QED
    BY <1>1, <2>1, <2>2, <2>3
<1>6. CASE InstallDb
  <2>1. PICK d \in todo :
           backup' = [backup EXCEPT ![store][d] = install[store][d].db]
    BY <1>6 DEF InstallDb
  <2>2. /\ d \in Dbs /\ store \in Stores /\ UNCHANGED queued /\ d \notin Ordinary
        /\ backup \in [Stores -> [Dbs -> Database \cup {Absent, Truncated}]]
    BY <1>6 DEF InstallDb, IInv, TypeOK, Files, Session, InSession, Idle
  <2>3. \A s \in Stores, x \in Ordinary : backup'[s][x] = backup[s][x]
    BY <2>1, <2>2 DEF Ordinary
  <2> QED
    BY WrittenIs, <2>2, <2>3 DEF NeverShrinks, Ordinary
<1>7. CASE Crash \/ SyncDbFails \/ LateWriteFails
  <2>1. /\ queued \in [Stores -> [Dbs -> Database \cup {Absent}]]
        /\ backup \in [Stores -> [Dbs -> Database \cup {Absent, Truncated}]]
    BY DEF IInv, TypeOK
  <2>2. \A s \in Stores, d \in Dbs : queued'[s][d] \in {queued[s][d], Absent}
    BY <1>7, <2>1 DEF Crash, SyncDbFails, LateWriteFails
  <2>3. \A s \in Stores, d \in Dbs : backup'[s][d] \in {backup[s][d], Truncated}
    BY <1>7, CutShortIs DEF Crash, SyncDbFails, LateWriteFails
  <2>4. ASSUME NEW s \in Stores, NEW d \in Ordinary, Has(Written[s][d]), Has(Written'[s][d])
        PROVE  Written'[s][d] = Written[s][d]
    <3>1. queued[s][d] # Absent => ~Has(backup[s][d])
      BY DEF IInv, Files
    <3> QED
      BY WrittenIs, <2>2, <2>3, <2>4, <3>1, Constants DEF Has, Ordinary
  <2> QED
    BY <2>4 DEF NeverShrinks
<1>8. CASE StartWrite \/ FinishWrite
  BY <1>8, WritesKeepContent DEF NeverShrinks, Ordinary
<1>9. CASE DeviceEdit \/ AddToInstall \/ HardReset \/ \E s \in Stores : Connect(s)
  BY <1>1, <1>9 DEF DeviceEdit, AddToInstall, HardReset, Connect
<1>10. CASE Restore \/ ReadDbList \/ SkipDb \/ ReadTruncated
  BY <1>1, <1>10 DEF Restore, ReadBackup, RestoreDb, RestoreFails, ReadDbList, SkipDb,
     ReadTruncated, world
<1>11. CASE StartDownload \/ DownloadFails \/ StartInstall \/ InstallFails
  BY <1>1, <1>11 DEF StartDownload, DownloadFails, StartInstall, InstallFails, world
<1>12. CASE UpdateSyncInfo \/ SessionFails \/ UNCHANGED vars
  BY <1>1, <1>12 DEF UpdateSyncInfo, SessionFails, vars, world
<1> QED
  BY <1>2, <1>3, <1>4, <1>5, <1>6, <1>7, <1>8, <1>9, <1>10, <1>11, <1>12
     DEF Next, User, SyncDatabases, DownloadNew, InstallNew

\* Whatever fails, whatever is reset and however the conduits' writes overlap
\* the next session, the backup of a record database never gives way to one
\* that holds less.
THEOREM BackupsGrow == Spec => BackupNeverShrinks
<1>1. ASSUME IInv, [Next]_vars
      PROVE  \A s \in Stores, d \in Dbs \ Resources :
                Has(Written[s][d]) /\ Has(Written'[s][d]) =>
                   Written[s][d].edits \subseteq Written'[s][d].edits
  BY <1>1, ShrinksNot DEF NeverShrinks, Ordinary
<1>2. IInv /\ [Next]_vars =>
         [\A s \in Stores, d \in Dbs \ Resources :
             Has(Written[s][d]) /\ Has(Written'[s][d]) =>
                Written[s][d].edits \subseteq Written'[s][d].edits]_vars
  BY <1>1
<1> QED
  BY <1>2, Invariant, PTL DEF Spec, BackupNeverShrinks

-----------------------------------------------------------------------------
(* What a fast sync rests on.                                              *)

\* No two folders of one user are on one PC: the computer's id, which is what
\* the device remembers, then stands for one folder of the user.
OneFolderEach ==
    \A s, t \in Stores : Pc[s] = Pc[t] /\ Name[s] = Name[t] => s = t

\* Each side has what the other one has and does not flag.
Trusted(db, file) ==
    /\ db.edits \ db.flagged \subseteq file.edits
    /\ resets = 0 => file.edits \ file.flagged \subseteq db.edits

\* Between sessions: the folder that the device has last been synced with.
Remembered ==
    \A s \in folders, d \in Syncable :
       userInfo = [userName |-> Name[s], lastSyncPc |-> Pc[s]]
          /\ Has(device[d]) /\ Has(Written[s][d]) => Trusted(device[d], Written[s][d])

\* A database that the session has still to sync, with the flags or without.
Unvisited(d) ==
    /\ syncType = "FIRST_SYNC" => Written[store][d] = Absent
    /\ syncType = "FAST_SYNC" /\ Has(device[d]) /\ Has(Written[store][d]) =>
          Trusted(device[d], Written[store][d])

\* A database that it has synced.
Synced(d) ==
    /\ Has(Written[store][d])
    /\ device[d].edits \subseteq Written[store][d].edits
    /\ resets = 0 => Written[store][d].edits \subseteq device[d].edits

\* One that has no backup yet: the next conduit will download it.
NotBackedUpYet(d) == Written[store][d] = Absent

\* In a session, conduit by conduit.
Progressing ==
    /\ phase \in {"readBackup", "restore", "list"} => \A d \in Syncable : Unvisited(d)
    /\ phase = "syncDbs" => \A d \in Syncable \cap dbList :
          IF d \in todo THEN Unvisited(d)
          ELSE Synced(d) \/ (syncType # "FIRST_SYNC" /\ NotBackedUpYet(d))
    /\ phase = "download" => \A d \in Syncable \cap dbList :
          Synced(d) \/ (d \in todo /\ NotBackedUpYet(d))
    /\ phase = "install" => \A d \in Syncable \cap dbList : Synced(d)

TInv == faults = 0 => IF Idle THEN Remembered ELSE Progressing

LEMMA SyncableIs == \A d \in Syncable : d \in Dbs /\ d \in Ordinary /\ d \notin Resources
BY DEF Syncable, Ordinary

\* A step that leaves the files, the devices and the session alone.
LEMMA SameTrust ==
    ASSUME TInv, Idle \/ store \in Stores, IInv,
           UNCHANGED <<device, userInfo, folders, phase, store, syncType, dbList, todo,
                       resets, faults>>,
           \A s \in Stores, d \in Dbs : Written'[s][d] = Written[s][d]
    PROVE  TInv'
<1>1. folders \subseteq Stores
  BY DEF IInv, TypeOK
<1> QED
  BY <1>1, SyncableIs
     DEF TInv, Idle, Remembered, Progressing, Trusted, Unvisited, Synced,
     NotBackedUpYet

LEMMA DeviceEditTrusts ==
    ASSUME IInv, TInv, faults = 0, DeviceEdit
    PROVE  TInv'
<1>1. PICK x \in Ordinary : device' = [device EXCEPT ![x] = Edited(@, edits + 1)]
  BY DEF DeviceEdit, Ordinary
<1>2. /\ edits + 1 \in Edits /\ Idle /\ folders \subseteq Stores /\ Remembered
      /\ UNCHANGED <<userInfo, folders, backup, queued, phase, resets, faults>>
  BY Constants DEF IInv, TypeOK, DeviceEdit, NewEdit, Edits, TInv
<1>3. /\ device \in [Dbs -> Database \cup {Absent}] /\ x \in Dbs
      /\ resets = 0 => Has(device[x])
  BY DEF IInv, TypeOK, Unfailed, Ordinary
<1>4. /\ device'[x] = Edited(device[x], edits + 1)
      /\ \A d \in Dbs : d # x => device'[d] = device[d]
  BY <1>1, <1>3
<1>5. ASSUME NEW s \in folders, NEW d \in Syncable, Has(device'[d]), Has(Written'[s][d]),
             userInfo = [userName |-> Name[s], lastSyncPc |-> Pc[s]]
      PROVE  Trusted(device'[d], Written'[s][d])
  <2>1. Written'[s][d] = Written[s][d]
    BY <1>2, SyncableIs, WrittenIs
  <2>2. Has(device[d]) => Trusted(device[d], Written[s][d])
    BY <1>2, <1>5, <2>1 DEF Remembered
  <2>3. CASE d # x
    BY <1>4, <1>5, <2>1, <2>2, <2>3, SyncableIs
  <2>4. CASE d = x
    <3>1. /\ Edited(device[d], edits + 1).edits =
                IF Has(device[d]) THEN device[d].edits \cup {edits + 1} ELSE {edits + 1}
          /\ Edited(device[d], edits + 1).flagged =
                IF Has(device[d]) THEN device[d].flagged \cup {edits + 1} ELSE {edits + 1}
      BY <1>2, EditedIs
    <3> QED
      BY <1>3, <1>4, <2>1, <2>2, <2>4, <3>1 DEF Trusted
  <2> QED
    BY <2>3, <2>4
<1>6. Remembered'
  BY <1>2, <1>5 DEF Remembered, Trusted
<1> QED
  BY <1>2, <1>6 DEF TInv, Idle

LEMMA DesktopEditTrusts ==
    ASSUME IInv, TInv, faults = 0, DesktopEdit
    PROVE  TInv'
<1>1. PICK t \in Stores, x \in Ordinary :
         /\ Has(Written[t][x]) /\ Idle /\ edits + 1 \in Edits /\ UNCHANGED device
         /\ Written'[t][x] = Edited(Written[t][x], edits + 1)
         /\ \A s \in Stores, d \in Dbs : s # t \/ d # x => Written'[s][d] = Written[s][d]
  BY DesktopEditIs
<1>2. /\ folders \subseteq Stores /\ Remembered
      /\ UNCHANGED <<userInfo, folders, phase, resets, faults>>
  BY <1>1 DEF IInv, TypeOK, DesktopEdit, TInv
<1>3. ASSUME NEW s \in folders, NEW d \in Syncable, Has(device[d]), Has(Written'[s][d]),
             userInfo = [userName |-> Name[s], lastSyncPc |-> Pc[s]]
      PROVE  Trusted(device[d], Written'[s][d])
  <2>1. CASE s # t \/ d # x
    <3>1. Written'[s][d] = Written[s][d]
      BY <1>1, <1>2, <2>1, SyncableIs
    <3> QED
      BY <1>2, <1>3, <3>1 DEF Remembered
  <2>2. CASE s = t /\ d = x
    <3>1. Trusted(device[d], Written[s][d])
      BY <1>1, <1>2, <1>3, <2>2 DEF Remembered
    <3>2. /\ Edited(Written[s][d], edits + 1).edits = Written[s][d].edits \cup {edits + 1}
          /\ Edited(Written[s][d], edits + 1).flagged = Written[s][d].flagged \cup {edits + 1}
      BY <1>1, <2>2, EditedIs
    <3> QED
      BY <1>1, <2>2, <3>1, <3>2 DEF Trusted
  <2> QED
    BY <2>1, <2>2
<1>4. Remembered'
  BY <1>1, <1>2, <1>3 DEF Remembered, Trusted
<1> QED
  BY <1>1, <1>2, <1>4 DEF TInv, Idle

LEMMA HardResetTrusts ==
    ASSUME IInv, TInv, HardReset
    PROVE  TInv'
<1>1. Idle' /\ \A d \in Dbs : ~Has(device'[d])
  BY Constants DEF HardReset, Idle, Has
<1> QED
  BY <1>1, SyncableIs DEF TInv, Remembered

\* The folder's own user and computer, or a sync that does not look at flags.
LEMMA ConnectTrusts ==
    ASSUME IInv, TInv, faults = 0, NEW s \in Stores, Connect(s)
    PROVE  TInv'
<1>1. Idle /\ Remembered /\ \A t \in Stores, d \in Dbs : Written'[t][d] = Written[t][d]
  BY WrittenIs DEF Connect, TInv
<1>2. CASE userInfo.userName \notin {None, Name[s]}
  BY <1>1, <1>2, SameTrust DEF Connect, session
<1>3. CASE userInfo.userName \in {None, Name[s]}
  <2>1. /\ store' = s /\ syncType' = KindOfSync(s) /\ phase' \in {"readBackup", "list"}
        /\ UNCHANGED <<device, resets, faults>>
    BY <1>3 DEF Connect
  <2>2. ASSUME NEW d \in Syncable
        PROVE  /\ syncType' = "FIRST_SYNC" => Written[s][d] = Absent
               /\ syncType' = "FAST_SYNC" /\ Has(device[d]) /\ Has(Written[s][d]) =>
                     Trusted(device[d], Written[s][d])
    <3>1. s \notin folders => Written[s][d] = Absent
      BY SyncableIs, WrittenIs DEF IInv, Files
    <3>2. syncType' = "FAST_SYNC" =>
             s \in folders /\ userInfo = [userName |-> Name[s], lastSyncPc |-> Pc[s]]
      BY <1>3, <2>1, Constants DEF KindOfSync, IInv, Known
    <3> QED
      BY <1>1, <2>1, <3>1, <3>2 DEF KindOfSync, Remembered
  <2>3. \A d \in Syncable : Unvisited(d)'
    BY <1>1, <2>1, <2>2, SyncableIs DEF Unvisited, Trusted
  <2> QED
    BY <2>1, <2>3 DEF TInv, Progressing, Idle
<1> QED
  BY <1>2, <1>3

\* A restored device is synced record by record.
LEMMA RestoreTrusts ==
    ASSUME IInv, TInv, faults = 0, ReadBackup \/ RestoreDb
    PROVE  TInv'
<1>1. phase \in {"readBackup", "restore"} /\ BeforeSync /\ ~Idle
  BY DEF ReadBackup, RestoreDb, IInv, Session, Idle
<1>2. syncType = "SLOW_SYNC" /\ store \in Stores /\ \A d \in Dbs : queued[store][d] = Absent
  BY <1>1 DEF BeforeSync, IInv, TypeOK, Session, InSession
<1>3. ~\E d \in Dbs : backup[store][d] = Truncated
  BY <1>2 DEF IInv, Unfailed
<1>4. syncType' = "SLOW_SYNC" /\ phase' = "restore"
  BY <1>2, <1>3 DEF ReadBackup, RestoreDb
<1> QED
  BY <1>4 DEF TInv, Progressing, Unvisited, Idle

LEMMA ReadDbListTrusts ==
    ASSUME IInv, TInv, faults = 0, ReadDbList
    PROVE  TInv'
<1>1. /\ phase \in {"restore", "list"} /\ phase' = "syncDbs" /\ todo' = dbList'
      /\ UNCHANGED <<device, backup, queued, store, syncType, faults, resets>>
      /\ \A d \in Syncable : Unvisited(d)
  BY DEF ReadDbList, world, bounds, TInv, Progressing, Idle
<1>2. store \in Stores
  BY <1>1 DEF IInv, TypeOK, Session, InSession, Idle
<1>3. \A d \in Syncable : Unvisited(d)'
  BY <1>1, <1>2, WrittenIs, SyncableIs DEF Unvisited, Trusted
<1> QED
  BY <1>1, <1>3 DEF TInv, Progressing, Idle

LEMMA FirstSyncDbTrusts ==
    ASSUME IInv, TInv, faults = 0, FirstSyncDb
    PROVE  TInv'
<1>1. PICK x \in todo : Done(x) /\ Download(x)
  BY DEF FirstSyncDb
<1>2. /\ phase = "syncDbs" /\ syncType = "FIRST_SYNC" /\ todo' = todo \ {x}
      /\ UNCHANGED <<device, backup, phase, store, syncType, dbList, faults, resets>>
      /\ x \in Dbs /\ store \in Stores /\ Has(device[x]) /\ dbList \subseteq Dbs
  BY <1>1 DEF FirstSyncDb, Done, bounds, IInv, TypeOK, Session, InSession, Listed, Idle
<1>3. /\ Has(Written'[store][x]) /\ Written'[store][x].edits = device[x].edits
      /\ \A d \in Dbs : d # x => Written'[store][d] = Written[store][d]
  BY <1>1, <1>2, DownloadIs
<1>4. \A d \in Syncable \cap dbList : d \notin todo => Synced(d)
  BY <1>2 DEF TInv, Progressing, Idle
<1>5. ASSUME NEW d \in Syncable \cap dbList, d \notin todo'
      PROVE  Synced(d)'
  BY <1>2, <1>3, <1>4, <1>5 DEF Synced
<1>6. ASSUME NEW d \in Syncable \cap dbList, d \in todo'
      PROVE  Unvisited(d)'
  <2>1. Unvisited(d) /\ d # x
    BY <1>2, <1>6 DEF TInv, Progressing, Idle
  <2> QED
    BY <1>2, <1>3, <2>1 DEF Unvisited, Trusted
<1> QED
  BY <1>2, <1>5, <1>6 DEF TInv, Progressing, Idle

LEMMA SkipDbTrusts ==
    ASSUME IInv, TInv, faults = 0, SkipDb
    PROVE  TInv'
<1>1. PICK x \in todo : ShouldSkip(x) /\ Done(x)
  BY DEF SkipDb
<1>2. /\ phase = "syncDbs" /\ syncType # "FIRST_SYNC" /\ todo' = todo \ {x}
      /\ UNCHANGED <<device, backup, queued, phase, store, syncType, dbList, faults, resets>>
      /\ x \in Dbs /\ store \in Stores /\ queued[store][x] = Absent
  BY <1>1 DEF SkipDb, Done, world, bounds, IInv, TypeOK, Session, InSession, Idle
<1>3. \A d \in Dbs : Written'[store][d] = Written[store][d]
  BY <1>2, WrittenIs
<1>4. x \in Syncable => NotBackedUpYet(x)
  BY <1>1, <1>2, WrittenIs DEF ShouldSkip, NotBackedUpYet
<1>5. ASSUME NEW d \in Syncable \cap dbList
      PROVE  IF d \in todo' THEN Unvisited(d)'
             ELSE Synced(d)' \/ (syncType' # "FIRST_SYNC" /\ NotBackedUpYet(d)')
  <2>1. IF d \in todo THEN Unvisited(d) ELSE Synced(d) \/ NotBackedUpYet(d)
    BY <1>2 DEF TInv, Progressing, Idle
  <2> QED
    BY <1>2, <1>3, <1>4, <2>1, SyncableIs DEF Unvisited, Synced, NotBackedUpYet, Trusted
<1> QED
  BY <1>2, <1>5 DEF TInv, Progressing, Idle

\* Slow: each side gets all the other one has.  Fast: each side gets what the
\* other one flags, and has the rest already.
LEMMA SyncDbTrusts ==
    ASSUME IInv, TInv, faults = 0, SyncDb
    PROVE  TInv'
<1>1. PICK x \in todo :
         /\ x \in Dbs /\ phase = "syncDbs" /\ syncType # "FIRST_SYNC" /\ store \in Stores
         /\ Syncing(x) /\ todo' = todo \ {x}
         /\ Has(device[x]) /\ Has(Written[store][x]) /\ Written[store][x] = backup[store][x]
         /\ device'[x] = Merged(device[x], Written[store][x])
         /\ Written'[store][x] = Merged(Written[store][x], device[x])
         /\ \A d \in Dbs : d # x => device'[d] = device[d]
         /\ \A s \in Stores, d \in Dbs : s # store \/ d # x => Written'[s][d] = Written[s][d]
  BY SyncDbIs
<1>2. UNCHANGED <<phase, store, syncType, dbList, faults, resets>> /\ dbList \subseteq Dbs
  BY DEF SyncDb, bounds, IInv, TypeOK
<1>3. x \in Syncable /\ x \in dbList /\ FlagsInside(device[x]) /\ FlagsInside(Written[store][x])
  BY <1>1, SyncableIs DEF Syncing, ShouldSkip, IInv, Session, Listed, Files
<1>4. syncType = "FAST_SYNC" => Trusted(device[x], Written[store][x])
  BY <1>1, <1>3 DEF TInv, Progressing, Idle, Unvisited
<1>5. Synced(x)'
  <2> DEFINE db == device[x]
             file == Written[store][x]
  <2>1. /\ Merged(db, file).edits = db.edits \cup Moved(file)
        /\ Merged(file, db).edits = file.edits \cup Moved(db)
        /\ Moved(file) = IF syncType = "FAST_SYNC" THEN file.flagged ELSE file.edits
        /\ Moved(db) = IF syncType = "FAST_SYNC" THEN db.flagged ELSE db.edits
        /\ Has(Merged(file, db))
    BY <1>1, MergedIs
  <2>2. file.flagged \subseteq file.edits /\ db.flagged \subseteq db.edits
    BY <1>1, <1>3 DEF FlagsInside
  <2>3. /\ Merged(db, file).edits \subseteq Merged(file, db).edits
        /\ resets = 0 => Merged(file, db).edits \subseteq Merged(db, file).edits
    BY <1>4, <2>1, <2>2 DEF Trusted
  <2> QED
    BY <1>1, <1>2, <2>1, <2>3 DEF Synced
<1>6. ASSUME NEW d \in Syncable \cap dbList, d # x
      PROVE  IF d \in todo' THEN Unvisited(d)' ELSE Synced(d)' \/ NotBackedUpYet(d)'
  <2>1. IF d \in todo THEN Unvisited(d) ELSE Synced(d) \/ NotBackedUpYet(d)
    BY <1>1 DEF TInv, Progressing, Idle
  <2> QED
    BY <1>1, <1>2, <1>6, <2>1 DEF Unvisited, Synced, NotBackedUpYet, Trusted
<1> QED
  BY <1>1, <1>2, <1>5, <1>6 DEF TInv, Progressing, Idle

\* As long as nothing fails, no file is torn when a session reads it.
LEMMA NothingTorn ==
    ASSUME IInv, faults = 0, ReadTruncated
    PROVE  FALSE
BY DEF ReadTruncated, Syncing, IInv, TypeOK, Unfailed, Session, InSession, Idle

LEMMA StartDownloadTrusts ==
    ASSUME IInv, TInv, faults = 0, StartDownload
    PROVE  TInv'
<1>1. /\ phase = "syncDbs" /\ phase' = "download" /\ todo = {} /\ todo' = dbList
      /\ UNCHANGED <<device, backup, queued, store, dbList, faults, resets>>
      /\ store \in Stores
  BY DEF StartDownload, GoOn, world, bounds, IInv, TypeOK, Session, InSession, Idle
<1>2. \A d \in Syncable \cap dbList : Synced(d) \/ NotBackedUpYet(d)
  BY <1>1 DEF TInv, Progressing, Idle
<1>3. \A d \in Syncable \cap dbList : Synced(d)' \/ NotBackedUpYet(d)'
  BY <1>1, <1>2, WrittenIs, SyncableIs DEF Synced, NotBackedUpYet
<1> QED
  BY <1>1, <1>3 DEF TInv, Progressing, Idle

LEMMA DownloadDbTrusts ==
    ASSUME IInv, TInv, faults = 0, DownloadDb
    PROVE  TInv'
<1>1. PICK x \in todo :
         /\ todo' = todo \ {x}
         /\ IF backup[store][x] = Absent THEN Download(x) ELSE UNCHANGED queued
  BY DEF DownloadDb, Done
<1>2. /\ phase = "download" /\ x \in Dbs /\ store \in Stores /\ Has(device[x])
      /\ UNCHANGED <<device, backup, phase, store, dbList, faults, resets>>
  BY <1>1 DEF DownloadDb, bounds, IInv, TypeOK, Session, InSession, Listed, Idle
<1>3. \A d \in Syncable \cap dbList : Synced(d) \/ (d \in todo /\ NotBackedUpYet(d))
  BY <1>2 DEF TInv, Progressing, Idle
<1>4. /\ \A d \in Dbs : d # x => Written'[store][d] = Written[store][d]
      /\ backup[store][x] = Absent =>
            Has(Written'[store][x]) /\ Written'[store][x].edits = device[x].edits
      /\ backup[store][x] # Absent =>
            Written'[store][x] = Written[store][x] /\ Written[store][x] # Absent
  <2>1. CASE backup[store][x] = Absent
    BY <1>1, <1>2, <2>1, DownloadIs
  <2>2. CASE backup[store][x] # Absent
    BY <1>1, <1>2, <2>2, WrittenIs
  <2> QED
    BY <2>1, <2>2
<1>5. ASSUME NEW d \in Syncable \cap dbList
      PROVE  Synced(d)' \/ (d \in todo' /\ NotBackedUpYet(d)')
  <2>1. CASE d = x
    <3>1. backup[store][d] # Absent => Synced(d)
      BY <1>3, <1>4, <2>1 DEF NotBackedUpYet
    <3> QED
      BY <1>2, <1>4, <2>1, <3>1 DEF Synced
  <2>2. CASE d # x
    BY <1>1, <1>2, <1>3, <1>4, <2>2, SyncableIs DEF Synced, NotBackedUpYet
  <2> QED
    BY <2>1, <2>2
<1> QED
  BY <1>2, <1>5 DEF TInv, Progressing, Idle

LEMMA InstallTrusts ==
    ASSUME IInv, TInv, faults = 0, StartInstall \/ InstallDb
    PROVE  TInv'
<1>1. CASE StartInstall
  <2>1. /\ phase = "download" /\ phase' = "install" /\ todo = {} /\ store \in Stores
        /\ UNCHANGED <<device, backup, queued, store, dbList, faults, resets>>
    BY <1>1
       DEF StartInstall, GoOn, world, bounds, IInv, TypeOK, Session, InSession, Idle
  <2>2. \A d \in Syncable \cap dbList : Synced(d)
    BY <2>1 DEF TInv, Progressing, Idle
  <2>3. \A d \in Syncable \cap dbList : Synced(d)'
    BY <2>1, <2>2, WrittenIs, SyncableIs DEF Synced
  <2> QED
    BY <2>1, <2>3 DEF TInv, Progressing, Idle
<1>2. CASE InstallDb
  <2>1. PICK x \in todo :
           /\ device' = [device EXCEPT ![x] = toInstall[x]]
           /\ backup' = [backup EXCEPT ![store][x] = install[store][x].db]
    BY <1>2 DEF InstallDb
  <2>2. /\ phase = "install" /\ x \in Dbs /\ store \in Stores /\ x \notin Ordinary
        /\ UNCHANGED <<queued, phase, store, dbList, faults, resets>>
        /\ device \in [Dbs -> Database \cup {Absent}]
        /\ backup \in [Stores -> [Dbs -> Database \cup {Absent, Truncated}]]
    BY <1>2 DEF InstallDb, bounds, IInv, TypeOK, Files, Session, InSession, Idle
  <2>3. \A d \in Syncable : device'[d] = device[d] /\ Written'[store][d] = Written[store][d]
    <3>1. \A d \in Dbs : d # x => device'[d] = device[d] /\ backup'[store][d] = backup[store][d]
      BY <2>1, <2>2
    <3> QED
      BY <2>2, <3>1, WrittenIs, SyncableIs
  <2>4. \A d \in Syncable \cap dbList : Synced(d)
    BY <2>2 DEF TInv, Progressing, Idle
  <2>5. \A d \in Syncable \cap dbList : Synced(d)'
    BY <2>2, <2>3, <2>4 DEF Synced
  <2> QED
    BY <2>2, <2>5 DEF TInv, Progressing, Idle
<1> QED
  BY <1>1, <1>2

\* The session writes its own user and computer, which stand for its folder.
LEMMA UpdateSyncInfoTrusts ==
    ASSUME OneFolderEach, IInv, TInv, faults = 0, UpdateSyncInfo
    PROVE  /\ TInv'
           /\ \A d \in Syncable : Has(device'[d]) =>
                 /\ Has(Written'[store][d])
                 /\ device'[d].edits \subseteq Written'[store][d].edits
                 /\ resets = 0 => Written'[store][d].edits \subseteq device'[d].edits
<1>1. /\ phase = "install" /\ phase' = "idle" /\ store \in Stores /\ folders \subseteq Stores
      /\ userInfo' = [userName |-> Name[store], lastSyncPc |-> Pc[store]]
      /\ UNCHANGED <<device, folders, backup, queued, faults, resets>>
  BY DEF UpdateSyncInfo, EndSession, bounds, IInv, TypeOK, Session, InSession, Idle
<1>2. \A s \in Stores, d \in Dbs : Written'[s][d] = Written[s][d]
  BY <1>1, WrittenIs
<1>3. ASSUME NEW d \in Syncable, Has(device[d])
      PROVE  Synced(d)
  <2>1. d \in dbList
    BY <1>1, <1>3, SyncableIs DEF IInv, Session
  <2> QED
    BY <1>1, <2>1 DEF TInv, Progressing, Idle
<1>4. Remembered'
  <2>1. ASSUME NEW s \in folders, NEW d \in Syncable, Has(device[d]),
               userInfo' = [userName |-> Name[s], lastSyncPc |-> Pc[s]]
        PROVE  Trusted(device[d], Written[s][d])
    <3>1. s = store
      BY <1>1, <2>1 DEF OneFolderEach
    <3> QED
      BY <1>3, <2>1, <3>1 DEF Synced, Trusted
  <2> QED
    BY <1>1, <1>2, <2>1, SyncableIs DEF Remembered, Trusted
<1> QED
  BY <1>1, <1>2, <1>3, <1>4, SyncableIs DEF TInv, Idle, Synced

-----------------------------------------------------------------------------

LEMMA InitTInv == Init => TInv
BY Constants DEF Init, TInv, Idle, Remembered

LEMMA StepTInv ==
    ASSUME OneFolderEach, IInv, TInv, [Next]_vars
    PROVE  TInv'
<1> SUFFICES ASSUME faults' = 0 PROVE TInv'
  BY DEF TInv
<1>1. faults = 0 /\ ~Fault
  <2>1. faults \in Nat
    BY DEF IInv, TypeOK
  <2>2. ~Fault
    BY <2>1 DEF Fault
  <2>3. faults' = faults \/ Fault
    BY
       DEF Next, User, DeviceEdit, DesktopEdit, AddToInstall, HardReset, Connect,
           Restore,
       ReadBackup, RestoreDb, RestoreFails, ReadDbList, SyncDatabases, FirstSyncDb, SkipDb,
       SyncDb, SyncDbFails, ReadTruncated, DownloadNew, StartDownload, DownloadDb,
       DownloadFails, InstallNew, StartInstall, InstallDb, InstallFails, UpdateSyncInfo,
       SessionFails, Crash, StartWrite, FinishWrite, LateWriteFails, vars
  <2> QED
    BY <2>2, <2>3
<1>2. CASE User
  <2>1. CASE AddToInstall
    <3>1. Idle /\ UNCHANGED <<device, userInfo, folders, phase, store, syncType, dbList, todo,
                              resets, faults, backup, queued>>
      BY <2>1 DEF AddToInstall, NewEdit, session
    <3> QED
      BY <3>1, SameTrust, WrittenIs
  <2> QED
    BY <1>1, <1>2, <2>1, DeviceEditTrusts, DesktopEditTrusts, HardResetTrusts DEF User
<1>3. CASE \E s \in Stores : Connect(s)
  BY <1>1, <1>3, ConnectTrusts
<1>4. CASE Restore \/ ReadDbList
  BY <1>1, <1>4, RestoreTrusts, ReadDbListTrusts DEF Restore, RestoreFails
<1>5. CASE SyncDatabases
  BY <1>1, <1>5, FirstSyncDbTrusts, SkipDbTrusts, SyncDbTrusts, NothingTorn
     DEF SyncDatabases, SyncDbFails
<1>6. CASE DownloadNew \/ InstallNew
  BY <1>1, <1>6, StartDownloadTrusts, DownloadDbTrusts, InstallTrusts
     DEF DownloadNew, DownloadFails, InstallNew, InstallFails
<1>7. CASE UpdateSyncInfo
  BY <1>1, <1>7, UpdateSyncInfoTrusts
<1>8. CASE SessionFails \/ Crash \/ LateWriteFails
  BY <1>1, <1>8 DEF SessionFails, Crash, LateWriteFails
<1>9. CASE StartWrite \/ FinishWrite \/ UNCHANGED vars
  <2>1. /\ Idle \/ store \in Stores
        /\ UNCHANGED <<device, userInfo, folders, phase, store, syncType, dbList, todo,
                       resets, faults>>
    BY <1>9 DEF StartWrite, FinishWrite, vars, world, session, bounds, IInv, TypeOK,
       Session, InSession
  <2>2. \A s \in Stores, d \in Dbs : Written'[s][d] = Written[s][d]
    BY <1>9, WritesKeepContent, WrittenIs DEF vars, world
  <2> QED
    BY <2>1, <2>2, SameTrust
<1> QED
  BY <1>2, <1>3, <1>4, <1>5, <1>6, <1>7, <1>8, <1>9 DEF Next

LEMMA TrustInvariant ==
    ASSUME OneFolderEach
    PROVE  Spec => [](IInv /\ TInv)
<1>1. Init => IInv /\ TInv
  BY InitIInv, InitTInv
<1>2. IInv /\ TInv /\ [Next]_vars => (IInv /\ TInv)'
  BY StepIInv, StepTInv
<1> QED
  BY <1>1, <1>2, PTL DEF Spec

\* What the choice of a fast sync rests on is true between any two sessions,
\* whatever the user does on both sides, on any number of PCs: the PC that the
\* device remembers has every edit it does not flag, and the other way round.
THEOREM FastSyncIsSafe ==
    ASSUME OneFolderEach
    PROVE  Spec => []FlagsTrusted
<1>1. IInv /\ TInv => FlagsTrusted
  BY DEF IInv, TypeOK, TInv, FlagsTrusted, Remembered, Trusted
<1> QED
  BY <1>1, TrustInvariant, PTL

\* A session that ends well, with nothing ever failed, leaves a folder that
\* holds what the device holds.
THEOREM GoodSessionBacksUp ==
    ASSUME OneFolderEach
    PROVE  Spec => BackupUpToDate
<1> DEFINE Good ==
       SessionSucceeds /\ faults = 0 =>
          \A d \in Syncable : Has(device'[d]) =>
             /\ Has(Written'[store][d])
             /\ device'[d].edits \subseteq Written'[store][d].edits
             /\ resets = 0 => Written'[store][d].edits = device'[d].edits
<1>1. ASSUME IInv, TInv, [Next]_vars, SessionSucceeds, faults = 0
      PROVE  \A d \in Syncable : Has(device'[d]) =>
                /\ Has(Written'[store][d])
                /\ device'[d].edits \subseteq Written'[store][d].edits
                /\ resets = 0 => Written'[store][d].edits = device'[d].edits
  <2>1. UpdateSyncInfo
    BY <1>1 DEF SessionSucceeds, Idle, Next, User, NewEdit, DeviceEdit, DesktopEdit,
       AddToInstall, HardReset, Connect, Restore, ReadBackup, RestoreDb, RestoreFails,
       ReadDbList, SyncDatabases, FirstSyncDb, SkipDb, SyncDb, SyncDbFails, ReadTruncated,
       DownloadNew, StartDownload, DownloadDb, DownloadFails, InstallNew, StartInstall,
       InstallDb, InstallFails, SessionFails, Crash, StartWrite, FinishWrite,
       LateWriteFails, EndSession, GoOn, vars
  <2> QED
    BY <1>1, <2>1, UpdateSyncInfoTrusts
<1>2. IInv /\ TInv /\ [Next]_vars => [Good]_vars
  BY <1>1
<1> QED
  BY <1>2, TrustInvariant, PTL DEF Spec, BackupUpToDate

=============================================================================

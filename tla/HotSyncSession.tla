--------------------------- MODULE HotSyncSession ---------------------------
(***************************************************************************)
(* HotSync sessions of one device with several desktop folders:            *)
(* src/sync-utils/sync-device.ts, the conduits of the sync command in      *)
(* their order, and NodeDatabaseStorage.  A store is the folder of a user  *)
(* on a PC.                                                                *)
(*                                                                         *)
(* What a database holds is the set of the edits that made it, each edit   *)
(* to a record of its own that both sides know; which records move in a    *)
(* sync, and what a sync that fails has done, is the subject of RecordSync *)
(* and enters here as its outcome.                                         *)
(***************************************************************************)
EXTENDS Naturals

CONSTANTS
    Stores,       \* desktop folders
    Pc,           \* Pc[s]: getComputerId() of the PC that has the folder s
    Name,         \* Name[s]: requestedUserName of the syncs into s
    Dbs,          \* database names
    Resources,    \* the ones with the resDB attribute
    NotBackedUp,  \* the ones without the backup attribute
    FileNames,    \* install files: "same" or "other" name than the backup's
    None, Absent, Truncated,
    MaxEdits, MaxSyncs, MaxResets, MaxFaults  \* bounds of a behaviour

Syncable == Dbs \ (Resources \cup NotBackedUp)

Edits == 1 .. MaxEdits

Database == [edits : SUBSET Edits, flagged : SUBSET Edits]

SyncTypes == {"FIRST_SYNC", "SLOW_SYNC", "FAST_SYNC"}

ASSUME SessionAssumption ==
    /\ None \notin Stores /\ {Absent, Truncated} \cap Database = {}
    /\ Absent # Truncated
    /\ Name \in [Stores -> {Name[s] : s \in Stores} \ {None}]
    /\ Pc \in [Stores -> {Pc[s] : s \in Stores} \ {None}]
    /\ Resources \subseteq Dbs /\ NotBackedUp \subseteq Dbs
    /\ FileNames \subseteq {"same", "other"}
    /\ {MaxEdits, MaxSyncs, MaxResets, MaxFaults} \subseteq Nat

VARIABLES
    device,    \* the databases on the device
    userInfo,  \* DlpReadUserInfo: userName (with userId) and lastSyncPc
    folders,   \* the stores that createUser() has made
    backup,    \* backup[s]: the files of the backup folder of s
    install,   \* install[s]: the files of its install folder, and their names
    queued,    \* queued[s]: writeDatabase() calls nobody has waited for
    phase,     \* which conduit the session is in
    store,     \* the folder of the session
    syncType,
    newlySet,  \* palmID.newlySet
    dbList,    \* conduitData.dbList
    todo,      \* databases the current conduit has still to visit
    toInstall, \* what getDatabasesFromInstallList() has read
    result,    \* how the last session ended
    edits, syncs, resets,
    faults     \* requests that have failed, links and processes that have died

world == <<device, userInfo, folders, backup, install, queued>>
session == <<store, syncType, newlySet, dbList, todo, toInstall>>
bounds == <<edits, syncs, resets>>
vars == <<world, phase, session, result, faults, bounds>>

-----------------------------------------------------------------------------
(* Users, between sessions.                                                *)

Idle == phase = "idle"

Has(db) == db \in Database

\* The next edit, flagged or not, on top of what a database holds.
Edited(db, e) ==
    IF Has(db) THEN [edits |-> db.edits \cup {e}, flagged |-> db.flagged \cup {e}]
    ELSE [edits |-> {e}, flagged |-> {e}]

NewEdit == Idle /\ edits < MaxEdits /\ edits' = edits + 1

DeviceEdit ==
    /\ NewEdit
    /\ \E d \in Dbs \ Resources : device' = [device EXCEPT ![d] = Edited(@, edits + 1)]
    /\ UNCHANGED <<userInfo, folders, backup, install, queued, phase, session,
                   result, faults, syncs, resets>>

DesktopEdit ==
    /\ NewEdit
    /\ \E s \in Stores, d \in Dbs \ Resources :
          /\ Has(backup[s][d])
          /\ backup' = [backup EXCEPT ![s][d] = Edited(@, edits + 1)]
    /\ UNCHANGED <<device, userInfo, folders, install, queued, phase, session,
                   result, faults, syncs, resets>>

\* A new version of a resource database is put into the install folder.
AddToInstall ==
    /\ NewEdit
    /\ \E s \in folders, d \in Resources, name \in FileNames :
          install' = [install EXCEPT ![s][d] =
                        [db |-> [edits |-> {edits + 1}, flagged |-> {}],
                         name |-> name]]
    /\ UNCHANGED <<device, userInfo, folders, backup, queued, phase, session,
                   result, faults, syncs, resets>>

HardReset ==
    /\ Idle /\ resets < MaxResets /\ resets' = resets + 1
    /\ device' = [d \in Dbs |-> Absent]
    /\ userInfo' = [userName |-> None, lastSyncPc |-> None]
    /\ UNCHANGED <<folders, backup, install, queued, phase, session, result,
                   faults, edits, syncs>>

-----------------------------------------------------------------------------
(* syncDevice(): who is it, what kind of sync, which conduits.             *)

Fault == faults < MaxFaults /\ faults' = faults + 1

NoSession ==
    /\ store' = None /\ syncType' = None /\ newlySet' = FALSE
    /\ dbList' = {} /\ todo' = {} /\ toInstall' = [d \in Dbs |-> Absent]

EndSession(why) == phase' = "idle" /\ result' = why /\ NoSession

\* Mutated form of KindOfSync: whichever PC was the last one.
DefaultSyncType(s) == IF s \notin folders THEN "FIRST_SYNC" ELSE "FAST_SYNC"

\* Mutated form of KindOfSync: a device without a user is new to every PC.
FirstSyncOfNewUser(s) ==
    IF s \notin folders \/ userInfo.userName = None THEN "FIRST_SYNC"
    ELSE IF userInfo.lastSyncPc # Pc[s] THEN "SLOW_SYNC" ELSE "FAST_SYNC"

KindOfSync(s) ==
    IF s \notin folders THEN "FIRST_SYNC"
    ELSE IF userInfo.lastSyncPc # Pc[s] THEN "SLOW_SYNC" ELSE "FAST_SYNC"

\* Local writes are done long before the user starts the next session.
Connect(s) ==
    /\ Idle /\ syncs < MaxSyncs /\ \A d \in Dbs : queued[s][d] = Absent
    /\ syncs' = syncs + 1
    /\ \/ /\ userInfo.userName \notin {None, Name[s]}
          /\ result' = "wrongUser"
          /\ UNCHANGED <<folders, phase, session>>
       \/ /\ userInfo.userName \in {None, Name[s]}
          /\ store' = s /\ newlySet' = (userInfo.userName = None)
          /\ syncType' = KindOfSync(s)
          /\ folders' = folders \cup {s}
          /\ phase' = IF s \in folders /\ newlySet' THEN "readBackup" ELSE "list"
          /\ UNCHANGED <<result, dbList, todo, toInstall>>
    /\ UNCHANGED <<device, userInfo, backup, install, queued, faults, edits, resets>>

\* A conduit is done with all it had to visit.
GoOn(from, to, next) ==
    /\ phase = from /\ todo = {}
    /\ phase' = to /\ todo' = next

Done(d) == todo' = todo \ {d}

-----------------------------------------------------------------------------
(* What one visit of a database does, and what it leaves half done.        *)

\* shouldSkipRecord()
ShouldSkip(d) == d \notin Syncable \/ backup[store][d] = Absent

\* What a sync moves to the other side: by the flags, or by content.
Moved(from) == IF syncType = "FAST_SYNC" THEN from.flagged ELSE from.edits

Merged(db, other) == [edits |-> db.edits \cup Moved(other), flagged |-> {}]

Syncing(d) ==
    /\ phase = "syncDbs" /\ syncType # "FIRST_SYNC"
    /\ d \in todo /\ ~ShouldSkip(d)

\* writeRawDb() deletes, creates, and writes the records of db one by one.
PartlyWritten(d, db) ==
    {device[d], Absent} \cup
        {[edits |-> part, flagged |-> part \cap db.flagged] : part \in SUBSET db.edits}

\* The device may have got any part of what it lacks, and its flags may have
\* been reset when it had got all of it.
PartlyMerged(d) ==
    LET other == backup[store][d]
    IN  {[device[d] EXCEPT !.edits = @ \cup part] : part \in SUBSET Moved(other)}
            \cup {Merged(device[d], other)}

\* What the device may be when the current conduit fails at d.
HalfDone(d) ==
    LET left == CASE phase = "restore" -> PartlyWritten(d, backup[store][d])
                  [] phase = "install" -> PartlyWritten(d, toInstall[d])
                  [] Syncing(d) /\ Has(backup[store][d]) -> PartlyMerged(d)
                  [] OTHER -> {device[d]}
    IN  {[device EXCEPT ![d] = l] : l \in left}

-----------------------------------------------------------------------------
(* RestoreResourcesConduit and writeRawDb().                               *)

ReadBackup ==
    /\ phase = "readBackup"
    /\ IF \E d \in Dbs : backup[store][d] = Truncated
       THEN EndSession("error")
       ELSE /\ phase' = "restore"
            /\ todo' = {d \in Dbs : Has(backup[store][d])}
            /\ UNCHANGED <<store, syncType, newlySet, dbList, toInstall, result>>
    /\ UNCHANGED <<world, faults, bounds>>

RestoreDb ==
    /\ phase = "restore"
    /\ \E d \in todo : Done(d) /\ device' = [device EXCEPT ![d] = backup[store][d]]
    /\ UNCHANGED <<userInfo, folders, backup, install, queued, phase, store,
                   syncType, newlySet, dbList, toInstall, result, faults, bounds>>

RestoreFails ==
    /\ phase = "restore"
    /\ \E d \in todo : Done(d) /\ device' \in HalfDone(d)
    /\ Fault
    /\ UNCHANGED <<userInfo, folders, backup, install, queued, phase, store,
                   syncType, newlySet, dbList, toInstall, result, bounds>>

\* readDbList(), once the restore, if there was one, is over.
ReadDbList ==
    /\ phase \in {"restore", "list"} /\ todo = {}
    /\ phase' = "syncDbs"
    /\ dbList' = {d \in Dbs : device[d] # Absent}
    /\ todo' = dbList'
    /\ UNCHANGED <<world, store, syncType, newlySet, toInstall, result, faults,
                   bounds>>

-----------------------------------------------------------------------------
(* SyncDatabasesConduit.                                                   *)

\* readRawDb(), cleanUpDb(), and a writeDatabase() that is not waited for.
Download(d) ==
    queued' = [queued EXCEPT ![store][d] =
                 [edits |-> device[d].edits, flagged |-> {}]]

FirstSyncDb ==
    /\ phase = "syncDbs" /\ syncType = "FIRST_SYNC"
    /\ \E d \in todo : Done(d) /\ Download(d)
    /\ UNCHANGED <<device, userInfo, folders, backup, install, phase, store,
                   syncType, newlySet, dbList, toInstall, result, faults, bounds>>

SkipDb ==
    /\ phase = "syncDbs" /\ syncType # "FIRST_SYNC"
    /\ \E d \in todo : ShouldSkip(d) /\ Done(d)
    /\ UNCHANGED <<world, phase, store, syncType, newlySet, dbList, toInstall,
                   result, faults, bounds>>

SyncDb ==
    /\ \E d \in todo :
          /\ Syncing(d) /\ Has(backup[store][d]) /\ Done(d)
          /\ device' = [device EXCEPT ![d] = Merged(@, backup[store][d])]
          /\ backup' = [backup EXCEPT ![store][d] = Merged(@, device[d])]
    /\ UNCHANGED <<userInfo, folders, install, queued, phase, store, syncType,
                   newlySet, dbList, toInstall, result, faults, bounds>>

\* The sync is over on the device, and of the file only an end is missing, or
\* all of it: writeDatabase() overwrites it in place.
WriteCutShort(d) ==
    /\ device' = [device EXCEPT ![d] = Merged(@, backup[store][d])]
    /\ backup' = [backup EXCEPT ![store][d] = Truncated]

\* A request fails and the file is not written, or the write of it fails; the
\* conduit goes on to the next database.
SyncDbFails ==
    /\ \E d \in todo :
          /\ Syncing(d) /\ Has(backup[store][d]) /\ Done(d)
          /\ \/ device' \in HalfDone(d) /\ UNCHANGED backup
             \/ WriteCutShort(d)
    /\ Fault
    /\ UNCHANGED <<userInfo, folders, install, queued, phase, store, syncType,
                   newlySet, dbList, toInstall, result, bounds>>

\* readDatabase() is not in the try block.
ReadTruncated ==
    /\ \E d \in todo : Syncing(d) /\ backup[store][d] = Truncated
    /\ EndSession("error")
    /\ UNCHANGED <<world, faults, bounds>>

-----------------------------------------------------------------------------
(* DownloadNewResourcesConduit.                                            *)

StartDownload ==
    /\ GoOn("syncDbs", "download", dbList)
    /\ UNCHANGED <<world, store, syncType, newlySet, dbList, toInstall, result,
                   faults, bounds>>

DownloadDb ==
    /\ phase = "download"
    /\ \E d \in todo :
          /\ Done(d)
          /\ IF backup[store][d] = Absent THEN Download(d) ELSE UNCHANGED queued
    /\ UNCHANGED <<device, userInfo, folders, backup, install, phase, store,
                   syncType, newlySet, dbList, toInstall, result, faults, bounds>>

DownloadFails ==
    /\ phase = "download"
    /\ \E d \in todo : backup[store][d] = Absent /\ Done(d)
    /\ Fault
    /\ UNCHANGED <<world, phase, store, syncType, newlySet, dbList, toInstall,
                   result, bounds>>

-----------------------------------------------------------------------------
(* InstallNewResourcesConduit.                                             *)

\* readDatabase() looks into the backup folder first.
ReadsBackup(d) == install[store][d].name = "same" /\ backup[store][d] # Absent

ReadToInstall(d) ==
    IF install[store][d] = Absent THEN Absent
    ELSE IF ReadsBackup(d) THEN backup[store][d] ELSE install[store][d].db

\* Mutated form of StartInstall: what it has read is not looked at.
StartInstallUnread ==
    /\ phase = "download"
    /\ toInstall' = [d \in Dbs |-> ReadToInstall(d)]
    /\ GoOn("download", "install", {d \in Dbs : toInstall'[d] # Absent})
    /\ UNCHANGED <<world, store, syncType, newlySet, dbList, result, faults, bounds>>

\* getDatabasesFromInstallList(); reading one fails, all are skipped.
StartInstall ==
    /\ phase = "download"
    /\ toInstall' = [d \in Dbs |-> ReadToInstall(d)]
    /\ GoOn("download", "install",
            IF \E d \in Dbs : toInstall'[d] = Truncated THEN {}
            ELSE {d \in Dbs : toInstall'[d] # Absent})
    /\ UNCHANGED <<world, store, syncType, newlySet, dbList, result, faults, bounds>>

\* writeDb(), then the file is moved over the one in the backup folder.
InstallDb ==
    /\ phase = "install"
    /\ \E d \in todo :
          /\ Done(d)
          /\ device' = [device EXCEPT ![d] = toInstall[d]]
          /\ backup' = [backup EXCEPT ![store][d] = install[store][d].db]
          /\ install' = [install EXCEPT ![store][d] = Absent]
    /\ UNCHANGED <<userInfo, folders, queued, phase, store, syncType, newlySet,
                   dbList, toInstall, result, faults, bounds>>

\* The loop is inside the try block: the rest of the list is skipped.
InstallFails ==
    /\ phase = "install"
    /\ \E d \in todo : device' \in HalfDone(d)
    /\ todo' = {} /\ Fault
    /\ UNCHANGED <<userInfo, folders, backup, install, queued, phase, store,
                   syncType, newlySet, dbList, toInstall, result, bounds>>

-----------------------------------------------------------------------------
(* UpdateSyncInfoConduit, and the end of a session.                        *)

\* Mutated form of UpdateSyncInfo: the PC is written with the user only.
UpdateNewUserOnly ==
    /\ phase = "install" /\ todo = {}
    /\ userInfo' = IF newlySet
                   THEN [userName |-> Name[store], lastSyncPc |-> Pc[store]]
                   ELSE userInfo
    /\ EndSession("ok")
    /\ UNCHANGED <<device, folders, backup, install, queued, faults, bounds>>

UpdateSyncInfo ==
    /\ phase = "install" /\ todo = {}
    /\ userInfo' = [userName |-> IF newlySet THEN Name[store] ELSE userInfo.userName,
                    lastSyncPc |-> Pc[store]]
    /\ EndSession("ok")
    /\ UNCHANGED <<device, folders, backup, install, queued, faults, bounds>>

\* A request outside the try blocks fails, or the link dies at any request.
SessionFails ==
    /\ ~Idle
    /\ device' = device \/ \E d \in todo : device' \in HalfDone(d)
    /\ EndSession("error")
    /\ Fault
    /\ UNCHANGED <<userInfo, folders, backup, install, queued, bounds>>

\* The process ends in the middle of a session, maybe while it overwrites a
\* file with what it has merged; the writes nobody waited for are lost.  One of
\* them that fails ends it so, for nobody catches the rejection.
Crash ==
    /\ ~Idle
    /\ \/ /\ device' = device \/ \E d \in todo : device' \in HalfDone(d)
          /\ UNCHANGED backup
       \/ \E d \in todo : Syncing(d) /\ Has(backup[store][d]) /\ WriteCutShort(d)
    /\ queued' = [queued EXCEPT ![store] = [d \in Dbs |-> Absent]]
    /\ EndSession("crash")
    /\ Fault
    /\ UNCHANGED <<userInfo, folders, install, bounds>>

-----------------------------------------------------------------------------
(* A write that nobody waits for: ensureFile(), then writeFile().          *)

StartWrite ==
    /\ \E s \in Stores, d \in Dbs :
          /\ queued[s][d] # Absent /\ backup[s][d] # Truncated
          /\ backup' = [backup EXCEPT ![s][d] = Truncated]
    /\ UNCHANGED <<device, userInfo, folders, install, queued, phase, session,
                   result, faults, bounds>>

FinishWrite ==
    /\ \E s \in Stores, d \in Dbs :
          /\ queued[s][d] # Absent /\ backup[s][d] = Truncated
          /\ backup' = [backup EXCEPT ![s][d] = queued[s][d]]
          /\ queued' = [queued EXCEPT ![s][d] = Absent]
    /\ UNCHANGED <<device, userInfo, folders, install, phase, session, result,
                   faults, bounds>>

\* Such a write fails, or the process ends before it is done, when the session
\* is over: the others of the session are lost with it.
LateWriteFails ==
    /\ Idle
    /\ \E s \in Stores :
          /\ \E d \in Dbs : queued[s][d] # Absent
          /\ queued' = [queued EXCEPT ![s] = [d \in Dbs |-> Absent]]
    /\ Fault
    /\ UNCHANGED <<device, userInfo, folders, backup, install, phase, session,
                   result, bounds>>

-----------------------------------------------------------------------------

\* A device that has never been synced, with its record databases.
Init ==
    /\ device = [d \in Dbs |-> IF d \in Resources THEN Absent
                               ELSE [edits |-> {}, flagged |-> {}]]
    /\ userInfo = [userName |-> None, lastSyncPc |-> None]
    /\ folders = {}
    /\ backup = [s \in Stores |-> [d \in Dbs |-> Absent]]
    /\ install = backup /\ queued = backup
    /\ phase = "idle" /\ store = None /\ syncType = None /\ newlySet = FALSE
    /\ dbList = {} /\ todo = {} /\ toInstall = [d \in Dbs |-> Absent]
    /\ result = "none"
    /\ edits = 0 /\ syncs = 0 /\ resets = 0 /\ faults = 0

User == DeviceEdit \/ DesktopEdit \/ AddToInstall \/ HardReset

Restore == ReadBackup \/ RestoreDb \/ RestoreFails

SyncDatabases == FirstSyncDb \/ SkipDb \/ SyncDb \/ SyncDbFails \/ ReadTruncated

DownloadNew == StartDownload \/ DownloadDb \/ DownloadFails

InstallNew == StartInstall \/ InstallDb \/ InstallFails

Next ==
    \/ User \/ (\E s \in Stores : Connect(s))
    \/ Restore \/ ReadDbList \/ SyncDatabases \/ DownloadNew \/ InstallNew
    \/ UpdateSyncInfo \/ SessionFails \/ Crash
    \/ StartWrite \/ FinishWrite \/ LateWriteFails

Spec == Init /\ [][Next]_vars

-----------------------------------------------------------------------------
(* Properties.                                                             *)

TypeOK ==
    /\ device \in [Dbs -> Database \cup {Absent}]
    /\ userInfo.lastSyncPc \in {Pc[s] : s \in Stores} \cup {None}
    /\ userInfo.userName \in {Name[s] : s \in Stores} \cup {None}
    /\ folders \subseteq Stores
    /\ backup \in [Stores -> [Dbs -> Database \cup {Absent, Truncated}]]
    /\ install \in [Stores -> [Dbs -> [db : Database, name : FileNames] \cup {Absent}]]
    /\ queued \in [Stores -> [Dbs -> Database \cup {Absent}]]
    /\ phase \in {"idle", "readBackup", "restore", "list", "syncDbs", "download",
                  "install"}
    /\ store \in Stores \cup {None} /\ syncType \in SyncTypes \cup {None}
    /\ newlySet \in BOOLEAN /\ dbList \subseteq Dbs /\ todo \subseteq Dbs
    /\ toInstall \in [Dbs -> Database \cup {Absent, Truncated}]
    /\ result \in {"none", "ok", "wrongUser", "error", "crash"}
    /\ edits \in 0 .. MaxEdits /\ syncs \in 0 .. MaxSyncs /\ resets \in 0 .. MaxResets
    /\ faults \in 0 .. MaxFaults

\* What the files hold once the writes under way are done.
Written ==
    [s \in Stores |-> [d \in Dbs |->
        IF queued[s][d] # Absent THEN queued[s][d] ELSE backup[s][d]]]

SessionSucceeds == phase # "idle" /\ phase' = "idle" /\ result' = "ok"

\* When a session ends well, on any PC and after any sessions with others, and
\* no request has ever failed, the folder holds every edit the device holds;
\* and the device every edit of the folder, unless it was reset and then taken
\* to another PC first.
BackupUpToDate ==
    [][SessionSucceeds /\ faults = 0 =>
          \A d \in Syncable : Has(device'[d]) =>
             /\ Has(Written'[store][d])
             /\ device'[d].edits \subseteq Written'[store][d].edits
             /\ resets = 0 => Written'[store][d].edits = device'[d].edits]_vars

\* What the choice of a fast sync rests on, as long as nothing fails: the PC the
\* device remembers has every edit the device does not flag; and a device that
\* was never reset, every edit that PC's folder does not flag.
FlagsTrusted ==
    Idle /\ faults = 0 =>
      \A s \in folders, d \in Syncable :
         userInfo = [userName |-> Name[s], lastSyncPc |-> Pc[s]]
            /\ Has(device[d]) /\ Has(Written[s][d]) =>
               /\ device[d].edits \ device[d].flagged \subseteq Written[s][d].edits
               /\ resets = 0 =>
                    Written[s][d].edits \ Written[s][d].flagged \subseteq device[d].edits

\* Whatever fails, and whatever a wiped or half restored device has lost, the
\* backup of a record database never gives way to one that holds less, unless
\* the write itself is cut short.
BackupNeverShrinks ==
    [][\A s \in Stores, d \in Dbs \ Resources :
          Has(Written[s][d]) /\ Has(Written'[s][d]) =>
             Written[s][d].edits \subseteq Written'[s][d].edits]_vars

\* "RestoreResourcesConduit runs when the Palm ID exists on PC, but the Palm
\* device itself is fresh": a device that was never reset loses no edit.
EditsStayOnDevice ==
    [][resets' = 0 => \A d \in Dbs \ Resources : Has(device[d]) =>
          Has(device'[d]) /\ device[d].edits \subseteq device'[d].edits]_vars
=============================================================================

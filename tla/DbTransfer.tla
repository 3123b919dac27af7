----------------------------- MODULE DbTransfer -----------------------------
(***************************************************************************)
(* Databases between the device and the desktop, one DLP request at a      *)
(* time: readDbList, readRawDb and readAllDbsToFile                        *)
(* (src/sync-utils/read-db.ts), writeRawDb (src/sync-utils/write-db.ts).   *)
(* A program runs them one after the other over one connection; any        *)
(* request may fail, and then the operation throws where it stands.        *)
(***************************************************************************)
EXTENDS Naturals, Sequences, SequencesExt, FiniteSets

CONSTANTS
    RamContents, RomContents,  \* sequences of databases a device may hold
    Files,                     \* databases to install
    PageSize,                  \* how many databases one DlpReadDBList returns
    MaxOps, MaxFaults,         \* bounds of a behaviour
    None

\* A database as the device keeps it and as RawPdbDatabase, RawPrcDatabase do.
IsDatabase(d) ==
    /\ d = [name |-> d.name, resDB |-> d.resDB, reset |-> d.reset,
            appInfo |-> d.appInfo, sortInfo |-> d.sortInfo, records |-> d.records]
    /\ d.resDB \in BOOLEAN /\ d.reset \in BOOLEAN
    /\ d.records \in Seq(Range(d.records))
    /\ \A r \in Range(d.records) :
          r.kind \in IF d.resDB THEN {"boot", "code"} ELSE {"live", "gone"}

\* A place in which every database has a name of its own.
IsPlace(dbs) ==
    /\ dbs \in Seq(Range(dbs))
    /\ \A i \in DOMAIN dbs : IsDatabase(dbs[i])
    /\ \A i, j \in DOMAIN dbs : dbs[i].name = dbs[j].name => i = j

ASSUME TransferAssumption ==
    /\ PageSize \in Nat \ {0} /\ {MaxOps, MaxFaults} \subseteq Nat
    /\ None \notin [app : {0, 1}, sort : {0, 1}]
    /\ \A d \in Files : IsDatabase(d)
    /\ \A ram \in RamContents, rom \in RomContents :
          /\ IsPlace(ram) /\ IsPlace(rom)
          /\ \A d \in Range(ram), e \in Range(rom) : d.name # e.name

VARIABLES
    device,    \* device.ram, device.rom: sequences of databases
    modern,    \* whether the device knows DlpFindDBByOpenHandle
    open,      \* names of databases with a handle on the device
    resetting, \* whether a reset was asked for
    op,        \* the operation: what it is and its arguments
    at,        \* the request it makes next, or "idle"
    list,      \* readDbList: the names so far, the places to do, the index
    sizes,     \* DlpFindDBByOpenHandle: what it says of the two blocks
    copy,      \* the database being read
    index,     \* how many records have been read or written
    files,     \* what readAllDbsToFile has written
    before,    \* the device when the operation began
    result,    \* how the last operation ended
    ops, faults,
    crashed    \* the device has crashed

desk == <<op, at, list, sizes, copy, index, files>>
vars == <<device, modern, open, resetting, desk, before, result, ops, faults, crashed>>

-----------------------------------------------------------------------------
(* Databases.  A record is live, or deleted or archived ("gone"); a        *)
(* resource is "boot" or other "code".                                     *)

Stored == Range(device.ram) \cup Range(device.rom)
Exists(name) == \E d \in Stored : d.name = name
Named(name) == CHOOSE d \in Stored : d.name = name
InRam(name) == \E d \in Range(device.ram) : d.name = name

Header(d) ==
    [name |-> d.name, resDB |-> d.resDB, reset |-> d.reset,
     appInfo |-> None, sortInfo |-> None, records |-> <<>>]

\* readRawDb: the records it keeps.
Wanted(d, record, include) == d.resDB \/ record.kind # "gone" \/ include

\* Mutated form of NeedsReset: the resources are not looked at.
NeedsResetByHeader(d) == d.reset

\* writeRawDb, shouldReset: the attribute, the creator 'ptch' (both d.reset)
\* or a resource of type 'boot'.
NeedsReset(d) ==
    d.reset \/ (d.resDB /\ \E r \in Range(d.records) : r.kind = "boot")

-----------------------------------------------------------------------------
(* Beginnings and ends.                                                    *)

Op(what, name, option, db, places) ==
    [what |-> what, name |-> name, option |-> option, db |-> db, places |-> places]

NoOp == Op("none", None, FALSE, None, <<>>)

\* storageTypes: RAM is listed before ROM.
Storage == {<<"ram">>, <<"rom">>, <<"ram", "rom">>}

Operations ==
    {Op(w, None, FALSE, None, p) : w \in {"list", "backup"}, p \in Storage}
    \cup {Op("read", d.name, include, None, <<>>) :
             d \in Stored \cup Files, include \in BOOLEAN}
    \cup {Op("write", d.name, overwrite, d, <<>>) :
             d \in Files \cup ({copy} \ {None}), overwrite \in BOOLEAN}

NoList == [names |-> <<>>, todo |-> <<>>, start |-> 0]

StartOp ==
    /\ at = "idle" /\ ~crashed
    /\ ops < MaxOps /\ ops' = ops + 1
    /\ op' \in Operations
    /\ at' = IF op'.what \in {"list", "backup"} THEN "page" ELSE "conduit"
    /\ list' = [NoList EXCEPT !.todo = op'.places]
    /\ before' = device /\ resetting' = FALSE /\ result' = "none"
    /\ UNCHANGED <<device, modern, open, sizes, copy, index, files, faults, crashed>>

\* A request fails, or the device refuses it: the operation throws.
Throws ==
    /\ at' = "idle" /\ result' = "thrown"
    /\ UNCHANGED <<device, modern, open, resetting, op, list, sizes, copy, index,
                   files, before, ops, crashed>>

RequestFails == at # "idle" /\ faults < MaxFaults /\ faults' = faults + 1 /\ Throws

Refused(request) == at = request /\ UNCHANGED faults /\ Throws

\* What no request of the desktop changes of its own accord.
Steady == UNCHANGED <<modern, before, ops, faults>>
DeviceSteady == Steady /\ UNCHANGED <<device, open, resetting, crashed>>

-----------------------------------------------------------------------------
(* readDbList.                                                             *)

\* One DlpReadDBList: NOT_FOUND past the end, or the next few databases.
Page(place, start) ==
    {SubSeq(device[place], start + 1, start + n) :
        n \in 1 .. PageSize \cap 1 .. (Len(device[place]) - start)}

\* Mutated form of NextPlace: the index goes on.
NextPlaceFromHere(l) == [l EXCEPT !.todo = Tail(@)]

\* The other place is listed from its beginning.
NextPlace(l) == [names |-> l.names, todo |-> Tail(l.todo), start |-> 0]

\* lastIndex + 1
NextStart(start, dbs) == start + Len(dbs)

ListPage ==
    /\ at = "page"
    /\ LET place == Head(list.todo)
       IN  \/ /\ Page(place, list.start) = {}
              /\ list' = NextPlace(list)
              /\ IF Len(list.todo) > 1
                 THEN UNCHANGED <<op, at, result>>
                 ELSE IF op.what = "list" \/ list.names = <<>>
                 THEN at' = "idle" /\ result' = "done" /\ UNCHANGED op
                 ELSE /\ op' = [op EXCEPT !.name = Head(list.names)]
                      /\ at' = "conduit" /\ UNCHANGED result
           \/ \E dbs \in Page(place, list.start) :
                 /\ list' = [names |-> list.names \o [i \in DOMAIN dbs |-> dbs[i].name],
                             todo |-> list.todo,
                             start |-> NextStart(list.start, dbs)]
                 /\ UNCHANGED <<op, at, result>>
    /\ UNCHANGED <<sizes, copy, index, files>> /\ DeviceSteady

-----------------------------------------------------------------------------
(* readRawDb.                                                              *)

\* DlpOpenConduit is the first request of a read and of a write.
OpenConduit ==
    /\ at = "conduit"
    /\ at' = CASE op.what # "write" -> "open"
               [] op.what = "write" /\ op.option -> "delete"
               [] OTHER -> "create"
    /\ UNCHANGED <<op, list, sizes, copy, index, files, result>> /\ DeviceSteady

OpenDb ==
    /\ at = "open" /\ Exists(op.name)
    /\ at' = "find"
    /\ open' = open \cup {op.name}
    /\ UNCHANGED <<device, resetting, crashed, op, list, sizes, copy, index, files,
                   result>>
    /\ Steady

OpenRefused == ~Exists(op.name) /\ Refused("open")

\* DlpFindDBByOpenHandle.  The size of a block of a database in RAM may come
\* as 0; an old device does not know the request.
FindDb ==
    /\ at = "find"
    /\ LET d == Named(op.name)
           Size(block) == IF block = None THEN {0}
                          ELSE IF InRam(op.name) THEN {0, 1} ELSE {1}
       IN  IF modern
           THEN \E app \in Size(d.appInfo), sort \in Size(d.sortInfo) :
                   sizes' = [app |-> app, sort |-> sort]
           ELSE sizes' = None
    /\ at' = IF modern \/ op.what = "backup" THEN "app" ELSE "search"
    /\ copy' = Header(Named(op.name))
    /\ index' = 0
    /\ list' = IF at' = "search" THEN [NoList EXCEPT !.todo = <<"ram", "rom">>]
               ELSE list
    /\ UNCHANGED <<op, files, result>> /\ DeviceSteady

\* Mutated form of SearchPage: the same page is read again.
SearchSamePage ==
    /\ at = "search"
    /\ LET place == Head(list.todo)
       IN  \/ /\ Page(place, list.start) = {}
              /\ list' = NextPlace(list)
              /\ UNCHANGED at
           \/ \E dbs \in Page(place, list.start) :
                 IF \E d \in Range(dbs) : d.name = op.name
                 THEN at' = "app" /\ UNCHANGED list
                 ELSE UNCHANGED <<at, list>>
    /\ UNCHANGED <<op, sizes, copy, index, files, result>> /\ DeviceSteady

\* findDatabaseUsingDlpReadDBList.
SearchPage ==
    /\ at = "search"
    /\ LET place == Head(list.todo)
       IN  \/ /\ Page(place, list.start) = {}
              /\ list' = NextPlace(list)
              /\ UNCHANGED at
           \/ \E dbs \in Page(place, list.start) :
                 IF \E d \in Range(dbs) : d.name = op.name
                 THEN at' = "app" /\ UNCHANGED list
                 ELSE list' = [list EXCEPT !.start = NextStart(@, dbs)] /\ UNCHANGED at
    /\ UNCHANGED <<op, sizes, copy, index, files, result>> /\ DeviceSteady

\* Mutated form of AskForBlock: a block of size 0 is not asked for.
AskIfNotEmpty(size) == sizes = None \/ sizes[size] > 0

\* Mutated form of AskForBlock: every block is asked for.
AskAlways(size) == TRUE

\* Whether to read the AppInfo or the SortInfo block.
AskForBlock(size) == sizes = None \/ sizes[size] > 0 \/ InRam(op.name)

\* DlpReadAppBlock, DlpReadSortBlock.  There may be none; a device may crash
\* on the request for one that is not there, if the database is in ROM.
ReadBlock(here, block, size, next) ==
    /\ at = here
    /\ IF AskForBlock(size)
       THEN /\ copy' = [copy EXCEPT ![block] = Named(op.name)[block]]
            /\ crashed' = (Named(op.name)[block] = None /\ ~InRam(op.name))
       ELSE UNCHANGED <<copy, crashed>>
    /\ at' = next
    /\ UNCHANGED <<device, open, resetting, op, list, sizes, index, files, result>>
    /\ Steady

\* DlpReadRecordByIndex, DlpReadResourceByIndex, from 0 to the number of
\* records that DlpFindDBByOpenHandle or DlpReadOpenDBInfo gave.
ReadRecord ==
    LET d == Named(op.name)
    IN  /\ at = "records" /\ index < Len(d.records)
        /\ index' = index + 1
        /\ copy' = IF Wanted(d, d.records[index + 1], op.what = "read" /\ op.option)
                   THEN [copy EXCEPT !.records = Append(@, d.records[index + 1])]
                   ELSE copy
        /\ UNCHANGED <<op, at, list, sizes, files, result>> /\ DeviceSteady

\* readAllDbsToFile: the file, and the next name of the list.
NextFile ==
    LET k == CHOOSE i \in DOMAIN list.names : list.names[i] = op.name
    IN  /\ files' = {f \in files : f.name # op.name} \cup {copy}
        /\ IF k < Len(list.names)
           THEN /\ op' = [op EXCEPT !.name = list.names[k + 1]]
                /\ at' = "conduit" /\ UNCHANGED result
           ELSE at' = "idle" /\ result' = "done" /\ UNCHANGED op

\* Mutated form of Closed: the handle is kept.
LeftOpen == open

Closed == open \ {op.name}

\* DlpCloseDB
CloseRead ==
    /\ at = "records" /\ index = Len(Named(op.name).records)
    /\ open' = Closed
    /\ IF op.what = "backup" THEN NextFile
       ELSE at' = "idle" /\ result' = "done" /\ UNCHANGED <<op, files>>
    /\ UNCHANGED <<device, resetting, crashed, list, sizes, copy, index>> /\ Steady

-----------------------------------------------------------------------------
(* writeRawDb.                                                             *)

Without(dbs, name) ==
    IF \E i \in DOMAIN dbs : dbs[i].name = name
    THEN RemoveAt(dbs, CHOOSE i \in DOMAIN dbs : dbs[i].name = name)
    ELSE dbs
InPlace(dbs, d) == [i \in DOMAIN dbs |-> IF dbs[i].name = d.name THEN d ELSE dbs[i]]

\* DlpDeleteDB; NOT_FOUND is as good.
DeleteDb ==
    /\ at = "delete" /\ (Exists(op.name) => InRam(op.name) /\ op.name \notin open)
    /\ device' = [device EXCEPT !.ram = Without(@, op.name)]
    /\ at' = "create"
    /\ UNCHANGED <<open, resetting, crashed, op, list, sizes, copy, index, files,
                   result>>
    /\ Steady

\* What is open, or in ROM, cannot be deleted.
DeleteRefused ==
    /\ Exists(op.name) /\ (~InRam(op.name) \/ op.name \in open)
    /\ Refused("delete")

\* DlpCreateDB
CreateDb ==
    /\ at = "create" /\ ~Exists(op.name)
    /\ device' = [device EXCEPT !.ram = Append(@, Header(op.db))]
    /\ open' = open \cup {op.name}
    /\ at' = "writeApp" /\ index' = 0
    /\ UNCHANGED <<resetting, crashed, op, list, sizes, copy, files, result>> /\ Steady

CreateRefused == Exists(op.name) /\ Refused("create")

\* DlpWriteAppBlock, DlpWriteSortBlock, unless there is nothing to write.
WriteBlock(here, block, next) ==
    /\ at = here
    /\ device' = [device EXCEPT
                    !.ram = InPlace(@, [Named(op.name) EXCEPT ![block] = op.db[block]])]
    /\ at' = next
    /\ UNCHANGED <<open, resetting, crashed, op, list, sizes, copy, index, files,
                   result>>
    /\ Steady

\* DlpWriteRecord, DlpWriteResource
WriteRecord ==
    /\ at = "writeRecords" /\ index < Len(op.db.records)
    /\ device' = [device EXCEPT
                    !.ram = InPlace(@, [Named(op.name) EXCEPT
                              !.records = Append(@, op.db.records[index + 1])])]
    /\ index' = index + 1
    /\ UNCHANGED <<open, resetting, crashed, op, at, list, sizes, copy, files, result>>
    /\ Steady

\* DlpResetSystem comes before DlpCloseDB.
Reset ==
    /\ at = "writeRecords" /\ index = Len(op.db.records)
    /\ resetting' = NeedsReset(op.db)
    /\ at' = "closeWritten"
    /\ UNCHANGED <<device, open, crashed, op, list, sizes, copy, index, files, result>>
    /\ Steady

CloseWritten ==
    /\ at = "closeWritten"
    /\ open' = Closed
    /\ at' = "idle" /\ result' = "done"
    /\ UNCHANGED <<device, resetting, crashed, op, list, sizes, copy, index, files>>
    /\ Steady

-----------------------------------------------------------------------------
Init ==
    /\ device \in [ram : RamContents, rom : RomContents]
    /\ modern \in BOOLEAN
    /\ open = {} /\ resetting = FALSE
    /\ op = NoOp /\ at = "idle" /\ list = NoList /\ sizes = None
    /\ copy = None /\ index = 0 /\ files = {}
    /\ before = device /\ result = "none"
    /\ ops = 0 /\ faults = 0 /\ crashed = FALSE

Requests ==
    /\ ~crashed
    /\ \/ ListPage \/ OpenConduit
       \/ OpenDb \/ OpenRefused \/ FindDb \/ SearchPage
       \/ ReadBlock("app", "appInfo", "app", "sort")
       \/ ReadBlock("sort", "sortInfo", "sort", "records")
       \/ ReadRecord \/ CloseRead
       \/ DeleteDb \/ DeleteRefused \/ CreateDb \/ CreateRefused
       \/ WriteBlock("writeApp", "appInfo", "writeSort")
       \/ WriteBlock("writeSort", "sortInfo", "writeRecords")
       \/ WriteRecord \/ Reset \/ CloseWritten

Next == StartOp \/ Requests \/ (~crashed /\ RequestFails)

\* Every request is answered.
Spec == Init /\ [][Next]_vars /\ WF_vars(Requests)

-----------------------------------------------------------------------------
(* Properties.                                                             *)

\* A complete copy of a database holds its blocks and, in their order, the
\* records that are kept.
IsCopy(c, d, include) ==
    LET kept == {i \in DOMAIN d.records :
                    d.resDB \/ d.records[i].kind # "gone" \/ include}
    IN  /\ c = [d EXCEPT !.records = c.records]
        /\ c.records \in Seq(Range(c.records)) /\ Len(c.records) = Cardinality(kept)
        /\ \A i \in kept : c.records[Cardinality({j \in kept : j <= i})] = d.records[i]

\* A list names every database of the places asked for once, RAM first,
\* however many DlpReadDBList it takes (readDbList).
ListComplete ==
    LET NamesIn(place) == IF place \in Range(op.places)
                          THEN [i \in DOMAIN device[place] |-> device[place][i].name]
                          ELSE <<>>
    IN  result = "done" /\ op.what \in {"list", "backup"} =>
           list.names = NamesIn("ram") \o NamesIn("rom")

\* What has been read is all that the device holds, on every Palm OS and
\* wherever the database resides (readRawDb, readAllDbsToFile: "Backup all
\* databases from a Palm OS device").
CopiesExact ==
    /\ result = "done" /\ op.what = "read" =>
          IsCopy(copy, Named(op.name), op.option)
    /\ result = "done" /\ op.what = "backup" =>
          \A p \in Range(op.places) : \A d \in Range(device[p]) :
              \E f \in files : IsCopy(f, d, FALSE)

\* "avoid reading the AppInfo block for databases that reside in ROM, as that
\* may crash the device": so it is wherever the device can tell.
RomIsSpared == modern => ~crashed

\* A write touches one database.  Whenever it stops, that one is as before,
\* gone, or a part of the new one from its beginning; when it returns, it is
\* all there, and the device resets if it must.  What a read returned can be
\* written back (writeRawDb).
WriteIsPrefix ==
    LET OthersOf(dbs) == Without(dbs, op.name)
        Part(d, whole) ==
            /\ Header(d) = Header(whole) /\ IsPrefix(d.records, whole.records)
            /\ d.appInfo \in {None, whole.appInfo}
            /\ d.sortInfo \in {None, whole.sortInfo}
    IN  op.what = "write" =>
          /\ device.rom = before.rom /\ OthersOf(device.ram) = OthersOf(before.ram)
          /\ Exists(op.name) => \/ device = before
                                \/ Part(Named(op.name), op.db)
          /\ result = "done" =>
                /\ Named(op.name) = op.db
                /\ resetting = (op.db.reset \/ \E r \in Range(op.db.records) : r.kind = "boot")

\* As long as every request is answered, an operation is refused only what
\* it cannot have: a database that is not there, or is there and must not be
\* overwritten, or is in ROM.  No operation is in the way of a later one.
RefusedForAReason ==
    result = "thrown" /\ faults = 0 =>
        \/ op.what = "read" /\ ~Exists(op.name)
        \/ op.what = "write" /\ (~op.option \/ ~InRam(op.name)) /\ Exists(op.name)

\* Every operation ends: the loops over pages and records stop.
OpEnds == at # "idle" ~> at = "idle" \/ crashed
=============================================================================

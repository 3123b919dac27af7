# Verification of palm-sync

palm-sync (`src/`) talks to a Palm OS device over serial, USB or the network,
and keeps the databases of the device and of the desktop in step: a HotSync.
This directory holds TLA+ models of it, the TLC runs that check them, and
machine-checked proofs of what matters most.

| file | what it is |
|---|---|
| `RecordSync.tla` | two-way sync of one record database: `src/src/sync-utils/sync-db.ts` and the per-database loop of `src/src/conduits/sync-databases-conduit.ts` |
| `TwoWaySync.tla` | what that sync promises, as one atomic step |
| `RecordSync_proofs.tla`, `RecordMerge_proofs.tla` | theorems about `RecordSync` and their proofs: what is on the device while a sync runs; what a sync makes of the two databases |
| `Padp.tla` | the PADP stream, both directions, over a lossy link: `src/src/protocols/padp-protocol.ts` |
| `ReliableChannel.tla` | what PADP promises |
| `Padp_proofs.tla` | theorems about `Padp`, the refinement among them |
| `HotSyncSession.tla` | sessions of a device with several desktop folders: `src/src/sync-utils/sync-device.ts`, the conduits, `node-database-storage.ts`, `read-db.ts`, `write-db.ts` |
| `HotSyncSession_proofs.tla` | theorems about `HotSyncSession` |
| `DbTransfer.tla` | listing, reading and writing databases, request by request: `read-db.ts`, `write-db.ts` |
| `DbTransfer_proofs.tla` | theorems about `DbTransfer` |
| `SyncServer.tla` | the four servers, the handshakes, `execute` and the program that runs a server: `src/src/sync-servers/`, `sync-connections.ts`, `cmp-protocol.ts`, `sync-server-utils.ts` |
| `UsbConfig.tla` | how the endpoints of a USB device are found: `usb-sync-server.ts` |
| `SyncServer_proofs.tla`, `SyncEnd_proofs.tla` | theorems about `SyncServer` |
| `Framing.tla` | datagrams cut out of bytes: `slp-protocol.ts`, `net-sync-protocol.ts` |
| `DlpArgs.tla` | DLP messages as bytes: `dlp-protocol.ts` and the declarations of `dlp-commands.ts` |
| `MC*.tla`, `*.cfg` | instances for TLC |
| `PROJECT.json` | components, runs, the code each definition stands for, hazards, findings |

Checking: `tlc -config RecordSync_fast.cfg MCRecordSync`, and so on for each
configuration (`DlpArgs` needs no MC module); `tlapm RecordSync_proofs.tla` and
so on for each `*_proofs.tla`.


## 1. The system

### Components

**Record synchronisation** (`sync-db.ts`, `sync-databases-conduit.ts`).
State: the device's database, the desktop's file, and during a sync the
desktop copy in memory, the record objects read, the list of record actions
and the archive. Operations: `computeRecordState`, the decision table
`RECORD_SYNC_LOGIC`, `fastSync`, `slowSync`, the six record actions, both
`cleanUp`s, first download. Interacts with the device by DLP requests, one at a
time, and with the storage. Hard: a long sequence of edits on both sides picks
a cell of a 36-cell table; actions run on objects earlier actions changed; any
request may fail half way; the flags are only true if the last sync was with
this PC. Correct when: no edit is lost, the copies converge, the plan can
always be executed, a sync that stops half way does no harm.

**PADP** (`padp-protocol.ts`). State: the message being written (piece, try),
the listener for its ACK, the message being assembled, the last datagram
processed, the next transaction id. Operations: `_write`,
`onReceiveSlpDatagram`. Hard: lost ACKs and data, retries recognised by their
bytes, late ACKs, replies that overtake ACKs, a listener that exists only after
the write has been flushed, ids that wrap. Correct when: messages arrive whole,
once, in order; a write that succeeds was received; every write ends.

**SLP and NetSync framing** (`slp-protocol.ts`, `net-sync-protocol.ts`).
State: the bytes carried over between chunks. Operations: the `_transform`s.
Hard: a datagram split over chunks, several in one chunk, noise before the first
signature, a byte lost on the line. Correct when: the datagrams found do not
depend on how the bytes were cut, and a complete one is handed on at once.

**CMP handshake** (`cmp-protocol.ts`). The device repeats WAKEUP, the desktop
answers INIT, both move to the new baud rate. Hard: repeated WAKEUPs.

**Connections** (`sync-connections.ts`). State: the step of the handshake, the
pending DLP request. Operations: `doHandshake`, `start`, `execute`, `end`. Hard:
nothing matches a response with its request but their order; a close without an
error leaves the wait open; what arrives while nobody waits is lost.

**HotSync session** (`sync-device.ts`, the other conduits). State: the user
info on the device (user id, name, last sync PC), the kind of sync, the list of
databases. Operations: identification, choice between first, slow and fast sync
and restore, each conduit in turn. Hard: a failure between two databases or
conduits; what the next session then takes for granted.

**Database storage** (`node-database-storage.ts`). State: backup and install
folders. Hard: writes that are neither atomic nor always awaited.

**Database transfer** (`read-db.ts`, `write-db.ts`). State: the databases and
open handles of the device, the place in a list or among records. Operations:
`readDbList`, `readRawDb`, `readAllDbsToFile`, `writeRawDb`. Hard: lists that
come in pages of the device's choice; sizes reported as 0; requests that an old
device does not know, or that crash it; deleting before writing.

**Sync servers** (`tcp-`, `serial-`, `web-serial-`, `usb-sync-server.ts`,
`sync-server-utils.ts`). State: the open transport, `runPromise`, `shouldStop`,
the place of the run loop. Operations: `start`, `stop`, `run`, `onConnection`,
`runSync`, and for USB opening and closing a device. Hard: errors in the
handshake that escape the loop, a stop that races a connection, events nobody
listens to yet, a stream that is destroyed while somebody waits for it.

**DLP serialisation** (`dlp-protocol.ts`) and its **declarations**
(`dlp-commands.ts`). No state beyond the message. Hard: nothing on the wire says
where a property ends or which one it is; three sizes of argument; optional
arguments; a message cut short.

**Clock conduit**; **command line**; **stream recorder**; **web demo**.

### How they interact

    sync server --(stream)--> connection: SLP -> PADP -> CMP, or NetSync
        connection.execute(): one DLP request, one response
            session: identification, [restore], list, conduits in order
                sync-databases: per database   fastSync | slowSync | download
                download, install, update-sync-info, clock
            storage: backup/ and install/ folders of the user

A session is one chain of awaits over an event loop: the concurrency is between
the two ends of the link, its timers and callbacks, between a sync and what users
and other PCs did since the last one, and between a server's loop, the program
that stops it, and devices that come and go.

The models meet at what each promises the next. `Padp` takes from `Framing` that
what is emitted is a datagram of the device, in order. `SyncServer` and
`DbTransfer` take from `Padp` that messages arrive in order and that a write
which is never taken fails (`ReliableChannel`). `HotSyncSession` takes from
`DbTransfer` what a failed read or write leaves behind, and from `RecordSync`
what a sync does to one database.


## 2. RecordSync

### State and actions

`device` and `file` are the two databases as functions from ids to records.
A record has its content (`data`, with the category folded in), a `status`
(`live`, `deleted`, `archived`, for the attributes `delete` and `archive`) and
`dirty`. `busy` and `secret` play no part in `computeRecordState` and are left
out. Key 0 is the id of a record the device has not numbered.

| code | definition |
|---|---|
| `computeRecordState` | `RecordState` |
| `RECORD_SYNC_LOGIC` | `RecordSyncLogic`, one definition per row, the entries named (`Push`, `Pull`, `ForkDesktop`, ...) |
| `computeRecordActions` | `ComputeRecordActions`; a row that throws is `unexpectedRecordState` |
| open, `readModifiedRecords` / `readAllRecords` | `StartSync`, `IdsToRead` |
| loops 1 and 2 of `fastSync` / `slowSync` | `PlanDeviceRecord`, `ReadDesktopRecords`, `PlanDesktopRecord`, `SkipDesktopRecord` |
| loop 3, `RECORD_ACTION_FNS` | `AddOnDevice`, `AddOnDeviceWithNewId`, `AddOnDesktop`, `DeleteOnDevice`, `DeleteOnDesktop`, `Archive` |
| `DlpCleanUpDatabase`, `DlpResetSyncFlags`, `desktop.cleanUp` | `CleanUpDevice`, `ResetSyncFlags`, `CleanUpDesktop` |
| `DlpCloseDB`, `writeDatabase` | `CloseAndSave` |
| the conduit's `catch` | `Throw`, `DlpFailure` |
| `fs.writeFile` fails, or the process dies in it | `TearFile`; `ReadTornFile` is what every later session makes of the file |

The table holds references to record *objects*, and an action mutates its
object (`clearRecordAttrs`, the id the device gave back). `devObj` and
`deskObj` are these objects; an action takes what earlier actions left.
That matters: `ForkDesktop` pushes the desktop's version under a new id and
adds the same, renumbered object to the desktop.

`deviceRecord?.data === desktopRecord?.data` compares two buffers read from two
places: object identity, false whatever they hold. So `SameBuffer` is `FALSE`,
and the branches for identical versions, still written in the table, are never
taken (finding *identical*).

Users and other PCs act between syncs (`DeviceEdit`, `DesktopEdit`,
`OtherPcSync`). They are not in the repository; they follow the convention it
states: an edit sets `dirty`, a removal sets `deleted` or `archived`, a sync
with another PC leaves the device clean. Assumptions the model makes about them:

- the device never gives an id that is in use on either side (`FreshIds`; ids
  come from a counter the device does not reset), and ids a desktop program
  picks are not among those;
- the desktop file has at most one record that has no number yet (key 0);
- nobody edits the desktop file while a sync runs;
- a file whose write was cut short cannot be read (`Torn`): the header has offsets
  into what is missing. A file that lacks only an end of its last record might be
  read, with that record shortened; this is left out.

`Init` is the state after the first download: deleted and archived records are
left out and flags cleared in the copy, the device keeps its own.

`lastSyncPc` is where the session chooses between fast and slow;
`update-sync-info` writes it after the conduits, also when this database was
skipped because of an error, as `Throw` does.

### Runs

| run | asks | bounds |
|---|---|---|
| `fast` | Do two consecutive fast syncs converge, is each of them an atomic merge, can each plan be executed, do the flags tell the truth? | two shared records, one desktop id, two fresh ids, three edits anywhere, two syncs |
| `faults` | What is left when a request or the file write fails at any step, and what of it does a later sync bring over? What does a slow sync, after one with another PC, pull and keep? | one shared record, desktop ids 0 and 5, archived unmodified records, three edits (each may be a sync with another PC), two syncs |
| `identical`, `afterfailure` | what the code does against what it says (below) | the smallest instance that shows it |

Why these are enough: the table is applied to each id by itself, and an id has
at most one record on each side, so one pair of records with two contents
meets every cell; two pairs and fresh ids are what it takes for one record's
actions to interfere with another's; two edits reach a conflict, the third
one follows it in the next sync; and the second sync starts from any state the
first can leave. Contents are only compared, hence the symmetry. Deadlock is off: with no edits and syncs left, the system rests.

What they show:

- `ImplementsTwoWaySync`: with `device` and `file` hidden while a sync runs,
  a fast sync is one atomic step of `TwoWaySync`: conflicts keep both
  versions, an edit beats a removal, a removal beats an untouched record,
  nothing else changes. Given up half way, it leaves the file as it was and
  every live edit on the device. The write of the file is the exception: it is
  made in place, so one that fails may leave a file nobody can read. That happens
  only when the device has the whole merge (mutant `TearFileEarly`), but nothing
  brings it back to the file.
- `FastSyncsMerge`: the same of each fast sync of the `faults` run, where other PCs
  and slow syncs, which `TwoWaySync` does not describe, come in between.
- `SyncConverges`: after a successful fast sync device and file are equal,
  ids, contents and flags. (Without faults: see *afterfailure*.)
- `NoInternalError` and `FlagsTellTheTruth`: the "this should not happen" rows
  are not reached, because an unchanged record is always known to the other side.
- `ObjectsDistinct`: no two objects of one plan ever carry the same id.
- `DeviceEditsKept`: at every step of a fast sync, not only at its end.
- `FastSyncKeepsEdits`: a fast sync that succeeds, whatever failed before it, has
  every edit of either side on both.
- `SlowSyncPulls`, `SlowSyncKeepsEdits`: a slow sync gets all the device has, and
  both versions of a record that differs survive.

### Disagreements with the comments and the docs

- *identical* (`sync-db.ts:342`): the same edit on both sides is a conflict and
  is duplicated; the comment says "If identical, nothing to do."
- *afterfailure* (`sync-databases-conduit.ts:91`): a failure after the flags on
  the device were reset loses the merge; later fast syncs succeed with the copies
  different.

Seen while modelling, without a run: a new desktop record with id 0 always
throws, after the device has stored it (`sync-db.ts:443`), so the device has one
more copy of it after each sync; a slow sync skips what only the desktop has
(`sync-db.ts:745`, `SkipDesktopRecord`) and then clears its flags, so it may
succeed with the copies different; `archiveDb` is filled and then dropped, so
archiving a record deletes it; a record archived and not modified before the
first sync makes the next fast sync throw (`InitArchived` lets the `faults` run
start there).


## 3. Padp

Both ends run the same algorithm (the device is modelled as the code: it is
the peer the protocol documents). The desktop sends requests, one after the
other (`DlpConnection.execute`), the device replies under the request's
transaction id. `link[p]` is a FIFO of datagrams on their way to `p`; `Lose`
drops its head, so any datagram may be lost while order is kept, as on a wire.

| code | definition |
|---|---|
| `_write`: piece loop, retry loop | `StartWrite`, `Send`, `SendError`, `RetryOrFail`, `Continue` |
| `_write`: listener set after the flush, `setTimeout`, `finally` | `Listen`, `Timeout`, `StopListening` |
| `onReceiveSlpDatagram`: ACK | `ReceiveAck`, `Acknowledges`, `Resolve` |
| duplicate of the last datagram | `ReceiveDuplicate`, `SameBytes` |
| data, implied ACK, sequence checks, push | `ReceiveData`, `OutOfSequence`, `Push`, `TakeAndAck` |
| `getNextXid` | `XidAfter` |

Abstractions: lengths count pieces of `PADP_PACKET_DATA_SIZE` bytes; all data
bytes are equal, the worst case for `chunk.equals(last)`, which must tell a
retry from the next piece by header alone; `part` says what the bytes stand for
and no guard reads it. Not in the model: header encodings, LOOPBACK and TICKLE
datagrams (the code ignores them), an empty message.

Run `padp`: three calls, requests of three, one and one pieces and replies of
one, two and one; three tries, transaction ids that wrap after two (0xff in the
code: ids only need to return), any loss, any refused write. A message of three
pieces has a first, a middle and a last; three tries let a late ACK meet a later
piece.

- `InOrder`, `AckMeansTaken`: what the reader gets and what the writer believes.
- `NoStreamErrors`: two correct peers never see "concurrent writes" or an
  out-of-sequence datagram, whatever is lost.
- `ImplementsReliableChannel`: all of it is a reliable channel, whose ends may go
  down only with a write still open.
- `EveryWriteEnds`, under weak fairness of each writer's own steps: callbacks,
  timers and promises are served by the event loop. Nothing is assumed of the link.

`PadpAssumption` asks for two transaction ids that differ and for messages of at
least one piece; `NoneAssumption` only says that `None` is no datagram, listener
or half message.


## 4. HotSyncSession

### State and actions

One device meets several desktop folders. A store `s` is the folder of user
`Name[s]` on the PC whose `getComputerId()` is `Pc[s]`. `device` and `backup[s]`
hold databases, `install[s]` the install folder, `userInfo` what the device
remembers: user and `lastSyncPc`. `phase` and `todo` are the program counter of
`syncDevice`: the conduit, and the databases it has still to visit (in any
order: the device lists them as it likes).

| code | definition |
|---|---|
| `syncDevice` up to the first request, `getLocalID` | `Connect`, `KindOfSync` |
| `RestoreResourcesConduit`, `getAllDatabases`, `writeRawDb` | `ReadBackup`, `RestoreDb`, `RestoreFails`, `PartlyWritten` |
| a loop left in the middle of a database | `HalfDone`, `PartlyMerged` |
| `readDbList` | `ReadDbList` |
| `SyncDatabasesConduit` | `FirstSyncDb`, `ShouldSkip`, `SkipDb`, `SyncDb`, `SyncDbFails`, `ReadTruncated` |
| `DownloadNewResourcesConduit` | `StartDownload`, `DownloadDb`, `DownloadFails` |
| `InstallNewResourcesConduit`, `readDatabase`, `removeDatabaseFromInstallList` | `StartInstall`, `ReadToInstall`, `InstallDb`, `InstallFails` |
| `UpdateSyncInfoConduit` | `UpdateSyncInfo` |
| `writeDatabase` in place | `WriteCutShort` |
| `writeDatabase` without `await` | `Download` puts it in `queued`; `StartWrite`, `FinishWrite`, `LateWriteFails` |
| an error outside the `try` blocks; the end of the process | `SessionFails`, `Crash` |

Where the `try` blocks are decides what an error costs: one database in restore,
sync and download, the rest of the list in install, the session anywhere else.
The actions follow that.

The content of a database is the set of edits that made it and the flagged
ones among them. A fast sync moves what is flagged, a slow one what differs
(`Moved`); that this is what a sync does to live records is what RecordSync
shows, and `SyncDbFails` takes its outcomes from there: any part of what the
device lacked, with or without the flags reset, and the file untouched,
or all of it and the file cut short. A write that nobody waited for and that fails
is a rejection nobody catches: it ends the process during the session (`Crash`)
or after it (`LateWriteFails`), and the writes behind it are lost.
Assumptions:

- an edit is to a record both sides know, so what RecordSync says of new
  desktop records and of removals does not enter here;
- resource databases change by installing only;
- writes nobody waited for are done, or lost, before the next session of that folder;
- users act between sessions.

### Runs

Run `session`: two PCs and two users (three folders), one record and one
resource database, two edits, four sessions, one hard reset, one fault at any
step, install files named like the backup. Four sessions are home, work, work,
home: the first sync with a PC leaves the flags on the device, the second resets
them, and only then is a folder stale that a fast sync would not bring up to
date. (With three sessions the choice of the kind of sync could be wrong
unnoticed.) Of two edits one is what the first sync knows and the other is made
later. A fault is a failed request, a dead link that leaves a database written or
merged in part, or the end of the process. 1.6 million states.

- `FlagsTrusted`: when the device remembers a PC, that PC's folder has every edit
  the device does not flag, and the other way round: the premise of a fast sync.
- `BackupUpToDate`: a session that succeeds, whatever came before on whichever
  PC, leaves in the folder all that is on the device, and without a reset the
  two agree.
- `BackupNeverShrinks`: with faults, crashes, resets and partial restores: a sync
  of a device that has lost records does not remove them from the backup.
- `TypeOK`: says among the rest that a file cut short never reaches the device.

The first two are stated for histories without faults, and the code needs that:
`UpdateSyncInfo` records the PC also when the slow sync of a database failed, and
the next sync of it is a fast one.

A run that disagrees with the comments, with one folder:

- *restore* (`sync-device.ts:66`): a first sync that fails leaves the folder but
  no user id on the device, so the next session restores the partial backup
  over a device that is not fresh, and loses the edits made since.

Seen while modelling, without a run: `readDatabase` prefers the backup folder
(`node-database-storage.ts:84`), so the second version of an installed file is
never installed: the old one is, and the new file then replaces the backup and
counts as installed (`ReadToInstall`);
two folders of a user on one PC share
`lastSyncPc`; a database whose restore failed is not restored later; a truncated
file ends every later session of its folder (`readDatabase` is outside the
`try`); a device wiped and then synced with a PC that does not know it is not
restored at the old PC, and keeps what it has lost missing there.


## 5. Framing

The reading side only; the writing side puts a header before each payload.
`wire` holds the bytes on their way. A byte is `<<d, i>>`, byte `i` of datagram
`d`, or noise `<<0, v>>` that looks like byte `v` of the signature (or like none).

| code | definition |
|---|---|
| a chunk from the transport, through every stream of the pipe | `Read(n)` |
| `SlpSeekReadStream._transform` | `Seek`, `SignatureAt`, `PartialSignature` |
| `SlpDatagramReadStream`, `NetSyncDatagramReadStream` | `Transform`, `ReadPayload`, `HeaderPart`, `Pushed` |
| `SlpDatagramHeader.deserialize` | `ValidHeader`, `PayloadLength` |
| the line (outside the repository) | `LoseByte`, `garbage` |

Run `framing`: a signature of three bytes in a header of four, one byte of
checksum behind the payload; a NetSync header of two; payloads of 0 or 2 bytes;
three datagrams, two bytes of noise, one lost byte; chunks of every size. A header
longer than its signature and payloads longer than one byte give every part a cut
inside it; empty payloads let a datagram end where its header does; two bytes of
noise may be a beginning of a signature with the real one behind it.

- `EmittedOnTime`: on a clean line a datagram comes out whole, with the chunk that
  brings its last byte. One that waited for the next chunk would wait for ever,
  because the device says nothing before it is answered.
- `FoundAfterNoise`: `start` is the first datagram the seek could see: one whose
  signature begins a chunk, or is split between two. From there on each datagram
  comes out with its last byte, and none is missed after one that came out. (The
  guard `Visible` leaves out a signature behind noise that may be taken for its
  beginning.)
- `TornIsLast`: after a lost byte at most one torn datagram comes out, and it is
  the last. (This takes checksums to fail on bytes of another place.)

A run that disagrees with the comments:

- *noise* (`slp-protocol.ts:333`): noise and the beginning of a datagram in one
  chunk cost the datagram. The comments say that everything up to the first
  signature is ignored (`:301`) and that one anywhere in the chunk is found (`:330`),
  but `slice(idx, length)` has only index 0 to find it at.


## 6. SyncServer

### State and actions

A link `l` is a socket, the serial line or the USB cable. `up[l]` and `down[l]`
are the messages from and to its device; `conn[l]` is the `SyncConnection`: the
wait it is in and the number of the request; `stream[l]` what has become of its
stream (`destroyed` by a failed write, `errored`, `gone` or `closed` by the
socket, `ended`). `server` holds the fields of the server object, `run` the place
of `run()`, `program` that of `runSync()` or of a program (`app`) that calls
`start()` and `stop()` when it likes.

| code | definition |
|---|---|
| `new SyncConnection`, the connect event | `Connect` |
| `doHandshake`, `doCmpHandshake`, `execute`: the wait meets a message | `Hear`, `Handle`, `HandshakeDone`, `Answered` |
| a message with no listener | `Drop` |
| the sync function | `Work`; any number of requests up to `SyncRequests`, then return or throw |
| `end()`, the disconnect event | `Finish` |
| errors: a failed write, a raw stream, an escaping exception | `WriteFails`, `Leaves`, `SecondError`, `Throw`, `OnConnectionThrows` |
| `UsbConnectionStream._write`: `transferOut` rejects | `WriteRejects` |
| `SerialSyncServer.run`, `WebSerialSyncServer.run` | `RunStarts`, `PortOpened`, `PortFails`, `RunCheck`, `RunTimer` |
| `UsbSyncServer.run` | `UsbWait`, `UsbOpen`, `UsbClose`, `UsbGone`, `ConnectionConfig` |
| `start`, `stop` | `Start`, `CallStop`, `NothingToStop`, `MayReturn`, `StopReturns` |
| the device and its user | `Press`, `Rewake`, `Take`, `GiveUp`, `Lost` |

A session makes requests 1 and 2 in `start()`, those of the sync function, and
`DlpEndOfSync`. An answer carries the number of its request in the model, which
the properties use; the code cannot see it. `Accepted` says that a message which
is no answer to the request fails: such a message has another function byte
(a WAKEUP or a handshake message), and `EndIsReal` (below) shows that an old
answer is never there to be taken.

Assumptions about devices: one sends WAKEUP until it hears INIT, answers what it
takes, and closes its socket after `EndOfSync`; a USB device that comes back is a
new one, with nothing of the old one in its buffers; a device of a kind that
answers a control request says the truth in it.

`UsbConfig` is `openDevice` as functions of a device: `GenericConfig` for the
control requests in the order the code makes them, `ConnectionConfig` with the
descriptors behind it.

### Run

Run `servers`: the four servers, both stacks where the code offers the choice,
both programs, two sockets, one request of the sync function, three attempts of
the user, two faults, two starts. Two sockets let one session end while another
goes on; one request is enough to tell a session's own requests from those of
`start()` and `end()`; a second attempt meets what the first has left, a third
what the recovery has left; two faults let a second strike during recovery; two
starts a server used again. The USB devices of `MCSyncServer` answer both
requests, one of them, fail in the middle, or need none; two ports, the second
one for HotSync, so a wrong choice shows. `DevicesAreRegular` has TLC evaluate that
they are `Regular`, the hypothesis of the theorem about them.

- `StoppedIsQuiet`: a `stop()` that has stopped something leaves no loop behind and,
  on a server that has one, no session; on TCP, no session that still has its
  socket. (One that has lost it may go on: below.)
- `DisconnectMeansEnded`: a disconnect event means that the device has taken
  `EndOfSync` of this session.
- `RightEndpoints`: a device that answers what its kind answers is talked to on
  its HotSync endpoints.
- `RunSyncReturns`: without faults `runSync` returns, whether the sync function
  succeeds or not.
- `RunSyncEnds`, `StopEnds`: with faults, `runSync` and `stop()` return unless one
  of the named dead ends is met: `DeadEnd` lists the waits that nothing can end,
  `Exhausted` is a server waiting for a user who has given up, and `crashed` an
  unhandled error: an `onConnection` of TCP that is rejected, a USB write that is,
  a serial port that does not open. They say that there are no others.

Fairness. `WF_vars(Loops)`: `run()` is a chain of awaits on timers and settled
promises. `WF` of `runSync`'s steps and of `StopReturns`: continuations that the
event loop runs; the `app` program owes nobody a step. Per link, weak fairness of
`Hear`, `Drop` and `WriteFails` is the event loop and the time-outs of PADP;
`Work` is a sync function that comes back; `Press`, `Rewake`, `Take` and `GiveUp`
are a user who tries again (up to the bound) and a device that listens while it
is there and does not wait for ever on a desktop that has finished. Nothing is
assumed of faults.

### Seen while modelling, without a run

The dead ends of `DeadEnd`, and what else the actions show:

- `stop()` "Waits for existing HotSync operation to complete and any additional
  clean up" (`sync-server.ts:33`), but that of TCP (`tcp-sync-server.ts:38`) waits for
  the close event of the `net.Server`, which comes when the sockets are closed: if the
  device closes its socket while the sync function is at work, `stop()` returns
  before the sync function does. `StoppedIsQuiet` leaves out just these sessions;
- `end()` on a destroyed stream waits for ever, and so does `execute` when the
  transport closes without an error;
- the port keeps the high rate for the next connection
  (`serial-sync-server.ts:89`, the same in Web Serial), where
  `docs/how-palm-os-hotsync-works.md:192` has sync begin at the initial one;
- `stop()` of an idle serial or Web Serial server, whose loop waits for a WAKEUP,
  does not return; `stop()` before the loop exists returns without stopping;
- a TCP server cannot start again after `stop()`, and a second `stop()` waits for
  ever; a rejection of its `onConnection` is unhandled and ends the process;
- so does a USB write that fails (`usb-sync-server.ts:185`), in Node; a browser
  goes on, with what the read makes of the loss (`Leaves`);
- the Web Serial loop goes on with a raw stream that has ended;
- a USB device with which the connection has failed is not closed; a failed
  `GetNumBytesAvailable` throws away the configuration found before it; two
  devices connected at once share one storage.


## 7. DbTransfer

`device.ram` and `device.rom` are sequences of databases; `modern` says whether
the device knows `DlpFindDBByOpenHandle`; `at` is the request the operation makes
next, so one action is one request with the code up to the next.

| code | definition |
|---|---|
| `readDbList` | `ListPage`, `NextStart`, `NextPlace` |
| `readRawDb` | `OpenConduit`, `OpenDb`, `FindDb`, `ReadBlock`, `AskForBlock`, `ReadRecord`, `CloseRead` |
| `findDatabaseUsingDlpReadDBList` | `SearchPage` |
| `readAllDbsToFile` | `NextFile` |
| `writeRawDb` | `DeleteDb`, `CreateDb`, `WriteBlock`, `WriteRecord`, `Reset`, `CloseWritten` |
| a request fails or is refused | `RequestFails`, `OpenRefused`, `DeleteRefused`, `CreateRefused` |

What the device does is taken from the comments of the code: it returns as many
databases of a list as it likes, reports 0 for blocks that are there, may crash
when asked for a block that is not there in ROM, and refuses to delete what is
open.

Run `transfer`: two operations, one fault, pages of up to two. `MCDbTransfer` has
three databases in RAM, so a list takes two or three requests, and up to two in
ROM; every block there and not there; records gone at either end; files to install
that replace a database, part of the ROM, or nothing. The second operation meets
what the first has left (an open handle, half a database), or writes back what it
has read. 450 thousand states.

- `ListComplete`: every database once, RAM first, whatever the pages.
- `CopiesExact`: a read or a backup has all that the device holds.
- `RomIsSpared`: a device that reports sizes is never asked for a block of a
  database in ROM that is not there. An old device is: the code cannot know.
- `WriteIsPrefix`: a write touches one database and leaves it as before, gone, or a
  beginning of the new one; when it returns, all of it, with the reset it needs.
- `RefusedForAReason`: while every request is answered no operation is in the way of
  a later one.
- `OpEnds`, under `WF_vars(Requests)`: each request is answered or fails, and the
  code goes on by itself.

Seen while modelling, without a run: a transfer that fails leaves the database
open, so that overwriting it is refused for the rest of the session.

`TransferAssumption` is what the code takes for granted of a device: RAM and ROM
hold databases (`IsDatabase`: resources or records, each with its kind), and each
name is used once in the two together. A name is all that `DlpOpenDB` and
`DlpDeleteDB` are given, so a device with two databases of one name could not
tell which is meant.


## 8. DlpArgs

`Commands` is the declarations of `dlp-commands.ts` as data: for each command its
function number and the properties of its request and its response, in the order
of `@dlpArg` and with the types of `dlp-protocol.ts`. The operators below write
and read any message declared that way; a byte is a number.

| code | definition |
|---|---|
| `serialize` of the types | `WriteFlat`, `WriteJoined`, `WriteObject`, `WriteField` |
| `deserialize` of the types | `ReadFlat`, `ReadJoined`, `ReadObject`, `ReadField` |
| `DlpArg` in its three forms | `FormOf`, `Fits`, `WriteArg`, `ReadArg` |
| `DlpRequest`, `DlpResponse`: `serialize` | `Serialized`, `SendFails`, `Send` |
| `deserialize`, `parseDlpArgs` | `ReadHeader`, `ReadNextArg`, `Accept` |

Run `dlp`: every command, request and response, with each choice of its optional
arguments, texts of 0, 1, 3 and 5 bytes, lists of up to two, unset dates, an error
code, an argument of a newer device; whole, with bytes after it, or cut at every
place. The limits of the forms are scaled to 12 and 26 bytes, which these values
reach and pass, and the limit of a user name to 3.

- `ReadAsWritten`: what is accepted is what was written, property by property, and
  a refusal is never taken for an answer.
- `ReadableIsRead`: every message that can be read (`Readable`) gets through, at
  each size. What cannot: an optional argument given without those before it, an
  unknown argument, a list of two memory cards, a user name too long.
- `CutIsNoticed`: a message cut short is refused, or has lost only the end of the
  text or data it ends with.

Seen while modelling, without a run:

- a `FindDB` response with only the second argument throws, though
  `dlp-commands.ts:2909` offers it; so do two memory cards in one reply
  (`totalSize` is not used), and an extra argument is a `TypeError`
  (`dlp-protocol.ts:275`);
- `PDB_EPOCH` is compared by identity (`dlp-protocol.ts:619`), so unset dates are
  written as 1904;
- `shouldSort` (`dlp-commands.ts:2233`) reads `attrs | 0x80`, always true, and its
  setter clears the other bits.

Of the layers below, also without a run: a bad SLP header throws out of `_transform`; an empty NetSync
payload never comes out of the stream (`net-sync-protocol.ts:71`); a PADP message
of 65536 bytes or more overflows its size (`padp-protocol.ts:415`), an empty one
is called back as written without a datagram (`:399`), and a non-final datagram
flagged last is an error but still taken (`:351`).


## 9. What is proved

All theorems hold for any values of the constants that the modules' assumptions
allow.

**`RecordSync_proofs`**: any ids, contents and bounds.

- `TypeCorrect`: `Spec => []TypeOK`; in particular an action always has its
  record object.
- `DeviceEditsAreKept`: `Spec => []DeviceEditsKept`.

`DeviceEditsKept` alone is not inductive: that no action overwrites or deletes
an edited device record depends on which actions were planned, when the records
were still as the table saw them. `IInv` adds

- `Keyed`: each record sits under its own id, in all four databases;
- `Reading`: while planning, the device is as at the start and the objects
  are the records under their keys;
- `ActionOK` for each planned action: its object exists, and in a fast sync
  `ADD_ON_DEVICE` and `DELETE_ON_DEVICE` never aim at a key edited on the device;
- `ObjectOK`: an object has the id it was read with, or a fresh one;
- `~slow` between syncs.

The argument: `LogicSound` goes through the 36 cells of the table; `PlanSound`
carries it to `ComputeRecordActions`; one lemma per action shows `IInv'`;
`Invariance` is the induction.

**`RecordMerge_proofs`**: what a sync makes of the two databases, for any ids,
contents, edits and syncs.

| theorem | states | hypotheses |
|---|---|---|
| `ObjectsStayDistinct` | `ObjectsDistinct` | none |
| `SlowSyncsPull`, `SlowSyncsKeepEdits` | `SlowSyncPulls`, `SlowSyncKeepsEdits` | none: any faults and other PCs |
| `FastSyncsKeepEdits` | `FastSyncKeepsEdits`: a fast sync that succeeds has brought every edit of either side to both, conflicts and removals included | none: any faults and other PCs |
| `FastSyncImplements` | `ImplementsTwoWaySync`: one merge, or the file and the device's live edits left alone, or the whole merge on the device and the file cut short | `~OtherPcs` |
| `FastSyncsAreMerges` | `FastSyncsMerge`: the same of each fast sync | none: any faults and other PCs |
| `SyncsNeverBreak`, `FlagsStayTruthful`, `SyncsConverge` | `NoInternalError`, `FlagsTellTheTruth`, `SyncConverges` | `Undisturbed` |

None of these can be seen in the state in which it is about to fail: what the last
action writes is decided by the table, which looked at the two records before the
first action, and the objects have changed since. `IInv` does not remember that.
`MInv` does, one key at a time, as `startDevice` and `file` do not change while a
sync runs:

- `OnPlan(k, ...)`: the actions left for `k`, its two records and its two objects
  are together one of the stages of the plan that its row of the table asks for
  (`PushStages`, ..., `ForkDesktopStages`): the first stage when it has been read,
  the last one when no action is left. `KeyOK` adds that a key not read is as it was
  or is the id of a copy;
- `CopyOK`: the copy a conflict makes stands under an id that neither side had, and
  stays there. It is what keeps one key's actions away from another's records, with
  `ObjectsDistinct`, which is therefore part of the invariant;
- `Ordered`: the actions of one key stand in the list in the order of the plan,
  with those of other keys between them;
- `Visiting`: which keys have been read in which phase, so that none is left out;
- `Finishing`: with the list empty, cleaning up is all that is between the
  databases and the outcome. In a fast sync the outcome is the merge of
  `TwoWaySync`, with the copies' ids as its choice; in a slow one, that the desktop
  has all that the device has and both versions of what differs.

`Moved` is the step of one action: it takes its key to the next stage and leaves the
other keys alone. `FastMergeDone` and `SlowMergeDone` read the outcome off the last stages;
`MergeInvariance` is the induction. The refinement then maps the step that closes
a sync (`CloseAndSave`) to the one step of `TwoWaySync`, a failure to an interrupted
sync, a write cut short (`TearFile`) to a merge whose file is torn, and all the others
to a stutter. It holds under any failures, archived records
and desktop ids. With another PC some syncs are slow, which `TwoWaySync` does not
describe; `FastSyncsAreMerges` says of the others what is left of it.

The last three theorems need `Truth`, that an unmodified record is known to the
other side with its content, and so everything that makes it so: `Undisturbed` is no
fault (*afterfailure* shows what one costs), no other PC (whose sync leaves clean
flags on a device this desktop does not know), no record that is archived without
being modified at the start (the copy made by the first download does not have it),
and no desktop record of id 0 (the device returns another id, and `addOnDevice`
throws). The run `fast` checks the three in an instance of exactly these hypotheses.
`CalmInvariant` is the induction: a merge of two truthful databases is one database.

**`SyncServer_proofs`**: any number of sockets, requests, USB devices, attempts,
faults and starts.

- `TypeCorrect`: `Spec => []TypeOK`, which also says that `runPromise` is pending
  exactly while a loop runs, and that a loop inside `onConnection` has a live
  connection.
- `StopIsFinal`: `Spec => []StoppedIsQuiet`, which does not speak of TCP sessions
  without a socket: those may go on (section 6).
- `EndpointsAreRight`: `OnlyRegular => (Spec => []RightEndpoints)`. `OnlyRegular`
  says what the code expects of a device: that it has HotSync endpoints; if it
  answers only `GetConnectionInfo`, the same number for both; and that the bulk
  endpoints of one that is asked nothing, if it lists any, are those. Faults, the
  devices' order and their losses are any.

`IInv` adds to `TypeOK`: `Programmed` (the type of `program`), `LoopInStep`
(on a server with one link, a live connection is the loop's own), and
`ReallyStopped` (what `server` and `run` look like once `stop()` has returned: the
reason why nothing can start again behind its back).

**`SyncEnd_proofs`**: `EndIsReal`, `Spec => []DisconnectMeansEnded`: however many
sessions have failed on the line before, no old message is taken for the answer
to `EndOfSync`. Nothing in the code matches answers with requests, so the proof is
about what can be on the line (`Queues`). With CMP there is at most one INIT, hence
one ACK, per connection, and whatever was left over from earlier sessions is ahead
of that ACK, where the handshake throws it away. With NetSync at most one message
is on its way at a time. In either case an answer that is met answers the request
that is pending, and one to `EndOfSync` comes from a device that has ended.

**`DbTransfer_proofs`**: any databases, pages, operations and failures.

- `RomSpared`: `Spec => []RomIsSpared`. The invariant `SizesKnown` carries the
  sizes from `FindDb` to the requests for the two blocks: they are those of the
  database that is still being read.
- `ListsAll`, `CopiesAll`, `WritesPrefixes`, `RefusesForAReason`: `ListComplete`,
  `CopiesExact`, `WriteIsPrefix` and `RefusedForAReason`, from one invariant `IInv`
  whose parts follow an operation through its requests:
  - `Shapes`: device and copy stay databases with names of their own, and `at` is a
    request of the operation that runs;
  - `Listing`: the names so far are those of the places done and of the place in
    progress up to the index;
  - `Handles`: without faults the only open handle is that of the database the
    operation is at, so nothing is open when the next one starts;
  - `Copying`: the database is still there while it is read, the blocks passed are
    copied, and each kept record stands in the copy at its rank among those kept
    (`Rank`): a statement about positions, which needs no induction over sequences;
  - `BackingUp`: each name of the list before the current one has its file. A later
    file never replaces it, as names are used once;
  - `Writing`: what stands in place of the old database at each request of a write.

**`Padp_proofs`**: any message lengths and retries, any number of transaction ids
from two up, any loss.

- `TypeCorrect`, `MessagesInOrder`, `NoErrors`, `AcksAreTrue`: `Spec => []` of
  `TypeOK`, `InOrder`, `NoStreamErrors` and `AckMeansTaken`.
- `ReliableStream`: `Spec => ImplementsReliableChannel`, step by step: only the
  datagram that completes a message and the acceptance that confirms one are
  steps of the channel.

None of the four invariants is inductive: whether an ACK is believed is decided by
comparing an id and an offset, so it depends on every datagram still on its way.
`Direction(p)` says for one direction what the writer, the link and the other
reader have in common: the other reader has taken the current piece or the one
before (`Taken`, `Before`); data on the link is the piece taken last and then the
current one (`DataOK`); an ACK on the link that carries the current id is for a
piece that was taken (`AckOK`). `Replying` and `Requesting` say whose turn it is.
The hard part is the id: it comes back after a while, and a reply uses the id of
its request. `Fresh` settles both. The link keeps the order, so behind a datagram
of the current transaction no ACK of an older one can follow. That is why two
ids are enough, and it is where the proof uses that a wire does not reorder.

**`HotSyncSession_proofs`**: any number of folders, PCs, users, databases, edits,
sessions, resets and faults.

- `TypeCorrect`: `Spec => []TypeOK`. Not obvious, because a file may be cut short:
  `Session` has to say in each phase that what the conduit takes from `device`,
  `backup` or `toInstall` is a database.
- `BackupsGrow`: `Spec => BackupNeverShrinks`. Besides `Session` it rests on
  `Files` (a write that is still queued never covers a file that can be read) and
  on the phases before a sync finding nothing queued.
- `FastSyncIsSafe`, `GoodSessionBacksUp`: `FlagsTrusted` and `BackupUpToDate`,
  assuming `OneFolderEach`: no two folders of one user on one PC. The device
  remembers a user and a computer id, and with two such folders neither property
  holds: a fast sync with one would follow from a sync with the other
  (`node-database-storage.ts:30`). The invariant `TInv` extends the premise of a
  fast sync to the middle of a session: what the session has done with the
  databases it has visited, and what still holds of those it has not.

Only model-checked:

- liveness and `ENABLED`, which are beyond the prover: `EveryWriteEnds`,
  `RunSyncReturns`, `RunSyncEnds`, `StopEnds`, `OpEnds`;
- `Framing`, whose `Transform` is as recursive as the code's `_transform`, and
  `DlpArgs`, which folds over the properties of a message: what a recursive
  definition computes is proved by an induction that is out of reach here.


## 10. Plan

Done: all modules above, and the theorems of Section 9. Each invariant that a run
checks is also a theorem, but for those of `Framing` and `DlpArgs`.

To come, if the code grows: the second storage of the web demo beside the one of
`HotSyncSession`, and the bytes of USB control requests.


## 11. Not modelled

The clock conduit (two requests, no state), the command line, the stream recorder
and the web demo (wiring, files and user interface) have no module. Of the parts
that have one, these are left out: the parsing of connection strings; the
transaction id that NetSync writes and nothing reads; the bytes of USB control
requests and the table of vendors and products, of which the initialisation type
remains; a serial adapter that is unplugged; the bytes of a PADP header and its
long form; the second storage in the web demo (`readWriteToBasedir`). Baud rates
are two, initial and high; time-outs in milliseconds and logging are left out of
every model.

----------------------------- MODULE SyncServer -----------------------------
(***************************************************************************)
(* The HotSync servers of src/sync-servers, the connections they make      *)
(* (src/protocols/sync-connections.ts, cmp-protocol.ts) and the program    *)
(* that runs them: runSync(), or a program that calls start() and stop()   *)
(* on its own.                                                             *)
(*                                                                         *)
(* A server is one of four: "tcp" accepts any number of sockets, each with *)
(* an onConnection() of its own; "serial" and "webserial" call             *)
(* onConnection() in a loop on one port; "usb" looks for a device, opens   *)
(* it, calls onConnection() and waits for the device to go away.  A link   *)
(* is a socket, the serial line or the USB cable.                          *)
(*                                                                         *)
(* PADP below is taken as what ReliableChannel promises: messages arrive   *)
(* in order, and a write that the other side never takes fails.            *)
(***************************************************************************)
EXTENDS Naturals, Sequences, UsbConfig

CONSTANTS
    Kinds,         \* the kinds of server to look at
    Programs,      \* subset of {"runSync", "app"}
    Sockets,       \* how many sockets there may be
    SyncRequests,  \* requests that the sync function makes
    UsbDevices,    \* the USB devices that may be plugged in, see UsbConfig
    MaxAttempts, MaxFaults, MaxStarts  \* bounds of a behaviour

ASSUME ServerAssumption ==
    /\ Kinds \subseteq {"tcp", "serial", "webserial", "usb"}
    /\ Programs \subseteq {"runSync", "app"}
    /\ Sockets \in Nat \ {0} /\ SyncRequests \in Nat \ {0}
    /\ {MaxAttempts, MaxFaults, MaxStarts} \subseteq Nat

VARIABLES
    kind, stack,  \* the server, and "cmp" or "netsync"
    program,      \* who runs it, and where it is
    server,       \* handle: server or serialPort; runPromise; shouldStop
    run,          \* where run() is
    conn,         \* conn[l]: the SyncConnection of the link, see Phases
    stream,       \* stream[l]: what has become of its DLP stream
    up, down,     \* messages from and to the device of a link
    dev,          \* dev[l]: where the device is
    ended,        \* the links whose device has taken EndOfSync
    baud,         \* the rate of the serial port
    endpoints,    \* whether the endpoints of the opened USB device are right
    attempts, faults, starts,
    crashed       \* the process has died of an unhandled error

sides == <<up, down, dev, ended>>
bounds == <<attempts, faults, starts>>
vars == <<kind, stack, program, server, run, conn, stream, sides, baud,
          endpoints, bounds, crashed>>

Links == 1 .. (IF kind = "tcp" THEN Sockets ELSE 1)

\* Requests are numbered as a session makes them: DlpReadSysInfo and
\* DlpReadUserInfo of start(), those of the sync function, and DlpEndOfSync.
Last == SyncRequests + 3
InSync(k) == 2 < k /\ k < Last

\* The steps of onConnection().  In "busy" the sync function does something
\* that has nothing to do with the connection; in the others, up to
\* "request", it waits for the stream.
Phases == {"none", "wakeup", "initAck", "hs1", "hs2", "hs3", "request", "busy",
           "done", "failed"}
Waiting(l) == conn[l].phase \in {"wakeup", "initAck", "hs1", "hs2", "hs3", "request"}
Live(l) == Waiting(l) \/ conn[l].phase = "busy"

At(phase, k) == [phase |-> phase, req |-> k]

\* Messages.  An answer says which request it answers.
Message(what) == [what |-> what, req |-> 0, ok |-> TRUE]
Request(k) == [what |-> "request", req |-> k, ok |-> TRUE]
Answer(k, ok) == [what |-> "answer", req |-> k, ok |-> ok]

\* A stream takes nothing any more, or its socket is closed, or both.
Deaf(l) == stream[l] \in {"destroyed", "closed"}
SocketClosed(l) == stream[l] \in {"gone", "errored", "closed"}
Hangup(l) == [stream EXCEPT ![l] = IF Deaf(l) THEN "closed" ELSE "gone"]

-----------------------------------------------------------------------------
(* onConnection() and the run loop it returns to.                          *)

\* new SyncConnection(), the connect event and the first wait of
\* doHandshake().
Connect(l) ==
    /\ conn' = [conn EXCEPT ![l] = At(IF stack = "cmp" THEN "wakeup" ELSE "hs1", 0)]
    /\ down' = [down EXCEPT ![l] = <<>>]
    /\ ended' = ended \ {l}
    /\ program' = IF program.at = "connecting"
                  THEN [program EXCEPT !.at = "syncing"] ELSE program

\* Mutated form of OnConnectionThrows: no run loop catches it.
OnConnectionThrowsOut(l) ==
    /\ conn' = [conn EXCEPT ![l] = At("failed", 0)]
    /\ crashed' = (kind = "tcp")
    /\ run' = IF kind = "tcp" THEN run ELSE "exited"
    /\ UNCHANGED <<program, down>>

\* onConnection() throws: nobody catches that in "tcp", the other servers
\* carry on.
OnConnectionThrows(l) ==
    /\ conn' = [conn EXCEPT ![l] = At("failed", 0)]
    /\ crashed' = (kind = "tcp")
    /\ run' = CASE kind = "tcp" -> run
                [] kind = "usb" -> "gone"
                [] OTHER -> "check"
    /\ UNCHANGED <<program, down>>

\* execute(): write the request and wait.  A destroyed stream takes nothing.
Ask(l, k) ==
    /\ conn' = [conn EXCEPT ![l] = At("request", k)]
    /\ down' = IF Deaf(l) THEN down
               ELSE [down EXCEPT ![l] = Append(@, Request(k))]
    /\ UNCHANGED <<program, run, crashed>>

\* A wait throws.  What the sync function throws is logged, and end() called.
Throw(l) ==
    IF conn[l].phase = "request" /\ InSync(conn[l].req)
    THEN Ask(l, Last)
    ELSE OnConnectionThrows(l)

\* Mutated form of Finish: the run loop goes on before the event is handled.
FinishInLoop(l) ==
    /\ conn' = [conn EXCEPT ![l] = At("done", 0)]
    /\ program' = IF program.at = "syncing"
                  THEN [program EXCEPT !.at = "stop"] ELSE program
    /\ run' = CASE kind = "tcp" -> run
                [] kind = "usb" -> "close"
                [] OTHER -> "check"
    /\ UNCHANGED <<down, crashed>>

\* end() returns: the disconnect event, and the end of onConnection().
Finish(l) ==
    /\ conn' = [conn EXCEPT ![l] = At("done", 0)]
    /\ program' = IF program.at = "syncing"
                  THEN [program EXCEPT !.at = "stop"] ELSE program
    /\ run' = CASE kind = "tcp" -> run
                [] kind = "usb" -> "close"
                [] OTHER -> "timer"
    /\ UNCHANGED <<down, crashed>>

\* Send what is not a DLP request, and wait for the next message.
Reply(l, message, phase) ==
    /\ conn' = [conn EXCEPT ![l] = At(phase, 0)]
    /\ down' = [down EXCEPT ![l] = Append(@, Message(message))]
    /\ UNCHANGED <<program, run, crashed>>

Stay(l) == UNCHANGED <<conn, down, program, run, crashed>>

\* Mutated form of Accepted: whatever comes next is the answer.
AnyAnswer(m, k) == TRUE

\* execute(): the next message is taken for the answer to request k, which
\* fails if it is none, or one with an error code.
Accepted(m, k) == m = Answer(k, TRUE)

\* execute() returns; start() goes on to the next request or to the sync
\* function, and end() is the end.
Answered(l, k) ==
    CASE k = 1 -> Ask(l, 2)
      [] k = Last -> Finish(l)
      [] OTHER -> /\ conn' = [conn EXCEPT ![l] = At("busy", k)]
                  /\ UNCHANGED <<program, down, run, crashed>>

\* The end of doHandshake(): a serial port goes over to the negotiated rate
\* (SerialPort.update(), or a new stream on the reopened port, which may
\* fail), and start() begins.
HandshakeDone(l) ==
    \/ /\ baud' \in (IF kind \in {"serial", "webserial"} THEN {"initial", "high"}
                     ELSE {baud})
       /\ Ask(l, 1)
       /\ UNCHANGED <<stream, faults>>
    \/ /\ kind = "webserial" /\ faults < MaxFaults
       /\ faults' = faults + 1
       /\ stream' = [stream EXCEPT ![l] = "ended"]
       /\ OnConnectionThrows(l)
       /\ UNCHANGED baud

\* What a wait makes of a message (doCmpHandshake, doHandshake, execute).
Handle(l, m) ==
    LET expects == [wakeup |-> "wakeup", hs1 |-> "hs1", hs2 |-> "hs2"]
        reply   == [wakeup |-> "init", hs1 |-> "rsp1", hs2 |-> "rsp2"]
        next    == [wakeup |-> "initAck", hs1 |-> "hs2", hs2 |-> "hs3"]
        phase   == conn[l].phase
        k       == conn[l].req
        same    == UNCHANGED <<stream, baud, faults>>
    IN  CASE phase \in DOMAIN expects ->
                 /\ IF m.what = expects[phase] THEN Reply(l, reply[phase], next[phase])
                    ELSE OnConnectionThrows(l)
                 /\ same
          [] phase = "initAck" ->
                 IF m.what = "ack" THEN HandshakeDone(l) ELSE Stay(l) /\ same
          [] phase = "hs3" ->
                 IF m.what = "hs3" THEN HandshakeDone(l)
                 ELSE OnConnectionThrows(l) /\ same
          [] phase = "request" ->
                 /\ IF Accepted(m, k) THEN Answered(l, k) ELSE Throw(l)
                 /\ same

-----------------------------------------------------------------------------
(* Messages on their way to onConnection().                                *)

\* A port at a high rate makes nothing of a WAKEUP at the initial rate, and a
\* serial port that is closed hears nothing.
Heard(l) ==
    /\ stream[l] \in {"up", "gone"}
    /\ ~(baud = "high" /\ Head(up[l]).what = "wakeup")
    /\ kind = "serial" => server.handle = "open"
    /\ endpoints # "wrong"

Hear(l) ==
    /\ ~crashed /\ up[l] # <<>> /\ Waiting(l) /\ Heard(l)
    /\ Handle(l, Head(up[l]))
    /\ up' = [up EXCEPT ![l] = Tail(@)]
    /\ UNCHANGED <<kind, stack, server, dev, ended, endpoints, attempts, starts>>

\* A message that no wait is there for: the stream flows, so it is lost.  A
\* USB device that has not been opened is not read from.
Drop(l) ==
    /\ ~crashed /\ up[l] # <<>> /\ ~(Waiting(l) /\ Heard(l))
    /\ kind = "usb" => run = "conn"
    /\ up' = [up EXCEPT ![l] = Tail(@)]
    /\ UNCHANGED <<kind, stack, program, server, run, conn, stream, down, dev,
                   ended, baud, endpoints, bounds, crashed>>

\* The sync function makes its next request, or returns or throws.
Work(l) ==
    /\ ~crashed /\ conn[l].phase = "busy"
    /\ \/ InSync(conn[l].req + 1) /\ Ask(l, conn[l].req + 1)
       \/ Ask(l, Last)
    /\ UNCHANGED <<kind, stack, server, stream, up, dev, ended, baud, endpoints, bounds>>

\* The device will not take the message at the head of the line.
Takes(l) ==
    /\ stream[l] = "up"
    /\ kind = "serial" => server.handle = "open"
    /\ endpoints # "wrong"
    /\ dev[l] = [init |-> "waking", rsp1 |-> "hs1", rsp2 |-> "hs2",
                 request |-> "ready"][Head(down[l]).what]

\* PadpStream._write() gives up and calls back with an error, which destroys
\* the stream: the wait at that moment throws, and a destroyed stream says
\* nothing ever again.
WriteFails(l) ==
    /\ ~crashed /\ stack = "cmp" /\ Live(l) /\ down[l] # <<>> /\ ~Takes(l)
    /\ stream' = [stream EXCEPT ![l] = IF SocketClosed(l) THEN "closed"
                                        ELSE "destroyed"]
    /\ IF Waiting(l)
       THEN IF conn[l].phase = "request" /\ InSync(conn[l].req)
            THEN /\ conn' = [conn EXCEPT ![l] = At("request", Last)]
                 /\ down' = [down EXCEPT ![l] = <<>>]
                 /\ UNCHANGED <<program, run, crashed>>
            ELSE OnConnectionThrows(l)
       ELSE Stay(l)
    /\ UNCHANGED <<kind, stack, server, up, dev, ended, baud, endpoints, bounds>>

\* UsbConnectionStream._write awaits transferOut() without a catch: a transfer
\* that is on its way when the device goes, or that fails, rejects a promise
\* nobody looks at, which ends a Node process.  (A browser only reports it, and
\* goes on with what the read makes of the loss: Leaves.)
WriteRejects(l) ==
    /\ ~crashed /\ kind = "usb" /\ down[l] # <<>> /\ stream[l] \in {"up", "destroyed"}
    /\ \/ dev[l] = "off" /\ UNCHANGED faults
       \/ faults < MaxFaults /\ faults' = faults + 1
    /\ crashed' = TRUE
    /\ UNCHANGED <<kind, stack, program, server, run, conn, stream, sides, baud,
                   endpoints, attempts, starts>>

\* duplexify may report the error of a raw stream once more when it is closed.
SecondError(l) ==
    /\ ~crashed /\ stream[l] = "errored" /\ Waiting(l)
    /\ Throw(l)
    /\ stream' = [stream EXCEPT ![l] = "closed"]
    /\ UNCHANGED <<kind, stack, server, up, dev, ended, baud, endpoints, bounds>>

-----------------------------------------------------------------------------
(* The run loops.                                                          *)

\* Mutated form of StartsRun: runPromise is not set.
StartsRunUnkept(at) == run' = at /\ UNCHANGED server

StartsRun(at) == run' = at /\ server' = [server EXCEPT !.runPromise = "pending"]
Exits == run' = "exited" /\ server' = [server EXCEPT !.runPromise = "settled"]

\* SerialSyncServer.run, WebSerialSyncServer.run: the head of the loop.  The
\* former makes new streams on the port, the latter goes on with a raw stream
\* that may have ended.
RunCheck ==
    /\ ~crashed /\ run = "check"
    /\ IF server.handle = "open" /\ ~server.shouldStop
       THEN /\ Connect(1)
            /\ run' = "conn"
            /\ stream' = IF kind = "webserial" /\ stream[1] \in {"errored", "closed", "ended"}
                         THEN stream ELSE [stream EXCEPT ![1] = "up"]
            /\ UNCHANGED server
       ELSE Exits /\ UNCHANGED <<conn, down, ended, program, stream>>
    /\ UNCHANGED <<kind, stack, up, dev, baud, endpoints, bounds, crashed>>

\* setTimeout(0): not before the program has seen the disconnect event.
RunTimer ==
    /\ ~crashed /\ run = "timer" /\ program.at # "stop"
    /\ run' = "check"
    /\ UNCHANGED <<kind, stack, program, server, conn, stream, sides, baud,
                   endpoints, bounds, crashed>>

\* Mutated form of UsbWait: only a device ends the wait.
UsbWaitForDevice ==
    /\ ~crashed /\ run = "wait"
    /\ dev[1] # "off" /\ run' = "open" /\ UNCHANGED server
    /\ UNCHANGED <<kind, stack, program, conn, stream, sides, baud, endpoints,
                   bounds, crashed>>

\* UsbSyncServer.waitForDevice.
UsbWait ==
    /\ ~crashed /\ run = "wait"
    /\ IF server.shouldStop THEN Exits
       ELSE dev[1] # "off" /\ run' = "open" /\ UNCHANGED server
    /\ UNCHANGED <<kind, stack, program, conn, stream, sides, baud, endpoints,
                   bounds, crashed>>

\* openDevice, and onConnection on the stream it returns.  Without a stream
\* there is nothing but closeDevice().
UsbOpen ==
    /\ ~crashed /\ run = "open"
    /\ \/ /\ dev[1] # "off"
          /\ \E d \in UsbDevices :
                /\ faults + Failures(d) <= MaxFaults
                /\ faults' = faults + Failures(d)
                /\ IF ConnectionConfig(d) = None
                   THEN /\ run' = "gone"
                        /\ UNCHANGED <<conn, down, ended, program, stream, endpoints>>
                   ELSE /\ Connect(1)
                        /\ run' = "conn"
                        /\ stream' = [stream EXCEPT ![1] = "up"]
                        /\ endpoints' = IF ConnectionConfig(d) = HotSyncEndpoints(d)
                                        THEN "right" ELSE "wrong"
       \/ /\ \/ dev[1] = "off" /\ UNCHANGED faults
             \/ faults < MaxFaults /\ faults' = faults + 1
          /\ run' = "gone"
          /\ UNCHANGED <<conn, down, ended, program, stream, endpoints>>
    /\ UNCHANGED <<kind, stack, server, up, dev, baud, attempts, starts, crashed>>

\* closeDevice, then waitForDeviceToDisconnect.
UsbClose ==
    /\ ~crashed /\ run = "close"
    /\ run' = "gone"
    /\ UNCHANGED <<kind, stack, program, server, conn, stream, sides, baud,
                   endpoints, bounds, crashed>>

UsbGone ==
    /\ ~crashed /\ run = "gone" /\ (server.shouldStop \/ dev[1] = "off")
    /\ run' = "wait"
    /\ UNCHANGED <<kind, stack, program, server, conn, stream, sides, baud,
                   endpoints, bounds, crashed>>

-----------------------------------------------------------------------------
(* start(), stop() and the program.                                        *)

Stopped == [handle |-> "null", runPromise |-> "null", shouldStop |-> FALSE]

Refused ==
    CASE kind = "tcp" -> server.handle # "null"
      [] kind = "usb" -> server.runPromise # "null"
      [] OTHER -> server.handle # "null" \/ server.runPromise # "null"

\* A refused start() throws.  A serial port is opened, and the run loop of
\* "webserial" started, behind the program's back.
Start ==
    /\ ~crashed /\ program.at \in {"idle", "stopped", "ignored"}
    /\ starts < MaxStarts /\ starts' = starts + 1
    /\ IF Refused
       THEN /\ program' = [program EXCEPT !.at = "refused"]
            /\ UNCHANGED <<server, run, baud>>
       ELSE /\ program' = [program EXCEPT
                             !.at = IF program.is = "runSync" THEN "connecting"
                                    ELSE "running"]
            /\ server' = [server EXCEPT
                            !.handle = CASE kind = "usb" -> "null"
                                         [] kind = "serial" -> "opening"
                                         [] OTHER -> "open",
                            !.runPromise = IF kind = "usb" THEN "pending" ELSE "null"]
            /\ run' = CASE kind = "usb" -> "wait"
                        [] kind = "webserial" -> "starting"
                        [] OTHER -> "none"
            /\ baud' = "initial"
    /\ UNCHANGED <<kind, stack, conn, stream, sides, endpoints, attempts, faults,
                   crashed>>

PortOpened ==
    /\ ~crashed /\ server.handle = "opening"
    /\ run' = "check"
    /\ server' = [server EXCEPT !.handle = "open", !.runPromise = "pending"]
    /\ UNCHANGED <<kind, stack, program, conn, stream, sides, baud, endpoints,
                   bounds, crashed>>

PortFails ==
    /\ ~crashed /\ server.handle = "opening" /\ faults < MaxFaults
    /\ faults' = faults + 1
    /\ server' = [server EXCEPT !.handle = "null"]
    /\ crashed' = TRUE
    /\ UNCHANGED <<kind, stack, program, run, conn, stream, sides, baud, endpoints,
                   attempts, starts>>

RunStarts ==
    /\ ~crashed /\ run = "starting"
    /\ StartsRun("check")
    /\ stream' = [stream EXCEPT ![1] = "up"]
    /\ down' = [down EXCEPT ![1] = <<>>]
    /\ UNCHANGED <<kind, stack, program, conn, up, dev, ended, baud, endpoints,
                   bounds, crashed>>

\* stop() up to its first await.  It returns at once when it finds nothing to
\* stop, which is also so before the run loop has started.
NothingToStop ==
    CASE kind = "tcp" -> server.handle = "null"
      [] kind = "usb" -> server.runPromise = "null"
      [] OTHER -> server.handle = "null" \/ server.runPromise = "null"

CallStop ==
    /\ ~crashed /\ program.at \in {"running", "stop"}
    /\ IF NothingToStop
       THEN program' = [program EXCEPT !.at = "ignored"] /\ UNCHANGED server
       ELSE /\ program' = [program EXCEPT !.at = "stopping"]
            /\ server' = [server EXCEPT
                            !.shouldStop = kind # "tcp",
                            !.handle = CASE kind = "tcp" /\ @ = "open" -> "closing"
                                         [] kind = "serial" -> "closed"
                                         [] OTHER -> @]
    /\ UNCHANGED <<kind, stack, run, conn, stream, sides, baud, endpoints, bounds,
                   crashed>>

\* Mutated form of MayReturn: stop() does not wait for the run loop.
ReturnsAtOnce == TRUE

\* What stop() waits for: in "tcp" the close event, which comes once every
\* socket is closed, in the others run().
MayReturn ==
    IF kind = "tcp"
    THEN /\ server.handle = "closing"
         /\ \A l \in Links : Live(l) \/ conn[l].phase = "done"
                                => SocketClosed(l)
    ELSE server.runPromise = "settled"

StopReturns ==
    /\ ~crashed /\ program.at = "stopping" /\ MayReturn
    /\ program' = [program EXCEPT
                     !.at = IF program.is = "runSync" THEN "returned" ELSE "stopped"]
    /\ server' = IF kind = "tcp" THEN [server EXCEPT !.handle = "closed"] ELSE Stopped
    /\ UNCHANGED <<kind, stack, run, conn, stream, sides, baud, endpoints, bounds,
                   crashed>>

-----------------------------------------------------------------------------
(* Devices.                                                                *)

\* The user starts a HotSync on the device: a new socket, or what it sends
\* first on the line or to whoever opens it.  A USB device that comes back is
\* another one, which waits until the server has done with the first.
Press(l) ==
    /\ ~crashed /\ dev[l] = "off" /\ attempts < MaxAttempts
    /\ kind = "usb" => run # "conn"
    /\ attempts' = attempts + 1
    /\ dev' = [dev EXCEPT ![l] = IF stack = "cmp" THEN "waking" ELSE "hs1"]
    /\ up' = [up EXCEPT ![l] =
                 Append(IF kind = "usb" THEN <<>> ELSE @,
                        Message(IF stack = "cmp" THEN "wakeup" ELSE "hs1"))]
    /\ IF kind = "tcp"
       THEN /\ server.handle = "open" /\ conn[l].phase = "none"
            /\ Connect(l)
       ELSE UNCHANGED <<conn, down, ended, program>>
    /\ UNCHANGED <<kind, stack, server, run, stream, baud, endpoints, faults,
                   starts, crashed>>

\* A device repeats WAKEUP until it hears from the desktop.
Rewake(l) ==
    /\ ~crashed /\ dev[l] = "waking" /\ up[l] = <<>>
    /\ up' = [up EXCEPT ![l] = <<Message("wakeup")>>]
    /\ UNCHANGED <<kind, stack, program, server, run, conn, stream, down, dev,
                   ended, baud, endpoints, bounds, crashed>>

\* The device takes a message and answers it.  After EndOfSync it hangs up.
Take(l) ==
    /\ ~crashed /\ down[l] # <<>> /\ Takes(l)
    /\ down' = [down EXCEPT ![l] = Tail(@)]
    /\ LET m == Head(down[l])
           Says(what, at) ==
               /\ up' = [up EXCEPT ![l] = Append(@, Message(what))]
               /\ dev' = [dev EXCEPT ![l] = at]
               /\ UNCHANGED <<ended, stream, faults>>
       IN  CASE m.what = "init" -> Says("ack", "ready")
             [] m.what = "rsp1" -> Says("hs2", "hs2")
             [] m.what = "rsp2" -> Says("hs3", "ready")
             [] OTHER ->  \* a request
                  \E ok \in BOOLEAN :
                     /\ ok \/ InSync(m.req) \/ faults < MaxFaults
                     /\ faults' = IF ok \/ InSync(m.req) THEN faults ELSE faults + 1
                     /\ up' = [up EXCEPT ![l] = Append(@, Answer(m.req, ok))]
                     /\ IF m.req = Last
                        THEN /\ dev' = [dev EXCEPT ![l] = "off"]
                             /\ ended' = ended \cup {l}
                             /\ stream' = IF kind = "tcp"
                                          THEN Hangup(l) ELSE stream
                        ELSE UNCHANGED <<dev, ended, stream>>
    /\ UNCHANGED <<kind, stack, program, server, run, conn, baud, endpoints,
                   attempts, starts, crashed>>

\* A device goes away.  It falls silent, closes its socket, or goes in a way
\* that the raw stream reports as an error: on "usb" the pending read, which
\* destroys it (what a pending write does is WriteRejects).
Leaves(l, way) ==
    /\ ~crashed /\ dev[l] # "off"
    /\ dev' = [dev EXCEPT ![l] = "off"]
    /\ up' = IF way = "silent" THEN up ELSE [up EXCEPT ![l] = <<>>]
    /\ stream' = IF way = "error" /\ Live(l) /\ stream[l] = "up"
                 THEN [stream EXCEPT ![l] = "errored"]
                 ELSE IF way # "silent" /\ kind = "tcp" THEN Hangup(l) ELSE stream
    /\ IF way = "error" /\ Waiting(l) /\ stream[l] = "up" THEN Throw(l) ELSE Stay(l)
    /\ UNCHANGED <<kind, stack, server, ended, baud, endpoints, attempts, starts>>

\* A device that the desktop has nothing more to say to gives up.
GiveUp(l) ==
    /\ ~(down[l] # <<>> /\ Takes(l))
    /\ \/ conn[l].phase \in {"failed", "done"}
       \/ kind = "usb" /\ run = "gone"
       \/ /\ conn[l].phase \in {"wakeup", "hs1"} /\ up[l] = <<>>
          /\ dev[l] # "waking"
    /\ Leaves(l, [tcp |-> "close", serial |-> "silent", webserial |-> "silent",
                  usb |-> "error"][kind])
    /\ UNCHANGED faults

\* A device is lost in the middle.
Ways == CASE kind = "tcp" -> {"silent", "close", "error"}
          [] kind = "serial" -> {"silent"}
          [] kind = "webserial" -> {"silent", "error"}
          [] kind = "usb" -> {"error"}

Lost(l, way) ==
    /\ faults < MaxFaults /\ faults' = faults + 1
    /\ Leaves(l, way)

-----------------------------------------------------------------------------
Init ==
    /\ kind \in Kinds
    /\ stack \in (IF kind \in {"tcp", "usb"} THEN {"cmp", "netsync"} ELSE {"cmp"})
    /\ program \in {[is |-> p, at |-> "idle"] : p \in Programs}
    /\ server = Stopped
    /\ run = "none"
    /\ conn = [l \in Links |-> At("none", 0)]
    /\ stream = [l \in Links |-> "up"]
    /\ up = [l \in Links |-> <<>>] /\ down = up
    /\ dev = [l \in Links |-> "off"] /\ ended = {}
    /\ baud = "initial" /\ endpoints = "none"
    /\ attempts = 0 /\ faults = 0 /\ starts = 0
    /\ crashed = FALSE

Program == Start \/ CallStop \/ StopReturns
Loops ==
    PortOpened \/ RunStarts \/ RunCheck \/ RunTimer
    \/ UsbWait \/ UsbOpen \/ UsbClose \/ UsbGone
Connection(l) == Hear(l) \/ Drop(l) \/ Work(l) \/ WriteFails(l)
Device(l) == Press(l) \/ Rewake(l) \/ Take(l) \/ GiveUp(l)

Next ==
    \/ Program \/ Loops \/ PortFails
    \/ \E l \in Links :
          \/ Connection(l) \/ Device(l) \/ SecondError(l) \/ WriteRejects(l)
          \/ \E way \in Ways : Lost(l, way)

\* The event loop runs what is ready, and the runSync() program does what
\* comes next.  A user who wants to sync tries again, and a device that is
\* there speaks and listens.
Fairness ==
    /\ WF_vars(Loops)
    /\ WF_vars(program.is = "runSync" /\ Program) /\ WF_vars(StopReturns)
    /\ \A l \in 1 .. Sockets :
          /\ WF_vars(l \in Links /\ Hear(l)) /\ WF_vars(l \in Links /\ Drop(l))
          /\ WF_vars(l \in Links /\ Work(l)) /\ WF_vars(l \in Links /\ WriteFails(l))
          /\ WF_vars(l \in Links /\ Press(l)) /\ WF_vars(l \in Links /\ Rewake(l))
          /\ WF_vars(l \in Links /\ Take(l)) /\ WF_vars(l \in Links /\ GiveUp(l))

Spec == Init /\ [][Next]_vars /\ Fairness

-----------------------------------------------------------------------------
(* Properties.                                                             *)

TypeOK ==
    /\ program.at \in {"idle", "connecting", "syncing", "stop", "running", "stopping",
                       "stopped", "returned", "ignored", "refused"}
    /\ server \in [handle : {"null", "opening", "open", "closing", "closed"},
                   runPromise : {"null", "pending", "settled"}, shouldStop : BOOLEAN]
    /\ run \in {"none", "starting", "check", "conn", "timer", "exited",
               "wait", "open", "close", "gone"}
    /\ conn \in [Links -> [phase : Phases, req : 0 .. Last]]
    /\ stream \in [Links -> {"up", "destroyed", "errored", "gone", "closed",
                         "ended"}]
    /\ dev \in [Links -> {"off", "waking", "hs1", "hs2", "ready"}]
    /\ ended \subseteq Links
    /\ baud \in {"initial", "high"} /\ endpoints \in {"none", "right", "wrong"}
    /\ run = "conn" /\ ~crashed => Live(1)
    /\ server.runPromise = "pending" <=> run \notin {"none", "starting", "exited"}

\* When stop() has really stopped a server, its run loop has ended; with it has
\* every session of a server that has a loop, and of "tcp" each one that still
\* has its socket.  (An onConnection() of "tcp" that has lost its socket may go on:
\* stop() waits for the close event of the net.Server, which comes when the
\* sockets are closed, whether the sync functions have returned or not.)
StoppedIsQuiet ==
    program.at \in {"stopped", "returned"} =>
        /\ run \in {"none", "exited"}
        /\ \A l \in Links : Live(l) => kind = "tcp" /\ SocketClosed(l)

\* The disconnect event means that the device has taken the end of the sync,
\* whatever was lost, repeated or left over from an earlier session on the
\* same line (execute() takes any message for its answer).
DisconnectMeansEnded == \A l \in Links : conn[l].phase = "done" => l \in ended

\* A USB device that answers the requests its kind answers is talked to on
\* its HotSync endpoints (USB_INIT_FNS and the fallback to descriptors).
RightEndpoints == endpoints = "wrong" => faults > 0

\* Somebody waits for what can no longer come: a message on a stream that has
\* been destroyed or has ended, an error nobody reports, a WAKEUP at another
\* rate, a device on other endpoints, or a port that stop() has closed.
DeadEnd(l) ==
    /\ Waiting(l)
    /\ \/ Deaf(l) \/ stream[l] = "ended"
       \/ /\ up[l] = <<>> /\ (stack = "netsync" \/ down[l] = <<>>)
          /\ \/ SocketClosed(l)
             \/ kind = "tcp" /\ dev[l] = "off"
             \/ kind = "serial" /\ server.handle = "closed"
       \/ baud = "high" /\ conn[l].phase = "wakeup"
       \/ endpoints = "wrong"
Deadlocked == \E l \in Links : DeadEnd(l)

\* Somebody waits for a device, and the user has given up.
Exhausted ==
    /\ attempts = MaxAttempts
    /\ \E l \in Links :
          dev[l] = "off" /\ (Waiting(l) \/ (run = "wait" /\ ~server.shouldStop))

\* "start the server, wait for a connection, run the sync, and then stop the
\* server": runSync() does, when nothing goes wrong on the link, with any
\* server, and whether the sync function succeeds or not.
RunSyncReturns ==
    program.is = "runSync" /\ [](faults = 0) => <>(program.at = "returned")

\* When something does go wrong, there is no other way for runSync() not to
\* return than the named dead ends and an error that ends the process: a
\* rejected onConnection() in "tcp", a rejected write in "usb", a serial port
\* that does not open.
RunSyncEnds ==
    program.at = "connecting"
        ~> \/ program.at = "returned" \/ crashed \/ Deadlocked \/ Exhausted

\* stop() called at any time comes back under the same reserve.
StopEnds ==
    program.at = "stopping"
        ~> \/ program.at \in {"stopped", "returned"} \/ crashed \/ Deadlocked \/ Exhausted
=============================================================================

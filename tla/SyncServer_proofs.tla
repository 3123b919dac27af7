------------------------- MODULE SyncServer_proofs -------------------------
(***************************************************************************)
(* Types of SyncServer, and: what a stop() that has returned leaves, and   *)
(* that a USB device is opened at its HotSync endpoints.                   *)
(***************************************************************************)
EXTENDS SyncServer, TLAPS

Programmed ==
    program \in [is : {"runSync", "app"},
                 at : {"idle", "connecting", "syncing", "stop", "running", "stopping",
                       "stopped", "returned", "ignored", "refused"}]

\* The run loop and onConnection() of the servers that have a loop: it is in
\* onConnection() exactly while the connection lives, and runPromise follows
\* it.  "tcp" has none.
LoopInStep ==
    /\ kind \in {"tcp", "serial", "webserial", "usb"}
    /\ kind = "tcp" => run = "none" /\ server.runPromise = "null"
                       /\ server.handle # "opening"
    /\ server.handle = "opening" => run = "none" /\ server.runPromise = "null"
    /\ kind # "tcp" => (run = "conn" <=> Live(1))
    /\ server.runPromise = "settled" => run = "exited"

\* What a stop() that has returned leaves, as start() finds it.
ReallyStopped ==
    program.at \in {"stopped", "returned"} =>
        /\ run \in {"none", "exited"}
        /\ server.handle = IF kind = "tcp" THEN "closed" ELSE "null"
        /\ \A l \in Links : Live(l) => SocketClosed(l)

\* The inductive invariant.
IInv == TypeOK /\ Programmed /\ LoopInStep /\ ReallyStopped


\* Requests have numbers from 1 to Last.
LEMMA LastIsNat == Last \in Nat /\ 2 < Last
BY ServerAssumption DEF Last

LEMMA AtTyped ==
    ASSUME NEW phase \in Phases, NEW k \in 0 .. Last
    PROVE  /\ At(phase, k) \in [phase : Phases, req : 0 .. Last]
           /\ At(phase, k).phase = phase /\ At(phase, k).req = k
BY DEF At

LEMMA InitIInv == Init => IInv
<1> SUFFICES ASSUME Init PROVE IInv
  OBVIOUS
<1>1. kind \in {"tcp", "serial", "webserial", "usb"}
  BY ServerAssumption DEF Init
<1>2. Programmed /\ program.at = "idle"
  BY ServerAssumption DEF Init, Programmed
<1>3. conn \in [Links -> [phase : Phases, req : 0 .. Last]]
  <2>1. At("none", 0) \in [phase : Phases, req : 0 .. Last]
    BY AtTyped, LastIsNat DEF Phases
  <2> QED
    BY <2>1 DEF Init
<1>4. \A l \in Links : ~Live(l)
  BY DEF Init, Live, Waiting, At
<1>5. 1 \in Links
  BY ServerAssumption DEF Links
<1>6. TypeOK
  BY <1>2, <1>3 DEF Init, TypeOK, Stopped
<1> QED
  BY <1>1, <1>2, <1>4, <1>5, <1>6 DEF Init, IInv, LoopInStep, ReallyStopped, Stopped

-----------------------------------------------------------------------------
(* What a step of onConnection() on a link comes to.                       *)

\* Only the connection of link l moves.  As long as it lives, the run loop and
\* the program wait; when it is over, the loop goes on, and a runSync() that
\* waits for the disconnect event may get it.
Proceeds(l) ==
    /\ conn' \in [Links -> [phase : Phases, req : 0 .. Last]]
    /\ \A j \in Links \ {l} : conn'[j] = conn[j]
    /\ \/ Live(l)' /\ UNCHANGED <<program, run>>
       \/ /\ ~Live(l)'
          /\ \/ UNCHANGED program
             \/ program.at = "syncing" /\ program' = [program EXCEPT !.at = "stop"]
          /\ IF kind = "tcp" THEN UNCHANGED run
             ELSE run' \in {"gone", "check", "close", "timer"}

LEMMA AskProceeds ==
    ASSUME IInv, NEW l \in Links, NEW k \in 0 .. Last, Ask(l, k)
    PROVE  Proceeds(l)
<1>1. At("request", k) \in [phase : Phases, req : 0 .. Last]
  BY AtTyped DEF Phases
<1>2. conn' = [conn EXCEPT ![l] = At("request", k)]
  BY DEF Ask
<1>3. conn'[l].phase = "request"
  BY <1>2 DEF IInv, TypeOK, At
<1> QED
  BY <1>1, <1>2, <1>3 DEF IInv, TypeOK, Ask, Proceeds, Live, Waiting

LEMMA ThrowsProceeds ==
    ASSUME IInv, NEW l \in Links, OnConnectionThrows(l)
    PROVE  Proceeds(l)
<1>1. At("failed", 0) \in [phase : Phases, req : 0 .. Last]
  BY AtTyped, LastIsNat DEF Phases
<1>2. conn'[l].phase = "failed"
  BY DEF IInv, TypeOK, At, OnConnectionThrows
<1> QED
  BY <1>1, <1>2 DEF IInv, TypeOK, LoopInStep, OnConnectionThrows, Proceeds, Live, Waiting

LEMMA FinishProceeds ==
    ASSUME IInv, NEW l \in Links, Finish(l)
    PROVE  Proceeds(l)
<1>1. At("done", 0) \in [phase : Phases, req : 0 .. Last]
  BY AtTyped, LastIsNat DEF Phases
<1>2. conn'[l].phase = "done"
  BY DEF IInv, TypeOK, At, Finish
<1> QED
  BY <1>1, <1>2 DEF IInv, TypeOK, LoopInStep, Finish, Proceeds, Live, Waiting

LEMMA ThrowProceeds ==
    ASSUME IInv, NEW l \in Links, Throw(l)
    PROVE  Proceeds(l)
BY AskProceeds, ThrowsProceeds, LastIsNat DEF Throw

LEMMA ReplyProceeds ==
    ASSUME IInv, NEW l \in Links, NEW message,
           NEW phase \in {"initAck", "hs2", "hs3"}, Reply(l, message, phase)
    PROVE  Proceeds(l)
<1>1. At(phase, 0) \in [phase : Phases, req : 0 .. Last]
  BY AtTyped, LastIsNat DEF Phases
<1>2. conn'[l].phase = phase
  BY DEF IInv, TypeOK, At, Reply
<1> QED
  BY <1>1, <1>2 DEF IInv, TypeOK, Reply, Proceeds, Live, Waiting

LEMMA StayProceeds ==
    ASSUME IInv, NEW l \in Links, Live(l), Stay(l)
    PROVE  Proceeds(l)
BY DEF IInv, TypeOK, Stay, Proceeds, Live, Waiting

LEMMA AnsweredProceeds ==
    ASSUME IInv, NEW l \in Links, conn[l].phase = "request", Answered(l, conn[l].req)
    PROVE  Proceeds(l)
<1> DEFINE k == conn[l].req
<1>1. k \in 0 .. Last
  BY DEF IInv, TypeOK
<1>2. CASE k = 1
  BY <1>2, AskProceeds, LastIsNat DEF Answered
<1>3. CASE k # 1 /\ k = Last
  BY <1>3, FinishProceeds DEF Answered
<1>4. CASE k # 1 /\ k # Last
  <2>1. conn' = [conn EXCEPT ![l] = At("busy", k)] /\ UNCHANGED <<program, run>>
    BY <1>4 DEF Answered
  <2>2. At("busy", k) \in [phase : Phases, req : 0 .. Last]
    BY <1>1, AtTyped DEF Phases
  <2>3. conn'[l].phase = "busy"
    BY <2>1 DEF IInv, TypeOK, At
  <2> QED
    BY <2>1, <2>2, <2>3 DEF IInv, TypeOK, Proceeds, Live
<1> QED
  BY <1>2, <1>3, <1>4

\* A step of onConnection() keeps the invariant, when the socket of a link
\* that was closed stays closed.
LEMMA ProceedsKeeps ==
    ASSUME IInv, NEW l \in Links, Live(l), Proceeds(l), UNCHANGED <<kind, server>>,
           stream' \in [Links -> {"up", "destroyed", "errored", "gone", "closed",
                                  "ended"}],
           dev' \in [Links -> {"off", "waking", "hs1", "hs2", "ready"}],
           ended' \subseteq Links, baud' \in {"initial", "high"},
           endpoints' \in {"none", "right", "wrong"},
           Live(l)' => \A j \in Links : SocketClosed(j) => SocketClosed(j)',
           \A j \in Links \ {l} : SocketClosed(j) => SocketClosed(j)'
    PROVE  IInv'
<1>1. Links' = Links
  BY DEF Links
<1>2. \A j \in Links \ {l} : Live(j)' = Live(j)
  BY DEF Proceeds, Live, Waiting
<1>3. kind # "tcp" => Links = {1} /\ l = 1 /\ run = "conn" /\ server.runPromise = "pending"
  BY DEF Links, IInv, LoopInStep, TypeOK
<1>4. Programmed'
  BY DEF IInv, Programmed, Proceeds
<1>5. kind = "tcp" => UNCHANGED run
  BY DEF Proceeds
<1>6. LoopInStep'
  BY <1>3, <1>5 DEF IInv, LoopInStep, Proceeds
<1>7. ReallyStopped'
  <2> SUFFICES ASSUME program'.at \in {"stopped", "returned"}
               PROVE  /\ run' \in {"none", "exited"}
                      /\ server'.handle = IF kind' = "tcp" THEN "closed" ELSE "null"
                      /\ \A j \in Links : Live(j)' => SocketClosed(j)'
    BY <1>1 DEF ReallyStopped
  <2>1. program.at \in {"stopped", "returned"}
    BY DEF Proceeds, IInv, Programmed
  <2>2. kind = "tcp"
    BY <1>3, <2>1 DEF IInv, ReallyStopped
  <2> QED
    BY <1>2, <1>5, <2>1, <2>2 DEF IInv, ReallyStopped
<1>8. TypeOK'
  BY <1>1, <1>3, <1>4, <1>5, <1>6 DEF IInv, TypeOK, Programmed, LoopInStep, Proceeds
<1> QED
  BY <1>4, <1>6, <1>7, <1>8 DEF IInv

-----------------------------------------------------------------------------
(* The steps of a connection.                                              *)

\* The end of the handshake may cost the stream, and then the connection.
LEMMA HandshakeDoneKeeps ==
    ASSUME IInv, NEW l \in Links, Live(l), HandshakeDone(l),
           UNCHANGED <<kind, server, dev, ended, endpoints>>
    PROVE  IInv'
<1>1. CASE Ask(l, 1) /\ UNCHANGED stream /\ baud' \in {"initial", "high"}
  BY <1>1, AskProceeds, ProceedsKeeps, LastIsNat DEF IInv, TypeOK, SocketClosed
<1>2. CASE /\ kind = "webserial" /\ stream' = [stream EXCEPT ![l] = "ended"]
           /\ OnConnectionThrows(l) /\ UNCHANGED baud
  <2>1. Proceeds(l) /\ ~Live(l)'
    BY <1>2, ThrowsProceeds DEF OnConnectionThrows, Live, Waiting, At, IInv, TypeOK
  <2> QED
    BY <1>2, <2>1, ProceedsKeeps DEF IInv, TypeOK, SocketClosed
<1> QED
  BY <1>1, <1>2 DEF HandshakeDone, IInv, TypeOK

LEMMA HandleKeeps ==
    ASSUME IInv, NEW l \in Links, NEW m, Waiting(l), Handle(l, m),
           UNCHANGED <<kind, server, dev, ended, endpoints>>
    PROVE  IInv'
<1>1. Live(l)
  BY DEF Live
<1>2. ASSUME Proceeds(l), UNCHANGED <<stream, baud>> PROVE IInv'
  BY <1>1, <1>2, ProceedsKeeps DEF IInv, TypeOK, SocketClosed
<1>3. CASE conn[l].phase = "wakeup"
  BY <1>2, <1>3, ReplyProceeds, ThrowsProceeds DEF Handle
<1>4. CASE conn[l].phase = "hs1"
  BY <1>2, <1>4, ReplyProceeds, ThrowsProceeds DEF Handle
<1>5. CASE conn[l].phase = "hs2"
  BY <1>2, <1>5, ReplyProceeds, ThrowsProceeds DEF Handle
<1>6. CASE conn[l].phase = "initAck"
  BY <1>1, <1>2, <1>6, StayProceeds, HandshakeDoneKeeps DEF Handle
<1>7. CASE conn[l].phase = "hs3"
  BY <1>1, <1>2, <1>7, ThrowsProceeds, HandshakeDoneKeeps DEF Handle
<1>8. CASE conn[l].phase = "request"
  BY <1>2, <1>8, ThrowProceeds, AnsweredProceeds DEF Handle
<1> QED
  BY <1>3, <1>4, <1>5, <1>6, <1>7, <1>8 DEF Waiting

LEMMA HearKeeps == ASSUME IInv, NEW l \in Links, Hear(l) PROVE IInv'
BY HandleKeeps DEF Hear

LEMMA WorkKeeps == ASSUME IInv, NEW l \in Links, Work(l) PROVE IInv'
<1>1. conn[l].req + 1 \in 0 .. Last \/ ~InSync(conn[l].req + 1)
  BY LastIsNat DEF InSync, IInv, TypeOK
<1>2. Proceeds(l)
  BY <1>1, AskProceeds, LastIsNat DEF Work
<1>3. Live(l) /\ UNCHANGED <<kind, server, stream, dev, ended, baud, endpoints>>
  BY DEF Work, Live
<1> QED
  BY <1>2, <1>3, ProceedsKeeps DEF IInv, TypeOK, SocketClosed

LEMMA WriteFailsKeeps == ASSUME IInv, NEW l \in Links, WriteFails(l) PROVE IInv'
<1>1. Live(l) /\ UNCHANGED <<kind, server, dev, ended, baud, endpoints>>
  BY DEF WriteFails
<1>2. Proceeds(l)
  <2>1. CASE ~Waiting(l)
    BY <1>1, <2>1, StayProceeds DEF WriteFails
  <2>2. CASE Waiting(l) /\ ~(conn[l].phase = "request" /\ InSync(conn[l].req))
    BY <2>2, ThrowsProceeds DEF WriteFails
  <2>3. CASE Waiting(l) /\ conn[l].phase = "request" /\ InSync(conn[l].req)
    <3>1. conn' = [conn EXCEPT ![l] = At("request", Last)] /\ UNCHANGED <<program, run>>
      BY <2>3 DEF WriteFails
    <3>2. At("request", Last) \in [phase : Phases, req : 0 .. Last]
      BY AtTyped, LastIsNat DEF Phases
    <3>3. conn'[l].phase = "request"
      BY <3>1 DEF IInv, TypeOK, At
    <3> QED
      BY <3>1, <3>2, <3>3 DEF IInv, TypeOK, Proceeds, Live, Waiting
  <2> QED
    BY <2>1, <2>2, <2>3
<1>3. /\ stream' \in [Links -> {"up", "destroyed", "errored", "gone", "closed", "ended"}]
      /\ \A j \in Links : SocketClosed(j) => SocketClosed(j)'
  BY DEF WriteFails, IInv, TypeOK, SocketClosed
<1> QED
  BY <1>1, <1>2, <1>3, ProceedsKeeps DEF IInv, TypeOK

LEMMA SecondErrorKeeps == ASSUME IInv, NEW l \in Links, SecondError(l) PROVE IInv'
<1>1. Live(l) /\ UNCHANGED <<kind, server, dev, ended, baud, endpoints>>
  BY DEF SecondError, Live
<1>2. Proceeds(l)
  BY ThrowProceeds DEF SecondError
<1>3. /\ stream' \in [Links -> {"up", "destroyed", "errored", "gone", "closed", "ended"}]
      /\ \A j \in Links : SocketClosed(j) => SocketClosed(j)'
  BY DEF SecondError, IInv, TypeOK, SocketClosed
<1> QED
  BY <1>1, <1>2, <1>3, ProceedsKeeps DEF IInv, TypeOK

-----------------------------------------------------------------------------
(* Steps that no connection takes: those of a device.                      *)

\* Neither the connections nor the server move.
LEMMA ElsewhereKeeps ==
    ASSUME IInv, UNCHANGED <<kind, server, run, conn, program, baud, endpoints>>,
           stream' \in [Links -> {"up", "destroyed", "errored", "gone", "closed",
                                  "ended"}],
           dev' \in [Links -> {"off", "waking", "hs1", "hs2", "ready"}],
           ended' \subseteq Links,
           \A j \in Links : SocketClosed(j) => SocketClosed(j)'
    PROVE  IInv'
<1>1. Links' = Links /\ \A j \in Links : Live(j)' = Live(j)
  BY DEF Links, Live, Waiting
<1>2. kind # "tcp" => Live(1)' = Live(1)
  BY <1>1 DEF Links
<1>3. Programmed' /\ LoopInStep'
  BY <1>2 DEF IInv, Programmed, LoopInStep
<1>4. TypeOK'
  BY <1>1, <1>2 DEF IInv, TypeOK, Programmed, LoopInStep
<1>5. ReallyStopped'
  BY <1>1 DEF IInv, ReallyStopped
<1> QED
  BY <1>3, <1>4, <1>5 DEF IInv

LEMMA WriteRejectsKeeps == ASSUME IInv, NEW l \in Links, WriteRejects(l) PROVE IInv'
<1>1. UNCHANGED <<kind, server, run, conn, program, stream, dev, ended, baud, endpoints>>
  BY DEF WriteRejects, sides
<1> QED
  BY <1>1, ElsewhereKeeps DEF IInv, TypeOK, SocketClosed

LEMMA HangupCloses ==
    ASSUME IInv, NEW l \in Links, stream' = Hangup(l)
    PROVE  /\ stream' \in [Links -> {"up", "destroyed", "errored", "gone", "closed",
                                     "ended"}]
           /\ \A j \in Links : SocketClosed(j) => SocketClosed(j)'
BY DEF IInv, TypeOK, Hangup, SocketClosed

LEMMA DropKeeps == ASSUME IInv, NEW l \in Links, Drop(l) PROVE IInv'
BY ElsewhereKeeps DEF Drop, IInv, TypeOK, SocketClosed

LEMMA RewakeKeeps == ASSUME IInv, NEW l \in Links, Rewake(l) PROVE IInv'
BY ElsewhereKeeps DEF Rewake, IInv, TypeOK, SocketClosed

LEMMA TakeKeeps == ASSUME IInv, NEW l \in Links, Take(l) PROVE IInv'
<1>1. UNCHANGED <<kind, server, run, conn, program, baud, endpoints>>
  BY DEF Take
<1> DEFINE m == Head(down[l])
<1> DEFINE Turns(at) == dev' = [dev EXCEPT ![l] = at] /\ UNCHANGED <<ended, stream>>
<1>2. ASSUME NEW at \in {"ready", "hs2"}, Turns(at) PROVE IInv'
  BY <1>1, <1>2, ElsewhereKeeps DEF IInv, TypeOK, SocketClosed
<1>3. CASE m.what = "init"
  <2>1. Turns("ready")
    BY <1>3 DEF Take
  <2> QED
    BY <1>2, <2>1
<1>4. CASE m.what = "rsp1"
  <2>1. Turns("hs2")
    BY <1>4 DEF Take
  <2> QED
    BY <1>2, <2>1
<1>5. CASE m.what = "rsp2"
  <2>1. Turns("ready")
    BY <1>5 DEF Take
  <2> QED
    BY <1>2, <2>1
<1>6. CASE m.what \notin {"init", "rsp1", "rsp2"}
  <2>1. \/ UNCHANGED <<dev, ended, stream>>
        \/ /\ dev' = [dev EXCEPT ![l] = "off"] /\ ended' = ended \cup {l}
           /\ stream' = IF kind = "tcp" THEN Hangup(l) ELSE stream
    BY <1>6 DEF Take
  <2>2. CASE UNCHANGED <<dev, ended, stream>>
    BY <1>1, <2>2, ElsewhereKeeps DEF IInv, TypeOK, SocketClosed
  <2>3. CASE ~UNCHANGED <<dev, ended, stream>>
    <3>1. dev' \in [Links -> {"off", "waking", "hs1", "hs2", "ready"}] /\ ended' \subseteq Links
      BY <2>1, <2>3 DEF IInv, TypeOK
    <3> QED
      BY <1>1, <2>1, <2>3, <3>1, ElsewhereKeeps, HangupCloses DEF IInv, TypeOK, SocketClosed
  <2> QED
    BY <2>2, <2>3
<1> QED
  BY <1>3, <1>4, <1>5, <1>6

\* A device that leaves may end the wait of its connection.
LEMMA LeavesKeeps ==
    ASSUME IInv, NEW l \in Links, NEW way, Leaves(l, way)
    PROVE  IInv'
<1>1. UNCHANGED <<kind, server, ended, baud, endpoints>>
  BY DEF Leaves
<1>2. dev' \in [Links -> {"off", "waking", "hs1", "hs2", "ready"}] /\ ended' \subseteq Links
  BY <1>1 DEF Leaves, IInv, TypeOK
<1>3. /\ stream' \in [Links -> {"up", "destroyed", "errored", "gone", "closed", "ended"}]
      /\ \A j \in Links : SocketClosed(j) => SocketClosed(j)'
  <2>1. \/ stream' = [stream EXCEPT ![l] = "errored"]
        \/ stream' = Hangup(l) \/ stream' = stream
    BY DEF Leaves
  <2> QED
    BY <2>1, HangupCloses DEF IInv, TypeOK, SocketClosed
<1>4. CASE Waiting(l) /\ Throw(l)
  BY <1>1, <1>2, <1>3, <1>4, ThrowProceeds, ProceedsKeeps DEF IInv, TypeOK, Live
<1>5. CASE Stay(l)
  BY <1>1, <1>2, <1>3, <1>5, ElsewhereKeeps DEF Stay
<1> QED
  BY <1>4, <1>5 DEF Leaves

LEMMA GiveUpKeeps == ASSUME IInv, NEW l \in Links, GiveUp(l) PROVE IInv'
BY LeavesKeeps DEF GiveUp

LEMMA LostKeeps == ASSUME IInv, NEW l \in Links, NEW way, Lost(l, way) PROVE IInv'
BY LeavesKeeps DEF Lost

-----------------------------------------------------------------------------
(* New connections.                                                        *)

LEMMA ConnectStarts ==
    ASSUME IInv, NEW l \in Links, Connect(l)
    PROVE  /\ conn' \in [Links -> [phase : Phases, req : 0 .. Last]]
           /\ \A j \in Links \ {l} : conn'[j] = conn[j]
           /\ Live(l)' /\ ended' \subseteq Links
           /\ program'.at = program.at \/ program'.at = "syncing"
           /\ Programmed'
<1> DEFINE phase == IF stack = "cmp" THEN "wakeup" ELSE "hs1"
<1>1. At(phase, 0) \in [phase : Phases, req : 0 .. Last]
  BY AtTyped, LastIsNat DEF Phases
<1>2. conn' = [conn EXCEPT ![l] = At(phase, 0)]
  BY DEF Connect
<1>3. conn'[l].phase = phase
  BY <1>2 DEF IInv, TypeOK, At
<1>4. Programmed' /\ (program'.at = program.at \/ program'.at = "syncing")
  BY DEF Connect, IInv, Programmed
<1> QED
  BY <1>1, <1>2, <1>3, <1>4 DEF Connect, IInv, TypeOK, Live, Waiting

\* The loop of a server that has one takes a new connection.
LEMMA LoopConnects ==
    ASSUME IInv, kind # "tcp", run \in {"check", "open"}, Connect(1), run' = "conn",
           UNCHANGED <<kind, server, dev, baud>>,
           stream' \in [Links -> {"up", "destroyed", "errored", "gone", "closed", "ended"}],
           endpoints' \in {"none", "right", "wrong"}
    PROVE  IInv'
<1>1. Links = {1} /\ Links' = Links
  BY DEF Links
<1>2. server.runPromise = "pending"
  BY DEF IInv, TypeOK
<1>3. LoopInStep'
  BY <1>1, <1>2, ConnectStarts DEF IInv, LoopInStep
<1>4. program'.at \notin {"stopped", "returned"}
  BY <1>1, ConnectStarts DEF IInv, ReallyStopped
<1>5. TypeOK'
  BY <1>1, <1>2, ConnectStarts DEF IInv, TypeOK, Programmed
<1> QED
  BY <1>1, <1>3, <1>4, <1>5, ConnectStarts DEF IInv, ReallyStopped

LEMMA PressKeeps == ASSUME IInv, NEW l \in Links, Press(l) PROVE IInv'
<1>1. UNCHANGED <<kind, server, run, stream, baud, endpoints>> /\ Links' = Links
  BY DEF Press, Links
<1>2. dev' \in [Links -> {"off", "waking", "hs1", "hs2", "ready"}]
  BY DEF Press, IInv, TypeOK
<1>3. CASE kind # "tcp"
  BY <1>1, <1>2, <1>3, ElsewhereKeeps DEF Press, IInv, TypeOK, SocketClosed
<1>4. CASE kind = "tcp"
  <2>1. Connect(l) /\ server.handle = "open"
    BY <1>4 DEF Press
  <2>2. program'.at \notin {"stopped", "returned"}
    BY <1>4, <2>1, ConnectStarts DEF IInv, ReallyStopped
  <2>3. LoopInStep'
    BY <1>1, <1>4 DEF IInv, LoopInStep
  <2>4. TypeOK'
    BY <1>1, <1>2, <1>4, <2>1, ConnectStarts DEF IInv, TypeOK, Programmed, LoopInStep
  <2> QED
    BY <2>1, <2>2, <2>3, <2>4, ConnectStarts DEF IInv, ReallyStopped
<1> QED
  BY <1>3, <1>4

-----------------------------------------------------------------------------
(* The run loops.                                                          *)

Between == {"check", "timer", "wait", "open", "close", "gone"}

\* The loop goes from one of its steps to another, outside onConnection().
LEMMA LoopMoves ==
    ASSUME IInv, run \in Between, run' \in Between,
           UNCHANGED <<kind, server, conn, program, stream, dev, ended, baud, endpoints>>
    PROVE  IInv'
<1>1. kind # "tcp" /\ Links = {1} /\ Links' = Links /\ ~Live(1)
  BY DEF Between, IInv, LoopInStep, Links
<1>2. ~Live(1)'
  BY <1>1 DEF Live, Waiting
<1>3. server.runPromise = "pending"
  BY DEF Between, IInv, TypeOK
<1>4. LoopInStep' /\ Programmed'
  BY <1>1, <1>2, <1>3 DEF Between, IInv, LoopInStep, Programmed
<1>5. program'.at \notin {"stopped", "returned"}
  BY DEF Between, IInv, ReallyStopped
<1>6. TypeOK'
  BY <1>1, <1>2, <1>3 DEF Between, IInv, TypeOK, Programmed
<1> QED
  BY <1>4, <1>5, <1>6 DEF IInv, ReallyStopped

\* run() returns.
LEMMA LoopExits ==
    ASSUME IInv, run \in Between, Exits,
           UNCHANGED <<kind, conn, program, stream, dev, ended, baud, endpoints>>
    PROVE  IInv'
<1>1. kind # "tcp" /\ Links = {1} /\ Links' = Links /\ ~Live(1)
  BY DEF Between, IInv, LoopInStep, Links
<1>2. ~Live(1)'
  BY <1>1 DEF Live, Waiting
<1>3. server' \in [handle : {"null", "opening", "open", "closing", "closed"},
                   runPromise : {"null", "pending", "settled"}, shouldStop : BOOLEAN]
      /\ server'.runPromise = "settled" /\ server'.handle = server.handle
  BY DEF Exits, IInv, TypeOK
<1>4. LoopInStep' /\ Programmed'
  BY <1>1, <1>2, <1>3 DEF Exits, Between, IInv, LoopInStep, Programmed
<1>5. program'.at \notin {"stopped", "returned"}
  BY DEF Between, IInv, ReallyStopped
<1>6. TypeOK'
  BY <1>1, <1>2, <1>3 DEF Exits, IInv, TypeOK, Programmed
<1> QED
  BY <1>4, <1>5, <1>6 DEF IInv, ReallyStopped

LEMMA RunCheckKeeps == ASSUME IInv, RunCheck PROVE IInv'
<1>1. run \in Between /\ kind # "tcp"
  BY DEF RunCheck, Between, IInv, LoopInStep
<1>2. CASE server.handle = "open" /\ ~server.shouldStop
  <2>1. stream' \in [Links -> {"up", "destroyed", "errored", "gone", "closed", "ended"}]
    BY <1>2 DEF RunCheck, IInv, TypeOK
  <2> QED
    BY <1>1, <1>2, <2>1, LoopConnects DEF RunCheck, IInv, TypeOK
<1>3. CASE ~(server.handle = "open" /\ ~server.shouldStop)
  BY <1>1, <1>3, LoopExits DEF RunCheck
<1> QED
  BY <1>2, <1>3

LEMMA UsbOpenKeeps == ASSUME IInv, UsbOpen PROVE IInv'
<1>1. run \in Between /\ kind # "tcp"
  BY DEF UsbOpen, Between, IInv, LoopInStep
<1>2. UNCHANGED <<kind, server, dev, baud>>
  BY DEF UsbOpen
<1>3. CASE run' = "gone" /\ UNCHANGED <<conn, ended, program, stream, endpoints>>
  BY <1>1, <1>2, <1>3, LoopMoves DEF Between
<1>4. CASE /\ Connect(1) /\ run' = "conn" /\ stream' = [stream EXCEPT ![1] = "up"]
           /\ endpoints' \in {"right", "wrong"}
  BY <1>1, <1>2, <1>4, LoopConnects DEF UsbOpen, IInv, TypeOK
<1>5. \/ run' = "gone" /\ UNCHANGED <<conn, ended, program, stream, endpoints>>
      \/ /\ Connect(1) /\ run' = "conn" /\ stream' = [stream EXCEPT ![1] = "up"]
         /\ endpoints' \in {"right", "wrong"}
  BY DEF UsbOpen
<1> QED
  BY <1>3, <1>4, <1>5

LEMMA OtherLoopStepsKeep ==
    ASSUME IInv, RunTimer \/ UsbWait \/ UsbClose \/ UsbGone
    PROVE  IInv'
<1>1. CASE RunTimer
  BY <1>1, LoopMoves DEF RunTimer, Between, sides, bounds
<1>2. CASE UsbWait /\ server.shouldStop
  BY <1>2, LoopExits DEF UsbWait, Between, sides, bounds
<1>3. CASE UsbWait /\ ~server.shouldStop
  BY <1>3, LoopMoves DEF UsbWait, Between, sides, bounds
<1>4. CASE UsbClose
  BY <1>4, LoopMoves DEF UsbClose, Between, sides, bounds
<1>5. CASE UsbGone
  BY <1>5, LoopMoves DEF UsbGone, Between, sides, bounds
<1> QED
  BY <1>1, <1>2, <1>3, <1>4, <1>5

-----------------------------------------------------------------------------
(* start(), stop() and what they set going.                                *)

ServerTyped ==
    server \in [handle : {"null", "opening", "open", "closing", "closed"},
                runPromise : {"null", "pending", "settled"}, shouldStop : BOOLEAN]

\* A step of start() or stop(), or one that opens the port: the connections
\* stay as they are, and the loop is outside onConnection() or stays in it.
LEMMA ServerMoves ==
    ASSUME IInv, UNCHANGED <<kind, conn, dev, ended, endpoints>>,
           stream' \in [Links -> {"up", "destroyed", "errored", "gone", "closed", "ended"}],
           baud' \in {"initial", "high"},
           ServerTyped', Programmed', LoopInStep', ReallyStopped',
           run' \in {"none", "starting", "check", "conn", "timer", "exited",
                     "wait", "open", "close", "gone"},
           server'.runPromise = "pending" <=> run' \notin {"none", "starting", "exited"}
    PROVE  IInv'
<1>1. Links' = Links
  BY DEF Links
<1>2. kind' = "tcp" => run' = "none"
  BY DEF LoopInStep
<1>3. TypeOK'
  BY <1>1, <1>2 DEF IInv, TypeOK, ServerTyped, Programmed, LoopInStep
<1> QED
  BY <1>3 DEF IInv

LEMMA PortOpenedKeeps == ASSUME IInv, PortOpened PROVE IInv'
<1>1. kind # "tcp" /\ run = "none" /\ ~Live(1) /\ Links' = Links
  BY DEF PortOpened, IInv, LoopInStep, Links
<1>2. UNCHANGED <<kind, conn, program, stream, dev, ended, baud, endpoints>>
  BY DEF PortOpened, sides
<1>3. ~Live(1)'
  BY <1>1, <1>2 DEF Live, Waiting
<1>4. server' = [server EXCEPT !.handle = "open", !.runPromise = "pending"] /\ run' = "check"
  BY DEF PortOpened
<1>5. ServerTyped' /\ server'.handle = "open" /\ server'.runPromise = "pending"
  BY <1>4 DEF IInv, TypeOK, ServerTyped
<1>6. LoopInStep' /\ Programmed'
  BY <1>1, <1>2, <1>3, <1>4, <1>5 DEF IInv, LoopInStep, Programmed
<1>7. ReallyStopped'
  BY <1>1, <1>2 DEF PortOpened, IInv, ReallyStopped
<1> QED
  BY <1>2, <1>4, <1>5, <1>6, <1>7, ServerMoves DEF IInv, TypeOK

LEMMA PortFailsKeeps == ASSUME IInv, PortFails PROVE IInv'
<1>1. kind # "tcp" /\ run = "none" /\ server.runPromise = "null" /\ Links' = Links
  BY DEF PortFails, IInv, LoopInStep, Links
<1>2. UNCHANGED <<kind, conn, program, run, stream, dev, ended, baud, endpoints>>
  BY DEF PortFails, sides
<1>3. Live(1)' = Live(1)
  BY <1>2 DEF Live, Waiting
<1>4. ServerTyped' /\ server'.handle = "null" /\ server'.runPromise = "null"
  BY <1>1 DEF PortFails, IInv, TypeOK, ServerTyped
<1>5. LoopInStep' /\ Programmed'
  BY <1>1, <1>2, <1>3, <1>4 DEF IInv, LoopInStep, Programmed
<1>6. ReallyStopped'
  BY <1>1, <1>2 DEF PortFails, IInv, ReallyStopped
<1> QED
  BY <1>1, <1>2, <1>4, <1>5, <1>6, ServerMoves DEF IInv, TypeOK

LEMMA RunStartsKeeps == ASSUME IInv, RunStarts PROVE IInv'
<1>1. kind # "tcp" /\ run = "starting" /\ ~Live(1) /\ Links' = Links
  BY DEF RunStarts, IInv, LoopInStep, Links
<1>2. UNCHANGED <<kind, conn, program, dev, ended, baud, endpoints>>
  BY DEF RunStarts, sides
<1>3. ~Live(1)'
  BY <1>1, <1>2 DEF Live, Waiting
<1>4. server' = [server EXCEPT !.runPromise = "pending"] /\ run' = "check"
  BY DEF RunStarts, StartsRun
<1>5. ServerTyped' /\ server'.handle # "opening" /\ server'.runPromise = "pending"
  BY <1>1, <1>4 DEF IInv, TypeOK, ServerTyped, LoopInStep
<1>6. LoopInStep' /\ Programmed'
  BY <1>1, <1>2, <1>3, <1>4, <1>5 DEF IInv, LoopInStep, Programmed
<1>7. ReallyStopped'
  BY <1>1, <1>2 DEF IInv, ReallyStopped
<1>8. stream' \in [Links -> {"up", "destroyed", "errored", "gone", "closed", "ended"}]
  BY DEF RunStarts, IInv, TypeOK
<1> QED
  BY <1>2, <1>4, <1>5, <1>6, <1>7, <1>8, ServerMoves DEF IInv, TypeOK

LEMMA StartKeeps == ASSUME IInv, Start PROVE IInv'
<1>1. UNCHANGED <<kind, conn, stream, dev, ended, endpoints>> /\ Links' = Links
  BY DEF Start, sides, Links
<1>2. kind # "tcp" => Live(1)' = Live(1)
  BY <1>1 DEF Live, Waiting
<1>3. CASE Refused
  <2>1. Programmed' /\ program'.at = "refused" /\ UNCHANGED <<server, run, baud>>
    BY <1>3 DEF Start, IInv, Programmed
  <2>2. LoopInStep' /\ ReallyStopped' /\ ServerTyped'
    BY <1>1, <1>2, <2>1 DEF IInv, TypeOK, LoopInStep, ReallyStopped, ServerTyped
  <2> QED
    BY <1>1, <2>1, <2>2, ServerMoves DEF IInv, TypeOK
<1>4. CASE ~Refused
  <2>1. Programmed' /\ program'.at \in {"connecting", "running"}
    BY <1>4 DEF Start, IInv, Programmed
  <2>2. server.runPromise # "pending"
    BY <1>4 DEF Refused, IInv, LoopInStep
  <2>3. kind # "tcp" => ~Live(1)
    BY <2>2 DEF IInv, LoopInStep, TypeOK
  <2>4. baud' = "initial"
    BY <1>4 DEF Start
  <2>5. CASE kind = "usb"
    <3>1. server' = [server EXCEPT !.handle = "null", !.runPromise = "pending"]
          /\ run' = "wait"
      BY <1>4, <2>5 DEF Start
    <3>2. ServerTyped' /\ server'.handle = "null" /\ server'.runPromise = "pending"
      BY <3>1 DEF IInv, TypeOK, ServerTyped
    <3>3. LoopInStep' /\ ReallyStopped'
      BY <1>1, <1>2, <2>1, <2>3, <2>5, <3>1, <3>2 DEF IInv, LoopInStep, ReallyStopped
    <3> QED
      BY <1>1, <2>1, <2>4, <3>1, <3>2, <3>3, ServerMoves DEF IInv, TypeOK
  <2>6. CASE kind = "serial"
    <3>1. server' = [server EXCEPT !.handle = "opening", !.runPromise = "null"]
          /\ run' = "none"
      BY <1>4, <2>6 DEF Start
    <3>2. ServerTyped' /\ server'.handle = "opening" /\ server'.runPromise = "null"
      BY <3>1 DEF IInv, TypeOK, ServerTyped
    <3>3. LoopInStep' /\ ReallyStopped'
      BY <1>1, <1>2, <2>1, <2>3, <2>6, <3>1, <3>2 DEF IInv, LoopInStep, ReallyStopped
    <3> QED
      BY <1>1, <2>1, <2>4, <3>1, <3>2, <3>3, ServerMoves DEF IInv, TypeOK
  <2>7. CASE kind = "webserial"
    <3>1. server' = [server EXCEPT !.handle = "open", !.runPromise = "null"]
          /\ run' = "starting"
      BY <1>4, <2>7 DEF Start
    <3>2. ServerTyped' /\ server'.handle = "open" /\ server'.runPromise = "null"
      BY <3>1 DEF IInv, TypeOK, ServerTyped
    <3>3. LoopInStep' /\ ReallyStopped'
      BY <1>1, <1>2, <2>1, <2>3, <2>7, <3>1, <3>2 DEF IInv, LoopInStep, ReallyStopped
    <3> QED
      BY <1>1, <2>1, <2>4, <3>1, <3>2, <3>3, ServerMoves DEF IInv, TypeOK
  <2>8. CASE kind = "tcp"
    <3>1. server' = [server EXCEPT !.handle = "open", !.runPromise = "null"]
          /\ run' = "none"
      BY <1>4, <2>8 DEF Start
    <3>2. ServerTyped' /\ server'.handle = "open" /\ server'.runPromise = "null"
      BY <3>1 DEF IInv, TypeOK, ServerTyped
    <3>3. LoopInStep' /\ ReallyStopped'
      BY <1>1, <1>2, <2>1, <2>3, <2>8, <3>1, <3>2 DEF IInv, LoopInStep, ReallyStopped
    <3> QED
      BY <1>1, <2>1, <2>4, <3>1, <3>2, <3>3, ServerMoves DEF IInv, TypeOK
  <2> QED
    BY <2>5, <2>6, <2>7, <2>8 DEF IInv, LoopInStep
<1> QED
  BY <1>3, <1>4

LEMMA CallStopKeeps == ASSUME IInv, CallStop PROVE IInv'
<1>1. UNCHANGED <<kind, run, conn, stream, dev, ended, baud, endpoints>> /\ Links' = Links
  BY DEF CallStop, sides, Links
<1>2. kind # "tcp" => Live(1)' = Live(1)
  BY <1>1 DEF Live, Waiting
<1>3. Programmed' /\ program'.at \in {"ignored", "stopping"}
  BY DEF CallStop, IInv, Programmed
<1>4. ServerTyped' /\ server'.runPromise = server.runPromise
      /\ (server'.handle = "opening" => server.handle = "opening")
  <2>1. /\ ServerTyped
        /\ \/ UNCHANGED server
           \/ server' = [server EXCEPT
                           !.shouldStop = kind # "tcp",
                           !.handle = CASE kind = "tcp" /\ @ = "open" -> "closing"
                                        [] kind = "serial" -> "closed"
                                        [] OTHER -> @]
    BY DEF CallStop, IInv, TypeOK, ServerTyped
  <2> QED
    BY <2>1 DEF ServerTyped
<1>5. LoopInStep' /\ ReallyStopped'
  BY <1>1, <1>2, <1>3, <1>4 DEF IInv, LoopInStep, ReallyStopped
<1> QED
  BY <1>1, <1>3, <1>4, <1>5, ServerMoves DEF IInv, TypeOK

\* What stop() waited for has ended every connection, or closed its socket.
LEMMA StopReturnsKeeps == ASSUME IInv, StopReturns PROVE IInv'
<1>1. UNCHANGED <<kind, run, conn, stream, dev, ended, baud, endpoints>> /\ Links' = Links
  BY DEF StopReturns, sides, Links
<1>2. \A l \in Links : Live(l)' = Live(l) /\ SocketClosed(l)' = SocketClosed(l)
  BY <1>1 DEF Live, Waiting, SocketClosed
<1>3. Programmed'
  BY DEF StopReturns, IInv, Programmed
<1>4. CASE kind = "tcp"
  <2>1. server' = [server EXCEPT !.handle = "closed"]
    BY <1>4 DEF StopReturns
  <2>2. ServerTyped' /\ server'.runPromise = server.runPromise /\ server'.handle = "closed"
    BY <2>1 DEF IInv, TypeOK, ServerTyped
  <2>3. LoopInStep' /\ ReallyStopped'
    BY <1>1, <1>2, <1>4, <2>2 DEF IInv, LoopInStep, ReallyStopped, StopReturns, MayReturn
  <2> QED
    BY <1>1, <1>3, <2>2, <2>3, ServerMoves DEF IInv, TypeOK
<1>5. CASE kind # "tcp"
  <2>1. run = "exited" /\ Links = {1} /\ ~Live(1)
    BY <1>5 DEF StopReturns, MayReturn, IInv, LoopInStep, Links
  <2>2. server' = Stopped
    BY <1>5 DEF StopReturns
  <2>3. ServerTyped' /\ server'.handle = "null" /\ server'.runPromise = "null"
    BY <2>2 DEF Stopped, ServerTyped
  <2>4. LoopInStep' /\ ReallyStopped'
    BY <1>1, <1>2, <1>5, <2>1, <2>3 DEF IInv, LoopInStep, ReallyStopped
  <2> QED
    BY <1>1, <1>3, <2>1, <2>3, <2>4, ServerMoves DEF IInv, TypeOK
<1> QED
  BY <1>4, <1>5

-----------------------------------------------------------------------------
LEMMA StepKeeps == ASSUME IInv, [Next]_vars PROVE IInv'
<1>1. CASE Program
  BY <1>1, StartKeeps, CallStopKeeps, StopReturnsKeeps DEF Program
<1>2. CASE Loops
  BY <1>2, PortOpenedKeeps, RunStartsKeeps, RunCheckKeeps, UsbOpenKeeps, OtherLoopStepsKeep
     DEF Loops
<1>3. CASE PortFails
  BY <1>3, PortFailsKeeps
<1>4. ASSUME NEW l \in Links, Connection(l) PROVE IInv'
  BY <1>4, HearKeeps, DropKeeps, WorkKeeps, WriteFailsKeeps DEF Connection
<1>5. ASSUME NEW l \in Links, Device(l) PROVE IInv'
  BY <1>5, PressKeeps, RewakeKeeps, TakeKeeps, GiveUpKeeps DEF Device
<1>6. ASSUME NEW l \in Links, SecondError(l) PROVE IInv'
  BY <1>6, SecondErrorKeeps
<1>7. ASSUME NEW l \in Links, WriteRejects(l) PROVE IInv'
  BY <1>7, WriteRejectsKeeps
<1>8. ASSUME NEW l \in Links, NEW way \in Ways, Lost(l, way) PROVE IInv'
  BY <1>8, LostKeeps
<1>9. CASE UNCHANGED vars
  <2>1. UNCHANGED <<kind, server, run, conn, program, stream, dev, ended, baud, endpoints>>
    BY <1>9 DEF vars, sides
  <2> QED
    BY <2>1, ElsewhereKeeps DEF IInv, TypeOK, SocketClosed
<1> QED
  BY <1>1, <1>2, <1>3, <1>4, <1>5, <1>6, <1>7, <1>8, <1>9 DEF Next

THEOREM Invariance == Spec => []IInv
<1>1. Init => IInv
  BY InitIInv
<1>2. IInv /\ [Next]_vars => IInv'
  BY StepKeeps
<1> QED
  BY <1>1, <1>2, PTL DEF Spec

\* Every state is well typed, for any servers, sockets, requests and devices:
\* runPromise is pending exactly while a run loop runs, and the loop is in
\* onConnection() only with a connection that lives.
THEOREM TypeCorrect == Spec => []TypeOK
<1>1. IInv => TypeOK
  BY DEF IInv
<1> QED
  BY <1>1, Invariance, PTL

\* Once stop() has returned, whatever has gone wrong before, the run loop has
\* ended; where there is one no session lives, and in "tcp" none that still has
\* its socket.
THEOREM StopIsFinal == Spec => []StoppedIsQuiet
<1>1. IInv => StoppedIsQuiet
  <2> SUFFICES ASSUME IInv, program.at \in {"stopped", "returned"}
               PROVE  /\ run \in {"none", "exited"}
                      /\ \A l \in Links : Live(l) => kind = "tcp" /\ SocketClosed(l)
    BY DEF StoppedIsQuiet
  <2>1. run \in {"none", "exited"} /\ \A l \in Links : Live(l) => SocketClosed(l)
    BY DEF IInv, ReallyStopped
  <2>2. kind # "tcp" => Links = {1} /\ ~Live(1)
    BY <2>1 DEF Links, IInv, LoopInStep
  <2> QED
    BY <2>1, <2>2
<1> QED
  BY <1>1, Invariance, PTL

-----------------------------------------------------------------------------
(* The endpoints of a USB device.                                          *)

\* On a regular device that answers what its kind should, the initialisation
\* routine or, where that finds nothing, the descriptors give the HotSync ones.
LEMMA ConfigIsHotSync ==
    ASSUME NEW d, Regular(d), Failures(d) = 0
    PROVE  ConnectionConfig(d) = HotSyncEndpoints(d)
<1>1. ConnectionConfig(d) # None
  BY DEF Failures
<1>2. CASE d.initType = "GENERIC"
  <2>1. d.ext \/ (d.info /\ d.numBytes)
    BY <1>2 DEF Failures
  <2>2. CASE d.ext
    BY <1>2, <2>2 DEF Regular, ConnectionConfig, InitConfig, GenericConfig,
                      ConfigFromExtConnectionInfo
  <2>3. CASE ~d.ext /\ d.info /\ d.numBytes
    <3>1. ConfigFromConnectionInfo(d) = HotSyncEndpoints(d)
      BY <1>2, <2>3 DEF Regular, ConfigFromConnectionInfo
    <3>2. GenericConfig(d) = HotSyncEndpoints(d)
      BY <2>3, <3>1 DEF GenericConfig, ConfigFromExtConnectionInfo
    <3> QED
      BY <1>2, <3>2 DEF Regular, ConnectionConfig, InitConfig
  <2> QED
    BY <2>1, <2>2, <2>3
<1>3. CASE d.initType # "GENERIC"
  BY <1>1, <1>3 DEF Regular, ConnectionConfig, InitConfig
<1> QED
  BY <1>2, <1>3

\* Only opening a device finds endpoints, and a fault is never forgotten.
LEMMA EndpointsStay ==
    ASSUME [Next]_vars, ~UsbOpen
    PROVE  endpoints' = endpoints /\ (faults' = faults \/ faults' = faults + 1)
<1>1. CASE Program
  BY <1>1 DEF Program, Start, CallStop, StopReturns, bounds
<1>2. CASE Loops \/ PortFails
  BY <1>2 DEF Loops, PortFails, PortOpened, RunStarts, RunCheck, RunTimer, UsbWait,
              UsbClose, UsbGone, bounds
<1>3. ASSUME NEW l \in Links, Hear(l)
      PROVE  endpoints' = endpoints /\ (faults' = faults \/ faults' = faults + 1)
  <2>1. HandshakeDone(l) => faults' = faults \/ faults' = faults + 1
    BY DEF HandshakeDone
  <2>2. Handle(l, Head(up[l])) => faults' = faults \/ faults' = faults + 1
    BY <1>3, <2>1 DEF Handle, Hear, Waiting
  <2> QED
    BY <1>3, <2>2 DEF Hear
<1>4. ASSUME NEW l \in Links,
             Drop(l) \/ Work(l) \/ WriteFails(l) \/ SecondError(l) \/ WriteRejects(l)
      PROVE  endpoints' = endpoints /\ (faults' = faults \/ faults' = faults + 1)
  BY <1>4 DEF Drop, Work, WriteFails, SecondError, WriteRejects, bounds
<1>5. ASSUME NEW l \in Links, Press(l) \/ Rewake(l) \/ Take(l)
      PROVE  endpoints' = endpoints /\ (faults' = faults \/ faults' = faults + 1)
  BY <1>5 DEF Press, Rewake, Take, bounds
<1>6. ASSUME NEW l \in Links, GiveUp(l) \/ \E way \in Ways : Lost(l, way)
      PROVE  endpoints' = endpoints /\ (faults' = faults \/ faults' = faults + 1)
  BY <1>6 DEF GiveUp, Lost, Leaves
<1>7. CASE UNCHANGED vars
  BY <1>7 DEF vars, bounds
<1> QED
  BY <1>1, <1>2, <1>3, <1>4, <1>5, <1>6, <1>7 DEF Next, Connection, Device

\* Every device that may be plugged in is a regular one.
OnlyRegular == \A d \in UsbDevices : Regular(d)

\* The invariant: faults are counted.
FaultsCounted == RightEndpoints /\ faults \in Nat

\* Wrong endpoints take a fault: GetExtConnectionInfo, GetConnectionInfo and the
\* descriptors are tried in an order that never settles for the first port of a
\* device that has told, or could have told, which is its HotSync port.
THEOREM EndpointsAreRight ==
    OnlyRegular => (Spec => []RightEndpoints)
<1>1. Init => FaultsCounted
  BY DEF Init, FaultsCounted, RightEndpoints
<1>2. ASSUME OnlyRegular, FaultsCounted, [Next]_vars
      PROVE  FaultsCounted'
  <2>1. CASE ~UsbOpen
    BY <1>2, <2>1, EndpointsStay DEF FaultsCounted, RightEndpoints
  <2>2. CASE UsbOpen
    <3>1. CASE \E d \in UsbDevices :
                 /\ faults' = faults + Failures(d)
                 /\ \/ endpoints' = endpoints
                    \/ endpoints' = IF ConnectionConfig(d) = HotSyncEndpoints(d)
                                    THEN "right" ELSE "wrong"
      <4>1. PICK d \in UsbDevices :
                 /\ faults' = faults + Failures(d)
                 /\ \/ endpoints' = endpoints
                    \/ endpoints' = IF ConnectionConfig(d) = HotSyncEndpoints(d)
                                    THEN "right" ELSE "wrong"
        BY <3>1
      <4>2. Failures(d) \in {0, 1}
        BY DEF Failures
      <4>3. Failures(d) = 0 => ConnectionConfig(d) = HotSyncEndpoints(d)
        BY <1>2, ConfigIsHotSync DEF OnlyRegular
      <4> QED
        BY <1>2, <4>1, <4>2, <4>3 DEF FaultsCounted, RightEndpoints
    <3>2. CASE endpoints' = endpoints /\ (faults' = faults \/ faults' = faults + 1)
      BY <1>2, <3>2 DEF FaultsCounted, RightEndpoints
    <3> QED
      BY <2>2, <3>1, <3>2 DEF UsbOpen
  <2> QED
    BY <2>1, <2>2
<1>3. OnlyRegular /\ FaultsCounted /\ [Next]_vars => FaultsCounted'
  BY <1>2
<1>4. FaultsCounted => RightEndpoints
  BY DEF FaultsCounted
<1>5. CASE OnlyRegular
  BY <1>1, <1>3, <1>4, <1>5, PTL DEF Spec
<1> QED
  BY <1>5
=============================================================================

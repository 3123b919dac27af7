-------------------------------- MODULE Padp --------------------------------
(***************************************************************************)
(* PADP, the reliable message protocol of a serial HotSync:                *)
(* src/protocols/padp-protocol.ts on both ends of a link that keeps the    *)
(* order of SLP datagrams and may lose any of them.  The desktop ("pc")    *)
(* runs the code; the device ("palm") is modelled as the same algorithm    *)
(* and answers each request with a message of the request's transaction    *)
(* id, which is how DLP uses PADP.                                         *)
(*                                                                         *)
(* Lengths are counted in pieces of PADP_PACKET_DATA_SIZE bytes.  All data *)
(* bytes are taken to be equal, the worst case for recognising duplicates; *)
(* the field "part" says which piece of which message they stand for.      *)
(***************************************************************************)
EXTENDS Naturals, Sequences

CONSTANTS
    Pieces,       \* Pieces[p][k]: pieces in the k-th message of peer p
    MaxRetries,   \* PADP_MAX_RETRIES
    XidModulus,   \* 0xff
    WriteErrors,  \* TRUE: the transport may refuse a datagram
    None

Peers == {"pc", "palm"}

Other(p) == IF p = "pc" THEN "palm" ELSE "pc"

ASSUME PadpAssumption ==
    /\ Pieces \in [Peers -> Seq(Nat \ {0})]
    /\ Len(Pieces["pc"]) = Len(Pieces["palm"])
    /\ MaxRetries \in Nat \ {0}
    /\ XidModulus \in Nat /\ XidModulus > 2
    /\ WriteErrors \in BOOLEAN

Messages == 1 .. Len(Pieces["pc"])

Xids == 1 .. XidModulus - 1

Datagram ==
    [type : {"DATA", "ACK"}, xid : Xids, sizeOrOffset : Nat, first : BOOLEAN,
     last : BOOLEAN, part : (Nat \X Nat) \cup {None}]

AckListener == [xid : Xids, sizeOrOffset : Nat]

\* A message being assembled, and how many pieces are still to come.
Assembly == [data : Seq(Nat \X Nat), remaining : Nat]

\* None stands for null: it is none of the objects it takes the place of.
ASSUME NoneAssumption ==
    None \notin Datagram /\ None \notin AckListener /\ None \notin Assembly

\* The parts of the k-th message of peer p, as a receiver would assemble them.
Whole(p, k) == [i \in 1 .. Pieces[p][k] |-> <<k, i>>]

VARIABLES
    link,         \* link[p]: datagrams on their way to p
    writer,       \* the state of _write(): one message at a time
    ackListener,  \* what the waiting _write() accepts as an ACK
    nextXid,      \* desktop: the transaction id of the next message
    current,      \* currentMessage
    lastData,     \* lastProcessedPadpDataChunk
    inbox,        \* the messages pushed to the reader, in order
    confirmed,    \* how many writes called back without an error
    broken        \* "none", or the error an assertion of the code reported

vars == <<link, writer, ackListener, nextXid, current, lastData, inbox,
          confirmed, broken>>

-----------------------------------------------------------------------------
(* Datagrams.                                                              *)

\* sizeOrOffset: the size of the message in its first datagram, else the offset.
SizeOrOffset(p, k, i) == IF i = 1 THEN Pieces[p][k] ELSE i - 1

DataDatagram(p, w) ==
    [type |-> "DATA", xid |-> w.xid, sizeOrOffset |-> SizeOrOffset(p, w.msg, w.piece),
     first |-> w.piece = 1, last |-> w.piece = Pieces[p][w.msg],
     part |-> <<w.msg, w.piece>>]

\* createAckSlpDatagram()
AckDatagram(d) ==
    [type |-> "ACK", xid |-> d.xid, sizeOrOffset |-> d.sizeOrOffset,
     first |-> TRUE, last |-> TRUE, part |-> None]

\* Mutated form: duplicates are not recognised.
NeverSame(d, e) == FALSE

\* chunk.equals(lastProcessedPadpDataChunk): every byte but no more
SameBytes(d, e) ==
    e # None /\ [d EXCEPT !.part = None] = [e EXCEPT !.part = None]

\* Mutated form: the offset is not looked at.
SameXid(d, listener) == listener # None /\ d.xid = listener.xid

Acknowledges(d, listener) ==
    /\ listener # None
    /\ d.xid = listener.xid /\ d.sizeOrOffset = listener.sizeOrOffset

-----------------------------------------------------------------------------
(* _write(): pieces, tries, the wait for an ACK.                           *)

Idle == [state |-> "idle", msg |-> 0, piece |-> 0, try |-> 0, xid |-> 0]

Written(p) == writer[p].msg

\* Mutated form: "|| 1" is missing.
XidAfterModulo(x) == (x + 1) % XidModulus

\* getNextXid(): (nextXid + 1) % 0xff || 1
XidAfter(x) == LET y == (x + 1) % XidModulus IN IF y = 0 THEN 1 ELSE y

StartWrite(p, k, x) ==
    writer' = [writer EXCEPT ![p] =
                 [state |-> "send", msg |-> k, piece |-> 1, try |-> 1, xid |-> x]]

\* The desktop sends its next request when the reply to the one before is in
\* and the stream has taken the one before (a Duplex runs one _write at a time).
Request ==
    /\ writer["pc"].state = "idle"
    /\ Len(inbox["pc"]) = Written("pc") /\ Written("pc") + 1 \in Messages
    /\ StartWrite("pc", Written("pc") + 1, nextXid)
    /\ nextXid' = XidAfter(nextXid)
    /\ UNCHANGED <<link, ackListener, current, lastData, inbox, confirmed, broken>>

\* The device answers the requests in turn, each under its transaction id:
\* that of the datagram it received last.
Reply ==
    /\ writer["palm"].state = "idle"
    /\ Written("palm") < Len(inbox["palm"])
    /\ StartWrite("palm", Written("palm") + 1, lastData["palm"].xid)
    /\ UNCHANGED <<link, ackListener, nextXid, current, lastData, inbox, confirmed,
                   broken>>

Send(p) ==
    /\ writer[p].state = "send"
    /\ link' = [link EXCEPT ![Other(p)] = Append(@, DataDatagram(p, writer[p]))]
    /\ writer' = [writer EXCEPT ![p].state = "flushing"]
    /\ UNCHANGED <<ackListener, nextXid, current, lastData, inbox, confirmed, broken>>

\* Mutated forms: retries are not counted; the last error is forgotten.
RetryForever(p) == writer' = [writer EXCEPT ![p].state = "send"]

RetryOrPass(p) ==
    writer' = [writer EXCEPT ![p] =
                 IF writer[p].try < MaxRetries
                 THEN [writer[p] EXCEPT !.state = "send", !.try = @ + 1]
                 ELSE [writer[p] EXCEPT !.state = "acked"]]

\* The next try of the piece, or callback(error), which destroys the stream.
RetryOrFail(p) ==
    writer' = [writer EXCEPT ![p] =
                 IF writer[p].try < MaxRetries
                 THEN [writer[p] EXCEPT !.state = "send", !.try = @ + 1]
                 ELSE [writer[p] EXCEPT !.state = "failed"]]

SendError(p) ==
    /\ WriteErrors /\ writer[p].state = "send"
    /\ RetryOrFail(p)
    /\ UNCHANGED <<link, ackListener, nextXid, current, lastData, inbox, confirmed,
                   broken>>

\* The write has been flushed; only now is there a listener for its ACK.
Listen(p) ==
    /\ writer[p].state = "flushing"
    /\ IF ackListener[p] # None
       THEN /\ broken' = "concurrentWrites"
            /\ writer' = [writer EXCEPT ![p].state = "failed"]
            /\ UNCHANGED ackListener
       ELSE /\ ackListener' = [ackListener EXCEPT ![p] =
                  [xid |-> writer[p].xid,
                   sizeOrOffset |-> SizeOrOffset(p, writer[p].msg, writer[p].piece)]]
            /\ writer' = [writer EXCEPT ![p].state = "waiting"]
            /\ UNCHANGED broken
    /\ UNCHANGED <<link, nextXid, current, lastData, inbox, confirmed>>

\* Mutated form: the listener is left behind.
KeepListening(p) == UNCHANGED ackListener

StopListening(p) == ackListener' = [ackListener EXCEPT ![p] = None]

Timeout(p) ==
    /\ writer[p].state = "waiting"
    /\ StopListening(p)
    /\ RetryOrFail(p)
    /\ UNCHANGED <<link, nextXid, current, lastData, inbox, confirmed, broken>>

\* The promise was resolved: the loop goes on with the next piece, or ends.
Continue(p) ==
    /\ writer[p].state = "acked"
    /\ IF writer[p].piece < Pieces[p][writer[p].msg]
       THEN /\ writer' = [writer EXCEPT ![p].state = "send", ![p].piece = @ + 1,
                                        ![p].try = 1]
            /\ UNCHANGED confirmed
       ELSE /\ writer' = [writer EXCEPT ![p].state = "idle"]
            /\ confirmed' = [confirmed EXCEPT ![p] = @ + 1]
    /\ UNCHANGED <<link, ackListener, nextXid, current, lastData, inbox, broken>>

-----------------------------------------------------------------------------
(* onReceiveSlpDatagram()                                                  *)

Take(p) == link' = [link EXCEPT ![p] = Tail(@)]

Resolve(p) ==
    /\ StopListening(p)
    /\ writer' = [writer EXCEPT ![p].state = "acked"]

ReceiveAck(p) ==
    /\ link[p] # <<>> /\ Head(link[p]).type = "ACK"
    /\ Take(p)
    /\ IF Acknowledges(Head(link[p]), ackListener[p])
       THEN Resolve(p) ELSE UNCHANGED <<ackListener, writer>>
    /\ UNCHANGED <<nextXid, current, lastData, inbox, confirmed, broken>>

\* Every DATA datagram that is processed, or recognised as the one processed
\* last, is acknowledged.
TakeAndAck(p, d) ==
    /\ link' = [link EXCEPT ![p] = Tail(@), ![Other(p)] = Append(@, AckDatagram(d))]
    /\ lastData' = [lastData EXCEPT ![p] = d]

ReceiveDuplicate(p) ==
    /\ link[p] # <<>> /\ Head(link[p]).type = "DATA"
    /\ SameBytes(Head(link[p]), lastData[p])
    /\ TakeAndAck(p, Head(link[p]))
    /\ UNCHANGED <<writer, ackListener, nextXid, current, inbox, confirmed, broken>>

\* push(): a stream that a failed write has destroyed drops what is pushed,
\* but its datagrams are still acknowledged.
Push(p, message) ==
    inbox' = IF writer[p].state = "failed" THEN inbox
             ELSE [inbox EXCEPT ![p] = Append(@, message)]

\* The datagram does not continue the message being assembled.
OutOfSequence(d, c) ==
    IF c # None THEN d.first \/ d.sizeOrOffset # Len(c.data) ELSE ~d.first

ReceiveData(p) ==
    /\ link[p] # <<>> /\ Head(link[p]).type = "DATA"
    /\ ~SameBytes(Head(link[p]), lastData[p])
    /\ LET d == Head(link[p])
           c == current[p]
           started == IF c # None THEN c
                      ELSE [data |-> <<>>, remaining |-> d.sizeOrOffset]
           got == [data |-> Append(started.data, d.part),
                   remaining |-> started.remaining - 1]
       IN  /\ IF ackListener[p] # None /\ ackListener[p].xid = d.xid
              THEN Resolve(p) ELSE UNCHANGED <<ackListener, writer>>
           /\ IF OutOfSequence(d, c) \/ (got.remaining = 0 /\ ~d.last)
              THEN /\ broken' = "readError" /\ Take(p)
                   /\ current' = [current EXCEPT
                                    ![p] = IF OutOfSequence(d, c) THEN c ELSE got]
                   /\ UNCHANGED <<lastData, inbox>>
              ELSE /\ IF got.remaining = 0
                      THEN /\ Push(p, got.data)
                           /\ current' = [current EXCEPT ![p] = None]
                      ELSE /\ current' = [current EXCEPT ![p] = got]
                           /\ UNCHANGED inbox
                   /\ broken' = IF got.remaining > 0 /\ d.last
                                THEN "readError" ELSE broken
                   /\ TakeAndAck(p, d)
    /\ UNCHANGED <<nextXid, confirmed>>

\* SLP delivery is best effort.
Lose(p) ==
    /\ link[p] # <<>>
    /\ Take(p)
    /\ UNCHANGED <<writer, ackListener, nextXid, current, lastData, inbox, confirmed,
                   broken>>

-----------------------------------------------------------------------------

Init ==
    /\ link = [p \in Peers |-> <<>>]
    /\ writer = [p \in Peers |-> Idle]
    /\ ackListener = [p \in Peers |-> None]
    /\ nextXid = 1
    /\ current = [p \in Peers |-> None]
    /\ lastData = [p \in Peers |-> None]
    /\ inbox = [p \in Peers |-> <<>>]
    /\ confirmed = [p \in Peers |-> 0]
    /\ broken = "none"

WriterStep(p) == Send(p) \/ SendError(p) \/ Listen(p) \/ Timeout(p) \/ Continue(p)

ReaderStep(p) == ReceiveAck(p) \/ ReceiveDuplicate(p) \/ ReceiveData(p)

Next ==
    \/ Request \/ Reply
    \/ \E p \in Peers : WriterStep(p) \/ ReaderStep(p) \/ Lose(p)

\* Write callbacks, timers and resolved promises are served by the event loop.
Spec == Init /\ [][Next]_vars /\ \A p \in Peers : WF_vars(WriterStep(p))

-----------------------------------------------------------------------------
(* Properties.                                                             *)

Writer ==
    [state : {"idle", "send", "flushing", "waiting", "acked", "failed"},
     msg : Nat, piece : Nat, try : 0 .. MaxRetries, xid : Xids \cup {0}]

TypeOK ==
    /\ link \in [Peers -> Seq(Datagram)]
    /\ writer \in [Peers -> Writer]
    /\ ackListener \in [Peers -> AckListener \cup {None}]
    /\ nextXid \in Xids
    /\ current \in [Peers -> Assembly \cup {None}]
    /\ lastData \in [Peers -> Datagram \cup {None}]
    /\ inbox \in [Peers -> Seq(Seq(Nat \X Nat))]
    /\ confirmed \in [Peers -> Nat]
    /\ broken \in {"none", "readError", "concurrentWrites"}

Failed(p) == writer[p].state = "failed"

\* Messages reach the reader whole, in the order they were written, none
\* twice: no retry is taken for a new message.
InOrder ==
    \A p \in Peers : \A k \in DOMAIN inbox[p] : inbox[p][k] = Whole(Other(p), k)

\* An ACK, explicit or implied by the reply, is for the piece being written,
\* never a late one for an earlier piece: the other side has that piece.
AckMeansTaken ==
    \A p \in Peers : writer[p].state = "acked" =>
        \/ Len(inbox[Other(p)]) >= writer[p].msg
        \/ /\ current[Other(p)] # None
           /\ Len(current[Other(p)].data) >= writer[p].piece
           /\ current[Other(p)].data[writer[p].piece] = <<writer[p].msg, writer[p].piece>>
        \/ Failed(Other(p))

\* None of the errors onReceiveSlpDatagram and _write look for can occur
\* between two correct peers, however many datagrams are lost ("there should
\* never be multiple concurrent writes").
NoStreamErrors == broken = "none"

\* Every write is called back, whatever the link loses: retries are bounded.
EveryWriteEnds ==
    \A p \in Peers : writer[p].state # "idle" ~> writer[p].state \in {"idle", "failed"}

Channel == INSTANCE ReliableChannel WITH
             Message <- Whole,
             sent <- [p \in Peers |-> writer[p].msg],
             received <- [p \in Peers |-> inbox[Other(p)]],
             down <- {p \in Peers : Failed(p)}

\* Two PADP streams over a lossy link are a reliable channel.
ImplementsReliableChannel == Channel!Spec
=============================================================================

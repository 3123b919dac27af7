---------------------------- MODULE Padp_proofs ----------------------------
(***************************************************************************)
(* Theorems about Padp: for all message lengths, numbers of retries and    *)
(* transaction ids, messages arrive whole, in order and once, a write is   *)
(* never confirmed by an ACK for something else, no error of the stream    *)
(* can occur, and two streams over a lossy link are a reliable channel.    *)
(***************************************************************************)
EXTENDS Padp, SequenceTheorems, TLAPS

-----------------------------------------------------------------------------
(* The inductive invariant.                                                *)

\* What peer p is sending or has sent last, and the pieces of its message.
Sending(p) == DataDatagram(p, writer[p])
Size(p) == Pieces[p][writer[p].msg]

\* The other side has taken the piece p is sending.
Taken(p) == writer[p].msg > 0 /\ lastData[Other(p)] = Sending(p)

\* How many pieces of the message of p the other side has.
Got(p) == IF Taken(p) THEN writer[p].piece ELSE writer[p].piece - 1

\* The other side has taken the piece before it, or what it took last is of
\* another transaction than the first piece of the message of p.
Before(p) ==
    LET last == lastData[Other(p)]
    IN  IF writer[p].piece > 1
        THEN last = DataDatagram(p, [writer[p] EXCEPT !.piece = @ - 1])
        ELSE IF writer[p].msg = 1
        THEN last = None
        ELSE last # None /\ last.xid # writer[p].xid

Lacks(chan, type) == \A n \in 1 .. Len(chan) : chan[n].type # type

\* The data on its way is what was taken last, followed by what is being sent.
DataOK(chan, taken, sending) ==
    \A n \in 1 .. Len(chan) : chan[n].type = "DATA" =>
       /\ chan[n] \in {taken, sending}
       /\ chan[n] # taken =>
             \A m \in n .. Len(chan) : chan[m].type = "DATA" => chan[m] = sending

\* ACKs on their way under the transaction id x are for pieces taken.
AckOK(chan, x, offsets) ==
    \A n \in 1 .. Len(chan) :
       chan[n].type = "ACK" /\ chan[n].xid = x => chan[n].sizeOrOffset \in offsets

\* Behind data of transaction x, on its way or taken last, all ACKs are for y:
\* the link keeps the order, so older ones have come before it.
Fresh(chan, last, x, y) ==
    /\ \A m, n \in 1 .. Len(chan) :
          m < n /\ chan[m].type = "DATA" /\ chan[m].xid = x /\ chan[n].type = "ACK" =>
             chan[n].xid = y
    /\ last # None /\ last.xid = x =>
          \A n \in 1 .. Len(chan) : chan[n].type = "ACK" => chan[n].xid = y

Offsets(p) == {SizeOrOffset(p, writer[p].msg, i) : i \in 1 .. Got(p)}

\* Nothing has been written by p yet.
Unused(p) ==
    /\ writer[p] = Idle /\ confirmed[p] = 0 /\ ackListener[p] = None
    /\ lastData[Other(p)] = None /\ current[Other(p)] = None
    /\ inbox[Other(p)] = <<>>
    /\ Lacks(link[p], "ACK") /\ Lacks(link[Other(p)], "DATA")

Writing(p) ==
    /\ writer[p].msg \in 1 .. Len(Pieces[p]) /\ writer[p].piece \in 1 .. Size(p)
    /\ writer[p].xid \in Xids
    /\ writer[p].state \in {"idle", "acked"} => Taken(p)
    /\ writer[p].state = "idle" => writer[p].piece = Size(p)
    /\ ackListener[p] =
          IF writer[p].state = "waiting"
          THEN [xid |-> writer[p].xid,
                sizeOrOffset |-> SizeOrOffset(p, writer[p].msg, writer[p].piece)]
          ELSE None
    /\ confirmed[p] = IF writer[p].state = "idle" THEN writer[p].msg
                      ELSE writer[p].msg - 1

Reading(p) ==
    /\ current[Other(p)] =
          IF Got(p) \in {0, Size(p)} THEN None
          ELSE [data |-> [i \in 1 .. Got(p) |-> <<writer[p].msg, i>>],
                remaining |-> Size(p) - Got(p)]
    /\ ~Failed(Other(p)) =>
          Len(inbox[Other(p)]) = IF Got(p) = Size(p) THEN writer[p].msg
                                 ELSE writer[p].msg - 1
    /\ Len(inbox[Other(p)]) <= writer[p].msg

Links(p) ==
    /\ DataOK(link[Other(p)], lastData[Other(p)], Sending(p))
    /\ AckOK(link[p], writer[p].xid, Offsets(p))

\* The messages of p: what its writer, the link and the other reader hold.
Direction(p) ==
    Unused(p) \/ (Writing(p) /\ Reading(p) /\ (Taken(p) \/ Before(p)) /\ Links(p))

\* The whole of the last message of p has arrived.
Done(p) == writer[p].msg > 0 => Taken(p) /\ writer[p].piece = Size(p)

\* The device's turn: the request has arrived, the reply has its id ...
Replying ==
    /\ writer["palm"].msg = writer["pc"].msg /\ Done("pc")
    /\ writer["pc"].msg > 0 =>
          /\ writer["palm"].xid = writer["pc"].xid
          /\ Fresh(link["pc"], lastData["pc"], writer["pc"].xid, writer["pc"].xid)

\* ... or the desktop's: the last reply, under another id, has arrived.
Requesting ==
    /\ writer["pc"].msg = writer["palm"].msg + 1 /\ Done("palm")
    /\ writer["palm"].xid # writer["pc"].xid
    /\ Fresh(link["palm"], lastData["palm"], writer["pc"].xid, writer["palm"].xid)

IInv ==
    /\ TypeOK /\ NoStreamErrors /\ InOrder
    /\ nextXid # writer["pc"].xid
    /\ \A p \in Peers : Direction(p)
    /\ Replying \/ Requesting

-----------------------------------------------------------------------------
(* Transaction ids and datagrams.                                          *)

LEMMA Modulo ==
    ASSUME NEW m \in Nat, NEW n \in Nat, m > 0
    PROVE  (n < m => n % m = n) /\ (n = m => n % m = 0)
<1>1. n < m => n % m = n
  OBVIOUS
<1>2. m % m = 0
  OBVIOUS
<1> QED
  BY <1>1, <1>2

\* (nextXid + 1) % 0xff || 1 is a transaction id, and another one.
LEMMA XidAfterOK ==
    ASSUME NEW x \in Xids
    PROVE  XidAfter(x) \in Xids /\ XidAfter(x) # x
<1>0. x \in Nat /\ x + 1 \in Nat /\ XidModulus \in Nat /\ XidModulus > 2 /\ x + 1 <= XidModulus
      /\ Xids = 1 .. XidModulus - 1
  BY PadpAssumption DEF Xids
<1>1. CASE x + 1 < XidModulus
  <2>1. (x + 1) % XidModulus = x + 1
    BY <1>0, <1>1, Modulo
  <2> QED
    BY <1>0, <1>1, <2>1 DEF XidAfter
<1>2. CASE x + 1 = XidModulus
  <2>1. (x + 1) % XidModulus = 0
    BY <1>0, <1>2, Modulo
  <2> QED
    BY <1>0, <1>2, <2>1 DEF XidAfter
<1> QED
  BY <1>0, <1>1, <1>2

LEMMA PeersOK ==
    /\ "pc" \in Peers /\ "palm" \in Peers /\ Other("pc") = "palm" /\ Other("palm") = "pc"
    /\ \A p \in Peers : Other(p) \in Peers /\ Other(p) # p /\ Other(Other(p)) = p
BY DEF Peers, Other

LEMMA PiecesOK ==
    ASSUME NEW p \in Peers
    PROVE  /\ Len(Pieces[p]) \in Nat
           /\ \A k \in 1 .. Len(Pieces[p]) : Pieces[p][k] \in Nat \ {0}
BY PadpAssumption

\* The size of the message, and then the offset, tell its pieces apart.
LEMMA OffsetsDiffer ==
    ASSUME NEW p \in Peers, NEW k \in 1 .. Len(Pieces[p]),
           NEW i \in 1 .. Pieces[p][k], NEW j \in 1 .. Pieces[p][k]
    PROVE  /\ SizeOrOffset(p, k, i) \in Nat \ {0}
           /\ SizeOrOffset(p, k, i) = SizeOrOffset(p, k, j) => i = j
BY PiecesOK DEF SizeOrOffset

LEMMA DataDatagramOK ==
    ASSUME NEW p \in Peers, NEW w,
           w.msg \in 1 .. Len(Pieces[p]), w.piece \in 1 .. Pieces[p][w.msg], w.xid \in Xids
    PROVE  LET d == DataDatagram(p, w)
           IN  /\ d \in Datagram /\ d # None /\ d.type = "DATA" /\ d.xid = w.xid
               /\ d.sizeOrOffset = SizeOrOffset(p, w.msg, w.piece)
               /\ d.first = (w.piece = 1) /\ d.last = (w.piece = Pieces[p][w.msg])
               /\ d.part = <<w.msg, w.piece>>
<1>1. SizeOrOffset(p, w.msg, w.piece) \in Nat
  BY OffsetsDiffer
<1>2. w.msg \in Nat /\ w.piece \in Nat
  BY PiecesOK
<1>3. DataDatagram(p, w) \in Datagram
  BY <1>1, <1>2 DEF DataDatagram, Datagram
<1>4. DataDatagram(p, w) # None
  BY <1>3, NoneAssumption
<1> QED
  BY <1>3, <1>4 DEF DataDatagram

LEMMA AckDatagramOK ==
    ASSUME NEW d \in Datagram
    PROVE  /\ AckDatagram(d) \in Datagram /\ AckDatagram(d).type = "ACK"
           /\ AckDatagram(d).xid = d.xid /\ AckDatagram(d).sizeOrOffset = d.sizeOrOffset
BY DEF AckDatagram, Datagram

LEMMA SameFields ==
    ASSUME NEW d \in Datagram, NEW e \in Datagram \cup {None}
    PROVE  /\ SameBytes(d, e) =>
                 e # None /\ d.xid = e.xid /\ d.sizeOrOffset = e.sizeOrOffset
           /\ d = e => SameBytes(d, e)
<1>1. ASSUME SameBytes(d, e)
      PROVE  e # None /\ d.xid = e.xid /\ d.sizeOrOffset = e.sizeOrOffset
  <2>1. e \in Datagram /\ [d EXCEPT !.part = None] = [e EXCEPT !.part = None]
    BY <1>1 DEF SameBytes
  <2>2. /\ [d EXCEPT !.part = None].xid = d.xid /\ [e EXCEPT !.part = None].xid = e.xid
        /\ [d EXCEPT !.part = None].sizeOrOffset = d.sizeOrOffset
        /\ [e EXCEPT !.part = None].sizeOrOffset = e.sizeOrOffset
    BY <2>1 DEF Datagram
  <2> QED
    BY <1>1, <2>1, <2>2 DEF SameBytes
<1>2. d # None
  BY NoneAssumption
<1> QED
  BY <1>1, <1>2 DEF SameBytes

-----------------------------------------------------------------------------
(* What is said of the datagrams on their way, when one is taken or sent.  *)

Chan == Seq(Datagram)

LEMMA TailIs ==
    ASSUME NEW c \in Chan, c # <<>>
    PROVE  /\ Tail(c) \in Chan /\ Len(c) \in Nat \ {0} /\ Len(Tail(c)) = Len(c) - 1
           /\ Head(c) = c[1] /\ Head(c) \in Datagram
           /\ \A n \in 1 .. Len(Tail(c)) : n + 1 \in 1 .. Len(c) /\ Tail(c)[n] = c[n + 1]
BY DEF Chan

LEMMA AppendIs ==
    ASSUME NEW c \in Chan, NEW d \in Datagram
    PROVE  /\ Append(c, d) \in Chan /\ Len(c) \in Nat /\ Len(Append(c, d)) = Len(c) + 1
           /\ Append(c, d)[Len(c) + 1] = d
           /\ \A n \in 1 .. Len(c) : Append(c, d)[n] = c[n]
BY DEF Chan

LEMMA LacksKept ==
    ASSUME NEW c \in Chan, NEW type, Lacks(c, type)
    PROVE  /\ c # <<>> => Lacks(Tail(c), type) /\ Head(c).type # type
           /\ \A d \in Datagram : d.type # type => Lacks(Append(c, d), type)
<1>1. ASSUME c # <<>> PROVE Lacks(Tail(c), type) /\ Head(c).type # type
  BY <1>1, TailIs DEF Lacks
<1>2. ASSUME NEW d \in Datagram, d.type # type PROVE Lacks(Append(c, d), type)
  BY <1>2, AppendIs DEF Lacks
<1> QED
  BY <1>1, <1>2

LEMMA DataTail ==
    ASSUME NEW c \in Chan, NEW t, NEW s, DataOK(c, t, s), c # <<>>
    PROVE  /\ DataOK(Tail(c), t, s)
           /\ Head(c).type = "DATA" => Head(c) \in {t, s}
           /\ Head(c).type = "DATA" /\ Head(c) # t => DataOK(Tail(c), s, s)
<1>1. DataOK(Tail(c), t, s)
  <2> SUFFICES ASSUME NEW n \in 1 .. Len(Tail(c)), Tail(c)[n].type = "DATA"
               PROVE  /\ Tail(c)[n] \in {t, s}
                      /\ Tail(c)[n] # t =>
                            \A m \in n .. Len(Tail(c)) :
                               Tail(c)[m].type = "DATA" => Tail(c)[m] = s
    BY DEF DataOK
  <2>1. n + 1 \in 1 .. Len(c) /\ Tail(c)[n] = c[n + 1]
    BY TailIs
  <2>2. ASSUME Tail(c)[n] # t, NEW m \in n .. Len(Tail(c)), Tail(c)[m].type = "DATA"
        PROVE  Tail(c)[m] = s
    <3>1. m \in 1 .. Len(Tail(c)) /\ m + 1 \in (n + 1) .. Len(c)
      BY TailIs
    <3>2. Tail(c)[m] = c[m + 1]
      BY <3>1, TailIs
    <3> QED
      BY <2>1, <2>2, <3>1, <3>2 DEF DataOK
  <2> QED
    BY <2>1, <2>2 DEF DataOK
<1>2. Head(c).type = "DATA" => Head(c) \in {t, s}
  BY TailIs DEF DataOK
<1>3. ASSUME Head(c).type = "DATA", Head(c) # t PROVE DataOK(Tail(c), s, s)
  <2>1. \A m \in 1 .. Len(c) : c[m].type = "DATA" => c[m] = s
    BY <1>3, TailIs DEF DataOK
  <2> QED
    BY <2>1, TailIs DEF DataOK
<1> QED
  BY <1>1, <1>2, <1>3

LEMMA DataAppend ==
    ASSUME NEW c \in Chan, NEW t, NEW s, DataOK(c, t, s), NEW d \in Datagram,
           d.type = "DATA" => d = s
    PROVE  DataOK(Append(c, d), t, s)
<1> DEFINE a == Append(c, d)
<1> SUFFICES ASSUME NEW n \in 1 .. Len(a), a[n].type = "DATA"
             PROVE  /\ a[n] \in {t, s}
                    /\ a[n] # t => \A m \in n .. Len(a) : a[m].type = "DATA" => a[m] = s
  BY DEF DataOK
<1>1. Len(a) = Len(c) + 1 /\ Len(c) \in Nat /\ a[Len(c) + 1] = d
  BY AppendIs
<1>2. \A m \in 1 .. Len(c) : a[m] = c[m]
  BY AppendIs
<1>3. a[n] \in {t, s}
  BY <1>1, <1>2 DEF DataOK
<1>4. ASSUME a[n] # t, NEW m \in n .. Len(a), a[m].type = "DATA" PROVE a[m] = s
  <2>1. CASE m = Len(c) + 1
    BY <1>1, <1>4, <2>1
  <2>2. CASE m # Len(c) + 1
    <3>1. m \in n .. Len(c) /\ n \in 1 .. Len(c) /\ m \in 1 .. Len(c)
      BY <1>1, <2>2
    <3> QED
      BY <1>2, <1>4, <3>1 DEF DataOK
  <2> QED
    BY <2>1, <2>2
<1> QED
  BY <1>3, <1>4

\* Everything on its way has been taken: the next piece may be sent.
LEMMA DataAdvance ==
    ASSUME NEW c, NEW t, NEW s
    PROVE  DataOK(c, t, t) \/ Lacks(c, "DATA") => DataOK(c, t, s)
BY DEF DataOK, Lacks

LEMMA AckTail ==
    ASSUME NEW c \in Chan, NEW x, NEW o, AckOK(c, x, o), c # <<>>
    PROVE  /\ AckOK(Tail(c), x, o)
           /\ Head(c).type = "ACK" /\ Head(c).xid = x => Head(c).sizeOrOffset \in o
BY TailIs DEF AckOK

LEMMA AckAppend ==
    ASSUME NEW c \in Chan, NEW x, NEW o, NEW u, AckOK(c, x, o), o \subseteq u,
           NEW d \in Datagram, d.type = "ACK" /\ d.xid = x => d.sizeOrOffset \in u
    PROVE  AckOK(Append(c, d), x, u) /\ AckOK(c, x, u)
BY AppendIs DEF AckOK

LEMMA FreshTail ==
    ASSUME NEW c \in Chan, NEW last, NEW x, NEW y, Fresh(c, last, x, y), c # <<>>
    PROVE  /\ Fresh(Tail(c), last, x, y)
           /\ Head(c).type = "DATA" => Fresh(Tail(c), Head(c), x, y)
<1>1. ASSUME NEW m \in 1 .. Len(Tail(c)), NEW n \in 1 .. Len(Tail(c)),
             m < n, Tail(c)[m].type = "DATA", Tail(c)[m].xid = x, Tail(c)[n].type = "ACK"
      PROVE  Tail(c)[n].xid = y
  <2>1. /\ m + 1 \in 1 .. Len(c) /\ Tail(c)[m] = c[m + 1]
        /\ n + 1 \in 1 .. Len(c) /\ Tail(c)[n] = c[n + 1]
    BY TailIs
  <2>2. m + 1 < n + 1
    BY <1>1
  <2> QED
    BY <1>1, <2>1, <2>2 DEF Fresh
<1>2. ASSUME last # None, last.xid = x, NEW n \in 1 .. Len(Tail(c)), Tail(c)[n].type = "ACK"
      PROVE  Tail(c)[n].xid = y
  BY <1>2, TailIs DEF Fresh
<1>3. ASSUME Head(c).type = "DATA", Head(c).xid = x,
             NEW n \in 1 .. Len(Tail(c)), Tail(c)[n].type = "ACK"
      PROVE  Tail(c)[n].xid = y
  <2>1. n + 1 \in 1 .. Len(c) /\ Tail(c)[n] = c[n + 1] /\ Head(c) = c[1]
    BY TailIs
  <2>2. 1 \in 1 .. Len(c) /\ 1 < n + 1
    BY TailIs
  <2> QED
    BY <1>3, <2>1, <2>2 DEF Fresh
<1> QED
  BY <1>1, <1>2, <1>3 DEF Fresh

LEMMA FreshAppend ==
    ASSUME NEW c \in Chan, NEW last, NEW x, NEW y, Fresh(c, last, x, y),
           NEW d \in Datagram, d.type = "ACK" => d.xid = y
    PROVE  Fresh(Append(c, d), last, x, y)
<1> DEFINE a == Append(c, d)
<1>1. Len(a) = Len(c) + 1 /\ Len(c) \in Nat /\ a[Len(c) + 1] = d
  BY AppendIs
<1>2. \A m \in 1 .. Len(c) : a[m] = c[m]
  BY AppendIs
<1>3. ASSUME NEW m \in 1 .. Len(a), NEW n \in 1 .. Len(a),
             m < n, a[m].type = "DATA", a[m].xid = x, a[n].type = "ACK"
      PROVE  a[n].xid = y
  <2>1. CASE n = Len(c) + 1
    BY <1>1, <1>3, <2>1
  <2>2. CASE n # Len(c) + 1
    <3>1. n \in 1 .. Len(c) /\ m \in 1 .. Len(c)
      BY <1>1, <1>3, <2>2
    <3> QED
      BY <1>2, <1>3, <3>1 DEF Fresh
  <2> QED
    BY <2>1, <2>2
<1>4. ASSUME last # None, last.xid = x, NEW n \in 1 .. Len(a), a[n].type = "ACK"
      PROVE  a[n].xid = y
  BY <1>1, <1>2, <1>4 DEF Fresh
<1> QED
  BY <1>3, <1>4 DEF Fresh

\* What becomes of a channel when nothing is added to its data, or its ACKs.
KeepsData(c, e) ==
    /\ Lacks(c, "DATA") => Lacks(e, "DATA")
    /\ \A t, s : DataOK(c, t, s) => DataOK(e, t, s)

KeepsAcks(c, e) ==
    /\ Lacks(c, "ACK") => Lacks(e, "ACK")
    /\ \A x, o : AckOK(c, x, o) => AckOK(e, x, o)
    /\ \A last, x, y : Fresh(c, last, x, y) => Fresh(e, last, x, y)

LEMMA SameKeeps == ASSUME NEW c PROVE KeepsData(c, c) /\ KeepsAcks(c, c)
BY DEF KeepsData, KeepsAcks

LEMMA TailKeeps ==
    ASSUME NEW c \in Chan, c # <<>>
    PROVE  KeepsData(c, Tail(c)) /\ KeepsAcks(c, Tail(c))
<1>1. KeepsData(c, Tail(c))
  BY LacksKept, DataTail DEF KeepsData
<1>2. KeepsAcks(c, Tail(c))
  BY LacksKept, AckTail, FreshTail DEF KeepsAcks
<1> QED
  BY <1>1, <1>2

LEMMA AppendKeeps ==
    ASSUME NEW c \in Chan, NEW d \in Datagram
    PROVE  /\ d.type = "DATA" => KeepsAcks(c, Append(c, d))
           /\ d.type = "ACK" => KeepsData(c, Append(c, d))
<1>1. ASSUME d.type = "DATA" PROVE KeepsAcks(c, Append(c, d))
  <2>1. Lacks(c, "ACK") => Lacks(Append(c, d), "ACK")
    BY <1>1, LacksKept
  <2>2. ASSUME NEW x, NEW o, AckOK(c, x, o) PROVE AckOK(Append(c, d), x, o)
    BY <1>1, <2>2, AckAppend
  <2>3. ASSUME NEW last, NEW x, NEW y, Fresh(c, last, x, y)
        PROVE  Fresh(Append(c, d), last, x, y)
    BY <1>1, <2>3, FreshAppend
  <2> QED
    BY <2>1, <2>2, <2>3 DEF KeepsAcks
<1>2. ASSUME d.type = "ACK" PROVE KeepsData(c, Append(c, d))
  <2>1. Lacks(c, "DATA") => Lacks(Append(c, d), "DATA")
    BY <1>2, LacksKept
  <2>2. ASSUME NEW t, NEW s, DataOK(c, t, s) PROVE DataOK(Append(c, d), t, s)
    BY <1>2, <2>2, DataAppend
  <2> QED
    BY <2>1, <2>2 DEF KeepsData
<1> QED
  BY <1>1, <1>2

-----------------------------------------------------------------------------
(* What the invariant says of one direction.                               *)

LEMMA Typed ==
    ASSUME TypeOK, NEW p \in Peers
    PROVE  /\ link[p] \in Chan /\ writer[p] \in Writer
           /\ ackListener[p] \in AckListener \cup {None}
           /\ current[p] \in Assembly \cup {None}
           /\ lastData[p] \in Datagram \cup {None}
           /\ inbox[p] \in Seq(Seq(Nat \X Nat)) /\ confirmed[p] \in Nat
           /\ nextXid \in Xids
BY DEF TypeOK, Chan

LEMMA SendingOK ==
    ASSUME NEW p \in Peers, Writing(p)
    PROVE  /\ Size(p) \in Nat \ {0} /\ writer[p].msg \in Nat \ {0}
           /\ Sending(p) \in Datagram /\ Sending(p) # None /\ Sending(p).type = "DATA"
           /\ Sending(p).xid = writer[p].xid
           /\ Sending(p).sizeOrOffset = SizeOrOffset(p, writer[p].msg, writer[p].piece)
           /\ Sending(p).first = (writer[p].piece = 1)
           /\ Sending(p).last = (writer[p].piece = Size(p))
           /\ Sending(p).part = <<writer[p].msg, writer[p].piece>>
           /\ writer[p].piece \in Nat /\ Got(p) \in 0 .. Size(p)
           /\ Got(p) = Size(p) <=> Taken(p) /\ writer[p].piece = Size(p)
           /\ Taken(p) <=> lastData[Other(p)] = Sending(p)
<1>1. writer[p].msg \in 1 .. Len(Pieces[p]) /\ writer[p].piece \in 1 .. Pieces[p][writer[p].msg]
      /\ writer[p].xid \in Xids
  BY DEF Writing, Size
<1>2. Size(p) \in Nat \ {0} /\ writer[p].msg \in Nat \ {0} /\ writer[p].piece \in 1 .. Size(p)
  BY <1>1, PiecesOK DEF Size
<1>3. /\ Sending(p) \in Datagram /\ Sending(p) # None /\ Sending(p).type = "DATA"
      /\ Sending(p).xid = writer[p].xid
      /\ Sending(p).sizeOrOffset = SizeOrOffset(p, writer[p].msg, writer[p].piece)
      /\ Sending(p).first = (writer[p].piece = 1)
      /\ Sending(p).last = (writer[p].piece = Pieces[p][writer[p].msg])
      /\ Sending(p).part = <<writer[p].msg, writer[p].piece>>
  BY <1>1, DataDatagramOK DEF Sending
<1>4. Taken(p) <=> lastData[Other(p)] = Sending(p)
  BY <1>2 DEF Taken
<1>5. Got(p) \in 0 .. Size(p) /\ (Got(p) = Size(p) <=> Taken(p) /\ writer[p].piece = Size(p))
  BY <1>2 DEF Got
<1> QED
  BY <1>2, <1>3, <1>4, <1>5 DEF Size

LEMMA UnusedOr ==
    ASSUME NEW p \in Peers, Direction(p)
    PROVE  /\ Unused(p) <=> writer[p].msg = 0
           /\ ~Unused(p) => Writing(p) /\ Reading(p) /\ (Taken(p) \/ Before(p)) /\ Links(p)
<1>1. Unused(p) => writer[p].msg = 0
  BY DEF Unused, Idle
<1>2. Writing(p) => writer[p].msg # 0
  BY SendingOK
<1> QED
  BY <1>1, <1>2 DEF Direction

\* A piece that has not been taken does not look like the one taken last.
LEMMA NotSame ==
    ASSUME TypeOK, NEW p \in Peers, Writing(p), Before(p)
    PROVE  ~SameBytes(Sending(p), lastData[Other(p)]) /\ ~Taken(p)
<1> DEFINE last == lastData[Other(p)]
<1>1. Sending(p) \in Datagram /\ last \in Datagram \cup {None}
  BY SendingOK, Typed, PeersOK
<1>2. ~SameBytes(Sending(p), last)
  <2>1. CASE writer[p].piece > 1
    <3> DEFINE w == [writer[p] EXCEPT !.piece = @ - 1]
    <3>1. last = DataDatagram(p, w)
      BY <2>1 DEF Before
    <3>2. /\ w.piece = writer[p].piece - 1 /\ w.msg = writer[p].msg
          /\ w.xid = writer[p].xid
      BY Typed DEF Writer
    <3> HIDE DEF w
    <3>3. /\ writer[p].msg \in 1 .. Len(Pieces[p]) /\ writer[p].xid \in Xids
          /\ writer[p].piece \in 1 .. Pieces[p][writer[p].msg]
          /\ Pieces[p][writer[p].msg] \in Nat
      BY SendingOK DEF Writing, Size
    <3>4. /\ w.piece \in 1 .. Pieces[p][w.msg] /\ w.piece # writer[p].piece
          /\ last.sizeOrOffset = SizeOrOffset(p, w.msg, w.piece)
      BY <2>1, <3>1, <3>2, <3>3, DataDatagramOK
    <3>5. Sending(p).sizeOrOffset = SizeOrOffset(p, w.msg, writer[p].piece)
      BY <3>2, SendingOK
    <3>6. last.sizeOrOffset # Sending(p).sizeOrOffset
      BY <3>2, <3>3, <3>4, <3>5, OffsetsDiffer
    <3> QED
      BY <1>1, <3>6, SameFields
  <2>2. CASE ~(writer[p].piece > 1) /\ writer[p].msg = 1
    BY <1>1, <2>2, SameFields DEF Before
  <2>3. CASE ~(writer[p].piece > 1) /\ writer[p].msg # 1
    BY <1>1, <2>3, SameFields, SendingOK DEF Before
  <2> QED
    BY <2>1, <2>2, <2>3
<1>3. ~Taken(p)
  BY <1>1, <1>2, SameFields DEF Taken
<1> QED
  BY <1>2, <1>3

\* Data that arrives is what was taken last, or the piece the other side sends
\* and this side does not have.
LEMMA DataArrives ==
    ASSUME TypeOK, NEW p \in Peers, NEW q, q = Other(p), Direction(p),
           link[q] # <<>>, Head(link[q]).type = "DATA"
    PROVE  /\ ~Unused(p)
           /\ SameBytes(Head(link[q]), lastData[q]) =>
                 Head(link[q]) = lastData[q] /\ lastData[q] # None
           /\ ~SameBytes(Head(link[q]), lastData[q]) =>
                 /\ Head(link[q]) = Sending(p) /\ ~Taken(p) /\ Before(p)
                 /\ DataOK(Tail(link[q]), Sending(p), Sending(p))
<1> DEFINE d == Head(link[q])  last == lastData[q]
<1>1. link[q] \in Chan /\ d \in Datagram /\ last \in Datagram \cup {None}
  BY Typed, PeersOK, TailIs
<1>2. ~Unused(p)
  BY <1>1, LacksKept DEF Unused
<1>3. Writing(p) /\ (Taken(p) \/ Before(p)) /\ DataOK(link[q], last, Sending(p))
  BY <1>2, UnusedOr DEF Links
<1>4. d \in {last, Sending(p)} /\ (d # last => DataOK(Tail(link[q]), Sending(p), Sending(p)))
  BY <1>1, <1>3, DataTail
<1>5. Taken(p) <=> last = Sending(p)
  BY <1>3, SendingOK
<1>6. d = last => SameBytes(d, last) /\ last # None
  BY <1>1, SameFields, NoneAssumption
<1>7. d # last => d = Sending(p) /\ ~Taken(p) /\ Before(p) /\ ~SameBytes(d, last)
  BY <1>3, <1>4, <1>5, NotSame
<1> QED
  BY <1>2, <1>4, <1>6, <1>7

\* Data of a whole message that is on its way has all been taken.
LEMMA DoneData ==
    ASSUME NEW p \in Peers, Direction(p), writer[p].msg > 0, Taken(p)
    PROVE  \A n \in 1 .. Len(link[Other(p)]) :
              link[Other(p)][n].type = "DATA" =>
                 link[Other(p)][n] = Sending(p) /\ link[Other(p)][n].xid = writer[p].xid
<1>1. Writing(p) /\ Links(p)
  BY UnusedOr
<1>2. lastData[Other(p)] = Sending(p) /\ Sending(p).xid = writer[p].xid
  BY <1>1, SendingOK
<1> QED
  BY <1>1, <1>2 DEF Links, DataOK

-----------------------------------------------------------------------------
(* What a step does to one direction.                                      *)

LEMMA SamePiece ==
    ASSUME NEW p \in Peers, TypeOK, TypeOK',
           writer'[p].msg = writer[p].msg, writer'[p].piece = writer[p].piece,
           writer'[p].xid = writer[p].xid, lastData'[Other(p)] = lastData[Other(p)]
    PROVE  /\ Sending(p)' = Sending(p) /\ Size(p)' = Size(p) /\ (Taken(p)' <=> Taken(p))
           /\ Got(p)' = Got(p) /\ Offsets(p)' = Offsets(p) /\ (Before(p)' <=> Before(p))
           /\ (Done(p)' <=> Done(p))
<1>1. Sending(p)' = Sending(p) /\ Size(p)' = Size(p)
  BY DEF Sending, DataDatagram, Size
<1>2. Taken(p)' <=> Taken(p)
  BY <1>1 DEF Taken
<1>3. Got(p)' = Got(p)
  BY <1>2 DEF Got
<1>4. Offsets(p)' = Offsets(p)
  BY <1>3 DEF Offsets
<1>5. DataDatagram(p, [writer'[p] EXCEPT !.piece = @ - 1])
         = DataDatagram(p, [writer[p] EXCEPT !.piece = @ - 1])
  <2>1. writer[p] \in Writer /\ writer'[p] \in Writer
    BY DEF TypeOK
  <2> QED
    BY <2>1 DEF DataDatagram, Writer
<1>6. Before(p)' <=> Before(p)
  BY <1>5 DEF Before
<1>7. Done(p)' <=> Done(p)
  BY <1>1, <1>2 DEF Done
<1> QED
  BY <1>1, <1>2, <1>3, <1>4, <1>6, <1>7

\* The writer of p goes on with the piece it has; the other side stays.
LEMMA MoveDirection ==
    ASSUME NEW p \in Peers, TypeOK, TypeOK', Direction(p), ~Unused(p),
           writer'[p].msg = writer[p].msg, writer'[p].piece = writer[p].piece,
           writer'[p].xid = writer[p].xid,
           writer'[p].state \in {"idle", "acked"} => Taken(p),
           writer'[p].state = "idle" => writer[p].piece = Size(p),
           ackListener'[p] =
              IF writer'[p].state = "waiting"
              THEN [xid |-> writer[p].xid,
                    sizeOrOffset |-> SizeOrOffset(p, writer[p].msg, writer[p].piece)]
              ELSE None,
           confirmed'[p] = IF writer'[p].state = "idle" THEN writer[p].msg
                           ELSE writer[p].msg - 1,
           lastData'[Other(p)] = lastData[Other(p)], current'[Other(p)] = current[Other(p)],
           inbox'[Other(p)] = inbox[Other(p)], Failed(Other(p)) => Failed(Other(p))',
           DataOK(link'[Other(p)], lastData[Other(p)], Sending(p)),
           AckOK(link'[p], writer[p].xid, Offsets(p))
    PROVE  Direction(p)'
<1>1. Writing(p) /\ Reading(p) /\ (Taken(p) \/ Before(p))
  BY UnusedOr
<1>2. /\ Sending(p)' = Sending(p) /\ Size(p)' = Size(p) /\ (Taken(p)' <=> Taken(p))
      /\ Got(p)' = Got(p) /\ Offsets(p)' = Offsets(p) /\ (Before(p)' <=> Before(p))
  BY SamePiece
<1>3. Writing(p)'
  BY <1>1, <1>2 DEF Writing
<1>4. Reading(p)'
  BY <1>1, <1>2 DEF Reading
<1>5. Links(p)'
  BY <1>2 DEF Links
<1> QED
  BY <1>1, <1>2, <1>3, <1>4, <1>5 DEF Direction

\* Neither side of p does anything but take what is on its way.
LEMMA KeepDirection ==
    ASSUME NEW p \in Peers, TypeOK, TypeOK', Direction(p),
           writer'[p] = writer[p], ackListener'[p] = ackListener[p],
           confirmed'[p] = confirmed[p], lastData'[Other(p)] = lastData[Other(p)],
           current'[Other(p)] = current[Other(p)], inbox'[Other(p)] = inbox[Other(p)],
           Failed(Other(p)) => Failed(Other(p))',
           KeepsData(link[Other(p)], link'[Other(p)]), KeepsAcks(link[p], link'[p])
    PROVE  Direction(p)'
<1>1. CASE Unused(p)
  BY <1>1 DEF Direction, Unused, KeepsData, KeepsAcks
<1>2. CASE ~Unused(p)
  <2>1. Writing(p) /\ Links(p)
    BY <1>2, UnusedOr
  <2>2. /\ DataOK(link'[Other(p)], lastData[Other(p)], Sending(p))
        /\ AckOK(link'[p], writer[p].xid, Offsets(p))
    BY <2>1 DEF Links, KeepsData, KeepsAcks
  <2> QED
    BY <1>2, <2>1, <2>2, MoveDirection DEF Writing
<1> QED
  BY <1>1, <1>2

\* p starts its next message under an id that no ACK on its way has.
LEMMA NewMessage ==
    ASSUME NEW p \in Peers, TypeOK, TypeOK', Direction(p), writer[p].state = "idle",
           NEW x \in Xids, x # writer[p].xid,
           writer[p].msg + 1 \in 1 .. Len(Pieces[p]),
           StartWrite(p, writer[p].msg + 1, x),
           \A n \in 1 .. Len(link[p]) : link[p][n].type = "ACK" => link[p][n].xid # x,
           UNCHANGED <<link, ackListener, current, lastData, inbox, confirmed>>
    PROVE  Direction(p)' /\ ~Taken(p)'
<1> DEFINE q == Other(p)  k == writer[p].msg
<1>1. q \in Peers /\ q # p /\ p \in Peers
  BY PeersOK
<1>2. /\ writer'[p].msg = k + 1 /\ writer'[p].piece = 1 /\ writer'[p].xid = x
      /\ writer'[p].state = "send" /\ writer'[q] = writer[q] /\ k \in Nat
  BY <1>1 DEF StartWrite, TypeOK, Writer
<1>3. Size(p)' \in Nat \ {0}
  BY <1>2, PiecesOK DEF Size
<1>4. ackListener[p] = None /\ confirmed[p] = k /\ (k = 0 <=> Unused(p))
  <2>1. CASE Unused(p)
    BY <2>1, UnusedOr DEF Unused
  <2>2. CASE ~Unused(p)
    BY <2>2, UnusedOr DEF Writing
  <2> QED
    BY <2>1, <2>2
<1>5. Writing(p)'
  BY <1>2, <1>3, <1>4 DEF Writing
<1>6. Sending(p)' # None /\ Sending(p)'.xid = x
  <2>1. /\ writer'[p].msg \in 1 .. Len(Pieces[p])
        /\ writer'[p].piece \in 1 .. Pieces[p][writer'[p].msg] /\ writer'[p].xid \in Xids
    BY <1>2, <1>3 DEF Size
  <2>2. DataDatagram(p, writer'[p]) # None /\ DataDatagram(p, writer'[p]).xid = x
    BY <1>2, <2>1, DataDatagramOK
  <2>3. Sending(p)' = DataDatagram(p, writer'[p])
    BY DEF Sending, DataDatagram
  <2> QED
    BY <2>2, <2>3
<1>7. /\ current[q] = None /\ Len(inbox[q]) <= k /\ (~Failed(q) => Len(inbox[q]) = k)
      /\ DataOK(link[q], lastData[q], lastData[q]) \/ Lacks(link[q], "DATA")
      /\ IF k = 0 THEN lastData[q] = None
         ELSE lastData[q] # None /\ lastData[q].xid = writer[p].xid
  <2>1. CASE Unused(p)
    BY <1>2, <1>4, <2>1 DEF Unused
  <2>2. CASE ~Unused(p)
    <3>1. Writing(p) /\ Reading(p) /\ Links(p) /\ Taken(p) /\ writer[p].piece = Size(p)
      BY <2>2, UnusedOr DEF Writing
    <3>2. Got(p) = Size(p) /\ lastData[q] = Sending(p) /\ Sending(p) # None
          /\ Sending(p).xid = writer[p].xid
      BY <3>1, SendingOK
    <3> QED
      BY <1>4, <2>2, <3>1, <3>2 DEF Reading, Links
  <2> QED
    BY <2>1, <2>2
<1>8. ~Taken(p)' /\ Got(p)' = 0
  <2>1. lastData[q] # Sending(p)'
    BY <1>6, <1>7
  <2> QED
    BY <1>2, <2>1 DEF Taken, Got
<1>9. Reading(p)'
  <2>1. current'[q] = None /\ Got(p)' \in {0, Size(p)'} /\ Got(p)' # Size(p)'
    BY <1>3, <1>7, <1>8
  <2>2. Failed(q)' <=> Failed(q)
    BY <1>2 DEF Failed
  <2>3. Len(inbox'[q]) <= writer'[p].msg /\ (~Failed(q) => Len(inbox'[q]) = writer'[p].msg - 1)
    <3>1. inbox'[q] = inbox[q] /\ Len(inbox[q]) \in Nat
      BY <1>1, Typed
    <3> QED
      BY <1>2, <1>7, <3>1
  <2> QED
    BY <2>1, <2>2, <2>3 DEF Reading
<1>10. Before(p)'
  BY <1>2, <1>7 DEF Before
<1>11. Links(p)'
  <2>1. DataOK(link[q], lastData[q], Sending(p)')
    BY <1>7, DataAdvance
  <2>2. AckOK(link[p], x, Offsets(p)')
    BY DEF AckOK
  <2> QED
    BY <1>2, <2>1, <2>2 DEF Links
<1> QED
  BY <1>5, <1>8, <1>9, <1>10, <1>11 DEF Direction

-----------------------------------------------------------------------------
(* The initial state, and what the steps of the writer preserve.           *)

LEMMA InitIInv == Init => IInv
<1> SUFFICES ASSUME Init PROVE IInv
  OBVIOUS
<1>1. TypeOK
  <2>1. 1 \in Xids /\ 0 \in 0 .. MaxRetries
    BY PadpAssumption DEF Xids
  <2>2. Idle \in Writer
    BY <2>1 DEF Idle, Writer
  <2> QED
    BY <2>1, <2>2 DEF Init, TypeOK
<1>2. ASSUME NEW p \in Peers PROVE Direction(p)
  <2>1. Other(p) \in Peers
    BY PeersOK
  <2> QED
    BY <2>1 DEF Init, Direction, Unused, Lacks
<1>3. NoStreamErrors /\ InOrder /\ nextXid # writer["pc"].xid
  BY PeersOK DEF Init, NoStreamErrors, InOrder, Idle
<1>4. Replying
  BY PeersOK DEF Init, Replying, Done, Idle
<1> QED
  BY <1>1, <1>2, <1>3, <1>4 DEF IInv

LEMMA Busy ==
    ASSUME NEW p \in Peers, Direction(p), writer[p].state # "idle"
    PROVE  ~Unused(p)
BY DEF Unused, Idle

\* The pieces stay, and no ACK of an old transaction comes behind new data.
LEMMA KeepTurn ==
    ASSUME TypeOK, TypeOK', Replying \/ Requesting, lastData' = lastData,
           \A p \in Peers : /\ writer'[p].msg = writer[p].msg
                            /\ writer'[p].piece = writer[p].piece
                            /\ writer'[p].xid = writer[p].xid,
           Replying /\ writer["pc"].msg > 0 =>
              Fresh(link'["pc"], lastData["pc"], writer["pc"].xid, writer["pc"].xid),
           Requesting =>
              Fresh(link'["palm"], lastData["palm"], writer["pc"].xid, writer["palm"].xid)
    PROVE  (Replying \/ Requesting)'
<1>1. \A p \in Peers : Done(p)' <=> Done(p)
  BY SamePiece, PeersOK
<1>2. CASE Replying
  BY <1>1, <1>2, PeersOK DEF Replying
<1>3. CASE Requesting
  BY <1>1, <1>3, PeersOK DEF Requesting
<1> QED
  BY <1>2, <1>3

\* A step that leaves the readers alone and adds no ACK keeps the rest of the
\* invariant as well.
LEMMA WriterKeeps ==
    ASSUME IInv, TypeOK', NEW p \in Peers, Direction(p)',
           writer'[p].msg = writer[p].msg, writer'[p].piece = writer[p].piece,
           writer'[p].xid = writer[p].xid,
           writer'[Other(p)] = writer[Other(p)],
           ackListener'[Other(p)] = ackListener[Other(p)],
           confirmed'[Other(p)] = confirmed[Other(p)],
           Failed(p) => Failed(p)',
           UNCHANGED <<nextXid, current, lastData, inbox, broken>>,
           KeepsAcks(link["pc"], link'["pc"]), KeepsAcks(link["palm"], link'["palm"]),
           KeepsData(link[p], link'[p])
    PROVE  IInv'
<1> DEFINE q == Other(p)
<1>1. TypeOK /\ q \in Peers /\ Other(q) = p /\ Peers = {p, q}
  BY PeersOK DEF IInv, Peers
<1>2. Direction(q)'
  <2>1. KeepsAcks(link[q], link'[q])
    BY DEF Peers, Other
  <2>2. Direction(q)
    BY <1>1 DEF IInv
  <2> QED
    BY <1>1, <2>1, <2>2, KeepDirection
<1>3. NoStreamErrors' /\ InOrder'
  BY DEF IInv, NoStreamErrors, InOrder, Whole
<1>4. \A r \in Peers : /\ writer'[r].msg = writer[r].msg
                       /\ writer'[r].piece = writer[r].piece
                       /\ writer'[r].xid = writer[r].xid
  BY <1>1
<1>5. (Replying \/ Requesting)'
  BY <1>1, <1>4, KeepTurn DEF IInv, Replying, Requesting, KeepsAcks
<1>6. nextXid' # writer'["pc"].xid
  BY <1>4, PeersOK DEF IInv
<1> QED
  BY <1>1, <1>2, <1>3, <1>5, <1>6 DEF IInv

LEMMA SendKeeps ==
    ASSUME IInv, NEW p \in Peers, Send(p)
    PROVE  IInv'
<1> DEFINE q == Other(p)
<1>1. TypeOK /\ q \in Peers /\ q # p /\ Direction(p) /\ ~Unused(p) /\ Writing(p) /\ Links(p)
  BY PeersOK, Busy, UnusedOr DEF IInv, Send
<1>2. Sending(p) \in Datagram /\ Sending(p).type = "DATA"
  BY <1>1, SendingOK
<1>3. /\ writer' = [writer EXCEPT ![p].state = "flushing"]
      /\ link' = [link EXCEPT ![q] = Append(@, Sending(p))]
      /\ UNCHANGED <<ackListener, nextXid, current, lastData, inbox, confirmed, broken>>
      /\ writer[p].state = "send"
  BY DEF Send, Sending
<1>4. TypeOK'
  <2>1. writer' \in [Peers -> Writer]
    <3>1. writer \in [Peers -> Writer] /\ writer[p] \in Writer
      BY <1>1 DEF TypeOK
    <3>2. [writer[p] EXCEPT !.state = "flushing"] \in Writer
      BY <3>1 DEF Writer
    <3> QED
      BY <1>3, <3>1, <3>2
  <2>2. link' \in [Peers -> Seq(Datagram)]
    <3>1. link \in [Peers -> Seq(Datagram)] /\ link[q] \in Seq(Datagram)
      BY <1>1 DEF TypeOK
    <3>2. Append(link[q], Sending(p)) \in Seq(Datagram)
      BY <1>2, <3>1
    <3> QED
      BY <1>3, <3>1, <3>2
  <2> QED
    BY <1>1, <1>3, <2>1, <2>2 DEF TypeOK
<1>5. /\ writer'[p].msg = writer[p].msg /\ writer'[p].piece = writer[p].piece
      /\ writer'[p].xid = writer[p].xid /\ writer'[p].state = "flushing"
      /\ writer'[q] = writer[q]
  BY <1>1, <1>3 DEF TypeOK, Writer
<1>6. link'[p] = link[p] /\ link'[q] = Append(link[q], Sending(p)) /\ link[q] \in Chan
  BY <1>1, <1>3, Typed DEF TypeOK
<1>7. KeepsAcks(link[p], link'[p]) /\ KeepsAcks(link[q], link'[q]) /\ KeepsData(link[p], link'[p])
  BY <1>2, <1>6, AppendKeeps, SameKeeps
<1>8. Direction(p)'
  <2>1. /\ DataOK(link'[q], lastData[q], Sending(p))
        /\ AckOK(link'[p], writer[p].xid, Offsets(p))
    BY <1>1, <1>2, <1>6, DataAppend DEF Links
  <2>2. ackListener[p] = None /\ confirmed[p] = writer[p].msg - 1
    BY <1>1, <1>3 DEF Writing
  <2>3. Failed(q) => Failed(q)'
    BY <1>5 DEF Failed
  <2> QED
    BY <1>1, <1>3, <1>4, <1>5, <2>1, <2>2, <2>3, MoveDirection
<1>9. KeepsAcks(link["pc"], link'["pc"]) /\ KeepsAcks(link["palm"], link'["palm"])
  BY <1>7 DEF Peers, Other
<1>10. Failed(p) => Failed(p)'
  BY <1>3 DEF Failed
<1> QED
  BY <1>3, <1>4, <1>5, <1>7, <1>8, <1>9, <1>10, WriterKeeps

\* A step of the writer that sends nothing and stays with its piece.
LEMMA LocalKeeps ==
    ASSUME IInv, NEW p \in Peers, NEW w \in Writer, NEW l \in AckListener \cup {None},
           NEW c \in Nat,
           writer[p].state \notin {"idle", "failed"}, writer' = [writer EXCEPT ![p] = w],
           w.msg = writer[p].msg, w.piece = writer[p].piece, w.xid = writer[p].xid,
           ackListener' = [ackListener EXCEPT ![p] = l],
           confirmed' = [confirmed EXCEPT ![p] = c],
           UNCHANGED <<nextXid, current, lastData, inbox, broken>>,
           link' = link \/ (link[p] # <<>> /\ Take(p)),
           w.state \in {"idle", "acked"} => Taken(p),
           w.state = "idle" => w.piece = Size(p),
           l = IF w.state = "waiting"
               THEN [xid |-> w.xid, sizeOrOffset |-> SizeOrOffset(p, w.msg, w.piece)]
               ELSE None,
           c = IF w.state = "idle" THEN w.msg ELSE w.msg - 1
    PROVE  IInv'
<1> DEFINE q == Other(p)
<1>1. TypeOK /\ q \in Peers /\ q # p /\ Direction(p) /\ ~Unused(p) /\ Links(p)
  BY PeersOK, Busy, UnusedOr DEF IInv
<1>2. /\ link' \in [Peers -> Seq(Datagram)] /\ link'[q] = link[q]
      /\ link'[p] = link[p] \/ (link[p] # <<>> /\ link'[p] = Tail(link[p]))
      /\ link[p] \in Chan
  <2>1. link \in [Peers -> Seq(Datagram)] /\ link[p] \in Chan
    BY <1>1, Typed DEF TypeOK
  <2>2. CASE link' = link
    BY <2>1, <2>2
  <2>3. CASE link[p] # <<>> /\ Take(p)
    <3>1. Tail(link[p]) \in Seq(Datagram)
      BY <2>1, <2>3, TailIs DEF Chan
    <3> QED
      BY <1>1, <2>1, <2>3, <3>1 DEF Take
  <2> QED
    BY <2>2, <2>3
<1>3. TypeOK'
  BY <1>1, <1>2 DEF TypeOK
<1>4. writer'[p] = w /\ writer'[q] = writer[q] /\ ackListener'[p] = l
      /\ ackListener'[q] = ackListener[q] /\ confirmed'[p] = c /\ confirmed'[q] = confirmed[q]
  BY <1>1 DEF TypeOK
<1>5. KeepsAcks(link[p], link'[p]) /\ KeepsAcks(link[q], link'[q]) /\ KeepsData(link[p], link'[p])
  BY <1>2, TailKeeps, SameKeeps
<1>6. Failed(q) => Failed(q)'
  BY <1>4 DEF Failed
<1>7. /\ DataOK(link'[q], lastData[q], Sending(p))
      /\ AckOK(link'[p], writer[p].xid, Offsets(p))
  BY <1>1, <1>2, <1>5 DEF Links, KeepsAcks
<1>8. Direction(p)'
  BY <1>1, <1>3, <1>4, <1>6, <1>7, MoveDirection
<1>9. KeepsAcks(link["pc"], link'["pc"]) /\ KeepsAcks(link["palm"], link'["palm"])
  BY <1>5 DEF Peers, Other
<1>10. Failed(p) => Failed(p)'
  BY DEF Failed
<1> QED
  BY <1>3, <1>4, <1>5, <1>8, <1>9, <1>10, WriterKeeps

\* A try that failed is followed by the next or is the last.
LEMMA RetryKeeps ==
    ASSUME IInv, NEW p \in Peers, SendError(p) \/ Timeout(p)
    PROVE  IInv'
<1> DEFINE w == IF writer[p].try < MaxRetries
                THEN [writer[p] EXCEPT !.state = "send", !.try = @ + 1]
                ELSE [writer[p] EXCEPT !.state = "failed"]
<1>1. TypeOK /\ writer[p] \in Writer /\ Direction(p) /\ ~Unused(p) /\ Writing(p)
      /\ writer[p].state \in {"send", "waiting"} /\ RetryOrFail(p)
  BY Busy, UnusedOr, Typed DEF IInv, SendError, Timeout
<1>2. writer[p].try \in 0 .. MaxRetries /\ MaxRetries \in Nat
  BY <1>1, PadpAssumption DEF Writer
<1>3. /\ w \in Writer /\ w.msg = writer[p].msg /\ w.piece = writer[p].piece
      /\ w.xid = writer[p].xid /\ w.state \in {"send", "failed"}
  <2>1. CASE writer[p].try < MaxRetries
    <3>1. w = [writer[p] EXCEPT !.state = "send", !.try = @ + 1]
          /\ writer[p].try + 1 \in 0 .. MaxRetries
      BY <1>2, <2>1
    <3> QED
      BY <1>1, <3>1 DEF Writer
  <2>2. CASE ~(writer[p].try < MaxRetries)
    <3>1. w = [writer[p] EXCEPT !.state = "failed"]
      BY <2>2
    <3> QED
      BY <1>1, <3>1 DEF Writer
  <2> QED
    BY <2>1, <2>2
<1>4. writer' = [writer EXCEPT ![p] = w]
  BY <1>1 DEF RetryOrFail
<1> HIDE DEF w
<1>5. /\ ackListener' = [ackListener EXCEPT ![p] = None]
      /\ confirmed' = [confirmed EXCEPT ![p] = writer[p].msg - 1]
      /\ writer[p].msg - 1 \in Nat
      /\ UNCHANGED <<link, nextXid, current, lastData, inbox, broken>>
  <2>1. confirmed[p] = writer[p].msg - 1 /\ (writer[p].state = "send" => ackListener[p] = None)
    BY <1>1 DEF Writing
  <2>2. writer[p].state = "send" \/ ackListener' = [ackListener EXCEPT ![p] = None]
    BY DEF SendError, Timeout, StopListening
  <2>3. UNCHANGED <<link, nextXid, current, lastData, inbox, broken, confirmed>>
        /\ (SendError(p) => ackListener' = ackListener)
        /\ (Timeout(p) => ackListener' = [ackListener EXCEPT ![p] = None])
    BY DEF SendError, Timeout, StopListening
  <2>4. /\ ackListener[p] = None => [ackListener EXCEPT ![p] = None] = ackListener
        /\ [confirmed EXCEPT ![p] = confirmed[p]] = confirmed
    BY <1>1 DEF TypeOK
  <2>5. SendError(p) => writer[p].state = "send"
    BY DEF SendError
  <2>6. writer[p].msg - 1 \in Nat
    BY <1>1, SendingOK
  <2> QED
    BY <2>1, <2>2, <2>3, <2>4, <2>5, <2>6
<1> QED
  BY <1>1, <1>3, <1>4, <1>5, LocalKeeps

\* _write never finds a listener that another write has left.
LEMMA ListenKeeps ==
    ASSUME IInv, NEW p \in Peers, Listen(p)
    PROVE  IInv'
<1> DEFINE w == [writer[p] EXCEPT !.state = "waiting"]
           l == [xid |-> writer[p].xid,
                 sizeOrOffset |-> SizeOrOffset(p, writer[p].msg, writer[p].piece)]
<1>1. TypeOK /\ writer[p] \in Writer /\ Direction(p) /\ ~Unused(p) /\ Writing(p)
      /\ writer[p].state = "flushing"
  BY Busy, UnusedOr, Typed DEF IInv, Listen
<1>2. ackListener[p] = None /\ confirmed[p] = writer[p].msg - 1
  BY <1>1 DEF Writing
<1>3. /\ w \in Writer /\ w.msg = writer[p].msg /\ w.piece = writer[p].piece
      /\ w.xid = writer[p].xid /\ w.state = "waiting"
  BY <1>1 DEF Writer
<1>4. l \in AckListener
  <2>1. writer[p].xid \in Xids /\ SizeOrOffset(p, writer[p].msg, writer[p].piece) \in Nat
    BY <1>1, OffsetsDiffer DEF Writing, Size
  <2> QED
    BY <2>1 DEF AckListener
<1>5. /\ writer' = [writer EXCEPT ![p] = w]
      /\ ackListener' = [ackListener EXCEPT ![p] = l]
      /\ UNCHANGED <<link, nextXid, current, lastData, inbox, confirmed, broken>>
  BY <1>1, <1>2 DEF Listen, TypeOK
<1>6. confirmed' = [confirmed EXCEPT ![p] = writer[p].msg - 1] /\ writer[p].msg - 1 \in Nat
  BY <1>1, <1>2, <1>5, SendingOK DEF TypeOK
<1>7. l = [xid |-> w.xid, sizeOrOffset |-> SizeOrOffset(p, w.msg, w.piece)]
  BY <1>3
<1> HIDE DEF w, l
<1> QED
  BY <1>1, <1>3, <1>4, <1>5, <1>6, <1>7, LocalKeeps

\* A datagram is lost, or an ACK nobody waits for is dropped.
LEMMA DropKeeps ==
    ASSUME IInv, NEW p \in Peers, link[p] # <<>>, Take(p),
           UNCHANGED <<writer, ackListener, nextXid, current, lastData, inbox, confirmed, broken>>
    PROVE  IInv'
<1>1. TypeOK /\ Direction(p) /\ link[p] # <<>> /\ link[p] \in Chan /\ writer[p] \in Writer
      /\ Take(p) /\ Other(p) \in Peers /\ Other(p) # p
      /\ UNCHANGED <<writer, ackListener, nextXid, current, lastData, inbox, confirmed, broken>>
  BY Typed, PeersOK DEF IInv
<1>2. link'[p] = Tail(link[p]) /\ link'[Other(p)] = link[Other(p)]
      /\ link' \in [Peers -> Seq(Datagram)]
  BY <1>1, TailIs DEF Take, TypeOK, Chan
<1>3. TypeOK'
  BY <1>1, <1>2 DEF TypeOK
<1>4. /\ KeepsAcks(link[p], link'[p]) /\ KeepsData(link[p], link'[p])
      /\ KeepsAcks(link[Other(p)], link'[Other(p)])
      /\ KeepsData(link[Other(p)], link'[Other(p)])
  BY <1>1, <1>2, TailKeeps, SameKeeps
<1>5. (Failed(p)' <=> Failed(p)) /\ (Failed(Other(p))' <=> Failed(Other(p)))
  BY <1>1 DEF Failed
<1>6. Direction(p)'
  BY <1>1, <1>3, <1>4, <1>5, KeepDirection
<1>7. KeepsAcks(link["pc"], link'["pc"]) /\ KeepsAcks(link["palm"], link'["palm"])
  BY <1>4 DEF Peers, Other
<1> QED
  BY <1>1, <1>3, <1>4, <1>5, <1>6, <1>7, WriterKeeps

\* An ACK the listener accepts is for the piece being written, and taken.
LEMMA ReceiveAckKeeps ==
    ASSUME IInv, NEW p \in Peers, ReceiveAck(p)
    PROVE  IInv'
<1>1. TypeOK /\ Direction(p) /\ link[p] # <<>> /\ link[p] \in Chan /\ writer[p] \in Writer
      /\ Head(link[p]).type = "ACK" /\ Take(p) /\ Other(p) \in Peers /\ Other(p) # p
  BY Typed, PeersOK DEF IInv, ReceiveAck
<1>2. UNCHANGED <<nextXid, current, lastData, inbox, confirmed, broken>>
  BY DEF ReceiveAck
<1>3. CASE ~Acknowledges(Head(link[p]), ackListener[p])
  BY <1>1, <1>2, <1>3, DropKeeps DEF ReceiveAck
<1>4. CASE Acknowledges(Head(link[p]), ackListener[p])
  <2> DEFINE w == [writer[p] EXCEPT !.state = "acked"]
  <2>1. ~Unused(p) /\ ackListener[p] # None
        /\ Head(link[p]).xid = ackListener[p].xid
        /\ Head(link[p]).sizeOrOffset = ackListener[p].sizeOrOffset
    BY <1>4 DEF Acknowledges, Unused
  <2>2. Writing(p) /\ Links(p)
    BY <1>1, <2>1, UnusedOr
  <2>3. writer[p].state = "waiting" /\ confirmed[p] = writer[p].msg - 1
        /\ ackListener[p].xid = writer[p].xid
        /\ ackListener[p].sizeOrOffset = SizeOrOffset(p, writer[p].msg, writer[p].piece)
    BY <2>1, <2>2 DEF Writing
  <2>4. SizeOrOffset(p, writer[p].msg, writer[p].piece) \in Offsets(p)
    BY <1>1, <2>1, <2>2, <2>3, AckTail DEF Links
  <2>5. Taken(p)
    <3>1. PICK i \in 1 .. Got(p) : SizeOrOffset(p, writer[p].msg, writer[p].piece)
                                     = SizeOrOffset(p, writer[p].msg, i)
      BY <2>4 DEF Offsets
    <3>2. Got(p) \in 0 .. Size(p) /\ Size(p) \in Nat /\ writer[p].piece \in 1 .. Size(p)
          /\ writer[p].msg \in 1 .. Len(Pieces[p])
      BY <2>2, SendingOK DEF Writing
    <3>3. i \in 1 .. Size(p)
      BY <3>2
    <3>4. i = writer[p].piece
      BY <3>1, <3>2, <3>3, OffsetsDiffer DEF Size
    <3> QED
      BY <3>2, <3>4 DEF Got
  <2>6. /\ w \in Writer /\ w.msg = writer[p].msg /\ w.piece = writer[p].piece
        /\ w.xid = writer[p].xid /\ w.state = "acked"
    BY <1>1 DEF Writer
  <2>7. /\ writer' = [writer EXCEPT ![p] = w]
        /\ ackListener' = [ackListener EXCEPT ![p] = None]
    BY <1>1, <1>4 DEF ReceiveAck, Resolve, StopListening, TypeOK
  <2>8. confirmed' = [confirmed EXCEPT ![p] = writer[p].msg - 1] /\ writer[p].msg - 1 \in Nat
    BY <1>1, <1>2, <2>2, <2>3, SendingOK DEF TypeOK
  <2> HIDE DEF w
  <2> QED
    BY <1>1, <1>2, <2>3, <2>5, <2>6, <2>7, <2>8, LocalKeeps
<1> QED
  BY <1>3, <1>4

LEMMA ContinueKeeps ==
    ASSUME IInv, NEW p \in Peers, Continue(p)
    PROVE  IInv'
<1> DEFINE q == Other(p)
<1>1. TypeOK /\ writer[p] \in Writer /\ Direction(p) /\ ~Unused(p) /\ Writing(p)
      /\ Reading(p) /\ Links(p) /\ writer[p].state = "acked" /\ Taken(p)
      /\ q \in Peers /\ q # p
  BY Busy, UnusedOr, Typed, PeersOK DEF IInv, Continue, Writing
<1>2. UNCHANGED <<link, ackListener, nextXid, current, lastData, inbox, broken>>
      /\ ackListener[p] = None /\ confirmed[p] = writer[p].msg - 1
  BY <1>1 DEF Continue, Writing
<1>3. /\ Size(p) \in Nat \ {0} /\ writer[p].msg \in Nat \ {0}
      /\ writer[p].piece \in 1 .. Size(p) /\ Got(p) = writer[p].piece
      /\ lastData[q] = Sending(p)
  BY <1>1, SendingOK DEF Writing, Got
<1>4. CASE writer[p].piece = Size(p)
  <2> DEFINE w == [writer[p] EXCEPT !.state = "idle"]
  <2>1. /\ w \in Writer /\ w.msg = writer[p].msg /\ w.piece = writer[p].piece
        /\ w.xid = writer[p].xid /\ w.state = "idle"
    BY <1>1 DEF Writer
  <2>2. ~(writer[p].piece < Pieces[p][writer[p].msg])
    BY <1>3, <1>4 DEF Size
  <2>3. /\ writer' = [writer EXCEPT ![p] = w]
        /\ confirmed' = [confirmed EXCEPT ![p] = confirmed[p] + 1]
    BY <1>1, <2>2 DEF Continue, TypeOK
  <2>4. confirmed[p] + 1 = writer[p].msg
    BY <1>2, <1>3
  <2>5. ackListener' = [ackListener EXCEPT ![p] = None]
    BY <1>1, <1>2 DEF TypeOK
  <2> HIDE DEF w
  <2>6. confirmed' = [confirmed EXCEPT ![p] = writer[p].msg] /\ writer[p].msg \in Nat
    BY <1>3, <2>3, <2>4
  <2>7. /\ None = IF w.state = "waiting"
                  THEN [xid |-> w.xid, sizeOrOffset |-> SizeOrOffset(p, w.msg, w.piece)]
                  ELSE None
        /\ writer[p].msg = IF w.state = "idle" THEN w.msg ELSE w.msg - 1
    BY <2>1
  <2>8. writer[p].state \notin {"idle", "failed"} /\ w.piece = Size(p) /\ link' = link
    BY <1>1, <1>2, <1>4, <2>1
  <2>9. writer' = [writer EXCEPT ![p] = w]
    BY <2>3
  <2> QED
    BY <1>1, <1>2, <2>1, <2>5, <2>6, <2>7, <2>8, <2>9, LocalKeeps
<1>5. CASE writer[p].piece # Size(p)
  <2>1. writer[p].piece < Pieces[p][writer[p].msg]
    BY <1>3, <1>5 DEF Size
  <2>2. /\ writer' = [writer EXCEPT ![p].state = "send", ![p].piece = @ + 1, ![p].try = 1]
        /\ confirmed' = confirmed
    BY <2>1 DEF Continue
  <2>3. /\ writer'[p].msg = writer[p].msg /\ writer'[p].piece = writer[p].piece + 1
        /\ writer'[p].xid = writer[p].xid /\ writer'[p].state = "send"
        /\ writer'[q] = writer[q]
    BY <1>1, <2>2 DEF TypeOK, Writer
  <2>4. TypeOK'
    <3>1. 1 \in 0 .. MaxRetries
      BY PadpAssumption
    <3> DEFINE w == [writer[p] EXCEPT !.state = "send", !.piece = @ + 1, !.try = 1]
    <3>2. w \in Writer
      <4>1. writer[p].piece + 1 \in Nat
        BY <1>3
      <4> QED
        BY <1>1, <3>1, <4>1 DEF Writer
    <3>3. writer' = [writer EXCEPT ![p] = w]
      BY <1>1, <2>2 DEF TypeOK
    <3> HIDE DEF w
    <3>4. writer' \in [Peers -> Writer]
      BY <1>1, <3>2, <3>3 DEF TypeOK
    <3> QED
      BY <1>1, <1>2, <2>2, <3>4 DEF TypeOK
  <2>5. Size(p)' = Size(p) /\ writer'[p].piece \in 1 .. Size(p)
    BY <1>3, <1>5, <2>3 DEF Size
  <2>6. Writing(p)'
    BY <1>1, <1>2, <2>2, <2>3, <2>5 DEF Writing
  <2>7. ~Taken(p)' /\ Got(p)' = Got(p)
    <3>1. Sending(p)'.part = <<writer[p].msg, writer[p].piece + 1>>
      BY <2>3 DEF Sending, DataDatagram
    <3>2. Sending(p).part = <<writer[p].msg, writer[p].piece>>
      BY <1>1, SendingOK
    <3>3. Sending(p)' # lastData'[q]
      BY <1>2, <1>3, <3>1, <3>2
    <3>4. ~Taken(p)'
      BY <3>3 DEF Taken
    <3> QED
      BY <1>3, <2>3, <3>4 DEF Got
  <2>8. Reading(p)'
    <3>1. Failed(q)' <=> Failed(q)
      BY <2>3 DEF Failed
    <3> QED
      BY <1>1, <1>2, <2>3, <2>5, <2>7, <3>1 DEF Reading
  <2>9. Before(p)'
    <3>1. writer'[p] \in Writer /\ writer[p] \in Writer
      BY <1>1, <2>4 DEF TypeOK
    <3>2. DataDatagram(p, [writer'[p] EXCEPT !.piece = @ - 1]) = DataDatagram(p, writer[p])
      BY <1>3, <2>3, <3>1 DEF DataDatagram, Writer
    <3> QED
      BY <1>2, <1>3, <2>3, <3>2 DEF Before, Sending
  <2>10. Links(p)'
    <3>1. DataOK(link[q], lastData[q], Sending(p)')
      BY <1>1, <1>3, DataAdvance DEF Links
    <3>2. Offsets(p)' = Offsets(p)
      BY <2>3, <2>7 DEF Offsets
    <3> QED
      BY <1>1, <1>2, <2>3, <3>1, <3>2 DEF Links
  <2>11. Direction(p)'
    BY <2>6, <2>8, <2>9, <2>10 DEF Direction
  <2>12. Direction(q)'
    <3>1. Direction(q) /\ Other(q) = p
      BY <1>1, PeersOK DEF IInv
    <3>2. Failed(p) => Failed(p)'
      BY <1>1 DEF Failed
    <3> QED
      BY <1>1, <1>2, <2>2, <2>3, <2>4, <3>1, <3>2, KeepDirection, SameKeeps
  <2>13. \A r \in Peers : Direction(r)'
    BY <2>11, <2>12 DEF Peers, Other
  <2>14. NoStreamErrors' /\ InOrder'
    BY <1>2 DEF IInv, NoStreamErrors, InOrder, Whole
  <2>15. ~Done(p) /\ (Done(q)' <=> Done(q))
    <3>1. ~Done(p)
      BY <1>3, <1>5 DEF Done
    <3> QED
      BY <1>1, <1>2, <2>3, <2>4, <3>1, SamePiece
  <2>16. (Replying \/ Requesting)' /\ nextXid' # writer'["pc"].xid
    <3>1. CASE p = "pc"
      <4>1. Requesting
        BY <2>15, <3>1 DEF IInv, Replying
      <4>2. q = "palm"
        BY <3>1 DEF Other
      <4>3. Requesting'
        BY <1>2, <2>3, <2>15, <3>1, <4>1, <4>2 DEF Requesting
      <4> QED
        BY <1>2, <2>3, <3>1, <4>3 DEF IInv
    <3>2. CASE p = "palm"
      <4>1. Replying
        BY <2>15, <3>2 DEF IInv, Requesting
      <4>2. q = "pc"
        BY <3>2 DEF Other
      <4>3. Replying'
        BY <1>2, <2>3, <2>15, <3>2, <4>1, <4>2 DEF Replying
      <4> QED
        BY <1>2, <2>3, <3>2, <4>2, <4>3 DEF IInv
    <3> QED
      BY <3>1, <3>2 DEF Peers
  <2> QED
    BY <2>4, <2>13, <2>14, <2>16 DEF IInv
<1> QED
  BY <1>4, <1>5

-----------------------------------------------------------------------------
(* A new request, a new reply.                                             *)

\* The reply to the request before is in: the device has had its turn.
LEMMA RequestKeeps ==
    ASSUME IInv, Request
    PROVE  IInv' /\ nextXid # writer["pc"].xid
<1> DEFINE k == writer["pc"].msg  j == writer["palm"].msg  x == writer["pc"].xid
<1>1. /\ TypeOK /\ Direction("pc") /\ Direction("palm") /\ writer["pc"].state = "idle"
      /\ Len(inbox["pc"]) = k /\ k + 1 \in Messages /\ StartWrite("pc", k + 1, nextXid)
      /\ nextXid' = XidAfter(nextXid)
      /\ UNCHANGED <<link, ackListener, current, lastData, inbox, confirmed, broken>>
  BY PeersOK DEF IInv, Request, Written
<1>2. nextXid \in Xids /\ nextXid # x /\ writer["pc"] \in Writer /\ writer["palm"] \in Writer
      /\ link["pc"] \in Chan /\ link["palm"] \in Chan /\ k \in Nat /\ j \in Nat
  BY <1>1, Typed, PeersOK DEF IInv, Writer
<1>3. Replying
  <2>1. Len(inbox["pc"]) <= j
    <3>1. CASE Unused("palm")
      BY <1>2, <3>1, PeersOK DEF Unused
    <3>2. CASE ~Unused("palm")
      BY <1>1, <3>2, UnusedOr, PeersOK DEF Reading
    <3> QED
      BY <3>1, <3>2
  <2>2. ~(k = j + 1)
    BY <1>1, <1>2, <2>1
  <2> QED
    BY <2>2 DEF IInv, Requesting
<1>4. j = k /\ (k > 0 => Taken("pc") /\ writer["palm"].xid = x /\ Fresh(link["pc"], lastData["pc"], x, x))
  BY <1>3 DEF Replying, Done
<1>5. Done("palm")
  <2> SUFFICES ASSUME j > 0 PROVE Taken("palm") /\ writer["palm"].piece = Size("palm")
    BY DEF Done
  <2>1. Writing("palm") /\ Reading("palm")
    BY <1>1, UnusedOr, PeersOK
  <2>2. ~Failed("pc")
    BY <1>1 DEF Failed
  <2>3. Got("palm") = Size("palm")
    BY <1>1, <1>2, <1>4, <2>1, <2>2, PeersOK DEF Reading
  <2> QED
    BY <2>1, <2>3, SendingOK, PeersOK
<1>6. \A n \in 1 .. Len(link["pc"]) :
         link["pc"][n].type = "ACK" => link["pc"][n].xid # nextXid
  <2>1. CASE k = 0
    BY <1>1, <2>1, UnusedOr, PeersOK DEF Unused, Lacks
  <2>2. CASE k > 0
    <3>1. Writing("palm") /\ Taken("palm")
      BY <1>1, <1>4, <1>5, <2>2, UnusedOr, PeersOK DEF Done
    <3>2. lastData["pc"] # None /\ lastData["pc"].xid = x
      BY <1>4, <2>2, <3>1, SendingOK, PeersOK
    <3> QED
      BY <1>2, <1>4, <2>2, <3>2 DEF Fresh
  <2> QED
    BY <1>2, <2>1, <2>2
<1>7. TypeOK'
  <2>1. 1 \in 0 .. MaxRetries
    BY PadpAssumption
  <2> DEFINE w == [state |-> "send", msg |-> k + 1, piece |-> 1, try |-> 1, xid |-> nextXid]
  <2>2. w \in Writer
    BY <1>1, <1>2, <2>1 DEF Writer
  <2>3. writer' = [writer EXCEPT !["pc"] = w]
    BY <1>1 DEF StartWrite
  <2> HIDE DEF w
  <2>4. writer' \in [Peers -> Writer]
    BY <1>1, <2>2, <2>3, PeersOK DEF TypeOK
  <2>5. nextXid' \in Xids
    BY <1>1, <1>2, XidAfterOK
  <2> QED
    BY <1>1, <2>4, <2>5 DEF TypeOK
<1>8. k + 1 \in 1 .. Len(Pieces["pc"])
  BY <1>1 DEF Messages
<1>9. Direction("pc")' /\ ~Taken("pc")'
  BY <1>1, <1>2, <1>6, <1>7, <1>8, NewMessage, PeersOK
<1>10. /\ writer'["palm"] = writer["palm"] /\ writer'["pc"].msg = k + 1
       /\ writer'["pc"].xid = nextXid
  BY <1>1, PeersOK DEF StartWrite, TypeOK
<1>11. Direction("palm")'
  <2>1. ~Failed("pc")
    BY <1>1 DEF Failed
  <2> QED
    BY <1>1, <1>7, <1>10, <2>1, KeepDirection, SameKeeps, PeersOK
<1>12. Requesting'
  <2>1. Done("palm")'
    BY <1>1, <1>5, <1>7, <1>10, SamePiece, PeersOK
  <2>2. writer["palm"].xid # nextXid
    <3>1. CASE k = 0
      BY <1>1, <1>2, <1>4, <3>1, UnusedOr, PeersOK DEF Unused, Idle, Xids
    <3>2. CASE k > 0
      BY <1>2, <1>4, <3>2
    <3> QED
      BY <1>2, <3>1, <3>2
  <2>3. Fresh(link["palm"], lastData["palm"], nextXid, writer["palm"].xid)
    <3>1. CASE k = 0
      BY <1>1, <3>1, UnusedOr, PeersOK DEF Unused, Lacks, Fresh
    <3>2. CASE k > 0
      <4>1. Writing("pc")
        BY <1>1, <3>2, UnusedOr, PeersOK
      <4>2. lastData["palm"] # None /\ lastData["palm"].xid = x
        BY <1>4, <3>2, <4>1, SendingOK, PeersOK
      <4>3. \A n \in 1 .. Len(link["palm"]) :
               link["palm"][n].type = "DATA" => link["palm"][n].xid = x
        BY <1>1, <1>4, <3>2, DoneData, PeersOK
      <4> QED
        BY <1>2, <4>2, <4>3 DEF Fresh
    <3> QED
      BY <1>2, <3>1, <3>2
  <2> QED
    BY <1>1, <1>4, <1>10, <2>1, <2>2, <2>3 DEF Requesting
<1>13. NoStreamErrors' /\ InOrder'
  BY <1>1 DEF IInv, NoStreamErrors, InOrder, Whole
<1>14. nextXid' # writer'["pc"].xid
  BY <1>1, <1>2, <1>10, XidAfterOK
<1> QED
  BY <1>2, <1>7, <1>9, <1>11, <1>12, <1>13, <1>14 DEF IInv, Peers

\* The device answers the request it has just received whole.
LEMMA ReplyKeeps ==
    ASSUME IInv, Reply
    PROVE  IInv'
<1> DEFINE k == writer["pc"].msg  j == writer["palm"].msg  x == writer["pc"].xid
           y == writer["palm"].xid
<1>1. /\ TypeOK /\ Direction("pc") /\ Direction("palm") /\ writer["palm"].state = "idle"
      /\ j < Len(inbox["palm"]) /\ StartWrite("palm", j + 1, lastData["palm"].xid)
      /\ UNCHANGED <<link, ackListener, nextXid, current, lastData, inbox, confirmed, broken>>
  BY PeersOK DEF IInv, Reply, Written
<1>2. /\ writer["pc"] \in Writer /\ writer["palm"] \in Writer
      /\ link["pc"] \in Chan /\ link["palm"] \in Chan /\ k \in Nat /\ j \in Nat
      /\ Len(inbox["palm"]) \in Nat
  BY <1>1, Typed, PeersOK DEF Writer
<1>3. ~Unused("pc") /\ Writing("pc") /\ Reading("pc")
  <2>1. ~Unused("pc")
    BY <1>1, <1>2, PeersOK DEF Unused
  <2> QED
    BY <1>1, <2>1, UnusedOr, PeersOK
<1>4. Requesting /\ k = j + 1
  <2>1. Len(inbox["palm"]) <= k
    BY <1>3, PeersOK DEF Reading
  <2> QED
    BY <1>1, <1>2, <2>1 DEF IInv, Replying, Requesting
<1>5. Done("pc") /\ Taken("pc") /\ writer["pc"].piece = Size("pc")
  <2>1. ~Failed("palm")
    BY <1>1 DEF Failed
  <2>2. Got("pc") = Size("pc")
    BY <1>1, <1>2, <1>3, <1>4, <2>1, PeersOK DEF Reading
  <2> QED
    BY <1>3, <2>2, SendingOK, PeersOK DEF Done
<1>6. lastData["palm"] # None /\ lastData["palm"].xid = x /\ x \in Xids /\ y # x
  BY <1>3, <1>4, <1>5, SendingOK, PeersOK DEF Writing, Requesting
<1>7. \A n \in 1 .. Len(link["palm"]) :
         link["palm"][n].type = "ACK" => link["palm"][n].xid # x
  BY <1>4, <1>6 DEF Requesting, Fresh
<1>8. TypeOK'
  <2>1. 1 \in 0 .. MaxRetries
    BY PadpAssumption
  <2> DEFINE w == [state |-> "send", msg |-> j + 1, piece |-> 1, try |-> 1, xid |-> lastData["palm"].xid]
  <2>2. w \in Writer
    BY <1>1, <1>2, <1>6, <2>1 DEF Writer
  <2>3. writer' = [writer EXCEPT !["palm"] = w]
    BY <1>1 DEF StartWrite
  <2> HIDE DEF w
  <2>4. writer' \in [Peers -> Writer]
    BY <1>1, <2>2, <2>3, PeersOK DEF TypeOK
  <2> QED
    BY <1>1, <2>4 DEF TypeOK
<1>9. j + 1 \in 1 .. Len(Pieces["palm"])
  BY <1>2, <1>3, <1>4, PadpAssumption DEF Writing
<1>10. Direction("palm")'
  BY <1>1, <1>6, <1>7, <1>8, <1>9, NewMessage, PeersOK
<1>11. /\ writer'["pc"] = writer["pc"] /\ writer'["palm"].msg = j + 1
       /\ writer'["palm"].xid = x
  BY <1>1, <1>6, PeersOK DEF StartWrite, TypeOK
<1>12. Direction("pc")'
  <2>1. ~Failed("palm")
    BY <1>1 DEF Failed
  <2> QED
    BY <1>1, <1>8, <1>11, <2>1, KeepDirection, SameKeeps, PeersOK
<1>13. Replying'
  <2>1. Done("pc")'
    BY <1>1, <1>5, <1>8, <1>11, SamePiece, PeersOK
  <2>2. Fresh(link["pc"], lastData["pc"], x, x)
    <3>1. CASE j = 0
      BY <1>1, <3>1, UnusedOr, PeersOK DEF Unused, Lacks, Fresh
    <3>2. CASE j > 0
      <4>1. Writing("palm") /\ Taken("palm")
        BY <1>1, <1>4, <3>2, UnusedOr, PeersOK DEF Requesting, Done
      <4>2. lastData["pc"] # None /\ lastData["pc"].xid = y
        BY <4>1, SendingOK, PeersOK
      <4>3. \A n \in 1 .. Len(link["pc"]) :
               link["pc"][n].type = "DATA" => link["pc"][n].xid = y
        BY <1>1, <3>2, <4>1, DoneData, PeersOK
      <4> QED
        BY <1>6, <4>2, <4>3 DEF Fresh
    <3> QED
      BY <1>2, <3>1, <3>2
  <2> QED
    BY <1>1, <1>4, <1>11, <2>1, <2>2 DEF Replying
<1>14. NoStreamErrors' /\ InOrder'
  BY <1>1 DEF IInv, NoStreamErrors, InOrder, Whole
<1>15. nextXid' # writer'["pc"].xid
  BY <1>1, <1>11 DEF IInv
<1> QED
  BY <1>8, <1>10, <1>12, <1>13, <1>14, <1>15 DEF IInv, Peers

-----------------------------------------------------------------------------
(* Data that arrives.                                                      *)

\* What was taken last may be acknowledged again.
LEMMA LastOffset ==
    ASSUME TypeOK, NEW p \in Peers, Writing(p), Taken(p) \/ Before(p),
           lastData[Other(p)] # None, lastData[Other(p)].xid = writer[p].xid
    PROVE  lastData[Other(p)].sizeOrOffset \in Offsets(p)
<1> DEFINE last == lastData[Other(p)]  k == writer[p].msg  n == writer[p].piece
<1>1. /\ k \in 1 .. Len(Pieces[p]) /\ n \in 1 .. Size(p) /\ Size(p) = Pieces[p][k]
      /\ writer[p].xid \in Xids /\ Size(p) \in Nat \ {0} /\ n \in Nat
      /\ writer[p] \in Writer
  BY SendingOK, Typed DEF Writing, Size
<1>2. CASE Taken(p)
  <2>1. last.sizeOrOffset = SizeOrOffset(p, k, n) /\ Got(p) = n
    BY <1>2, SendingOK DEF Got
  <2>2. n \in 1 .. Got(p)
    BY <1>1, <2>1
  <2> QED
    BY <2>1, <2>2 DEF Offsets
<1>3. CASE ~Taken(p)
  <2>1. n > 1
    BY <1>3 DEF Before
  <2> DEFINE w == [writer[p] EXCEPT !.piece = @ - 1]
  <2>2. last = DataDatagram(p, w) /\ w.msg = k /\ w.piece = n - 1 /\ w.xid = writer[p].xid
    BY <1>1, <1>3, <2>1 DEF Before, Writer
  <2> HIDE DEF w
  <2>3. last.sizeOrOffset = SizeOrOffset(p, k, n - 1)
    BY <2>2 DEF DataDatagram
  <2>4. n - 1 \in 1 .. Got(p)
    BY <1>1, <1>3, <2>1 DEF Got
  <2> QED
    BY <2>3, <2>4 DEF Offsets
<1> QED
  BY <1>2, <1>3

\* Taking a datagram of data and sending its ACK.
LEMMA TakeAndAckIs ==
    ASSUME TypeOK, NEW p \in Peers, NEW q, q = Other(p), link[p] # <<>>,
           Head(link[p]).type = "DATA", TakeAndAck(p, Head(link[p]))
    PROVE  LET d == Head(link[p])
           IN  /\ d \in Datagram /\ AckDatagram(d) \in Datagram
               /\ link' \in [Peers -> Seq(Datagram)]
               /\ lastData' \in [Peers -> Datagram \cup {None}]
               /\ link'[p] = Tail(link[p]) /\ link'[q] = Append(link[q], AckDatagram(d))
               /\ lastData' = [lastData EXCEPT ![p] = d]
               /\ lastData'[p] = d /\ lastData'[q] = lastData[q]
               /\ KeepsData(link[p], link'[p]) /\ KeepsAcks(link[p], link'[p])
               /\ KeepsData(link[q], link'[q])
<1> DEFINE d == Head(link[p])
<1>1. link[p] \in Chan /\ link[q] \in Chan /\ q \in Peers /\ q # p
  BY Typed, PeersOK
<1>2. d \in Datagram /\ AckDatagram(d) \in Datagram /\ AckDatagram(d).type = "ACK"
      /\ Tail(link[p]) \in Chan /\ Append(link[q], AckDatagram(d)) \in Chan
  BY <1>1, TailIs, AppendIs, AckDatagramOK
<1>3. /\ link' = [link EXCEPT ![p] = Tail(link[p]), ![q] = Append(link[q], AckDatagram(d))]
      /\ lastData' = [lastData EXCEPT ![p] = d]
  BY <1>1 DEF TakeAndAck, TypeOK
<1>4. /\ link' \in [Peers -> Seq(Datagram)]
      /\ link'[p] = Tail(link[p]) /\ link'[q] = Append(link[q], AckDatagram(d))
  BY <1>1, <1>2, <1>3 DEF TypeOK, Chan
<1>5. /\ lastData' \in [Peers -> Datagram \cup {None}]
      /\ lastData'[p] = d /\ lastData'[q] = lastData[q]
  BY <1>1, <1>2, <1>3 DEF TypeOK
<1>6. /\ KeepsData(link[p], link'[p]) /\ KeepsAcks(link[p], link'[p])
      /\ KeepsData(link[q], link'[q])
  BY <1>1, <1>2, <1>4, TailKeeps, AppendKeeps
<1> QED
  BY <1>2, <1>3, <1>4, <1>5, <1>6

LEMMA DuplicateKeeps ==
    ASSUME IInv, NEW p \in Peers, ReceiveDuplicate(p)
    PROVE  IInv'
<1> DEFINE q == Other(p)  d == Head(link[p])
<1>1. /\ TypeOK /\ Direction(p) /\ Direction(q) /\ q \in Peers /\ q # p /\ Other(q) = p
      /\ link[p] # <<>> /\ d.type = "DATA" /\ SameBytes(d, lastData[p]) /\ TakeAndAck(p, d)
      /\ UNCHANGED <<writer, ackListener, nextXid, current, inbox, confirmed, broken>>
      /\ link[p] \in Chan /\ link[q] \in Chan
  BY Typed, PeersOK DEF IInv, ReceiveDuplicate
<1>2. d = lastData[p] /\ lastData[p] # None /\ ~Unused(q)
  BY <1>1, DataArrives
<1>3. /\ d \in Datagram /\ AckDatagram(d) \in Datagram
      /\ link' \in [Peers -> Seq(Datagram)] /\ lastData' = [lastData EXCEPT ![p] = d]
      /\ link'[p] = Tail(link[p]) /\ link'[q] = Append(link[q], AckDatagram(d))
      /\ KeepsData(link[p], link'[p]) /\ KeepsAcks(link[p], link'[p])
      /\ KeepsData(link[q], link'[q])
  BY <1>1, TakeAndAckIs
<1>4. lastData' = lastData
  BY <1>1, <1>2, <1>3 DEF TypeOK
<1>5. TypeOK'
  BY <1>1, <1>3, <1>4 DEF TypeOK
<1>6. (Failed(p)' <=> Failed(p)) /\ (Failed(q)' <=> Failed(q))
  BY <1>1 DEF Failed
<1>7. Direction(p)'
  BY <1>1, <1>3, <1>4, <1>5, <1>6, KeepDirection
<1>8. Direction(q)'
  <2>1. Writing(q) /\ Links(q) /\ (Taken(q) \/ Before(q))
    BY <1>1, <1>2, UnusedOr
  <2>2. DataOK(link'[p], lastData[p], Sending(q))
    BY <1>1, <1>3, <2>1 DEF Links, KeepsData
  <2>3. AckDatagram(d).xid = writer[q].xid => AckDatagram(d).sizeOrOffset \in Offsets(q)
    BY <1>1, <1>2, <1>3, <2>1, LastOffset, AckDatagramOK
  <2>4. AckOK(link'[q], writer[q].xid, Offsets(q))
    BY <1>1, <1>3, <2>1, <2>3, AckAppend DEF Links
  <2>5. /\ writer[q].state \in {"idle", "acked"} => Taken(q)
        /\ writer[q].state = "idle" => writer[q].piece = Size(q)
        /\ ackListener[q] =
              IF writer[q].state = "waiting"
              THEN [xid |-> writer[q].xid,
                    sizeOrOffset |-> SizeOrOffset(q, writer[q].msg, writer[q].piece)]
              ELSE None
        /\ confirmed[q] = IF writer[q].state = "idle" THEN writer[q].msg
                          ELSE writer[q].msg - 1
    BY <2>1 DEF Writing
  <2>6. /\ writer'[q] = writer[q] /\ ackListener'[q] = ackListener[q]
        /\ confirmed'[q] = confirmed[q] /\ current'[p] = current[p] /\ inbox'[p] = inbox[p]
        /\ lastData'[p] = lastData[p]
    BY <1>1, <1>4
  <2> QED
    BY <1>1, <1>2, <1>5, <1>6, <2>2, <2>4, <2>5, <2>6, MoveDirection
<1>9. ASSUME Replying, writer["pc"].msg > 0
      PROVE  Fresh(link'["pc"], lastData["pc"], writer["pc"].xid, writer["pc"].xid)
  <2>1. Fresh(link["pc"], lastData["pc"], writer["pc"].xid, writer["pc"].xid) /\ Taken("pc")
    BY <1>9 DEF Replying, Done
  <2>2. CASE p = "pc"
    BY <1>3, <2>1, <2>2 DEF KeepsAcks
  <2>3. CASE p = "palm"
    <3>1. q = "pc" /\ Writing("pc")
      BY <1>1, <1>2, <2>3, UnusedOr, PeersOK
    <3>2. AckDatagram(d).xid = writer["pc"].xid
      BY <1>2, <1>3, <2>1, <2>3, <3>1, SendingOK, AckDatagramOK, PeersOK
    <3> QED
      BY <1>1, <1>3, <2>1, <3>1, <3>2, FreshAppend
  <2> QED
    BY <2>2, <2>3 DEF Peers
<1>10. ASSUME Requesting
       PROVE  Fresh(link'["palm"], lastData["palm"], writer["pc"].xid, writer["palm"].xid)
  <2>1. Fresh(link["palm"], lastData["palm"], writer["pc"].xid, writer["palm"].xid)
    BY <1>10 DEF Requesting
  <2>2. CASE p = "palm"
    BY <1>3, <2>1, <2>2 DEF KeepsAcks
  <2>3. CASE p = "pc"
    <3>1. q = "palm" /\ Writing("palm")
      BY <1>1, <1>2, <2>3, UnusedOr, PeersOK
    <3>2. Taken("palm")
      BY <1>10, <3>1, SendingOK, PeersOK DEF Requesting, Done
    <3>3. AckDatagram(d).xid = writer["palm"].xid
      BY <1>2, <1>3, <2>3, <3>1, <3>2, SendingOK, AckDatagramOK, PeersOK
    <3> QED
      BY <1>1, <1>3, <2>1, <3>1, <3>3, FreshAppend
  <2> QED
    BY <2>2, <2>3 DEF Peers
<1>11. (Replying \/ Requesting)'
  BY <1>1, <1>4, <1>5, <1>9, <1>10, KeepTurn DEF IInv
<1>12. NoStreamErrors' /\ InOrder' /\ nextXid' # writer'["pc"].xid
  BY <1>1 DEF IInv, NoStreamErrors, InOrder, Whole
<1>13. \A r \in Peers : Direction(r)'
  BY <1>7, <1>8 DEF Peers, Other
<1> QED
  BY <1>5, <1>11, <1>12, <1>13 DEF IInv

\* A piece that is taken continues the message being assembled: none of the
\* checks of onReceiveSlpDatagram fails, and a whole message is pushed.
LEMMA Assembles ==
    ASSUME TypeOK, NEW p \in Peers, NEW q \in Peers, p = Other(q), ReceiveData(p),
           Writing(q), Reading(q), ~Taken(q), Head(link[p]) = Sending(q)
    PROVE  /\ broken' = broken /\ TakeAndAck(p, Sending(q))
           /\ writer[q].piece = Size(q) =>
                 current' = [current EXCEPT ![p] = None] /\ Push(p, Whole(q, writer[q].msg))
           /\ writer[q].piece # Size(q) =>
                 /\ current' =
                       [current EXCEPT ![p] =
                          [data |-> [i \in 1 .. writer[q].piece |-> <<writer[q].msg, i>>],
                           remaining |-> Size(q) - writer[q].piece]]
                 /\ inbox' = inbox
<1> DEFINE d == Head(link[p])
           c == current[p]
           started == IF c # None THEN c
                      ELSE [data |-> <<>>, remaining |-> d.sizeOrOffset]
           got == [data |-> Append(started.data, d.part),
                   remaining |-> started.remaining - 1]
           k == writer[q].msg
           n == writer[q].piece
           parts == [i \in 1 .. n |-> <<k, i>>]
<1>1. /\ Size(q) \in Nat \ {0} /\ k \in Nat \ {0} /\ n \in 1 .. Size(q)
      /\ d.sizeOrOffset = SizeOrOffset(q, k, n) /\ d.first = (n = 1)
      /\ d.last = (n = Size(q)) /\ d.part = <<k, n>> /\ Got(q) = n - 1
      /\ Size(q) = Pieces[q][k]
  BY SendingOK DEF Writing, Got, Size
<1>2. ~OutOfSequence(d, c) /\ got = [data |-> parts, remaining |-> Size(q) - n]
  <2>1. CASE n = 1
    <3>1. c = None
      BY <1>1, <2>1 DEF Reading
    <3>2. d.sizeOrOffset = Size(q)
      BY <1>1, <2>1 DEF SizeOrOffset
    <3>3. Append(<<>>, d.part) = parts
      BY <1>1, <2>1
    <3> QED
      BY <1>1, <2>1, <3>1, <3>2, <3>3 DEF OutOfSequence
  <2>2. CASE n # 1
    <3> DEFINE before == [i \in 1 .. n - 1 |-> <<k, i>>]
    <3>1. n - 1 \in Nat /\ n - 1 # 0 /\ n - 1 # Size(q) /\ Size(q) - (n - 1) - 1 = Size(q) - n
      BY <1>1, <2>2
    <3>2. c = [data |-> before, remaining |-> Size(q) - (n - 1)]
      BY <1>1, <3>1 DEF Reading
    <3>3. c # None
      <4>1. before \in [1 .. n - 1 -> Nat \X Nat]
        BY <1>1
      <4>2. before \in Seq(Nat \X Nat)
        BY <3>1, <4>1, SeqDef
      <4>3. Size(q) - (n - 1) \in Nat
        BY <1>1
      <4>4. c \in Assembly
        BY <3>2, <4>2, <4>3 DEF Assembly
      <4> QED
        BY <4>4, NoneAssumption
    <3>4. Len(before) = n - 1 /\ d.sizeOrOffset = n - 1
      BY <1>1, <2>2, <3>1 DEF SizeOrOffset
    <3>5. Append(before, <<k, n>>) = parts
      BY <1>1, <3>1, <3>4
    <3>6. started.data = before /\ started.remaining = Size(q) - (n - 1) /\ c.data = before
      BY <3>2, <3>3
    <3>7. got = [data |-> parts, remaining |-> Size(q) - n]
      BY <1>1, <3>1, <3>5, <3>6
    <3>8. ~OutOfSequence(d, c)
      BY <1>1, <2>2, <3>3, <3>4, <3>6 DEF OutOfSequence
    <3> QED
      BY <3>7, <3>8
  <2> QED
    BY <2>1, <2>2
<1>3. got.remaining = Size(q) - n /\ got.data = parts /\ (got.remaining = 0 <=> d.last)
      /\ got.remaining \in Nat
  <2>1. [data |-> parts, remaining |-> Size(q) - n].remaining = Size(q) - n
        /\ [data |-> parts, remaining |-> Size(q) - n].data = parts
    OBVIOUS
  <2>2. got.remaining = Size(q) - n /\ got.data = parts
    BY <1>2, <2>1, Zenon
  <2>3. (Size(q) - n = 0 <=> n = Size(q)) /\ Size(q) - n \in Nat
    BY <1>1
  <2> HIDE DEF got
  <2> QED
    BY <1>1, <2>2, <2>3
<1>4. /\ IF got.remaining = 0
         THEN Push(p, got.data) /\ current' = [current EXCEPT ![p] = None]
         ELSE current' = [current EXCEPT ![p] = got] /\ UNCHANGED inbox
      /\ broken' = IF got.remaining > 0 /\ d.last THEN "readError" ELSE broken
      /\ TakeAndAck(p, d)
  <2> HIDE DEF parts
  <2>1. ~(OutOfSequence(d, c) \/ (got.remaining = 0 /\ ~d.last))
    BY <1>2, <1>3
  <2> QED
    BY <2>1 DEF ReceiveData
<1>5. parts = Whole(q, k) \/ n # Size(q)
  BY <1>1 DEF Whole
<1>6. got.remaining = 0 <=> n = Size(q)
  BY <1>1, <1>3
<1>7. broken' = broken /\ TakeAndAck(p, Sending(q))
  <2> HIDE DEF got
  <2> QED
    BY <1>3, <1>4
<1>8. ASSUME n = Size(q)
      PROVE  current' = [current EXCEPT ![p] = None] /\ Push(p, Whole(q, k))
  <2> HIDE DEF got, parts
  <2> QED
    BY <1>3, <1>4, <1>5, <1>6, <1>8
<1>9. ASSUME n # Size(q)
      PROVE  /\ current' = [current EXCEPT ![p] = [data |-> parts, remaining |-> Size(q) - n]]
             /\ inbox' = inbox
  <2> HIDE DEF got, parts
  <2>1. current' = [current EXCEPT ![p] = got] /\ inbox' = inbox
    BY <1>4, <1>6, <1>9
  <2> QED
    BY <1>2, <2>1
<1> QED
  BY <1>7, <1>8, <1>9

\* Data under the transaction id a write waits for answers that write: an
\* implied ACK is never one for a piece the other side does not have.
LEMMA ImpliedAck ==
    ASSUME IInv, NEW p \in Peers, NEW q, q = Other(p), Writing(q), ~Taken(q),
           ackListener[p] # None, ackListener[p].xid = Sending(q).xid
    PROVE  ~Unused(p) /\ Taken(p) /\ writer[p].state = "waiting"
<1>1. q \in Peers /\ Direction(p) /\ ~Unused(p) /\ Writing(p) /\ writer[q].msg > 0
  BY PeersOK, UnusedOr, SendingOK DEF IInv, Unused
<1>2. writer[p].state = "waiting" /\ ackListener[p].xid = writer[p].xid
      /\ Sending(q).xid = writer[q].xid
  <2>1. Sending(q).xid = writer[q].xid
    BY <1>1, SendingOK
  <2>2. writer[p].state = "waiting"
    BY <1>1 DEF Writing
  <2>3. ackListener[p].xid = writer[p].xid
    BY <1>1, <2>2 DEF Writing
  <2> QED
    BY <2>1, <2>2, <2>3
<1>3. writer["pc"].xid = writer["palm"].xid
  BY <1>2 DEF Peers, Other
<1>4. Replying
  BY <1>3 DEF IInv, Requesting
<1>5. Taken("pc")
  <2>1. writer["pc"].msg > 0
    BY <1>1, SendingOK DEF Peers, Other
  <2> QED
    BY <1>4, <2>1 DEF Replying, Done
<1>6. p = "pc"
  BY <1>5 DEF Peers, Other
<1> QED
  BY <1>1, <1>2, <1>5, <1>6

\* What arrives is the piece the other side is sending, and it is taken.
LEMMA DataFacts ==
    ASSUME IInv, NEW p \in Peers, NEW q, q = Other(p), ReceiveData(p)
    PROVE  LET d == Head(link[p])  k == writer[q].msg  n == writer[q].piece
           IN  /\ TypeOK /\ Direction(p) /\ Direction(q) /\ q \in Peers /\ q # p /\ Other(q) = p
               /\ link[p] # <<>> /\ d.type = "DATA" /\ ~SameBytes(d, lastData[p])
               /\ nextXid' = nextXid /\ confirmed' = confirmed
               /\ link[p] \in Chan /\ link[q] \in Chan
               /\ writer[p] \in Writer
               /\ ~Unused(q) /\ d = Sending(q) /\ ~Taken(q) /\ Before(q)
               /\ DataOK(Tail(link[p]), d, d)
               /\ Writing(q) /\ Reading(q) /\ Links(q)
               /\ k \in Nat \ {0} /\ n \in 1 .. Size(q) /\ Size(q) \in Nat \ {0} /\ d # None
               /\ d.xid = writer[q].xid /\ d.sizeOrOffset = SizeOrOffset(q, k, n)
               /\ Got(q) = n - 1 /\ Size(q) = Pieces[q][k]
               /\ broken' = broken /\ TakeAndAck(p, d)
               /\ n = Size(q) => current' = [current EXCEPT ![p] = None] /\ Push(p, Whole(q, k))
               /\ n # Size(q) =>
                     /\ current' = [current EXCEPT ![p] =
                                      [data |-> [i \in 1 .. n |-> <<k, i>>],
                                       remaining |-> Size(q) - n]]
                     /\ inbox' = inbox
<1> DEFINE d == Head(link[p])  k == writer[q].msg  n == writer[q].piece
<1>1. /\ TypeOK /\ Direction(p) /\ Direction(q) /\ q \in Peers /\ q # p /\ Other(q) = p
      /\ link[p] # <<>> /\ d.type = "DATA" /\ ~SameBytes(d, lastData[p])
      /\ nextXid' = nextXid /\ confirmed' = confirmed
      /\ link[p] \in Chan /\ link[q] \in Chan
      /\ writer[p] \in Writer
  BY Typed, PeersOK DEF IInv, ReceiveData
<1>2. /\ ~Unused(q) /\ d = Sending(q) /\ ~Taken(q) /\ Before(q)
      /\ DataOK(Tail(link[p]), d, d)
  BY <1>1, DataArrives
<1>3. Writing(q) /\ Reading(q) /\ Links(q)
  BY <1>1, <1>2, UnusedOr
<1>4. /\ k \in Nat \ {0} /\ n \in 1 .. Size(q) /\ Size(q) \in Nat \ {0} /\ d # None
      /\ d.xid = writer[q].xid /\ d.sizeOrOffset = SizeOrOffset(q, k, n)
      /\ Got(q) = n - 1 /\ Size(q) = Pieces[q][k]
  <2>1. /\ k \in Nat \ {0} /\ Size(q) \in Nat \ {0} /\ Sending(q) # None
        /\ Sending(q).xid = writer[q].xid
        /\ Sending(q).sizeOrOffset = SizeOrOffset(q, k, n)
    BY <1>1, <1>3, SendingOK
  <2>2. n \in 1 .. Size(q)
    BY <1>3 DEF Writing
  <2>3. Got(q) = n - 1 /\ Size(q) = Pieces[q][k]
    BY <1>2 DEF Got, Size
  <2> QED
    BY <1>2, <2>1, <2>2, <2>3
<1>5. /\ broken' = broken /\ TakeAndAck(p, d)
      /\ n = Size(q) => current' = [current EXCEPT ![p] = None] /\ Push(p, Whole(q, k))
      /\ n # Size(q) =>
            /\ current' = [current EXCEPT ![p] =
                             [data |-> [i \in 1 .. n |-> <<k, i>>],
                              remaining |-> Size(q) - n]]
            /\ inbox' = inbox
  BY <1>1, <1>2, <1>3, Assembles
<1> QED
  BY <1>1, <1>2, <1>3, <1>4, <1>5

\* The data has the transaction id that the write of p waits for.
Answers(p) == ackListener[p] # None /\ ackListener[p].xid = Head(link[p]).xid

\* The writer of the side that takes the data.
LEMMA DataWriter ==
    ASSUME IInv, NEW p \in Peers, NEW q, q = Other(p), ReceiveData(p)
    PROVE  /\ Answers(p) => Taken(p) /\ ~Unused(p) /\ writer[p].state = "waiting"
           /\ writer' \in [Peers -> Writer]
           /\ ackListener' \in [Peers -> AckListener \cup {None}]
           /\ writer'[q] = writer[q] /\ ackListener'[q] = ackListener[q]
           /\ writer'[p].msg = writer[p].msg /\ writer'[p].piece = writer[p].piece
           /\ writer'[p].xid = writer[p].xid
           /\ Answers(p) => writer'[p].state = "acked" /\ ackListener'[p] = None
           /\ ~Answers(p) => writer'[p] = writer[p] /\ ackListener'[p] = ackListener[p]
           /\ (Failed(p)' <=> Failed(p)) /\ (Failed(q)' <=> Failed(q))
<1>1. /\ TypeOK /\ q \in Peers /\ q # p /\ Writing(q) /\ ~Taken(q)
      /\ Head(link[p]) = Sending(q)
  BY DataFacts
<1>7. IF Answers(p) THEN Resolve(p) ELSE UNCHANGED <<ackListener, writer>>
  BY DEF ReceiveData, Answers
<1>8. Answers(p) => Taken(p) /\ ~Unused(p) /\ writer[p].state = "waiting"
  BY <1>1, ImpliedAck DEF Answers
<1>9. /\ writer' \in [Peers -> Writer]
      /\ ackListener' \in [Peers -> AckListener \cup {None}]
      /\ writer'[q] = writer[q] /\ ackListener'[q] = ackListener[q]
      /\ writer'[p].msg = writer[p].msg /\ writer'[p].piece = writer[p].piece
      /\ writer'[p].xid = writer[p].xid
      /\ Answers(p) => writer'[p].state = "acked" /\ ackListener'[p] = None
      /\ ~Answers(p) => writer'[p] = writer[p] /\ ackListener'[p] = ackListener[p]
  <2>1. CASE Answers(p)
    <3>1. /\ writer' = [writer EXCEPT ![p].state = "acked"]
          /\ ackListener' = [ackListener EXCEPT ![p] = None]
      BY <1>7, <2>1 DEF Resolve, StopListening
    <3>2. /\ writer \in [Peers -> Writer] /\ writer[p] \in Writer
          /\ ackListener \in [Peers -> AckListener \cup {None}]
      BY DEF IInv, TypeOK
    <3>3. [writer[p] EXCEPT !.state = "acked"] \in Writer
      BY <3>2 DEF Writer
    <3>4. /\ writer' \in [Peers -> Writer]
          /\ ackListener' \in [Peers -> AckListener \cup {None}]
      BY <3>1, <3>2, <3>3
    <3>5. /\ writer'[p] = [writer[p] EXCEPT !.state = "acked"] /\ ackListener'[p] = None
          /\ writer'[q] = writer[q] /\ ackListener'[q] = ackListener[q]
      BY <1>1, <3>1, <3>2
    <3>6. /\ writer'[p].msg = writer[p].msg /\ writer'[p].piece = writer[p].piece
          /\ writer'[p].xid = writer[p].xid /\ writer'[p].state = "acked"
      BY <3>2, <3>5 DEF Writer
    <3> QED
      BY <2>1, <3>4, <3>5, <3>6
  <2>2. CASE ~Answers(p)
    BY <1>1, <1>7, <2>2 DEF TypeOK
  <2> QED
    BY <2>1, <2>2
<1>10. (Failed(p)' <=> Failed(p)) /\ (Failed(q)' <=> Failed(q))
  BY <1>8, <1>9 DEF Failed
<1> QED
  BY <1>8, <1>9, <1>10

\* What its reader is given.
LEMMA DataInbox ==
    ASSUME IInv, NEW p \in Peers, NEW q, q = Other(p), ReceiveData(p)
    PROVE  LET k == writer[q].msg  n == writer[q].piece
           IN  /\ Whole(q, k) \in Seq(Nat \X Nat) /\ [i \in 1 .. n |-> <<k, i>>] \in Seq(Nat \X Nat)
               /\ inbox[p] \in Seq(Seq(Nat \X Nat)) /\ Len(inbox[p]) \in Nat /\ Len(inbox[p]) <= k
               /\ ~Failed(p) => Len(inbox[p]) = k - 1
               /\ current[p] = None \/ current[p] \in Assembly
               /\ inbox' \in [Peers -> Seq(Seq(Nat \X Nat))] /\ inbox'[q] = inbox[q]
               /\ IF n = Size(q) /\ ~Failed(p)
                  THEN inbox'[p] = Append(inbox[p], Whole(q, k))
                  ELSE inbox'[p] = inbox[p]
<1> DEFINE k == writer[q].msg  n == writer[q].piece
<1>1. TypeOK /\ q \in Peers /\ q # p /\ Other(q) = p /\ Reading(q)
  BY DataFacts
<1>4. /\ k \in Nat \ {0} /\ n \in 1 .. Size(q) /\ Size(q) \in Nat \ {0}
      /\ Got(q) = n - 1 /\ Size(q) = Pieces[q][k]
  BY DataFacts
<1>5. (n = Size(q) => Push(p, Whole(q, k))) /\ (n # Size(q) => inbox' = inbox)
  BY DataFacts
<1>11. Whole(q, k) \in Seq(Nat \X Nat) /\ [i \in 1 .. n |-> <<k, i>>] \in Seq(Nat \X Nat)
  <2>1. /\ Whole(q, k) \in [1 .. Size(q) -> Nat \X Nat]
        /\ [i \in 1 .. n |-> <<k, i>>] \in [1 .. n -> Nat \X Nat]
    BY <1>4 DEF Whole
  <2>2. Size(q) \in Nat /\ n \in Nat
    BY <1>4
  <2>3. Whole(q, k) \in Seq(Nat \X Nat)
    BY <2>1, <2>2, SeqDef
  <2>4. [i \in 1 .. n |-> <<k, i>>] \in Seq(Nat \X Nat)
    <3> DEFINE f == [i \in 1 .. n |-> <<k, i>>]
    <3>1. f \in [1 .. n -> Nat \X Nat]
      BY <2>1
    <3> HIDE DEF f
    <3>2. f \in Seq(Nat \X Nat)
      BY <2>2, <3>1, SeqDef
    <3> QED
      BY <3>2 DEF f
  <2> QED
    BY <2>3, <2>4
<1>12. /\ inbox[p] \in Seq(Seq(Nat \X Nat)) /\ Len(inbox[p]) \in Nat /\ Len(inbox[p]) <= k
       /\ ~Failed(p) => Len(inbox[p]) = k - 1
       /\ current[p] = None \/ current[p] \in Assembly
  BY <1>1, <1>4, Typed DEF Reading
<1>13. /\ inbox' \in [Peers -> Seq(Seq(Nat \X Nat))] /\ inbox'[q] = inbox[q]
       /\ IF n = Size(q) /\ ~Failed(p)
          THEN inbox'[p] = Append(inbox[p], Whole(q, k))
          ELSE inbox'[p] = inbox[p]
  <2>1. CASE n = Size(q) /\ ~Failed(p)
    <3>1. inbox' = [inbox EXCEPT ![p] = Append(inbox[p], Whole(q, k))]
      BY <1>5, <2>1 DEF Push, Failed
    <3> QED
      BY <1>1, <1>11, <1>12, <2>1, <3>1 DEF TypeOK
  <2>2. CASE ~(n = Size(q) /\ ~Failed(p))
    <3>1. inbox' = inbox
      BY <1>5, <2>2 DEF Push, Failed
    <3> QED
      BY <1>1, <2>2, <3>1 DEF TypeOK
  <2> QED
    BY <2>1, <2>2
<1> QED
  BY <1>11, <1>12, <1>13

LEMMA DataKeeps ==
    ASSUME IInv, NEW p \in Peers, ReceiveData(p)
    PROVE  IInv'
<1> DEFINE q == Other(p)  d == Head(link[p])  k == writer[q].msg  n == writer[q].piece
<1>1. /\ TypeOK /\ Direction(p) /\ Direction(q) /\ q \in Peers /\ q # p /\ Other(q) = p
      /\ link[p] # <<>> /\ d.type = "DATA" /\ ~SameBytes(d, lastData[p])
      /\ nextXid' = nextXid /\ confirmed' = confirmed
      /\ link[p] \in Chan /\ link[q] \in Chan
      /\ writer[p] \in Writer
  BY DataFacts
<1>2. /\ ~Unused(q) /\ d = Sending(q) /\ ~Taken(q) /\ Before(q)
      /\ DataOK(Tail(link[p]), d, d)
  BY DataFacts
<1>3. Writing(q) /\ Reading(q) /\ Links(q)
  BY DataFacts
<1>4. /\ k \in Nat \ {0} /\ n \in 1 .. Size(q) /\ Size(q) \in Nat \ {0} /\ d # None
      /\ d.xid = writer[q].xid /\ d.sizeOrOffset = SizeOrOffset(q, k, n)
      /\ Got(q) = n - 1 /\ Size(q) = Pieces[q][k]
  BY DataFacts
<1>5. /\ broken' = broken /\ TakeAndAck(p, d)
      /\ n = Size(q) => current' = [current EXCEPT ![p] = None] /\ Push(p, Whole(q, k))
      /\ n # Size(q) =>
            /\ current' = [current EXCEPT ![p] =
                             [data |-> [i \in 1 .. n |-> <<k, i>>],
                              remaining |-> Size(q) - n]]
            /\ inbox' = inbox
  BY DataFacts
<1>6. /\ d \in Datagram /\ AckDatagram(d) \in Datagram
      /\ link' \in [Peers -> Seq(Datagram)]
      /\ lastData' \in [Peers -> Datagram \cup {None}]
      /\ link'[p] = Tail(link[p]) /\ link'[q] = Append(link[q], AckDatagram(d))
      /\ lastData'[p] = d /\ lastData'[q] = lastData[q]
      /\ KeepsData(link[p], link'[p]) /\ KeepsAcks(link[p], link'[p])
      /\ KeepsData(link[q], link'[q])
  BY <1>1, <1>5, TakeAndAckIs
<1>8. Answers(p) => Taken(p) /\ ~Unused(p) /\ writer[p].state = "waiting"
  BY DataWriter
<1>9. /\ writer' \in [Peers -> Writer]
      /\ ackListener' \in [Peers -> AckListener \cup {None}]
      /\ writer'[q] = writer[q] /\ ackListener'[q] = ackListener[q]
      /\ writer'[p].msg = writer[p].msg /\ writer'[p].piece = writer[p].piece
      /\ writer'[p].xid = writer[p].xid
      /\ Answers(p) => writer'[p].state = "acked" /\ ackListener'[p] = None
      /\ ~Answers(p) => writer'[p] = writer[p] /\ ackListener'[p] = ackListener[p]
  BY DataWriter
<1>10. (Failed(p)' <=> Failed(p)) /\ (Failed(q)' <=> Failed(q))
  BY DataWriter
<1>11. Whole(q, k) \in Seq(Nat \X Nat) /\ [i \in 1 .. n |-> <<k, i>>] \in Seq(Nat \X Nat)
  BY DataInbox
<1>12. /\ inbox[p] \in Seq(Seq(Nat \X Nat)) /\ Len(inbox[p]) \in Nat /\ Len(inbox[p]) <= k
       /\ ~Failed(p) => Len(inbox[p]) = k - 1
       /\ current[p] = None \/ current[p] \in Assembly
  BY DataInbox
<1>13. /\ inbox' \in [Peers -> Seq(Seq(Nat \X Nat))] /\ inbox'[q] = inbox[q]
       /\ IF n = Size(q) /\ ~Failed(p)
          THEN inbox'[p] = Append(inbox[p], Whole(q, k))
          ELSE inbox'[p] = inbox[p]
  BY DataInbox
<1>14. /\ current' \in [Peers -> Assembly \cup {None}] /\ current'[q] = current[q]
       /\ current'[p] = IF n = Size(q) THEN None
                        ELSE [data |-> [i \in 1 .. n |-> <<k, i>>], remaining |-> Size(q) - n]
  <2>1. [data |-> [i \in 1 .. n |-> <<k, i>>], remaining |-> Size(q) - n] \in Assembly
    BY <1>4, <1>11 DEF Assembly
  <2> QED
    BY <1>1, <1>5, <2>1 DEF TypeOK
<1>15. TypeOK'
  BY <1>1, <1>5, <1>6, <1>9, <1>13, <1>14 DEF TypeOK
<1>16. InOrder' /\ NoStreamErrors'
  <2>1. ASSUME NEW r \in Peers, NEW m \in DOMAIN inbox'[r]
        PROVE  inbox'[r][m] = Whole(Other(r), m)
    <3>1. ASSUME NEW s \in Peers, NEW i \in DOMAIN inbox[s]
          PROVE  inbox[s][i] = Whole(Other(s), i)
      BY DEF IInv, InOrder
    <3>2. CASE inbox'[r] = inbox[r]
      BY <2>1, <3>1, <3>2
    <3>3. CASE inbox'[r] # inbox[r]
      <4>1. r = p /\ inbox'[p] = Append(inbox[p], Whole(q, k)) /\ Len(inbox[p]) = k - 1
        BY <1>12, <1>13, <3>3 DEF Peers, Other
      <4>2. CASE m = k
        BY <1>4, <1>12, <4>1, <4>2
      <4>3. CASE m # k
        <5>1. m \in DOMAIN inbox[p] /\ inbox'[p][m] = inbox[p][m]
          BY <1>4, <1>12, <2>1, <4>1, <4>3
        <5> QED
          BY <3>1, <4>1, <5>1
      <4> QED
        BY <4>2, <4>3
    <3> QED
      BY <3>2, <3>3
  <2> QED
    BY <1>5, <2>1 DEF IInv, InOrder, NoStreamErrors, Whole
\* The message arriving at p.
<1>17. /\ Sending(q)' = d /\ Size(q)' = Size(q) /\ Taken(q)' /\ Got(q)' = n
  <2>1. Sending(q)' = d /\ Size(q)' = Size(q)
    BY <1>2, <1>9 DEF Sending, DataDatagram, Size
  <2>2. Taken(q)'
    BY <1>1, <1>4, <1>6, <1>9, <2>1 DEF Taken
  <2> QED
    BY <1>9, <2>1, <2>2 DEF Got
<1>18. Writing(q)'
  BY <1>1, <1>2, <1>3, <1>9, <1>17 DEF Writing
<1>19. Reading(q)'
  <2>1. current'[p] = IF Got(q)' \in {0, Size(q)'} THEN None
                      ELSE [data |-> [i \in 1 .. Got(q)' |-> <<writer'[q].msg, i>>],
                            remaining |-> Size(q)' - Got(q)']
    BY <1>4, <1>9, <1>14, <1>17
  <2>2. Len(inbox'[p]) <= k /\ (~Failed(p)' => Len(inbox'[p]) = IF n = Size(q) THEN k ELSE k - 1)
    <3>1. CASE n = Size(q) /\ ~Failed(p)
      <4>1. Len(inbox'[p]) = Len(inbox[p]) + 1
        BY <1>11, <1>12, <1>13, <3>1
      <4> QED
        BY <1>4, <1>12, <3>1, <4>1
    <3>2. CASE ~(n = Size(q) /\ ~Failed(p))
      BY <1>10, <1>12, <1>13, <3>2
    <3> QED
      BY <3>1, <3>2
  <2> QED
    BY <1>1, <1>9, <1>17, <2>1, <2>2 DEF Reading
<1>20. Links(q)'
  <2>1. DataOK(link'[p], d, d)
    BY <1>2, <1>6
  <2>2. Offsets(q) \subseteq Offsets(q)' /\ d.sizeOrOffset \in Offsets(q)'
    <3>1. Offsets(q)' = {SizeOrOffset(q, k, i) : i \in 1 .. n}
      BY <1>9, <1>17 DEF Offsets, SizeOrOffset
    <3>2. Offsets(q) = {SizeOrOffset(q, k, i) : i \in 1 .. n - 1}
      BY <1>4 DEF Offsets
    <3>3. n \in 1 .. n /\ 1 .. n - 1 \subseteq 1 .. n
      BY <1>4
    <3> QED
      BY <1>4, <3>1, <3>2, <3>3
  <2>3. AckOK(link'[q], writer[q].xid, Offsets(q)')
    <3>1. AckOK(link[q], writer[q].xid, Offsets(q))
      BY <1>3 DEF Links
    <3>2. AckDatagram(d).sizeOrOffset \in Offsets(q)'
      BY <1>6, <2>2, AckDatagramOK
    <3> DEFINE u == Offsets(q)'
    <3>3. Offsets(q) \subseteq u /\ AckDatagram(d).sizeOrOffset \in u
      BY <2>2, <3>2
    <3> HIDE DEF u
    <3>4. AckOK(Append(link[q], AckDatagram(d)), writer[q].xid, u)
      BY <1>1, <1>6, <3>1, <3>3, AckAppend
    <3> QED
      BY <1>6, <3>4 DEF u
  <2> QED
    BY <1>1, <1>6, <1>9, <1>17, <2>1, <2>3 DEF Links
<1>21. Direction(q)'
  BY <1>17, <1>18, <1>19, <1>20 DEF Direction
\* The message p writes.
<1>22. Direction(p)'
  <2>1. CASE Answers(p)
    <3>1. Writing(p) /\ Links(p) /\ confirmed[p] = writer[p].msg - 1
      BY <1>1, <1>8, <2>1, UnusedOr DEF Writing
    <3>2. DataOK(link'[q], lastData[q], Sending(p)) /\ AckOK(link'[p], writer[p].xid, Offsets(p))
      BY <1>6, <3>1 DEF Links, KeepsData, KeepsAcks
    <3> QED
      BY <1>1, <1>6, <1>8, <1>9, <1>10, <1>13, <1>14, <1>15, <2>1, <3>1, <3>2, MoveDirection
  <2>2. CASE ~Answers(p)
    BY <1>1, <1>6, <1>9, <1>10, <1>13, <1>14, <1>15, <2>2, KeepDirection
  <2> QED
    BY <2>1, <2>2
<1>23. \A r \in Peers : Direction(r)'
  BY <1>21, <1>22 DEF Peers, Other
\* Whose turn it is.
<1>24. ~Done(q) /\ (Done(p)' <=> Done(p))
  BY <1>1, <1>2, <1>4, <1>6, <1>9, <1>15, SamePiece DEF Done
<1>25. (Replying \/ Requesting)'
  <2>1. CASE p = "palm"
    <3>1. q = "pc"
      BY <2>1, PeersOK
    <3>2. Requesting
      BY <1>24, <3>1 DEF IInv, Replying
    <3>3. Fresh(link'["palm"], d, writer["pc"].xid, writer["palm"].xid)
      BY <1>1, <1>6, <2>1, <3>2, FreshTail DEF Requesting
    <3> QED
      BY <1>6, <1>9, <1>24, <2>1, <3>1, <3>2, <3>3 DEF Requesting
  <2>2. CASE p = "pc"
    <3>1. q = "palm"
      BY <2>2, PeersOK
    <3>2. Replying
      BY <1>24, <3>1 DEF IInv, Requesting
    <3>3. writer["pc"].msg > 0 =>
             Fresh(link'["pc"], d, writer["pc"].xid, writer["pc"].xid)
      BY <1>1, <1>6, <2>2, <3>2, FreshTail DEF Replying
    <3> QED
      BY <1>6, <1>9, <1>24, <2>2, <3>1, <3>2, <3>3 DEF Replying
  <2> QED
    BY <2>1, <2>2 DEF Peers
<1>26. nextXid' # writer'["pc"].xid
  BY <1>1, <1>9 DEF IInv, Peers, Other
<1> QED
  BY <1>15, <1>16, <1>23, <1>25, <1>26 DEF IInv

-----------------------------------------------------------------------------
(* The theorems.                                                           *)

LEMMA StepIInv == IInv /\ [Next]_vars => IInv'
<1> SUFFICES ASSUME IInv, [Next]_vars PROVE IInv'
  OBVIOUS
<1>1. CASE Request
  BY <1>1, RequestKeeps
<1>2. CASE Reply
  BY <1>2, ReplyKeeps
<1>3. ASSUME NEW p \in Peers, WriterStep(p) PROVE IInv'
  BY <1>3, SendKeeps, RetryKeeps, ListenKeeps, ContinueKeeps DEF WriterStep
<1>4. ASSUME NEW p \in Peers, ReaderStep(p) PROVE IInv'
  BY <1>4, ReceiveAckKeeps, DuplicateKeeps, DataKeeps DEF ReaderStep
<1>5. ASSUME NEW p \in Peers, Lose(p) PROVE IInv'
  BY <1>5, DropKeeps DEF Lose
<1>6. CASE UNCHANGED vars
  <2>1. \A p \in Peers : Direction(p)' <=> Direction(p)
    BY <1>6 DEF vars, Direction, Unused, Writing, Reading, Links, Taken, Before, Got, Size,
                Sending, Offsets, Failed, DataDatagram, SizeOrOffset, Lacks, DataOK, AckOK,
                Other, Idle, Whole
  <2>2. (Replying' <=> Replying) /\ (Requesting' <=> Requesting)
    BY <1>6 DEF vars, Replying, Requesting, Done, Taken, Size, Sending, Fresh,
                DataDatagram, SizeOrOffset, Other
  <2>3. TypeOK' /\ NoStreamErrors' /\ InOrder' /\ nextXid' # writer'["pc"].xid
    BY <1>6 DEF vars, IInv, TypeOK, NoStreamErrors, InOrder, Whole
  <2> QED
    BY <2>1, <2>2, <2>3 DEF IInv
<1> QED
  BY <1>1, <1>2, <1>3, <1>4, <1>5, <1>6 DEF Next

LEMMA Invariant == Spec => []IInv
BY InitIInv, StepIInv, PTL DEF Spec

\* The state of both streams and of the link is always of its type: datagrams
\* carry transaction ids in use, retries stay within PADP_MAX_RETRIES.
THEOREM TypeCorrect == Spec => []TypeOK
<1>1. IInv => TypeOK
  BY DEF IInv
<1> QED
  BY <1>1, Invariant, PTL

\* Whatever the link loses and however often a piece is sent again, each
\* reader is given the messages of the other side whole, in order and once.
THEOREM MessagesInOrder == Spec => []InOrder
<1>1. IInv => InOrder
  BY DEF IInv
<1> QED
  BY <1>1, Invariant, PTL

\* onReceiveSlpDatagram never meets data that does not continue the message
\* being assembled, and _write never a listener left by another write.
THEOREM NoErrors == Spec => []NoStreamErrors
<1>1. IInv => NoStreamErrors
  BY DEF IInv
<1> QED
  BY <1>1, Invariant, PTL

\* A piece counts as acknowledged only if the other side has it: neither a
\* late ACK nor the data of a reply is taken for one of another piece.
THEOREM AcksAreTrue == Spec => []AckMeansTaken
<1>1. ASSUME IInv, NEW p \in Peers, writer[p].state = "acked"
      PROVE  \/ Len(inbox[Other(p)]) >= writer[p].msg
             \/ /\ current[Other(p)] # None
                /\ Len(current[Other(p)].data) >= writer[p].piece
                /\ current[Other(p)].data[writer[p].piece]
                      = <<writer[p].msg, writer[p].piece>>
             \/ Failed(Other(p))
  <2> DEFINE q == Other(p)  k == writer[p].msg  n == writer[p].piece
             parts == [i \in 1 .. n |-> <<k, i>>]
  <2>1. TypeOK /\ q \in Peers /\ Direction(p) /\ ~Unused(p)
    BY <1>1, Busy, PeersOK DEF IInv
  <2>2. Writing(p) /\ Reading(p) /\ Taken(p)
    BY <1>1, <2>1, UnusedOr DEF Writing
  <2>3. Got(p) = n /\ n \in 1 .. Size(p) /\ Size(p) \in Nat \ {0} /\ k \in Nat \ {0}
    BY <2>2, SendingOK DEF Got, Writing
  <2>4. CASE n = Size(p)
    BY <2>2, <2>3, <2>4 DEF Reading
  <2>5. CASE n # Size(p)
    <3>1. current[q] = [data |-> parts, remaining |-> Size(p) - n] /\ n \in Nat /\ n # 0
      BY <2>2, <2>3, <2>5 DEF Reading
    <3>2. parts \in [1 .. n -> Nat \X Nat]
      BY <2>3
    <3>3. Len(parts) = n /\ parts[n] = <<k, n>>
      BY <2>3, <3>1
    <3>4. parts \in Seq(Nat \X Nat) /\ Size(p) - n \in Nat
      <4> HIDE DEF parts
      <4>1. parts \in Seq(Nat \X Nat)
        BY <3>1, <3>2, SeqDef
      <4> QED
        BY <2>3, <4>1
    <3>5. current[q] # None /\ current[q].data = parts
      <4> HIDE DEF parts
      <4>1. current[q] \in Assembly
        BY <3>1, <3>4 DEF Assembly
      <4> QED
        BY <3>1, <4>1, NoneAssumption
    <3> HIDE DEF parts
    <3> QED
      BY <2>3, <3>3, <3>5
  <2> QED
    BY <2>4, <2>5
<1>2. IInv => AckMeansTaken
  BY <1>1 DEF AckMeansTaken
<1> QED
  BY <1>2, Invariant, PTL

-----------------------------------------------------------------------------
(* Two streams over a lossy link are a reliable channel.                   *)

Down == {p \in Peers : Failed(p)}
Sent == [p \in Peers |-> writer[p].msg]
Received == [p \in Peers |-> inbox[Other(p)]]

\* The four variables of the channel.
Abstract == <<Sent, Received, confirmed, Down>>

LEMMA InitChannel == Init => Channel!Init
<1> SUFFICES ASSUME Init PROVE Channel!Init
  OBVIOUS
<1>1. Sent = [p \in Peers |-> 0] /\ Received = [p \in Peers |-> <<>>]
  BY PeersOK DEF Init, Idle, Sent, Received
<1>2. Down = {}
  BY DEF Init, Idle, Down, Failed
<1>3. confirmed = [p \in Peers |-> 0]
  BY DEF Init
<1> QED
  BY <1>1, <1>2, <1>3 DEF Channel!Init, Sent, Received, Down

\* A step that leaves messages, inboxes, confirmations and the streams that are
\* down as they are is no step of the channel.
LEMMA Stutters ==
    ASSUME confirmed' = confirmed, inbox' = inbox,
           \A p \in Peers : writer'[p].msg = writer[p].msg,
           \A p \in Peers : Failed(p)' <=> Failed(p)
    PROVE  Abstract' = Abstract
<1>1. Sent' = Sent
  BY DEF Sent
<1>2. Received' = Received
  BY PeersOK DEF Received
<1>3. Down' = Down
  BY DEF Down
<1> QED
  BY <1>1, <1>2, <1>3 DEF Abstract

\* A write is begun: something is sent, once the write before is confirmed.
LEMMA StartIsSend ==
    ASSUME IInv, NEW p \in Peers, NEW x, writer[p].state = "idle",
           StartWrite(p, writer[p].msg + 1, x), inbox' = inbox, confirmed' = confirmed
    PROVE  Channel!Send(p)
<1>1. writer \in [Peers -> Writer] /\ Direction(p)
  BY DEF IInv, TypeOK
<1>2. confirmed[p] = writer[p].msg
  BY <1>1, UnusedOr DEF Unused, Idle, Writing
<1>3. /\ writer'[p].msg = writer[p].msg + 1 /\ writer'[p].state = "send"
      /\ \A r \in Peers : r # p => writer'[r] = writer[r]
  BY <1>1 DEF StartWrite
<1>4. p \notin Down /\ Sent[p] = confirmed[p]
  BY <1>2 DEF Down, Failed, Sent
<1>5. Sent' = [Sent EXCEPT ![p] = @ + 1]
  BY <1>3 DEF Sent
<1>6. Received' = Received
  BY PeersOK DEF Received
<1>7. Down' = Down
  BY <1>3 DEF Down, Failed
<1> QED
  BY <1>4, <1>5, <1>6, <1>7 DEF Channel!Send, Sent, Received, Down

\* A try that failed: nothing, or the last one and the stream goes down.
LEMMA RetryIsDown ==
    ASSUME IInv, NEW p \in Peers, SendError(p) \/ Timeout(p)
    PROVE  Channel!GoDown(p) \/ Abstract' = Abstract
<1>1. /\ writer \in [Peers -> Writer] /\ Direction(p) /\ RetryOrFail(p)
      /\ writer[p].state \in {"send", "waiting"} /\ inbox' = inbox /\ confirmed' = confirmed
  BY DEF IInv, TypeOK, SendError, Timeout
<1>2. confirmed[p] = writer[p].msg - 1 /\ writer[p].msg \in Nat
  BY <1>1, Busy, UnusedOr, SendingOK DEF Writing
<1>3. CASE writer[p].try < MaxRetries
  <2>1. writer' = [writer EXCEPT ![p] = [writer[p] EXCEPT !.state = "send", !.try = @ + 1]]
    BY <1>1, <1>3 DEF RetryOrFail
  <2>2. /\ writer'[p].msg = writer[p].msg /\ writer'[p].state = "send"
        /\ \A r \in Peers : r # p => writer'[r] = writer[r]
    BY <1>1, <2>1 DEF Writer
  <2> QED
    BY <1>1, <2>2, Stutters DEF Failed
<1>4. CASE ~(writer[p].try < MaxRetries)
  <2>1. writer' = [writer EXCEPT ![p] = [writer[p] EXCEPT !.state = "failed"]]
    BY <1>1, <1>4 DEF RetryOrFail
  <2>2. /\ writer'[p].msg = writer[p].msg /\ writer'[p].state = "failed"
        /\ \A r \in Peers : r # p => writer'[r] = writer[r]
    BY <1>1, <2>1 DEF Writer
  <2>3. Sent' = Sent /\ Received' = Received /\ Down' = Down \cup {p}
    BY <1>1, <2>2, PeersOK DEF Sent, Received, Down, Failed
  <2>4. confirmed[p] < Sent[p]
    BY <1>2 DEF Sent
  <2> QED
    BY <1>1, <2>3, <2>4 DEF Channel!GoDown, Sent, Received, Down
<1> QED
  BY <1>3, <1>4

\* The last piece has been acknowledged: the write is confirmed.
LEMMA ContinueIsConfirm ==
    ASSUME IInv, NEW p \in Peers, Continue(p)
    PROVE  Channel!Confirm(p) \/ Abstract' = Abstract
<1> DEFINE q == Other(p)
<1>1. /\ writer \in [Peers -> Writer] /\ Direction(p) /\ ~Unused(p) /\ q \in Peers
      /\ writer[p].state = "acked" /\ inbox' = inbox /\ confirmed \in [Peers -> Nat]
  BY Busy, PeersOK DEF IInv, TypeOK, Continue
<1>2. Writing(p) /\ Reading(p) /\ Taken(p) /\ confirmed[p] = writer[p].msg - 1
  BY <1>1, UnusedOr DEF Writing
<1>3. /\ writer[p].msg \in Nat \ {0} /\ writer[p].piece \in 1 .. Size(p)
      /\ Size(p) \in Nat \ {0} /\ Got(p) = writer[p].piece /\ Size(p) = Pieces[p][writer[p].msg]
  BY <1>2, SendingOK DEF Writing, Got, Size
<1>4. CASE writer[p].piece < Pieces[p][writer[p].msg]
  <2>1. /\ writer' = [writer EXCEPT ![p].state = "send", ![p].piece = @ + 1, ![p].try = 1]
        /\ confirmed' = confirmed
    BY <1>4 DEF Continue
  <2>2. /\ writer'[p].msg = writer[p].msg /\ writer'[p].state = "send"
        /\ \A r \in Peers : r # p => writer'[r] = writer[r]
    BY <1>1, <2>1 DEF Writer
  <2> QED
    BY <1>1, <2>1, <2>2, Stutters DEF Failed
<1>5. CASE ~(writer[p].piece < Pieces[p][writer[p].msg])
  <2>1. /\ writer' = [writer EXCEPT ![p].state = "idle"]
        /\ confirmed' = [confirmed EXCEPT ![p] = @ + 1]
    BY <1>5 DEF Continue
  <2>2. /\ writer'[p].msg = writer[p].msg /\ writer'[p].state = "idle"
        /\ \A r \in Peers : r # p => writer'[r] = writer[r]
    BY <1>1, <2>1 DEF Writer
  <2>3. Sent' = Sent /\ Received' = Received /\ Down' = Down
    BY <1>1, <2>2, PeersOK DEF Sent, Received, Down, Failed
  <2>4. p \notin Down /\ confirmed[p] < Sent[p]
    BY <1>1, <1>2, <1>3 DEF Down, Failed, Sent
  <2>5. confirmed[p] < Len(Received[p]) \/ Down \ {p} # {}
    <3>1. CASE Failed(q)
      BY <1>1, <3>1, PeersOK DEF Down
    <3>2. CASE ~Failed(q)
      <4>1. Len(inbox[q]) = writer[p].msg
        BY <1>2, <1>3, <1>5, <3>2 DEF Reading
      <4> QED
        BY <1>2, <1>3, <4>1 DEF Received
    <3> QED
      BY <3>1, <3>2
  <2> QED
    BY <2>1, <2>3, <2>4, <2>5 DEF Channel!Confirm, Sent, Received, Down
<1> QED
  BY <1>4, <1>5

\* The last piece of a message is taken: the message has arrived.
LEMMA DataIsReceive ==
    ASSUME IInv, NEW p \in Peers, ReceiveData(p)
    PROVE  Channel!Receive(Other(p)) \/ Abstract' = Abstract
<1> DEFINE q == Other(p)  k == writer[q].msg
<1>1. /\ q \in Peers /\ q # p /\ Other(q) = p /\ confirmed' = confirmed /\ k \in Nat \ {0}
      /\ inbox \in [Peers -> Seq(Seq(Nat \X Nat))]
  BY DataFacts DEF IInv, TypeOK
<1>2. /\ \A r \in Peers : writer'[r].msg = writer[r].msg
      /\ \A r \in Peers : Failed(r)' <=> Failed(r)
  <2>1. /\ writer'[p].msg = writer[p].msg /\ writer'[q] = writer[q]
        /\ (Failed(p)' <=> Failed(p)) /\ (Failed(q)' <=> Failed(q))
    BY DataWriter
  <2> QED
    BY <2>1 DEF Peers, Other
<1>3. /\ inbox' \in [Peers -> Seq(Seq(Nat \X Nat))] /\ inbox'[q] = inbox[q]
      /\ inbox'[p] = inbox[p]
         \/ (inbox'[p] = Append(inbox[p], Whole(q, k)) /\ Len(inbox[p]) = k - 1)
  BY DataInbox
<1>4. CASE inbox'[p] = inbox[p]
  <2>1. inbox' = inbox
    <3>1. \A r \in Peers : inbox'[r] = inbox[r]
      BY <1>3, <1>4 DEF Peers, Other
    <3> QED
      BY <1>1, <1>3, <3>1
  <2> QED
    BY <1>1, <1>2, <2>1, Stutters
<1>5. CASE inbox'[p] = Append(inbox[p], Whole(q, k)) /\ Len(inbox[p]) = k - 1
  <2>1. Received[q] = inbox[p] /\ Sent[q] = k
    BY <1>1 DEF Received, Sent
  <2>2. Len(Received[q]) < Sent[q] /\ Len(Received[q]) + 1 = k
    BY <1>1, <1>5, <2>1
  <2>3. Received' = [Received EXCEPT ![q] = Append(@, Whole(q, Len(Received[q]) + 1))]
    <3>1. Received' = [r \in Peers |-> inbox'[Other(r)]]
      BY DEF Received
    <3>2. \A r \in Peers : r # q => Other(r) = q
      BY <1>1 DEF Peers, Other
    <3> QED
      BY <1>1, <1>3, <1>5, <2>1, <2>2, <3>1, <3>2 DEF Received
  <2>4. Sent' = Sent /\ Down' = Down
    BY <1>2 DEF Sent, Down
  <2> QED
    BY <1>1, <2>2, <2>3, <2>4 DEF Channel!Receive, Sent, Received, Down
<1> QED
  BY <1>3, <1>4, <1>5

LEMMA StepChannel ==
    IInv /\ [Next]_vars => Channel!Next \/ Abstract' = Abstract
<1> SUFFICES ASSUME IInv, [Next]_vars PROVE Channel!Next \/ Abstract' = Abstract
  OBVIOUS
<1>1. CASE Request
  <2>1. Channel!Send("pc")
    BY <1>1, StartIsSend, PeersOK DEF Request, Written
  <2> QED
    BY <2>1, PeersOK DEF Channel!Next
<1>2. CASE Reply
  <2>1. Channel!Send("palm")
    BY <1>2, StartIsSend, PeersOK DEF Reply, Written
  <2> QED
    BY <2>1, PeersOK DEF Channel!Next
<1>3. ASSUME NEW p \in Peers, WriterStep(p) PROVE Channel!Next \/ Abstract' = Abstract
  <2>1. writer \in [Peers -> Writer]
    BY DEF IInv, TypeOK
  <2>2. CASE Send(p)
    <3>1. /\ writer'[p].msg = writer[p].msg /\ writer'[p].state = "flushing"
          /\ writer[p].state = "send"
          /\ \A r \in Peers : r # p => writer'[r] = writer[r]
      BY <2>1, <2>2 DEF Send, Writer
    <3> QED
      BY <2>2, <3>1, Stutters DEF Send, Failed
  <2>3. CASE Listen(p)
    <3>1. ackListener[p] = None /\ writer[p].state = "flushing"
      BY <2>3, Busy, UnusedOr DEF IInv, Listen, Writing
    <3>2. writer' = [writer EXCEPT ![p].state = "waiting"] /\ inbox' = inbox
          /\ confirmed' = confirmed
      BY <2>3, <3>1 DEF Listen
    <3>3. /\ writer'[p].msg = writer[p].msg /\ writer'[p].state = "waiting"
          /\ \A r \in Peers : r # p => writer'[r] = writer[r]
      BY <2>1, <3>2 DEF Writer
    <3> QED
      BY <3>1, <3>2, <3>3, Stutters DEF Failed
  <2>4. CASE SendError(p) \/ Timeout(p)
    BY <2>4, RetryIsDown DEF Channel!Next
  <2>5. CASE Continue(p)
    BY <2>5, ContinueIsConfirm DEF Channel!Next
  <2> QED
    BY <1>3, <2>2, <2>3, <2>4, <2>5 DEF WriterStep
<1>4. ASSUME NEW p \in Peers, ReaderStep(p) PROVE Channel!Next \/ Abstract' = Abstract
  <2>1. writer \in [Peers -> Writer] /\ Direction(p) /\ Other(p) \in Peers
    BY PeersOK DEF IInv, TypeOK
  <2>2. CASE ReceiveAck(p)
    <3>1. /\ writer' = writer \/ writer' = [writer EXCEPT ![p].state = "acked"]
          /\ inbox' = inbox /\ confirmed' = confirmed
          /\ writer' # writer => ackListener[p] # None
      BY <2>2 DEF ReceiveAck, Resolve, Acknowledges
    <3>2. CASE writer' = writer
      BY <3>1, <3>2, Stutters DEF Failed
    <3>3. CASE writer' # writer
      <4>1. writer[p].state = "waiting"
        BY <2>1, <3>1, <3>3, UnusedOr DEF Unused, Writing
      <4>2. /\ writer'[p].msg = writer[p].msg /\ writer'[p].state = "acked"
            /\ \A r \in Peers : r # p => writer'[r] = writer[r]
        BY <2>1, <3>1, <3>3 DEF Writer
      <4> QED
        BY <3>1, <4>1, <4>2, Stutters DEF Failed
    <3> QED
      BY <3>2, <3>3
  <2>3. CASE ReceiveDuplicate(p)
    BY <2>3, Stutters DEF ReceiveDuplicate, Failed
  <2>4. CASE ReceiveData(p)
    BY <2>1, <2>4, DataIsReceive DEF Channel!Next
  <2> QED
    BY <1>4, <2>2, <2>3, <2>4 DEF ReaderStep
<1>5. ASSUME NEW p \in Peers, Lose(p) PROVE Abstract' = Abstract
  BY <1>5, Stutters DEF Lose, Failed
<1>6. CASE UNCHANGED vars
  BY <1>6, Stutters DEF vars, Failed
<1> QED
  BY <1>1, <1>2, <1>3, <1>4, <1>5, <1>6 DEF Next

\* Two PADP streams over a link that loses datagrams implement the reliable
\* channel: what is received is what was sent, in order, and a write that
\* reports success has been received, unless the other side has gone down.
THEOREM ReliableStream == Spec => ImplementsReliableChannel
<1>1. Init => Channel!Init
  BY InitChannel
<1>2. IInv /\ [Next]_vars =>
         [Channel!Next]_<<[p \in Peers |-> writer[p].msg],
                          [p \in Peers |-> inbox[Other(p)]], confirmed,
                          {p \in Peers : Failed(p)}>>
  BY StepChannel DEF Abstract, Sent, Received, Down
<1> QED
  BY <1>1, <1>2, Invariant, PTL DEF Spec, ImplementsReliableChannel, Channel!Spec
=============================================================================

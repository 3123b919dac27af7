--------------------------- MODULE SyncEnd_proofs ---------------------------
(***************************************************************************)
(* The disconnect event means that the device has taken the end of the     *)
(* sync: no answer to DlpEndOfSync from an earlier session on the same     *)
(* line is ever taken for the one of this session.                         *)
(***************************************************************************)
EXTENDS SyncServer_proofs, SequenceTheorems

Signals == {"wakeup", "init", "ack", "hs1", "rsp1", "hs2", "rsp2", "hs3"}
Msg == {Message(what) : what \in Signals} \cup {Request(k) : k \in Nat}
       \cup {Answer(k, ok) : k \in Nat, ok \in BOOLEAN}
Has(q, what) == \E i \in 1 .. Len(q) : q[i].what = what

\* With CMP underneath: one INIT per connection, and so one ACK, after which
\* nothing that an earlier connection has left can follow.  phase is where
\* onConnection() is, s its stream, u and d the messages up and down.
CmpOK(phase, s, u, d) ==
    /\ phase = "initAck" =>
          /\ s \in {"up", "gone"}
          /\ d = <<>> \/ (Len(d) = 1 /\ d[1].what = "init" /\ ~Has(u, "ack"))
          /\ \A i, j \in 1 .. Len(u) :
                i < j /\ u[i].what = "ack" => u[j].what \notin {"ack", "answer"}
    /\ phase \notin {"hs1", "hs2", "hs3"}
    /\ phase = "wakeup" => d = <<>>
    /\ phase # "initAck" =>
          /\ ~Has(u, "ack")
          /\ Has(d, "init") => phase = "failed" /\ s # "up"

\* With NetSync underneath: one message is on its way at a time.
NetOK(phase, s, u, d) ==
    /\ phase \notin {"wakeup", "initAck"}
    /\ Len(u) <= 1
    /\ s = "up" =>
          /\ Len(u) + Len(d) <= 1
          /\ phase \in {"none", "failed", "done", "busy"} => d = <<>>
          /\ phase = "busy" => u = <<>>

\* The connection has ended, or may take a message for the answer to its
\* DlpEndOfSync.
EndTold(phase, u) ==
    \/ phase = "done"
    \/ phase \in {"request", "busy"} /\ \E i \in 1 .. Len(u) : u[i] = Answer(Last, TRUE)

LinkOK(l) ==
    /\ stack = "cmp" => CmpOK(conn[l].phase, stream[l], up[l], down[l])
    /\ stack = "netsync" =>
          /\ NetOK(conn[l].phase, stream[l], up[l], down[l])
          /\ dev[l] # "waking"
          /\ kind = "tcp" /\ conn[l].phase = "none" => up[l] = <<>>
    /\ EndTold(conn[l].phase, up[l]) => l \in ended

\* The inductive invariant, next to IInv.
Queues ==
    /\ stack \in {"cmp", "netsync"}
    /\ stack = "netsync" => kind \in {"tcp", "usb"}
    /\ up \in [Links -> Seq(Msg)] /\ down \in [Links -> Seq(Msg)]
    /\ \A l \in Links : LinkOK(l)

LEMMA InitQueues == Init => Queues
<1> SUFFICES ASSUME Init PROVE Queues
  OBVIOUS
<1>1. stack \in {"cmp", "netsync"} /\ (stack = "netsync" => kind \in {"tcp", "usb"})
  BY DEF Init
<1>2. up \in [Links -> Seq(Msg)] /\ down \in [Links -> Seq(Msg)]
  BY DEF Init
<1>3. ASSUME NEW l \in Links PROVE LinkOK(l)
  <2>1. conn[l].phase = "none" /\ up[l] = <<>> /\ down[l] = <<>> /\ dev[l] = "off"
    BY DEF Init, At
  <2> QED
    BY <2>1 DEF LinkOK, CmpOK, NetOK, EndTold, Has
<1> QED
  BY <1>1, <1>2, <1>3 DEF Queues

-----------------------------------------------------------------------------
(* Messages and queues.                                                    *)

LEMMA Messages ==
    /\ \A what \in Signals : Message(what) \in Msg /\ Message(what).what = what
    /\ \A k \in Nat : Request(k) \in Msg /\ Request(k).what = "request"
    /\ \A k \in Nat, ok \in BOOLEAN :
          /\ Answer(k, ok) \in Msg /\ Answer(k, ok).what = "answer"
          /\ Answer(k, ok).req = k
    /\ \A m \in Msg : m.req \in Nat
<1>1. ASSUME NEW what \in Signals PROVE Message(what) \in Msg
  BY <1>1 DEF Msg
<1>2. ASSUME NEW k \in Nat PROVE Request(k) \in Msg
  BY <1>2 DEF Msg
<1>3. ASSUME NEW k \in Nat, NEW ok \in BOOLEAN PROVE Answer(k, ok) \in Msg
  BY <1>3 DEF Msg
<1>4. /\ \A what : Message(what).what = what /\ Message(what).req = 0
      /\ \A k : Request(k).what = "request" /\ Request(k).req = k
      /\ \A k, ok : Answer(k, ok).what = "answer" /\ Answer(k, ok).req = k
  BY DEF Message, Request, Answer
<1>5. ASSUME NEW m \in Msg PROVE m.req \in Nat
  BY <1>4, <1>5 DEF Msg
<1> QED
  BY <1>1, <1>2, <1>3, <1>4, <1>5

LEMMA TailTyped ==
    ASSUME NEW q \in Seq(Msg), q # <<>>
    PROVE  /\ Tail(q) \in Seq(Msg) /\ Len(Tail(q)) = Len(q) - 1
           /\ \A i \in 1 .. Len(q) - 1 : Tail(q)[i] = q[i + 1]
           /\ Head(q) = q[1] /\ Head(q) \in Msg
           /\ \A what : Has(Tail(q), what) => Has(q, what)
<1>1. /\ Tail(q) \in Seq(Msg) /\ Len(Tail(q)) = Len(q) - 1
      /\ \A i \in 1 .. Len(q) - 1 : Tail(q)[i] = q[i + 1]
      /\ Head(q) = q[1] /\ Head(q) \in Msg
  OBVIOUS
<1>2. ASSUME NEW what, Has(Tail(q), what) PROVE Has(q, what)
  BY <1>1, <1>2 DEF Has
<1> QED
  BY <1>1, <1>2

LEMMA AppendTyped ==
    ASSUME NEW q \in Seq(Msg), NEW m \in Msg
    PROVE  /\ Append(q, m) \in Seq(Msg) /\ Len(Append(q, m)) = Len(q) + 1
           /\ \A i \in 1 .. Len(q) : Append(q, m)[i] = q[i]
           /\ Append(q, m)[Len(q) + 1] = m
           /\ \A what : Has(Append(q, m), what) <=> Has(q, what) \/ m.what = what
<1>1. /\ Append(q, m) \in Seq(Msg) /\ Len(Append(q, m)) = Len(q) + 1
      /\ \A i \in 1 .. Len(q) : Append(q, m)[i] = q[i]
      /\ Append(q, m)[Len(q) + 1] = m
  OBVIOUS
<1>2. ASSUME NEW what PROVE Has(Append(q, m), what) <=> Has(q, what) \/ m.what = what
  BY <1>1 DEF Has
<1> QED
  BY <1>1, <1>2

\* Reading a message keeps what is said of a connection that stays where it is.
LEMMA TailKeeps ==
    ASSUME NEW u \in Seq(Msg), u # <<>>, NEW phase, NEW s, NEW d
    PROVE  /\ CmpOK(phase, s, u, d) => CmpOK(phase, s, Tail(u), d)
           /\ NetOK(phase, s, u, d) /\ d \in Seq(Msg) => NetOK(phase, s, Tail(u), d)
           /\ EndTold(phase, Tail(u)) => EndTold(phase, u)
<1>1. CmpOK(phase, s, u, d) => CmpOK(phase, s, Tail(u), d)
  BY TailTyped DEF CmpOK
<1>2. NetOK(phase, s, u, d) /\ d \in Seq(Msg) => NetOK(phase, s, Tail(u), d)
  BY TailTyped DEF NetOK
<1>3. ASSUME EndTold(phase, Tail(u)), phase # "done" PROVE EndTold(phase, u)
  <2>1. PICK i \in 1 .. Len(Tail(u)) : Tail(u)[i] = Answer(Last, TRUE)
    BY <1>3 DEF EndTold
  <2> DEFINE n == Len(u)
  <2>2. n \in Nat /\ Len(Tail(u)) = n - 1 /\ \A j \in 1 .. n - 1 : Tail(u)[j] = u[j + 1]
    BY TailTyped
  <2>3. i \in 1 .. n - 1 /\ u[i + 1] = Answer(Last, TRUE)
    BY <2>1, <2>2
  <2>4. i + 1 \in 1 .. n
    BY <2>2, <2>3
  <2> QED
    BY <1>3, <2>3, <2>4 DEF EndTold
<1> QED
  BY <1>1, <1>2, <1>3 DEF EndTold

\* A step that changes link l and keeps what is said of it.
LEMMA OneLink ==
    ASSUME Queues, NEW l \in Links, UNCHANGED <<kind, stack>>,
           up' \in [Links -> Seq(Msg)], down' \in [Links -> Seq(Msg)],
           \A j \in Links \ {l} :
              /\ conn'[j] = conn[j] /\ stream'[j] = stream[j] /\ dev'[j] = dev[j]
              /\ up'[j] = up[j] /\ down'[j] = down[j]
              /\ j \in ended' <=> j \in ended,
           LinkOK(l)'
    PROVE  Queues'
<1>1. Links' = Links
  BY DEF Links
<1>2. ASSUME NEW j \in Links \ {l} PROVE LinkOK(j)'
  BY DEF Queues, LinkOK
<1> QED
  BY <1>1, <1>2 DEF Queues

-----------------------------------------------------------------------------
(* Where onConnection() goes on one link, and what it sends.               *)

\* Only the connection of link l moves, to phase.
To(l, phase) ==
    /\ conn'[l].phase = phase
    /\ \A j \in Links \ {l} : conn'[j] = conn[j]

\* Nothing is sent on link l, or message m is.
Sends(l, m) == down' = [down EXCEPT ![l] = Append(@, m)]

LEMMA SendsTyped ==
    ASSUME Queues, NEW l \in Links, NEW m \in Msg, Sends(l, m)
    PROVE  /\ down' \in [Links -> Seq(Msg)] /\ down'[l] = Append(down[l], m)
           /\ \A j \in Links \ {l} : down'[j] = down[j]
BY AppendTyped DEF Queues, Sends

LEMMA AskTo ==
    ASSUME IInv, NEW l \in Links, NEW k \in Nat, Ask(l, k)
    PROVE  To(l, "request") /\ (UNCHANGED down \/ Sends(l, Request(k)))
BY DEF Ask, At, To, Sends, IInv, TypeOK

LEMMA ThrowsTo ==
    ASSUME IInv, NEW l \in Links, OnConnectionThrows(l)
    PROVE  To(l, "failed") /\ UNCHANGED down
BY DEF OnConnectionThrows, At, To, IInv, TypeOK

LEMMA ThrowTo ==
    ASSUME IInv, NEW l \in Links, Throw(l)
    PROVE  \/ To(l, "failed") /\ UNCHANGED down
           \/ /\ conn[l].phase = "request" /\ To(l, "request")
              /\ UNCHANGED down \/ Sends(l, Request(Last))
BY AskTo, ThrowsTo, LastIsNat DEF Throw

\* What cannot be taken for the answer to DlpEndOfSync.
LEMMA NotTold ==
    /\ \A u, phase : phase \notin {"done", "request", "busy"} => ~EndTold(phase, u)
    /\ \A phase : phase # "done" => ~EndTold(phase, <<>>)
    /\ \A u : EndTold("busy", u) <=> EndTold("request", u)
<1>1. ASSUME NEW u, NEW phase, phase \notin {"done", "request", "busy"}
      PROVE  ~EndTold(phase, u)
  BY <1>1 DEF EndTold
<1>2. ASSUME NEW phase, phase # "done" PROVE ~EndTold(phase, <<>>)
  <2>1. 1 .. Len(<<>>) = {}
    OBVIOUS
  <2> QED
    BY <1>2, <2>1 DEF EndTold
<1>3. ASSUME NEW u PROVE EndTold("busy", u) <=> EndTold("request", u)
  BY DEF EndTold
<1> QED
  BY <1>1, <1>2, <1>3

\* Nothing happens on any link.
LEMMA Nowhere ==
    ASSUME Queues, UNCHANGED <<kind, stack, conn, stream, up, down, dev, ended>>
    PROVE  Queues'
<1>1. Links' = Links
  BY DEF Links
<1>2. ASSUME NEW j \in Links PROVE LinkOK(j)'
  BY DEF Queues, LinkOK
<1> QED
  BY <1>1, <1>2 DEF Queues

\* A wait that throws: the device has gone, or the stream has.
LEMMA ThrowOK ==
    ASSUME IInv, Queues, NEW l \in Links, Waiting(l), Throw(l),
           UNCHANGED <<kind, stack, ended>>,
           conn[l].phase # "initAck" \/ up'[l] = <<>>,
           stream'[l] # "up", dev'[l] = dev[l] \/ dev'[l] = "off",
           up'[l] = up[l] \/ up'[l] = <<>>,
           \A j \in Links \ {l} :
              stream'[j] = stream[j] /\ up'[j] = up[j] /\ dev'[j] = dev[j],
           up' \in [Links -> Seq(Msg)]
    PROVE  Queues'
<1> DEFINE u == up[l]
           d == down[l]
<1>1. LinkOK(l) /\ u \in Seq(Msg) /\ d \in Seq(Msg) /\ Len(u) \in Nat
  BY DEF Queues
<1>2. Request(Last) \in Msg /\ Request(Last).what = "request"
  BY Messages, LastIsNat
<1>3. /\ down' \in [Links -> Seq(Msg)]
      /\ \A j \in Links \ {l} : conn'[j] = conn[j] /\ down'[j] = down[j]
      /\ down'[l] = d \/ (conn'[l].phase = "request" /\ down'[l] = Append(d, Request(Last)))
      /\ conn'[l].phase = "failed"
         \/ (conn[l].phase = "request" /\ conn'[l].phase = "request")
  BY <1>2, ThrowTo, SendsTyped DEF To, Queues
<1>4. Has(down'[l], "init") => Has(d, "init")
  <2>1. Has(Append(d, Request(Last)), "init") <=> Has(d, "init") \/ Request(Last).what = "init"
    BY <1>1, <1>2, AppendTyped
  <2> QED
    BY <1>2, <1>3, <2>1
<1>5. CASE stack = "cmp"
  <2>1. CmpOK(conn[l].phase, stream[l], u, d)
    BY <1>1, <1>5 DEF LinkOK
  <2>2. ~Has(up'[l], "ack")
    <3>1. ~Has(<<>>, "ack")
      BY DEF Has
    <3> QED
      BY <2>1, <3>1 DEF CmpOK
  <2>3. CmpOK(conn'[l].phase, stream'[l], up'[l], down'[l])
    BY <1>3, <1>4, <2>1, <2>2 DEF CmpOK
  <2>4. EndTold(conn'[l].phase, up'[l]) => EndTold(conn[l].phase, u)
    BY <1>3, NotTold
  <2>5. LinkOK(l)'
    BY <1>1, <1>3, <1>5, <2>3, <2>4 DEF LinkOK
  <2> QED
    BY <1>3, <2>5, OneLink
<1>6. CASE stack = "netsync"
  <2>1. NetOK(conn[l].phase, stream[l], u, d)
    BY <1>1, <1>6 DEF LinkOK
  <2>2. NetOK(conn'[l].phase, stream'[l], up'[l], down'[l])
    BY <1>1, <1>3, <2>1 DEF NetOK
  <2>3. EndTold(conn'[l].phase, up'[l]) => EndTold(conn[l].phase, u)
    BY <1>3, NotTold
  <2>4. conn'[l].phase # "none" /\ dev'[l] # "waking"
    BY <1>1, <1>3, <1>6 DEF LinkOK
  <2>5. LinkOK(l)'
    BY <1>1, <1>3, <1>6, <2>2, <2>3, <2>4 DEF LinkOK
  <2> QED
    BY <1>3, <2>5, OneLink
<1> QED
  BY <1>5, <1>6 DEF Queues

-----------------------------------------------------------------------------
(* The steps.                                                              *)

LEMMA InitAckIsUp ==
    ASSUME Queues, NEW l \in Links, conn[l].phase = "initAck"
    PROVE  stack = "cmp" /\ stream[l] \in {"up", "gone"}
BY DEF Queues, LinkOK, CmpOK, NetOK

LEMMA SecondErrorOK == ASSUME IInv, Queues, NEW l \in Links, SecondError(l) PROVE Queues'
<1>1. /\ Waiting(l) /\ Throw(l) /\ stream[l] = "errored"
      /\ UNCHANGED <<kind, stack, ended, up, dev>>
      /\ stream' = [stream EXCEPT ![l] = "closed"]
  BY DEF SecondError
<1>2. stream'[l] # "up" /\ \A j \in Links \ {l} : stream'[j] = stream[j]
  BY <1>1 DEF IInv, TypeOK
<1>3. conn[l].phase # "initAck" /\ up' \in [Links -> Seq(Msg)]
  BY <1>1, InitAckIsUp DEF Queues
<1> QED
  BY <1>1, <1>2, <1>3, ThrowOK

\* A step that no connection takes part in.
LEMMA AsideOK ==
    ASSUME IInv, Queues, NEW l \in Links, UNCHANGED <<kind, stack, conn, down, ended>>,
           stream' = [stream EXCEPT ![l] = stream'[l]],
           stream'[l] = "up" => stream[l] = "up",
           conn[l].phase = "initAck" => stream'[l] \in {"up", "gone"},
           dev' = [dev EXCEPT ![l] = dev'[l]], dev'[l] = dev[l] \/ dev'[l] = "off",
           up' \in [Links -> Seq(Msg)], up' = [up EXCEPT ![l] = up'[l]],
           up'[l] = up[l] \/ up'[l] = <<>> \/ (up[l] # <<>> /\ up'[l] = Tail(up[l]))
    PROVE  Queues'
<1> DEFINE u == up[l]
           d == down[l]
           p == conn[l].phase
<1>1. LinkOK(l) /\ u \in Seq(Msg) /\ d \in Seq(Msg) /\ Len(u) \in Nat /\ Len(d) \in Nat
  BY DEF Queues
<1>2. \A j \in Links \ {l} :
         /\ conn'[j] = conn[j] /\ stream'[j] = stream[j] /\ dev'[j] = dev[j]
         /\ up'[j] = up[j] /\ down'[j] = down[j]
  BY DEF Queues, IInv, TypeOK
<1>3. EndTold(p, up'[l]) => p = "done" \/ EndTold(p, u)
  <2>1. CASE up'[l] = <<>>
    BY <2>1, NotTold
  <2>2. CASE u # <<>> /\ up'[l] = Tail(u)
    BY <1>1, <2>2, TailKeeps
  <2> QED
    BY <2>1, <2>2
<1>4. p = "done" => EndTold(p, u)
  BY DEF EndTold
<1>5. CASE stack = "cmp"
  <2>1. CmpOK(p, stream[l], u, d)
    BY <1>1, <1>5 DEF LinkOK
  <2>2. CmpOK(p, stream[l], up'[l], d)
    <3>1. ~Has(<<>>, "ack")
      BY DEF Has
    <3>2. CmpOK(p, stream[l], <<>>, d)
      BY <2>1, <3>1 DEF CmpOK
    <3>3. u # <<>> => CmpOK(p, stream[l], Tail(u), d)
      BY <1>1, <2>1, TailKeeps
    <3> QED
      BY <2>1, <3>2, <3>3
  <2>3. CmpOK(p, stream'[l], up'[l], d)
    BY <2>2 DEF CmpOK
  <2>4. LinkOK(l)'
    BY <1>1, <1>3, <1>4, <1>5, <2>3 DEF LinkOK
  <2> QED
    BY <1>2, <2>4, OneLink DEF Queues
<1>6. CASE stack = "netsync"
  <2>1. NetOK(p, stream[l], u, d)
    BY <1>1, <1>6 DEF LinkOK
  <2>2. Len(up'[l]) \in Nat /\ Len(up'[l]) <= Len(u)
    BY <1>1, TailTyped
  <2>3. u = <<>> => up'[l] = <<>>
    OBVIOUS
  <2>4. NetOK(p, stream'[l], up'[l], d)
    BY <1>1, <2>1, <2>2, <2>3 DEF NetOK
  <2>5. LinkOK(l)'
    BY <1>1, <1>3, <1>4, <1>6, <2>3, <2>4 DEF LinkOK
  <2> QED
    BY <1>2, <2>5, OneLink DEF Queues
<1> QED
  BY <1>5, <1>6 DEF Queues

LEMMA DropOK == ASSUME IInv, Queues, NEW l \in Links, Drop(l) PROVE Queues'
<1>1. up[l] \in Seq(Msg) /\ up[l] # <<>>
  BY DEF Drop, Queues
<1>2. Tail(up[l]) \in Seq(Msg)
  BY <1>1, TailTyped
<1>3. up' = [up EXCEPT ![l] = Tail(up[l])] /\ up' \in [Links -> Seq(Msg)]
  BY <1>2 DEF Drop, Queues
<1>4. up'[l] = Tail(up[l]) /\ up' = [up EXCEPT ![l] = up'[l]]
  BY <1>3 DEF Queues
<1>5. UNCHANGED <<kind, stack, conn, stream, down, dev, ended>>
  BY DEF Drop
<1>6. stream' = [stream EXCEPT ![l] = stream'[l]] /\ dev' = [dev EXCEPT ![l] = dev'[l]]
  BY <1>5 DEF IInv, TypeOK
<1> QED
  BY <1>1, <1>3, <1>4, <1>5, <1>6, InitAckIsUp, AsideOK

LEMMA LeavesOK ==
    ASSUME IInv, Queues, NEW l \in Links, NEW way, Leaves(l, way)
    PROVE  Queues'
<1>1. UNCHANGED <<kind, stack, ended>> /\ dev' = [dev EXCEPT ![l] = "off"] /\ dev'[l] = "off"
  BY DEF Leaves, IInv, TypeOK
<1> DEFINE none == [up EXCEPT ![l] = <<>>]
<1>0. /\ up \in [Links -> Seq(Msg)] /\ none \in [Links -> Seq(Msg)] /\ none[l] = <<>>
      /\ up' = IF way = "silent" THEN up ELSE none
  BY DEF Leaves, Queues
<1>2. /\ up'[l] = up[l] \/ up'[l] = <<>>
      /\ up' = [up EXCEPT ![l] = up'[l]] /\ up' \in [Links -> Seq(Msg)]
  BY <1>0
<1>3. CASE way = "error" /\ Waiting(l) /\ stream[l] = "up"
  <2>1. Throw(l) /\ up'[l] = <<>> /\ stream' = [stream EXCEPT ![l] = "errored"]
    <3>1. Throw(l)
      BY <1>3 DEF Leaves
    <3>2. stream' = [stream EXCEPT ![l] = "errored"]
      <4>1. way = "error" /\ Live(l) /\ stream[l] = "up"
        BY <1>3 DEF Live
      <4> QED
        BY <4>1 DEF Leaves
    <3>3. up'[l] = <<>>
      BY <1>0, <1>3
    <3> QED
      BY <3>1, <3>2, <3>3
  <2>2. stream'[l] # "up" /\ \A j \in Links \ {l} : stream'[j] = stream[j]
    BY <2>1 DEF IInv, TypeOK
  <2>3. \A j \in Links \ {l} : up'[j] = up[j] /\ dev'[j] = dev[j]
    BY <1>0, <1>1, <1>2 DEF IInv, TypeOK
  <2> QED
    BY <1>1, <1>2, <1>3, <2>1, <2>2, <2>3, ThrowOK
<1>4. CASE ~(way = "error" /\ Waiting(l) /\ stream[l] = "up")
  <2>1. UNCHANGED <<conn, down>>
    BY <1>4 DEF Leaves, Stay
  <2>2. \/ stream' = [stream EXCEPT ![l] = "errored"] /\ ~Waiting(l)
        \/ stream' = Hangup(l) \/ stream' = stream
    BY <1>4 DEF Leaves
  <2>3. stream' = [stream EXCEPT ![l] = stream'[l]] /\ (stream'[l] = "up" => stream[l] = "up")
    BY <2>2 DEF Hangup, IInv, TypeOK
  <2>4. conn[l].phase = "initAck" => stream'[l] \in {"up", "gone"}
    BY <2>2, InitAckIsUp DEF Hangup, Deaf, Waiting, IInv, TypeOK
  <2>5. dev' = [dev EXCEPT ![l] = dev'[l]]
    BY <1>1 DEF IInv, TypeOK
  <2> QED
    BY <1>1, <1>2, <2>1, <2>3, <2>4, <2>5, AsideOK
<1> QED
  BY <1>3, <1>4

\* Only an answer can be taken for the one to DlpEndOfSync.
LEMMA OnlyAnswersTell ==
    \A u, m : m \in Msg /\ u \in Seq(Msg) /\ m.what # "answer"
        => \A phase : EndTold(phase, Append(u, m)) => EndTold(phase, u)
<1> SUFFICES ASSUME NEW u \in Seq(Msg), NEW m \in Msg, m.what # "answer",
                    NEW phase, EndTold(phase, Append(u, m)), phase # "done"
             PROVE  EndTold(phase, u)
  BY DEF EndTold
<1>1. PICK i \in 1 .. Len(Append(u, m)) : Append(u, m)[i] = Answer(Last, TRUE)
  BY DEF EndTold
<1>2. Answer(Last, TRUE).what = "answer"
  BY DEF Answer
<1> DEFINE n == Len(u)
<1>3. n \in Nat /\ Len(Append(u, m)) = n + 1 /\ Append(u, m)[n + 1] = m
      /\ \A j \in 1 .. n : Append(u, m)[j] = u[j]
  BY AppendTyped
<1>4. i \in 1 .. n + 1 /\ i # n + 1
  BY <1>1, <1>2, <1>3
<1>5. i \in 1 .. n
  BY <1>3, <1>4
<1>6. u[i] = Answer(Last, TRUE)
  BY <1>1, <1>3, <1>5
<1> QED
  BY <1>5, <1>6 DEF EndTold

LEMMA RewakeOK == ASSUME IInv, Queues, NEW l \in Links, Rewake(l) PROVE Queues'
<1> DEFINE m == Message("wakeup")
<1>1. m \in Msg /\ m.what = "wakeup" /\ up[l] = <<>> /\ dev[l] = "waking"
  <2>1. m \in Msg /\ m.what = "wakeup"
    BY Messages DEF Signals
  <2>2. up[l] = <<>> /\ dev[l] = "waking"
    BY DEF Rewake
  <2> QED
    BY <2>1, <2>2
<1>2. up' = [up EXCEPT ![l] = <<m>>] /\ up'[l] = <<m>> /\ up' \in [Links -> Seq(Msg)]
  <2>1. <<m>> \in Seq(Msg) /\ up \in [Links -> Seq(Msg)]
    BY <1>1 DEF Queues
  <2>2. up' = [up EXCEPT ![l] = <<m>>]
    BY DEF Rewake
  <2> QED
    BY <2>1, <2>2
<1>3. UNCHANGED <<kind, stack, conn, stream, down, dev, ended>>
  BY DEF Rewake
<1>4. LinkOK(l) /\ stack = "cmp"
  BY <1>1 DEF Queues, LinkOK
<1>5. CmpOK(conn[l].phase, stream[l], <<m>>, down[l])
  <2>1. CmpOK(conn[l].phase, stream[l], up[l], down[l])
    BY <1>4 DEF LinkOK
  <2>2. ~Has(<<m>>, "ack") /\ Len(<<m>>) = 1
    BY <1>1 DEF Has
  <2> QED
    BY <2>1, <2>2 DEF CmpOK
<1>6. EndTold(conn[l].phase, <<m>>) => EndTold(conn[l].phase, up[l])
  <2>1. <<>> \in Seq(Msg) /\ Append(<<>>, m) = <<m>>
    BY <1>1
  <2> QED
    BY <1>1, <2>1, OnlyAnswersTell
<1>7. LinkOK(l)'
  BY <1>2, <1>3, <1>4, <1>5, <1>6 DEF LinkOK
<1>8. \A j \in Links \ {l} : up'[j] = up[j]
  BY <1>2 DEF Queues
<1> QED
  BY <1>2, <1>3, <1>7, <1>8, OneLink DEF Queues

LEMMA WorkOK == ASSUME IInv, Queues, NEW l \in Links, Work(l) PROVE Queues'
<1> DEFINE u == up[l]
           d == down[l]
<1>1. /\ conn[l].phase = "busy" /\ UNCHANGED <<kind, stack, stream, up, dev, ended>>
      /\ \E k \in Nat : Ask(l, k)
  BY LastIsNat DEF Work, IInv, TypeOK
<1>2. PICK k \in Nat : Ask(l, k)
  BY <1>1
<1>3. To(l, "request") /\ (UNCHANGED down \/ Sends(l, Request(k)))
  BY <1>2, AskTo
<1>4. Request(k) \in Msg /\ Request(k).what = "request"
  BY Messages
<1>5. LinkOK(l) /\ u \in Seq(Msg) /\ d \in Seq(Msg) /\ Len(d) \in Nat /\ Len(u) \in Nat
  BY DEF Queues
<1>6. /\ down' \in [Links -> Seq(Msg)]
      /\ \A j \in Links \ {l} : conn'[j] = conn[j] /\ down'[j] = down[j]
      /\ down'[l] = d \/ down'[l] = Append(d, Request(k))
      /\ conn'[l].phase = "request"
  BY <1>3, <1>4, SendsTyped DEF To, Queues
<1>7. /\ Has(Append(d, Request(k)), "init") <=> Has(d, "init")
      /\ Len(Append(d, Request(k))) = Len(d) + 1
  <2>1. Has(Append(d, Request(k)), "init") <=> Has(d, "init") \/ Request(k).what = "init"
    BY <1>4, <1>5, AppendTyped
  <2> QED
    BY <1>4, <1>5, <2>1
<1>8. stack = "cmp" => CmpOK("request", stream[l], u, down'[l])
  BY <1>1, <1>5, <1>6, <1>7 DEF LinkOK, CmpOK
<1>9. stack = "netsync" => NetOK("request", stream[l], u, down'[l])
  <2> SUFFICES ASSUME stack = "netsync" PROVE NetOK("request", stream[l], u, down'[l])
    OBVIOUS
  <2>1. NetOK("busy", stream[l], u, d)
    BY <1>1, <1>5 DEF LinkOK
  <2>2. stream[l] = "up" => Len(d) = 0 /\ Len(u) = 0
    BY <2>1 DEF NetOK
  <2> QED
    BY <1>5, <1>6, <1>7, <2>1, <2>2 DEF NetOK
<1>10. LinkOK(l)'
  BY <1>1, <1>5, <1>6, <1>8, <1>9, NotTold DEF LinkOK
<1> QED
  BY <1>1, <1>6, <1>10, OneLink DEF Queues

LEMMA WriteFailsOK == ASSUME IInv, Queues, NEW l \in Links, WriteFails(l) PROVE Queues'
<1> DEFINE u == up[l]
           d == down[l]
           p == conn[l].phase
<1>1. /\ stack = "cmp" /\ Live(l) /\ d # <<>>
      /\ UNCHANGED <<kind, stack, up, dev, ended>>
  BY DEF WriteFails
<1>2. /\ stream'[l] # "up" /\ stream'[l] \in {"closed", "destroyed"}
      /\ \A j \in Links \ {l} : stream'[j] = stream[j]
  BY DEF WriteFails, IInv, TypeOK
<1>3. LinkOK(l) /\ CmpOK(p, stream[l], u, d) /\ d \in Seq(Msg)
  BY <1>1 DEF Queues, LinkOK
<1>4. /\ ~Has(u, "ack")
      /\ ~Has(<<>>, "init")
      /\ p # "failed"
  BY <1>1, <1>3 DEF CmpOK, Live, Waiting, Has
<1>5. /\ down' \in [Links -> Seq(Msg)]
      /\ \A j \in Links \ {l} : conn'[j] = conn[j] /\ down'[j] = down[j]
      /\ \/ conn'[l].phase = "failed" /\ down'[l] = d
         \/ p = "request" /\ conn'[l].phase = "request" /\ down'[l] = <<>>
         \/ p = "busy" /\ conn'[l].phase = "busy" /\ down'[l] = d
  <2>1. CASE ~Waiting(l)
    BY <2>1, <1>1 DEF WriteFails, Stay, Queues, Live
  <2>2. CASE Waiting(l) /\ ~(p = "request" /\ InSync(conn[l].req))
    BY <2>2, ThrowsTo DEF WriteFails, To, Queues
  <2>3. CASE Waiting(l) /\ p = "request" /\ InSync(conn[l].req)
    <3>1. conn' = [conn EXCEPT ![l] = At("request", Last)] /\ down' = [down EXCEPT ![l] = <<>>]
      BY <2>3 DEF WriteFails
    <3>2. conn'[l].phase = "request" /\ \A j \in Links \ {l} : conn'[j] = conn[j]
      BY <3>1 DEF IInv, TypeOK, At
    <3>3. /\ down' \in [Links -> Seq(Msg)] /\ down'[l] = <<>>
          /\ \A j \in Links \ {l} : down'[j] = down[j]
      BY <3>1 DEF Queues
    <3> QED
      BY <2>3, <3>2, <3>3
  <2> QED
    BY <2>1, <2>2, <2>3
<1>6. CmpOK(conn'[l].phase, stream'[l], u, down'[l])
  BY <1>2, <1>3, <1>4, <1>5 DEF CmpOK
<1>7. EndTold(conn'[l].phase, u) => EndTold(p, u)
  BY <1>5, NotTold
<1>8. LinkOK(l)'
  BY <1>1, <1>3, <1>6, <1>7 DEF LinkOK
<1> QED
  BY <1>1, <1>2, <1>5, <1>8, OneLink DEF Queues

\* A new connection has nothing to read but what an earlier one has left.
LEMMA ConnectTo ==
    ASSUME IInv, Queues, NEW l \in Links, Connect(l)
    PROVE  /\ To(l, IF stack = "cmp" THEN "wakeup" ELSE "hs1")
           /\ down' \in [Links -> Seq(Msg)] /\ down'[l] = <<>>
           /\ \A j \in Links \ {l} : down'[j] = down[j] /\ (j \in ended' <=> j \in ended)
<1>1. To(l, IF stack = "cmp" THEN "wakeup" ELSE "hs1")
  BY DEF Connect, At, To, IInv, TypeOK
<1>2. down' = [down EXCEPT ![l] = <<>>] /\ down \in [Links -> Seq(Msg)] /\ ended' = ended \ {l}
  BY DEF Connect, Queues
<1> QED
  BY <1>1, <1>2

\* Old messages are no ACK of INIT, when the last connection does not wait for
\* one.
LEMMA ConnectOK ==
    ASSUME Queues, NEW l \in Links, UNCHANGED <<kind, stack>>,
           ~Live(l), To(l, IF stack = "cmp" THEN "wakeup" ELSE "hs1"), down'[l] = <<>>,
           NEW v \in Seq(Msg), up'[l] = v,
           Has(v, "ack") => Has(up[l], "ack"),
           stack = "netsync" => Len(v) <= 1 /\ dev'[l] # "waking"
    PROVE  LinkOK(l)'
<1>1. ~EndTold(conn'[l].phase, v) /\ conn'[l].phase \in {"wakeup", "hs1"}
  BY NotTold DEF To
<1>2. ~Has(<<>>, "init") /\ Len(<<>>) = 0
  BY DEF Has
<1>3. ASSUME stack = "cmp" PROVE CmpOK(conn'[l].phase, stream'[l], v, <<>>)
  <2>1. ~Has(up[l], "ack")
    BY <1>3 DEF Queues, LinkOK, CmpOK, Live, Waiting
  <2> QED
    BY <1>2, <1>3, <2>1 DEF CmpOK, To
<1>4. ASSUME stack = "netsync" PROVE NetOK(conn'[l].phase, stream'[l], v, <<>>)
  <2>1. conn'[l].phase = "hs1"
    BY <1>4 DEF To
  <2> QED
    BY <1>2, <1>4, <2>1 DEF NetOK
<1> QED
  BY <1>1, <1>3, <1>4 DEF LinkOK

LEMMA LoopConnectsOK ==
    ASSUME IInv, Queues, kind # "tcp", ~Live(1), Connect(1),
           UNCHANGED <<kind, stack, up, dev>>,
           \A j \in Links \ {1} : stream'[j] = stream[j]
    PROVE  Queues'
<1>1. 1 \in Links /\ up[1] \in Seq(Msg) /\ LinkOK(1)
  BY ServerAssumption DEF Links, Queues
<1>2. stack = "netsync" => Len(up[1]) <= 1 /\ dev'[1] # "waking"
  BY <1>1 DEF LinkOK, NetOK
<1>3. LinkOK(1)'
  BY <1>1, <1>2, ConnectTo, ConnectOK
<1> QED
  BY <1>1, <1>3, ConnectTo, OneLink DEF To, Queues

LEMMA RunCheckOK == ASSUME IInv, Queues, RunCheck PROVE Queues'
<1>1. kind # "tcp" /\ ~Live(1) /\ UNCHANGED <<kind, stack, up, dev>> /\ Links = {1}
  BY DEF RunCheck, IInv, LoopInStep, Links
<1>2. CASE server.handle = "open" /\ ~server.shouldStop
  <2>1. Connect(1)
    BY <1>2 DEF RunCheck
  <2> QED
    BY <1>1, <2>1, LoopConnectsOK
<1>3. CASE ~(server.handle = "open" /\ ~server.shouldStop)
  <2>1. UNCHANGED <<conn, down, ended, stream>>
    BY <1>3 DEF RunCheck
  <2> QED
    BY <1>1, <2>1, Nowhere
<1> QED
  BY <1>2, <1>3

LEMMA UsbOpenOK == ASSUME IInv, Queues, UsbOpen PROVE Queues'
<1>1. kind # "tcp" /\ ~Live(1) /\ UNCHANGED <<kind, stack, up, dev>> /\ Links = {1}
  BY DEF UsbOpen, IInv, LoopInStep, Links
<1>2. Connect(1) \/ UNCHANGED <<conn, down, ended, stream>>
  BY DEF UsbOpen
<1> QED
  BY <1>1, <1>2, LoopConnectsOK, Nowhere

\* The port is opened anew: nothing is left for the device to take.
LEMMA RunStartsOK == ASSUME IInv, Queues, RunStarts PROVE Queues'
<1>1. kind # "tcp" /\ ~Live(1) /\ UNCHANGED <<kind, stack, conn, up, dev, ended>> /\ Links = {1}
  BY DEF RunStarts, IInv, LoopInStep, Links
<1>2. down' = [down EXCEPT ![1] = <<>>] /\ down'[1] = <<>> /\ down' \in [Links -> Seq(Msg)]
  <2>1. down' = [down EXCEPT ![1] = <<>>] /\ <<>> \in Seq(Msg)
    BY DEF RunStarts
  <2> QED
    BY <1>1, <2>1 DEF Queues
<1>3. LinkOK(1) /\ conn[1].phase \in {"none", "done", "failed"} /\ Len(<<>>) = 0
      /\ up[1] \in Seq(Msg) /\ Len(up[1]) \in Nat
  BY <1>1 DEF Queues, Live, Waiting, IInv, TypeOK, Phases
<1>4. stack = "cmp" => CmpOK(conn[1].phase, stream'[1], up[1], <<>>)
  BY <1>3 DEF LinkOK, CmpOK, Has
<1>5. stack = "netsync" => NetOK(conn[1].phase, stream'[1], up[1], <<>>)
  BY <1>3 DEF LinkOK, NetOK
<1>6. LinkOK(1)'
  BY <1>1, <1>2, <1>3, <1>4, <1>5 DEF LinkOK
<1> QED
  BY <1>1, <1>2, <1>6, OneLink DEF Queues

\* With CMP: what may come up, and what nothing coming up means.
LEMMA CmpAppend ==
    ASSUME NEW p, NEW s, NEW u \in Seq(Msg), NEW d, NEW m \in Msg, CmpOK(p, s, u, d),
           m.what # "ack", p = "initAck" => m.what # "answer"
    PROVE  CmpOK(p, s, Append(u, m), d)
<1> DEFINE n == Len(u)
           v == Append(u, m)
<1>1. n \in Nat /\ Len(v) = n + 1 /\ v[n + 1] = m /\ \A j \in 1 .. n : v[j] = u[j]
  BY AppendTyped
<1>2. Has(v, "ack") <=> Has(u, "ack")
  <2>1. Has(v, "ack") <=> Has(u, "ack") \/ m.what = "ack"
    BY AppendTyped
  <2> QED
    BY <2>1
<1>3. ASSUME p = "initAck", NEW i \in 1 .. n + 1, NEW j \in 1 .. n + 1,
             i < j, v[i].what = "ack"
      PROVE  v[j].what \notin {"ack", "answer"}
  <2>1. i \in 1 .. n /\ u[i].what = "ack"
    BY <1>1, <1>3
  <2>2. CASE j = n + 1
    BY <1>1, <1>3, <2>2
  <2>3. CASE j \in 1 .. n
    BY <1>1, <1>3, <2>1, <2>3 DEF CmpOK
  <2> QED
    BY <2>2, <2>3
<1> HIDE DEF v
<1>4. 1 .. Len(v) = 1 .. n + 1
  BY <1>1
<1>5. p = "initAck" => \A i, j \in 1 .. Len(v) :
                            i < j /\ v[i].what = "ack" => v[j].what \notin {"ack", "answer"}
  BY <1>3, <1>4
<1>6. CmpOK(p, s, v, d)
  BY <1>2, <1>5 DEF CmpOK
<1> QED
  BY <1>6 DEF v

LEMMA CmpEmpty ==
    ASSUME NEW p, NEW s, NEW u, NEW d, CmpOK(p, s, u, d)
    PROVE  CmpOK(p, s, <<>>, d)
<1>1. ~Has(<<>>, "ack") /\ 1 .. Len(<<>>) = {}
  BY DEF Has
<1> QED
  BY <1>1 DEF CmpOK

LEMMA PressOK == ASSUME IInv, Queues, NEW l \in Links, Press(l) PROVE Queues'
<1> DEFINE p == conn[l].phase
           u == up[l]
           d == down[l]
           m == Message(IF stack = "cmp" THEN "wakeup" ELSE "hs1")
           base == IF kind = "usb" THEN <<>> ELSE u
           v == Append(base, m)
<1>1. /\ UNCHANGED <<kind, stack, stream>> /\ (kind = "usb" => run # "conn")
      /\ up' = [up EXCEPT ![l] = v]
      /\ dev' = [dev EXCEPT ![l] = IF stack = "cmp" THEN "waking" ELSE "hs1"]
  BY DEF Press
<1>2. /\ LinkOK(l) /\ u \in Seq(Msg) /\ d \in Seq(Msg) /\ base \in Seq(Msg)
      /\ Len(u) \in Nat /\ Len(d) \in Nat
  BY DEF Queues
<1>3. m \in Msg /\ m.what \notin {"ack", "answer"}
  BY Messages DEF Signals
<1>4. v \in Seq(Msg) /\ Len(v) = Len(base) + 1
  BY <1>2, <1>3, AppendTyped
<1> HIDE DEF m, v
<1>5. /\ up'[l] = v /\ up' \in [Links -> Seq(Msg)]
      /\ \A j \in Links \ {l} : up'[j] = up[j]
      /\ \A j \in Links \ {l} : dev'[j] = dev[j]
      /\ stack = "netsync" => dev'[l] = "hs1"
  BY <1>1, <1>4 DEF Queues, IInv, TypeOK
<1>6. CASE kind = "tcp"
  <2>1. Connect(l) /\ p = "none"
    BY <1>6 DEF Press
  <2>2. base = u
    BY <1>6
  <2>3. Has(v, "ack") => Has(u, "ack")
    <3>1. Has(Append(u, m), "ack") <=> Has(u, "ack") \/ m.what = "ack"
      BY <1>2, <1>3, AppendTyped
    <3> QED
      BY <1>3, <2>2, <3>1 DEF v
  <2>4. stack = "netsync" => Len(v) <= 1 /\ dev'[l] # "waking"
    <3>1. stack = "netsync" => Len(base) = 0
      BY <1>2, <1>6, <2>1, <2>2 DEF LinkOK
    <3> QED
      BY <1>4, <1>5, <3>1
  <2>5. ~Live(l)
    BY <2>1 DEF Live, Waiting
  <2>6. LinkOK(l)'
    BY <1>1, <1>4, <1>5, <2>1, <2>3, <2>4, <2>5, ConnectTo, ConnectOK
  <2> QED
    BY <1>1, <1>5, <2>1, <2>6, ConnectTo, OneLink DEF To
<1>7. CASE kind # "tcp"
  <2>1. UNCHANGED <<conn, down, ended>> /\ l = 1
    BY <1>7 DEF Press, Links
  <2>2. EndTold(p, v) => EndTold(p, u)
    <3>1. EndTold(p, v) => EndTold(p, base)
      BY <1>2, <1>3, OnlyAnswersTell DEF v
    <3>2. EndTold(p, <<>>) => EndTold(p, u)
      BY NotTold DEF EndTold
    <3> QED
      BY <3>1, <3>2
  <2>3. ASSUME stack = "cmp" PROVE CmpOK(p, stream[l], v, d)
    <3>1. CmpOK(p, stream[l], u, d)
      BY <1>2, <2>3 DEF LinkOK
    <3>2. CmpOK(p, stream[l], base, d)
      BY <3>1, CmpEmpty
    <3> QED
      BY <1>2, <1>3, <3>2, CmpAppend DEF v
  <2>4. ASSUME stack = "netsync" PROVE NetOK(p, stream[l], v, d)
    <3>0. kind = "usb"
      BY <1>7, <2>4 DEF Queues
    <3>1. ~Live(l) /\ base = <<>> /\ Len(base) = 0
      BY <1>1, <2>1, <3>0 DEF IInv, LoopInStep
    <3>2. NetOK(p, stream[l], u, d)
      BY <1>2, <2>4 DEF LinkOK
    <3>3. p \in {"none", "failed", "done"}
      BY <3>1 DEF Live, Waiting, IInv, TypeOK, Phases
    <3>4. Len(v) = 1
      BY <1>4, <3>1
    <3>5. stream[l] = "up" => d = <<>> /\ Len(d) = 0
      BY <3>2, <3>3 DEF NetOK
    <3> QED
      BY <3>2, <3>3, <3>4, <3>5 DEF NetOK
  <2>5. LinkOK(l)'
    BY <1>1, <1>2, <1>5, <1>7, <2>1, <2>2, <2>3, <2>4 DEF LinkOK
  <2> QED
    BY <1>1, <1>5, <2>1, <2>5, OneLink DEF Queues
<1> QED
  BY <1>6, <1>7

\* With CMP: INIT is taken once, and ACKed once; the device takes requests when
\* no ACK is waited for.
LEMMA CmpTake ==
    ASSUME NEW p, NEW s, NEW u \in Seq(Msg), NEW d \in Seq(Msg), NEW m \in Msg,
           CmpOK(p, "up", u, d), d # <<>>, m.what = "ack" <=> Head(d).what = "init"
    PROVE  CmpOK(p, s, Append(u, m), Tail(d)) \/ (p = "initAck" /\ s \notin {"up", "gone"})
<1> DEFINE n == Len(u)
           v == Append(u, m)
<1>1. n \in Nat /\ Len(v) = n + 1 /\ v[n + 1] = m /\ \A j \in 1 .. n : v[j] = u[j]
  BY AppendTyped
<1>2. Head(d) = d[1] /\ Len(d) \in Nat /\ Len(d) # 0 /\ (Has(Tail(d), "init") => Has(d, "init"))
  BY TailTyped
<1>3. Head(d).what = "init" => Has(d, "init")
  <2>1. 1 \in 1 .. Len(d)
    BY <1>2
  <2> QED
    BY <1>2, <2>1 DEF Has
<1>4. Head(d).what = "init" <=> p = "initAck"
  BY <1>2, <1>3 DEF CmpOK
<1>5. CASE p = "initAck"
  <2>1. ~Has(u, "ack") /\ Len(d) = 1
    BY <1>2, <1>5 DEF CmpOK
  <2>2. Tail(d) = <<>>
    <3>1. Len(Tail(d)) = 0 /\ Tail(d) \in Seq(Msg)
      BY <2>1, TailTyped
    <3> QED
      BY <3>1, EmptySeq
  <2>3. ASSUME NEW i \in 1 .. n + 1, NEW j \in 1 .. n + 1, i < j, v[i].what = "ack"
        PROVE  FALSE
    <3>1. i \in 1 .. n /\ u[i].what = "ack"
      BY <1>1, <2>3
    <3> QED
      BY <2>1, <3>1 DEF Has
  <2> HIDE DEF v
  <2>4. 1 .. Len(v) = 1 .. n + 1
    BY <1>1
  <2>5. \A i, j \in 1 .. Len(v) :
           i < j /\ v[i].what = "ack" => v[j].what \notin {"ack", "answer"}
    BY <2>3, <2>4
  <2>6. CmpOK(p, s, v, Tail(d)) \/ s \notin {"up", "gone"}
    BY <1>5, <2>2, <2>5 DEF CmpOK
  <2> QED
    BY <1>5, <2>6 DEF v
<1>6. CASE p # "initAck"
  <2>1. ~Has(u, "ack") /\ ~Has(Tail(d), "init") /\ p # "wakeup" /\ p \notin {"hs1", "hs2", "hs3"}
    BY <1>2, <1>6 DEF CmpOK
  <2>2. Has(v, "ack") <=> Has(u, "ack") \/ m.what = "ack"
    BY AppendTyped
  <2>3. ~Has(v, "ack")
    BY <1>4, <1>6, <2>1, <2>2
  <2> QED
    BY <1>6, <2>1, <2>3 DEF CmpOK
<1> QED
  BY <1>5, <1>6

LEMMA NetTake ==
    ASSUME NEW p, NEW s, NEW u \in Seq(Msg), NEW d \in Seq(Msg), NEW m \in Msg,
           NetOK(p, "up", u, d), d # <<>>
    PROVE  NetOK(p, s, Append(u, m), Tail(d)) /\ p # "none"
<1>1. Len(u) = 0 /\ Len(d) = 1
  BY DEF NetOK
<1>2. Len(Append(u, m)) = 1
  BY <1>1, AppendTyped
<1>3. Len(Tail(d)) = 0
  BY <1>1, TailTyped
<1> QED
  BY <1>2, <1>3 DEF NetOK

\* The answer to request k says that the sync has ended if k is DlpEndOfSync.
LEMMA AnswerTells ==
    ASSUME NEW u \in Seq(Msg), NEW k \in Nat, NEW ok \in BOOLEAN, NEW phase,
           EndTold(phase, Append(u, Answer(k, ok)))
    PROVE  EndTold(phase, u) \/ k = Last
<1> SUFFICES ASSUME phase # "done", k # Last PROVE EndTold(phase, u)
  BY DEF EndTold
<1> DEFINE n == Len(u)
           m == Answer(k, ok)
<1>1. m \in Msg
  BY Messages, Zenon
<1>2. m # Answer(Last, TRUE)
  BY DEF Answer
<1> HIDE DEF m
<1>3. PICK i \in 1 .. Len(Append(u, m)) : Append(u, m)[i] = Answer(Last, TRUE)
  BY DEF EndTold, m
<1>4. n \in Nat /\ Len(Append(u, m)) = n + 1 /\ Append(u, m)[n + 1] = m
      /\ \A j \in 1 .. n : Append(u, m)[j] = u[j]
  BY <1>1, AppendTyped
<1>5. i \in 1 .. n + 1 /\ i # n + 1
  BY <1>2, <1>3, <1>4
<1>6. i \in 1 .. n
  BY <1>4, <1>5
<1>7. u[i] = Answer(Last, TRUE)
  BY <1>3, <1>4, <1>6
<1> QED
  BY <1>6, <1>7 DEF EndTold

LEMMA TakeOK == ASSUME IInv, Queues, NEW l \in Links, Take(l) PROVE Queues'
<1> DEFINE p == conn[l].phase
           u == up[l]
           d == down[l]
           m == Head(d)
<1>1. /\ d # <<>> /\ stream[l] = "up" /\ UNCHANGED <<kind, stack, conn>>
      /\ down' = [down EXCEPT ![l] = Tail(d)]
  BY DEF Take, Takes
<1>2. LinkOK(l) /\ u \in Seq(Msg) /\ d \in Seq(Msg)
  BY DEF Queues
<1>3. m \in Msg /\ Tail(d) \in Seq(Msg) /\ m.req \in Nat
  BY <1>1, <1>2, TailTyped, Messages
<1>4. /\ down' \in [Links -> Seq(Msg)] /\ down'[l] = Tail(d)
      /\ \A j \in Links \ {l} : down'[j] = down[j]
  BY <1>1, <1>3 DEF Queues
\* The device says w, and is not waking any more.
<1>5. ASSUME NEW w \in Msg, up' = [up EXCEPT ![l] = Append(u, w)],
             w.what = "ack" <=> m.what = "init",
             dev'[l] # "waking" \/ dev'[l] = dev[l],
             \A j \in Links \ {l} : /\ dev'[j] = dev[j] /\ stream'[j] = stream[j]
                                    /\ j \in ended' <=> j \in ended,
             stream'[l] \in {"up", "gone"},
             EndTold(p, Append(u, w)) => l \in ended'
      PROVE  Queues'
  <2>1. Append(u, w) \in Seq(Msg)
    BY <1>2, AppendTyped
  <2>2. /\ up' \in [Links -> Seq(Msg)] /\ up'[l] = Append(u, w)
        /\ \A j \in Links \ {l} : up'[j] = up[j]
    BY <1>5, <2>1 DEF Queues
  <2>3. ASSUME stack = "cmp" PROVE CmpOK(p, stream'[l], up'[l], down'[l])
    <3>1. CmpOK(p, "up", u, d)
      BY <1>1, <1>2, <2>3 DEF LinkOK
    <3> QED
      BY <1>1, <1>2, <1>4, <1>5, <2>2, <3>1, CmpTake
  <2>4. ASSUME stack = "netsync"
        PROVE  NetOK(p, stream'[l], up'[l], down'[l]) /\ p # "none" /\ dev'[l] # "waking"
    <3>1. NetOK(p, "up", u, d) /\ dev[l] # "waking"
      BY <1>1, <1>2, <2>4 DEF LinkOK
    <3> QED
      BY <1>1, <1>2, <1>4, <1>5, <2>2, <3>1, NetTake
  <2>5. LinkOK(l)'
    BY <1>1, <1>5, <2>2, <2>3, <2>4 DEF LinkOK
  <2>6. \A j \in Links \ {l} :
           /\ conn'[j] = conn[j] /\ stream'[j] = stream[j] /\ dev'[j] = dev[j]
           /\ up'[j] = up[j] /\ down'[j] = down[j]
           /\ j \in ended' <=> j \in ended
    BY <1>1, <1>4, <1>5, <2>2
  <2> QED
    BY <1>1, <1>4, <2>2, <2>5, <2>6, OneLink
<1> DEFINE Says(what, at) ==
               /\ up' = [up EXCEPT ![l] = Append(@, Message(what))]
               /\ dev' = [dev EXCEPT ![l] = at]
               /\ UNCHANGED <<ended, stream>>
<1>6. ASSUME NEW what \in {"ack", "hs2", "hs3"}, NEW at \in {"ready", "hs2"}, Says(what, at),
             what = "ack" <=> m.what = "init"
      PROVE  Queues'
  <2>1. Message(what) \in Msg /\ Message(what).what = what
    BY Messages DEF Signals
  <2>2. EndTold(p, Append(u, Message(what))) => EndTold(p, u)
    BY <1>2, <2>1, OnlyAnswersTell
  <2>3. EndTold(p, u) => l \in ended
    BY <1>2 DEF LinkOK
  <2>4. /\ up' = [up EXCEPT ![l] = Append(u, Message(what))]
        /\ dev'[l] # "waking" /\ \A j \in Links \ {l} : dev'[j] = dev[j]
    BY <1>6 DEF IInv, TypeOK
  <2> QED
    BY <1>1, <1>5, <1>6, <2>1, <2>2, <2>3, <2>4
<1>7. CASE m.what = "init"
  BY <1>6, <1>7 DEF Take
<1>8. CASE m.what = "rsp1"
  BY <1>6, <1>8 DEF Take
<1>9. CASE m.what = "rsp2"
  BY <1>6, <1>9 DEF Take
<1>10. CASE m.what \notin {"init", "rsp1", "rsp2"}
  <2>1. PICK ok \in BOOLEAN :
           /\ up' = [up EXCEPT ![l] = Append(@, Answer(m.req, ok))]
           /\ IF m.req = Last
              THEN /\ dev' = [dev EXCEPT ![l] = "off"] /\ ended' = ended \cup {l}
                   /\ stream' = IF kind = "tcp" THEN Hangup(l) ELSE stream
              ELSE UNCHANGED <<dev, ended, stream>>
    BY <1>10 DEF Take
  <2>2. Answer(m.req, ok) \in Msg /\ Answer(m.req, ok).what = "answer"
    BY <1>3, Messages
  <2>3. EndTold(p, Append(u, Answer(m.req, ok))) => l \in ended'
    <3>1. EndTold(p, u) => l \in ended
      BY <1>2 DEF LinkOK
    <3> QED
      BY <1>2, <1>3, <2>1, <3>1, AnswerTells
  <2>4. /\ dev'[l] # "waking" \/ dev'[l] = dev[l]
        /\ \A j \in Links \ {l} : /\ dev'[j] = dev[j] /\ stream'[j] = stream[j]
                                  /\ j \in ended' <=> j \in ended
        /\ stream'[l] \in {"up", "gone"}
    <3>1. CASE m.req # Last
      BY <1>1, <2>1, <3>1
    <3>2. CASE m.req = Last
      <4>1. dev' = [dev EXCEPT ![l] = "off"] /\ ended' = ended \cup {l}
        BY <2>1, <3>2
      <4>2. stream' = [stream EXCEPT ![l] = "gone"] \/ stream' = stream
        BY <1>1, <2>1, <3>2 DEF Hangup, Deaf
      <4> QED
        BY <1>1, <4>1, <4>2 DEF IInv, TypeOK
    <3> QED
      BY <3>1, <3>2
  <2> QED
    BY <1>5, <1>10, <2>1, <2>2, <2>3, <2>4
<1> QED
  BY <1>7, <1>8, <1>9, <1>10

-----------------------------------------------------------------------------
(* onConnection() reads a message.                                         *)

LEMMA OneOnItsWay ==
    ASSUME NEW p, NEW s, NEW u \in Seq(Msg), u # <<>>, NEW d \in Seq(Msg), NetOK(p, s, u, d)
    PROVE  Tail(u) = <<>> /\ Len(Tail(u)) = 0 /\ (s = "up" => d = <<>>)
<1> DEFINE m == Len(u)
           n == Len(d)
<1>1. m \in Nat /\ n \in Nat /\ m # 0
  BY EmptySeq
<1>2. m <= 1 /\ (s = "up" => m + n <= 1)
  BY DEF NetOK
<1> HIDE DEF m, n
<1>3. m = 1
  BY <1>1, <1>2
<1>4. s = "up" => n = 0
  BY <1>1, <1>2
<1>5. Tail(u) \in Seq(Msg) /\ Len(Tail(u)) = 0
  BY <1>3, TailTyped DEF m
<1> QED
  BY <1>4, <1>5, EmptySeq DEF n

LEMMA NetHear ==
    ASSUME NEW p, NEW s, NEW u \in Seq(Msg), u # <<>>, NEW d \in Seq(Msg), NetOK(p, s, u, d),
           NEW p2, p2 \notin {"wakeup", "initAck"}, NEW s2, s2 = "up" => s = "up",
           NEW d2 \in Seq(Msg),
           d2 = d \/ (/\ p2 \notin {"none", "failed", "done", "busy"}
                     /\ Len(d2) = Len(d) + 1)
    PROVE  NetOK(p2, s2, Tail(u), d2)
<1>1. Tail(u) = <<>> /\ Len(Tail(u)) = 0 /\ (s = "up" => d = <<>>)
  BY OneOnItsWay
<1>2. CASE s2 # "up"
  BY <1>1, <1>2 DEF NetOK
<1>3. CASE d2 = d /\ s = "up"
  <2>1. d2 = <<>> /\ Len(d2) = 0
    BY <1>1, <1>3
  <2> QED
    BY <1>1, <2>1 DEF NetOK
<1>4. CASE p2 \notin {"none", "failed", "done", "busy"} /\ Len(d2) = Len(d) + 1 /\ s = "up"
  <2>1. Len(d) = 0
    BY <1>1, <1>4
  <2>2. Len(d2) = 1
    BY <1>4, <2>1
  <2> QED
    BY <1>1, <1>4, <2>2 DEF NetOK
<1> QED
  BY <1>2, <1>3, <1>4

\* l goes from one wait to p2, whatever it sends.
LEMMA MovesOK ==
    ASSUME IInv, Queues, NEW l \in Links, UNCHANGED <<kind, stack, dev, ended>>,
           up[l] # <<>>, up' = [up EXCEPT ![l] = Tail(@)],
           NEW p2, To(l, p2), p2 # "none",
           down' \in [Links -> Seq(Msg)],
           \A j \in Links \ {l} : down'[j] = down[j] /\ stream'[j] = stream[j],
           stream'[l] = "up" => stream[l] = "up",
           stack = "cmp" => /\ CmpOK(p2, stream'[l], Tail(up[l]), down'[l])
                            /\ EndTold(p2, Tail(up[l])) => l \in ended,
           stack = "netsync" =>
              /\ p2 \notin {"wakeup", "initAck"} /\ (p2 = "done" => l \in ended)
              /\ down'[l] = down[l] \/ (/\ p2 \notin {"none", "failed", "done", "busy"}
                                      /\ Len(down'[l]) = Len(down[l]) + 1)
    PROVE  Queues'
<1> DEFINE u == up[l]
           d == down[l]
<1>1. LinkOK(l) /\ u \in Seq(Msg) /\ d \in Seq(Msg) /\ Tail(u) \in Seq(Msg)
      /\ down'[l] \in Seq(Msg)
  BY TailTyped DEF Queues
<1>2. /\ up' \in [Links -> Seq(Msg)] /\ up'[l] = Tail(u)
      /\ \A j \in Links \ {l} : up'[j] = up[j]
  BY <1>1 DEF Queues
<1>3. conn'[l].phase = p2 /\ \A j \in Links \ {l} : conn'[j] = conn[j]
  BY DEF To
<1>4. ASSUME stack = "netsync"
      PROVE  /\ NetOK(p2, stream'[l], Tail(u), down'[l]) /\ dev[l] # "waking"
             /\ EndTold(p2, Tail(u)) => l \in ended
  <2>1. NetOK(conn[l].phase, stream[l], u, d) /\ dev[l] # "waking"
    BY <1>1, <1>4 DEF LinkOK
  <2> DEFINE s2 == stream'[l]
             d2 == down'[l]
  <2>0. Tail(u) = <<>>
    BY <1>1, <2>1, OneOnItsWay
  <2>2. NetOK(p2, s2, Tail(u), d2)
    <3>1. /\ p2 \notin {"wakeup", "initAck"} /\ (s2 = "up" => stream[l] = "up")
          /\ d2 = d \/ (/\ p2 \notin {"none", "failed", "done", "busy"}
                        /\ Len(d2) = Len(d) + 1)
      BY <1>4
    <3>2. d2 \in Seq(Msg)
      BY <1>1
    <3> HIDE DEF s2, d2
    <3> QED
      BY <1>1, <2>1, <3>1, <3>2, NetHear
  <2>3. EndTold(p2, <<>>) => p2 = "done"
    BY NotTold
  <2> QED
    BY <1>4, <2>0, <2>1, <2>2, <2>3
<1>5. LinkOK(l)'
  BY <1>2, <1>3, <1>4 DEF LinkOK, Queues
<1> QED
  BY <1>2, <1>3, <1>5, OneLink

\* Outside the wait for the ACK of INIT.
LEMMA HearFails ==
    ASSUME IInv, Queues, NEW l \in Links, UNCHANGED <<kind, stack, dev, ended, stream>>,
           up[l] # <<>>, up' = [up EXCEPT ![l] = Tail(@)], Waiting(l),
           conn[l].phase # "initAck", OnConnectionThrows(l)
    PROVE  Queues'
<1>1. To(l, "failed") /\ UNCHANGED down
  BY ThrowsTo
<1>2. LinkOK(l) /\ up[l] \in Seq(Msg)
  BY DEF Queues
<1>3. stack = "cmp" => CmpOK("failed", stream[l], Tail(up[l]), down[l])
  BY <1>2, TailTyped DEF LinkOK, CmpOK, Waiting
<1>4. ~EndTold("failed", Tail(up[l]))
  BY NotTold
<1> QED
  BY <1>1, <1>3, <1>4, MovesOK DEF Queues

LEMMA HearAsks ==
    ASSUME IInv, Queues, NEW l \in Links, UNCHANGED <<kind, stack, dev, ended, stream>>,
           up[l] # <<>>, up' = [up EXCEPT ![l] = Tail(@)], NEW k \in Nat, Ask(l, k),
           stack = "cmp" => /\ ~Has(Tail(up[l]), "ack") /\ ~Has(down[l], "init")
                            /\ EndTold("request", Tail(up[l])) => l \in ended
    PROVE  Queues'
<1> DEFINE d == down[l]
<1>1. To(l, "request") /\ (UNCHANGED down \/ Sends(l, Request(k)))
  BY AskTo
<1>2. Request(k) \in Msg /\ Request(k).what = "request" /\ d \in Seq(Msg)
  BY Messages DEF Queues
<1>3. /\ down' \in [Links -> Seq(Msg)] /\ \A j \in Links \ {l} : down'[j] = down[j]
      /\ down'[l] = d \/ down'[l] = Append(d, Request(k))
  BY <1>1, <1>2, SendsTyped DEF Queues
<1>4. /\ Has(Append(d, Request(k)), "init") <=> Has(d, "init")
      /\ Len(Append(d, Request(k))) = Len(d) + 1
  <2>1. Has(Append(d, Request(k)), "init") <=> Has(d, "init") \/ Request(k).what = "init"
    BY <1>2, AppendTyped
  <2> QED
    BY <1>2, <2>1, AppendTyped
<1>5. stack = "cmp" => CmpOK("request", stream[l], Tail(up[l]), down'[l])
  BY <1>3, <1>4 DEF CmpOK
<1> QED
  BY <1>1, <1>3, <1>4, <1>5, MovesOK

LEMMA HearThrows ==
    ASSUME IInv, Queues, NEW l \in Links, UNCHANGED <<kind, stack, dev, ended, stream>>,
           up[l] # <<>>, up' = [up EXCEPT ![l] = Tail(@)],
           conn[l].phase = "request", Throw(l)
    PROVE  Queues'
<1>1. LinkOK(l) /\ up[l] \in Seq(Msg)
  BY DEF Queues
<1>2. stack = "cmp" => ~Has(Tail(up[l]), "ack") /\ ~Has(down[l], "init")
  BY <1>1, TailTyped DEF LinkOK, CmpOK
<1>3. EndTold("request", Tail(up[l])) => l \in ended
  BY <1>1, TailKeeps DEF LinkOK
<1>4. Waiting(l) /\ Last \in Nat
  BY LastIsNat DEF Waiting
<1> QED
  BY <1>2, <1>3, <1>4, HearAsks, HearFails DEF Throw

\* onConnection() reads m and waits for the next message.
Reads(l) ==
    /\ up[l] # <<>> /\ up' = [up EXCEPT ![l] = Tail(@)] /\ Waiting(l)
    /\ stream[l] \in {"up", "gone"} /\ UNCHANGED <<kind, stack, dev, ended>>

LEMMA ReplyOK ==
    ASSUME IInv, Queues, NEW l \in Links, Reads(l), UNCHANGED stream,
           NEW phase \in {"initAck", "hs2", "hs3"}, NEW message \in {"init", "rsp1", "rsp2"},
           conn[l].phase \in {"wakeup", "hs1", "hs2"},
           phase = "initAck" <=> conn[l].phase = "wakeup",
           phase = "initAck" => message = "init",
           Reply(l, message, phase)
    PROVE  Queues'
<1> DEFINE d == down[l]
           u == up[l]
           m == Message(message)
<1>1. To(l, phase)
  BY DEF Reply, At, To, IInv, TypeOK
<1>2. m \in Msg /\ m.what = message /\ LinkOK(l) /\ u \in Seq(Msg) /\ d \in Seq(Msg) /\ u # <<>>
  BY Messages DEF Signals, Queues, Reads
<1>3. Sends(l, m)
  BY DEF Reply, Sends
<1>4. /\ down' \in [Links -> Seq(Msg)] /\ down'[l] = Append(d, m)
      /\ \A j \in Links \ {l} : down'[j] = down[j]
  BY <1>2, <1>3, SendsTyped
<1>5. ASSUME stack = "cmp" PROVE CmpOK(phase, stream[l], Tail(u), down'[l])
  <2>1. conn[l].phase = "wakeup" /\ d = <<>> /\ ~Has(u, "ack") /\ phase = "initAck"
    BY <1>2, <1>5 DEF LinkOK, CmpOK
  <2>2. down'[l] = <<m>>
    BY <1>4, <2>1
  <2>3. ~Has(Tail(u), "ack")
    BY <1>2, <2>1, TailTyped
  <2>4. \A i \in 1 .. Len(Tail(u)) : Tail(u)[i].what # "ack"
    BY <2>3 DEF Has
  <2>5. Len(<<m>>) = 1 /\ <<m>>[1] = m /\ m.what = "init"
    BY <1>2, <2>1
  <2> QED
    BY <2>1, <2>2, <2>3, <2>4, <2>5 DEF CmpOK, Reads
<1>6. Len(down'[l]) = Len(d) + 1
  BY <1>2, <1>4, AppendTyped
<1>7. stack = "netsync" => phase \notin {"wakeup", "initAck"}
  BY <1>2 DEF LinkOK, NetOK
<1>8. ~EndTold(phase, Tail(u))
  BY NotTold
<1> QED
  BY <1>1, <1>4, <1>5, <1>6, <1>7, <1>8, MovesOK DEF Reads

\* The ACK of INIT is the only one, and what came before it has been read.
LEMMA AckRead ==
    ASSUME Queues, NEW l \in Links, Reads(l), conn[l].phase = "initAck",
           Head(up[l]).what = "ack"
    PROVE  /\ ~Has(Tail(up[l]), "ack") /\ down[l] = <<>> /\ stack = "cmp"
           /\ ~EndTold("request", Tail(up[l])) /\ ~Has(down[l], "init")
<1> DEFINE u == up[l]
           v == Tail(u)
           n == Len(u)
<1>1. LinkOK(l) /\ u \in Seq(Msg) /\ u # <<>> /\ stack = "cmp"
  BY InitAckIsUp DEF Queues, Reads
<1>2. CmpOK("initAck", stream[l], u, down[l])
  BY <1>1 DEF LinkOK
<1>3. /\ n \in Nat /\ n # 0 /\ Len(v) = n - 1 /\ \A i \in 1 .. n - 1 : v[i] = u[i + 1]
      /\ u[1].what = "ack"
  BY <1>1, TailTyped, EmptySeq
<1>4. Has(u, "ack") /\ down[l] = <<>>
  <2>1. 1 \in 1 .. Len(u)
    BY <1>3
  <2>2. Has(u, "ack")
    BY <1>3, <2>1 DEF Has
  <2> QED
    BY <1>2, <2>2 DEF CmpOK
<1> HIDE DEF n, v
<1>5. ASSUME NEW i \in 1 .. n - 1 PROVE v[i].what \notin {"ack", "answer"}
  <2>1. i + 1 \in 1 .. Len(u) /\ 1 \in 1 .. Len(u) /\ 1 < i + 1
    BY <1>3, <1>5 DEF n
  <2>2. u[i + 1].what \notin {"ack", "answer"}
    BY <1>2, <1>3, <2>1 DEF CmpOK
  <2> QED
    BY <1>3, <2>2
<1>6. \A i \in 1 .. Len(v) : v[i].what \notin {"ack", "answer"}
  BY <1>3, <1>5
<1>7. ~Has(v, "ack")
  BY <1>6 DEF Has
<1>8. ~EndTold("request", v)
  <2>1. Answer(Last, TRUE).what = "answer"
    BY DEF Answer
  <2> QED
    BY <1>6, <2>1 DEF EndTold
<1>9. ~Has(<<>>, "init")
  BY DEF Has
<1> QED
  BY <1>1, <1>4, <1>7, <1>8, <1>9 DEF v

LEMMA HandshakeDoneOK ==
    ASSUME IInv, Queues, NEW l \in Links, Reads(l), HandshakeDone(l),
           \/ conn[l].phase = "initAck" /\ Head(up[l]).what = "ack"
           \/ conn[l].phase = "hs3"
    PROVE  Queues'
<1>1. stack = "cmp" => /\ conn[l].phase = "initAck" /\ ~Has(Tail(up[l]), "ack")
                       /\ ~EndTold("request", Tail(up[l])) /\ ~Has(down[l], "init")
                       /\ down[l] = <<>>
  BY AckRead DEF Queues, LinkOK, CmpOK
<1>2. CASE Ask(l, 1) /\ UNCHANGED stream
  BY <1>1, <1>2, HearAsks DEF Reads
<1>3. CASE stream' = [stream EXCEPT ![l] = "ended"] /\ OnConnectionThrows(l)
  <2>1. To(l, "failed") /\ UNCHANGED down
    BY <1>3, ThrowsTo
  <2>2. stream'[l] = "ended" /\ \A j \in Links \ {l} : stream'[j] = stream[j]
    BY <1>3 DEF IInv, TypeOK
  <2>3. stack = "cmp" => CmpOK("failed", stream'[l], Tail(up[l]), down[l])
    BY <1>1, <2>2 DEF CmpOK
  <2>4. ~EndTold("failed", Tail(up[l])) /\ down \in [Links -> Seq(Msg)]
    BY NotTold DEF Queues
  <2> QED
    BY <2>1, <2>2, <2>3, <2>4, MovesOK DEF Reads
<1> QED
  BY <1>2, <1>3 DEF HandshakeDone

\* The answer to DlpEndOfSync is one of this session.
LEMMA AnsweredOK ==
    ASSUME IInv, Queues, NEW l \in Links, Reads(l), UNCHANGED stream,
           conn[l].phase = "request", Head(up[l]) = Answer(conn[l].req, TRUE),
           Answered(l, conn[l].req)
    PROVE  Queues'
<1> DEFINE k == conn[l].req
           u == up[l]
           d == down[l]
<1>1. LinkOK(l) /\ u \in Seq(Msg) /\ u # <<>> /\ u[1] = Answer(k, TRUE)
  BY TailTyped DEF Queues, Reads
<1>2. stack = "cmp" => ~Has(Tail(u), "ack") /\ ~Has(d, "init")
  BY <1>1, TailTyped DEF LinkOK, CmpOK
<1>3. EndTold("request", Tail(u)) => l \in ended
  BY <1>1, TailKeeps DEF LinkOK
<1>4. CASE k = 1
  <2>1. Ask(l, 2)
    BY <1>4, LastIsNat DEF Answered
  <2> QED
    BY <1>2, <1>3, <2>1, HearAsks DEF Reads
<1>5. CASE k # 1 /\ k = Last
  <2>1. Finish(l)
    BY <1>5 DEF Answered
  <2>2. To(l, "done") /\ UNCHANGED down
    BY <2>1 DEF Finish, At, To, IInv, TypeOK
  <2>3. l \in ended
    <3>1. 1 \in 1 .. Len(u) /\ u[1] = Answer(Last, TRUE)
      BY <1>1, <1>5, EmptySeq
    <3>2. EndTold("request", u)
      BY <3>1 DEF EndTold
    <3> QED
      BY <1>1, <3>2 DEF LinkOK
  <2>4. stack = "cmp" => CmpOK("done", stream[l], Tail(u), d)
    BY <1>2 DEF CmpOK
  <2> QED
    BY <2>2, <2>3, <2>4, MovesOK DEF Reads, Queues
<1>6. CASE k # 1 /\ k # Last
  <2>1. conn' = [conn EXCEPT ![l] = At("busy", k)] /\ UNCHANGED down
    BY <1>6 DEF Answered
  <2>2. To(l, "busy")
    BY <2>1 DEF At, To, IInv, TypeOK
  <2>3. EndTold("busy", Tail(u)) => l \in ended
    BY <1>3, NotTold
  <2>4. stack = "cmp" => CmpOK("busy", stream[l], Tail(u), d)
    BY <1>2 DEF CmpOK
  <2> QED
    BY <2>1, <2>2, <2>3, <2>4, MovesOK DEF Reads, Queues
<1> QED
  BY <1>4, <1>5, <1>6

\* Any other message in the wait for the ACK of INIT is passed over.
LEMMA StayOK ==
    ASSUME IInv, Queues, NEW l \in Links, Reads(l), UNCHANGED stream,
           conn[l].phase = "initAck", Stay(l)
    PROVE  Queues'
<1>1. /\ To(l, "initAck") /\ UNCHANGED down /\ stack = "cmp"
      /\ LinkOK(l) /\ up[l] \in Seq(Msg) /\ up[l] # <<>>
  BY InitAckIsUp DEF Stay, To, Queues, Reads
<1>2. CmpOK("initAck", stream[l], Tail(up[l]), down[l])
  BY <1>1, TailKeeps DEF LinkOK
<1>3. ~EndTold("initAck", Tail(up[l]))
  BY NotTold
<1> QED
  BY <1>1, <1>2, <1>3, MovesOK DEF Reads, Queues

LEMMA HearOK == ASSUME IInv, Queues, NEW l \in Links, Hear(l) PROVE Queues'
<1> DEFINE m == Head(up[l])
<1>1. Reads(l) /\ Handle(l, m)
  BY DEF Hear, Heard, Reads
<1>2. ASSUME conn[l].phase # "initAck", OnConnectionThrows(l), UNCHANGED stream
      PROVE  Queues'
  BY <1>1, <1>2, HearFails DEF Reads
<1>3. CASE conn[l].phase = "wakeup"
  <2>1. UNCHANGED stream /\ (Reply(l, "init", "initAck") \/ OnConnectionThrows(l))
    BY <1>1, <1>3 DEF Handle
  <2> QED
    BY <1>1, <1>2, <1>3, <2>1, ReplyOK
<1>4. CASE conn[l].phase = "hs1"
  <2>1. UNCHANGED stream /\ (Reply(l, "rsp1", "hs2") \/ OnConnectionThrows(l))
    BY <1>1, <1>4 DEF Handle
  <2> QED
    BY <1>1, <1>2, <1>4, <2>1, ReplyOK
<1>5. CASE conn[l].phase = "hs2"
  <2>1. UNCHANGED stream /\ (Reply(l, "rsp2", "hs3") \/ OnConnectionThrows(l))
    BY <1>1, <1>5 DEF Handle
  <2> QED
    BY <1>1, <1>2, <1>5, <2>1, ReplyOK
<1>6. CASE conn[l].phase = "initAck"
  <2>1. CASE m.what = "ack"
    <3>1. HandshakeDone(l)
      BY <1>1, <1>6, <2>1 DEF Handle
    <3> QED
      BY <1>1, <1>6, <2>1, <3>1, HandshakeDoneOK
  <2>2. CASE m.what # "ack"
    <3>1. Stay(l) /\ UNCHANGED stream
      BY <1>1, <1>6, <2>2 DEF Handle
    <3> QED
      BY <1>1, <1>6, <3>1, StayOK
  <2> QED
    BY <2>1, <2>2
<1>7. CASE conn[l].phase = "hs3"
  <2>1. HandshakeDone(l) \/ (OnConnectionThrows(l) /\ UNCHANGED stream)
    BY <1>1, <1>7 DEF Handle
  <2> QED
    BY <1>1, <1>2, <1>7, <2>1, HandshakeDoneOK
<1>8. CASE conn[l].phase = "request"
  <2>1. CASE Accepted(m, conn[l].req)
    <3>1. Answered(l, conn[l].req) /\ UNCHANGED stream
      BY <1>1, <1>8, <2>1 DEF Handle
    <3> QED
      BY <1>1, <1>8, <2>1, <3>1, AnsweredOK DEF Accepted
  <2>2. CASE ~Accepted(m, conn[l].req)
    <3>1. Throw(l) /\ UNCHANGED stream
      BY <1>1, <1>8, <2>2 DEF Handle
    <3> QED
      BY <1>1, <1>8, <3>1, HearThrows DEF Reads
  <2> QED
    BY <2>1, <2>2
<1> QED
  BY <1>1, <1>3, <1>4, <1>5, <1>6, <1>7, <1>8 DEF Reads, Waiting

-----------------------------------------------------------------------------
LEMMA QueuesStep == ASSUME IInv, Queues, [Next]_vars PROVE Queues'
<1>1. CASE Program
  <2>1. UNCHANGED <<kind, stack, conn, stream, up, down, dev, ended>>
    BY <1>1 DEF Program, Start, CallStop, StopReturns, sides
  <2> QED
    BY <2>1, Nowhere
<1>2. CASE PortOpened \/ RunTimer \/ UsbWait \/ UsbClose \/ UsbGone \/ PortFails
  <2>1. UNCHANGED <<kind, stack, conn, stream, up, down, dev, ended>>
    BY <1>2 DEF PortOpened, RunTimer, UsbWait, UsbClose, UsbGone, PortFails, sides
  <2> QED
    BY <2>1, Nowhere
<1>3. CASE RunStarts \/ RunCheck \/ UsbOpen
  BY <1>3, RunStartsOK, RunCheckOK, UsbOpenOK
<1>4. ASSUME NEW l \in Links, Connection(l) PROVE Queues'
  BY <1>4, HearOK, DropOK, WorkOK, WriteFailsOK DEF Connection
<1>5. ASSUME NEW l \in Links, Device(l) PROVE Queues'
  BY <1>5, PressOK, RewakeOK, TakeOK, LeavesOK DEF Device, GiveUp
<1>6. ASSUME NEW l \in Links, SecondError(l) PROVE Queues'
  BY <1>6, SecondErrorOK
<1>7. ASSUME NEW l \in Links, WriteRejects(l) PROVE Queues'
  <2>1. UNCHANGED <<kind, stack, conn, stream, up, down, dev, ended>>
    BY <1>7 DEF WriteRejects, sides
  <2> QED
    BY <2>1, Nowhere
<1>8. ASSUME NEW l \in Links, NEW way \in Ways, Lost(l, way) PROVE Queues'
  BY <1>8, LeavesOK DEF Lost
<1>9. CASE UNCHANGED vars
  <2>1. UNCHANGED <<kind, stack, conn, stream, up, down, dev, ended>>
    BY <1>9 DEF vars, sides
  <2> QED
    BY <2>1, Nowhere
<1> QED
  BY <1>1, <1>2, <1>3, <1>4, <1>5, <1>6, <1>7, <1>8, <1>9 DEF Next, Loops

\* On every server and stack, whatever is lost, repeated or left over on the
\* line: the disconnect event means that the device has ended this sync.
THEOREM EndIsReal == Spec => []DisconnectMeansEnded
<1>1. Init => Queues
  BY InitQueues
<1>2. IInv /\ Queues /\ [Next]_vars => Queues'
  BY QueuesStep
<1>3. Queues => DisconnectMeansEnded
  BY DEF Queues, LinkOK, EndTold, DisconnectMeansEnded
<1> QED
  BY <1>1, <1>2, <1>3, Invariance, PTL DEF Spec
=============================================================================

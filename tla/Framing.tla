------------------------------ MODULE Framing ------------------------------
(***************************************************************************)
(* How the desktop cuts the bytes of a transport back into datagrams: the  *)
(* SLP readers of a serial or USB connection (SlpSeekReadStream piped into *)
(* SlpDatagramReadStream) and the NetSync reader of a TCP connection.      *)
(*                                                                         *)
(* A transport keeps the order of the bytes and nothing else: it hands     *)
(* them over in chunks of any size.  A serial line may also begin with     *)
(* bytes that belong to no datagram, and lose bytes.                       *)
(***************************************************************************)
EXTENDS Integers, Sequences, SequencesExt

CONSTANTS
    SignatureLength,  \* SLP_SIGNATURE.length
    HeaderLength,     \* HeaderLength[p]: SLP_DATAGRAM_HEADER_LENGTH for "slp",
                      \* NET_SYNC_DATAGRAM_HEADER_LENGTH for "netsync"
    CrcLength,        \* CrcLength[p]: bytes behind the payload, 0 in NetSync
    Sizes,            \* sizes of payloads
    MaxDatagrams, MaxGarbage, MaxLost  \* bounds of a behaviour

Protocols == {"slp", "netsync"}

ASSUME FramingAssumption ==
    /\ SignatureLength \in Nat \ {0}
    /\ HeaderLength \in [Protocols -> Nat \ {0}]
    /\ HeaderLength["slp"] >= SignatureLength
    /\ CrcLength \in [Protocols -> Nat]
    /\ Sizes \subseteq Nat
    /\ {MaxDatagrams, MaxGarbage, MaxLost} \subseteq Nat

VARIABLES
    protocol,
    garbage,   \* the bytes a serial line begins with
    sent,      \* the sizes of the payloads the device sends
    wire,      \* bytes on their way to the desktop
    lost,      \* how many bytes the line has lost
    seek,      \* SlpSeekReadStream: hasFoundSlpSignature and
               \* partialSignatureFromPreviousChunk
    reader,    \* currentDatagram: its data and remainingLength, which is -1
               \* until the header has been parsed
    emitted,   \* the datagrams handed to the next layer
    crashed,   \* an exception has left _transform()
    start      \* history: the first datagram the seek could see, 0 for none

vars == <<protocol, garbage, sent, wire, lost, seek, reader, emitted, crashed,
          start>>

-----------------------------------------------------------------------------
(* Bytes.  <<d, i>> is byte i of datagram d; <<0, v>> is a byte of noise   *)
(* whose value is that of byte v of the signature, or any other if v = 0.  *)

Value(byte) ==
    IF byte[1] = 0 THEN byte[2]
    ELSE IF byte[2] <= SignatureLength THEN byte[2] ELSE 0

Values(bytes) == [i \in DOMAIN bytes |-> Value(bytes[i])]

Signature == [i \in 1 .. SignatureLength |-> i]

FrameLength(d) == HeaderLength[protocol] + sent[d] + CrcLength[protocol]

\* What the device puts on the wire for its d-th datagram.
Frame(d) == [i \in 1 .. FrameLength(d) |-> <<d, i>>]

\* Buffer.slice(from, to), which counts from 0 and clamps to.
Slice(bytes, from, to) ==
    SubSeq(bytes, from + 1, IF to > Len(bytes) THEN Len(bytes) ELSE to)

Least(a, b) == IF a < b THEN a ELSE b

-----------------------------------------------------------------------------
(* SlpSeekReadStream.                                                      *)

\* The positions at which the seek recognises the signature.  The second
\* argument of slice() is where to end, so only 0 can be one of them.
SignatureAt(bytes) ==
    {idx \in 0 .. Len(bytes) - 1 :
        Values(Slice(bytes, idx, SignatureLength)) = Signature}

\* The longest end of bytes that a signature may begin with.
PartialSignature(bytes) ==
    LET fits == {l \in 0 .. Least(SignatureLength - 1, Len(bytes)) :
                    Values(Slice(bytes, Len(bytes) - l, Len(bytes)))
                        = SubSeq(Signature, 1, l)}
    IN  Slice(bytes, Len(bytes) - Max(fits), Len(bytes))

\* Mutated form of Seek: the part of a signature is not forgotten when another
\* chunk of noise follows it.
SeekKeepsPartial(chunk) ==
    IF seek.found
    THEN [seek |-> seek, out |-> chunk]
    ELSE LET merged == seek.partial \o chunk
             rest   == PartialSignature(merged)
         IN  IF SignatureAt(merged) # {}
             THEN [seek |-> [found |-> TRUE, partial |-> <<>>],
                   out |-> Slice(merged, Min(SignatureAt(merged)), Len(merged))]
             ELSE [seek |-> [found |-> FALSE,
                             partial |-> IF rest = <<>> THEN seek.partial ELSE rest],
                   out |-> <<>>]

\* _transform: the next state of the seek, and what it passes on.
Seek(chunk) ==
    IF seek.found
    THEN [seek |-> seek, out |-> chunk]
    ELSE LET merged == seek.partial \o chunk
         IN  IF SignatureAt(merged) # {}
             THEN [seek |-> [found |-> TRUE, partial |-> <<>>],
                   out |-> Slice(merged, Min(SignatureAt(merged)), Len(merged))]
             ELSE [seek |-> [found |-> FALSE, partial |-> PartialSignature(merged)],
                   out |-> <<>>]

-----------------------------------------------------------------------------
(* SlpDatagramReadStream and NetSyncDatagramReadStream.                    *)

NoDatagram == [data |-> <<>>, remaining |-> -1]

\* Mutated form of ValidHeader: nothing is verified.
AnyHeader(header) == TRUE

\* SlpDatagramHeader.deserialize: the signature and the checksum.  A header
\* put together from other bytes is taken to fail one of them.  A NetSync
\* header is not looked at.
ValidHeader(header) ==
    protocol = "slp" =>
        \E d \in DOMAIN sent : header = SubSeq(Frame(d), 1, Len(header))

\* The length field, which goes with the first byte.
PayloadLength(header) == IF header[1][1] = 0 THEN 0 ELSE sent[header[1][1]]

\* What push() makes of a complete datagram: SLP hands on all of it, NetSync
\* its payload, and an empty chunk does not come out of a stream.
Pushed(data) ==
    CASE protocol = "slp" -> <<data>>
      [] OTHER -> SelectSeq(<<Slice(data, HeaderLength[protocol], Len(data))>>,
                            LAMBDA payload : payload # <<>>)

\* Mutated form of HeaderPart: as if no part of the header had been read.
WholeHeader(data, chunk) == Least(Len(chunk), HeaderLength[protocol])

\* How much of a chunk belongs to the header of which data has been read.
HeaderPart(data, chunk) == Least(Len(chunk), HeaderLength[protocol] - Len(data))

\* _transform from where the header is known.
RECURSIVE Transform(_, _)
ReadPayload(r, chunk) ==
    LET taken == Least(Len(chunk), r.remaining)
        rest  == Slice(chunk, taken, Len(chunk))
        data  == r.data \o SubSeq(chunk, 1, taken)
        next  == IF taken = r.remaining
                 THEN [r EXCEPT !.data = <<>>, !.remaining = -1,
                                !.out = @ \o Pushed(data)]
                 ELSE [r EXCEPT !.data = data, !.remaining = @ - taken]
    IN  IF rest = <<>> THEN next ELSE Transform(next, rest)

\* _transform on a chunk: r is the reader, what it has pushed and whether it
\* has thrown.
Transform(r, chunk) ==
    LET taken  == HeaderPart(r.data, chunk)
        header == r.data \o SubSeq(chunk, 1, taken)
    IN  CASE r.remaining >= 0 -> ReadPayload(r, chunk)
          [] r.remaining < 0 /\ Len(header) < HeaderLength[protocol] ->
                [r EXCEPT !.data = header]
          [] r.remaining < 0 /\ Len(header) >= HeaderLength[protocol] ->
                IF ~ValidHeader(header)
                THEN [r EXCEPT !.data = header, !.threw = TRUE]
                ELSE ReadPayload(
                        [r EXCEPT !.data = header,
                                  !.remaining = PayloadLength(header)
                                                + CrcLength[protocol]],
                        Slice(chunk, taken, Len(chunk)))

-----------------------------------------------------------------------------
(* What the seek can see.                                                  *)

\* Bytes that end like the beginning of a signature.
EndsLikeSignature(bytes) == PartialSignature(bytes) # <<>>

\* The datagrams whose signature no noise hides in this chunk: they begin it,
\* not after noise that may be taken for the beginning of their signature, or
\* so near its end that the rest of the signature comes in the next one.
Visible(chunk) ==
    {d \in DOMAIN sent : \E i \in DOMAIN chunk :
        /\ chunk[i] = <<d, 1>>
        /\ \/ i = 1 /\ (d > 1 \/ ~EndsLikeSignature(garbage))
           \/ Len(chunk) < i + SignatureLength - 1}

-----------------------------------------------------------------------------
Noise == UNION {[1 .. n -> {0} \X (0 .. SignatureLength)] : n \in 0 .. MaxGarbage}

Init ==
    /\ protocol \in Protocols
    /\ garbage \in (IF protocol = "slp" THEN Noise ELSE {<<>>})
    /\ sent \in UNION {[1 .. n -> Sizes] : n \in 1 .. MaxDatagrams}
    /\ wire = garbage \o FlattenSeq([d \in DOMAIN sent |-> Frame(d)])
    /\ lost = 0
    /\ seek = [found |-> FALSE, partial |-> <<>>]
    /\ reader = NoDatagram
    /\ emitted = <<>>
    /\ crashed = FALSE
    /\ start = 0

\* The transport emits the next n bytes as one chunk, and every stream of the
\* pipe deals with it.
Read(n) ==
    /\ ~crashed
    /\ wire' = Slice(wire, n, Len(wire))
    /\ LET chunk == SubSeq(wire, 1, n)
           s == IF protocol = "slp" THEN Seek(chunk) ELSE [seek |-> seek, out |-> chunk]
           r == [data |-> reader.data, remaining |-> reader.remaining,
                 out |-> <<>>, threw |-> FALSE]
           t == IF s.out = <<>> THEN r ELSE Transform(r, s.out)
       IN  /\ seek' = s.seek
           /\ reader' = [data |-> t.data, remaining |-> t.remaining]
           /\ emitted' = emitted \o t.out
           /\ crashed' = t.threw
           /\ start' = IF start = 0 /\ Visible(chunk) # {}
                       THEN Min(Visible(chunk)) ELSE start
    /\ UNCHANGED <<protocol, garbage, sent, lost>>

LoseByte(i) ==
    /\ protocol = "slp" /\ lost < MaxLost
    /\ wire' = RemoveAt(wire, i)
    /\ lost' = lost + 1
    /\ UNCHANGED <<protocol, garbage, sent, seek, reader, emitted, crashed,
                   start>>

Next ==
    \/ \E n \in DOMAIN wire : Read(n)
    \/ \E i \in DOMAIN wire : LoseByte(i)

Spec == Init /\ [][Next]_vars

-----------------------------------------------------------------------------
(* Properties.                                                             *)

\* How many datagrams have been read to their last byte, and what should have
\* come out of the first k.
Complete == Cardinality({d \in DOMAIN sent : \A i \in DOMAIN wire : wire[i][1] # d})
Upto(k) == FlattenSeq([d \in 1 .. k |-> Pushed(Frame(d))])

\* However a clean line cuts its bytes into chunks, each datagram is emitted
\* unchanged, in order, with the chunk that brings its last byte: one that had
\* to wait for the next chunk would wait for ever, as the device says nothing
\* more before it is answered (the two _transform()s with their recursion).
EmittedOnTime ==
    garbage = <<>> /\ lost = 0 => ~crashed /\ emitted = Upto(Complete)

NoiseOnly ==
    lost = 0 /\ Signature \notin {Values(Slice(garbage, i, i + SignatureLength)) :
                                    i \in DOMAIN garbage \cup {0}}

\* Noise ahead of the first datagram that has no signature in it hides, at worst,
\* the datagrams that share a chunk with what precedes them: from the first one
\* the seek could see, each comes out with its last byte, whole, and none is
\* missed after one that came out (SlpSeekReadStream.hasFoundSlpSignature and
\* partialSignatureFromPreviousChunk).
FoundAfterNoise ==
    NoiseOnly =>
      /\ ~crashed /\ IsSuffix(emitted, Upto(Complete))
      /\ start # 0 => Len(emitted) >= Len(Upto(Complete)) - Len(Upto(start - 1))

\* "we are expected to ignore everything up to the first SLP datagram signature"
\* (SlpSeekReadStream): then noise ahead of it costs no datagram.
NoiseIsSkipped == NoiseOnly => emitted = Upto(Complete)

\* When a byte is lost, the reader may hand on one datagram that is torn; it
\* never goes on from a wrong boundary (SlpDatagramHeader.deserialize).
TornIsLast ==
    lost <= 1 => \A i \in 1 .. Len(emitted) - 1 :
                    \E d \in DOMAIN sent : <<emitted[i]>> = Pushed(Frame(d))
=============================================================================

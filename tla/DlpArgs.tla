------------------------------ MODULE DlpArgs ------------------------------
(***************************************************************************)
(* The wire form of the Desktop Link Protocol: the base classes of         *)
(* src/src/protocols/dlp-protocol.ts, which turn a request or a response   *)
(* object into bytes and back, and the commands that                       *)
(* src/src/protocols/dlp-commands.ts declares with them.                   *)
(*                                                                         *)
(* A message is a header (function, number of arguments and, in a          *)
(* response, an error code) and a sequence of arguments.  An argument is   *)
(* the group of properties declared with one @dlpArg number: a header that *)
(* comes in three sizes and the properties one after the other.  Nothing   *)
(* on the wire says where a property ends, so the reader depends on the    *)
(* declarations and on the counts that some properties carry.              *)
(*                                                                         *)
(* A byte is a number and the value of a property its bytes, so that a cut *)
(* may fall anywhere.  The values of properties are arbitrary samples: the *)
(* code looks only at counts, terminators and the year of a date.          *)
(***************************************************************************)
EXTENDS Integers, SequencesExt

CONSTANTS SmallMax, ShortMax,      \* largest data of a small and a short argument
          MAX_USER_NAME_LENGTH,    \* longest user name that may be written
          TextLengths,             \* lengths of texts and data that are tried
          MaxItems,                \* most items of a list that is tried
          ErrorCodes               \* error codes of a device's refusals

ASSUME SizesAssumption ==
  /\ SmallMax \in 1..255 /\ ShortMax \in SmallMax..65535
  /\ MAX_USER_NAME_LENGTH \in Nat /\ MaxItems \in Nat
  /\ TextLengths \subseteq Nat /\ ErrorCodes \subseteq 1..255

VARIABLES sent,      \* the message the writer serialized
          damage,    \* what happened to its bytes on the way
          wire,      \* the bytes the reader has not read yet
          left,      \* how many arguments it still has to read
          got,       \* the values of the arguments it has read
          outcome    \* "idle", "header", "args", "accepted", "refused" or "thrown"

vars == <<sent, damage, wire, left, got, outcome>>

-----------------------------------------------------------------------------
(* The types a property is declared with.                                  *)

Uint(w) == [kind |-> "uint", width |-> w]
U8 == Uint(1)
U16 == Uint(2)
U32 == Uint(4)
Date == [kind |-> "date", width |-> 8]
Rest == [kind |-> "rest"]
Text == [kind |-> "text"]
Buf(w) == [kind |-> "buffer", width |-> w]
List(w, item) == [kind |-> "list", width |-> w, item |-> item]
(* An object that begins with its own total size; "skips" says whether the *)
(* reader goes on after that size or where the object's properties ended.  *)
Sized(skips, fields) == [kind |-> "sized", skips |-> skips, fields |-> fields]
(* Private size properties, a gap and the joined parts they measure, which *)
(* serialize() joins and deserialize() takes apart.  A part is a terminated *)
(* string, one that is left out when empty, or plain data; an open one is  *)
(* read to the end instead of to its size.                                 *)
Joined(w, gap, parts) ==
  [kind |-> "joined", width |-> w, gap |-> gap, parts |-> parts]
Part(form, open) == [form |-> form, open |-> open]

Arg(n, fields) == [id |-> n, optional |-> FALSE, fields |-> fields]
OptArg(n, fields) == [id |-> n, optional |-> TRUE, fields |-> fields]
Cmd(func, request, response) ==
  [func |-> func, request |-> request, response |-> response]
Arg0(fields) == <<Arg(0, fields)>>
Arg1(fields) == <<Arg(1, fields)>>
None == <<>>

-----------------------------------------------------------------------------
(* The commands.  The buffer that DlpCloseAllDBsReqType declares is always  *)
(* empty.                                                                  *)

UserInfoCommands ==
  [ReadUserInfo |-> Cmd(16, None,
     Arg0(<<U32, U32, U32, Date, Date,
            Joined(1, 0, <<Part("string", TRUE), Part("plain", TRUE)>>)>>)),
   WriteUserInfo |-> Cmd(17,
     Arg0(<<U32, U32, U32, Date, U8, Joined(1, 0, <<Part("string", TRUE)>>)>>), None)]

SysInfoCommands ==
  [ReadSysInfo |-> Cmd(18, Arg0(<<U16, U16>>),
     <<Arg(0, <<U32, U32, U8, Buf(1)>>), OptArg(1, <<U16, U16, U16, U16, U32>>)>>)]

ClockCommands ==
  [GetSysDateTime |-> Cmd(19, None, Arg0(<<Date>>)),
   SetSysDateTime |-> Cmd(20, Arg0(<<Date>>), None)]

CardInfo == Sized(FALSE, <<U8, U16, Date, U32, U32, U32,
              Joined(1, 0, <<Part("plain", FALSE), Part("plain", FALSE)>>)>>)
StorageCommands ==
  [ReadStorageInfo |-> Cmd(21, Arg0(<<U8, U8>>),
     <<Arg(0, <<U8, U8, U8, List(1, CardInfo)>>), OptArg(1, <<U16, U16, Uint(16)>>)>>)]

DBInfo == Sized(TRUE, <<U8, U16, U32, U32, U16, U32, Date, Date, Date, U16, Text>>)
DbListCommands ==
  [ReadDBList |-> Cmd(22, Arg0(<<U8, U8, U16>>), Arg0(<<U16, U8, List(1, DBInfo)>>))]

OpenCommands ==
  [OpenDB   |-> Cmd(23, Arg0(<<U8, U8, Text>>), Arg0(<<U8>>)),
   CreateDB |-> Cmd(24, Arg0(<<U32, U32, U8, U8, U16, U16, Text>>), Arg0(<<U8>>))]

CloseCommands ==
  [CloseDB     |-> Cmd(25, Arg0(<<U8>>), None),
   CloseAllDBs |-> Cmd(25, Arg1(<<Uint(0)>>), None),
   DeleteDB    |-> Cmd(26, Arg0(<<U8, U8, Text>>), None)]

AppBlockCommands ==
  [ReadAppBlock  |-> Cmd(27, Arg0(<<U8, U8, U16, U16>>), Arg0(<<U16, Rest>>)),
   WriteAppBlock |-> Cmd(28, Arg0(<<U8, U8, Buf(2)>>), None)]

SortBlockCommands ==
  [ReadSortBlock  |-> Cmd(29, Arg0(<<U8, U8, U16, U16>>), Arg0(<<U16, Rest>>)),
   WriteSortBlock |-> Cmd(30, Arg0(<<U8, U8, Buf(2)>>), None)]

RecordFields == <<U32, U16, U16, U8, U8, Rest>>
ReadRecordCommands ==
  [ReadNextModifiedRec |-> Cmd(31, Arg0(<<U8>>), Arg0(RecordFields)),
   ReadRecordByID      |-> Cmd(32, Arg0(<<U8, U8, U32, U16, U16>>), Arg0(RecordFields)),
   ReadRecordByIndex   |-> Cmd(32, Arg1(<<U8, U8, U16, U16, U16>>), Arg0(RecordFields))]

WriteRecordCommands ==
  [WriteRecord      |-> Cmd(33, Arg0(<<U8, U8, U32, U8, U8, Rest>>), Arg0(<<U32>>)),
   DeleteRecord     |-> Cmd(34, Arg0(<<U8, U8, U32>>), None),
   DeleteAllRecords |-> Cmd(34, Arg0(<<U8, U8, U32>>), None),
   DeleteRecordByCategory |-> Cmd(34, Arg0(<<U8, U8, Uint(3), U8>>), None)]

ReadResourceCommands ==
  [ReadResourceByIndex |-> Cmd(35, Arg0(<<U8, U8, U16, U16, U16>>),
                               Arg0(<<U32, U16, U16, Buf(2)>>)),
   ReadResourceByType  |-> Cmd(35, Arg1(<<U8, U8, U32, U16, U16, U16>>),
                               Arg0(<<U32, U16, U16, Buf(2)>>))]

WriteResourceCommands ==
  [WriteResource      |-> Cmd(36, Arg0(<<U8, U8, U32, U16, Buf(2)>>), None),
   DeleteResource     |-> Cmd(37, Arg0(<<U8, U8, U32, U16>>), None),
   DeleteAllResources |-> Cmd(37, Arg0(<<U8, U8, Uint(6)>>), None)]

CleanUpCommands ==
  [CleanUpDatabase |-> Cmd(38, Arg0(<<U8>>), None),
   ResetSyncFlags  |-> Cmd(39, Arg0(<<U8>>), None)]

CallCommands ==
  [CallApplicationV10 |-> Cmd(40, Arg0(<<U32, U16, Buf(2)>>), Arg0(<<U16, U16, Buf(2)>>)),
   CallApplication    |-> Cmd(40,
     Arg1(<<U32, U32, U16, Joined(4, 8, <<Part("plain", TRUE)>>)>>),
     Arg1(<<U32, Joined(4, 8, <<Part("plain", TRUE)>>)>>))]

SystemCommands ==
  [ResetSystem     |-> Cmd(41, None, None),
   AddSyncLogEntry |-> Cmd(42, Arg0(<<Text>>), None),
   ReadOpenDBInfo  |-> Cmd(43, Arg0(<<U8>>), Arg0(<<U16>>)),
   MoveCategory    |-> Cmd(44, Arg0(<<U8, U8, U8, U8>>), None)]

SessionCommands ==
  [OpenConduit      |-> Cmd(46, None, None),
   EndOfSync        |-> Cmd(47, Arg0(<<U16>>), None),
   ResetRecordIndex |-> Cmd(48, Arg0(<<U8>>), None),
   ReadRecordIDList |-> Cmd(49, Arg0(<<U8, U8, U16, U16>>), Arg0(<<List(2, U32)>>))]

CategoryCommands ==
  [ReadNextRecInCategory         |-> Cmd(50, Arg0(<<U8, U8>>), Arg0(RecordFields)),
   ReadNextModifiedRecInCategory |-> Cmd(51, Arg0(<<U8, U8>>), Arg0(RecordFields))]

PreferenceCommands ==
  [ReadAppPreference  |-> Cmd(52, Arg0(<<U32, U16, U16, U8, U8>>),
                              Arg0(<<U16, U16, Buf(2)>>)),
   WriteAppPreference |-> Cmd(53,
     Arg0(<<U32, U16, U16, Joined(2, 2, <<Part("plain", TRUE)>>)>>), None)]

HostNames == Joined(2, 0, <<Part("optional", FALSE), Part("optional", FALSE),
                            Part("optional", TRUE)>>)
ReadNetSyncCommands ==
  [ReadNetSyncInfo |-> Cmd(54, None, Arg0(<<U8, U8, Uint(16), HostNames>>))]
WriteNetSyncCommands ==
  [WriteNetSyncInfo |-> Cmd(55, Arg0(<<U8, U8, Uint(16), HostNames>>), None)]

FindReply == <<OptArg(0, <<U8, U8, U32, U32, DBInfo>>),
               OptArg(1, <<U32, U32, U32, U32, U32, U32>>)>>
FindCommands ==
  [ReadFeature         |-> Cmd(56, Arg0(<<U32, U16>>), Arg0(<<U32>>)),
   FindDBByName        |-> Cmd(57, Arg0(<<U8, U8, Text>>), FindReply),
   FindDBByOpenHandle  |-> Cmd(57, Arg1(<<U8, U8>>), FindReply),
   FindDBByTypeCreator |-> Cmd(57, <<Arg(2, <<U8, U8, U32, U32>>)>>, FindReply)]

SetDbInfoCommands ==
  [SetDBInfo |-> Cmd(58, Arg0(<<U8, U8, U16, U16, U16, Date, Date, Date,
                               U32, U32, Text>>), None)]
LoopBackCommands ==
  [LoopBackTest |-> Cmd(59, Arg0(<<Buf(4)>>), Arg0(<<Buf(4)>>))]

Commands ==
  UserInfoCommands @@ SysInfoCommands @@ ClockCommands @@ StorageCommands
  @@ DbListCommands @@ OpenCommands @@ CloseCommands @@ AppBlockCommands
  @@ SortBlockCommands @@ ReadRecordCommands @@ WriteRecordCommands
  @@ ReadResourceCommands @@ WriteResourceCommands @@ CleanUpCommands
  @@ CallCommands @@ SystemCommands @@ SessionCommands @@ CategoryCommands
  @@ PreferenceCommands @@ ReadNetSyncCommands @@ WriteNetSyncCommands
  @@ FindCommands @@ SetDbInfoCommands @@ LoopBackCommands

(* The argument specs of a message, in the order of their ids.             *)
Specs(m) == Commands[m.command][m.type]

-----------------------------------------------------------------------------
(* Writing a value: the serialize() of each type.                          *)

Digits(w, n) == [i \in 1..w |-> (n \div 256^(w - i)) % 256]
Number(bytes) == FoldLeft(LAMBDA n, b : 256 * n + b, 0, bytes)
Zeros(n) == [i \in 1..n |-> 0]
Drop(bytes, n) == SubSeq(bytes, n + 1, Len(bytes))
First(bytes, n) == SubSeq(bytes, 1, IF n < Len(bytes) THEN n ELSE Len(bytes))
UpToNul(bytes) == SelectInSeq(bytes, LAMBDA b : b = 0)     \* 0: no terminator

Terminated(text) == Append(text, 0)
PartBytes(part, v) ==
  IF part.form = "plain" \/ (part.form = "optional" /\ v = <<>>)
    THEN v ELSE Terminated(v)

WriteJoined(f, v) ==
  LET bytes == [i \in DOMAIN f.parts |-> PartBytes(f.parts[i], v[i])]
  IN FlattenSeq([i \in DOMAIN bytes |-> Digits(f.width, Len(bytes[i]))])
       \o Zeros(f.gap) \o FlattenSeq(bytes)

WriteFlat(f, v) ==
  CASE f.kind \in {"uint", "date", "rest"} -> v
    [] f.kind = "text"   -> Terminated(v)
    [] f.kind = "buffer" -> Digits(f.width, Len(v)) \o v
    [] f.kind = "joined" -> WriteJoined(f, v)
WriteObject(f, v) ==
  LET body == FlattenSeq([j \in DOMAIN f.fields |-> WriteFlat(f.fields[j], v[j])])
  IN <<1 + Len(body)>> \o body
WriteItem(f, v) == IF f.kind = "sized" THEN WriteObject(f, v) ELSE WriteFlat(f, v)
WriteField(f, v) ==
  IF f.kind = "list"
    THEN Digits(f.width, Len(v)) \o FlattenSeq([i \in DOMAIN v |-> WriteItem(f.item, v[i])])
    ELSE WriteItem(f, v)

-----------------------------------------------------------------------------
(* Reading a value: the deserialize() of each type.  A read past the end   *)
(* throws for an integer, and takes what there is for text and data.       *)

Read(value, rest) == [ok |-> TRUE, value |-> value, rest |-> rest]
TooShort == [ok |-> FALSE, value |-> <<>>, rest |-> <<>>]

(* A year of 0 stands for PDB_EPOCH, written here as the zero date; the    *)
(* eighth byte is padding.                                                 *)
ReadDate(bytes) ==
  IF Number(First(bytes, 2)) = 0 THEN Zeros(8) ELSE Append(First(bytes, 7), 0)
ReadText(bytes) ==
  LET n == UpToNul(bytes)
  IN IF n = 0 THEN Read(bytes, <<>>) ELSE Read(First(bytes, n - 1), Drop(bytes, n))

(* Mutated form of PartStart: every part is looked for after the first one. *)
PartStartAfterFirst(sizes, i) == IF i = 1 THEN 0 ELSE sizes[1]
(* Where a part begins: after the sizes of the parts before it.            *)
PartStart(sizes, i) == FoldLeft(LAMBDA n, m : n + m, 0, SubSeq(sizes, 1, i - 1))
ReadPart(part, sizes, i, body) ==
  LET from == Drop(body, PartStart(sizes, i))
      bytes == IF part.open THEN from ELSE First(from, sizes[i])
  IN IF sizes[i] = 0 THEN <<>>
     ELSE IF part.form = "plain" THEN bytes ELSE ReadText(bytes).value
ReadJoined(f, bytes) ==
  LET n == Len(f.parts)
      sizes == [i \in 1..n |-> Number(SubSeq(bytes, f.width * (i - 1) + 1, f.width * i))]
      body == Drop(bytes, n * f.width + f.gap)
  IN IF Len(bytes) < n * f.width + f.gap THEN TooShort
     ELSE Read([i \in 1..n |-> ReadPart(f.parts[i], sizes, i, body)], <<>>)

(* Mutated form of ReadUint: what is missing is read as nothing.           *)
ReadUintLeniently(w, bytes) == Read(First(bytes, w), Drop(bytes, w))
ReadUint(w, bytes) ==
  IF Len(bytes) < w THEN TooShort ELSE Read(First(bytes, w), Drop(bytes, w))
ReadBuffer(w, bytes) ==
  LET n == Number(First(bytes, w))
  IN IF Len(bytes) < w THEN TooShort
     ELSE Read(First(Drop(bytes, w), n), Drop(bytes, w + n))
ReadFlat(f, bytes) ==
  CASE f.kind = "uint"   -> ReadUint(f.width, bytes)
    [] f.kind = "date"   -> IF Len(bytes) < 8 THEN TooShort
                            ELSE Read(ReadDate(bytes), Drop(bytes, 8))
    [] f.kind = "rest"   -> Read(bytes, <<>>)
    [] f.kind = "text"   -> ReadText(bytes)
    [] f.kind = "buffer" -> ReadBuffer(f.width, bytes)
    [] f.kind = "joined" -> ReadJoined(f, bytes)

(* One property after the other, until one cannot be read.                 *)
InTurn(ReadOne(_, _), fields, bytes) ==
  FoldLeft(LAMBDA r, f :
             IF ~r.ok THEN r
             ELSE LET one == ReadOne(f, r.rest)
                  IN IF one.ok THEN Read(Append(r.value, one.value), one.rest)
                     ELSE TooShort,
           Read(<<>>, bytes), fields)

ReadObject(f, bytes) ==
  LET object == InTurn(ReadFlat, f.fields, Tail(bytes))
  IN IF bytes = <<>> \/ ~object.ok THEN TooShort
     ELSE Read(object.value, IF f.skips THEN Drop(bytes, Head(bytes)) ELSE object.rest)
ReadItem(f, bytes) == IF f.kind = "sized" THEN ReadObject(f, bytes) ELSE ReadFlat(f, bytes)
ReadList(f, bytes) ==
  IF Len(bytes) < f.width THEN TooShort
  ELSE InTurn(ReadItem, [i \in 1..Number(First(bytes, f.width)) |-> f.item],
              Drop(bytes, f.width))
ReadField(f, bytes) == IF f.kind = "list" THEN ReadList(f, bytes) ELSE ReadItem(f, bytes)

-----------------------------------------------------------------------------
(* Arguments.  DLP_ARG_ID_BASE is 32; the type of an argument is in the top *)
(* two bits of its id.                                                     *)

Small == [bits |-> 0,   header |-> 2, max |-> SmallMax]
Short == [bits |-> 128, header |-> 4, max |-> ShortMax]
Long  == [bits |-> 64,  header |-> 6, max |-> 2147483647]
ArgTypes == {Small, Short, Long}

(* Mutated form of FormOf: a small argument may hold a byte too many.      *)
FormOfOneOver(size) ==
  IF size <= SmallMax + 1 THEN Small ELSE IF size <= ShortMax THEN Short ELSE Long
(* The smallest type that holds the data.                                  *)
FormOf(size) ==
  CHOOSE t \in ArgTypes :
    /\ size <= t.max
    /\ \A other \in ArgTypes : size <= other.max => t.max <= other.max

(* The data length that a header of this type has room for.                *)
Fits(form, size) == size <= form.max
ArgBytes(spec, values) ==
  FlattenSeq([j \in DOMAIN spec.fields |-> WriteField(spec.fields[j], values[j])])
WriteArg(spec, values) ==
  LET data == ArgBytes(spec, values)
      form == FormOf(Len(data))
      size == IF form = Small THEN <<Len(data)>>
              ELSE <<0>> \o Digits(form.header - 2, Len(data))
  IN <<32 + spec.id + form.bits>> \o size \o data

TypeBits(b) == 64 * (b \div 64)
ReadArg(spec, bytes) ==
  LET form == CHOOSE t \in ArgTypes : t.bits = TypeBits(Head(bytes))
      size == IF form = Small THEN bytes[2] ELSE Number(SubSeq(bytes, 3, form.header))
      read == InTurn(ReadField, spec.fields, First(Drop(bytes, form.header), size))
  IN IF bytes = <<>> THEN TooShort
     ELSE IF \A t \in ArgTypes : t.bits # TypeBits(Head(bytes)) THEN TooShort
     ELSE IF Len(bytes) < form.header THEN TooShort
     ELSE [read EXCEPT !.rest = Drop(bytes, form.header + size)]

-----------------------------------------------------------------------------
(* The messages that are tried.  Requests are written by this code and     *)
(* responses by a device, which leaves optional arguments out and may, when *)
(* it speaks a newer version, add one that is not declared.                *)

Samples == [length : TextLengths, items : 0..MaxItems,
            empty : SUBSET (1..2), unset : BOOLEAN]

(* An unset date is year 0 to a device.  This code writes it as the date   *)
(* PDB_EPOCH stands for, 1904-01-01: "value !== PDB_EPOCH" compares        *)
(* objects, and every default value is a copy.                             *)
UnsetDate(type) == IF type = "response" THEN Zeros(8) ELSE <<7, 112, 1, 1, 0, 0, 0, 0>>
Letters(n, from) == [k \in 1..n |-> 64 + 8 * from + k]
SampleFlat(f, j, s, type) ==
  CASE f.kind = "uint" -> [i \in 1..f.width |-> j]
    [] f.kind = "date" -> IF s.unset THEN UnsetDate(type) ELSE <<7, 230, j, 1, 2, 3, 4, 0>>
    [] f.kind \in {"rest", "text", "buffer"} -> Letters(s.length, j)
    [] f.kind = "joined" ->
         [i \in DOMAIN f.parts |-> IF i \in s.empty THEN <<>> ELSE Letters(s.length, i)]
SampleItem(f, j, s, type) ==
  IF f.kind = "sized"
    THEN [i \in DOMAIN f.fields |-> SampleFlat(f.fields[i], i + j, s, type)]
    ELSE SampleFlat(f, j, s, type)
SampleField(f, j, s, type) ==
  IF f.kind = "list" THEN [i \in 1..s.items |-> SampleItem(f.item, i, s, type)]
  ELSE SampleItem(f, j, s, type)
SampleArg(spec, s, type) ==
  [j \in DOMAIN spec.fields |-> SampleField(spec.fields[j], j, s, type)]

Required(specs) == {i \in DOMAIN specs : ~specs[i].optional}
Chosen(S) == SetToSortSeq(S, LAMBDA a, b : a < b)

Message(command, type, given, s, newer, error) ==
  LET specs == Commands[command][type]
  IN [command |-> command, type |-> type, given |-> given,
      values |-> [i \in DOMAIN given |-> SampleArg(specs[given[i]], s, type)],
      newer |-> newer, error |-> error]
Requests(command) ==
  LET all == Chosen(DOMAIN Commands[command].request)
  IN {Message(command, "request", all, s, FALSE, 0) : s \in Samples}
Replies(command) ==
  LET specs == Commands[command].response
  IN {Message(command, "response", Chosen(Required(specs) \union S), s, newer, 0) :
        S \in SUBSET (DOMAIN specs \ Required(specs)), s \in Samples, newer \in BOOLEAN}
Refusals(command) ==
  {Message(command, "response", <<>>, s, FALSE, e) :
     s \in {CHOOSE t \in Samples : TRUE}, e \in ErrorCodes}
Messages == UNION {Requests(c) \union Replies(c) \union Refusals(c) : c \in DOMAIN Commands}

-----------------------------------------------------------------------------
(* DlpRequest.serialize, DlpResponse.serialize.                            *)

FuncByte(m) == Commands[m.command].func + (IF m.type = "response" THEN 128 ELSE 0)
ArgCount(m) == Len(m.given) + (IF m.newer THEN 1 ELSE 0)
HeaderLength(m) == IF m.type = "response" THEN 4 ELSE 2
Serialized(m) ==
  <<FuncByte(m), ArgCount(m)>>
    \o (IF m.type = "response" THEN Digits(2, m.error) ELSE <<>>)
    \o FlattenSeq([i \in DOMAIN m.given |-> WriteArg(Specs(m)[m.given[i]], m.values[i])])
    \o (IF m.newer THEN <<32 + Len(m.given), 1, 0>> ELSE <<>>)

(* Writing a user name or an argument can fail before anything is sent.    *)
NameTooLong(m) ==
  /\ m.command = "WriteUserInfo" /\ m.type = "request"
  /\ Len(m.values[1][6][1]) > MAX_USER_NAME_LENGTH
TooLarge(m) ==
  \E i \in DOMAIN m.given :
    LET size == Len(ArgBytes(Specs(m)[m.given[i]], m.values[i]))
    IN ~Fits(FormOf(size), size)

Nothing == [command |-> "none"]
Init ==
  /\ sent = Nothing /\ damage = "none" /\ wire = <<>>
  /\ left = 0 /\ got = <<>> /\ outcome = "idle"

SendFails ==
  /\ outcome = "idle"
  /\ \E m \in Messages :
       /\ NameTooLong(m) \/ TooLarge(m)
       /\ sent' = m /\ outcome' = "thrown"
  /\ UNCHANGED <<damage, wire, left, got>>

(* The message arrives whole, with bytes after it, or cut short.           *)
Send ==
  /\ outcome = "idle"
  /\ \E m \in Messages :
       /\ ~NameTooLong(m) /\ ~TooLarge(m)
       /\ sent' = m
       /\ \/ damage' = "none" /\ wire' = Serialized(m)
          \/ damage' = "longer" /\ wire' = Serialized(m) \o <<1, 1>>
          \/ /\ damage' = "cut"
             /\ \E n \in 0..(Len(Serialized(m)) - 1) : wire' = First(Serialized(m), n)
  /\ outcome' = "header"
  /\ UNCHANGED <<left, got>>

-----------------------------------------------------------------------------
(* DlpRequest.deserialize, DlpResponse.deserialize and parseDlpArgs.       *)

TooFewArgs(argc) == argc < Cardinality(Required(Specs(sent)))

ErrorCode == IF sent.type = "response" THEN Number(SubSeq(wire, 3, 4)) ELSE 0
ReadHeader ==
  /\ outcome = "header"
  /\ UNCHANGED <<sent, damage, got>>
  /\ IF Len(wire) < HeaderLength(sent) \/ Head(wire) # FuncByte(sent)
       THEN outcome' = "thrown" /\ UNCHANGED <<wire, left>>
       ELSE /\ wire' = Drop(wire, HeaderLength(sent))
            /\ left' = wire[2]
            /\ outcome' = IF ErrorCode # 0
                            THEN IF wire[2] = 0 THEN "refused" ELSE "thrown"
                          ELSE IF TooFewArgs(wire[2]) THEN "thrown" ELSE "args"

AllRead == left = 0

(* The next argument is read as the next one declared, whatever its id; an *)
(* argument after the last declared one is a TypeError.                    *)
ReadNextArg ==
  /\ outcome = "args" /\ ~AllRead
  /\ UNCHANGED <<sent, damage>>
  /\ LET read == ReadArg(Specs(sent)[Len(got) + 1], wire)
     IN IF Len(got) = Len(Specs(sent)) THEN outcome' = "thrown" /\ UNCHANGED <<wire, left, got>>
        ELSE IF ~read.ok THEN outcome' = "thrown" /\ UNCHANGED <<wire, left, got>>
        ELSE /\ got' = Append(got, read.value)
             /\ wire' = read.rest
             /\ left' = left - 1
             /\ UNCHANGED outcome

Accept ==
  /\ outcome = "args" /\ AllRead
  /\ outcome' = "accepted"
  /\ UNCHANGED <<sent, damage, wire, left, got>>

(* On to another message.                                                  *)
NextMessage ==
  /\ outcome \in {"accepted", "refused", "thrown"}
  /\ sent' = Nothing /\ damage' = "none" /\ wire' = <<>>
  /\ left' = 0 /\ got' = <<>> /\ outcome' = "idle"

Next == Send \/ SendFails \/ ReadHeader \/ ReadNextArg \/ Accept \/ NextMessage

Spec == Init /\ [][Next]_vars

-----------------------------------------------------------------------------
(* A message that arrived whole is read as it was written, or not at all:  *)
(* every property has the value the writer gave the property of that name, *)
(* and a refusal of the device is never taken for an answer (or the other  *)
(* way round).  No id, tag or length on the wire says which property the   *)
(* bytes belong to.                                                        *)
ReadAsWritten ==
  damage # "cut" =>
    /\ outcome = "accepted" =>
         /\ got = sent.values /\ sent.error = 0
         /\ \A i \in DOMAIN got : sent.given[i] = i
    /\ outcome = "refused" => sent.error # 0

(* What can be read of a message: its arguments are given from the first   *)
(* one on, none of them is unknown here, there is no second memory card in *)
(* a list, and a user name has a legal length.                             *)
OneCard(m) ==
  m.command = "ReadStorageInfo" /\ m.type = "response" /\ m.given # <<>>
    => Len(m.values[1][4]) <= 1
Readable(m) ==
  /\ \A i \in DOMAIN m.given : m.given[i] = i
  /\ ~m.newer /\ OneCard(m) /\ ~NameTooLong(m)

(* Every such message gets through, at each size of its arguments: it is   *)
(* written, and reading it does not throw.                                 *)
ReadableIsRead ==
  outcome = "thrown" /\ Readable(sent) => damage = "cut"

-----------------------------------------------------------------------------
(* A message cut short is never accepted with a value of its own making:   *)
(* when reading it does not throw, all it lost is the end of the text or   *)
(* data that its last argument ends with.                                  *)

ShorterFlat(f, short, full) ==
  IF f.kind = "joined" THEN \A i \in DOMAIN full : IsPrefix(short[i], full[i])
  ELSE IF f.kind \in {"text", "rest", "buffer"} THEN IsPrefix(short, full)
  ELSE short = full
OnlyLastShorter(Shorter(_, _, _), fields, short, full) ==
  /\ Len(short) = Len(full)
  /\ Front(short) = Front(full)
  /\ Shorter(Last(fields), Last(short), Last(full))
ShorterItem(f, short, full) ==
  IF f.kind = "sized" THEN OnlyLastShorter(ShorterFlat, f.fields, short, full)
  ELSE ShorterFlat(f, short, full)
ShorterField(f, short, full) ==
  IF f.kind # "list" THEN ShorterItem(f, short, full)
  ELSE IF full = <<>> THEN short = full
  ELSE OnlyLastShorter(ShorterItem, [i \in DOMAIN full |-> f.item], short, full)

CutIsNoticed ==
  outcome = "accepted" /\ damage = "cut" =>
    /\ got # <<>> /\ Len(got) = Len(sent.values)
    /\ Front(got) = Front(sent.values)
    /\ OnlyLastShorter(ShorterField, Specs(sent)[Len(got)].fields,
                       Last(got), Last(sent.values))
=============================================================================

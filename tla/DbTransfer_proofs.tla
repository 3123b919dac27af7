------------------------- MODULE DbTransfer_proofs -------------------------
(***************************************************************************)
(* Theorems about DbTransfer, for any contents of RAM and ROM, any files   *)
(* to install, any page size and any number of operations and faults: a    *)
(* list names every database, a copy holds all there is to copy, a write   *)
(* that stops leaves a beginning of the new database, and nothing is       *)
(* refused but for a reason; and a database in ROM is never asked for a    *)
(* block it does not have, as long as the device can tell its size.        *)
(***************************************************************************)
EXTENDS DbTransfer, SequenceTheorems, FiniteSetTheorems, TLAPS

-----------------------------------------------------------------------------
(* The ROM is spared.                                                      *)

\* What DlpFindDBByOpenHandle has said still holds of the database in hand: a
\* block of a database in ROM that has a size is there.
SizesTrue ==
    /\ sizes \in [app : {0, 1}, sort : {0, 1}]
    /\ ~InRam(op.name) =>
          /\ sizes.app > 0 => Named(op.name).appInfo # None
          /\ sizes.sort > 0 => Named(op.name).sortInfo # None

\* The inductive invariant.  A device that knows DlpFindDBByOpenHandle is not
\* searched, and its sizes are true from the answer to the last block.
SizesKnown ==
    modern => /\ ~crashed /\ at # "search"
              /\ at \in {"app", "sort"} => SizesTrue

\* A step that does not begin, or go on, asking for blocks.
LEMMA ElsewhereKeepsSizes ==
    ASSUME SizesKnown, modern' = modern, crashed' = crashed,
           at' \notin {"app", "sort", "search"}
    PROVE  SizesKnown'
BY DEF SizesKnown

\* DlpFindDBByOpenHandle makes the sizes true.
LEMMA FindDbKeepsSizes == ASSUME SizesKnown, FindDb PROVE SizesKnown'
<1> SUFFICES ASSUME modern PROVE ~crashed' /\ at' # "search" /\ SizesTrue'
  BY DEF FindDb, DeviceSteady, Steady, SizesKnown
<1>1. ~crashed' /\ at' = "app"
  BY DEF FindDb, DeviceSteady, Steady, SizesKnown
<1>2. UNCHANGED <<device, op>>
  BY DEF FindDb, DeviceSteady
<1>3. /\ InRam(op.name)' = InRam(op.name)
      /\ Named(op.name)' = Named(op.name)
  BY <1>2 DEF InRam, Named, Stored
<1> DEFINE Size(block) == IF block = None THEN {0}
                          ELSE IF InRam(op.name) THEN {0, 1} ELSE {1}
<1>4. PICK app \in Size(Named(op.name).appInfo), sort \in Size(Named(op.name).sortInfo) :
          sizes' = [app |-> app, sort |-> sort]
  BY DEF FindDb
<1>5. SizesTrue'
  BY <1>2, <1>3, <1>4 DEF SizesTrue
<1> QED
  BY <1>1, <1>5

\* A block that is asked for is there, or the database is in RAM.
LEMMA ReadBlockKeepsSizes ==
    ASSUME SizesKnown,
           \/ ReadBlock("app", "appInfo", "app", "sort")
           \/ ReadBlock("sort", "sortInfo", "sort", "records")
    PROVE  SizesKnown'
<1> SUFFICES ASSUME modern PROVE SizesKnown'
  BY DEF SizesKnown, ReadBlock, Steady
<1>1. SizesTrue /\ ~crashed
  BY DEF SizesKnown, ReadBlock
<1>2. UNCHANGED <<device, op, sizes>> /\ at' \in {"sort", "records"}
  BY DEF ReadBlock
<1>3. ~crashed'
  BY <1>1, TransferAssumption DEF ReadBlock, AskForBlock, SizesTrue
<1>4. SizesTrue'
  BY <1>1, <1>2 DEF SizesTrue, InRam, Named, Stored
<1> QED
  BY <1>2, <1>3, <1>4 DEF SizesKnown

LEMMA StepKeepsSizes == ASSUME SizesKnown, [Next]_vars PROVE SizesKnown'
<1>1. CASE StartOp
  BY <1>1, ElsewhereKeepsSizes DEF StartOp
<1>2. CASE RequestFails
  BY <1>2, ElsewhereKeepsSizes DEF RequestFails, Throws
<1>3. CASE FindDb
  BY <1>3, FindDbKeepsSizes
<1>4. CASE \/ ReadBlock("app", "appInfo", "app", "sort")
           \/ ReadBlock("sort", "sortInfo", "sort", "records")
  BY <1>4, ReadBlockKeepsSizes
<1>5. CASE ListPage
  BY <1>5, ElsewhereKeepsSizes DEF ListPage, DeviceSteady, Steady
<1>6. CASE OpenConduit
  BY <1>6, ElsewhereKeepsSizes DEF OpenConduit, DeviceSteady, Steady
<1>7. CASE OpenDb \/ OpenRefused
  BY <1>7, ElsewhereKeepsSizes DEF OpenDb, OpenRefused, Refused, Throws, Steady
<1>8. CASE SearchPage
  BY <1>8 DEF SearchPage, DeviceSteady, Steady, SizesKnown
<1>9. CASE ReadRecord \/ CloseRead
  BY <1>9, ElsewhereKeepsSizes DEF ReadRecord, CloseRead, NextFile, DeviceSteady, Steady
<1>10. CASE DeleteDb \/ DeleteRefused \/ CreateDb \/ CreateRefused
  BY <1>10, ElsewhereKeepsSizes
     DEF DeleteDb, DeleteRefused, CreateDb, CreateRefused, Refused, Throws, Steady
<1>11. CASE \/ WriteBlock("writeApp", "appInfo", "writeSort")
            \/ WriteBlock("writeSort", "sortInfo", "writeRecords")
  BY <1>11, ElsewhereKeepsSizes DEF WriteBlock, Steady
<1>12. CASE WriteRecord \/ Reset \/ CloseWritten
  BY <1>12, ElsewhereKeepsSizes DEF WriteRecord, Reset, CloseWritten, Steady
<1>13. CASE UNCHANGED vars
  BY <1>13 DEF vars, desk, SizesKnown, SizesTrue, InRam, Named, Stored
<1> QED
  BY <1>1, <1>2, <1>3, <1>4, <1>5, <1>6, <1>7, <1>8, <1>9, <1>10, <1>11, <1>12, <1>13
     DEF Next, Requests

\* readRawDb avoids the crash that its comment describes, for any contents of
\* RAM and ROM, any number of operations and faults.
THEOREM RomSpared == Spec => []RomIsSpared
<1>1. Init => SizesKnown
  BY DEF Init, SizesKnown
<1>2. SizesKnown /\ [Next]_vars => SizesKnown'
  BY StepKeepsSizes
<1>3. SizesKnown => RomIsSpared
  BY DEF SizesKnown, RomIsSpared
<1> QED
  BY <1>1, <1>2, <1>3, PTL DEF Spec
-----------------------------------------------------------------------------
(* The inductive invariant.                                                *)

\* Every database has a name of its own, in RAM and in ROM.
Sound(dev) ==
    /\ dev = [ram |-> dev.ram, rom |-> dev.rom]
    /\ IsPlace(dev.ram) /\ IsPlace(dev.rom)
    /\ \A i \in DOMAIN dev.ram, j \in DOMAIN dev.rom : dev.ram[i].name # dev.rom[j].name

\* Where the operation may be, and what is known of its arguments.
Reads == {"conduit", "open", "find", "app", "sort", "records"}
Writes == {"writeApp", "writeSort", "writeRecords", "closeWritten"}

Shapes ==
    /\ Sound(device) /\ Sound(before)
    /\ copy = None \/ IsDatabase(copy)
    /\ op = Op(op.what, op.name, op.option, op.db, op.places)
    /\ op.what \in {"none", "list", "backup", "read", "write"}
    /\ op.what \in {"list", "backup"} => op.places \in Storage
    /\ op.what = "write" => IsDatabase(op.db) /\ op.name = op.db.name
    /\ op.what = "none" => at = "idle"
    /\ op.what = "list" => at \in {"idle", "page"}
    /\ op.what = "backup" => at \in {"idle", "page"} \cup Reads
    /\ op.what = "read" => at \in {"idle", "search"} \cup Reads
    /\ op.what = "write" => at \in {"idle", "conduit", "delete", "create"} \cup Writes
    /\ index \in Nat /\ faults \in Nat
    /\ at # "idle" => result = "none"

\* The names that a list has to give.
NamesOf(dbs) == [i \in DOMAIN dbs |-> dbs[i].name]

NamesIn(place) ==
    IF place \in Range(op.places) THEN NamesOf(device[place]) ELSE <<>>

Names == NamesIn("ram") \o NamesIn("rom")

Listing ==
    op.what \in {"list", "backup"} =>
      /\ at = "page" =>
            /\ list = [names |-> list.names, todo |-> list.todo, start |-> list.start]
            /\ \/ list.todo = op.places
               \/ list.todo = <<"rom">> /\ op.places = <<"ram", "rom">>
            /\ list.start \in 0 .. Len(device[Head(list.todo)])
            /\ list.names =
                  (IF list.todo # op.places THEN NamesOf(device.ram) ELSE <<>>)
                     \o SubSeq(NamesOf(device[Head(list.todo)]), 1, list.start)
      /\ at \in Reads \/ (at = "idle" /\ result = "done") => list.names = Names
      /\ at \in Reads => op.name \in Range(list.names)

\* The handle is open from DlpOpenDB or DlpCreateDB to DlpCloseDB.
Handles ==
    faults = 0 =>
      open = IF at \in {"find", "search", "app", "sort", "records"} \cup Writes
             THEN {op.name} ELSE {}

\* The database that is read is there, and copy is what has been read of it.
Kept(d, include, n) ==
    {i \in 1 .. n : d.resDB \/ d.records[i].kind # "gone" \/ include}

\* Where the record i is among those.
Rank(d, include, n, i) == Cardinality({j \in Kept(d, include, n) : j <= i})

CopiedTo(c, d, include, n) ==
    /\ c.records \in Seq(Range(d.records))
    /\ Len(c.records) = Cardinality(Kept(d, include, n))
    /\ \A i \in Kept(d, include, n) : c.records[Rank(d, include, n, i)] = d.records[i]

Including == op.what = "read" /\ op.option

SizesTold(d) ==
    sizes = None \/
      /\ sizes \in [app : {0, 1}, sort : {0, 1}]
      /\ ~InRam(op.name) => /\ sizes.app = 0 => d.appInfo = None
                            /\ sizes.sort = 0 => d.sortInfo = None

Copying ==
    LET d == Named(op.name)
    IN  /\ at \in {"find", "search", "app", "sort", "records"} => Exists(op.name)
        /\ at \in {"search", "app", "sort"} =>
              /\ SizesTold(d) /\ index = 0
              /\ copy = [Header(d) EXCEPT !.appInfo = IF at = "sort" THEN d.appInfo ELSE None]
        /\ at = "records" =>
              /\ copy = [d EXCEPT !.records = copy.records]
              /\ index <= Len(d.records) /\ CopiedTo(copy, d, Including, index)

\* What readAllDbsToFile has done.
Copied(name) == \E f \in files : f.name = name /\ IsCopy(f, Named(name), FALSE)

BackingUp ==
    op.what = "backup" =>
      /\ at \in Reads => \E k \in DOMAIN list.names :
            list.names[k] = op.name /\ \A i \in 1 .. k - 1 : Copied(list.names[i])
      /\ at = "idle" /\ result = "done" =>
            \A i \in DOMAIN list.names : Copied(list.names[i])

\* The device in the course of a write: as before, without the database, or
\* with the part of it that has been written.
WithoutIt == [before EXCEPT !.ram = Without(@, op.name)]

HalfWritten(app, sort, n) ==
    [name |-> op.db.name, resDB |-> op.db.resDB, reset |-> op.db.reset,
     appInfo |-> app, sortInfo |-> sort, records |-> SubSeq(op.db.records, 1, n)]

IsIn(name, dbs) == \E i \in DOMAIN dbs : dbs[i].name = name

Holding(d) ==
    /\ ~IsIn(op.name, before.rom)
    /\ device = [WithoutIt EXCEPT !.ram = Append(@, d)]

Writing ==
    op.what = "write" =>
      /\ at = "conduit" => device = before
      /\ at = "delete" => device = before /\ op.option
      /\ at = "create" => device = IF op.option THEN WithoutIt ELSE before
      /\ at = "writeApp" => Holding(HalfWritten(None, None, 0)) /\ index = 0
      /\ at = "writeSort" => Holding(HalfWritten(op.db.appInfo, None, 0)) /\ index = 0
      /\ at = "writeRecords" =>
            /\ index <= Len(op.db.records)
            /\ Holding(HalfWritten(op.db.appInfo, op.db.sortInfo, index))
      /\ at = "closeWritten" \/ result = "done" =>
            Holding(op.db) /\ resetting = NeedsReset(op.db)
      /\ at = "idle" /\ result # "done" =>
            \/ device = before
            \/ device = WithoutIt /\ ~IsIn(op.name, before.rom)
            \/ \E app \in {None, op.db.appInfo}, sort \in {None, op.db.sortInfo},
                  n \in 0 .. Len(op.db.records) : Holding(HalfWritten(app, sort, n))

IInv ==
    Shapes /\ Listing /\ Handles /\ Copying /\ BackingUp /\ Writing
       /\ CopiesExact /\ RefusedForAReason

-----------------------------------------------------------------------------
(* Databases in their places.                                              *)

LEMMA RangeIs ==
    ASSUME NEW S, NEW s \in Seq(S)
    PROVE  s \in Seq(Range(s)) /\ Range(s) \subseteq S
BY DEF Range

LEMMA SubSeqIs ==
    ASSUME NEW S, NEW s \in Seq(S), NEW a \in Nat, NEW b \in Nat, a <= b, b <= Len(s)
    PROVE  LET part == SubSeq(s, a + 1, b)
           IN  /\ part \in Seq(S) /\ Len(part) = b - a
               /\ \A i \in 1 .. b - a : part[i] = s[a + i]
<1> DEFINE m == a + 1
           part == SubSeq(s, m, b)
<1>1. m \in Int /\ b \in Int /\ \A i \in m .. b : s[i] \in S
  BY ElementOfSeq
<1> HIDE DEF m
<1>2. /\ part \in Seq(S) /\ Len(part) = IF m <= b THEN b - m + 1 ELSE 0
      /\ \A i \in 1 .. b - m + 1 : part[i] = s[m + i - 1]
  BY <1>1, SubSeqProperties
<1> HIDE DEF part
<1>3. b - m + 1 = b - a /\ (IF m <= b THEN b - m + 1 ELSE 0) = b - a
  BY DEF m
<1>4. \A i \in 1 .. b - a : m + i - 1 = a + i
  BY DEF m
<1> QED
  BY <1>2, <1>3, <1>4 DEF part, m

LEMMA PlaceIs ==
    ASSUME NEW dbs, IsPlace(dbs)
    PROVE  /\ Len(dbs) \in Nat /\ DOMAIN dbs = 1 .. Len(dbs)
           /\ \A i \in DOMAIN dbs : dbs[i] \in Range(dbs) /\ IsDatabase(dbs[i])
           /\ dbs \in Seq(Range(dbs))
           /\ \A d : d \in Range(dbs) <=> \E i \in DOMAIN dbs : d = dbs[i]
BY DEF IsPlace, Range

\* What DlpDeleteDB leaves.
LEMMA WithoutIs ==
    ASSUME NEW dbs, IsPlace(dbs), NEW name
    PROVE  /\ IsPlace(Without(dbs, name)) /\ ~IsIn(name, Without(dbs, name))
           /\ ~IsIn(name, dbs) => Without(dbs, name) = dbs
           /\ \A i \in DOMAIN Without(dbs, name) :
                 \E j \in DOMAIN dbs : Without(dbs, name)[i] = dbs[j]
           /\ \A j \in DOMAIN dbs : dbs[j].name # name =>
                 \E i \in DOMAIN Without(dbs, name) : Without(dbs, name)[i] = dbs[j]
<1>1. CASE ~IsIn(name, dbs)
  BY <1>1 DEF Without, IsIn
<1>2. CASE IsIn(name, dbs)
  <2> DEFINE k == CHOOSE i \in DOMAIN dbs : dbs[i].name = name
             rest == Without(dbs, name)
  <2>1. k \in DOMAIN dbs /\ dbs[k].name = name
    BY <1>2 DEF IsIn
  <2>2. rest = SubSeq(dbs, 1, k - 1) \o SubSeq(dbs, k + 1, Len(dbs))
    BY <1>2 DEF IsIn, Without, RemoveAt
  <2> HIDE DEF k, rest
  <2>3. /\ rest \in Seq(Range(dbs)) /\ Len(rest) = Len(dbs) - 1
        /\ \A i \in 1 .. k - 1 : rest[i] = dbs[i]
        /\ \A i \in k .. Len(dbs) - 1 : rest[i] = dbs[i + 1]
    <3> DEFINE front == SubSeq(dbs, 1, k - 1)
               back == SubSeq(dbs, k + 1, Len(dbs))
    <3>1. dbs \in Seq(Range(dbs)) /\ k \in 1 .. Len(dbs) /\ Len(dbs) \in Nat
      BY <2>1, PlaceIs
    <3>2. /\ front \in Seq(Range(dbs)) /\ Len(front) = k - 1
          /\ \A i \in 1 .. k - 1 : front[i] = dbs[i]
      BY <3>1
    <3>3. /\ back \in Seq(Range(dbs)) /\ Len(back) = Len(dbs) - k
          /\ \A i \in 1 .. Len(dbs) - k : back[i] = dbs[k + i]
      <4>1. k \in Nat /\ Len(dbs) \in Nat /\ k <= Len(dbs)
        BY <3>1
      <4> QED
        BY <3>1, <4>1, SubSeqIs
    <3>4. rest = front \o back
      BY <2>2
    <3> HIDE DEF front, back
    <3>5. /\ rest \in Seq(Range(dbs)) /\ Len(rest) = Len(dbs) - 1
          /\ \A i \in 1 .. k - 1 : rest[i] = front[i]
          /\ \A i \in k .. Len(dbs) - 1 : rest[i] = back[i - (k - 1)]
      <4>1. /\ rest \in Seq(Range(dbs)) /\ Len(rest) = Len(front) + Len(back)
            /\ \A i \in 1 .. Len(front) + Len(back) :
                  rest[i] = IF i <= Len(front) THEN front[i] ELSE back[i - Len(front)]
        <5>1. front \in Seq(Range(dbs)) /\ back \in Seq(Range(dbs))
          BY <3>2, <3>3
        <5> QED
          BY <3>4, <5>1, ConcatProperties
      <4>2. /\ k \in 1 .. Len(dbs) /\ Len(dbs) \in Nat
            /\ Len(front) = k - 1 /\ Len(back) = Len(dbs) - k
        BY <3>1, <3>2, <3>3
      <4>3. ASSUME NEW i \in 1 .. Len(dbs) - 1
            PROVE  rest[i] = IF i <= k - 1 THEN front[i] ELSE back[i - (k - 1)]
        <5>1. i \in 1 .. Len(front) + Len(back)
          BY <4>2
        <5> QED
          BY <4>1, <4>2, <5>1
      <4>4. Len(rest) = Len(dbs) - 1
        BY <4>1, <4>2
      <4>5. ASSUME NEW i \in 1 .. k - 1 PROVE rest[i] = front[i]
        <5>1. i \in 1 .. Len(dbs) - 1 /\ i <= k - 1
          BY <4>2
        <5> QED
          BY <4>3, <5>1
      <4>6. ASSUME NEW i \in k .. Len(dbs) - 1 PROVE rest[i] = back[i - (k - 1)]
        <5>1. i \in 1 .. Len(dbs) - 1 /\ ~(i <= k - 1)
          BY <4>2
        <5> QED
          BY <4>3, <5>1
      <4> QED
        BY <4>1, <4>4, <4>5, <4>6
    <3>6. ASSUME NEW i \in k .. Len(dbs) - 1 PROVE rest[i] = dbs[i + 1]
      <4>1. i - (k - 1) \in 1 .. Len(dbs) - k /\ k + (i - (k - 1)) = i + 1
        BY <3>1
      <4> QED
        BY <3>3, <3>5, <4>1
    <3> QED
      BY <3>1, <3>2, <3>5, <3>6
  <2>4. /\ Len(dbs) \in Nat /\ DOMAIN dbs = 1 .. Len(dbs) /\ k \in 1 .. Len(dbs)
        /\ DOMAIN rest = 1 .. Len(dbs) - 1
    BY <2>1, <2>3, PlaceIs
  <2>5. \A i \in DOMAIN rest : rest[i] = dbs[IF i < k THEN i ELSE i + 1]
    BY <2>3, <2>4
  <2>6. /\ \A i \in DOMAIN dbs : IsDatabase(dbs[i])
        /\ \A i, j \in DOMAIN dbs : dbs[i].name = dbs[j].name => i = j
    BY DEF IsPlace
  <2>7. \A i \in DOMAIN rest : \E j \in DOMAIN dbs :
           rest[i] = dbs[j] /\ j = (IF i < k THEN i ELSE i + 1) /\ j # k
    BY <2>4, <2>5
  <2>8. rest \in Seq(Range(rest))
    BY <2>3, RangeIs
  <2>9. IsPlace(rest)
    BY <2>4, <2>6, <2>7, <2>8 DEF IsPlace
  <2>10. \A j \in DOMAIN dbs : j # k => \E i \in DOMAIN rest : rest[i] = dbs[j]
    <3> SUFFICES ASSUME NEW j \in DOMAIN dbs, j # k
                 PROVE  \E i \in DOMAIN rest : rest[i] = dbs[j]
      OBVIOUS
    <3> DEFINE i == IF j < k THEN j ELSE j - 1
    <3>1. i \in DOMAIN rest /\ (IF i < k THEN i ELSE i + 1) = j
      BY <2>4
    <3> HIDE DEF i
    <3> QED
      BY <2>5, <3>1
  <2>11. ~IsIn(name, rest)
    BY <2>1, <2>6, <2>7 DEF IsIn
  <2> QED
    BY <1>2, <2>1, <2>7, <2>9, <2>10, <2>11 DEF rest
<1> QED
  BY <1>1, <1>2

\* What DlpCreateDB adds.
LEMMA AppendIs ==
    ASSUME NEW dbs, IsPlace(dbs), NEW d, IsDatabase(d), ~IsIn(d.name, dbs)
    PROVE  /\ IsPlace(Append(dbs, d))
           /\ Without(Append(dbs, d), d.name) = dbs
           /\ DOMAIN Append(dbs, d) = 1 .. Len(dbs) + 1
           /\ Append(dbs, d)[Len(dbs) + 1] = d
           /\ \A i \in DOMAIN dbs : Append(dbs, d)[i] = dbs[i]
<1> DEFINE more == Append(dbs, d)
           n == Len(dbs) + 1
<1>1. /\ more \in Seq(Range(dbs) \cup {d}) /\ DOMAIN more = 1 .. n /\ n \in Nat
      /\ DOMAIN dbs = 1 .. n - 1 /\ Len(more) = n
      /\ more[n] = d /\ \A i \in DOMAIN dbs : more[i] = dbs[i]
  BY PlaceIs
<1>2. \A i \in 1 .. n : i = n \/ i \in DOMAIN dbs
  BY <1>1
<1>3. \A i \in DOMAIN dbs : dbs[i].name # d.name
  BY DEF IsIn
<1>4. IsPlace(more)
  <2>1. more \in Seq(Range(more))
    BY <1>1 DEF Range
  <2>2. \A i \in DOMAIN more : IsDatabase(more[i])
    BY <1>1, <1>2 DEF IsPlace
  <2>3. \A i, j \in DOMAIN more : more[i].name = more[j].name => i = j
    BY <1>1, <1>2, <1>3 DEF IsPlace
  <2> QED
    BY <2>1, <2>2, <2>3 DEF IsPlace
<1>5. (CHOOSE i \in DOMAIN more : more[i].name = d.name) = n
  BY <1>1, <1>2, <1>3
<1>6. Without(more, d.name) = SubSeq(more, 1, n - 1) \o SubSeq(more, n + 1, n)
  <2>1. \E i \in DOMAIN more : more[i].name = d.name
    BY <1>1
  <2>2. Without(more, d.name) = RemoveAt(more, n)
    BY <1>5, <2>1 DEF Without
  <2> QED
    BY <1>1, <2>2 DEF RemoveAt
<1>7. SubSeq(more, 1, n - 1) = dbs
  BY <1>1
<1>8. SubSeq(more, n + 1, n) = <<>>
  BY <1>1
<1>9. Without(more, d.name) = dbs
  BY <1>6, <1>7, <1>8, PlaceIs
<1> QED
  BY <1>1, <1>4, <1>9

\* What a request that writes does to the database created last.
LEMMA InPlaceIs ==
    ASSUME NEW dbs, IsPlace(dbs), NEW d, IsDatabase(d), ~IsIn(d.name, dbs),
           NEW e, e.name = d.name
    PROVE  InPlace(Append(dbs, d), e) = Append(dbs, e)
<1>1. /\ DOMAIN Append(dbs, d) = 1 .. Len(dbs) + 1 /\ DOMAIN dbs = 1 .. Len(dbs)
      /\ Append(dbs, d)[Len(dbs) + 1] = d /\ Len(dbs) \in Nat
      /\ \A i \in DOMAIN dbs : Append(dbs, d)[i] = dbs[i] /\ dbs[i].name # e.name
  BY AppendIs, PlaceIs DEF IsIn
<1>2. InPlace(Append(dbs, d), e) =
         [i \in 1 .. Len(dbs) + 1 |-> IF i = Len(dbs) + 1 THEN e ELSE dbs[i]]
  BY <1>1 DEF InPlace
<1>3. Append(dbs, e) = [i \in 1 .. Len(dbs) + 1 |-> IF i = Len(dbs) + 1 THEN e ELSE dbs[i]]
  <2>1. /\ Append(dbs, e) \in Seq(Range(dbs) \cup {e})
        /\ Len(Append(dbs, e)) = Len(dbs) + 1 /\ Append(dbs, e)[Len(dbs) + 1] = e
        /\ \A i \in 1 .. Len(dbs) : Append(dbs, e)[i] = dbs[i]
    BY <1>1, PlaceIs
  <2>2. Append(dbs, e) = [i \in 1 .. Len(dbs) + 1 |-> Append(dbs, e)[i]]
    BY <1>1, <2>1, LenProperties
  <2> QED
    BY <1>1, <2>1, <2>2
<1> QED
  BY <1>2, <1>3

\* A name stands for one database.
LEMMA NamedIs ==
    ASSUME Sound(device), NEW d \in Stored
    PROVE  /\ Exists(d.name) /\ Named(d.name) = d /\ IsDatabase(d)
           /\ InRam(d.name) <=> d \in Range(device.ram)
<1>1. Exists(d.name)
  BY DEF Exists
<1>2. ASSUME NEW e \in Stored, e.name = d.name PROVE e = d
  BY <1>2, PlaceIs DEF Sound, Stored, IsPlace
<1>3. Named(d.name) = d
  BY <1>2 DEF Named
<1>4. IsDatabase(d)
  BY PlaceIs DEF Sound, Stored
<1>5. InRam(d.name) <=> d \in Range(device.ram)
  BY <1>2 DEF InRam, Stored
<1> QED
  BY <1>1, <1>3, <1>4, <1>5

\* The names of a place, and those of a list.
LEMMA NamesOfIs ==
    ASSUME NEW dbs, IsPlace(dbs)
    PROVE  LET names == NamesOf(dbs)
           IN  /\ names \in Seq(Range(names)) /\ Len(names) = Len(dbs)
               /\ \A i \in DOMAIN dbs : names[i] = dbs[i].name
               /\ DOMAIN names = DOMAIN dbs
               /\ Range(names) = {dbs[i].name : i \in DOMAIN dbs}
<1> DEFINE names == NamesOf(dbs)
<1>1. /\ names = [i \in 1 .. Len(dbs) |-> dbs[i].name] /\ Len(dbs) \in Nat
      /\ DOMAIN dbs = 1 .. Len(dbs)
  BY PlaceIs DEF NamesOf
<1>2. names \in Seq(Range(names)) /\ Len(names) = Len(dbs)
  BY <1>1 DEF Range
<1>3. Range(names) = {dbs[i].name : i \in DOMAIN dbs}
  BY <1>1 DEF Range
<1> QED
  BY <1>1, <1>2, <1>3

LEMMA NamesExist ==
    ASSUME Sound(device), op.places \in Storage, NEW name \in Range(Names)
    PROVE  \E p \in Range(op.places), d \in Stored : d \in Range(device[p]) /\ d.name = name
<1>1. /\ Range(op.places) \subseteq {"ram", "rom"}
      /\ NamesIn("ram") = IF "ram" \in Range(op.places) THEN NamesOf(device.ram) ELSE <<>>
      /\ NamesIn("rom") = IF "rom" \in Range(op.places) THEN NamesOf(device.rom) ELSE <<>>
  BY DEF NamesIn, Storage, Range
<1> DEFINE S == Range(NamesOf(device.ram)) \cup Range(NamesOf(device.rom))
<1>2. NamesIn("ram") \in Seq(S) /\ NamesIn("rom") \in Seq(S)
  <2>1. NamesOf(device.ram) \in Seq(S) /\ NamesOf(device.rom) \in Seq(S)
    BY NamesOfIs, SeqMonotonic DEF Sound
  <2> QED
    BY <1>1, <2>1, EmptySeq
<1>3. PICK i \in DOMAIN Names : Names[i] = name
  BY DEF Range
<1>4. name \in Range(NamesIn("ram")) \/ name \in Range(NamesIn("rom"))
  BY <1>2, <1>3, ConcatProperties, LenProperties DEF Names, Range
<1>5. \/ "ram" \in Range(op.places) /\ name \in Range(NamesOf(device.ram))
      \/ "rom" \in Range(op.places) /\ name \in Range(NamesOf(device.rom))
  BY <1>1, <1>4 DEF Range
<1>6. ASSUME NEW p \in {"ram", "rom"}, name \in Range(NamesOf(device[p]))
      PROVE  \E d \in Stored : d \in Range(device[p]) /\ d.name = name
  <2>1. IsPlace(device[p]) /\ Range(device[p]) \subseteq Stored
    BY <1>6 DEF Sound, Stored
  <2>2. PICK j \in DOMAIN device[p] : device[p][j].name = name
    BY <1>6, <2>1, NamesOfIs
  <2>3. device[p][j] \in Range(device[p])
    BY <2>1, <2>2, PlaceIs
  <2> QED
    BY <2>1, <2>2, <2>3
<1>7. CASE "ram" \in Range(op.places) /\ name \in Range(NamesOf(device.ram))
  BY <1>6, <1>7
<1>8. CASE "rom" \in Range(op.places) /\ name \in Range(NamesOf(device.rom))
  BY <1>6, <1>8
<1> QED
  BY <1>5, <1>7, <1>8

-----------------------------------------------------------------------------
(* What an operation begins with.                                          *)

LEMMA SameDevice ==
    ASSUME UNCHANGED device
    PROVE  \A name : /\ Exists(name)' <=> Exists(name)
                     /\ InRam(name)' <=> InRam(name)
                     /\ Named(name)' = Named(name)
BY DEF Exists, InRam, Named, Stored

LEMMA OperationsAre ==
    ASSUME copy = None \/ IsDatabase(copy), NEW o \in Operations
    PROVE  /\ o = Op(o.what, o.name, o.option, o.db, o.places)
           /\ o.what \in {"list", "backup", "read", "write"}
           /\ o.what \in {"list", "backup"} => o.places \in Storage
           /\ o.what = "write" => IsDatabase(o.db) /\ o.name = o.db.name
BY TransferAssumption DEF Operations, Op

-----------------------------------------------------------------------------
(* Each step keeps the invariant.                                          *)

LEMMA StartOpKeeps == ASSUME IInv, StartOp PROVE IInv'
<1>1. /\ at = "idle" /\ op' \in Operations /\ before' = device /\ result' = "none"
      /\ at' = IF op'.what \in {"list", "backup"} THEN "page" ELSE "conduit"
      /\ list' = [NoList EXCEPT !.todo = op'.places]
      /\ UNCHANGED <<device, open, copy, index, files, faults>>
  BY DEF StartOp
<1>2. /\ op' = Op(op.what, op.name, op.option, op.db, op.places)'
      /\ op'.what \in {"list", "backup", "read", "write"}
      /\ op'.what \in {"list", "backup"} => op'.places \in Storage
      /\ op'.what = "write" => IsDatabase(op'.db) /\ op'.name = op'.db.name
  BY <1>1, OperationsAre DEF IInv, Shapes
<1>3. Shapes'
  BY <1>1, <1>2 DEF IInv, Shapes, Reads, Writes
<1>4. Listing'
  <2>1. CASE op'.what \in {"list", "backup"}
    <3>1. /\ list' = [names |-> <<>>, todo |-> op'.places, start |-> 0] /\ at' = "page"
          /\ Head(op'.places) \in {"ram", "rom"}
      BY <1>1, <1>2, <2>1 DEF NoList, Storage
    <3>2. /\ Len(device[Head(op'.places)]) \in Nat
          /\ SubSeq(NamesOf(device[Head(op'.places)]), 1, 0) = <<>>
      BY <3>1, PlaceIs, SubSeqEmpty DEF IInv, Shapes, Sound
    <3>3. <<>> \o <<>> = <<>>
      OBVIOUS
    <3>4. /\ list' = [names |-> list'.names, todo |-> list'.todo, start |-> list'.start]
          /\ list'.todo = op'.places /\ list'.start = 0 /\ list'.names = <<>>
      BY <3>1
    <3>5. list'.start \in 0 .. Len(device'[Head(list'.todo)])
      BY <1>1, <3>2, <3>4
    <3>6. SubSeq(NamesOf(device'[Head(list'.todo)]), 1, list'.start) = <<>>
      BY <1>1, <3>2, <3>4
    <3>7. list'.names = (IF list'.todo # op'.places THEN NamesOf(device'.ram) ELSE <<>>)
                         \o SubSeq(NamesOf(device'[Head(list'.todo)]), 1, list'.start)
      BY <3>3, <3>4, <3>6
    <3> QED
      BY <1>1, <1>2, <2>1, <3>1, <3>4, <3>5, <3>7 DEF Listing, Reads
  <2>2. CASE op'.what \notin {"list", "backup"}
    BY <2>2 DEF Listing
  <2> QED
    BY <2>1, <2>2
<1>5. Handles' /\ Copying' /\ BackingUp' /\ Writing'
  BY <1>1, <1>2 DEF IInv, Handles, Copying, BackingUp, Writing, Reads, Writes
<1>6. CopiesExact' /\ RefusedForAReason'
  BY <1>1 DEF CopiesExact, RefusedForAReason
<1> QED
  BY <1>3, <1>4, <1>5, <1>6 DEF IInv

\* All of a database is a part of it.
LEMMA WholeIs ==
    ASSUME IsDatabase(op.db)
    PROVE  HalfWritten(op.db.appInfo, op.db.sortInfo, Len(op.db.records)) = op.db
<1>1. op.db.records \in Seq(Range(op.db.records)) /\ Len(op.db.records) \in Nat
  BY LenProperties DEF IsDatabase
<1>2. SubSeq(op.db.records, 1, Len(op.db.records)) = op.db.records
  BY <1>1
<1> QED
  BY <1>2 DEF IsDatabase, HalfWritten

\* Wherever a write stops, the device is in one of three conditions.
LEMMA WriteStopped ==
    ASSUME IInv, op.what = "write", at # "idle"
    PROVE  \/ device = before
           \/ device = WithoutIt /\ ~IsIn(op.name, before.rom)
           \/ \E app \in {None, op.db.appInfo}, sort \in {None, op.db.sortInfo},
                 n \in 0 .. Len(op.db.records) : Holding(HalfWritten(app, sort, n))
<1>1. /\ IsDatabase(op.db) /\ Sound(before)
      /\ at \in {"conduit", "delete", "create"} \cup Writes /\ index \in Nat
  BY DEF IInv, Shapes
<1>2. Len(op.db.records) \in Nat
  BY <1>1, LenProperties DEF IsDatabase
<1>3. CASE at \in {"conduit", "delete"}
  BY <1>3 DEF IInv, Writing
<1>4. CASE at = "create"
  <2>1. ~IsIn(op.name, before.ram) => WithoutIt = before
    BY <1>1, WithoutIs DEF Sound, WithoutIt
  <2>2. IsIn(op.name, before.ram) => ~IsIn(op.name, before.rom)
    BY <1>1 DEF Sound, IsIn
  <2> QED
    BY <1>4, <2>1, <2>2 DEF IInv, Writing
<1>5. CASE at = "writeApp" \/ at = "writeSort"
  <2>1. \E app \in {None, op.db.appInfo} : Holding(HalfWritten(app, None, 0))
    BY <1>5 DEF IInv, Writing
  <2> QED
    BY <1>2, <2>1
<1>6. CASE at = "writeRecords"
  <2>1. index \in 0 .. Len(op.db.records)
           /\ Holding(HalfWritten(op.db.appInfo, op.db.sortInfo, index))
    BY <1>1, <1>2, <1>6 DEF IInv, Writing
  <2> QED
    BY <2>1
<1>7. CASE at = "closeWritten"
  <2>1. Holding(HalfWritten(op.db.appInfo, op.db.sortInfo, Len(op.db.records)))
    BY <1>1, <1>7, WholeIs DEF IInv, Writing
  <2> QED
    BY <1>2, <2>1
<1> QED
  BY <1>1, <1>3, <1>4, <1>5, <1>6, <1>7 DEF Writes

LEMMA ThrowsKeeps ==
    ASSUME IInv, at # "idle", Throws, faults' \in Nat,
           faults' = 0 =>
              /\ faults = 0 /\ open = {}
              /\ \/ op.what = "read" /\ ~Exists(op.name)
                 \/ op.what = "write" /\ (~op.option \/ ~InRam(op.name)) /\ Exists(op.name)
    PROVE  IInv'
<1>1. /\ at' = "idle" /\ result' = "thrown"
      /\ UNCHANGED <<device, open, resetting, op, list, sizes, copy, index, files, before>>
  BY DEF Throws
<1>2. Shapes'
  BY <1>1 DEF IInv, Shapes
<1>3. Listing' /\ Copying' /\ BackingUp' /\ CopiesExact'
  BY <1>1 DEF Listing, Copying, BackingUp, CopiesExact, Reads
<1>4. Handles'
  BY <1>1 DEF Handles, Writes
<1>5. Writing'
  <2>1. WithoutIt' = WithoutIt
    BY <1>1 DEF WithoutIt
  <2>2. \A d : Holding(d)' <=> Holding(d)
    BY <1>1, <2>1 DEF Holding
  <2>3. \A app, sort, n : HalfWritten(app, sort, n)' = HalfWritten(app, sort, n)
    BY <1>1 DEF HalfWritten
  <2> QED
    BY <1>1, <2>1, <2>2, <2>3, WriteStopped DEF Writing
<1>6. RefusedForAReason'
  BY <1>1, SameDevice DEF RefusedForAReason
<1> QED
  BY <1>2, <1>3, <1>4, <1>5, <1>6 DEF IInv

LEMMA RequestFailsKeeps == ASSUME IInv, RequestFails PROVE IInv'
<1>1. faults' \in Nat /\ faults' # 0
  BY DEF IInv, Shapes, RequestFails
<1> QED
  BY <1>1, ThrowsKeeps DEF RequestFails

LEMMA OpenRefusedKeeps == ASSUME IInv, OpenRefused PROVE IInv'
<1>1. /\ at = "open" /\ ~Exists(op.name) /\ Throws /\ faults' = faults /\ faults \in Nat
      /\ op.what \in {"backup", "read"} /\ (faults = 0 => open = {})
  BY DEF OpenRefused, Refused, IInv, Shapes, Handles, Writes, Reads
<1>2. op.what # "backup"
  <2> SUFFICES ASSUME op.what = "backup" PROVE FALSE
    OBVIOUS
  <2>1. op.name \in Range(Names) /\ op.places \in Storage
    BY <1>1 DEF IInv, Listing, Shapes, Reads
  <2> QED
    BY <1>1, <2>1, NamesExist DEF IInv, Shapes, Exists
<1> QED
  BY <1>1, <1>2, ThrowsKeeps

LEMMA DeleteRefusedKeeps == ASSUME IInv, DeleteRefused PROVE IInv'
<1>1. /\ at = "delete" /\ Exists(op.name) /\ (~InRam(op.name) \/ op.name \in open)
      /\ Throws /\ faults' = faults /\ faults \in Nat
      /\ op.what = "write" /\ (faults = 0 => open = {})
  BY DEF DeleteRefused, Refused, IInv, Shapes, Handles, Writes, Reads
<1> QED
  BY <1>1, ThrowsKeeps

LEMMA CreateRefusedKeeps == ASSUME IInv, CreateRefused PROVE IInv'
<1>1. /\ at = "create" /\ Exists(op.name) /\ Throws /\ faults' = faults /\ faults \in Nat
      /\ op.what = "write" /\ (faults = 0 => open = {})
  BY DEF CreateRefused, Refused, IInv, Shapes, Handles, Writes, Reads
<1>2. op.option => ~InRam(op.name)
  <2> SUFFICES ASSUME op.option PROVE ~InRam(op.name)
    OBVIOUS
  <2>1. device = WithoutIt /\ Sound(before)
    BY <1>1 DEF IInv, Writing, Shapes
  <2>2. device.ram = Without(before.ram, op.name) /\ IsPlace(before.ram)
    BY <2>1 DEF WithoutIt, Sound
  <2>3. ~IsIn(op.name, device.ram)
    BY <2>2, WithoutIs
  <2> QED
    BY <2>3 DEF IsIn, InRam, Range
<1> QED
  BY <1>1, <1>2, ThrowsKeeps

\* The list, and the files, while one database is read.
LEMMA SameListing ==
    ASSUME IInv, at \in Reads, at' \in Reads, UNCHANGED <<device, op, files>>,
           op.what = "backup" => list' = list
    PROVE  Listing' /\ BackingUp'
<1>1. Names' = Names /\ at \notin {"idle", "page"} /\ at' \notin {"idle", "page"}
  BY DEF Names, NamesIn, Reads
<1>2. \A name : Copied(name)' = Copied(name)
  BY DEF Copied, Named, Stored
<1>3. op.what # "list"
  BY DEF IInv, Shapes, Reads
<1> QED
  BY <1>1, <1>2, <1>3 DEF IInv, Listing, BackingUp

LEMMA OpenConduitKeeps == ASSUME IInv, OpenConduit PROVE IInv'
<1>1. /\ at = "conduit" /\ result = "none"
      /\ UNCHANGED <<device, open, resetting, op, list, sizes, copy, index, files, result,
                     before, faults>>
      /\ op.what # "write" => at' = "open"
      /\ op.what = "write" => at' = IF op.option THEN "delete" ELSE "create"
      /\ op.what \in {"backup", "read", "write"}
  BY DEF OpenConduit, DeviceSteady, Steady, IInv, Shapes
<1>2. Shapes'
  BY <1>1 DEF IInv, Shapes, Reads, Writes
<1>3. Listing' /\ BackingUp'
  <2>1. CASE op.what = "write"
    BY <1>1, <2>1 DEF Listing, BackingUp
  <2>2. CASE op.what # "write"
    BY <1>1, <2>2, SameListing DEF Reads
  <2> QED
    BY <2>1, <2>2
<1>4. Handles' /\ Copying'
  BY <1>1 DEF IInv, Handles, Copying, Writes
<1>5. Writing'
  BY <1>1 DEF IInv, Writing
<1>6. CopiesExact' /\ RefusedForAReason'
  BY <1>1 DEF CopiesExact, RefusedForAReason
<1> QED
  BY <1>2, <1>3, <1>4, <1>5, <1>6 DEF IInv

LEMMA OpenDbKeeps == ASSUME IInv, OpenDb PROVE IInv'
<1>1. /\ at = "open" /\ result = "none" /\ Exists(op.name) /\ at' = "find"
      /\ open' = open \cup {op.name}
      /\ UNCHANGED <<device, resetting, op, list, sizes, copy, index, files, result,
                     before, faults>>
      /\ op.what \in {"backup", "read"}
  BY DEF OpenDb, Steady, IInv, Shapes, Reads, Writes
<1>2. Shapes'
  BY <1>1 DEF IInv, Shapes, Reads, Writes
<1>3. Listing' /\ BackingUp'
  BY <1>1, SameListing DEF Reads
<1>4. Handles'
  BY <1>1 DEF IInv, Handles, Writes
<1>5. Copying'
  BY <1>1, SameDevice DEF Copying
<1>6. Writing' /\ CopiesExact' /\ RefusedForAReason'
  BY <1>1 DEF Writing, CopiesExact, RefusedForAReason
<1> QED
  BY <1>2, <1>3, <1>4, <1>5, <1>6 DEF IInv

\* The header of a database is that of a database.
LEMMA HeaderIs ==
    ASSUME NEW d, IsDatabase(d)
    PROVE  /\ IsDatabase(Header(d)) /\ Header(d).records = <<>>
           /\ Header(d).appInfo = None /\ Header(d).name = d.name
<1>1. Header(d).records = <<>> /\ <<>> \in Seq(Range(<<>>)) /\ Range(<<>>) = {}
  BY DEF Header, Range
<1> QED
  BY <1>1 DEF IsDatabase, Header

LEMMA FindDbKeeps == ASSUME IInv, FindDb PROVE IInv'
<1> DEFINE d == Named(op.name)
<1>1. /\ at = "find" /\ result = "none" /\ at' \in {"app", "search"} /\ index' = 0
      /\ UNCHANGED <<device, open, resetting, op, files, result, before, faults>>
      /\ op.what \in {"backup", "read"} /\ copy' = Header(d)
      /\ op.what = "backup" => at' = "app"
      /\ list' = IF at' = "search" THEN [NoList EXCEPT !.todo = <<"ram", "rom">>] ELSE list
  BY DEF FindDb, DeviceSteady, Steady, IInv, Shapes, Reads, Writes
<1>2. Exists(op.name) /\ IsDatabase(d) /\ d.name = op.name
  BY <1>1, NamedIs DEF IInv, Copying, Shapes, Exists
<1>3. Shapes'
  BY <1>1, <1>2, HeaderIs DEF IInv, Shapes, Reads, Writes
<1>4. Listing' /\ BackingUp'
  <2>1. CASE op.what = "read"
    BY <1>1, <2>1 DEF Listing, BackingUp
  <2>2. CASE op.what = "backup"
    BY <1>1, <2>2, SameListing DEF Reads
  <2> QED
    BY <1>1, <2>1, <2>2
<1>5. Handles'
  BY <1>1 DEF IInv, Handles, Writes
<1>6. SizesTold(d)'
  <2> DEFINE Size(block) == IF block = None THEN {0}
                            ELSE IF InRam(op.name) THEN {0, 1} ELSE {1}
  <2>1. CASE sizes' # None
    <3>1. PICK app \in Size(d.appInfo), sort \in Size(d.sortInfo) :
              sizes' = [app |-> app, sort |-> sort]
      BY <2>1 DEF FindDb
    <3> QED
      BY <1>1, <3>1, SameDevice DEF SizesTold
  <2> QED
    BY <2>1 DEF SizesTold
<1>7. Copying'
  <2>1. copy' = [Header(d) EXCEPT !.appInfo = None]
    BY <1>1 DEF Header
  <2> QED
    BY <1>1, <1>2, <1>6, <2>1, SameDevice DEF Copying
<1>8. Writing' /\ CopiesExact' /\ RefusedForAReason'
  BY <1>1 DEF Writing, CopiesExact, RefusedForAReason
<1> QED
  BY <1>3, <1>4, <1>5, <1>7, <1>8 DEF IInv

LEMMA SearchPageKeeps == ASSUME IInv, SearchPage PROVE IInv'
<1>1. /\ at = "search" /\ result = "none" /\ at' \in {"app", "search"}
      /\ UNCHANGED <<device, open, resetting, op, sizes, copy, index, files, result,
                     before, faults>>
      /\ op.what = "read"
  BY DEF SearchPage, DeviceSteady, Steady, IInv, Shapes, Reads, Writes
<1>2. Shapes'
  BY <1>1 DEF IInv, Shapes, Reads, Writes
<1>3. Listing' /\ BackingUp' /\ Handles'
  BY <1>1 DEF IInv, Listing, BackingUp, Handles
<1>4. Copying'
  BY <1>1, SameDevice DEF IInv, Copying, SizesTold
<1>5. Writing' /\ CopiesExact' /\ RefusedForAReason'
  BY <1>1 DEF Writing, CopiesExact, RefusedForAReason
<1> QED
  BY <1>2, <1>3, <1>4, <1>5 DEF IInv

\* One DlpReadDBList: it says so at the end of a place, and gives the next
\* names before it.
LEMMA PageIs ==
    ASSUME NEW place, IsPlace(device[place]), NEW start \in 0 .. Len(device[place])
    PROVE  LET names == NamesOf(device[place])
           IN  /\ Page(place, start) = {} => start = Len(device[place])
               /\ \A dbs \in Page(place, start) :
                     /\ start + Len(dbs) \in 0 .. Len(device[place])
                     /\ SubSeq(names, 1, start) \o [i \in DOMAIN dbs |-> dbs[i].name]
                           = SubSeq(names, 1, start + Len(dbs))
<1> DEFINE names == NamesOf(device[place])
<1>1. /\ Len(device[place]) \in Nat /\ device[place] \in Seq(Range(device[place]))
      /\ names \in Seq(Range(names)) /\ Len(names) = Len(device[place])
      /\ \A i \in 1 .. Len(device[place]) : names[i] = device[place][i].name
  BY PlaceIs, NamesOfIs
<1>2. PageSize \in Nat \ {0}
  BY TransferAssumption
<1>3. Page(place, start) = {} => start = Len(device[place])
  <2> SUFFICES ASSUME start < Len(device[place]) PROVE Page(place, start) # {}
    BY <1>1
  <2>1. 1 \in 1 .. PageSize \cap 1 .. (Len(device[place]) - start)
    BY <1>1, <1>2
  <2> QED
    BY <2>1 DEF Page
<1>4. ASSUME NEW dbs \in Page(place, start)
      PROVE  /\ start + Len(dbs) \in 0 .. Len(device[place])
             /\ SubSeq(names, 1, start) \o [i \in DOMAIN dbs |-> dbs[i].name]
                   = SubSeq(names, 1, start + Len(dbs))
  <2>1. PICK n \in 1 .. PageSize \cap 1 .. (Len(device[place]) - start) :
            dbs = SubSeq(device[place], start + 1, start + n)
    BY DEF Page
  <2> DEFINE more == [i \in DOMAIN dbs |-> dbs[i].name]
             front == SubSeq(names, 1, start)
             all == SubSeq(names, 1, start + n)
  <2>2. /\ dbs \in Seq(Range(device[place])) /\ Len(dbs) = n /\ DOMAIN dbs = 1 .. n
        /\ n \in Nat /\ start \in Nat /\ start + n \in 0 .. Len(device[place])
        /\ \A i \in 1 .. n : dbs[i] = device[place][start + i]
    <3>1. /\ n \in Nat \ {0} /\ start \in Nat /\ n <= Len(device[place]) - start
          /\ start + n \in 0 .. Len(device[place])
      BY <1>1, <1>2, <2>1
    <3>2. /\ dbs \in Seq(Range(device[place])) /\ Len(dbs) = (start + n) - start
          /\ \A i \in 1 .. (start + n) - start : dbs[i] = device[place][start + i]
      <4>1. start \in Nat /\ start + n \in Nat /\ start <= start + n
               /\ start + n <= Len(device[place])
        BY <1>1, <3>1
      <4> QED
        BY <1>1, <2>1, <4>1, SubSeqIs
    <3> QED
      BY <3>1, <3>2, LenProperties
  <2>3. /\ more \in Seq(Range(more)) /\ Len(more) = n
        /\ \A i \in 1 .. n : more[i] = names[start + i]
    <3>1. more = [i \in 1 .. n |-> dbs[i].name]
      BY <2>2
    <3>2. \A i \in 1 .. n : start + i \in 1 .. Len(device[place])
      BY <1>1, <2>2
    <3>3. \A i \in 1 .. n : dbs[i].name = names[start + i]
      BY <1>1, <2>2, <3>2
    <3>4. more \in [1 .. n -> Range(more)]
      BY <3>1 DEF Range
    <3> HIDE DEF more
    <3>5. more \in Seq(Range(more)) /\ Len(more) = n
      BY <2>2, <3>1, <3>4
    <3> QED
      BY <3>1, <3>3, <3>5
  <2>4. /\ front \in Seq(Range(names)) /\ Len(front) = start
        /\ \A i \in 1 .. start : front[i] = names[i]
        /\ all \in Seq(Range(names)) /\ Len(all) = start + n
        /\ \A i \in 1 .. start + n : all[i] = names[i]
    BY <1>1, <2>2
  <2> DEFINE S == Range(names) \cup Range(more)
  <2>5. front \in Seq(S) /\ more \in Seq(S) /\ all \in Seq(S)
    BY <2>3, <2>4, SeqMonotonic
  <2> HIDE DEF more, front, all, S
  <2>6. /\ front \o more \in Seq(S) /\ Len(front \o more) = start + n
        /\ \A i \in 1 .. start : (front \o more)[i] = front[i]
        /\ \A i \in start + 1 .. start + n :
              i - start \in 1 .. n /\ (front \o more)[i] = more[i - start]
    <3>1. /\ front \o more \in Seq(S) /\ Len(front \o more) = start + n
          /\ \A i \in 1 .. start + n :
                (front \o more)[i] = IF i <= start THEN front[i] ELSE more[i - start]
      BY <2>3, <2>4, <2>5, ConcatProperties
    <3>2. n \in Nat /\ start \in Nat
      BY <2>2
    <3>3. \A i \in 1 .. start : (front \o more)[i] = front[i]
      BY <3>1, <3>2
    <3>4. \A i \in start + 1 .. start + n :
             i \in 1 .. start + n /\ ~(i <= start) /\ i - start \in 1 .. n
      BY <3>2
    <3> QED
      BY <3>1, <3>3, <3>4
  <2>7. \A i \in 1 .. start + n : (front \o more)[i] = all[i]
    <3> SUFFICES ASSUME NEW i \in 1 .. start + n PROVE (front \o more)[i] = all[i]
      OBVIOUS
    <3>1. CASE i \in 1 .. start
      BY <2>4, <2>6, <3>1
    <3>2. CASE i \in start + 1 .. start + n
      <4>1. (front \o more)[i] = names[start + (i - start)] /\ start + (i - start) = i
        BY <2>2, <2>3, <2>6, <3>2
      <4> QED
        BY <2>4, <4>1
    <3>3. i \in 1 .. start \/ i \in start + 1 .. start + n
      BY <2>2
    <3> QED
      BY <3>1, <3>2, <3>3
  <2>8. front \o more = all
    BY <2>2, <2>4, <2>5, <2>6, <2>7, SeqEqual
  <2> QED
    BY <2>2, <2>8 DEF more, front, all
<1> QED
  BY <1>3, <1>4

\* A list gives the name of every database of its places.
LEMMA NamesComplete ==
    ASSUME Sound(device), op.places \in Storage,
           NEW p \in Range(op.places), NEW d \in Range(device[p])
    PROVE  d \in Stored /\ d.name \in Range(Names)
<1>1. /\ p \in {"ram", "rom"} /\ d \in Stored /\ IsPlace(device[p])
      /\ NamesIn(p) = NamesOf(device[p])
  BY DEF NamesIn, Storage, Range, Sound, Stored
<1>2. PICK j \in DOMAIN NamesIn(p) : NamesIn(p)[j] = d.name
  <2>1. PICK j \in DOMAIN device[p] : d = device[p][j]
    BY <1>1, PlaceIs
  <2>2. j \in DOMAIN NamesOf(device[p]) /\ NamesOf(device[p])[j] = d.name
    BY <1>1, <2>1, NamesOfIs
  <2> QED
    BY <1>1, <2>2
<1>3. \A q \in {"ram", "rom"} : NamesIn(q) \in Seq(Range(NamesIn(q)))
  BY NamesOfIs, EmptySeq DEF NamesIn, Sound
<1> DEFINE S == Range(NamesIn("ram")) \cup Range(NamesIn("rom"))
<1>4. NamesIn("ram") \in Seq(S) /\ NamesIn("rom") \in Seq(S)
  BY <1>3, SeqMonotonic
<1> HIDE DEF S
<1>5. CASE p = "ram"
  <2>1. j \in DOMAIN Names /\ Names[j] = d.name
    BY <1>2, <1>4, <1>5, ConcatProperties, LenProperties DEF Names
  <2> QED
    BY <1>1, <2>1 DEF Range
<1>6. CASE p = "rom"
  <2>1. /\ Len(NamesIn("ram")) + j \in DOMAIN Names
        /\ Names[Len(NamesIn("ram")) + j] = d.name
    BY <1>2, <1>4, <1>6, ConcatProperties, LenProperties DEF Names
  <2> QED
    BY <1>1, <2>1 DEF Range
<1> QED
  BY <1>1, <1>5, <1>6

\* A list that is done names all; a backup goes on with the first name.
LEMMA ListPageKeeps == ASSUME IInv, ListPage PROVE IInv'
<1> DEFINE place == Head(list.todo)
           names == NamesOf(device[place])
           front == IF list.todo # op.places THEN NamesOf(device.ram) ELSE <<>>
<1>1. /\ at = "page" /\ result = "none"
      /\ UNCHANGED <<device, open, resetting, sizes, copy, index, files, before, faults>>
      /\ op.what \in {"list", "backup"} /\ op.places \in Storage
      /\ op = Op(op.what, op.name, op.option, op.db, op.places)
  BY DEF ListPage, DeviceSteady, Steady, IInv, Shapes, Reads, Writes
<1>2. /\ list = [names |-> list.names, todo |-> list.todo, start |-> list.start]
      /\ \/ list.todo = op.places
         \/ list.todo = <<"rom">> /\ op.places = <<"ram", "rom">>
      /\ list.start \in 0 .. Len(device[place])
      /\ list.names = front \o SubSeq(names, 1, list.start)
  BY <1>1 DEF IInv, Listing
<1>3. /\ place \in {"ram", "rom"} /\ IsPlace(device[place])
      /\ IsPlace(device.ram) /\ IsPlace(device.rom)
  BY <1>1, <1>2 DEF Storage, IInv, Shapes, Sound
<1> DEFINE S == Range(NamesOf(device.ram)) \cup Range(NamesOf(device.rom))
<1>4. /\ front \in Seq(S) /\ names \in Seq(S) /\ Len(names) = Len(device[place])
      /\ Len(names) \in Nat /\ NamesOf(device.ram) \in Seq(S) /\ NamesOf(device.rom) \in Seq(S)
  <2>1. /\ NamesOf(device.ram) \in Seq(Range(NamesOf(device.ram)))
        /\ NamesOf(device.rom) \in Seq(Range(NamesOf(device.rom)))
        /\ Len(names) = Len(device[place]) /\ Len(names) \in Nat
    BY <1>3, NamesOfIs, LenProperties
  <2>2. NamesOf(device.ram) \in Seq(S) /\ NamesOf(device.rom) \in Seq(S)
    BY <2>1, SeqMonotonic
  <2> QED
    BY <1>3, <2>1, <2>2, EmptySeq
<1>5. Handles' /\ Copying' /\ Writing' /\ RefusedForAReason'
  <2>1. /\ at' \in {"page", "conduit", "idle"} /\ op'.what = op.what
        /\ result' \in {"none", "done"}
    BY <1>1 DEF ListPage, Op
  <2> QED
    BY <1>1, <2>1 DEF IInv, Handles, Copying, Writing, RefusedForAReason, Reads, Writes
<1>6. CASE /\ Page(place, list.start) = {}
           /\ list' = NextPlace(list)
           /\ IF Len(list.todo) > 1
              THEN UNCHANGED <<op, at, result>>
              ELSE IF op.what = "list" \/ list.names = <<>>
              THEN at' = "idle" /\ result' = "done" /\ UNCHANGED op
              ELSE /\ op' = [op EXCEPT !.name = Head(list.names)]
                   /\ at' = "conduit" /\ UNCHANGED result
  <2>1. list.start = Len(device[place])
    BY <1>2, <1>3, <1>6, PageIs
  <2>2. list.names = front \o names
    <3>1. SubSeq(names, 1, Len(names)) = names
      BY <1>4
    <3> QED
      BY <1>2, <1>4, <2>1, <3>1
  <2>3. list' = [names |-> list.names, todo |-> Tail(list.todo), start |-> 0]
    BY <1>6 DEF NextPlace
  <2>4. CASE Len(list.todo) > 1
    <3>1. /\ list.todo = op.places /\ op.places = <<"ram", "rom">>
          /\ UNCHANGED <<op, at, result>> /\ list'.todo = <<"rom">>
      <4>1. list.todo = <<"ram", "rom">>
        <5>1. Len(<<"ram">>) = 1 /\ Len(<<"rom">>) = 1
          OBVIOUS
        <5>2. ASSUME list.todo = <<"ram">> \/ list.todo = <<"rom">> PROVE FALSE
          <6>1. Len(list.todo) = 1
            BY <5>1, <5>2
          <6> QED
            BY <2>4, <6>1
        <5> QED
          BY <1>1, <1>2, <5>2 DEF Storage
      <4>2. op.places = <<"ram", "rom">> /\ list.todo = op.places
        BY <1>2, <4>1
      <4>3. Tail(list.todo) = <<"rom">>
        BY <4>1
      <4> QED
        BY <1>6, <2>3, <2>4, <4>2, <4>3
    <3>2. list.names = NamesOf(device.ram) \o <<>>
      BY <1>4, <2>2, <3>1, ConcatEmptySeq
    <3>3. SubSeq(NamesOf(device.rom), 1, 0) = <<>> /\ 0 \in 0 .. Len(device.rom)
      BY <1>3, <1>4, PlaceIs, SubSeqEmpty
    <3>4. Shapes' /\ BackingUp' /\ CopiesExact'
      BY <1>1, <3>1 DEF IInv, Shapes, BackingUp, CopiesExact, Reads
    <3>5. /\ list' = [names |-> list'.names, todo |-> list'.todo, start |-> list'.start]
          /\ list'.names = list.names /\ list'.start = 0
      BY <2>3
    <3>6. Head(list'.todo) = "rom" /\ list'.todo # op.places
      BY <3>1
    <3>7. Listing'
      BY <1>1, <3>1, <3>2, <3>3, <3>5, <3>6 DEF Listing, Reads
    <3> QED
      BY <1>5, <3>4, <3>7 DEF IInv
  <2>5. CASE ~(Len(list.todo) > 1)
    <3>1. list.names = Names
      <4>1. CASE op.places = <<"ram">>
        <5>1. NamesIn("ram") = NamesOf(device.ram) /\ NamesIn("rom") = <<>>
          BY <4>1 DEF NamesIn, Range
        <5>2. front = <<>> /\ names = NamesOf(device.ram)
          BY <1>2, <4>1
        <5> QED
          BY <1>4, <2>2, <5>1, <5>2, ConcatEmptySeq DEF Names
      <4>2. CASE op.places = <<"rom">>
        <5>1. NamesIn("ram") = <<>> /\ NamesIn("rom") = NamesOf(device.rom)
          BY <4>2 DEF NamesIn, Range
        <5>2. front = <<>> /\ names = NamesOf(device.rom)
          BY <1>2, <4>2
        <5> QED
          BY <2>2, <5>1, <5>2 DEF Names
      <4>3. CASE op.places = <<"ram", "rom">>
        <5>1. NamesIn("ram") = NamesOf(device.ram) /\ NamesIn("rom") = NamesOf(device.rom)
          BY <4>3 DEF NamesIn, Range
        <5>2. front = NamesOf(device.ram) /\ names = NamesOf(device.rom)
          BY <1>2, <2>5, <4>3
        <5> QED
          BY <2>2, <5>1, <5>2 DEF Names
      <4> QED
        BY <1>1, <4>1, <4>2, <4>3 DEF Storage
    <3>2. CASE op.what = "list" \/ list.names = <<>>
      <4>1. at' = "idle" /\ result' = "done" /\ UNCHANGED op
        BY <1>6, <2>5, <3>2
      <4>2. Shapes'
        BY <1>1, <4>1 DEF IInv, Shapes
      <4>3. Listing'
        BY <1>1, <2>3, <3>1, <4>1 DEF Listing, Names, NamesIn, Reads
      <4>4. ASSUME op.what = "backup", NEW p \in Range(op.places), NEW d \in Range(device[p])
            PROVE  FALSE
        <5>1. d.name \in Range(Names) /\ Names = <<>>
          BY <1>1, <3>1, <3>2, <4>4, NamesComplete DEF IInv, Shapes
        <5> QED
          BY <5>1 DEF Range
      <4>5. op.what = "backup" => DOMAIN list.names = {}
        BY <3>2
      <4>6. BackingUp' /\ CopiesExact'
        BY <1>1, <2>3, <4>1, <4>4, <4>5 DEF BackingUp, CopiesExact, Reads
      <4> QED
        BY <1>5, <4>2, <4>3, <4>6 DEF IInv
    <3>3. CASE op.what = "backup" /\ list.names # <<>>
      <4>0. list.names \in Seq(S)
        BY <1>4, <2>2, ConcatProperties
      <4>1. /\ op' = [op EXCEPT !.name = Head(list.names)] /\ at' = "conduit"
            /\ result' = result /\ Head(list.names) = list.names[1]
            /\ list.names \in Seq(S)
        BY <1>6, <2>5, <3>3, <4>0
      <4>2. /\ op' = Op(op.what, list.names[1], op.option, op.db, op.places)
            /\ 1 \in DOMAIN list.names
        BY <1>1, <3>3, <4>1 DEF Op
      <4>3. /\ op'.what = op.what /\ op'.places = op.places /\ op'.name = list.names[1]
            /\ op'.option = op.option /\ op'.db = op.db
        BY <4>2 DEF Op
      <4>4. Shapes'
        BY <1>1, <3>3, <4>1, <4>2, <4>3 DEF IInv, Shapes, Reads
      <4>5. Listing'
        <5>1. Names' = Names /\ list'.names = list.names /\ list.names = Names
              /\ at' = "conduit"
          BY <1>1, <2>3, <3>1, <4>1, <4>2 DEF Names, NamesIn, Op
        <5>2. op'.name \in Range(list.names)
          BY <4>2, <4>3 DEF Range
        <5> QED
          BY <5>1, <5>2 DEF Listing, Reads
      <4>6. BackingUp' /\ CopiesExact'
        BY <1>1, <2>3, <4>1, <4>2, <4>3 DEF BackingUp, CopiesExact, Reads
      <4> QED
        BY <1>5, <4>4, <4>5, <4>6 DEF IInv
    <3> QED
      BY <1>1, <3>2, <3>3
  <2> QED
    BY <2>4, <2>5
<1>7. ASSUME NEW dbs \in Page(place, list.start),
             list' = [names |-> list.names \o [i \in DOMAIN dbs |-> dbs[i].name],
                      todo |-> list.todo,
                      start |-> NextStart(list.start, dbs)],
             UNCHANGED <<op, at, result>>
      PROVE  IInv'
  <2> DEFINE more == [i \in DOMAIN dbs |-> dbs[i].name]
             start == list.start + Len(dbs)
  <2>1. /\ start \in 0 .. Len(device[place])
        /\ SubSeq(names, 1, list.start) \o more = SubSeq(names, 1, start)
    BY <1>2, <1>3, <1>7, PageIs
  <2>2. list.names \o more = front \o SubSeq(names, 1, start)
    <3> DEFINE T == S \cup Range(more)
               read == SubSeq(names, 1, list.start)
    <3>1. more \in Seq(T)
      <4>1. DOMAIN dbs = 1 .. Len(dbs) /\ Len(dbs) \in Nat
        BY <1>2, <1>3, <1>7, PageIs, PlaceIs DEF Page
      <4> QED
        BY <4>1 DEF Range
    <3>2. read \in Seq(S)
      BY <1>2, <1>4
    <3>3. Seq(S) \subseteq Seq(T)
      BY SeqMonotonic
    <3> HIDE DEF T, S, more
    <3>4. (front \o read) \o more = front \o (read \o more)
      <4>1. front \in Seq(T) /\ read \in Seq(T)
        BY <1>4, <3>2, <3>3
      <4> HIDE DEF read, front
      <4> QED
        BY <3>1, <4>1, ConcatAssociative
    <3> QED
      BY <1>2, <2>1, <3>4
  <2>3. list' = [names |-> list.names \o more, todo |-> list.todo, start |-> start]
    BY <1>7 DEF NextStart
  <2> HIDE DEF more, start
  <2>4. Shapes' /\ BackingUp' /\ CopiesExact'
    BY <1>1, <1>7 DEF IInv, Shapes, BackingUp, CopiesExact, Reads
  <2>5. Listing'
    <3>1. /\ list' = [names |-> list'.names, todo |-> list'.todo, start |-> list'.start]
          /\ list'.names = list.names \o more /\ list'.todo = list.todo /\ list'.start = start
      BY <2>3
    <3> QED
      BY <1>1, <1>2, <1>7, <2>1, <2>2, <3>1 DEF Listing, Reads
  <2> QED
    BY <1>5, <2>4, <2>5 DEF IInv
<1> QED
  BY <1>6, <1>7 DEF ListPage

\* The database in hand, while its blocks and records are read.
LEMMA InHand ==
    ASSUME IInv, at \in {"find", "search", "app", "sort", "records"}
    PROVE  LET d == Named(op.name)
           IN  /\ IsDatabase(d) /\ d.name = op.name /\ d \in Stored /\ Exists(op.name)
               /\ op.what \in {"backup", "read"} /\ result = "none"
<1>1. /\ Exists(op.name) /\ Sound(device) /\ op.what \in {"backup", "read"}
      /\ result = "none"
  BY DEF IInv, Copying, Shapes, Reads, Writes
<1>2. PICK d \in Stored : d.name = op.name
  BY <1>1 DEF Exists
<1> QED
  BY <1>1, <1>2, NamedIs

\* A block that is not asked for is not there.
LEMMA AskedOrNone ==
    ASSUME NEW d, SizesTold(d), sizes # None
    PROVE  /\ ~AskForBlock("app") => d.appInfo = None
           /\ ~AskForBlock("sort") => d.sortInfo = None
<1>1. sizes.app \in {0, 1} /\ sizes.sort \in {0, 1} /\ sizes["app"] = sizes.app
         /\ sizes["sort"] = sizes.sort
  BY DEF SizesTold
<1> QED
  BY <1>1 DEF SizesTold, AskForBlock

LEMMA ReadAppKeeps == ASSUME IInv, ReadBlock("app", "appInfo", "app", "sort") PROVE IInv'
<1> DEFINE d == Named(op.name)
<1>1. /\ at = "app" /\ at' = "sort"
      /\ UNCHANGED <<device, open, resetting, op, list, sizes, index, files, result, before,
                     faults>>
  BY DEF ReadBlock, Steady
<1>2. /\ IsDatabase(d) /\ op.what \in {"backup", "read"} /\ result = "none"
      /\ Exists(op.name)
  BY <1>1, InHand
<1>3. /\ SizesTold(d) /\ index = 0 /\ copy = [Header(d) EXCEPT !.appInfo = None]
  BY <1>1 DEF IInv, Copying
<1>4. copy' = [Header(d) EXCEPT !.appInfo = d.appInfo]
  <2>1. CASE AskForBlock("app")
    BY <1>3, <2>1 DEF ReadBlock, Header
  <2>2. CASE ~AskForBlock("app")
    <3>1. sizes # None
      BY <2>2 DEF AskForBlock
    <3> QED
      BY <1>3, <2>2, <3>1, AskedOrNone DEF ReadBlock
  <2> QED
    BY <2>1, <2>2
<1>5. Shapes'
  <2>1. IsDatabase(copy')
    BY <1>2, <1>4, HeaderIs DEF IsDatabase, Header
  <2> QED
    BY <1>1, <1>2, <2>1 DEF IInv, Shapes, Reads, Writes
<1>6. Listing' /\ BackingUp'
  BY <1>1, SameListing DEF Reads
<1>7. Handles' /\ Writing' /\ CopiesExact' /\ RefusedForAReason'
  BY <1>1, <1>2 DEF IInv, Handles, Writing, CopiesExact, RefusedForAReason, Writes
<1>8. Copying'
  BY <1>1, <1>2, <1>3, <1>4, SameDevice DEF Copying, SizesTold
<1> QED
  BY <1>5, <1>6, <1>7, <1>8 DEF IInv

LEMMA ReadSortKeeps ==
    ASSUME IInv, ReadBlock("sort", "sortInfo", "sort", "records") PROVE IInv'
<1> DEFINE d == Named(op.name)
<1>1. /\ at = "sort" /\ at' = "records"
      /\ UNCHANGED <<device, open, resetting, op, list, sizes, index, files, result, before,
                     faults>>
  BY DEF ReadBlock, Steady
<1>2. /\ IsDatabase(d) /\ op.what \in {"backup", "read"} /\ result = "none"
      /\ Exists(op.name)
  BY <1>1, InHand
<1>3. /\ SizesTold(d) /\ index = 0 /\ copy = [Header(d) EXCEPT !.appInfo = d.appInfo]
  BY <1>1 DEF IInv, Copying
<1>4. copy' = [d EXCEPT !.records = <<>>]
  <2>1. /\ copy = [name |-> d.name, resDB |-> d.resDB, reset |-> d.reset,
                    appInfo |-> d.appInfo, sortInfo |-> None, records |-> <<>>]
        /\ [d EXCEPT !.records = <<>>] =
               [name |-> d.name, resDB |-> d.resDB, reset |-> d.reset,
                appInfo |-> d.appInfo, sortInfo |-> d.sortInfo, records |-> <<>>]
    BY <1>2, <1>3 DEF Header, IsDatabase
  <2>2. CASE AskForBlock("sort")
    <3>1. copy' = [copy EXCEPT !.sortInfo = d.sortInfo]
      BY <2>2 DEF ReadBlock
    <3> QED
      BY <2>1, <3>1
  <2>3. CASE ~AskForBlock("sort")
    <3>1. sizes # None
      BY <2>3 DEF AskForBlock
    <3>2. d.sortInfo = None /\ copy' = copy
      BY <1>3, <2>3, <3>1, AskedOrNone DEF ReadBlock
    <3> QED
      BY <2>1, <3>2
  <2> QED
    BY <2>2, <2>3
<1>5. Shapes'
  <2>1. IsDatabase(copy')
    BY <1>2, <1>4, HeaderIs DEF IsDatabase, Header
  <2> QED
    BY <1>1, <1>2, <2>1 DEF IInv, Shapes, Reads, Writes
<1>6. Listing' /\ BackingUp'
  BY <1>1, SameListing DEF Reads
<1>7. Handles' /\ Writing' /\ CopiesExact' /\ RefusedForAReason'
  BY <1>1, <1>2 DEF IInv, Handles, Writing, CopiesExact, RefusedForAReason, Writes
<1>8. Copying'
  <2>1. copy'.records = <<>> /\ copy' = [d EXCEPT !.records = copy'.records]
    BY <1>2, <1>4 DEF IsDatabase
  <2>2. \A include : Kept(d, include, 0) = {}
    BY DEF Kept
  <2>3. \A include : CopiedTo(copy', d, include, 0)
    BY <2>1, <2>2, FS_EmptySet, EmptySeq DEF CopiedTo, Range
  <2>4. 0 <= Len(d.records)
    BY <1>2, LenProperties DEF IsDatabase
  <2>5. Including' = Including /\ index' = 0
    BY <1>1, <1>3 DEF Including
  <2> QED
    BY <1>1, <1>2, <2>1, <2>3, <2>4, <2>5, SameDevice DEF Copying
<1> QED
  BY <1>5, <1>6, <1>7, <1>8 DEF IInv

\* The records kept of the first n, and of one more.
LEMMA KeptIs ==
    ASSUME NEW d, NEW include, NEW n \in Nat
    PROVE  /\ Kept(d, include, n) \subseteq 1 .. n
           /\ IsFiniteSet(Kept(d, include, n)) /\ Cardinality(Kept(d, include, n)) \in Nat
           /\ \A i \in Kept(d, include, n) :
                 Rank(d, include, n, i) \in 1 .. Cardinality(Kept(d, include, n))
<1> DEFINE K == Kept(d, include, n)
<1>1. K \subseteq 1 .. n /\ IsFiniteSet(1 .. n)
  BY FS_Interval DEF Kept
<1> HIDE DEF K
<1>2. IsFiniteSet(K) /\ Cardinality(K) \in Nat
  BY <1>1, FS_Subset, FS_CardinalityType
<1>3. ASSUME NEW i \in K PROVE Cardinality({j \in K : j <= i}) \in 1 .. Cardinality(K)
  <2> DEFINE J == {j \in K : j <= i}
  <2>1. J \subseteq K /\ i \in J
    BY <1>1, <1>3
  <2> HIDE DEF J
  <2>2. IsFiniteSet(J) /\ Cardinality(J) <= Cardinality(K) /\ Cardinality(J) \in Nat
    BY <1>2, <2>1, FS_Subset, FS_CardinalityType
  <2>3. Cardinality(J) # 0
    BY <2>1, <2>2, FS_EmptySet
  <2> QED
    BY <1>2, <2>2, <2>3 DEF J
<1> QED
  BY <1>1, <1>2, <1>3 DEF Rank, K

LEMMA KeptSame ==
    ASSUME NEW d, NEW include, NEW n \in Nat,
           ~(d.resDB \/ d.records[n + 1].kind # "gone" \/ include)
    PROVE  /\ Kept(d, include, n + 1) = Kept(d, include, n)
           /\ \A i : Rank(d, include, n + 1, i) = Rank(d, include, n, i)
<1>1. Kept(d, include, n + 1) = Kept(d, include, n)
  BY DEF Kept
<1> QED
  BY <1>1 DEF Rank

LEMMA KeptGrows ==
    ASSUME NEW d, NEW include, NEW n \in Nat,
           d.resDB \/ d.records[n + 1].kind # "gone" \/ include
    PROVE  LET k == Cardinality(Kept(d, include, n))
           IN  /\ Kept(d, include, n + 1) = Kept(d, include, n) \cup {n + 1}
               /\ Cardinality(Kept(d, include, n + 1)) = k + 1
               /\ Rank(d, include, n + 1, n + 1) = k + 1
               /\ \A i \in Kept(d, include, n) :
                     Rank(d, include, n + 1, i) = Rank(d, include, n, i)
<1> DEFINE K(m) == Kept(d, include, m)
<1>1. K(n + 1) = K(n) \cup {n + 1} /\ n + 1 \notin K(n)
  BY DEF Kept
<1>2. IsFiniteSet(K(n)) /\ K(n) \subseteq 1 .. n
  BY KeptIs
<1> HIDE DEF K
<1>3. Cardinality(K(n + 1)) = Cardinality(K(n)) + 1
  BY <1>1, <1>2, FS_AddElement
<1>4. {j \in K(n + 1) : j <= n + 1} = K(n + 1)
  BY <1>1, <1>2
<1>5. \A i \in K(n) : {j \in K(n + 1) : j <= i} = {j \in K(n) : j <= i}
  BY <1>1, <1>2
<1> QED
  BY <1>1, <1>3, <1>4, <1>5 DEF Rank, K

\* One more record is read.
LEMMA CopiedSame ==
    ASSUME NEW c, NEW d, NEW include, NEW n \in Nat, CopiedTo(c, d, include, n),
           ~(d.resDB \/ d.records[n + 1].kind # "gone" \/ include)
    PROVE  CopiedTo(c, d, include, n + 1)
BY KeptSame DEF CopiedTo

LEMMA CopiedGrows ==
    ASSUME NEW c, NEW d, NEW include, NEW n \in Nat, CopiedTo(c, d, include, n),
           d.records[n + 1] \in Range(d.records),
           d.resDB \/ d.records[n + 1].kind # "gone" \/ include,
           NEW e, e.records = Append(c.records, d.records[n + 1])
    PROVE  CopiedTo(e, d, include, n + 1)
<1> DEFINE K == Kept(d, include, n)
           k == Cardinality(K)
<1>1. /\ c.records \in Seq(Range(d.records)) /\ Len(c.records) = k
      /\ \A i \in K : c.records[Rank(d, include, n, i)] = d.records[i]
  BY DEF CopiedTo
<1>2. /\ k \in Nat /\ Kept(d, include, n + 1) = K \cup {n + 1}
      /\ Cardinality(Kept(d, include, n + 1)) = k + 1
      /\ Rank(d, include, n + 1, n + 1) = k + 1
      /\ \A i \in K : /\ Rank(d, include, n + 1, i) = Rank(d, include, n, i)
                      /\ Rank(d, include, n, i) \in 1 .. k
  <2>1. k \in Nat /\ \A i \in K : Rank(d, include, n, i) \in 1 .. k
    BY KeptIs
  <2> HIDE DEF k, K
  <2>2. /\ Kept(d, include, n + 1) = K \cup {n + 1}
        /\ Cardinality(Kept(d, include, n + 1)) = k + 1
        /\ Rank(d, include, n + 1, n + 1) = k + 1
        /\ \A i \in K : Rank(d, include, n + 1, i) = Rank(d, include, n, i)
    BY KeptGrows DEF k, K
  <2> QED
    BY <2>1, <2>2
<1> HIDE DEF k, K
<1>3. /\ e.records \in Seq(Range(d.records))
      /\ Len(e.records) = k + 1 /\ e.records[k + 1] = d.records[n + 1]
      /\ \A i \in 1 .. k : e.records[i] = c.records[i]
  BY <1>1, <1>2, AppendProperties
<1>4. ASSUME NEW i \in K \cup {n + 1} PROVE e.records[Rank(d, include, n + 1, i)] = d.records[i]
  BY <1>1, <1>2, <1>3
<1> QED
  BY <1>2, <1>3, <1>4 DEF CopiedTo

\* What has been read of a database is one.
LEMMA PartIs ==
    ASSUME NEW d, IsDatabase(d), NEW c, NEW include, NEW n,
           c = [d EXCEPT !.records = c.records], CopiedTo(c, d, include, n)
    PROVE  /\ IsDatabase(c) /\ c.name = d.name /\ c.resDB = d.resDB /\ c.reset = d.reset
           /\ c.appInfo = d.appInfo /\ c.sortInfo = d.sortInfo
<1>1. c = [name |-> d.name, resDB |-> d.resDB, reset |-> d.reset,
           appInfo |-> d.appInfo, sortInfo |-> d.sortInfo, records |-> c.records]
  BY DEF IsDatabase
<1>2. c.records \in Seq(Range(c.records)) /\ Range(c.records) \subseteq Range(d.records)
  BY RangeIs DEF CopiedTo
<1> QED
  BY <1>1, <1>2 DEF IsDatabase

LEMMA ReadRecordKeeps == ASSUME IInv, ReadRecord PROVE IInv'
<1> DEFINE d == Named(op.name)
           r == d.records[index + 1]
<1>1. /\ at = "records" /\ at' = "records" /\ index < Len(d.records) /\ index' = index + 1
      /\ copy' = IF Wanted(d, r, op.what = "read" /\ op.option)
                 THEN [copy EXCEPT !.records = Append(copy.records, r)] ELSE copy
      /\ UNCHANGED <<device, open, resetting, op, list, sizes, files, result, before, faults>>
  BY DEF ReadRecord, DeviceSteady, Steady
<1>2. /\ IsDatabase(d) /\ op.what \in {"backup", "read"} /\ result = "none"
      /\ Exists(op.name) /\ index \in Nat
  BY <1>1, InHand DEF IInv, Shapes
<1>3. /\ copy = [d EXCEPT !.records = copy.records] /\ CopiedTo(copy, d, Including, index)
  BY <1>1 DEF IInv, Copying
<1>4. /\ Including = (op.what = "read" /\ op.option) /\ Including' = Including
      /\ Wanted(d, r, op.what = "read" /\ op.option)
            <=> d.resDB \/ r.kind # "gone" \/ Including
  BY <1>1 DEF Including, Wanted
<1>5. /\ r \in Range(d.records) /\ index + 1 <= Len(d.records)
      /\ d.records \in Seq(Range(d.records))
  BY <1>1, <1>2, LenProperties DEF IsDatabase, Range
<1>6. /\ copy' = [d EXCEPT !.records = copy'.records]
      /\ CopiedTo(copy', d, Including, index + 1)
  <2>1. CASE Wanted(d, r, op.what = "read" /\ op.option)
    <3>1. copy'.records = Append(copy.records, r) /\ copy' = [d EXCEPT !.records = copy'.records]
      BY <1>1, <1>2, <1>3, <2>1 DEF IsDatabase
    <3> QED
      BY <1>2, <1>3, <1>4, <1>5, <2>1, <3>1, CopiedGrows
  <2>2. CASE ~Wanted(d, r, op.what = "read" /\ op.option)
    BY <1>1, <1>2, <1>3, <1>4, <2>2, CopiedSame
  <2> QED
    BY <2>1, <2>2
<1>10. Shapes'
  <2>1. IsDatabase(copy')
    BY <1>2, <1>6, PartIs
  <2> QED
    BY <1>1, <1>2, <2>1 DEF IInv, Shapes, Reads, Writes
<1>7. Listing' /\ BackingUp'
  BY <1>1, SameListing DEF Reads
<1>8. Handles' /\ Writing' /\ CopiesExact' /\ RefusedForAReason'
  BY <1>1, <1>2 DEF IInv, Handles, Writing, CopiesExact, RefusedForAReason, Writes
<1>9. Copying'
  BY <1>1, <1>2, <1>4, <1>5, <1>6, SameDevice DEF Copying
<1> QED
  BY <1>7, <1>8, <1>9, <1>10 DEF IInv

\* No two places of a list are for the same database.
LEMMA NamesDistinct ==
    ASSUME Sound(device), op.places \in Storage
    PROVE  /\ Names \in Seq(Range(Names)) /\ DOMAIN Names = 1 .. Len(Names)
           /\ Len(Names) \in Nat
           /\ \A i, j \in DOMAIN Names : Names[i] = Names[j] => i = j
<1> DEFINE ram == NamesOf(device.ram)
           rom == NamesOf(device.rom)
           S == Range(ram) \cup Range(rom)
<1>1. /\ ram \in Seq(S) /\ Len(ram) = Len(device.ram) /\ Len(ram) \in Nat
      /\ rom \in Seq(S) /\ Len(rom) = Len(device.rom) /\ Len(rom) \in Nat
  <2>1. /\ ram \in Seq(Range(ram)) /\ Len(ram) = Len(device.ram) /\ Len(ram) \in Nat
        /\ rom \in Seq(Range(rom)) /\ Len(rom) = Len(device.rom) /\ Len(rom) \in Nat
    BY NamesOfIs, LenProperties DEF Sound
  <2> QED
    BY <2>1, SeqMonotonic
<1>2. /\ \A i, j \in 1 .. Len(ram) : ram[i] = ram[j] => i = j
      /\ \A i, j \in 1 .. Len(rom) : rom[i] = rom[j] => i = j
      /\ \A i \in 1 .. Len(ram), j \in 1 .. Len(rom) : ram[i] # rom[j]
  <2>1. /\ DOMAIN device.ram = 1 .. Len(ram) /\ DOMAIN device.rom = 1 .. Len(rom)
        /\ \A i \in DOMAIN device.ram : ram[i] = device.ram[i].name
        /\ \A i \in DOMAIN device.rom : rom[i] = device.rom[i].name
    BY <1>1, NamesOfIs, PlaceIs DEF Sound
  <2> QED
    BY <2>1 DEF Sound, IsPlace
<1> HIDE DEF ram, rom, S
<1>3. Names \in {ram, rom, ram \o rom}
  <2>1. /\ op.places = <<"ram">> => Range(op.places) = {"ram"}
        /\ op.places = <<"rom">> => Range(op.places) = {"rom"}
        /\ op.places = <<"ram", "rom">> => Range(op.places) = {"ram", "rom"}
    BY DEF Range
  <2>2. ram \o <<>> = ram /\ <<>> \o rom = rom
    BY <1>1, ConcatEmptySeq
  <2> QED
    BY <2>1, <2>2 DEF Names, NamesIn, Storage, ram, rom
<1>4. /\ ram \o rom \in Seq(S) /\ Len(ram \o rom) = Len(ram) + Len(rom)
      /\ \A i \in 1 .. Len(ram) + Len(rom) :
            (ram \o rom)[i] = IF i <= Len(ram) THEN ram[i] ELSE rom[i - Len(ram)]
  BY <1>1, ConcatProperties
<1>5. Names \in Seq(S)
  BY <1>1, <1>3, <1>4
<1>6. ASSUME NEW i \in 1 .. Len(ram) + Len(rom), NEW j \in 1 .. Len(ram) + Len(rom),
             (ram \o rom)[i] = (ram \o rom)[j]
      PROVE  i = j
  <2> DEFINE p == Len(ram)
             q == Len(rom)
             all == ram \o rom
  <2>1. p \in Nat /\ q \in Nat /\ i \in 1 .. p + q /\ j \in 1 .. p + q
    BY <1>1
  <2>2. \A k \in 1 .. p + q : all[k] = IF k <= p THEN ram[k] ELSE rom[k - p]
    BY <1>4
  <2>3. all[i] = all[j]
    BY <1>6
  <2>4. /\ \A a, b \in 1 .. p : ram[a] = ram[b] => a = b
        /\ \A a, b \in 1 .. q : rom[a] = rom[b] => a = b
        /\ \A a \in 1 .. p, b \in 1 .. q : ram[a] # rom[b]
    BY <1>2
  <2> HIDE DEF p, q, all
  <2>5. CASE i <= p /\ j <= p
    BY <2>1, <2>2, <2>3, <2>4, <2>5
  <2>6. CASE i > p /\ j > p
    <3>1. i - p \in 1 .. q /\ j - p \in 1 .. q /\ rom[i - p] = rom[j - p]
      BY <2>1, <2>2, <2>3, <2>6
    <3> QED
      BY <2>1, <2>4, <3>1
  <2>7. CASE i <= p /\ j > p
    <3>1. i \in 1 .. p /\ j - p \in 1 .. q /\ ram[i] = rom[j - p]
      BY <2>1, <2>2, <2>3, <2>7
    <3> QED
      BY <2>4, <3>1
  <2>8. CASE i > p /\ j <= p
    <3>1. j \in 1 .. p /\ i - p \in 1 .. q /\ ram[j] = rom[i - p]
      BY <2>1, <2>2, <2>3, <2>8
    <3> QED
      BY <2>4, <3>1
  <2> QED
    BY <2>1, <2>5, <2>6, <2>7, <2>8
<1>7. Names \in Seq(Range(Names))
  BY <1>5, RangeIs
<1>8. DOMAIN Names = 1 .. Len(Names) /\ Len(Names) \in Nat
  BY <1>5, LenProperties
<1>9. \A i, j \in 1 .. Len(Names) : Names[i] = Names[j] => i = j
  <2>1. CASE Names = ram \/ Names = rom
    BY <1>2, <2>1
  <2>2. CASE Names = ram \o rom
    BY <1>4, <1>6, <2>2
  <2> QED
    BY <1>3, <2>1, <2>2
<1> QED
  BY <1>7, <1>8, <1>9

\* All of a database has been read.
LEMMA CopyIs ==
    ASSUME NEW d, IsDatabase(d), NEW c, NEW include,
           c = [d EXCEPT !.records = c.records], CopiedTo(c, d, include, Len(d.records))
    PROVE  IsCopy(c, d, include)
<1> DEFINE kept == {i \in DOMAIN d.records :
                       d.resDB \/ d.records[i].kind # "gone" \/ include}
<1>1. kept = Kept(d, include, Len(d.records))
  <2>1. DOMAIN d.records = 1 .. Len(d.records)
    BY LenProperties DEF IsDatabase
  <2> QED
    BY <2>1 DEF Kept
<1>2. c.records \in Seq(Range(c.records))
  BY RangeIs DEF CopiedTo
<1> HIDE DEF kept
<1>3. /\ Len(c.records) = Cardinality(kept)
      /\ \A i \in kept : c.records[Cardinality({j \in kept : j <= i})] = d.records[i]
  BY <1>1 DEF CopiedTo, Rank
<1> QED
  BY <1>2, <1>3 DEF IsCopy, kept

LEMMA CloseReadKeeps == ASSUME IInv, CloseRead PROVE IInv'
<1> DEFINE d == Named(op.name)
<1>1. /\ at = "records" /\ index = Len(d.records) /\ open' = Closed
      /\ UNCHANGED <<device, resetting, list, sizes, copy, index, before, faults>>
  BY DEF CloseRead, Steady
<1>2. /\ IsDatabase(d) /\ op.what \in {"backup", "read"} /\ result = "none"
      /\ Exists(op.name) /\ d.name = op.name
  BY <1>1, InHand
<1>3. copy = [d EXCEPT !.records = copy.records] /\ CopiedTo(copy, d, Including, Len(d.records))
  BY <1>1 DEF IInv, Copying
<1>4. IsCopy(copy, d, Including) /\ copy.name = op.name
  BY <1>2, <1>3, CopyIs, PartIs
<1>5. CASE op.what = "read"
  <2>1. at' = "idle" /\ result' = "done" /\ UNCHANGED <<op, files>>
    BY <1>5 DEF CloseRead
  <2>2. IsCopy(copy, d, op.option)
    <3>1. \A n : Kept(d, Including, n) = Kept(d, op.option, n)
      BY <1>5 DEF Kept, Including
    <3>2. \A n, i : Rank(d, Including, n, i) = Rank(d, op.option, n, i)
      BY <3>1 DEF Rank
    <3>3. CopiedTo(copy, d, op.option, Len(d.records))
      BY <1>3, <3>1, <3>2 DEF CopiedTo
    <3> QED
      BY <1>2, <1>3, <3>3, CopyIs
  <2>3. Shapes'
    BY <1>1, <2>1 DEF IInv, Shapes
  <2>4. Listing' /\ BackingUp' /\ Writing' /\ RefusedForAReason'
    BY <1>5, <2>1 DEF Listing, BackingUp, Writing, RefusedForAReason
  <2>5. Handles' /\ Copying'
    BY <1>1, <2>1 DEF IInv, Handles, Copying, Closed, Writes
  <2>6. CopiesExact'
    BY <1>1, <1>5, <2>1, <2>2, SameDevice DEF CopiesExact
  <2> QED
    BY <2>3, <2>4, <2>5, <2>6 DEF IInv
<1>6. CASE op.what = "backup"
  <2> DEFINE k == CHOOSE i \in DOMAIN list.names : list.names[i] = op.name
  <2>1. /\ files' = {f \in files : f.name # op.name} \cup {copy}
        /\ IF k < Len(list.names)
           THEN /\ op' = [op EXCEPT !.name = list.names[k + 1]]
                /\ at' = "conduit" /\ UNCHANGED result
           ELSE at' = "idle" /\ result' = "done" /\ UNCHANGED op
    BY <1>6 DEF CloseRead, NextFile
  <2>2. /\ op.places \in Storage /\ list.names = Names /\ Sound(device)
        /\ op = Op(op.what, op.name, op.option, op.db, op.places)
    BY <1>1, <1>6 DEF IInv, Shapes, Listing, Reads
  <2>3. /\ DOMAIN list.names = 1 .. Len(list.names) /\ Len(list.names) \in Nat
        /\ \A i, j \in DOMAIN list.names : list.names[i] = list.names[j] => i = j
    BY <2>2, NamesDistinct
  <2>4. PICK m \in DOMAIN list.names :
            list.names[m] = op.name /\ \A i \in 1 .. m - 1 : Copied(list.names[i])
    BY <1>1, <1>6 DEF IInv, BackingUp, Reads
  <2>5. k = m
    BY <2>3, <2>4
  <2> HIDE DEF k
  <2>6. IsCopy(copy, d, FALSE)
    BY <1>4, <1>6 DEF Including, IsCopy
  <2>7. \A name : Copied(name) \/ name = op.name => Copied(name)'
    <3>1. \A name : Named(name)' = Named(name)
      BY <1>1, SameDevice
    <3>2. \A name : name = op.name => Copied(name)'
      BY <1>4, <2>1, <2>6, <3>1 DEF Copied
    <3>3. \A name : Copied(name) /\ name # op.name => Copied(name)'
      BY <2>1, <3>1 DEF Copied
    <3> QED
      BY <3>2, <3>3
  <2>8. \A i \in 1 .. k : Copied(list.names[i])'
    BY <1>1, <2>3, <2>4, <2>5, <2>7
  <2>9. CASE k < Len(list.names)
    <3>1. /\ op' = Op(op.what, list.names[k + 1], op.option, op.db, op.places)
          /\ at' = "conduit" /\ result' = result
      BY <2>1, <2>2, <2>9 DEF Op
    <3>2. /\ op'.what = op.what /\ op'.places = op.places /\ op'.name = list.names[k + 1]
          /\ op'.option = op.option /\ op'.db = op.db
      BY <3>1 DEF Op
    <3>3. k + 1 \in DOMAIN list.names /\ k \in Nat /\ (k + 1) - 1 = k
      BY <2>3, <2>4, <2>5, <2>9
    <3>4. Shapes'
      BY <1>1, <1>6, <3>1, <3>2 DEF IInv, Shapes, Reads
    <3>5. Listing'
      <4>1. Names' = Names /\ list' = list /\ at' = "conduit"
        BY <1>1, <3>1, <3>2 DEF Names, NamesIn
      <4>2. op'.name \in Range(list.names)
        BY <3>2, <3>3 DEF Range
      <4> QED
        BY <2>2, <4>1, <4>2 DEF Listing, Reads
    <3>6. BackingUp'
      BY <1>1, <2>8, <3>1, <3>2, <3>3 DEF BackingUp
    <3>7. Handles' /\ Copying' /\ Writing' /\ CopiesExact' /\ RefusedForAReason'
      BY <1>1, <1>2, <1>6, <3>1, <3>2
         DEF IInv, Handles, Copying, Writing, CopiesExact, RefusedForAReason, Closed, Writes
    <3> QED
      BY <3>4, <3>5, <3>6, <3>7 DEF IInv
  <2>10. CASE ~(k < Len(list.names))
    <3>1. at' = "idle" /\ result' = "done" /\ UNCHANGED op
      BY <2>1, <2>10
    <3>2. \A i \in DOMAIN list.names : Copied(list.names[i])'
      BY <2>3, <2>4, <2>5, <2>8, <2>10
    <3>3. Shapes'
      BY <1>1, <3>1 DEF IInv, Shapes
    <3>4. Listing' /\ BackingUp'
      BY <1>1, <2>2, <3>1, <3>2 DEF Listing, BackingUp, Names, NamesIn, Reads
    <3>5. Handles' /\ Copying' /\ Writing' /\ RefusedForAReason'
      BY <1>1, <1>6, <3>1
         DEF IInv, Handles, Copying, Writing, RefusedForAReason, Closed, Writes
    <3>6. CopiesExact'
      <4> SUFFICES ASSUME NEW p \in Range(op.places), NEW e \in Range(device[p])
                   PROVE  \E f \in files' : IsCopy(f, e, FALSE)
        BY <1>1, <1>6, <3>1 DEF CopiesExact
      <4>1. e \in Stored /\ e.name \in Range(list.names)
        BY <2>2, NamesComplete
      <4>2. Named(e.name)' = e
        BY <1>1, <2>2, <4>1, NamedIs, SameDevice
      <4>3. PICK i \in DOMAIN list.names : list.names[i] = e.name
        BY <4>1 DEF Range
      <4>4. Copied(e.name)'
        BY <1>1, <3>2, <4>3
      <4> QED
        BY <4>2, <4>4 DEF Copied
    <3> QED
      BY <3>3, <3>4, <3>5, <3>6 DEF IInv
  <2> QED
    BY <2>9, <2>10
<1> QED
  BY <1>2, <1>5, <1>6

\* A part of the database is a database.
LEMMA HalfIs ==
    ASSUME IsDatabase(op.db), NEW app, NEW sort, NEW n \in 0 .. Len(op.db.records)
    PROVE  IsDatabase(HalfWritten(app, sort, n))
<1> DEFINE whole == op.db.records
           part == SubSeq(whole, 1, n)
<1>1. whole \in Seq(Range(whole)) /\ n \in Nat /\ n <= Len(whole)
  BY LenProperties DEF IsDatabase
<1>2. part \in Seq(Range(whole))
  BY <1>1
<1>3. part \in Seq(Range(part)) /\ Range(part) \subseteq Range(whole)
  BY <1>2, RangeIs
<1> HIDE DEF part
<1> QED
  BY <1>3 DEF IsDatabase, HalfWritten, part

LEMMA SoundIs ==
    ASSUME NEW ram, NEW rom, IsPlace(ram), IsPlace(rom),
           \A i \in DOMAIN ram, j \in DOMAIN rom : ram[i].name # rom[j].name
    PROVE  Sound([ram |-> ram, rom |-> rom])
BY DEF Sound

\* The device that holds d, in the course of a write.
LEMMA HoldingIs ==
    ASSUME Sound(before), ~IsIn(op.name, before.rom),
           NEW d, IsDatabase(d), d.name = op.name,
           NEW dev, dev = [WithoutIt EXCEPT !.ram = Append(@, d)]
    PROVE  LET rest == Without(before.ram, op.name)
           IN  /\ Sound(dev) /\ dev.rom = before.rom /\ dev.ram = Append(rest, d)
               /\ IsPlace(rest) /\ ~IsIn(op.name, rest) /\ d \in Range(dev.ram)
<1> DEFINE rest == Without(before.ram, op.name)
<1>1. /\ IsPlace(before.ram) /\ IsPlace(before.rom)
      /\ before = [ram |-> before.ram, rom |-> before.rom]
  BY DEF Sound
<1>2. /\ IsPlace(rest) /\ ~IsIn(op.name, rest)
      /\ \A i \in DOMAIN rest : \E j \in DOMAIN before.ram : rest[i] = before.ram[j]
  BY <1>1, WithoutIs
<1>3. WithoutIt = [ram |-> rest, rom |-> before.rom]
  BY <1>1 DEF WithoutIt
<1> HIDE DEF rest
<1>4. dev = [ram |-> Append(rest, d), rom |-> before.rom]
  BY <1>3
<1>5. /\ IsPlace(Append(rest, d)) /\ DOMAIN Append(rest, d) = 1 .. Len(rest) + 1
      /\ Append(rest, d)[Len(rest) + 1] = d /\ Len(rest) \in Nat
      /\ DOMAIN rest = 1 .. Len(rest)
      /\ \A i \in DOMAIN rest : Append(rest, d)[i] = rest[i]
  BY <1>2, AppendIs, PlaceIs
<1>6. ASSUME NEW i \in DOMAIN Append(rest, d), NEW j \in DOMAIN before.rom
      PROVE  Append(rest, d)[i].name # before.rom[j].name
  <2>1. CASE i = Len(rest) + 1
    BY <1>5, <2>1 DEF IsIn
  <2>2. CASE i \in DOMAIN rest
    BY <1>2, <1>5, <2>2 DEF Sound
  <2> QED
    BY <1>5, <2>1, <2>2
<1>7. Sound(dev)
  <2>1. Sound([ram |-> Append(rest, d), rom |-> before.rom])
    BY <1>1, <1>5, <1>6, SoundIs
  <2> QED
    BY <1>4, <2>1
<1>8. d \in Range(dev.ram)
  BY <1>4, <1>5 DEF Range
<1> QED
  BY <1>2, <1>4, <1>7, <1>8 DEF rest

\* The rest of the invariant, in the course of a write.
LEMMA WriteKeeps ==
    ASSUME IInv, op.what = "write", at \notin {"idle"},
           UNCHANGED <<op, before, copy, files, result, faults>>,
           Sound(device'), index' \in Nat, Writing',
           at' \in {"create"} \cup Writes,
           faults = 0 => open' = IF at' \in Writes THEN {op.name} ELSE {}
    PROVE  IInv'
<1>1. result' = "none" /\ at' # "idle" /\ op'.what = "write"
  BY DEF IInv, Shapes, Writes
<1>2. Shapes'
  BY <1>1 DEF IInv, Shapes, Writes
<1>3. Handles'
  BY <1>1 DEF IInv, Shapes, Handles, Writes
<1>4. Listing' /\ BackingUp' /\ CopiesExact' /\ RefusedForAReason'
  BY <1>1 DEF Listing, BackingUp, CopiesExact, RefusedForAReason
<1>5. Copying'
  BY <1>1 DEF Copying, Writes
<1> QED
  BY <1>2, <1>3, <1>4, <1>5 DEF IInv

LEMMA DeleteDbKeeps == ASSUME IInv, DeleteDb PROVE IInv'
<1>1. /\ at = "delete" /\ at' = "create" /\ open' = open
      /\ device' = [device EXCEPT !.ram = Without(@, op.name)]
      /\ UNCHANGED <<op, before, index, copy, files, result, faults>>
  BY DEF DeleteDb, Steady
<1>2. /\ op.what = "write" /\ device = before /\ op.option /\ Sound(before) /\ result = "none"
      /\ index \in Nat
  BY <1>1 DEF IInv, Shapes, Writing, Reads
<1>3. device' = WithoutIt
  BY <1>1, <1>2 DEF WithoutIt
<1>4. Sound(device')
  <2>1. /\ IsPlace(before.ram) /\ before = [ram |-> before.ram, rom |-> before.rom]
    BY <1>2 DEF Sound
  <2>2. device' = [ram |-> Without(before.ram, op.name), rom |-> before.rom]
    BY <1>3, <2>1 DEF WithoutIt
  <2>3. /\ IsPlace(Without(before.ram, op.name))
        /\ \A i \in DOMAIN Without(before.ram, op.name) :
              \E j \in DOMAIN before.ram : Without(before.ram, op.name)[i] = before.ram[j]
    BY <2>1, WithoutIs
  <2> QED
    BY <1>2, <2>2, <2>3 DEF Sound
<1>5. Writing'
  BY <1>1, <1>2, <1>3 DEF Writing, WithoutIt
<1>6. faults = 0 => open' = {}
  BY <1>1 DEF IInv, Handles, Writes
<1> QED
  BY <1>1, <1>2, <1>4, <1>5, <1>6, WriteKeeps DEF Writes

LEMMA CreateDbKeeps == ASSUME IInv, CreateDb PROVE IInv'
<1>1. /\ at = "create" /\ at' = "writeApp" /\ open' = open \cup {op.name} /\ ~Exists(op.name)
      /\ device' = [device EXCEPT !.ram = Append(@, Header(op.db))] /\ index' = 0
      /\ UNCHANGED <<op, before, copy, files, result, faults>>
  BY DEF CreateDb, Steady
<1>2. /\ op.what = "write" /\ Sound(before) /\ result = "none" /\ Sound(device)
      /\ IsDatabase(op.db) /\ op.db.name = op.name
      /\ device = IF op.option THEN WithoutIt ELSE before
  BY <1>1 DEF IInv, Shapes, Writing, Reads, Writes
<1>3. ~IsIn(op.name, device.ram) /\ ~IsIn(op.name, device.rom)
  BY <1>1, <1>2, PlaceIs DEF Exists, Stored, IsIn, Sound
<1>4. device = WithoutIt /\ ~IsIn(op.name, before.rom)
  <2>1. CASE op.option
    BY <1>2, <1>3, <2>1 DEF WithoutIt, Sound
  <2>2. CASE ~op.option
    <3>1. Without(before.ram, op.name) = before.ram
      BY <1>2, <1>3, <2>2, WithoutIs DEF Sound
    <3> QED
      BY <1>2, <1>3, <2>2, <3>1 DEF WithoutIt, Sound
  <2> QED
    BY <2>1, <2>2
<1>5. Header(op.db) = HalfWritten(None, None, 0)
  <2>1. SubSeq(op.db.records, 1, 0) = <<>>
    BY <1>2, SubSeqEmpty DEF IsDatabase
  <2> QED
    BY <2>1 DEF Header, HalfWritten
<1>6. /\ device' = [WithoutIt EXCEPT !.ram = Append(@, HalfWritten(None, None, 0))]
      /\ Header(op.db).name = op.name /\ IsDatabase(Header(op.db))
  BY <1>1, <1>2, <1>4, <1>5, HeaderIs
<1>7. Sound(device')
  BY <1>2, <1>4, <1>5, <1>6, HoldingIs
<1>8. Writing'
  <2>1. Holding(HalfWritten(None, None, 0))'
    BY <1>1, <1>4, <1>6 DEF Holding, HalfWritten, WithoutIt
  <2> QED
    BY <1>1, <1>2, <2>1 DEF Writing
<1>9. faults = 0 => open' = {op.name}
  BY <1>1 DEF IInv, Handles, Writes
<1> QED
  BY <1>1, <1>2, <1>7, <1>8, <1>9, WriteKeeps DEF Writes

\* A request writes a block or a record: the device holds more of the database.
LEMMA WriteInPlace ==
    ASSUME IInv, op.what = "write", NEW d, IsDatabase(d), d.name = op.name, Holding(d)
    PROVE  /\ Named(op.name) = d
           /\ \A e : e.name = op.name /\ IsDatabase(e) =>
                LET dev == [device EXCEPT !.ram = InPlace(@, e)]
                IN  Sound(dev) /\ dev = [WithoutIt EXCEPT !.ram = Append(@, e)]
<1>1. /\ Sound(before) /\ Sound(device) /\ ~IsIn(op.name, before.rom)
      /\ device = [WithoutIt EXCEPT !.ram = Append(@, d)]
  BY DEF IInv, Shapes, Holding
<1> DEFINE rest == Without(before.ram, op.name)
<1>2. /\ device.rom = before.rom /\ device.ram = Append(rest, d)
      /\ IsPlace(rest) /\ ~IsIn(op.name, rest) /\ d \in Range(device.ram)
  BY <1>1, HoldingIs
<1>3. Named(op.name) = d
  BY <1>1, <1>2, NamedIs DEF Stored
<1>4. WithoutIt = [ram |-> rest, rom |-> before.rom]
  BY <1>1 DEF WithoutIt, Sound
<1> HIDE DEF rest
<1>5. ASSUME NEW e, e.name = op.name, IsDatabase(e)
      PROVE  LET dev == [device EXCEPT !.ram = InPlace(@, e)]
             IN  Sound(dev) /\ dev = [WithoutIt EXCEPT !.ram = Append(@, e)]
  <2>1. InPlace(Append(rest, d), e) = Append(rest, e)
    BY <1>2, <1>5, InPlaceIs
  <2>2. [device EXCEPT !.ram = InPlace(@, e)] = [WithoutIt EXCEPT !.ram = Append(@, e)]
    BY <1>1, <1>2, <1>4, <2>1
  <2>3. Sound([WithoutIt EXCEPT !.ram = Append(@, e)])
    BY <1>1, <1>5, HoldingIs
  <2> QED
    BY <2>2, <2>3
<1> QED
  BY <1>3, <1>5

LEMMA WriteAppKeeps ==
    ASSUME IInv, WriteBlock("writeApp", "appInfo", "writeSort") PROVE IInv'
<1> DEFINE d == HalfWritten(None, None, 0)
           e == HalfWritten(op.db.appInfo, None, 0)
<1>1. /\ at = "writeApp" /\ at' = "writeSort" /\ open' = open
      /\ device' = [device EXCEPT
                      !.ram = InPlace(@, [Named(op.name) EXCEPT !.appInfo = op.db.appInfo])]
      /\ UNCHANGED <<op, before, index, copy, files, result, faults>>
  BY DEF WriteBlock, Steady
<1>2. /\ op.what = "write" /\ result = "none" /\ IsDatabase(op.db) /\ op.db.name = op.name
      /\ Holding(d) /\ index = 0 /\ 0 \in 0 .. Len(op.db.records)
  BY <1>1, LenProperties DEF IInv, Shapes, Writing, Reads, Writes, IsDatabase
<1>3. IsDatabase(d) /\ IsDatabase(e) /\ d.name = op.name /\ e.name = op.name
  BY <1>2, HalfIs DEF HalfWritten
<1>4. Named(op.name) = d
  BY <1>2, <1>3, WriteInPlace
<1>5. [d EXCEPT !.appInfo = op.db.appInfo] = e
  BY DEF HalfWritten
<1>6. Sound(device') /\ device' = [WithoutIt EXCEPT !.ram = Append(@, e)]
  BY <1>1, <1>2, <1>3, <1>4, <1>5, WriteInPlace
<1>7. Writing'
  <2>1. Holding(e)'
    BY <1>1, <1>2, <1>6 DEF Holding, HalfWritten, WithoutIt
  <2> QED
    BY <1>1, <1>2, <2>1 DEF Writing
<1>8. faults = 0 => open' = {op.name}
  BY <1>1 DEF IInv, Handles, Writes
<1> QED
  BY <1>1, <1>2, <1>6, <1>7, <1>8, WriteKeeps DEF Writes

LEMMA WriteSortKeeps ==
    ASSUME IInv, WriteBlock("writeSort", "sortInfo", "writeRecords") PROVE IInv'
<1> DEFINE d == HalfWritten(op.db.appInfo, None, 0)
           e == HalfWritten(op.db.appInfo, op.db.sortInfo, 0)
<1>1. /\ at = "writeSort" /\ at' = "writeRecords" /\ open' = open
      /\ device' = [device EXCEPT
                      !.ram = InPlace(@, [Named(op.name) EXCEPT !.sortInfo = op.db.sortInfo])]
      /\ UNCHANGED <<op, before, index, copy, files, result, faults>>
  BY DEF WriteBlock, Steady
<1>2. /\ op.what = "write" /\ result = "none" /\ IsDatabase(op.db) /\ op.db.name = op.name
      /\ Holding(d) /\ index = 0 /\ 0 \in 0 .. Len(op.db.records)
  BY <1>1, LenProperties DEF IInv, Shapes, Writing, Reads, Writes, IsDatabase
<1>3. IsDatabase(d) /\ IsDatabase(e) /\ d.name = op.name /\ e.name = op.name
  BY <1>2, HalfIs DEF HalfWritten
<1>4. Named(op.name) = d
  BY <1>2, <1>3, WriteInPlace
<1>5. [d EXCEPT !.sortInfo = op.db.sortInfo] = e
  BY DEF HalfWritten
<1>6. Sound(device') /\ device' = [WithoutIt EXCEPT !.ram = Append(@, e)]
  BY <1>1, <1>2, <1>3, <1>4, <1>5, WriteInPlace
<1>7. Writing'
  <2>1. Holding(e)'
    BY <1>1, <1>2, <1>6 DEF Holding, HalfWritten, WithoutIt
  <2> QED
    BY <1>1, <1>2, <2>1 DEF Writing
<1>8. faults = 0 => open' = {op.name}
  BY <1>1 DEF IInv, Handles, Writes
<1> QED
  BY <1>1, <1>2, <1>6, <1>7, <1>8, WriteKeeps DEF Writes

LEMMA WriteRecordKeeps == ASSUME IInv, WriteRecord PROVE IInv'
<1> DEFINE whole == op.db.records
           d == HalfWritten(op.db.appInfo, op.db.sortInfo, index)
           e == HalfWritten(op.db.appInfo, op.db.sortInfo, index + 1)
<1>1. /\ at = "writeRecords" /\ at' = "writeRecords" /\ open' = open
      /\ index < Len(whole) /\ index' = index + 1
      /\ device' = [device EXCEPT
                      !.ram = InPlace(@, [Named(op.name) EXCEPT
                                 !.records = Append(@, whole[index + 1])])]
      /\ UNCHANGED <<op, before, copy, files, result, faults>>
  BY DEF WriteRecord, Steady
<1>2. /\ op.what = "write" /\ result = "none" /\ IsDatabase(op.db) /\ op.db.name = op.name
      /\ Holding(d) /\ index \in Nat
  BY <1>1 DEF IInv, Shapes, Writing, Reads, Writes
<1>3. /\ whole \in Seq(Range(whole)) /\ Len(whole) \in Nat
      /\ index \in 0 .. Len(whole) /\ index + 1 \in 0 .. Len(whole)
  BY <1>1, <1>2, LenProperties DEF IsDatabase
<1>4. /\ IsDatabase(d) /\ d.name = op.name
      /\ IsDatabase(e) /\ e.name = op.name
  BY <1>2, <1>3, HalfIs DEF HalfWritten
<1>5. Named(op.name) = d
  BY <1>2, <1>4, WriteInPlace
<1>6. [d EXCEPT !.records = Append(@, whole[index + 1])] = e
  <2> DEFINE part == SubSeq(whole, 1, index)
             more == SubSeq(whole, 1, index + 1)
             Half(records) ==
                 [name |-> op.db.name, resDB |-> op.db.resDB, reset |-> op.db.reset,
                  appInfo |-> op.db.appInfo, sortInfo |-> op.db.sortInfo,
                  records |-> records]
  <2>1. d = Half(part) /\ e = Half(more)
    BY DEF HalfWritten
  <2>2. Append(part, whole[index + 1]) = more
    BY <1>1, <1>3
  <2> HIDE DEF part, more, whole, d, e
  <2>3. d.records = part
    BY <2>1
  <2> DEFINE appended == Append(d.records, whole[index + 1])
  <2>4. appended = more
    BY <2>2, <2>3
  <2> HIDE DEF appended
  <2>5. [d EXCEPT !.records = appended] = e
    BY <2>1, <2>4
  <2> QED
    BY <2>5 DEF appended
<1>7. Sound(device') /\ device' = [WithoutIt EXCEPT !.ram = Append(@, e)]
  BY <1>1, <1>2, <1>4, <1>5, <1>6, WriteInPlace
<1>8. Writing'
  <2>1. Holding(HalfWritten(op.db.appInfo, op.db.sortInfo, index))'
    BY <1>1, <1>2, <1>7 DEF Holding, HalfWritten, WithoutIt
  <2>2. index' <= Len(op'.db.records)
    BY <1>1, <1>3
  <2> QED
    BY <1>1, <1>2, <2>1, <2>2 DEF Writing
<1>9. faults = 0 => open' = {op.name}
  BY <1>1 DEF IInv, Handles, Writes
<1> QED
  BY <1>1, <1>2, <1>7, <1>8, <1>9, WriteKeeps DEF Writes

LEMMA ResetKeeps == ASSUME IInv, Reset PROVE IInv'
<1>1. /\ at = "writeRecords" /\ at' = "closeWritten" /\ index = Len(op.db.records)
      /\ resetting' = NeedsReset(op.db)
      /\ UNCHANGED <<device, open, op, before, index, copy, files, result, faults>>
  BY DEF Reset, Steady
<1>2. /\ op.what = "write" /\ IsDatabase(op.db) /\ Sound(device) /\ index \in Nat
      /\ Holding(HalfWritten(op.db.appInfo, op.db.sortInfo, index)) /\ result = "none"
  BY <1>1 DEF IInv, Shapes, Writing, Reads, Writes
<1>3. Holding(op.db)
  BY <1>1, <1>2, WholeIs
<1>4. Writing'
  BY <1>1, <1>2, <1>3 DEF Writing, Holding, WithoutIt
<1>5. faults = 0 => open' = {op.name}
  BY <1>1 DEF IInv, Handles, Writes
<1> QED
  BY <1>1, <1>2, <1>4, <1>5, WriteKeeps DEF Writes

LEMMA CloseWrittenKeeps == ASSUME IInv, CloseWritten PROVE IInv'
<1>1. /\ at = "closeWritten" /\ at' = "idle" /\ result' = "done" /\ open' = Closed
      /\ UNCHANGED <<device, resetting, op, before, list, index, copy, files, faults>>
  BY DEF CloseWritten, Steady
<1>2. op.what = "write"
  BY <1>1 DEF IInv, Shapes, Reads, Writes
<1>3. Shapes' /\ Handles'
  BY <1>1 DEF IInv, Shapes, Handles, Closed, Writes
<1>4. Listing' /\ Copying' /\ BackingUp' /\ CopiesExact' /\ RefusedForAReason'
  BY <1>1, <1>2 DEF Listing, Copying, BackingUp, CopiesExact, RefusedForAReason
<1>5. Writing'
  BY <1>1, <1>2 DEF IInv, Writing, Holding, WithoutIt
<1> QED
  BY <1>3, <1>4, <1>5 DEF IInv

LEMMA UnchangedKeeps == ASSUME IInv, UNCHANGED vars PROVE IInv'
<1>1. UNCHANGED <<device, open, resetting, op, at, list, sizes, copy, index, files, before,
                  result, faults>>
  BY DEF vars, desk
<1>2. Shapes' /\ Handles'
  BY <1>1 DEF IInv, Shapes, Handles
<1>3. Listing'
  BY <1>1 DEF IInv, Listing, Names, NamesIn
<1>4. Copying'
  BY <1>1, SameDevice DEF IInv, Copying, SizesTold, Including
<1>5. BackingUp'
  <2>1. \A name : Copied(name)' = Copied(name)
    BY <1>1 DEF Copied, Named, Stored
  <2> QED
    BY <1>1, <2>1 DEF IInv, BackingUp
<1>6. Writing'
  <2>1. WithoutIt' = WithoutIt
    BY <1>1 DEF WithoutIt
  <2>2. \A d : Holding(d)' <=> Holding(d)
    BY <1>1, <2>1 DEF Holding
  <2>3. \A app, sort, n : HalfWritten(app, sort, n)' = HalfWritten(app, sort, n)
    BY <1>1 DEF HalfWritten
  <2> QED
    BY <1>1, <2>1, <2>2, <2>3 DEF IInv, Writing
<1>7. CopiesExact' /\ RefusedForAReason'
  BY <1>1, SameDevice DEF IInv, CopiesExact, RefusedForAReason
<1> QED
  BY <1>2, <1>3, <1>4, <1>5, <1>6, <1>7 DEF IInv

LEMMA InitIInv == Init => IInv
<1> SUFFICES ASSUME Init PROVE IInv
  OBVIOUS
<1>1. /\ device \in [ram : RamContents, rom : RomContents] /\ before = device
      /\ op = NoOp /\ at = "idle" /\ copy = None /\ index = 0 /\ open = {}
      /\ result = "none" /\ faults = 0
  BY DEF Init
<1>2. Sound(device)
  <2>1. /\ IsPlace(device.ram) /\ IsPlace(device.rom)
        /\ \A d \in Range(device.ram), e \in Range(device.rom) : d.name # e.name
    BY <1>1, TransferAssumption
  <2> QED
    BY <1>1, <2>1, PlaceIs DEF Sound
<1>3. Shapes
  BY <1>1, <1>2 DEF Shapes, NoOp, Op
<1>4. Listing /\ Handles /\ Copying /\ BackingUp /\ Writing
  BY <1>1 DEF Listing, Handles, Copying, BackingUp, Writing, NoOp, Op, Writes
<1>5. CopiesExact /\ RefusedForAReason
  BY <1>1 DEF CopiesExact, RefusedForAReason
<1> QED
  BY <1>3, <1>4, <1>5 DEF IInv

LEMMA StepIInv == IInv /\ [Next]_vars => IInv'
<1> SUFFICES ASSUME IInv, [Next]_vars PROVE IInv'
  OBVIOUS
<1>1. CASE StartOp
  BY <1>1, StartOpKeeps
<1>2. CASE RequestFails
  BY <1>2, RequestFailsKeeps
<1>3. CASE ListPage \/ OpenConduit
  BY <1>3, ListPageKeeps, OpenConduitKeeps
<1>4. CASE OpenDb \/ OpenRefused \/ FindDb \/ SearchPage
  BY <1>4, OpenDbKeeps, OpenRefusedKeeps, FindDbKeeps, SearchPageKeeps
<1>5. CASE ReadBlock("app", "appInfo", "app", "sort")
  BY <1>5, ReadAppKeeps
<1>6. CASE ReadBlock("sort", "sortInfo", "sort", "records")
  BY <1>6, ReadSortKeeps
<1>7. CASE ReadRecord \/ CloseRead
  BY <1>7, ReadRecordKeeps, CloseReadKeeps
<1>8. CASE DeleteDb \/ DeleteRefused \/ CreateDb \/ CreateRefused
  BY <1>8, DeleteDbKeeps, DeleteRefusedKeeps, CreateDbKeeps, CreateRefusedKeeps
<1>9. CASE WriteBlock("writeApp", "appInfo", "writeSort")
  BY <1>9, WriteAppKeeps
<1>10. CASE WriteBlock("writeSort", "sortInfo", "writeRecords")
  BY <1>10, WriteSortKeeps
<1>11. CASE WriteRecord \/ Reset \/ CloseWritten
  BY <1>11, WriteRecordKeeps, ResetKeeps, CloseWrittenKeeps
<1>12. CASE UNCHANGED vars
  BY <1>12, UnchangedKeeps
<1> QED
  BY <1>1, <1>2, <1>3, <1>4, <1>5, <1>6, <1>7, <1>8, <1>9, <1>10, <1>11, <1>12
     DEF Next, Requests

LEMMA Invariant == Spec => []IInv
BY InitIInv, StepIInv, PTL DEF Spec

\* At any time of a write, or after it.
LEMMA WriteStages ==
    ASSUME IInv, op.what = "write"
    PROVE  \/ device = before
           \/ device = WithoutIt /\ ~IsIn(op.name, before.rom)
           \/ \E app \in {None, op.db.appInfo}, sort \in {None, op.db.sortInfo},
                 n \in 0 .. Len(op.db.records) : Holding(HalfWritten(app, sort, n))
<1>1. IsDatabase(op.db) /\ Len(op.db.records) \in Nat
  BY LenProperties DEF IInv, Shapes, IsDatabase
<1>2. CASE at # "idle"
  BY <1>2, WriteStopped
<1>3. CASE result = "done"
  <2>1. Holding(HalfWritten(op.db.appInfo, op.db.sortInfo, Len(op.db.records)))
    BY <1>1, <1>3, WholeIs DEF IInv, Writing
  <2> QED
    BY <1>1, <2>1
<1>4. CASE at = "idle" /\ result # "done"
  BY <1>4 DEF IInv, Writing
<1> QED
  BY <1>2, <1>3, <1>4

\* What the device holds of a database while it is written.
LEMMA HalfIsPart ==
    ASSUME IInv, op.what = "write", NEW app, NEW sort, NEW n \in 0 .. Len(op.db.records),
           Holding(HalfWritten(app, sort, n))
    PROVE  LET d == HalfWritten(app, sort, n)
           IN  /\ device.rom = before.rom
               /\ Without(device.ram, op.name) = Without(before.ram, op.name)
               /\ Named(op.name) = d /\ Header(d) = Header(op.db)
               /\ IsPrefix(d.records, op.db.records)
               /\ d.appInfo = app /\ d.sortInfo = sort
<1> DEFINE d == HalfWritten(app, sort, n)
           rest == Without(before.ram, op.name)
           whole == op.db.records
<1>1. IsDatabase(op.db) /\ op.db.name = op.name /\ Sound(before)
  BY DEF IInv, Shapes
<1>2. IsDatabase(d) /\ d.name = op.name
  BY <1>1, HalfIs DEF HalfWritten
<1>3. Named(op.name) = d
  BY <1>2, WriteInPlace
<1>4. /\ device.rom = before.rom /\ device.ram = Append(rest, d)
      /\ IsPlace(rest) /\ ~IsIn(op.name, rest)
  BY <1>1, <1>2, HoldingIs DEF Holding
<1>5. Without(device.ram, op.name) = rest
  BY <1>2, <1>4, AppendIs
<1>6. /\ d.records = SubSeq(whole, 1, n) /\ Header(d) = Header(op.db)
      /\ d.appInfo = app /\ d.sortInfo = sort
  BY DEF HalfWritten, Header
<1>7. IsPrefix(SubSeq(whole, 1, n), whole)
  <2>1. whole \in Seq(Range(whole)) /\ n \in Nat /\ n <= Len(whole)
    BY <1>1, LenProperties DEF IsDatabase
  <2> HIDE DEF whole
  <2>2. /\ SubSeq(whole, 1, n) \in Seq(Range(whole)) /\ Len(SubSeq(whole, 1, n)) = n
    BY <2>1
  <2>3. SubSeq(SubSeq(whole, 1, n), 1, n) = SubSeq(whole, 1, n)
    BY <2>1, <2>2
  <2> QED
    BY <2>1, <2>2, <2>3 DEF IsPrefix
<1> QED
  BY <1>3, <1>4, <1>5, <1>6, <1>7

LEMMA WritesArePrefixes == IInv => WriteIsPrefix
<1> SUFFICES ASSUME IInv, op.what = "write" PROVE WriteIsPrefix
  BY DEF WriteIsPrefix
<1> DEFINE Part(d, whole) ==
               /\ Header(d) = Header(whole) /\ IsPrefix(d.records, whole.records)
               /\ d.appInfo \in {None, whole.appInfo}
               /\ d.sortInfo \in {None, whole.sortInfo}
           Touched == /\ device.rom = before.rom
                      /\ Without(device.ram, op.name) = Without(before.ram, op.name)
           Stays == Exists(op.name) => device = before \/ Part(Named(op.name), op.db)
           Done == result = "done" =>
                      /\ Named(op.name) = op.db
                      /\ resetting = (\/ op.db.reset
                                      \/ \E r \in Range(op.db.records) : r.kind = "boot")
<1>1. /\ Sound(before) /\ Sound(device) /\ IsDatabase(op.db) /\ op.db.name = op.name
      /\ Len(op.db.records) \in Nat
  BY LenProperties DEF IInv, Shapes, IsDatabase
<1>2. Touched /\ Stays
  <2>1. CASE device = before
    BY <2>1
  <2>2. CASE device = WithoutIt /\ ~IsIn(op.name, before.rom)
    <3>1. /\ device.ram = Without(before.ram, op.name) /\ device.rom = before.rom
          /\ IsPlace(before.ram) /\ IsPlace(before.rom)
      BY <1>1, <2>2 DEF WithoutIt, Sound
    <3>2. /\ IsPlace(device.ram) /\ ~IsIn(op.name, device.ram)
      BY <3>1, WithoutIs
    <3>3. Without(device.ram, op.name) = device.ram
      BY <3>2, WithoutIs
    <3>4. ~Exists(op.name)
      BY <2>2, <3>1, <3>2 DEF Exists, Stored, Range, IsIn
    <3> QED
      BY <3>1, <3>3, <3>4
  <2>3. CASE \E app \in {None, op.db.appInfo}, sort \in {None, op.db.sortInfo},
                n \in 0 .. Len(op.db.records) : Holding(HalfWritten(app, sort, n))
    BY <2>3, HalfIsPart
  <2> QED
    BY <2>1, <2>2, <2>3, WriteStages
<1>3. Done
  <2> SUFFICES ASSUME result = "done"
               PROVE  /\ Named(op.name) = op.db
                      /\ resetting = (\/ op.db.reset
                                      \/ \E r \in Range(op.db.records) : r.kind = "boot")
    OBVIOUS
  <2>1. Holding(op.db) /\ resetting = NeedsReset(op.db)
    BY DEF IInv, Writing
  <2>2. Named(op.name) = op.db
    BY <1>1, <2>1, WriteInPlace
  <2>3. (op.db.resDB /\ \E r \in Range(op.db.records) : r.kind = "boot")
            <=> \E r \in Range(op.db.records) : r.kind = "boot"
    BY <1>1 DEF IsDatabase
  <2> QED
    BY <2>1, <2>2, <2>3 DEF NeedsReset
<1> QED
  BY <1>2, <1>3 DEF WriteIsPrefix

-----------------------------------------------------------------------------
(* The theorems.                                                           *)

\* readDbList: whatever the device holds, and however many databases a page
\* has, the list gives each name once, in the order of the places.
THEOREM ListsAll == Spec => []ListComplete
<1>1. IInv => ListComplete
  BY DEF IInv, Shapes, Listing, ListComplete, Names, NamesIn, NamesOf
<1> QED
  BY <1>1, Invariant, PTL

\* readRawDb and readAllDbsToFile: what they return holds all that was to be
\* copied, on an old device and on a new one, from RAM and from ROM.
THEOREM CopiesAll == Spec => []CopiesExact
<1>1. IInv => CopiesExact
  BY DEF IInv
<1> QED
  BY <1>1, Invariant, PTL

\* writeRawDb: no fault, wherever it strikes, leaves the device with anything
\* but a beginning of the new database in place of the old one.
THEOREM WritesPrefixes == Spec => []WriteIsPrefix
BY WritesArePrefixes, Invariant, PTL

\* No operation is refused because of what an earlier one left open.
THEOREM RefusesForAReason == Spec => []RefusedForAReason
<1>1. IInv => RefusedForAReason
  BY DEF IInv
<1> QED
  BY <1>1, Invariant, PTL

=============================================================================

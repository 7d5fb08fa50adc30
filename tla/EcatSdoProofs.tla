----------------------------- MODULE EcatSdoProofs -----------------------------
(***************************************************************************)
(* Proofs about the transfers of EcatSdo, for every dictionary, every      *)
(* length of the mailbox and any number of transfers and of lost replies.  *)
(***************************************************************************)
EXTENDS EcatSdo, FiniteSetTheorems, SequenceTheorems, WellFoundedInduction, TLAPS

\* The number of bytes that Complete Access of a target transfers.
CompleteLength(t) == OffsetInObject[t.obj][t.sub][SubCountOf(t.obj) + 1]

CompleteAccess(t) == t.ca /\ ~Dictionary[t.obj].variable

\* The length announced for Complete Access leaves room for its entries.
Roomy ==
  \A t \in Targets : CompleteAccess(t) =>
    \E spare \in Nat : TotalLengthOf(t.obj, t.sub) = CompleteLength(t) + spare

\* No entry is empty.
HasBits ==
  \A o \in Objects : \A i \in DOMAIN Dictionary[o].entries : Dictionary[o].entries[i].bits > 0

\* A reason that the master or the server accounts for.
Explained(t, why, state) == Deserved(t, why, state) \/ ServerAtFault(t, why)

-------------------------------------------------------------------------------
(* The inductive invariant. *)

\* The bytes of an entry's values.
Byte ==
  {Stale} \cup {<<o, i, k, val>> : o \in Objects, i \in Nat, k \in Nat, val \in Values}

IsSession(v) ==
  /\ v \in [cmd : {"DownloadSegment", "UploadSegment"}, obj : Objects \cup {NoObject}, sub : Nat,
            ca : BOOLEAN, total : Nat, done : Nat, toggle : BOOLEAN, buf : Seq(Byte)]
  /\ v.done <= v.total /\ v.total <= SegmentCapacity
  /\ Len(v.buf) = (IF v.cmd = "UploadSegment" THEN v.total ELSE v.done)

IsMemory(mem) ==
  DOMAIN mem = Objects /\ \A o \in Objects : mem[o] \in [EntryIds(o) -> Values]

IsServer(y) == DOMAIN y = {"v", "mem", "rep"} /\ IsSession(y.v) /\ IsMemory(y.mem)

ClientFields ==
  {"phase", "n", "t", "ask", "size", "sent", "got", "toggle", "lost", "out", "why"}

IsClient(d) ==
  /\ DOMAIN d = ClientFields
  /\ d.phase \in {"idle", "busy", "aborting", "left"}
  /\ d.t \in Transfers /\ d.toggle \in BOOLEAN
  /\ d.size \in Nat /\ d.sent \in Nat /\ d.lost \in Nat
  /\ d.got \in Seq(Byte)

TypesOK ==
  /\ IsServer(x) /\ IsClient(c)
  /\ st \in SdoStates
  /\ served.bytes \in Seq(Byte)

\* Either a request is on its way or its reply, as long as there is a transfer.
InTurn ==
  IF c.phase = "idle" THEN req = Nothing /\ x.rep = Nothing
  ELSE /\ c.out = "none"
       /\ c.ask.kind # "Nothing"
       /\ \/ req = c.ask /\ x.rep = Nothing
          \/ req = Nothing /\ x.rep.kind # "Nothing"

\* The transfer has stored its value.
Stored(t, mem, state) ==
  HasBits => \A i \in WritableEntries(t.to, state) : mem[t.to.obj][i] = t.val

\* What was collected is what the server found.
Snapshot(t, bytes, found) == Exact(t.to) => bytes = found

Justified(d, code, state) == d.lost = 0 => Explained(d.t, code, state)

\* The server's session, in step with an upload that has received got ...
Uploading(v, t, size, got, found) ==
  /\ v.cmd = "UploadSegment" /\ v.total = size
  /\ v.done = Len(got) /\ got = SubSeq(v.buf, 1, v.done)
  /\ Snapshot(t, v.buf, found)

\* ... and with a download of which so many bytes have come.
Downloading(v, t, n) ==
  /\ v.cmd = "DownloadSegment"
  /\ v.obj = t.to.obj /\ v.sub = t.to.sub /\ v.ca = t.to.ca
  /\ v.total = Len(TransferData[t]) /\ v.done = n /\ n < v.total
  /\ v.buf = SubSeq(TransferData[t], 1, n)

\* A request that was served before finds its segment taken, or the session over.
Behind(v, cmd, toggle) == v = NoSession \/ (v.cmd = cmd /\ v.toggle = toggle)

FirstAnswered ==
  CASE x.rep.kind = "Abort" -> Justified(c, x.rep.code, served.st)
    [] x.rep.kind = "Upload" ->
         /\ c.t.dir = "up"
         /\ x.rep.data \in Seq(Byte) /\ x.rep.size \in Nat
         /\ \/ Len(x.rep.data) = x.rep.size /\ Snapshot(c.t, x.rep.data, served.bytes)
            \/ /\ x.rep.data = <<>> /\ x.rep.size > 0
               /\ Uploading(x.v, c.t, x.rep.size, <<>>, served.bytes) /\ x.v.toggle
    [] x.rep.kind = "Download" ->
         /\ c.t.dir = "down"
         /\ \/ c.sent = Len(TransferData[c.t]) /\ Stored(c.t, x.mem, served.st)
            \/ Downloading(x.v, c.t, c.sent) /\ x.v.toggle
    [] OTHER -> FALSE

\* The transfer has begun.
FirstAsked ==
  /\ c.ask = FirstRequest(c.t) /\ c.sent = Carried(c.ask)
  /\ c.got = <<>> /\ ~c.toggle
  /\ x.rep.kind # "Nothing" => FirstAnswered

\* A segment of an upload has been asked for.
UpAnswered ==
  CASE x.rep.kind = "Abort" -> c.lost > 0 /\ Behind(x.v, "UploadSegment", c.toggle)
    [] x.rep.kind = "UploadSegment" ->
         LET got == c.got \o x.rep.data
         IN  /\ x.rep.data \in Seq(Byte)
             /\ \/ /\ ~x.rep.last /\ Len(got) <= c.size
                   /\ Uploading(x.v, c.t, c.size, got, served.bytes) /\ x.v.toggle = c.toggle
                \/ /\ x.rep.last /\ x.v = NoSession
                   /\ Len(got) = c.size /\ Snapshot(c.t, got, served.bytes)
    [] OTHER -> FALSE

UpAsked ==
  /\ c.t.dir = "up"
  /\ c.ask.kind = "UploadSegment" /\ c.ask.toggle = c.toggle
  /\ x.rep.kind = "Nothing" =>
       \/ Uploading(x.v, c.t, c.size, c.got, served.bytes) /\ x.v.toggle # c.toggle
       \/ c.lost > 0 /\ Behind(x.v, "UploadSegment", c.toggle)
  /\ x.rep.kind # "Nothing" => UpAnswered

\* The segment with the bytes from the one place to the other.
SegmentOf(r, data, from, to) ==
  /\ r.kind = "DownloadSegment"
  /\ from < to /\ to <= Len(data)
  /\ to - from < MinSegmentedData => to = Len(data)
  /\ r.last = (to = Len(data))
  /\ r.unused = (IF to - from < MinSegmentedData THEN MinSegmentedData - (to - from) ELSE 0)
  /\ r.data = PadTo(SubSeq(data, from + 1, to), MinSegmentedData)

\* A segment of a download has been sent.
DownAnswered ==
  CASE x.rep.kind = "Abort" ->
         /\ Justified(c, x.rep.code, served.st)
         /\ Behind(x.v, "DownloadSegment", c.toggle)
    [] x.rep.kind = "DownloadSegment" ->
         \/ Downloading(x.v, c.t, c.sent) /\ x.v.toggle = c.toggle
         \/ /\ c.sent = Len(TransferData[c.t]) /\ x.v = NoSession
            /\ Stored(c.t, x.mem, served.st)
    [] OTHER -> FALSE

DownAsked ==
  /\ c.t.dir = "down"
  /\ c.ask.toggle = c.toggle
  /\ \E from \in Nat :
       /\ SegmentOf(c.ask, TransferData[c.t], from, c.sent)
       /\ x.rep.kind = "Nothing" =>
            \/ Downloading(x.v, c.t, from) /\ x.v.toggle # c.toggle
            \/ c.lost > 0 /\ Behind(x.v, "DownloadSegment", c.toggle)
  /\ x.rep.kind # "Nothing" => DownAnswered

\* How the last transfer ended.
Outcome ==
  /\ c.out = "ok" /\ c.t.dir = "up" => Snapshot(c.t, c.got, served.bytes)
  /\ c.out = "ok" /\ c.t.dir = "down" => Stored(c.t, x.mem, served.st)
  /\ c.out = "refused" => Justified(c, c.why, served.st)

TransferInv ==
  /\ TypesOK
  /\ InTurn
  /\ c.phase = "busy" => FirstAsked \/ UpAsked \/ DownAsked
  /\ c.phase = "aborting" => c.ask.kind = "Abort"
  /\ c.phase = "left" => FirstAsked \/ UpAsked \/ DownAsked \/ c.ask.kind = "Abort"
  /\ Outcome

-------------------------------------------------------------------------------
(* Byte strings. *)

LEMMA MinOfTwo ==
  ASSUME NEW m \in Int, NEW n \in Int
  PROVE  Min({m, n}) = IF m <= n THEN m ELSE n
<1>1. PICK k : k = IF m <= n THEN m ELSE n
  OBVIOUS
<1>2. k \in {m, n} /\ \A j \in {m, n} : k <= j
  BY <1>1
<1>3. \A k2 \in {m, n} : (\A j \in {m, n} : k2 <= j) => k2 = k
  BY <1>1
<1> QED
  BY <1>1, <1>2, <1>3 DEF Min

LEMMA PadToFacts ==
  ASSUME NEW S, Stale \in S, NEW s \in Seq(S), NEW n \in Nat
  PROVE  /\ PadTo(s, n) \in Seq(S)
         /\ Len(PadTo(s, n)) = (IF n <= Len(s) THEN Len(s) ELSE n)
         /\ \A i \in 1..Len(s) : PadTo(s, n)[i] = s[i]
         /\ n <= Len(s) => PadTo(s, n) = s
         /\ SubSeq(PadTo(s, n), 1, Len(s)) = s
<1>1. PICK m : m = n - Len(s)
  OBVIOUS
<1>2. Len(s) \in Nat /\ m \in Int
  BY <1>1, LenProperties
<1>3. PICK p : p = [k \in 1..m |-> Stale]
  OBVIOUS
<1>4. p \in Seq(S) /\ Len(p) = IF n <= Len(s) THEN 0 ELSE m
  <2>1. CASE m >= 0
    BY <1>1, <1>2, <1>3, <2>1
  <2>2. CASE m < 0
    <3>1. 1..m = 1..0
      BY <1>2, <2>2
    <3>2. p = [k \in 1..0 |-> Stale]
      BY <1>3, <3>1
    <3> QED
      BY <1>1, <1>2, <2>2, <3>2
  <2> QED
    BY <1>2, <2>1, <2>2
<1>5. PadTo(s, n) = s \o p
  BY <1>1, <1>3 DEF PadTo
<1>6. PICK q : q = s \o p
  OBVIOUS
<1>7. /\ q \in Seq(S) /\ Len(q) = Len(s) + Len(p)
      /\ \A i \in 1..Len(s) + Len(p) : q[i] = IF i <= Len(s) THEN s[i] ELSE p[i - Len(s)]
  BY <1>4, <1>6, ConcatProperties
<1>8. \A i \in 1..Len(s) : q[i] = s[i]
  BY <1>2, <1>4, <1>7
<1>9. Len(q) = (IF n <= Len(s) THEN Len(s) ELSE n)
  BY <1>1, <1>2, <1>4, <1>7
<1>10. n <= Len(s) => q = s
  BY <1>7, <1>8, <1>9, SeqEqual
<1> QED
  BY <1>5, <1>6, <1>7, <1>8, <1>9, <1>10

LEMMA Portion ==
  ASSUME NEW S, NEW s \in Seq(S), NEW n \in Nat, NEW m \in Nat, n + m <= Len(s)
  PROVE  /\ SubSeq(s, n + 1, n + m) \in Seq(S) /\ Len(SubSeq(s, n + 1, n + m)) = m
         /\ \A k \in 1..m : SubSeq(s, n + 1, n + m)[k] = s[n + k]
<1>1. PICK p : p = SubSeq(s, n + 1, n + m)
  OBVIOUS
<1>2. Len(s) \in Nat
  BY LenProperties
<1>3. \A j \in (n + 1)..(n + m) : j \in 1..Len(s)
  BY <1>2
<1>4. \A j \in (n + 1)..(n + m) : s[j] \in S
  BY <1>3, ElementOfSeq
<1>5. /\ p \in Seq(S)
      /\ Len(p) = IF n + 1 <= n + m THEN (n + m) - (n + 1) + 1 ELSE 0
      /\ \A k \in 1..((n + m) - (n + 1) + 1) : p[k] = s[(n + 1) + k - 1]
  BY <1>1, <1>4, SubSeqProperties
<1>6. \A k \in 1..m : p[k] = s[n + k]
  <2>1. ASSUME NEW k \in 1..m
        PROVE  k \in 1..((n + m) - (n + 1) + 1) /\ (n + 1) + k - 1 = n + k
    OBVIOUS
  <2> QED
    BY <1>5, <2>1
<1>7. Len(p) = m
  BY <1>5
<1> QED
  BY <1>1, <1>5, <1>6, <1>7

LEMMA SameElements ==
  ASSUME NEW S, NEW s \in Seq(S), NEW t \in Seq(S), NEW n, Len(s) = n, Len(t) = n,
         \A k \in 1..n : s[k] = t[k]
  PROVE  s = t
BY SeqEqual

LEMMA ResizeFacts ==
  ASSUME NEW S, Stale \in S, NEW s \in Seq(S), NEW n \in Nat
  PROVE  /\ Resize(s, n) \in Seq(S) /\ Len(Resize(s, n)) = n
         /\ \A i \in 1..n : i <= Len(s) => Resize(s, n)[i] = s[i]
         /\ n = Len(s) => Resize(s, n) = s
<1>1. Len(s) \in Nat /\ \A i \in 1..Len(s) : s[i] \in S
  BY LenProperties, ElementOfSeq
<1>2. CASE n <= Len(s)
  <2>1. Resize(s, n) = SubSeq(s, 1, n)
    BY <1>2 DEF Resize
  <2>2. \A i \in 1..n : s[i] \in S
    BY <1>1, <1>2
  <2>3. /\ SubSeq(s, 1, n) \in Seq(S) /\ Len(SubSeq(s, 1, n)) = n
        /\ \A i \in 1..n : SubSeq(s, 1, n)[i] = s[i]
    BY <2>2, SubSeqProperties
  <2> QED
    BY <2>1, <2>3, SubSeqFull
<1>3. CASE n > Len(s)
  <2>1. Resize(s, n) = PadTo(s, n)
    BY <1>1, <1>3 DEF Resize
  <2> QED
    BY <1>1, <1>3, <2>1, PadToFacts
<1> QED
  BY <1>1, <1>2, <1>3

-------------------------------------------------------------------------------
(* The dictionary. *)

LEMMA EntryTypes ==
  ASSUME SdoAssumption, NEW o \in Objects
  PROVE  /\ Dictionary[o].entries \in Seq(Entries)
         /\ Len(Dictionary[o].entries) \in Nat
         /\ SubCountOf(o) \in 0..Len(Dictionary[o].entries)
         /\ \A i \in 0..SubCountOf(o) : EntryDescriptionOf(o, i) \in Entries
<1>1. PICK d : d = Dictionary[o]
  OBVIOUS
<1>2. d.variable \in BOOLEAN /\ d.entries \in Seq(Entries)
  BY <1>1 DEF SdoAssumption, Descriptions
<1>3. d.variable => Len(d.entries) = 1
  BY <1>1 DEF SdoAssumption
<1>4. PICK es : es = d.entries
  OBVIOUS
<1>5. es \in Seq(Entries) /\ Len(es) \in Nat /\ \A i \in 1..Len(es) : es[i] \in Entries
  BY <1>2, <1>4, LenProperties, ElementOfSeq
<1>6. SubCountOf(o) = IF d.variable THEN 0 ELSE Len(es)
  BY <1>1, <1>4 DEF SubCountOf
<1>7. ASSUME NEW i \in 0..SubCountOf(o)
      PROVE  EntryDescriptionOf(o, i) \in Entries
  <2>1. CASE d.variable
    BY <1>1, <1>3, <1>4, <1>5, <2>1 DEF EntryDescriptionOf
  <2>2. CASE ~d.variable /\ i > 0
    <3>1. i \in 1..Len(es)
      BY <1>5, <1>6, <2>2
    <3>2. EntryDescriptionOf(o, i) = es[i]
      BY <1>1, <1>4, <2>2 DEF EntryDescriptionOf
    <3> QED
      BY <1>5, <3>1, <3>2
  <2>3. CASE ~d.variable /\ ~(i > 0)
    <3>1. EntryDescriptionOf(o, i) = [bits |-> 8, read |-> {"PreOp", "SafeOp", "Op"}, write |-> {}]
      BY <1>1, <2>3 DEF EntryDescriptionOf
    <3> QED
      BY <3>1 DEF Entries, SdoStates
  <2> QED
    BY <2>1, <2>2, <2>3
<1> QED
  BY <1>1, <1>3, <1>4, <1>5, <1>6, <1>7

LEMMA WidthTypes ==
  ASSUME SdoAssumption, NEW o \in Objects, NEW i \in Nat
  PROVE  /\ LengthOf(o, i) \in Nat /\ WidthInObject(o, i) \in Nat
         /\ HasEntry(o, i) <=> i \in 0..SubCountOf(o)
<1>1. SubCountOf(o) \in Nat
  BY EntryTypes
<1>2. HasEntry(o, i) <=> i \in 0..SubCountOf(o)
  BY <1>1 DEF HasEntry
<1>3. HasEntry(o, i) => EntryDescriptionOf(o, i).bits \in Nat
  BY <1>2, EntryTypes DEF Entries
<1>4. LengthOf(o, i) \in Nat
  BY <1>3 DEF LengthOf, ByteWidthOf
<1> QED
  BY <1>2, <1>4 DEF WidthInObject

LEMMA TransferredIsRange ==
  ASSUME SdoAssumption, NEW o \in Objects, NEW s \in Nat
  PROVE  /\ Transferred(o, s) \subseteq s..SubCountOf(o)
         /\ IsFiniteSet(Transferred(o, s))
<1>1. Transferred(o, s) \subseteq s..SubCountOf(o)
  BY DEF Transferred
<1>2. SubCountOf(o) \in Int /\ s \in Int
  BY EntryTypes
<1>3. IsFiniteSet(s..SubCountOf(o))
  BY <1>2, FS_Interval
<1> QED
  BY <1>1, <1>3, FS_Subset

LEMMA BytesBeforeIsFinite ==
  ASSUME SdoAssumption, NEW o \in Objects, NEW s \in Nat, NEW i
  PROVE  IsFiniteSet(BytesBefore(o, s, i))
<1>1. PICK D : D = {j \in Transferred(o, s) : j < i}
  OBVIOUS
<1>2. D \subseteq Nat /\ IsFiniteSet(D)
  <2>1. D \subseteq Transferred(o, s)
    BY <1>1
  <2>2. Transferred(o, s) \subseteq Nat
    BY TransferredIsRange, EntryTypes
  <2> QED
    BY <2>1, <2>2, TransferredIsRange, FS_Subset
<1>3. PICK T : T = {{j} \X (1..WidthInObject(o, j)) : j \in D}
  OBVIOUS
<1>4. PICK f : f = [j \in D |-> {j} \X (1..WidthInObject(o, j))]
  OBVIOUS
<1>5. f \in Surjection(D, T)
  BY <1>3, <1>4 DEF Surjection
<1>6. IsFiniteSet(T)
  BY <1>2, <1>5, FS_Surjection
<1>7. ASSUME NEW B \in T
      PROVE  IsFiniteSet(B)
  <2>1. PICK j \in D : B = {j} \X (1..WidthInObject(o, j))
    BY <1>3
  <2>2. WidthInObject(o, j) \in Int /\ 1 \in Int
    BY <1>2, WidthTypes
  <2>3. IsFiniteSet(1..WidthInObject(o, j)) /\ IsFiniteSet({j})
    BY <2>2, FS_Interval, FS_Singleton
  <2> QED
    BY <2>1, <2>3, FS_Product
<1>8. IsFiniteSet(UNION T)
  BY <1>6, <1>7, FS_UNION
<1>9. BytesBefore(o, s, i) = UNION T
  BY <1>1, <1>3 DEF BytesBefore
<1> QED
  BY <1>8, <1>9

LEMMA OffsetTypes ==
  ASSUME SdoAssumption, NEW o \in Objects, NEW s \in 0..SubCountOf(o),
         NEW i \in s..(SubCountOf(o) + 1)
  PROVE  /\ OffsetInObject[o][s][i] = Cardinality(BytesBefore(o, s, i))
         /\ OffsetInObject[o][s][i] \in Nat
<1>1. s \in Nat
  BY EntryTypes
<1>2. OffsetInObject[o][s][i] = Cardinality(BytesBefore(o, s, i))
  BY DEF OffsetInObject
<1> QED
  BY <1>1, <1>2, BytesBeforeIsFinite, FS_CardinalityType

\* An entry that is transferred moves the next one by its width, no other does.
LEMMA OffsetOfTheNext ==
  ASSUME SdoAssumption, NEW o \in Objects, NEW s \in 0..SubCountOf(o),
         NEW i \in s..SubCountOf(o)
  PROVE  OffsetInObject[o][s][i + 1] =
           OffsetInObject[o][s][i] + (IF i \in Transferred(o, s) THEN WidthInObject(o, i) ELSE 0)
<1> DEFINE w == WidthInObject(o, i)
           B == BytesBefore(o, s, i)
           E == {i} \X (1..w)
<1>1. SubCountOf(o) \in Nat /\ s \in Nat /\ i \in Nat
  BY EntryTypes
<1>2. i \in s..(SubCountOf(o) + 1) /\ i + 1 \in s..(SubCountOf(o) + 1)
  BY <1>1
<1>3. Transferred(o, s) \subseteq Nat
  BY <1>1, TransferredIsRange
<1>4. {j \in Transferred(o, s) : j < i + 1} =
        {j \in Transferred(o, s) : j < i} \cup {j \in Transferred(o, s) : j = i}
  BY <1>1, <1>3
<1>5. CASE i \in Transferred(o, s)
  <2>1. BytesBefore(o, s, i + 1) = B \cup E
    <3>1. {j \in Transferred(o, s) : j < i + 1} = {j \in Transferred(o, s) : j < i} \cup {i}
      BY <1>4, <1>5
    <3> QED
      BY <3>1 DEF BytesBefore
  <2>2. B \cap E = {}
    <3>1. ASSUME NEW b \in B, b \in E
          PROVE  FALSE
      <4>1. PICK j \in Transferred(o, s) : j < i /\ b \in {j} \X (1..WidthInObject(o, j))
        BY DEF BytesBefore
      <4>2. b[1] = j /\ b[1] = i
        BY <3>1, <4>1
      <4> QED
        BY <1>1, <4>1, <4>2
    <3> QED
      BY <3>1
  <2>3. w \in Nat
    BY <1>1, WidthTypes
  <2>4. IsFiniteSet(E) /\ Cardinality(E) = w
    <3>1. IsFiniteSet(1..w) /\ Cardinality(1..w) = w
      BY <2>3, FS_Interval
    <3>2. IsFiniteSet({i}) /\ Cardinality({i}) = 1
      BY FS_Singleton
    <3> HIDE DEF w
    <3>3. IsFiniteSet(E) /\ Cardinality(E) = Cardinality({i}) * Cardinality(1..w)
      BY <3>1, <3>2, FS_Product
    <3> QED
      BY <2>3, <3>1, <3>2, <3>3
  <2>5. IsFiniteSet(B) /\ Cardinality(B) \in Nat
    BY <1>1, BytesBeforeIsFinite, FS_CardinalityType
  <2>6. Cardinality(B \cup E) = Cardinality(B) + w
    <3>1. Cardinality(B \cap E) = 0
      BY <2>2, FS_EmptySet
    <3> HIDE DEF B, E, w
    <3> QED
      BY <2>3, <2>4, <2>5, <3>1, FS_Union
  <2> QED
    BY <1>2, <1>5, <2>1, <2>6, OffsetTypes
<1>6. CASE i \notin Transferred(o, s)
  <2>1. BytesBefore(o, s, i + 1) = B
    <3>1. {j \in Transferred(o, s) : j < i + 1} = {j \in Transferred(o, s) : j < i}
      BY <1>4, <1>6
    <3> QED
      BY <3>1 DEF BytesBefore
  <2> QED
    BY <1>2, <1>6, <2>1, OffsetTypes
<1> QED
  BY <1>5, <1>6

LEMMA OffsetsGrow ==
  ASSUME SdoAssumption, NEW o \in Objects, NEW s \in 0..SubCountOf(o),
         NEW i \in s..(SubCountOf(o) + 1), NEW j \in s..(SubCountOf(o) + 1), i <= j
  PROVE  OffsetInObject[o][s][i] <= OffsetInObject[o][s][j]
<1>1. SubCountOf(o) \in Nat /\ s \in Nat /\ i \in Nat /\ j \in Nat
  BY EntryTypes
<1>2. Transferred(o, s) \subseteq Nat
  BY <1>1, TransferredIsRange
<1>3. {k \in Transferred(o, s) : k < i} \subseteq {k \in Transferred(o, s) : k < j}
  BY <1>1, <1>2
<1>4. BytesBefore(o, s, i) \subseteq BytesBefore(o, s, j)
  BY <1>3 DEF BytesBefore
<1>5. Cardinality(BytesBefore(o, s, i)) <= Cardinality(BytesBefore(o, s, j))
  BY <1>1, <1>4, BytesBeforeIsFinite, FS_Subset
<1> QED
  BY <1>5, OffsetTypes

\* The place of an entry, and where Complete Access begins.
LEMMA EntriesAreApart ==
  ASSUME SdoAssumption, NEW o \in Objects, NEW s \in 0..SubCountOf(o)
  PROVE  /\ OffsetInObject[o][s][s] = 0
         /\ \A i, j \in Transferred(o, s) : i < j =>
              OffsetInObject[o][s][i] + WidthInObject(o, i) <= OffsetInObject[o][s][j]
         /\ \A i \in Transferred(o, s) :
              OffsetInObject[o][s][i] + WidthInObject(o, i)
                <= OffsetInObject[o][s][SubCountOf(o) + 1]
<1>1. SubCountOf(o) \in Nat /\ s \in Nat
  BY EntryTypes
<1>2. Transferred(o, s) \subseteq s..SubCountOf(o)
  BY <1>1, TransferredIsRange
<1>3. OffsetInObject[o][s][s] = 0
  <2>1. {k \in Transferred(o, s) : k < s} = {}
    BY <1>1, <1>2
  <2>2. BytesBefore(o, s, s) = {}
    BY <2>1 DEF BytesBefore
  <2>3. s \in s..(SubCountOf(o) + 1)
    BY <1>1
  <2>4. OffsetInObject[o][s][s] = Cardinality(BytesBefore(o, s, s))
    BY <2>3, OffsetTypes
  <2> QED
    BY <2>2, <2>4, FS_EmptySet
<1>4. ASSUME NEW i \in Transferred(o, s), NEW j \in s..(SubCountOf(o) + 1), i < j
      PROVE  OffsetInObject[o][s][i] + WidthInObject(o, i) <= OffsetInObject[o][s][j]
  <2>1. i \in s..SubCountOf(o) /\ i + 1 \in s..(SubCountOf(o) + 1) /\ i + 1 <= j
    BY <1>1, <1>2, <1>4
  <2>2. OffsetInObject[o][s][i + 1] <= OffsetInObject[o][s][j]
    BY <2>1, OffsetsGrow
  <2>3. OffsetInObject[o][s][i + 1] = OffsetInObject[o][s][i] + WidthInObject(o, i)
    BY <2>1, OffsetOfTheNext
  <2> QED
    BY <2>2, <2>3
<1>5. \A i, j \in Transferred(o, s) : i < j =>
        OffsetInObject[o][s][i] + WidthInObject(o, i) <= OffsetInObject[o][s][j]
  <2>1. \A j \in Transferred(o, s) : j \in s..(SubCountOf(o) + 1)
    BY <1>1, <1>2
  <2> QED
    BY <1>4, <2>1
<1>6. ASSUME NEW i \in Transferred(o, s)
      PROVE  OffsetInObject[o][s][i] + WidthInObject(o, i)
               <= OffsetInObject[o][s][SubCountOf(o) + 1]
  <2>1. SubCountOf(o) + 1 \in s..(SubCountOf(o) + 1) /\ i < SubCountOf(o) + 1
    BY <1>1, <1>2
  <2> QED
    BY <1>4, <2>1
<1> QED
  BY <1>3, <1>5, <1>6

LEMMA LeastNumber ==
  ASSUME NEW T, T \subseteq Nat, T # {}
  PROVE  \E m \in T : \A n \in T : m <= n
<1>1. PICK R : R = OpToRel(<, Nat)
  OBVIOUS
<1>2. R = {ss \in Nat \X Nat : ss[1] < ss[2]}
  BY <1>1, Zenon DEF OpToRel
<1>3. IsWellFoundedOn(R, Nat)
  BY <1>1, NatLessThanWellFounded, Zenon
<1>4. PICK m \in T : \A n \in T : ~(<<n, m>> \in R)
  BY <1>3, WFMin
<1>5. \A n \in T : ~(n < m)
  BY <1>2, <1>4
<1> QED
  BY <1>4, <1>5

\* Each byte of Complete Access lies in one entry.
LEMMA ByteHasAnEntry ==
  ASSUME SdoAssumption, NEW o \in Objects, NEW s \in 0..SubCountOf(o),
         NEW k \in 1..OffsetInObject[o][s][SubCountOf(o) + 1]
  PROVE  \E i \in Transferred(o, s) :
           k \in (OffsetInObject[o][s][i] + 1)..(OffsetInObject[o][s][i] + WidthInObject(o, i))
<1> DEFINE at == OffsetInObject[o][s]
           T == {j \in s..(SubCountOf(o) + 1) : k <= at[j]}
<1>1. SubCountOf(o) \in Nat /\ s \in Nat
  BY EntryTypes
<1>2. SubCountOf(o) + 1 \in s..(SubCountOf(o) + 1)
  BY <1>1
<1>3. k \in Nat /\ k > 0 /\ k <= at[SubCountOf(o) + 1]
  BY <1>2, OffsetTypes
<1>4. T \subseteq Nat /\ T # {}
  BY <1>1, <1>2, <1>3
<1>5. PICK j \in T : \A n \in T : j <= n
  BY <1>4, LeastNumber
<1>6. j # s
  <2>1. at[s] = 0
    BY EntriesAreApart
  <2> QED
    BY <1>3, <1>5, <2>1
<1>7. PICK i : i = j - 1
  OBVIOUS
<1>8. i \in s..SubCountOf(o) /\ i \in s..(SubCountOf(o) + 1) /\ j = i + 1
  BY <1>1, <1>5, <1>6, <1>7
<1>9. at[i] \in Nat /\ ~(k <= at[i])
  <2>1. i \notin T
    BY <1>1, <1>5, <1>8
  <2> QED
    BY <1>8, <2>1, OffsetTypes
<1>10. at[j] = at[i] + (IF i \in Transferred(o, s) THEN WidthInObject(o, i) ELSE 0)
  BY <1>8, OffsetOfTheNext
<1>11. k <= at[j]
  BY <1>5
<1>12. i \in Transferred(o, s)
  BY <1>3, <1>9, <1>10, <1>11
<1>13. WidthInObject(o, i) \in Nat
  BY <1>1, <1>8, WidthTypes
<1> QED
  BY <1>3, <1>9, <1>10, <1>11, <1>12, <1>13

\* What Complete Access transfers: the bytes of each entry at its place.
LEMMA ObjectBytesFacts ==
  ASSUME SdoAssumption, NEW o \in Objects, NEW s \in 0..SubCountOf(o),
         NEW vals, \A i \in EntryIds(o) : vals[i] \in Values
  PROVE  /\ ObjectBytes(o, s, vals) \in Seq(Byte)
         /\ Len(ObjectBytes(o, s, vals)) = OffsetInObject[o][s][SubCountOf(o) + 1]
         /\ \A i \in Transferred(o, s) : \A k \in 1..WidthInObject(o, i) :
              ObjectBytes(o, s, vals)[OffsetInObject[o][s][i] + k] = <<o, i, k, vals[i]>>
<1> DEFINE at == OffsetInObject[o][s]
           n == at[SubCountOf(o) + 1]
           Place(i) == (at[i] + 1)..(at[i] + WidthInObject(o, i))
           EntryAt(k) == CHOOSE i \in Transferred(o, s) : k \in Place(i)
           ByteAt(k) == <<o, EntryAt(k), k - at[EntryAt(k)], vals[EntryAt(k)]>>
<1>1. SubCountOf(o) \in Nat /\ s \in Nat /\ SubCountOf(o) + 1 \in s..(SubCountOf(o) + 1)
  BY EntryTypes
<1>2. ObjectBytes(o, s, vals) = [k \in 1..n |-> ByteAt(k)]
  BY DEF ObjectBytes, Placed
<1>3. n \in Nat
  BY <1>1, OffsetTypes
<1>4. ASSUME NEW i \in Transferred(o, s)
      PROVE  /\ at[i] \in Nat /\ WidthInObject(o, i) \in Nat
             /\ i \in Nat /\ i \in EntryIds(o) /\ at[i] + WidthInObject(o, i) <= n
  <2>1. i \in s..SubCountOf(o)
    BY <1>1, TransferredIsRange
  <2>2. i \in Nat /\ i \in s..(SubCountOf(o) + 1)
    BY <1>1, <2>1
  <2>3. i \in EntryIds(o)
    <3>1. SubCountOf(o) \in 0..Len(Dictionary[o].entries) /\ Len(Dictionary[o].entries) \in Nat
      BY EntryTypes
    <3> QED
      BY <1>1, <2>1, <3>1 DEF EntryIds
  <2> QED
    BY <2>2, <2>3, OffsetTypes, WidthTypes, EntriesAreApart
<1>5. ASSUME NEW k \in 1..n
      PROVE  EntryAt(k) \in Transferred(o, s) /\ k \in Place(EntryAt(k))
  <2>1. \E i \in Transferred(o, s) : k \in Place(i)
    BY ByteHasAnEntry
  <2> QED
    BY <2>1
<1>6. ASSUME NEW k \in 1..n
      PROVE  ByteAt(k) \in Byte
  <2>1. PICK i : i = EntryAt(k)
    OBVIOUS
  <2>2. i \in Transferred(o, s) /\ k \in Place(i)
    BY <1>5, <2>1
  <2>3. k - at[i] \in Nat /\ i \in Nat /\ vals[i] \in Values
    BY <1>4, <2>2
  <2>4. <<o, i, k - at[i], vals[i]>> \in Byte
    BY <2>3 DEF Byte
  <2> QED
    BY <2>1, <2>4
<1>7. ASSUME NEW i \in Transferred(o, s), NEW k \in 1..WidthInObject(o, i)
      PROVE  at[i] + k \in 1..n /\ EntryAt(at[i] + k) = i
  <2>1. PICK m : m = at[i] + k
    OBVIOUS
  <2>2. m \in 1..n /\ m \in Place(i)
    BY <1>3, <1>4, <2>1
  <2>3. PICK j : j = EntryAt(m)
    OBVIOUS
  <2>4. j \in Transferred(o, s) /\ m \in Place(j)
    BY <1>5, <2>2, <2>3
  <2>5. ~(i < j)
    <3>1. i < j => at[i] + WidthInObject(o, i) <= at[j]
      BY <2>4, EntriesAreApart
    <3> QED
      BY <1>4, <2>2, <2>4, <3>1
  <2>6. ~(j < i)
    <3>1. j < i => at[j] + WidthInObject(o, j) <= at[i]
      BY <2>4, EntriesAreApart
    <3> QED
      BY <1>4, <2>2, <2>4, <3>1
  <2> QED
    BY <1>4, <2>1, <2>2, <2>3, <2>4, <2>5, <2>6
<1> HIDE DEF n, EntryAt, ByteAt
<1>8. [k \in 1..n |-> ByteAt(k)] \in Seq(Byte) /\ Len([k \in 1..n |-> ByteAt(k)]) = n
  BY <1>3, <1>6
<1>9. ASSUME NEW i \in Transferred(o, s), NEW k \in 1..WidthInObject(o, i)
      PROVE  [m \in 1..n |-> ByteAt(m)][at[i] + k] = <<o, i, k, vals[i]>>
  <2>1. PICK p : p = at[i] + k
    OBVIOUS
  <2>2. p \in 1..n /\ EntryAt(p) = i
    BY <1>7, <2>1
  <2>3. [m \in 1..n |-> ByteAt(m)][p] = ByteAt(p)
    BY <2>2
  <2>4. ByteAt(p) = <<o, i, p - at[i], vals[i]>>
    BY <2>2, Zenon DEF ByteAt
  <2>5. p - at[i] = k
    BY <1>4, <2>1
  <2> QED
    BY <2>1, <2>3, <2>4, <2>5
<1> QED
  BY <1>2, <1>8, <1>9 DEF n

LEMMA EntryBytesFacts ==
  ASSUME NEW o \in Objects, NEW i \in Nat, NEW w \in Nat, NEW val \in Values
  PROVE  /\ EntryBytes(o, i, w, val) \in Seq(Byte)
         /\ Len(EntryBytes(o, i, w, val)) = w
         /\ \A k \in 1..w : EntryBytes(o, i, w, val)[k] = <<o, i, k, val>>
<1>1. \A k \in 1..w : <<o, i, k, val>> \in Byte
  BY DEF Byte
<1> QED
  BY <1>1 DEF EntryBytes

\* The bytes of an entry give back their value.
LEMMA ValueOfEntry ==
  ASSUME NEW o \in Objects, NEW i \in Nat, NEW w \in Nat, NEW val \in Values,
         NEW bytes, bytes = EntryBytes(o, i, w, val)
  PROVE  /\ ValueOf(o, i, bytes) \in Values
         /\ w > 0 => ValueOf(o, i, bytes) = val
<1>1. Len(bytes) = w
  BY EntryBytesFacts
<1>2. \E v \in Values : bytes = EntryBytes(o, i, Len(bytes), v)
  BY <1>1
<1>3. PICK v : v = ValueOf(o, i, bytes)
  OBVIOUS
<1>4. v \in Values /\ bytes = EntryBytes(o, i, Len(bytes), v)
  BY <1>2, <1>3 DEF ValueOf
<1>5. ASSUME w > 0
      PROVE  v = val
  <2>1. bytes[1] = <<o, i, 1, val>>
    BY <1>5, EntryBytesFacts
  <2>2. EntryBytes(o, i, w, v)[1] = <<o, i, 1, v>>
    BY <1>4, <1>5, EntryBytesFacts
  <2>3. bytes = EntryBytes(o, i, w, v)
    BY <1>1, <1>4
  <2>4. <<o, i, 1, val>> = <<o, i, 1, v>>
    BY <2>1, <2>2, <2>3
  <2> QED
    BY <2>4
<1> QED
  BY <1>3, <1>4, <1>5

LEMMA TargetFacts ==
  ASSUME SdoAssumption, ClientAssumption, NEW t \in Targets, NEW val \in Values
  PROVE  /\ t.obj \in Objects /\ t.sub \in Nat /\ t.ca \in BOOLEAN
         /\ t.ca => t.sub \in 0..SubCountOf(t.obj)
         /\ TargetBytes(t, val) \in Seq(Byte)
         /\ Len(TargetBytes(t, val)) =
              (IF t.ca THEN CompleteLength(t) ELSE LengthOf(t.obj, t.sub))
<1>1. t.obj \in Objects /\ t.sub \in Nat /\ t.ca \in BOOLEAN
  BY DEF ClientAssumption
<1>2. t.ca => t.sub \in 0..SubCountOf(t.obj)
  BY <1>1, WidthTypes DEF ClientAssumption
<1>3. CASE t.ca
  <2>1. PICK vals : vals = [i \in EntryIds(t.obj) |-> val]
    OBVIOUS
  <2>2. \A i \in EntryIds(t.obj) : vals[i] \in Values
    BY <2>1
  <2>3. TargetBytes(t, val) = ObjectBytes(t.obj, t.sub, vals)
    BY <1>3, <2>1 DEF TargetBytes
  <2> QED
    BY <1>1, <1>2, <1>3, <2>2, <2>3, ObjectBytesFacts DEF CompleteLength
<1>4. CASE ~t.ca
  <2>1. PICK w : w = LengthOf(t.obj, t.sub)
    OBVIOUS
  <2>2. PICK bytes : bytes = EntryBytes(t.obj, t.sub, w, val)
    OBVIOUS
  <2>3. w \in Nat
    BY <1>1, <2>1, WidthTypes
  <2>4. TargetBytes(t, val) = bytes
    BY <1>4, <2>1, <2>2 DEF TargetBytes
  <2>5. bytes \in Seq(Byte) /\ Len(bytes) = w
    BY <1>1, <2>2, <2>3, EntryBytesFacts
  <2> QED
    BY <1>1, <1>4, <2>1, <2>4, <2>5
<1> QED
  BY <1>1, <1>2, <1>3, <1>4

\* The data of a transfer: the bytes of its value, and as many as it says.
LEMMA TransferFacts ==
  ASSUME SdoAssumption, ClientAssumption, NEW t \in Transfers
  PROVE  /\ t.to \in Targets /\ t.val \in Values /\ t.dir \in {"up", "down"} /\ t.err \in Int
         /\ t.dir = "up" => t.err = 0
         /\ TransferData[t] \in Seq(Byte)
         /\ Len(TransferData[t]) = Len(TargetBytes(t.to, t.val)) + t.err
         /\ Len(TransferData[t]) \in Nat
         /\ t.dir = "down" => Len(TransferData[t]) > 0
         /\ \A k \in 1..Len(TransferData[t]) :
              k <= Len(TargetBytes(t.to, t.val)) => TransferData[t][k] = TargetBytes(t.to, t.val)[k]
         /\ t.dir = "up" => TransferData[t] = TargetBytes(t.to, t.val)
<1>1. (CHOOSE val \in Values : TRUE) \in Values
  BY DEF SdoAssumption
<1>2. /\ t.to \in Targets /\ t.val \in Values /\ t.dir \in {"up", "down"} /\ t.err \in Int
      /\ t.dir = "up" => t.err = 0
      /\ t.dir = "down" => Len(TargetBytes(t.to, t.val)) + t.err > 0
  <2>1. PICK first : first = CHOOSE val \in Values : TRUE
    OBVIOUS
  <2>2. CASE t \in {[dir |-> "up", to |-> to, val |-> first, err |-> 0] : to \in Targets}
    BY <1>1, <2>1, <2>2
  <2>3. CASE t \in {u \in {[dir |-> "down", to |-> to, val |-> val, err |-> err] :
                            to \in Targets, val \in Values, err \in SizeErrors} :
                     Len(TargetBytes(u.to, u.val)) + u.err > 0}
    BY <2>3 DEF ClientAssumption
  <2> QED
    BY <2>1, <2>2, <2>3 DEF Transfers
<1>3. PICK bytes : bytes = TargetBytes(t.to, t.val)
  OBVIOUS
<1>4. bytes \in Seq(Byte) /\ Len(bytes) \in Nat
  BY <1>2, <1>3, TargetFacts, LenProperties
<1>5. PICK n : n = Len(bytes) + t.err
  OBVIOUS
<1>6. n \in Nat /\ (t.dir = "down" => n > 0)
  BY <1>2, <1>3, <1>4, <1>5
<1>7. TransferData[t] = Resize(bytes, n)
  BY <1>3, <1>5 DEF TransferData
<1>8. Stale \in Byte
  BY DEF Byte
<1>9. /\ Resize(bytes, n) \in Seq(Byte) /\ Len(Resize(bytes, n)) = n
      /\ \A i \in 1..n : i <= Len(bytes) => Resize(bytes, n)[i] = bytes[i]
      /\ n = Len(bytes) => Resize(bytes, n) = bytes
  BY <1>4, <1>6, <1>8, ResizeFacts
<1>10. t.dir = "up" => n = Len(bytes)
  BY <1>2, <1>4, <1>5
<1> QED
  BY <1>2, <1>3, <1>5, <1>6, <1>7, <1>9, <1>10

\* The bytes of an entry within the data of a transfer that has them.
LEMMA EntryInTransfer ==
  ASSUME SdoAssumption, ClientAssumption, NEW t \in Transfers,
         NEW i \in Nat, NEW at,
         IF t.to.ca
         THEN /\ i \in Transferred(t.to.obj, t.to.sub) \ {0}
              /\ at = OffsetInObject[t.to.obj][t.to.sub][i]
         ELSE i = t.to.sub /\ at = 0,
         at + LengthOf(t.to.obj, i) <= Len(TransferData[t])
  PROVE  SubSeq(TransferData[t], at + 1, at + LengthOf(t.to.obj, i))
           = EntryBytes(t.to.obj, i, LengthOf(t.to.obj, i), t.val)
<1>1. PICK o : o = t.to.obj
  OBVIOUS
<1>w. PICK w : w = LengthOf(t.to.obj, i)
  OBVIOUS
<1>2. PICK s : s = t.to.sub
  OBVIOUS
<1>3. PICK bytes : bytes = TargetBytes(t.to, t.val)
  OBVIOUS
<1>4. PICK d : d = TransferData[t]
  OBVIOUS
<1>5. /\ o \in Objects /\ s \in Nat /\ t.to.ca \in BOOLEAN /\ t.val \in Values
      /\ t.to.ca => s \in 0..SubCountOf(o)
      /\ bytes \in Seq(Byte)
      /\ Len(bytes) = (IF t.to.ca THEN CompleteLength(t.to) ELSE LengthOf(o, s))
  BY <1>1, <1>2, <1>3, TransferFacts, TargetFacts
<1>6. /\ d \in Seq(Byte) /\ Len(d) \in Nat
      /\ \A k \in 1..Len(d) : k <= Len(bytes) => d[k] = bytes[k]
  BY <1>3, <1>4, TransferFacts
<1>7. w \in Nat
  BY <1>1, <1>5, <1>w, WidthTypes
<1>8. at \in Nat /\ at + w <= Len(bytes) /\ \A k \in 1..w : bytes[at + k] = <<o, i, k, t.val>>
  <2>1. CASE t.to.ca
    <3>1. i \in Transferred(o, s) \ {0} /\ at = OffsetInObject[o][s][i]
      BY <1>1, <1>2, <2>1
    <3>2. PICK vals : vals = [j \in EntryIds(o) |-> t.val]
      OBVIOUS
    <3>3. \A j \in EntryIds(o) : vals[j] \in Values
      BY <1>5, <3>2
    <3>4. bytes = ObjectBytes(o, s, vals)
      BY <1>1, <1>2, <1>3, <2>1, <3>2 DEF TargetBytes
    <3>5. WidthInObject(o, i) = w
      BY <1>1, <1>w, <3>1 DEF WidthInObject
    <3>6. i \in s..SubCountOf(o) /\ SubCountOf(o) \in 0..Len(Dictionary[o].entries)
          /\ Len(Dictionary[o].entries) \in Nat
      BY <1>5, <3>1, TransferredIsRange, EntryTypes
    <3>7. i \in EntryIds(o) /\ i \in s..(SubCountOf(o) + 1)
      BY <1>5, <3>6 DEF EntryIds
    <3>8. at \in Nat
      BY <1>5, <2>1, <3>1, <3>7, OffsetTypes
    <3>9. at + w <= Len(bytes)
      BY <1>1, <1>2, <1>5, <2>1, <3>1, <3>5, EntriesAreApart DEF CompleteLength
    <3>10. \A j \in Transferred(o, s) : \A k \in 1..WidthInObject(o, j) :
             ObjectBytes(o, s, vals)[OffsetInObject[o][s][j] + k] = <<o, j, k, vals[j]>>
      BY <1>5, <2>1, <3>3, ObjectBytesFacts
    <3>11. \A k \in 1..w : bytes[at + k] = <<o, i, k, vals[i]>>
      BY <3>1, <3>4, <3>5, <3>10, Zenon
    <3>12. vals[i] = t.val
      BY <3>2, <3>7
    <3> QED
      BY <3>8, <3>9, <3>11, <3>12
  <2>2. CASE ~t.to.ca
    <3>1. i = s /\ at = 0
      BY <1>2, <2>2
    <3>2. bytes = EntryBytes(o, i, w, t.val)
      BY <1>w, <1>1, <1>2, <1>3, <2>2, <3>1 DEF TargetBytes
    <3>3. PICK val : val = t.val
      OBVIOUS
    <3>4. o \in Objects /\ w \in Nat /\ val \in Values
      BY <1>5, <1>7, <3>3
    <3>9. /\ Len(EntryBytes(o, i, w, val)) = w
          /\ \A k \in 1..w : EntryBytes(o, i, w, val)[k] = <<o, i, k, val>>
      BY <3>4, EntryBytesFacts
    <3>5. Len(bytes) = w /\ \A k \in 1..w : bytes[k] = <<o, i, k, t.val>>
      BY <3>2, <3>3, <3>9, Zenon
    <3>6. \A k \in 1..w : at + k = k
      BY <3>1
    <3> QED
      BY <1>7, <3>1, <3>5, <3>6
  <2> QED
    BY <1>5, <2>1, <2>2
<1>9. \A k \in 1..w : d[at + k] = <<o, i, k, t.val>>
  <2>1. \A k \in 1..w : at + k \in 1..Len(d) /\ at + k <= Len(bytes)
    BY <1>4, <1>w, <1>6, <1>7, <1>8, LenProperties
  <2> QED
    BY <1>6, <1>8, <2>1
<1>10. PICK p : p = SubSeq(d, at + 1, at + w)
  OBVIOUS
<1>11. p \in Seq(Byte) /\ Len(p) = w /\ \A k \in 1..w : p[k] = <<o, i, k, t.val>>
  <2>1. at + w <= Len(d)
    BY <1>4, <1>w
  <2>2. p \in Seq(Byte) /\ Len(p) = w /\ \A k \in 1..w : p[k] = d[at + k]
    BY <1>6, <1>7, <1>8, <1>10, <2>1, Portion
  <2> QED
    BY <1>9, <2>2
<1>12. PICK e : e = EntryBytes(o, i, w, t.val)
  OBVIOUS
<1>13. e \in Seq(Byte) /\ Len(e) = w /\ \A k \in 1..w : e[k] = <<o, i, k, t.val>>
  <2>1. PICK val : val = t.val
    OBVIOUS
  <2>2. o \in Objects /\ w \in Nat /\ val \in Values
    BY <1>5, <1>7, <2>1
  <2>4. e = EntryBytes(o, i, w, val)
    BY <1>12, <2>1
  <2>3. /\ Len(EntryBytes(o, i, w, val)) = w
        /\ \A k \in 1..w : EntryBytes(o, i, w, val)[k] = <<o, i, k, val>>
    BY <2>2, EntryBytesFacts
  <2>5. EntryBytes(o, i, w, val) \in Seq(Byte)
    BY <2>2, EntryBytesFacts
  <2> QED
    BY <2>1, <2>3, <2>4, <2>5, Zenon
<1>14. p = e
  <2>1. \A k \in 1..w : p[k] = e[k]
    BY <1>11, <1>13
  <2> QED
    BY <1>11, <1>13, <2>1, SameElements
<1> QED
  BY <1>1, <1>w, <1>4, <1>10, <1>12, <1>14

-------------------------------------------------------------------------------
(* What the operators of the server change. *)

ServerFields == {"v", "mem", "rep"}

LEMMA RefuseEffect ==
  ASSUME NEW y, DOMAIN y = ServerFields, NEW code, NEW z, z = Refuse(y, code)
  PROVE  /\ DOMAIN z = ServerFields /\ z.v = y.v /\ z.mem = y.mem
         /\ z.rep.kind = "Abort" /\ z.rep.code = code
BY DEF Refuse, ServerFields

LEMMA EndSessionEffect ==
  ASSUME NEW y, DOMAIN y = ServerFields, NEW z, z = EndSession(y)
  PROVE  DOMAIN z = ServerFields /\ z.v = NoSession /\ z.mem = y.mem /\ z.rep = y.rep
BY DEF EndSession, ServerFields

LEMMA NoSessionIsSession ==
  ASSUME SdoAssumption
  PROVE  IsSession(NoSession)
BY DEF IsSession, NoSession, SdoAssumption

LEMMA LengthIsPositive ==
  ASSUME SdoAssumption, HasBits, NEW o \in Objects, NEW i \in 0..SubCountOf(o)
  PROVE  LengthOf(o, i) > 0
<1>1. PICK d : d = Dictionary[o]
  OBVIOUS
<1>2. d.variable => Len(d.entries) = 1
  BY <1>1 DEF SdoAssumption
<1>3. d.entries \in Seq(Entries) /\ Len(d.entries) \in Nat /\ DOMAIN d.entries = 1..Len(d.entries)
  BY <1>1, EntryTypes, LenProperties
<1>4. SubCountOf(o) = IF d.variable THEN 0 ELSE Len(d.entries)
  BY <1>1 DEF SubCountOf
<1>5. \A j \in 1..Len(d.entries) : d.entries[j].bits > 0
  BY <1>1, <1>3 DEF HasBits
<1>6. EntryDescriptionOf(o, i).bits > 0
  <2>1. CASE d.variable
    BY <1>1, <1>2, <1>5, <2>1 DEF EntryDescriptionOf
  <2>2. CASE ~d.variable /\ i > 0
    BY <1>1, <1>3, <1>4, <1>5, <2>2 DEF EntryDescriptionOf
  <2>3. CASE ~d.variable /\ ~(i > 0)
    <3>1. EntryDescriptionOf(o, i) = [bits |-> 8, read |-> {"PreOp", "SafeOp", "Op"}, write |-> {}]
      BY <1>1, <2>3 DEF EntryDescriptionOf
    <3> QED
      BY <3>1
  <2> QED
    BY <2>1, <2>2, <2>3
<1>7. EntryDescriptionOf(o, i).bits \in Nat
  BY EntryTypes DEF Entries
<1>8. HasEntry(o, i)
  BY <1>3, <1>4 DEF HasEntry
<1> QED
  BY <1>6, <1>7, <1>8 DEF LengthOf, ByteWidthOf

\* The memory after the data of a transfer are written: only this object, only
\* to this value, and wholly when nothing is refused.
Wrote(t, state, mem, after) ==
  LET o  == t.to.obj
      ok == WriteRefusal(o, t.to.sub, t.to.ca, Len(TransferData[t]), state) = "ok"
  IN  /\ IsMemory(after)
      /\ \A p \in Objects \ {o} : after[p] = mem[p]
      /\ HasBits => \A i \in EntryIds(o) : after[o][i] \in {mem[o][i], t.val}
      /\ ok => Stored(t, after, state)
      /\ ~ok /\ ~(t.to.ca /\ ~Dictionary[o].variable) => \A i \in EntryIds(o) : after[o][i] = mem[o][i]

LEMMA WriteEffect ==
  ASSUME SdoAssumption, ClientAssumption, NEW t \in Transfers, NEW state,
         NEW y, DOMAIN y = ServerFields, IsMemory(y.mem), NEW z,
         z = Write(y, t.to.obj, t.to.sub, t.to.ca, TransferData[t], state)
  PROVE  /\ DOMAIN z = ServerFields /\ z.v = y.v
         /\ Wrote(t, state, y.mem, z.mem)
<1>1. PICK o : o = t.to.obj
  OBVIOUS
<1>2. PICK s : s = t.to.sub
  OBVIOUS
<1>3. PICK ca : ca = t.to.ca
  OBVIOUS
<1>4. PICK d : d = TransferData[t]
  OBVIOUS
<1>5. PICK mem : mem = y.mem
  OBVIOUS
<1>6. /\ o \in Objects /\ s \in Nat /\ ca \in BOOLEAN /\ o # NoObject
      /\ ca => s \in 0..SubCountOf(o)
      /\ t.val \in Values /\ d \in Seq(Byte) /\ Len(d) \in Nat
  BY <1>1, <1>2, <1>3, <1>4, TransferFacts, TargetFacts DEF SdoAssumption
<1>7. IsMemory(mem) /\ z = Write(y, o, s, ca, d, state)
  BY <1>1, <1>2, <1>3, <1>4, <1>5
<1>8. SubCountOf(o) \in Nat /\ 0..SubCountOf(o) \subseteq EntryIds(o)
  <2>1. SubCountOf(o) \in 0..Len(Dictionary[o].entries) /\ Len(Dictionary[o].entries) \in Nat
    BY <1>6, EntryTypes
  <2> QED
    BY <2>1 DEF EntryIds
<1>9. PICK refusal : refusal = WriteRefusal(o, s, ca, Len(d), state)
  OBVIOUS
<1>10. CASE ca /\ Dictionary[o].variable
  <2>1. z = y
    BY <1>7, <1>10 DEF Write
  <2>2. refusal # "ok"
    BY <1>6, <1>9, <1>10 DEF WriteRefusal
  <2> QED
    BY <1>1, <1>2, <1>3, <1>4, <1>9, <2>1, <2>2 DEF Wrote
<1>11. CASE ~(ca /\ Dictionary[o].variable)
  <2> DEFINE W == EntriesWritten(o, s, ca, Len(d), state)
             F == [i \in EntryIds(o) |->
                     IF i \notin W THEN mem[o][i]
                     ELSE LET at == IF ca THEN OffsetInObject[o][s][i] ELSE 0
                          IN  ValueOf(o, i, SubSeq(d, at + 1, at + LengthOf(o, i)))]
  <2>1. PICK f : f = F
    OBVIOUS
  <2>2. DOMAIN mem[o] = EntryIds(o) /\ DOMAIN mem = Objects
    BY <1>6, <1>7 DEF IsMemory
  <2>3. Written(o, s, ca, d, state, mem) = [mem EXCEPT ![o] = f]
    BY <2>1, <2>2 DEF Written
  <2>4. DOMAIN z = ServerFields /\ z.v = y.v /\ z.mem = [mem EXCEPT ![o] = f]
    <3>1. z = [y EXCEPT !.mem = [mem EXCEPT ![o] = f]]
      BY <1>5, <1>6, <1>7, <1>11, <2>3 DEF Write
    <3> QED
      BY <3>1 DEF ServerFields
  <2>5. PICK after : after = z.mem
    OBVIOUS
  <2>6. DOMAIN after = Objects /\ after[o] = f /\ \A p \in Objects \ {o} : after[p] = mem[p]
    BY <1>6, <2>2, <2>4, <2>5
  <2>7. ASSUME NEW i \in W
        PROVE  /\ i \in 0..SubCountOf(o)
               /\ IF ca THEN /\ i \in Transferred(o, s) \ {0}
                             /\ OffsetInObject[o][s][i] + LengthOf(o, i) <= Len(d)
                  ELSE i = s /\ refusal = "ok" /\ ~(Len(d) < LengthOf(o, i))
    <3>1. CASE ca
      <4>1. /\ i \in Transferred(o, s) \ {0}
            /\ OffsetInObject[o][s][i] + LengthOf(o, i) <= Len(d)
        BY <3>1 DEF EntriesWritten
      <4>2. i \in s..SubCountOf(o)
        BY <1>6, <4>1, TransferredIsRange
      <4> QED
        BY <1>6, <1>8, <3>1, <4>1, <4>2
    <3>2. CASE ~ca
      <4>1. i = s /\ refusal = "ok"
        BY <1>9, <3>2 DEF EntriesWritten
      <4>2. Accessible(o, s) /\ ~(Len(d) < LengthOf(o, s))
        BY <1>6, <1>9, <3>2, <4>1 DEF WriteRefusal
      <4>3. s \in 0..SubCountOf(o)
        BY <1>6, <4>2, WidthTypes DEF Accessible
      <4> QED
        BY <3>2, <4>1, <4>2, <4>3
    <3> QED
      BY <1>6, <3>1, <3>2
  <2>8. ASSUME NEW i \in W
        PROVE  f[i] \in Values /\ (HasBits => f[i] = t.val)
    <3>1. PICK at : at = IF ca THEN OffsetInObject[o][s][i] ELSE 0
      OBVIOUS
    <3>2. PICK w : w = LengthOf(o, i)
      OBVIOUS
    <3>3. i \in Nat /\ i \in EntryIds(o)
      BY <1>8, <2>7
    <3>4. w \in Nat
      BY <1>6, <3>2, <3>3, WidthTypes
    <3>5. at + w <= Len(d)
      BY <1>6, <2>7, <3>1, <3>2, <3>4
    <3>6. SubSeq(d, at + 1, at + w) = EntryBytes(o, i, w, t.val)
      <4>1. IF t.to.ca
            THEN /\ i \in Transferred(t.to.obj, t.to.sub) \ {0}
                 /\ at = OffsetInObject[t.to.obj][t.to.sub][i]
            ELSE i = t.to.sub /\ at = 0
        BY <1>1, <1>2, <1>3, <2>7, <3>1
      <4>2. at + LengthOf(t.to.obj, i) <= Len(TransferData[t])
        BY <1>1, <1>4, <3>2, <3>5
      <4>3. SubSeq(TransferData[t], at + 1, at + LengthOf(t.to.obj, i))
              = EntryBytes(t.to.obj, i, LengthOf(t.to.obj, i), t.val)
        BY <3>3, <4>1, <4>2, EntryInTransfer
      <4> QED
        BY <1>1, <1>4, <3>2, <4>3
    <3>7. f[i] = ValueOf(o, i, SubSeq(d, at + 1, at + w))
      BY <2>1, <3>1, <3>2, <3>3
    <3>8. PICK val : val = t.val
      OBVIOUS
    <3>9. /\ ValueOf(o, i, EntryBytes(o, i, w, val)) \in Values
          /\ w > 0 => ValueOf(o, i, EntryBytes(o, i, w, val)) = val
      <4>1. val \in Values
        BY <1>6, <3>8
      <4> QED
        BY <1>6, <3>3, <3>4, <4>1, ValueOfEntry
    <3>10. HasBits => w > 0
      BY <1>6, <2>7, <3>2, LengthIsPositive
    <3> QED
      BY <3>6, <3>7, <3>8, <3>9, <3>10
  <2>9. ASSUME NEW i \in EntryIds(o), i \notin W
        PROVE  f[i] = mem[o][i]
    BY <2>1, <2>9
  <2>10. f \in [EntryIds(o) -> Values]
    <3>1. \A i \in EntryIds(o) : mem[o][i] \in Values
      BY <1>6, <1>7 DEF IsMemory
    <3>2. \A i \in EntryIds(o) : f[i] \in Values
      BY <2>8, <2>9, <3>1
    <3>3. f = [i \in EntryIds(o) |-> f[i]]
      BY <2>1
    <3> HIDE DEF F
    <3> QED
      BY <3>2, <3>3
  <2>11. IsMemory(after)
    BY <1>6, <1>7, <2>6, <2>10 DEF IsMemory
  <2>12. HasBits => \A i \in EntryIds(o) : f[i] \in {mem[o][i], t.val}
    BY <2>8, <2>9
  <2>13. ASSUME refusal = "ok", HasBits, NEW i \in WritableEntries(t.to, state)
         PROVE  f[i] = t.val
    <3>1. i \in W
      <4>1. CASE ca
        <5>1. i \in Transferred(o, s) \ {0} /\ state \in EntryDescriptionOf(o, i).write
          BY <1>1, <1>2, <1>3, <4>1 DEF WritableEntries
        <5>2. ~(Len(d) < OffsetInObject[o][s][SubCountOf(o) + 1])
          BY <1>6, <1>9, <1>11, <2>13, <4>1 DEF WriteRefusal
        <5>3. OffsetInObject[o][s][i] + WidthInObject(o, i) <= OffsetInObject[o][s][SubCountOf(o) + 1]
          BY <1>6, <4>1, <5>1, EntriesAreApart
        <5>4. WidthInObject(o, i) = LengthOf(o, i)
          BY <5>1 DEF WidthInObject
        <5>5. /\ OffsetInObject[o][s][i] \in Nat /\ LengthOf(o, i) \in Nat
              /\ OffsetInObject[o][s][SubCountOf(o) + 1] \in Nat
          <6>1. i \in s..SubCountOf(o) /\ s \in 0..SubCountOf(o)
            BY <1>6, <4>1, <5>1, TransferredIsRange
          <6>2. i \in Nat /\ i \in s..(SubCountOf(o) + 1)
                /\ SubCountOf(o) + 1 \in s..(SubCountOf(o) + 1)
            BY <1>8, <6>1
          <6> QED
            BY <1>6, <6>1, <6>2, OffsetTypes, WidthTypes
        <5>6. OffsetInObject[o][s][i] + LengthOf(o, i) <= Len(d)
          BY <1>6, <5>2, <5>3, <5>4, <5>5
        <5> QED
          BY <4>1, <5>1, <5>6 DEF EntriesWritten
      <4>2. CASE ~ca
        <5>1. i = s
          BY <1>2, <1>3, <4>2 DEF WritableEntries
        <5> QED
          BY <1>9, <2>13, <4>2, <5>1 DEF EntriesWritten
      <4> QED
        BY <1>6, <4>1, <4>2
    <3> QED
      BY <2>8, <2>13, <3>1
  <2>14. ASSUME refusal # "ok", ~(ca /\ ~Dictionary[o].variable), NEW i \in EntryIds(o)
         PROVE  f[i] = mem[o][i]
    <3>1. ~ca
      BY <1>11, <2>14
    <3>2. i \notin W
      BY <1>9, <2>14, <3>1 DEF EntriesWritten
    <3> QED
      BY <2>9, <3>2
  <2> HIDE DEF W, F
  <2>15. Wrote(t, state, mem, after)
    <3>1. WriteRefusal(t.to.obj, t.to.sub, t.to.ca, Len(TransferData[t]), state) = refusal
      BY <1>1, <1>2, <1>3, <1>4, <1>9
    <3>2. refusal = "ok" => Stored(t, after, state)
      BY <1>1, <2>6, <2>13 DEF Stored
    <3>3. refusal # "ok" /\ ~(t.to.ca /\ ~Dictionary[o].variable)
            => \A i \in EntryIds(o) : after[o][i] = mem[o][i]
      BY <1>3, <2>6, <2>14
    <3> QED
      BY <1>1, <2>6, <2>11, <2>12, <3>1, <3>2, <3>3 DEF Wrote
  <2> QED
    BY <1>5, <2>4, <2>5, <2>15
<1> QED
  BY <1>10, <1>11

\* A download that the dictionary refuses deserves it.
LEMMA WriteRefusalIsDeserved ==
  ASSUME SdoAssumption, ClientAssumption, NEW t \in Transfers, t.dir = "down", NEW state,
         NEW code, code = WriteRefusal(t.to.obj, t.to.sub, t.to.ca, Len(TransferData[t]), state),
         code # "ok"
  PROVE  /\ Deserved(t, code, state)
         /\ t.to.ca /\ ~Dictionary[t.to.obj].variable => code = "TooShort"
<1>1. PICK o : o = t.to.obj
  OBVIOUS
<1>2. PICK s : s = t.to.sub
  OBVIOUS
<1>3. PICK ca : ca = t.to.ca
  OBVIOUS
<1>4. PICK n : n = Len(TransferData[t])
  OBVIOUS
<1>5. PICK e : e = EntryDescriptionOf(o, s)
  OBVIOUS
<1>6. PICK w : w = LengthOf(o, s)
  OBVIOUS
<1>7. o \in Objects /\ s \in Nat /\ ca \in BOOLEAN /\ o # NoObject /\ w \in Nat
  BY <1>1, <1>2, <1>3, <1>6, TransferFacts, TargetFacts, WidthTypes DEF SdoAssumption
<1>8. n \in Nat /\ t.err \in Int /\ n = Len(TargetBytes(t.to, t.val)) + t.err
      /\ Len(TargetBytes(t.to, t.val)) = (IF ca THEN OffsetInObject[o][s][SubCountOf(o) + 1] ELSE w)
  BY <1>1, <1>2, <1>3, <1>4, <1>6, TransferFacts, TargetFacts DEF CompleteLength
<1>9. Len(TargetBytes(t.to, t.val)) \in Nat
  BY TransferFacts, TargetFacts, LenProperties
<1>10. PICK m : m = Len(TargetBytes(t.to, t.val))
  OBVIOUS
<1>11. m \in Nat /\ n = m + t.err /\ m = (IF ca THEN OffsetInObject[o][s][SubCountOf(o) + 1] ELSE w)
  BY <1>8, <1>9, <1>10
<1>12. code = WriteRefusal(o, s, ca, n, state)
  BY <1>1, <1>2, <1>3, <1>4
<1>13. CASE ca
  <2>1. CASE Dictionary[o].variable
    <3>1. code = "UnsupportedAccess"
      BY <1>7, <1>12, <1>13, <2>1 DEF WriteRefusal
    <3> QED
      BY <1>1, <1>3, <1>13, <2>1, <3>1 DEF Deserved
  <2>2. CASE ~Dictionary[o].variable
    <3>1. code = "TooShort" /\ n < m
      BY <1>7, <1>11, <1>12, <1>13, <2>2 DEF WriteRefusal
    <3>2. t.err < 0
      BY <1>8, <1>11, <3>1
    <3> QED
      BY <3>1, <3>2 DEF Deserved
  <2> QED
    BY <2>1, <2>2
<1>14. CASE ~ca
  <2>1. \/ code = "UnsupportedAccess" /\ ~Accessible(o, s)
        \/ code = "ReadOnly" /\ e.write = {}
        \/ code = "NotInThisState" /\ state \notin e.write
        \/ code = "TooLong" /\ n > w + (w % 2)
        \/ code = "TooShort" /\ n < w
    BY <1>5, <1>6, <1>7, <1>12, <1>14 DEF WriteRefusal
  <2>2. n > w + (w % 2) => t.err > 0
    BY <1>7, <1>8, <1>11, <1>14
  <2>3. n < w => t.err < 0
    BY <1>7, <1>8, <1>11, <1>14
  <2> QED
    BY <1>1, <1>2, <1>3, <1>5, <1>14, <2>1, <2>2, <2>3 DEF Deserved
<1> QED
  BY <1>7, <1>13, <1>14

\* All data are there: they are stored and confirmed, or refused for a reason.
Decided(t, state, mem, z, reply) ==
  /\ Wrote(t, state, mem, z.mem)
  /\ \/ z.rep = reply /\ Stored(t, z.mem, state)
     \/ /\ z.rep.kind = "Abort" /\ Deserved(t, z.rep.code, state)
        /\ \/ t.to.ca /\ z.rep.code = "TooShort"
           \/ \A i \in EntryIds(t.to.obj) : z.mem[t.to.obj][i] = mem[t.to.obj][i]

LEMMA StoreEffect ==
  ASSUME SdoAssumption, ClientAssumption, NEW t \in Transfers, t.dir = "down", NEW state,
         NEW y, DOMAIN y = ServerFields, IsMemory(y.mem), NEW reply,
         NEW r, r.obj = t.to.obj, r.sub = t.to.sub, r.ca = t.to.ca,
         NEW bytes, bytes = TransferData[t],
         NEW z, z = Store(y, r, bytes, state, reply)
  PROVE  /\ DOMAIN z = ServerFields /\ z.v = y.v
         /\ Decided(t, state, y.mem, z, reply)
<1>1. PICK code : code = WriteRefusal(t.to.obj, t.to.sub, t.to.ca, Len(TransferData[t]), state)
  OBVIOUS
<1>2. PICK w : w = Write(y, t.to.obj, t.to.sub, t.to.ca, TransferData[t], state)
  OBVIOUS
<1>3. z = IF code = "ok" THEN [w EXCEPT !.rep = reply] ELSE Refuse(w, code)
  BY <1>1, <1>2 DEF Store
<1>4. DOMAIN w = ServerFields /\ w.v = y.v /\ Wrote(t, state, y.mem, w.mem)
  BY <1>2, WriteEffect
<1>5. CASE code = "ok"
  <2>1. z = [w EXCEPT !.rep = reply]
    BY <1>3, <1>5
  <2>2. DOMAIN z = ServerFields /\ z.v = w.v /\ z.mem = w.mem /\ z.rep = reply
    BY <1>4, <2>1 DEF ServerFields
  <2>3. Stored(t, w.mem, state)
    BY <1>1, <1>4, <1>5 DEF Wrote
  <2> QED
    BY <1>4, <2>2, <2>3 DEF Decided
<1>6. CASE code # "ok"
  <2>1. z = Refuse(w, code)
    BY <1>3, <1>6
  <2>2. /\ DOMAIN z = ServerFields /\ z.v = w.v /\ z.mem = w.mem
        /\ z.rep.kind = "Abort" /\ z.rep.code = code
    BY <1>4, <2>1, RefuseEffect
  <2>3. Deserved(t, code, state) /\ (t.to.ca /\ ~Dictionary[t.to.obj].variable => code = "TooShort")
    BY <1>1, <1>6, WriteRefusalIsDeserved
  <2>4. ~(t.to.ca /\ ~Dictionary[t.to.obj].variable)
          => \A i \in EntryIds(t.to.obj) : w.mem[t.to.obj][i] = y.mem[t.to.obj][i]
    BY <1>1, <1>4, <1>6 DEF Wrote
  <2> QED
    BY <1>4, <2>2, <2>3, <2>4 DEF Decided
<1> QED
  BY <1>5, <1>6

-------------------------------------------------------------------------------
(* Initiate requests. *)

LEMMA SizeFacts ==
  ASSUME SdoAssumption, ClientAssumption, Roomy, NEW t \in Targets, NEW val \in Values, NEW size,
         size = IF t.ca THEN TotalLengthOf(t.obj, t.sub) ELSE LengthOf(t.obj, t.sub)
  PROVE  /\ size \in Nat
         /\ ~(t.ca /\ Dictionary[t.obj].variable) => Len(TargetBytes(t, val)) <= size
         /\ ~(t.ca /\ Dictionary[t.obj].variable) /\ Exact(t) => Len(TargetBytes(t, val)) = size
         /\ t.ca /\ Dictionary[t.obj].variable => size = 0
<1>1. PICK n : n = Len(TargetBytes(t, val))
  OBVIOUS
<1>2. /\ t.obj \in Objects /\ t.sub \in Nat /\ t.ca \in BOOLEAN
      /\ n = (IF t.ca THEN CompleteLength(t) ELSE LengthOf(t.obj, t.sub))
  BY <1>1, TargetFacts
<1>3. n \in Nat
  BY <1>1, TargetFacts, LenProperties
<1>4. CASE ~t.ca
  BY <1>1, <1>2, <1>3, <1>4
<1>5. CASE t.ca /\ Dictionary[t.obj].variable
  <2>1. TotalLengthOf(t.obj, t.sub) = 0
    BY <1>5 DEF TotalLengthOf
  <2> QED
    BY <1>5, <2>1
<1>6. CASE CompleteAccess(t)
  <2>1. PICK spare \in Nat : TotalLengthOf(t.obj, t.sub) = CompleteLength(t) + spare
    BY <1>6 DEF Roomy
  <2>2. t.ca /\ ~Dictionary[t.obj].variable
    BY <1>6 DEF CompleteAccess
  <2>3. size = n + spare
    BY <1>2, <2>1, <2>2
  <2>4. Exact(t) => size = n
    BY <1>2, <2>2 DEF Exact, CompleteLength
  <2> QED
    BY <1>1, <1>3, <2>2, <2>3, <2>4
<1> QED
  BY <1>2, <1>4, <1>5, <1>6 DEF CompleteAccess

LEMMA ReadFacts ==
  ASSUME SdoAssumption, ClientAssumption, NEW t \in Targets, NEW val \in Values,
         NEW mem, IsMemory(mem), NEW state, ReadRefusal(t.obj, t.sub, t.ca, state) = "ok"
  PROVE  /\ ReadBytes(t.obj, t.sub, t.ca, mem) \in Seq(Byte)
         /\ Len(ReadBytes(t.obj, t.sub, t.ca, mem)) = Len(TargetBytes(t, val))
         /\ HasEntry(t.obj, t.sub)
         /\ ~(t.ca /\ Dictionary[t.obj].variable)
<1>1. PICK o : o = t.obj
  OBVIOUS
<1>2. PICK s : s = t.sub
  OBVIOUS
<1>3. /\ o \in Objects /\ s \in Nat /\ t.ca \in BOOLEAN
      /\ t.ca => s \in 0..SubCountOf(o)
      /\ Len(TargetBytes(t, val)) = (IF t.ca THEN CompleteLength(t) ELSE LengthOf(o, s))
  BY <1>1, <1>2, TargetFacts
<1>4. SubCountOf(o) \in Nat /\ 0..SubCountOf(o) \subseteq EntryIds(o)
  <2>1. SubCountOf(o) \in 0..Len(Dictionary[o].entries) /\ Len(Dictionary[o].entries) \in Nat
    BY <1>3, EntryTypes
  <2> QED
    BY <2>1 DEF EntryIds
<1>5. PICK vals : vals = mem[o]
  OBVIOUS
<1>6. \A i \in EntryIds(o) : vals[i] \in Values
  BY <1>3, <1>5 DEF IsMemory
<1>7. CASE t.ca
  <2>1. ReadBytes(o, s, t.ca, mem) = ObjectBytes(o, s, vals)
    BY <1>5, <1>7 DEF ReadBytes
  <2>2. /\ ObjectBytes(o, s, vals) \in Seq(Byte)
        /\ Len(ObjectBytes(o, s, vals)) = OffsetInObject[o][s][SubCountOf(o) + 1]
    BY <1>3, <1>6, <1>7, ObjectBytesFacts
  <2>3. ~Dictionary[o].variable
    BY <1>1, <1>7 DEF ReadRefusal
  <2>4. HasEntry(o, s)
    BY <1>3, <1>7, WidthTypes
  <2> QED
    BY <1>1, <1>2, <1>3, <1>7, <2>1, <2>2, <2>3, <2>4 DEF CompleteLength
<1>8. CASE ~t.ca
  <2>1. HasEntry(o, s)
    BY <1>1, <1>2, <1>8 DEF ReadRefusal, Accessible
  <2>2. PICK w : w = LengthOf(o, s)
    OBVIOUS
  <2>3. PICK v : v = vals[s]
    OBVIOUS
  <2>4. w \in Nat /\ v \in Values
    BY <1>3, <1>4, <1>6, <2>1, <2>2, <2>3, WidthTypes
  <2>5. ReadBytes(o, s, t.ca, mem) = EntryBytes(o, s, w, v)
    BY <1>5, <1>8, <2>2, <2>3 DEF ReadBytes
  <2>6. EntryBytes(o, s, w, v) \in Seq(Byte)
    BY <1>3, <2>4, EntryBytesFacts
  <2>7. Len(EntryBytes(o, s, w, v)) = w
    BY <1>3, <2>4, EntryBytesFacts
  <2> QED
    BY <1>1, <1>2, <1>3, <1>8, <2>1, <2>2, <2>5, <2>6, <2>7
<1> QED
  BY <1>3, <1>7, <1>8

LEMMA ReadRefusalIsDeserved ==
  ASSUME SdoAssumption, ClientAssumption, NEW t \in Transfers, t.dir = "up", NEW state,
         NEW code, code = ReadRefusal(t.to.obj, t.to.sub, t.to.ca, state), code # "ok"
  PROVE  Deserved(t, code, state)
<1>1. PICK e : e = EntryDescriptionOf(t.to.obj, t.to.sub)
  OBVIOUS
<1>2. CASE t.to.ca
  <2>1. code = "UnsupportedAccess" /\ Dictionary[t.to.obj].variable
    BY <1>2 DEF ReadRefusal
  <2> QED
    BY <1>2, <2>1 DEF Deserved
<1>3. CASE ~t.to.ca
  <2>1. \/ code = "UnsupportedAccess" /\ (~Accessible(t.to.obj, t.to.sub) \/ e.read = {})
        \/ code = "NotInThisState" /\ state \notin e.read
    BY <1>1, <1>3 DEF ReadRefusal
  <2> QED
    BY <1>1, <1>3, <2>1 DEF Deserved
<1> QED
  BY <1>2, <1>3

LEMMA SetReply ==
  ASSUME NEW y, DOMAIN y = ServerFields, NEW rep, NEW z, z = [y EXCEPT !.rep = rep]
  PROVE  DOMAIN z = ServerFields /\ z.v = y.v /\ z.mem = y.mem /\ z.rep = rep
BY DEF ServerFields

\* The server begins an upload, or answers it at once.
UploadBegun(t, z, state, found) ==
  \/ z.rep.kind = "Abort" /\ Explained(t, z.rep.code, state)
  \/ /\ z.rep.kind = "Upload"
     /\ z.rep.data \in Seq(Byte) /\ z.rep.size \in Nat
     /\ \/ Len(z.rep.data) = z.rep.size /\ Snapshot(t, z.rep.data, found)
        \/ /\ z.rep.data = <<>> /\ z.rep.size > 0
           /\ Uploading(z.v, t, z.rep.size, <<>>, found) /\ z.v.toggle

LEMMA UploadEffect ==
  ASSUME SdoAssumption, ClientAssumption, Roomy,
         NEW t \in Transfers, t.dir = "up", NEW state, NEW y, IsServer(y),
         NEW r, r.kind = "Upload", r.obj = t.to.obj, r.sub = t.to.sub, r.ca = t.to.ca,
         NEW found, HasEntry(r.obj, r.sub) => found = ReadBytes(r.obj, r.sub, r.ca, y.mem),
         NEW z, z = HandleInitiate(y, r, state)
  PROVE  IsServer(z) /\ z.mem = y.mem /\ UploadBegun(t, z, state, found)
<1>1. PICK o : o = t.to.obj
  OBVIOUS
<1>2. PICK s : s = t.to.sub
  OBVIOUS
<1>3. PICK ca : ca = t.to.ca
  OBVIOUS
<1>4. PICK mem : mem = y.mem
  OBVIOUS
<1>5. PICK size : size = IF ca THEN TotalLengthOf(o, s) ELSE LengthOf(o, s)
  OBVIOUS
<1>6. PICK refusal : refusal = ReadRefusal(o, s, ca, state)
  OBVIOUS
<1>7. PICK data : data = ReadBytes(o, s, ca, mem)
  OBVIOUS
<1>8. PICK n : n = Len(TargetBytes(t.to, t.val))
  OBVIOUS
<1>9. /\ t.to \in Targets /\ t.val \in Values /\ o \in Objects /\ s \in Nat /\ ca \in BOOLEAN
      /\ Len(TransferData[t]) = n
  <2>1. t.to \in Targets /\ t.val \in Values /\ TransferData[t] = TargetBytes(t.to, t.val)
    BY TransferFacts
  <2> QED
    BY <1>1, <1>2, <1>3, <1>8, <2>1, TargetFacts
<1>10. /\ size \in Nat
       /\ ~(ca /\ Dictionary[o].variable) => n <= size /\ (Exact(t.to) => n = size)
       /\ ca /\ Dictionary[o].variable => size = 0
  <2>1. size = IF t.to.ca THEN TotalLengthOf(t.to.obj, t.to.sub) ELSE LengthOf(t.to.obj, t.to.sub)
    BY <1>1, <1>2, <1>3, <1>5
  <2> QED
    BY <1>1, <1>3, <1>8, <1>9, <2>1, SizeFacts
<1>11. DOMAIN y = ServerFields /\ IsSession(y.v) /\ IsMemory(mem)
  BY <1>4 DEF IsServer, ServerFields
<1>12. n \in Nat
  BY <1>8, <1>9, TargetFacts, LenProperties
<1>13. refusal = "ok" =>
         /\ data \in Seq(Byte) /\ Len(data) = n /\ n <= size /\ found = data
         /\ Exact(t.to) => n = size
  <2>1. ASSUME refusal = "ok"
        PROVE  /\ ReadBytes(t.to.obj, t.to.sub, t.to.ca, mem) \in Seq(Byte)
               /\ Len(ReadBytes(t.to.obj, t.to.sub, t.to.ca, mem)) = n
               /\ HasEntry(t.to.obj, t.to.sub)
               /\ ~(t.to.ca /\ Dictionary[t.to.obj].variable)
    <3>1. ReadRefusal(t.to.obj, t.to.sub, t.to.ca, state) = "ok"
      BY <1>1, <1>2, <1>3, <1>6, <2>1
    <3> QED
      BY <1>8, <1>9, <1>11, <3>1, ReadFacts
  <2> QED
    BY <1>1, <1>2, <1>3, <1>4, <1>7, <1>10, <2>1
<1> DEFINE Refused(code) == z = Refuse(y, code) /\ Explained(t, code, state)
<1>14. ASSUME NEW code, Refused(code)
       PROVE  IsServer(z) /\ z.mem = y.mem /\ UploadBegun(t, z, state, found)
  <2>1. /\ DOMAIN z = ServerFields /\ z.v = y.v /\ z.mem = y.mem
        /\ z.rep.kind = "Abort" /\ z.rep.code = code
    BY <1>11, <1>14, RefuseEffect
  <2> QED
    BY <1>4, <1>11, <1>14, <2>1 DEF IsServer, ServerFields, UploadBegun
<1>15. CASE ca /\ s > 1
  <2>1. z = Refuse(y, "UnsupportedAccess")
    BY <1>1, <1>2, <1>3, <1>15 DEF HandleInitiate
  <2>2. Explained(t, "UnsupportedAccess", state)
    BY <1>2, <1>3, <1>15 DEF Explained, Deserved
  <2> QED
    BY <1>14, <2>1, <2>2
<1>16. CASE ~(ca /\ s > 1) /\ ~Dictionary[o].variable /\ ~HasEntry(o, s)
  <2>1. z = Refuse(y, "SubIndexNotExisting")
    BY <1>1, <1>2, <1>3, <1>16 DEF HandleInitiate
  <2>2. Explained(t, "SubIndexNotExisting", state)
    BY <1>1, <1>2, <1>16 DEF Explained, Deserved
  <2> QED
    BY <1>14, <2>1, <2>2
<1>17. CASE ~(ca /\ s > 1) /\ ~(~Dictionary[o].variable /\ ~HasEntry(o, s))
  <2>1. PICK segments : segments = (size > 4 /\ size > InitiateCapacity)
    OBVIOUS
  <2>2. PICK padded : padded = PadTo(data, size)
    OBVIOUS
  <2>3. PICK session : session = Session("UploadSegment", r, size, 0, padded)
    BY Zenon
  <2>4. z = IF segments /\ size > SegmentCapacity THEN Refuse(y, "NoMoreMemory")
            ELSE IF refusal # "ok" THEN Refuse(y, refusal)
            ELSE IF segments
            THEN [y EXCEPT !.v = session, !.rep = [kind |-> "Upload", size |-> size, data |-> <<>>]]
            ELSE IF size \in 1..4
            THEN [y EXCEPT !.rep = [kind |-> "Upload", size |-> Len(data), data |-> data]]
            ELSE [y EXCEPT !.rep = [kind |-> "Upload", size |-> size, data |-> padded]]
    <3>1. z = BuildUpload(y, r, state)
      BY <1>1, <1>2, <1>3, <1>17 DEF HandleInitiate
    <3> QED
      BY <1>1, <1>2, <1>3, <1>4, <1>5, <1>6, <1>7, <2>1, <2>2, <2>3, <3>1 DEF BuildUpload
  <2>5. segments \in BOOLEAN
    BY <2>1
  <2>6. CASE segments /\ size > SegmentCapacity
    <3>1. z = Refuse(y, "NoMoreMemory")
      BY <2>4, <2>6
    <3>2. Explained(t, "NoMoreMemory", state)
      <4>1. size # 0
        BY <1>10, <2>1, <2>6
      <4>2. Exact(t.to) => Len(TransferData[t]) > SegmentCapacity
        BY <1>9, <1>10, <2>6, <4>1
      <4> QED
        BY <4>2 DEF Explained, Deserved, ServerAtFault
    <3> QED
      BY <1>14, <3>1, <3>2
  <2>7. CASE ~(segments /\ size > SegmentCapacity) /\ refusal # "ok"
    <3>1. z = Refuse(y, refusal)
      BY <2>4, <2>7
    <3>2. Explained(t, refusal, state)
      BY <1>1, <1>2, <1>3, <1>6, <2>7, ReadRefusalIsDeserved DEF Explained
    <3> QED
      BY <1>14, <3>1, <3>2
  <2>8. CASE ~(segments /\ size > SegmentCapacity) /\ refusal = "ok"
    <3>1. /\ data \in Seq(Byte) /\ Len(data) = n /\ n <= size /\ found = data
          /\ Exact(t.to) => n = size
      BY <1>13, <2>8
    <3>2. Stale \in Byte
      BY DEF Byte
    <3>3. /\ padded \in Seq(Byte) /\ Len(padded) = size
          /\ Exact(t.to) => padded = found
      <4>1. /\ PadTo(data, size) \in Seq(Byte)
            /\ Len(PadTo(data, size)) = (IF size <= Len(data) THEN Len(data) ELSE size)
            /\ size <= Len(data) => PadTo(data, size) = data
        BY <1>10, <3>1, <3>2, PadToFacts
      <4> QED
        BY <1>10, <1>12, <2>2, <3>1, <4>1
    <3>4. CASE segments
      <4>1. PICK rep : rep = [kind |-> "Upload", size |-> size, data |-> <<>>]
        OBVIOUS
      <4>2. z = [y EXCEPT !.v = session, !.rep = rep]
        BY <2>4, <2>8, <3>4, <4>1
      <4>3. DOMAIN z = ServerFields /\ z.v = session /\ z.mem = mem /\ z.rep = rep
        BY <1>4, <1>11, <4>2 DEF ServerFields
      <4>4. size <= SegmentCapacity /\ size > 0
        <5>1. size > 4 /\ ~(size > SegmentCapacity)
          BY <2>1, <2>8, <3>4, Zenon
        <5> QED
          BY <1>10, <5>1 DEF SdoAssumption
      <4>5. session = [cmd |-> "UploadSegment", obj |-> o, sub |-> s, ca |-> ca, total |-> size,
                       done |-> 0, toggle |-> TRUE, buf |-> padded]
        BY <1>1, <1>2, <1>3, <2>3 DEF Session
      <4>6. IsSession(session)
        BY <1>9, <1>10, <3>3, <4>4, <4>5 DEF IsSession
      <4>7. <<>> = SubSeq(padded, 1, 0) /\ Len(<<>>) = 0
        BY SubSeqEmpty
      <4>8. Uploading(session, t, size, <<>>, found) /\ session.toggle
        BY <3>3, <4>5, <4>7 DEF Uploading, Snapshot
      <4>9. rep.kind = "Upload" /\ rep.data = <<>> /\ rep.size = size /\ rep.data \in Seq(Byte)
        BY <4>1
      <4>10. UploadBegun(t, z, state, found)
        BY <1>10, <4>3, <4>4, <4>8, <4>9 DEF UploadBegun
      <4> QED
        BY <1>4, <1>11, <4>3, <4>6, <4>10 DEF IsServer, ServerFields
    <3>5. ASSUME NEW rep, z = [y EXCEPT !.rep = rep], rep.kind = "Upload",
                 rep.data \in Seq(Byte), rep.size \in Nat, Len(rep.data) = rep.size,
                 Snapshot(t, rep.data, found)
          PROVE  IsServer(z) /\ z.mem = y.mem /\ UploadBegun(t, z, state, found)
      <4>1. DOMAIN z = ServerFields /\ z.v = y.v /\ z.mem = y.mem /\ z.rep = rep
        BY <1>11, <3>5, SetReply
      <4> QED
        BY <1>4, <1>11, <3>5, <4>1 DEF IsServer, ServerFields, UploadBegun
    <3>6. CASE ~segments /\ size \in 1..4
      <4>1. PICK rep : rep = [kind |-> "Upload", size |-> Len(data), data |-> data]
        OBVIOUS
      <4>2. z = [y EXCEPT !.rep = rep]
        BY <2>4, <2>8, <3>6, <4>1
      <4>3. rep.kind = "Upload" /\ rep.data = data /\ rep.size = n
        BY <3>1, <4>1
      <4> QED
        <5>1. rep.data \in Seq(Byte) /\ rep.size \in Nat /\ Len(rep.data) = rep.size
          BY <1>10, <3>1, <4>3
        <5>2. Snapshot(t, rep.data, found)
          BY <3>1, <4>3 DEF Snapshot
        <5> QED
          BY <3>5, <4>2, <4>3, <5>1, <5>2, Zenon
    <3>7. CASE ~segments /\ size \notin 1..4
      <4>1. PICK rep : rep = [kind |-> "Upload", size |-> size, data |-> padded]
        OBVIOUS
      <4>2. z = [y EXCEPT !.rep = rep]
        BY <2>4, <2>8, <3>7, <4>1
      <4>3. rep.kind = "Upload" /\ rep.data = padded /\ rep.size = size
        BY <4>1
      <4> QED
        <5>1. rep.data \in Seq(Byte) /\ rep.size \in Nat /\ Len(rep.data) = rep.size
          BY <1>10, <3>3, <4>3
        <5>2. Snapshot(t, rep.data, found)
          BY <3>3, <4>3 DEF Snapshot
        <5> QED
          BY <3>5, <4>2, <4>3, <5>1, <5>2, Zenon
    <3> QED
      BY <2>5, <3>4, <3>6, <3>7
  <2> QED
    BY <2>5, <2>6, <2>7, <2>8
<1> QED
  BY <1>15, <1>16, <1>17

LEMMA UploadRequest ==
  ASSUME NEW t, t.dir = "up", NEW r, r = FirstRequest(t)
  PROVE  /\ r.kind = "Upload" /\ r.obj = t.to.obj /\ r.sub = t.to.sub /\ r.ca = t.to.ca
         /\ Carried(r) = 0
<1>1. r = [kind |-> "Upload", obj |-> t.to.obj, sub |-> t.to.sub, ca |-> t.to.ca]
  BY DEF FirstRequest
<1>2. r.kind = "Upload" /\ r.obj = t.to.obj /\ r.sub = t.to.sub /\ r.ca = t.to.ca
  BY <1>1
<1> QED
  BY <1>2 DEF Carried

LEMMA DownloadRequest ==
  ASSUME SdoAssumption, ClientAssumption, NEW t \in Transfers, t.dir = "down",
         NEW r, r = FirstRequest(t)
  PROVE  /\ r.kind = "Download" /\ r.obj = t.to.obj /\ r.sub = t.to.sub /\ r.ca = t.to.ca
         /\ r.exp = (Len(TransferData[t]) <= 4) /\ r.size = Len(TransferData[t])
         /\ r.data \in Seq(Byte) /\ Len(r.data) \in 1..Len(TransferData[t])
         /\ r.data = SubSeq(TransferData[t], 1, Len(r.data))
         /\ Len(r.data) = Len(TransferData[t]) => r.data = TransferData[t]
         /\ r.exp => Len(r.data) = Len(TransferData[t])
         /\ ~r.exp => Len(r.data) = (IF Len(TransferData[t]) <= RecvMailbox - 16
                                     THEN Len(TransferData[t]) ELSE RecvMailbox - 16)
         /\ Carried(r) = Len(r.data)
<1>1. PICK d : d = TransferData[t]
  OBVIOUS
<1>2. PICK n : n = Len(d)
  OBVIOUS
<1>3. d \in Seq(Byte) /\ n \in Nat /\ n > 0
  BY <1>1, <1>2, TransferFacts
<1>4. PICK m : m = IF n <= RecvMailbox - 16 THEN n ELSE RecvMailbox - 16
  OBVIOUS
<1>5. RecvMailbox \in Nat /\ RecvMailbox >= 17
  BY DEF ClientAssumption, SdoAssumption
<1>6. Min({n, RecvMailbox - 16}) = m
  BY <1>3, <1>4, <1>5, MinOfTwo
<1>7. PICK k : k = IF n <= 4 THEN n ELSE m
  OBVIOUS
<1>8. k \in 1..n
  BY <1>3, <1>4, <1>5, <1>7
<1>9. PICK p : p = SubSeq(d, 1, k)
  OBVIOUS
<1>10. p \in Seq(Byte) /\ Len(p) = k
  BY <1>2, <1>3, <1>8, <1>9, Portion
<1>11. k = n => p = d
  BY <1>2, <1>3, <1>9, SubSeqFull
<1>12. r = [kind |-> "Download", obj |-> t.to.obj, sub |-> t.to.sub, ca |-> t.to.ca,
            exp |-> n <= 4, size |-> n, data |-> IF n <= 4 THEN d ELSE SubSeq(d, 1, m)]
  BY <1>1, <1>2, <1>6 DEF FirstRequest
<1>13. (IF n <= 4 THEN d ELSE SubSeq(d, 1, m)) = p
  BY <1>7, <1>9, <1>11
<1>14. /\ r.kind = "Download" /\ r.obj = t.to.obj /\ r.sub = t.to.sub /\ r.ca = t.to.ca
       /\ r.exp = (n <= 4) /\ r.size = n /\ r.data = p
  BY <1>12, <1>13
<1>15. Carried(r) = k
  BY <1>10, <1>14 DEF Carried
<1>16. r.data = SubSeq(d, 1, Len(r.data))
  BY <1>9, <1>10, <1>14
<1>17. r.exp => k = n
  BY <1>7, <1>14
<1>18. ~r.exp => k = m
  BY <1>7, <1>14
<1> QED
  BY <1>1, <1>2, <1>4, <1>8, <1>10, <1>11, <1>14, <1>15, <1>16, <1>17, <1>18

\* The server begins a download, or stores it at once.
DownloadBegun(t, state, mem, z, sent) ==
  \/ sent = Len(TransferData[t]) /\ Decided(t, state, mem, z, [kind |-> "Download"])
  \/ z.mem = mem /\ z.rep.kind = "Abort" /\ Explained(t, z.rep.code, state)
  \/ z.mem = mem /\ z.rep.kind = "Download" /\ Downloading(z.v, t, sent) /\ z.v.toggle

LEMMA DownloadEffect ==
  ASSUME SdoAssumption, ClientAssumption,
         NEW t \in Transfers, t.dir = "down", NEW state, NEW y, IsServer(y),
         NEW r, r = FirstRequest(t),
         NEW z, z = HandleInitiate(y, r, state)
  PROVE  IsServer(z) /\ DownloadBegun(t, state, y.mem, z, Carried(r))
<1>1. PICK d : d = TransferData[t]
  OBVIOUS
<1>2. PICK n : n = Len(d)
  OBVIOUS
<1>3. PICK k : k = Len(r.data)
  OBVIOUS
<1>4. PICK part : part = r.data
  OBVIOUS
<1>5. PICK o : o = t.to.obj
  OBVIOUS
<1>6. PICK s : s = t.to.sub
  OBVIOUS
<1>7. PICK ca : ca = t.to.ca
  OBVIOUS
<1>8. /\ r.kind = "Download" /\ r.obj = o /\ r.sub = s /\ r.ca = ca
      /\ r.exp = (n <= 4) /\ r.size = n /\ r.data = part
      /\ part \in Seq(Byte) /\ Len(part) = k /\ k \in 1..n /\ part = SubSeq(d, 1, k)
      /\ k = n => part = d
      /\ r.exp => k = n
      /\ ~r.exp => k = (IF n <= RecvMailbox - 16 THEN n ELSE RecvMailbox - 16)
      /\ Carried(r) = k
  BY <1>1, <1>2, <1>3, <1>4, <1>5, <1>6, <1>7, DownloadRequest
<1>9. n \in Nat /\ k \in Nat /\ k <= n /\ o \in Objects /\ s \in Nat /\ ca \in BOOLEAN
  BY <1>1, <1>2, <1>5, <1>6, <1>7, <1>8, TransferFacts, TargetFacts
<1>10. DOMAIN y = ServerFields /\ IsSession(y.v) /\ IsMemory(y.mem)
  BY DEF IsServer, ServerFields
<1>11. RecvMailbox \in Nat /\ MaxMailbox \in Nat /\ SegmentCapacity \in Nat
  BY DEF ClientAssumption, SdoAssumption
<1>12. ASSUME NEW code, z = Refuse(y, code), Explained(t, code, state)
       PROVE  IsServer(z) /\ DownloadBegun(t, state, y.mem, z, Carried(r))
  <2>1. /\ DOMAIN z = ServerFields /\ z.v = y.v /\ z.mem = y.mem
        /\ z.rep.kind = "Abort" /\ z.rep.code = code
    BY <1>10, <1>12, RefuseEffect
  <2> QED
    BY <1>10, <1>12, <2>1 DEF IsServer, ServerFields, DownloadBegun
<1>13. ASSUME k = n, z = Store(y, r, part, state, [kind |-> "Download"])
       PROVE  IsServer(z) /\ DownloadBegun(t, state, y.mem, z, Carried(r))
  <2>1. part = TransferData[t]
    BY <1>1, <1>8, <1>13
  <2>2. /\ DOMAIN z = ServerFields /\ z.v = y.v
        /\ Decided(t, state, y.mem, z, [kind |-> "Download"])
    <3>1. PICK reply : reply = [kind |-> "Download"]
      OBVIOUS
    <3>2. r.obj = t.to.obj /\ r.sub = t.to.sub /\ r.ca = t.to.ca
      BY <1>5, <1>6, <1>7, <1>8
    <3>3. z = Store(y, r, part, state, reply)
      BY <1>13, <3>1
    <3>4. DOMAIN z = ServerFields /\ z.v = y.v /\ Decided(t, state, y.mem, z, reply)
      BY <1>10, <2>1, <3>2, <3>3, StoreEffect
    <3> QED
      BY <3>1, <3>4
  <2>3. IsMemory(z.mem)
    BY <2>2 DEF Decided, Wrote
  <2>4. Carried(r) = Len(TransferData[t])
    BY <1>1, <1>2, <1>8, <1>13
  <2> QED
    BY <1>10, <2>2, <2>3, <2>4 DEF IsServer, ServerFields, DownloadBegun
<1>14. CASE ca /\ s > 1
  <2>1. z = Refuse(y, "UnsupportedAccess")
    BY <1>8, <1>14 DEF HandleInitiate
  <2>2. Explained(t, "UnsupportedAccess", state)
    BY <1>6, <1>7, <1>14 DEF Explained, Deserved
  <2> QED
    BY <1>12, <2>1, <2>2
<1>15. CASE ~(ca /\ s > 1) /\ ~Dictionary[o].variable /\ ~HasEntry(o, s)
  <2>1. z = Refuse(y, "SubIndexNotExisting")
    BY <1>8, <1>15 DEF HandleInitiate
  <2>2. Explained(t, "SubIndexNotExisting", state)
    BY <1>5, <1>6, <1>15 DEF Explained, Deserved
  <2> QED
    BY <1>12, <2>1, <2>2
<1>16. CASE ~(ca /\ s > 1) /\ ~(~Dictionary[o].variable /\ ~HasEntry(o, s))
  <2>1. z = BuildDownload(y, r, state)
    BY <1>8, <1>16 DEF HandleInitiate
  <2>2. CASE n <= 4
    <3>1. z = Store(y, r, part, state, [kind |-> "Download"])
      BY <1>8, <2>1, <2>2 DEF BuildDownload
    <3> QED
      BY <1>8, <1>13, <2>2, <3>1
  <2>3. CASE ~(n <= 4)
    <3>1. PICK session : session = Session("DownloadSegment", r, n, k, part)
      OBVIOUS
    <3>2. PICK fits : fits = IF 16 + n > MaxMailbox THEN 16 + k = MaxMailbox ELSE k = n
      OBVIOUS
    <3>3. fits \in BOOLEAN
      BY <3>2
    <3>4. z = IF ~fits THEN Refuse(y, IF 16 + n > MaxMailbox THEN "TooLong" ELSE "TooShort")
              ELSE IF n <= k THEN Store(y, r, part, state, [kind |-> "Download"])
              ELSE IF n > SegmentCapacity THEN Refuse(y, "NoMoreMemory")
              ELSE [y EXCEPT !.v = session, !.rep = [kind |-> "Download"]]
      BY <1>8, <2>1, <2>3, <3>1, <3>2 DEF BuildDownload
    <3>5. CASE ~fits
      <4>1. PICK code : code = IF 16 + n > MaxMailbox THEN "TooLong" ELSE "TooShort"
        OBVIOUS
      <4>2. z = Refuse(y, code)
        BY <3>4, <3>5, <4>1
      <4>3. k = (IF n <= RecvMailbox - 16 THEN n ELSE RecvMailbox - 16)
        BY <1>8, <2>3, Zenon
      <4>4. ~(IF 16 + n > MaxMailbox THEN 16 + k = MaxMailbox ELSE k = n)
        BY <3>2, <3>5, Zenon
      <4>5. RecvMailbox <= MaxMailbox
        BY DEF ClientAssumption
      <4>6. RecvMailbox < MaxMailbox /\ n > RecvMailbox - 16 /\ n > 4
        BY <1>9, <1>11, <2>3, <4>3, <4>4, <4>5
      <4>7. ServerAtFault(t, code)
        BY <1>1, <1>2, <4>1, <4>6 DEF ServerAtFault
      <4> QED
        BY <1>12, <4>2, <4>7 DEF Explained
    <3>6. CASE fits /\ n <= k
      <4>1. z = Store(y, r, part, state, [kind |-> "Download"])
        BY <3>4, <3>6
      <4> QED
        BY <1>9, <1>13, <3>6, <4>1
    <3>7. CASE fits /\ ~(n <= k) /\ n > SegmentCapacity
      <4>1. z = Refuse(y, "NoMoreMemory")
        BY <3>4, <3>7
      <4>2. Explained(t, "NoMoreMemory", state)
        BY <1>1, <1>2, <3>7 DEF Explained, Deserved
      <4> QED
        BY <1>12, <4>1, <4>2
    <3>8. CASE fits /\ ~(n <= k) /\ ~(n > SegmentCapacity)
      <4>1. z = [y EXCEPT !.v = session, !.rep = [kind |-> "Download"]]
        BY <3>4, <3>8
      <4>2. DOMAIN z = ServerFields /\ z.v = session /\ z.mem = y.mem /\ z.rep = [kind |-> "Download"]
        BY <1>10, <4>1 DEF ServerFields
      <4>3. session = [cmd |-> "DownloadSegment", obj |-> o, sub |-> s, ca |-> ca, total |-> n,
                       done |-> k, toggle |-> TRUE, buf |-> part]
        BY <1>8, <3>1 DEF Session
      <4>4. k < n /\ n <= SegmentCapacity
        BY <1>9, <1>11, <3>8
      <4>5. IsSession(session)
        BY <1>8, <1>9, <4>3, <4>4 DEF IsSession
      <4>6. Downloading(session, t, k) /\ session.toggle
        BY <1>1, <1>2, <1>5, <1>6, <1>7, <1>8, <4>3, <4>4 DEF Downloading
      <4>7. z.rep.kind = "Download"
        BY <4>2
      <4> QED
        BY <1>8, <1>10, <4>2, <4>5, <4>6, <4>7 DEF IsServer, ServerFields, DownloadBegun
    <3> QED
      BY <3>3, <3>5, <3>6, <3>7, <3>8
  <2> QED
    BY <2>2, <2>3
<1> QED
  BY <1>14, <1>15, <1>16

-------------------------------------------------------------------------------
(* Segments. *)

LEMMA NextPortion ==
  ASSUME NEW S, NEW s \in Seq(S), NEW n \in Nat, NEW m \in Nat, n + m <= Len(s)
  PROVE  /\ SubSeq(s, 1, n) \o SubSeq(s, n + 1, n + m) = SubSeq(s, 1, n + m)
         /\ SubSeq(s, 1, n + m) \in Seq(S) /\ Len(SubSeq(s, 1, n + m)) = n + m
<1>1. Len(s) \in Nat
  BY LenProperties
<1>2. PICK to \in Nat : to = n + m
  OBVIOUS
<1>3. 1 \in 1..Len(s) + 1 /\ n \in (1 - 1)..Len(s) /\ to \in n..Len(s)
  BY <1>1, <1>2
<1>4. SubSeq(s, 1, n) \o SubSeq(s, n + 1, to) = SubSeq(s, 1, to)
  BY <1>3, ConcatAdjacentSubSeq
<1>5. SubSeq(s, 1, to) \in Seq(S) /\ Len(SubSeq(s, 1, to)) = to
  <2>1. 0 \in Nat /\ 0 + to <= Len(s)
    BY <1>1, <1>3
  <2>2. SubSeq(s, 0 + 1, 0 + to) \in Seq(S) /\ Len(SubSeq(s, 0 + 1, 0 + to)) = to
    BY <2>1, Portion
  <2>3. 0 + 1 = 1 /\ 0 + to = to
    OBVIOUS
  <2> QED
    BY <2>2, <2>3
<1> QED
  BY <1>2, <1>4, <1>5

\* The server sends a segment.
UpSegmentSent(z, t, toggle, size, got, found) ==
  /\ z.rep.kind = "UploadSegment" /\ z.rep.data \in Seq(Byte)
  /\ \/ /\ ~z.rep.last /\ Len(got \o z.rep.data) <= size
        /\ Uploading(z.v, t, size, got \o z.rep.data, found) /\ z.v.toggle = toggle
     \/ /\ z.rep.last /\ z.v = NoSession
        /\ Len(got \o z.rep.data) = size /\ Snapshot(t, got \o z.rep.data, found)

LEMMA UpSegmentEffect ==
  ASSUME SdoAssumption, NEW y, IsServer(y), NEW t, NEW size, NEW got, NEW found,
         Uploading(y.v, t, size, got, found),
         NEW r, r.kind = "UploadSegment", r.toggle # y.v.toggle, r.toggle \in BOOLEAN,
         NEW z, z = HandleUploadSegment(y, r)
  PROVE  /\ IsServer(z) /\ z.mem = y.mem
         /\ UpSegmentSent(z, t, r.toggle, size, got, found)
<1>1. PICK v : v = y.v
  OBVIOUS
<1>2. PICK buf : buf = v.buf
  OBVIOUS
<1>3. PICK done : done = v.done
  OBVIOUS
<1>4. /\ IsSession(v) /\ DOMAIN y = ServerFields
      /\ v.cmd = "UploadSegment" /\ v.total = size /\ done = Len(got)
      /\ got = SubSeq(buf, 1, done) /\ Snapshot(t, buf, found)
  BY <1>1, <1>2, <1>3 DEF IsServer, ServerFields, Uploading
<1>5. buf \in Seq(Byte) /\ Len(buf) = size /\ done \in Nat /\ done <= size /\ size <= SegmentCapacity
      /\ size \in Nat
  BY <1>2, <1>3, <1>4 DEF IsSession
<1>6. PICK last : last = (size - done < ChunkCapacity)
  OBVIOUS
<1>7. ChunkCapacity \in Nat /\ ChunkCapacity > 0
  BY DEF ChunkCapacity, SdoAssumption
<1>8. last \in BOOLEAN
  BY <1>6
<1>9. PICK n : n = IF last THEN size - done ELSE ChunkCapacity
  OBVIOUS
<1>10. n \in Nat /\ done + n <= size /\ (last => done + n = size)
  <2>1. CASE last
    BY <1>5, <1>9, <2>1
  <2>2. CASE ~last
    <3>1. ~(size - done < ChunkCapacity)
      BY <1>6, <2>2, Zenon
    <3> QED
      BY <1>5, <1>7, <1>9, <2>2, <3>1
  <2> QED
    BY <1>8, <2>1, <2>2
<1>11. PICK data : data = SubSeq(buf, done + 1, done + n)
  OBVIOUS
<1>12. /\ data \in Seq(Byte) /\ got \o data = SubSeq(buf, 1, done + n)
       /\ Len(got \o data) = done + n
  <2>1. done + n <= Len(buf)
    BY <1>5, <1>10
  <2>2. SubSeq(buf, done + 1, done + n) \in Seq(Byte)
    BY <1>5, <1>10, <2>1, Portion
  <2>3. /\ SubSeq(buf, 1, done) \o SubSeq(buf, done + 1, done + n) = SubSeq(buf, 1, done + n)
        /\ Len(SubSeq(buf, 1, done + n)) = done + n
    BY <1>5, <1>10, <2>1, NextPortion
  <2> QED
    BY <1>4, <1>11, <2>2, <2>3
<1>13. PICK rep : rep = [kind |-> "UploadSegment", toggle |-> r.toggle, last |-> last, data |-> data]
  OBVIOUS
<1>14. rep.kind = "UploadSegment" /\ rep.last = last /\ rep.data = data
  BY <1>13
<1>15. z = IF last THEN EndSession([y EXCEPT !.rep = rep])
           ELSE [y EXCEPT !.v.toggle = r.toggle, !.v.done = @ + n, !.rep = rep]
  BY <1>1, <1>2, <1>3, <1>4, <1>6, <1>9, <1>11, <1>13 DEF HandleUploadSegment
<1>16. CASE last
  <2>1. PICK w : w = [y EXCEPT !.rep = rep]
    OBVIOUS
  <2>2. DOMAIN w = ServerFields /\ w.mem = y.mem /\ w.rep = rep
    BY <1>4, <2>1, SetReply
  <2>3. z = EndSession(w)
    BY <1>15, <1>16, <2>1
  <2>4. DOMAIN z = ServerFields /\ z.v = NoSession /\ z.mem = w.mem /\ z.rep = w.rep
    BY <2>2, <2>3, EndSessionEffect
  <2>5. got \o data = buf
    BY <1>5, <1>10, <1>12, <1>16, SubSeqFull
  <2>6. IsServer(z) /\ z.mem = y.mem
    BY <2>2, <2>4, NoSessionIsSession DEF IsServer, ServerFields
  <2> QED
    BY <1>4, <1>10, <1>12, <1>14, <1>16, <2>2, <2>4, <2>5, <2>6 DEF UpSegmentSent
<1>17. CASE ~last
  <2>1. z = [y EXCEPT !.v.toggle = r.toggle, !.v.done = @ + n, !.rep = rep]
    BY <1>15, <1>17
  <2>2. PICK w : w = [v EXCEPT !.toggle = r.toggle, !.done = @ + n]
    OBVIOUS
  <2>3. DOMAIN z = ServerFields /\ z.v = w /\ z.mem = y.mem /\ z.rep = rep
    BY <1>1, <1>4, <2>1, <2>2 DEF ServerFields
  <2>4. /\ w.cmd = v.cmd /\ w.obj = v.obj /\ w.sub = v.sub /\ w.ca = v.ca /\ w.total = v.total
        /\ w.done = done + n /\ w.toggle = r.toggle /\ w.buf = buf
        /\ w \in [cmd : {"DownloadSegment", "UploadSegment"}, obj : Objects \cup {NoObject}, sub : Nat,
                  ca : BOOLEAN, total : Nat, done : Nat, toggle : BOOLEAN, buf : Seq(Byte)]
    <3>1. v \in [cmd : {"DownloadSegment", "UploadSegment"}, obj : Objects \cup {NoObject}, sub : Nat,
                  ca : BOOLEAN, total : Nat, done : Nat, toggle : BOOLEAN, buf : Seq(Byte)]
      BY <1>4 DEF IsSession
    <3>2. PICK to : to = done + n
      OBVIOUS
    <3>3. to \in Nat
      BY <1>5, <1>10, <3>2
    <3>4. w = [v EXCEPT !.toggle = r.toggle, !.done = to]
      BY <1>3, <2>2, <3>2
    <3>5. w \in [cmd : {"DownloadSegment", "UploadSegment"}, obj : Objects \cup {NoObject}, sub : Nat,
                  ca : BOOLEAN, total : Nat, done : Nat, toggle : BOOLEAN, buf : Seq(Byte)]
      BY <3>1, <3>3, <3>4
    <3>6. /\ w.cmd = v.cmd /\ w.obj = v.obj /\ w.sub = v.sub /\ w.ca = v.ca /\ w.total = v.total
          /\ w.done = to /\ w.toggle = r.toggle /\ w.buf = v.buf
      BY <3>1, <3>4
    <3> QED
      BY <1>2, <3>2, <3>5, <3>6
  <2>5. IsSession(w)
    BY <1>4, <1>5, <1>10, <2>4 DEF IsSession
  <2>6. Uploading(w, t, size, got \o data, found)
    BY <1>4, <1>12, <2>4 DEF Uploading
  <2> QED
    BY <1>10, <1>12, <1>14, <1>17, <2>3, <2>4, <2>5, <2>6 DEF IsServer, ServerFields, UpSegmentSent
<1> QED
  BY <1>8, <1>16, <1>17

LEMMA SegmentBytes ==
  ASSUME NEW data \in Seq(Byte), NEW from \in Nat, NEW to \in Nat, NEW r, SegmentOf(r, data, from, to),
         NEW v, v.total = Len(data), v.done = from
  PROVE  /\ CopySize(v, r) = to - from
         /\ SubSeq(r.data, 1, to - from) = SubSeq(data, from + 1, to)
         /\ r.last = (to = Len(data))
         /\ to # Len(data) => Len(r.data) = to - from
         /\ from < to /\ to <= Len(data)
<1>1. PICK n : n = Len(data)
  OBVIOUS
<1>2. PICK m : m = to - from
  OBVIOUS
<1>3. PICK bytes : bytes = r.data
  OBVIOUS
<1>4. /\ n \in Nat /\ from < to /\ to <= n
      /\ m < 7 => to = n
      /\ r.last = (to = n)
      /\ r.unused = (IF m < 7 THEN 7 - m ELSE 0)
      /\ bytes = PadTo(SubSeq(data, from + 1, to), 7)
  BY <1>1, <1>2, <1>3, LenProperties DEF SegmentOf, MinSegmentedData
<1>5. m \in Nat /\ to = from + m /\ m > 0
  BY <1>2, <1>4
<1>6. PICK p : p = SubSeq(data, from + 1, to)
  OBVIOUS
<1>7. p \in Seq(Byte) /\ Len(p) = m
  BY <1>1, <1>4, <1>5, <1>6, Portion
<1>8. Len(bytes) = (IF 7 <= m THEN m ELSE 7) /\ SubSeq(bytes, 1, m) = p
  <2>1. Stale \in Byte /\ 7 \in Nat
    BY DEF Byte
  <2>2. PICK k \in Nat : k = 7
    OBVIOUS
  <2>3. /\ Len(PadTo(p, k)) = (IF k <= Len(p) THEN Len(p) ELSE k)
        /\ SubSeq(PadTo(p, k), 1, Len(p)) = p
    BY <1>7, <2>1, PadToFacts
  <2> QED
    BY <1>4, <1>6, <1>7, <2>2, <2>3
<1>9. CopySize(v, r) = IF r.last /\ n - from <= 7 THEN Min({7 - r.unused, Len(bytes)}) ELSE Len(bytes)
  BY <1>1, <1>3 DEF CopySize, MinSegmentedData
<1>10. CASE to = n /\ n - from <= 7
  <2>1. 7 - r.unused = m /\ Len(bytes) = 7 /\ m <= 7
    <3>1. PICK u : u = r.unused
      OBVIOUS
    <3>2. u = (IF m < 7 THEN 7 - m ELSE 0)
      BY <1>4, <3>1, Zenon
    <3>3. m <= 7
      BY <1>2, <1>5, <1>10
    <3>4. 7 - u = m
      BY <1>5, <3>2, <3>3
    <3> QED
      BY <1>5, <1>8, <3>1, <3>3, <3>4
  <2>2. Min({m, 7}) = m
    BY <1>5, <2>1, MinOfTwo
  <2>3. CopySize(v, r) = m
    BY <1>4, <1>9, <1>10, <2>1, <2>2
  <2> QED
    BY <1>1, <1>2, <1>3, <1>4, <1>6, <1>8, <1>10, <2>3
<1>11. CASE ~(to = n /\ n - from <= 7)
  <2>1. Len(bytes) = m
    BY <1>4, <1>5, <1>8, <1>11
  <2>2. CopySize(v, r) = m
    BY <1>4, <1>9, <1>11, <2>1
  <2> QED
    BY <1>1, <1>2, <1>3, <1>4, <1>6, <1>8, <2>1, <2>2
<1> QED
  BY <1>10, <1>11

\* The server takes a segment, or stores the data with the last one.
DownSegmentTaken(t, state, mem, z, reply, to) ==
  \/ z.mem = mem /\ z.rep = reply /\ Downloading(z.v, t, to) /\ z.v.toggle = reply.toggle
  \/ to = Len(TransferData[t]) /\ z.v = NoSession /\ Decided(t, state, mem, z, reply)

LEMMA DownSegmentEffect ==
  ASSUME SdoAssumption, ClientAssumption, NEW t \in Transfers, t.dir = "down", NEW state,
         NEW y, IsServer(y), NEW from \in Nat, NEW to \in Nat, Downloading(y.v, t, from),
         NEW r, SegmentOf(r, TransferData[t], from, to), r.toggle # y.v.toggle, r.toggle \in BOOLEAN,
         NEW z, z = HandleDownloadSegment(y, r, state)
  PROVE  IsServer(z) /\ DownSegmentTaken(t, state, y.mem, z, SegmentStored(r), to)
<1>1. PICK v : v = y.v
  OBVIOUS
<1>2. PICK d : d = TransferData[t]
  OBVIOUS
<1>3. PICK total : total = Len(d)
  OBVIOUS
<1>4. PICK n : n = to - from
  OBVIOUS
<1>5. /\ IsSession(v) /\ DOMAIN y = ServerFields /\ IsMemory(y.mem)
      /\ v.cmd = "DownloadSegment" /\ v.obj = t.to.obj /\ v.sub = t.to.sub /\ v.ca = t.to.ca
      /\ v.total = total /\ v.done = from /\ v.buf = SubSeq(d, 1, from)
  BY <1>1, <1>2, <1>3 DEF IsServer, ServerFields, Downloading
<1>6. d \in Seq(Byte) /\ total \in Nat
  BY <1>2, <1>3, TransferFacts
<1>7. /\ CopySize(v, r) = n /\ SubSeq(r.data, 1, n) = SubSeq(d, from + 1, to)
      /\ r.last = (to = total)
      /\ to # total => Len(r.data) = n
      /\ from < to /\ to <= total
  BY <1>2, <1>3, <1>4, <1>5, <1>6, SegmentBytes
<1>8. n \in Nat /\ from + n = to
  BY <1>4, <1>7
<1>9. total <= SegmentCapacity /\ SegmentCapacity \in Nat
  BY <1>5 DEF IsSession, SdoAssumption
<1>10. PICK buf : buf = SubSeq(d, 1, to)
  OBVIOUS
<1>11. v.buf \o SubSeq(r.data, 1, n) = buf /\ buf \in Seq(Byte) /\ Len(buf) = to
  <2>1. from + n <= Len(d)
    BY <1>3, <1>7, <1>8
  <2>2. /\ SubSeq(d, 1, from) \o SubSeq(d, from + 1, from + n) = SubSeq(d, 1, from + n)
        /\ SubSeq(d, 1, from + n) \in Seq(Byte) /\ Len(SubSeq(d, 1, from + n)) = from + n
    BY <1>6, <1>8, <2>1, NextPortion
  <2> QED
    BY <1>5, <1>7, <1>8, <1>10, <2>2
<1>12. PICK took : took = [y EXCEPT !.v.toggle = r.toggle, !.v.done = @ + n,
                                    !.v.buf = @ \o SubSeq(r.data, 1, n)]
  OBVIOUS
<1>13. PICK w : w = [v EXCEPT !.toggle = r.toggle, !.done = to, !.buf = buf]
  OBVIOUS
<1>14. DOMAIN took = ServerFields /\ took.v = w /\ took.mem = y.mem /\ took.rep = y.rep
  <2>1. v.done + n = to
    BY <1>5, <1>8
  <2>2. took = [y EXCEPT !.v = [v EXCEPT !.toggle = r.toggle, !.done = v.done + n,
                                         !.buf = v.buf \o SubSeq(r.data, 1, n)]]
    BY <1>1, <1>5, <1>12 DEF IsSession, ServerFields
  <2>3. took = [y EXCEPT !.v = w]
    BY <1>11, <1>13, <2>1, <2>2
  <2> QED
    BY <1>5, <2>3 DEF ServerFields
<1>15. /\ w \in [cmd : {"DownloadSegment", "UploadSegment"}, obj : Objects \cup {NoObject}, sub : Nat,
                 ca : BOOLEAN, total : Nat, done : Nat, toggle : BOOLEAN, buf : Seq(Byte)]
       /\ w.cmd = v.cmd /\ w.obj = v.obj /\ w.sub = v.sub /\ w.ca = v.ca /\ w.total = v.total
       /\ w.done = to /\ w.toggle = r.toggle /\ w.buf = buf
  <2>1. v \in [cmd : {"DownloadSegment", "UploadSegment"}, obj : Objects \cup {NoObject}, sub : Nat,
               ca : BOOLEAN, total : Nat, done : Nat, toggle : BOOLEAN, buf : Seq(Byte)]
    BY <1>5 DEF IsSession
  <2> QED
    BY <1>11, <1>13, <2>1
<1>16. PICK reply : reply = SegmentStored(r)
  OBVIOUS
<1>17. reply.toggle = r.toggle
  BY <1>16 DEF SegmentStored
<1>18. z = IF to # total THEN [took EXCEPT !.rep = reply]
           ELSE EndSession(Store(took, v, buf, state, reply))
  <2>1. z = IF r.toggle = v.toggle THEN Refuse(y, "ToggleNotChanged")
            ELSE IF ~r.last /\ v.total - v.done <= Len(r.data) THEN Refuse(EndSession(y), "TooLong")
            ELSE IF v.done + n > SegmentCapacity THEN Refuse(EndSession(y), "NoMoreMemory")
            ELSE IF ~r.last THEN [took EXCEPT !.rep = reply]
            ELSE IF v.done + n # v.total THEN Refuse(EndSession(y), "TooShort")
            ELSE EndSession(Store(took, v, took.v.buf, state, reply))
    BY <1>1, <1>7, <1>12, <1>16 DEF HandleDownloadSegment
  <2>2. r.toggle # v.toggle /\ took.v.buf = buf
    BY <1>1, <1>14, <1>15
  <2>3. ~(v.done + n > SegmentCapacity)
    <3>1. v.done + n = to
      BY <1>5, <1>8
    <3>2. ~(to > SegmentCapacity)
      BY <1>6, <1>7, <1>9
    <3> QED
      BY <3>1, <3>2
  <2>4. CASE to = total
    <3>1. r.last /\ ~(v.done + n # v.total)
      BY <1>5, <1>7, <1>8, <2>4
    <3> QED
      BY <2>1, <2>2, <2>3, <2>4, <3>1
  <2>5. CASE to # total
    <3>1. ~r.last /\ Len(r.data) = n
      BY <1>7, <2>5
    <3>2. ~(v.total - v.done <= n)
      BY <1>5, <1>6, <1>7, <1>8, <2>5
    <3> QED
      BY <2>1, <2>2, <2>3, <2>5, <3>1, <3>2
  <2> QED
    BY <2>4, <2>5
<1>19. CASE to # total
  <2>1. DOMAIN z = ServerFields /\ z.v = w /\ z.mem = y.mem /\ z.rep = reply
    <3>1. z = [took EXCEPT !.rep = reply]
      BY <1>18, <1>19
    <3> QED
      BY <1>14, <3>1, SetReply
  <2>2. to < total
    BY <1>6, <1>7, <1>19
  <2>3. IsSession(w)
    BY <1>5, <1>9, <1>11, <1>15, <2>2 DEF IsSession
  <2>4. Downloading(w, t, to) /\ w.toggle = reply.toggle
    BY <1>2, <1>3, <1>5, <1>10, <1>15, <1>17, <2>2 DEF Downloading
  <2> QED
    BY <1>5, <1>16, <2>1, <2>3, <2>4 DEF IsServer, ServerFields, DownSegmentTaken
<1>20. CASE to = total
  <2>1. PICK s : s = Store(took, v, buf, state, reply)
    OBVIOUS
  <2>2. z = EndSession(s)
    BY <1>18, <1>20, <2>1
  <2>3. buf = TransferData[t]
    BY <1>2, <1>3, <1>6, <1>10, <1>20, SubSeqFull
  <2>4. DOMAIN s = ServerFields /\ Decided(t, state, took.mem, s, reply)
    <3>1. DOMAIN took = ServerFields /\ IsMemory(took.mem)
      BY <1>5, <1>14
    <3>2. v.obj = t.to.obj /\ v.sub = t.to.sub /\ v.ca = t.to.ca
      BY <1>5
    <3> QED
      BY <2>1, <2>3, <3>1, <3>2, StoreEffect
  <2>5. DOMAIN z = ServerFields /\ z.v = NoSession /\ z.mem = s.mem /\ z.rep = s.rep
    BY <2>2, <2>4, EndSessionEffect
  <2>6. Decided(t, state, y.mem, z, reply)
    BY <1>14, <2>4, <2>5 DEF Decided
  <2>7. IsMemory(z.mem)
    BY <2>6 DEF Decided, Wrote
  <2> QED
    BY <1>2, <1>3, <1>16, <1>20, <2>5, <2>6, <2>7, NoSessionIsSession
       DEF IsServer, ServerFields, DownSegmentTaken
<1> QED
  BY <1>19, <1>20

\* Nothing is written for a segment of another session, or for one that was
\* served before.
LEMMA StrayEffect ==
  ASSUME NEW y, IsServer(y), NEW r, r.kind \notin {"Upload", "Download"}, r.kind # y.v.cmd,
         NEW state, NEW z, z = Handle(y, r, state)
  PROVE  /\ IsServer(z) /\ z.v = y.v /\ z.mem = y.mem
         /\ z.rep.kind = "Abort"
<1>1. z = Refuse(y, "GeneralError")
  BY DEF Handle
<1>2. DOMAIN y = ServerFields
  BY DEF IsServer, ServerFields
<1>3. DOMAIN z = ServerFields /\ z.v = y.v /\ z.mem = y.mem /\ z.rep.kind = "Abort"
  BY <1>1, <1>2, RefuseEffect
<1> QED
  BY <1>3 DEF IsServer, ServerFields

LEMMA RefusedInSession ==
  ASSUME SdoAssumption, NEW y, IsServer(y), NEW code,
         NEW z, z = Refuse(y, code) \/ z = Refuse(EndSession(y), code)
  PROVE  /\ IsServer(z) /\ z.mem = y.mem /\ z.rep.kind = "Abort"
         /\ z.v = y.v \/ z.v = NoSession
<1>1. DOMAIN y = ServerFields /\ IsSession(y.v) /\ IsMemory(y.mem)
  BY DEF IsServer, ServerFields
<1>2. CASE z = Refuse(y, code)
  <2>1. DOMAIN z = ServerFields /\ z.v = y.v /\ z.mem = y.mem /\ z.rep.kind = "Abort"
    BY <1>1, <1>2, RefuseEffect
  <2> QED
    BY <1>1, <2>1 DEF IsServer, ServerFields
<1>3. CASE z = Refuse(EndSession(y), code)
  <2>1. PICK w : w = EndSession(y)
    OBVIOUS
  <2>2. DOMAIN w = ServerFields /\ w.v = NoSession /\ w.mem = y.mem
    BY <1>1, <2>1, EndSessionEffect
  <2>3. z = Refuse(w, code)
    BY <1>3, <2>1
  <2>4. DOMAIN z = ServerFields /\ z.v = w.v /\ z.mem = w.mem /\ z.rep.kind = "Abort"
    BY <2>2, <2>3, RefuseEffect
  <2> QED
    BY <1>1, <2>2, <2>4, NoSessionIsSession DEF IsServer, ServerFields
<1> QED
  BY <1>2, <1>3

LEMMA BehindEffect ==
  ASSUME SdoAssumption, NEW y, IsServer(y), NEW r, r.kind \in {"UploadSegment", "DownloadSegment"},
         r.kind = "DownloadSegment" => r.data \in Seq(Byte) /\ r.last \in BOOLEAN,
         Behind(y.v, r.kind, r.toggle),
         NEW state, NEW z, z = Handle(y, r, state)
  PROVE  /\ IsServer(z) /\ z.mem = y.mem
         /\ z.rep.kind = "Abort" /\ Behind(z.v, r.kind, r.toggle)
<1>1. PICK v : v = y.v
  OBVIOUS
<1>2. CASE v.cmd = r.kind /\ v.toggle = r.toggle
  <2>1. z = Refuse(y, "ToggleNotChanged")
    BY <1>1, <1>2 DEF Handle, HandleDownloadSegment, HandleUploadSegment
  <2>2. DOMAIN y = ServerFields
    BY DEF IsServer, ServerFields
  <2>3. DOMAIN z = ServerFields /\ z.v = y.v /\ z.mem = y.mem /\ z.rep.kind = "Abort"
    BY <2>1, <2>2, RefuseEffect
  <2> QED
    BY <1>1, <1>2, <2>3 DEF IsServer, ServerFields, Behind
<1>3. CASE v = NoSession /\ r.kind = "UploadSegment"
  <2>1. r.kind # y.v.cmd
    BY <1>1, <1>3 DEF NoSession
  <2>2. IsServer(z) /\ z.v = y.v /\ z.mem = y.mem /\ z.rep.kind = "Abort"
    BY <1>3, <2>1, StrayEffect
  <2> QED
    BY <1>1, <1>3, <2>2 DEF Behind
<1>4. CASE v = NoSession /\ r.kind = "DownloadSegment" /\ r.toggle # v.toggle
  <2>1. /\ v.cmd = "DownloadSegment" /\ v.total = 0 /\ v.done = 0 /\ v.obj = NoObject
        /\ v.buf = <<>>
    BY <1>4 DEF NoSession
  <2>2. z = HandleDownloadSegment(y, r, state)
    BY <1>1, <1>4, <2>1 DEF Handle
  <2>3. PICK n : n = CopySize(v, r)
    OBVIOUS
  <2>4. PICK took : took = [y EXCEPT !.v.toggle = r.toggle, !.v.done = @ + n,
                                     !.v.buf = @ \o SubSeq(r.data, 1, n)]
    OBVIOUS
  <2>5. PICK reply : reply = SegmentStored(r)
    OBVIOUS
  <2>6. PICK s : s = Store(took, v, took.v.buf, state, reply)
    OBVIOUS
  <2>7. z = IF ~r.last /\ v.total - v.done <= Len(r.data) THEN Refuse(EndSession(y), "TooLong")
            ELSE IF v.done + n > SegmentCapacity THEN Refuse(EndSession(y), "NoMoreMemory")
            ELSE IF ~r.last THEN [took EXCEPT !.rep = reply]
            ELSE IF v.done + n # v.total THEN Refuse(EndSession(y), "TooShort")
            ELSE EndSession(s)
    BY <1>1, <1>4, <2>2, <2>3, <2>4, <2>5, <2>6 DEF HandleDownloadSegment
  <2>8. v.total - v.done <= Len(r.data)
    <3>1. Len(r.data) \in Nat
      BY <1>4, LenProperties
    <3> QED
      BY <2>1, <3>1
  <2>9. \/ \E code : z = Refuse(EndSession(y), code)
        \/ z = EndSession(s)
    BY <2>7, <2>8
  <2>10. ASSUME NEW code, z = Refuse(EndSession(y), code)
         PROVE  IsServer(z) /\ z.mem = y.mem /\ z.rep.kind = "Abort" /\ (z.v = y.v \/ z.v = NoSession)
    BY <2>10, RefusedInSession
  <2>11. ASSUME z = EndSession(s)
         PROVE  IsServer(z) /\ z.mem = y.mem /\ z.rep.kind = "Abort" /\ z.v = NoSession
    <3>1. s = Refuse(took, "NonexistentObject")
      <4>1. s = IF WriteRefusal(v.obj, v.sub, v.ca, Len(took.v.buf), state) = "ok"
                THEN [Write(took, v.obj, v.sub, v.ca, took.v.buf, state) EXCEPT !.rep = reply]
                ELSE Refuse(Write(took, v.obj, v.sub, v.ca, took.v.buf, state),
                            WriteRefusal(v.obj, v.sub, v.ca, Len(took.v.buf), state))
        BY <2>6 DEF Store
      <4>2. WriteRefusal(v.obj, v.sub, v.ca, Len(took.v.buf), state) = "NonexistentObject"
        BY <2>1 DEF WriteRefusal
      <4>3. Write(took, v.obj, v.sub, v.ca, took.v.buf, state) = took
        BY <2>1 DEF Write
      <4> QED
        BY <4>1, <4>2, <4>3
    <3>2. DOMAIN y = ServerFields /\ IsMemory(y.mem)
      BY DEF IsServer, ServerFields
    <3>3. DOMAIN took = ServerFields /\ took.mem = y.mem
      <4>1. PICK w : w = [y.v EXCEPT !.toggle = r.toggle, !.done = @ + n,
                                     !.buf = @ \o SubSeq(r.data, 1, n)]
        OBVIOUS
      <4>2. y.v \in [cmd : {"DownloadSegment", "UploadSegment"}, obj : Objects \cup {NoObject},
                     sub : Nat, ca : BOOLEAN, total : Nat, done : Nat, toggle : BOOLEAN,
                     buf : Seq(Byte)]
        BY DEF IsServer, IsSession
      <4>3. took = [y EXCEPT !.v = w]
        BY <2>4, <3>2, <4>1, <4>2 DEF ServerFields
      <4> QED
        BY <3>2, <4>3 DEF ServerFields
    <3>4. DOMAIN s = ServerFields /\ s.mem = took.mem /\ s.rep.kind = "Abort"
      BY <3>1, <3>3, RefuseEffect
    <3>5. DOMAIN z = ServerFields /\ z.v = NoSession /\ z.mem = s.mem /\ z.rep = s.rep
      BY <2>11, <3>4, EndSessionEffect
    <3> QED
      BY <3>2, <3>3, <3>4, <3>5, NoSessionIsSession DEF IsServer, ServerFields
  <2>12. IsServer(z) /\ z.mem = y.mem /\ z.rep.kind = "Abort" /\ z.v = NoSession
    BY <1>1, <1>4, <2>9, <2>10, <2>11
  <2> QED
    BY <2>12 DEF Behind
<1>5. CASE v = NoSession /\ r.kind = "DownloadSegment" /\ r.toggle = v.toggle
  <2>1. v.cmd = r.kind
    BY <1>5 DEF NoSession
  <2> QED
    BY <1>2, <1>5, <2>1
<1> QED
  BY <1>1, <1>2, <1>3, <1>4, <1>5 DEF Behind

-------------------------------------------------------------------------------
(* The step of the server. *)

LEMMA ProjectFacts ==
  ASSUME SdoAssumption, NEW mem, IsMemory(mem)
  PROVE  /\ IsMemory(Project(mem))
         /\ \A o \in Objects \ Projected : Project(mem)[o] = mem[o]
<1>1. Initial \in Values
  BY DEF Initial, SdoAssumption
<1>2. PICK f : f = [o \in Objects |->
                      IF o \in Projected THEN [i \in EntryIds(o) |-> Initial] ELSE mem[o]]
  OBVIOUS
<1>3. DOMAIN f = Objects
      /\ \A o \in Objects : f[o] = IF o \in Projected THEN [i \in EntryIds(o) |-> Initial] ELSE mem[o]
  BY <1>2
<1>4. ASSUME NEW o \in Objects
      PROVE  f[o] \in [EntryIds(o) -> Values]
  BY <1>1, <1>3 DEF IsMemory
<1>5. IsMemory(f)
  BY <1>3, <1>4 DEF IsMemory
<1>6. Project(mem) = f
  BY <1>2 DEF Project
<1> QED
  BY <1>3, <1>5, <1>6

LEMMA FoundFacts ==
  ASSUME SdoAssumption, NEW y, IsServer(y), NEW z, z = [y EXCEPT !.mem = Project(y.mem)]
  PROVE  IsServer(z) /\ z.v = y.v /\ z.mem = Project(y.mem)
<1>1. DOMAIN y = ServerFields /\ IsSession(y.v) /\ IsMemory(y.mem)
  BY DEF IsServer, ServerFields
<1>2. DOMAIN z = ServerFields /\ z.v = y.v /\ z.mem = Project(y.mem)
  BY <1>1 DEF ServerFields
<1>3. IsMemory(Project(y.mem))
  BY <1>1, ProjectFacts
<1> QED
  BY <1>1, <1>2, <1>3 DEF IsServer, ServerFields

\* What is read is a string of bytes, whether it may be read or not.
LEMMA FoundBytes ==
  ASSUME SdoAssumption, ClientAssumption, NEW t \in Targets, NEW mem, IsMemory(mem),
         HasEntry(t.obj, t.sub)
  PROVE  ReadBytes(t.obj, t.sub, t.ca, mem) \in Seq(Byte)
<1>1. PICK o : o = t.obj
  OBVIOUS
<1>2. PICK s : s = t.sub
  OBVIOUS
<1>3. o \in Objects /\ s \in Nat /\ t.ca \in BOOLEAN
  BY <1>1, <1>2 DEF ClientAssumption
<1>4. s \in 0..SubCountOf(o) /\ 0..SubCountOf(o) \subseteq EntryIds(o)
  <2>1. SubCountOf(o) \in 0..Len(Dictionary[o].entries) /\ Len(Dictionary[o].entries) \in Nat
    BY <1>3, EntryTypes
  <2>2. s \in 0..SubCountOf(o)
    BY <1>1, <1>2, <1>3, WidthTypes
  <2> QED
    BY <2>1, <2>2 DEF EntryIds
<1>5. PICK vals : vals = mem[o]
  OBVIOUS
<1>6. \A i \in EntryIds(o) : vals[i] \in Values
  BY <1>3, <1>5 DEF IsMemory
<1>7. CASE t.ca
  <2>1. ReadBytes(o, s, t.ca, mem) = ObjectBytes(o, s, vals)
    BY <1>5, <1>7 DEF ReadBytes
  <2>2. ObjectBytes(o, s, vals) \in Seq(Byte)
    BY <1>3, <1>4, <1>6, ObjectBytesFacts
  <2> QED
    BY <1>1, <1>2, <2>1, <2>2
<1>8. CASE ~t.ca
  <2>1. PICK w : w = LengthOf(o, s)
    OBVIOUS
  <2>2. PICK v : v = vals[s]
    OBVIOUS
  <2>3. w \in Nat /\ v \in Values
    BY <1>3, <1>4, <1>6, <2>1, <2>2, WidthTypes
  <2>4. ReadBytes(o, s, t.ca, mem) = EntryBytes(o, s, w, v)
    BY <1>5, <1>8, <2>1, <2>2 DEF ReadBytes
  <2>5. EntryBytes(o, s, w, v) \in Seq(Byte)
    BY <1>3, <2>3, EntryBytesFacts
  <2> QED
    BY <1>1, <1>2, <2>4, <2>5
<1> QED
  BY <1>3, <1>7, <1>8

\* A request is served for the transfer it belongs to.
LEMMA RequestIsServed ==
  ASSUME SdoAssumption, ClientAssumption, TransferInv, Serve
  PROVE  /\ c.phase \in {"busy", "aborting", "left"} /\ c.out = "none" /\ c.ask.kind # "Nothing"
         /\ req = c.ask /\ x.rep.kind = "Nothing"
         /\ c' = c /\ st' = st /\ req' = Nothing /\ served'.st = st
         /\ c.ask.kind # "Upload" => served'.bytes = served.bytes
         /\ \E y : /\ IsServer(y) /\ y.v = x.v /\ y.mem = Project(x.mem)
                   /\ x' = Handle(y, c.ask, st)
                   /\ c.ask.kind = "Upload" =>
                        served'.bytes = IF HasEntry(c.ask.obj, c.ask.sub)
                                        THEN ReadBytes(c.ask.obj, c.ask.sub, c.ask.ca, y.mem)
                                        ELSE served.bytes
<1>1. PICK y : y = [x EXCEPT !.mem = Project(x.mem)]
  OBVIOUS
<1>2. /\ req # Nothing /\ req' = Nothing /\ st' = st /\ c' = c
      /\ x' = Handle(y, req, st)
      /\ served' = [st |-> st,
                    bytes |-> IF req.kind = "Upload" /\ HasEntry(req.obj, req.sub)
                              THEN ReadBytes(req.obj, req.sub, req.ca, y.mem)
                              ELSE served.bytes]
  BY <1>1 DEF Serve
<1>3. IsServer(x) /\ IsClient(c)
  BY DEF TransferInv, TypesOK
<1>4. IsServer(y) /\ y.v = x.v /\ y.mem = Project(x.mem)
  BY <1>1, <1>3, FoundFacts
<1>5. /\ c.phase # "idle" /\ c.out = "none" /\ c.ask.kind # "Nothing" /\ req = c.ask
      /\ x.rep = Nothing
  BY <1>2 DEF TransferInv, InTurn
<1>6. c.phase \in {"busy", "aborting", "left"}
  BY <1>3, <1>5 DEF IsClient
<1>7. x.rep.kind = "Nothing"
  BY <1>5 DEF Nothing
<1>8. /\ served'.st = st
      /\ served'.bytes = IF req.kind = "Upload" /\ HasEntry(req.obj, req.sub)
                         THEN ReadBytes(req.obj, req.sub, req.ca, y.mem)
                         ELSE served.bytes
  BY <1>2
<1> QED
  BY <1>2, <1>4, <1>5, <1>6, <1>7, <1>8

\* What the server answers: it writes nothing, or the whole of a download.
AnswerFor(mem) ==
  /\ IsServer(x') /\ x'.rep.kind # "Nothing" /\ served'.bytes \in Seq(Byte)
  /\ \/ x'.mem = mem
     \/ /\ c.t.dir = "down" /\ c.sent = Len(TransferData[c.t])
        /\ \E reply : reply.kind = c.ask.kind /\ Decided(c.t, st, mem, x', reply)

LEMMA ServeFirst ==
  ASSUME SdoAssumption, ClientAssumption, Roomy, TransferInv, Serve, FirstAsked
  PROVE  FirstAsked' /\ AnswerFor(Project(x.mem))
<1>1. /\ c.ask.kind # "Nothing" /\ x.rep.kind = "Nothing"
      /\ c' = c /\ st' = st /\ req' = Nothing /\ served'.st = st
      /\ c.ask.kind # "Upload" => served'.bytes = served.bytes
  BY RequestIsServed
<1>2. PICK y : /\ IsServer(y) /\ y.v = x.v /\ y.mem = Project(x.mem)
               /\ x' = Handle(y, c.ask, st)
               /\ c.ask.kind = "Upload" =>
                    served'.bytes = IF HasEntry(c.ask.obj, c.ask.sub)
                                    THEN ReadBytes(c.ask.obj, c.ask.sub, c.ask.ca, y.mem)
                                    ELSE served.bytes
  BY RequestIsServed
<1>3. /\ c.t \in Transfers /\ served.bytes \in Seq(Byte)
      /\ c.t.to \in Targets /\ c.t.dir \in {"up", "down"}
  <2>1. c.t \in Transfers /\ served.bytes \in Seq(Byte)
    BY DEF TransferInv, TypesOK, IsClient
  <2> QED
    BY <2>1, TransferFacts
<1>4. /\ c.ask = FirstRequest(c.t) /\ c.sent = Carried(c.ask)
      /\ c.got = <<>> /\ ~c.toggle
  BY DEF FirstAsked
<1>5. PICK r : r = c.ask
  OBVIOUS
<1>6. PICK z : z = HandleInitiate(y, r, st)
  OBVIOUS
<1>7. PICK t \in Transfers : t = c.t
  BY <1>3
<1>8. ASSUME r.kind \in {"Upload", "Download"}
      PROVE  x' = z
  BY <1>2, <1>5, <1>6, <1>8 DEF Handle
<1>9. ASSUME FirstAnswered'
      PROVE  FirstAsked'
  BY <1>1, <1>4, <1>9 DEF FirstAsked
<1>10. CASE t.dir = "up"
  <2>1. /\ r.kind = "Upload" /\ r.obj = t.to.obj /\ r.sub = t.to.sub /\ r.ca = t.to.ca
    <3>1. r = FirstRequest(t)
      BY <1>4, <1>5, <1>7
    <3> QED
      BY <1>10, <3>1, UploadRequest
  <2>2. PICK found : found = served'.bytes
    OBVIOUS
  <2>3. HasEntry(r.obj, r.sub) => found = ReadBytes(r.obj, r.sub, r.ca, y.mem)
    BY <1>2, <1>5, <2>1, <2>2
  <2>4. IsServer(z) /\ z.mem = y.mem /\ UploadBegun(t, z, st, found)
    BY <1>2, <1>6, <1>10, <2>1, <2>3, UploadEffect
  <2>5. x' = z
    BY <1>8, <2>1
  <2>6. found \in Seq(Byte)
    <3>1. CASE HasEntry(r.obj, r.sub)
      <4>1. ReadBytes(t.to.obj, t.to.sub, t.to.ca, y.mem) \in Seq(Byte)
        BY <1>2, <1>3, <1>7, <2>1, <3>1, FoundBytes DEF IsServer
      <4> QED
        BY <2>1, <2>3, <3>1, <4>1
    <3>2. CASE ~HasEntry(r.obj, r.sub)
      BY <1>2, <1>3, <1>5, <2>1, <2>2, <3>2
    <3> QED
      BY <3>1, <3>2
  <2>7. FirstAnswered'
    BY <1>1, <1>7, <1>10, <2>2, <2>4, <2>5 DEF FirstAnswered, UploadBegun, Justified
  <2>8. z.rep.kind # "Nothing"
    BY <2>4 DEF UploadBegun
  <2> QED
    BY <1>2, <1>9, <2>2, <2>4, <2>5, <2>6, <2>7, <2>8 DEF AnswerFor
<1>11. CASE t.dir = "down"
  <2>1. r = FirstRequest(t)
    BY <1>4, <1>5, <1>7
  <2>2. r.kind = "Download"
    BY <1>11, <2>1, DownloadRequest
  <2>3. IsServer(z) /\ DownloadBegun(t, st, y.mem, z, Carried(r))
    BY <1>2, <1>6, <1>11, <2>1, DownloadEffect
  <2>4. x' = z /\ c.sent = Carried(r) /\ served'.bytes = served.bytes
    BY <1>1, <1>4, <1>5, <1>8, <2>2
  <2>5. PICK reply : reply = [kind |-> "Download"]
    OBVIOUS
  <2>6. reply.kind = "Download"
    BY <2>5
  <2>7. CASE Carried(r) = Len(TransferData[t]) /\ Decided(t, st, y.mem, z, reply)
    <3>1. FirstAnswered'
      BY <1>1, <1>7, <1>11, <2>4, <2>6, <2>7 DEF FirstAnswered, Decided, Justified, Explained
    <3>2. z.rep.kind # "Nothing"
      BY <2>6, <2>7 DEF Decided
    <3>3. \E rep : rep.kind = c.ask.kind /\ Decided(c.t, st, Project(x.mem), x', rep)
      BY <1>2, <1>5, <1>7, <2>2, <2>4, <2>6, <2>7
    <3> QED
      BY <1>3, <1>7, <1>9, <1>11, <2>3, <2>4, <2>7, <3>1, <3>2, <3>3 DEF AnswerFor
  <2>8. CASE z.mem = y.mem /\ z.rep.kind = "Abort" /\ Explained(t, z.rep.code, st)
    <3>1. FirstAnswered'
      BY <1>1, <1>7, <1>11, <2>4, <2>8 DEF FirstAnswered, Justified
    <3> QED
      BY <1>2, <1>3, <1>9, <2>3, <2>4, <2>8, <3>1 DEF AnswerFor
  <2>9. CASE z.mem = y.mem /\ z.rep.kind = "Download" /\ Downloading(z.v, t, Carried(r)) /\ z.v.toggle
    <3>1. FirstAnswered'
      BY <1>1, <1>7, <1>11, <2>4, <2>9 DEF FirstAnswered
    <3> QED
      BY <1>2, <1>3, <1>9, <2>3, <2>4, <2>9, <3>1 DEF AnswerFor
  <2> QED
    BY <2>3, <2>5, <2>7, <2>8, <2>9 DEF DownloadBegun
<1> QED
  BY <1>3, <1>7, <1>10, <1>11

LEMMA ServeUp ==
  ASSUME SdoAssumption, ClientAssumption, TransferInv, Serve, UpAsked
  PROVE  UpAsked' /\ AnswerFor(Project(x.mem))
<1>1. /\ x.rep.kind = "Nothing"
      /\ c' = c /\ st' = st /\ served'.st = st
      /\ c.ask.kind # "Upload" => served'.bytes = served.bytes
  BY RequestIsServed
<1>2. PICK y : IsServer(y) /\ y.v = x.v /\ y.mem = Project(x.mem) /\ x' = Handle(y, c.ask, st)
  BY RequestIsServed
<1>3. PICK r : r = c.ask
  OBVIOUS
<1>4. /\ c.t.dir = "up" /\ r.kind = "UploadSegment" /\ r.toggle = c.toggle
      /\ \/ Uploading(x.v, c.t, c.size, c.got, served.bytes) /\ x.v.toggle # c.toggle
         \/ c.lost > 0 /\ Behind(x.v, "UploadSegment", c.toggle)
  BY <1>1, <1>3 DEF UpAsked
<1>5. c.size \in Nat /\ c.toggle \in BOOLEAN /\ served.bytes \in Seq(Byte)
  BY DEF TransferInv, TypesOK, IsClient
<1>6. served'.bytes = served.bytes
  BY <1>1, <1>3, <1>4
<1>7. PICK z : z = Handle(y, r, st)
  OBVIOUS
<1>8. x' = z
  BY <1>2, <1>3, <1>7
<1>9. ASSUME UpAnswered'
      PROVE  UpAsked'
  <2>1. x'.rep.kind # "Nothing"
    BY <1>9 DEF UpAnswered
  <2> QED
    BY <1>1, <1>3, <1>4, <1>9, <2>1 DEF UpAsked
<1>10. CASE Uploading(x.v, c.t, c.size, c.got, served.bytes) /\ x.v.toggle # c.toggle
  <2>1. z = HandleUploadSegment(y, r)
    <3>1. r.kind = y.v.cmd
      BY <1>2, <1>4, <1>10 DEF Uploading
    <3> QED
      BY <1>4, <1>7, <3>1 DEF Handle
  <2>2. PICK size, t : size = c.size /\ t = c.t
    OBVIOUS
  <2>3. PICK got : got = c.got
    OBVIOUS
  <2>4. PICK found : found = served.bytes
    OBVIOUS
  <2>5. Uploading(y.v, t, size, got, found) /\ r.toggle # y.v.toggle /\ r.toggle \in BOOLEAN
    BY <1>2, <1>4, <1>5, <1>10, <2>2, <2>3, <2>4
  <2>6. IsServer(z) /\ z.mem = y.mem /\ UpSegmentSent(z, t, r.toggle, size, got, found)
    BY <1>2, <1>4, <2>1, <2>5, UpSegmentEffect
  <2>7. UpAnswered'
    BY <1>1, <1>4, <1>6, <1>8, <2>2, <2>3, <2>4, <2>6 DEF UpAnswered, UpSegmentSent
  <2> QED
    BY <1>2, <1>5, <1>6, <1>8, <1>9, <2>6, <2>7 DEF AnswerFor, UpSegmentSent
<1>11. CASE c.lost > 0 /\ Behind(x.v, "UploadSegment", c.toggle)
  <2>1. Behind(y.v, r.kind, r.toggle)
    BY <1>2, <1>4, <1>11
  <2>2. /\ IsServer(z) /\ z.mem = y.mem /\ z.rep.kind = "Abort" /\ Behind(z.v, r.kind, r.toggle)
    BY <1>2, <1>4, <1>7, <2>1, BehindEffect
  <2>3. UpAnswered'
    BY <1>1, <1>4, <1>8, <1>11, <2>2 DEF UpAnswered
  <2> QED
    BY <1>2, <1>5, <1>6, <1>8, <1>9, <2>2, <2>3 DEF AnswerFor
<1> QED
  BY <1>4, <1>10, <1>11

LEMMA SegmentTypes ==
  ASSUME NEW data \in Seq(Byte), NEW from \in Nat, NEW to \in Nat, NEW r, SegmentOf(r, data, from, to)
  PROVE  r.data \in Seq(Byte) /\ r.last \in BOOLEAN
<1>1. PICK p : p = SubSeq(data, from + 1, to)
  OBVIOUS
<1>2. PICK m : m = to - from
  OBVIOUS
<1>3. from < to /\ to <= Len(data) /\ m \in Nat /\ to = from + m
  BY <1>2 DEF SegmentOf
<1>4. p \in Seq(Byte)
  BY <1>1, <1>3, Portion
<1>5. Stale \in Byte /\ MinSegmentedData \in Nat
  BY DEF Byte, MinSegmentedData
<1>6. PadTo(p, MinSegmentedData) \in Seq(Byte)
  BY <1>4, <1>5, PadToFacts
<1> QED
  BY <1>1, <1>6 DEF SegmentOf

LEMMA ServeDown ==
  ASSUME SdoAssumption, ClientAssumption, TransferInv, Serve, DownAsked
  PROVE  DownAsked' /\ AnswerFor(Project(x.mem))
<1>1. /\ x.rep.kind = "Nothing"
      /\ c' = c /\ st' = st /\ served'.st = st
      /\ c.ask.kind # "Upload" => served'.bytes = served.bytes
  BY RequestIsServed
<1>2. PICK y : IsServer(y) /\ y.v = x.v /\ y.mem = Project(x.mem) /\ x' = Handle(y, c.ask, st)
  BY RequestIsServed
<1>3. PICK r : r = c.ask
  OBVIOUS
<1>4. c.t.dir = "down" /\ r.toggle = c.toggle
  BY <1>3 DEF DownAsked
<1>5. PICK from \in Nat :
        /\ SegmentOf(r, TransferData[c.t], from, c.sent)
        /\ \/ Downloading(x.v, c.t, from) /\ x.v.toggle # c.toggle
           \/ c.lost > 0 /\ Behind(x.v, "DownloadSegment", c.toggle)
  BY <1>1, <1>3 DEF DownAsked
<1>6. /\ c.t \in Transfers /\ c.toggle \in BOOLEAN /\ c.sent \in Nat
      /\ served.bytes \in Seq(Byte) /\ TransferData[c.t] \in Seq(Byte)
  <2>1. c.t \in Transfers /\ c.toggle \in BOOLEAN /\ c.sent \in Nat /\ served.bytes \in Seq(Byte)
    BY DEF TransferInv, TypesOK, IsClient
  <2> QED
    BY <2>1, TransferFacts
<1>7. PICK t \in Transfers : t = c.t
  BY <1>6
<1>8. PICK to \in Nat : to = c.sent
  BY <1>6
<1>9. r.kind = "DownloadSegment" /\ r.data \in Seq(Byte) /\ r.last \in BOOLEAN
  <2>1. SegmentOf(r, TransferData[t], from, to) /\ TransferData[t] \in Seq(Byte)
    BY <1>5, <1>6, <1>7, <1>8
  <2>2. r.kind = "DownloadSegment"
    BY <2>1 DEF SegmentOf
  <2> QED
    BY <2>1, <2>2, SegmentTypes
<1>10. served'.bytes = served.bytes
  BY <1>1, <1>3, <1>9
<1>11. PICK z : z = Handle(y, r, st)
  OBVIOUS
<1>12. x' = z
  BY <1>2, <1>3, <1>11
<1>13. ASSUME DownAnswered'
       PROVE  DownAsked'
  <2>1. x'.rep.kind # "Nothing"
    BY <1>13 DEF DownAnswered
  <2>2. /\ c'.t.dir = "down" /\ c'.ask.toggle = c'.toggle
        /\ SegmentOf(c'.ask, TransferData[c'.t], from, c'.sent)
    BY <1>1, <1>3, <1>4, <1>5
  <2> QED
    BY <1>5, <1>13, <2>1, <2>2 DEF DownAsked
<1>14. CASE Downloading(x.v, c.t, from) /\ x.v.toggle # c.toggle
  <2>1. z = HandleDownloadSegment(y, r, st)
    <3>1. r.kind = y.v.cmd
      BY <1>2, <1>9, <1>14 DEF Downloading
    <3> QED
      BY <1>9, <1>11, <3>1 DEF Handle
  <2>2. PICK reply : reply = SegmentStored(r)
    OBVIOUS
  <2>3. reply.kind = "DownloadSegment" /\ reply.toggle = r.toggle
    BY <2>2 DEF SegmentStored
  <2>4. /\ Downloading(y.v, t, from) /\ SegmentOf(r, TransferData[t], from, to)
        /\ r.toggle # y.v.toggle /\ r.toggle \in BOOLEAN /\ t.dir = "down"
    BY <1>2, <1>4, <1>5, <1>6, <1>7, <1>8, <1>14
  <2>5. IsServer(z) /\ DownSegmentTaken(t, st, y.mem, z, reply, to)
    BY <1>2, <2>1, <2>2, <2>4, DownSegmentEffect
  <2>6. CASE /\ z.mem = y.mem /\ z.rep = reply
             /\ Downloading(z.v, t, to) /\ z.v.toggle = reply.toggle
    <3>1. DownAnswered'
      BY <1>1, <1>4, <1>7, <1>8, <1>12, <2>3, <2>6 DEF DownAnswered
    <3> QED
      BY <1>2, <1>6, <1>10, <1>12, <1>13, <2>3, <2>5, <2>6, <3>1 DEF AnswerFor
  <2>7. CASE to = Len(TransferData[t]) /\ z.v = NoSession /\ Decided(t, st, y.mem, z, reply)
    <3>1. DownAnswered'
      BY <1>1, <1>7, <1>8, <1>12, <2>3, <2>7 DEF DownAnswered, Decided, Behind, Justified, Explained
    <3>2. z.rep.kind # "Nothing"
      BY <2>3, <2>7 DEF Decided
    <3>3. \E rep : rep.kind = c.ask.kind /\ Decided(c.t, st, Project(x.mem), x', rep)
      BY <1>2, <1>3, <1>7, <1>9, <1>12, <2>3, <2>7
    <3> QED
      BY <1>4, <1>6, <1>7, <1>8, <1>10, <1>12, <1>13, <2>5, <2>7, <3>1, <3>2, <3>3 DEF AnswerFor
  <2> QED
    BY <2>5, <2>6, <2>7 DEF DownSegmentTaken
<1>15. CASE c.lost > 0 /\ Behind(x.v, "DownloadSegment", c.toggle)
  <2>1. Behind(y.v, r.kind, r.toggle)
    BY <1>2, <1>4, <1>9, <1>15
  <2>2. IsServer(z) /\ z.mem = y.mem /\ z.rep.kind = "Abort" /\ Behind(z.v, r.kind, r.toggle)
    BY <1>2, <1>9, <1>11, <2>1, BehindEffect
  <2>3. DownAnswered'
    BY <1>1, <1>4, <1>9, <1>12, <1>15, <2>2 DEF DownAnswered, Justified
  <2> QED
    BY <1>2, <1>6, <1>10, <1>12, <1>13, <2>2, <2>3 DEF AnswerFor
<1> QED
  BY <1>5, <1>14, <1>15

LEMMA ServeAborting ==
  ASSUME SdoAssumption, ClientAssumption, TransferInv, Serve, c.ask.kind = "Abort"
  PROVE  AnswerFor(Project(x.mem))
<1>1. PICK y : IsServer(y) /\ y.v = x.v /\ y.mem = Project(x.mem) /\ x' = Handle(y, c.ask, st)
  BY RequestIsServed
<1>2. served'.bytes = served.bytes /\ served.bytes \in Seq(Byte)
  <2>1. c.ask.kind # "Upload" => served'.bytes = served.bytes
    BY RequestIsServed
  <2> QED
    BY <2>1 DEF TransferInv, TypesOK
<1>3. c.ask.kind # y.v.cmd
  BY <1>1 DEF IsServer, IsSession
<1>4. IsServer(x') /\ x'.mem = y.mem /\ x'.rep.kind = "Abort"
  BY <1>1, <1>3, StrayEffect
<1> QED
  BY <1>1, <1>2, <1>4 DEF AnswerFor

LEMMA ServeStep ==
  ASSUME SdoAssumption, ClientAssumption, Roomy, TransferInv, Serve
  PROVE  TransferInv' /\ AnswerFor(Project(x.mem))
<1>1. /\ c.phase \in {"busy", "aborting", "left"} /\ c.out = "none" /\ c.ask.kind # "Nothing"
      /\ c' = c /\ st' = st /\ req' = Nothing
  BY RequestIsServed
<1>2. /\ FirstAsked \/ UpAsked \/ DownAsked \/ c.ask.kind = "Abort"
      /\ c.phase = "busy" => FirstAsked \/ UpAsked \/ DownAsked
      /\ c.phase = "aborting" => c.ask.kind = "Abort"
      /\ IsClient(c) /\ st \in SdoStates
  BY <1>1 DEF TransferInv, TypesOK
<1>3. /\ AnswerFor(Project(x.mem))
      /\ FirstAsked \/ UpAsked \/ DownAsked => (FirstAsked \/ UpAsked \/ DownAsked)'
  BY <1>2, ServeFirst, ServeUp, ServeDown, ServeAborting
<1>4. TypesOK'
  BY <1>1, <1>2, <1>3 DEF TypesOK, AnswerFor
<1>5. InTurn'
  BY <1>1, <1>3 DEF InTurn, AnswerFor
<1>6. Outcome'
  BY <1>1 DEF Outcome
<1> QED
  BY <1>1, <1>2, <1>3, <1>4, <1>5, <1>6 DEF TransferInv

-------------------------------------------------------------------------------
(* The steps of the master. *)

LEMMA ReplyTaken ==
  ASSUME NEW y, IsServer(y), NEW z, z = [y EXCEPT !.rep = Nothing]
  PROVE  IsServer(z) /\ z.v = y.v /\ z.mem = y.mem /\ z.rep = Nothing /\ z.rep.kind = "Nothing"
<1>1. DOMAIN y = ServerFields
  BY DEF IsServer, ServerFields
<1>2. DOMAIN z = ServerFields /\ z.v = y.v /\ z.mem = y.mem /\ z.rep = Nothing
  BY <1>1, SetReply
<1>3. z.rep.kind = "Nothing"
  BY <1>2 DEF Nothing
<1> QED
  BY <1>2, <1>3 DEF IsServer, ServerFields

LEMMA NewTransferFacts ==
  ASSUME NEW n, NEW t \in Transfers, NEW d, d = NewTransfer(n, t)
  PROVE  /\ IsClient(d) /\ d.t = t
         /\ d.phase = "idle" /\ d.out = "none" /\ d.got = <<>> /\ ~d.toggle /\ d.sent = 0
<1>1. /\ DOMAIN d = ClientFields
      /\ d.phase = "idle" /\ d.n = n /\ d.t = t /\ d.size = 0 /\ d.sent = 0 /\ d.got = <<>>
      /\ d.toggle = FALSE /\ d.lost = 0 /\ d.out = "none"
  BY DEF NewTransfer, ClientFields
<1>2. <<>> \in Seq(Byte)
  OBVIOUS
<1>3. d.got \in Seq(Byte) /\ d.size \in Nat /\ d.sent \in Nat /\ d.lost \in Nat
  BY <1>1, <1>2
<1> QED
  BY <1>1, <1>3 DEF IsClient

LEMMA AskStep ==
  ASSUME NEW d, IsClient(d), NEW r, NEW n \in Nat, Carried(r) = n, Ask(d, r)
  PROVE  /\ req' = r
         /\ IsClient(c') /\ c'.phase = "busy" /\ c'.ask = r /\ c'.sent = d.sent + n
         /\ c'.t = d.t /\ c'.size = d.size /\ c'.got = d.got /\ c'.toggle = d.toggle
         /\ c'.lost = d.lost /\ c'.out = d.out /\ c'.why = d.why
<1>1. PICK m : m = d.sent
  OBVIOUS
<1>2. m \in Nat /\ DOMAIN d = ClientFields
  BY <1>1 DEF IsClient
<1>3. PICK sent \in Nat : sent = m + n
  BY <1>2
<1>4. PICK e : e = c'
  OBVIOUS
<1>5. req' = r /\ e = [d EXCEPT !.phase = "busy", !.ask = r, !.sent = sent]
  <2>1. req' = r /\ e = [d EXCEPT !.phase = "busy", !.ask = r, !.sent = d.sent + Carried(r)]
    BY <1>2, <1>4 DEF Ask, ClientFields
  <2>2. d.sent + Carried(r) = sent
    BY <1>1, <1>3
  <2> QED
    BY <2>1, <2>2
<1>6. /\ IsClient(e) /\ e.phase = "busy" /\ e.ask = r /\ e.sent = sent
      /\ e.t = d.t /\ e.size = d.size /\ e.got = d.got /\ e.toggle = d.toggle
      /\ e.lost = d.lost /\ e.out = d.out /\ e.why = d.why
  <2>1. /\ DOMAIN e = ClientFields
        /\ e.phase = "busy" /\ e.ask = r /\ e.sent = sent
        /\ e.t = d.t /\ e.size = d.size /\ e.got = d.got /\ e.toggle = d.toggle
        /\ e.lost = d.lost /\ e.out = d.out /\ e.why = d.why
    BY <1>2, <1>5 DEF ClientFields
  <2> QED
    BY <2>1 DEF IsClient
<1> QED
  BY <1>1, <1>3, <1>4, <1>5, <1>6

LEMMA EndedFacts ==
  ASSUME IsClient(c), NEW out, NEW why, NEW got \in Seq(Byte), NEW d, d = Ended(out, why, got)
  PROVE  /\ IsClient(d) /\ d.phase = "idle" /\ d.t = c.t /\ d.lost = c.lost
         /\ d.out = out /\ d.why = why /\ d.got = got
<1>1. PICK e : e = NewTransfer(c.n, c.t)
  OBVIOUS
<1>2. c.t \in Transfers /\ c.lost \in Nat
  BY DEF IsClient
<1>3. IsClient(e) /\ e.t = c.t /\ e.phase = "idle"
  BY <1>1, <1>2, NewTransferFacts
<1>4. d = [e EXCEPT !.out = out, !.why = why, !.got = got, !.lost = c.lost]
  BY <1>1 DEF Ended
<1>5. /\ DOMAIN d = ClientFields /\ d.out = out /\ d.why = why /\ d.got = got /\ d.lost = c.lost
      /\ d.phase = e.phase /\ d.t = e.t /\ d.toggle = e.toggle /\ d.size = e.size /\ d.sent = e.sent
  BY <1>3, <1>4 DEF IsClient, ClientFields
<1> QED
  BY <1>2, <1>3, <1>5 DEF IsClient

\* A transfer ends.
LEMMA EndStep ==
  ASSUME TransferInv, IsServer(x'), x'.rep = Nothing, x'.mem = x.mem,
         st' \in SdoStates, served' = served, req' = Nothing,
         NEW out, NEW why, NEW got \in Seq(Byte), c' = Ended(out, why, got),
         out = "ok" /\ c.t.dir = "up" => Snapshot(c.t, got, served.bytes),
         out = "ok" /\ c.t.dir = "down" => Stored(c.t, x.mem, served.st),
         out = "refused" => Justified(c, why, served.st)
  PROVE  TransferInv'
<1>1. IsClient(c) /\ served.bytes \in Seq(Byte)
  BY DEF TransferInv, TypesOK
<1>2. /\ IsClient(c') /\ c'.phase = "idle" /\ c'.t = c.t /\ c'.lost = c.lost
      /\ c'.out = out /\ c'.why = why /\ c'.got = got
  BY <1>1, EndedFacts
<1>3. TypesOK'
  BY <1>1, <1>2 DEF TypesOK
<1>4. InTurn'
  BY <1>2 DEF InTurn
<1>5. Outcome'
  BY <1>2 DEF Outcome, Justified
<1> QED
  BY <1>2, <1>3, <1>4, <1>5 DEF TransferInv

LEMMA StartStep ==
  ASSUME SdoAssumption, ClientAssumption, Waits, TransferInv, Start
  PROVE  TransferInv'
<1>1. /\ c.phase = "idle" /\ x' = x /\ st' = st /\ served' = served
  BY DEF Start
<1>2. PICK t \in Transfers : Ask(NewTransfer(c.n + 1, t), FirstRequest(t))
  BY DEF Start
<1>3. PICK d : d = NewTransfer(c.n + 1, t)
  OBVIOUS
<1>4. PICK r : r = FirstRequest(t)
  OBVIOUS
<1>5. Ask(d, r)
  BY <1>2, <1>3, <1>4
<1>6. /\ IsClient(d) /\ d.t = t /\ d.out = "none" /\ d.got = <<>> /\ ~d.toggle /\ d.sent = 0
  BY <1>3, NewTransferFacts
<1>7. Carried(r) \in Nat /\ r.kind # "Nothing"
  <2>1. CASE t.dir = "up"
    BY <1>4, <2>1, UploadRequest
  <2>2. CASE t.dir = "down"
    BY <1>4, <2>2, DownloadRequest
  <2>3. t.dir \in {"up", "down"}
    BY TransferFacts
  <2> QED
    BY <2>1, <2>2, <2>3
<1>8. PICK n \in Nat : n = Carried(r)
  BY <1>7
<1>9. /\ req' = r
      /\ IsClient(c') /\ c'.phase = "busy" /\ c'.ask = r /\ c'.sent = Carried(r)
      /\ c'.t = t /\ c'.got = <<>> /\ ~c'.toggle /\ c'.out = "none"
  <2>1. /\ req' = r
        /\ IsClient(c') /\ c'.phase = "busy" /\ c'.ask = r /\ c'.sent = d.sent + n
        /\ c'.t = d.t /\ c'.got = d.got /\ c'.toggle = d.toggle /\ c'.out = d.out
    BY <1>5, <1>6, <1>8, AskStep
  <2>2. c'.sent = n
    BY <1>6, <2>1
  <2> QED
    BY <1>6, <1>8, <2>1, <2>2
<1>10. x.rep = Nothing /\ x'.rep.kind = "Nothing"
  BY <1>1 DEF TransferInv, InTurn, Nothing
<1>11. TypesOK'
  BY <1>1, <1>9 DEF TransferInv, TypesOK
<1>12. InTurn'
  BY <1>1, <1>7, <1>9, <1>10 DEF InTurn
<1>13. FirstAsked'
  BY <1>4, <1>9, <1>10 DEF FirstAsked
<1>14. Outcome'
  BY <1>9 DEF Outcome
<1> QED
  BY <1>9, <1>11, <1>12, <1>13, <1>14 DEF TransferInv

LEMMA NextUpload ==
  ASSUME c.t.dir = "up", NEW toggle
  PROVE  \E r : /\ r = [NextSegment EXCEPT !.toggle = toggle]
               /\ r.kind = "UploadSegment" /\ r.toggle = toggle /\ Carried(r) = 0
<1>1. NextSegment = [kind |-> "UploadSegment", toggle |-> c.toggle]
  BY DEF NextSegment
<1>2. PICK r : r = [kind |-> "UploadSegment", toggle |-> toggle]
  OBVIOUS
<1>3. r = [NextSegment EXCEPT !.toggle = toggle]
  BY <1>1, <1>2
<1>4. r.kind = "UploadSegment" /\ r.toggle = toggle
  BY <1>2
<1>5. Carried(r) = 0
  BY <1>4 DEF Carried
<1> QED
  BY <1>3, <1>4, <1>5

LEMMA NextDownload ==
  ASSUME SdoAssumption, ClientAssumption, NEW t \in Transfers, c.t = t, t.dir = "down",
         NEW from \in Nat, c.sent = from, from < Len(TransferData[t]),
         NEW toggle
  PROVE  \E r : \E n \in Nat :
           /\ r = [NextSegment EXCEPT !.toggle = toggle]
           /\ r.toggle = toggle
           /\ Carried(r) = n /\ SegmentOf(r, TransferData[t], from, from + n)
<1>1. PICK d : d = TransferData[t]
  OBVIOUS
<1>2. PICK total : total = Len(d)
  OBVIOUS
<1>3. d \in Seq(Byte) /\ total \in Nat /\ from < total
  BY <1>1, <1>2, TransferFacts
<1>4. RecvMailbox \in Nat /\ RecvMailbox >= 17
  BY DEF ClientAssumption, SdoAssumption
<1>5. PICK n : n = IF total - from <= RecvMailbox - 9 THEN total - from ELSE RecvMailbox - 9
  OBVIOUS
<1>6. /\ n \in Nat /\ n > 0 /\ from + n <= total /\ from < from + n
      /\ n = total - from <=> from + n = total
      /\ n < 7 => from + n = total
      /\ (from + n) - from = n /\ from + n \in Nat
  BY <1>3, <1>4, <1>5
<1>7. Min({total - from, RecvMailbox - 9}) = n
  BY <1>3, <1>4, <1>5, MinOfTwo
<1>8. PICK p : p = SubSeq(d, from + 1, from + n)
  OBVIOUS
<1>9. p \in Seq(Byte) /\ Len(p) = n
  <2>1. from + n <= Len(d)
    BY <1>2, <1>6
  <2>2. SubSeq(d, from + 1, from + n) \in Seq(Byte) /\ Len(SubSeq(d, from + 1, from + n)) = n
    BY <1>3, <1>6, <2>1, Portion
  <2> QED
    BY <1>8, <2>2
<1>10. PICK bytes : bytes = PadTo(p, 7)
  OBVIOUS
<1>11. Len(bytes) = (IF 7 <= n THEN n ELSE 7)
  <2>1. PICK k \in Nat : k = 7
    OBVIOUS
  <2>2. Stale \in Byte
    BY DEF Byte
  <2>3. Len(PadTo(p, k)) = (IF k <= Len(p) THEN Len(p) ELSE k)
    BY <1>9, <2>2, PadToFacts
  <2> QED
    BY <1>9, <1>10, <2>1, <2>3
<1>12. PICK unused : unused = IF n < 7 THEN 7 - n ELSE 0
  OBVIOUS
<1>13. PICK last : last = (n = total - from)
  OBVIOUS
<1>14. NextSegment = [kind |-> "DownloadSegment", toggle |-> c.toggle, last |-> last,
                      unused |-> unused, data |-> bytes]
  BY <1>1, <1>2, <1>7, <1>8, <1>10, <1>12, <1>13 DEF NextSegment, MinSegmentedData
<1>15. PICK r : r = [kind |-> "DownloadSegment", toggle |-> toggle, last |-> last,
                     unused |-> unused, data |-> bytes]
  OBVIOUS
<1>16. r = [NextSegment EXCEPT !.toggle = toggle]
  BY <1>14, <1>15
<1>17. /\ r.kind = "DownloadSegment" /\ r.toggle = toggle /\ r.last = last
       /\ r.unused = unused /\ r.data = bytes
  BY <1>15
<1>18. Carried(r) = n
  <2>1. Carried(r) = Len(bytes) - unused
    BY <1>17 DEF Carried
  <2>2. Len(bytes) - unused = n
    BY <1>6, <1>11, <1>12
  <2> QED
    BY <2>1, <2>2
<1>19. SegmentOf(r, d, from, from + n)
  <2>1. last = (from + n = total)
    BY <1>6, <1>13
  <2>2. PICK to : to = from + n
    OBVIOUS
  <2>3. /\ from < to /\ to <= total /\ to - from = n
        /\ n < 7 => to = total
        /\ last = (to = total)
        /\ bytes = PadTo(SubSeq(d, from + 1, to), 7)
    BY <1>6, <1>8, <1>10, <2>1, <2>2
  <2>4. SegmentOf(r, d, from, to)
    BY <1>2, <1>12, <1>17, <2>3 DEF SegmentOf, MinSegmentedData
  <2> QED
    BY <2>2, <2>4
<1> QED
  BY <1>1, <1>6, <1>16, <1>17, <1>18, <1>19

LEMMA ContinueFacts ==
  ASSUME IsClient(c), x.rep.kind = "Upload" => x.rep.size \in Nat,
         x.rep.kind = "UploadSegment" => x.rep.data \in Seq(Byte), Continue
  PROVE  \E now : /\ IsClient(now) /\ now.t = c.t /\ now.sent = c.sent
                  /\ now.lost = c.lost /\ now.out = c.out
                  /\ now.size = IF x.rep.kind = "Upload" THEN x.rep.size ELSE c.size
                  /\ now.got = IF x.rep.kind = "UploadSegment" THEN c.got \o x.rep.data ELSE c.got
                  /\ now.toggle = IF x.rep.kind \in {"UploadSegment", "DownloadSegment"}
                                  THEN ~c.toggle ELSE c.toggle
                  /\ Ask(now, [NextSegment EXCEPT !.toggle = now.toggle])
<1>1. PICK size : size = IF x.rep.kind = "Upload" THEN x.rep.size ELSE c.size
  OBVIOUS
<1>2. PICK got : got = IF x.rep.kind = "UploadSegment" THEN c.got \o x.rep.data ELSE c.got
  OBVIOUS
<1>3. PICK toggle : toggle = IF x.rep.kind \in {"UploadSegment", "DownloadSegment"}
                             THEN ~c.toggle ELSE c.toggle
  OBVIOUS
<1>4. DOMAIN c = ClientFields /\ c.size \in Nat /\ c.got \in Seq(Byte) /\ c.toggle \in BOOLEAN
  BY DEF IsClient
<1>5. size \in Nat
  BY <1>1, <1>4
<1>6. got \in Seq(Byte)
  <2>1. CASE x.rep.kind = "UploadSegment"
    <3>1. PICK a \in Seq(Byte) : a = c.got
      BY <1>4
    <3>2. PICK b \in Seq(Byte) : b = x.rep.data
      BY <2>1
    <3>3. a \o b \in Seq(Byte)
      BY ConcatProperties
    <3> QED
      BY <1>2, <2>1, <3>1, <3>2, <3>3
  <2>2. CASE x.rep.kind # "UploadSegment"
    BY <1>2, <1>4, <2>2
  <2> QED
    BY <2>1, <2>2
<1>7. toggle \in BOOLEAN
  BY <1>3, <1>4
<1>8. PICK now : now = [c EXCEPT !.size = size, !.got = got, !.toggle = toggle]
  OBVIOUS
<1>9. /\ DOMAIN now = ClientFields /\ now.size = size /\ now.got = got /\ now.toggle = toggle
      /\ now.phase = c.phase /\ now.t = c.t /\ now.sent = c.sent /\ now.lost = c.lost
      /\ now.out = c.out
  BY <1>4, <1>8 DEF ClientFields
<1>10. IsClient(now)
  BY <1>5, <1>6, <1>7, <1>9 DEF IsClient
<1>11. Ask(now, [NextSegment EXCEPT !.toggle = now.toggle])
  <2>1. now = [c EXCEPT !.size = IF x.rep.kind = "Upload" THEN x.rep.size ELSE @,
                        !.got = IF x.rep.kind = "UploadSegment" THEN @ \o x.rep.data ELSE @,
                        !.toggle = IF x.rep.kind \in {"UploadSegment", "DownloadSegment"}
                                   THEN ~@ ELSE @]
    BY <1>1, <1>2, <1>3, <1>4, <1>8 DEF ClientFields
  <2> QED
    BY <2>1 DEF Continue
<1> QED
  BY <1>1, <1>2, <1>3, <1>9, <1>10, <1>11

LEMMA UpContinues ==
  ASSUME TransferInv, c.t.dir = "up", IsServer(x'), x'.v = x.v, x'.rep = Nothing,
         st' \in SdoStates, served' = served,
         NEW now, IsClient(now), now.t = c.t, now.out = "none",
         Ask(now, [NextSegment EXCEPT !.toggle = now.toggle]),
         Uploading(x.v, c.t, now.size, now.got, served.bytes), x.v.toggle # now.toggle
  PROVE  TransferInv'
<1>1. PICK r : /\ r = [NextSegment EXCEPT !.toggle = now.toggle]
               /\ r.kind = "UploadSegment" /\ r.toggle = now.toggle /\ Carried(r) = 0
  BY NextUpload
<1>2. Ask(now, r)
  BY <1>1, Zenon
<1>3. r.kind = "UploadSegment" /\ r.toggle = now.toggle
  BY <1>1, Zenon
<1>4. PICK n \in Nat : Carried(r) = n
  <2>1. Carried(r) = 0
    BY <1>1, Zenon
  <2> QED
    BY <2>1
<1>5. /\ req' = r /\ IsClient(c') /\ c'.phase = "busy" /\ c'.ask = r
      /\ c'.t = c.t /\ c'.size = now.size /\ c'.got = now.got /\ c'.toggle = now.toggle
      /\ c'.out = "none"
  BY <1>2, <1>4, AskStep
<1>6. x'.rep.kind = "Nothing"
  BY DEF Nothing
<1>7. TypesOK'
  BY <1>5 DEF TransferInv, TypesOK
<1>8. InTurn'
  BY <1>3, <1>5 DEF InTurn
<1>9. UpAsked'
  BY <1>3, <1>5, <1>6 DEF UpAsked
<1>10. Outcome'
  BY <1>5 DEF Outcome
<1> QED
  BY <1>5, <1>7, <1>8, <1>9, <1>10 DEF TransferInv

LEMMA DownContinues ==
  ASSUME SdoAssumption, ClientAssumption, TransferInv, c.t.dir = "down",
         IsServer(x'), x'.v = x.v, x'.rep = Nothing,
         st' \in SdoStates, served' = served,
         NEW now, IsClient(now), now.t = c.t, now.sent = c.sent, now.out = "none",
         Ask(now, [NextSegment EXCEPT !.toggle = now.toggle]),
         c.sent < Len(TransferData[c.t]),
         Downloading(x.v, c.t, c.sent), x.v.toggle # now.toggle
  PROVE  TransferInv'
<1>1. PICK t \in Transfers : t = c.t
  BY DEF TransferInv, TypesOK, IsClient
<1>2. PICK from \in Nat : from = c.sent
  BY DEF TransferInv, TypesOK, IsClient
<1>3. PICK toggle : toggle = now.toggle
  OBVIOUS
<1>4. \E r : \E n \in Nat :
        /\ r = [NextSegment EXCEPT !.toggle = toggle]
        /\ r.toggle = toggle
        /\ Carried(r) = n /\ SegmentOf(r, TransferData[t], from, from + n)
  <2>1. from < Len(TransferData[t]) /\ t.dir = "down" /\ c.t = t /\ c.sent = from
    BY <1>1, <1>2
  <2> QED
    BY <2>1, NextDownload
<1>5. PICK r : \E n \in Nat :
        /\ r = [NextSegment EXCEPT !.toggle = toggle]
        /\ r.toggle = toggle
        /\ Carried(r) = n /\ SegmentOf(r, TransferData[t], from, from + n)
  BY <1>4, Zenon
<1>6. PICK n \in Nat :
        /\ r = [NextSegment EXCEPT !.toggle = toggle]
        /\ r.toggle = toggle
        /\ Carried(r) = n /\ SegmentOf(r, TransferData[t], from, from + n)
  BY <1>5, Zenon
<1>7. Ask(now, r) /\ Carried(r) = n /\ r.toggle = toggle
  BY <1>3, <1>6, Zenon
<1>8. PICK to \in Nat : to = from + n
  OBVIOUS
<1>9. SegmentOf(r, TransferData[t], from, to)
  BY <1>6, <1>8, Zenon
<1>10. r.kind = "DownloadSegment"
  BY <1>9 DEF SegmentOf
<1>11. /\ req' = r /\ IsClient(c') /\ c'.phase = "busy" /\ c'.ask = r
       /\ c'.t = t /\ c'.toggle = toggle /\ c'.out = "none" /\ c'.sent = to
  <2>1. /\ req' = r /\ IsClient(c') /\ c'.phase = "busy" /\ c'.ask = r
        /\ c'.t = now.t /\ c'.toggle = now.toggle /\ c'.out = now.out /\ c'.sent = now.sent + n
    BY <1>7, AskStep
  <2> QED
    BY <1>1, <1>2, <1>3, <1>8, <2>1
<1>12. x'.rep.kind = "Nothing"
  BY DEF Nothing
<1>13. TypesOK'
  BY <1>11 DEF TransferInv, TypesOK
<1>14. InTurn'
  BY <1>10, <1>11 DEF InTurn
<1>15. DownAsked'
  <2>1. Downloading(x'.v, c'.t, from) /\ x'.v.toggle # c'.toggle
    BY <1>1, <1>2, <1>3, <1>11
  <2>2. SegmentOf(c'.ask, TransferData[c'.t], from, c'.sent)
    BY <1>9, <1>11
  <2>3. c'.t.dir = "down" /\ c'.ask.toggle = c'.toggle
    BY <1>1, <1>7, <1>11
  <2> QED
    BY <1>12, <2>1, <2>2, <2>3 DEF DownAsked
<1>16. Outcome'
  BY <1>11 DEF Outcome
<1> QED
  BY <1>11, <1>13, <1>14, <1>15, <1>16 DEF TransferInv

LEMMA SegmentCases ==
  ASSUME TransferInv, x.rep # Nothing, c.phase = "busy"
  PROVE  /\ c.out = "none" /\ x.rep.kind # "Nothing" /\ req = Nothing
         /\ \/ FirstAsked /\ FirstAnswered
            \/ UpAsked /\ UpAnswered
            \/ DownAsked /\ DownAnswered
<1>1. c.out = "none" /\ req = Nothing /\ x.rep.kind # "Nothing"
  BY DEF TransferInv, InTurn
<1>2. FirstAsked \/ UpAsked \/ DownAsked
  BY DEF TransferInv
<1>3. FirstAsked => FirstAnswered
  BY <1>1 DEF FirstAsked
<1>4. UpAsked => UpAnswered
  BY <1>1 DEF UpAsked
<1>5. DownAsked => DownAnswered
  BY <1>1 DEF DownAsked
<1> QED
  BY <1>1, <1>2, <1>3, <1>4, <1>5

LEMMA ContinueStep ==
  ASSUME SdoAssumption, ClientAssumption, TransferInv, x.rep # Nothing, c.phase = "busy",
         x' = [x EXCEPT !.rep = Nothing], st' = st, served' = served, MoreToCome, Continue
  PROVE  TransferInv'
<1>1. IsServer(x') /\ x'.v = x.v /\ x'.mem = x.mem /\ x'.rep = Nothing /\ st' \in SdoStates
  BY ReplyTaken DEF TransferInv, TypesOK
<1>2. IsClient(c)
  BY DEF TransferInv, TypesOK
<1>3. /\ c.out = "none"
      /\ \/ FirstAsked /\ FirstAnswered
         \/ UpAsked /\ UpAnswered
         \/ DownAsked /\ DownAnswered
  BY SegmentCases
<1>4. /\ x.rep.kind = "Upload" => x.rep.size \in Nat
      /\ x.rep.kind = "UploadSegment" => x.rep.data \in Seq(Byte)
  BY <1>3 DEF FirstAnswered, UpAnswered, DownAnswered
<1>5. PICK now : /\ IsClient(now) /\ now.t = c.t /\ now.sent = c.sent
                 /\ now.lost = c.lost /\ now.out = c.out
                 /\ now.size = IF x.rep.kind = "Upload" THEN x.rep.size ELSE c.size
                 /\ now.got = IF x.rep.kind = "UploadSegment" THEN c.got \o x.rep.data ELSE c.got
                 /\ now.toggle = IF x.rep.kind \in {"UploadSegment", "DownloadSegment"}
                                 THEN ~c.toggle ELSE c.toggle
                 /\ Ask(now, [NextSegment EXCEPT !.toggle = now.toggle])
  BY <1>2, <1>4, ContinueFacts, Zenon
<1>6. PICK toggle : toggle = now.toggle
  OBVIOUS
<1>7. /\ IsClient(now) /\ now.t = c.t /\ now.sent = c.sent /\ now.out = "none"
      /\ Ask(now, [NextSegment EXCEPT !.toggle = now.toggle])
  BY <1>3, <1>5, Zenon
<1>8. /\ now.size = IF x.rep.kind = "Upload" THEN x.rep.size ELSE c.size
      /\ now.got = IF x.rep.kind = "UploadSegment" THEN c.got \o x.rep.data ELSE c.got
      /\ toggle = IF x.rep.kind \in {"UploadSegment", "DownloadSegment"} THEN ~c.toggle ELSE c.toggle
  BY <1>5, <1>6, Zenon
<1>9. c.toggle \in BOOLEAN
  BY <1>2 DEF IsClient
<1>10. ASSUME c.t.dir = "up", Uploading(x.v, c.t, now.size, now.got, served.bytes), x.v.toggle # toggle
       PROVE  TransferInv'
  BY <1>1, <1>6, <1>7, <1>10, UpContinues, Zenon
<1>11. ASSUME c.t.dir = "down", c.sent < Len(TransferData[c.t]),
              Downloading(x.v, c.t, c.sent), x.v.toggle # toggle
       PROVE  TransferInv'
  BY <1>1, <1>6, <1>7, <1>11, DownContinues, Zenon
<1>12. \/ x.rep.kind = "Upload" /\ x.rep.data = <<>> /\ x.rep.size > 0
       \/ x.rep.kind = "UploadSegment" /\ ~x.rep.last
       \/ x.rep.kind \in {"Download", "DownloadSegment"} /\ c.sent < Len(TransferData[c.t])
  BY DEF MoreToCome
<1>13. CASE FirstAsked /\ FirstAnswered
  <2>1. c.got = <<>> /\ ~c.toggle
    BY <1>13 DEF FirstAsked
  <2>2. CASE x.rep.kind = "Upload"
    <3>1. x.rep.data = <<>> /\ x.rep.size > 0
      BY <1>12, <2>2
    <3>2. Len(x.rep.data) # x.rep.size
      <4>1. PICK size : size = x.rep.size
        OBVIOUS
      <4>2. size > 0 /\ size \in Nat
        BY <1>4, <2>2, <3>1, <4>1
      <4>3. Len(<<>>) # size
        BY <4>2
      <4> QED
        BY <3>1, <4>1, <4>3
    <3>3. c.t.dir = "up" /\ Uploading(x.v, c.t, x.rep.size, <<>>, served.bytes) /\ x.v.toggle
      BY <1>13, <2>2, <3>2 DEF FirstAnswered
    <3>4. now.size = x.rep.size /\ now.got = <<>> /\ ~toggle
      BY <1>8, <1>9, <2>1, <2>2
    <3> QED
      BY <1>10, <3>3, <3>4
  <2>3. CASE x.rep.kind = "Download"
    <3>1. c.sent < Len(TransferData[c.t])
      BY <1>12, <2>3
    <3>2. c.sent # Len(TransferData[c.t])
      <4>1. PICK n : n = c.sent
        OBVIOUS
      <4>2. n \in Nat /\ n < Len(TransferData[c.t])
        BY <1>2, <3>1, <4>1 DEF IsClient
      <4> QED
        BY <4>1, <4>2
    <3>3. c.t.dir = "down" /\ Downloading(x.v, c.t, c.sent) /\ x.v.toggle
      BY <1>13, <2>3, <3>2 DEF FirstAnswered
    <3>4. ~toggle
      BY <1>8, <2>1, <2>3
    <3> QED
      BY <1>11, <3>1, <3>3, <3>4
  <2> QED
    BY <1>12, <1>13, <2>2, <2>3 DEF FirstAnswered
<1>14. CASE UpAsked /\ UpAnswered
  <2>1. x.rep.kind = "UploadSegment" /\ ~x.rep.last
    BY <1>12, <1>14 DEF UpAnswered
  <2>2. Uploading(x.v, c.t, c.size, c.got \o x.rep.data, served.bytes) /\ x.v.toggle = c.toggle
    BY <1>14, <2>1 DEF UpAnswered
  <2>3. now.size = c.size /\ now.got = c.got \o x.rep.data /\ toggle = ~c.toggle
    BY <1>8, <2>1
  <2>4. c.t.dir = "up"
    BY <1>14 DEF UpAsked
  <2> QED
    BY <1>9, <1>10, <2>2, <2>3, <2>4
<1>15. CASE DownAsked /\ DownAnswered
  <2>1. x.rep.kind = "DownloadSegment" /\ c.sent < Len(TransferData[c.t])
    BY <1>12, <1>15 DEF DownAnswered
  <2>2. c.sent # Len(TransferData[c.t])
    <3>1. PICK n : n = c.sent
      OBVIOUS
    <3>2. n \in Nat /\ n < Len(TransferData[c.t])
      BY <1>2, <2>1, <3>1 DEF IsClient
    <3> QED
      BY <3>1, <3>2
  <2>3. Downloading(x.v, c.t, c.sent) /\ x.v.toggle = c.toggle
    BY <1>15, <2>1, <2>2 DEF DownAnswered
  <2>4. toggle = ~c.toggle
    BY <1>8, <2>1
  <2>5. c.t.dir = "down"
    BY <1>15 DEF DownAsked
  <2> QED
    BY <1>9, <1>11, <2>1, <2>3, <2>4, <2>5
<1> QED
  BY <1>3, <1>13, <1>14, <1>15

LEMMA ReceiveStep ==
  ASSUME SdoAssumption, ClientAssumption, TransferInv, Receive
  PROVE  TransferInv'
<1>1. /\ c.phase # "idle" /\ x.rep # Nothing /\ x' = [x EXCEPT !.rep = Nothing]
      /\ st' = st /\ served' = served
  BY DEF Receive
<1>2. /\ IsServer(x') /\ x'.v = x.v /\ x'.mem = x.mem /\ x'.rep = Nothing /\ st' \in SdoStates
      /\ IsClient(c)
  BY <1>1, ReplyTaken DEF TransferInv, TypesOK
<1>3. c.phase \in {"busy", "aborting", "left"} /\ c.sent \in Nat /\ c.got \in Seq(Byte) /\ c.t \in Transfers
  BY <1>1, <1>2 DEF IsClient
<1>4. ASSUME NEW out, NEW why, NEW got \in Seq(Byte), End(out, why, got),
             out = "ok" /\ c.t.dir = "up" => Snapshot(c.t, got, served.bytes),
             out = "ok" /\ c.t.dir = "down" => Stored(c.t, x.mem, served.st),
             out = "refused" => Justified(c, why, served.st)
      PROVE  TransferInv'
  <2>1. req' = Nothing /\ c' = Ended(out, why, got)
    BY <1>4 DEF End
  <2> QED
    BY <1>1, <1>2, <1>4, <2>1, EndStep
<1>5. <<>> \in Seq(Byte)
  OBVIOUS
<1>6. CASE c.phase \in {"aborting", "left"}
  <2>1. End("dropped", "ok", <<>>)
    BY <1>6 DEF Receive
  <2> QED
    BY <1>4, <1>5, <2>1
<1>7. CASE c.phase = "busy"
  <2>1. \/ FirstAsked /\ FirstAnswered
        \/ UpAsked /\ UpAnswered
        \/ DownAsked /\ DownAnswered
    BY <1>1, <1>7, SegmentCases
  <2>2. CASE x.rep.kind = "Abort"
    <3>1. PICK code : code = x.rep.code
      OBVIOUS
    <3>2. End("refused", code, <<>>)
      BY <1>7, <2>2, <3>1 DEF Receive
    <3>3. Justified(c, code, served.st)
      <4>1. c.lost > 0 => c.lost # 0
        BY <1>2 DEF IsClient
      <4> QED
        BY <2>1, <2>2, <3>1, <4>1 DEF FirstAnswered, UpAnswered, DownAnswered, Justified
    <3> QED
      BY <1>4, <1>5, <3>2, <3>3
  <2>3. CASE x.rep.kind # "Abort" /\ MoreToCome
    <3>1. Continue
      BY <1>7, <2>3 DEF Receive
    <3> QED
      BY <1>1, <1>7, <2>3, <3>1, ContinueStep
  <2>4. CASE x.rep.kind = "Upload" /\ ~MoreToCome
    <3>1. FirstAnswered
      BY <2>1, <2>4 DEF UpAnswered, DownAnswered
    <3>2. c.t.dir = "up" /\ x.rep.data \in Seq(Byte)
          /\ Len(x.rep.data) = x.rep.size /\ Snapshot(c.t, x.rep.data, served.bytes)
      <4>1. ~(x.rep.data = <<>> /\ x.rep.size > 0)
        BY <2>4 DEF MoreToCome
      <4> QED
        BY <2>4, <3>1, <4>1 DEF FirstAnswered
    <3>3. PICK got \in Seq(Byte) : got = x.rep.data
      BY <3>2
    <3>4. Complete(x.rep.data, x.rep.size)
      BY <1>7, <2>4 DEF Receive
    <3>5. End("ok", "ok", got)
      BY <3>2, <3>3, <3>4 DEF Complete
    <3> QED
      BY <1>4, <3>2, <3>3, <3>5
  <2>5. CASE x.rep.kind = "UploadSegment" /\ ~MoreToCome
    <3>1. UpAsked /\ UpAnswered
      BY <2>1, <2>5 DEF FirstAnswered, DownAnswered
    <3>2. PICK got : got = c.got \o x.rep.data
      OBVIOUS
    <3>3. x.rep.data \in Seq(Byte) /\ Len(got) = c.size /\ Snapshot(c.t, got, served.bytes)
      <4>1. ~(~x.rep.last /\ Len(c.got \o x.rep.data) <= c.size)
        BY <2>5 DEF MoreToCome
      <4> QED
        BY <2>5, <3>1, <3>2, <4>1 DEF UpAnswered
    <3>4. got \in Seq(Byte)
      <4>1. PICK a \in Seq(Byte) : a = c.got
        BY <1>3
      <4>2. PICK b \in Seq(Byte) : b = x.rep.data
        BY <3>3
      <4>3. a \o b \in Seq(Byte)
        BY ConcatProperties
      <4> QED
        BY <3>2, <4>1, <4>2, <4>3
    <3>5. Complete(got, c.size)
      BY <1>7, <2>5, <3>2 DEF Receive
    <3>6. End("ok", "ok", got)
      BY <3>3, <3>5 DEF Complete
    <3>7. c.t.dir = "up"
      BY <3>1 DEF UpAsked
    <3> QED
      BY <1>4, <3>3, <3>4, <3>6, <3>7
  <2>6. CASE x.rep.kind \notin {"Abort", "Upload", "UploadSegment"} /\ ~MoreToCome
    <3>1. End("ok", "ok", <<>>)
      BY <1>7, <2>6 DEF Receive
    <3>2. c.t.dir = "down" /\ Stored(c.t, x.mem, served.st)
      <4>1. x.rep.kind \in {"Download", "DownloadSegment"}
        BY <2>1, <2>6 DEF FirstAnswered, UpAnswered, DownAnswered
      <4>2. ~(c.sent < Len(TransferData[c.t]))
        BY <2>6, <4>1 DEF MoreToCome
      <4>3. ~Downloading(x.v, c.t, c.sent)
        BY <4>2 DEF Downloading
      <4> QED
        BY <2>1, <2>6, <4>3 DEF FirstAnswered, UpAnswered, DownAsked, DownAnswered
    <3> QED
      BY <1>4, <1>5, <3>1, <3>2
  <2> QED
    BY <2>2, <2>3, <2>4, <2>5, <2>6
<1> QED
  BY <1>3, <1>6, <1>7

LEMMA GiveUpStep ==
  ASSUME TransferInv, GiveUp
  PROVE  TransferInv'
<1>1. /\ c.phase = "busy" /\ x.rep # Nothing /\ x' = [x EXCEPT !.rep = Nothing]
      /\ req' = [kind |-> "Abort"] /\ st' = st /\ served' = served
      /\ c' = [c EXCEPT !.phase = "aborting", !.ask = [kind |-> "Abort"]]
  BY DEF GiveUp
<1>2. IsServer(x') /\ x'.rep = Nothing /\ IsClient(c)
  BY <1>1, ReplyTaken DEF TransferInv, TypesOK
<1>3. c.out = "none"
  BY <1>1, SegmentCases
<1>4. /\ DOMAIN c' = ClientFields /\ c'.phase = "aborting" /\ c'.ask = [kind |-> "Abort"]
      /\ c'.t = c.t /\ c'.toggle = c.toggle /\ c'.size = c.size /\ c'.sent = c.sent
      /\ c'.lost = c.lost /\ c'.got = c.got /\ c'.out = "none"
  BY <1>1, <1>2, <1>3 DEF IsClient, ClientFields
<1>5. c'.ask.kind = "Abort"
  BY <1>4
<1>6. TypesOK'
  BY <1>1, <1>2, <1>4 DEF TransferInv, TypesOK, IsClient
<1>7. InTurn'
  BY <1>1, <1>2, <1>4, <1>5 DEF InTurn
<1>8. Outcome'
  BY <1>4 DEF Outcome
<1> QED
  BY <1>4, <1>5, <1>6, <1>7, <1>8 DEF TransferInv

LEMMA LoseReplyStep ==
  ASSUME TransferInv, LoseReply
  PROVE  TransferInv'
<1>1. /\ c.phase \in {"busy", "aborting"} /\ x.rep # Nothing
      /\ x' = [x EXCEPT !.rep = Nothing]
      /\ req' = c.ask /\ st' = st /\ served' = served
      /\ c' = [c EXCEPT !.lost = @ + 1]
  BY DEF LoseReply
<1>2. /\ IsServer(x') /\ x'.v = x.v /\ x'.rep = Nothing /\ x'.rep.kind = "Nothing"
      /\ IsClient(c)
  BY <1>1, ReplyTaken DEF TransferInv, TypesOK
<1>3. c.out = "none" /\ c.ask.kind # "Nothing"
  BY <1>1 DEF TransferInv, InTurn
<1>4. PICK lost \in Nat : lost = c.lost
  BY <1>2 DEF IsClient
<1>5. PICK more \in Nat : more = lost + 1
  OBVIOUS
<1>6. c' = [c EXCEPT !.lost = more] /\ more > 0
  <2>1. DOMAIN c = ClientFields
    BY <1>2 DEF IsClient
  <2>2. c.lost + 1 = more
    BY <1>4, <1>5
  <2>3. c' = [c EXCEPT !.lost = c.lost + 1]
    BY <1>1, <2>1 DEF ClientFields
  <2> QED
    BY <1>5, <2>2, <2>3
<1>7. /\ DOMAIN c' = ClientFields /\ c'.phase = c.phase /\ c'.ask = c.ask /\ c'.t = c.t
      /\ c'.toggle = c.toggle /\ c'.size = c.size /\ c'.sent = c.sent /\ c'.got = c.got
      /\ c'.lost = more /\ c'.out = "none"
  BY <1>2, <1>3, <1>6 DEF IsClient, ClientFields
<1>8. TypesOK'
  BY <1>1, <1>2, <1>7 DEF TransferInv, TypesOK, IsClient
<1>9. InTurn'
  BY <1>1, <1>2, <1>3, <1>7 DEF InTurn
<1>10. Outcome'
  BY <1>7 DEF Outcome
<1>11. /\ c'.phase = "aborting" => c'.ask.kind = "Abort"
       /\ c'.phase # "left"
  BY <1>1, <1>7 DEF TransferInv
<1>12. ASSUME c.phase = "busy"
       PROVE  (FirstAsked \/ UpAsked \/ DownAsked)'
  <2>1. \/ FirstAsked /\ FirstAnswered
        \/ UpAsked /\ UpAnswered
        \/ DownAsked /\ DownAnswered
    BY <1>1, <1>12, SegmentCases
  <2>2. CASE FirstAsked
    <3>1. FirstAsked'
      BY <1>2, <1>7, <2>2 DEF FirstAsked
    <3> QED
      BY <3>1
  <2>3. CASE UpAsked /\ UpAnswered
    <3>1. Behind(x.v, "UploadSegment", c.toggle)
      BY <2>3 DEF UpAnswered, Uploading, Behind
    <3>2. UpAsked'
      BY <1>2, <1>6, <1>7, <2>3, <3>1 DEF UpAsked
    <3> QED
      BY <3>2
  <2>4. CASE DownAsked /\ DownAnswered
    <3>1. Behind(x.v, "DownloadSegment", c.toggle)
      BY <2>4 DEF DownAnswered, Downloading, Behind
    <3>2. PICK from \in Nat : SegmentOf(c.ask, TransferData[c.t], from, c.sent)
      BY <2>4 DEF DownAsked
    <3>3. c.t.dir = "down" /\ c.ask.toggle = c.toggle
      BY <2>4 DEF DownAsked
    <3>4. DownAsked'
      BY <1>2, <1>6, <1>7, <3>1, <3>2, <3>3 DEF DownAsked
    <3> QED
      BY <3>4
  <2> QED
    BY <2>1, <2>2, <2>3, <2>4
<1> QED
  BY <1>7, <1>8, <1>9, <1>10, <1>11, <1>12 DEF TransferInv

LEMMA ChangeStateStep ==
  ASSUME TransferInv, ChangeState
  PROVE  TransferInv'
<1>1. x' = x /\ req' = req /\ c' = c /\ served' = served /\ st' \in SdoStates
  BY DEF ChangeState, SdoStates
<1>2. FirstAnswered' <=> FirstAnswered
  BY <1>1 DEF FirstAnswered
<1>3. UpAnswered' <=> UpAnswered
  BY <1>1 DEF UpAnswered
<1>4. DownAnswered' <=> DownAnswered
  BY <1>1 DEF DownAnswered
<1>5. FirstAsked' <=> FirstAsked
  BY <1>1, <1>2 DEF FirstAsked
<1>6. UpAsked' <=> UpAsked
  BY <1>1, <1>3 DEF UpAsked
<1>7. DownAsked' <=> DownAsked
  BY <1>1, <1>4 DEF DownAsked
<1>8. TypesOK'
  BY <1>1 DEF TransferInv, TypesOK
<1>9. InTurn'
  BY <1>1 DEF TransferInv, InTurn
<1>10. Outcome'
  BY <1>1 DEF TransferInv, Outcome
<1> QED
  BY <1>1, <1>5, <1>6, <1>7, <1>8, <1>9, <1>10 DEF TransferInv

\* The master's transfer, if there is one, comes to nothing.
LEMMA AbandonedStep ==
  ASSUME TransferInv, IsServer(x'), x'.rep = Nothing, x'.mem = x.mem,
         st' = "Init", req' = Nothing, served' = served, c' = Abandoned
  PROVE  TransferInv'
<1>1. st' \in SdoStates
  BY DEF SdoStates
<1>2. CASE c.phase # "idle"
  <2>1. c' = Ended("dropped", "ok", <<>>)
    BY <1>2 DEF Abandoned
  <2>2. <<>> \in Seq(Byte)
    OBVIOUS
  <2> QED
    BY <1>1, <2>1, <2>2, EndStep
<1>3. CASE c.phase = "idle"
  <2>1. c' = c
    BY <1>3 DEF Abandoned
  <2>2. TypesOK'
    BY <1>1, <2>1 DEF TransferInv, TypesOK
  <2>3. InTurn'
    BY <1>3, <2>1 DEF InTurn
  <2>4. Outcome'
    BY <2>1 DEF TransferInv, Outcome
  <2> QED
    BY <1>3, <2>1, <2>2, <2>3, <2>4 DEF TransferInv
<1> QED
  BY <1>2, <1>3

\* What is queued stays there, in step with the transfer that was given up.
LEMMA LeftStep ==
  ASSUME TransferInv, c.phase # "idle", x' = x, req' = req, served' = served,
         st' = "Init", c' = [c EXCEPT !.phase = "left"]
  PROVE  TransferInv'
<1>1. IsClient(c)
  BY DEF TransferInv, TypesOK
<1>2. /\ DOMAIN c' = ClientFields /\ c'.phase = "left" /\ c'.ask = c.ask /\ c'.t = c.t
      /\ c'.toggle = c.toggle /\ c'.size = c.size /\ c'.sent = c.sent /\ c'.got = c.got
      /\ c'.lost = c.lost /\ c'.out = c.out /\ c'.why = c.why
  BY <1>1 DEF IsClient, ClientFields
<1>3. FirstAnswered => FirstAnswered'
  BY <1>2 DEF FirstAnswered, Justified
<1>4. UpAnswered => UpAnswered'
  BY <1>2 DEF UpAnswered
<1>5. DownAnswered => DownAnswered'
  BY <1>2 DEF DownAnswered, Justified
<1>6. FirstAsked => FirstAsked'
  BY <1>2, <1>3 DEF FirstAsked
<1>7. UpAsked => UpAsked'
  BY <1>2, <1>4 DEF UpAsked
<1>8. DownAsked => DownAsked'
  BY <1>2, <1>5 DEF DownAsked
<1>9. TypesOK'
  BY <1>2 DEF TransferInv, TypesOK, IsClient, SdoStates
<1>10. InTurn'
  BY <1>2 DEF TransferInv, InTurn
<1>11. Outcome'
  BY <1>2 DEF TransferInv, Outcome, Justified
<1>12. FirstAsked \/ UpAsked \/ DownAsked \/ c.ask.kind = "Abort"
  BY <1>1 DEF TransferInv, IsClient
<1>13. (FirstAsked \/ UpAsked \/ DownAsked \/ c.ask.kind = "Abort")'
  BY <1>2, <1>6, <1>7, <1>8, <1>12
<1> QED
  BY <1>2, <1>9, <1>10, <1>11, <1>13 DEF TransferInv

LEMMA BackToInitStep ==
  ASSUME TransferInv, BackToInit
  PROVE  TransferInv' /\ x'.mem = x.mem
<1>1. st' = "Init" /\ served' = served
  BY DEF BackToInit
<1>2. CASE req' = Nothing /\ x' = [x EXCEPT !.rep = Nothing] /\ c' = Abandoned
  <2>1. IsServer(x') /\ x'.rep = Nothing /\ x'.mem = x.mem
    BY <1>2, ReplyTaken DEF TransferInv, TypesOK
  <2> QED
    BY <1>1, <1>2, <2>1, AbandonedStep
<1>3. CASE c.phase # "idle" /\ c' = [c EXCEPT !.phase = "left"] /\ x' = x /\ req' = req
  BY <1>1, <1>3, LeftStep
<1> QED
  BY <1>2, <1>3 DEF BackToInit

LEMMA OnResetStep ==
  ASSUME SdoAssumption, TransferInv, OnReset
  PROVE  TransferInv' /\ x'.mem = x.mem
<1>1. /\ st' = "Init" /\ req' = Nothing /\ served' = served /\ c' = Abandoned
      /\ x' = [EndSession(x) EXCEPT !.rep = Nothing]
  BY DEF OnReset
<1>2. PICK y : y = EndSession(x)
  OBVIOUS
<1>3. IsServer(x) /\ DOMAIN x = ServerFields
  BY DEF TransferInv, TypesOK, IsServer, ServerFields
<1>4. DOMAIN y = ServerFields /\ y.v = NoSession /\ y.mem = x.mem
  BY <1>2, <1>3, EndSessionEffect
<1>5. IsServer(y)
  BY <1>3, <1>4, NoSessionIsSession DEF IsServer, ServerFields
<1>6. x' = [y EXCEPT !.rep = Nothing]
  BY <1>1, <1>2
<1>7. IsServer(x') /\ x'.rep = Nothing /\ x'.mem = y.mem
  BY <1>5, <1>6, ReplyTaken
<1> QED
  BY <1>1, <1>4, <1>7, AbandonedStep

LEMMA StutterStep ==
  ASSUME TransferInv, UNCHANGED vars
  PROVE  TransferInv'
<1>1. x' = x /\ req' = req /\ c' = c /\ served' = served /\ st' = st
  BY DEF vars
<1>2. FirstAnswered' <=> FirstAnswered
  BY <1>1 DEF FirstAnswered
<1>3. UpAnswered' <=> UpAnswered
  BY <1>1 DEF UpAnswered
<1>4. DownAnswered' <=> DownAnswered
  BY <1>1 DEF DownAnswered
<1>5. FirstAsked' <=> FirstAsked
  BY <1>1, <1>2 DEF FirstAsked
<1>6. UpAsked' <=> UpAsked
  BY <1>1, <1>3 DEF UpAsked
<1>7. DownAsked' <=> DownAsked
  BY <1>1, <1>4 DEF DownAsked
<1>8. TypesOK'
  BY <1>1 DEF TransferInv, TypesOK
<1>9. InTurn'
  BY <1>1 DEF TransferInv, InTurn
<1>10. Outcome'
  BY <1>1 DEF TransferInv, Outcome
<1> QED
  BY <1>1, <1>5, <1>6, <1>7, <1>8, <1>9, <1>10 DEF TransferInv

-------------------------------------------------------------------------------
(* The theorems. *)

LEMMA InitIsInTurn ==
  ASSUME SdoAssumption, ClientAssumption, Init
  PROVE  TransferInv
<1>1. Initial \in Values
  BY DEF Initial, SdoAssumption
<1>2. \E t \in Transfers : TRUE
  <2>1. PICK to \in Targets : TRUE
    BY DEF ClientAssumption
  <2>2. PICK first : first = CHOOSE val \in Values : TRUE
    OBVIOUS
  <2> DEFINE up == {[dir |-> "up", to |-> tt, val |-> first, err |-> 0] : tt \in Targets}
  <2>3. up \subseteq Transfers
    BY <2>2 DEF Transfers
  <2>4. [dir |-> "up", to |-> to, val |-> first, err |-> 0] \in up
    BY <2>1
  <2> QED
    BY <2>3, <2>4
<1>3. PICK t : t = CHOOSE tr \in Transfers : TRUE
  OBVIOUS
<1>4. t \in Transfers
  BY <1>2, <1>3
<1>5. c = NewTransfer(0, t)
  BY <1>3 DEF Init
<1>6. IsClient(c) /\ c.phase = "idle" /\ c.out = "none"
  BY <1>4, <1>5, NewTransferFacts
<1>7. PICK mem : mem = [o \in Objects |-> [i \in EntryIds(o) |-> Initial]]
  OBVIOUS
<1>8. IsMemory(mem)
  BY <1>1, <1>7 DEF IsMemory
<1>9. x = [v |-> NoSession, mem |-> mem, rep |-> Nothing]
  BY <1>7 DEF Init
<1>10. IsServer(x) /\ x.rep = Nothing
  <2>1. DOMAIN x = ServerFields /\ x.v = NoSession /\ x.mem = mem /\ x.rep = Nothing
    BY <1>9 DEF ServerFields
  <2> QED
    BY <1>8, <2>1, NoSessionIsSession DEF IsServer, ServerFields
<1>11. st \in SdoStates /\ req = Nothing /\ served.bytes = <<>>
  BY DEF Init, SdoStates
<1>12. TypesOK
  BY <1>6, <1>10, <1>11 DEF TypesOK
<1> QED
  BY <1>6, <1>10, <1>11, <1>12 DEF TransferInv, InTurn, Outcome

LEMMA StepKeepsTurn ==
  ASSUME SdoAssumption, ClientAssumption, Roomy, Waits, TransferInv, [Next]_vars
  PROVE  TransferInv'
<1>1. CASE Start
  BY <1>1, StartStep
<1>2. CASE Serve
  BY <1>2, ServeStep
<1>3. CASE Receive
  BY <1>3, ReceiveStep
<1>4. CASE GiveUp
  BY <1>4, GiveUpStep
<1>5. CASE LoseReply
  BY <1>5, LoseReplyStep
<1>6. CASE ChangeState
  BY <1>6, ChangeStateStep
<1>7. CASE BackToInit
  BY <1>7, BackToInitStep
<1>8. CASE OnReset
  BY <1>8, OnResetStep
<1>9. CASE UNCHANGED vars
  BY <1>9, StutterStep
<1> QED
  BY <1>1, <1>2, <1>3, <1>4, <1>5, <1>6, <1>7, <1>8, <1>9 DEF Next

LEMMA TransfersInTurn ==
  ASSUME Roomy, Waits
  PROVE  Spec => []TransferInv
<1>1. Init => TransferInv
  BY SdoAssumption, ClientAssumption, InitIsInTurn
<1>2. TransferInv /\ [Next]_vars => TransferInv'
  BY SdoAssumption, ClientAssumption, StepKeepsTurn
<1> QED
  BY <1>1, <1>2, PTL DEF Spec

\* The sessions of the server stay within their bounds and its entries hold
\* whole values, for every dictionary, whatever the master does
\* (HandleDownloadSegment, HandleUploadSegment, Write).
THEOREM SdoTypesAreOK ==
  ASSUME Roomy, Waits
  PROVE  Spec => []TypeOK
<1>1. TransferInv => TypeOK
  <2>1. SUFFICES ASSUME TransferInv
                 PROVE  TypeOK
    OBVIOUS
  <2>2. IsSession(x.v) /\ IsMemory(x.mem) /\ st \in SdoStates
    BY <2>1 DEF TransferInv, TypesOK, IsServer
  <2>3. PICK v : v = x.v
    OBVIOUS
  <2>4. /\ v.cmd \in {"DownloadSegment", "UploadSegment"} /\ v.obj \in Objects \cup {NoObject}
        /\ v.done \in Nat /\ v.total \in Nat /\ v.done <= v.total /\ v.total <= SegmentCapacity
        /\ Len(v.buf) = (IF v.cmd = "UploadSegment" THEN v.total ELSE v.done)
    BY <2>2, <2>3 DEF IsSession
  <2>5. v.done \in 0..v.total /\ v.total \in 0..SegmentCapacity
    <3>1. PICK done \in Nat : done = v.done
      BY <2>4
    <3>2. PICK total \in Nat : total = v.total
      BY <2>4
    <3>3. done <= total /\ total <= SegmentCapacity /\ SegmentCapacity \in Nat
      BY <2>4, <3>1, <3>2, SdoAssumption DEF SdoAssumption
    <3>4. done \in 0..total /\ total \in 0..SegmentCapacity
      BY <3>3
    <3> QED
      BY <3>1, <3>2, <3>4
  <2>6. \A o \in Objects : x.mem[o] \in [EntryIds(o) -> Values]
    BY <2>2 DEF IsMemory
  <2> QED
    BY <2>2, <2>3, <2>4, <2>5, <2>6 DEF TypeOK
<1> QED
  BY <1>1, TransfersInTurn, PTL

\* An upload that the master takes for complete is what the object held when the
\* server took the request, whatever other objects there are, 0x1C32 among
\* them; the upload itself is one of an object whose announced length is its own
\* (BuildUpload, HandleUploadSegment).
THEOREM UploadsAreSnapshots ==
  ASSUME Roomy, Waits
  PROVE  Spec => []UploadIsSnapshot
<1>1. TransferInv => UploadIsSnapshot
  BY DEF TransferInv, Outcome, Snapshot, UploadIsSnapshot
<1> QED
  BY <1>1, TransfersInTurn, PTL

\* A download that the server confirms has stored its value in every entry that
\* it may write, with INIT, resets and lost replies between the requests, for a
\* master that waits for what is on its way (BuildDownload,
\* HandleDownloadSegment, EcatDictionary::Write).
THEOREM DownloadsAreStored ==
  ASSUME Roomy, HasBits, Waits
  PROVE  Spec => []DownloadIsStored
<1>1. TransferInv => DownloadIsStored
  BY DEF TransferInv, Outcome, Stored, DownloadIsStored
<1> QED
  BY <1>1, TransfersInTurn, PTL

\* A transfer of which no reply was lost is refused for a reason of its own, or
\* because SM0 is shorter than the server takes it to be, or because the length
\* announced for an object is not its length, whatever SM0 and the dictionary
\* are; never for what an earlier transfer left (EcatSdo::Handle and all it calls).
THEOREM RefusalsHaveReasons ==
  ASSUME Roomy, Waits
  PROVE  Spec => []RefusalsAreExplained
<1>1. TransferInv => RefusalsAreExplained
  BY DEF TransferInv, Outcome, Justified, Explained, RefusalsAreExplained
<1> QED
  BY <1>1, TransfersInTurn, PTL

\* What OnlyDownloadsWrite says of a step.
WriteOfDownload ==
  \A o \in Objects \ Projected : x.mem'[o] # x.mem[o] =>
    /\ o = c.t.to.obj /\ c.t.dir = "down" /\ c.sent = Len(TransferData[c.t])
    /\ \A i \in EntryIds(o) : x.mem'[o][i] \in {x.mem[o][i], c.t.val}
    /\ \/ x.rep'.kind = req.kind
       \/ c.t.to.ca /\ x.rep'.kind = "Abort" /\ x.rep'.code = "TooShort"

LEMMA SameValues ==
  ASSUME NEW D, NEW R, NEW f \in [D -> R], NEW g \in [D -> R], \A i \in D : f[i] = g[i]
  PROVE  f = g
OBVIOUS

LEMMA ServeWrites ==
  ASSUME SdoAssumption, ClientAssumption, Roomy, HasBits, TransferInv, Serve
  PROVE  WriteOfDownload
<1>1. AnswerFor(Project(x.mem)) /\ req = c.ask
  BY ServeStep, RequestIsServed
<1>2. PICK before : before = Project(x.mem)
  OBVIOUS
<1>3. IsMemory(before) /\ IsMemory(x'.mem) /\ \A o \in Objects \ Projected : before[o] = x.mem[o]
  <2>1. IsMemory(x.mem)
    BY DEF TransferInv, TypesOK, IsServer
  <2>2. IsMemory(x'.mem)
    BY <1>1 DEF AnswerFor, IsServer
  <2> QED
    BY <1>2, <2>1, <2>2, ProjectFacts
<1>4. CASE x'.mem = before
  <2>1. \A o \in Objects \ Projected : x'.mem[o] = x.mem[o]
    BY <1>3, <1>4
  <2> QED
    BY <2>1, Zenon DEF WriteOfDownload
<1>5. CASE /\ c.t.dir = "down" /\ c.sent = Len(TransferData[c.t])
           /\ \E reply : reply.kind = c.ask.kind /\ Decided(c.t, st, before, x', reply)
  <2>1. PICK reply : reply.kind = c.ask.kind /\ Decided(c.t, st, before, x', reply)
    BY <1>5
  <2>2. Wrote(c.t, st, before, x'.mem)
    BY <2>1 DEF Decided
  <2>3. SUFFICES ASSUME NEW o \in Objects \ Projected, x'.mem[o] # x.mem[o]
                 PROVE  /\ o = c.t.to.obj
                        /\ \A i \in EntryIds(o) : x'.mem[o][i] \in {x.mem[o][i], c.t.val}
                        /\ \/ x'.rep.kind = req.kind
                           \/ c.t.to.ca /\ x'.rep.kind = "Abort" /\ x'.rep.code = "TooShort"
    BY <1>5 DEF WriteOfDownload
  <2>4. o = c.t.to.obj /\ before[o] = x.mem[o]
    <3>1. before[o] = x.mem[o]
      BY <1>3
    <3>2. \A p \in Objects \ {c.t.to.obj} : x'.mem[p] = before[p]
      BY <2>2 DEF Wrote
    <3> QED
      BY <2>3, <3>1, <3>2
  <2>5. \A i \in EntryIds(o) : x'.mem[o][i] \in {x.mem[o][i], c.t.val}
    BY <2>2, <2>4 DEF Wrote
  <2>6. ~\A i \in EntryIds(o) : x'.mem[o][i] = before[o][i]
    <3>1. x'.mem[o] \in [EntryIds(o) -> Values] /\ before[o] \in [EntryIds(o) -> Values]
      BY <1>3 DEF IsMemory
    <3>2. PICK f \in [EntryIds(o) -> Values] : f = x'.mem[o]
      BY <3>1
    <3>3. PICK g \in [EntryIds(o) -> Values] : g = before[o]
      BY <3>1
    <3>4. (\A i \in EntryIds(o) : f[i] = g[i]) => f = g
      BY SameValues
    <3> QED
      BY <2>3, <2>4, <3>2, <3>3, <3>4
  <2>7. \/ x'.rep = reply
        \/ x'.rep.kind = "Abort" /\ c.t.to.ca /\ x'.rep.code = "TooShort"
    BY <2>1, <2>4, <2>6 DEF Decided
  <2> QED
    BY <1>1, <2>1, <2>4, <2>5, <2>7
<1> QED
  BY <1>1, <1>2, <1>4, <1>5 DEF AnswerFor

\* An object changes by a download only, when all its data are there, to the
\* value of this download, and in the step that confirms it, or that finds the
\* data of a Complete Access too short (HandleDownloadSegment,
\* EcatDictionary::Write).
THEOREM DownloadsAloneWrite ==
  ASSUME Roomy, HasBits, Waits
  PROVE  Spec => OnlyDownloadsWrite
<1>1. TransferInv /\ [Next]_vars => [WriteOfDownload]_vars
  <2>1. SUFFICES ASSUME TransferInv, [Next]_vars
                 PROVE  [WriteOfDownload]_vars
    OBVIOUS
  <2>2. CASE Serve
    BY <2>1, <2>2, SdoAssumption, ClientAssumption, ServeWrites
  <2>3. ASSUME x'.mem = x.mem
        PROVE  WriteOfDownload
    BY <2>3 DEF WriteOfDownload
  <2>4. CASE Start
    BY <2>3, <2>4 DEF Start
  <2>5. ASSUME x' = [x EXCEPT !.rep = Nothing]
        PROVE  WriteOfDownload
    <3>1. x'.mem = x.mem
      BY <2>1, <2>5, ReplyTaken DEF TransferInv, TypesOK
    <3> QED
      BY <2>3, <3>1
  <2>6. CASE Receive
    BY <2>5, <2>6 DEF Receive
  <2>7. CASE GiveUp
    BY <2>5, <2>7 DEF GiveUp
  <2>8. CASE LoseReply
    BY <2>5, <2>8 DEF LoseReply
  <2>9. CASE ChangeState
    BY <2>3, <2>9 DEF ChangeState
  <2>10. CASE BackToInit
    BY <2>1, <2>3, <2>10, BackToInitStep
  <2>11. CASE OnReset
    BY <2>1, <2>3, <2>11, SdoAssumption, OnResetStep
  <2>12. CASE UNCHANGED vars
    BY <2>12
  <2> QED
    BY <2>1, <2>2, <2>4, <2>6, <2>7, <2>8, <2>9, <2>10, <2>11, <2>12 DEF Next
<1> QED
  BY <1>1, TransfersInTurn, PTL DEF Spec, OnlyDownloadsWrite, WriteOfDownload
===============================================================================

------------------------------ MODULE EcatSdoOps ------------------------------
(***************************************************************************)
(* The SDO server (class EcatSdo) on the object dictionary (EcatDictionary)*)
(* as functions of a record x:                                             *)
(*   x.v    the members of EcatSdo                                         *)
(*     cmd     segment_command_: which segments belong to the session.  No *)
(*             session is 0, the command of a download segment             *)
(*     obj sub ca   segment_index_, segment_sub_index_,                    *)
(*                  segment_complete_access_                               *)
(*     total done toggle   segment_total_size_, segment_handled_,          *)
(*                  last_toggle_                                           *)
(*     buf     what segment_buffer_ holds of the session                   *)
(*   x.mem  the values of the entries, ObjectData                          *)
(*   x.rep  the reply, written into the frame of the request               *)
(*                                                                         *)
(* A byte names the entry it belongs to, its place and the value it is of. *)
(* in_work_ is always FALSE, and frames shorter than an SDO header, which  *)
(* end in a mailbox error, are not sent by the masters considered.         *)
(***************************************************************************)
EXTENDS Naturals, Sequences, FiniteSets, FiniteSetsExt

CONSTANTS
  Dictionary,      \* name of an object -> its description, see Descriptions
  MaxMailbox,      \* kMaxMailboxSize
  SegmentCapacity, \* kSegmentCapacity
  Values           \* bound: the values of an entry

SdoStates == {"Init", "PreOp", "SafeOp", "Op"}

Entries == [bits : Nat, read : SUBSET SdoStates, write : SUBSET SdoStates]

\* An object is a variable with one entry, or it has the entries 1..n.
Descriptions == [variable : BOOLEAN, entries : Seq(Entries)]

Objects == DOMAIN Dictionary

\* Index 0, which no object has.
NoObject == "none"

ASSUME SdoAssumption ==
  /\ NoObject \notin Objects
  /\ \A o \in Objects :
       /\ Dictionary[o] \in Descriptions
       /\ Dictionary[o].variable => Len(Dictionary[o].entries) = 1
  /\ MaxMailbox \in Nat /\ MaxMailbox > 16
  /\ SegmentCapacity \in Nat
  /\ Values # {}

-------------------------------------------------------------------------------
(* The dictionary.                                                         *)

SubCountOf(o) == IF Dictionary[o].variable THEN 0 ELSE Len(Dictionary[o].entries)

\* Entry 0 of an array or a record is the count of the others.
EntryDescriptionOf(o, s) ==
  CASE Dictionary[o].variable -> Dictionary[o].entries[1]
    [] ~Dictionary[o].variable /\ s > 0 -> Dictionary[o].entries[s]
    [] OTHER -> [bits |-> 8, read |-> {"PreOp", "SafeOp", "Op"}, write |-> {}]

HasEntry(o, s) == s <= SubCountOf(o)

ByteWidthOf(bits) == (bits + 7) \div 8

LengthOf(o, s) ==
  IF HasEntry(o, s) THEN ByteWidthOf(EntryDescriptionOf(o, s).bits) ELSE 0

\* The length of an object in Complete Access: the bits of all its entries are
\* added up, whoever may access them, and the count takes two bytes.
TotalLengthOf(o, s) ==
  IF Dictionary[o].variable THEN 0
  ELSE ByteWidthOf(MapThenSumSet(LAMBDA i : EntryDescriptionOf(o, i).bits, 1..SubCountOf(o)))
       + (IF s = 0 THEN 2 ELSE 0)

Accessible(o, s) ==
  HasEntry(o, s) /\ (EntryDescriptionOf(o, s).read # {} \/ EntryDescriptionOf(o, s).write # {})

\* The entries that Complete Access from sub-index s on transfers, and the
\* width and the place of each.
Transferred(o, s) == {i \in s..SubCountOf(o) : i = 0 \/ Accessible(o, i)}

WidthInObject(o, i) == IF i = 0 THEN 2 ELSE LengthOf(o, i)

BytesBefore(o, s, i) ==
  UNION {{j} \X (1..WidthInObject(o, j)) : j \in {j \in Transferred(o, s) : j < i}}

OffsetInObject ==
  [o \in Objects |-> [s \in 0..SubCountOf(o) |-> [i \in s..(SubCountOf(o) + 1) |->
     Cardinality(BytesBefore(o, s, i))]]]

EntryBytes(o, s, width, val) == [k \in 1..width |-> <<o, s, k, val>>]

\* Bytes of nobody: what a buffer holds past the data written into it.
Stale == <<"stale">>

PadTo(bytes, size) == bytes \o [k \in 1..(size - Len(bytes)) |-> Stale]

\* The entries, each from the place that it has in the object: a byte belongs to
\* the entry whose place it is in.
Placed(o, entries, at, vals) ==
  [k \in 1..at[SubCountOf(o) + 1] |->
     LET i == CHOOSE i \in entries : k \in (at[i] + 1)..(at[i] + WidthInObject(o, i))
     IN  <<o, i, k - at[i], vals[i]>>]

\* What Complete Access transfers when the entries have these values.
ObjectBytes(o, s, vals) == Placed(o, Transferred(o, s), OffsetInObject[o][s], vals)

\* Read(): refused, or the bytes read.
ReadRefusal(o, s, ca, st) ==
  IF ca THEN IF Dictionary[o].variable THEN "UnsupportedAccess" ELSE "ok"
  ELSE IF ~Accessible(o, s) \/ EntryDescriptionOf(o, s).read = {} THEN "UnsupportedAccess"
  ELSE IF st \notin EntryDescriptionOf(o, s).read THEN "NotInThisState"
  ELSE "ok"

ReadBytes(o, s, ca, mem) ==
  IF ca THEN ObjectBytes(o, s, mem[o]) ELSE EntryBytes(o, s, LengthOf(o, s), mem[o][s])

\* The value that so many bytes give an entry.
Mixture == "mixture"
ValueOf(o, i, bytes) ==
  IF \E val \in Values : bytes = EntryBytes(o, i, Len(bytes), val)
  THEN CHOOSE val \in Values : bytes = EntryBytes(o, i, Len(bytes), val)
  ELSE Mixture

WriteRefusal(o, s, ca, size, st) ==
  LET e == EntryDescriptionOf(o, s)
      n == LengthOf(o, s)
  IN  IF o = NoObject THEN "NonexistentObject"
      ELSE IF ca
      THEN IF Dictionary[o].variable THEN "UnsupportedAccess"
           ELSE IF size < OffsetInObject[o][s][SubCountOf(o) + 1] THEN "TooShort"
           ELSE "ok"
      ELSE IF ~Accessible(o, s) THEN "UnsupportedAccess"
      ELSE IF e.write = {} THEN "ReadOnly"
      ELSE IF st \notin e.write THEN "NotInThisState"
      ELSE IF size > n + (n % 2) THEN "TooLong"
      ELSE IF size < n THEN "TooShort"
      ELSE "ok"

\* Mutant of EntriesWritten: the entry that ends with the data is left out.
AllButTheLast(o, s, ca, size, st) ==
  IF ca
  THEN {i \in Transferred(o, s) \ {0} :
          /\ st \in EntryDescriptionOf(o, i).write
          /\ OffsetInObject[o][s][i] + LengthOf(o, i) < size}
  ELSE {i \in {s} : WriteRefusal(o, s, ca, size, st) = "ok"}

\* Write(): Complete Access writes the entries in their order, so that data
\* that end too early leave the first ones written.  An entry that is not
\* writable in this state keeps its value, and nobody is told.
EntriesWritten(o, s, ca, size, st) ==
  IF ca
  THEN {i \in Transferred(o, s) \ {0} :
          /\ st \in EntryDescriptionOf(o, i).write
          /\ OffsetInObject[o][s][i] + LengthOf(o, i) <= size}
  ELSE {i \in {s} : WriteRefusal(o, s, ca, size, st) = "ok"}

Written(o, s, ca, bytes, st, mem) ==
  [mem EXCEPT ![o] = [i \in DOMAIN mem[o] |->
     IF i \notin EntriesWritten(o, s, ca, Len(bytes), st) THEN mem[o][i]
     ELSE LET at == IF ca THEN OffsetInObject[o][s][i] ELSE 0
          IN  ValueOf(o, i, SubSeq(bytes, at + 1, at + LengthOf(o, i)))]]

Write(x, o, s, ca, bytes, st) ==
  IF o = NoObject \/ (ca /\ Dictionary[o].variable) THEN x
  ELSE [x EXCEPT !.mem = Written(o, s, ca, bytes, st, x.mem)]

-------------------------------------------------------------------------------
(* Sessions and replies.                                                   *)

NoSession ==
  [cmd |-> "DownloadSegment", obj |-> NoObject, sub |-> 0, ca |-> FALSE,
   total |-> 0, done |-> 0, toggle |-> FALSE, buf |-> <<>>]

\* Mutant of EndSession: only the command is cleared.
ClearCommand(x) == [x EXCEPT !.v.cmd = "DownloadSegment"]

\* Abort(): end the session.
EndSession(x) == [x EXCEPT !.v = NoSession]

\* Mutant of Refuse: the abort is not sent.
Swallow(x, code) == x

Refuse(x, code) == [x EXCEPT !.rep = [kind |-> "Abort", code |-> code]]

\* Mutant of Session: the toggle bit of an ended session is kept.
SessionKeepsToggle(cmd, r, total, done, bytes) ==
  [cmd |-> cmd, obj |-> r.obj, sub |-> r.sub, ca |-> r.ca, total |-> total,
   done |-> done, toggle |-> FALSE, buf |-> bytes]

\* A segmented transfer begins; its first segment has toggle FALSE.
Session(cmd, r, total, done, bytes) ==
  [cmd |-> cmd, obj |-> r.obj, sub |-> r.sub, ca |-> r.ca, total |-> total,
   done |-> done, toggle |-> TRUE, buf |-> bytes]

\* What fits into one mailbox: data of an initiate frame and of a segment.
InitiateCapacity == MaxMailbox - 16
ChunkCapacity    == MaxMailbox - 9

MinSegmentedData == 7

-------------------------------------------------------------------------------
(* Initiate requests.                                                      *)

\* Up to 4 bytes are sent with their own length, up to a mailbox with the
\* length the object should have, and more in segments, from a copy.
BuildUpload(x, r, st) ==
  LET size     == IF r.ca THEN TotalLengthOf(r.obj, r.sub) ELSE LengthOf(r.obj, r.sub)
      segments == size > 4 /\ size > InitiateCapacity
      refusal  == ReadRefusal(r.obj, r.sub, r.ca, st)
      data     == ReadBytes(r.obj, r.sub, r.ca, x.mem)
  IN  IF segments /\ size > SegmentCapacity THEN Refuse(x, "NoMoreMemory")
      ELSE IF refusal # "ok" THEN Refuse(x, refusal)
      ELSE IF segments
      THEN [x EXCEPT !.v = Session("UploadSegment", r, size, 0, PadTo(data, size)),
                     !.rep = [kind |-> "Upload", size |-> size, data |-> <<>>]]
      ELSE IF size \in 1..4
      THEN [x EXCEPT !.rep = [kind |-> "Upload", size |-> Len(data), data |-> data]]
      ELSE [x EXCEPT !.rep = [kind |-> "Upload", size |-> size, data |-> PadTo(data, size)]]

\* A download whose data are all here, in its first frame or its last segment.
Store(x, r, bytes, st, reply) ==
  LET refusal == WriteRefusal(r.obj, r.sub, r.ca, Len(bytes), st)
      wrote   == Write(x, r.obj, r.sub, r.ca, bytes, st)
  IN  IF refusal = "ok" THEN [wrote EXCEPT !.rep = reply] ELSE Refuse(wrote, refusal)

\* Mutant of BuildDownload: the data of the first frame are written at once.
StoreFirstFrame(x, r, st) ==
  IF r.size <= Len(r.data) THEN Store(x, r, r.data, st, [kind |-> "Download"])
  ELSE [Write(x, r.obj, r.sub, r.ca, r.data, st)
          EXCEPT !.v = Session("DownloadSegment", r, r.size, Len(r.data), r.data),
                 !.rep = [kind |-> "Download"]]

\* Up to 4 bytes come expedited; other frames carry the length of the data,
\* and must be as long as that says.
BuildDownload(x, r, st) ==
  LET segments == 16 + r.size > MaxMailbox
      fits     == IF segments THEN 16 + Len(r.data) = MaxMailbox ELSE Len(r.data) = r.size
  IN  IF r.exp THEN Store(x, r, r.data, st, [kind |-> "Download"])
      ELSE IF ~fits THEN Refuse(x, IF segments THEN "TooLong" ELSE "TooShort")
      ELSE IF r.size <= Len(r.data) THEN Store(x, r, r.data, st, [kind |-> "Download"])
      ELSE IF r.size > SegmentCapacity THEN Refuse(x, "NoMoreMemory")
      ELSE [x EXCEPT !.v = Session("DownloadSegment", r, r.size, Len(r.data), r.data),
                     !.rep = [kind |-> "Download"]]

\* Mutant of HandleInitiate: the copy made for an upload that was given up is
\* taken for the one that is asked for now.
ReuseCopy(x, r, st) ==
  IF r.ca /\ r.sub > 1 THEN Refuse(x, "UnsupportedAccess")
  ELSE IF ~Dictionary[r.obj].variable /\ ~HasEntry(r.obj, r.sub)
  THEN Refuse(x, "SubIndexNotExisting")
  ELSE IF r.kind = "Download" THEN BuildDownload(x, r, st)
  ELSE LET y == BuildUpload(x, r, st)
       IN  IF x.v.cmd = "UploadSegment" /\ x.v.obj = r.obj /\ x.v.total >= y.v.total
           THEN [y EXCEPT !.v.buf = SubSeq(x.v.buf, 1, y.v.total)]
           ELSE y

HandleInitiate(x, r, st) ==
  IF r.ca /\ r.sub > 1 THEN Refuse(x, "UnsupportedAccess")
  ELSE IF ~Dictionary[r.obj].variable /\ ~HasEntry(r.obj, r.sub)
  THEN Refuse(x, "SubIndexNotExisting")
  ELSE IF r.kind = "Upload" THEN BuildUpload(x, r, st)
  ELSE BuildDownload(x, r, st)

-------------------------------------------------------------------------------
(* Segments.                                                               *)

\* How many of the bytes of a segment count: the last ones are counted by the
\* header when they are few.
CopySize(v, r) ==
  IF r.last /\ v.total - v.done <= MinSegmentedData
  THEN Min({MinSegmentedData - r.unused, Len(r.data)})
  ELSE Len(r.data)

SegmentStored(r) == [kind |-> "DownloadSegment", toggle |-> r.toggle]

HandleDownloadSegment(x, r, st) ==
  LET v    == x.v
      n    == CopySize(v, r)
      took == [x EXCEPT !.v.toggle = r.toggle, !.v.done = @ + n,
                        !.v.buf = @ \o SubSeq(r.data, 1, n)]
  IN  IF r.toggle = v.toggle THEN Refuse(x, "ToggleNotChanged")
      ELSE IF ~r.last /\ v.total - v.done <= Len(r.data) THEN Refuse(EndSession(x), "TooLong")
      ELSE IF v.done + n > SegmentCapacity THEN Refuse(EndSession(x), "NoMoreMemory")
      ELSE IF ~r.last THEN [took EXCEPT !.rep = SegmentStored(r)]
      ELSE IF v.done + n # v.total THEN Refuse(EndSession(x), "TooShort")
      ELSE EndSession(Store(took, v, took.v.buf, st, SegmentStored(r)))

\* A segment is the last one when it does not fill the mailbox.
HandleUploadSegment(x, r) ==
  LET v    == x.v
      left == v.total - v.done
      last == left < ChunkCapacity
      n    == IF last THEN left ELSE ChunkCapacity
      rep  == [kind |-> "UploadSegment", toggle |-> r.toggle, last |-> last,
               data |-> SubSeq(v.buf, v.done + 1, v.done + n)]
  IN  IF r.toggle = v.toggle THEN Refuse(x, "ToggleNotChanged")
      ELSE IF last THEN EndSession([x EXCEPT !.rep = rep])
      ELSE [x EXCEPT !.v.toggle = r.toggle, !.v.done = @ + n, !.rep = rep]

\* Handle(): a request of any other kind, an abort of the master among them,
\* is answered with an abort and does not touch the session.
Handle(x, r, st) ==
  IF r.kind \in {"Upload", "Download"} THEN HandleInitiate(x, r, st)
  ELSE IF r.kind # x.v.cmd THEN Refuse(x, "GeneralError")
  ELSE IF r.kind = "DownloadSegment" THEN HandleDownloadSegment(x, r, st)
  ELSE HandleUploadSegment(x, r)
===============================================================================

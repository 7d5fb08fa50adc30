------------------------------- MODULE EcatSdo -------------------------------
(***************************************************************************)
(* SDO transfers: a master that follows the protocol, one transfer at a    *)
(* time, and the server of EcatSdoOps behind the mailbox.  A transfer may  *)
(* take many mailbox exchanges; meanwhile the master changes the AL state, *)
(* gives a transfer up, repeats a request whose reply it lost, and the ESC *)
(* is reset, while the server keeps its session from one to the next.  A   *)
(* request for INIT does not stop the mailbox: what is queued is served,   *)
(* in INIT or after it, and its reply still comes.                         *)
(***************************************************************************)
EXTENDS EcatSdoOps, Integers

CONSTANTS
  RecvMailbox,  \* length of SM0: what the master may write at once
  Projected,    \* objects that DispatchMailbox overwrites (0x1C32, 0x1C33)
  Targets,      \* bound: what the master transfers, [obj, sub, ca]
  SizeErrors,   \* bound: by how much a download is longer than its object
  Waits,        \* does the master, after INIT, wait for what is on its way?
  MaxTransfers, \* bound: transfers in a behaviour
  MaxLost       \* bound: replies lost in one transfer

ASSUME ClientAssumption ==
  /\ RecvMailbox \in 17..MaxMailbox
  /\ Projected \subseteq Objects
  /\ Targets # {}
  /\ \A t \in Targets : t.obj \in Objects /\ t.sub \in Nat /\ t.ca \in BOOLEAN
  /\ \A t \in Targets : t.ca => HasEntry(t.obj, t.sub)
  /\ SizeErrors \subseteq Int
  /\ Waits \in BOOLEAN
  /\ MaxTransfers \in Nat /\ MaxLost \in Nat

VARIABLES
  x,      \* the server, see EcatSdoOps; x.rep: the reply on its way
  st,     \* the AL state
  req,    \* the request on its way
  c,      \* the master's transfer
  served  \* what the server found: the state, and the object's content

vars == <<x, st, req, c, served>>

Nothing == [kind |-> "Nothing"]

EntryIds(o) == 0..Len(Dictionary[o].entries)

\* The master knows the objects from the description of the slave: the bytes
\* of a target whose entries all have one value.
TargetBytes(t, val) ==
  IF t.ca THEN ObjectBytes(t.obj, t.sub, [i \in EntryIds(t.obj) |-> val])
  ELSE EntryBytes(t.obj, t.sub, LengthOf(t.obj, t.sub), val)

Resize(bytes, size) == IF size <= Len(bytes) THEN SubSeq(bytes, 1, size) ELSE PadTo(bytes, size)

\* An upload; or a download of a value, with an error in its length.
Transfers ==
  {[dir |-> "up", to |-> to, val |-> CHOOSE val \in Values : TRUE, err |-> 0] : to \in Targets}
  \cup
  {t \in {[dir |-> "down", to |-> to, val |-> val, err |-> err] :
            to \in Targets, val \in Values, err \in SizeErrors} :
     Len(TargetBytes(t.to, t.val)) + t.err > 0}

TransferData ==
  [t \in Transfers |->
     LET bytes == TargetBytes(t.to, t.val) IN Resize(bytes, Len(bytes) + t.err)]

\* phase: "idle", "busy", "aborting", or "left" when the master gave the transfer
\* up by going to INIT; ask: the last request; size: the length
\* the server announced; sent: bytes sent; got: bytes received; toggle: of the
\* next segment; lost: replies lost; out, why: how the last transfer ended; n:
\* its number.
NewTransfer(n, t) ==
  [phase |-> "idle", n |-> n, t |-> t, ask |-> Nothing, size |-> 0, sent |-> 0, got |-> <<>>,
   toggle |-> FALSE, lost |-> 0, out |-> "none", why |-> "ok"]

\* A transfer that is over keeps what a reader may still ask for.
Ended(out, why, got) ==
  [NewTransfer(c.n, c.t) EXCEPT !.out = out, !.why = why, !.got = got, !.lost = c.lost]

\* The value that every entry begins with.
Initial == CHOOSE val \in Values : TRUE

Init ==
  /\ x = [v |-> NoSession, mem |-> [o \in Objects |-> [i \in EntryIds(o) |-> Initial]],
          rep |-> Nothing]
  /\ st = "PreOp"
  /\ req = Nothing
  /\ c = NewTransfer(0, CHOOSE t \in Transfers : TRUE)
  /\ served = [st |-> "PreOp", bytes |-> <<>>]

-------------------------------------------------------------------------------
(* The server, in EcatDevice::Poll.                                        *)

\* DispatchMailbox(): the state of this moment, and the projection of the
\* synchronisation domain, which knows nothing of what was written to it.
Project(mem) ==
  [o \in Objects |-> IF o \in Projected THEN [i \in EntryIds(o) |-> Initial] ELSE mem[o]]

Serve ==
  LET found == [x EXCEPT !.mem = Project(x.mem)]
  IN  /\ req # Nothing
      /\ x.rep = Nothing
      /\ x' = Handle(found, req, st)
      /\ req' = Nothing
      /\ served' = [st |-> st,
                    bytes |-> IF req.kind = "Upload" /\ HasEntry(req.obj, req.sub)
                              THEN ReadBytes(req.obj, req.sub, req.ca, found.mem)
                              ELSE served.bytes]
      /\ UNCHANGED <<st, c>>

-------------------------------------------------------------------------------
(* The master.  External: what the protocol demands of it.                 *)

FirstRequest(t) ==
  LET data == TransferData[t]
      n    == Min({Len(data), RecvMailbox - 16})
  IN  IF t.dir = "up"
      THEN [kind |-> "Upload", obj |-> t.to.obj, sub |-> t.to.sub, ca |-> t.to.ca]
      ELSE [kind |-> "Download", obj |-> t.to.obj, sub |-> t.to.sub, ca |-> t.to.ca,
            exp |-> Len(data) <= 4, size |-> Len(data),
            data |-> IF Len(data) <= 4 THEN data ELSE SubSeq(data, 1, n)]

\* Segments are filled up, and the last one says how many of 7 bytes count.
NextSegment ==
  LET data == TransferData[c.t]
      left == Len(data) - c.sent
      n    == Min({left, RecvMailbox - 9})
  IN  IF c.t.dir = "up"
      THEN [kind |-> "UploadSegment", toggle |-> c.toggle]
      ELSE [kind |-> "DownloadSegment", toggle |-> c.toggle, last |-> n = left,
            unused |-> IF n < MinSegmentedData THEN MinSegmentedData - n ELSE 0,
            data |-> PadTo(SubSeq(data, c.sent + 1, c.sent + n), MinSegmentedData)]

\* The bytes of the data that a request carries.
Carried(r) ==
  CASE r.kind = "Download" -> Len(r.data)
    [] r.kind = "DownloadSegment" -> Len(r.data) - r.unused
    [] OTHER -> 0

Ask(client, r) ==
  /\ req' = r
  /\ c' = [client EXCEPT !.phase = "busy", !.ask = r, !.sent = @ + Carried(r)]

\* A master that does not wait may begin while an old reply is still to come.
Start ==
  /\ c.phase = "idle" \/ (~Waits /\ c.phase = "left" /\ req = Nothing)
  /\ st # "Init"
  /\ c.n < MaxTransfers
  /\ \E t \in Transfers : Ask(NewTransfer(c.n + 1, t), FirstRequest(t))
  /\ UNCHANGED <<x, st, served>>

End(out, why, got) == c' = Ended(out, why, got) /\ req' = Nothing

\* The master goes on with the next segment: an upload after its first reply
\* and each segment that is not the last, a download until all is sent.
Continue ==
  LET rep == x.rep
      now == [c EXCEPT !.size = IF rep.kind = "Upload" THEN rep.size ELSE @,
                       !.got = IF rep.kind = "UploadSegment" THEN @ \o rep.data ELSE @,
                       !.toggle = IF rep.kind \in {"UploadSegment", "DownloadSegment"}
                                  THEN ~@ ELSE @]
  IN  Ask(now, [NextSegment EXCEPT !.toggle = now.toggle])

MoreToCome ==
  LET rep == x.rep
  IN  \/ rep.kind = "Upload" /\ rep.data = <<>> /\ rep.size > 0
      \/ rep.kind = "UploadSegment" /\ ~rep.last /\ Len(c.got \o rep.data) <= c.size
      \/ rep.kind \in {"Download", "DownloadSegment"} /\ c.sent < Len(TransferData[c.t])

\* The data are complete, or not what was announced.
Complete(got, size) ==
  IF Len(got) = size THEN End("ok", "ok", got) ELSE End("refused", "Garbled", <<>>)

Receive ==
  /\ c.phase # "idle"
  /\ x.rep # Nothing
  /\ x' = [x EXCEPT !.rep = Nothing]
  /\ IF c.phase \in {"aborting", "left"} THEN End("dropped", "ok", <<>>)
     ELSE IF x.rep.kind = "Abort" THEN End("refused", x.rep.code, <<>>)
     ELSE IF MoreToCome THEN Continue
     ELSE IF x.rep.kind = "Upload" THEN Complete(x.rep.data, x.rep.size)
     ELSE IF x.rep.kind = "UploadSegment" THEN Complete(c.got \o x.rep.data, c.size)
     ELSE End("ok", "ok", <<>>)
  /\ UNCHANGED <<st, served>>

\* Between two segments the master may abort the transfer.
GiveUp ==
  /\ c.phase = "busy"
  /\ x.rep # Nothing
  /\ x.rep.kind # "Abort"
  /\ MoreToCome
  /\ x' = [x EXCEPT !.rep = Nothing]
  /\ req' = [kind |-> "Abort"]
  /\ c' = [c EXCEPT !.phase = "aborting", !.ask = [kind |-> "Abort"]]
  /\ UNCHANGED <<st, served>>

\* The reply is lost, and the master asks again.
LoseReply ==
  /\ x.rep # Nothing
  /\ c.phase \in {"busy", "aborting"}
  /\ c.lost < MaxLost
  /\ x' = [x EXCEPT !.rep = Nothing]
  /\ req' = c.ask
  /\ c' = [c EXCEPT !.lost = @ + 1]
  /\ UNCHANGED <<st, served>>

ChangeState ==
  /\ st' \in (IF st = "Init" THEN {"PreOp"} ELSE {"PreOp", "SafeOp", "Op"}) \ {st}
  /\ UNCHANGED <<x, req, c, served>>

-------------------------------------------------------------------------------
(* The master gives its transfer up.                                       *)

Abandoned == IF c.phase = "idle" THEN c ELSE Ended("dropped", "ok", <<>>)

\* BackToInit() stops neither the mailbox nor the session.  The master empties
\* SM0 and SM1: what was in one of them is gone, what is queued is not.
BackToInit ==
  /\ st # "Init"
  /\ st' = "Init"
  /\ \/ /\ req' = Nothing
        /\ x' = [x EXCEPT !.rep = Nothing]
        /\ c' = Abandoned
     \/ /\ c.phase # "idle"
        /\ c' = [c EXCEPT !.phase = "left"]
        /\ UNCHANGED <<x, req>>
  /\ UNCHANGED served

\* OnReset() stops the mailbox and ends the session.
OnReset ==
  /\ st' = "Init"
  /\ req' = Nothing
  /\ x' = [EndSession(x) EXCEPT !.rep = Nothing]
  /\ c' = Abandoned
  /\ UNCHANGED served

-------------------------------------------------------------------------------
Next ==
  \/ Start \/ Serve \/ Receive \/ GiveUp \/ LoseReply
  \/ ChangeState \/ BackToInit \/ OnReset

Spec == Init /\ [][Next]_vars

\* The thread serves what arrived, and the master takes the reply: no request
\* and no reply is on its way for ever.  This is weak fairness of Serve and of
\* what takes a reply, which are enabled as long as there is one.
FairSpec == Spec /\ []<>(req = Nothing) /\ []<>(x.rep = Nothing)

-------------------------------------------------------------------------------
\* The counters of a session stay within its data, a session for an upload
\* holds all of them, and entries hold whole values (HandleDownloadSegment,
\* HandleUploadSegment and Write keep the bounds of segment_buffer_).
TypeOK ==
  /\ x.v.cmd \in {"DownloadSegment", "UploadSegment"}
  /\ x.v.obj \in Objects \cup {NoObject}
  /\ x.v.done \in 0..x.v.total
  /\ x.v.total \in 0..SegmentCapacity
  /\ Len(x.v.buf) = (IF x.v.cmd = "UploadSegment" THEN x.v.total ELSE x.v.done)
  /\ \A o \in Objects : x.mem[o] \in [EntryIds(o) -> Values]
  /\ st \in SdoStates

\* The length announced for Complete Access is the one that is transferred: all
\* entries are accessible and end with a byte.
Exact(to) ==
  to.ca /\ ~Dictionary[to.obj].variable =>
    TotalLengthOf(to.obj, to.sub) = OffsetInObject[to.obj][to.sub][SubCountOf(to.obj) + 1]

\* An upload that the master takes for complete returned the content that the
\* object had when the server took the request, byte for byte, whatever was
\* aborted, repeated or written before and meanwhile, Complete Access of any
\* object among it.  The upload itself is not one of an object whose announced
\* length is not exact (BuildUpload, HandleUploadSegment).
UploadIsSnapshot ==
  c.out = "ok" /\ c.t.dir = "up" /\ Exact(c.t.to) => c.got = served.bytes

\* The entries a download may write when it is served in this state.
WritableEntries(t, state) ==
  {i \in (IF t.ca THEN Transferred(t.obj, t.sub) \ {0} ELSE {t.sub}) :
     state \in EntryDescriptionOf(t.obj, i).write}

\* After a download that the server confirmed, every entry that is writable
\* holds the value of this transfer (BuildDownload, HandleDownloadSegment).
DownloadIsStored ==
  c.out = "ok" /\ c.t.dir = "down" =>
    \A i \in WritableEntries(c.t.to, served.st) : x.mem[c.t.to.obj][i] = c.t.val

\* A refusal has a reason that the master can see: a sub-index, a right or a
\* state that does not allow it, or a wrong length.
Deserved(t, why, state) ==
  LET e      == EntryDescriptionOf(t.to.obj, t.to.sub)
      rights == IF t.dir = "up" THEN e.read ELSE e.write
  IN  CASE why = "SubIndexNotExisting" -> ~HasEntry(t.to.obj, t.to.sub)
        [] why = "UnsupportedAccess" ->
             IF t.to.ca THEN t.to.sub > 1 \/ Dictionary[t.to.obj].variable
             ELSE ~Accessible(t.to.obj, t.to.sub) \/ rights = {}
        [] why = "ReadOnly" -> ~t.to.ca /\ t.dir = "down" /\ rights = {}
        [] why = "NotInThisState" -> ~t.to.ca /\ state \notin rights
        [] why = "TooLong" -> t.err > 0
        [] why = "TooShort" -> t.err < 0
        [] why = "NoMoreMemory" -> Len(TransferData[t]) > SegmentCapacity
        [] OTHER -> FALSE

\* The two reasons that lie with the server: it takes the mailbox of the master
\* for one of kMaxMailboxSize, so that a download that does not fit a shorter
\* SM0 at once has a wrong length; and of an object that is not Exact it may
\* find the announced length, which is not the object's, too long for its buffer.
ServerAtFault(t, why) ==
  \/ /\ why \in {"TooLong", "TooShort"}
     /\ t.dir = "down" /\ RecvMailbox < MaxMailbox
     /\ Len(TransferData[t]) > 4 /\ Len(TransferData[t]) > RecvMailbox - 16
  \/ why = "NoMoreMemory" /\ t.dir = "up" /\ ~Exact(t.to)

\* A transfer of which no reply was lost is refused for a reason of its own, or
\* for one of those two, and never for what an earlier transfer left behind
\* (Handle and all it calls).
RefusalsAreExplained ==
  c.out = "refused" /\ c.lost = 0 =>
    Deserved(c.t, c.why, served.st) \/ ServerAtFault(c.t, c.why)

\* An object changes by a download only, in the step that confirms it, when all
\* data are there, and to the value of this download, which the master may have
\* given up by going to INIT.  Two exceptions: Complete Access with data that are
\* too short writes its first entries and is refused (EcatDictionary::Write); and
\* the objects of the synchronisation domain are overwritten by every dispatch.
OnlyDownloadsWrite ==
  [][\A o \in Objects \ Projected : x.mem'[o] # x.mem[o] =>
       /\ o = c.t.to.obj /\ c.t.dir = "down" /\ c.sent = Len(TransferData[c.t])
       /\ \A i \in EntryIds(o) : x.mem'[o][i] \in {x.mem[o][i], c.t.val}
       /\ \/ x.rep'.kind = req.kind
          \/ c.t.to.ca /\ x.rep'.kind = "Abort" /\ x.rep'.code = "TooShort"]_vars

\* A transfer comes to its end: every request is answered, if only by an abort.
EveryTransferEnds == c.phase # "idle" ~> c.phase = "idle"

\* The same of every upload.  It does not hold: Complete Access of 0x1C32 returns
\* bytes that nobody wrote, see README.md.
EveryUploadIsSnapshot ==
  c.out = "ok" /\ c.t.dir = "up" => c.got = served.bytes

\* Every correct transfer succeeds.  It does not when SM0 is shorter than
\* kMaxMailboxSize (ecat_limits.hpp lets a project choose), see README.md.
CorrectTransfersSucceed ==
  c.out = "refused" /\ c.lost = 0 => Deserved(c.t, c.why, served.st)
===============================================================================

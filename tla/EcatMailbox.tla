------------------------------ MODULE EcatMailbox ------------------------------
(***************************************************************************)
(* The mailbox at work: the master writes requests into SM0 and reads      *)
(* replies from SM1, a datagram with a reply may be lost and is then asked *)
(* for again, the thread drains, serves and pushes (EcatDevice::Poll), and *)
(* the PDI interrupt handles the same events (OnPdi).  Poll is split where *)
(* its calls end, so that the master and the interrupt may come between.   *)
(***************************************************************************)
EXTENDS EcatMailboxOps

CONSTANTS
  Window,            \* bound: requests the master keeps unanswered
  MaxLost,           \* bound: replies lost on the wire
  Concurrent,        \* what may come between two calls of Poll (Interruptions)
  Restarts,          \* how a session ends: "reset" (OnReset), "init" (AL request)
  ReadAcknowledges   \* does reading AL Event Request clear the bits?

\* The master writes SM0, reads SM1, toggles the repeat request bit; the PDI
\* interrupt and the reset of the ESC ("isr"), the interrupt also between the
\* test of SM1 by Service() and what follows from it ("test").
Interruptions == {"write", "read", "ask", "isr", "test"}

ASSUME EnvironmentAssumption ==
  /\ Window \in Nat \ {0}
  /\ MaxLost \in Nat
  /\ Concurrent \subseteq Interruptions
  /\ Restarts \subseteq {"reset", "init"}
  /\ ReadAcknowledges \in BOOLEAN

VARIABLES
  w,       \* [m |-> mailbox, e |-> ESC], see EcatMailboxOps
  pc,      \* the next call of Poll
  taken,   \* the frame lent out by TakeReceived
  master   \* what the master knows

vars == <<w, pc, taken, master>>

Calls == {"drain", "complete", "check", "read", "repeat", "send", "events", "snapshot"}

MailboxType(m) ==
  /\ {m.running, m.full, m.toggle, m.level} \subseteq BOOLEAN
  /\ m.pool \subseteq Slots /\ m.msg \in [Slots -> Messages \cup {NoMsg}]
  /\ m.sendQ \in Seq(Slots) /\ Len(m.sendQ) <= QueueDepth
  /\ m.recvQ \in Seq(Slots) /\ Len(m.recvQ) <= QueueDepth
  /\ {m.read, m.repeat, m.store} \subseteq Slots \cup {NoSlot}
  /\ {m.wcount, m.rcount} \subseteq 0..CounterMax

EscType(e) ==
  /\ {e.sm0, e.sm1} \subseteq Messages \cup {NoMsg}
  /\ e.events \subseteq MailboxEvents /\ {e.req, e.ack} \subseteq BOOLEAN

\* up: the master is past INIT; sent: its last request; retried: it wrote that
\* one twice; got: the numbers of the replies it received; seen: the replies
\* it has taken out of SM1, received or lost; lost: how many were lost;
\* asking: "no", "lost" (a reply was lost) or "asked" (its repeat is asked).
MasterType ==
  [ses : 1..MaxSessions, up : BOOLEAN, sent : 0..MaxRequests, retried : BOOLEAN,
   got : Seq(Messages), seen : SUBSET Messages, lost : 0..MaxLost,
   asking : {"no", "lost", "asked"}]

Init ==
  /\ w = [m |-> [running |-> FALSE, pool |-> {}, msg |-> [s \in Slots |-> NoMsg],
                 sendQ |-> <<>>, recvQ |-> <<>>, read |-> NoSlot,
                 repeat |-> NoSlot, store |-> NoSlot, full |-> FALSE,
                 toggle |-> FALSE, level |-> FALSE, wcount |-> 0, rcount |-> 0],
          e |-> [sm0 |-> NoMsg, sm1 |-> NoMsg, events |-> {},
                 req |-> FALSE, ack |-> FALSE]]
  /\ pc = "drain"
  /\ taken = NoSlot
  /\ master = [ses |-> 1, up |-> FALSE, sent |-> 0, retried |-> FALSE,
               got |-> <<>>, seen |-> {}, lost |-> 0, asking |-> "no"]

\* May this come now?  Between two passes of Poll everything may.
Free(what) == pc = "drain" \/ what \in Concurrent

-------------------------------------------------------------------------------
(* The master.  External: its behaviour is what the code relies on.        *)

\* The request with a number, whose counter, if it has one, comes round with
\* the numbers.
Request(n) ==
  [ses |-> master.ses, id |-> n,
   cnt |-> IF n \in Uncounted THEN 0 ELSE ((n - 1) % CounterMax) + 1]

Outstanding == master.sent - Len(master.got)

\* A new request, with the next counter.
WriteRequest ==
  /\ Free("write")
  /\ master.up
  /\ w.e.sm0 = NoMsg
  /\ master.sent < MaxRequests
  /\ Outstanding < Window
  /\ w' = [w EXCEPT !.e.sm0 = Request(master.sent + 1),
                    !.e.events = @ \cup {"Write"}]
  /\ master' = [master EXCEPT !.sent = @ + 1, !.retried = FALSE]
  /\ UNCHANGED <<pc, taken>>

\* The acknowledge of a write was lost: the request is written again.
RetryRequest ==
  /\ Free("write")
  /\ master.up
  /\ w.e.sm0 = NoMsg
  /\ master.sent > 0
  /\ ~master.retried
  /\ w' = [w EXCEPT !.e.sm0 = Request(master.sent),
                    !.e.events = @ \cup {"Write"}]
  /\ master' = [master EXCEPT !.retried = TRUE]
  /\ UNCHANGED <<pc, taken>>

\* Reading SM1 empties it.  A reply with the counter of the last one is
\* dropped by the master.
ReadSm1 == [w EXCEPT !.e.sm1 = NoMsg, !.e.events = @ \cup {"Read"}]

Fresh(msg) == master.got = <<>> \/ master.got[Len(master.got)].cnt # msg.cnt

ReadReply ==
  /\ Free("read")
  /\ master.up
  /\ master.asking = "no"
  /\ w.e.sm1 # NoMsg
  /\ w' = ReadSm1
  /\ master' = [master EXCEPT !.seen = @ \cup {w.e.sm1},
                              !.got = IF Fresh(w.e.sm1) THEN Append(@, w.e.sm1) ELSE @]
  /\ UNCHANGED <<pc, taken>>

LoseReply ==
  /\ Free("read")
  /\ master.up
  /\ master.asking = "no"
  /\ w.e.sm1 # NoMsg
  /\ master.lost < MaxLost
  /\ w' = ReadSm1
  /\ master' = [master EXCEPT !.seen = @ \cup {w.e.sm1}, !.lost = @ + 1,
                              !.asking = "lost"]
  /\ UNCHANGED <<pc, taken>>

\* The repeat request is an edge of the bit; it is granted when the
\* acknowledge bit follows.
AskRepeat ==
  /\ Free("ask")
  /\ master.up
  /\ master.asking = "lost"
  /\ w' = [w EXCEPT !.e.req = ~@]
  /\ master' = [master EXCEPT !.asking = "asked"]
  /\ UNCHANGED <<pc, taken>>

SeeAck ==
  /\ Free("ask")
  /\ master.asking = "asked"
  /\ w.e.ack = w.e.req
  /\ master' = [master EXCEPT !.asking = "no"]
  /\ UNCHANGED <<w, pc, taken>>

-------------------------------------------------------------------------------
(* The sessions: EcatDevice calls Start() on INIT to PREOP and Stop() on a  *)
(* reset of the ESC; a request for INIT stops nothing.                      *)

StartMailbox ==
  /\ Free("isr")
  /\ ~master.up
  /\ w' = [w EXCEPT !.m = Start(@)]
  /\ master' = [master EXCEPT !.up = TRUE]
  /\ UNCHANGED <<pc, taken>>

\* The master starts over: it configures SM0 and SM1 anew, which empties them
\* and clears its repeat request bit.
NewSession ==
  [master EXCEPT !.ses = @ + 1, !.up = FALSE, !.sent = 0, !.retried = FALSE,
                 !.got = <<>>, !.seen = {}, !.asking = "no"]

OnReset ==
  /\ Free("isr")
  /\ "reset" \in Restarts
  /\ master.ses < MaxSessions
  /\ w' = [Stop(w) EXCEPT !.e.req = FALSE]
  /\ master' = NewSession
  /\ UNCHANGED <<pc, taken>>

RequestInit ==
  /\ Free("isr")
  /\ "init" \in Restarts
  /\ master.up
  /\ master.ses < MaxSessions
  /\ w' = [w EXCEPT !.e.sm0 = NoMsg, !.e.sm1 = NoMsg, !.e.events = {}, !.e.req = FALSE]
  /\ master' = NewSession
  /\ UNCHANGED <<pc, taken>>

-------------------------------------------------------------------------------
(* EcatDevice::Poll(), one call after the other.                           *)

\* TakeReceived(): lend out a frame, or go on to Service().
TakeReceived ==
  /\ pc = "drain"
  /\ IF w.m.running /\ w.m.recvQ # <<>>
     THEN /\ taken' = Head(w.m.recvQ)
          /\ w' = [w EXCEPT !.m.recvQ = Tail(@)]
          /\ pc' = "complete"
     ELSE pc' = "check" /\ UNCHANGED <<w, taken>>
  /\ UNCHANGED master

\* CompleteReceived(): the reply, if any, is in the buffer of the request.
CompleteReceived ==
  /\ pc = "complete"
  /\ w' = Answer(w, taken)
  /\ taken' = NoSlot
  /\ pc' = "drain"
  /\ UNCHANGED master

\* Service(): the status bit of SM1 is read first and acted upon next.
CheckSm1 ==
  /\ pc = "check"
  /\ pc' = CASE ~w.m.running        -> "events"
             [] SendBufferWasRead(w) -> "read"
             [] OTHER                -> "repeat"
  /\ UNCHANGED <<w, taken, master>>

ServiceRead ==
  /\ pc = "read"
  /\ w' = OnSendMailboxRead(w)
  /\ pc' = "repeat"
  /\ UNCHANGED <<taken, master>>

ServiceRequest ==
  /\ pc = "repeat"
  /\ w' = ServiceRepeat(w)
  /\ pc' = "send"
  /\ UNCHANGED <<taken, master>>

ServiceQueue ==
  /\ pc = "send"
  /\ w' = ServiceSend(w)
  /\ pc' = "events"
  /\ UNCHANGED <<taken, master>>

\* ReadAlEvent(): the bits read are gone.
ReadAlEvent(v) == [v EXCEPT !.e.events = IF ReadAcknowledges THEN {} ELSE @]

\* HandleAlEvents(), as far as the mailbox goes.
HandleMailboxEvents(v) ==
  LET a == ReadAlEvent(v)
      r == IF "Write" \in v.e.events THEN Receive(a) ELSE a
  IN  IF "Read" \in v.e.events THEN OnSendMailboxRead(r) ELSE r

PollEvents ==
  /\ pc = "events"
  /\ w' = HandleMailboxEvents(w)
  /\ pc' = "snapshot"
  /\ UNCHANGED <<taken, master>>

\* Poll() ends with a snapshot for the diagnostics, which reads the event
\* register and handles nothing.
CaptureDiagnosticSnapshot ==
  /\ pc = "snapshot"
  /\ w' = ReadAlEvent(w)
  /\ pc' = "drain"
  /\ UNCHANGED <<taken, master>>

\* OnPdi(): the mailbox events are masked, but the interrupt of another event
\* handles them as well.
OnPdi ==
  /\ Free("isr")
  /\ pc = "read" => "test" \in Concurrent
  /\ w.e.events # {}
  /\ w' = HandleMailboxEvents(w)
  /\ UNCHANGED <<pc, taken, master>>

-------------------------------------------------------------------------------
Poll == \/ TakeReceived \/ CompleteReceived \/ CheckSm1 \/ ServiceRead
        \/ ServiceRequest \/ ServiceQueue \/ PollEvents \/ CaptureDiagnosticSnapshot

Next ==
  \/ WriteRequest \/ RetryRequest \/ ReadReply \/ LoseReply \/ AskRepeat \/ SeeAck
  \/ StartMailbox \/ OnReset \/ RequestInit
  \/ Poll \/ OnPdi

Spec == Init /\ [][Next]_vars

\* The application's task calls Poll() again and again, the interrupt is not
\* relied upon; the master starts the slave, reads replies and repeats.
\* For EveryRequestAnswered, see there.
FairSpec ==
  /\ Spec
  /\ WF_vars(Poll) /\ WF_vars(StartMailbox)
  /\ SF_vars(ReadReply) /\ SF_vars(AskRepeat) /\ SF_vars(SeeAck)

-------------------------------------------------------------------------------
(* Correctness.                                                            *)

\* Every member of EcatMailbox and every register keeps its type.
TypeOK ==
  /\ MailboxType(w.m) /\ EscType(w.e)
  /\ pc \in Calls
  /\ taken \in Slots \cup {NoSlot}
  /\ master \in MasterType

\* Everyone a slot can belong to: the frame pointers, the thread, the queues.
Held == <<w.m.read, w.m.repeat, w.m.store, taken>> \o w.m.sendQ \o w.m.recvQ

\* A slot has one owner while its bit is set and none while it is free: no
\* frame is leaked, freed twice or used after it was returned to the pool.
SlotsHaveOneOwner ==
  /\ {Held[i] : i \in DOMAIN Held} \ {NoSlot} = w.m.pool
  /\ \A i, j \in DOMAIN Held : Held[i] = Held[j] /\ Held[i] # NoSlot => i = j

\* kMailboxBufferCount is large enough: Acquire() never fails, so a request is
\* never left in SM0 for want of a buffer.
PoolNeverExhausted == w.m.pool # Slots

\* send_full_ and read_frame_ speak of the same frame, and only one frame is
\* kept back, for a repeat or displaced by one.
FramesAgree ==
  /\ w.m.full <=> w.m.read # NoSlot
  /\ w.m.repeat = NoSlot \/ w.m.store = NoSlot

\* The frame kept for a repeat is one the master has taken out of SM1
\* ("the master has read SM1", OnSendMailboxRead; "the previous frame",
\* repeat_frame_): else it is a reply the master has never seen.
RepeatWasRead == w.m.repeat # NoSlot => w.m.msg[w.m.repeat] \in master.seen

\* The master receives the replies of this session, in the order of its
\* requests, none missing and none twice, whatever is lost and repeated.
RepliesInOrder ==
  \A i \in DOMAIN master.got :
    master.got[i].ses = master.ses /\ master.got[i].id = i

\* Every request is answered.  It is not: Receive() leaves a request where it
\* is while a reply waits in SM1 ("not for now", receive_locked_), its event is
\* gone with the read that reported it, and nothing asks SM0 again.
EveryRequestAnswered ==
  \A n \in 1..MaxRequests : master.sent >= n ~> Len(master.got) >= n
===============================================================================

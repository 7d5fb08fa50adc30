----------------------------- MODULE EcatMailboxOps -----------------------------
(***************************************************************************)
(* The transport of the mailbox, class EcatMailbox: a static pool of       *)
(* buffers ("slots"), a receive and a send queue, the frame in SM1 and the *)
(* two frames kept for the master's repeat requests.  The C++ methods call *)
(* one another, so each is an operator over w = [m |-> mailbox, e |-> ESC] *)
(* that yields the record after the call.                                  *)
(*                                                                         *)
(* m:  running  running_ and esc_         pool   slots set in pool_bitmap_ *)
(*     msg      what a slot holds         sendQ, recvQ  the two rings      *)
(*     read     read_frame_               repeat repeat_frame_             *)
(*     store    store_frame_              full   send_full_                *)
(*     toggle   repeat_toggle_            level  repeat_request_level_     *)
(*     wcount   write_counter_            rcount the counter of the last   *)
(*                                               reply, from read_counter_ *)
(* e:  sm0, sm1 the mailbox buffers, NoMsg when empty                      *)
(*     events   the mailbox bits of AL Event Request                       *)
(*     req, ack the repeat request bit (0x080E.1) and its acknowledge      *)
(*                                                                         *)
(* Left out: no_memory_ and receive_locked_, which the code only writes,   *)
(* and write_frame_, which is always null.                                 *)
(***************************************************************************)
EXTENDS Naturals, Sequences, FiniteSets

CONSTANTS
  QueueDepth,   \* kMailboxQueueDepth
  CounterMax,   \* kCounterMax, the counters of requests run from 1 to it
  MaxRequests,  \* bound: requests of the master in one session
  MaxSessions,  \* bound: sessions (INIT to PREOP) of the master
  LongReplies,  \* requests whose reply does not fit SM1 (send_size_)
  Unanswered,   \* requests the protocols answer with nothing (length 0)
  Malformed,    \* requests whose header announces an illegal length
  Uncounted     \* requests with the counter 0, which is no counter

ASSUME MailboxAssumption ==
  /\ QueueDepth \in Nat \ {0}
  /\ CounterMax \in Nat \ {0}
  /\ MaxRequests \in Nat
  /\ MaxSessions \in Nat \ {0}
  /\ LongReplies \cup Unanswered \cup Malformed \cup Uncounted \subseteq 1..MaxRequests

\* Mutant of Slots: two buffers less.
FewerSlots == 1 .. (2 + 2 * QueueDepth)

\* The pool, kMailboxBufferCount slots.
Slots == 1 .. (4 + 2 * QueueDepth)
NoSlot == 0

\* A request and its reply, which is written into the buffer of the request:
\* session and number of the request, and the counter in the mailbox header.
Messages == [ses : 1..MaxSessions, id : 1..MaxRequests, cnt : 0..CounterMax]
NoMsg == [ses |-> 0, id |-> 0, cnt |-> 0]

\* Mutant of NextCounter: it does not come round.
CounterWithoutEnd(c) == c + 1

\* The counters follow one another, 1 .. CounterMax in turn.
NextCounter(c) == (c % CounterMax) + 1

MailboxEvents == {"Write", "Read"}

-------------------------------------------------------------------------------
\* Acquire() takes the first free slot, Release() returns one.
FirstFree(m) == CHOOSE s \in Slots \ m.pool : \A t \in Slots \ m.pool : s <= t

Release(m, s) ==
  IF s = NoSlot THEN m
  ELSE [m EXCEPT !.pool = @ \ {s}, !.msg[s] = NoMsg]

\* Enqueue(): a full ring refuses the frame, and most callers ignore that.
Enqueue(q, s) == IF Len(q) < QueueDepth THEN Append(q, s) ELSE q

EnqueueSend(m, s) == [m EXCEPT !.sendQ = Enqueue(@, s)]

\* Transmit() succeeds when SM1 is known empty and the frame fits it.
CanTransmit(m, s) == m.running /\ ~m.full /\ m.msg[s].id \notin LongReplies

\* A write to SM1 acknowledges the read event.  The ESC ignores it while the
\* master has not read the buffer.
WriteSm1(e, msg) ==
  [e EXCEPT !.sm1 = IF @ = NoMsg THEN msg ELSE @, !.events = @ \ {"Read"}]

\* Transmit a frame that is no one's any more and remember it as in flight,
\* or put it at the tail of the send queue.
TransmitOrEnqueue(w, s) ==
  IF CanTransmit(w.m, s)
  THEN [m |-> [w.m EXCEPT !.full = TRUE, !.read = s],
        e |-> WriteSm1(w.e, w.m.msg[s])]
  ELSE [w EXCEPT !.m = EnqueueSend(@, s)]

-------------------------------------------------------------------------------
\* Mutant of ShiftFrames: read_frame_ still points at the frame.
ShiftKeepingRead(m) ==
  [(IF m.store = NoSlot THEN Release(m, m.repeat) ELSE m)
     EXCEPT !.full = FALSE, !.repeat = m.read]

\* OnSendMailboxRead(), first half: the frame the master has read becomes the
\* one to repeat.
ShiftFrames(m) ==
  [(IF m.store = NoSlot THEN Release(m, m.repeat) ELSE m)
     EXCEPT !.full = FALSE, !.repeat = m.read, !.read = NoSlot]

\* OnSendMailboxRead(): a dummy write locks SM1, then the displaced frame or
\* the head of the send queue goes next.
OnSendMailboxRead(w) ==
  LET m == ShiftFrames(w.m)
      e == [w.e EXCEPT !.events = @ \ {"Read"}]
  IN  CASE m.store # NoSlot ->
             TransmitOrEnqueue([m |-> [m EXCEPT !.store = NoSlot], e |-> e], m.store)
        [] m.store = NoSlot /\ m.sendQ # <<>> ->
             TransmitOrEnqueue([m |-> [m EXCEPT !.sendQ = Tail(@)], e |-> e], Head(m.sendQ))
        [] OTHER ->
             [m |-> m, e |-> e]

\* OnRepeatRequest(): a frame that is still in SM1 makes room; closing and
\* opening the channel empties the buffer.
Displace(w) ==
  IF w.m.full /\ w.m.store = NoSlot
  THEN [m |-> [w.m EXCEPT !.store = w.m.read, !.read = NoSlot, !.full = FALSE],
        e |-> [w.e EXCEPT !.sm1 = NoMsg]]
  ELSE w

Acknowledge(w) == [w EXCEPT !.e.ack = w.m.toggle]

\* OnRepeatRequest(): send the previous frame again and acknowledge, or, with
\* no previous frame, toggle without writing the acknowledge bit.
OnRepeatRequest(w) ==
  LET toggled == [w EXCEPT !.m.toggle = ~@]
      r       == Displace(toggled)
      t       == TransmitOrEnqueue([r EXCEPT !.m.repeat = NoSlot], r.m.repeat)
  IN  IF w.m.repeat = NoSlot
      THEN toggled
      ELSE Acknowledge(t)

-------------------------------------------------------------------------------
\* Mutant of SendBufferWasRead: the status bit of SM1 is not asked.
SendBufferIsInUse(w) == w.m.running /\ w.m.full

\* Service(), first part: has the master read SM1?
SendBufferWasRead(w) == w.m.running /\ w.m.full /\ w.e.sm1 = NoMsg

\* Service(), second part: an edge of the request bit is a repeat request.
ServiceRepeat(w) ==
  IF w.e.req # w.m.level
  THEN OnRepeatRequest([w EXCEPT !.m.level = w.e.req])
  ELSE w

\* Service(), third part: push the send queue.
ServiceSend(w) ==
  IF ~w.m.full /\ w.m.read = NoSlot /\ w.m.sendQ # <<>>
  THEN TransmitOrEnqueue([w EXCEPT !.m.sendQ = Tail(@)], Head(w.m.sendQ))
  ELSE w

\* Receive(): not while a reply waits in SM1; a frame of illegal length is
\* read away; the pool may be exhausted; a frame with the counter of the last
\* one is a retry and is dropped; so is one the queue has no room for.
TakeFromSm0(w) ==
  [w EXCEPT !.e.sm0 = NoMsg, !.e.events = @ \ {"Write"}]

\* Mutant of IsRetry: the counter of the request is not compared.
NeverRetry(m, msg) == FALSE

IsRetry(m, msg) == msg.cnt # 0 /\ msg.cnt = m.wcount

\* Something to receive, and nothing in the way.
MayReceive(w) == w.m.running /\ ~w.m.full /\ w.e.sm0 # NoMsg

Receive(w) ==
  LET r == TakeFromSm0(w)
      s == FirstFree(w.m)
      n == [r EXCEPT !.m.wcount = w.e.sm0.cnt]
  IN  CASE ~MayReceive(w) ->
             w
        [] MayReceive(w) /\ w.e.sm0.id \in Malformed ->
             r
        [] MayReceive(w) /\ w.e.sm0.id \notin Malformed /\ w.m.pool = Slots ->
             [w EXCEPT !.e.events = @ \ {"Write"}]
        [] MayReceive(w) /\ w.e.sm0.id \notin Malformed /\ w.m.pool # Slots ->
             IF IsRetry(w.m, w.e.sm0) THEN r
             ELSE IF Len(w.m.recvQ) = QueueDepth THEN n
             ELSE [n EXCEPT !.m.pool = @ \cup {s}, !.m.msg[s] = w.e.sm0,
                            !.m.recvQ = Append(@, s)]

-------------------------------------------------------------------------------
\* Submit() by CompleteReceived(): number the reply; send it at once, or queue
\* it, or, when the queue is full, give the buffer back.
Number(m, s) ==
  LET c == NextCounter(m.rcount)
  IN  [m EXCEPT !.rcount = c, !.msg[s].cnt = c]

Submit(w, s) ==
  LET n == [w EXCEPT !.m = Number(@, s)]
  IN  IF CanTransmit(w.m, s) \/ Len(w.m.sendQ) < QueueDepth
      THEN TransmitOrEnqueue(n, s)
      ELSE [w EXCEPT !.m = Release(@, s)]

\* CompleteReceived(): a request that is answered with nothing goes back to the
\* pool.
Answer(w, s) ==
  IF w.m.msg[s].id \in Unanswered THEN [w EXCEPT !.m = Release(@, s)]
  ELSE Submit(w, s)

\* Start(), when the SM configuration is legal: no queue and no frame of the
\* session before is cleared.
Start(m) == [m EXCEPT !.running = TRUE]

\* Mutant of Owned: the receive queue is forgotten.
OwnedButReceived(m) == {m.read, m.repeat, m.store} \cup {m.sendQ[i] : i \in DOMAIN m.sendQ}

\* The frames the mailbox owns, all released by Stop().
Owned(m) == {m.read, m.repeat, m.store} \cup {m.sendQ[i] : i \in DOMAIN m.sendQ}
                                        \cup {m.recvQ[i] : i \in DOMAIN m.recvQ}

\* Stop(): the queues, frames, flags and counters of the session are reset,
\* the level of the repeat request is not.
Forget(m) ==
  [m EXCEPT !.running = FALSE, !.sendQ = <<>>, !.recvQ = <<>>, !.read = NoSlot,
            !.repeat = NoSlot, !.store = NoSlot, !.full = FALSE, !.toggle = FALSE,
            !.rcount = 0, !.wcount = 0]

\* Stop(): closing the channels empties the buffers of the ESC.
Stop(w) ==
  [m |-> [Forget(w.m) EXCEPT
            !.pool = @ \ Owned(w.m),
            !.msg  = [s \in Slots |-> IF s \in Owned(w.m) THEN NoMsg ELSE @[s]]],
   e |-> [w.e EXCEPT !.ack = FALSE, !.sm0 = NoMsg, !.sm1 = NoMsg, !.events = {}]]
================================================================================

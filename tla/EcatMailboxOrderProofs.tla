------------------------- MODULE EcatMailboxOrderProofs -------------------------
(***************************************************************************)
(* Proofs about what the master sees of EcatMailbox, on top of             *)
(* EcatMailboxProofs: the frame that is kept for a repeat, the handshake   *)
(* of the repeat request, and the order of the replies.  The interrupt and *)
(* every step of the master may come between any two calls of Poll; the    *)
(* interrupt only not between the test of SM1 by Service() and the call    *)
(* that follows from it, where these properties do not hold.               *)
(***************************************************************************)
EXTENDS EcatMailboxProofs

\* The interrupt does not come between the test of SM1 and what follows from it.
TestIsCurrent == "test" \notin Concurrent

\* No reset of the ESC and no request for INIT.
OneSession == Restarts = {}

-------------------------------------------------------------------------------
(* What the operators change. *)

\* Neither the queue of requests nor what the mailbox has counted.
Aside(v, r) ==
  /\ r.m.recvQ = v.m.recvQ /\ r.m.running = v.m.running
  /\ r.m.wcount = v.m.wcount /\ r.m.rcount = v.m.rcount
  /\ r.e.sm0 = v.e.sm0 /\ r.e.req = v.e.req

\* Nor the bits of the handshake.
SameBits(v, r) == r.m.toggle = v.m.toggle /\ r.m.level = v.m.level /\ r.e.ack = v.e.ack

\* A slot that stays taken keeps its message.
KeptMessages(v, r) == \A s \in r.m.pool : s \in v.m.pool /\ r.m.msg[s] = v.m.msg[s]

\* The same frames, and the same slots in the queues and the pool.
SameFrames(v, r) ==
  /\ r.m.full = v.m.full /\ r.m.read = v.m.read
  /\ r.m.repeat = v.m.repeat /\ r.m.store = v.m.store

SameSlots(v, r) ==
  /\ r.m.pool = v.m.pool /\ r.m.msg = v.m.msg
  /\ r.m.sendQ = v.m.sendQ /\ r.m.recvQ = v.m.recvQ
  /\ r.m.wcount = v.m.wcount /\ r.m.rcount = v.m.rcount /\ SameFrames(v, r)

\* A frame goes to SM1, which is empty.
LEMMA TransmitEffect ==
  ASSUME NEW v, Pair(v), Mailbox(v.m), Esc(v.e), v.e.sm1 = NoMsg,
         NEW s, CanTransmit(v.m, s), NEW r, r = TransmitOrEnqueue(v, s)
  PROVE  /\ r.m.full /\ r.m.read = s /\ r.e.sm1 = v.m.msg[s]
         /\ r.m.pool = v.m.pool /\ r.m.msg = v.m.msg /\ r.m.sendQ = v.m.sendQ
         /\ r.m.repeat = v.m.repeat /\ r.m.store = v.m.store
         /\ r.e.events = v.e.events \ {"Read"}
         /\ Aside(v, r) /\ SameBits(v, r)
<1>1. PICK m : m = v.m
  OBVIOUS
<1>2. PICK e : e = v.e
  OBVIOUS
<1>3. PICK y : y = [m EXCEPT !.full = TRUE, !.read = s]
  OBVIOUS
<1>4. PICK f : f = [e EXCEPT !.sm1 = m.msg[s], !.events = @ \ {"Read"}]
  OBVIOUS
<1>5. r.m = y
  BY <1>1, <1>3 DEF TransmitOrEnqueue
<1>6. r.e = f
  <2>1. r.e = WriteSm1(e, m.msg[s])
    BY <1>1, <1>2 DEF TransmitOrEnqueue
  <2>2. e.sm1 = NoMsg
    BY <1>2
  <2> QED
    BY <1>2, <1>4, <2>1, <2>2 DEF WriteSm1, Esc
<1>7. DOMAIN m = Members /\ DOMAIN e = {"sm0", "sm1", "events", "req", "ack"}
  BY <1>1, <1>2 DEF Mailbox, Esc
<1>8. /\ y.full = TRUE /\ y.read = s /\ y.pool = m.pool /\ y.msg = m.msg /\ y.sendQ = m.sendQ
      /\ y.repeat = m.repeat /\ y.store = m.store
  BY <1>3, <1>7 DEF Members
<1>9. /\ y.recvQ = m.recvQ /\ y.running = m.running /\ y.wcount = m.wcount
      /\ y.rcount = m.rcount /\ y.toggle = m.toggle /\ y.level = m.level
  BY <1>3, <1>7 DEF Members
<1>10. /\ f.sm1 = m.msg[s] /\ f.events = e.events \ {"Read"}
       /\ f.sm0 = e.sm0 /\ f.req = e.req /\ f.ack = e.ack
  BY <1>4, <1>7
<1> QED
  BY <1>1, <1>2, <1>5, <1>6, <1>8, <1>9, <1>10 DEF Aside, SameBits

\* A frame that cannot go to SM1 changes the send queue at most.
LEMMA EnqueueEffect ==
  ASSUME NEW v, Pair(v), Mailbox(v.m), NEW s, ~CanTransmit(v.m, s),
         NEW r, r = TransmitOrEnqueue(v, s)
  PROVE  /\ r.e = v.e /\ r.m.sendQ = Enqueue(v.m.sendQ, s)
         /\ r.m.full = v.m.full /\ r.m.read = v.m.read
         /\ r.m.pool = v.m.pool /\ r.m.msg = v.m.msg
         /\ r.m.repeat = v.m.repeat /\ r.m.store = v.m.store
         /\ Aside(v, r) /\ SameBits(v, r)
<1>1. PICK m : m = v.m
  OBVIOUS
<1>2. PICK y : y = [m EXCEPT !.sendQ = Enqueue(m.sendQ, s)]
  OBVIOUS
<1>3. r = [v EXCEPT !.m = y]
  BY <1>1, <1>2 DEF TransmitOrEnqueue, EnqueueSend
<1>4. r.m = y /\ r.e = v.e
  BY <1>3 DEF Pair
<1>5. DOMAIN m = Members
  BY <1>1 DEF Mailbox
<1>6. /\ y.sendQ = Enqueue(m.sendQ, s) /\ y.full = m.full /\ y.read = m.read
      /\ y.pool = m.pool /\ y.msg = m.msg /\ y.repeat = m.repeat /\ y.store = m.store
  BY <1>2, <1>5 DEF Members
<1>7. /\ y.recvQ = m.recvQ /\ y.running = m.running /\ y.wcount = m.wcount
      /\ y.rcount = m.rcount /\ y.toggle = m.toggle /\ y.level = m.level
  BY <1>2, <1>5 DEF Members
<1> QED
  BY <1>1, <1>4, <1>6, <1>7 DEF Aside, SameBits

\* ShiftFrames: SM1 is free, and the frame that was read is the one to repeat.
LEMMA ShiftEffect ==
  ASSUME NEW m, NEW L, Sound(m, L), OneKept(m), NEW y, y = ShiftFrames(m)
  PROVE  /\ ~y.full /\ y.read = NoSlot /\ y.repeat = m.read /\ y.store = m.store
         /\ y.sendQ = m.sendQ /\ y.recvQ = m.recvQ /\ y.running = m.running
         /\ y.wcount = m.wcount /\ y.rcount = m.rcount
         /\ y.toggle = m.toggle /\ y.level = m.level
         /\ \A s \in y.pool : s \in m.pool /\ y.msg[s] = m.msg[s]
<1>1. Mailbox(m) /\ DOMAIN m = Members
  BY DEF Sound, Mailbox
<1>2. PICK n : n = IF m.store = NoSlot THEN Release(m, m.repeat) ELSE m
  OBVIOUS
<1>3. /\ DOMAIN n = Members /\ n.store = m.store
      /\ n.sendQ = m.sendQ /\ n.recvQ = m.recvQ /\ n.running = m.running
      /\ n.wcount = m.wcount /\ n.rcount = m.rcount
      /\ n.toggle = m.toggle /\ n.level = m.level /\ n.read = m.read
  BY <1>1, <1>2 DEF Release, Members
<1>4. \A s \in n.pool : s \in m.pool /\ n.msg[s] = m.msg[s]
  <2>1. CASE m.store = NoSlot /\ m.repeat # NoSlot
    <3>1. n.pool = m.pool \ {m.repeat} /\ n.msg = [m.msg EXCEPT ![m.repeat] = NoMsg]
      BY <1>1, <1>2, <2>1 DEF Release, Members
    <3>2. m.pool \subseteq Slots /\ DOMAIN m.msg = Slots
      BY <1>1 DEF Mailbox
    <3> QED
      BY <3>1, <3>2
  <2>2. CASE ~(m.store = NoSlot /\ m.repeat # NoSlot)
    <3>1. n = m
      BY <1>2, <2>2 DEF Release
    <3> QED
      BY <3>1
  <2> QED
    BY <2>1, <2>2
<1>5. y = [n EXCEPT !.full = FALSE, !.repeat = m.read, !.read = NoSlot]
  <2>1. y = [n EXCEPT !.full = FALSE, !.repeat = n.read, !.read = NoSlot]
    BY <1>2, <1>3 DEF ShiftFrames, Members
  <2> QED
    BY <1>3, <2>1
<1>6. /\ y.full = FALSE /\ y.read = NoSlot /\ y.repeat = m.read /\ y.store = n.store
      /\ y.sendQ = n.sendQ /\ y.recvQ = n.recvQ /\ y.running = n.running
  BY <1>3, <1>5 DEF Members
<1>7. /\ y.wcount = n.wcount /\ y.rcount = n.rcount
      /\ y.toggle = n.toggle /\ y.level = n.level
      /\ y.pool = n.pool /\ y.msg = n.msg
  BY <1>3, <1>5 DEF Members
<1> QED
  BY <1>3, <1>4, <1>6, <1>7

\* What goes to SM1 when the master has read it: a displaced frame, else the head of the
\* send queue; nothing, when there is neither, or that head does not fit.
NextIsStored(v, r) ==
  /\ v.m.store # NoSlot /\ r.m.full /\ r.m.read = v.m.store /\ r.m.sendQ = v.m.sendQ
  /\ r.e.sm1 = v.m.msg[v.m.store]
NextIsQueued(v, r) ==
  /\ v.m.store = NoSlot /\ v.m.sendQ # <<>> /\ r.m.full
  /\ r.m.read = Head(v.m.sendQ) /\ r.m.sendQ = Tail(v.m.sendQ)
  /\ r.e.sm1 = v.m.msg[Head(v.m.sendQ)]
NextIsNone(v, r) ==
  /\ v.m.store = NoSlot /\ ~r.m.full /\ r.e.sm1 = NoMsg
  /\ LongReplies = {} => v.m.sendQ = <<>> /\ r.m.sendQ = <<>>

\* OnSendMailboxRead, when the master has read SM1.
LEMMA ReadEffect ==
  ASSUME NEW v, NEW L, Good(v, L), v.m.full, v.e.sm1 = NoMsg,
         NEW r, r = OnSendMailboxRead(v)
  PROVE  /\ r.m.repeat = v.m.read /\ r.m.store = NoSlot /\ "Read" \notin r.e.events
         /\ Aside(v, r) /\ SameBits(v, r) /\ KeptMessages(v, r)
         /\ NextIsStored(v, r) \/ NextIsQueued(v, r) \/ NextIsNone(v, r)
<1>1. PICK m : m = ShiftFrames(v.m)
  OBVIOUS
<1>2. PICK e : e = [v.e EXCEPT !.events = @ \ {"Read"}]
  OBVIOUS
<1>3. Sound(v.m, L) /\ OneKept(v.m) /\ Mailbox(v.m) /\ Esc(v.e)
  BY DEF Good, Sound
<1>4. /\ ~m.full /\ m.read = NoSlot /\ m.repeat = v.m.read /\ m.store = v.m.store
      /\ m.sendQ = v.m.sendQ /\ m.recvQ = v.m.recvQ /\ m.running = v.m.running
      /\ m.wcount = v.m.wcount /\ m.rcount = v.m.rcount
      /\ m.toggle = v.m.toggle /\ m.level = v.m.level
      /\ \A s \in m.pool : s \in v.m.pool /\ m.msg[s] = v.m.msg[s]
  BY <1>1, <1>3, ShiftEffect
<1>5. Sound(m, L) /\ Mailbox(m)
  BY <1>1, <1>3, ShiftSound DEF Sound
<1>6. /\ Esc(e) /\ e.events = v.e.events \ {"Read"} /\ e.sm0 = v.e.sm0 /\ e.sm1 = NoMsg
      /\ e.req = v.e.req /\ e.ack = v.e.ack
  BY <1>2, <1>3 DEF Esc
<1>7. v.m.running
  BY <1>3 DEF Sound, FullAgrees, Filled
<1>8. CASE m.store # NoSlot
  <2>1. PICK y : y = WithoutStore(m)
    OBVIOUS
  <2>2. PICK s : s = m.store
    OBVIOUS
  <2>3. PICK u : u = [m |-> y, e |-> e]
    OBVIOUS
  <2>4. Pair(u) /\ u.m = y /\ u.e = e
    BY <2>3 DEF Pair
  <2>5. r = TransmitOrEnqueue(u, s)
    BY <1>1, <1>2, <1>8, <2>1, <2>2, <2>3 DEF OnSendMailboxRead, WithoutStore
  <2>6. DOMAIN m = Members /\ s \in m.pool /\ m.msg[s].id \notin LongReplies /\ s \in Slots
    BY <1>5, <1>8, <2>2 DEF Mailbox, Sound, Complete, Filled
  <2>7. /\ y.pool = m.pool /\ y.msg = m.msg /\ y.sendQ = m.sendQ /\ y.repeat = m.repeat
        /\ y.store = NoSlot /\ y.full = m.full
    BY <2>1, <2>6 DEF WithoutStore, Members
  <2>8. /\ y.recvQ = m.recvQ /\ y.running = m.running /\ y.wcount = m.wcount
        /\ y.rcount = m.rcount /\ y.toggle = m.toggle /\ y.level = m.level
    BY <2>1, <2>6 DEF WithoutStore, Members
  <2>9. Mailbox(u.m)
    <3>1. Sound(y, With(L, s))
      BY <1>5, <1>8, <2>1, <2>2, StoredSound
    <3> QED
      BY <2>4, <3>1 DEF Sound
  <2>10. CanTransmit(u.m, s)
    BY <1>4, <1>7, <2>4, <2>6, <2>7, <2>8 DEF CanTransmit
  <2>11. Esc(u.e) /\ u.e.sm1 = NoMsg
    BY <1>6, <2>4
  <2>12. /\ r.m.full /\ r.m.read = s /\ r.e.sm1 = u.m.msg[s]
         /\ r.m.pool = u.m.pool /\ r.m.msg = u.m.msg /\ r.m.sendQ = u.m.sendQ
         /\ r.m.repeat = u.m.repeat /\ r.m.store = u.m.store
         /\ r.e.events = u.e.events \ {"Read"}
         /\ Aside(u, r) /\ SameBits(u, r)
    BY <2>4, <2>5, <2>9, <2>10, <2>11, TransmitEffect
  <2>13. Aside(v, r) /\ SameBits(v, r)
    BY <1>4, <1>6, <2>4, <2>8, <2>12 DEF Aside, SameBits
  <2>14. KeptMessages(v, r)
    BY <1>4, <2>4, <2>7, <2>12 DEF KeptMessages
  <2>15. NextIsStored(v, r)
    BY <1>4, <1>8, <2>2, <2>4, <2>6, <2>7, <2>12 DEF NextIsStored
  <2> QED
    BY <1>4, <1>6, <2>4, <2>7, <2>12, <2>13, <2>14, <2>15
<1>9. CASE m.store = NoSlot /\ m.sendQ # <<>>
  <2>1. PICK y : y = WithoutHead(m)
    OBVIOUS
  <2>2. PICK s : s = Head(m.sendQ)
    OBVIOUS
  <2>3. PICK u : u = [m |-> y, e |-> e]
    OBVIOUS
  <2>4. Pair(u) /\ u.m = y /\ u.e = e
    BY <2>3 DEF Pair
  <2>5. r = TransmitOrEnqueue(u, s)
    BY <1>1, <1>2, <1>9, <2>1, <2>2, <2>3 DEF OnSendMailboxRead, WithoutHead
  <2>6. DOMAIN m = Members
    BY <1>5 DEF Mailbox
  <2>7. /\ y.pool = m.pool /\ y.msg = m.msg /\ y.sendQ = Tail(m.sendQ) /\ y.repeat = m.repeat
        /\ y.store = m.store /\ y.full = m.full
    BY <2>1, <2>6 DEF WithoutHead, Members
  <2>8. /\ y.recvQ = m.recvQ /\ y.running = m.running /\ y.wcount = m.wcount
        /\ y.rcount = m.rcount /\ y.toggle = m.toggle /\ y.level = m.level
    BY <2>1, <2>6 DEF WithoutHead, Members
  <2>9. Mailbox(u.m) /\ s \in m.pool
    <3>1. Sound(y, With(L, s)) /\ s \in Slots \ L
      BY <1>5, <1>9, <2>1, <2>2, SendHeadSound
    <3>2. s \in y.pool
      BY <3>1 DEF Sound, Complete, With
    <3> QED
      BY <2>4, <2>7, <3>1, <3>2 DEF Sound
  <2>10. Esc(u.e) /\ u.e.sm1 = NoMsg
    BY <1>6, <2>4
  <2>11. CASE CanTransmit(u.m, s)
    <3>1. /\ r.m.full /\ r.m.read = s /\ r.e.sm1 = u.m.msg[s]
          /\ r.m.pool = u.m.pool /\ r.m.msg = u.m.msg /\ r.m.sendQ = u.m.sendQ
          /\ r.m.repeat = u.m.repeat /\ r.m.store = u.m.store
          /\ r.e.events = u.e.events \ {"Read"}
          /\ Aside(u, r) /\ SameBits(u, r)
      BY <2>4, <2>5, <2>9, <2>10, <2>11, TransmitEffect
    <3>2. Aside(v, r) /\ SameBits(v, r)
      BY <1>4, <1>6, <2>4, <2>8, <3>1 DEF Aside, SameBits
    <3>3. KeptMessages(v, r)
      BY <1>4, <2>4, <2>7, <3>1 DEF KeptMessages
    <3>4. NextIsQueued(v, r)
      BY <1>4, <1>9, <2>2, <2>4, <2>7, <2>9, <3>1 DEF NextIsQueued
    <3> QED
      BY <1>4, <1>6, <1>9, <2>4, <2>7, <3>1, <3>2, <3>3, <3>4
  <2>12. CASE ~CanTransmit(u.m, s)
    <3>1. /\ r.e = u.e /\ r.m.full = u.m.full /\ r.m.read = u.m.read
          /\ r.m.pool = u.m.pool /\ r.m.msg = u.m.msg
          /\ r.m.repeat = u.m.repeat /\ r.m.store = u.m.store
          /\ Aside(u, r) /\ SameBits(u, r)
      BY <2>4, <2>5, <2>9, <2>12, EnqueueEffect
    <3>2. Aside(v, r) /\ SameBits(v, r)
      BY <1>4, <1>6, <2>4, <2>8, <3>1 DEF Aside, SameBits
    <3>3. KeptMessages(v, r)
      BY <1>4, <2>4, <2>7, <3>1 DEF KeptMessages
    <3>4. u.m.running /\ ~u.m.full
      BY <1>4, <1>7, <2>4, <2>7, <2>8
    <3>5. LongReplies # {}
      BY <2>12, <3>4 DEF CanTransmit
    <3>6. NextIsNone(v, r)
      BY <1>4, <1>9, <2>4, <2>10, <3>1, <3>4, <3>5 DEF NextIsNone
    <3> QED
      BY <1>4, <1>6, <1>9, <2>4, <2>7, <3>1, <3>2, <3>3, <3>6
  <2> QED
    BY <2>11, <2>12
<1>10. CASE m.store = NoSlot /\ m.sendQ = <<>>
  <2>1. r = [m |-> m, e |-> e]
    BY <1>1, <1>2, <1>10 DEF OnSendMailboxRead
  <2>2. r.m = m /\ r.e = e
    BY <2>1
  <2>3. Aside(v, r) /\ SameBits(v, r) /\ KeptMessages(v, r)
    BY <1>4, <1>6, <2>2 DEF Aside, SameBits, KeptMessages
  <2>4. NextIsNone(v, r)
    BY <1>4, <1>6, <1>10, <2>2 DEF NextIsNone
  <2> QED
    BY <1>4, <1>6, <1>10, <2>2, <2>3, <2>4
<1> QED
  BY <1>8, <1>9, <1>10

\* Service, second part, on an edge of the request bit with a frame to repeat, while the
\* master has not read SM1: the frame goes to SM1, and the one it displaces is stored.
LEMMA RepeatEffect ==
  ASSUME NEW v, NEW L, Good(v, L), v.e.req # v.m.level, v.m.repeat # NoSlot,
         v.m.full \/ v.e.sm1 = NoMsg,
         NEW r, r = ServiceRepeat(v)
  PROVE  /\ r.m.full /\ r.m.read = v.m.repeat /\ r.m.repeat = NoSlot /\ r.m.store = v.m.read
         /\ r.m.pool = v.m.pool /\ r.m.msg = v.m.msg /\ r.m.sendQ = v.m.sendQ
         /\ r.e.sm1 = v.m.msg[v.m.repeat] /\ r.e.events = v.e.events \ {"Read"}
         /\ Aside(v, r)
         /\ r.m.toggle = ~v.m.toggle /\ r.m.level = v.e.req /\ r.e.ack = r.m.toggle
<1>1. PICK m : m = v.m
  OBVIOUS
<1>2. PICK e : e = v.e
  OBVIOUS
<1>3. /\ Sound(m, L) /\ OneKept(m) /\ Mailbox(m) /\ Esc(e)
      /\ DOMAIN m = Members /\ DOMAIN e = {"sm0", "sm1", "events", "req", "ack"}
  BY <1>1, <1>2 DEF Good, Sound, Mailbox, Esc
<1>4. /\ m.store = NoSlot /\ m.repeat \in m.pool /\ m.repeat \in Slots /\ m.running
      /\ m.msg[m.repeat].id \notin LongReplies
  BY <1>1, <1>3 DEF OneKept, Sound, Complete, Filled, Mailbox
<1>5. PICK s : s = m.repeat
  OBVIOUS
<1>6. PICK x : x = ~m.toggle
  OBVIOUS
<1>7. PICK a : a = [v EXCEPT !.m.level = e.req]
  OBVIOUS
<1>8. PICK b : b = [a EXCEPT !.m.toggle = x]
  OBVIOUS
<1>9. PICK d : d = Displace(b)
  OBVIOUS
<1>10. Pair(b) /\ b.e = e /\ b.m = [a.m EXCEPT !.toggle = x] /\ a.m = [m EXCEPT !.level = e.req]
  <2>1. Pair(a) /\ a.m = [m EXCEPT !.level = e.req] /\ a.e = e
    BY <1>1, <1>2, <1>7 DEF Good, Pair
  <2>2. Pair(b) /\ b.e = a.e /\ b.m = [a.m EXCEPT !.toggle = x]
    BY <1>8, <2>1 DEF Pair
  <2> QED
    BY <2>1, <2>2
<1>11. /\ DOMAIN b.m = Members /\ b.m.full = m.full /\ b.m.read = m.read
       /\ b.m.store = NoSlot /\ b.m.repeat = s /\ b.m.pool = m.pool /\ b.m.msg = m.msg
       /\ b.m.sendQ = m.sendQ /\ b.m.recvQ = m.recvQ /\ b.m.running = m.running
       /\ b.m.wcount = m.wcount /\ b.m.rcount = m.rcount
       /\ b.m.toggle = x /\ b.m.level = e.req
  <2>1. PICK n : n = a.m
    OBVIOUS
  <2>2. PICK k : k = b.m
    OBVIOUS
  <2>3. /\ DOMAIN n = Members /\ n.full = m.full /\ n.read = m.read /\ n.store = m.store
        /\ n.repeat = m.repeat /\ n.pool = m.pool /\ n.msg = m.msg /\ n.sendQ = m.sendQ
        /\ n.recvQ = m.recvQ /\ n.running = m.running /\ n.wcount = m.wcount
        /\ n.rcount = m.rcount /\ n.level = e.req
    BY <1>3, <1>10, <2>1 DEF Members
  <2>4. /\ DOMAIN k = Members /\ k.full = n.full /\ k.read = n.read /\ k.store = n.store
        /\ k.repeat = n.repeat /\ k.pool = n.pool /\ k.msg = n.msg /\ k.sendQ = n.sendQ
        /\ k.recvQ = n.recvQ /\ k.running = n.running /\ k.wcount = n.wcount
        /\ k.rcount = n.rcount /\ k.level = n.level /\ k.toggle = x
    BY <1>10, <2>1, <2>2, <2>3 DEF Members
  <2> QED
    BY <1>4, <1>5, <2>2, <2>3, <2>4
\* What Displace leaves: SM1 is empty, and a frame that was in it is stored.
<1>12. /\ Pair(d) /\ Esc(d.e) /\ d.e.sm1 = NoMsg /\ d.e.sm0 = e.sm0 /\ d.e.req = e.req
       /\ d.e.events = e.events
       /\ DOMAIN d.m = Members /\ d.m.full = FALSE /\ d.m.read = NoSlot
       /\ d.m.store = m.read /\ d.m.repeat = s /\ d.m.pool = m.pool /\ d.m.msg = m.msg
       /\ d.m.sendQ = m.sendQ /\ d.m.recvQ = m.recvQ /\ d.m.running = m.running
       /\ d.m.wcount = m.wcount /\ d.m.rcount = m.rcount
       /\ d.m.toggle = x /\ d.m.level = e.req
  <2>1. CASE m.full
    <3>1. PICK n : n = [b.m EXCEPT !.store = m.read, !.read = NoSlot, !.full = FALSE]
      OBVIOUS
    <3>2. PICK g : g = [e EXCEPT !.sm1 = NoMsg]
      OBVIOUS
    <3>3. d = [m |-> n, e |-> g]
      BY <1>9, <1>10, <1>11, <2>1, <3>1, <3>2 DEF Displace
    <3>4. Pair(d) /\ d.m = n /\ d.e = g
      BY <3>3 DEF Pair
    <3>5. /\ Esc(g) /\ g.sm1 = NoMsg /\ g.sm0 = e.sm0 /\ g.req = e.req
          /\ g.events = e.events
      BY <1>3, <3>2 DEF Esc
    <3>6. /\ DOMAIN n = Members /\ n.full = FALSE /\ n.read = NoSlot /\ n.store = m.read
          /\ n.repeat = b.m.repeat /\ n.pool = b.m.pool /\ n.msg = b.m.msg
          /\ n.sendQ = b.m.sendQ
      BY <1>11, <3>1 DEF Members
    <3>7. /\ n.recvQ = b.m.recvQ /\ n.running = b.m.running /\ n.wcount = b.m.wcount
          /\ n.rcount = b.m.rcount /\ n.toggle = b.m.toggle /\ n.level = b.m.level
      BY <1>11, <3>1 DEF Members
    <3> QED
      BY <1>11, <3>4, <3>5, <3>6, <3>7
  <2>2. CASE ~m.full
    <3>1. m.read = NoSlot /\ e.sm1 = NoMsg /\ m.full = FALSE
      BY <1>1, <1>2, <1>3, <2>2 DEF Sound, FullAgrees, Mailbox
    <3>2. d = b
      BY <1>9, <1>11, <2>2 DEF Displace
    <3> QED
      BY <1>3, <1>10, <1>11, <3>1, <3>2
  <2> QED
    BY <2>1, <2>2
<1>13. PICK y : y = [d.m EXCEPT !.repeat = NoSlot]
  OBVIOUS
<1>14. PICK u : u = [d EXCEPT !.m.repeat = NoSlot]
  OBVIOUS
<1>15. PICK t : t = TransmitOrEnqueue(u, s)
  OBVIOUS
<1>16. Pair(u) /\ u.m = y /\ u.e = d.e
  BY <1>12, <1>13, <1>14 DEF Pair
<1>17. r = Acknowledge(t)
  <2>1. r = OnRepeatRequest(a) /\ a.m.toggle = m.toggle /\ a.m.repeat = s /\ s # NoSlot
    <3>1. a.m = [m EXCEPT !.level = e.req]
      BY <1>1, <1>2, <1>7 DEF Good, Pair
    <3> QED
      BY <1>1, <1>2, <1>3, <1>5, <1>7, <3>1 DEF ServiceRepeat, Members
  <2>2. b = [a EXCEPT !.m.toggle = ~@]
    BY <1>6, <1>8, <2>1
  <2>3. d.m.repeat = s
    BY <1>12
  <2> QED
    BY <1>9, <1>14, <1>15, <2>1, <2>2, <2>3 DEF OnRepeatRequest
<1>18. /\ y.full = FALSE /\ y.store = m.read /\ y.repeat = NoSlot /\ y.pool = m.pool
       /\ y.msg = m.msg /\ y.sendQ = m.sendQ /\ y.read = NoSlot
  BY <1>12, <1>13 DEF Members
<1>19. /\ y.recvQ = m.recvQ /\ y.running = m.running /\ y.wcount = m.wcount
       /\ y.rcount = m.rcount /\ y.toggle = x /\ y.level = e.req
  BY <1>12, <1>13 DEF Members
<1>20. Mailbox(y)
  <2>1. DOMAIN y = Members
    BY <1>12, <1>13
  <2>2. x \in BOOLEAN /\ e.req \in BOOLEAN
    BY <1>3, <1>6 DEF Esc
  <2> QED
    BY <1>3, <1>18, <1>19, <2>1, <2>2 DEF Mailbox
<1>21. CanTransmit(y, s)
  BY <1>4, <1>5, <1>18, <1>19 DEF CanTransmit
<1>22. /\ t.m.full /\ t.m.read = s /\ t.e.sm1 = y.msg[s]
       /\ t.m.pool = y.pool /\ t.m.msg = y.msg /\ t.m.sendQ = y.sendQ
       /\ t.m.repeat = y.repeat /\ t.m.store = y.store
       /\ t.e.events = d.e.events \ {"Read"}
       /\ Aside(u, t) /\ SameBits(u, t)
  <2>1. Mailbox(u.m) /\ CanTransmit(u.m, s) /\ Esc(u.e) /\ u.e.sm1 = NoMsg
    BY <1>12, <1>16, <1>20, <1>21
  <2>2. /\ t.m.full /\ t.m.read = s /\ t.e.sm1 = u.m.msg[s]
        /\ t.m.pool = u.m.pool /\ t.m.msg = u.m.msg /\ t.m.sendQ = u.m.sendQ
        /\ t.m.repeat = u.m.repeat /\ t.m.store = u.m.store
        /\ t.e.events = u.e.events \ {"Read"}
        /\ Aside(u, t) /\ SameBits(u, t)
    BY <1>15, <1>16, <2>1, TransmitEffect
  <2> QED
    BY <1>16, <2>2
<1>23. /\ r.m = t.m /\ r.e.ack = t.m.toggle /\ r.e.sm1 = t.e.sm1 /\ r.e.sm0 = t.e.sm0
       /\ r.e.events = t.e.events /\ r.e.req = t.e.req
  <2>1. t = [m |-> [y EXCEPT !.full = TRUE, !.read = s], e |-> WriteSm1(d.e, y.msg[s])]
    BY <1>15, <1>16, <1>21 DEF TransmitOrEnqueue
  <2>2. DOMAIN t.e = {"sm0", "sm1", "events", "req", "ack"} /\ DOMAIN t = {"m", "e"}
    BY <1>12, <2>1 DEF WriteSm1, Esc
  <2>3. r = [t EXCEPT !.e.ack = t.m.toggle]
    BY <1>17 DEF Acknowledge
  <2> QED
    BY <2>2, <2>3
<1> QED
  BY <1>1, <1>2, <1>5, <1>6, <1>12, <1>16, <1>18, <1>19, <1>22, <1>23 DEF Aside, SameBits

\* Service, second part, on an edge of the request bit without a frame to repeat: the
\* toggle bit changes, and nothing is acknowledged.
LEMMA ForgetEffect ==
  ASSUME NEW v, NEW L, Good(v, L), v.e.req # v.m.level, v.m.repeat = NoSlot,
         NEW r, r = ServiceRepeat(v)
  PROVE  /\ SameSlots(v, r) /\ r.m.running = v.m.running /\ r.e = v.e
         /\ r.m.toggle = ~v.m.toggle /\ r.m.level = v.e.req
<1>1. PICK m : m = v.m
  OBVIOUS
<1>2. PICK q : q = v.e.req
  OBVIOUS
<1>3. PICK x : x = ~m.toggle
  OBVIOUS
<1>4. PICK a : a = [v EXCEPT !.m.level = q]
  OBVIOUS
<1>5. Pair(v) /\ DOMAIN m = Members
  BY <1>1 DEF Good, Sound, Mailbox
<1>6. Pair(a) /\ a.m = [m EXCEPT !.level = q] /\ a.e = v.e
  BY <1>1, <1>4, <1>5 DEF Pair
<1>7. a.m.repeat = NoSlot /\ a.m.toggle = m.toggle /\ DOMAIN a.m = Members
  BY <1>1, <1>5, <1>6 DEF Members
<1>8. r = [a EXCEPT !.m.toggle = x]
  BY <1>2, <1>3, <1>4, <1>7 DEF ServiceRepeat, OnRepeatRequest
<1>9. r.m = [a.m EXCEPT !.toggle = x] /\ r.e = v.e
  BY <1>6, <1>8 DEF Pair
<1>10. PICK n : n = a.m
  OBVIOUS
<1>11. PICK y : y = r.m
  OBVIOUS
<1>12. /\ n.full = m.full /\ n.read = m.read /\ n.repeat = m.repeat /\ n.store = m.store
       /\ n.pool = m.pool /\ n.msg = m.msg /\ n.sendQ = m.sendQ /\ n.recvQ = m.recvQ
       /\ n.wcount = m.wcount /\ n.rcount = m.rcount /\ n.running = m.running /\ n.level = q
       /\ DOMAIN n = Members
  BY <1>5, <1>6, <1>10 DEF Members
<1>13. /\ y.full = n.full /\ y.read = n.read /\ y.repeat = n.repeat /\ y.store = n.store
       /\ y.pool = n.pool /\ y.msg = n.msg /\ y.sendQ = n.sendQ /\ y.recvQ = n.recvQ
       /\ y.wcount = n.wcount /\ y.rcount = n.rcount /\ y.running = n.running /\ y.level = n.level
       /\ y.toggle = x
  BY <1>9, <1>10, <1>11, <1>12 DEF Members
<1> QED
  BY <1>1, <1>2, <1>3, <1>9, <1>11, <1>12, <1>13 DEF SameSlots, SameFrames

\* Service, third part.
LEMMA SendEffect ==
  ASSUME NEW v, NEW L, Good(v, L), v.m.full \/ v.e.sm1 = NoMsg,
         NEW r, r = ServiceSend(v)
  PROVE  /\ r.m.pool = v.m.pool /\ r.m.msg = v.m.msg
         /\ r.m.repeat = v.m.repeat /\ r.m.store = v.m.store
         /\ Aside(v, r) /\ SameBits(v, r)
         /\ \/ SameFrames(v, r) /\ r.e = v.e
            \/ /\ ~v.m.full /\ v.m.sendQ # <<>> /\ r.m.full /\ r.m.read = Head(v.m.sendQ)
               /\ r.m.read \in v.m.pool
               /\ r.e.sm1 = v.m.msg[r.m.read] /\ r.e.events = v.e.events \ {"Read"}
         /\ v.m.sendQ = <<>> => r = v
<1>1. CASE ~(~v.m.full /\ v.m.read = NoSlot /\ v.m.sendQ # <<>>)
  <2>1. r = v
    BY <1>1 DEF ServiceSend
  <2> QED
    BY <2>1 DEF Aside, SameBits, SameFrames
<1>2. CASE ~v.m.full /\ v.m.read = NoSlot /\ v.m.sendQ # <<>>
  <2>1. PICK m : m = v.m
    OBVIOUS
  <2>2. PICK y : y = WithoutHead(m)
    OBVIOUS
  <2>3. PICK s : s = Head(m.sendQ)
    OBVIOUS
  <2>4. PICK u : u = [v EXCEPT !.m.sendQ = Tail(@)]
    OBVIOUS
  <2>5. Pair(u) /\ u.m = y /\ u.e = v.e
    BY <2>1, <2>2, <2>4 DEF Good, Pair, WithoutHead
  <2>6. r = TransmitOrEnqueue(u, s)
    BY <1>2, <2>1, <2>3, <2>4 DEF ServiceSend
  <2>7. Sound(m, L) /\ DOMAIN m = Members /\ Esc(v.e) /\ v.e.sm1 = NoMsg
    BY <1>2, <2>1 DEF Good, Sound, Mailbox
  <2>8. /\ y.pool = m.pool /\ y.msg = m.msg /\ y.repeat = m.repeat /\ y.store = m.store
        /\ y.full = m.full /\ y.read = m.read
    BY <2>2, <2>7 DEF WithoutHead, Members
  <2>9. /\ y.recvQ = m.recvQ /\ y.running = m.running /\ y.wcount = m.wcount
        /\ y.rcount = m.rcount /\ y.toggle = m.toggle /\ y.level = m.level
    BY <2>2, <2>7 DEF WithoutHead, Members
  <2>10. Mailbox(u.m) /\ s \in m.pool
    <3>1. m.sendQ # <<>>
      BY <1>2, <2>1
    <3>2. Sound(y, With(L, s))
      BY <2>2, <2>3, <2>7, <3>1, SendHeadSound
    <3>3. s \in y.pool
      BY <3>2 DEF Sound, Complete, With
    <3> QED
      BY <2>5, <2>8, <3>2, <3>3 DEF Sound
  <2>11. CASE CanTransmit(u.m, s)
    <3>1. /\ r.m.full /\ r.m.read = s /\ r.e.sm1 = u.m.msg[s]
          /\ r.m.pool = u.m.pool /\ r.m.msg = u.m.msg
          /\ r.m.repeat = u.m.repeat /\ r.m.store = u.m.store
          /\ r.e.events = u.e.events \ {"Read"}
          /\ Aside(u, r) /\ SameBits(u, r)
      <4>1. Esc(u.e) /\ u.e.sm1 = NoMsg
        BY <2>5, <2>7
      <4> QED
        BY <2>5, <2>6, <2>10, <2>11, <4>1, TransmitEffect
    <3>2. Aside(v, r) /\ SameBits(v, r)
      BY <2>1, <2>5, <2>9, <3>1 DEF Aside, SameBits
    <3> QED
      BY <1>2, <2>1, <2>3, <2>5, <2>8, <2>10, <3>1, <3>2
  <2>12. CASE ~CanTransmit(u.m, s)
    <3>1. /\ r.e = u.e /\ r.m.full = u.m.full /\ r.m.read = u.m.read
          /\ r.m.pool = u.m.pool /\ r.m.msg = u.m.msg
          /\ r.m.repeat = u.m.repeat /\ r.m.store = u.m.store
          /\ Aside(u, r) /\ SameBits(u, r)
      BY <2>5, <2>6, <2>10, <2>12, EnqueueEffect
    <3>2. Aside(v, r) /\ SameBits(v, r)
      BY <2>1, <2>5, <2>9, <3>1 DEF Aside, SameBits
    <3>3. SameFrames(v, r) /\ r.e = v.e
      BY <2>1, <2>5, <2>8, <3>1 DEF SameFrames
    <3> QED
      BY <1>2, <2>1, <2>5, <2>8, <3>1, <3>2, <3>3
  <2> QED
    BY <2>11, <2>12
<1> QED
  BY <1>1, <1>2

\* Receive changes no frame; it leaves the request in SM0, drops it, or puts it at the
\* end of the receive queue.
Untouched(v, r) == r.m = v.m /\ r.e.sm0 = v.e.sm0
DropsMalformed(v, r) ==
  /\ ~v.m.full /\ v.e.sm0 # NoMsg /\ v.e.sm0.id \in Malformed
  /\ r.m = v.m /\ r.e.sm0 = NoMsg
DropsRetry(v, r) ==
  /\ ~v.m.full /\ v.e.sm0 # NoMsg /\ IsRetry(v.m, v.e.sm0)
  /\ r.m = v.m /\ r.e.sm0 = NoMsg
DropsForRoom(v, r) ==
  /\ ~v.m.full /\ v.e.sm0 # NoMsg /\ ~IsRetry(v.m, v.e.sm0) /\ Len(v.m.recvQ) = QueueDepth
Accepts(v, r, s) ==
  /\ ~v.m.full /\ v.e.sm0 # NoMsg /\ ~IsRetry(v.m, v.e.sm0)
  /\ s \in Slots \ v.m.pool /\ r.m.pool = v.m.pool \cup {s}
  /\ r.m.msg = [v.m.msg EXCEPT ![s] = v.e.sm0]
  /\ r.m.recvQ = Append(v.m.recvQ, s) /\ r.m.wcount = v.e.sm0.cnt /\ r.e.sm0 = NoMsg

LEMMA ReceiveEffect ==
  ASSUME NEW v, NEW L, Good(v, L), NEW r, r = Receive(v)
  PROVE  /\ SameFrames(v, r) /\ SameBits(v, r) /\ r.m.sendQ = v.m.sendQ
         /\ r.m.running = v.m.running /\ r.m.rcount = v.m.rcount
         /\ r.e.sm1 = v.e.sm1 /\ r.e.req = v.e.req /\ r.e.events \subseteq v.e.events
         /\ \A s \in v.m.pool : r.m.msg[s] = v.m.msg[s]
         /\ \/ Untouched(v, r) \/ DropsMalformed(v, r)
            \/ DropsRetry(v, r) \/ DropsForRoom(v, r)
            \/ \E s \in Slots : Accepts(v, r, s)
<1>1. PICK m : m = v.m
  OBVIOUS
<1>2. PICK e : e = v.e
  OBVIOUS
<1>3. PICK msg : msg = e.sm0
  OBVIOUS
<1>4. /\ Pair(v) /\ Mailbox(m) /\ DOMAIN m = Members /\ m.pool \subseteq Slots
      /\ DOMAIN m.msg = Slots /\ DOMAIN e = {"sm0", "sm1", "events", "req", "ack"}
  BY <1>1, <1>2 DEF Good, Sound, Mailbox, Esc
<1>0. MayReceive(v) <=> m.running /\ ~m.full /\ msg # NoMsg
  BY <1>1, <1>2, <1>3 DEF MayReceive
<1>5. CASE ~MayReceive(v)
  <2>1. r = v
    BY <1>5 DEF Receive
  <2> QED
    BY <2>1 DEF SameFrames, SameBits, Untouched
<1>6. CASE MayReceive(v) /\ msg.id \notin Malformed /\ m.pool = Slots
  <2>1. r = [v EXCEPT !.e.events = @ \ {"Write"}]
    BY <1>1, <1>2, <1>3, <1>6 DEF Receive
  <2>2. r.m = m /\ r.e = [e EXCEPT !.events = @ \ {"Write"}]
    BY <1>1, <1>2, <1>4, <2>1 DEF Pair
  <2>3. /\ r.e.sm0 = e.sm0 /\ r.e.sm1 = e.sm1 /\ r.e.req = e.req /\ r.e.ack = e.ack
        /\ r.e.events \subseteq e.events
    BY <1>4, <2>2
  <2> QED
    BY <1>1, <1>2, <2>2, <2>3 DEF SameFrames, SameBits, Untouched
<1>7. CASE MayReceive(v) /\ (msg.id \in Malformed \/ m.pool # Slots)
  <2>0. ~m.full /\ msg # NoMsg
    BY <1>0, <1>7
  <2>1. PICK t : t = TakeFromSm0(v)
    OBVIOUS
  <2>2. Pair(t) /\ t.m = m /\ t.e = [e EXCEPT !.sm0 = NoMsg, !.events = @ \ {"Write"}]
    BY <1>1, <1>2, <1>4, <2>1 DEF TakeFromSm0, Pair
  <2>3. /\ t.e.sm0 = NoMsg /\ t.e.sm1 = e.sm1 /\ t.e.req = e.req /\ t.e.ack = e.ack
        /\ t.e.events \subseteq e.events
    BY <1>4, <2>2
  <2>4. PICK n : n = [t EXCEPT !.m.wcount = msg.cnt]
    OBVIOUS
  <2>5. Pair(n) /\ n.m = [m EXCEPT !.wcount = msg.cnt] /\ n.e = t.e
    BY <2>2, <2>4 DEF Pair
  <2>6. /\ n.m.full = m.full /\ n.m.read = m.read /\ n.m.repeat = m.repeat
        /\ n.m.store = m.store /\ n.m.pool = m.pool /\ n.m.msg = m.msg
        /\ n.m.sendQ = m.sendQ
    BY <1>4, <2>5 DEF Members
  <2>7. /\ n.m.recvQ = m.recvQ /\ n.m.running = m.running /\ n.m.wcount = msg.cnt
        /\ n.m.rcount = m.rcount /\ n.m.toggle = m.toggle /\ n.m.level = m.level
        /\ DOMAIN n.m = Members
    BY <1>4, <2>5 DEF Members
  <2>8. CASE msg.id \notin Malformed /\ IsRetry(m, msg)
    <3>1. r = t
      BY <1>1, <1>2, <1>3, <1>7, <2>1, <2>8 DEF Receive
    <3>2. DropsRetry(v, r)
      BY <1>1, <1>2, <1>3, <2>0, <2>2, <2>3, <2>8, <3>1 DEF DropsRetry
    <3> QED
      BY <1>1, <1>2, <2>2, <2>3, <3>1, <3>2 DEF SameFrames, SameBits
  <2>9. CASE msg.id \notin Malformed /\ ~IsRetry(m, msg) /\ Len(m.recvQ) = QueueDepth
    <3>1. r = n
      BY <1>1, <1>2, <1>3, <1>7, <2>1, <2>4, <2>9 DEF Receive
    <3>2. DropsForRoom(v, r)
      BY <1>1, <1>2, <1>3, <2>0, <2>9 DEF DropsForRoom
    <3> QED
      BY <1>1, <1>2, <2>3, <2>5, <2>6, <2>7, <3>1, <3>2 DEF SameFrames, SameBits
  <2>10. CASE msg.id \notin Malformed /\ ~IsRetry(m, msg) /\ Len(m.recvQ) # QueueDepth
    <3>1. PICK s : s = FirstFree(m)
      OBVIOUS
    <3>2. s \in Slots \ m.pool
      BY <1>4, <1>7, <2>10, <3>1, FirstFreeSound
    <3>3. PICK y : y = [n.m EXCEPT !.pool = @ \cup {s}, !.msg[s] = msg, !.recvQ = Append(@, s)]
      OBVIOUS
    <3>4. r = [n EXCEPT !.m.pool = @ \cup {s}, !.m.msg[s] = msg, !.m.recvQ = Append(@, s)]
      BY <1>1, <1>2, <1>3, <1>7, <2>1, <2>4, <2>10, <3>1 DEF Receive
    <3>5. r.m = y /\ r.e = t.e
      BY <2>5, <2>7, <3>3, <3>4 DEF Pair, Members
    <3>6. /\ y.full = m.full /\ y.read = m.read /\ y.repeat = m.repeat /\ y.store = m.store
          /\ y.sendQ = m.sendQ /\ y.running = m.running /\ y.rcount = m.rcount
          /\ y.toggle = m.toggle /\ y.level = m.level
      BY <2>6, <2>7, <3>3 DEF Members
    <3>7. /\ y.pool = m.pool \cup {s} /\ y.msg = [m.msg EXCEPT ![s] = msg]
          /\ y.recvQ = Append(m.recvQ, s) /\ y.wcount = msg.cnt
      BY <2>6, <2>7, <3>3 DEF Members
    <3>8. \A x \in m.pool : y.msg[x] = m.msg[x]
      BY <1>4, <3>2, <3>7
    <3>9. Accepts(v, r, s)
      BY <1>1, <1>2, <1>3, <2>0, <2>3, <2>10, <3>2, <3>5, <3>7 DEF Accepts
    <3> QED
      BY <1>1, <1>2, <2>3, <3>2, <3>5, <3>6, <3>8, <3>9 DEF SameFrames, SameBits
  <2>11. CASE msg.id \in Malformed
    <3>1. r = t
      BY <1>1, <1>2, <1>3, <1>7, <2>1, <2>11 DEF Receive
    <3>2. DropsMalformed(v, r)
      BY <1>1, <1>2, <1>3, <2>0, <2>2, <2>3, <2>11, <3>1 DEF DropsMalformed
    <3> QED
      BY <1>1, <1>2, <2>2, <2>3, <3>1, <3>2 DEF SameFrames, SameBits
  <2> QED
    BY <2>8, <2>9, <2>10, <2>11
<1> QED
  BY <1>5, <1>6, <1>7

\* SM1 as the master leaves it when it has read the frame that was there.
Emptied(v) == v.m.full /\ v.e.sm1 = NoMsg

\* The same mailbox and buffers with fewer events.
FewerEvents(v, a) ==
  /\ a.m = v.m /\ a.e.sm0 = v.e.sm0 /\ a.e.sm1 = v.e.sm1
  /\ a.e.req = v.e.req /\ a.e.ack = v.e.ack /\ a.e.events \subseteq v.e.events

\* The mailbox part of HandleAlEvents does one thing at most when a read event means that
\* SM1 was read: Receive leaves SM0 alone as long as SM1 is full.
LEMMA HandlingEffect ==
  ASSUME NEW v, NEW L, Good(v, L), "Read" \in v.e.events => Emptied(v),
         NEW r, r = HandleMailboxEvents(v)
  PROVE  \E a : /\ FewerEvents(v, a) /\ Good(a, L)
                /\ \/ r = a /\ "Read" \notin a.e.events
                   \/ r = Receive(a) /\ "Read" \notin a.e.events
                   \/ r = OnSendMailboxRead(a) /\ Emptied(a)
<1>1. PICK a : a = ReadAlEvent(v)
  OBVIOUS
<1>2. /\ Pair(a) /\ a.m = v.m
      /\ a.e = [v.e EXCEPT !.events = IF ReadAcknowledges THEN {} ELSE @]
  BY <1>1 DEF Good, Pair, ReadAlEvent
<1>3. Esc(v.e)
  BY DEF Good
<1>4. Esc(a.e) /\ FewerEvents(v, a)
  <2>1. /\ DOMAIN a.e = {"sm0", "sm1", "events", "req", "ack"}
        /\ a.e.sm0 = v.e.sm0 /\ a.e.sm1 = v.e.sm1 /\ a.e.req = v.e.req /\ a.e.ack = v.e.ack
        /\ a.e.events \subseteq v.e.events
    BY <1>2, <1>3 DEF Esc
  <2> QED
    BY <1>2, <1>3, <2>1 DEF Esc, FewerEvents
<1>5. Good(a, L)
  BY <1>2, <1>4, EscChange
<1>6. PICK b : b = IF "Write" \in v.e.events THEN Receive(a) ELSE a
  OBVIOUS
<1>7. r = IF "Read" \in v.e.events THEN OnSendMailboxRead(b) ELSE b
  BY <1>1, <1>6 DEF HandleMailboxEvents
<1>8. CASE "Read" \in v.e.events
  <2>1. Emptied(a)
    BY <1>4, <1>8 DEF Emptied, FewerEvents
  <2>2. b = a
    BY <1>6, <2>1 DEF Receive, MayReceive, Emptied
  <2> QED
    BY <1>4, <1>5, <1>7, <1>8, <2>1, <2>2
<1>9. CASE "Read" \notin v.e.events
  <2>1. "Read" \notin a.e.events
    BY <1>4, <1>9 DEF FewerEvents
  <2> QED
    BY <1>4, <1>5, <1>6, <1>7, <1>9, <2>1
<1> QED
  BY <1>8, <1>9

\* Answer numbers the reply, which stays in its slot, and sends it or queues it; when there
\* is none, or the queue is full, the slot is given back.
Numbered(v, r, s) ==
  /\ r.m.rcount = NextCounter(v.m.rcount) /\ r.m.pool = v.m.pool
  /\ r.m.msg = [v.m.msg EXCEPT ![s] = [v.m.msg[s] EXCEPT !.cnt = NextCounter(v.m.rcount)]]
SendsReply(v, r, s) ==
  /\ CanTransmit(v.m, s) /\ Numbered(v, r, s)
  /\ r.m.full /\ r.m.read = s /\ r.m.sendQ = v.m.sendQ
  /\ r.e.sm1 = r.m.msg[s] /\ r.e.events = v.e.events \ {"Read"}
QueuesReply(v, r, s) ==
  /\ ~CanTransmit(v.m, s) /\ Numbered(v, r, s)
  /\ r.m.full = v.m.full /\ r.m.read = v.m.read /\ r.m.sendQ = Append(v.m.sendQ, s)
  /\ r.e = v.e
DropsReply(v, r, s) ==
  /\ \/ v.m.msg[s].id \in Unanswered
     \/ ~CanTransmit(v.m, s) /\ ~(Len(v.m.sendQ) < QueueDepth)
  /\ r.m.full = v.m.full /\ r.m.read = v.m.read /\ r.e = v.e

LEMMA AnswerEffect ==
  ASSUME NEW v, NEW L, NEW s \in Slots \ L, Good(v, With(L, s)), v.m.full \/ v.e.sm1 = NoMsg,
         NEW r, r = Answer(v, s)
  PROVE  /\ r.m.repeat = v.m.repeat /\ r.m.store = v.m.store /\ SameBits(v, r)
         /\ r.m.recvQ = v.m.recvQ /\ r.m.running = v.m.running /\ r.m.wcount = v.m.wcount
         /\ r.e.sm0 = v.e.sm0 /\ r.e.req = v.e.req
         /\ \A x \in v.m.pool \ {s} : r.m.msg[x] = v.m.msg[x]
         /\ SendsReply(v, r, s) \/ QueuesReply(v, r, s) \/ DropsReply(v, r, s)
<1>1. PICK m : m = v.m
  OBVIOUS
<1>2. PICK K : K = With(L, s)
  OBVIOUS
<1>3. /\ Pair(v) /\ Sound(m, K) /\ Mailbox(m) /\ DOMAIN m = Members /\ s \in K /\ Esc(v.e)
      /\ m.pool \subseteq Slots /\ DOMAIN m.msg = Slots
  BY <1>1, <1>2 DEF Good, Sound, Mailbox, With
<1>4. PICK n : n = [v EXCEPT !.m = Number(@, s)]
  OBVIOUS
<1>5. PICK y : y = Number(m, s)
  OBVIOUS
<1>6. Pair(n) /\ n.m = y /\ n.e = v.e
  BY <1>1, <1>3, <1>4, <1>5 DEF Pair
<1>7. PICK c : c = NextCounter(m.rcount)
  OBVIOUS
<1>8. PICK g : g = [m.msg EXCEPT ![s] = [m.msg[s] EXCEPT !.cnt = c]]
  OBVIOUS
<1>9. y = [m EXCEPT !.rcount = c, !.msg = g]
  BY <1>3, <1>5, <1>7, <1>8 DEF Number, Members
<1>10. /\ y.rcount = c /\ y.msg = g /\ y.pool = m.pool /\ y.full = m.full /\ y.read = m.read
       /\ y.repeat = m.repeat /\ y.store = m.store /\ y.sendQ = m.sendQ
  BY <1>3, <1>9 DEF Members
<1>11. /\ y.recvQ = m.recvQ /\ y.running = m.running /\ y.wcount = m.wcount
       /\ y.toggle = m.toggle /\ y.level = m.level
  BY <1>3, <1>9 DEF Members
<1>12. Mailbox(y) /\ CanTransmit(y, s) = CanTransmit(m, s)
  BY <1>3, <1>5, NumberSound DEF Sound
<1>13. \A x \in m.pool \ {s} : g[x] = m.msg[x]
  BY <1>3, <1>8
<1>14. CASE m.msg[s].id \notin Unanswered /\ CanTransmit(m, s)
  <2>1. r = TransmitOrEnqueue(n, s)
    BY <1>1, <1>4, <1>14 DEF Answer, Submit
  <2>2. Mailbox(n.m) /\ Esc(n.e) /\ n.e.sm1 = NoMsg /\ CanTransmit(n.m, s)
    BY <1>1, <1>3, <1>6, <1>12, <1>14 DEF CanTransmit
  <2>3. /\ r.m.full /\ r.m.read = s /\ r.e.sm1 = n.m.msg[s]
        /\ r.m.pool = n.m.pool /\ r.m.msg = n.m.msg /\ r.m.sendQ = n.m.sendQ
        /\ r.m.repeat = n.m.repeat /\ r.m.store = n.m.store
        /\ r.e.events = n.e.events \ {"Read"}
        /\ Aside(n, r) /\ SameBits(n, r)
    BY <1>6, <2>1, <2>2, TransmitEffect
  <2>4. SameBits(v, r)
    BY <1>1, <1>6, <1>11, <2>3 DEF SameBits
  <2>5. Numbered(v, r, s)
    BY <1>1, <1>6, <1>7, <1>8, <1>10, <2>3 DEF Numbered, Aside
  <2>6. SendsReply(v, r, s)
    BY <1>1, <1>6, <1>10, <1>14, <2>3, <2>5 DEF SendsReply
  <2> QED
    BY <1>1, <1>6, <1>10, <1>11, <1>13, <2>3, <2>4, <2>6 DEF Aside
<1>15. CASE /\ m.msg[s].id \notin Unanswered
            /\ ~CanTransmit(m, s) /\ Len(m.sendQ) < QueueDepth
  <2>1. r = TransmitOrEnqueue(n, s)
    BY <1>1, <1>4, <1>15 DEF Answer, Submit
  <2>2. Mailbox(n.m) /\ ~CanTransmit(n.m, s)
    BY <1>6, <1>12, <1>15
  <2>3. /\ r.e = n.e /\ r.m.sendQ = Enqueue(n.m.sendQ, s)
        /\ r.m.full = n.m.full /\ r.m.read = n.m.read
        /\ r.m.pool = n.m.pool /\ r.m.msg = n.m.msg
        /\ r.m.repeat = n.m.repeat /\ r.m.store = n.m.store
        /\ Aside(n, r) /\ SameBits(n, r)
    BY <1>6, <2>1, <2>2, EnqueueEffect
  <2>4. r.m.sendQ = Append(m.sendQ, s)
    BY <1>6, <1>10, <1>15, <2>3 DEF Enqueue
  <2>5. SameBits(v, r)
    BY <1>1, <1>6, <1>11, <2>3 DEF SameBits
  <2>6. Numbered(v, r, s)
    BY <1>1, <1>6, <1>7, <1>8, <1>10, <2>3 DEF Numbered, Aside
  <2>7. QueuesReply(v, r, s)
    BY <1>1, <1>6, <1>10, <1>15, <2>3, <2>4, <2>6 DEF QueuesReply
  <2> QED
    BY <1>1, <1>6, <1>10, <1>11, <1>13, <2>3, <2>5, <2>7 DEF Aside
<1>16. CASE \/ m.msg[s].id \in Unanswered
            \/ ~CanTransmit(m, s) /\ ~(Len(m.sendQ) < QueueDepth)
  <2>1. r = [v EXCEPT !.m = Release(@, s)]
    BY <1>1, <1>16 DEF Answer, Submit
  <2>2. PICK z : z = [m EXCEPT !.pool = @ \ {s}, !.msg[s] = NoMsg]
    OBVIOUS
  <2>3. r.m = z /\ r.e = v.e
    BY <1>1, <1>3, <2>1, <2>2, NoSlotIsNone DEF Release, Pair
  <2>4. /\ z.full = m.full /\ z.read = m.read /\ z.repeat = m.repeat /\ z.store = m.store
        /\ z.recvQ = m.recvQ /\ z.running = m.running /\ z.wcount = m.wcount
        /\ z.toggle = m.toggle /\ z.level = m.level /\ z.msg = [m.msg EXCEPT ![s] = NoMsg]
    BY <1>3, <2>2 DEF Members
  <2>5. \A x \in m.pool \ {s} : z.msg[x] = m.msg[x]
    BY <1>3, <2>4
  <2>6. DropsReply(v, r, s)
    BY <1>1, <1>16, <2>3, <2>4 DEF DropsReply
  <2> QED
    BY <1>1, <2>3, <2>4, <2>5, <2>6 DEF SameBits
<1> QED
  BY <1>14, <1>15, <1>16

-------------------------------------------------------------------------------
(* The frames behind SM1, and the handshake of the repeat request. *)

\* SM1 holds the frame read_frame_ points at, and a read event says that the master has
\* emptied it since; a frame is displaced only by one that is in SM1.
Wire(v) ==
  /\ v.e.sm1 # NoMsg => v.m.full /\ v.e.sm1 = v.m.msg[v.m.read]
  /\ "Read" \in v.e.events => Emptied(v)
  /\ v.m.store # NoSlot => v.m.full

\* The frames behind SM1 are frames the master has seen.
Known(v, ma) ==
  /\ Emptied(v) => v.m.msg[v.m.read] \in ma.seen
  /\ v.m.repeat # NoSlot => v.m.msg[v.m.repeat] \in ma.seen

Framed(v, ma) == Wire(v) /\ Known(v, ma)

\* Nothing is in SM1, kept or queued, as after a reset.
Blank(v) ==
  /\ ~v.m.full /\ v.m.read = NoSlot /\ v.m.repeat = NoSlot /\ v.m.store = NoSlot
  /\ v.m.sendQ = <<>> /\ v.e.sm1 = NoMsg

\* What Service has found read is still to be read, unless a reset came between.
FramesInv == Framed(w, master) /\ (pc = "read" => Emptied(w) \/ Blank(w))

\* The master waits for a reply it has lost, and Service has not seen the request.
Pending(v, ma) == ma.asking = "lost" \/ (ma.asking = "asked" /\ v.m.level # v.e.req)

\* Service has seen the request when there was no frame to repeat: the master waits for
\* an acknowledge that does not come.
Stuck(v, ma) == ma.asking = "asked" /\ v.m.level = v.e.req /\ v.e.ack # v.e.req

\* The toggle bit and the level seen last go together, and so does the acknowledge unless
\* it was forgotten; the request differs from them while the master asks, and then only.
Agreed(v, ma) ==
  /\ v.m.level = v.m.toggle
  /\ v.e.ack = v.m.toggle \/ Stuck(v, ma)
  /\ ma.asking # "asked" => v.e.req = v.m.level

\* A frame to repeat is there, or will be as soon as Service finds SM1 read.
Owed(v, ma) == Pending(v, ma) => v.m.repeat # NoSlot \/ Emptied(v)

Shaken(v, ma) == Agreed(v, ma) /\ Owed(v, ma)

\* The handshake, in the session that has no end.
HandshakeInv == FramesInv /\ Shaken(w, master) /\ (pc = "read" => Emptied(w))

\* The frames that matter are those of taken slots, which hold messages.
LEMMA FramesTaken ==
  ASSUME NEW v, NEW L, Good(v, L)
  PROVE  /\ v.m.full <=> v.m.read # NoSlot
         /\ v.m.read # NoSlot => v.m.read \in v.m.pool /\ v.m.running
         /\ v.m.repeat # NoSlot => v.m.repeat \in v.m.pool /\ v.m.running
         /\ v.m.store # NoSlot => v.m.store \in v.m.pool /\ v.m.running
         /\ v.m.repeat = NoSlot \/ v.m.store = NoSlot
         /\ \A i \in DOMAIN v.m.sendQ : v.m.sendQ[i] \in v.m.pool
         /\ \A i \in DOMAIN v.m.recvQ : v.m.recvQ[i] \in v.m.pool
         /\ \A s \in v.m.pool : v.m.msg[s] \in Messages /\ v.m.msg[s] # NoMsg
         /\ v.m.sendQ # <<>> => Head(v.m.sendQ) \in v.m.pool
<1>1. PICK m : m = v.m
  OBVIOUS
<1>2. /\ Complete(m, L) /\ Filled(m) /\ FullAgrees(m) /\ OneKept(m)
      /\ m.sendQ \in Seq(Slots) /\ Distinct(m.sendQ)
  BY <1>1 DEF Good, Sound, Mailbox, Apart
<1>3. /\ \A i \in DOMAIN m.sendQ : m.sendQ[i] \in m.pool
      /\ \A i \in DOMAIN m.recvQ : m.recvQ[i] \in m.pool
  BY <1>2 DEF Complete, Elems
<1>4. m.sendQ # <<>> => Head(m.sendQ) \in m.pool
  BY <1>2, TailOwned DEF Complete
<1>5. \A s \in m.pool : m.msg[s] \in Messages /\ m.msg[s] # NoMsg
  BY <1>2, MessageSound DEF Filled
<1>6. /\ m.full <=> m.read # NoSlot
      /\ m.read # NoSlot => m.read \in m.pool /\ m.running
      /\ m.repeat # NoSlot => m.repeat \in m.pool /\ m.running
      /\ m.store # NoSlot => m.store \in m.pool /\ m.running
      /\ m.repeat = NoSlot \/ m.store = NoSlot
  BY <1>2 DEF Complete, Filled, FullAgrees, OneKept
<1> QED
  BY <1>1, <1>3, <1>4, <1>5, <1>6

\* What leaves the frames and their messages alone keeps them known.
LEMMA FramedFrame ==
  ASSUME NEW v, NEW ma, Framed(v, ma), NEW r, SameFrames(v, r), r.e.sm1 = v.e.sm1,
         "Read" \in r.e.events => "Read" \in v.e.events,
         v.m.full => r.m.msg[v.m.read] = v.m.msg[v.m.read],
         v.m.repeat # NoSlot => r.m.msg[v.m.repeat] = v.m.msg[v.m.repeat]
  PROVE  Framed(r, ma) /\ (Emptied(r) <=> Emptied(v))
<1>1. Emptied(r) <=> Emptied(v)
  BY DEF Emptied, SameFrames
<1>2. Wire(r)
  BY <1>1 DEF Framed, Wire, SameFrames
<1>3. Known(r, ma)
  BY <1>1 DEF Framed, Known, SameFrames, Emptied
<1> QED
  BY <1>1, <1>2, <1>3 DEF Framed

\* What leaves the bits alone keeps the handshake, as long as a frame to repeat stays.
LEMMA ShakenFrame ==
  ASSUME NEW v, NEW ma, Shaken(v, ma), NEW r, SameBits(v, r), r.e.req = v.e.req,
         v.m.repeat # NoSlot \/ Emptied(v) => r.m.repeat # NoSlot \/ Emptied(r)
  PROVE  Shaken(r, ma)
BY DEF Shaken, Agreed, Stuck, Owed, Pending, SameBits

\* The frame that was read becomes the one to repeat, which the master has seen.
LEMMA ReadKeeps ==
  ASSUME NEW v, NEW L, Good(v, L), NEW ma, Framed(v, ma), Emptied(v),
         NEW r, r = OnSendMailboxRead(v)
  PROVE  /\ Framed(r, ma) /\ ~Emptied(r)
         /\ Shaken(v, ma) => Shaken(r, ma)
<1>1. /\ r.m.repeat = v.m.read /\ r.m.store = NoSlot /\ "Read" \notin r.e.events
      /\ Aside(v, r) /\ SameBits(v, r) /\ KeptMessages(v, r)
      /\ NextIsStored(v, r) \/ NextIsQueued(v, r) \/ NextIsNone(v, r)
  BY ReadEffect DEF Emptied
<1>2. Good(r, L)
  BY SendMailboxReadSound DEF Good
<1>3. /\ v.m.read # NoSlot
      /\ v.m.repeat = NoSlot \/ v.m.store = NoSlot
      /\ \A s \in v.m.pool : v.m.msg[s] # NoMsg
      /\ v.m.store # NoSlot => v.m.store \in v.m.pool
      /\ v.m.sendQ # <<>> => Head(v.m.sendQ) \in v.m.pool
  BY FramesTaken DEF Emptied
<1>4. /\ r.m.full => r.m.read \in r.m.pool
      /\ r.m.repeat # NoSlot => r.m.repeat \in r.m.pool
  BY <1>2, FramesTaken
<1>5. ~Emptied(r)
  BY <1>1, <1>3 DEF Emptied, NextIsStored, NextIsQueued, NextIsNone
<1>6. r.e.sm1 # NoMsg => r.m.full /\ r.e.sm1 = v.m.msg[r.m.read]
  BY <1>1 DEF NextIsStored, NextIsQueued, NextIsNone
<1>7. Wire(r)
  BY <1>1, <1>4, <1>6 DEF Wire, KeptMessages
<1>8. Known(r, ma)
  BY <1>1, <1>3, <1>4, <1>5 DEF Framed, Known, KeptMessages
<1>9. Shaken(v, ma) => Shaken(r, ma)
  BY <1>1, <1>3, ShakenFrame DEF Aside
<1> QED
  BY <1>5, <1>7, <1>8, <1>9 DEF Framed

\* After a reset there is nothing to move.
LEMMA BlankRead ==
  ASSUME NEW v, NEW L, Good(v, L), NEW ma, Blank(v), NEW r, r = OnSendMailboxRead(v)
  PROVE  Framed(r, ma)
<1>1. PICK m : m = ShiftFrames(v.m)
  OBVIOUS
<1>2. PICK e : e = [v.e EXCEPT !.events = @ \ {"Read"}]
  OBVIOUS
<1>3. Sound(v.m, L) /\ OneKept(v.m) /\ Esc(v.e)
  BY DEF Good
<1>4. ~m.full /\ m.repeat = NoSlot /\ m.store = NoSlot /\ m.sendQ = <<>>
  BY <1>1, <1>3, ShiftEffect DEF Blank
<1>5. e.events = v.e.events \ {"Read"} /\ e.sm1 = NoMsg
  BY <1>2, <1>3 DEF Esc, Blank
<1>6. r = [m |-> m, e |-> e]
  BY <1>1, <1>2, <1>4 DEF OnSendMailboxRead
<1>7. r.m = m /\ r.e = e
  BY <1>6
<1> QED
  BY <1>4, <1>5, <1>7 DEF Framed, Wire, Known, Emptied

\* A repeat: the frame the master has seen goes to SM1 and the request is acknowledged.
\* Without such a frame the acknowledge is forgotten.
LEMMA RepeatKeeps ==
  ASSUME NEW v, NEW L, Good(v, L), NEW ma, Framed(v, ma), NEW r, r = ServiceRepeat(v)
  PROVE  Framed(r, ma) /\ (Shaken(v, ma) => Shaken(r, ma))
<1>1. CASE v.e.req = v.m.level
  <2>1. r = v
    BY <1>1 DEF ServiceRepeat
  <2> QED
    BY <2>1
<1>2. /\ v.m.level \in BOOLEAN /\ v.m.toggle \in BOOLEAN
      /\ v.e.req \in BOOLEAN /\ v.e.ack \in BOOLEAN
  BY DEF Good, Sound, Mailbox, Esc
<1>3. CASE v.e.req # v.m.level /\ v.m.repeat = NoSlot
  <2>1. /\ SameSlots(v, r) /\ r.e = v.e
        /\ r.m.toggle = ~v.m.toggle /\ r.m.level = v.e.req
    BY <1>3, ForgetEffect
  <2>2. Framed(r, ma)
    BY <2>1, FramedFrame DEF SameSlots
  <2>3. ASSUME Shaken(v, ma)
        PROVE  Shaken(r, ma)
    <3>1. /\ ma.asking = "asked" /\ v.m.level = v.m.toggle /\ ~Stuck(v, ma)
          /\ v.e.ack = v.m.toggle
      BY <1>3, <2>3 DEF Shaken, Agreed, Stuck
    <3>2. r.m.toggle = v.e.req
      BY <1>2, <1>3, <2>1, <3>1
    <3>3. Stuck(r, ma) /\ ~Pending(r, ma)
      BY <1>2, <1>3, <2>1, <3>1 DEF Stuck, Pending
    <3> QED
      BY <2>1, <3>1, <3>2, <3>3 DEF Shaken, Agreed, Owed
  <2> QED
    BY <2>2, <2>3
<1>4. CASE v.e.req # v.m.level /\ v.m.repeat # NoSlot
  <2>1. v.m.full \/ v.e.sm1 = NoMsg
    BY DEF Framed, Wire
  <2>2. /\ r.m.full /\ r.m.read = v.m.repeat /\ r.m.repeat = NoSlot /\ r.m.store = v.m.read
        /\ r.m.pool = v.m.pool /\ r.m.msg = v.m.msg
        /\ r.e.sm1 = v.m.msg[v.m.repeat] /\ r.e.events = v.e.events \ {"Read"}
        /\ Aside(v, r)
        /\ r.m.toggle = ~v.m.toggle /\ r.m.level = v.e.req /\ r.e.ack = r.m.toggle
    BY <1>4, <2>1, RepeatEffect
  <2>3. v.m.repeat \in v.m.pool /\ v.m.msg[v.m.repeat] # NoMsg
    BY <1>4, FramesTaken
  <2>4. ~Emptied(r)
    BY <2>2, <2>3 DEF Emptied
  <2>5. Wire(r)
    BY <2>2, <2>3 DEF Wire
  <2>6. Known(r, ma)
    BY <2>2, <2>4 DEF Known
  <2>7. ASSUME Shaken(v, ma)
        PROVE  Shaken(r, ma)
    <3>1. ma.asking = "asked" /\ v.m.level = v.m.toggle
      BY <1>4, <2>7 DEF Shaken, Agreed
    <3>2. r.m.toggle = v.e.req /\ r.e.req = v.e.req
      BY <1>2, <1>4, <2>2, <3>1 DEF Aside
    <3>3. ~Pending(r, ma)
      BY <2>2, <3>1, <3>2 DEF Pending
    <3> QED
      BY <2>2, <3>1, <3>2, <3>3 DEF Shaken, Agreed, Owed
  <2> QED
    BY <2>5, <2>6, <2>7 DEF Framed
<1> QED
  BY <1>1, <1>3, <1>4

\* The head of the queue goes to SM1, which is empty.
LEMMA SendKeeps ==
  ASSUME NEW v, NEW L, Good(v, L), NEW ma, Framed(v, ma), NEW r, r = ServiceSend(v)
  PROVE  Framed(r, ma) /\ (Shaken(v, ma) => Shaken(r, ma))
<1>1. v.m.full \/ v.e.sm1 = NoMsg
  BY DEF Framed, Wire
<1>2. /\ r.m.pool = v.m.pool /\ r.m.msg = v.m.msg
      /\ r.m.repeat = v.m.repeat /\ r.m.store = v.m.store
      /\ Aside(v, r) /\ SameBits(v, r)
      /\ \/ SameFrames(v, r) /\ r.e = v.e
         \/ /\ ~v.m.full /\ v.m.sendQ # <<>> /\ r.m.full /\ r.m.read = Head(v.m.sendQ)
            /\ r.m.read \in v.m.pool
            /\ r.e.sm1 = v.m.msg[r.m.read] /\ r.e.events = v.e.events \ {"Read"}
  BY <1>1, SendEffect
<1>3. CASE SameFrames(v, r) /\ r.e = v.e
  <2>1. Framed(r, ma) /\ (Emptied(r) <=> Emptied(v))
    BY <1>2, <1>3, FramedFrame
  <2> QED
    BY <1>2, <2>1, ShakenFrame DEF Aside
<1>4. CASE /\ ~v.m.full /\ r.m.full /\ r.m.read \in v.m.pool
           /\ r.e.sm1 = v.m.msg[r.m.read] /\ r.e.events = v.e.events \ {"Read"}
  <2>1. ~Emptied(r) /\ ~Emptied(v)
    <3>1. \A s \in v.m.pool : v.m.msg[s] # NoMsg
      BY FramesTaken
    <3> QED
      BY <1>4, <3>1 DEF Emptied
  <2>2. Wire(r)
    BY <1>2, <1>4 DEF Wire
  <2>3. Known(r, ma)
    BY <1>2, <2>1 DEF Framed, Known
  <2>4. Shaken(v, ma) => Shaken(r, ma)
    BY <1>2, <2>1, ShakenFrame DEF Aside
  <2> QED
    BY <2>2, <2>3, <2>4 DEF Framed
<1> QED
  BY <1>2, <1>3, <1>4

\* Receive has nothing to do with the frames.
LEMMA ReceiveKeeps ==
  ASSUME NEW v, NEW L, Good(v, L), NEW ma, Framed(v, ma), NEW r, r = Receive(v)
  PROVE  Framed(r, ma) /\ (Shaken(v, ma) => Shaken(r, ma))
<1>1. /\ SameFrames(v, r) /\ SameBits(v, r)
      /\ r.e.sm1 = v.e.sm1 /\ r.e.req = v.e.req /\ r.e.events \subseteq v.e.events
      /\ \A s \in v.m.pool : r.m.msg[s] = v.m.msg[s]
  BY ReceiveEffect
<1>2. /\ v.m.full => v.m.read \in v.m.pool
      /\ v.m.repeat # NoSlot => v.m.repeat \in v.m.pool
  BY FramesTaken
<1>3. /\ "Read" \in r.e.events => "Read" \in v.e.events
      /\ v.m.full => r.m.msg[v.m.read] = v.m.msg[v.m.read]
      /\ v.m.repeat # NoSlot => r.m.msg[v.m.repeat] = v.m.msg[v.m.repeat]
  BY <1>1, <1>2
<1>4. Framed(r, ma) /\ (Emptied(r) <=> Emptied(v))
  BY <1>1, <1>3, FramedFrame
<1> QED
  BY <1>1, <1>4, ShakenFrame DEF SameFrames

\* Nor do events that are forgotten.
LEMMA FewerKeeps ==
  ASSUME NEW v, NEW ma, Framed(v, ma), NEW a, FewerEvents(v, a)
  PROVE  /\ Framed(a, ma) /\ (Emptied(a) <=> Emptied(v))
         /\ Shaken(v, ma) => Shaken(a, ma)
<1>1. SameFrames(v, a) /\ SameBits(v, a) /\ a.e.sm1 = v.e.sm1 /\ a.e.req = v.e.req
  BY DEF FewerEvents, SameFrames, SameBits
<1>2. /\ "Read" \in a.e.events => "Read" \in v.e.events
      /\ v.m.full => a.m.msg[v.m.read] = v.m.msg[v.m.read]
      /\ v.m.repeat # NoSlot => a.m.msg[v.m.repeat] = v.m.msg[v.m.repeat]
  BY DEF FewerEvents
<1>3. Framed(a, ma) /\ (Emptied(a) <=> Emptied(v))
  BY <1>1, <1>2, FramedFrame
<1> QED
  BY <1>1, <1>3, ShakenFrame DEF SameFrames

\* Reading the event register forgets events.
LEMMA ReadAlEventEffect ==
  ASSUME NEW v, NEW L, Good(v, L), NEW a, a = ReadAlEvent(v)
  PROVE  FewerEvents(v, a) /\ Good(a, L)
<1>1. /\ Pair(a) /\ a.m = v.m
      /\ a.e = [v.e EXCEPT !.events = IF ReadAcknowledges THEN {} ELSE @]
  BY DEF Good, Pair, ReadAlEvent
<1>2. Esc(v.e)
  BY DEF Good
<1>3. /\ DOMAIN a.e = {"sm0", "sm1", "events", "req", "ack"}
      /\ a.e.sm0 = v.e.sm0 /\ a.e.sm1 = v.e.sm1 /\ a.e.req = v.e.req /\ a.e.ack = v.e.ack
      /\ a.e.events \subseteq v.e.events
  BY <1>1, <1>2 DEF Esc
<1>4. Esc(a.e) /\ FewerEvents(v, a)
  BY <1>1, <1>2, <1>3 DEF Esc, FewerEvents
<1> QED
  BY <1>1, <1>4, EscChange

LEMMA HandlingKeeps ==
  ASSUME NEW v, NEW L, Good(v, L), NEW ma, Framed(v, ma), NEW r, r = HandleMailboxEvents(v)
  PROVE  Framed(r, ma) /\ (Shaken(v, ma) => Shaken(r, ma))
<1>1. "Read" \in v.e.events => Emptied(v)
  BY DEF Framed, Wire
<1>2. PICK a : /\ FewerEvents(v, a) /\ Good(a, L)
               /\ \/ r = a /\ "Read" \notin a.e.events
                  \/ r = Receive(a) /\ "Read" \notin a.e.events
                  \/ r = OnSendMailboxRead(a) /\ Emptied(a)
  BY <1>1, HandlingEffect
<1>3. Framed(a, ma) /\ (Shaken(v, ma) => Shaken(a, ma))
  BY <1>2, FewerKeeps
<1>4. CASE r = a
  BY <1>3, <1>4
<1>5. CASE r = Receive(a)
  BY <1>2, <1>3, <1>5, ReceiveKeeps
<1>6. CASE r = OnSendMailboxRead(a) /\ Emptied(a)
  BY <1>2, <1>3, <1>6, ReadKeeps
<1> QED
  BY <1>2, <1>4, <1>5, <1>6

\* The reply goes to SM1 when it is empty, and waits in the queue otherwise.
LEMMA AnswerKeeps ==
  ASSUME NEW v, NEW L, NEW s \in Slots \ L, Good(v, With(L, s)), NEW ma, Framed(v, ma),
         NEW r, r = Answer(v, s)
  PROVE  Framed(r, ma) /\ (Shaken(v, ma) => Shaken(r, ma))
<1>1. v.m.full \/ v.e.sm1 = NoMsg
  BY DEF Framed, Wire
<1>2. /\ r.m.repeat = v.m.repeat /\ r.m.store = v.m.store /\ SameBits(v, r)
      /\ r.e.req = v.e.req
      /\ \A x \in v.m.pool \ {s} : r.m.msg[x] = v.m.msg[x]
      /\ SendsReply(v, r, s) \/ QueuesReply(v, r, s) \/ DropsReply(v, r, s)
  BY <1>1, AnswerEffect
<1>3. PICK K : K = With(L, s)
  OBVIOUS
<1>4. Good(v, K) /\ s \in K
  BY <1>3 DEF With
<1>5. /\ v.m.full => v.m.read \in v.m.pool
      /\ v.m.repeat # NoSlot => v.m.repeat \in v.m.pool
      /\ v.m.full <=> v.m.read # NoSlot
  BY <1>4, FramesTaken
<1>6. s \notin {v.m.read, v.m.repeat, v.m.store} /\ s \in v.m.pool
  <2>1. PICK m : m = v.m
    OBVIOUS
  <2>2. Apart(m, K) /\ Complete(m, K)
    BY <1>4, <2>1 DEF Good, Sound
  <2>3. s \notin {m.read, m.repeat, m.store}
    BY <1>4, <2>2 DEF Apart
  <2>4. s \in m.pool
    BY <1>4, <2>2 DEF Complete
  <2> QED
    BY <2>1, <2>3, <2>4
<1>7. v.m.full => r.m.msg[v.m.read] = v.m.msg[v.m.read]
  BY <1>2, <1>5, <1>6
<1>8. v.m.repeat # NoSlot => r.m.msg[v.m.repeat] = v.m.msg[v.m.repeat]
  BY <1>2, <1>5, <1>6
<1>9. CASE QueuesReply(v, r, s) \/ DropsReply(v, r, s)
  <2>1. SameFrames(v, r) /\ r.e = v.e
    BY <1>2, <1>9 DEF SameFrames, QueuesReply, DropsReply
  <2>2. Framed(r, ma) /\ (Emptied(r) <=> Emptied(v))
    BY <1>7, <1>8, <2>1, FramedFrame
  <2> QED
    BY <1>2, <2>2, ShakenFrame
<1>10. CASE SendsReply(v, r, s)
  <2>1. ~Emptied(v) /\ ~Emptied(r)
    <3>1. Good(r, L)
      BY AnswerSound
    <3>2. r.m.full /\ r.m.read = s /\ r.e.sm1 = r.m.msg[s]
      BY <1>10 DEF SendsReply
    <3>3. r.m.msg[s] # NoMsg
      BY <3>1, <3>2, FramesTaken
    <3>4. ~v.m.full
      BY <1>10 DEF SendsReply, CanTransmit
    <3> QED
      BY <3>2, <3>3, <3>4 DEF Emptied
  <2>2. Wire(r)
    BY <1>2, <1>10 DEF Wire, SendsReply
  <2>3. Known(r, ma)
    BY <1>2, <1>8, <2>1 DEF Framed, Known
  <2>4. Shaken(v, ma) => Shaken(r, ma)
    BY <1>2, <2>1, ShakenFrame
  <2> QED
    BY <2>2, <2>3, <2>4 DEF Framed
<1> QED
  BY <1>2, <1>9, <1>10

-------------------------------------------------------------------------------
(* What the master and the thread change. *)

LEMMA Fields ==
  ASSUME Inv
  PROVE  /\ Pair(w) /\ DOMAIN w.e = {"sm0", "sm1", "events", "req", "ack"}
         /\ DOMAIN w.m = Members
         /\ DOMAIN master = {"ses", "up", "sent", "retried", "got", "seen", "lost", "asking"}
BY DEF Inv, Good, Sound, Mailbox, Esc, MasterType

\* A request, new or written again.
LEMMA WriteEffect ==
  ASSUME Inv, WriteRequest \/ RetryRequest
  PROVE  /\ w'.m = w.m /\ w'.e.sm1 = w.e.sm1 /\ w'.e.req = w.e.req /\ w'.e.ack = w.e.ack
         /\ w'.e.events = w.e.events \cup {"Write"} /\ pc' = pc /\ taken' = taken
         /\ master'.asking = master.asking /\ master'.seen = master.seen
         /\ master'.got = master.got /\ master'.up = master.up /\ master'.ses = master.ses
         /\ w.e.sm0 = NoMsg /\ w'.e.sm0 = Request(master'.sent)
         /\ \/ WriteRequest /\ master'.sent = master.sent + 1
            \/ RetryRequest /\ master'.sent = master.sent
<1>1. CASE WriteRequest
  <2>1. master' = [master EXCEPT !.sent = master.sent + 1, !.retried = FALSE]
    BY <1>1, Fields DEF WriteRequest
  <2>2. /\ master'.asking = master.asking /\ master'.seen = master.seen
        /\ master'.got = master.got /\ master'.up = master.up /\ master'.ses = master.ses
        /\ master'.sent = master.sent + 1
    BY <2>1, Fields
  <2>3. PICK x : x = Request(master.sent + 1)
    OBVIOUS
  <2>4. x = Request(master'.sent)
    BY <2>2, <2>3 DEF Request
  <2>5. w' = [w EXCEPT !.e.sm0 = x, !.e.events = @ \cup {"Write"}]
    BY <1>1, <2>3 DEF WriteRequest
  <2>6. w'.m = w.m /\ w'.e = [w.e EXCEPT !.sm0 = x, !.events = @ \cup {"Write"}]
    BY <2>5, Fields DEF Pair
  <2>7. /\ w'.e.sm1 = w.e.sm1 /\ w'.e.req = w.e.req /\ w'.e.ack = w.e.ack
        /\ w'.e.events = w.e.events \cup {"Write"} /\ w'.e.sm0 = x
    BY <2>6, Fields
  <2> QED
    BY <1>1, <2>2, <2>4, <2>6, <2>7 DEF WriteRequest
<1>2. CASE RetryRequest
  <2>1. master' = [master EXCEPT !.retried = TRUE]
    BY <1>2 DEF RetryRequest
  <2>2. /\ master'.asking = master.asking /\ master'.seen = master.seen
        /\ master'.got = master.got /\ master'.up = master.up /\ master'.ses = master.ses
        /\ master'.sent = master.sent
    BY <2>1, Fields
  <2>3. PICK x : x = Request(master.sent)
    OBVIOUS
  <2>4. x = Request(master'.sent)
    BY <2>2, <2>3 DEF Request
  <2>5. w' = [w EXCEPT !.e.sm0 = x, !.e.events = @ \cup {"Write"}]
    BY <1>2, <2>3 DEF RetryRequest
  <2>6. w'.m = w.m /\ w'.e = [w.e EXCEPT !.sm0 = x, !.events = @ \cup {"Write"}]
    BY <2>5, Fields DEF Pair
  <2>7. /\ w'.e.sm1 = w.e.sm1 /\ w'.e.req = w.e.req /\ w'.e.ack = w.e.ack
        /\ w'.e.events = w.e.events \cup {"Write"} /\ w'.e.sm0 = x
    BY <2>6, Fields
  <2> QED
    BY <1>2, <2>2, <2>4, <2>6, <2>7 DEF RetryRequest
<1> QED
  BY <1>1, <1>2

\* A reply leaves SM1, and is received or lost.
LEMMA FetchEffect ==
  ASSUME Inv, ReadReply \/ LoseReply
  PROVE  /\ w'.m = w.m /\ w'.e.sm0 = w.e.sm0 /\ w'.e.req = w.e.req /\ w'.e.ack = w.e.ack
         /\ w'.e.sm1 = NoMsg /\ w.e.sm1 # NoMsg /\ pc' = pc /\ taken' = taken
         /\ master.asking = "no" /\ master'.seen = master.seen \cup {w.e.sm1}
         /\ master'.up = master.up /\ master'.ses = master.ses /\ master'.sent = master.sent
         /\ \/ /\ ReadReply /\ master'.asking = "no"
               /\ master'.got = IF Fresh(w.e.sm1) THEN Append(master.got, w.e.sm1)
                                ELSE master.got
            \/ LoseReply /\ master'.asking = "lost" /\ master'.got = master.got
<1>1. /\ w'.m = w.m /\ w'.e.sm0 = w.e.sm0 /\ w'.e.req = w.e.req /\ w'.e.ack = w.e.ack
      /\ w'.e.sm1 = NoMsg
  <2>1. w' = [w EXCEPT !.e.sm1 = NoMsg, !.e.events = @ \cup {"Read"}]
    BY DEF ReadReply, LoseReply, ReadSm1
  <2>2. w'.m = w.m /\ w'.e = [w.e EXCEPT !.sm1 = NoMsg, !.events = @ \cup {"Read"}]
    BY <2>1, Fields DEF Pair
  <2> QED
    BY <2>2, Fields
<1>2. PICK x : x = w.e.sm1
  OBVIOUS
<1>3. CASE ReadReply
  <2>1. PICK g : g = IF Fresh(x) THEN Append(master.got, x) ELSE master.got
    OBVIOUS
  <2>2. master' = [master EXCEPT !.seen = @ \cup {x}, !.got = g]
    BY <1>2, <1>3, <2>1, Fields DEF ReadReply
  <2>3. /\ master'.seen = master.seen \cup {x} /\ master'.got = g
        /\ master'.up = master.up /\ master'.ses = master.ses /\ master'.sent = master.sent
        /\ master'.asking = master.asking
    BY <2>2, Fields
  <2> QED
    BY <1>1, <1>2, <1>3, <2>1, <2>3 DEF ReadReply
<1>4. CASE LoseReply
  <2>1. master' = [master EXCEPT !.seen = @ \cup {x}, !.lost = @ + 1, !.asking = "lost"]
    BY <1>2, <1>4 DEF LoseReply
  <2>2. /\ master'.seen = master.seen \cup {x} /\ master'.got = master.got
        /\ master'.up = master.up /\ master'.ses = master.ses /\ master'.sent = master.sent
        /\ master'.asking = "lost"
    BY <2>1, Fields
  <2> QED
    BY <1>1, <1>2, <1>4, <2>2 DEF LoseReply
<1> QED
  BY <1>3, <1>4

\* The request for a repeat, and the end of it.
LEMMA AskEffect ==
  ASSUME Inv, AskRepeat
  PROVE  /\ w'.m = w.m /\ w'.e.sm0 = w.e.sm0 /\ w'.e.sm1 = w.e.sm1 /\ w'.e.ack = w.e.ack
         /\ w'.e.events = w.e.events /\ w'.e.req = ~w.e.req
         /\ master.asking = "lost" /\ master'.asking = "asked" /\ master'.seen = master.seen
         /\ master'.got = master.got /\ master'.up = master.up /\ master'.ses = master.ses
         /\ master'.sent = master.sent /\ pc' = pc /\ taken' = taken
<1>1. w' = [w EXCEPT !.e.req = ~@] /\ master' = [master EXCEPT !.asking = "asked"]
  BY DEF AskRepeat
<1>2. w'.m = w.m /\ w'.e = [w.e EXCEPT !.req = ~@]
  BY <1>1, Fields DEF Pair
<1>3. /\ w'.e.sm0 = w.e.sm0 /\ w'.e.sm1 = w.e.sm1 /\ w'.e.ack = w.e.ack
      /\ w'.e.events = w.e.events /\ w'.e.req = ~w.e.req
  BY <1>2, Fields
<1>4. /\ master'.asking = "asked" /\ master'.seen = master.seen
      /\ master'.got = master.got /\ master'.up = master.up /\ master'.ses = master.ses
      /\ master'.sent = master.sent
  BY <1>1, Fields
<1> QED
  BY <1>2, <1>3, <1>4 DEF AskRepeat

LEMMA SeeEffect ==
  ASSUME Inv, SeeAck
  PROVE  /\ w' = w /\ w.e.ack = w.e.req /\ pc' = pc /\ taken' = taken
         /\ master.asking = "asked" /\ master'.asking = "no" /\ master'.seen = master.seen
         /\ master'.got = master.got /\ master'.up = master.up /\ master'.ses = master.ses
         /\ master'.sent = master.sent
<1>1. master' = [master EXCEPT !.asking = "no"]
  BY DEF SeeAck
<1>2. /\ master'.asking = "no" /\ master'.seen = master.seen
      /\ master'.got = master.got /\ master'.up = master.up /\ master'.ses = master.ses
      /\ master'.sent = master.sent
  BY <1>1, Fields
<1> QED
  BY <1>2 DEF SeeAck

\* Start, which is called once.
LEMMA StartEffect ==
  ASSUME Inv, StartMailbox
  PROVE  /\ SameFrames(w, w') /\ SameBits(w, w') /\ w'.e = w.e /\ w'.m.running
         /\ w'.m.pool = w.m.pool /\ w'.m.msg = w.m.msg /\ w'.m.sendQ = w.m.sendQ
         /\ w'.m.recvQ = w.m.recvQ /\ w'.m.wcount = w.m.wcount /\ w'.m.rcount = w.m.rcount
         /\ ~master.up /\ master'.up
         /\ master'.asking = master.asking /\ master'.seen = master.seen
         /\ master'.got = master.got /\ master'.ses = master.ses
         /\ master'.sent = master.sent /\ pc' = pc /\ taken' = taken
<1>1. w' = [w EXCEPT !.m = Start(w.m)] /\ master' = [master EXCEPT !.up = TRUE]
  BY DEF StartMailbox
<1>2. w'.m = [w.m EXCEPT !.running = TRUE] /\ w'.e = w.e
  BY <1>1, Fields DEF Pair, Start
<1>3. /\ w'.m.full = w.m.full /\ w'.m.read = w.m.read /\ w'.m.repeat = w.m.repeat
      /\ w'.m.store = w.m.store /\ w'.m.toggle = w.m.toggle /\ w'.m.level = w.m.level
      /\ w'.m.running
  BY <1>2, Fields DEF Members
<1>4. /\ w'.m.pool = w.m.pool /\ w'.m.msg = w.m.msg /\ w'.m.sendQ = w.m.sendQ
      /\ w'.m.recvQ = w.m.recvQ /\ w'.m.wcount = w.m.wcount /\ w'.m.rcount = w.m.rcount
  BY <1>2, Fields DEF Members
<1>5. /\ master'.up /\ master'.asking = master.asking /\ master'.seen = master.seen
      /\ master'.got = master.got /\ master'.ses = master.ses
      /\ master'.sent = master.sent
  BY <1>1, Fields
<1> QED
  BY <1>2, <1>3, <1>4, <1>5 DEF SameFrames, SameBits, StartMailbox

\* The thread takes a request out of the receive queue.
LEMMA TakeEffect ==
  ASSUME Inv, TakeReceived, w.m.running, w.m.recvQ # <<>>
  PROVE  /\ SameFrames(w, w') /\ SameBits(w, w') /\ w'.e = w.e /\ w'.m.running
         /\ w'.m.pool = w.m.pool /\ w'.m.msg = w.m.msg /\ w'.m.sendQ = w.m.sendQ
         /\ w'.m.recvQ = Tail(w.m.recvQ) /\ w'.m.wcount = w.m.wcount
         /\ w'.m.rcount = w.m.rcount
         /\ taken' = Head(w.m.recvQ) /\ pc = "drain" /\ pc' = "complete" /\ master' = master
<1>1. /\ w' = [w EXCEPT !.m.recvQ = Tail(@)] /\ taken' = Head(w.m.recvQ)
      /\ pc = "drain" /\ pc' = "complete" /\ master' = master
  BY DEF TakeReceived
<1>2. w'.m = [w.m EXCEPT !.recvQ = Tail(w.m.recvQ)] /\ w'.e = w.e
  BY <1>1, Fields DEF Pair
<1>3. PICK m : m = w.m
  OBVIOUS
<1>4. PICK y : y = w'.m
  OBVIOUS
<1>5. DOMAIN m = Members
  BY <1>3, Fields
<1>6. PICK q : q = Tail(w.m.recvQ)
  OBVIOUS
<1>7. y = [m EXCEPT !.recvQ = q]
  BY <1>2, <1>3, <1>4, <1>6
<1>8. /\ y.full = m.full /\ y.read = m.read /\ y.repeat = m.repeat
       /\ y.store = m.store /\ y.toggle = m.toggle /\ y.level = m.level
       /\ y.running = m.running /\ y.pool = m.pool /\ y.msg = m.msg /\ y.sendQ = m.sendQ
       /\ y.recvQ = q /\ y.wcount = m.wcount /\ y.rcount = m.rcount
  BY <1>5, <1>7 DEF Members
<1>9. /\ w'.m.full = w.m.full /\ w'.m.read = w.m.read /\ w'.m.repeat = w.m.repeat
      /\ w'.m.store = w.m.store /\ w'.m.toggle = w.m.toggle /\ w'.m.level = w.m.level
      /\ w'.m.running = w.m.running
  BY <1>3, <1>4, <1>8
<1>10. /\ w'.m.pool = w.m.pool /\ w'.m.msg = w.m.msg /\ w'.m.sendQ = w.m.sendQ
      /\ w'.m.recvQ = Tail(w.m.recvQ) /\ w'.m.wcount = w.m.wcount
      /\ w'.m.rcount = w.m.rcount
  BY <1>3, <1>4, <1>6, <1>8
<1> QED
  BY <1>1, <1>2, <1>9, <1>10 DEF SameFrames, SameBits


-------------------------------------------------------------------------------
(* The steps. *)

\* What a step must keep: the frames, and the handshake in the session that has no end.
StepKeeps ==
  /\ Framed(w', master') /\ (pc' = "read" => Emptied(w') \/ Blank(w'))
  /\ OneSession /\ Shaken(w, master) /\ (pc = "read" => Emptied(w)) =>
       Shaken(w', master') /\ (pc' = "read" => Emptied(w'))

\* Of the master, the frames depend on what it has seen, the handshake on what it asks.
LEMMA FramedMaster ==
  ASSUME NEW v, NEW ma, NEW mb, ma.seen \subseteq mb.seen
  PROVE  /\ Framed(v, ma) => Framed(v, mb)
         /\ mb.asking = ma.asking /\ Shaken(v, ma) => Shaken(v, mb)
BY DEF Framed, Known, Shaken, Agreed, Owed, Pending, Stuck

\* A step that leaves the frames and the bits alone, at the same call of Poll or not.
LEMMA QuietStep ==
  ASSUME FramesInv, SameFrames(w, w'), SameBits(w, w'), w'.m.msg = w.m.msg,
         w'.e.sm1 = w.e.sm1, w'.e.req = w.e.req, w'.m.sendQ = w.m.sendQ,
         "Read" \in w'.e.events => "Read" \in w.e.events,
         master'.asking = master.asking, master'.seen = master.seen,
         pc' = "read" => pc = "read" \/ Emptied(w)
  PROVE  StepKeeps
<1>1. Framed(w', master) /\ (Emptied(w') <=> Emptied(w))
  BY FramedFrame DEF FramesInv
<1>2. Shaken(w, master) => Shaken(w', master)
  BY <1>1, ShakenFrame DEF SameFrames
<1>3. Blank(w) => Blank(w')
  BY DEF Blank, SameFrames
<1> QED
  BY <1>1, <1>2, <1>3, FramedMaster DEF StepKeeps, FramesInv

LEMMA WriteKeeps ==
  ASSUME Inv, FramesInv, WriteRequest \/ RetryRequest
  PROVE  StepKeeps
<1>1. /\ w'.m = w.m /\ w'.e.sm1 = w.e.sm1 /\ w'.e.req = w.e.req /\ w'.e.ack = w.e.ack
      /\ w'.e.events = w.e.events \cup {"Write"} /\ pc' = pc
      /\ master'.asking = master.asking /\ master'.seen = master.seen
  BY WriteEffect
<1>2. SameFrames(w, w') /\ SameBits(w, w')
  BY <1>1 DEF SameFrames, SameBits
<1>3. "Read" \in w'.e.events => "Read" \in w.e.events
  BY <1>1
<1> QED
  BY <1>1, <1>2, <1>3, QuietStep

\* A reply that leaves SM1 has been seen; if it is lost, it is the one to repeat.
LEMMA FetchKeeps ==
  ASSUME Inv, FramesInv, ReadReply \/ LoseReply
  PROVE  StepKeeps
<1>1. /\ w'.m = w.m /\ w'.e.sm0 = w.e.sm0 /\ w'.e.req = w.e.req /\ w'.e.ack = w.e.ack
      /\ w'.e.sm1 = NoMsg /\ w.e.sm1 # NoMsg /\ pc' = pc
      /\ master.asking = "no" /\ master'.seen = master.seen \cup {w.e.sm1}
      /\ master'.asking = "no" \/ master'.asking = "lost"
  BY FetchEffect
<1>2. Wire(w) /\ Known(w, master)
  BY DEF FramesInv, Framed
<1>3. w.m.full /\ w.e.sm1 = w.m.msg[w.m.read]
  BY <1>1, <1>2 DEF Wire
<1>4. Emptied(w')
  BY <1>1, <1>3 DEF Emptied
<1>5. Wire(w')
  BY <1>1, <1>2, <1>3, <1>4 DEF Wire
<1>6. Known(w', master')
  BY <1>1, <1>2, <1>3 DEF Known
<1>7. ASSUME Shaken(w, master)
      PROVE  Shaken(w', master')
  <2>1. Agreed(w', master')
    BY <1>1, <1>7 DEF Shaken, Agreed, Stuck
  <2>2. Owed(w', master')
    BY <1>4 DEF Owed
  <2> QED
    BY <2>1, <2>2 DEF Shaken
<1> QED
  BY <1>4, <1>5, <1>6, <1>7 DEF StepKeeps, Framed

\* The request of a repeat, at any time, and its end.
LEMMA AskKeeps ==
  ASSUME Inv, FramesInv, AskRepeat \/ SeeAck
  PROVE  StepKeeps
<1>1. w.m.level \in BOOLEAN /\ w.m.toggle \in BOOLEAN /\ w.e.req \in BOOLEAN /\ w.e.ack \in BOOLEAN
  BY DEF Inv, Good, Sound, Mailbox, Esc
<1>2. CASE AskRepeat
  <2>1. /\ w'.m = w.m /\ w'.e.sm1 = w.e.sm1 /\ w'.e.ack = w.e.ack
        /\ w'.e.events = w.e.events /\ w'.e.req = ~w.e.req
        /\ master.asking = "lost" /\ master'.asking = "asked" /\ master'.seen = master.seen
        /\ pc' = pc
    BY <1>2, AskEffect
  <2>2. /\ Framed(w', master') /\ (Emptied(w') <=> Emptied(w))
        /\ Blank(w) => Blank(w')
    BY <2>1 DEF FramesInv, Framed, Wire, Known, Emptied, Blank
  <2>3. ASSUME Shaken(w, master)
        PROVE  Shaken(w', master')
    <3>1. w.m.level = w.m.toggle /\ w.e.ack = w.m.toggle /\ w.e.req = w.m.level
      BY <2>1, <2>3 DEF Shaken, Agreed, Stuck
    <3>2. Agreed(w', master')
      BY <1>1, <2>1, <3>1 DEF Agreed
    <3>3. Owed(w', master')
      BY <2>1, <2>2, <2>3 DEF Shaken, Owed, Pending
    <3> QED
      BY <3>2, <3>3 DEF Shaken
  <2> QED
    BY <2>1, <2>2, <2>3 DEF StepKeeps, FramesInv
<1>3. CASE SeeAck
  <2>1. /\ w' = w /\ w.e.ack = w.e.req /\ pc' = pc
        /\ master.asking = "asked" /\ master'.asking = "no" /\ master'.seen = master.seen
    BY <1>3, SeeEffect
  <2>2. Framed(w', master')
    BY <2>1, FramedMaster DEF FramesInv
  <2>3. ASSUME Shaken(w, master)
        PROVE  Shaken(w', master')
    <3>1. w.m.level = w.m.toggle /\ w.e.ack = w.m.toggle
      BY <2>1, <2>3 DEF Shaken, Agreed, Stuck
    <3> QED
      BY <2>1, <3>1 DEF Shaken, Agreed, Owed, Pending
  <2> QED
    BY <2>1, <2>2, <2>3 DEF StepKeeps, FramesInv
<1> QED
  BY <1>2, <1>3

\* A reset of the ESC leaves nothing behind, in SM1 or to be repeated.
LEMMA ResetKeeps ==
  ASSUME Inv, OnReset
  PROVE  StepKeeps
<1>1. PICK v : v = Stop(w)
  OBVIOUS
<1>2. w' = [v EXCEPT !.e.req = FALSE] /\ Restarts # {}
  BY <1>1 DEF OnReset
<1>3. Good(v, Lent)
  BY <1>1, StopSound DEF Inv
<1>4. w'.m = v.m /\ w'.e.sm1 = v.e.sm1 /\ w'.e.events = v.e.events
  <2>1. w'.m = v.m /\ w'.e = [v.e EXCEPT !.req = FALSE]
    BY <1>2, <1>3 DEF Good, Pair
  <2>2. DOMAIN v.e = {"sm0", "sm1", "events", "req", "ack"}
    BY <1>3 DEF Good, Esc
  <2> QED
    BY <2>1, <2>2
<1>5. v.e.sm1 = NoMsg /\ v.e.events = {}
  <2>1. v.e = [w.e EXCEPT !.ack = FALSE, !.sm0 = NoMsg, !.sm1 = NoMsg, !.events = {}]
    BY <1>1 DEF Stop
  <2> QED
    BY <2>1, Fields
<1>6. /\ v.m.full = FALSE /\ v.m.read = NoSlot /\ v.m.repeat = NoSlot /\ v.m.store = NoSlot
      /\ v.m.sendQ = <<>>
  <2>1. PICK f : f = Forget(w.m)
    OBVIOUS
  <2>2. /\ DOMAIN f = Members /\ f.full = FALSE /\ f.read = NoSlot /\ f.repeat = NoSlot
        /\ f.store = NoSlot /\ f.sendQ = <<>>
    BY <2>1, Fields DEF Forget, Members
  <2>3. PICK p : p = f.pool \ Owned(w.m)
    OBVIOUS
  <2>4. PICK g : g = [s \in Slots |-> IF s \in Owned(w.m) THEN NoMsg ELSE f.msg[s]]
    OBVIOUS
  <2>5. v.m = [f EXCEPT !.pool = p, !.msg = g]
    <3>1. v.m = [f EXCEPT !.pool = @ \ Owned(w.m),
                          !.msg = [s \in Slots |-> IF s \in Owned(w.m) THEN NoMsg ELSE @[s]]]
      BY <1>1, <2>1 DEF Stop
    <3> QED
      BY <2>2, <2>3, <2>4, <3>1 DEF Members
  <2> QED
    BY <2>2, <2>5 DEF Members
<1>7. Blank(w') /\ Framed(w', master')
  BY <1>4, <1>5, <1>6 DEF Blank, Framed, Wire, Known, Emptied
<1> QED
  BY <1>2, <1>7 DEF StepKeeps, OneSession

\* The calls of Poll, and the interrupt.
LEMMA PollKeeps ==
  ASSUME Inv, FramesInv, Poll
  PROVE  StepKeeps
<1>0. Good(w, Lent) /\ Framed(w, master) /\ (pc = "read" => Emptied(w) \/ Blank(w))
  BY DEF Inv, FramesInv
<1>1. CASE TakeReceived
  <2>1. CASE w.m.running /\ w.m.recvQ # <<>>
    <3>1. /\ SameFrames(w, w') /\ SameBits(w, w') /\ w'.e = w.e /\ w'.m.msg = w.m.msg
          /\ w'.m.sendQ = w.m.sendQ /\ master' = master /\ pc' = "complete"
      BY <1>1, <2>1, TakeEffect
    <3> QED
      BY <3>1, QuietStep
  <2>2. CASE ~(w.m.running /\ w.m.recvQ # <<>>)
    <3>1. pc' = "check" /\ w' = w /\ master' = master
      BY <1>1, <2>2 DEF TakeReceived
    <3> QED
      BY <1>0, <3>1 DEF StepKeeps
  <2> QED
    BY <2>1, <2>2
<1>2. CASE CompleteReceived
  <2>1. w' = Answer(w, taken) /\ master' = master /\ pc' = "drain" /\ pc = "complete"
    BY <1>2 DEF CompleteReceived
  <2>2. PICK s : s = taken
    OBVIOUS
  <2>3. s \in Slots \ {} /\ Good(w, With({}, s))
    BY <1>0, <2>1, <2>2 DEF Inv, Lent, With
  <2>4. Framed(w', master) /\ (Shaken(w, master) => Shaken(w', master))
    BY <1>0, <2>1, <2>2, <2>3, AnswerKeeps
  <2> QED
    BY <2>1, <2>4 DEF StepKeeps
<1>3. CASE CheckSm1
  <2>1. /\ w' = w /\ master' = master
        /\ pc' = "read" => Emptied(w)
    BY <1>3 DEF CheckSm1, SendBufferWasRead, Emptied
  <2> QED
    BY <1>0, <2>1 DEF StepKeeps
<1>4. CASE ServiceRead
  <2>1. w' = OnSendMailboxRead(w) /\ pc = "read" /\ pc' = "repeat" /\ master' = master
    BY <1>4 DEF ServiceRead
  <2>2. CASE Emptied(w)
    <3>1. Framed(w', master) /\ (Shaken(w, master) => Shaken(w', master))
      BY <1>0, <2>1, <2>2, ReadKeeps
    <3> QED
      BY <2>1, <3>1 DEF StepKeeps
  <2>3. CASE ~Emptied(w)
    <3>1. Framed(w', master)
      BY <1>0, <2>1, <2>3, BlankRead
    <3> QED
      BY <2>1, <2>3, <3>1 DEF StepKeeps
  <2> QED
    BY <2>2, <2>3
<1>5. CASE ServiceRequest
  <2>1. w' = ServiceRepeat(w) /\ pc' = "send" /\ master' = master
    BY <1>5 DEF ServiceRequest
  <2>2. Framed(w', master) /\ (Shaken(w, master) => Shaken(w', master))
    BY <1>0, <2>1, RepeatKeeps
  <2> QED
    BY <2>1, <2>2 DEF StepKeeps
<1>6. CASE ServiceQueue
  <2>1. w' = ServiceSend(w) /\ pc' = "events" /\ master' = master
    BY <1>6 DEF ServiceQueue
  <2>2. Framed(w', master) /\ (Shaken(w, master) => Shaken(w', master))
    BY <1>0, <2>1, SendKeeps
  <2> QED
    BY <2>1, <2>2 DEF StepKeeps
<1>7. CASE PollEvents
  <2>1. w' = HandleMailboxEvents(w) /\ pc' = "snapshot" /\ master' = master
    BY <1>7 DEF PollEvents
  <2>2. Framed(w', master) /\ (Shaken(w, master) => Shaken(w', master))
    BY <1>0, <2>1, HandlingKeeps
  <2> QED
    BY <2>1, <2>2 DEF StepKeeps
<1>8. CASE CaptureDiagnosticSnapshot
  <2>1. w' = ReadAlEvent(w) /\ pc' = "drain" /\ master' = master
    BY <1>8 DEF CaptureDiagnosticSnapshot
  <2>2. Framed(w', master) /\ (Shaken(w, master) => Shaken(w', master))
    BY <1>0, <2>1, ReadAlEventEffect, FewerKeeps
  <2> QED
    BY <2>1, <2>2 DEF StepKeeps
<1> QED
  BY <1>1, <1>2, <1>3, <1>4, <1>5, <1>6, <1>7, <1>8 DEF Poll

LEMMA EveryStepKeeps ==
  ASSUME TestIsCurrent, "init" \notin Restarts, Inv, FramesInv, [Next]_vars
  PROVE  StepKeeps
<1>0. Good(w, Lent) /\ Framed(w, master) /\ (pc = "read" => Emptied(w) \/ Blank(w))
  BY DEF Inv, FramesInv
<1>1. CASE WriteRequest \/ RetryRequest
  BY <1>1, WriteKeeps
<1>2. CASE ReadReply \/ LoseReply
  BY <1>2, FetchKeeps
<1>3. CASE AskRepeat \/ SeeAck
  BY <1>3, AskKeeps
<1>4. CASE StartMailbox
  <2>1. /\ SameFrames(w, w') /\ SameBits(w, w') /\ w'.e = w.e /\ w'.m.msg = w.m.msg
        /\ w'.m.sendQ = w.m.sendQ
        /\ master'.asking = master.asking /\ master'.seen = master.seen /\ pc' = pc
    BY <1>4, StartEffect
  <2> QED
    BY <2>1, QuietStep
<1>5. CASE OnReset
  BY <1>5, ResetKeeps
<1>6. ~RequestInit
  BY DEF RequestInit
<1>7. CASE Poll
  BY <1>7, PollKeeps
<1>8. CASE OnPdi
  <2>1. w' = HandleMailboxEvents(w) /\ pc' = pc /\ pc # "read" /\ master' = master
    BY <1>8 DEF OnPdi, TestIsCurrent
  <2>2. Framed(w', master) /\ (Shaken(w, master) => Shaken(w', master))
    BY <1>0, <2>1, HandlingKeeps
  <2> QED
    BY <2>1, <2>2 DEF StepKeeps
<1>9. CASE UNCHANGED vars
  BY <1>0, <1>9 DEF vars, StepKeeps
<1> QED
  BY <1>1, <1>2, <1>3, <1>4, <1>5, <1>6, <1>7, <1>8, <1>9 DEF Next

\* The frames, for every way a pass of Poll and the master may mix, and across resets: an
\* invariant that holds as long as the interrupt keeps out of the gap in Service and the
\* master does not go back to INIT (which stops nothing, see InitKeepsReplies in README).
THEOREM FramesInvariance ==
  ASSUME TestIsCurrent, "init" \notin Restarts
  PROVE  Spec => []FramesInv
<1>1. Init => FramesInv
  <2> SUFFICES ASSUME Init PROVE FramesInv
    OBVIOUS
  <2>1. /\ w.m.full = FALSE /\ w.m.store = NoSlot /\ w.m.repeat = NoSlot
        /\ w.e.sm1 = NoMsg /\ w.e.events = {} /\ pc = "drain"
    BY DEF Init
  <2> QED
    BY <2>1 DEF FramesInv, Framed, Wire, Known, Emptied
<1>2. Inv /\ FramesInv /\ [Next]_vars => FramesInv'
  BY EveryStepKeeps DEF StepKeeps, FramesInv
<1> QED
  BY <1>1, <1>2, MailboxInvariance, PTL DEF Spec

\* The frame kept for a repeat is one that the master has taken out of SM1 (repeat_frame_,
\* ecat_mailbox.cpp:566-601), also when it was displaced, stored and sent again, with the
\* interrupt between any two calls of Poll and the ESC reset at any time.
THEOREM RepeatedFrameWasRead ==
  ASSUME TestIsCurrent, "init" \notin Restarts
  PROVE  Spec => []RepeatWasRead
<1>1. FramesInv => RepeatWasRead
  BY DEF FramesInv, Framed, Known, RepeatWasRead
<1> QED
  BY <1>1, FramesInvariance, PTL

\* The handshake of the repeat request in one session: the master asks with an edge, toggle
\* and level agree, and the acknowledge follows unless Service has seen the request when no
\* frame was kept (Stuck, ecat_mailbox.cpp:609-612); while a request is pending, there is a
\* frame to repeat, or there will be as soon as Service finds SM1 read.
THEOREM HandshakeInvariance == ASSUME TestIsCurrent, OneSession PROVE Spec => []HandshakeInv
<1>0. "init" \notin Restarts
  BY DEF OneSession
<1>1. Init => HandshakeInv
  <2> SUFFICES ASSUME Init PROVE HandshakeInv
    OBVIOUS
  <2>1. /\ w.m.full = FALSE /\ w.m.store = NoSlot /\ w.m.repeat = NoSlot
        /\ w.m.toggle = FALSE /\ w.m.level = FALSE
        /\ w.e.sm1 = NoMsg /\ w.e.events = {} /\ w.e.req = FALSE /\ w.e.ack = FALSE
        /\ master.asking = "no" /\ pc = "drain"
    BY DEF Init
  <2> QED
    BY <2>1 DEF HandshakeInv, FramesInv, Framed, Shaken, Wire, Known, Agreed, Owed, Pending, Emptied
<1>2. Inv /\ HandshakeInv /\ [Next]_vars => HandshakeInv'
  <2> SUFFICES ASSUME Inv, HandshakeInv, [Next]_vars PROVE HandshakeInv'
    OBVIOUS
  <2>1. FramesInv
    BY DEF HandshakeInv
  <2>2. StepKeeps
    BY <1>0, <2>1, EveryStepKeeps
  <2> QED
    BY <2>2 DEF StepKeeps, HandshakeInv, FramesInv
<1> QED
  BY <1>1, <1>2, MailboxInvariance, PTL DEF Spec

-------------------------------------------------------------------------------
(* The order of the replies. *)

\* Every request is well formed, has a counter that differs from the one before, and is
\* answered with a reply that fits SM1; no more of them are unanswered than a queue has places.
Regular ==
  /\ LongReplies = {} /\ Unanswered = {} /\ Malformed = {} /\ Uncounted = {}
  /\ Window <= QueueDepth /\ CounterMax >= 2

\* The counter of the n-th request, and of the reply to it.
CounterOf(n) == IF n = 0 THEN 0 ELSE ((n - 1) % CounterMax) + 1

Id(v, s) == v.m.msg[s].id

\* The slots of a queue hold the messages k + 1, k + 2 and so on.
Consecutive(v, q, k) == \A i \in DOMAIN q : Id(v, q[i]) = k + i

\* Each message in the pool is of this session and has the counter of its number.
Stamped(v, ma) ==
  \A s \in v.m.pool : v.m.msg[s].ses = ma.ses /\ v.m.msg[s].cnt = CounterOf(Id(v, s))

\* The first replies, in order, are what the master has got.
Received(ma) ==
  \A i \in 1..Len(ma.got) :
    ma.got[i].ses = ma.ses /\ ma.got[i].id = i /\ ma.got[i].cnt = CounterOf(i)

\* Of the requests the mailbox has let in a, and of these t have left the receive queue;
\* what is in SM0 is the last request, let in already or the next one.
Requests(v, tk, ma, a, t) ==
  /\ v.m.wcount = CounterOf(a)
  /\ IF v.e.sm0 = NoMsg THEN ma.sent = a
     ELSE /\ ma.sent = a \/ ma.sent = a + 1
          /\ ma.sent # 0 /\ v.e.sm0.id = ma.sent /\ v.e.sm0.ses = ma.ses
          /\ v.e.sm0.cnt = CounterOf(ma.sent)
  /\ a = t + Len(v.m.recvQ) /\ Consecutive(v, v.m.recvQ, t)
  /\ tk # NoSlot => Id(v, tk) = t

\* Of the replies c have been submitted, and of these d have left the send queue.
Replies(v, tk, t, c, d) ==
  /\ t = IF tk = NoSlot THEN c ELSE c + 1
  /\ v.m.rcount = CounterOf(c)
  /\ c = d + Len(v.m.sendQ) /\ Consecutive(v, v.m.sendQ, d)

\* Of the replies d have left the send queue: the d-th is in SM1, or displaced by the one
\* before it, and a frame kept for a repeat is the one before the frame in SM1.
Line(v, d) ==
  /\ v.m.full /\ v.m.store = NoSlot => d = Id(v, v.m.read)
  /\ v.m.full /\ v.m.store # NoSlot => Id(v, v.m.store) = d /\ d = Id(v, v.m.read) + 1
  /\ v.m.full /\ v.m.repeat # NoSlot => Id(v, v.m.read) = Id(v, v.m.repeat) + 1
  /\ ~v.m.full => v.m.sendQ = <<>> /\ (v.m.repeat # NoSlot => Id(v, v.m.repeat) = d)

\* The master takes out of SM1 one reply after the other, n being the one before the next.
Shown(v, d, n) ==
  /\ v.m.full => Id(v, v.m.read) = IF Emptied(v) THEN n ELSE n + 1
  /\ ~v.m.full => n = d

\* The next one that comes is the one the master waits for, as it has g of them, once the
\* repeat that is pending is made; or it is the g-th once more, which the master drops, and
\* the one it waits for is in SM1 or displaced; or nothing comes any more.
Awaited(v, ma, n, g) ==
  \/ Stuck(v, ma)
  \/ n = IF Pending(v, ma) THEN g + 1 ELSE g
  \/ /\ n = IF Pending(v, ma) THEN g ELSE g - 1
     /\ v.m.full /\ ~(Emptied(v) /\ v.m.store = NoSlot)
     /\ Pending(v, ma) \/ (~Emptied(v) /\ v.m.store # NoSlot)

Front(v, ma, d, n, g) == Line(v, d) /\ Shown(v, d, n) /\ Awaited(v, ma, n, g) /\ d >= g

InOrder(v, tk, ma, a, t, c, d, n) ==
  /\ Stamped(v, ma) /\ Received(ma) /\ ma.sent <= Len(ma.got) + Window
  /\ Requests(v, tk, ma, a, t) /\ Replies(v, tk, t, c, d)
  /\ Front(v, ma, d, n, Len(ma.got))

\* A master that is up talks to a mailbox that runs.
Session(v, ma) == (ma.up => v.m.running) /\ (~v.m.running => ma.sent = 0)

\* The numbers that go with a state, whatever they are.
Ordered(v, tk, ma) == \E a, t, c, d \in Nat : \E n \in Int : InOrder(v, tk, ma, a, t, c, d, n)

OrderInv == HandshakeInv /\ Session(w, master) /\ Ordered(w, taken, master)

\* One remainder for a quotient.
LEMMA Remainder ==
  ASSUME NEW c \in Nat \ {0}, NEW p \in Int, NEW q \in Int, NEW k \in 0..(c - 1),
         NEW l \in 0..(c - 1), p * c + k = q * c + l
  PROVE  p = q /\ k = l
<1>1. CASE p < q
  <2>1. p * c + c <= q * c
    <3>1. q - p >= 1
      BY <1>1
    <3>2. (q - p) * c >= c
      BY <3>1
    <3> QED
      BY <3>2
  <2> QED
    BY <2>1
<1>2. CASE q < p
  <2>1. q * c + c <= p * c
    <3>1. p - q >= 1
      BY <1>2
    <3>2. (p - q) * c >= c
      BY <3>1
    <3> QED
      BY <3>2
  <2> QED
    BY <2>1
<1> QED
  BY <1>1, <1>2

LEMMA DivideSound ==
  ASSUME NEW c \in Nat \ {0}, NEW n \in Nat
  PROVE  n % c \in 0..(c - 1) /\ n \div c \in Int /\ n = (n \div c) * c + (n % c)
<1>1. n % c \in 0..(c - 1)
  OBVIOUS
<1>2. n \div c \in Int
  OBVIOUS
<1>3. n = (n \div c) * c + (n % c)
  OBVIOUS
<1> QED
  BY <1>1, <1>2, <1>3

\* A number and the next one.
LEMMA RemainderSteps ==
  ASSUME NEW c \in Nat, c >= 2, NEW n \in Nat
  PROVE  n % c \in 0..(c - 1) /\ ((n % c) + 1) % c = (n + 1) % c /\ n % c # (n + 1) % c
<1>1. PICK k : k = n % c
  OBVIOUS
<1>2. PICK p : p = n \div c
  OBVIOUS
<1>3. k \in 0..(c - 1) /\ p \in Int /\ n = p * c + k
  BY <1>1, <1>2, DivideSound
<1>4. PICK l : l = (n + 1) % c
  OBVIOUS
<1>5. PICK q : q = (n + 1) \div c
  OBVIOUS
<1>6. l \in 0..(c - 1) /\ q \in Int /\ n + 1 = q * c + l
  BY <1>4, <1>5, DivideSound
<1>7. CASE k + 1 < c
  <2>1. q * c + l = p * c + (k + 1)
    BY <1>3, <1>6
  <2>2. l = k + 1
    <3>1. PICK h : h = k + 1
      OBVIOUS
    <3>2. h \in 0..(c - 1) /\ q * c + l = p * c + h
      BY <1>3, <1>7, <2>1, <3>1
    <3> QED
      BY <1>3, <1>6, <3>1, <3>2, Remainder
  <2>3. (k + 1) % c = k + 1
    BY <1>3, <1>7
  <2> QED
    BY <1>1, <1>3, <1>4, <2>2, <2>3
<1>8. CASE k + 1 = c
  <2>1. q * c + l = (p + 1) * c + 0
    BY <1>3, <1>6, <1>8
  <2>2. l = 0
    BY <1>3, <1>6, <2>1, Remainder
  <2>3. (k + 1) % c = 0
    BY <1>8
  <2> QED
    BY <1>1, <1>3, <1>4, <1>8, <2>2, <2>3
<1> QED
  BY <1>3, <1>7, <1>8

\* The counters come one after the other, and neighbours differ.
LEMMA CounterSteps ==
  ASSUME Regular, NEW n \in Nat
  PROVE  /\ NextCounter(CounterOf(n)) = CounterOf(n + 1) /\ CounterOf(n + 1) # CounterOf(n)
         /\ CounterOf(n + 1) # 0
<1>1. CounterMax \in Nat /\ CounterMax >= 2
  BY MailboxAssumption DEF MailboxAssumption, Regular
<1>2. CASE n = 0
  <2>1. 0 % CounterMax = 0
    BY <1>1
  <2> QED
    BY <1>2, <2>1 DEF CounterOf, NextCounter
<1>3. CASE n # 0
  <2>1. PICK p \in Nat : n = p + 1
    BY <1>3
  <2>2. /\ p % CounterMax \in 0..(CounterMax - 1)
        /\ ((p % CounterMax) + 1) % CounterMax = (p + 1) % CounterMax
        /\ p % CounterMax # (p + 1) % CounterMax
    BY <1>1, RemainderSteps
  <2>3. CounterOf(n) = (p % CounterMax) + 1
    BY <2>1 DEF CounterOf
  <2>4. CounterOf(n + 1) = ((p + 1) % CounterMax) + 1
    BY <2>1 DEF CounterOf
  <2>5. (p + 1) % CounterMax \in 0..(CounterMax - 1)
    BY <1>1, RemainderSteps
  <2> QED
    BY <2>2, <2>3, <2>4, <2>5 DEF NextCounter
<1> QED
  BY <1>2, <1>3

\* A queue that is consecutive stays so when its first frame leaves or one more comes.
LEMMA ConsecutiveTail ==
  ASSUME NEW v, NEW q \in Seq(Slots), q # <<>>, NEW k \in Nat, Consecutive(v, q, k)
  PROVE  /\ Len(q) \in Nat /\ Len(Tail(q)) = Len(q) - 1 /\ Tail(q) \in Seq(Slots)
         /\ Id(v, Head(q)) = k + 1 /\ Consecutive(v, Tail(q), k + 1)
<1>1. PICK u : u = Tail(q)
  OBVIOUS
<1>2. /\ u \in Seq(Slots) /\ Len(u) = Len(q) - 1 /\ Len(q) \in Nat \ {0}
      /\ DOMAIN u = 1..Len(q) - 1 /\ DOMAIN q = 1..Len(q)
      /\ Head(q) = q[1] /\ \A i \in 1..Len(q) - 1 : u[i] = q[i + 1]
  BY <1>1, LenProperties, EmptySeq, HeadTailProperties
<1>3. Id(v, Head(q)) = k + 1
  <2>1. 1 \in DOMAIN q
    BY <1>2
  <2> QED
    BY <1>2, <2>1 DEF Consecutive
<1>4. Consecutive(v, u, k + 1)
  <2> SUFFICES ASSUME NEW i \in DOMAIN u PROVE Id(v, u[i]) = (k + 1) + i
    BY DEF Consecutive
  <2>1. i \in Nat /\ i + 1 \in DOMAIN q /\ u[i] = q[i + 1]
    BY <1>2
  <2>2. Id(v, q[i + 1]) = k + (i + 1)
    BY <2>1 DEF Consecutive
  <2> QED
    BY <2>1, <2>2
<1> QED
  BY <1>1, <1>2, <1>3, <1>4

LEMMA ConsecutiveAppend ==
  ASSUME NEW v, NEW q \in Seq(Slots), NEW k \in Nat, Consecutive(v, q, k),
         NEW s \in Slots, Id(v, s) = k + Len(q) + 1
  PROVE  /\ Len(q) \in Nat /\ Len(Append(q, s)) = Len(q) + 1
         /\ Consecutive(v, Append(q, s), k)
<1>1. PICK u : u = Append(q, s)
  OBVIOUS
<1>2. /\ u \in Seq(Slots) /\ Len(u) = Len(q) + 1 /\ Len(q) \in Nat
      /\ DOMAIN u = 1..Len(q) + 1 /\ DOMAIN q = 1..Len(q)
      /\ u[Len(q) + 1] = s /\ \A i \in 1..Len(q) : u[i] = q[i]
  BY <1>1, LenProperties
<1>3. Consecutive(v, u, k)
  <2> SUFFICES ASSUME NEW i \in DOMAIN u PROVE Id(v, u[i]) = k + i
    BY DEF Consecutive
  <2>1. CASE i = Len(q) + 1
    BY <1>2, <2>1
  <2>2. CASE i # Len(q) + 1
    <3>1. i \in DOMAIN q /\ u[i] = q[i]
      BY <1>2, <2>2
    <3> QED
      BY <3>1 DEF Consecutive
  <2> QED
    BY <2>1, <2>2
<1> QED
  BY <1>1, <1>2, <1>3

\* The messages of its frames are all that a queue depends on.
LEMMA ConsecutiveKept ==
  ASSUME NEW v, NEW r, NEW q, NEW k, Consecutive(v, q, k),
         \A i \in DOMAIN q : Id(r, q[i]) = Id(v, q[i])
  PROVE  Consecutive(r, q, k)
BY DEF Consecutive

\* Slots that are lent out are taken.
Lends(L, tk) == tk # NoSlot => tk \in L

LEMMA LentTaken ==
  ASSUME NEW v, NEW L, Good(v, L), NEW tk, Lends(L, tk), tk # NoSlot
  PROVE  tk \in v.m.pool
<1>1. PICK m : m = v.m
  OBVIOUS
<1>2. Complete(m, L) /\ tk \in L
  BY <1>1 DEF Good, Sound, Lends
<1> QED
  BY <1>1, <1>2 DEF Complete

\* The types that arithmetic on queues and numbers needs.
LEMMA OrderTypes ==
  ASSUME NEW v, NEW L, Good(v, L)
  PROVE  /\ v.m.sendQ \in Seq(Slots) /\ v.m.recvQ \in Seq(Slots)
         /\ Len(v.m.sendQ) \in Nat /\ Len(v.m.recvQ) \in Nat
         /\ \A s \in v.m.pool : Id(v, s) \in Nat \ {0}
<1>1. PICK m : m = v.m
  OBVIOUS
<1>2. m.sendQ \in Seq(Slots) /\ m.recvQ \in Seq(Slots) /\ Filled(m)
  BY <1>1 DEF Good, Sound, Mailbox
<1>3. Len(m.sendQ) \in Nat /\ Len(m.recvQ) \in Nat
  BY <1>2, LenProperties
<1>4. \A x \in Messages : x.id \in Nat \ {0}
  BY DEF Messages
<1>5. \A s \in m.pool : m.msg[s].id \in Nat \ {0}
  BY <1>2, <1>4 DEF Filled
<1> QED
  BY <1>1, <1>2, <1>3, <1>5 DEF Id

\* Lines, and what is shown, depend on the frames and their messages.
LEMMA LineFrame ==
  ASSUME NEW v, NEW L, Good(v, L), NEW d, NEW n, Line(v, d), Shown(v, d, n),
         NEW r, SameFrames(v, r), ~v.m.full => r.m.sendQ = v.m.sendQ,
         \A s \in v.m.pool : Id(r, s) = Id(v, s), Emptied(r) <=> Emptied(v)
  PROVE  Line(r, d) /\ Shown(r, d, n)
<1>1. /\ v.m.full => v.m.read \in v.m.pool
      /\ v.m.repeat # NoSlot => v.m.repeat \in v.m.pool
      /\ v.m.store # NoSlot => v.m.store \in v.m.pool
  BY FramesTaken
<1>2. /\ r.m.full = v.m.full /\ r.m.read = v.m.read
      /\ r.m.repeat = v.m.repeat /\ r.m.store = v.m.store
  BY DEF SameFrames
<1>3. /\ v.m.full => Id(r, r.m.read) = Id(v, v.m.read)
      /\ v.m.repeat # NoSlot => Id(r, r.m.repeat) = Id(v, v.m.repeat)
      /\ v.m.store # NoSlot => Id(r, r.m.store) = Id(v, v.m.store)
  BY <1>1, <1>2
<1>4. Line(r, d)
  BY <1>2, <1>3 DEF Line
<1>5. Shown(r, d, n)
  BY <1>2, <1>3 DEF Shown
<1> QED
  BY <1>4, <1>5

LEMMA FrontFrame ==
  ASSUME NEW v, NEW L, Good(v, L), NEW ma, NEW d, NEW n, NEW g, Front(v, ma, d, n, g),
         NEW r, SameFrames(v, r), ~v.m.full => r.m.sendQ = v.m.sendQ,
         \A s \in v.m.pool : Id(r, s) = Id(v, s), Emptied(r) <=> Emptied(v),
         NEW mb, Pending(r, mb) <=> Pending(v, ma), Stuck(v, ma) => Stuck(r, mb)
  PROVE  Front(r, mb, d, n, g)
<1>1. Line(r, d) /\ Shown(r, d, n)
  BY LineFrame DEF Front
<1>2. r.m.full = v.m.full /\ r.m.store = v.m.store
  BY DEF SameFrames
<1>3. Awaited(v, ma, n, g) /\ d >= g
  BY DEF Front
<1>4. Awaited(r, mb, n, g)
  BY <1>2, <1>3 DEF Awaited
<1> QED
  BY <1>1, <1>3, <1>4 DEF Front

\* What changes neither queues, frames nor messages keeps the order.
LEMMA OrderFrame ==
  ASSUME NEW v, NEW L, Good(v, L), NEW tk, NEW ma, NEW a, NEW t, NEW c, NEW d, NEW n,
         InOrder(v, tk, ma, a, t, c, d, n),
         NEW r, SameSlots(v, r), r.e.sm0 = v.e.sm0, Emptied(r) <=> Emptied(v),
         NEW mb, mb.got = ma.got, mb.sent = ma.sent, mb.ses = ma.ses,
         Pending(r, mb) <=> Pending(v, ma), Stuck(v, ma) => Stuck(r, mb)
  PROVE  InOrder(r, tk, mb, a, t, c, d, n)
<1>1. /\ r.m.pool = v.m.pool /\ r.m.msg = v.m.msg
      /\ r.m.sendQ = v.m.sendQ /\ r.m.recvQ = v.m.recvQ
      /\ r.m.wcount = v.m.wcount /\ r.m.rcount = v.m.rcount /\ SameFrames(v, r)
  BY DEF SameSlots
<1>2. \A s : Id(r, s) = Id(v, s)
  BY <1>1 DEF Id
<1>3. Stamped(r, mb) /\ Received(mb) /\ mb.sent <= Len(mb.got) + Window
  BY <1>1, <1>2 DEF InOrder, Stamped, Received
<1>4. Requests(r, tk, mb, a, t)
  <2>1. Requests(v, tk, ma, a, t)
    BY DEF InOrder
  <2>2. Consecutive(r, r.m.recvQ, t)
    BY <1>1, <1>2, <2>1 DEF Requests, Consecutive
  <2> QED
    BY <1>1, <1>2, <2>1, <2>2 DEF Requests
<1>5. Replies(r, tk, t, c, d)
  BY <1>1, <1>2 DEF InOrder, Replies, Consecutive
<1>6. Front(r, mb, d, n, Len(mb.got))
  <2>1. Front(v, ma, d, n, Len(ma.got))
    BY DEF InOrder
  <2>2. Front(r, mb, d, n, Len(ma.got))
    BY <1>1, <1>2, <2>1, FrontFrame
  <2> QED
    BY <2>2
<1> QED
  BY <1>3, <1>4, <1>5, <1>6 DEF InOrder

\* The side of the requests is left alone by what only sends replies.
LEMMA RequestsFrame ==
  ASSUME NEW v, NEW r, NEW L, Good(r, L), NEW tk, Lends(L, tk), NEW ma, NEW a, NEW t,
         Requests(v, tk, ma, a, t), Stamped(v, ma), KeptMessages(v, r),
         r.m.recvQ = v.m.recvQ, r.m.wcount = v.m.wcount, r.e.sm0 = v.e.sm0
  PROVE  Requests(r, tk, ma, a, t) /\ Stamped(r, ma)
<1>1. \A s \in r.m.pool : Id(r, s) = Id(v, s)
  BY DEF KeptMessages, Id
<1>2. \A i \in DOMAIN r.m.recvQ : r.m.recvQ[i] \in r.m.pool
  BY FramesTaken
<1>3. Consecutive(r, r.m.recvQ, t)
  BY <1>1, <1>2 DEF Requests, Consecutive
<1>4. tk # NoSlot => Id(r, tk) = Id(v, tk)
  BY <1>1, LentTaken
<1>5. Stamped(r, ma)
  BY <1>1 DEF Stamped, KeptMessages
<1> QED
  BY <1>3, <1>4, <1>5 DEF Requests

\* The master has read SM1: the frame in front moves on.
LEMMA ReadOrder ==
  ASSUME Regular, NEW v, NEW L, Good(v, L), NEW ma, Emptied(v), NEW tk, Lends(L, tk),
         NEW a \in Nat, NEW t \in Nat, NEW c \in Nat, NEW d \in Nat, NEW n \in Int,
         InOrder(v, tk, ma, a, t, c, d, n), Len(ma.got) \in Nat,
         NEW r, r = OnSendMailboxRead(v), ~Emptied(r)
  PROVE  \E x \in Nat : InOrder(r, tk, ma, a, t, c, x, n)
<1>1. /\ r.m.repeat = v.m.read /\ r.m.store = NoSlot
      /\ Aside(v, r) /\ SameBits(v, r) /\ KeptMessages(v, r)
      /\ NextIsStored(v, r) \/ NextIsQueued(v, r) \/ NextIsNone(v, r)
  BY ReadEffect DEF Emptied
<1>2. Good(r, L)
  BY SendMailboxReadSound DEF Good
<1>3. /\ Requests(v, tk, ma, a, t) /\ Stamped(v, ma) /\ Replies(v, tk, t, c, d)
      /\ Received(ma) /\ ma.sent <= Len(ma.got) + Window
      /\ Front(v, ma, d, n, Len(ma.got))
  BY DEF InOrder
<1>4. Requests(r, tk, ma, a, t) /\ Stamped(r, ma)
  BY <1>1, <1>2, <1>3, RequestsFrame DEF Aside
<1>5. (Pending(r, ma) <=> Pending(v, ma)) /\ (Stuck(r, ma) <=> Stuck(v, ma))
  BY <1>1 DEF Pending, Stuck, SameBits, Aside
<1>6. PICK g : g = Len(ma.got)
  OBVIOUS
<1>7. v.m.full /\ v.m.read # NoSlot /\ v.m.read \in v.m.pool
  BY FramesTaken DEF Emptied
<1>8. Id(v, v.m.read) = n /\ g \in Nat
  BY <1>3, <1>6, <1>7 DEF Front, Shown
<1>9. /\ v.m.store = NoSlot => d = n
      /\ v.m.store # NoSlot => Id(v, v.m.store) = d /\ d = n + 1
  BY <1>3, <1>7, <1>8 DEF Front, Line
<1>10. d >= g /\ Awaited(v, ma, n, g)
  BY <1>3, <1>6 DEF Front
<1>11. \A s \in r.m.pool : Id(r, s) = Id(v, s)
  BY <1>1 DEF KeptMessages, Id
<1>12. Id(r, r.m.repeat) = n
  <2>1. r.m.repeat \in r.m.pool
    BY <1>1, <1>2, <1>7, FramesTaken
  <2> QED
    BY <1>1, <1>8, <1>11, <2>1
<1>13. r.m.rcount = v.m.rcount
  BY <1>1 DEF Aside
<1>14. \A i \in DOMAIN r.m.sendQ : Id(r, r.m.sendQ[i]) = Id(v, r.m.sendQ[i])
  BY <1>2, <1>11, FramesTaken
<1>15. r.m.full => Id(r, r.m.read) = Id(v, r.m.read)
  BY <1>2, <1>11, FramesTaken
<1>16. r.m.full \/ v.m.store = NoSlot => Awaited(r, ma, n, g)
  BY <1>5, <1>10 DEF Awaited
<1>17. CASE NextIsStored(v, r)
  <2>1. /\ v.m.store # NoSlot /\ r.m.full /\ r.m.read = v.m.store /\ r.m.sendQ = v.m.sendQ
    BY <1>17 DEF NextIsStored
  <2>2. Consecutive(r, r.m.sendQ, d)
    BY <1>3, <1>14, <2>1, ConsecutiveKept DEF Replies
  <2>3. Replies(r, tk, t, c, d)
    BY <1>3, <1>13, <2>1, <2>2 DEF Replies
  <2>4. Id(r, r.m.read) = d /\ d = n + 1
    BY <1>9, <1>15, <2>1
  <2>5. Line(r, d) /\ Shown(r, d, n)
    BY <1>1, <1>12, <2>1, <2>4 DEF Line, Shown
  <2>6. Front(r, ma, d, n, g)
    BY <1>10, <1>16, <2>1, <2>5 DEF Front
  <2> QED
    BY <1>3, <1>4, <1>6, <2>3, <2>6 DEF InOrder
<1>18. CASE NextIsQueued(v, r)
  <2>1. /\ v.m.store = NoSlot /\ v.m.sendQ # <<>> /\ r.m.full
        /\ r.m.read = Head(v.m.sendQ) /\ r.m.sendQ = Tail(v.m.sendQ)
    BY <1>18 DEF NextIsQueued
  <2>2. PICK q : q = v.m.sendQ
    OBVIOUS
  <2>3. q \in Seq(Slots) /\ Consecutive(v, q, d) /\ q # <<>>
    BY <1>3, <2>1, <2>2, OrderTypes DEF Replies
  <2>4. /\ Len(q) \in Nat /\ Len(Tail(q)) = Len(q) - 1
        /\ Id(v, Head(q)) = d + 1 /\ Consecutive(v, Tail(q), d + 1)
    BY <2>3, ConsecutiveTail
  <2>5. Consecutive(r, r.m.sendQ, d + 1)
    BY <1>14, <2>1, <2>2, <2>4, ConsecutiveKept
  <2>6. c = (d + 1) + Len(r.m.sendQ)
    <3>0. c = d + Len(v.m.sendQ)
      BY <1>3 DEF Replies
    <3>1. c = d + Len(q) /\ r.m.sendQ = Tail(q)
      BY <2>1, <2>2, <3>0
    <3>2. PICK k : k = Len(q)
      OBVIOUS
    <3>3. PICK h : h = Len(r.m.sendQ)
      OBVIOUS
    <3>4. k \in Nat /\ h = k - 1 /\ c = d + k
      BY <2>4, <3>1, <3>2, <3>3
    <3> QED
      BY <3>3, <3>4
  <2>7. Replies(r, tk, t, c, d + 1)
    BY <1>3, <1>13, <2>5, <2>6 DEF Replies
  <2>8. Id(r, r.m.read) = d + 1 /\ d = n
    BY <1>9, <1>15, <2>1, <2>2, <2>4
  <2>9. Line(r, d + 1) /\ Shown(r, d + 1, n)
    BY <1>1, <1>12, <2>1, <2>8 DEF Line, Shown
  <2>10. d + 1 >= g
    BY <1>8, <1>10
  <2>11. Front(r, ma, d + 1, n, g)
    BY <1>16, <2>1, <2>9, <2>10 DEF Front
  <2>12. InOrder(r, tk, ma, a, t, c, d + 1, n)
    BY <1>3, <1>4, <1>6, <2>7, <2>11 DEF InOrder
  <2> QED
    BY <2>12
<1>19. CASE NextIsNone(v, r)
  <2>1. v.m.store = NoSlot /\ ~r.m.full /\ v.m.sendQ = <<>> /\ r.m.sendQ = <<>>
    BY <1>19 DEF NextIsNone, Regular
  <2>2. Consecutive(r, r.m.sendQ, d)
    BY <1>3, <1>14, <2>1, ConsecutiveKept DEF Replies
  <2>3. Replies(r, tk, t, c, d)
    BY <1>3, <1>13, <2>1, <2>2 DEF Replies
  <2>4. Line(r, d) /\ Shown(r, d, n)
    BY <1>9, <1>12, <2>1 DEF Line, Shown
  <2>5. Front(r, ma, d, n, g)
    BY <1>10, <1>16, <2>1, <2>4 DEF Front
  <2> QED
    BY <1>3, <1>4, <1>6, <2>3, <2>5 DEF InOrder
<1> QED
  BY <1>1, <1>17, <1>18, <1>19

\* The master has asked for a repeat: the frame it lost, or the one before, goes out before
\* the one in SM1; with no frame to repeat, nothing comes any more.
LEMMA RepeatOrder ==
  ASSUME NEW v, NEW L, Good(v, L), NEW ma, Framed(v, ma), Shaken(v, ma),
         NEW tk, Lends(L, tk),
         NEW a \in Nat, NEW t \in Nat, NEW c \in Nat, NEW d \in Nat, NEW n \in Int,
         InOrder(v, tk, ma, a, t, c, d, n), Len(ma.got) \in Nat,
         NEW r, r = ServiceRepeat(v), Good(r, L)
  PROVE  /\ \E y \in Int : InOrder(r, tk, ma, a, t, c, d, y)
         /\ r.m.running = v.m.running
<1>0. /\ Requests(v, tk, ma, a, t) /\ Stamped(v, ma) /\ Replies(v, tk, t, c, d)
      /\ Received(ma) /\ ma.sent <= Len(ma.got) + Window
      /\ Front(v, ma, d, n, Len(ma.got))
  BY DEF InOrder
<1>1. CASE v.e.req = v.m.level
  <2>1. r = v
    BY <1>1 DEF ServiceRepeat
  <2> QED
    BY <2>1
<1>2. CASE v.e.req # v.m.level /\ v.m.repeat = NoSlot
  <2>1. /\ SameSlots(v, r) /\ r.m.running = v.m.running /\ r.e = v.e
        /\ r.m.toggle = ~v.m.toggle /\ r.m.level = v.e.req
    BY <1>2, ForgetEffect
  <2>2. Stuck(r, ma)
    <3>1. /\ v.m.level \in BOOLEAN /\ v.m.toggle \in BOOLEAN
          /\ v.e.req \in BOOLEAN /\ v.e.ack \in BOOLEAN
      BY DEF Good, Sound, Mailbox, Esc
    <3>2. ma.asking = "asked" /\ v.m.level = v.m.toggle /\ v.e.ack = v.m.toggle
      BY <1>2 DEF Shaken, Agreed, Stuck
    <3> QED
      BY <1>2, <2>1, <3>1, <3>2 DEF Stuck
  <2>3. SameFrames(v, r) /\ r.m.sendQ = v.m.sendQ /\ r.m.msg = v.m.msg /\ r.m.pool = v.m.pool
    BY <2>1 DEF SameSlots
  <2>4. (\A s : Id(r, s) = Id(v, s)) /\ (Emptied(r) <=> Emptied(v))
    BY <2>1, <2>3 DEF Id, Emptied, SameFrames
  <2>5. Line(r, d) /\ Shown(r, d, n)
    BY <1>0, <2>3, <2>4, LineFrame DEF Front
  <2>6. Front(r, ma, d, n, Len(ma.got))
    BY <1>0, <2>2, <2>5 DEF Front, Awaited
  <2>7. Requests(r, tk, ma, a, t) /\ Stamped(r, ma)
    <3>1. KeptMessages(v, r) /\ r.m.recvQ = v.m.recvQ /\ r.m.wcount = v.m.wcount
      BY <2>1 DEF KeptMessages, SameSlots
    <3> QED
      BY <1>0, <2>1, <3>1, RequestsFrame
  <2>8. Replies(r, tk, t, c, d)
    BY <1>0, <2>1, <2>4 DEF Replies, Consecutive, SameSlots
  <2>9. InOrder(r, tk, ma, a, t, c, d, n)
    BY <1>0, <2>6, <2>7, <2>8 DEF InOrder
  <2> QED
    BY <2>1, <2>9
<1>3. CASE v.e.req # v.m.level /\ v.m.repeat # NoSlot
  <2>1. ma.asking = "asked" /\ Pending(v, ma) /\ ~Stuck(v, ma)
    BY <1>3 DEF Shaken, Agreed, Pending, Stuck
  <2>2. v.m.full \/ v.e.sm1 = NoMsg
    BY DEF Framed, Wire
  <2>3. /\ r.m.full /\ r.m.read = v.m.repeat /\ r.m.repeat = NoSlot /\ r.m.store = v.m.read
        /\ r.m.pool = v.m.pool /\ r.m.msg = v.m.msg /\ r.m.sendQ = v.m.sendQ
        /\ r.e.sm1 = v.m.msg[v.m.repeat]
        /\ Aside(v, r)
        /\ r.m.toggle = ~v.m.toggle /\ r.m.level = v.e.req /\ r.e.ack = r.m.toggle
    BY <1>3, <2>2, RepeatEffect
  <2>4. /\ v.m.repeat \in v.m.pool /\ v.m.msg[v.m.repeat] # NoMsg /\ v.m.store = NoSlot
        /\ v.m.full <=> v.m.read # NoSlot
    BY <1>3, FramesTaken
  <2>5. ~Emptied(r) /\ ~Pending(r, ma)
    BY <2>1, <2>3, <2>4 DEF Emptied, Pending, Aside
  <2>6. \A s : Id(r, s) = Id(v, s)
    BY <2>3 DEF Id
  <2>7. Requests(r, tk, ma, a, t) /\ Stamped(r, ma)
    <3>1. KeptMessages(v, r)
      BY <2>3 DEF KeptMessages
    <3> QED
      BY <1>0, <2>3, <3>1, RequestsFrame DEF Aside
  <2>8. Replies(r, tk, t, c, d)
    BY <1>0, <2>3, <2>6 DEF Replies, Consecutive, Aside
  <2>9. PICK g : g = Len(ma.got)
    OBVIOUS
  <2>10. PICK h : h = Id(v, v.m.repeat)
    OBVIOUS
  <2>11. PICK y : y = h - 1
    OBVIOUS
  <2>12. h \in Nat /\ y \in Int /\ h = y + 1 /\ g \in Nat
    <3>1. \A s \in v.m.pool : Id(v, s) \in Nat \ {0}
      BY OrderTypes
    <3>2. h \in Nat
      BY <2>4, <2>10, <3>1
    <3>3. y \in Int /\ h = y + 1
      BY <2>11, <3>2
    <3> QED
      BY <2>9, <3>2, <3>3
  <2>13. Line(v, d) /\ Shown(v, d, n) /\ Awaited(v, ma, n, g) /\ d >= g
    BY <1>0, <2>9 DEF Front
  <2>14. /\ v.m.full => Id(v, v.m.read) = d /\ d = h + 1
         /\ ~v.m.full => d = h
    BY <1>3, <2>4, <2>10, <2>13 DEF Line
  <2>15. n = IF Emptied(v) THEN h + 1 ELSE h
    BY <2>12, <2>13, <2>14 DEF Shown, Emptied
  <2>16. Line(r, d) /\ Shown(r, d, y)
    <3>1. Id(r, r.m.read) = h
      BY <2>3, <2>6, <2>10
    <3>2. r.m.store # NoSlot => Id(r, r.m.store) = d /\ d = h + 1
      BY <2>3, <2>4, <2>6, <2>14
    <3>3. r.m.store = NoSlot => d = h
      BY <2>3, <2>4, <2>14
    <3>4. Line(r, d)
      BY <2>3, <3>1, <3>2, <3>3 DEF Line
    <3>5. Shown(r, d, y)
      BY <2>3, <2>5, <2>12, <3>1 DEF Shown
    <3> QED
      BY <3>4, <3>5
  <2>17. Awaited(r, ma, y, g)
    <3>1. \/ n = g + 1
          \/ n = g /\ v.m.full /\ ~Emptied(v)
      BY <2>1, <2>4, <2>13 DEF Awaited
    <3>2. Emptied(v) => v.m.full
      BY DEF Emptied
    <3>3. y = g \/ (y = g - 1 /\ v.m.full)
      BY <2>12, <2>15, <3>1, <3>2
    <3> QED
      BY <2>3, <2>4, <2>5, <3>3 DEF Awaited
  <2>18. Front(r, ma, d, y, g)
    BY <2>13, <2>16, <2>17 DEF Front
  <2>19. InOrder(r, tk, ma, a, t, c, d, y)
    BY <1>0, <2>7, <2>8, <2>9, <2>18 DEF InOrder
  <2> QED
    BY <2>3, <2>12, <2>19 DEF Aside
<1> QED
  BY <1>1, <1>2, <1>3

\* Service has nothing to send: whatever waits is behind the frame in SM1.
LEMMA SendOrder ==
  ASSUME NEW v, NEW L, Good(v, L), NEW ma, Framed(v, ma), NEW tk,
         NEW a, NEW t, NEW c, NEW d, NEW n,
         InOrder(v, tk, ma, a, t, c, d, n), NEW r, r = ServiceSend(v)
  PROVE  r = v
<1>1. v.m.full \/ v.e.sm1 = NoMsg
  BY DEF Framed, Wire
<1>2. CASE v.m.full
  BY <1>2 DEF ServiceSend
<1>3. CASE ~v.m.full
  <2>1. v.m.sendQ = <<>>
    BY <1>3 DEF InOrder, Front, Line
  <2> QED
    BY <1>1, <2>1, SendEffect
<1> QED
  BY <1>2, <1>3

\* Receive lets in the next request, or drops one it has let in; there is room for it.
LEMMA ReceiveOrder ==
  ASSUME Regular, NEW v, NEW L, Good(v, L), NEW ma, NEW tk, Lends(L, tk),
         NEW a \in Nat, NEW t \in Nat, NEW c \in Nat, NEW d \in Nat, NEW n \in Int,
         InOrder(v, tk, ma, a, t, c, d, n), Len(ma.got) \in Nat, ma.sent \in Nat,
         NEW r, r = Receive(v)
  PROVE  \E x \in Nat : InOrder(r, tk, ma, x, t, c, d, n)
<1>1. /\ SameFrames(v, r) /\ SameBits(v, r) /\ r.m.sendQ = v.m.sendQ
      /\ r.m.rcount = v.m.rcount /\ r.e.sm1 = v.e.sm1 /\ r.e.req = v.e.req
      /\ \A s \in v.m.pool : r.m.msg[s] = v.m.msg[s]
      /\ \/ Untouched(v, r) \/ DropsMalformed(v, r) \/ DropsRetry(v, r) \/ DropsForRoom(v, r)
         \/ \E s \in Slots : Accepts(v, r, s)
  BY ReceiveEffect
<1>2. /\ Requests(v, tk, ma, a, t) /\ Stamped(v, ma) /\ Replies(v, tk, t, c, d)
      /\ Received(ma) /\ ma.sent <= Len(ma.got) + Window
      /\ Front(v, ma, d, n, Len(ma.got))
  BY DEF InOrder
<1>3. /\ Emptied(r) <=> Emptied(v)
      /\ Pending(r, ma) <=> Pending(v, ma)
      /\ Stuck(r, ma) <=> Stuck(v, ma)
  BY <1>1 DEF Emptied, Pending, Stuck, SameFrames, SameBits
<1>4. \A s \in v.m.pool : Id(r, s) = Id(v, s)
  BY <1>1 DEF Id
<1>5. Replies(r, tk, t, c, d)
  <2>1. \A i \in DOMAIN v.m.sendQ : v.m.sendQ[i] \in v.m.pool
    BY FramesTaken
  <2>2. Consecutive(r, r.m.sendQ, d)
    BY <1>1, <1>2, <1>4, <2>1 DEF Replies, Consecutive
  <2> QED
    BY <1>1, <1>2, <2>2 DEF Replies
<1>6. Front(r, ma, d, n, Len(ma.got))
  BY <1>1, <1>2, <1>3, <1>4, FrontFrame
<1>7. /\ v.m.recvQ \in Seq(Slots) /\ Len(v.m.recvQ) \in Nat
      /\ Len(v.m.sendQ) \in Nat
  BY OrderTypes
<1>8. CASE Untouched(v, r)
  <2>1. SameSlots(v, r)
    BY <1>1, <1>8 DEF Untouched, SameSlots
  <2>2. r.e.sm0 = v.e.sm0
    BY <1>8 DEF Untouched
  <2> QED
    BY <1>3, <2>1, <2>2, OrderFrame
<1>9. CASE DropsMalformed(v, r)
  BY <1>9 DEF DropsMalformed, Regular
<1>10. ASSUME v.e.sm0 # NoMsg
       PROVE  /\ v.e.sm0.cnt = CounterOf(ma.sent) /\ v.e.sm0.cnt # 0
              /\ v.m.wcount = CounterOf(a)
              /\ CounterOf(a + 1) # CounterOf(a)
              /\ v.e.sm0.id = ma.sent /\ v.e.sm0.ses = ma.ses
              /\ ma.sent = a \/ ma.sent = a + 1
  <2>1. /\ v.e.sm0.cnt = CounterOf(ma.sent) /\ ma.sent # 0 /\ v.m.wcount = CounterOf(a)
        /\ v.e.sm0.id = ma.sent /\ v.e.sm0.ses = ma.ses
        /\ ma.sent = a \/ ma.sent = a + 1
    BY <1>2, <1>10 DEF Requests
  <2>2. PICK k \in Nat : ma.sent = k + 1
    <3>1. PICK i : i = ma.sent
      OBVIOUS
    <3>2. i \in Nat /\ i # 0
      BY <2>1, <3>1
    <3>3. i - 1 \in Nat /\ i = (i - 1) + 1
      BY <3>2
    <3> QED
      BY <3>1, <3>3
  <2>3. CounterOf(k + 1) # 0 /\ CounterOf(a + 1) # CounterOf(a)
    BY CounterSteps
  <2> QED
    BY <2>1, <2>2, <2>3
<1>11. CASE DropsRetry(v, r)
  <2>1. r.m = v.m /\ r.e.sm0 = NoMsg /\ v.e.sm0 # NoMsg /\ v.e.sm0.cnt = v.m.wcount
    BY <1>11 DEF DropsRetry, IsRetry
  <2>2. ma.sent = a
    BY <1>10, <2>1
  <2>3. Requests(r, tk, ma, a, t)
    BY <1>2, <2>1, <2>2 DEF Requests, Consecutive, Id
  <2>4. Stamped(r, ma)
    BY <1>2, <2>1 DEF Stamped, Id
  <2> QED
    BY <1>2, <1>5, <1>6, <2>3, <2>4 DEF InOrder
<1>12. ASSUME v.e.sm0 # NoMsg, ~IsRetry(v.m, v.e.sm0)
       PROVE  /\ ma.sent = a + 1 /\ v.e.sm0.id = a + 1 /\ v.e.sm0.ses = ma.ses
              /\ v.e.sm0.cnt = CounterOf(a + 1)
  BY <1>10, <1>12 DEF IsRetry
<1>13. CASE DropsForRoom(v, r)
  <2>1. PICK g : g = Len(ma.got)
    OBVIOUS
  <2>2. ma.sent = a + 1 /\ Len(v.m.recvQ) = QueueDepth
    BY <1>12, <1>13 DEF DropsForRoom
  <2>3. d >= g /\ g \in Nat
    BY <1>2, <2>1 DEF Front
  <2>4. PICK l : l = Len(v.m.sendQ)
    OBVIOUS
  <2>5. l \in Nat /\ c = d + l
    BY <1>2, <1>7, <2>4 DEF Replies
  <2>6. t = c \/ t = c + 1
    BY <1>2 DEF Replies
  <2>7. a = t + QueueDepth
    BY <1>2, <2>2 DEF Requests
  <2>8. ma.sent <= g + Window /\ Window <= QueueDepth
    BY <1>2, <2>1 DEF Regular
  <2>9. Window \in Nat /\ QueueDepth \in Nat
    BY MailboxAssumption, EnvironmentAssumption DEF MailboxAssumption, EnvironmentAssumption
  <2>10. FALSE
    BY <2>2, <2>3, <2>5, <2>6, <2>7, <2>8, <2>9
  <2> QED
    BY <2>10
<1>14. CASE \E s \in Slots : Accepts(v, r, s)
  <2>1. PICK s \in Slots : Accepts(v, r, s)
    BY <1>14
  <2>2. /\ v.e.sm0 # NoMsg /\ ~IsRetry(v.m, v.e.sm0) /\ s \notin v.m.pool
        /\ r.m.pool = v.m.pool \cup {s} /\ r.m.msg = [v.m.msg EXCEPT ![s] = v.e.sm0]
        /\ r.m.recvQ = Append(v.m.recvQ, s) /\ r.m.wcount = v.e.sm0.cnt /\ r.e.sm0 = NoMsg
    BY <2>1 DEF Accepts
  <2>3. /\ ma.sent = a + 1 /\ v.e.sm0.id = a + 1 /\ v.e.sm0.ses = ma.ses
        /\ v.e.sm0.cnt = CounterOf(a + 1)
    BY <1>12, <2>2
  <2>4. r.m.msg[s] = v.e.sm0
    <3>1. DOMAIN v.m.msg = Slots
      BY DEF Good, Sound, Mailbox
    <3> QED
      BY <2>2, <3>1
  <2>5. Id(r, s) = a + 1
    BY <2>3, <2>4 DEF Id
  <2>6. Stamped(r, ma)
    BY <1>1, <1>2, <1>4, <2>2, <2>3, <2>4, <2>5 DEF Stamped
  <2>7. PICK q : q = v.m.recvQ
    OBVIOUS
  <2>8. q \in Seq(Slots) /\ Consecutive(v, q, t) /\ a = t + Len(q) /\ Len(q) \in Nat
    BY <1>2, <1>7, <2>7 DEF Requests
  <2>9. Consecutive(r, q, t)
    <3>1. \A i \in DOMAIN q : q[i] \in v.m.pool
      BY <2>7, FramesTaken
    <3> QED
      BY <1>4, <2>8, <3>1, ConsecutiveKept
  <2>10. Id(r, s) = t + Len(q) + 1
    BY <2>5, <2>8
  <2>11. Len(Append(q, s)) = Len(q) + 1 /\ Consecutive(r, Append(q, s), t)
    BY <2>8, <2>9, <2>10, ConsecutiveAppend
  <2>12. a + 1 = t + Len(Append(q, s))
    <3>1. PICK k : k = Len(q)
      OBVIOUS
    <3>2. PICK h : h = Len(Append(q, s))
      OBVIOUS
    <3>3. k \in Nat /\ h = k + 1 /\ a = t + k
      BY <2>8, <2>11, <3>1, <3>2
    <3> QED
      BY <3>2, <3>3
  <2>13. tk # NoSlot => Id(r, tk) = t
    BY <1>2, <1>4, LentTaken DEF Requests
  <2>14. Requests(r, tk, ma, a + 1, t)
    BY <2>2, <2>3, <2>7, <2>11, <2>12, <2>13 DEF Requests
  <2>15. InOrder(r, tk, ma, a + 1, t, c, d, n)
    BY <1>2, <1>5, <1>6, <2>6, <2>14 DEF InOrder
  <2> QED
    BY <2>15
<1> QED
  BY <1>1, <1>8, <1>9, <1>11, <1>13, <1>14

\* Events that are forgotten change no order.
LEMMA FewerOrder ==
  ASSUME NEW v, NEW L, Good(v, L), NEW tk, NEW ma, NEW a, NEW t, NEW c, NEW d, NEW n,
         InOrder(v, tk, ma, a, t, c, d, n), NEW b, FewerEvents(v, b)
  PROVE  InOrder(b, tk, ma, a, t, c, d, n) /\ b.m.running = v.m.running
<1>1. /\ SameSlots(v, b) /\ b.e.sm0 = v.e.sm0
      /\ Emptied(b) <=> Emptied(v)
      /\ Pending(b, ma) <=> Pending(v, ma)
      /\ Stuck(b, ma) <=> Stuck(v, ma)
  BY DEF FewerEvents, SameSlots, SameFrames, Emptied, Pending, Stuck
<1> QED
  BY <1>1, OrderFrame DEF FewerEvents

LEMMA HandlingOrder ==
  ASSUME Regular, NEW v, NEW L, Good(v, L), NEW ma, Framed(v, ma), NEW tk, Lends(L, tk),
         NEW a \in Nat, NEW t \in Nat, NEW c \in Nat, NEW d \in Nat, NEW n \in Int,
         InOrder(v, tk, ma, a, t, c, d, n), Len(ma.got) \in Nat, ma.sent \in Nat,
         NEW r, r = HandleMailboxEvents(v)
  PROVE  /\ \E x, y \in Nat : InOrder(r, tk, ma, x, t, c, y, n)
         /\ r.m.running = v.m.running
<1>1. "Read" \in v.e.events => Emptied(v)
  BY DEF Framed, Wire
<1>2. PICK b : /\ FewerEvents(v, b) /\ Good(b, L)
               /\ \/ r = b /\ "Read" \notin b.e.events
                  \/ r = Receive(b) /\ "Read" \notin b.e.events
                  \/ r = OnSendMailboxRead(b) /\ Emptied(b)
  BY <1>1, HandlingEffect
<1>3. Framed(b, ma)
  BY <1>2, FewerKeeps
<1>4. InOrder(b, tk, ma, a, t, c, d, n) /\ b.m.running = v.m.running
  BY <1>2, FewerOrder
<1>5. CASE r = b
  BY <1>4, <1>5
<1>6. CASE r = Receive(b)
  <2>1. r.m.running = b.m.running
    BY <1>2, <1>6, ReceiveEffect
  <2>2. \E x \in Nat : InOrder(r, tk, ma, x, t, c, d, n)
    BY <1>2, <1>4, <1>6, ReceiveOrder
  <2> QED
    BY <1>4, <2>1, <2>2
<1>7. CASE r = OnSendMailboxRead(b) /\ Emptied(b)
  <2>1. ~Emptied(r)
    BY <1>2, <1>3, <1>7, ReadKeeps
  <2>2. r.m.running = b.m.running
    BY <1>2, <1>7, ReadEffect DEF Emptied, Aside
  <2>3. \E y \in Nat : InOrder(r, tk, ma, a, t, c, y, n)
    BY <1>2, <1>4, <1>7, <2>1, ReadOrder
  <2> QED
    BY <1>4, <2>2, <2>3
<1> QED
  BY <1>2, <1>5, <1>6, <1>7

\* The number that a reply gets is the one its request came with.
LEMMA NumberKeeps ==
  ASSUME Regular, NEW v, NEW L, Good(v, L), NEW s \in v.m.pool, NEW ma, Stamped(v, ma),
         NEW c \in Nat, v.m.rcount = CounterOf(c), Id(v, s) = c + 1,
         NEW r, Numbered(v, r, s)
  PROVE  /\ r.m.rcount = CounterOf(c + 1) /\ Stamped(r, ma)
         /\ \A x \in v.m.pool : Id(r, x) = Id(v, x)
<1>1. NextCounter(v.m.rcount) = CounterOf(c + 1)
  BY CounterSteps
<1>2. PICK msg : msg = v.m.msg
  OBVIOUS
<1>3. DOMAIN msg = Slots /\ msg[s] \in Messages /\ s \in Slots
  <2>1. DOMAIN v.m.msg = Slots /\ v.m.pool \subseteq Slots
    BY DEF Good, Sound, Mailbox
  <2> QED
    BY <1>2, <2>1, FramesTaken
<1>4. PICK o : o = msg[s]
  OBVIOUS
<1>5. PICK n : n = [o EXCEPT !.cnt = CounterOf(c + 1)]
  OBVIOUS
<1>6. n.id = o.id /\ n.ses = o.ses /\ n.cnt = CounterOf(c + 1)
  <2>1. DOMAIN o = {"ses", "id", "cnt"}
    BY <1>3, <1>4 DEF Messages
  <2> QED
    BY <1>5, <2>1
<1>7. /\ r.m.rcount = CounterOf(c + 1) /\ r.m.pool = v.m.pool
      /\ r.m.msg = [msg EXCEPT ![s] = n]
  BY <1>1, <1>2, <1>4, <1>5 DEF Numbered
<1>8. r.m.msg[s] = n /\ \A x \in Slots \ {s} : r.m.msg[x] = msg[x]
  BY <1>3, <1>7
<1>9. \A x \in v.m.pool : r.m.msg[x].id = msg[x].id /\ r.m.msg[x].ses = msg[x].ses
  <2>1. v.m.pool \subseteq Slots
    BY DEF Good, Sound, Mailbox
  <2> QED
    BY <1>4, <1>6, <1>8, <2>1
<1>10. \A x \in v.m.pool : Id(r, x) = Id(v, x)
  BY <1>2, <1>9 DEF Id
<1>11. \A x \in v.m.pool : r.m.msg[x].cnt = CounterOf(Id(v, x))
  <2>1. v.m.pool \subseteq Slots
    BY DEF Good, Sound, Mailbox
  <2>2. \A x \in v.m.pool : msg[x].cnt = CounterOf(Id(v, x))
    BY <1>2 DEF Stamped
  <2> QED
    BY <1>6, <1>8, <2>1, <2>2
<1>12. Stamped(r, ma)
  BY <1>2, <1>7, <1>9, <1>10, <1>11 DEF Stamped
<1> QED
  BY <1>7, <1>10, <1>12

\* The reply to the request that is lent out goes to SM1, or to the end of the queue.
LEMMA AnswerOrder ==
  ASSUME Regular, NEW v, NEW L, NEW s \in Slots \ L, Good(v, With(L, s)),
         NEW ma, Framed(v, ma), v.m.running,
         NEW a \in Nat, NEW t \in Nat, NEW c \in Nat, NEW d \in Nat, NEW n \in Int,
         InOrder(v, s, ma, a, t, c, d, n), Len(ma.got) \in Nat, ma.sent \in Nat,
         NEW r, r = Answer(v, s), Good(r, L)
  PROVE  /\ \E x, y \in Nat : InOrder(r, NoSlot, ma, a, t, x, y, n)
         /\ r.m.running
<1>1. v.m.full \/ v.e.sm1 = NoMsg
  BY DEF Framed, Wire
<1>2. /\ r.m.repeat = v.m.repeat /\ r.m.store = v.m.store /\ SameBits(v, r)
      /\ r.m.recvQ = v.m.recvQ /\ r.m.running = v.m.running /\ r.m.wcount = v.m.wcount
      /\ r.e.sm0 = v.e.sm0 /\ r.e.req = v.e.req
      /\ SendsReply(v, r, s) \/ QueuesReply(v, r, s) \/ DropsReply(v, r, s)
  BY <1>1, AnswerEffect, ZenonT(60)
<1>3. /\ Requests(v, s, ma, a, t) /\ Stamped(v, ma) /\ Replies(v, s, t, c, d)
      /\ Received(ma) /\ ma.sent <= Len(ma.got) + Window
      /\ Front(v, ma, d, n, Len(ma.got))
  BY DEF InOrder
<1>4. s # NoSlot /\ s \in v.m.pool
  <2>1. s # NoSlot
    BY NoSlotIsNone
  <2>2. Lends(With(L, s), s)
    BY DEF Lends, With
  <2> QED
    BY <2>1, <2>2, LentTaken
<1>5. t = c + 1 /\ Id(v, s) = t /\ v.m.rcount = CounterOf(c) /\ c = d + Len(v.m.sendQ)
  BY <1>3, <1>4 DEF Requests, Replies
<1>6. PICK g : g = Len(ma.got)
  OBVIOUS
<1>7. PICK q : q = v.m.sendQ
  OBVIOUS
<1>8. PICK l : l = Len(q)
  OBVIOUS
<1>9. g \in Nat /\ l \in Nat /\ c = d + l /\ q \in Seq(Slots) /\ d >= g
  BY <1>3, <1>5, <1>6, <1>7, <1>8, OrderTypes DEF Front
<1>10. (Pending(r, ma) <=> Pending(v, ma)) /\ (Stuck(r, ma) <=> Stuck(v, ma))
  BY <1>2 DEF Pending, Stuck, SameBits
<1>11. ~v.m.full <=> CanTransmit(v.m, s)
  BY DEF CanTransmit, Regular
<1>12. /\ v.m.repeat # NoSlot => v.m.repeat \in v.m.pool
       /\ \A i \in DOMAIN v.m.sendQ : v.m.sendQ[i] \in v.m.pool
       /\ \A i \in DOMAIN v.m.recvQ : v.m.recvQ[i] \in v.m.pool
  BY FramesTaken
<1>13. CASE SendsReply(v, r, s) \/ QueuesReply(v, r, s)
  <2>0. Numbered(v, r, s)
    BY <1>13 DEF SendsReply, QueuesReply
  <2>1. /\ r.m.rcount = CounterOf(c + 1) /\ Stamped(r, ma) /\ r.m.pool = v.m.pool
        /\ \A x \in v.m.pool : Id(r, x) = Id(v, x)
    <3>1. Id(v, s) = c + 1
      BY <1>5
    <3>2. r.m.pool = v.m.pool
      BY <2>0 DEF Numbered
    <3> QED
      BY <1>3, <1>4, <1>5, <2>0, <3>1, <3>2, NumberKeeps
  <2>2. Requests(r, NoSlot, ma, a, t)
    <3>1. Consecutive(r, r.m.recvQ, t)
      BY <1>2, <1>3, <1>12, <2>1 DEF Requests, Consecutive
    <3> QED
      BY <1>2, <1>3, <3>1 DEF Requests
  <2>3. CASE SendsReply(v, r, s)
    <3>1. /\ ~v.m.full /\ r.m.full /\ r.m.read = s /\ r.m.sendQ = v.m.sendQ
          /\ r.e.sm1 = r.m.msg[s]
      BY <1>11, <2>3 DEF SendsReply
    <3>2. ~Emptied(r)
      <4>1. r.m.msg[s] # NoMsg
        BY <1>4, <2>1, FramesTaken
      <4> QED
        BY <3>1, <4>1 DEF Emptied
    <3>3. /\ v.m.sendQ = <<>> /\ v.m.store = NoSlot /\ n = d
          /\ v.m.repeat # NoSlot => Id(v, v.m.repeat) = d
      BY <1>3, <3>1 DEF Front, Line, Shown, Framed, Wire
    <3>4. l = 0 /\ d = c
      <4>1. Len(q) = 0
        BY <1>7, <3>3
      <4> QED
        BY <1>8, <1>9, <4>1
    <3>5. Id(r, s) = d + 1
      BY <1>4, <1>5, <2>1, <3>4
    <3>6. Front(r, ma, d + 1, n, g)
      <4>1. r.m.repeat # NoSlot => Id(r, r.m.repeat) = d
        BY <1>2, <1>12, <2>1, <3>3
      <4>2. Line(r, d + 1)
        BY <1>2, <3>1, <3>3, <3>5, <4>1 DEF Line
      <4>3. Shown(r, d + 1, n)
        BY <3>1, <3>2, <3>3, <3>5 DEF Shown
      <4>4. Awaited(r, ma, n, g)
        BY <1>3, <1>6, <1>10, <3>1 DEF Front, Awaited
      <4>5. d + 1 >= g
        BY <1>9
      <4> QED
        BY <4>2, <4>3, <4>4, <4>5 DEF Front
    <3>7. Replies(r, NoSlot, t, c + 1, d + 1)
      <4>1. Consecutive(r, r.m.sendQ, d + 1)
        BY <3>1, <3>3 DEF Consecutive
      <4>2. Len(r.m.sendQ) = 0
        BY <3>1, <3>3
      <4>3. c + 1 = (d + 1) + 0
        BY <3>4
      <4> QED
        BY <1>5, <2>1, <4>1, <4>2, <4>3 DEF Replies
    <3>8. InOrder(r, NoSlot, ma, a, t, c + 1, d + 1, n)
      BY <1>3, <1>6, <2>1, <2>2, <3>6, <3>7 DEF InOrder
    <3> QED
      BY <1>2, <3>8
  <2>4. CASE QueuesReply(v, r, s)
    <3>1. /\ v.m.full /\ r.m.full = v.m.full /\ r.m.read = v.m.read
          /\ r.m.sendQ = Append(q, s) /\ r.e = v.e
      BY <1>7, <1>11, <2>4 DEF QueuesReply
    <3>2. SameFrames(v, r) /\ (Emptied(r) <=> Emptied(v))
      BY <1>2, <3>1 DEF Emptied, SameFrames
    <3>3. Front(v, ma, d, n, g)
      BY <1>3, <1>6
    <3>4. Front(r, ma, d, n, g)
      <4>1. PICK K : K = With(L, s)
        OBVIOUS
      <4>2. Good(v, K)
        BY <4>1
      <4> QED
        BY <1>10, <2>1, <3>1, <3>2, <3>3, <4>2, FrontFrame
    <3>5. Consecutive(r, q, d)
      BY <1>3, <1>7, <1>12, <2>1 DEF Replies, Consecutive
    <3>6. Id(r, s) = d + Len(q) + 1
      BY <1>4, <1>5, <1>7, <2>1
    <3>7. Len(Append(q, s)) = Len(q) + 1 /\ Consecutive(r, Append(q, s), d)
      BY <1>9, <3>5, <3>6, ConsecutiveAppend
    <3>8. c + 1 = d + Len(Append(q, s))
      <4>1. PICK h : h = Len(Append(q, s))
        OBVIOUS
      <4>2. h = l + 1
        BY <1>8, <3>7, <4>1
      <4> QED
        BY <1>9, <4>1, <4>2
    <3>9. Replies(r, NoSlot, t, c + 1, d)
      BY <1>5, <2>1, <3>1, <3>7, <3>8 DEF Replies
    <3>10. InOrder(r, NoSlot, ma, a, t, c + 1, d, n)
      BY <1>3, <1>6, <2>1, <2>2, <3>4, <3>9 DEF InOrder
    <3> QED
      BY <1>2, <3>10
  <2> QED
    BY <1>13, <2>3, <2>4
<1>14. CASE DropsReply(v, r, s)
  <2>1. ~(l < QueueDepth)
    BY <1>7, <1>8, <1>14 DEF DropsReply, Regular
  <2>2. PICK k : k = Len(v.m.recvQ)
    OBVIOUS
  <2>3. k \in Nat /\ a = t + k
    BY <1>3, <2>2, OrderTypes DEF Requests
  <2>4. ma.sent = a \/ ma.sent = a + 1
    BY <1>3 DEF Requests
  <2>5. ma.sent <= g + Window /\ Window <= QueueDepth
    BY <1>3, <1>6 DEF Regular
  <2>6. Window \in Nat /\ QueueDepth \in Nat
    BY MailboxAssumption, EnvironmentAssumption DEF MailboxAssumption, EnvironmentAssumption
  <2>7. FALSE
    BY <1>5, <1>9, <2>1, <2>3, <2>4, <2>5, <2>6
  <2> QED
    BY <2>7
<1> QED
  BY <1>2, <1>13, <1>14

\* A request leaves the receive queue.
LEMMA TakeOrder ==
  ASSUME Inv, Ordered(w, taken, master), TakeReceived, w.m.running, w.m.recvQ # <<>>
  PROVE  Ordered(w', taken', master')
<1>0. PICK a, t, c, d \in Nat : \E n \in Int : InOrder(w, taken, master, a, t, c, d, n)
  BY DEF Ordered
<1>1. PICK n \in Int : InOrder(w, taken, master, a, t, c, d, n)
  BY <1>0
<1>2. /\ SameFrames(w, w') /\ SameBits(w, w') /\ w'.e = w.e
      /\ w'.m.pool = w.m.pool /\ w'.m.msg = w.m.msg /\ w'.m.sendQ = w.m.sendQ
      /\ w'.m.recvQ = Tail(w.m.recvQ) /\ w'.m.wcount = w.m.wcount
      /\ w'.m.rcount = w.m.rcount
      /\ taken' = Head(w.m.recvQ) /\ pc = "drain" /\ pc' = "complete" /\ master' = master
  BY TakeEffect
<1>3. taken = NoSlot
  BY <1>2 DEF Inv
<1>4. /\ Requests(w, taken, master, a, t) /\ Stamped(w, master)
      /\ Replies(w, taken, t, c, d) /\ Received(master)
      /\ master.sent <= Len(master.got) + Window
      /\ Front(w, master, d, n, Len(master.got))
  BY <1>1 DEF InOrder
<1>5. PICK q : q = w.m.recvQ
  OBVIOUS
<1>6. q \in Seq(Slots) /\ q # <<>> /\ Consecutive(w, q, t) /\ a = t + Len(q)
  BY <1>4, <1>5, OrderTypes DEF Inv, Requests
<1>7. PICK u : u = Tail(q)
  OBVIOUS
<1>8. /\ Len(q) \in Nat /\ Len(u) = Len(q) - 1
      /\ Id(w, Head(q)) = t + 1 /\ Consecutive(w, u, t + 1)
  BY <1>7, <1>6, ConsecutiveTail
<1>9. a = (t + 1) + Len(u)
  <2>1. PICK k : k = Len(q)
    OBVIOUS
  <2>2. PICK h : h = Len(u)
    OBVIOUS
  <2>3. k \in Nat /\ h = k - 1 /\ a = t + k
    BY <1>6, <1>8, <2>1, <2>2
  <2> QED
    BY <2>2, <2>3
<1>10. PICK v : v = w'
  OBVIOUS
<1>11. PICK s : s = Head(q)
  OBVIOUS
<1>12. \A x : Id(v, x) = Id(w, x)
  BY <1>2, <1>10 DEF Id
<1>13. Requests(v, s, master, a, t + 1)
  <2>1. Consecutive(v, u, t + 1)
    BY <1>8, <1>12 DEF Consecutive
  <2>2. Id(v, s) = t + 1
    BY <1>8, <1>11, <1>12
  <2>3. v.m.recvQ = u /\ v.m.wcount = w.m.wcount /\ v.e = w.e
    BY <1>7, <1>2, <1>5, <1>10
  <2> QED
    BY <1>4, <1>9, <2>1, <2>2, <2>3 DEF Requests
<1>14. Replies(v, s, t + 1, c, d)
  <2>1. t = c
    BY <1>3, <1>4 DEF Replies
  <2>2. s # NoSlot
    <3>1. s \in Slots
      BY <1>6, <1>11, EmptySeq, HeadTailProperties
    <3> QED
      BY <3>1, NoSlotIsNone
  <2>3. Consecutive(v, v.m.sendQ, d)
    BY <1>2, <1>4, <1>10, <1>12 DEF Replies, Consecutive
  <2> QED
    BY <1>2, <1>4, <1>10, <2>1, <2>2, <2>3 DEF Replies
<1>15. Stamped(v, master)
  BY <1>2, <1>4, <1>10 DEF Stamped, Id
<1>16. Front(v, master, d, n, Len(master.got))
  <2>1. /\ Emptied(v) <=> Emptied(w)
        /\ Pending(v, master) <=> Pending(w, master)
        /\ Stuck(v, master) <=> Stuck(w, master)
    BY <1>2, <1>10 DEF Emptied, SameFrames, Pending, Stuck, SameBits
  <2>2. SameFrames(w, v) /\ v.m.sendQ = w.m.sendQ /\ Good(w, Lent)
    BY <1>2, <1>10 DEF Inv
  <2> QED
    BY <1>4, <1>12, <2>1, <2>2, FrontFrame
<1>17. InOrder(v, s, master, a, t + 1, c, d, n)
  BY <1>4, <1>13, <1>14, <1>15, <1>16 DEF InOrder
<1> QED
  BY <1>2, <1>5, <1>10, <1>11, <1>17 DEF Ordered

\* A request comes with the number after the last one, or with that of the last one.
LEMMA WriteOrder ==
  ASSUME Regular, Inv, Ordered(w, taken, master), WriteRequest \/ RetryRequest
  PROVE  Ordered(w', taken', master')
<1>0. PICK a, t, c, d \in Nat : \E n \in Int : InOrder(w, taken, master, a, t, c, d, n)
  BY DEF Ordered
<1>1. PICK n \in Int : InOrder(w, taken, master, a, t, c, d, n)
  BY <1>0
<1>2. PICK v : v = w'
  OBVIOUS
<1>3. PICK ma : ma = master'
  OBVIOUS
<1>4. /\ v.m = w.m /\ v.e.sm1 = w.e.sm1 /\ v.e.req = w.e.req /\ v.e.ack = w.e.ack
      /\ taken' = taken
      /\ ma.asking = master.asking /\ ma.got = master.got /\ ma.ses = master.ses
      /\ w.e.sm0 = NoMsg /\ v.e.sm0 = Request(ma.sent)
      /\ \/ WriteRequest /\ ma.sent = master.sent + 1
         \/ RetryRequest /\ ma.sent = master.sent
  BY <1>2, <1>3, WriteEffect
<1>5. /\ Requests(w, taken, master, a, t) /\ Stamped(w, master)
      /\ Replies(w, taken, t, c, d) /\ Received(master)
      /\ master.sent <= Len(master.got) + Window
      /\ Front(w, master, d, n, Len(master.got))
  BY <1>1 DEF InOrder
<1>6. master.sent = a
  BY <1>4, <1>5 DEF Requests
<1>7. /\ ma.sent = a \/ ma.sent = a + 1
      /\ ma.sent # 0 /\ ma.sent <= Len(ma.got) + Window
  <2>1. PICK g : g = Len(master.got)
    OBVIOUS
  <2>2. g \in Nat
    <3>1. master.got \in Seq(Messages)
      BY DEF Inv, MasterType
    <3> QED
      BY <2>1, <3>1, LenProperties
  <2>3. Window \in Nat
    BY EnvironmentAssumption DEF EnvironmentAssumption
  <2>4. ma.sent = a \/ ma.sent = a + 1
    BY <1>4, <1>6
  <2>5. ma.sent # 0
    BY <1>4, <1>6 DEF RetryRequest
  <2>6. ma.sent <= g + Window
    BY <1>4, <1>5, <1>6, <2>1, <2>2, <2>3 DEF WriteRequest, Outstanding
  <2> QED
    BY <1>4, <2>1, <2>4, <2>5, <2>6
<1>8. v.e.sm0.id = ma.sent /\ v.e.sm0.ses = ma.ses /\ v.e.sm0.cnt = CounterOf(ma.sent)
  BY <1>4, <1>7 DEF Request, CounterOf, Regular
<1>9. v.e.sm0 # NoMsg
  BY <1>7, <1>8 DEF NoMsg
<1>10. \A s : Id(v, s) = Id(w, s)
  BY <1>4 DEF Id
<1>11. Requests(v, taken, ma, a, t)
  <2>1. Consecutive(v, v.m.recvQ, t)
    BY <1>4, <1>5, <1>10 DEF Requests, Consecutive
  <2> QED
    BY <1>4, <1>5, <1>7, <1>8, <1>9, <1>10, <2>1 DEF Requests
<1>12. Replies(v, taken, t, c, d)
  BY <1>4, <1>5, <1>10 DEF Replies, Consecutive
<1>13. Stamped(v, ma) /\ Received(ma)
  BY <1>4, <1>5 DEF Stamped, Received, Id
<1>14. Front(v, ma, d, n, Len(ma.got))
  <2>1. /\ Emptied(v) <=> Emptied(w)
        /\ Pending(v, ma) <=> Pending(w, master)
        /\ Stuck(v, ma) <=> Stuck(w, master)
    BY <1>4 DEF Emptied, Pending, Stuck
  <2>2. SameFrames(w, v) /\ v.m.sendQ = w.m.sendQ /\ Good(w, Lent)
    BY <1>4 DEF SameFrames, Inv
  <2>3. Front(v, ma, d, n, Len(master.got))
    BY <1>5, <1>10, <2>1, <2>2, FrontFrame
  <2> QED
    BY <1>4, <2>3
<1>15. InOrder(v, taken, ma, a, t, c, d, n)
  BY <1>7, <1>11, <1>12, <1>13, <1>14 DEF InOrder
<1> QED
  BY <1>2, <1>3, <1>4, <1>15 DEF Ordered

\* What the master reads is the next reply, or the last one once more, which it drops.
LEMMA FetchOrder ==
  ASSUME Regular, Inv, Framed(w, master), Ordered(w, taken, master), ReadReply \/ LoseReply
  PROVE  Ordered(w', taken', master')
<1>0. PICK a, t, c, d \in Nat : \E n \in Int : InOrder(w, taken, master, a, t, c, d, n)
  BY DEF Ordered
<1>1. PICK n \in Int : InOrder(w, taken, master, a, t, c, d, n)
  BY <1>0
<1>2. PICK v : v = w'
  OBVIOUS
<1>3. PICK ma : ma = master'
  OBVIOUS
<1>4. PICK x : x = w.e.sm1
  OBVIOUS
<1>5. /\ v.m = w.m /\ v.e.sm0 = w.e.sm0 /\ taken' = taken
      /\ v.e.sm1 = NoMsg /\ x # NoMsg /\ master.asking = "no"
      /\ ma.ses = master.ses /\ ma.sent = master.sent
      /\ \/ /\ ma.asking = "no"
            /\ ma.got = IF Fresh(x) THEN Append(master.got, x) ELSE master.got
         \/ ma.asking = "lost" /\ ma.got = master.got
  BY <1>2, <1>3, <1>4, FetchEffect
<1>6. /\ Requests(w, taken, master, a, t) /\ Stamped(w, master)
      /\ Replies(w, taken, t, c, d) /\ Received(master)
      /\ master.sent <= Len(master.got) + Window
      /\ Front(w, master, d, n, Len(master.got))
  BY <1>1 DEF InOrder
<1>7. PICK q : q = master.got
  OBVIOUS
<1>8. PICK g : g = Len(q)
  OBVIOUS
<1>9. q \in Seq(Messages) /\ g \in Nat /\ DOMAIN q = 1..g /\ master.sent \in Nat
  <2>1. q \in Seq(Messages) /\ master.sent \in Nat
    BY <1>7 DEF Inv, MasterType
  <2> QED
    BY <1>8, <2>1, LenProperties
<1>10. w.m.full /\ x = w.m.msg[w.m.read] /\ w.m.read \in w.m.pool
  <2>1. w.m.full /\ x = w.m.msg[w.m.read]
    BY <1>4, <1>5 DEF Framed, Wire
  <2> QED
    BY <2>1, FramesTaken DEF Inv
<1>11. ~Pending(w, master) /\ ~Stuck(w, master) /\ ~Emptied(w) /\ Emptied(v)
  BY <1>4, <1>5, <1>10 DEF Pending, Stuck, Emptied
<1>12. /\ Line(w, d) /\ d >= g /\ Id(w, w.m.read) = n + 1
       /\ n = g \/ n = g - 1
  BY <1>6, <1>7, <1>8, <1>10, <1>11 DEF Front, Shown, Awaited
<1>13. n + 1 \in Nat \ {0} /\ x.id = n + 1 /\ x.ses = master.ses /\ x.cnt = CounterOf(n + 1)
  <2>1. \A s \in w.m.pool : Id(w, s) \in Nat \ {0}
    BY OrderTypes DEF Inv
  <2> QED
    BY <1>6, <1>10, <1>12, <2>1 DEF Stamped, Id
<1>14. \A s : Id(v, s) = Id(w, s)
  BY <1>5 DEF Id
<1>15. Requests(v, taken, ma, a, t)
  <2>1. Consecutive(v, v.m.recvQ, t)
    BY <1>5, <1>6, <1>14 DEF Requests, Consecutive
  <2> QED
    BY <1>5, <1>6, <1>14, <2>1 DEF Requests
<1>16. Replies(v, taken, t, c, d)
  BY <1>5, <1>6, <1>14 DEF Replies, Consecutive
<1>17. Stamped(v, ma)
  BY <1>5, <1>6 DEF Stamped, Id
<1>18. Line(v, d) /\ Shown(v, d, n + 1)
  BY <1>5, <1>10, <1>11, <1>12, <1>14 DEF Line, Shown
<1>19. d >= n + 1
  <2>1. d = n + 1 \/ d = (n + 1) + 1
    BY <1>10, <1>12 DEF Line
  <2> QED
    BY <1>13, <2>1
<1>20. g # 0 => q[g].cnt = CounterOf(g) /\ q # <<>>
  <2>1. g # 0 => g \in 1..g /\ q # <<>>
    BY <1>8, <1>9, EmptySeq
  <2> QED
    BY <1>6, <1>7, <1>8, <2>1 DEF Received
<1>21. CASE ma.asking = "lost" /\ ma.got = q
  <2>1. Pending(v, ma)
    BY <1>21 DEF Pending
  <2>2. n = g - 1 => v.m.store # NoSlot
    BY <1>5, <1>6, <1>7, <1>8, <1>9, <1>11 DEF Front, Awaited
  <2>3. Awaited(v, ma, n + 1, g)
    BY <1>5, <1>9, <1>10, <1>12, <2>1, <2>2 DEF Awaited
  <2>4. Front(v, ma, d, n + 1, g)
    BY <1>12, <1>18, <2>3 DEF Front
  <2>5. Received(ma)
    BY <1>5, <1>6, <1>7, <1>21 DEF Received
  <2>6. InOrder(v, taken, ma, a, t, c, d, n + 1)
    BY <1>5, <1>6, <1>7, <1>8, <1>15, <1>16, <1>17, <1>21, <2>4, <2>5 DEF InOrder
  <2>7. n + 1 \in Int
    OBVIOUS
  <2> QED
    BY <1>2, <1>3, <1>5, <2>6, <2>7 DEF Ordered
<1>22. CASE n = g /\ ma.asking = "no" /\ ma.got = IF Fresh(x) THEN Append(q, x) ELSE q
  <2>1. Fresh(x)
    <3>1. CASE g = 0
      <4>1. q = <<>>
        BY <1>8, <1>9, <3>1, EmptySeq
      <4> QED
        BY <1>7, <4>1 DEF Fresh
    <3>2. CASE g # 0
      <4>1. CounterOf(g + 1) # CounterOf(g)
        BY <1>9, CounterSteps
      <4> QED
        BY <1>7, <1>8, <1>13, <1>20, <1>22, <3>2, <4>1 DEF Fresh
    <3> QED
      BY <3>1, <3>2
  <2>2. PICK y : y = Append(q, x)
    OBVIOUS
  <2>3. ma.got = y
    BY <1>22, <2>1, <2>2
  <2>4. Len(y) = g + 1 /\ y[g + 1] = x /\ \A i \in 1..g : y[i] = q[i]
    <3>1. x \in Messages
      BY <1>10, FramesTaken DEF Inv
    <3> QED
      BY <1>8, <1>9, <2>2, <3>1
  <2>5. Received(ma)
    <3> SUFFICES ASSUME NEW i \in 1..(g + 1)
                 PROVE  y[i].ses = master.ses /\ y[i].id = i /\ y[i].cnt = CounterOf(i)
      BY <1>5, <2>3, <2>4 DEF Received
    <3>1. CASE i = g + 1
      BY <1>13, <1>22, <2>4, <3>1
    <3>2. CASE i # g + 1
      <4>1. i \in 1..g
        BY <1>9, <3>2
      <4> QED
        BY <1>6, <1>7, <1>8, <2>4, <4>1 DEF Received
    <3> QED
      BY <3>1, <3>2
  <2>6. ~Pending(v, ma)
    BY <1>22 DEF Pending
  <2>7. Awaited(v, ma, n + 1, g + 1)
    BY <1>22, <2>6 DEF Awaited
  <2>8. Front(v, ma, d, n + 1, g + 1)
    BY <1>18, <1>19, <1>22, <2>7 DEF Front
  <2>9. ma.sent <= (g + 1) + Window
    <3>1. Window \in Nat
      BY EnvironmentAssumption DEF EnvironmentAssumption
    <3> QED
      BY <1>5, <1>6, <1>7, <1>8, <1>9, <3>1
  <2>10. InOrder(v, taken, ma, a, t, c, d, n + 1)
    BY <1>15, <1>16, <1>17, <2>3, <2>4, <2>5, <2>8, <2>9 DEF InOrder
  <2>11. n + 1 \in Int
    OBVIOUS
  <2> QED
    BY <1>2, <1>3, <1>5, <2>10, <2>11 DEF Ordered
<1>23. CASE n = g - 1 /\ ma.asking = "no" /\ ma.got = IF Fresh(x) THEN Append(q, x) ELSE q
  <2>1. n + 1 = g /\ g # 0
    BY <1>9, <1>13, <1>23
  <2>2. ~Fresh(x)
    BY <1>7, <1>8, <1>13, <1>20, <2>1 DEF Fresh
  <2>3. ma.got = q
    BY <1>23, <2>2
  <2>4. ~Pending(v, ma)
    BY <1>23 DEF Pending
  <2>5. Awaited(v, ma, n + 1, g)
    BY <2>1, <2>4 DEF Awaited
  <2>6. Front(v, ma, d, n + 1, g)
    BY <1>12, <1>18, <2>5 DEF Front
  <2>7. Received(ma)
    BY <1>5, <1>6, <1>7, <2>3 DEF Received
  <2>8. InOrder(v, taken, ma, a, t, c, d, n + 1)
    BY <1>5, <1>6, <1>7, <1>8, <1>15, <1>16, <1>17, <2>3, <2>6, <2>7 DEF InOrder
  <2>9. n + 1 \in Int
    OBVIOUS
  <2> QED
    BY <1>2, <1>3, <1>5, <2>8, <2>9 DEF Ordered
<1> QED
  BY <1>5, <1>7, <1>12, <1>21, <1>22, <1>23

\* The request for a repeat and the end of it move nothing, nor does Start.
LEMMA AskOrder ==
  ASSUME Inv, Shaken(w, master), Ordered(w, taken, master), AskRepeat \/ SeeAck \/ StartMailbox
  PROVE  Ordered(w', taken', master')
<1>0. PICK a, t, c, d \in Nat : \E n \in Int : InOrder(w, taken, master, a, t, c, d, n)
  BY DEF Ordered
<1>1. PICK n \in Int : InOrder(w, taken, master, a, t, c, d, n)
  BY <1>0
<1>2. PICK v : v = w'
  OBVIOUS
<1>3. PICK ma : ma = master'
  OBVIOUS
<1>4. /\ w.m.level \in BOOLEAN /\ w.m.toggle \in BOOLEAN
      /\ w.e.req \in BOOLEAN /\ w.e.ack \in BOOLEAN
  BY DEF Inv, Good, Sound, Mailbox, Esc
<1>5. Agreed(w, master) /\ Good(w, Lent)
  BY DEF Shaken, Inv
<1>6. /\ v.e.sm0 = w.e.sm0 /\ SameSlots(w, v) /\ (Emptied(v) <=> Emptied(w)) /\ taken' = taken
      /\ ma.got = master.got /\ ma.ses = master.ses /\ ma.sent = master.sent
  <2>1. CASE AskRepeat
    BY <1>2, <1>3, <2>1, AskEffect DEF SameSlots, SameFrames, Emptied
  <2>2. CASE SeeAck
    BY <1>2, <1>3, <2>2, SeeEffect DEF SameSlots, SameFrames
  <2>3. CASE StartMailbox
    BY <1>2, <1>3, <2>3, StartEffect DEF SameSlots, SameFrames, Emptied
  <2> QED
    BY <2>1, <2>2, <2>3
<1>7. (Pending(v, ma) <=> Pending(w, master)) /\ (Stuck(w, master) => Stuck(v, ma))
  <2>1. CASE AskRepeat
    <3>1. /\ v.m = w.m /\ v.e.req = ~w.e.req
          /\ master.asking = "lost" /\ ma.asking = "asked"
      BY <1>2, <1>3, <2>1, AskEffect
    <3> QED
      BY <1>4, <1>5, <3>1 DEF Pending, Stuck, Agreed
  <2>2. CASE SeeAck
    <3>1. /\ v = w /\ w.e.ack = w.e.req
          /\ master.asking = "asked" /\ ma.asking = "no"
      BY <1>2, <1>3, <2>2, SeeEffect
    <3> QED
      BY <1>4, <1>5, <3>1 DEF Pending, Stuck, Agreed
  <2>3. CASE StartMailbox
    <3>1. SameBits(w, v) /\ v.e = w.e /\ ma.asking = master.asking
      BY <1>2, <1>3, <2>3, StartEffect
    <3> QED
      BY <3>1 DEF Pending, Stuck, SameBits
  <2> QED
    BY <2>1, <2>2, <2>3
<1>8. InOrder(v, taken, ma, a, t, c, d, n)
  BY <1>1, <1>5, <1>6, <1>7, OrderFrame
<1> QED
  BY <1>2, <1>3, <1>6, <1>8 DEF Ordered

\* Every call of Poll keeps the order, and so does the interrupt.
LEMMA PollOrder ==
  ASSUME Regular, TestIsCurrent, Inv, Inv', HandshakeInv, Session(w, master),
         Ordered(w, taken, master), Poll \/ OnPdi
  PROVE  Session(w', master') /\ Ordered(w', taken', master')
<1>0. /\ Good(w, Lent) /\ Framed(w, master) /\ Shaken(w, master)
      /\ pc = "read" => Emptied(w)
  BY DEF Inv, HandshakeInv, FramesInv
<1>1. Lends(Lent, taken)
  BY DEF Lends, Lent
<1>2. PICK a, t, c, d \in Nat : \E n \in Int : InOrder(w, taken, master, a, t, c, d, n)
  BY DEF Ordered
<1>3. PICK n \in Int : InOrder(w, taken, master, a, t, c, d, n)
  BY <1>2
<1>4. Len(master.got) \in Nat /\ master.sent \in Nat
  <2>1. master.got \in Seq(Messages) /\ master.sent \in 0..MaxRequests
    BY DEF Inv, MasterType
  <2> QED
    BY <2>1, LenProperties
<1>5. CASE TakeReceived
  <2>1. CASE w.m.running /\ w.m.recvQ # <<>>
    <3>1. w'.m.running
      BY <1>5, <2>1, TakeEffect
    <3>2. Session(w', master')
      BY <3>1 DEF Session
    <3> QED
      BY <1>5, <2>1, <3>2, TakeOrder
  <2>2. CASE ~(w.m.running /\ w.m.recvQ # <<>>)
    <3>1. w' = w /\ master' = master /\ taken' = taken
      BY <1>5, <2>2 DEF TakeReceived
    <3> QED
      BY <3>1
  <2> QED
    BY <2>1, <2>2
<1>6. CASE CompleteReceived
  <2>1. /\ w' = Answer(w, taken) /\ taken' = NoSlot /\ master' = master
        /\ pc = "complete" /\ pc' = "drain"
    BY <1>6 DEF CompleteReceived
  <2>2. PICK s : s = taken
    OBVIOUS
  <2>3. s \in Slots \ {} /\ Good(w, With({}, s))
    BY <1>0, <2>1, <2>2 DEF Inv, Lent, With
  <2>4. w.m.running
    <3>1. Requests(w, s, master, a, t) /\ Replies(w, s, t, c, d)
      BY <1>3, <2>2 DEF InOrder
    <3>2. s # NoSlot
      BY <2>1, <2>2 DEF Inv
    <3>3. t = c + 1
      BY <3>1, <3>2 DEF Replies
    <3>4. PICK k : k = Len(w.m.recvQ)
      OBVIOUS
    <3>5. k \in Nat /\ a = t + k
      BY <1>0, <3>1, <3>4, OrderTypes DEF Requests
    <3>6. master.sent = a \/ master.sent = a + 1
      BY <3>1 DEF Requests
    <3> QED
      BY <3>3, <3>5, <3>6 DEF Session
  <2>5. Good(w', {})
    BY <2>1 DEF Inv, Lent
  <2>6. InOrder(w, s, master, a, t, c, d, n) /\ w' = Answer(w, s)
    BY <1>3, <2>1, <2>2
  <2>7. /\ \E x, y \in Nat : InOrder(w', NoSlot, master, a, t, x, y, n)
        /\ w'.m.running
    BY <1>0, <1>4, <2>3, <2>4, <2>5, <2>6, AnswerOrder
  <2> QED
    BY <2>1, <2>7 DEF Ordered, Session
<1>7. CASE CheckSm1
  <2>1. w' = w /\ taken' = taken /\ master' = master
    BY <1>7 DEF CheckSm1
  <2> QED
    BY <2>1
<1>8. CASE ServiceRead
  <2>1. w' = OnSendMailboxRead(w) /\ pc = "read" /\ taken' = taken /\ master' = master
    BY <1>8 DEF ServiceRead
  <2>2. Emptied(w)
    BY <1>0, <2>1
  <2>3. ~Emptied(w')
    BY <1>0, <2>1, <2>2, ReadKeeps
  <2>4. \E x \in Nat : InOrder(w', taken, master, a, t, c, x, n)
    BY <1>0, <1>1, <1>3, <1>4, <2>1, <2>2, <2>3, ReadOrder
  <2>5. w'.m.running = w.m.running
    BY <1>0, <2>1, <2>2, ReadEffect DEF Emptied, Aside
  <2> QED
    BY <2>1, <2>4, <2>5 DEF Ordered, Session
<1>9. CASE ServiceRequest
  <2>1. w' = ServiceRepeat(w) /\ taken' = taken /\ master' = master
    BY <1>9 DEF ServiceRequest
  <2>2. Good(w', Lent)
    BY <2>1 DEF Inv, ServiceRequest, Lent
  <2>3. /\ \E y \in Int : InOrder(w', taken, master, a, t, c, d, y)
        /\ w'.m.running = w.m.running
    BY <1>0, <1>1, <1>3, <1>4, <2>1, <2>2, RepeatOrder
  <2> QED
    BY <2>1, <2>3 DEF Ordered, Session
<1>10. CASE ServiceQueue
  <2>1. w' = ServiceSend(w) /\ taken' = taken /\ master' = master
    BY <1>10 DEF ServiceQueue
  <2>2. w' = w
    BY <1>0, <1>3, <2>1, SendOrder
  <2> QED
    BY <2>1, <2>2
<1>11. CASE PollEvents \/ OnPdi
  <2>1. w' = HandleMailboxEvents(w) /\ taken' = taken /\ master' = master
    BY <1>11 DEF PollEvents, OnPdi
  <2>2. /\ \E x, y \in Nat : InOrder(w', taken, master, x, t, c, y, n)
        /\ w'.m.running = w.m.running
    BY <1>0, <1>1, <1>3, <1>4, <2>1, HandlingOrder
  <2> QED
    BY <2>1, <2>2 DEF Ordered, Session
<1>12. CASE CaptureDiagnosticSnapshot
  <2>1. w' = ReadAlEvent(w) /\ taken' = taken /\ master' = master
    BY <1>12 DEF CaptureDiagnosticSnapshot
  <2>2. FewerEvents(w, w')
    BY <1>0, <2>1, ReadAlEventEffect
  <2>3. InOrder(w', taken, master, a, t, c, d, n) /\ w'.m.running = w.m.running
    BY <1>0, <1>3, <2>2, FewerOrder
  <2> QED
    BY <2>1, <2>3 DEF Ordered, Session
<1> QED
  BY <1>5, <1>6, <1>7, <1>8, <1>9, <1>10, <1>11, <1>12 DEF Poll

\* The queues, the frames and what the master has received stay in order, in the session
\* that has no end, with the master and the interrupt between any two calls of Poll.
THEOREM OrderInvariance ==
  ASSUME TestIsCurrent, OneSession, Regular
  PROVE  Spec => []OrderInv
<1>1. Init => OrderInv
  <2> SUFFICES ASSUME Init PROVE Session(w, master) /\ Ordered(w, taken, master) /\ HandshakeInv
    BY DEF OrderInv
  <2>1. PICK m : m = w.m
    OBVIOUS
  <2>2. PICK ma : ma = master
    OBVIOUS
  <2>3. /\ m.pool = {} /\ m.sendQ = <<>> /\ m.recvQ = <<>> /\ m.repeat = NoSlot
        /\ m.wcount = 0 /\ m.rcount = 0 /\ m.full = FALSE /\ m.running = FALSE
    BY <2>1 DEF Init
  <2>4. w.e.sm0 = NoMsg
    BY DEF Init
  <2>5. ma.up = FALSE /\ ma.sent = 0 /\ ma.got = <<>> /\ ma.asking = "no"
    BY <2>2 DEF Init
  <2>6. taken = NoSlot
    BY DEF Init
  <2>7. Len(ma.got) = 0 /\ Len(m.sendQ) = 0 /\ Len(m.recvQ) = 0
    BY <2>3, <2>5
  <2>8. DOMAIN m.sendQ = {} /\ DOMAIN m.recvQ = {}
    BY <2>3
  <2>9. CounterOf(0) = 0
    BY DEF CounterOf
  <2>10. Stamped(w, ma)
    BY <2>1, <2>3 DEF Stamped
  <2>11. Received(ma)
    BY <2>7 DEF Received
  <2>12. ma.sent <= Len(ma.got) + Window
    BY <2>5, <2>7, EnvironmentAssumption DEF EnvironmentAssumption
  <2>13. Requests(w, NoSlot, ma, 0, 0)
    BY <2>1, <2>3, <2>4, <2>5, <2>7, <2>8, <2>9 DEF Requests, Consecutive
  <2>14. Replies(w, NoSlot, 0, 0, 0)
    BY <2>1, <2>3, <2>7, <2>8, <2>9 DEF Replies, Consecutive
  <2>15. ~Pending(w, ma) /\ ~Emptied(w)
    BY <2>1, <2>3, <2>5 DEF Pending, Emptied
  <2>16. Front(w, ma, 0, 0, 0)
    BY <2>1, <2>3, <2>15 DEF Front, Line, Shown, Awaited
  <2>17. InOrder(w, NoSlot, ma, 0, 0, 0, 0, 0)
    BY <2>7, <2>10, <2>11, <2>12, <2>13, <2>14, <2>16 DEF InOrder
  <2>18. Session(w, ma)
    BY <2>5 DEF Session
  <2>19. HandshakeInv
    <3>1. /\ w.m.full = FALSE /\ w.m.store = NoSlot /\ w.m.repeat = NoSlot
          /\ w.m.toggle = FALSE /\ w.m.level = FALSE
          /\ w.e.sm1 = NoMsg /\ w.e.events = {} /\ w.e.req = FALSE /\ w.e.ack = FALSE
          /\ master.asking = "no" /\ pc = "drain"
      BY DEF Init
    <3> QED
      BY <3>1
      DEF HandshakeInv, FramesInv, Framed, Shaken, Wire, Known, Agreed, Owed, Pending, Emptied
  <2> QED
    BY <2>2, <2>6, <2>17, <2>18, <2>19 DEF Ordered
<1>2. Inv /\ Inv' /\ HandshakeInv' /\ OrderInv /\ [Next]_vars => OrderInv'
  <2> SUFFICES ASSUME Inv, Inv', HandshakeInv, Session(w, master),
                      Ordered(w, taken, master), [Next]_vars
               PROVE  Session(w', master') /\ Ordered(w', taken', master')
    BY DEF OrderInv
  <2>0. Framed(w, master) /\ Shaken(w, master)
    BY DEF HandshakeInv, FramesInv
  <2>1. CASE WriteRequest \/ RetryRequest
    <3>1. w'.m = w.m /\ master'.up = master.up /\ master.up
      BY <2>1, WriteEffect DEF WriteRequest, RetryRequest
    <3>2. Session(w', master')
      BY <3>1 DEF Session
    <3> QED
      BY <2>1, <3>2, WriteOrder
  <2>2. CASE ReadReply \/ LoseReply
    <3>1. w'.m = w.m /\ master'.up = master.up /\ master'.sent = master.sent
      BY <2>2, FetchEffect
    <3>2. Session(w', master')
      BY <3>1 DEF Session
    <3> QED
      BY <2>0, <2>2, <3>2, FetchOrder
  <2>3. CASE AskRepeat \/ SeeAck
    <3>1. w'.m = w.m /\ master'.up = master.up /\ master'.sent = master.sent
      BY <2>3, AskEffect, SeeEffect
    <3>2. Session(w', master')
      BY <3>1 DEF Session
    <3> QED
      BY <2>0, <2>3, <3>2, AskOrder
  <2>4. CASE StartMailbox
    <3>1. w'.m.running
      BY <2>4, StartEffect
    <3>2. Session(w', master')
      BY <3>1 DEF Session
    <3> QED
      BY <2>0, <2>4, <3>2, AskOrder
  <2>5. ~OnReset /\ ~RequestInit
    BY DEF OnReset, RequestInit, OneSession
  <2>6. CASE Poll \/ OnPdi
    BY <2>6, PollOrder
  <2>7. CASE UNCHANGED vars
    BY <2>7 DEF vars
  <2> QED
    BY <2>1, <2>2, <2>3, <2>4, <2>5, <2>6, <2>7 DEF Next
<1> QED
  BY <1>1, <1>2, MailboxInvariance, HandshakeInvariance, PTL DEF Spec

\* The master receives the replies of its session in the order of its requests, none missing
\* and none twice, with lost replies, repeats at any moment and requests written again
\* (Submit, OnSendMailboxRead and OnRepeatRequest, ecat_mailbox.cpp).
THEOREM RepliesArriveInOrder ==
  ASSUME TestIsCurrent, OneSession, Regular
  PROVE  Spec => []RepliesInOrder
<1>1. Inv /\ OrderInv => RepliesInOrder
  <2> SUFFICES ASSUME Inv, OrderInv, NEW i \in DOMAIN master.got
               PROVE  master.got[i].ses = master.ses /\ master.got[i].id = i
    BY DEF RepliesInOrder
  <2>1. Received(master)
    BY DEF OrderInv, Ordered, InOrder
  <2>2. DOMAIN master.got = 1..Len(master.got)
    BY LenProperties DEF Inv, MasterType
  <2> QED
    BY <2>1, <2>2 DEF Received
<1> QED
  BY <1>1, MailboxInvariance, OrderInvariance, PTL
===============================================================================

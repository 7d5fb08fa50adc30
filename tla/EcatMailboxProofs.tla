--------------------------- MODULE EcatMailboxProofs ---------------------------
(***************************************************************************)
(* Proofs about EcatMailbox, for every depth of the queues, every range of *)
(* the counters, any number of requests, sessions and lost replies, and    *)
(* whatever comes between the calls of Poll: each buffer of the pool has   *)
(* one owner, and the pool is large enough.                                *)
(***************************************************************************)
EXTENDS EcatMailbox, SequenceTheorems, FiniteSetTheorems, TLAPS

Members ==
  {"running", "pool", "msg", "sendQ", "recvQ", "read", "repeat", "store", "full", "toggle",
   "level", "wcount", "rcount"}

\* The types of the mailbox and of the ESC, member by member.
Mailbox(m) ==
  /\ DOMAIN m = Members
  /\ m.running \in BOOLEAN /\ m.full \in BOOLEAN /\ m.toggle \in BOOLEAN /\ m.level \in BOOLEAN
  /\ m.pool \subseteq Slots /\ m.msg \in [Slots -> Messages \cup {NoMsg}]
  /\ m.sendQ \in Seq(Slots) /\ Len(m.sendQ) <= QueueDepth
  /\ m.recvQ \in Seq(Slots) /\ Len(m.recvQ) <= QueueDepth
  /\ m.read \in Slots \cup {NoSlot} /\ m.repeat \in Slots \cup {NoSlot}
  /\ m.store \in Slots \cup {NoSlot}
  /\ m.wcount \in Nat /\ m.wcount <= CounterMax /\ m.rcount \in Nat /\ m.rcount <= CounterMax

Esc(e) ==
  /\ DOMAIN e = {"sm0", "sm1", "events", "req", "ack"}
  /\ e.sm0 \in Messages \cup {NoMsg} /\ e.sm1 \in Messages \cup {NoMsg}
  /\ e.events \subseteq MailboxEvents /\ e.req \in BOOLEAN /\ e.ack \in BOOLEAN

\* The frames in a queue, each of which is there once.
Elems(q) == {q[i] : i \in DOMAIN q}
Distinct(q) == \A i, j \in DOMAIN q : q[i] = q[j] => i = j

\* The owners of slots share none; L are the slots that are lent out or just being
\* handed on.
Apart(m, L) ==
  /\ L \subseteq Slots
  /\ Distinct(m.sendQ) /\ Distinct(m.recvQ)
  /\ Elems(m.sendQ) \cap Elems(m.recvQ) = {}
  /\ L \cap Elems(m.sendQ) = {} /\ L \cap Elems(m.recvQ) = {}
  /\ m.read \notin Elems(m.sendQ) \cup Elems(m.recvQ) \cup L
  /\ m.repeat \notin Elems(m.sendQ) \cup Elems(m.recvQ) \cup L
  /\ m.store \notin Elems(m.sendQ) \cup Elems(m.recvQ) \cup L
  /\ m.read = m.repeat => m.read = NoSlot
  /\ m.read = m.store => m.read = NoSlot
  /\ m.repeat = m.store => m.repeat = NoSlot

\* Between them they have all slots that are taken.
Complete(m, L) ==
  m.pool = ({m.read, m.repeat, m.store} \ {NoSlot}) \cup Elems(m.sendQ) \cup Elems(m.recvQ) \cup L

\* A slot that is taken holds a message; one that is or was in SM1 fits it, and there
\* is none when the mailbox is stopped.
Filled(m) ==
  /\ \A s \in m.pool : m.msg[s] \in Messages
  /\ \A s \in {m.read, m.repeat, m.store} \ {NoSlot} : m.msg[s].id \notin LongReplies /\ m.running

FullAgrees(m) == m.full <=> m.read # NoSlot

Sound(m, L) == Mailbox(m) /\ Apart(m, L) /\ Complete(m, L) /\ Filled(m) /\ FullAgrees(m)

\* One frame is kept back, for a repeat or displaced by one.
OneKept(m) == m.repeat = NoSlot \/ m.store = NoSlot

-------------------------------------------------------------------------------
(* Slots, queues and messages. *)

\* No slot is a slot.
LEMMA NoSlotIsNone == NoSlot \notin Slots
  BY DEF Slots, NoSlot

LEMMA ElemsType == ASSUME NEW q \in Seq(Slots) PROVE Elems(q) \subseteq Slots
  BY LenProperties, ElementOfSeq DEF Elems

\* The empty queue has no frames.
LEMMA ElemsEmpty == Elems(<<>>) = {} /\ Distinct(<<>>) /\ <<>> \in Seq(Slots) /\ Len(<<>>) = 0
  BY EmptySeq DEF Elems, Distinct

\* A new frame at the end of a queue.
LEMMA AppendOwned ==
  ASSUME NEW q \in Seq(Slots), NEW s \in Slots, Distinct(q), s \notin Elems(q)
  PROVE  /\ Append(q, s) \in Seq(Slots) /\ Len(Append(q, s)) = Len(q) + 1
         /\ Elems(Append(q, s)) = Elems(q) \cup {s} /\ Distinct(Append(q, s))
<1> DEFINE a == Append(q, s)
<1>1. /\ a \in Seq(Slots) /\ Len(a) = Len(q) + 1 /\ Len(q) \in Nat
      /\ DOMAIN a = 1..Len(q) + 1 /\ DOMAIN q = 1..Len(q)
      /\ a[Len(q) + 1] = s /\ \A i \in 1..Len(q) : a[i] = q[i]
  BY LenProperties
<1> HIDE DEF a
<1>2. Elems(a) = Elems(q) \cup {s}
  <2>1. \A x \in Elems(a) : x \in Elems(q) \cup {s}
    BY <1>1 DEF Elems
  <2>2. Elems(q) \subseteq Elems(a)
    BY <1>1 DEF Elems
  <2>3. s \in Elems(a)
    <3>1. Len(q) + 1 \in DOMAIN a
      BY <1>1
    <3> QED
      BY <1>1, <3>1 DEF Elems
  <2> QED
    BY <2>1, <2>2, <2>3
<1>3. Distinct(a)
  BY <1>1 DEF Distinct, Elems
<1> QED
  BY <1>1, <1>2, <1>3 DEF a

\* The first frame leaves a queue.
LEMMA TailOwned ==
  ASSUME NEW q \in Seq(Slots), q # <<>>, Distinct(q)
  PROVE  /\ Tail(q) \in Seq(Slots) /\ Len(Tail(q)) = Len(q) - 1 /\ Len(q) \in Nat
         /\ Head(q) \in Elems(q) /\ Head(q) \in Slots
         /\ Elems(Tail(q)) = Elems(q) \ {Head(q)} /\ Distinct(Tail(q))
<1> DEFINE t == Tail(q)
<1>1. /\ t \in Seq(Slots) /\ Len(t) = Len(q) - 1 /\ Len(q) \in Nat \ {0}
      /\ DOMAIN t = 1..Len(q) - 1 /\ DOMAIN q = 1..Len(q)
      /\ Head(q) = q[1] /\ \A i \in 1..Len(q) - 1 : t[i] = q[i + 1]
  BY LenProperties, EmptySeq, HeadTailProperties
<1> HIDE DEF t
<1>2. Head(q) \in Elems(q)
  <2>1. 1 \in DOMAIN q
    BY <1>1
  <2> QED
    BY <1>1, <2>1 DEF Elems
<1>3. Elems(t) \subseteq Elems(q) \ {Head(q)}
  <2> SUFFICES ASSUME NEW i \in DOMAIN t PROVE t[i] \in Elems(q) /\ t[i] # Head(q)
    BY DEF Elems
  <2>1. i + 1 \in DOMAIN q /\ 1 \in DOMAIN q /\ i + 1 # 1 /\ t[i] = q[i + 1]
    BY <1>1
  <2>2. t[i] # Head(q)
    BY <1>1, <2>1 DEF Distinct
  <2>3. q[i + 1] \in Elems(q)
    BY <2>1 DEF Elems
  <2> QED
    BY <2>1, <2>2, <2>3
<1>4. Elems(q) \ {Head(q)} \subseteq Elems(t)
  <2> SUFFICES ASSUME NEW i \in DOMAIN q, q[i] # Head(q) PROVE q[i] \in Elems(t)
    BY DEF Elems
  <2>1. i - 1 \in DOMAIN t /\ t[i - 1] = q[i]
    BY <1>1
  <2> QED
    BY <2>1 DEF Elems
<1>5. Distinct(t)
  <2> SUFFICES ASSUME NEW i \in DOMAIN t, NEW j \in DOMAIN t, t[i] = t[j] PROVE i = j
    BY DEF Distinct
  <2>1. /\ i + 1 \in DOMAIN q /\ j + 1 \in DOMAIN q /\ q[i + 1] = q[j + 1]
        /\ i \in Int /\ j \in Int
    BY <1>1
  <2>2. i + 1 = j + 1
    BY <2>1 DEF Distinct
  <2> QED
    BY <2>1, <2>2
<1>6. Head(q) \in Slots
  BY <1>2, ElemsType
<1> QED
  BY <1>1, <1>2, <1>3, <1>4, <1>5, <1>6 DEF t

\* Acquire finds the first free slot when there is one.
LEMMA FirstFreeSound ==
  ASSUME NEW m, m.pool \subseteq Slots, m.pool # Slots
  PROVE  FirstFree(m) \in Slots \ m.pool
<1> DEFINE A == Slots \ m.pool
           R == OpToRel(<, Nat)
<1>1. IsWellFoundedOn(R, Nat)
  BY NatLessThanWellFounded
<1>2. A \subseteq Nat /\ A # {}
  <2>1. Slots \subseteq Nat
    BY MailboxAssumption DEF Slots, MailboxAssumption
  <2> QED
    BY <2>1
<1> HIDE DEF A
<1>3. PICK s \in A : \A t \in A : ~(<<t, s>> \in R)
  <2> HIDE DEF R
  <2> QED
    BY <1>1, <1>2, WFMin
<1>4. \A t \in A : ~(t < s)
  BY <1>2, <1>3 DEF OpToRel
<1>5. \A t \in A : s <= t
  BY <1>2, <1>4
<1> QED
  BY <1>5 DEF FirstFree, A

\* The next counter is a counter.
LEMMA NextCounterSound == ASSUME NEW c \in Nat PROVE NextCounter(c) \in 1..CounterMax
  BY MailboxAssumption DEF MailboxAssumption, NextCounter

\* No message is none, and a message may be numbered.
LEMMA MessageSound ==
  /\ NoMsg \notin Messages /\ NoMsg.id \notin LongReplies
  /\ \A x \in Messages : \A c \in 1..CounterMax :
       [x EXCEPT !.cnt = c] \in Messages /\ [x EXCEPT !.cnt = c].id = x.id
  /\ \A x \in Messages : x.cnt \in Nat /\ x.cnt <= CounterMax
<1>1. NoMsg.id = 0
  BY DEF NoMsg
<1>2. \A x \in Messages : x.id # 0
  BY DEF Messages
<1>3. 0 \notin LongReplies
  BY MailboxAssumption DEF MailboxAssumption
<1>4. \A x \in Messages : \A c \in 1..CounterMax :
        [x EXCEPT !.cnt = c] \in Messages /\ [x EXCEPT !.cnt = c].id = x.id
  BY MailboxAssumption DEF MailboxAssumption, Messages
<1>5. \A x \in Messages : x.cnt \in Nat /\ x.cnt <= CounterMax
  BY MailboxAssumption DEF MailboxAssumption, Messages
<1> QED
  BY <1>1, <1>2, <1>3, <1>4, <1>5

-------------------------------------------------------------------------------
(* Handing slots on. *)

\* The mailbox and the ESC, and nothing else.
Pair(v) == DOMAIN v = {"m", "e"}

\* A slot more than L.
With(L, s) == L \cup {s}

\* Release takes a slot that is handed on back to the pool.
LEMMA ReleaseSound ==
  ASSUME NEW m, NEW L, NEW s \in Slots \ L, Sound(m, With(L, s))
  PROVE  /\ Sound(Release(m, s), L)
         /\ Release(m, s).repeat = m.repeat /\ Release(m, s).store = m.store
         /\ Release(m, s).read = m.read /\ Release(m, s).running = m.running
         /\ Release(m, s).sendQ = m.sendQ /\ Release(m, s).recvQ = m.recvQ
<1> DEFINE y == [m EXCEPT !.pool = @ \ {s}, !.msg[s] = NoMsg]
<1>1. Release(m, s) = y
  BY NoSlotIsNone DEF Release
<1>2. /\ y.pool = m.pool \ {s} /\ y.msg = [m.msg EXCEPT ![s] = NoMsg]
      /\ y.sendQ = m.sendQ /\ y.recvQ = m.recvQ /\ y.read = m.read /\ y.repeat = m.repeat
      /\ y.store = m.store /\ y.full = m.full /\ y.running = m.running
  BY DEF Sound, Mailbox, Members
<1>3. Mailbox(y)
  <2>1. Mailbox(m)
    BY DEF Sound
  <2>2. /\ y.toggle = m.toggle /\ y.level = m.level /\ y.wcount = m.wcount /\ y.rcount = m.rcount
        /\ DOMAIN y = DOMAIN m
    BY <2>1 DEF Mailbox, Members
  <2>3. y.pool \subseteq Slots /\ y.msg \in [Slots -> Messages \cup {NoMsg}]
    BY <1>2, <2>1 DEF Mailbox
  <2> HIDE DEF y
  <2> QED
    BY <1>2, <2>1, <2>2, <2>3 DEF Mailbox
<1> HIDE DEF y
<1>4. Apart(y, L)
  BY <1>2 DEF Sound, Apart, With
<1>5. Complete(y, L)
  <2>1. /\ s \notin Elems(m.sendQ) /\ s \notin Elems(m.recvQ)
        /\ s \notin {m.read, m.repeat, m.store}
    BY DEF Sound, Apart, With
  <2> QED
    BY <1>2, <2>1 DEF Sound, Complete, With
<1>6. Filled(y)
  <2>1. m.msg \in [Slots -> Messages \cup {NoMsg}] /\ m.pool \subseteq Slots
    BY DEF Sound, Mailbox
  <2>2. \A x \in Slots \ {s} : y.msg[x] = m.msg[x]
    BY <1>2, <2>1
  <2>3. \A x \in y.pool : x \in m.pool /\ x \in Slots \ {s}
    BY <1>2, <2>1
  <2>4. \A x \in {m.read, m.repeat, m.store} \ {NoSlot} : x \in Slots \ {s}
    BY DEF Sound, Apart, Mailbox, With
  <2> QED
    BY <1>2, <2>2, <2>3, <2>4 DEF Sound, Filled, With
<1>7. FullAgrees(y)
  BY <1>2 DEF Sound, FullAgrees
<1> QED
  BY <1>1, <1>2, <1>3, <1>4, <1>5, <1>6, <1>7 DEF Sound

\* TransmitOrEnqueue hands a slot to SM1 or to the send queue: it is lost only when
\* neither takes it.
LEMMA TransmitSound ==
  ASSUME NEW v, Pair(v), NEW L, NEW s \in Slots \ L, Sound(v.m, With(L, s)), Esc(v.e),
         CanTransmit(v.m, s) \/ Len(v.m.sendQ) < QueueDepth,
         NEW r, r = TransmitOrEnqueue(v, s)
  PROVE  /\ Pair(r) /\ Sound(r.m, L) /\ Esc(r.e)
         /\ r.m.repeat = v.m.repeat /\ r.m.store = v.m.store /\ r.m.running = v.m.running
<1> DEFINE m == v.m
<1>1. CASE CanTransmit(m, s)
  <2> DEFINE y == [m EXCEPT !.full = TRUE, !.read = s]
             f == WriteSm1(v.e, m.msg[s])
  <2>1. r = [m |-> y, e |-> f]
    BY <1>1 DEF TransmitOrEnqueue
  <2>2. Mailbox(m) /\ m.msg[s] \in Messages \cup {NoMsg}
    BY DEF Sound, Mailbox
  <2>3. Mailbox(y)
    BY <2>2 DEF Mailbox, Members
  <2>4. /\ y.pool = m.pool /\ y.msg = m.msg /\ y.sendQ = m.sendQ /\ y.recvQ = m.recvQ
        /\ y.read = s /\ y.repeat = m.repeat /\ y.store = m.store /\ y.full = TRUE
        /\ y.running = m.running
    BY <2>2 DEF Mailbox, Members
  <2>5. Esc(f)
    <3> HIDE DEF m
    <3> QED
      BY <2>2 DEF WriteSm1, Esc
  <2> HIDE DEF y, f
  <2>6. /\ m.read = NoSlot /\ m.running /\ m.msg[s].id \notin LongReplies
    BY <1>1 DEF CanTransmit, Sound, FullAgrees
  <2>7. Apart(y, L)
    BY <2>4, NoSlotIsNone DEF Sound, Apart, With
  <2>8. Complete(y, L)
    BY <2>4, <2>6, NoSlotIsNone DEF Sound, Complete, With
  <2>9. Filled(y)
    BY <2>4, <2>6 DEF Sound, Filled, With
  <2>10. FullAgrees(y)
    BY <2>4, NoSlotIsNone DEF FullAgrees
  <2> QED
    BY <2>1, <2>3, <2>4, <2>5, <2>7, <2>8, <2>9, <2>10 DEF Sound, Pair
<1>2. CASE ~CanTransmit(m, s)
  <2> DEFINE q == Append(m.sendQ, s)
             y == [m EXCEPT !.sendQ = q]
  <2>1. Len(m.sendQ) < QueueDepth
    BY <1>2
  <2>2. Mailbox(m) /\ m.sendQ \in Seq(Slots)
    BY DEF Sound, Mailbox
  <2>3. r = [v EXCEPT !.m = y]
    BY <1>2, <2>1 DEF TransmitOrEnqueue, EnqueueSend, Enqueue
  <2>4. Distinct(m.sendQ) /\ s \notin Elems(m.sendQ)
    BY DEF Sound, Apart, With
  <2>5. /\ q \in Seq(Slots) /\ Len(q) = Len(m.sendQ) + 1
        /\ Elems(q) = Elems(m.sendQ) \cup {s} /\ Distinct(q)
    BY <2>2, <2>4, AppendOwned
  <2>6. Len(q) <= QueueDepth
    <3>1. Len(m.sendQ) \in Nat
      BY <2>2, LenProperties
    <3> QED
      BY <2>1, <2>5, <3>1, MailboxAssumption DEF MailboxAssumption
  <2> HIDE DEF q
  <2>7. Mailbox(y)
    BY <2>2, <2>5, <2>6 DEF Mailbox, Members
  <2>8. /\ y.pool = m.pool /\ y.msg = m.msg /\ y.sendQ = q /\ y.recvQ = m.recvQ
        /\ y.read = m.read /\ y.repeat = m.repeat /\ y.store = m.store /\ y.full = m.full
        /\ y.running = m.running
    BY <2>2 DEF Mailbox, Members
  <2>9. r.m = y /\ r.e = v.e /\ Pair(r)
    BY <2>3 DEF Pair
  <2> HIDE DEF y
  <2>10. Apart(y, L)
    BY <2>5, <2>8 DEF Sound, Apart, With
  <2>11. Complete(y, L)
    BY <2>5, <2>8 DEF Sound, Complete, With
  <2>12. Filled(y) /\ FullAgrees(y)
    BY <2>8 DEF Sound, Filled, FullAgrees, With
  <2> QED
    BY <2>7, <2>8, <2>9, <2>10, <2>11, <2>12 DEF Sound
<1> QED
  BY <1>1, <1>2

\* A mailbox without the head of its send queue, without the stored frame, or without
\* the one kept for a repeat.
WithoutHead(m) == [m EXCEPT !.sendQ = Tail(@)]
WithoutStore(m) == [m EXCEPT !.store = NoSlot]
WithoutRepeat(m) == [m EXCEPT !.repeat = NoSlot]

\* The head of the queue, taken out of it, is handed on.
LEMMA SendHeadSound ==
  ASSUME NEW m, NEW L, Sound(m, L), m.sendQ # <<>>,
         NEW y, y = WithoutHead(m), NEW s, s = Head(m.sendQ)
  PROVE  /\ s \in Slots \ L /\ Sound(y, With(L, s)) /\ Len(y.sendQ) < QueueDepth
         /\ y.repeat = m.repeat /\ y.store = m.store /\ y.running = m.running /\ y.full = m.full
<1> DEFINE q == Tail(m.sendQ)
<1>1. Mailbox(m) /\ m.sendQ \in Seq(Slots) /\ Distinct(m.sendQ)
  BY DEF Sound, Mailbox, Apart, With
<1>2. /\ q \in Seq(Slots) /\ Len(q) = Len(m.sendQ) - 1 /\ Len(m.sendQ) \in Nat
      /\ s \in Elems(m.sendQ) /\ s \in Slots
      /\ Elems(q) = Elems(m.sendQ) \ {s} /\ Distinct(q)
  BY <1>1, TailOwned
<1>3. Len(q) < QueueDepth /\ Len(q) <= QueueDepth
  BY <1>1, <1>2, MailboxAssumption DEF MailboxAssumption, Mailbox
<1> HIDE DEF q
<1>4. y = [m EXCEPT !.sendQ = q]
  BY DEF q, WithoutHead
<1>5. Mailbox(y)
  BY <1>1, <1>2, <1>3, <1>4 DEF Mailbox, Members
<1>6. /\ y.pool = m.pool /\ y.msg = m.msg /\ y.sendQ = q /\ y.recvQ = m.recvQ
      /\ y.read = m.read /\ y.repeat = m.repeat /\ y.store = m.store /\ y.full = m.full
      /\ y.running = m.running
  BY <1>1, <1>4 DEF Mailbox, Members
<1>7. Apart(y, With(L, s))
  BY <1>2, <1>6 DEF Sound, Apart, With
<1>8. Complete(y, With(L, s))
  BY <1>2, <1>6 DEF Sound, Complete, With
<1>9. Filled(y) /\ FullAgrees(y)
  BY <1>6 DEF Sound, Filled, FullAgrees, With
<1>10. s \notin L
  BY <1>2 DEF Sound, Apart, With
<1> QED
  BY <1>2, <1>3, <1>5, <1>6, <1>7, <1>8, <1>9, <1>10 DEF Sound

\* After ShiftFrames the frame that was read is the one to repeat, and SM1 is free.
LEMMA ShiftSound ==
  ASSUME NEW m, NEW L, Sound(m, L), OneKept(m), NEW y, y = ShiftFrames(m)
  PROVE  /\ Sound(y, L) /\ ~y.full /\ y.read = NoSlot /\ y.repeat = m.read
         /\ y.store = m.store /\ y.running = m.running /\ y.sendQ = m.sendQ
<1> DEFINE s == m.repeat
<1>1. Mailbox(m)
  BY DEF Sound
<1>2. CASE m.store = NoSlot /\ s # NoSlot
  <2> DEFINE p == m.pool \ {s}
             g == [m.msg EXCEPT ![s] = NoMsg]
  <2>1. y = [m EXCEPT !.pool = p, !.msg = g, !.full = FALSE, !.repeat = m.read, !.read = NoSlot]
    BY <1>2, <1>1 DEF ShiftFrames, Release, Mailbox, Members
  <2>2. s \in Slots /\ p \subseteq Slots /\ g \in [Slots -> Messages \cup {NoMsg}]
    BY <1>1, <1>2 DEF Mailbox
  <2>3. /\ s \notin Elems(m.sendQ) /\ s \notin Elems(m.recvQ) /\ s \notin L
        /\ s \notin {m.read, m.store}
    BY <1>2 DEF Sound, Apart, With
  <2>4. \A x \in Slots \ {s} : g[x] = m.msg[x]
    BY <1>1, <2>2 DEF Mailbox
  <2> HIDE DEF p, g
  <2>5. Mailbox(y)
    BY <1>1, <2>1, <2>2 DEF Mailbox, Members
  <2>6. /\ y.pool = p /\ y.msg = g /\ y.sendQ = m.sendQ /\ y.recvQ = m.recvQ
        /\ y.read = NoSlot /\ y.repeat = m.read /\ y.store = m.store /\ y.full = FALSE
        /\ y.running = m.running
    BY <1>1, <2>1 DEF Mailbox, Members
  <2>7. Apart(y, L)
    BY <1>1, <2>6, NoSlotIsNone, ElemsType DEF Sound, Apart, Mailbox, With
  <2>8. Complete(y, L)
    BY <1>2, <2>3, <2>6 DEF Sound, Complete, p, With
  <2>9. Filled(y)
    <3>1. \A x \in p : x \in m.pool /\ x \in Slots \ {s}
      BY <1>1 DEF Mailbox, p
    <3>2. m.read # NoSlot => m.read \in Slots \ {s}
      BY <1>1, <2>3 DEF Mailbox
    <3> QED
      BY <1>2, <2>4, <2>6, <3>1, <3>2 DEF Sound, Filled, With
  <2> QED
    BY <2>5, <2>6, <2>7, <2>8, <2>9 DEF Sound, FullAgrees
<1>3. CASE s = NoSlot
  <2>1. y = [m EXCEPT !.full = FALSE, !.repeat = m.read, !.read = NoSlot]
    BY <1>3 DEF ShiftFrames, Release
  <2>2. Mailbox(y)
    BY <1>1, <2>1 DEF Mailbox, Members
  <2>3. /\ y.pool = m.pool /\ y.msg = m.msg /\ y.sendQ = m.sendQ /\ y.recvQ = m.recvQ
        /\ y.read = NoSlot /\ y.repeat = m.read /\ y.store = m.store /\ y.full = FALSE
        /\ y.running = m.running
    BY <1>1, <2>1 DEF Mailbox, Members
  <2>4. Apart(y, L)
    BY <1>1, <2>3, NoSlotIsNone, ElemsType DEF Sound, Apart, Mailbox, With
  <2>5. Complete(y, L)
    BY <1>3, <2>3 DEF Sound, Complete, With
  <2>6. Filled(y)
    BY <2>3 DEF Sound, Filled, With
  <2> QED
    BY <2>2, <2>3, <2>4, <2>5, <2>6 DEF Sound, FullAgrees
<1> QED
  BY <1>2, <1>3 DEF OneKept

\* What changes one frame pointer only: a frame is taken out of the place for stored
\* frames or for repeated ones, and handed on.
LEMMA StoredSound ==
  ASSUME NEW m, NEW L, Sound(m, L), m.store # NoSlot, NEW y, y = WithoutStore(m)
  PROVE  /\ m.store \in Slots \ L /\ Sound(y, With(L, m.store))
         /\ m.running /\ m.msg[m.store].id \notin LongReplies
         /\ y.repeat = m.repeat /\ y.store = NoSlot /\ y.running = m.running /\ y.full = m.full
         /\ y.msg = m.msg
<1>1. Mailbox(m)
  BY DEF Sound
<1>2. Mailbox(y)
  BY <1>1 DEF Mailbox, Members, WithoutStore
<1>3. /\ y.pool = m.pool /\ y.msg = m.msg /\ y.sendQ = m.sendQ /\ y.recvQ = m.recvQ
      /\ y.read = m.read /\ y.repeat = m.repeat /\ y.store = NoSlot /\ y.full = m.full
      /\ y.running = m.running
  BY <1>1 DEF Mailbox, Members, WithoutStore
<1>4. m.store \in Slots \ L /\ m.running /\ m.msg[m.store].id \notin LongReplies
  BY <1>1 DEF Sound, Apart, Filled, Mailbox, With
<1>5. Apart(y, With(L, m.store))
  BY <1>1, <1>3, <1>4, NoSlotIsNone, ElemsType DEF Sound, Apart, Mailbox, With
<1>6. Complete(y, With(L, m.store))
  BY <1>3, <1>4 DEF Sound, Complete, With
<1>7. Filled(y) /\ FullAgrees(y)
  BY <1>3 DEF Sound, Filled, FullAgrees, With
<1> QED
  BY <1>2, <1>3, <1>4, <1>5, <1>6, <1>7 DEF Sound

LEMMA RepeatedSound ==
  ASSUME NEW m, NEW L, Sound(m, L), m.repeat # NoSlot, NEW y, y = WithoutRepeat(m)
  PROVE  /\ m.repeat \in Slots \ L /\ Sound(y, With(L, m.repeat))
         /\ m.running /\ m.msg[m.repeat].id \notin LongReplies
         /\ y.repeat = NoSlot /\ y.store = m.store /\ y.running = m.running /\ y.full = m.full
         /\ y.msg = m.msg
<1>1. Mailbox(m)
  BY DEF Sound
<1>2. Mailbox(y)
  BY <1>1 DEF Mailbox, Members, WithoutRepeat
<1>3. /\ y.pool = m.pool /\ y.msg = m.msg /\ y.sendQ = m.sendQ /\ y.recvQ = m.recvQ
      /\ y.read = m.read /\ y.repeat = NoSlot /\ y.store = m.store /\ y.full = m.full
      /\ y.running = m.running
  BY <1>1 DEF Mailbox, Members, WithoutRepeat
<1>4. m.repeat \in Slots \ L /\ m.running /\ m.msg[m.repeat].id \notin LongReplies
  BY <1>1 DEF Sound, Apart, Filled, Mailbox, With
<1>5. Apart(y, With(L, m.repeat))
  BY <1>1, <1>3, <1>4, NoSlotIsNone, ElemsType DEF Sound, Apart, Mailbox, With
<1>6. Complete(y, With(L, m.repeat))
  BY <1>3, <1>4 DEF Sound, Complete, With
<1>7. Filled(y) /\ FullAgrees(y)
  BY <1>3 DEF Sound, Filled, FullAgrees, With
<1> QED
  BY <1>2, <1>3, <1>4, <1>5, <1>6, <1>7 DEF Sound

\* The same handed on to SM1 or to the queue.
LEMMA SendNext ==
  ASSUME NEW m, NEW L, Sound(m, L), m.sendQ # <<>>,
         NEW u, Pair(u), u.m = WithoutHead(m), Esc(u.e),
         NEW s, s = Head(m.sendQ), NEW r, r = TransmitOrEnqueue(u, s)
  PROVE  /\ Pair(r) /\ Sound(r.m, L) /\ Esc(r.e)
         /\ r.m.repeat = m.repeat /\ r.m.store = m.store /\ r.m.running = m.running
<1>1. PICK y : y = WithoutHead(m)
  OBVIOUS
<1>2. /\ s \in Slots \ L /\ Sound(y, With(L, s)) /\ Len(y.sendQ) < QueueDepth
      /\ y.repeat = m.repeat /\ y.store = m.store /\ y.running = m.running
  BY <1>1, SendHeadSound
<1>3. u.m = y
  BY <1>1
<1>4. Sound(u.m, With(L, s)) /\ Len(u.m.sendQ) < QueueDepth
  BY <1>2, <1>3
<1>5. /\ Pair(r) /\ Sound(r.m, L) /\ Esc(r.e)
      /\ r.m.repeat = u.m.repeat /\ r.m.store = u.m.store /\ r.m.running = u.m.running
  BY <1>2, <1>4, TransmitSound
<1> QED
  BY <1>2, <1>3, <1>5

\* A frame that was displaced is sent again once SM1 is free.
SendStore(m, e) == TransmitOrEnqueue([m |-> WithoutStore(m), e |-> e], m.store)

LEMMA SendStored ==
  ASSUME NEW m, NEW e, NEW L, Sound(m, L), Esc(e), m.store # NoSlot, ~m.full,
         NEW r, r = SendStore(m, e)
  PROVE  Pair(r) /\ Sound(r.m, L) /\ Esc(r.e) /\ r.m.store = NoSlot
<1>1. PICK y : y = WithoutStore(m)
  OBVIOUS
<1>2. PICK s : s = m.store
  OBVIOUS
<1>3. PICK u : u = [m |-> y, e |-> e]
  OBVIOUS
<1>4. /\ s \in Slots \ L /\ Sound(y, With(L, s)) /\ m.running /\ m.msg[s].id \notin LongReplies
      /\ y.store = NoSlot /\ y.running = m.running /\ y.full = m.full /\ y.msg = m.msg
  BY <1>1, <1>2, StoredSound
<1>5. Pair(u) /\ u.m = y /\ u.e = e /\ r = TransmitOrEnqueue(u, s)
  BY <1>1, <1>2, <1>3 DEF Pair, SendStore
<1>6. CanTransmit(u.m, s)
  BY <1>4, <1>5 DEF CanTransmit
<1>7. s \in Slots \ L
  BY <1>4
<1>8. Sound(u.m, With(L, s)) /\ Esc(u.e) /\ Pair(u)
  BY <1>4, <1>5
<1>9. r = TransmitOrEnqueue(u, s)
  BY <1>5
<1>10. Pair(r) /\ Sound(r.m, L) /\ Esc(r.e) /\ r.m.store = u.m.store
  BY <1>6, <1>7, <1>8, <1>9, TransmitSound
<1> QED
  BY <1>4, <1>5, <1>10

\* OnSendMailboxRead: the displaced frame goes first, and SM1 has room for it.
LEMMA SendMailboxReadSound ==
  ASSUME NEW v, Pair(v), NEW L, Sound(v.m, L), OneKept(v.m), Esc(v.e),
         NEW r, r = OnSendMailboxRead(v)
  PROVE  Pair(r) /\ Sound(r.m, L) /\ OneKept(r.m) /\ Esc(r.e)
<1>1. PICK m : m = ShiftFrames(v.m)
  OBVIOUS
<1>2. PICK e : e = [v.e EXCEPT !.events = @ \ {"Read"}]
  OBVIOUS
<1>3. /\ Sound(m, L) /\ ~m.full /\ m.read = NoSlot /\ m.repeat = v.m.read
      /\ m.store = v.m.store /\ m.running = v.m.running /\ m.sendQ = v.m.sendQ
  BY <1>1, ShiftSound
<1>4. Esc(e)
  BY <1>2 DEF Esc
<1>5. CASE m.store # NoSlot
  <2>1. r = SendStore(m, e)
    BY <1>1, <1>2, <1>5 DEF OnSendMailboxRead, SendStore, WithoutStore
  <2> QED
    BY <1>3, <1>4, <1>5, <2>1, SendStored DEF OneKept
<1>6. CASE m.store = NoSlot /\ m.sendQ # <<>>
  <2>1. PICK u : u = [m |-> WithoutHead(m), e |-> e]
    OBVIOUS
  <2>2. Pair(u) /\ u.m = WithoutHead(m) /\ u.e = e
    BY <2>1 DEF Pair
  <2>3. r = TransmitOrEnqueue(u, Head(m.sendQ))
    BY <1>1, <1>2, <1>6, <2>1 DEF OnSendMailboxRead, WithoutHead
  <2>4. Esc(u.e) /\ m.sendQ # <<>>
    BY <1>4, <1>6, <2>2
  <2>5. Pair(r) /\ Sound(r.m, L) /\ Esc(r.e) /\ r.m.store = m.store
    BY <1>3, <2>2, <2>3, <2>4, SendNext
  <2> QED
    BY <1>6, <2>5 DEF OneKept
<1>7. CASE m.store = NoSlot /\ m.sendQ = <<>>
  <2>1. r = [m |-> m, e |-> e]
    BY <1>1, <1>2, <1>7 DEF OnSendMailboxRead
  <2> QED
    BY <1>3, <1>4, <1>7, <2>1 DEF Pair, OneKept
<1> QED
  BY <1>5, <1>6, <1>7

\* Displace takes the frame out of SM1 and keeps it in the place for stored ones.
LEMMA DisplaceSound ==
  ASSUME NEW v, Pair(v), NEW L, Sound(v.m, L), Esc(v.e), v.m.store = NoSlot,
         NEW r, r = Displace(v)
  PROVE  /\ Pair(r) /\ Sound(r.m, L) /\ Esc(r.e) /\ ~r.m.full
         /\ r.m.repeat = v.m.repeat /\ r.m.toggle = v.m.toggle
<1>1. Mailbox(v.m)
  BY DEF Sound
<1>2. CASE v.m.full
  <2>1. PICK y : y = [v.m EXCEPT !.store = v.m.read, !.read = NoSlot, !.full = FALSE]
    OBVIOUS
  <2>2. PICK f : f = [v.e EXCEPT !.sm1 = NoMsg]
    OBVIOUS
  <2>3. r = [m |-> y, e |-> f]
    BY <1>2, <2>1, <2>2 DEF Displace
  <2>4. Mailbox(y)
    BY <1>1, <2>1 DEF Mailbox, Members
  <2>5. /\ y.pool = v.m.pool /\ y.msg = v.m.msg /\ y.sendQ = v.m.sendQ /\ y.recvQ = v.m.recvQ
        /\ y.read = NoSlot /\ y.repeat = v.m.repeat /\ y.store = v.m.read /\ y.full = FALSE
        /\ y.running = v.m.running /\ y.toggle = v.m.toggle
    BY <1>1, <2>1 DEF Mailbox, Members
  <2>6. Apart(y, L)
    BY <1>1, <2>5, NoSlotIsNone, ElemsType DEF Sound, Apart, Mailbox, With
  <2>7. Complete(y, L)
    BY <2>5 DEF Sound, Complete, With
  <2>8. Filled(y) /\ FullAgrees(y)
    BY <2>5 DEF Sound, Filled, FullAgrees, With
  <2>9. Esc(f)
    BY <2>2 DEF Esc
  <2> QED
    BY <2>3, <2>4, <2>5, <2>6, <2>7, <2>8, <2>9 DEF Sound, Pair
<1>3. CASE ~v.m.full
  BY <1>3 DEF Displace
<1> QED
  BY <1>2, <1>3

\* A member that owns no slot may change.
LEMMA SoundFrame ==
  ASSUME NEW m, NEW L, Sound(m, L), NEW y, Mailbox(y),
         y.pool = m.pool, y.msg = m.msg, y.sendQ = m.sendQ, y.recvQ = m.recvQ,
         y.read = m.read, y.repeat = m.repeat, y.store = m.store, y.full = m.full,
         m.running => y.running
  PROVE  Sound(y, L)
<1>1. Apart(y, L)
  BY DEF Sound, Apart, With
<1>2. Complete(y, L)
  BY DEF Sound, Complete, With
<1>3. Filled(y) /\ FullAgrees(y)
  BY DEF Sound, Filled, FullAgrees, With
<1> QED
  BY <1>1, <1>2, <1>3 DEF Sound

\* A repeat request sends the frame kept for it, which fits SM1 and finds it free.
LEMMA RepeatRequestSound ==
  ASSUME NEW v, Pair(v), NEW L, Sound(v.m, L), OneKept(v.m), Esc(v.e),
         NEW r, r = OnRepeatRequest(v)
  PROVE  Pair(r) /\ Sound(r.m, L) /\ OneKept(r.m) /\ Esc(r.e)
<1>1. PICK a : a = [v EXCEPT !.m.toggle = ~@]
  OBVIOUS
<1>2. /\ Pair(a) /\ a.m = [v.m EXCEPT !.toggle = ~@] /\ a.e = v.e
  BY <1>1 DEF Pair
<1>3. Mailbox(v.m)
  BY DEF Sound
<1>4. /\ Mailbox(a.m)
      /\ a.m.pool = v.m.pool /\ a.m.msg = v.m.msg /\ a.m.sendQ = v.m.sendQ
      /\ a.m.recvQ = v.m.recvQ /\ a.m.read = v.m.read /\ a.m.repeat = v.m.repeat
      /\ a.m.store = v.m.store /\ a.m.full = v.m.full /\ a.m.running = v.m.running
  BY <1>2, <1>3 DEF Mailbox, Members
<1>5. Sound(a.m, L)
  BY <1>4, SoundFrame
<1>6. CASE v.m.repeat = NoSlot
  <2>1. r = a
    BY <1>1, <1>6 DEF OnRepeatRequest
  <2> QED
    BY <1>2, <1>4, <1>5, <1>6, <2>1 DEF OneKept
<1>7. CASE v.m.repeat # NoSlot
  <2>1. PICK b : b = Displace(a)
    OBVIOUS
  <2>2. /\ Pair(b) /\ Sound(b.m, L) /\ Esc(b.e) /\ ~b.m.full /\ b.m.repeat = v.m.repeat
    <3>1. Esc(a.e) /\ a.m.store = NoSlot
      BY <1>2, <1>4, <1>7 DEF OneKept
    <3>2. /\ Pair(b) /\ Sound(b.m, L) /\ Esc(b.e) /\ ~b.m.full /\ b.m.repeat = a.m.repeat
      BY <1>2, <1>5, <2>1, <3>1, DisplaceSound
    <3> QED
      BY <1>4, <3>2
  <2>3. PICK s : s = b.m.repeat
    OBVIOUS
  <2>4. PICK u : u = [b EXCEPT !.m.repeat = NoSlot]
    OBVIOUS
  <2>5. Pair(u) /\ u.m = WithoutRepeat(b.m) /\ u.e = b.e
    BY <2>2, <2>4 DEF Pair, WithoutRepeat
  <2>6. /\ s \in Slots \ L /\ Sound(u.m, With(L, s)) /\ b.m.running
        /\ b.m.msg[s].id \notin LongReplies
        /\ u.m.repeat = NoSlot /\ u.m.running = b.m.running /\ u.m.full = b.m.full
        /\ u.m.msg = b.m.msg
    BY <1>7, <2>2, <2>3, <2>5, RepeatedSound
  <2>7. PICK t : t = TransmitOrEnqueue(u, s)
    OBVIOUS
  <2>8. CanTransmit(u.m, s)
    BY <2>2, <2>6 DEF CanTransmit
  <2>9. Pair(t) /\ Sound(t.m, L) /\ Esc(t.e) /\ t.m.repeat = NoSlot
    BY <2>2, <2>5, <2>6, <2>7, <2>8, TransmitSound
  <2>10. r = Acknowledge(t)
    BY <1>1, <1>7, <2>1, <2>3, <2>4, <2>7 DEF OnRepeatRequest
  <2>11. Pair(r) /\ r.m = t.m /\ r.e = [t.e EXCEPT !.ack = t.m.toggle]
    BY <2>9, <2>10 DEF Acknowledge, Pair
  <2>12. Esc(r.e)
    BY <2>9, <2>11 DEF Esc, Sound, Mailbox
  <2> QED
    BY <2>9, <2>11, <2>12 DEF OneKept
<1> QED
  BY <1>6, <1>7

\* The mailbox and the ESC between two calls.
Good(v, L) == Pair(v) /\ Sound(v.m, L) /\ OneKept(v.m) /\ Esc(v.e)

\* A member of the ESC may change, and one of the mailbox that owns no slot.
LEMMA GoodFrame ==
  ASSUME NEW v, NEW L, Good(v, L), NEW r, Pair(r), Esc(r.e), Mailbox(r.m),
         r.m.pool = v.m.pool, r.m.msg = v.m.msg, r.m.sendQ = v.m.sendQ,
         r.m.recvQ = v.m.recvQ, r.m.read = v.m.read, r.m.repeat = v.m.repeat,
         r.m.store = v.m.store, r.m.full = v.m.full, v.m.running => r.m.running
  PROVE  Good(r, L)
<1>1. PICK m : m = v.m
  OBVIOUS
<1>2. PICK y : y = r.m
  OBVIOUS
<1>3. Sound(m, L) /\ Mailbox(y)
  BY <1>1, <1>2 DEF Good
<1>4. /\ y.pool = m.pool /\ y.msg = m.msg /\ y.sendQ = m.sendQ
      /\ y.recvQ = m.recvQ /\ y.read = m.read /\ y.repeat = m.repeat
      /\ y.store = m.store /\ y.full = m.full
  BY <1>1, <1>2
<1>5. m.running => y.running
  BY <1>1, <1>2
<1>6. Sound(y, L)
  BY <1>3, <1>4, <1>5, SoundFrame
<1>7. OneKept(y)
  BY <1>1, <1>4 DEF Good, OneKept
<1> QED
  BY <1>2, <1>6, <1>7 DEF Good

\* The master and the reset of the ESC touch the buffers and events only.
LEMMA EscChange ==
  ASSUME NEW v, NEW L, Good(v, L), NEW r, Pair(r), r.m = v.m, Esc(r.e)
  PROVE  Good(r, L)
BY DEF Good

\* Service, second part: an edge of the request bit repeats.
LEMMA ServiceRepeatSound ==
  ASSUME NEW v, NEW L, Good(v, L), NEW r, r = ServiceRepeat(v)
  PROVE  Good(r, L)
<1>1. CASE v.e.req = v.m.level
  BY <1>1 DEF ServiceRepeat
<1>2. CASE v.e.req # v.m.level
  <2>1. PICK a : a = [v EXCEPT !.m.level = v.e.req]
    OBVIOUS
  <2>2. Pair(a) /\ a.m = [v.m EXCEPT !.level = v.e.req] /\ a.e = v.e
    BY <2>1 DEF Good, Pair
  <2>3. Mailbox(v.m) /\ v.e.req \in BOOLEAN /\ Esc(a.e)
    BY <2>2 DEF Good, Sound, Esc
  <2>4. /\ Mailbox(a.m)
        /\ a.m.pool = v.m.pool /\ a.m.msg = v.m.msg /\ a.m.sendQ = v.m.sendQ
        /\ a.m.recvQ = v.m.recvQ /\ a.m.read = v.m.read /\ a.m.repeat = v.m.repeat
        /\ a.m.store = v.m.store /\ a.m.full = v.m.full /\ a.m.running = v.m.running
    BY <2>2, <2>3 DEF Mailbox, Members
  <2>5. Good(a, L)
    BY <2>2, <2>3, <2>4, GoodFrame
  <2>6. r = OnRepeatRequest(a)
    BY <1>2, <2>1 DEF ServiceRepeat
  <2>7. Pair(a) /\ Sound(a.m, L) /\ OneKept(a.m) /\ Esc(a.e)
    BY <2>5 DEF Good
  <2> QED
    BY <2>6, <2>7, RepeatRequestSound DEF Good
<1> QED
  BY <1>1, <1>2

\* Service, third part: the head of the queue goes next.
LEMMA ServiceSendSound ==
  ASSUME NEW v, NEW L, Good(v, L), NEW r, r = ServiceSend(v)
  PROVE  Good(r, L)
<1>1. CASE ~(~v.m.full /\ v.m.read = NoSlot /\ v.m.sendQ # <<>>)
  BY <1>1 DEF ServiceSend
<1>2. CASE ~v.m.full /\ v.m.read = NoSlot /\ v.m.sendQ # <<>>
  <2>1. PICK m : m = v.m
    OBVIOUS
  <2>2. PICK u : u = [v EXCEPT !.m.sendQ = Tail(@)]
    OBVIOUS
  <2>3. Pair(u) /\ u.m = WithoutHead(m) /\ u.e = v.e
    BY <2>1, <2>2 DEF Good, Pair, WithoutHead
  <2>4. r = TransmitOrEnqueue(u, Head(m.sendQ))
    BY <1>2, <2>1, <2>2 DEF ServiceSend
  <2>5. Sound(m, L) /\ Esc(u.e) /\ OneKept(m) /\ m.sendQ # <<>>
    BY <1>2, <2>1, <2>3 DEF Good
  <2>6. /\ Pair(r) /\ Sound(r.m, L) /\ Esc(r.e)
        /\ r.m.repeat = m.repeat /\ r.m.store = m.store
    BY <2>3, <2>4, <2>5, SendNext
  <2> QED
    BY <2>5, <2>6 DEF Good, OneKept
<1> QED
  BY <1>1, <1>2

\* A slot the pool had free takes a message and the end of the receive queue.
Accepted(m, s, msg) ==
  [m EXCEPT !.wcount = msg.cnt, !.pool = @ \cup {s}, !.msg[s] = msg, !.recvQ = Append(@, s)]

LEMMA AcceptSound ==
  ASSUME NEW m, NEW L, Sound(m, L), NEW s \in Slots \ m.pool, NEW msg \in Messages,
         Len(m.recvQ) # QueueDepth,
         NEW y, y = Accepted(m, s, msg)
  PROVE  /\ Sound(y, L) /\ y.repeat = m.repeat /\ y.store = m.store
<1>1. Mailbox(m)
  BY DEF Sound
<1>2. PICK q : q = Append(m.recvQ, s)
  OBVIOUS
<1>3. PICK p : p = m.pool \cup {s}
  OBVIOUS
<1>4. PICK g : g = [m.msg EXCEPT ![s] = msg]
  OBVIOUS
<1>5. /\ s \notin Elems(m.recvQ) /\ s \notin Elems(m.sendQ) /\ s \notin L
      /\ s \notin {m.read, m.repeat, m.store}
  BY NoSlotIsNone DEF Sound, Complete
<1>6. /\ q \in Seq(Slots) /\ Len(q) = Len(m.recvQ) + 1
      /\ Elems(q) = Elems(m.recvQ) \cup {s} /\ Distinct(q)
  <2>1. Distinct(m.recvQ) /\ m.recvQ \in Seq(Slots)
    BY <1>1 DEF Sound, Apart, Mailbox
  <2> QED
    BY <1>2, <1>5, <2>1, AppendOwned
<1>7. Len(q) <= QueueDepth
  <2>1. Len(m.recvQ) \in Nat /\ Len(m.recvQ) <= QueueDepth
    BY <1>1, LenProperties DEF Mailbox
  <2> QED
    BY <1>6, <2>1, MailboxAssumption DEF MailboxAssumption
<1>8. p \subseteq Slots /\ g \in [Slots -> Messages \cup {NoMsg}]
      /\ g[s] = msg /\ \A x \in Slots \ {s} : g[x] = m.msg[x]
  BY <1>1, <1>3, <1>4 DEF Mailbox
<1>9. msg.cnt \in Nat /\ msg.cnt <= CounterMax
  BY MessageSound
<1>10. y = [m EXCEPT !.wcount = msg.cnt, !.pool = p, !.msg = g, !.recvQ = q]
  BY <1>1, <1>2, <1>3, <1>4 DEF Accepted, Mailbox, Members
<1>11. Mailbox(y)
  BY <1>1, <1>6, <1>7, <1>8, <1>9, <1>10 DEF Mailbox, Members
<1>12. /\ y.pool = p /\ y.msg = g /\ y.sendQ = m.sendQ /\ y.recvQ = q
       /\ y.read = m.read /\ y.repeat = m.repeat /\ y.store = m.store /\ y.full = m.full
       /\ y.running = m.running
  BY <1>1, <1>10 DEF Mailbox, Members
<1>13. Apart(y, L)
  BY <1>5, <1>6, <1>12 DEF Sound, Apart
<1>14. Complete(y, L)
  BY <1>3, <1>6, <1>12 DEF Sound, Complete
<1>15. Filled(y)
  <2>1. \A x \in m.pool : x \in Slots \ {s}
    BY <1>1 DEF Mailbox
  <2>2. \A x \in p : g[x] \in Messages
    BY <1>3, <1>8, <2>1 DEF Sound, Filled
  <2>3. \A x \in {m.read, m.repeat, m.store} \ {NoSlot} : x \in Slots \ {s}
    BY <1>1, <1>5 DEF Mailbox
  <2>4. \A x \in {m.read, m.repeat, m.store} \ {NoSlot} :
          m.msg[x].id \notin LongReplies /\ m.running
    BY DEF Sound, Filled
  <2>5. \A x \in {m.read, m.repeat, m.store} \ {NoSlot} :
          g[x].id \notin LongReplies /\ m.running
    BY <1>8, <2>3, <2>4
  <2> QED
    BY <1>12, <2>2, <2>5 DEF Filled
<1>16. FullAgrees(y)
  BY <1>12 DEF Sound, FullAgrees
<1> QED
  BY <1>11, <1>12, <1>13, <1>14, <1>15, <1>16 DEF Sound

\* Receive, whatever is in SM0 and however full pool and queue are.
LEMMA ReceiveSound ==
  ASSUME NEW v, NEW L, Good(v, L), NEW r, r = Receive(v)
  PROVE  Good(r, L)
<1>1. PICK m : m = v.m
  OBVIOUS
<1>2. PICK msg : msg = v.e.sm0
  OBVIOUS
<1>3. Pair(v) /\ Sound(m, L) /\ Mailbox(m) /\ Esc(v.e) /\ msg \in Messages \cup {NoMsg}
  BY <1>1, <1>2 DEF Good, Sound, Esc
<1>4. MayReceive(v) <=> m.running /\ ~m.full /\ msg # NoMsg
  BY <1>1, <1>2 DEF MayReceive
<1>5. CASE ~m.running \/ m.full \/ msg = NoMsg
  <2>1. r = v
    BY <1>4, <1>5 DEF Receive
  <2> QED
    BY <2>1
<1>6. CASE m.running /\ ~m.full /\ msg # NoMsg /\ msg.id \in Malformed
  <2>1. r = TakeFromSm0(v)
    BY <1>2, <1>4, <1>6 DEF Receive
  <2>2. Pair(r) /\ r.m = v.m /\ r.e = [v.e EXCEPT !.sm0 = NoMsg, !.events = @ \ {"Write"}]
    BY <1>3, <2>1 DEF TakeFromSm0, Pair
  <2>3. Esc(r.e)
    BY <1>3, <2>2 DEF Esc
  <2> QED
    BY <2>2, <2>3, EscChange
<1>7. CASE m.running /\ ~m.full /\ msg # NoMsg /\ msg.id \notin Malformed /\ m.pool = Slots
  <2>1. r = [v EXCEPT !.e.events = @ \ {"Write"}]
    BY <1>1, <1>2, <1>4, <1>7 DEF Receive
  <2>2. Pair(r) /\ r.m = v.m /\ r.e = [v.e EXCEPT !.events = @ \ {"Write"}]
    BY <1>3, <2>1 DEF Pair
  <2>3. Esc(r.e)
    BY <1>3, <2>2 DEF Esc
  <2>4. Sound(r.m, L) /\ OneKept(r.m)
    BY <2>2 DEF Good
  <2> QED
    BY <2>2, <2>3, <2>4 DEF Good
<1>8. CASE m.running /\ ~m.full /\ msg # NoMsg /\ msg.id \notin Malformed /\ m.pool # Slots
  <2>1. PICK f : f = [v.e EXCEPT !.sm0 = NoMsg, !.events = @ \ {"Write"}]
    OBVIOUS
  <2>2. Esc(f)
    BY <1>3, <2>1 DEF Esc
  <2>3. PICK t : t = TakeFromSm0(v)
    OBVIOUS
  <2>4. Pair(t) /\ t.m = m /\ t.e = f
    BY <1>1, <1>3, <2>1, <2>3 DEF TakeFromSm0, Pair
  <2>5. PICK n : n = [t EXCEPT !.m.wcount = msg.cnt]
    OBVIOUS
  <2>6. Pair(n) /\ n.m = [m EXCEPT !.wcount = msg.cnt] /\ n.e = f
    BY <2>4, <2>5 DEF Pair
  <2>7. msg \in Messages /\ msg.cnt \in Nat /\ msg.cnt <= CounterMax
    BY <1>3, <1>8, MessageSound
  <2>8. CASE IsRetry(m, msg)
    <3>1. r = t
      BY <1>1, <1>2, <1>4, <1>8, <2>3, <2>8 DEF Receive
    <3> QED
      BY <1>1, <2>2, <2>4, <3>1 DEF Good
  <2>9. CASE ~IsRetry(m, msg) /\ Len(m.recvQ) = QueueDepth
    <3>1. r = n
      BY <1>1, <1>2, <1>4, <1>8, <2>3, <2>5, <2>9 DEF Receive
    <3>2. /\ Mailbox(n.m)
          /\ n.m.pool = m.pool /\ n.m.msg = m.msg /\ n.m.sendQ = m.sendQ
          /\ n.m.recvQ = m.recvQ /\ n.m.read = m.read /\ n.m.repeat = m.repeat
          /\ n.m.store = m.store /\ n.m.full = m.full /\ n.m.running = m.running
      BY <1>3, <2>6, <2>7 DEF Mailbox, Members
    <3>3. Pair(n) /\ Esc(n.e)
      BY <2>2, <2>6
    <3>4. Good(n, L)
      BY <1>1, <3>2, <3>3, GoodFrame
    <3> QED
      BY <3>1, <3>4
  <2>10. CASE ~IsRetry(m, msg) /\ Len(m.recvQ) # QueueDepth
    <3>1. PICK s : s = FirstFree(m)
      OBVIOUS
    <3>2. s \in Slots \ m.pool
      BY <1>3, <1>8, <3>1, FirstFreeSound DEF Mailbox
    <3>3. r = [n EXCEPT !.m.pool = @ \cup {s}, !.m.msg[s] = msg, !.m.recvQ = Append(@, s)]
      BY <1>1, <1>2, <1>4, <1>8, <2>3, <2>5, <2>10, <3>1 DEF Receive
    <3>4. PICK y : y = Accepted(m, s, msg)
      OBVIOUS
    <3>5. Pair(r) /\ r.e = f
      BY <2>6, <3>3 DEF Pair
    <3>6. r.m = y
      BY <1>3, <2>6, <3>3, <3>4 DEF Accepted, Pair, Mailbox, Members
    <3>7. Sound(y, L) /\ y.repeat = m.repeat /\ y.store = m.store
      BY <1>3, <2>7, <2>10, <3>2, <3>4, AcceptSound
    <3>8. OneKept(y)
      BY <1>1, <3>7 DEF Good, OneKept
    <3> QED
      BY <2>2, <3>5, <3>6, <3>7, <3>8 DEF Good
  <2> QED
    BY <2>8, <2>9, <2>10
<1> QED
  BY <1>5, <1>6, <1>7, <1>8

\* Reading the event register takes events at most.
LEMMA ReadAlEventSound ==
  ASSUME NEW v, NEW L, Good(v, L), NEW r, r = ReadAlEvent(v)
  PROVE  Good(r, L)
<1>1. /\ Pair(r) /\ r.m = v.m
      /\ r.e = [v.e EXCEPT !.events = IF ReadAcknowledges THEN {} ELSE @]
  BY DEF ReadAlEvent, Good, Pair
<1>2. Esc(r.e)
  BY <1>1 DEF Good, Esc
<1> QED
  BY <1>1, <1>2, EscChange

\* The mailbox part of HandleAlEvents, in Poll or in the interrupt.
LEMMA HandlingSound ==
  ASSUME NEW v, NEW L, Good(v, L), NEW r, r = HandleMailboxEvents(v)
  PROVE  Good(r, L)
<1>1. PICK a : a = ReadAlEvent(v)
  OBVIOUS
<1>2. Good(a, L)
  BY <1>1, ReadAlEventSound
<1>3. PICK b : b = IF "Write" \in v.e.events THEN Receive(a) ELSE a
  OBVIOUS
<1>4. Good(b, L)
  BY <1>2, <1>3, ReceiveSound
<1>5. r = IF "Read" \in v.e.events THEN OnSendMailboxRead(b) ELSE b
  BY <1>1, <1>3 DEF HandleMailboxEvents
<1>6. \A x : x = OnSendMailboxRead(b) => Good(x, L)
  <2> SUFFICES ASSUME NEW x, x = OnSendMailboxRead(b) PROVE Good(x, L)
    OBVIOUS
  <2>1. Pair(b) /\ Sound(b.m, L) /\ OneKept(b.m) /\ Esc(b.e)
    BY <1>4 DEF Good
  <2> QED
    BY <2>1, SendMailboxReadSound DEF Good
<1> QED
  BY <1>4, <1>5, <1>6

\* The reply gets its number in the buffer of the request.
LEMMA NumberSound ==
  ASSUME NEW m, NEW L, Sound(m, L), NEW s \in L, NEW y, y = Number(m, s)
  PROVE  /\ Sound(y, L) /\ y.repeat = m.repeat /\ y.store = m.store /\ y.sendQ = m.sendQ
         /\ CanTransmit(y, s) = CanTransmit(m, s)
<1>1. Mailbox(m)
  BY DEF Sound
<1>2. PICK c : c = NextCounter(m.rcount)
  OBVIOUS
<1>3. c \in 1..CounterMax /\ c \in Nat /\ c <= CounterMax
  BY <1>1, <1>2, NextCounterSound, MailboxAssumption DEF Mailbox, MailboxAssumption
<1>4. s \in Slots /\ s \in m.pool
  BY DEF Sound, Apart, Complete
<1>5. m.msg[s] \in Messages
  BY <1>4 DEF Sound, Filled
<1>6. PICK x : x = [m.msg[s] EXCEPT !.cnt = c]
  OBVIOUS
<1>7. x \in Messages /\ x.id = m.msg[s].id
  BY <1>3, <1>5, <1>6, MessageSound
<1>8. PICK g : g = [m.msg EXCEPT ![s] = x]
  OBVIOUS
<1>9. /\ g \in [Slots -> Messages \cup {NoMsg}] /\ g[s] = x
      /\ \A z \in Slots \ {s} : g[z] = m.msg[z]
  BY <1>1, <1>4, <1>7, <1>8 DEF Mailbox
<1>10. y = [m EXCEPT !.rcount = c, !.msg = g]
  BY <1>1, <1>2, <1>6, <1>8 DEF Number, Mailbox, Members
<1>11. Mailbox(y)
  BY <1>1, <1>3, <1>9, <1>10 DEF Mailbox, Members
<1>12. /\ y.pool = m.pool /\ y.msg = g /\ y.sendQ = m.sendQ /\ y.recvQ = m.recvQ
       /\ y.read = m.read /\ y.repeat = m.repeat /\ y.store = m.store /\ y.full = m.full
       /\ y.running = m.running
  BY <1>1, <1>10 DEF Mailbox, Members
<1>13. Apart(y, L)
  BY <1>12 DEF Sound, Apart
<1>14. Complete(y, L)
  BY <1>12 DEF Sound, Complete
<1>15. Filled(y)
  <2>1. m.pool \subseteq Slots
    BY <1>1 DEF Mailbox
  <2>2. \A z \in m.pool : g[z] \in Messages
    BY <1>7, <1>9, <2>1 DEF Sound, Filled
  <2>3. \A z \in {m.read, m.repeat, m.store} \ {NoSlot} : z \in Slots \ {s}
    BY <1>1 DEF Sound, Apart, Mailbox
  <2> QED
    BY <1>9, <1>12, <2>2, <2>3 DEF Sound, Filled
<1>16. FullAgrees(y)
  BY <1>12 DEF Sound, FullAgrees
<1>17. CanTransmit(y, s) = CanTransmit(m, s)
  BY <1>7, <1>9, <1>12 DEF CanTransmit
<1> QED
  BY <1>11, <1>12, <1>13, <1>14, <1>15, <1>16, <1>17 DEF Sound

\* Submit finds an owner for the slot that was lent out, or returns it to the pool.
LEMMA SubmitSound ==
  ASSUME NEW v, NEW L, NEW s \in Slots \ L, Good(v, With(L, s)), NEW r, r = Submit(v, s)
  PROVE  Good(r, L)
<1>1. PICK n : n = [v EXCEPT !.m = Number(@, s)]
  OBVIOUS
<1>2. Pair(n) /\ n.m = Number(v.m, s) /\ n.e = v.e
  BY <1>1 DEF Good, Pair
<1>3. Sound(v.m, With(L, s)) /\ OneKept(v.m) /\ Esc(v.e) /\ s \in With(L, s)
  BY DEF Good, With
<1>4. PICK m : m = v.m
  OBVIOUS
<1>5. PICK y : y = Number(m, s)
  OBVIOUS
<1>6. PICK K : K = With(L, s)
  OBVIOUS
<1>7. Sound(m, K) /\ s \in K
  BY <1>3, <1>4, <1>6
<1>8. /\ Sound(y, K) /\ y.repeat = m.repeat /\ y.store = m.store /\ y.sendQ = m.sendQ
      /\ CanTransmit(y, s) = CanTransmit(m, s)
  BY <1>5, <1>7, NumberSound
<1>9. CASE CanTransmit(m, s) \/ Len(m.sendQ) < QueueDepth
  <2>1. r = TransmitOrEnqueue(n, s)
    BY <1>1, <1>4, <1>9 DEF Submit
  <2>2. n.m = y
    BY <1>2, <1>4, <1>5
  <2>3. CanTransmit(n.m, s) \/ Len(n.m.sendQ) < QueueDepth
    BY <1>8, <1>9, <2>2
  <2>4. Pair(n) /\ Esc(n.e) /\ Sound(n.m, With(L, s))
    BY <1>2, <1>3, <1>6, <1>8, <2>2
  <2>5. /\ Pair(r) /\ Sound(r.m, L) /\ Esc(r.e)
        /\ r.m.repeat = n.m.repeat /\ r.m.store = n.m.store
    BY <2>1, <2>3, <2>4, TransmitSound
  <2> QED
    BY <1>3, <1>4, <1>8, <2>2, <2>5 DEF Good, OneKept
<1>10. CASE ~(CanTransmit(m, s) \/ Len(m.sendQ) < QueueDepth)
  <2>1. r = [v EXCEPT !.m = Release(@, s)]
    BY <1>4, <1>10 DEF Submit
  <2>2. Pair(r) /\ r.m = Release(m, s) /\ r.e = v.e
    BY <1>4, <2>1 DEF Good, Pair
  <2>3. /\ Sound(Release(m, s), L) /\ Release(m, s).repeat = m.repeat
        /\ Release(m, s).store = m.store
    BY <1>3, <1>4, ReleaseSound
  <2> QED
    BY <1>3, <1>4, <2>2, <2>3 DEF Good, OneKept
<1> QED
  BY <1>9, <1>10

\* So does CompleteReceived, which returns a request without a reply.
LEMMA AnswerSound ==
  ASSUME NEW v, NEW L, NEW s \in Slots \ L, Good(v, With(L, s)), NEW r, r = Answer(v, s)
  PROVE  Good(r, L)
<1>1. CASE v.m.msg[s].id \in Unanswered
  <2>1. Pair(r) /\ r.m = Release(v.m, s) /\ r.e = v.e
    BY <1>1 DEF Answer, Good, Pair
  <2>2. PICK m : m = v.m
    OBVIOUS
  <2>3. Sound(m, With(L, s)) /\ OneKept(m) /\ Esc(v.e)
    BY <2>2 DEF Good
  <2>4. /\ Sound(Release(m, s), L) /\ Release(m, s).repeat = m.repeat
        /\ Release(m, s).store = m.store
    BY <2>3, ReleaseSound
  <2> QED
    BY <2>1, <2>2, <2>3, <2>4 DEF Good, OneKept
<1>2. CASE v.m.msg[s].id \notin Unanswered
  BY <1>2, SubmitSound DEF Answer
<1> QED
  BY <1>1, <1>2

\* Start keeps what it finds.
LEMMA StartSound ==
  ASSUME NEW v, NEW L, Good(v, L), NEW r, r = [v EXCEPT !.m = Start(@)]
  PROVE  Good(r, L)
<1>1. Pair(r) /\ r.m = [v.m EXCEPT !.running = TRUE] /\ r.e = v.e
  BY DEF Good, Pair, Start
<1>2. Mailbox(v.m) /\ Esc(r.e)
  BY <1>1 DEF Good, Sound
<1> PICK m : m = v.m
  OBVIOUS
<1> PICK y : y = [m EXCEPT !.running = TRUE]
  OBVIOUS
<1>3. Mailbox(m) /\ r.m = y
  BY <1>1, <1>2
<1>4. DOMAIN m = Members
  BY <1>3 DEF Mailbox
<1>5. DOMAIN y = Members /\ y.running
  BY <1>4 DEF Members
<1>6. /\ y.toggle = m.toggle /\ y.level = m.level
      /\ y.wcount = m.wcount /\ y.rcount = m.rcount
  BY <1>4 DEF Members
<1>7. /\ y.pool = m.pool /\ y.msg = m.msg /\ y.sendQ = m.sendQ /\ y.recvQ = m.recvQ
  BY <1>4 DEF Members
<1>8. y.read = m.read /\ y.repeat = m.repeat /\ y.store = m.store /\ y.full = m.full
  BY <1>4 DEF Members
<1>9. Mailbox(y)
  BY <1>3, <1>5, <1>6, <1>7, <1>8 DEF Mailbox
<1>10. /\ r.m.pool = v.m.pool /\ r.m.msg = v.m.msg /\ r.m.sendQ = v.m.sendQ
       /\ r.m.recvQ = v.m.recvQ /\ r.m.read = v.m.read /\ r.m.repeat = v.m.repeat
       /\ r.m.store = v.m.store /\ r.m.full = v.m.full
  BY <1>3, <1>7, <1>8
<1>11. Pair(r) /\ Esc(r.e) /\ Mailbox(r.m) /\ r.m.running
  BY <1>1, <1>2, <1>3, <1>5, <1>9
<1> QED
  BY <1>10, <1>11, GoodFrame

\* Stop returns to the pool what the mailbox owns, and nothing that is lent out.
LEMMA StopSound ==
  ASSUME NEW v, NEW L, Good(v, L), NEW r, r = Stop(v)
  PROVE  Good(r, L)
<1>1. PICK m : m = v.m
  OBVIOUS
<1>2. PICK p : p = m.pool \ Owned(m)
  OBVIOUS
<1>3. PICK g : g = [s \in Slots |-> IF s \in Owned(m) THEN NoMsg ELSE m.msg[s]]
  OBVIOUS
<1>4. PICK y : y = [m EXCEPT !.running = FALSE, !.sendQ = <<>>, !.recvQ = <<>>, !.read = NoSlot,
                             !.repeat = NoSlot, !.store = NoSlot, !.full = FALSE,
                             !.toggle = FALSE, !.rcount = 0, !.wcount = 0, !.pool = p, !.msg = g]
  OBVIOUS
<1>5. PICK f : f = [v.e EXCEPT !.ack = FALSE, !.sm0 = NoMsg, !.sm1 = NoMsg, !.events = {}]
  OBVIOUS
<1>6. Mailbox(m) /\ Sound(m, L) /\ Esc(v.e)
  BY <1>1 DEF Good, Sound
<1>7. r = [m |-> y, e |-> f]
  BY <1>1, <1>2, <1>3, <1>4, <1>5, <1>6 DEF Stop, Forget, Mailbox, Members
<1>8. Owned(m) = {m.read, m.repeat, m.store} \cup Elems(m.sendQ) \cup Elems(m.recvQ)
  BY DEF Owned, Elems
<1>9. p = L
  BY <1>2, <1>6, <1>8, NoSlotIsNone DEF Sound, Apart, Complete
<1>10. p \subseteq Slots /\ g \in [Slots -> Messages \cup {NoMsg}]
  BY <1>2, <1>3, <1>6 DEF Mailbox
<1>11. /\ DOMAIN y = Members /\ y.level = m.level
       /\ y.running \in BOOLEAN /\ y.toggle \in BOOLEAN /\ y.full \in BOOLEAN
       /\ y.wcount = 0 /\ y.rcount = 0
  BY <1>4, <1>6 DEF Mailbox, Members
<1>12. /\ y.pool = p /\ y.msg = g /\ y.sendQ = <<>> /\ y.recvQ = <<>> /\ y.read = NoSlot
       /\ y.repeat = NoSlot /\ y.store = NoSlot /\ y.full = FALSE
  BY <1>4, <1>6 DEF Mailbox, Members
<1>18. Mailbox(y)
  <2>1. m.level \in BOOLEAN
    BY <1>6 DEF Mailbox
  <2>2. 0 \in Nat /\ 0 <= CounterMax /\ 0 <= QueueDepth
    BY MailboxAssumption DEF MailboxAssumption
  <2>3. /\ y.sendQ \in Seq(Slots) /\ Len(y.sendQ) <= QueueDepth
        /\ y.recvQ \in Seq(Slots) /\ Len(y.recvQ) <= QueueDepth
    BY <1>12, <2>2, ElemsEmpty
  <2>4. /\ y.pool \subseteq Slots /\ y.msg \in [Slots -> Messages \cup {NoMsg}]
        /\ y.read = NoSlot /\ y.repeat = NoSlot /\ y.store = NoSlot
    BY <1>10, <1>12
  <2> QED
    BY <1>11, <2>1, <2>2, <2>3, <2>4 DEF Mailbox
<1>13. Apart(y, L)
  BY <1>6, <1>12, NoSlotIsNone, ElemsEmpty DEF Sound, Apart
<1>14. Complete(y, L)
  BY <1>9, <1>12, ElemsEmpty DEF Complete
<1>15. Filled(y)
  <2>1. \A s \in p : s \in Slots /\ s \in m.pool /\ s \notin Owned(m)
    BY <1>2, <1>10
  <2>2. \A s \in p : g[s] \in Messages
    BY <1>3, <1>6, <2>1 DEF Sound, Filled
  <2> QED
    BY <1>12, <2>2 DEF Filled
<1>16. FullAgrees(y) /\ OneKept(y)
  BY <1>12 DEF FullAgrees, OneKept
<1>17. Esc(f)
  BY <1>5, <1>6 DEF Esc
<1> QED
  BY <1>7, <1>13, <1>14, <1>15, <1>16, <1>17, <1>18 DEF Good, Sound, Pair

\* TakeReceived lends the head of the receive queue to the thread.
LEMMA TakeSound ==
  ASSUME NEW v, Good(v, {}), v.m.recvQ # <<>>, NEW s, s = Head(v.m.recvQ),
         NEW r, r = [v EXCEPT !.m.recvQ = Tail(@)]
  PROVE  s \in Slots /\ Good(r, {s})
<1>1. PICK m : m = v.m
  OBVIOUS
<1>2. PICK q : q = Tail(m.recvQ)
  OBVIOUS
<1>3. PICK y : y = [m EXCEPT !.recvQ = q]
  OBVIOUS
<1>4. Pair(r) /\ r.m = y /\ r.e = v.e
  BY <1>1, <1>2, <1>3 DEF Good, Pair
<1>5. Sound(m, {}) /\ Mailbox(m) /\ OneKept(m) /\ Esc(v.e)
  BY <1>1 DEF Good, Sound
<1>6. m.recvQ \in Seq(Slots) /\ Distinct(m.recvQ) /\ m.recvQ # <<>>
  BY <1>1, <1>5 DEF Sound, Mailbox, Apart
<1>7. /\ q \in Seq(Slots) /\ Len(q) = Len(m.recvQ) - 1 /\ Len(m.recvQ) \in Nat
      /\ s \in Elems(m.recvQ) /\ s \in Slots
      /\ Elems(q) = Elems(m.recvQ) \ {s} /\ Distinct(q)
  BY <1>1, <1>2, <1>6, TailOwned
<1>8. Len(q) <= QueueDepth
  BY <1>5, <1>7, MailboxAssumption DEF MailboxAssumption, Mailbox
<1>9. Mailbox(y)
  BY <1>3, <1>5, <1>7, <1>8 DEF Mailbox, Members
<1>10. /\ y.pool = m.pool /\ y.msg = m.msg /\ y.sendQ = m.sendQ /\ y.recvQ = q
       /\ y.read = m.read /\ y.repeat = m.repeat /\ y.store = m.store /\ y.full = m.full
       /\ y.running = m.running
  BY <1>3, <1>5 DEF Mailbox, Members
<1>11. Apart(y, {s})
  BY <1>5, <1>7, <1>10 DEF Sound, Apart
<1>12. Complete(y, {s})
  BY <1>5, <1>7, <1>10 DEF Sound, Complete
<1>13. Filled(y) /\ FullAgrees(y)
  BY <1>5, <1>10 DEF Sound, Filled, FullAgrees
<1>14. OneKept(y)
  BY <1>5, <1>10 DEF OneKept
<1> QED
  BY <1>4, <1>5, <1>7, <1>9, <1>11, <1>12, <1>13, <1>14 DEF Good, Sound

-------------------------------------------------------------------------------
(* The invariant and the theorems. *)

\* The slot the thread has taken out of the receive queue.
Lent == {taken} \ {NoSlot}

Inv ==
  /\ Good(w, Lent)
  /\ pc \in Calls /\ taken \in Slots \cup {NoSlot} /\ (pc = "complete" <=> taken # NoSlot)
  /\ master \in MasterType

\* The requests of the master are messages.
LEMMA RequestSound ==
  ASSUME master \in MasterType, NEW n \in 1..MaxRequests
  PROVE  Request(n) \in Messages
<1>1. (IF n \in Uncounted THEN 0 ELSE ((n - 1) % CounterMax) + 1) \in 0..CounterMax
  BY MailboxAssumption DEF MailboxAssumption
<1>2. master.ses \in 1..MaxSessions
  BY DEF MasterType
<1> QED
  BY <1>1, <1>2 DEF Request, Messages

\* The inductive invariant of the mailbox.
THEOREM MailboxInvariance == Spec => []Inv
<1>1. Init => Inv
  <2> SUFFICES ASSUME Init PROVE Inv
    OBVIOUS
  <2>1. PICK m : m = w.m
    OBVIOUS
  <2>2. /\ DOMAIN m = Members /\ m.pool = {} /\ m.msg = [s \in Slots |-> NoMsg]
        /\ m.sendQ = <<>> /\ m.recvQ = <<>>
        /\ m.read = NoSlot /\ m.repeat = NoSlot /\ m.store = NoSlot
        /\ m.wcount = 0 /\ m.rcount = 0
    BY <2>1 DEF Init, Members
  <2>3. /\ m.running = FALSE /\ m.full = FALSE /\ m.toggle = FALSE /\ m.level = FALSE
    BY <2>1 DEF Init
  <2>4. Mailbox(m)
    <3>1. 0 \in Nat /\ 0 <= CounterMax /\ 0 <= QueueDepth
      BY MailboxAssumption DEF MailboxAssumption
    <3>2. m.msg \in [Slots -> Messages \cup {NoMsg}]
      BY <2>2
    <3>3. /\ m.sendQ \in Seq(Slots) /\ Len(m.sendQ) <= QueueDepth
          /\ m.recvQ \in Seq(Slots) /\ Len(m.recvQ) <= QueueDepth
      BY <2>2, <3>1, ElemsEmpty
    <3>4. m.running \in BOOLEAN /\ m.full \in BOOLEAN /\ m.toggle \in BOOLEAN /\ m.level \in BOOLEAN
      BY <2>3
    <3> QED
      BY <2>2, <3>1, <3>2, <3>3, <3>4 DEF Mailbox
  <2>5. Apart(m, {})
    BY <2>2, ElemsEmpty DEF Apart
  <2>6. Complete(m, {}) /\ Filled(m)
    BY <2>2, ElemsEmpty DEF Complete, Filled
  <2>7. FullAgrees(m) /\ OneKept(m)
    BY <2>2, <2>3 DEF FullAgrees, OneKept
  <2>8. Pair(w)
    BY DEF Init, Pair
  <2>9. Esc(w.e)
    BY DEF Init, Esc
  <2>10. Lent = {} /\ taken = NoSlot /\ pc = "drain"
    BY DEF Init, Lent
  <2>11. Good(w, Lent)
    BY <2>1, <2>4, <2>5, <2>6, <2>7, <2>8, <2>9, <2>10 DEF Good, Sound
  <2>12. master \in MasterType
    <3>1. 1 \in 1..MaxSessions /\ 0 \in 0..MaxRequests /\ 0 \in 0..MaxLost
      BY MailboxAssumption, EnvironmentAssumption DEF MailboxAssumption, EnvironmentAssumption
    <3>2. <<>> \in Seq(Messages)
      BY EmptySeq
    <3> QED
      BY <3>1, <3>2 DEF Init, MasterType
  <2> QED
    BY <2>10, <2>11, <2>12 DEF Inv, Calls
<1>2. Inv /\ [Next]_vars => Inv'
  <2> SUFFICES ASSUME Inv, [Next]_vars PROVE Inv'
    OBVIOUS
  <2>0. /\ Good(w, Lent) /\ Pair(w) /\ Esc(w.e) /\ w.e.sm1 \in Messages \cup {NoMsg}
        /\ w.e.events \subseteq MailboxEvents
        /\ pc \in Calls /\ taken \in Slots \cup {NoSlot}
        /\ master \in MasterType
    BY DEF Inv, Good, Esc
  <2>a. pc = "complete" <=> taken # NoSlot
    BY DEF Inv
  <2>b. ASSUME Good(w', Lent), UNCHANGED <<pc, taken>>, master' \in MasterType PROVE Inv'
    BY <2>0, <2>a, <2>b DEF Inv, Lent
  <2>1. CASE WriteRequest
    <3>1. master.sent + 1 \in 1..MaxRequests /\ master.sent + 1 \in 0..MaxRequests
      BY <2>0, <2>1, MailboxAssumption DEF WriteRequest, MasterType, MailboxAssumption
    <3>2. Request(master.sent + 1) \in Messages
      BY <2>0, <3>1, RequestSound
    <3>3. Pair(w') /\ w'.m = w.m /\ w'.e = [w.e EXCEPT !.sm0 = Request(master.sent + 1),
                                                        !.events = @ \cup {"Write"}]
      BY <2>0, <2>1 DEF WriteRequest, Pair
    <3>4. Esc(w'.e)
      BY <2>0, <3>2, <3>3 DEF Esc, MailboxEvents
    <3>5. master' \in MasterType
      BY <2>0, <2>1, <3>1 DEF WriteRequest, MasterType
    <3> QED
      BY <2>0, <2>1, <2>b, <3>3, <3>4, <3>5, EscChange DEF WriteRequest
  <2>2. CASE RetryRequest
    <3>1. master.sent \in 1..MaxRequests
      BY <2>0, <2>2 DEF RetryRequest, MasterType
    <3>2. Request(master.sent) \in Messages
      BY <2>0, <3>1, RequestSound
    <3>3. Pair(w') /\ w'.m = w.m /\ w'.e = [w.e EXCEPT !.sm0 = Request(master.sent),
                                                        !.events = @ \cup {"Write"}]
      BY <2>0, <2>2 DEF RetryRequest, Pair
    <3>4. Esc(w'.e)
      BY <2>0, <3>2, <3>3 DEF Esc, MailboxEvents
    <3>5. master' \in MasterType
      BY <2>0, <2>2 DEF RetryRequest, MasterType
    <3> QED
      BY <2>0, <2>2, <2>b, <3>3, <3>4, <3>5, EscChange DEF RetryRequest
  <2>3. ASSUME w' = ReadSm1 PROVE Good(w', Lent)
    <3>1. Pair(w') /\ w'.m = w.m /\ w'.e = [w.e EXCEPT !.sm1 = NoMsg, !.events = @ \cup {"Read"}]
      BY <2>0, <2>3 DEF ReadSm1, Pair
    <3>2. Esc(w'.e)
      BY <2>0, <3>1 DEF Esc, MailboxEvents
    <3> QED
      BY <2>0, <3>1, <3>2, EscChange
  <2>4. CASE ReadReply
    <3>1. w.e.sm1 \in Messages
      BY <2>0, <2>4 DEF ReadReply
    <3>2. master' \in MasterType
      <4>1. PICK x : x = w.e.sm1
        OBVIOUS
      <4>2. /\ master.got \in Seq(Messages) /\ master.seen \subseteq Messages /\ x \in Messages
        BY <2>0, <3>1, <4>1 DEF MasterType
      <4>3. PICK h : h = IF Fresh(x) THEN Append(master.got, x) ELSE master.got
        OBVIOUS
      <4>4. h \in Seq(Messages) /\ master.seen \cup {x} \subseteq Messages
        BY <4>2, <4>3, AppendProperties
      <4>5. master' = [master EXCEPT !.seen = @ \cup {x}, !.got = h]
        BY <2>0, <2>4, <4>1, <4>3 DEF ReadReply, MasterType
      <4> QED
        BY <2>0, <4>4, <4>5 DEF MasterType
    <3> QED
      BY <2>3, <2>4, <2>b, <3>2 DEF ReadReply
  <2>5. CASE LoseReply
    <3>1. w.e.sm1 \in Messages
      BY <2>0, <2>5 DEF LoseReply
    <3>2. master.lost + 1 \in 0..MaxLost
      BY <2>0, <2>5, EnvironmentAssumption DEF LoseReply, MasterType, EnvironmentAssumption
    <3>3. master' \in MasterType
      BY <2>0, <2>5, <3>1, <3>2 DEF LoseReply, MasterType
    <3> QED
      BY <2>3, <2>5, <2>b, <3>3 DEF LoseReply
  <2>6. CASE AskRepeat
    <3>1. Pair(w') /\ w'.m = w.m /\ w'.e = [w.e EXCEPT !.req = ~@]
      BY <2>0, <2>6 DEF AskRepeat, Pair
    <3>2. Esc(w'.e)
      BY <2>0, <3>1 DEF Esc
    <3>3. master' \in MasterType
      BY <2>0, <2>6 DEF AskRepeat, MasterType
    <3> QED
      BY <2>0, <2>6, <2>b, <3>1, <3>2, <3>3, EscChange DEF AskRepeat
  <2>7. CASE SeeAck
    <3>1. master' \in MasterType
      BY <2>0, <2>7 DEF SeeAck, MasterType
    <3> QED
      BY <2>0, <2>7, <2>b, <3>1 DEF SeeAck
  <2>8. CASE StartMailbox
    <3>1. Good(w', Lent)
      BY <2>0, <2>8, StartSound DEF StartMailbox
    <3>2. master' \in MasterType
      BY <2>0, <2>8 DEF StartMailbox, MasterType
    <3> QED
      BY <2>8, <2>b, <3>1, <3>2 DEF StartMailbox
  <2>9. ASSUME master.ses < MaxSessions PROVE NewSession \in MasterType
    <3>1. master.ses + 1 \in 1..MaxSessions /\ 0 \in 0..MaxRequests
      BY <2>0, <2>9, MailboxAssumption DEF MasterType, MailboxAssumption
    <3>2. <<>> \in Seq(Messages)
      BY EmptySeq
    <3> QED
      BY <2>0, <3>1, <3>2 DEF NewSession, MasterType
  <2>10. CASE OnReset
    <3>1. PICK z : z = Stop(w)
      OBVIOUS
    <3>2. Good(z, Lent)
      BY <2>0, <3>1, StopSound
    <3>3. Pair(w') /\ w'.m = z.m /\ w'.e = [z.e EXCEPT !.req = FALSE]
      BY <2>10, <3>1, <3>2 DEF OnReset, Good, Pair
    <3>4. Esc(w'.e)
      BY <3>2, <3>3 DEF Good, Esc
    <3>5. Good(w', Lent)
      BY <3>2, <3>3, <3>4, EscChange
    <3> QED
      BY <2>9, <2>10, <2>b, <3>5 DEF OnReset
  <2>11. CASE RequestInit
    <3>1. /\ Pair(w') /\ w'.m = w.m
          /\ w'.e = [w.e EXCEPT !.sm0 = NoMsg, !.sm1 = NoMsg, !.events = {}, !.req = FALSE]
      BY <2>0, <2>11 DEF RequestInit, Pair
    <3>2. Esc(w'.e)
      BY <2>0, <3>1 DEF Esc
    <3>3. Good(w', Lent)
      BY <2>0, <3>1, <3>2, EscChange
    <3> QED
      BY <2>9, <2>11, <2>b, <3>3 DEF RequestInit
  <2>12. CASE TakeReceived
    <3>1. taken = NoSlot /\ Lent = {}
      BY <2>0, <2>12, <2>a DEF TakeReceived, Lent
    <3>2. CASE w.m.running /\ w.m.recvQ # <<>>
      <4>1. taken' = Head(w.m.recvQ) /\ w' = [w EXCEPT !.m.recvQ = Tail(@)]
            /\ pc' = "complete" /\ master' = master
        BY <2>12, <3>2 DEF TakeReceived
      <4>2. taken' \in Slots /\ Good(w', {taken'})
        BY <2>0, <3>1, <3>2, <4>1, TakeSound
      <4>3. taken' # NoSlot /\ Lent' = {taken'}
        BY <4>2, NoSlotIsNone DEF Lent
      <4> QED
        BY <2>0, <4>1, <4>2, <4>3 DEF Inv, Calls
    <3>3. CASE ~(w.m.running /\ w.m.recvQ # <<>>)
      <4>1. pc' = "check" /\ UNCHANGED <<w, taken, master>>
        BY <2>12, <3>3 DEF TakeReceived
      <4> QED
        BY <2>0, <3>1, <4>1 DEF Inv, Calls, Lent
    <3> QED
      BY <3>2, <3>3
  <2>13. CASE CompleteReceived
    <3>1. taken \in Slots /\ taken # NoSlot /\ Lent = With({}, taken)
      BY <2>0, <2>13, <2>a DEF CompleteReceived, Lent, With
    <3>2. Good(w', {})
      <4>1. PICK s : s = taken
        OBVIOUS
      <4>2. s \in Slots \ {} /\ Good(w, With({}, s)) /\ w' = Answer(w, s)
        BY <2>0, <2>13, <3>1, <4>1 DEF CompleteReceived
      <4> QED
        BY <4>2, AnswerSound
    <3>3. Lent' = {} /\ pc' = "drain" /\ taken' = NoSlot /\ master' = master
      BY <2>13 DEF CompleteReceived, Lent
    <3> QED
      BY <2>0, <3>2, <3>3 DEF Inv, Calls
  <2>c. ASSUME Good(w', Lent), UNCHANGED <<taken, master>>, pc # "complete",
               pc' \in Calls \ {"complete"}
        PROVE  Inv'
    BY <2>0, <2>a, <2>c DEF Inv, Lent
  <2>14. CASE CheckSm1
    <3>1. pc' \in Calls \ {"complete"} /\ pc # "complete"
      BY <2>14 DEF CheckSm1, Calls
    <3> QED
      BY <2>0, <2>14, <2>c, <3>1 DEF CheckSm1
  <2>15. CASE ServiceRead
    <3>1. Good(w', Lent)
      BY <2>0, <2>15, SendMailboxReadSound DEF ServiceRead, Good
    <3> QED
      BY <2>15, <2>c, <3>1 DEF ServiceRead, Calls
  <2>16. CASE ServiceRequest
    <3>1. Good(w', Lent)
      BY <2>0, <2>16, ServiceRepeatSound DEF ServiceRequest
    <3> QED
      BY <2>16, <2>c, <3>1 DEF ServiceRequest, Calls
  <2>17. CASE ServiceQueue
    <3>1. Good(w', Lent)
      BY <2>0, <2>17, ServiceSendSound DEF ServiceQueue
    <3> QED
      BY <2>17, <2>c, <3>1 DEF ServiceQueue, Calls
  <2>18. CASE PollEvents
    <3>1. Good(w', Lent)
      BY <2>0, <2>18, HandlingSound DEF PollEvents
    <3> QED
      BY <2>18, <2>c, <3>1 DEF PollEvents, Calls
  <2>19. CASE CaptureDiagnosticSnapshot
    <3>1. Good(w', Lent)
      BY <2>0, <2>19, ReadAlEventSound DEF CaptureDiagnosticSnapshot
    <3> QED
      BY <2>19, <2>c, <3>1 DEF CaptureDiagnosticSnapshot, Calls
  <2>20. CASE OnPdi
    <3>1. Good(w', Lent)
      BY <2>0, <2>20, HandlingSound DEF OnPdi
    <3> QED
      BY <2>0, <2>20, <2>b, <3>1 DEF OnPdi
  <2>21. CASE UNCHANGED vars
    BY <2>0, <2>21, <2>b DEF vars
  <2> QED
    BY <2>1, <2>2, <2>4, <2>5, <2>6, <2>7, <2>8, <2>10, <2>11, <2>12, <2>13, <2>14, <2>15,
       <2>16, <2>17, <2>18, <2>20, <2>21, <2>19 DEF Next, Poll
<1> QED
  BY <1>1, <1>2, PTL DEF Spec

\* Every member of the mailbox, of the ESC and of the master keeps its type; in
\* particular neither ring ever holds more than kMailboxQueueDepth frames.
THEOREM MailboxTypes == Spec => []TypeOK
<1>1. Inv => TypeOK
  <2> SUFFICES ASSUME Inv PROVE TypeOK
    OBVIOUS
  <2>1. Mailbox(w.m) /\ Esc(w.e)
    BY DEF Inv, Good, Sound
  <2>2. MailboxType(w.m)
    <3>1. 0..CounterMax = {n \in Nat : n <= CounterMax}
      BY MailboxAssumption DEF MailboxAssumption
    <3> QED
      BY <2>1, <3>1 DEF Mailbox, MailboxType
  <2>3. EscType(w.e)
    BY <2>1 DEF Esc, EscType
  <2> QED
    BY <2>2, <2>3 DEF Inv, TypeOK
<1> QED
  BY <1>1, MailboxInvariance, PTL

\* send_full_ and read_frame_ always speak of the same frame, and a frame is kept for
\* a repeat or was displaced by one, never both (ecat_mailbox.cpp:566-654).
THEOREM PointersAgree == Spec => []FramesAgree
<1>1. Inv => FramesAgree
  BY DEF Inv, Good, Sound, FullAgrees, OneKept, FramesAgree
<1> QED
  BY <1>1, MailboxInvariance, PTL

\* What Held lists, place by place.
LEMMA HeldPlaces ==
  ASSUME NEW a \in Slots \cup {NoSlot}, NEW b \in Slots \cup {NoSlot},
         NEW c \in Slots \cup {NoSlot}, NEW d \in Slots \cup {NoSlot},
         NEW p \in Seq(Slots), NEW q \in Seq(Slots), NEW h, h = <<a, b, c, d>> \o p \o q
  PROVE  /\ Len(p) \in Nat /\ Len(q) \in Nat
         /\ DOMAIN p = 1..Len(p) /\ DOMAIN q = 1..Len(q)
         /\ DOMAIN h = 1..4 + Len(p) + Len(q)
         /\ h[1] = a /\ h[2] = b /\ h[3] = c /\ h[4] = d
         /\ \A i \in 1..Len(p) : h[4 + i] = p[i]
         /\ \A i \in 1..Len(q) : h[4 + Len(p) + i] = q[i]
<1> DEFINE T == Slots \cup {NoSlot}
<1>1. PICK f : f = <<a, b, c, d>>
  OBVIOUS
<1>2. f \in Seq(T) /\ Len(f) = 4 /\ f[1] = a /\ f[2] = b /\ f[3] = c /\ f[4] = d
  BY <1>1
<1>3. p \in Seq(T) /\ q \in Seq(T) /\ Len(p) \in Nat /\ Len(q) \in Nat
  BY LenProperties
<1>4. PICK g : g = f \o p
  OBVIOUS
<1> HIDE DEF T
<1>5. /\ g \in Seq(T) /\ Len(g) = 4 + Len(p)
      /\ \A i \in 1..4 + Len(p) : g[i] = IF i <= 4 THEN f[i] ELSE p[i - 4]
  <2>1. f \in Seq(T) /\ p \in Seq(T)
    BY <1>2, <1>3
  <2>2. /\ g \in Seq(T) /\ Len(g) = Len(f) + Len(p)
        /\ \A i \in 1..Len(f) + Len(p) : g[i] = IF i <= Len(f) THEN f[i] ELSE p[i - Len(f)]
    BY <1>4, <2>1, ConcatProperties
  <2>3. Len(f) = 4
    BY <1>2
  <2> QED
    BY <2>2, <2>3
<1>6. /\ h \in Seq(T) /\ Len(h) = 4 + Len(p) + Len(q)
      /\ \A i \in 1..4 + Len(p) + Len(q) :
           h[i] = IF i <= 4 + Len(p) THEN g[i] ELSE q[i - (4 + Len(p))]
  <2>1. h = g \o q
    BY <1>1, <1>4
  <2> QED
    BY <1>3, <1>5, <2>1, ConcatProperties
<1>7. h[1] = a /\ h[2] = b /\ h[3] = c /\ h[4] = d
  BY <1>2, <1>3, <1>5, <1>6
<1>8. \A i \in 1..Len(p) : h[4 + i] = p[i]
  <2> TAKE i \in 1..Len(p)
  <2>1. /\ 4 + i \in 1..4 + Len(p) /\ 4 + i \in 1..4 + Len(p) + Len(q)
        /\ ~(4 + i <= 4) /\ 4 + i <= 4 + Len(p) /\ (4 + i) - 4 = i
    BY <1>3
  <2> QED
    BY <1>5, <1>6, <2>1
<1>9. \A i \in 1..Len(q) : h[4 + Len(p) + i] = q[i]
  <2> TAKE i \in 1..Len(q)
  <2>1. /\ 4 + Len(p) + i \in 1..4 + Len(p) + Len(q)
        /\ ~(4 + Len(p) + i <= 4 + Len(p)) /\ (4 + Len(p) + i) - (4 + Len(p)) = i
    BY <1>3
  <2> QED
    BY <1>6, <2>1
<1>10. DOMAIN h = 1..4 + Len(p) + Len(q) /\ DOMAIN p = 1..Len(p) /\ DOMAIN q = 1..Len(q)
  BY <1>6, LenProperties
<1> QED
  BY <1>3, <1>7, <1>8, <1>9, <1>10

\* A slot has one owner while it is taken and none while it is free: nothing leaks, is
\* freed twice or used after it was freed, whatever retries, repeats, resets of the
\* ESC and interrupts come between the calls of Poll (ecat_mailbox.cpp:84-704).
THEOREM NoSlotIsShared == Spec => []SlotsHaveOneOwner
<1>1. Inv => SlotsHaveOneOwner
  <2> SUFFICES ASSUME Inv PROVE SlotsHaveOneOwner
    OBVIOUS
  <2>1. PICK m : m = w.m
    OBVIOUS
  <2>2. PICK p : p = m.sendQ
    OBVIOUS
  <2>3. PICK q : q = m.recvQ
    OBVIOUS
  <2>4. PICK h : h = Held
    OBVIOUS
  <2>5. Mailbox(m) /\ Apart(m, Lent) /\ Complete(m, Lent) /\ taken \in Slots \cup {NoSlot}
    BY <2>1 DEF Inv, Good, Sound
  <2>6. /\ m.read \in Slots \cup {NoSlot} /\ m.repeat \in Slots \cup {NoSlot}
        /\ m.store \in Slots \cup {NoSlot} /\ p \in Seq(Slots) /\ q \in Seq(Slots)
    BY <2>2, <2>3, <2>5 DEF Mailbox
  <2>7. h = <<m.read, m.repeat, m.store, taken>> \o p \o q
    BY <2>1, <2>2, <2>3, <2>4 DEF Held
  <2>8. /\ Len(p) \in Nat /\ Len(q) \in Nat
        /\ DOMAIN p = 1..Len(p) /\ DOMAIN q = 1..Len(q)
        /\ DOMAIN h = 1..4 + Len(p) + Len(q)
        /\ h[1] = m.read /\ h[2] = m.repeat /\ h[3] = m.store /\ h[4] = taken
        /\ \A i \in 1..Len(p) : h[4 + i] = p[i]
        /\ \A i \in 1..Len(q) : h[4 + Len(p) + i] = q[i]
    BY <2>5, <2>6, <2>7, HeldPlaces
  \* Every place of Held is one of six.
  <2>9. \A i \in DOMAIN h : \/ i \in {1, 2, 3, 4}
                            \/ \E k \in DOMAIN p : i = 4 + k /\ h[i] = p[k]
                            \/ \E k \in DOMAIN q : i = 4 + Len(p) + k /\ h[i] = q[k]
    <3> TAKE i \in DOMAIN h
    <3>1. CASE i <= 4
      BY <2>8, <3>1
    <3>2. CASE i > 4 /\ i <= 4 + Len(p)
      <4>1. i - 4 \in 1..Len(p) /\ i = 4 + (i - 4)
        BY <2>8, <3>2
      <4>2. i - 4 \in DOMAIN p /\ h[4 + (i - 4)] = p[i - 4]
        BY <2>8, <4>1
      <4> QED
        BY <4>1, <4>2
    <3>3. CASE i > 4 + Len(p)
      <4>1. i - (4 + Len(p)) \in 1..Len(q) /\ i = 4 + Len(p) + (i - (4 + Len(p)))
        BY <2>8, <3>3
      <4>2. /\ i - (4 + Len(p)) \in DOMAIN q
            /\ h[4 + Len(p) + (i - (4 + Len(p)))] = q[i - (4 + Len(p))]
        BY <2>8, <4>1
      <4> QED
        BY <4>1, <4>2
    <3> QED
      BY <2>8, <3>1, <3>2, <3>3
  <2>10. \A k \in DOMAIN p : 4 + k \in DOMAIN h /\ h[4 + k] = p[k]
    BY <2>8
  <2>11. \A k \in DOMAIN q : 4 + Len(p) + k \in DOMAIN h /\ h[4 + Len(p) + k] = q[k]
    BY <2>8
  <2>12. {1, 2, 3, 4} \subseteq DOMAIN h
    BY <2>8
  <2>13. {h[i] : i \in DOMAIN h} = {m.read, m.repeat, m.store, taken} \cup Elems(p) \cup Elems(q)
    <3>1. \A i \in DOMAIN h :
            h[i] \in {m.read, m.repeat, m.store, taken} \cup Elems(p) \cup Elems(q)
      <4> TAKE i \in DOMAIN h
      <4>1. CASE i \in {1, 2, 3, 4}
        BY <2>8, <4>1
      <4>2. CASE \E k \in DOMAIN p : i = 4 + k /\ h[i] = p[k]
        BY <4>2 DEF Elems
      <4>3. CASE \E k \in DOMAIN q : i = 4 + Len(p) + k /\ h[i] = q[k]
        BY <4>3 DEF Elems
      <4> QED
        BY <2>9, <4>1, <4>2, <4>3
    <3>2. \A x \in {m.read, m.repeat, m.store, taken} : \E i \in DOMAIN h : h[i] = x
      BY <2>8, <2>12
    <3>3. \A x \in Elems(p) : \E i \in DOMAIN h : h[i] = x
      BY <2>10 DEF Elems
    <3>4. \A x \in Elems(q) : \E i \in DOMAIN h : h[i] = x
      BY <2>11 DEF Elems
    <3> QED
      BY <3>1, <3>2, <3>3, <3>4
  <2>14. NoSlot \notin Elems(p) /\ NoSlot \notin Elems(q)
    BY <2>6, NoSlotIsNone, ElemsType
  <2>15. {h[i] : i \in DOMAIN h} \ {NoSlot} = m.pool
    BY <2>2, <2>3, <2>5, <2>13, <2>14 DEF Complete, Lent
  <2>16. /\ Distinct(p) /\ Distinct(q) /\ Elems(p) \cap Elems(q) = {}
         /\ \A x \in {m.read, m.repeat, m.store, taken} \ {NoSlot} : x \notin Elems(p) \cup Elems(q)
    BY <2>2, <2>3, <2>5 DEF Apart, Lent
  <2>17. \A i, j \in {1, 2, 3, 4} : h[i] = h[j] /\ h[i] # NoSlot => i = j
    BY <2>5, <2>8 DEF Apart, Lent
  <2>18. \A i \in {1, 2, 3, 4} : h[i] # NoSlot => h[i] \notin Elems(p) \cup Elems(q)
    BY <2>8, <2>16
  <2>19. \A k \in DOMAIN p : p[k] \in Elems(p)
    BY DEF Elems
  <2>20. \A k \in DOMAIN q : q[k] \in Elems(q)
    BY DEF Elems
  <2>21. \A i, j \in DOMAIN h : h[i] = h[j] /\ h[i] # NoSlot => i = j
    <3> SUFFICES ASSUME NEW i \in DOMAIN h, NEW j \in DOMAIN h, h[i] = h[j], h[i] # NoSlot
                 PROVE  i = j
      OBVIOUS
    <3>1. CASE i \in {1, 2, 3, 4}
      BY <2>9, <2>17, <2>18, <2>19, <2>20, <3>1
    <3>2. CASE \E k \in DOMAIN p : i = 4 + k /\ h[i] = p[k]
      <4>1. PICK k \in DOMAIN p : i = 4 + k /\ h[i] = p[k]
        BY <3>2
      <4>2. \E l \in DOMAIN p : j = 4 + l /\ h[j] = p[l]
        BY <2>9, <2>16, <2>18, <2>19, <2>20, <4>1
      <4>3. PICK l \in DOMAIN p : j = 4 + l /\ h[j] = p[l]
        BY <4>2
      <4> QED
        BY <2>16, <4>1, <4>3 DEF Distinct
    <3>3. CASE \E k \in DOMAIN q : i = 4 + Len(p) + k /\ h[i] = q[k]
      <4>1. PICK k \in DOMAIN q : i = 4 + Len(p) + k /\ h[i] = q[k]
        BY <3>3
      <4>2. \E l \in DOMAIN q : j = 4 + Len(p) + l /\ h[j] = q[l]
        BY <2>9, <2>16, <2>18, <2>19, <2>20, <4>1
      <4>3. PICK l \in DOMAIN q : j = 4 + Len(p) + l /\ h[j] = q[l]
        BY <4>2
      <4> QED
        BY <2>16, <4>1, <4>3 DEF Distinct
    <3> QED
      BY <2>9, <3>1, <3>2, <3>3
  <2> QED
    BY <2>1, <2>4, <2>15, <2>21 DEF SlotsHaveOneOwner
<1> QED
  BY <1>1, MailboxInvariance, PTL

\* A queue has no more frames than places.
LEMMA ElemsCount ==
  ASSUME NEW q \in Seq(Slots)
  PROVE  /\ IsFiniteSet(Elems(q)) /\ Cardinality(Elems(q)) \in Nat
         /\ Cardinality(Elems(q)) <= Len(q)
<1>1. Len(q) \in Nat /\ DOMAIN q = 1..Len(q) /\ q \in [1..Len(q) -> Slots]
  BY LenProperties
<1>2. IsFiniteSet(Slots)
  BY FS_Interval, MailboxAssumption DEF Slots, MailboxAssumption
<1>3. IsFiniteSet(Elems(q)) /\ Cardinality(Elems(q)) \in Nat
  BY <1>2, ElemsType, FS_Subset, FS_CardinalityType
<1>4. q \in Surjection(1..Len(q), Elems(q))
  BY <1>1 DEF Surjection, Elems
<1>5. ExistsSurjection(1..Len(q), Elems(q))
  BY <1>4 DEF ExistsSurjection
<1> QED
  BY <1>1, <1>3, <1>5, FS_SurjCardinalityBound

\* The pool is large enough for any depth of the queues: SM1, one frame kept back, the
\* thread and both rings never hold all slots, so that Acquire finds one
\* (kMailboxBufferCount, ecat_limits.hpp:30).
THEOREM PoolSuffices == Spec => []PoolNeverExhausted
<1>1. Inv => PoolNeverExhausted
  <2> SUFFICES ASSUME Inv PROVE PoolNeverExhausted
    OBVIOUS
  <2>1. PICK m : m = w.m
    OBVIOUS
  <2>2. Mailbox(m) /\ Complete(m, Lent) /\ OneKept(m)
    BY <2>1 DEF Inv, Good, Sound
  <2>3. PICK a : a = Elems(m.sendQ)
    OBVIOUS
  <2>4. PICK b : b = Elems(m.recvQ)
    OBVIOUS
  <2>5. /\ IsFiniteSet(a) /\ Cardinality(a) \in Nat /\ Cardinality(a) <= QueueDepth
        /\ IsFiniteSet(b) /\ Cardinality(b) \in Nat /\ Cardinality(b) <= QueueDepth
    <3>1. /\ m.sendQ \in Seq(Slots) /\ Len(m.sendQ) \in Nat /\ Len(m.sendQ) <= QueueDepth
          /\ m.recvQ \in Seq(Slots) /\ Len(m.recvQ) \in Nat /\ Len(m.recvQ) <= QueueDepth
      BY <2>2, LenProperties DEF Mailbox
    <3>2. /\ IsFiniteSet(a) /\ Cardinality(a) \in Nat /\ Cardinality(a) <= Len(m.sendQ)
      BY <2>3, <3>1, ElemsCount
    <3>3. /\ IsFiniteSet(b) /\ Cardinality(b) \in Nat /\ Cardinality(b) <= Len(m.recvQ)
      BY <2>4, <3>1, ElemsCount
    <3> QED
      BY <3>1, <3>2, <3>3, MailboxAssumption DEF MailboxAssumption
  <2>6. PICK k : k = IF m.repeat = NoSlot THEN m.store ELSE m.repeat
    OBVIOUS
  <2>7. PICK c : c = ({m.read} \cup {k}) \cup {taken}
    OBVIOUS
  <2>8. IsFiniteSet(c) /\ Cardinality(c) \in Nat /\ Cardinality(c) <= 3
    <3>1. IsFiniteSet({m.read}) /\ Cardinality({m.read}) = 1
      BY FS_Singleton
    <3>2. IsFiniteSet({m.read} \cup {k}) /\ Cardinality({m.read} \cup {k}) \in 1..2
      BY <3>1, FS_AddElement
    <3>3. PICK h : h = {m.read} \cup {k}
      OBVIOUS
    <3>4. IsFiniteSet(h) /\ Cardinality(h) \in 1..2
      BY <3>2, <3>3
    <3>5. c = h \cup {taken}
      BY <2>7, <3>3
    <3> QED
      BY <3>4, <3>5, FS_AddElement
  <2>9. m.pool \subseteq c \cup (a \cup b)
    BY <2>2, <2>3, <2>4, <2>6, <2>7 DEF Complete, Lent, OneKept
  <2>10. /\ IsFiniteSet(a \cup b) /\ Cardinality(a \cup b) \in Nat
         /\ Cardinality(a \cup b) <= 2 * QueueDepth
    <3>1. IsFiniteSet(a \cap b) /\ Cardinality(a \cap b) \in Nat
      BY <2>5, FS_Subset, FS_CardinalityType
    <3>2. IsFiniteSet(a \cup b) /\ Cardinality(a \cup b) \in Nat
          /\ Cardinality(a \cup b) = Cardinality(a) + Cardinality(b) - Cardinality(a \cap b)
      BY <2>5, FS_Union, FS_CardinalityType
    <3> QED
      BY <2>5, <3>1, <3>2, MailboxAssumption DEF MailboxAssumption
  <2>11. PICK d : d = a \cup b
    OBVIOUS
  <2>12. /\ IsFiniteSet(c \cup d) /\ Cardinality(c \cup d) \in Nat
         /\ Cardinality(c \cup d) <= 3 + 2 * QueueDepth
    <3>1. /\ IsFiniteSet(d) /\ Cardinality(d) \in Nat /\ Cardinality(d) <= 2 * QueueDepth
      BY <2>10, <2>11
    <3>2. IsFiniteSet(c \cap d) /\ Cardinality(c \cap d) \in Nat
      BY <2>8, FS_Subset, FS_CardinalityType
    <3>3. IsFiniteSet(c \cup d) /\ Cardinality(c \cup d) \in Nat
          /\ Cardinality(c \cup d) = Cardinality(c) + Cardinality(d) - Cardinality(c \cap d)
      BY <2>8, <3>1, FS_Union, FS_CardinalityType
    <3> QED
      BY <2>8, <3>1, <3>2, <3>3, MailboxAssumption DEF MailboxAssumption
  <2>13. Cardinality(Slots) = 4 + 2 * QueueDepth
    BY FS_Interval, MailboxAssumption DEF Slots, MailboxAssumption
  <2>14. ASSUME m.pool = Slots PROVE FALSE
    <3>1. Cardinality(Slots) <= Cardinality(c \cup d)
      BY <2>9, <2>11, <2>12, <2>14, FS_Subset
    <3> QED
      BY <2>12, <2>13, <3>1, MailboxAssumption DEF MailboxAssumption
  <2> QED
    BY <2>1, <2>14 DEF PoolNeverExhausted
<1> QED
  BY <1>1, MailboxInvariance, PTL

===============================================================================

------------------------------ MODULE UartProofs ------------------------------
(***************************************************************************)
(* Proofs about Uart: the type invariant and the three safety properties   *)
(* of the run MCUart, for every driver, every room in rx_bip_ and every    *)
(* number of faults and outstanding events.  Only FrameInFlightIntact      *)
(* needs a restriction, one sender.                                        *)
(*                                                                         *)
(* What the events that are still outstanding will do is what makes these  *)
(* properties hold or not, so the invariant speaks of the members and of   *)
(* the queue of the driver together.                                       *)
(***************************************************************************)
EXTENDS Uart, SequenceTheorems, TLAPS

-------------------------------------------------------------------------------
(* The inductive invariant.                                                *)

\* The events that are outstanding.
Has(q, kind)    == \E i \in 1..Len(q) : q[i][1] = kind
Single(q, kind) == \A i, j \in 1..Len(q) : q[i][1] = kind /\ q[j][1] = kind => i = j

MemberType ==
  [ready : BOOLEAN, restart : BOOLEAN, busy : BOOLEAN, free : [Bufs -> BOOLEAN],
   tx : Frames, rx : Seq(Lines)]

DriverType ==
  [rx : {"off", "on", "stopping"}, dma : Seq(Bufs), ev : Seq(Events),
   tx : Frames \cup {NoFrame}, line : Lines, prompt : Drivers, faults : 0..MaxFaults]

OwnerPcs ==
  {"idle", "stop", "clear", "restore", "reset", "configure", "arm", "enable", "mark", "ready",
   "line"}

OwnerType == [pc : OwnerPcs, op : OwnerOps \cup {"none"}, halted : BOOLEAN]

SenderType == [pc : {"idle", "copy", "mark", "submit", "undo"}, frame : Frames]

\* The driver holds buffers while it receives, and owes one RX_DISABLED while
\* it stops.
Driver(d) ==
  /\ d \in DriverType
  /\ Len(d.dma) <= 2 /\ (d.dma # <<>> <=> d.rx = "on")
  /\ Has(d.ev, "disabled") <=> d.rx = "stopping"
  /\ Single(d.ev, "disabled")

Types ==
  /\ u \in MemberType /\ Len(u.rx) <= Capacity
  /\ Driver(drv)
  /\ own \in OwnerType
  /\ snd \in [Senders -> SenderType]

\* The steps between the two changes of restart_on_disabled_.
NoRestart == own.pc \in {"stop", "clear", "restore", "reset", "configure", "arm"}

\* Which steps belong to which operation; the automatic restart is off in
\* Reconfigure until the new line setting is there.
Phases ==
  /\ own.pc = "idle" => own.op = "none"
  /\ own.pc \in {"stop", "clear"} => own.op \in {"stop", "reconfigure"}
  /\ own.pc \in {"restore", "reset", "configure", "arm"} => own.op = "reconfigure"
  /\ own.pc = "line" => own.op = "line"
  /\ u.restart <=> ~(own.op = "reconfigure" /\ NoRestart)

ReadyAgain ==
  drv.rx = "on" /\ ~u.ready => own.halted \/ own.pc \in {"mark", "ready"}

Inv == Types /\ Phases /\ LineChangesAtRest /\ ReadyAgain

\* There is one thread that sends.
OneSender == \A t1, t2 \in Senders : t1 = t2

\* The frame is with the hardware, or its UART_TX_DONE is outstanding.
Sending == drv.tx # NoFrame \/ Has(drv.ev, "done")

\* A sender at work has the buffer for itself, and tx_busy_ is set from before
\* uart_tx until UART_TX_DONE.
Exclusive ==
  /\ drv.tx # NoFrame => u.tx = drv.tx /\ ~Has(drv.ev, "done")
  /\ Single(drv.ev, "done")
  /\ Sending => u.busy
  /\ \A t \in Senders :
       /\ snd[t].pc # "idle" => ~Sending
       /\ snd[t].pc \in {"submit", "undo"} => u.busy

-------------------------------------------------------------------------------
(* Sequences of events.                                                    *)

Request      == <<"request">>
Disabled     == <<"disabled">>
Done         == <<"done">>
Rdy(line)    == <<"rdy", line>>
Released(b)  == <<"released", b>>
AllOf(dma)   == [i \in 1..Len(dma) |-> <<"released", dma[i]>>]

LEMMA EventTypes ==
  /\ Request \in Events /\ Disabled \in Events /\ Done \in Events
  /\ Request[1] = "request" /\ Disabled[1] = "disabled" /\ Done[1] = "done"
  /\ \A l \in Lines : Rdy(l) \in Events /\ Rdy(l)[1] = "rdy" /\ Rdy(l)[2] = l
  /\ \A b \in Bufs : Released(b) \in Events /\ Released(b)[1] = "released"
BY DEF Events, Request, Disabled, Done, Rdy, Released

\* What an event carries.
LEMMA EventCarries ==
  ASSUME NEW e \in Events
  PROVE  /\ e[1] = "rdy" => e[2] \in Lines
         /\ e[1] = "released" => e[2] \in Bufs
BY DEF Events

LEMMA OneEvent ==
  ASSUME NEW e \in Events, NEW q, q = <<e>>
  PROVE  /\ q \in Seq(Events)
         /\ \A k : (Has(q, k) <=> e[1] = k) /\ Single(q, k)
<1>1. q \in Seq(Events) /\ Len(q) = 1 /\ q[1] = e
  OBVIOUS
<1>2. 1..Len(q) = {1}
  BY <1>1
<1> QED
  BY <1>1, <1>2 DEF Has, Single

LEMMA NoEvent ==
  ASSUME NEW q, q = << >>
  PROVE  /\ q \in Seq(Events)
         /\ \A k : ~Has(q, k) /\ Single(q, k)
<1>1. q \in Seq(Events) /\ Len(q) = 0 /\ 1..Len(q) = {}
  OBVIOUS
<1> QED
  BY <1>1 DEF Has, Single

\* Events are outstanding in two queues one after the other.
LEMMA ConcatEvents ==
  ASSUME NEW q \in Seq(Events), NEW r \in Seq(Events), NEW s, s = q \o r
  PROVE  /\ s \in Seq(Events)
         /\ \A k : Has(s, k) <=> Has(q, k) \/ Has(r, k)
         /\ \A k : Single(q, k) /\ Single(r, k) /\ ~(Has(q, k) /\ Has(r, k)) => Single(s, k)
<1> DEFINE m == Len(q)
           n == Len(r)
<1>1. /\ m \in Nat /\ n \in Nat /\ s \in Seq(Events) /\ Len(s) = m + n
      /\ \A i \in 1..Len(s) : s[i] = IF i <= m THEN q[i] ELSE r[i - m]
  BY ConcatProperties, LenProperties
<1>2. \A i \in 1..m : i \in 1..Len(s) /\ s[i] = q[i]
  BY <1>1
<1>3. \A i \in 1..n : m + i \in 1..Len(s) /\ s[m + i] = r[i]
  BY <1>1
<1>4. \A i \in 1..Len(s) :
        \/ i \in 1..m /\ s[i] = q[i]
        \/ i - m \in 1..n /\ s[i] = r[i - m]
  BY <1>1
<1>5. ASSUME NEW k PROVE Has(s, k) <=> Has(q, k) \/ Has(r, k)
  <2>1. ASSUME Has(s, k) PROVE Has(q, k) \/ Has(r, k)
    BY <1>4, <2>1 DEF Has
  <2>2. ASSUME Has(q, k) PROVE Has(s, k)
    BY <1>2, <2>2 DEF Has
  <2>3. ASSUME Has(r, k) PROVE Has(s, k)
    <3>1. PICK i \in 1..n : r[i][1] = k
      BY <2>3 DEF Has
    <3>2. m + i \in 1..Len(s) /\ s[m + i][1] = k
      BY <1>3, <3>1
    <3> QED
      BY <3>2 DEF Has
  <2> QED
    BY <2>1, <2>2, <2>3
<1>6. ASSUME NEW k, Single(q, k), Single(r, k), ~(Has(q, k) /\ Has(r, k))
      PROVE  Single(s, k)
  <2> SUFFICES ASSUME NEW i \in 1..Len(s), NEW j \in 1..Len(s), s[i][1] = k, s[j][1] = k
               PROVE  i = j
    BY DEF Single
  <2>1. CASE i \in 1..m /\ j \in 1..m
    BY <1>2, <1>6, <2>1 DEF Single
  <2>2. CASE i - m \in 1..n /\ j - m \in 1..n
    <3>1. r[i - m][1] = k /\ r[j - m][1] = k
      BY <1>1, <2>2
    <3>2. i - m = j - m
      BY <1>6, <2>2, <3>1 DEF Single
    <3> QED
      BY <1>1, <3>2
  <2>3. CASE i \in 1..m /\ j - m \in 1..n
    BY <1>1, <1>6, <2>3 DEF Has
  <2>4. CASE i - m \in 1..n /\ j \in 1..m
    BY <1>1, <1>6, <2>4 DEF Has
  <2> QED
    BY <1>4, <2>1, <2>2, <2>3, <2>4
<1> QED
  BY <1>1, <1>5, <1>6

\* One more event.
LEMMA AppendEvent ==
  ASSUME NEW q \in Seq(Events), NEW e \in Events, NEW s, s = Append(q, e)
  PROVE  /\ s \in Seq(Events)
         /\ \A k : Has(s, k) <=> Has(q, k) \/ e[1] = k
         /\ \A k : Single(q, k) /\ ~(Has(q, k) /\ e[1] = k) => Single(s, k)
<1>1. PICK r : r = <<e>>
  OBVIOUS
<1>2. s = q \o r
  BY <1>1, AppendIsConcat
<1>3. /\ r \in Seq(Events)
      /\ \A k : (Has(r, k) <=> e[1] = k) /\ Single(r, k)
  BY <1>1, OneEvent
<1> QED
  BY <1>2, <1>3, ConcatEvents

\* The first event is raised.
LEMMA PopEvent ==
  ASSUME NEW q, NEW s, NEW e, q \in Seq(Events) /\ q # << >> /\ s = Tail(q) /\ e = Head(q)
  PROVE  /\ s \in Seq(Events) /\ e \in Events
         /\ \A k : Has(q, k) <=> Has(s, k) \/ e[1] = k
         /\ \A k : Single(q, k) => Single(s, k) /\ ~(Has(s, k) /\ e[1] = k)
<1>1. /\ s \in Seq(Events) /\ e \in Events /\ e = q[1] /\ Len(q) \in Nat /\ Len(q) >= 1
      /\ Len(s) = Len(q) - 1
      /\ \A i \in 1..Len(s) : s[i] = q[i + 1]
  BY HeadTailProperties, LenProperties, EmptySeq
<1>2. \A i \in 1..Len(s) : i + 1 \in 1..Len(q) /\ i + 1 # 1 /\ s[i] = q[i + 1]
  BY <1>1
<1>3. 1 \in 1..Len(q)
  BY <1>1
<1>4. \A i \in 1..Len(q) : i = 1 \/ (i - 1 \in 1..Len(s) /\ s[i - 1] = q[i])
  BY <1>1
<1>5. ASSUME NEW k PROVE Has(q, k) <=> Has(s, k) \/ e[1] = k
  <2>1. ASSUME Has(q, k) PROVE Has(s, k) \/ e[1] = k
    BY <1>1, <1>4, <2>1 DEF Has
  <2>2. ASSUME Has(s, k) PROVE Has(q, k)
    <3>1. PICK i \in 1..Len(s) : s[i][1] = k
      BY <2>2 DEF Has
    <3> QED
      BY <1>2, <3>1 DEF Has
  <2> QED
    BY <1>1, <1>3, <2>1, <2>2 DEF Has
<1>6. ASSUME NEW k, Single(q, k) PROVE Single(s, k) /\ ~(Has(s, k) /\ e[1] = k)
  <2>1. Single(s, k)
    <3> SUFFICES ASSUME NEW i \in 1..Len(s), NEW j \in 1..Len(s), s[i][1] = k, s[j][1] = k
                 PROVE  i = j
      BY DEF Single
    <3>1. i + 1 = j + 1
      BY <1>2, <1>6 DEF Single
    <3> QED
      BY <3>1
  <2>2. ASSUME Has(s, k), e[1] = k PROVE FALSE
    <3>1. PICK i \in 1..Len(s) : s[i][1] = k
      BY <2>2 DEF Has
    <3> QED
      BY <1>1, <1>2, <1>3, <1>6, <2>2, <3>1 DEF Single
  <2> QED
    BY <2>1, <2>2
<1> QED
  BY <1>1, <1>5, <1>6

\* The buffers come back.
LEMMA AllReleased ==
  ASSUME NEW dma \in Seq(Bufs), NEW r, r = AllOf(dma)
  PROVE  /\ r \in Seq(Events)
         /\ \A k : k # "released" => ~Has(r, k) /\ Single(r, k)
<1>1. Len(dma) \in Nat /\ \A i \in 1..Len(dma) : dma[i] \in Bufs
  BY LenProperties, ElementOfSeq
<1>2. \A i \in 1..Len(dma) : r[i] = Released(dma[i])
  BY DEF AllOf, Released
<1>3. r \in Seq(Events)
  BY <1>1, <1>2, EventTypes, IsASeq DEF AllOf, Released
<1>4. Len(r) = Len(dma)
  BY <1>1 DEF AllOf
<1>5. \A i \in 1..Len(r) : r[i][1] = "released"
  BY <1>1, <1>2, <1>4, EventTypes
<1> QED
  BY <1>3, <1>5 DEF Has, Single

-------------------------------------------------------------------------------
(* The driver.                                                             *)

\* What the receive side of the driver leaves alone.
SameTx(d, e) ==
  /\ e.tx = d.tx /\ e.line = d.line /\ e.prompt = d.prompt
  /\ Has(e.ev, "done") <=> Has(d.ev, "done")
  /\ Single(d.ev, "done") => Single(e.ev, "done")

LEMMA SameTxTrans ==
  ASSUME NEW d, NEW e, NEW f, SameTx(d, e), SameTx(e, f)
  PROVE  SameTx(d, f)
BY DEF SameTx

\* A refused call counts as a fault and changes nothing else.
LEMMA FaultSound ==
  ASSUME NEW d, Driver(d), NEW r \in Faults(d)
  PROVE  /\ ~r.ok /\ Driver(r.d) /\ SameTx(d, r.d)
         /\ r.d.rx = d.rx /\ r.d.ev = d.ev /\ r.d.dma = d.dma
<1>1. d.faults < MaxFaults /\ r = [ok |-> FALSE, d |-> [d EXCEPT !.faults = @ + 1]]
  BY DEF Faults
<1>2. PICK e : e = [d EXCEPT !.faults = @ + 1]
  OBVIOUS
<1>3. d.faults \in 0..MaxFaults /\ d \in DriverType
  BY DEF Driver, DriverType
<1>4. e \in DriverType
  <2>1. d.faults + 1 \in 0..MaxFaults
    BY <1>1, <1>3, UartAssumption DEF UartAssumption
  <2> QED
    BY <1>2, <1>3, <2>1 DEF DriverType
<1>5. /\ e.rx = d.rx /\ e.dma = d.dma /\ e.ev = d.ev /\ e.tx = d.tx /\ e.line = d.line
      /\ e.prompt = d.prompt
  BY <1>2, <1>3 DEF DriverType
<1> QED
  BY <1>1, <1>2, <1>4, <1>5 DEF Driver, SameTx

\* uart_rx_enable succeeds only when reception is off.
LEMMA EnableSound ==
  ASSUME NEW d, Driver(d), NEW b \in Bufs, NEW r \in EnableRx(d, b)
  PROVE  /\ Driver(r.d) /\ SameTx(d, r.d) /\ r.ok \in BOOLEAN
         /\ r.ok => d.rx = "off" /\ r.d.rx = "on"
         /\ ~r.ok => r.d.rx = d.rx /\ r.d.ev = d.ev
<1>1. CASE d.rx # "off"
  <2>1. r = [ok |-> FALSE, d |-> d]
    BY <1>1 DEF EnableRx
  <2>2. r.d = d /\ r.ok = FALSE
    BY <2>1
  <2> QED
    BY <2>2 DEF SameTx
<1>2. CASE d.rx = "off"
  <2>1. PICK q : q = Append(d.ev, Request)
    OBVIOUS
  <2>2. PICK p : p = <<b>>
    OBVIOUS
  <2>3. PICK e : e = [d EXCEPT !.rx = "on", !.dma = p, !.ev = q]
    OBVIOUS
  <2>4. r \in {[ok |-> TRUE, d |-> e]} \cup Faults(d)
    BY <1>2, <2>1, <2>2, <2>3 DEF EnableRx, Request
  <2>5. CASE r \in Faults(d)
    <3>1. /\ ~r.ok /\ r.ok \in BOOLEAN /\ Driver(r.d) /\ SameTx(d, r.d)
          /\ r.d.rx = d.rx /\ r.d.ev = d.ev
      <4>1. r.ok = FALSE
        BY <2>5 DEF Faults
      <4> QED
        BY <2>5, <4>1, FaultSound
    <3> QED
      BY <3>1
  <2>6. CASE r = [ok |-> TRUE, d |-> e]
    <3>1. d \in DriverType /\ d.ev \in Seq(Events)
      BY DEF Driver, DriverType
    <3>2. /\ q \in Seq(Events)
          /\ \A k : k # "request" => (Has(q, k) <=> Has(d.ev, k))
          /\ \A k : k # "request" /\ Single(d.ev, k) => Single(q, k)
      <4>1. PICK z : z = d.ev
        OBVIOUS
      <4>2. PICK rq : rq = Request
        OBVIOUS
      <4>3. z \in Seq(Events) /\ rq \in Events /\ rq[1] = "request" /\ q = Append(z, rq)
        BY <2>1, <3>1, <4>1, <4>2, EventTypes
      <4>4. /\ q \in Seq(Events)
            /\ \A k : Has(q, k) <=> Has(z, k) \/ rq[1] = k
            /\ \A k : Single(z, k) /\ ~(Has(z, k) /\ rq[1] = k) => Single(q, k)
        BY <4>3, AppendEvent
      <4>5. \A k : k # "request" => rq[1] # k
        BY <4>3
      <4>6. \A k : k # "request" => (Has(q, k) <=> Has(z, k))
        BY <4>4, <4>5
      <4>7. \A k : k # "request" /\ Single(z, k) => Single(q, k)
        BY <4>4, <4>5
      <4> QED
        BY <4>1, <4>4, <4>6, <4>7
    <3>3. p \in Seq(Bufs) /\ Len(p) = 1 /\ p # << >>
      BY <2>2
    <3>4. e \in DriverType
      BY <2>3, <3>1, <3>2, <3>3 DEF DriverType
    <3>5. /\ e.rx = "on" /\ e.dma = p /\ e.ev = q /\ e.tx = d.tx /\ e.line = d.line
          /\ e.prompt = d.prompt
      BY <2>3, <3>1 DEF DriverType
    <3>6. Driver(e)
      <4>1. ~Has(d.ev, "disabled") /\ Single(d.ev, "disabled")
        BY <1>2 DEF Driver
      <4>2. ~Has(q, "disabled") /\ Single(q, "disabled")
        BY <3>2, <4>1
      <4>3. ~Has(e.ev, "disabled") /\ Single(e.ev, "disabled") /\ e.rx = "on"
        BY <3>5, <4>2
      <4>4. e.dma = p
        BY <3>5
      <4>5. Len(p) <= 2
        BY <3>3
      <4>6. Len(e.dma) <= 2
        BY <4>4, <4>5
      <4>7. e.dma # << >>
        BY <3>3, <4>4
      <4> QED
        BY <3>4, <4>3, <4>6, <4>7 DEF Driver
    <3>7. SameTx(d, e)
      BY <3>2, <3>5 DEF SameTx
    <3> QED
      BY <1>2, <2>6, <3>2, <3>5, <3>6, <3>7
  <2> QED
    BY <2>4, <2>5, <2>6
<1> QED
  BY <1>1, <1>2

\* Data that has been received is one UART_RX_RDY.
LEMMA DataSound ==
  ASSUME NEW d, Driver(d), NEW q, q = Data(d)
  PROVE  /\ q \in Seq(Events)
         /\ \A k : k # "rdy" => ~Has(q, k) /\ Single(q, k)
<1>1. d.line \in Lines
  BY DEF Driver, DriverType
<1>2. q = <<Rdy(d.line)>>
  BY DEF Data, Rdy
<1>3. Rdy(d.line) \in Events /\ Rdy(d.line)[1] = "rdy"
  BY <1>1, EventTypes
<1> QED
  BY <1>2, <1>3, OneEvent

\* Reception ends: one RX_DISABLED is outstanding.
LEMMA ShutdownSound ==
  ASSUME NEW d, Driver(d), d.rx = "on", NEW first \in {<< >>, Data(d)},
         NEW e, e = Shutdown(d, first)
  PROVE  /\ Driver(e) /\ SameTx(d, e) /\ e.rx = "stopping"
<1>1. d \in DriverType /\ d.ev \in Seq(Events) /\ d.dma \in Seq(Bufs)
  BY DEF Driver, DriverType
<1>2. PICK a : a = d.ev \o first
  OBVIOUS
<1>3. PICK p : p = AllOf(d.dma)
  OBVIOUS
<1>4. PICK b : b = a \o p
  OBVIOUS
<1>5. PICK one : one = <<Disabled>>
  OBVIOUS
<1>6. PICK c : c = b \o one
  OBVIOUS
<1>7. PICK none : none \in Seq(Bufs) /\ none = << >> /\ Len(none) = 0
  BY EmptySeq
<1>8. e = [d EXCEPT !.rx = "stopping", !.dma = none, !.ev = c]
  BY <1>2, <1>3, <1>4, <1>5, <1>6, <1>7 DEF Shutdown, AllOf, Disabled
<1>9. /\ first \in Seq(Events)
      /\ \A k : k # "rdy" => ~Has(first, k) /\ Single(first, k)
  BY DataSound, NoEvent
<1>10. /\ a \in Seq(Events)
       /\ \A k : k # "rdy" => (Has(a, k) <=> Has(d.ev, k))
       /\ \A k : k # "rdy" /\ Single(d.ev, k) => Single(a, k)
  <2>1. PICK q : q = d.ev
    OBVIOUS
  <2>2. PICK f : f = first
    OBVIOUS
  <2>3. q \in Seq(Events) /\ f \in Seq(Events) /\ a = q \o f
    BY <1>1, <1>2, <1>9, <2>1, <2>2
  <2>4. /\ a \in Seq(Events)
        /\ \A k : Has(a, k) <=> Has(q, k) \/ Has(f, k)
        /\ \A k : Single(q, k) /\ Single(f, k) /\ ~(Has(q, k) /\ Has(f, k)) => Single(a, k)
    BY <2>3, ConcatEvents
  <2> QED
    BY <1>9, <2>1, <2>2, <2>4
<1>11. /\ p \in Seq(Events)
       /\ \A k : k # "released" => ~Has(p, k) /\ Single(p, k)
  BY <1>1, <1>3, AllReleased
<1>12. /\ b \in Seq(Events)
       /\ \A k : k # "released" => (Has(b, k) <=> Has(a, k))
       /\ \A k : k # "released" /\ Single(a, k) => Single(b, k)
  BY <1>4, <1>10, <1>11, ConcatEvents
<1>13. /\ one \in Seq(Events)
       /\ \A k : (Has(one, k) <=> k = "disabled") /\ Single(one, k)
  BY <1>5, OneEvent, EventTypes
<1>14. /\ c \in Seq(Events)
       /\ \A k : Has(c, k) <=> Has(b, k) \/ k = "disabled"
       /\ \A k : Single(b, k) /\ (k = "disabled" => ~Has(b, k)) => Single(c, k)
  BY <1>6, <1>12, <1>13, ConcatEvents
<1>15. ~Has(d.ev, "disabled") /\ Single(d.ev, "disabled")
  BY DEF Driver
<1>16. Has(c, "disabled") /\ Single(c, "disabled")
  BY <1>10, <1>12, <1>14, <1>15
<1>17. /\ Has(c, "done") <=> Has(d.ev, "done")
       /\ Single(d.ev, "done") => Single(c, "done")
  BY <1>10, <1>12, <1>14
<1>18. e \in DriverType
  BY <1>1, <1>7, <1>8, <1>14 DEF DriverType
<1>19. /\ e.rx = "stopping" /\ e.dma = none /\ e.ev = c /\ e.tx = d.tx /\ e.line = d.line
       /\ e.prompt = d.prompt
  BY <1>1, <1>8 DEF DriverType
<1>20. Driver(e)
  BY <1>7, <1>16, <1>18, <1>19 DEF Driver
<1>21. SameTx(d, e)
  BY <1>17, <1>19 DEF SameTx
<1> QED
  BY <1>10, <1>12, <1>14, <1>19, <1>20, <1>21

\* uart_rx_disable succeeds only when reception is on, and then it stops.
LEMMA DisableSound ==
  ASSUME NEW d, Driver(d), NEW r \in DisableRx(d)
  PROVE  /\ Driver(r.d) /\ SameTx(d, r.d) /\ r.ok \in BOOLEAN
         /\ r.ok => d.rx = "on" /\ r.d.rx = "stopping"
         /\ ~r.ok => r.d = d /\ d.rx # "on"
<1>1. CASE d.rx # "on"
  <2>1. r = [ok |-> FALSE, d |-> d]
    BY <1>1 DEF DisableRx
  <2>2. r.d = d /\ r.ok = FALSE
    BY <2>1
  <2> QED
    BY <1>1, <2>2 DEF SameTx
<1>2. CASE d.rx = "on"
  <2>1. PICK first \in {<< >>, Data(d)} : r = [ok |-> TRUE, d |-> Shutdown(d, first)]
    BY <1>2 DEF DisableRx
  <2> QED
    BY <1>2, <2>1, ShutdownSound
<1> QED
  BY <1>1, <1>2

-------------------------------------------------------------------------------
(* The hardware and the callback.                                          *)

\* What a step beside the threads must do to keep the invariant.
LEMMA InterruptKeeps ==
  ASSUME Inv, own' = own, snd' = snd,
         u' \in MemberType, Len(u'.rx) <= Capacity, Driver(drv'), u'.restart = u.restart,
         drv'.line = drv.line, drv'.prompt = drv.prompt,
         drv'.rx = "on" => drv.rx = "on" \/ u.restart,
         drv'.rx = "on" /\ ~u'.ready => drv.rx = "on" /\ ~u.ready
  PROVE  Inv'
<1>1. Types'
  BY DEF Inv, Types
<1>2. Phases'
  BY DEF Inv, Phases, NoRestart
<1>3. LineChangesAtRest'
  BY DEF Inv, Phases, LineChangesAtRest, NoRestart
<1>4. ReadyAgain'
  BY DEF Inv, ReadyAgain
<1> QED
  BY <1>1, <1>2, <1>3, <1>4 DEF Inv

\* A step that leaves the sending side alone.
LEMMA ExclusiveKept ==
  ASSUME Exclusive, u'.tx = u.tx, u'.busy = u.busy, snd' = snd, drv'.tx = drv.tx,
         Has(drv'.ev, "done") <=> Has(drv.ev, "done"),
         Single(drv.ev, "done") => Single(drv'.ev, "done")
  PROVE  Exclusive'
BY DEF Exclusive, Sending

\* What the invariant says of the driver.
LEMMA DriverFacts ==
  ASSUME Inv
  PROVE  /\ Driver(drv) /\ drv \in DriverType
         /\ drv.ev \in Seq(Events) /\ drv.dma \in Seq(Bufs) /\ drv.line \in Lines
         /\ Len(drv.dma) <= 2 /\ (drv.dma # << >> <=> drv.rx = "on")
         /\ Has(drv.ev, "disabled") <=> drv.rx = "stopping"
         /\ Single(drv.ev, "disabled")
BY DEF Inv, Types, Driver, DriverType

\* And of the members.
LEMMA MemberFacts ==
  ASSUME Inv
  PROVE  /\ u \in MemberType /\ u.rx \in Seq(Lines) /\ Len(u.rx) <= Capacity
         /\ u.free \in [Bufs -> BOOLEAN] /\ u.ready \in BOOLEAN /\ u.restart \in BOOLEAN
         /\ u.busy \in BOOLEAN /\ u.tx \in Frames
BY DEF Inv, Types, MemberType

\* A step of the hardware that adds to the queue while it receives.
LEMMA HardwareKeeps ==
  ASSUME Inv, own' = own, snd' = snd, u' = u, Driver(drv'), SameTx(drv, drv'),
         drv.rx = "on"
  PROVE  Inv' /\ (Exclusive => Exclusive')
<1>1. u' \in MemberType /\ Len(u'.rx) <= Capacity /\ u'.restart = u.restart /\ u'.rx = u.rx
      /\ u'.ready = u.ready /\ u'.tx = u.tx /\ u'.busy = u.busy
  BY MemberFacts
<1>2. /\ drv'.line = drv.line /\ drv'.prompt = drv.prompt /\ drv'.tx = drv.tx
      /\ Has(drv'.ev, "done") <=> Has(drv.ev, "done")
      /\ Single(drv.ev, "done") => Single(drv'.ev, "done")
  BY DEF SameTx
<1>3. Inv'
  BY <1>1, <1>2, InterruptKeeps
<1>4. Exclusive => Exclusive'
  BY <1>1, <1>2, ExclusiveKept
<1> QED
  BY <1>3, <1>4

LEMMA ReceiveKeeps ==
  ASSUME Inv, Receive
  PROVE  Inv' /\ (Exclusive => Exclusive')
<1>1. PICK d : d = drv
  OBVIOUS
<1>2. PICK e : e = drv'
  OBVIOUS
<1>3. PICK f : f = Data(d)
  OBVIOUS
<1>4. PICK z : z = d.ev
  OBVIOUS
<1>5. PICK q : q = z \o f
  OBVIOUS
<1>6. PICK p : p = d.dma
  OBVIOUS
<1>7. /\ drv.rx = "on" /\ u' = u /\ own' = own /\ snd' = snd
      /\ drv' = [drv EXCEPT !.ev = @ \o Data(drv)]
  BY DEF Receive, HardwareRuns
<1>8. /\ Driver(d) /\ d \in DriverType /\ z \in Seq(Events) /\ p \in Seq(Bufs) /\ Len(p) <= 2
      /\ p # << >> <=> d.rx = "on"
      /\ Has(z, "disabled") <=> Has(d.ev, "disabled")
      /\ Single(z, "disabled")
  BY <1>1, <1>4, <1>6, DriverFacts
<1>9. e = [d EXCEPT !.ev = q, !.dma = p]
  BY <1>1, <1>2, <1>3, <1>4, <1>5, <1>6, <1>7, <1>8 DEF DriverType
<1>10. /\ f \in Seq(Events)
       /\ \A k : k # "rdy" => ~Has(f, k) /\ Single(f, k)
  BY <1>3, <1>8, DataSound
<1>11. /\ q \in Seq(Events)
       /\ \A k : Has(q, k) <=> Has(z, k) \/ Has(f, k)
       /\ \A k : Single(z, k) /\ Single(f, k) /\ ~(Has(z, k) /\ Has(f, k)) => Single(q, k)
  BY <1>5, <1>8, <1>10, ConcatEvents
<1>12. /\ Has(q, "disabled") <=> Has(d.ev, "disabled")
       /\ Single(q, "disabled")
       /\ Has(q, "done") <=> Has(z, "done")
       /\ Single(z, "done") => Single(q, "done")
  BY <1>8, <1>10, <1>11
<1>13. /\ Driver(e) /\ e.rx = d.rx /\ e.tx = d.tx /\ e.line = d.line
       /\ e.prompt = d.prompt /\ e.ev = q /\ e.dma = p
  <2>1. e \in DriverType
    BY <1>8, <1>9, <1>11 DEF DriverType
  <2>2. /\ e.rx = d.rx /\ e.tx = d.tx /\ e.line = d.line
        /\ e.prompt = d.prompt /\ e.ev = q /\ e.dma = p
    BY <1>8, <1>9 DEF DriverType
  <2>3. Has(d.ev, "disabled") <=> d.rx = "stopping"
    BY <1>8 DEF Driver
  <2> QED
    BY <1>8, <1>12, <2>1, <2>2, <2>3 DEF Driver
<1>14. SameTx(d, e)
  BY <1>4, <1>12, <1>13 DEF SameTx
<1>15. Driver(drv') /\ SameTx(drv, drv')
  BY <1>1, <1>2, <1>4, <1>12, <1>13, <1>14
<1> QED
  BY <1>7, <1>15, HardwareKeeps

\* The hardware stops by itself.
LEMMA StopsKeeps ==
  ASSUME Inv, drv.rx = "on", NEW first \in {<< >>, Data(drv)}, drv' = Shutdown(drv, first),
         UNCHANGED <<u, own, snd>>
  PROVE  Inv' /\ (Exclusive => Exclusive')
<1>1. PICK d : d = drv
  OBVIOUS
<1>2. PICK e : e = drv'
  OBVIOUS
<1>3. Driver(d) /\ d.rx = "on" /\ first \in {<< >>, Data(d)} /\ e = Shutdown(d, first)
  BY <1>1, <1>2, DriverFacts
<1>4. /\ Driver(e) /\ SameTx(d, e) /\ e.rx = "stopping"
  BY <1>3, ShutdownSound
<1>5. Driver(drv') /\ SameTx(drv, drv')
  BY <1>1, <1>2, <1>4
<1> QED
  BY <1>5, HardwareKeeps

LEMMA LineErrorKeeps ==
  ASSUME Inv, LineError
  PROVE  Inv' /\ (Exclusive => Exclusive')
<1>1. /\ drv.rx = "on" /\ drv' = Shutdown(drv, << >>) /\ UNCHANGED <<u, own, snd>>
  BY DEF LineError, HardwareRuns
<1> QED
  BY <1>1, StopsKeeps

LEMMA BufferFullKeeps ==
  ASSUME Inv, BufferFull
  PROVE  Inv' /\ (Exclusive => Exclusive')
<1>1. drv.rx = "on" /\ u' = u /\ own' = own /\ snd' = snd
  BY DEF BufferFull, HardwareRuns
<1>2. CASE Len(drv.dma) # 2
  <2>1. drv' = Shutdown(drv, Data(drv))
    BY <1>2 DEF BufferFull
  <2> QED
    BY <1>1, <2>1, StopsKeeps
<1>3. CASE Len(drv.dma) = 2
  <2>1. PICK d : d = drv
    OBVIOUS
  <2>2. PICK e : e = drv'
    OBVIOUS
  <2>3. PICK f : f = Data(d)
    OBVIOUS
  <2>4. PICK z : z = d.ev
    OBVIOUS
  <2>5. PICK p : p = d.dma
    OBVIOUS
  <2>6. PICK r : r = Tail(p)
    OBVIOUS
  <2>7. PICK g : g = <<Released(p[1]), Request>>
    OBVIOUS
  <2>8. PICK a : a = z \o f
    OBVIOUS
  <2>9. PICK q : q = a \o g
    OBVIOUS
  <2>10. /\ Driver(d) /\ d \in DriverType /\ z \in Seq(Events) /\ p \in Seq(Bufs) /\ Len(p) = 2
         /\ d.rx = "on" /\ ~Has(z, "disabled") /\ Single(z, "disabled")
    BY <1>1, <1>3, <2>1, <2>4, <2>5, DriverFacts
  <2>11. e = [d EXCEPT !.dma = r, !.ev = q]
    <3>1. drv' = [drv EXCEPT !.dma = Tail(@),
                    !.ev = @ \o Data(drv) \o << <<"released", drv.dma[1]>>, <<"request">> >>]
      BY <1>3 DEF BufferFull
    <3>2. /\ Tail(drv.dma) = r
          /\ << <<"released", drv.dma[1]>>, <<"request">> >> = g
      BY <2>1, <2>5, <2>6, <2>7 DEF Released, Request
    <3>3. drv.ev \o Data(drv) = a
      BY <2>1, <2>3, <2>4, <2>8
    <3>4. e = [d EXCEPT !.dma = Tail(drv.dma), !.ev = drv.ev \o Data(drv) \o
                 << <<"released", drv.dma[1]>>, <<"request">> >>]
      BY <2>1, <2>2, <2>10, <3>1 DEF DriverType
    <3> QED
      BY <2>9, <3>2, <3>3, <3>4
  <2>12. p[1] \in Bufs /\ r \in Seq(Bufs) /\ Len(r) = 1 /\ r # << >>
    <3>1. p # << >> /\ p[1] \in Bufs
      <4>1. 1 \in 1..Len(p)
        BY <2>10
      <4>2. p[1] \in Bufs
        BY <2>10, <4>1, ElementOfSeq
      <4>3. p # << >>
        BY <2>10, EmptySeq
      <4> QED
        BY <4>2, <4>3
    <3>2. r \in Seq(Bufs) /\ Len(r) = 1
      BY <2>6, <2>10, <3>1, HeadTailProperties
    <3>3. r # << >>
      BY <3>2, EmptySeq
    <3> QED
      BY <3>1, <3>2, <3>3
  <2>13. /\ f \in Seq(Events)
         /\ \A k : k # "rdy" => ~Has(f, k) /\ Single(f, k)
    BY <2>3, <2>10, DataSound
  <2>14. /\ g \in Seq(Events)
         /\ \A k : k \in {"disabled", "done"} => ~Has(g, k) /\ Single(g, k)
    <3>1. /\ Released(p[1]) \in Events /\ Released(p[1])[1] = "released"
          /\ Request \in Events /\ Request[1] = "request"
      BY <2>12, EventTypes
    <3>2. g \in Seq(Events) /\ Len(g) = 2 /\ g[1] = Released(p[1]) /\ g[2] = Request
      BY <2>7, <3>1
    <3>3. \A i \in 1..Len(g) : g[i][1] \in {"released", "request"}
      <4>1. g[1][1] = "released" /\ g[2][1] = "request"
        BY <3>1, <3>2
      <4>2. 1..Len(g) = {1, 2}
        BY <3>2
      <4> QED
        BY <4>1, <4>2
    <3>5. \A k : k \in {"disabled", "done"} => ~Has(g, k) /\ Single(g, k)
      BY <3>3 DEF Has, Single
    <3> QED
      BY <3>2, <3>5
  <2>15. /\ a \in Seq(Events)
         /\ \A k : Has(a, k) <=> Has(z, k) \/ Has(f, k)
         /\ \A k : Single(z, k) /\ Single(f, k) /\ ~(Has(z, k) /\ Has(f, k)) => Single(a, k)
    BY <2>8, <2>10, <2>13, ConcatEvents
  <2>16. /\ q \in Seq(Events)
         /\ \A k : Has(q, k) <=> Has(a, k) \/ Has(g, k)
         /\ \A k : Single(a, k) /\ Single(g, k) /\ ~(Has(a, k) /\ Has(g, k)) => Single(q, k)
    BY <2>9, <2>14, <2>15, ConcatEvents
  <2>18. ~Has(q, "disabled") /\ Single(q, "disabled")
    BY <2>10, <2>13, <2>14, <2>15, <2>16
  <2>19. /\ Has(q, "done") <=> Has(z, "done")
         /\ Single(z, "done") => Single(q, "done")
    BY <2>13, <2>14, <2>15, <2>16
  <2>20. e \in DriverType
    BY <2>10, <2>11, <2>12, <2>16 DEF DriverType
  <2>21. /\ e.rx = "on" /\ e.tx = d.tx /\ e.line = d.line
         /\ e.prompt = d.prompt /\ e.ev = q /\ e.dma = r
    BY <2>10, <2>11 DEF DriverType
  <2>22. Driver(e)
    <3>1. e.dma = r
      BY <2>21
    <3>2. Len(r) <= 2
      BY <2>12
    <3>3. Len(e.dma) <= 2
      BY <3>1, <3>2
    <3>4. e.dma # << >>
      BY <2>12, <3>1
    <3> QED
      BY <2>18, <2>20, <2>21, <3>3, <3>4 DEF Driver
  <2>23. SameTx(d, e)
    BY <2>4, <2>19, <2>21 DEF SameTx
  <2>24. Driver(drv') /\ SameTx(drv, drv')
    BY <2>1, <2>2, <2>4, <2>21, <2>22, <2>23
  <2> QED
    BY <1>1, <2>24, HardwareKeeps
<1> QED
  BY <1>2, <1>3

\* The frame is out: its event is outstanding instead.
LEMMA TxFinishKeeps ==
  ASSUME Inv, TxFinish
  PROVE  Inv' /\ (Exclusive => Exclusive')
<1>1. PICK d : d = drv
  OBVIOUS
<1>2. PICK e : e = drv'
  OBVIOUS
<1>3. PICK z : z = d.ev
  OBVIOUS
<1>4. PICK x : x = Done
  OBVIOUS
<1>5. PICK q : q = Append(z, x)
  OBVIOUS
<1>6. /\ drv.tx # NoFrame /\ u' = u /\ own' = own /\ snd' = snd
      /\ drv' = [drv EXCEPT !.tx = NoFrame, !.ev = Append(@, <<"done">>)]
  BY DEF TxFinish
<1>7. Driver(d) /\ d \in DriverType /\ z \in Seq(Events)
  BY <1>1, <1>3, DriverFacts
<1>8. e = [d EXCEPT !.tx = NoFrame, !.ev = q]
  BY <1>1, <1>2, <1>3, <1>4, <1>5, <1>6, <1>7 DEF DriverType, Done
<1>9. x \in Events /\ x[1] = "done"
  BY <1>4, EventTypes
<1>10. /\ q \in Seq(Events)
       /\ \A k : Has(q, k) <=> Has(z, k) \/ x[1] = k
       /\ \A k : Single(z, k) /\ ~(Has(z, k) /\ x[1] = k) => Single(q, k)
  BY <1>5, <1>7, <1>9, AppendEvent
<1>11. /\ \A k : k # "done" => (Has(q, k) <=> Has(z, k))
       /\ \A k : k # "done" /\ Single(z, k) => Single(q, k)
       /\ Single(z, "done") /\ ~Has(z, "done") => Single(q, "done")
  BY <1>9, <1>10
<1>12. e \in DriverType
  BY <1>7, <1>8, <1>10 DEF DriverType, NoFrame
<1>13. /\ e.rx = d.rx /\ e.tx = NoFrame /\ e.line = d.line
       /\ e.prompt = d.prompt /\ e.ev = q /\ e.dma = d.dma
  BY <1>7, <1>8 DEF DriverType
<1>14. Driver(e)
  <2>1. /\ Len(e.dma) <= 2 /\ (e.dma # << >> <=> e.rx = "on")
        /\ Has(e.ev, "disabled") <=> e.rx = "stopping"
        /\ Single(e.ev, "disabled")
    BY <1>3, <1>7, <1>11, <1>13 DEF Driver
  <2> QED
    BY <1>12, <2>1 DEF Driver
<1>15. /\ Driver(drv') /\ drv'.rx = drv.rx /\ drv'.line = drv.line /\ drv'.prompt = drv.prompt
       /\ drv'.tx = NoFrame
       /\ Single(drv.ev, "done") /\ ~Has(drv.ev, "done") => Single(drv'.ev, "done")
  BY <1>1, <1>2, <1>3, <1>11, <1>13, <1>14
<1>16. Inv'
  <2>1. u' \in MemberType /\ Len(u'.rx) <= Capacity /\ u'.restart = u.restart /\ u'.rx = u.rx
        /\ u'.ready = u.ready
    BY <1>6, MemberFacts
  <2> QED
    BY <1>6, <1>15, <2>1, InterruptKeeps
<1>17. ASSUME Exclusive PROVE Exclusive'
  <2>1. ~Has(drv.ev, "done") /\ Single(drv.ev, "done") /\ u.busy /\ \A t \in Senders : snd[t].pc = "idle"
    BY <1>6, <1>17 DEF Exclusive, Sending
  <2>2. Single(drv'.ev, "done") /\ u'.busy /\ \A t \in Senders : snd'[t].pc = "idle"
    BY <1>6, <1>15, <2>1
  <2> QED
    BY <1>15, <2>2 DEF Exclusive, Sending
<1> QED
  BY <1>16, <1>17

\* The driver after its first event has been raised.
LEMMA RaisedFacts ==
  ASSUME Inv, NEW kind, Raised(kind), NEW e, e = Popped
  PROVE  /\ own' = own /\ snd' = snd /\ Has(drv.ev, kind)
         /\ Head(drv.ev) \in Events /\ Head(drv.ev)[1] = kind
         /\ e \in DriverType /\ e.rx = drv.rx /\ e.dma = drv.dma /\ e.tx = drv.tx
         /\ e.line = drv.line /\ e.prompt = drv.prompt
         /\ e.ev \in Seq(Events)
         /\ \A k : Has(drv.ev, k) <=> Has(e.ev, k) \/ kind = k
         /\ \A k : Single(drv.ev, k) => Single(e.ev, k) /\ ~(Has(e.ev, k) /\ kind = k)
<1>1. PICK q : q = drv.ev
  OBVIOUS
<1>2. PICK s : s = Tail(q)
  OBVIOUS
<1>3. PICK h : h = Head(q)
  OBVIOUS
<1>4. q # << >> /\ h[1] = kind /\ own' = own /\ snd' = snd
  BY <1>1, <1>3 DEF Raised
<1>5. drv \in DriverType /\ q \in Seq(Events) /\ q # << >> /\ s = Tail(q) /\ h = Head(q)
  BY <1>1, <1>2, <1>3, <1>4, DriverFacts
<1>6. /\ s \in Seq(Events) /\ h \in Events
      /\ \A k : Has(q, k) <=> Has(s, k) \/ h[1] = k
      /\ \A k : Single(q, k) => Single(s, k) /\ ~(Has(s, k) /\ h[1] = k)
  BY <1>5, PopEvent
<1>7. e = [drv EXCEPT !.ev = s]
  BY <1>1, <1>2, <1>5 DEF Popped, DriverType
<1>8. e \in DriverType
  BY <1>5, <1>6, <1>7 DEF DriverType
<1>9. /\ e.rx = drv.rx /\ e.dma = drv.dma /\ e.tx = drv.tx /\ e.line = drv.line
      /\ e.prompt = drv.prompt /\ e.ev = s
  BY <1>5, <1>7 DEF DriverType
<1>10. Has(q, kind)
  BY <1>4, <1>6
<1>11. /\ \A k : Has(q, k) <=> Has(s, k) \/ kind = k
       /\ \A k : Single(q, k) => Single(s, k) /\ ~(Has(s, k) /\ kind = k)
  BY <1>4, <1>6
<1> QED
  BY <1>1, <1>3, <1>4, <1>6, <1>8, <1>9, <1>10, <1>11

\* An event that is neither RX_DISABLED nor TX_DONE leaves the driver sound.
LEMMA RaisedSound ==
  ASSUME Inv, NEW kind, Raised(kind), kind # "disabled", NEW e, e = Popped
  PROVE  /\ Driver(e) /\ e.rx = drv.rx /\ e.line = drv.line /\ e.prompt = drv.prompt
         /\ kind # "done" => SameTx(drv, e)
<1>1. /\ e \in DriverType /\ e.rx = drv.rx /\ e.dma = drv.dma /\ e.tx = drv.tx
      /\ e.line = drv.line /\ e.prompt = drv.prompt
      /\ \A k : Has(drv.ev, k) <=> Has(e.ev, k) \/ kind = k
      /\ \A k : Single(drv.ev, k) => Single(e.ev, k)
  BY RaisedFacts
<1>2. /\ Has(drv.ev, "disabled") <=> Has(e.ev, "disabled")
      /\ Single(drv.ev, "disabled") => Single(e.ev, "disabled")
  BY <1>1
<1>3. /\ Len(e.dma) <= 2 /\ (e.dma # << >> <=> e.rx = "on")
  BY <1>1, DriverFacts
<1>4. (Has(e.ev, "disabled") <=> e.rx = "stopping") /\ Single(e.ev, "disabled")
  <2>1. (Has(drv.ev, "disabled") <=> drv.rx = "stopping") /\ Single(drv.ev, "disabled")
    BY DriverFacts
  <2> QED
    BY <1>1, <1>2, <2>1
<1>5. Driver(e)
  BY <1>1, <1>3, <1>4 DEF Driver
<1>6. ASSUME kind # "done" PROVE SameTx(drv, e)
  <2>1. /\ Has(drv.ev, "done") <=> Has(e.ev, "done")
        /\ Single(drv.ev, "done") => Single(e.ev, "done")
    BY <1>1, <1>6
  <2> QED
    BY <1>1, <2>1 DEF SameTx
<1> QED
  BY <1>1, <1>2, <1>5, <1>6

LEMMA OnRxRdyKeeps ==
  ASSUME Inv, OnRxRdy
  PROVE  Inv' /\ (Exclusive => Exclusive')
<1>1. PICK e : e = Popped
  OBVIOUS
<1>2. PICK piece : piece = Head(drv.ev)[2]
  OBVIOUS
<1>3. /\ Raised("rdy") /\ drv' = e
      /\ u' = IF RxCallback THEN u ELSE Store(u, piece)
  BY <1>1, <1>2 DEF OnRxRdy
<1>4. /\ own' = own /\ snd' = snd /\ Has(drv.ev, "rdy") /\ piece \in Lines
  <2>1. PICK h : h = Head(drv.ev)
    OBVIOUS
  <2>2. /\ own' = own /\ snd' = snd /\ Has(drv.ev, "rdy") /\ h \in Events /\ h[1] = "rdy"
    BY <1>1, <1>3, <2>1, RaisedFacts
  <2>3. h[2] \in Lines
    BY <2>2, EventCarries
  <2> QED
    BY <1>2, <2>1, <2>2, <2>3
<1>5. /\ Driver(drv') /\ drv'.rx = drv.rx /\ drv'.line = drv.line /\ drv'.prompt = drv.prompt
      /\ SameTx(drv, drv')
  BY <1>1, <1>3, RaisedSound
<1>6. /\ u' \in MemberType /\ Len(u'.rx) <= Capacity /\ u'.restart = u.restart
      /\ u'.ready = u.ready /\ u'.tx = u.tx /\ u'.busy = u.busy
      /\ u'.rx = u.rx \/ u'.rx = Append(u.rx, piece)
  <2>1. CASE u' = u
    BY <2>1, MemberFacts
  <2>2. CASE u' # u
    <3>1. PICK x : x = u.rx
      OBVIOUS
    <3>2. PICK y : y = Append(x, piece)
      OBVIOUS
    <3>3. x \in Seq(Lines) /\ u \in MemberType /\ Len(x) <= Capacity
      BY <3>1, MemberFacts
    <3>4. u' = [u EXCEPT !.rx = IF Len(x) < Capacity THEN y ELSE x]
      BY <1>3, <2>2, <3>1, <3>2, <3>3 DEF Store, MemberType
    <3>5. y \in Seq(Lines) /\ Len(y) = Len(x) + 1 /\ Len(x) \in Nat
      BY <1>4, <3>2, <3>3, AppendProperties, LenProperties
    <3>6. CASE Len(x) < Capacity
      <4>1. u' = [u EXCEPT !.rx = y]
        BY <3>4, <3>6
      <4>2. u' \in MemberType
        BY <3>3, <3>5, <4>1 DEF MemberType
      <4>3. /\ u'.restart = u.restart /\ u'.ready = u.ready /\ u'.tx = u.tx
            /\ u'.busy = u.busy /\ u'.rx = y
        BY <3>3, <4>1 DEF MemberType
      <4>4. Len(y) <= Capacity
        BY <3>5, <3>6, UartAssumption DEF UartAssumption
      <4> QED
        BY <3>1, <3>2, <4>2, <4>3, <4>4
    <3>7. CASE ~(Len(x) < Capacity)
      <4>1. u' = [u EXCEPT !.rx = x]
        BY <3>4, <3>7
      <4>2. u' = u
        BY <3>1, <3>3, <4>1 DEF MemberType
      <4> QED
        BY <2>2, <4>2
    <3> QED
      BY <3>6, <3>7
  <2> QED
    BY <2>1, <2>2
<1>7. Inv'
  BY <1>4, <1>5, <1>6, InterruptKeeps
<1>8. Exclusive => Exclusive'
  BY <1>4, <1>5, <1>6, ExclusiveKept DEF SameTx
<1> QED
  BY <1>7, <1>8

LEMMA OnBufReleasedKeeps ==
  ASSUME Inv, OnBufReleased
  PROVE  Inv' /\ (Exclusive => Exclusive')
<1>1. PICK e : e = Popped
  OBVIOUS
<1>2. PICK b : b = Head(drv.ev)[2]
  OBVIOUS
<1>3. Raised("released") /\ drv' = e /\ u' = [u EXCEPT !.free[b] = TRUE]
  BY <1>1, <1>2 DEF OnBufReleased
<1>4. own' = own /\ snd' = snd
  BY <1>1, <1>3, RaisedFacts
<1>5. /\ Driver(drv') /\ drv'.rx = drv.rx /\ drv'.line = drv.line /\ drv'.prompt = drv.prompt
      /\ SameTx(drv, drv')
  BY <1>1, <1>3, RaisedSound
<1>6. /\ u' \in MemberType /\ Len(u'.rx) <= Capacity /\ u'.restart = u.restart
      /\ u'.ready = u.ready /\ u'.tx = u.tx /\ u'.busy = u.busy /\ u'.rx = u.rx
  <2>1. PICK f : f = [u.free EXCEPT ![b] = TRUE]
    OBVIOUS
  <2>2. u' = [u EXCEPT !.free = f]
    BY <1>3, <2>1, MemberFacts DEF MemberType
  <2>3. f \in [Bufs -> BOOLEAN]
    BY <2>1, MemberFacts
  <2>4. u' \in MemberType
    BY <2>2, <2>3, MemberFacts DEF MemberType
  <2>5. /\ u'.restart = u.restart /\ u'.ready = u.ready /\ u'.tx = u.tx /\ u'.busy = u.busy
        /\ u'.rx = u.rx
    BY <2>2, MemberFacts DEF MemberType
  <2> QED
    BY <2>4, <2>5, MemberFacts
<1>7. Inv'
  BY <1>4, <1>5, <1>6, InterruptKeeps
<1>8. Exclusive => Exclusive'
  BY <1>4, <1>5, <1>6, ExclusiveKept DEF SameTx
<1> QED
  BY <1>7, <1>8

\* uart_rx_buf_rsp.
LEMMA BufRspSound ==
  ASSUME NEW d, Driver(d), NEW b \in Bufs, NEW e, e = BufRsp(d, b)
  PROVE  Driver(e) /\ e.rx = d.rx /\ e.ev = d.ev /\ SameTx(d, e)
<1>1. CASE ~(d.rx = "on" /\ Len(d.dma) = 1)
  <2>1. e = d
    BY <1>1 DEF BufRsp
  <2> QED
    BY <2>1 DEF SameTx
<1>2. CASE d.rx = "on" /\ Len(d.dma) = 1
  <2>1. PICK p : p = d.dma
    OBVIOUS
  <2>2. PICK q : q = Append(p, b)
    OBVIOUS
  <2>3. d \in DriverType /\ p \in Seq(Bufs) /\ Len(p) = 1
    BY <1>2, <2>1 DEF Driver, DriverType
  <2>4. e = [d EXCEPT !.dma = q]
    BY <1>2, <2>1, <2>2, <2>3 DEF BufRsp, DriverType
  <2>5. q \in Seq(Bufs) /\ Len(q) = 2
    <3>1. q \in Seq(Bufs) /\ Len(q) = Len(p) + 1
      BY <2>2, <2>3, AppendProperties
    <3> QED
      BY <2>3, <3>1
  <2>6. q # << >>
    <3>1. Len(<< >>) = 0
      BY EmptySeq
    <3>2. Len(q) # 0
      BY <2>5
    <3> QED
      BY <3>1, <3>2
  <2>7. e \in DriverType
    BY <2>3, <2>4, <2>5 DEF DriverType
  <2>8. /\ e.rx = d.rx /\ e.dma = q /\ e.ev = d.ev /\ e.tx = d.tx /\ e.line = d.line
        /\ e.prompt = d.prompt
    BY <2>3, <2>4 DEF DriverType
  <2>9. Len(e.dma) <= 2
    <3>1. Len(q) <= 2
      BY <2>5
    <3> QED
      BY <2>8, <3>1
  <2>10. e.dma # << >> /\ e.rx = "on" /\ d.rx = "on"
    BY <1>2, <2>6, <2>8
  <2>11. (Has(e.ev, "disabled") <=> e.rx = "stopping") /\ Single(e.ev, "disabled")
    BY <2>8 DEF Driver
  <2>12. Driver(e)
    BY <2>7, <2>9, <2>10, <2>11 DEF Driver
  <2> QED
    BY <2>8, <2>12 DEF SameTx
<1> QED
  BY <1>1, <1>2

LEMMA OnBufRequestKeeps ==
  ASSUME Inv, OnBufRequest
  PROVE  Inv' /\ (Exclusive => Exclusive')
<1>1. PICK e : e = Popped
  OBVIOUS
<1>2. PICK b \in Bufs :
        \/ drv' = e /\ u' = u
        \/ drv' = BufRsp(e, b) /\ u' = [u EXCEPT !.free[b] = FALSE]
  BY <1>1 DEF OnBufRequest, Bufs
<1>3. own' = own /\ snd' = snd /\ Raised("request")
  BY DEF OnBufRequest, Raised
<1>4. /\ Driver(e) /\ e.rx = drv.rx /\ e.line = drv.line /\ e.prompt = drv.prompt
      /\ SameTx(drv, e)
  BY <1>1, <1>3, RaisedSound
<1>5. /\ Driver(drv') /\ drv'.rx = drv.rx /\ drv'.line = drv.line /\ drv'.prompt = drv.prompt
      /\ SameTx(drv, drv')
  <2>1. CASE drv' = e
    BY <1>4, <2>1
  <2>2. CASE drv' = BufRsp(e, b)
    <3>1. PICK f : f = BufRsp(e, b)
      OBVIOUS
    <3>2. Driver(f) /\ f.rx = e.rx /\ f.ev = e.ev /\ SameTx(e, f)
      BY <1>4, <3>1, BufRspSound
    <3>3. f.line = e.line /\ f.prompt = e.prompt
      BY <3>2 DEF SameTx
    <3>4. SameTx(drv, f)
      BY <1>4, <3>2, SameTxTrans
    <3> QED
      BY <1>4, <2>2, <3>1, <3>2, <3>3, <3>4
  <2> QED
    BY <1>2, <2>1, <2>2
<1>6. /\ u' \in MemberType /\ Len(u'.rx) <= Capacity /\ u'.restart = u.restart
      /\ u'.ready = u.ready /\ u'.tx = u.tx /\ u'.busy = u.busy /\ u'.rx = u.rx
  <2>1. CASE u' = u
    BY <2>1, MemberFacts
  <2>2. CASE u' = [u EXCEPT !.free[b] = FALSE]
    <3>1. PICK f : f = [u.free EXCEPT ![b] = FALSE]
      OBVIOUS
    <3>2. u' = [u EXCEPT !.free = f]
      BY <2>2, <3>1, MemberFacts DEF MemberType
    <3>3. f \in [Bufs -> BOOLEAN]
      BY <3>1, MemberFacts
    <3>4. u' \in MemberType
      BY <3>2, <3>3, MemberFacts DEF MemberType
    <3>5. /\ u'.restart = u.restart /\ u'.ready = u.ready /\ u'.tx = u.tx /\ u'.busy = u.busy
          /\ u'.rx = u.rx
      BY <3>2, MemberFacts DEF MemberType
    <3> QED
      BY <3>4, <3>5, MemberFacts
  <2> QED
    BY <1>2, <2>1, <2>2
<1>7. Inv'
  BY <1>3, <1>5, <1>6, InterruptKeeps
<1>8. Exclusive => Exclusive'
  BY <1>3, <1>5, <1>6, ExclusiveKept DEF SameTx
<1> QED
  BY <1>7, <1>8

\* RX_DISABLED: reception is off, and the automatic restart is the only one that
\* starts it again.
LEMMA OnRxDisabledKeeps ==
  ASSUME Inv, OnRxDisabled
  PROVE  Inv' /\ (Exclusive => Exclusive')
<1>1. PICK e : e = Popped
  OBVIOUS
<1>2. PICK off : off = [e EXCEPT !.rx = "off"]
  OBVIOUS
<1>3. PICK v : v = [u EXCEPT !.free = [b \in Bufs |-> TRUE]]
  OBVIOUS
<1>4. /\ Raised("disabled")
      /\ \/ ~u.restart /\ u' = [v EXCEPT !.ready = FALSE] /\ drv' = off
         \/ /\ u.restart
            /\ \E r \in EnableRx(off, 0) : u' = [v EXCEPT !.ready = r.ok] /\ drv' = r.d
  BY <1>1, <1>2, <1>3 DEF OnRxDisabled
<1>5. /\ own' = own /\ snd' = snd /\ Has(drv.ev, "disabled")
      /\ e \in DriverType /\ e.rx = drv.rx /\ e.dma = drv.dma /\ e.tx = drv.tx
      /\ e.line = drv.line /\ e.prompt = drv.prompt
      /\ \A k : Has(drv.ev, k) <=> Has(e.ev, k) \/ "disabled" = k
      /\ \A k : Single(drv.ev, k) => Single(e.ev, k) /\ ~(Has(e.ev, k) /\ "disabled" = k)
  BY <1>1, <1>4, RaisedFacts
<1>6. /\ drv.rx = "stopping" /\ drv.dma = << >> /\ ~Has(e.ev, "disabled")
      /\ Single(e.ev, "disabled") /\ Len(drv.dma) <= 2
  <2>1. /\ Has(drv.ev, "disabled") <=> drv.rx = "stopping"
        /\ Single(drv.ev, "disabled") /\ Len(drv.dma) <= 2
        /\ drv.dma # << >> <=> drv.rx = "on"
    BY DriverFacts
  <2> QED
    BY <1>5, <2>1
<1>7. /\ off \in DriverType /\ off.rx = "off" /\ off.dma = << >> /\ off.ev = e.ev
      /\ off.tx = drv.tx /\ off.line = drv.line /\ off.prompt = drv.prompt
  <2>1. off \in DriverType
    BY <1>2, <1>5 DEF DriverType
  <2>2. /\ off.rx = "off" /\ off.dma = e.dma /\ off.ev = e.ev
        /\ off.tx = e.tx /\ off.line = e.line /\ off.prompt = e.prompt
    BY <1>2, <1>5 DEF DriverType
  <2> QED
    BY <1>5, <1>6, <2>1, <2>2
<1>8. Driver(off)
  <2>1. Len(off.dma) <= 2 /\ (off.dma # << >> <=> off.rx = "on")
    <3>1. off.dma = drv.dma
      BY <1>6, <1>7
    <3>2. Len(off.dma) <= 2
      BY <1>6, <3>1
    <3> QED
      BY <1>7, <3>2
  <2>2. (Has(off.ev, "disabled") <=> off.rx = "stopping") /\ Single(off.ev, "disabled")
    BY <1>6, <1>7
  <2> QED
    BY <1>7, <2>1, <2>2 DEF Driver
<1>9. SameTx(drv, off)
  <2>1. /\ Has(off.ev, "done") <=> Has(drv.ev, "done")
        /\ Single(drv.ev, "done") => Single(off.ev, "done")
    BY <1>5, <1>7
  <2> QED
    BY <1>7, <2>1 DEF SameTx
<1>11. PICK ok \in BOOLEAN :
        /\ u' = [v EXCEPT !.ready = ok]
        /\ Driver(drv') /\ SameTx(drv, drv')
        /\ drv'.rx = "on" => ok /\ u.restart
  <2>1. CASE ~u.restart /\ u' = [v EXCEPT !.ready = FALSE] /\ drv' = off
    BY <1>7, <1>8, <1>9, <2>1
  <2>2. CASE /\ u.restart
             /\ \E r \in EnableRx(off, 0) : u' = [v EXCEPT !.ready = r.ok] /\ drv' = r.d
    <3>1. PICK r \in EnableRx(off, 0) : u' = [v EXCEPT !.ready = r.ok] /\ drv' = r.d
      BY <2>2
    <3>2. 0 \in Bufs
      BY DEF Bufs
    <3>3. /\ Driver(r.d) /\ SameTx(off, r.d) /\ r.ok \in BOOLEAN
          /\ ~r.ok => r.d.rx = off.rx /\ r.d.ev = off.ev
      BY <1>8, <3>1, <3>2, EnableSound
    <3>4. SameTx(drv, r.d)
      BY <1>9, <3>3, SameTxTrans
    <3>6. r.d.rx = "on" => r.ok
      BY <1>7, <3>3
    <3> QED
      BY <2>2, <3>1, <3>3, <3>4, <3>6
  <2> QED
    BY <1>4, <2>1, <2>2
<1>12. /\ u' \in MemberType /\ Len(u'.rx) <= Capacity /\ u'.restart = u.restart
       /\ u'.ready = ok /\ u'.tx = u.tx /\ u'.busy = u.busy /\ u'.rx = u.rx
  <2>1. PICK f : f = [b \in Bufs |-> TRUE]
    OBVIOUS
  <2>2. f \in [Bufs -> BOOLEAN]
    BY <2>1
  <2>3. v = [u EXCEPT !.free = f]
    BY <1>3, <2>1
  <2>4. v \in MemberType
    BY <2>2, <2>3, MemberFacts DEF MemberType
  <2>5. v.restart = u.restart /\ v.tx = u.tx /\ v.busy = u.busy /\ v.rx = u.rx
    BY <2>3, MemberFacts DEF MemberType
  <2>6. u' \in MemberType
    BY <1>11, <2>4 DEF MemberType
  <2>7. /\ u'.restart = v.restart /\ u'.ready = ok /\ u'.tx = v.tx /\ u'.busy = v.busy
        /\ u'.rx = v.rx
    BY <1>11, <2>4 DEF MemberType
  <2> QED
    BY <2>5, <2>6, <2>7, MemberFacts
<1>13. Inv'
  <2>1. drv'.line = drv.line /\ drv'.prompt = drv.prompt
    BY <1>11 DEF SameTx
  <2> QED
    BY <1>5, <1>6, <1>11, <1>12, <2>1, InterruptKeeps
<1>14. Exclusive => Exclusive'
  BY <1>5, <1>11, <1>12, ExclusiveKept DEF SameTx
<1> QED
  BY <1>13, <1>14

\* TX_DONE clears tx_busy_, and nothing is being sent any more.
LEMMA OnTxDoneKeeps ==
  ASSUME Inv, OnTxDone
  PROVE  Inv' /\ (Exclusive => Exclusive')
<1>1. PICK e : e = Popped
  OBVIOUS
<1>2. Raised("done") /\ drv' = e /\ u' = [u EXCEPT !.busy = FALSE]
  BY <1>1 DEF OnTxDone
<1>3. /\ own' = own /\ snd' = snd /\ Has(drv.ev, "done") /\ e.tx = drv.tx
      /\ \A k : Single(drv.ev, k) => Single(e.ev, k) /\ ~(Has(e.ev, k) /\ "done" = k)
  BY <1>1, <1>2, RaisedFacts
<1>4. /\ Driver(drv') /\ drv'.rx = drv.rx /\ drv'.line = drv.line /\ drv'.prompt = drv.prompt
  BY <1>1, <1>2, RaisedSound
<1>5. /\ u' \in MemberType /\ Len(u'.rx) <= Capacity /\ u'.restart = u.restart
      /\ u'.ready = u.ready /\ u'.rx = u.rx
  BY <1>2, MemberFacts DEF MemberType
<1>6. Inv'
  BY <1>3, <1>4, <1>5, InterruptKeeps
<1>7. ASSUME Exclusive PROVE Exclusive'
  <2>1. drv.tx = NoFrame /\ Single(drv.ev, "done") /\ \A t \in Senders : snd[t].pc = "idle"
    BY <1>3, <1>7 DEF Exclusive, Sending
  <2>2. drv'.tx = NoFrame /\ Single(drv'.ev, "done") /\ ~Has(drv'.ev, "done")
    BY <1>2, <1>3, <2>1
  <2>3. \A t \in Senders : snd'[t].pc = "idle"
    BY <1>3, <2>1
  <2> QED
    BY <2>2, <2>3 DEF Exclusive, Sending
<1> QED
  BY <1>6, <1>7

-------------------------------------------------------------------------------
(* The owner's thread.                                                     *)

LEMMA OwnerFacts ==
  ASSUME Inv
  PROVE  /\ own \in OwnerType /\ own.pc \in OwnerPcs /\ own.op \in OwnerOps \cup {"none"}
         /\ own.halted \in BOOLEAN
BY DEF Inv, Types, OwnerType

LEMMA OwnerStepFacts ==
  ASSUME Inv, NEW from, NEW to, NEW v, OwnerStep(from, to, v), to \in OwnerPcs
  PROVE  /\ own.pc = from /\ ThreadRuns /\ u' = v /\ snd' = snd
         /\ own' \in OwnerType /\ own'.pc = to /\ own'.halted = own.halted
         /\ own'.op = IF to = "idle" THEN "none" ELSE own.op
<1>1. /\ own.pc = from /\ ThreadRuns /\ u' = v /\ snd' = snd
      /\ own' = [own EXCEPT !.pc = to, !.op = IF to = "idle" THEN "none" ELSE @]
  BY DEF OwnerStep
<1>2. PICK op : op = IF to = "idle" THEN "none" ELSE own.op
  OBVIOUS
<1>3. op \in OwnerOps \cup {"none"} /\ own \in OwnerType
  BY <1>2, OwnerFacts
<1>4. own' = [own EXCEPT !.pc = to, !.op = op]
  BY <1>1, <1>2, <1>3 DEF OwnerType
<1>5. own' \in OwnerType
  BY <1>3, <1>4 DEF OwnerType
<1>6. own'.pc = to /\ own'.op = op /\ own'.halted = own.halted
  BY <1>3, <1>4 DEF OwnerType
<1> QED
  BY <1>1, <1>2, <1>5, <1>6

LEMMA BeginFacts ==
  ASSUME Inv, NEW op, NEW pc, NEW v, Begin(op, pc, v), pc \in OwnerPcs
  PROVE  /\ own.pc = "idle" /\ u' = v /\ drv' = drv /\ snd' = snd
         /\ own' \in OwnerType /\ own'.pc = pc /\ own'.halted = own.halted /\ own'.op = op
<1>1. /\ own.pc = "idle" /\ u' = v /\ drv' = drv /\ snd' = snd /\ op \in OwnerOps
      /\ own' = [own EXCEPT !.pc = pc, !.op = op]
  BY UartAssumption DEF Begin, UartAssumption
<1>2. own' \in OwnerType
  BY <1>1, OwnerFacts DEF OwnerType
<1>3. own'.pc = pc /\ own'.op = op /\ own'.halted = own.halted
  BY <1>1, OwnerFacts DEF OwnerType
<1> QED
  BY <1>1, <1>2, <1>3

\* What is left to show for a step of the owner.
LEMMA OwnerKeeps ==
  ASSUME Inv, own' \in OwnerType, snd' = snd, u' \in MemberType, Len(u'.rx) <= Capacity,
         Driver(drv'), Phases', LineChangesAtRest', ReadyAgain'
  PROVE  Inv'
BY DEF Inv, Types

LEMMA SameDriver ==
  ASSUME Inv, drv' = drv
  PROVE  /\ Driver(drv') /\ SameTx(drv, drv')
<1>1. Driver(drv)
  BY DriverFacts
<1>2. SameTx(drv, drv)
  BY DEF SameTx
<1> QED
  BY <1>1, <1>2

\* StopRx and StartRx.
LEMMA BeginKeeps ==
  ASSUME Inv, NEW op \in {"stop", "start"}, NEW pc \in {"stop", "enable"}, Begin(op, pc, u),
         pc = "stop" <=> op = "stop"
  PROVE  Inv' /\ (Exclusive => Exclusive')
<1>1. /\ own.pc = "idle" /\ u' = u /\ drv' = drv /\ snd' = snd
      /\ own' \in OwnerType /\ own'.pc = pc /\ own'.halted = own.halted /\ own'.op = op
  BY BeginFacts DEF OwnerPcs
<1>2. Driver(drv') /\ SameTx(drv, drv')
  BY <1>1, SameDriver
<1>3. own.op = "none" /\ u.restart
  BY <1>1 DEF Inv, Phases
<1>4. Phases' /\ LineChangesAtRest'
  BY <1>1, <1>3 DEF Phases, LineChangesAtRest
<1>5. ReadyAgain'
  BY <1>1 DEF Inv, ReadyAgain
<1>6. Inv'
  BY <1>1, <1>2, <1>4, <1>5, MemberFacts, OwnerKeeps
<1>7. Exclusive => Exclusive'
  BY <1>1, ExclusiveKept
<1> QED
  BY <1>6, <1>7

LEMMA ReconfigureKeeps ==
  ASSUME Inv, Reconfigure
  PROVE  Inv' /\ (Exclusive => Exclusive')
<1>1. PICK v : v = [u EXCEPT !.restart = FALSE]
  OBVIOUS
<1>2. Begin("reconfigure", "stop", v)
  BY <1>1 DEF Reconfigure
<1>3. /\ own.pc = "idle" /\ u' = v /\ drv' = drv /\ snd' = snd
      /\ own' \in OwnerType /\ own'.pc = "stop" /\ own'.halted = own.halted
      /\ own'.op = "reconfigure"
  BY <1>2, BeginFacts DEF OwnerPcs
<1>4. Driver(drv') /\ SameTx(drv, drv')
  BY <1>3, SameDriver
<1>5. /\ v \in MemberType /\ v.restart = FALSE /\ v.rx = u.rx /\ v.ready = u.ready
      /\ v.tx = u.tx /\ v.busy = u.busy
  BY <1>1, MemberFacts DEF MemberType
<1>6. Phases' /\ LineChangesAtRest'
  BY <1>3, <1>5 DEF Phases, NoRestart, LineChangesAtRest
<1>7. ReadyAgain'
  BY <1>3, <1>5 DEF Inv, ReadyAgain
<1>8. Inv'
  BY <1>3, <1>4, <1>5, <1>6, <1>7, MemberFacts, OwnerKeeps
<1>9. Exclusive => Exclusive'
  BY <1>3, <1>5, ExclusiveKept
<1> QED
  BY <1>8, <1>9

LEMMA StopRxDisableKeeps ==
  ASSUME Inv, StopRxDisable
  PROVE  Inv' /\ (Exclusive => Exclusive')
<1>1. PICK r \in DisableRx(drv) :
        /\ OwnerStep("stop", IF r.ok THEN "clear" ELSE IF own.op = "stop" THEN "idle" ELSE "restore", u)
        /\ drv' = r.d
  BY DEF StopRxDisable
<1>2. PICK to : to = IF r.ok THEN "clear" ELSE IF own.op = "stop" THEN "idle" ELSE "restore"
  OBVIOUS
<1>3. to \in OwnerPcs
  BY <1>2 DEF OwnerPcs
<1>4. /\ own.pc = "stop" /\ u' = u /\ snd' = snd
      /\ own' \in OwnerType /\ own'.pc = to /\ own'.halted = own.halted
      /\ own'.op = IF to = "idle" THEN "none" ELSE own.op
  BY <1>1, <1>2, <1>3, OwnerStepFacts
<1>5. /\ Driver(drv') /\ SameTx(drv, drv') /\ r.ok \in BOOLEAN
      /\ r.ok => drv.rx = "on" /\ drv'.rx = "stopping"
      /\ ~r.ok => drv' = drv /\ drv.rx # "on"
  BY <1>1, DriverFacts, DisableSound
<1>6. own.op \in {"stop", "reconfigure"} /\ (u.restart <=> own.op # "reconfigure")
  BY <1>4 DEF Inv, Phases, NoRestart
<1>7. Phases'
  BY <1>2, <1>4, <1>6 DEF Phases, NoRestart
<1>8. LineChangesAtRest' /\ ReadyAgain'
  BY <1>2, <1>4, <1>5 DEF LineChangesAtRest, ReadyAgain
<1>10. Inv'
  BY <1>4, <1>5, <1>7, <1>8, MemberFacts, OwnerKeeps
<1>11. Exclusive => Exclusive'
  BY <1>4, <1>5, ExclusiveKept DEF SameTx
<1> QED
  BY <1>10, <1>11

\* ready_ = 0: the user's StopRx keeps it, Reconfigure goes on.
LEMMA StopRxClearKeeps ==
  ASSUME Inv, StopRxClear
  PROVE  Inv' /\ (Exclusive => Exclusive')
<1>1. /\ own.pc = "clear" /\ ThreadRuns /\ drv' = drv /\ snd' = snd
      /\ u' = [u EXCEPT !.ready = FALSE]
      /\ own' = IF own.op = "stop"
                THEN [own EXCEPT !.pc = "idle", !.op = "none", !.halted = TRUE]
                ELSE [own EXCEPT !.pc = "reset", !.halted = FALSE]
  BY DEF StopRxClear
<1>2. own.op \in {"stop", "reconfigure"} /\ (u.restart <=> own.op # "reconfigure")
  BY <1>1 DEF Inv, Phases, NoRestart
<1>3. /\ u' \in MemberType /\ u'.restart = u.restart /\ u'.rx = u.rx
      /\ u'.tx = u.tx /\ u'.busy = u.busy
  BY <1>1, MemberFacts DEF MemberType
<1>4. Driver(drv')
  BY <1>1, SameDriver
<1>5. Exclusive => Exclusive'
  BY <1>1, <1>3, ExclusiveKept
<1>6. CASE own.op = "stop"
  <2>1. own' = [own EXCEPT !.pc = "idle", !.op = "none", !.halted = TRUE]
    BY <1>1, <1>6
  <2>2. own' \in OwnerType
    BY <2>1, OwnerFacts DEF OwnerType, OwnerPcs
  <2>3. own'.pc = "idle" /\ own'.op = "none" /\ own'.halted = TRUE
    BY <2>1, OwnerFacts DEF OwnerType
  <2>4. Phases' /\ LineChangesAtRest' /\ ReadyAgain'
    BY <1>2, <1>3, <1>6, <2>3 DEF Phases, LineChangesAtRest, ReadyAgain
  <2>5. Inv'
    BY <1>1, <1>3, <1>4, <2>2, <2>4, MemberFacts, OwnerKeeps
  <2> QED
    BY <1>5, <2>5
<1>7. CASE own.op = "reconfigure"
  <2>1. own' = [own EXCEPT !.pc = "reset", !.halted = FALSE]
    BY <1>1, <1>7
  <2>2. own' \in OwnerType
    BY <2>1, OwnerFacts DEF OwnerType, OwnerPcs
  <2>3. own'.pc = "reset" /\ own'.op = "reconfigure" /\ own'.halted = FALSE
    BY <1>7, <2>1, OwnerFacts DEF OwnerType
  <2>4. drv.rx # "on"
    BY <1>1, <1>7 DEF Inv, LineChangesAtRest
  <2>5. Phases' /\ LineChangesAtRest' /\ ReadyAgain'
    BY <1>1, <1>2, <1>3, <1>7, <2>3, <2>4 DEF Phases, NoRestart, LineChangesAtRest, ReadyAgain
  <2>8. Inv'
    BY <1>1, <1>3, <1>4, <2>2, <2>5, MemberFacts, OwnerKeeps
  <2> QED
    BY <1>5, <2>8
<1> QED
  BY <1>2, <1>6, <1>7

LEMMA StartRxEnableKeeps ==
  ASSUME Inv, StartRxEnable
  PROVE  Inv' /\ (Exclusive => Exclusive')
<1>1. PICK r \in EnableRx(drv, 0) :
        OwnerStep("enable", IF r.ok THEN "mark" ELSE "idle", u) /\ drv' = r.d
  BY DEF StartRxEnable
<1>2. PICK to : to = IF r.ok THEN "mark" ELSE "idle"
  OBVIOUS
<1>3. to \in OwnerPcs
  BY <1>2 DEF OwnerPcs
<1>4. /\ own.pc = "enable" /\ u' = u /\ snd' = snd
      /\ own' \in OwnerType /\ own'.pc = to /\ own'.halted = own.halted
      /\ own'.op = IF to = "idle" THEN "none" ELSE own.op
  BY <1>1, <1>2, <1>3, OwnerStepFacts
<1>5. /\ Driver(drv') /\ SameTx(drv, drv') /\ r.ok \in BOOLEAN
      /\ ~r.ok => drv'.rx = drv.rx
  <2>1. 0 \in Bufs
    BY DEF Bufs
  <2>2. /\ Driver(r.d) /\ SameTx(drv, r.d) /\ r.ok \in BOOLEAN
        /\ ~r.ok => r.d.rx = drv.rx
    BY <1>1, <2>1, DriverFacts, EnableSound
  <2> QED
    BY <1>1, <2>2
<1>6. u.restart
  BY <1>4 DEF Inv, Phases, NoRestart
<1>7. Phases' /\ LineChangesAtRest'
  BY <1>2, <1>4, <1>6 DEF Phases, NoRestart, LineChangesAtRest
<1>8. ReadyAgain'
  <2>1. CASE r.ok
    BY <1>2, <1>4, <2>1 DEF ReadyAgain
  <2>2. CASE ~r.ok
    BY <1>2, <1>4, <1>5, <2>2 DEF Inv, ReadyAgain
  <2> QED
    BY <2>1, <2>2
<1>10. Inv'
  BY <1>4, <1>5, <1>7, <1>8, MemberFacts, OwnerKeeps
<1>11. Exclusive => Exclusive'
  BY <1>4, <1>5, ExclusiveKept DEF SameTx
<1> QED
  BY <1>10, <1>11

LEMMA StartRxMarkKeeps ==
  ASSUME Inv, StartRxMark
  PROVE  Inv' /\ (Exclusive => Exclusive')
<1>1. PICK v : v = [u EXCEPT !.free[0] = FALSE]
  OBVIOUS
<1>2. OwnerStep("mark", "ready", v) /\ drv' = drv
  BY <1>1 DEF StartRxMark
<1>3. /\ own.pc = "mark" /\ u' = v /\ snd' = snd
      /\ own' \in OwnerType /\ own'.pc = "ready" /\ own'.halted = own.halted
      /\ own'.op = own.op
  BY <1>2, OwnerStepFacts DEF OwnerPcs
<1>4. Driver(drv')
  BY <1>2, SameDriver
<1>5. /\ v \in MemberType /\ v.restart = u.restart /\ v.ready = u.ready
      /\ v.tx = u.tx /\ v.busy = u.busy /\ v.rx = u.rx
  <2>1. PICK f : f = [u.free EXCEPT ![0] = FALSE]
    OBVIOUS
  <2>2. v = [u EXCEPT !.free = f]
    BY <1>1, <2>1, MemberFacts DEF MemberType
  <2>3. f \in [Bufs -> BOOLEAN]
    BY <2>1, MemberFacts
  <2>4. v \in MemberType
    BY <2>2, <2>3, MemberFacts DEF MemberType
  <2>5. /\ v.restart = u.restart /\ v.ready = u.ready /\ v.tx = u.tx /\ v.busy = u.busy
        /\ v.rx = u.rx
    BY <2>2, MemberFacts DEF MemberType
  <2> QED
    BY <2>4, <2>5
<1>6. Phases' /\ LineChangesAtRest'
  BY <1>3, <1>5 DEF Inv, Phases, NoRestart, LineChangesAtRest
<1>7. ReadyAgain'
  BY <1>3 DEF ReadyAgain
<1>9. Inv'
  BY <1>3, <1>4, <1>5, <1>6, <1>7, MemberFacts, OwnerKeeps
<1>10. Exclusive => Exclusive'
  BY <1>2, <1>3, <1>5, ExclusiveKept
<1> QED
  BY <1>9, <1>10

LEMMA StartRxReadyKeeps ==
  ASSUME Inv, StartRxReady
  PROVE  Inv' /\ (Exclusive => Exclusive')
<1>1. /\ own.pc = "ready" /\ drv' = drv /\ snd' = snd
      /\ u' = [u EXCEPT !.ready = TRUE]
      /\ own' = [own EXCEPT !.pc = "idle", !.op = "none", !.halted = FALSE]
  BY DEF StartRxReady
<1>2. /\ u' \in MemberType /\ u'.restart = u.restart /\ u'.rx = u.rx /\ u'.ready
      /\ u'.tx = u.tx /\ u'.busy = u.busy
  BY <1>1, MemberFacts DEF MemberType
<1>3. Driver(drv')
  BY <1>1, SameDriver
<1>4. own' \in OwnerType
  BY <1>1, OwnerFacts DEF OwnerType, OwnerPcs
<1>5. own'.pc = "idle" /\ own'.op = "none"
  BY <1>1, OwnerFacts DEF OwnerType
<1>6. u.restart
  BY <1>1 DEF Inv, Phases, NoRestart
<1>7. Phases' /\ LineChangesAtRest' /\ ReadyAgain'
  BY <1>2, <1>5, <1>6 DEF Phases, LineChangesAtRest, ReadyAgain
<1>8. Inv'
  BY <1>1, <1>2, <1>3, <1>4, <1>7, MemberFacts, OwnerKeeps
<1>9. Exclusive => Exclusive'
  BY <1>1, <1>2, ExclusiveKept
<1> QED
  BY <1>8, <1>9

LEMMA ReconfigureFailsKeeps ==
  ASSUME Inv, ReconfigureFails
  PROVE  Inv' /\ (Exclusive => Exclusive')
<1>1. PICK v : v = [u EXCEPT !.restart = TRUE]
  OBVIOUS
<1>2. OwnerStep("restore", "idle", v) /\ drv' = drv
  BY <1>1 DEF ReconfigureFails
<1>3. /\ own.pc = "restore" /\ u' = v /\ snd' = snd
      /\ own' \in OwnerType /\ own'.pc = "idle" /\ own'.halted = own.halted
      /\ own'.op = "none"
  BY <1>2, OwnerStepFacts DEF OwnerPcs
<1>4. Driver(drv')
  BY <1>2, SameDriver
<1>5. /\ v \in MemberType /\ v.restart = TRUE /\ v.rx = u.rx /\ v.ready = u.ready
      /\ v.tx = u.tx /\ v.busy = u.busy
  BY <1>1, MemberFacts DEF MemberType
<1>6. Phases' /\ LineChangesAtRest'
  BY <1>3, <1>5 DEF Phases, LineChangesAtRest
<1>7. ReadyAgain'
  BY <1>2, <1>3, <1>5 DEF Inv, ReadyAgain
<1>8. Inv'
  BY <1>3, <1>4, <1>5, <1>6, <1>7, MemberFacts, OwnerKeeps
<1>9. Exclusive => Exclusive'
  BY <1>2, <1>3, <1>5, ExclusiveKept
<1> QED
  BY <1>8, <1>9

LEMMA ReconfigureResetKeeps ==
  ASSUME Inv, ReconfigureReset
  PROVE  Inv' /\ (Exclusive => Exclusive')
<1>1. PICK none : none \in Seq(Lines) /\ none = << >> /\ Len(none) = 0
  BY EmptySeq
<1>2. PICK v : v = [u EXCEPT !.rx = none]
  OBVIOUS
<1>3. OwnerStep("reset", "configure", v) /\ drv' = drv
  BY <1>1, <1>2 DEF ReconfigureReset
<1>4. /\ own.pc = "reset" /\ u' = v /\ snd' = snd
      /\ own' \in OwnerType /\ own'.pc = "configure" /\ own'.halted = own.halted
      /\ own'.op = own.op
  BY <1>3, OwnerStepFacts DEF OwnerPcs
<1>5. Driver(drv')
  BY <1>3, SameDriver
<1>6. /\ v \in MemberType /\ v.restart = u.restart /\ v.rx = none /\ v.ready = u.ready
      /\ v.tx = u.tx /\ v.busy = u.busy
  <2>1. v \in MemberType
    BY <1>1, <1>2, MemberFacts DEF MemberType
  <2> QED
    BY <1>2, <2>1, MemberFacts DEF MemberType
<1>7. Len(u'.rx) <= Capacity
  BY <1>1, <1>4, <1>6, UartAssumption DEF UartAssumption
<1>8. Phases' /\ LineChangesAtRest'
  BY <1>3, <1>4, <1>6 DEF Inv, Phases, NoRestart, LineChangesAtRest
<1>9. ReadyAgain'
  BY <1>3, <1>4, <1>6 DEF Inv, ReadyAgain
<1>11. Inv'
  BY <1>4, <1>5, <1>6, <1>7, <1>8, <1>9, OwnerKeeps
<1>12. Exclusive => Exclusive'
  BY <1>3, <1>4, <1>6, ExclusiveKept
<1> QED
  BY <1>11, <1>12

\* A new line setting changes nothing else, and neither does its refusal.
LEMMA LineSound ==
  ASSUME Inv, ApplyLineConfig
  PROVE  /\ Driver(drv') /\ drv'.rx = drv.rx /\ drv'.ev = drv.ev /\ drv'.tx = drv.tx
         /\ drv'.prompt = drv.prompt
<1>1. PICK line \in Lines :
        \/ drv' = [drv EXCEPT !.line = line]
        \/ \E r \in Faults(drv) : drv' = r.d
  BY DEF ApplyLineConfig
<1>2. CASE drv' = [drv EXCEPT !.line = line]
  <2>1. drv' \in DriverType
    BY <1>2, DriverFacts DEF DriverType
  <2>2. /\ drv'.rx = drv.rx /\ drv'.dma = drv.dma /\ drv'.ev = drv.ev /\ drv'.tx = drv.tx
        /\ drv'.prompt = drv.prompt
    BY <1>2, DriverFacts DEF DriverType
  <2>3. Driver(drv')
    BY <2>1, <2>2, DriverFacts DEF Driver
  <2> QED
    BY <2>2, <2>3
<1>3. CASE \E r \in Faults(drv) : drv' = r.d
  BY <1>3, DriverFacts, FaultSound DEF SameTx
<1> QED
  BY <1>1, <1>2, <1>3

LEMMA ReconfigureLineKeeps ==
  ASSUME Inv, ReconfigureLine
  PROVE  Inv' /\ (Exclusive => Exclusive')
<1>1. OwnerStep("configure", "arm", u) /\ ApplyLineConfig
  BY DEF ReconfigureLine
<1>2. /\ own.pc = "configure" /\ u' = u /\ snd' = snd
      /\ own' \in OwnerType /\ own'.pc = "arm" /\ own'.halted = own.halted
      /\ own'.op = own.op
  BY <1>1, OwnerStepFacts DEF OwnerPcs
<1>3. /\ Driver(drv') /\ drv'.rx = drv.rx /\ drv'.ev = drv.ev /\ drv'.tx = drv.tx
      /\ drv'.prompt = drv.prompt
  BY <1>1, LineSound
<1>4. Phases' /\ LineChangesAtRest'
  BY <1>2, <1>3 DEF Inv, Phases, NoRestart, LineChangesAtRest
<1>5. ReadyAgain'
  BY <1>2, <1>3 DEF Inv, ReadyAgain
<1>7. Inv'
  BY <1>2, <1>3, <1>4, <1>5, MemberFacts, OwnerKeeps
<1>8. Exclusive => Exclusive'
  BY <1>2, <1>3, ExclusiveKept
<1> QED
  BY <1>7, <1>8

LEMMA ReconfigureArmKeeps ==
  ASSUME Inv, ReconfigureArm
  PROVE  Inv' /\ (Exclusive => Exclusive')
<1>1. PICK v : v = [u EXCEPT !.restart = TRUE]
  OBVIOUS
<1>2. OwnerStep("arm", "enable", v) /\ drv' = drv
  BY <1>1 DEF ReconfigureArm
<1>3. /\ own.pc = "arm" /\ u' = v /\ snd' = snd
      /\ own' \in OwnerType /\ own'.pc = "enable" /\ own'.halted = own.halted
      /\ own'.op = own.op
  BY <1>2, OwnerStepFacts DEF OwnerPcs
<1>4. Driver(drv')
  BY <1>2, SameDriver
<1>5. /\ v \in MemberType /\ v.restart = TRUE /\ v.rx = u.rx /\ v.ready = u.ready
      /\ v.tx = u.tx /\ v.busy = u.busy
  BY <1>1, MemberFacts DEF MemberType
<1>6. Phases' /\ LineChangesAtRest'
  BY <1>3, <1>5 DEF Phases, NoRestart, LineChangesAtRest
<1>7. ReadyAgain'
  BY <1>2, <1>3, <1>5 DEF Inv, ReadyAgain
<1>9. Inv'
  BY <1>3, <1>4, <1>5, <1>6, <1>7, MemberFacts, OwnerKeeps
<1>10. Exclusive => Exclusive'
  BY <1>2, <1>3, <1>5, ExclusiveKept
<1> QED
  BY <1>9, <1>10

LEMMA SetLineConfigKeeps ==
  ASSUME Inv, SetLineConfig
  PROVE  Inv' /\ (Exclusive => Exclusive')
<1>1. Begin("line", "line", u)
  BY DEF SetLineConfig
<1>2. /\ own.pc = "idle" /\ u' = u /\ drv' = drv /\ snd' = snd
      /\ own' \in OwnerType /\ own'.pc = "line" /\ own'.halted = own.halted
      /\ own'.op = "line"
  BY <1>1, BeginFacts DEF OwnerPcs
<1>3. Driver(drv') /\ SameTx(drv, drv')
  BY <1>2, SameDriver
<1>4. u.restart
  BY <1>2 DEF Inv, Phases
<1>5. Phases' /\ LineChangesAtRest'
  BY <1>2, <1>4 DEF Phases, NoRestart, LineChangesAtRest
<1>6. ReadyAgain'
  BY <1>2 DEF Inv, ReadyAgain
<1>7. Inv'
  BY <1>2, <1>3, <1>5, <1>6, MemberFacts, OwnerKeeps
<1>8. Exclusive => Exclusive'
  BY <1>2, ExclusiveKept
<1> QED
  BY <1>7, <1>8

LEMMA SetLineApplyKeeps ==
  ASSUME Inv, SetLineApply
  PROVE  Inv' /\ (Exclusive => Exclusive')
<1>1. OwnerStep("line", "idle", u) /\ ApplyLineConfig
  BY DEF SetLineApply
<1>2. /\ own.pc = "line" /\ u' = u /\ snd' = snd
      /\ own' \in OwnerType /\ own'.pc = "idle" /\ own'.halted = own.halted
      /\ own'.op = "none"
  BY <1>1, OwnerStepFacts DEF OwnerPcs
<1>3. /\ Driver(drv') /\ drv'.rx = drv.rx /\ drv'.ev = drv.ev /\ drv'.tx = drv.tx
  BY <1>1, LineSound
<1>4. u.restart
  BY <1>2 DEF Inv, Phases, NoRestart
<1>5. Phases' /\ LineChangesAtRest'
  BY <1>2, <1>4 DEF Phases, LineChangesAtRest
<1>6. ReadyAgain'
  BY <1>2, <1>3 DEF Inv, ReadyAgain
<1>7. Inv'
  BY <1>2, <1>3, <1>5, <1>6, MemberFacts, OwnerKeeps
<1>8. Exclusive => Exclusive'
  BY <1>2, <1>3, ExclusiveKept
<1> QED
  BY <1>7, <1>8

LEMMA ReadKeeps ==
  ASSUME Inv, Read
  PROVE  Inv' /\ (Exclusive => Exclusive')
<1>1. PICK x : x = u.rx
  OBVIOUS
<1>2. PICK n \in 1..Len(x) :
        OwnerStep("idle", "idle", [u EXCEPT !.rx = SubSeq(@, n + 1, Len(@))]) /\ drv' = drv
  BY <1>1 DEF Read
<1>3. PICK y : y = SubSeq(x, n + 1, Len(x))
  OBVIOUS
<1>4. PICK v : v = [u EXCEPT !.rx = y]
  OBVIOUS
<1>5. x \in Seq(Lines) /\ Len(x) <= Capacity /\ Len(x) \in Nat /\ n \in Nat /\ n <= Len(x) /\ n >= 1
  BY <1>1, MemberFacts, LenProperties
<1>6. y \in Seq(Lines) /\ Len(y) <= Capacity
  <2>1. /\ n + 1 \in 1..(Len(x) + 1) /\ Len(x) \in n..Len(x)
    BY <1>5
  <2>2. n + 1 - 1 = n
    BY <1>5
  <2>3. \A i \in (n + 1)..Len(x) : x[i] \in Lines
    BY <1>5, ElementOfSeq
  <2>4. /\ y \in Seq(Lines)
        /\ Len(y) = IF n + 1 <= Len(x) THEN Len(x) - (n + 1) + 1 ELSE 0
    BY <1>3, <1>5, <2>1, <2>3, SubSeqProperties
  <2>5. Len(x) - (n + 1) + 1 <= Len(x)
    BY <1>5
  <2> QED
    BY <1>5, <2>4, <2>5, UartAssumption DEF UartAssumption
<1>7. OwnerStep("idle", "idle", v)
  BY <1>1, <1>2, <1>3, <1>4, MemberFacts DEF MemberType
<1>8. /\ own.pc = "idle" /\ u' = v /\ snd' = snd
      /\ own' \in OwnerType /\ own'.pc = "idle" /\ own'.halted = own.halted
      /\ own'.op = "none"
  BY <1>7, OwnerStepFacts DEF OwnerPcs
<1>9. Driver(drv')
  BY <1>2, SameDriver
<1>10. /\ v \in MemberType /\ v.restart = u.restart /\ v.rx = y /\ v.ready = u.ready
       /\ v.tx = u.tx /\ v.busy = u.busy
  <2>1. v \in MemberType
    BY <1>4, <1>6, MemberFacts DEF MemberType
  <2> QED
    BY <1>4, <2>1, MemberFacts DEF MemberType
<1>11. u.restart
  BY <1>8 DEF Inv, Phases
<1>12. Phases' /\ LineChangesAtRest'
  BY <1>8, <1>10, <1>11 DEF Phases, LineChangesAtRest
<1>13. ReadyAgain'
  BY <1>2, <1>8, <1>10 DEF Inv, ReadyAgain
<1>14. Len(u'.rx) <= Capacity
  BY <1>6, <1>8, <1>10
<1>15. Inv'
  BY <1>8, <1>9, <1>10, <1>12, <1>13, <1>14, OwnerKeeps
<1>16. Exclusive => Exclusive'
  BY <1>2, <1>8, <1>10, ExclusiveKept
<1> QED
  BY <1>15, <1>16

-------------------------------------------------------------------------------
(* The threads that send.                                                  *)

\* What is left to show for a step of a sender.
LEMMA SendKeeps ==
  ASSUME Inv, own' = own, snd' \in [Senders -> SenderType],
         u' \in MemberType, u'.ready = u.ready, u'.restart = u.restart, u'.rx = u.rx,
         Driver(drv'), drv'.rx = drv.rx, drv'.ev = drv.ev, drv'.line = drv.line,
         drv'.prompt = drv.prompt
  PROVE  Inv'
<1>1. Types'
  BY DEF Inv, Types
<1>2. Phases' /\ LineChangesAtRest' /\ ReadyAgain'
  BY DEF Inv, Phases, NoRestart, LineChangesAtRest, ReadyAgain
<1> QED
  BY <1>1, <1>2 DEF Inv

LEMMA SenderFacts ==
  ASSUME Inv, NEW t \in Senders
  PROVE  /\ snd \in [Senders -> SenderType]
         /\ snd[t].pc \in {"idle", "copy", "mark", "submit", "undo"} /\ snd[t].frame \in Frames
BY DEF Inv, Types, SenderType

\* A step inside Send().
LEMMA SendStepFacts ==
  ASSUME Inv, NEW t \in Senders, NEW from, NEW to \in {"idle", "copy", "mark", "submit", "undo"},
         NEW v, SendStep(t, from, to, v)
  PROVE  /\ snd[t].pc = from /\ u' = v /\ own' = own
         /\ snd' \in [Senders -> SenderType] /\ snd'[t].pc = to
<1>1. /\ snd[t].pc = from /\ u' = v /\ own' = own
      /\ snd' = [snd EXCEPT ![t].pc = to]
  BY DEF SendStep
<1>2. PICK x : x = [snd[t] EXCEPT !.pc = to]
  OBVIOUS
<1>3. snd[t] \in SenderType /\ snd \in [Senders -> SenderType]
  BY SenderFacts
<1>4. x \in SenderType /\ x.pc = to
  BY <1>2, <1>3 DEF SenderType
<1>5. snd' = [snd EXCEPT ![t] = x]
  BY <1>1, <1>2, <1>3
<1>6. snd' \in [Senders -> SenderType] /\ snd'[t] = x
  BY <1>3, <1>4, <1>5
<1> QED
  BY <1>1, <1>4, <1>6

\* With one sender, a step of it that leaves the driver alone.
LEMMA AloneKeeps ==
  ASSUME OneSender, Exclusive, NEW t \in Senders, drv' = drv,
         snd[t].pc # "idle" \/ ~u.busy,
         u'.busy \/ snd'[t].pc \notin {"submit", "undo"}
  PROVE  Exclusive'
<1>1. ~Sending /\ Single(drv.ev, "done")
  BY DEF Exclusive
<1>2. drv.tx = NoFrame /\ ~Has(drv.ev, "done")
  BY <1>1 DEF Sending
<1>3. \A t1 \in Senders : t1 = t
  BY DEF OneSender
<1> QED
  BY <1>1, <1>2, <1>3 DEF Exclusive, Sending

LEMMA SendCheckKeeps ==
  ASSUME Inv, NEW t \in Senders, SendCheck(t)
  PROVE  Inv' /\ (OneSender /\ Exclusive => Exclusive')
<1>1. /\ ~u.busy /\ u' = u /\ drv' = drv /\ own' = own
      /\ snd' = [snd EXCEPT ![t] = [pc |-> "copy", frame |-> 1 - @.frame]]
  BY DEF SendCheck, SendBegin
<1>2. PICK x : x = [pc |-> "copy", frame |-> 1 - snd[t].frame]
  OBVIOUS
<1>3. snd[t].frame \in Frames /\ snd \in [Senders -> SenderType]
  BY SenderFacts
<1>4. x \in SenderType /\ x.pc = "copy"
  <2>1. 1 - snd[t].frame \in Frames
    BY <1>3 DEF Frames
  <2> QED
    BY <1>2, <2>1 DEF SenderType
<1>5. snd' = [snd EXCEPT ![t] = x]
  BY <1>1, <1>2
<1>6. snd' \in [Senders -> SenderType] /\ snd'[t] = x
  BY <1>3, <1>4, <1>5
<1>7. Inv'
  BY <1>1, <1>6, MemberFacts, DriverFacts, SendKeeps
<1>8. OneSender /\ Exclusive => Exclusive'
  BY <1>1, <1>4, <1>6, AloneKeeps
<1> QED
  BY <1>7, <1>8

LEMMA SendCopyKeeps ==
  ASSUME Inv, NEW t \in Senders, SendCopy(t)
  PROVE  Inv' /\ (OneSender /\ Exclusive => Exclusive')
<1>1. PICK v : v = [u EXCEPT !.tx = snd[t].frame]
  OBVIOUS
<1>2. SendStep(t, "copy", "mark", v) /\ drv' = drv
  BY <1>1 DEF SendCopy
<1>3. /\ snd[t].pc = "copy" /\ u' = v /\ own' = own
      /\ snd' \in [Senders -> SenderType] /\ snd'[t].pc = "mark"
  BY <1>2, SendStepFacts
<1>4. v \in MemberType /\ v.ready = u.ready /\ v.restart = u.restart /\ v.rx = u.rx
  BY <1>1, MemberFacts, SenderFacts DEF MemberType
<1>5. Inv'
  BY <1>2, <1>3, <1>4, DriverFacts, SendKeeps
<1>6. OneSender /\ Exclusive => Exclusive'
  BY <1>2, <1>3, AloneKeeps
<1> QED
  BY <1>5, <1>6

LEMMA SendMarkKeeps ==
  ASSUME Inv, NEW t \in Senders, SendMark(t)
  PROVE  Inv' /\ (OneSender /\ Exclusive => Exclusive')
<1>1. PICK v : v = [u EXCEPT !.busy = TRUE]
  OBVIOUS
<1>2. SendStep(t, "mark", "submit", v) /\ drv' = drv
  BY <1>1 DEF SendMark
<1>3. /\ snd[t].pc = "mark" /\ u' = v /\ own' = own
      /\ snd' \in [Senders -> SenderType] /\ snd'[t].pc = "submit"
  BY <1>2, SendStepFacts
<1>4. /\ v \in MemberType /\ v.ready = u.ready /\ v.restart = u.restart /\ v.rx = u.rx
      /\ v.busy
  BY <1>1, MemberFacts DEF MemberType
<1>5. Inv'
  BY <1>2, <1>3, <1>4, DriverFacts, SendKeeps
<1>6. OneSender /\ Exclusive => Exclusive'
  BY <1>2, <1>3, <1>4, AloneKeeps
<1> QED
  BY <1>5, <1>6

LEMMA SendUndoKeeps ==
  ASSUME Inv, NEW t \in Senders, SendUndo(t)
  PROVE  Inv' /\ (OneSender /\ Exclusive => Exclusive')
<1>1. PICK v : v = [u EXCEPT !.busy = FALSE]
  OBVIOUS
<1>2. SendStep(t, "undo", "idle", v) /\ drv' = drv
  BY <1>1 DEF SendUndo
<1>3. /\ snd[t].pc = "undo" /\ u' = v /\ own' = own
      /\ snd' \in [Senders -> SenderType] /\ snd'[t].pc = "idle"
  BY <1>2, SendStepFacts
<1>4. v \in MemberType /\ v.ready = u.ready /\ v.restart = u.restart /\ v.rx = u.rx
  BY <1>1, MemberFacts DEF MemberType
<1>5. Inv'
  BY <1>2, <1>3, <1>4, DriverFacts, SendKeeps
<1>6. OneSender /\ Exclusive => Exclusive'
  BY <1>2, <1>3, AloneKeeps
<1> QED
  BY <1>5, <1>6

\* uart_tx takes the frame that is in the buffer, or refuses it.
LEMMA SendSubmitKeeps ==
  ASSUME Inv, NEW t \in Senders, SendSubmit(t)
  PROVE  Inv' /\ (OneSender /\ Exclusive => Exclusive')
<1>1. PICK r \in StartTx(drv, u.tx) :
        SendStep(t, "submit", IF r.ok THEN "idle" ELSE "undo", u) /\ drv' = r.d
  BY DEF SendSubmit
<1>2. PICK to : to = IF r.ok THEN "idle" ELSE "undo"
  OBVIOUS
<1>3. to \in {"idle", "copy", "mark", "submit", "undo"}
  BY <1>2
<1>4. SendStep(t, "submit", to, u)
  BY <1>1, <1>2
<1>5. /\ snd[t].pc = "submit" /\ u' = u /\ own' = own
      /\ snd' \in [Senders -> SenderType] /\ snd'[t].pc = to
  BY <1>3, <1>4, SendStepFacts
<1>6. PICK f : f = u.tx
  OBVIOUS
<1>7. PICK e : e = [drv EXCEPT !.tx = f]
  OBVIOUS
<1>8. f \in Frames
  BY <1>6, MemberFacts
<1>9. \/ ~r.ok /\ r.d = drv
      \/ r.ok /\ r.d = e
      \/ ~r.ok /\ r \in Faults(drv)
  <2>1. \/ r = [ok |-> FALSE, d |-> drv]
        \/ r = [ok |-> TRUE, d |-> e]
        \/ r \in Faults(drv)
    BY <1>1, <1>6, <1>7 DEF StartTx
  <2>2. CASE r = [ok |-> FALSE, d |-> drv]
    BY <2>2
  <2>3. CASE r = [ok |-> TRUE, d |-> e]
    BY <2>3
  <2>4. CASE r \in Faults(drv)
    BY <2>4 DEF Faults
  <2> QED
    BY <2>1, <2>2, <2>3, <2>4
<1>10. /\ Driver(drv') /\ drv'.rx = drv.rx /\ drv'.ev = drv.ev /\ drv'.line = drv.line
       /\ drv'.prompt = drv.prompt
       /\ drv'.tx = IF r.ok THEN f ELSE drv.tx
  <2>1. CASE ~r.ok /\ r.d = drv
    BY <1>1, <2>1, DriverFacts
  <2>2. CASE r.ok /\ r.d = e
    <3>1. e \in DriverType
      BY <1>7, <1>8, DriverFacts DEF DriverType
    <3>2. /\ e.rx = drv.rx /\ e.dma = drv.dma /\ e.ev = drv.ev /\ e.line = drv.line
          /\ e.prompt = drv.prompt
      BY <1>7, DriverFacts DEF DriverType
    <3>3. e.tx = f
      BY <1>7, DriverFacts DEF DriverType
    <3>4. Driver(e)
      BY <3>1, <3>2, DriverFacts DEF Driver
    <3> QED
      BY <1>1, <2>2, <3>2, <3>3, <3>4
  <2>3. CASE ~r.ok /\ r \in Faults(drv)
    <3>1. /\ Driver(r.d) /\ SameTx(drv, r.d) /\ r.d.rx = drv.rx /\ r.d.ev = drv.ev
      BY <2>3, DriverFacts, FaultSound
    <3> QED
      BY <1>1, <2>3, <3>1 DEF SameTx
  <2> QED
    BY <1>9, <2>1, <2>2, <2>3
<1>11. Inv'
  BY <1>5, <1>10, MemberFacts, SendKeeps
<1>12. ASSUME OneSender, Exclusive PROVE Exclusive'
  <2>1. \A t1 \in Senders : t1 = t
    BY <1>12 DEF OneSender
  <2>2. u.busy /\ drv.tx = NoFrame /\ ~Has(drv.ev, "done") /\ Single(drv.ev, "done")
    BY <1>5, <1>12 DEF Exclusive, Sending
  <2>3. u'.busy /\ ~Has(drv'.ev, "done") /\ Single(drv'.ev, "done")
    BY <1>5, <1>10, <2>2
  <2>4. drv'.tx # NoFrame => u'.tx = drv'.tx
    BY <1>5, <1>6, <1>10, <2>2
  <2>5. snd'[t].pc # "idle" => drv'.tx = NoFrame
    BY <1>2, <1>5, <1>10, <2>2
  <2> QED
    BY <2>1, <2>3, <2>4, <2>5 DEF Exclusive, Sending
<1> QED
  BY <1>11, <1>12

-------------------------------------------------------------------------------
(* The invariant is inductive.                                             *)

LEMMA InitInv == Init => Inv /\ Exclusive
<1> SUFFICES ASSUME Init PROVE Inv /\ Exclusive
  OBVIOUS
<1>1. PICK none : none \in Seq(Lines) /\ none \in Seq(Bufs) /\ none = << >> /\ Len(none) = 0
  BY EmptySeq
<1>2. /\ u = [ready |-> FALSE, restart |-> TRUE, busy |-> FALSE, free |-> [b \in Bufs |-> TRUE],
              tx |-> 0, rx |-> none]
      /\ own = [pc |-> "enable", op |-> "none", halted |-> FALSE]
      /\ snd = [t \in Senders |-> [pc |-> "idle", frame |-> 0]]
  BY <1>1 DEF Init
<1>3. PICK prompt \in Drivers :
        drv = [rx |-> "off", dma |-> none, ev |-> none, tx |-> NoFrame, line |-> 0,
               prompt |-> prompt, faults |-> 0]
  BY <1>1 DEF Init
<1>4. none \in Seq(Events) /\ \A k : ~Has(none, k) /\ Single(none, k)
  BY <1>1, NoEvent
<1>5. u \in MemberType /\ Len(u.rx) <= Capacity
  <2>1. u \in MemberType
    BY <1>1, <1>2 DEF MemberType, Frames
  <2>2. u.rx = none
    BY <1>2
  <2> QED
    BY <1>1, <2>1, <2>2, UartAssumption DEF UartAssumption
<1>6. drv \in DriverType
  BY <1>1, <1>3, <1>4, UartAssumption DEF DriverType, Frames, NoFrame, Lines, UartAssumption
<1>7. /\ drv.rx = "off" /\ drv.dma = none /\ drv.ev = none /\ drv.tx = NoFrame
  BY <1>3
<1>8. Driver(drv)
  <2>1. Len(drv.dma) <= 2
    BY <1>1, <1>7
  <2>2. drv.dma = << >>
    BY <1>1, <1>7
  <2> QED
    BY <1>4, <1>6, <1>7, <2>1, <2>2 DEF Driver
<1>9. own \in OwnerType
  BY <1>2 DEF OwnerType, OwnerPcs
<1>10. snd \in [Senders -> SenderType] /\ \A t \in Senders : snd[t].pc = "idle"
  BY <1>2 DEF SenderType, Frames
<1>11. u.restart /\ own.pc = "enable" /\ own.op = "none"
  BY <1>2
<1>12. Types /\ Phases /\ LineChangesAtRest /\ ReadyAgain
  BY <1>5, <1>7, <1>8, <1>9, <1>10, <1>11 DEF Types, Phases, NoRestart, LineChangesAtRest, ReadyAgain
<1>13. Exclusive
  BY <1>4, <1>7, <1>10 DEF Exclusive, Sending
<1> QED
  BY <1>12, <1>13 DEF Inv

LEMMA StutterKeeps ==
  ASSUME Inv, UNCHANGED vars
  PROVE  Inv' /\ (Exclusive => Exclusive')
<1>1. u' = u /\ drv' = drv /\ own' = own /\ snd' = snd
  BY DEF vars
<1>2. Inv'
  BY <1>1 DEF Inv, Types, Phases, NoRestart, LineChangesAtRest, ReadyAgain
<1>3. Exclusive => Exclusive'
  BY <1>1, ExclusiveKept
<1> QED
  BY <1>2, <1>3

LEMMA NextInv ==
  ASSUME Inv, [Next]_vars
  PROVE  Inv' /\ (OneSender /\ Exclusive => Exclusive')
<1>1. CASE Receive
  BY <1>1, ReceiveKeeps
<1>2. CASE BufferFull
  BY <1>2, BufferFullKeeps
<1>3. CASE LineError
  BY <1>3, LineErrorKeeps
<1>4. CASE TxFinish
  BY <1>4, TxFinishKeeps
<1>5. CASE Callback
  BY <1>5, OnRxRdyKeeps, OnBufRequestKeeps, OnBufReleasedKeeps, OnRxDisabledKeeps, OnTxDoneKeeps
     DEF Callback
<1>6. CASE Owner
  <2>1. CASE StopRx
    BY <2>1, BeginKeeps DEF StopRx
  <2>2. CASE StartRx
    BY <2>2, BeginKeeps DEF StartRx
  <2>3. CASE StopRxDisable \/ StopRxClear \/ StartRxEnable \/ StartRxMark \/ StartRxReady
    BY <2>3, StopRxDisableKeeps, StopRxClearKeeps, StartRxEnableKeeps, StartRxMarkKeeps,
       StartRxReadyKeeps
  <2>4. CASE Reconfigure \/ ReconfigureFails \/ ReconfigureReset \/ ReconfigureLine \/ ReconfigureArm
    BY <2>4, ReconfigureKeeps, ReconfigureFailsKeeps, ReconfigureResetKeeps, ReconfigureLineKeeps,
       ReconfigureArmKeeps
  <2>5. CASE SetLineConfig \/ SetLineApply \/ Read
    BY <2>5, SetLineConfigKeeps, SetLineApplyKeeps, ReadKeeps
  <2> QED
    BY <1>6, <2>1, <2>2, <2>3, <2>4, <2>5 DEF Owner
<1>7. CASE \E t \in Senders : Send(t)
  BY <1>7, SendCheckKeeps, SendCopyKeeps, SendMarkKeeps, SendSubmitKeeps, SendUndoKeeps DEF Send
<1>8. CASE UNCHANGED vars
  BY <1>8, StutterKeeps
<1> QED
  BY <1>1, <1>2, <1>3, <1>4, <1>5, <1>6, <1>7, <1>8 DEF Next

-------------------------------------------------------------------------------
(* The theorems.                                                           *)

\* A sequence that is short enough is one of TypeOK's bounded sequences.
LEMMA Bounded ==
  ASSUME NEW S, NEW q \in Seq(S), NEW n \in Nat, Len(q) <= n
  PROVE  q \in BoundedSeq(S, n)
<1>1. Len(q) \in 0..n /\ q \in [1..Len(q) -> S]
  BY LenProperties
<1> QED
  BY <1>1 DEF BoundedSeq, SeqOf

LEMMA InvIsTyped == Inv => TypeOK
<1> SUFFICES ASSUME Inv PROVE TypeOK
  OBVIOUS
<1>1. u.rx \in BoundedSeq(Lines, Capacity)
  BY MemberFacts, Bounded, UartAssumption DEF UartAssumption
<1>2. drv.dma \in BoundedSeq(Bufs, 2)
  BY DriverFacts, Bounded
<1>3. u \in [ready : BOOLEAN, restart : BOOLEAN, busy : BOOLEAN, free : [Bufs -> BOOLEAN],
             tx : Frames, rx : BoundedSeq(Lines, Capacity)]
  <2>1. PICK R : R = BoundedSeq(Lines, Capacity)
    OBVIOUS
  <2>2. u \in [ready : BOOLEAN, restart : BOOLEAN, busy : BOOLEAN, free : [Bufs -> BOOLEAN],
               tx : Frames, rx : R]
    BY <1>1, <2>1, MemberFacts DEF MemberType
  <2> QED
    BY <2>1, <2>2
<1>4. \A i \in DOMAIN drv.ev : drv.ev[i] \in Events
  BY DriverFacts, LenProperties, ElementOfSeq
<1>5. /\ drv.rx \in {"off", "on", "stopping"} /\ drv.tx \in Frames \cup {NoFrame}
      /\ drv.line \in Lines /\ drv.prompt \in Drivers /\ drv.faults \in 0..MaxFaults
      /\ (drv.dma # << >> <=> drv.rx = "on")
  BY DriverFacts DEF DriverType
<1>6. /\ own.pc \in {"idle", "stop", "clear", "restore", "reset", "configure", "arm",
                     "enable", "mark", "ready", "line"}
      /\ own.op \in OwnerOps \cup {"none"} /\ own.halted \in BOOLEAN
  BY OwnerFacts DEF OwnerPcs
<1>7. snd \in [Senders -> [pc : {"idle", "copy", "mark", "submit", "undo"}, frame : Frames]]
  BY DEF Inv, Types, SenderType
<1> QED
  BY <1>2, <1>3, <1>4, <1>5, <1>6, <1>7 DEF TypeOK

\* No event outstanding, no operation under way and no StopRx: ready_ is set.
LEMMA InvIsReady == Inv => RunningIsReady
BY DEF Inv, ReadyAgain, RunningIsReady

\* The inductive invariant holds in every reachable state.
THEOREM UartInvariance == Spec => []Inv
<1>1. Init => Inv
  BY InitInv
<1>2. Inv /\ [Next]_vars => Inv'
  BY NextInv
<1> QED
  BY <1>1, <1>2, PTL DEF Spec

\* The types of the members, of the driver and of the threads.  In particular
\* rx_bip_ is never fuller than it is, and the driver has buffers exactly while
\* it receives.
THEOREM UartTypes == Spec => []TypeOK
BY UartInvariance, InvIsTyped, PTL

\* Reception never runs with ready_ at 0 (uart.cpp:106-116, :288-290): whatever
\* the automatic restart of RX_DISABLED and StartRx do to each other.
THEOREM ReceptionIsReady == Spec => []RunningIsReady
BY UartInvariance, InvIsReady, PTL

\* Reconfigure changes the line setting of a receiver at rest (uart.cpp:262-263):
\* neither the UART_RX_DISABLED of its own StopRx nor one of an error before it,
\* however late, starts reception before the new setting is there.
THEOREM LineSwitchIsSafe == Spec => []LineChangesAtRest
BY UartInvariance, PTL DEF Inv

\* The transmit buffer keeps the frame that the hardware sends from it
\* (uart.cpp:210-217), when one thread sends: Send() looks at tx_busy_ before the
\* copy and sets it after, so two threads could both pass the check.
THEOREM FrameStaysIntact ==
  ASSUME OneSender
  PROVE  Spec => []FrameInFlightIntact
<1>1. Init => Inv /\ Exclusive
  BY InitInv
<1>2. Inv /\ Exclusive /\ [Next]_vars => Inv' /\ Exclusive'
  BY NextInv
<1>3. Inv /\ Exclusive => FrameInFlightIntact
  BY DEF Exclusive, FrameInFlightIntact
<1> QED
  BY <1>1, <1>2, <1>3, PTL DEF Spec
===============================================================================

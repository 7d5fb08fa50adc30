--------------------------------- MODULE Uart ---------------------------------
(***************************************************************************)
(* The UART DMA stream, class UartDma: one thread owns the port (Read,     *)
(* StopRx, StartRx, SetLineConfig, Reconfigure), others send, and the      *)
(* driver's callback uart_dma_callback interrupts them.                    *)
(*                                                                         *)
(* Zephyr's asynchronous driver is external.  A prompt one raises the      *)
(* events of a call before the call returns; another one raises them when  *)
(* interrupts allow, which StopRx's lock delays.                           *)
(*                                                                         *)
(* Fields of u, the members of UartDma:                                    *)
(*   ready ready_   restart restart_on_disabled_   busy tx_busy_           *)
(*   free  buf_free_   tx the frame in tx_buf_                             *)
(*   rx    rx_bip_, a sequence of received pieces; a piece is the line     *)
(*         setting it was received with                                    *)
(* Fields of drv, the driver and the hardware:                             *)
(*   rx "off", "on" or "stopping"   dma the buffers it holds, the one      *)
(*   being filled first   ev events not yet raised   tx the frame in       *)
(*   flight   line the line setting   prompt, faults                       *)
(*                                                                         *)
(* Left out: cur_buf_, which nothing reads, sem_, which wakes the reader,  *)
(* and what the user's callbacks do.                                       *)
(***************************************************************************)
EXTENDS Naturals, Sequences, SequencesExt

CONSTANTS
  Senders,     \* the threads that send
  Ops,         \* what the owner calls: subset of OwnerOps
  RxCallback,  \* is rx_cb configured?  It then gets the data instead of rx_bip_
  Capacity,    \* pieces that fit into rx_bip_
  Drivers,     \* subset of BOOLEAN: is the driver prompt?
  MaxFaults,   \* bound: driver calls that fail for no reason of this code
  MaxPending   \* bound: events outstanding when the hardware adds more

OwnerOps == {"reconfigure", "stop", "start", "line"}
Lines == {0, 1}
Frames == {0, 1}
Bufs == {0, 1}
NoFrame == 2

ASSUME UartAssumption ==
  /\ Ops \subseteq OwnerOps /\ RxCallback \in BOOLEAN
  /\ Capacity \in Nat \ {0} /\ Drivers \subseteq BOOLEAN
  /\ MaxFaults \in Nat /\ MaxPending \in Nat \ {0}

VARIABLES
  u,    \* the members of UartDma
  drv,  \* the driver and the hardware
  own,  \* the owner: op, pc, and was its last success StopRx (halted)?
  snd   \* each sender: pc and frame

vars == <<u, drv, own, snd>>

\* StopRx holds lock_: interrupts are masked.
Locked == own.pc = "clear"

\* A thread runs when no event interrupts it.
ThreadRuns == drv.prompt => drv.ev = <<>>

\* The driver refuses a call for no reason of this code.
Faults(d) ==
  IF d.faults < MaxFaults THEN {[ok |-> FALSE, d |-> [d EXCEPT !.faults = @ + 1]]} ELSE {}

-------------------------------------------------------------------------------
\* uart_rx_enable(buf): refused while reception is on.  The outcomes, each with
\* the driver it leaves.
EnableRx(d, buf) ==
  IF d.rx # "off" THEN {[ok |-> FALSE, d |-> d]}
  ELSE {[ok |-> TRUE, d |-> [d EXCEPT !.rx = "on", !.dma = <<buf>>,
                                      !.ev = Append(@, <<"request">>)]]}
       \cup Faults(d)

\* What the driver raises when reception ends: the buffers come back, then
\* RX_DISABLED.
Shutdown(d, first) ==
  [d EXCEPT !.rx = "stopping", !.dma = <<>>,
            !.ev = @ \o first \o [i \in 1..Len(d.dma) |-> <<"released", d.dma[i]>>]
                     \o << <<"disabled">> >>]

Data(d) == << <<"rdy", d.line>> >>

\* uart_rx_disable(): pending data is delivered first.
DisableRx(d) ==
  IF d.rx # "on" THEN {[ok |-> FALSE, d |-> d]}
  ELSE {[ok |-> TRUE, d |-> Shutdown(d, <<>>)], [ok |-> TRUE, d |-> Shutdown(d, Data(d))]}

\* uart_rx_buf_rsp(buf).
BufRsp(d, buf) ==
  IF d.rx = "on" /\ Len(d.dma) = 1 THEN [d EXCEPT !.dma = Append(@, buf)] ELSE d

HardwareRuns == ~Locked /\ drv.rx = "on" /\ Len(drv.ev) < MaxPending

\* Some bytes arrive.
Receive ==
  /\ HardwareRuns
  /\ drv' = [drv EXCEPT !.ev = @ \o Data(drv)]
  /\ UNCHANGED <<u, own, snd>>

\* The buffer is full: go on with the next one, or stop when there is none.
BufferFull ==
  /\ HardwareRuns
  /\ drv' = IF Len(drv.dma) = 2
            THEN [drv EXCEPT !.dma = Tail(@),
                             !.ev = @ \o Data(drv) \o << <<"released", drv.dma[1]>>, <<"request">> >>]
            ELSE Shutdown(drv, Data(drv))
  /\ UNCHANGED <<u, own, snd>>

\* A framing or overrun error ends reception.
LineError ==
  /\ HardwareRuns
  /\ drv' = Shutdown(drv, <<>>)
  /\ UNCHANGED <<u, own, snd>>

\* The frame is out.
TxFinish ==
  /\ ~Locked /\ drv.tx # NoFrame
  /\ drv' = [drv EXCEPT !.tx = NoFrame, !.ev = Append(@, <<"done">>)]
  /\ UNCHANGED <<u, own, snd>>

-------------------------------------------------------------------------------
(* uart_dma_callback(), one action per event. *)

\* The driver raises its first outstanding event.
Raised(kind) ==
  /\ drv.ev # <<>> /\ Head(drv.ev)[1] = kind
  /\ drv.prompt \/ ~Locked
  /\ UNCHANGED <<own, snd>>

\* The driver without that event.
Popped == [drv EXCEPT !.ev = Tail(@)]

\* Mutant of Store: no look at the room that is left.
StoreBlindly(v, piece) == [v EXCEPT !.rx = Append(@, piece)]

\* UART_RX_RDY: store the piece if it fits.
Store(v, piece) ==
  [v EXCEPT !.rx = IF Len(@) < Capacity THEN Append(@, piece) ELSE @]

OnRxRdy ==
  /\ Raised("rdy")
  /\ u' = IF RxCallback THEN u ELSE Store(u, Head(drv.ev)[2])
  /\ drv' = Popped

\* UART_RX_BUF_REQUEST: hand out a buffer that is marked free.
OnBufRequest ==
  /\ Raised("request")
  /\ LET free == {b \in Bufs : u.free[b]}
         next == IF 0 \in free THEN 0 ELSE 1
     IN  IF free = {} THEN drv' = Popped /\ UNCHANGED u
         ELSE /\ u' = [u EXCEPT !.free[next] = FALSE]
              /\ drv' = BufRsp(Popped, next)

\* UART_RX_BUF_RELEASED.
OnBufReleased ==
  /\ Raised("released")
  /\ u' = [u EXCEPT !.free[Head(drv.ev)[2]] = TRUE]
  /\ drv' = Popped

\* UART_RX_DISABLED: start again with buffer 0, unless Reconfigure forbids it.
\* The buffer stays marked free.
OnRxDisabled ==
  /\ Raised("disabled")
  /\ LET off == [Popped EXCEPT !.rx = "off"]
         v == [u EXCEPT !.free = [b \in Bufs |-> TRUE]]
     IN  IF ~u.restart THEN u' = [v EXCEPT !.ready = FALSE] /\ drv' = off
         ELSE \E r \in EnableRx(off, 0) : u' = [v EXCEPT !.ready = r.ok] /\ drv' = r.d

\* UART_TX_DONE.
OnTxDone ==
  /\ Raised("done")
  /\ u' = [u EXCEPT !.busy = FALSE]
  /\ drv' = Popped

Callback == OnRxRdy \/ OnBufRequest \/ OnBufReleased \/ OnRxDisabled \/ OnTxDone

-------------------------------------------------------------------------------
(* The owner's thread. *)

\* A step of the owner that only changes the members; none at "idle" belongs to
\* an operation.
OwnerStep(from, to, v) ==
  /\ own.pc = from /\ ThreadRuns
  /\ own' = [own EXCEPT !.pc = to, !.op = IF to = "idle" THEN "none" ELSE @]
  /\ u' = v
  /\ UNCHANGED snd

Begin(op, pc, v) ==
  /\ own.pc = "idle" /\ op \in Ops /\ ThreadRuns
  /\ own' = [own EXCEPT !.pc = pc, !.op = op]
  /\ u' = v
  /\ UNCHANGED <<drv, snd>>

\* StopRx(), called by the user or by Reconfigure: uart_rx_disable, and
\* ready_ = 0 when it succeeds, under lock_.
StopRx == Begin("stop", "stop", u)

StopRxDisable ==
  \E r \in DisableRx(drv) :
    /\ OwnerStep("stop", IF r.ok THEN "clear" ELSE IF own.op = "stop" THEN "idle" ELSE "restore", u)
    /\ drv' = r.d

StopRxClear ==
  /\ own.pc = "clear" /\ ThreadRuns
  /\ u' = [u EXCEPT !.ready = FALSE]
  /\ own' = IF own.op = "stop"
            THEN [own EXCEPT !.pc = "idle", !.op = "none", !.halted = TRUE]
            ELSE [own EXCEPT !.pc = "reset", !.halted = FALSE]
  /\ UNCHANGED <<drv, snd>>

\* StartRx(), also the end of Reconfigure and of Init: uart_rx_enable, then mark
\* the buffer taken, then ready_ = 1.
StartRx == Begin("start", "enable", u)

StartRxEnable ==
  \E r \in EnableRx(drv, 0) :
    OwnerStep("enable", IF r.ok THEN "mark" ELSE "idle", u) /\ drv' = r.d

StartRxMark == OwnerStep("mark", "ready", [u EXCEPT !.free[0] = FALSE]) /\ UNCHANGED drv

StartRxReady ==
  /\ own.pc = "ready" /\ ThreadRuns
  /\ u' = [u EXCEPT !.ready = TRUE]
  /\ own' = [own EXCEPT !.pc = "idle", !.op = "none", !.halted = FALSE]
  /\ UNCHANGED <<drv, snd>>

\* Mutant of Reconfigure: the automatic restart stays on.
ReconfigureRestarting == Begin("reconfigure", "stop", u)

\* Reconfigure(): no automatic restart, StopRx, drop the old bytes, the new line
\* setting, automatic restart again, StartRx.
Reconfigure == Begin("reconfigure", "stop", [u EXCEPT !.restart = FALSE])

\* uart_rx_disable failed: restart_on_disabled_ is restored.
ReconfigureFails == OwnerStep("restore", "idle", [u EXCEPT !.restart = TRUE]) /\ UNCHANGED drv

\* Mutant of ReconfigureReset: the automatic restart is allowed too early.
ReconfigureArmedEarly ==
  OwnerStep("reset", "configure", [u EXCEPT !.rx = <<>>, !.restart = TRUE]) /\ UNCHANGED drv

ReconfigureReset == OwnerStep("reset", "configure", [u EXCEPT !.rx = <<>>]) /\ UNCHANGED drv

\* ApplyLineConfig(): a setting without a baud rate is refused, and the driver
\* may refuse it.
ApplyLineConfig ==
  \E line \in Lines : drv' \in {[drv EXCEPT !.line = line]} \cup {r.d : r \in Faults(drv)}

ReconfigureLine == OwnerStep("configure", "arm", u) /\ ApplyLineConfig

ReconfigureArm == OwnerStep("arm", "enable", [u EXCEPT !.restart = TRUE]) /\ UNCHANGED drv

\* SetBaudrate() and SetLineConfig(): refused while ready_, which lock_ guards; the
\* driver is configured after the unlock, when reception may be on again.
SetLineConfig == ~u.ready /\ Begin("line", "line", u)

SetLineApply == OwnerStep("line", "idle", u) /\ ApplyLineConfig

\* Read(): some of what has been received.  The callback only appends, so it does
\* not matter that the copy is not locked.
Read ==
  \E n \in 1..Len(u.rx) :
    OwnerStep("idle", "idle", [u EXCEPT !.rx = SubSeq(@, n + 1, Len(@))]) /\ UNCHANGED drv

Owner ==
  \/ StopRx \/ StopRxDisable \/ StopRxClear
  \/ StartRx \/ StartRxEnable \/ StartRxMark \/ StartRxReady
  \/ Reconfigure \/ ReconfigureFails \/ ReconfigureReset \/ ReconfigureLine \/ ReconfigureArm
  \/ SetLineConfig \/ SetLineApply \/ Read

-------------------------------------------------------------------------------
(* Send(). *)

SendStep(t, from, to, v) ==
  /\ snd[t].pc = from /\ ThreadRuns /\ ~Locked
  /\ snd' = [snd EXCEPT ![t].pc = to]
  /\ u' = v
  /\ UNCHANGED own

\* A new frame.
SendBegin(t) ==
  /\ snd[t].pc = "idle" /\ ThreadRuns /\ ~Locked
  /\ snd' = [snd EXCEPT ![t] = [pc |-> "copy", frame |-> 1 - @.frame]]
  /\ UNCHANGED <<u, drv, own>>

\* Mutant of SendCheck: tx_busy_ is not looked at.
SendWhileBusy(t) == u.ready /\ SendBegin(t)

\* Refused when not ready or busy.
SendCheck(t) == u.ready /\ ~u.busy /\ SendBegin(t)

SendCopy(t) == SendStep(t, "copy", "mark", [u EXCEPT !.tx = snd[t].frame]) /\ UNCHANGED drv

SendMark(t) == SendStep(t, "mark", "submit", [u EXCEPT !.busy = TRUE]) /\ UNCHANGED drv

\* uart_tx() on the buffer; one frame at a time.
StartTx(d, frame) ==
  IF d.tx # NoFrame THEN {[ok |-> FALSE, d |-> d]}
  ELSE {[ok |-> TRUE, d |-> [d EXCEPT !.tx = frame]]} \cup Faults(d)

SendSubmit(t) ==
  \E r \in StartTx(drv, u.tx) :
    SendStep(t, "submit", IF r.ok THEN "idle" ELSE "undo", u) /\ drv' = r.d

SendUndo(t) == SendStep(t, "undo", "idle", [u EXCEPT !.busy = FALSE]) /\ UNCHANGED drv

Send(t) == SendCheck(t) \/ SendCopy(t) \/ SendMark(t) \/ SendSubmit(t) \/ SendUndo(t)

-------------------------------------------------------------------------------
\* Init() up to uart_rx_enable: members reset, callback registered, line
\* configured.  It ends like StartRx; when it fails earlier, nothing ever happens.
Init ==
  /\ u = [ready |-> FALSE, restart |-> TRUE, busy |-> FALSE, free |-> [b \in Bufs |-> TRUE],
          tx |-> 0, rx |-> <<>>]
  /\ drv \in [rx : {"off"}, dma : {<<>>}, ev : {<<>>}, tx : {NoFrame}, line : {0},
              prompt : Drivers, faults : {0}]
  /\ own = [pc |-> "enable", op |-> "none", halted |-> FALSE]
  /\ snd = [t \in Senders |-> [pc |-> "idle", frame |-> 0]]

Next ==
  \/ Receive \/ BufferFull \/ LineError \/ TxFinish
  \/ Callback \/ Owner
  \/ \E t \in Senders : Send(t)

Spec == Init /\ [][Next]_vars

-------------------------------------------------------------------------------
Events ==
  {<<"rdy", l>> : l \in Lines} \cup {<<"released", b>> : b \in Bufs}
  \cup {<<"request">>, <<"disabled">>, <<"done">>}

\* The type invariant of the stream, its driver and the threads.
TypeOK ==
  /\ u \in [ready : BOOLEAN, restart : BOOLEAN, busy : BOOLEAN, free : [Bufs -> BOOLEAN],
            tx : Frames, rx : BoundedSeq(Lines, Capacity)]
  /\ drv.rx \in {"off", "on", "stopping"} /\ drv.tx \in Frames \cup {NoFrame}
  /\ drv.dma \in BoundedSeq(Bufs, 2) /\ (drv.dma # <<>> <=> drv.rx = "on")
  /\ drv.line \in Lines /\ drv.prompt \in Drivers /\ drv.faults \in 0..MaxFaults
  /\ \A i \in DOMAIN drv.ev : drv.ev[i] \in Events
  /\ own.pc \in {"idle", "stop", "clear", "restore", "reset", "configure", "arm",
                 "enable", "mark", "ready", "line"}
  /\ own.op \in OwnerOps \cup {"none"} /\ own.halted \in BOOLEAN
  /\ snd \in [Senders -> [pc : {"idle", "copy", "mark", "submit", "undo"}, frame : Frames]]

\* The transmit buffer is not touched while the hardware still sends from it,
\* although busy_ is set after the copy and cleared by the callback (uart.cpp:210-217).
FrameInFlightIntact == drv.tx # NoFrame => u.tx = drv.tx

\* Reception never runs with ready_ at 0, which would refuse every Send: whatever
\* the automatic restart and StartRx do to each other around a Reconfigure
\* (uart.cpp:106-116, :288-290).  A StopRx of the user is excepted.
RunningIsReady ==
  own.pc \in {"idle"} /\ ~own.halted /\ drv.ev = <<>> /\ drv.rx = "on"
    => u.ready

\* Reconfigure changes the line setting of a receiver at rest: from its StopRx
\* until it allows the automatic restart again nothing is received, although the
\* UART_RX_DISABLED of that StopRx, and those of errors before it, may still be
\* on their way (uart.cpp:262-263: no change of the baud rate while running).
LineChangesAtRest ==
  own.op = "reconfigure" /\ own.pc \in {"clear", "reset", "configure", "arm"}
    => drv.rx # "on"

\* The buffer the driver fills next is not the one it fills now
\* (ARCHITECTURE.md:496).
SpareIsAnother == Len(drv.dma) = 2 => drv.dma[1] # drv.dma[2]

\* What rx_bip_ holds when Reconfigure has changed the line setting was received
\* under the new one (uart.cpp:280).  It does not hold: a driver that raises
\* UART_RX_RDY of the old setting after the Reset, see README.md.
OldBytesDiscarded ==
  own.op = "reconfigure" /\ own.pc \in {"configure", "arm", "enable", "mark", "ready"}
    => \A i \in DOMAIN u.rx : u.rx[i] = drv.line

\* StopRx that returned true has stopped reception (uart.cpp:245).
StopStops == own.pc = "idle" /\ own.halted /\ drv.ev = <<>> => drv.rx = "off"

===============================================================================

---------------------------------- MODULE Usb ----------------------------------
(***************************************************************************)
(* The USB CDC ACM stream: Usb (Send, Read), UsbCdcAcm and UsbDevPort on   *)
(* top of the external HAL, against a host.  The HAL calls back in its     *)
(* interrupt, so one event is handled in one step; Send and Read hold      *)
(* spinlocks.  What goes on is the order of events: resets, configuration, *)
(* control transfers cut short, bulk completions, failures, sends.         *)
(*                                                                         *)
(* Fields of s:                                                            *)
(*   UsbDevPort  state state_   conf configuration_   stage ep0_stage_     *)
(*               class class_setup_   speed speed_                         *)
(*   UsbCdcAcm   mps bulk_mps_   dtr dtr_                                  *)
(*   Usb         configured configured_   busy tx_busy_   qmps bulk_mps_   *)
(*               rx rx_queue_   sem sem_                                   *)
(*   HAL         ep0 the stage armed on EP0   open the open endpoints      *)
(*               in the transfer armed on bulk IN   out is bulk OUT armed? *)
(*               faults the calls that failed   lost did a recovery fail?  *)
(*                                                                         *)
(* A piece of received data is the number of the configuration it came in  *)
(* with.  Left out: the contents of descriptors and of the line coding,    *)
(* which nothing here acts on, rts_, halted endpoints, overflow_, and      *)
(* UsbDevPort::Stop, which nothing calls.                                  *)
(***************************************************************************)
EXTENDS Integers, Sequences, SequencesExt

CONSTANTS
  Lengths,     \* how long a frame can be, in bytes: at most kTxBufSize
  RequireDtr,  \* require_dtr: is Send refused until the host sets DTR?
  Capacity,    \* pieces that fit into rx_queue_
  MaxFaults    \* bound: HAL calls that fail

ASSUME UsbAssumption ==
  /\ Lengths \subseteq 1..256 /\ RequireDtr \in BOOLEAN
  /\ Capacity \in Nat \ {0} /\ MaxFaults \in Nat

VARIABLES
  s,    \* the device
  host  \* the control transfer under way, is a bulk message unfinished, configuration number

vars == <<s, host>>

Speeds == {"Full", "High"}
Stages == {"DataIn", "DataOut", "StatusIn", "StatusOut"}
Endpoints == {"int", "out", "in"}

\* Nothing on EP0; nothing armed on bulk IN; the zero length packet.
None == "none"
NoTransfer == -1
Zlp == 0

\* The requests of the host, by what becomes of them.
InRequests == {"GetStatus", "GetDescriptor", "GetConfiguration", "GetInterface"}
StatusRequests == {"Feature", "SetInterface"}
ClassRequests == {"SetLineCoding", "GetLineCoding", "SetDtr", "ClearDtr", "SendBreak", "BadClass"}
Requests == InRequests \cup StatusRequests \cup ClassRequests
            \cup {"SetAddress", "Configure", "Unconfigure", "Bad"}

-------------------------------------------------------------------------------
(* HAL calls: a failure leaves the call's effect out and counts. *)

Failing(v) == IF v.faults < MaxFaults THEN {[v EXCEPT !.faults = @ + 1]} ELSE {}

Stall0(v) == [v EXCEPT !.ep0 = "stall"]

Open(v, eps) == [v EXCEPT !.open = @ \cup eps]

\* EpClose drops what is armed on the endpoint.
Close(v, eps) ==
  [v EXCEPT !.open = @ \ eps,
            !.in = IF "in" \in eps THEN NoTransfer ELSE @,
            !.out = @ /\ "out" \notin eps]

\* EpStartRx() and EpStartTx(): the outcomes as pairs of success and device.
StartRx(v) ==
  IF "out" \in v.open THEN {<<TRUE, [v EXCEPT !.out = TRUE]>>} \cup {<<FALSE, f>> : f \in Failing(v)}
  ELSE {<<FALSE, v>>}

StartTx(v, len) ==
  IF "in" \in v.open THEN {<<TRUE, [v EXCEPT !.in = len]>>} \cup {<<FALSE, f>> : f \in Failing(v)}
  ELSE {<<FALSE, v>>}

-------------------------------------------------------------------------------
(* Usb and UsbCdcAcm. *)

\* Mutant of Unconfigured: the busy flag survives.
UnconfiguredBusy(v) ==
  [v EXCEPT !.dtr = FALSE, !.configured = FALSE, !.qmps = 64, !.rx = <<>>, !.lost = FALSE]

\* OnConfigured(false) of both.
Unconfigured(v) ==
  [v EXCEPT !.dtr = FALSE, !.configured = FALSE, !.qmps = 64, !.busy = FALSE, !.rx = <<>>,
            !.lost = FALSE]

\* UsbCdcAcm::OnConfigured(true): the packet size of the speed.
PacketSize(v) == [v EXCEPT !.mps = IF v.speed = "High" THEN 512 ELSE 64]

\* NotifyConfigured(), Usb::OnConfigured(true).
Configured(v) == [v EXCEPT !.configured = TRUE, !.qmps = v.mps]

\* Mutant of OnBulkIn: the packet size of high speed for both speeds.
OnBulkInHigh(v, len) ==
  IF v.configured /\ len # 0 /\ len % 512 = 0
  THEN {IF r[1] THEN r[2] ELSE [r[2] EXCEPT !.busy = FALSE, !.lost = TRUE] : r \in StartTx(v, Zlp)}
  ELSE {[v EXCEPT !.busy = FALSE]}

\* OnBulkIn(): a transfer that ends on a packet boundary is closed by a zero
\* length packet, and stays busy until that is out.
OnBulkIn(v, len) ==
  IF v.configured /\ len # 0 /\ len % v.qmps = 0
  THEN {IF r[1] THEN r[2] ELSE [r[2] EXCEPT !.busy = FALSE, !.lost = TRUE] : r \in StartTx(v, Zlp)}
  ELSE {[v EXCEPT !.busy = FALSE]}

\* Mutant of Push: no look at the room that is left.
PushBlindly(v, piece) == [v EXCEPT !.rx = Append(@, piece), !.sem = TRUE]

\* Push(): stored and announced when there is room.  Nothing (an error, a zero
\* length packet) may or may not be announced: that is up to BipBuffer.
Push(v, piece) ==
  IF Len(v.rx) < Capacity THEN [v EXCEPT !.rx = Append(@, piece), !.sem = TRUE] ELSE v

PushNothing(v) == {v, [v EXCEPT !.sem = TRUE]}

\* Send(): checks, busy flag and EpStartTx in one critical section.
Send ==
  /\ s.configured /\ (RequireDtr => s.dtr) /\ ~s.busy
  /\ \E len \in Lengths : \E r \in StartTx(s, len) : s' = [r[2] EXCEPT !.busy = r[1]]
  /\ UNCHANGED host

\* Read(): some of what has been received.
Read ==
  /\ \E n \in 1..Len(s.rx) : s' = [s EXCEPT !.rx = SubSeq(@, n + 1, Len(@))]
  /\ UNCHANGED host

\* The reader waits for sem_.
TakeSem == s.sem /\ s' = [s EXCEPT !.sem = FALSE] /\ UNCHANGED host

-------------------------------------------------------------------------------
(* UsbDevPort. *)

\* SubmitDataIn, SubmitDataOut, SubmitStatusIn, SubmitStatusOut: enter the stage
\* and arm EP0; a failure stalls.
Submit(v, stage) ==
  {[v EXCEPT !.stage = stage, !.ep0 = stage]}
  \cup {Stall0([f EXCEPT !.stage = "Idle"]) : f \in Failing(v)}

ResetState(v) == [v EXCEPT !.state = "Default", !.conf = 0, !.stage = "Idle"]

\* OnEvent(Reset), OnEvent(Disconnected).  The bus reset clears EP0.
OnReset(v) == [Unconfigured(Close(ResetState(v), Endpoints)) EXCEPT !.ep0 = None]

\* SetupCdcEndpoints(): three endpoints and the first reception; on a failure
\* those that opened are closed again.
SetupCdcEndpoints(v) ==
  {<<TRUE, [Open(v, Endpoints) EXCEPT !.out = TRUE]>>} \cup {<<FALSE, f>> : f \in Failing(v)}

\* Mutant of TornDown: the new configuration is laid over the old one.
KeptUp(v) == v

\* A configuration that is set while configured is torn down first.
TornDown(v) ==
  IF v.state = "Configured" THEN [Unconfigured(Close(v, Endpoints)) EXCEPT !.state = "Addressed"]
  ELSE v

\* SET_CONFIGURATION with 1 and with 0.
SetConfiguration(v) ==
  UNION { IF r[1] THEN Submit(Configured([r[2] EXCEPT !.state = "Configured", !.conf = 1]), "StatusIn")
          ELSE {Stall0(Unconfigured([r[2] EXCEPT !.state = "Addressed", !.conf = 0]))}
        : r \in SetupCdcEndpoints(PacketSize(TornDown(v))) }

ClearConfiguration(v) ==
  Submit(Unconfigured(Close([v EXCEPT !.state = "Addressed", !.conf = 0], Endpoints)), "StatusIn")

\* HandleClassRequest(): the set-up is kept for the data stage.
HandleClassRequest(v, req) ==
  LET c == [v EXCEPT !.class = req]
  IN  CASE req = "BadClass"      -> {Stall0(c)}
        [] req = "GetLineCoding" -> Submit(c, "DataIn")
        [] req = "SetLineCoding" -> Submit(c, "DataOut")
        [] req = "SendBreak"     -> Submit(c, "StatusIn")
        [] OTHER                 -> Submit([c EXCEPT !.dtr = (req = "SetDtr")], "StatusIn")

HandleStandardRequest(v, req) ==
  CASE req = "SetAddress"     -> Submit([v EXCEPT !.state = "Addressed"], "StatusIn")
    [] req = "Configure"      -> SetConfiguration(v)
    [] req = "Unconfigure"    -> ClearConfiguration(v)
    [] req \in InRequests     -> Submit(v, "DataIn")
    [] req \in StatusRequests -> Submit(v, "StatusIn")
    [] OTHER                  -> {Stall0(v)}

\* Mutant of HandleSetup: the old stage goes on.
HandleSetupInStage(v, req) ==
  LET i == [v EXCEPT !.ep0 = None]
  IN  IF req \in ClassRequests THEN HandleClassRequest(i, req) ELSE HandleStandardRequest(i, req)

\* HandleSetup(): whatever EP0 was doing is over.
HandleSetup(v, req) ==
  LET i == [v EXCEPT !.stage = "Idle", !.ep0 = None]
  IN  IF req \in ClassRequests THEN HandleClassRequest(i, req) ELSE HandleStandardRequest(i, req)

\* HandleTransferComplete() on EP0; ok is false for an error or for data that
\* CompleteControlOut refuses.
HandleEp0Complete(v, ok) ==
  LET i == [v EXCEPT !.ep0 = None]
      idle == [i EXCEPT !.stage = "Idle"]
  IN  CASE v.stage = "Idle"             -> {i}
        [] v.stage # "Idle" /\ ~ok      -> {Stall0(idle)}
        [] v.stage = "DataIn" /\ ok     -> Submit(i, "StatusOut")
        [] v.stage = "DataOut" /\ ok    ->
             IF v.class = "SetLineCoding" THEN Submit(i, "StatusIn") ELSE {Stall0(idle)}
        [] v.stage \in {"StatusIn", "StatusOut"} /\ ok -> {idle}

\* RecoverRxEndpoint(): close, open, receive.  What fails is only logged.
RecoverRxEndpoint(v) ==
  LET closed == Close(v, {"out"})
  IN  {[f EXCEPT !.lost = TRUE] : f \in Failing(closed)}
      \cup {IF r[1] THEN r[2] ELSE [r[2] EXCEPT !.lost = TRUE] : r \in StartRx(Open(closed, {"out"}))}

\* Mutant of RequeueRx: no recovery.
RequeueRxOnce(v) == {r[2] : r \in StartRx(v)}

\* RequeueRx().
RequeueRx(v) == UNION {IF r[1] THEN {r[2]} ELSE RecoverRxEndpoint(r[2]) : r \in StartRx(v)}

\* HandleTransferComplete() on bulk OUT: the data goes up, reception goes on.
HandleOutComplete(v, piece) ==
  LET up == Push([v EXCEPT !.out = FALSE], piece)
  IN  IF up.state = "Configured" THEN RequeueRx(up) ELSE {up}

HandleOutError(v) == UNION {RecoverRxEndpoint(up) : up \in PushNothing([v EXCEPT !.out = FALSE])}

\* HandleTransferComplete() on bulk IN.  After an error the stream hears of
\* nothing sent, then the endpoint is closed and opened again.
HandleInComplete(v) == OnBulkIn([v EXCEPT !.in = NoTransfer], v.in)

HandleInError(v) ==
  LET reset(w) == Close(w, {"in"})
  IN  UNION { {Open(reset(w), {"in"})} \cup {[f EXCEPT !.lost = TRUE] : f \in Failing(reset(w))}
            : w \in OnBulkIn([v EXCEPT !.in = NoTransfer], 0) }

-------------------------------------------------------------------------------
(* The host and the bus. *)

\* SETUP may cut a control transfer short.  The address comes first, and only
\* while the device is not configured.
Setup ==
  \E req \in Requests :
    /\ req = "SetAddress" => s.state # "Configured"
    /\ req \in {"Configure", "Unconfigure"} => s.state # "Default"
    /\ s' \in HandleSetup(s, req)
    /\ host' = [host EXCEPT !.ctl = req,
                            !.unended = @ /\ req \notin {"Configure", "Unconfigure"},
                            !.number = IF s'.configured /\ req = "Configure" THEN 1 - @ ELSE @]

\* A stage of the control transfer completes; after the status stage it is over.
Ep0Complete ==
  \E ok \in BOOLEAN :
    /\ s.ep0 \in Stages
    /\ s' \in HandleEp0Complete(s, ok)
    /\ host' = [host EXCEPT !.ctl = IF s.ep0 \in {"StatusIn", "StatusOut"} THEN None ELSE @]

\* The host sees the stall and gives up.
SeeStall ==
  /\ host.ctl # None /\ s.ep0 = "stall"
  /\ host' = [host EXCEPT !.ctl = None] /\ UNCHANGED s

Reset ==
  /\ s' = OnReset(s)
  /\ host' = [host EXCEPT !.ctl = None, !.unended = FALSE]

Connected ==
  /\ s.state = "Default"
  /\ \E speed \in Speeds : s' = [s EXCEPT !.speed = speed]
  /\ UNCHANGED host

\* The host takes the transfer: it goes on collecting when it ends on a packet
\* boundary.
InComplete ==
  /\ s.in # NoTransfer
  /\ s' \in HandleInComplete(s)
  /\ host' = [host EXCEPT !.unended = s.in # Zlp /\ s.in % s.mps = 0]

InError ==
  /\ s.in # NoTransfer
  /\ s' \in HandleInError(s)
  /\ host' = [host EXCEPT !.unended = FALSE]

OutComplete == s.out /\ s' \in HandleOutComplete(s, host.number) /\ UNCHANGED host

OutError == s.out /\ s' \in HandleOutError(s) /\ UNCHANGED host

Init ==
  /\ s = [state |-> "Default", conf |-> 0, stage |-> "Idle", class |-> None, speed |-> "Full",
          mps |-> 64, dtr |-> FALSE, configured |-> FALSE, busy |-> FALSE, qmps |-> 64,
          rx |-> <<>>, sem |-> FALSE, ep0 |-> None, open |-> {}, in |-> NoTransfer, out |-> FALSE,
          faults |-> 0, lost |-> FALSE]
  /\ host = [ctl |-> None, unended |-> FALSE, number |-> 0]

Next ==
  \/ Send \/ Read \/ TakeSem
  \/ Setup \/ Ep0Complete \/ SeeStall \/ Reset \/ Connected
  \/ InComplete \/ InError \/ OutComplete \/ OutError

Spec == Init /\ [][Next]_vars

-------------------------------------------------------------------------------
\* The type invariant of the device and the host.
TypeOK ==
  /\ s.state \in {"Default", "Addressed", "Configured"} /\ s.conf \in {0, 1}
  /\ s.stage \in Stages \cup {"Idle"} /\ s.ep0 \in Stages \cup {None, "stall"}
  /\ s.class \in ClassRequests \cup {None} /\ s.speed \in Speeds
  /\ s.mps \in {64, 512} /\ s.qmps \in {64, 512}
  /\ {s.dtr, s.configured, s.busy, s.sem, s.out, s.lost} \subseteq BOOLEAN
  /\ s.rx \in BoundedSeq({0, 1}, Capacity)
  /\ s.open \subseteq Endpoints /\ s.in \in Lengths \cup {NoTransfer, Zlp} /\ s.faults \in 0..MaxFaults
  /\ host \in [ctl : Requests \cup {None}, unended : BOOLEAN, number : {0, 1}]

\* The stream is configured exactly while the device is, with its endpoints open
\* and a reception under way, after any order of resets, reconfigurations and
\* single failures; only a recovery that itself failed may leave it deaf
\* (usb_dev_port.cpp:156-198, :396-404, :459-465).
ConfiguredIsUsable ==
  /\ s.configured <=> s.state = "Configured"
  /\ s.configured => s.conf = 1 /\ s.qmps = s.mps
  /\ s.configured /\ ~s.lost => s.open = Endpoints /\ s.out

\* tx_busy_ stands for a transfer that is really under way: it neither sticks after
\* a reset, an error or a failed start, nor lets a second Send in before the zero
\* length packet is out (usb.cpp:94-151).
BusyMeansInFlight == s.busy <=> s.in # NoTransfer

\* The reader never gets data of an earlier configuration (usb.cpp:79-85).
SessionsDoNotMix == s.rx # <<>> => s.configured /\ \A i \in DOMAIN s.rx : s.rx[i] = host.number

\* The host never takes two frames for one: a frame that ends on a packet boundary
\* is closed before the next one starts, unless a HAL call failed (usb.cpp:103-109).
FramesDoNotMerge == s.in \notin {NoTransfer, Zlp} /\ host.unended => s.lost

\* Whatever SETUP cuts short and whatever call fails, a host that waits for EP0 finds
\* the stage the device is in, or a stall (usb_dev_port.cpp:72-92, :265-335, :342-380).
HostIsAnswered ==
  /\ host.ctl # None => s.ep0 # None
  /\ s.ep0 \in Stages => s.stage = s.ep0
  /\ s.stage = "DataOut" => s.class = host.ctl

===============================================================================

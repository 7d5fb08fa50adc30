------------------------------- MODULE UsbProofs -------------------------------
(***************************************************************************)
(* Proofs about Usb, for every frame length, every size of the receive     *)
(* queue and any number of failing HAL calls: the stream is usable while   *)
(* it is configured, its busy flag is true, configurations and frames are  *)
(* kept apart, and the host is always answered on EP0.                     *)
(***************************************************************************)
EXTENDS Usb, SequenceTheorems, TLAPS

Members ==
  {"state", "conf", "stage", "class", "speed", "mps", "dtr", "configured", "busy", "qmps", "rx",
   "sem", "ep0", "open", "in", "out", "faults", "lost"}

\* The type of a device, member by member.
Device(v) ==
  /\ DOMAIN v = Members
  /\ v.state \in {"Default", "Addressed", "Configured"} /\ v.conf \in {0, 1}
  /\ v.stage \in Stages \cup {"Idle"} /\ v.ep0 \in Stages \cup {None, "stall"}
  /\ v.class \in ClassRequests \cup {None} /\ v.speed \in Speeds
  /\ v.mps \in {64, 512} /\ v.qmps \in {64, 512}
  /\ v.dtr \in BOOLEAN /\ v.configured \in BOOLEAN /\ v.busy \in BOOLEAN
  /\ v.sem \in BOOLEAN /\ v.out \in BOOLEAN /\ v.lost \in BOOLEAN
  /\ v.rx \in Seq({0, 1}) /\ Len(v.rx) <= Capacity
  /\ v.open \subseteq Endpoints /\ v.in \in Lengths \cup {NoTransfer, Zlp}
  /\ v.faults \in Nat /\ v.faults <= MaxFaults

HostType == [ctl : Requests \cup {None}, unended : BOOLEAN, number : {0, 1}]

\* The stream: configured with the device, deaf only after a lost recovery, quiet
\* while it is not configured.
Usable(v) ==
  /\ v.configured <=> v.state = "Configured"
  /\ v.configured => v.conf = 1 /\ v.qmps = v.mps
  /\ v.configured /\ ~v.lost => v.open = Endpoints /\ v.out
  /\ ~v.configured => v.in = NoTransfer /\ ~v.out /\ v.rx = <<>>

Busy(v) == v.busy <=> v.in # NoTransfer

\* EP0 is armed for the stage the device is in, and for no other.
Armed(v) == /\ v.stage # "Idle" => v.ep0 = v.stage
            /\ v.ep0 \in Stages => v.stage = v.ep0

\* Two devices that differ in what EP0 does, and two that differ in the stream.
SameStream(v, w) ==
  /\ w.state = v.state /\ w.conf = v.conf /\ w.mps = v.mps /\ w.qmps = v.qmps
  /\ w.configured = v.configured /\ w.busy = v.busy /\ w.rx = v.rx /\ w.open = v.open
  /\ w.in = v.in /\ w.out = v.out /\ w.lost = v.lost

SameControl(v, w) == w.stage = v.stage /\ w.ep0 = v.ep0 /\ w.class = v.class

-------------------------------------------------------------------------------
(* HAL calls. *)

\* A failing call changes the number of faults and nothing else.
LEMMA FailingSound ==
  ASSUME NEW v, Device(v), NEW f \in Failing(v)
  PROVE  Device(f) /\ SameStream(v, f) /\ SameControl(v, f)
<1>1. v.faults < MaxFaults /\ f = [v EXCEPT !.faults = @ + 1]
  BY DEF Failing
<1>2. Device(f)
  BY <1>1, UsbAssumption DEF UsbAssumption, Device, Members
<1>3. SameStream(v, f) /\ SameControl(v, f)
  BY <1>1 DEF Device, Members, SameStream, SameControl
<1> QED
  BY <1>2, <1>3

\* StartTx arms bulk IN, or fails and leaves it alone.
LEMMA StartTxSound ==
  ASSUME NEW v, Device(v), NEW len \in Lengths \cup {Zlp}, NEW r \in StartTx(v, len)
  PROVE  /\ r[1] \in BOOLEAN /\ Device(r[2]) /\ SameControl(v, r[2])
         /\ r[1] => SameStream([v EXCEPT !.in = len], r[2])
         /\ ~r[1] => SameStream(v, r[2])
<1>1. CASE r = <<TRUE, [v EXCEPT !.in = len]>>
  <2> DEFINE y == [v EXCEPT !.in = len]
  <2>1. r[1] = TRUE /\ r[2] = y
    BY <1>1
  <2>2. Device(y)
    BY DEF Device, Members
  <2>3. SameControl(v, y)
    BY DEF Device, Members, SameControl
  <2>4. SameStream(y, y)
    BY DEF SameStream
  <2> QED
    BY <2>1, <2>2, <2>3, <2>4
<1>2. CASE \E f \in Failing(v) \cup {v} : r = <<FALSE, f>>
  <2>1. PICK f \in Failing(v) \cup {v} : r = <<FALSE, f>>
    BY <1>2
  <2>2. Device(f) /\ SameStream(v, f) /\ SameControl(v, f)
    BY <2>1, FailingSound DEF SameStream, SameControl
  <2> QED
    BY <2>1, <2>2
<1> QED
  BY <1>1, <1>2 DEF StartTx

\* StartRx arms bulk OUT, or fails and leaves it alone.
LEMMA StartRxSound ==
  ASSUME NEW v, Device(v), NEW r \in StartRx(v)
  PROVE  /\ r[1] \in BOOLEAN /\ Device(r[2]) /\ SameControl(v, r[2])
         /\ r[1] => SameStream([v EXCEPT !.out = TRUE], r[2])
         /\ ~r[1] => SameStream(v, r[2])
<1>1. CASE r = <<TRUE, [v EXCEPT !.out = TRUE]>>
  <2> DEFINE y == [v EXCEPT !.out = TRUE]
  <2>1. r[1] = TRUE /\ r[2] = y
    BY <1>1
  <2>2. Device(y)
    BY DEF Device, Members
  <2>3. SameControl(v, y)
    BY DEF Device, Members, SameControl
  <2>4. SameStream(y, y)
    BY DEF SameStream
  <2> QED
    BY <2>1, <2>2, <2>3, <2>4
<1>2. CASE \E f \in Failing(v) \cup {v} : r = <<FALSE, f>>
  <2>1. PICK f \in Failing(v) \cup {v} : r = <<FALSE, f>>
    BY <1>2
  <2>2. Device(f) /\ SameStream(v, f) /\ SameControl(v, f)
    BY <2>1, FailingSound DEF SameStream, SameControl
  <2> QED
    BY <2>1, <2>2
<1> QED
  BY <1>1, <1>2 DEF StartRx

-------------------------------------------------------------------------------
(* The stream. *)

\* OnConfigured(false) leaves a quiet stream, if the endpoints are closed.
LEMMA UnconfiguredSound ==
  ASSUME NEW v, Device(v)
  PROVE  /\ Device(Unconfigured(v)) /\ SameControl(v, Unconfigured(v))
         /\ Unconfigured(v).state = v.state /\ Unconfigured(v).conf = v.conf
         /\ Unconfigured(v).in = v.in /\ Unconfigured(v).out = v.out
         /\ Unconfigured(v).open = v.open /\ Unconfigured(v).speed = v.speed
         /\ Unconfigured(v).mps = v.mps /\ Unconfigured(v).rx = <<>>
         /\ ~Unconfigured(v).configured /\ ~Unconfigured(v).busy
<1>1. Len(<<>>) <= Capacity /\ <<>> \in Seq({0, 1})
  BY UsbAssumption DEF UsbAssumption
<1> QED
  BY <1>1 DEF Unconfigured, Device, Members, SameControl

\* Close leaves nothing armed on what it closes.
LEMMA CloseSound ==
  ASSUME NEW v, Device(v), NEW eps \in SUBSET Endpoints
  PROVE  /\ Device(Close(v, eps)) /\ SameControl(v, Close(v, eps))
         /\ Close(v, eps).in = IF "in" \in eps THEN NoTransfer ELSE v.in
         /\ "out" \notin eps => Close(v, eps).out = v.out
         /\ "out" \in eps => ~Close(v, eps).out
         /\ Close(v, eps).open = v.open \ eps
         /\ Close(v, eps).state = v.state /\ Close(v, eps).conf = v.conf
         /\ Close(v, eps).mps = v.mps /\ Close(v, eps).qmps = v.qmps
         /\ Close(v, eps).configured = v.configured /\ Close(v, eps).busy = v.busy
         /\ Close(v, eps).rx = v.rx /\ Close(v, eps).lost = v.lost
<1> DEFINE input == IF "in" \in eps THEN NoTransfer ELSE v.in
           output == v.out /\ "out" \notin eps
           y == [v EXCEPT !.open = @ \ eps, !.in = input, !.out = output]
<1>1. Close(v, eps) = y
  BY DEF Close
<1>2. /\ input \in Lengths \cup {NoTransfer, Zlp} /\ output \in BOOLEAN
      /\ "out" \notin eps => output = v.out
      /\ "out" \in eps => ~output
  BY DEF Device
<1>3. input = IF "in" \in eps THEN NoTransfer ELSE v.in
  OBVIOUS
<1> HIDE DEF input, output
<1>4. Device(y) /\ y.in = input /\ y.out = output
  BY <1>2 DEF Device, Members
<1>5. /\ SameControl(v, y) /\ y.open = v.open \ eps
      /\ y.state = v.state /\ y.conf = v.conf /\ y.mps = v.mps /\ y.qmps = v.qmps
      /\ y.configured = v.configured /\ y.busy = v.busy /\ y.rx = v.rx /\ y.lost = v.lost
  BY DEF Device, Members, SameControl
<1> QED
  BY <1>1, <1>2, <1>3, <1>4, <1>5

\* What OnBulkIn does to a completed transfer: busy exactly if the zero length packet
\* goes out, which it does unless a call fails after a whole number of packets.
LEMMA OnBulkInSound ==
  ASSUME NEW v, Device(v), Usable(v), v.in = NoTransfer, v.busy,
         NEW len \in Lengths \cup {Zlp}, NEW w \in OnBulkIn(v, len)
  PROVE  /\ Device(w) /\ Usable(w) /\ Busy(w) /\ SameControl(v, w)
         /\ w.rx = v.rx /\ w.state = v.state /\ w.configured = v.configured
         /\ w.in \in {NoTransfer, Zlp}
         /\ v.configured /\ len # Zlp /\ len % v.mps = 0 => w.in = Zlp \/ w.lost
         /\ len = Zlp => w.in = NoTransfer
         /\ v.lost => w.lost
<1>1. CASE v.configured /\ len # 0 /\ len % v.qmps = 0
  <2>1. PICK r \in StartTx(v, Zlp) :
          w = IF r[1] THEN r[2] ELSE [r[2] EXCEPT !.busy = FALSE, !.lost = TRUE]
    BY <1>1 DEF OnBulkIn
  <2>2. /\ r[1] \in BOOLEAN /\ Device(r[2]) /\ SameControl(v, r[2])
        /\ r[1] => SameStream([v EXCEPT !.in = Zlp], r[2])
        /\ ~r[1] => SameStream(v, r[2])
    BY StartTxSound
  <2>3. CASE r[1]
    <3>1. w = r[2] /\ w.in = Zlp
      BY <2>1, <2>2, <2>3 DEF SameStream, Device, Members
    <3>2. /\ w.state = v.state /\ w.conf = v.conf /\ w.mps = v.mps /\ w.qmps = v.qmps
          /\ w.configured = v.configured /\ w.busy = v.busy /\ w.rx = v.rx /\ w.open = v.open
          /\ w.out = v.out /\ w.lost = v.lost
      <4>1. PICK z : z = [v EXCEPT !.in = Zlp]
        OBVIOUS
      <4>2. SameStream(z, w)
        BY <2>2, <2>3, <3>1, <4>1
      <4>3. /\ z.state = v.state /\ z.conf = v.conf /\ z.mps = v.mps /\ z.qmps = v.qmps
            /\ z.configured = v.configured /\ z.busy = v.busy /\ z.rx = v.rx
            /\ z.open = v.open /\ z.out = v.out /\ z.lost = v.lost
        BY <4>1 DEF Device, Members
      <4> QED
        BY <4>2, <4>3 DEF SameStream
    <3> QED
      BY <1>1, <2>2, <3>1, <3>2 DEF Usable, Busy, NoTransfer, Zlp
  <2>4. CASE ~r[1]
    <3>0. PICK y : y = r[2]
      OBVIOUS
    <3>1. w = [y EXCEPT !.busy = FALSE, !.lost = TRUE]
      BY <2>1, <2>4, <3>0
    <3>5. Device(y) /\ SameControl(v, y) /\ SameStream(v, y)
      BY <2>2, <2>4, <3>0
    <3>2. Device(w) /\ SameControl(y, w)
      BY <3>1, <3>5 DEF Device, Members, SameControl
    <3>6. /\ y.state = v.state /\ y.conf = v.conf /\ y.mps = v.mps /\ y.qmps = v.qmps
          /\ y.configured = v.configured /\ y.rx = v.rx /\ y.open = v.open
          /\ y.in = v.in /\ y.out = v.out
      BY <3>5 DEF SameStream
    <3>7. /\ w.state = y.state /\ w.conf = y.conf /\ w.mps = y.mps /\ w.qmps = y.qmps
          /\ w.configured = y.configured /\ w.rx = y.rx /\ w.open = y.open
          /\ w.in = y.in /\ w.out = y.out
      BY <3>1, <3>5 DEF Device, Members
    <3>8. ~w.busy /\ w.lost
      BY <3>1, <3>5 DEF Device, Members
    <3>3. /\ w.state = v.state /\ w.conf = v.conf /\ w.mps = v.mps /\ w.qmps = v.qmps
          /\ w.configured = v.configured /\ ~w.busy /\ w.rx = v.rx /\ w.open = v.open
          /\ w.in = v.in /\ w.out = v.out /\ w.lost
      BY <3>6, <3>7, <3>8
    <3>4. SameControl(v, w)
      BY <3>2, <3>5 DEF SameControl
    <3> QED
      BY <1>1, <3>2, <3>3, <3>4 DEF Usable, Busy, NoTransfer, Zlp
  <2> QED
    BY <2>2, <2>3, <2>4
<1>2. CASE ~(v.configured /\ len # 0 /\ len % v.qmps = 0)
  <2>1. w = [v EXCEPT !.busy = FALSE]
    BY <1>2 DEF OnBulkIn
  <2>2. Device(w) /\ SameControl(v, w)
    BY <2>1 DEF Device, Members, SameControl
  <2>3. /\ w.state = v.state /\ w.conf = v.conf /\ w.mps = v.mps /\ w.qmps = v.qmps
        /\ w.configured = v.configured /\ ~w.busy /\ w.rx = v.rx /\ w.open = v.open
        /\ w.in = v.in /\ w.out = v.out /\ w.lost = v.lost
    BY <2>1 DEF Device, Members
  <2>4. Usable(w) /\ Busy(w)
    BY <2>3 DEF Usable, Busy
  <2>5. ~(v.configured /\ len # Zlp /\ len % v.mps = 0)
    BY <1>2 DEF Usable, Zlp
  <2> QED
    BY <2>2, <2>3, <2>4, <2>5
<1> QED
  BY <1>1, <1>2

-------------------------------------------------------------------------------
(* The control endpoint. *)

\* A stall in no stage: the host is answered.
LEMMA StallSound ==
  ASSUME NEW v, Device(v), v.stage = "Idle"
  PROVE  /\ Device(Stall0(v)) /\ SameStream(v, Stall0(v)) /\ Armed(Stall0(v))
         /\ Stall0(v).ep0 # None /\ Stall0(v).stage = "Idle" /\ Stall0(v).class = v.class
<1> DEFINE y == [v EXCEPT !.ep0 = "stall"]
<1>1. Stall0(v) = y
  BY DEF Stall0
<1>2. Device(y)
  BY DEF Device, Members
<1>3. SameStream(v, y) /\ y.ep0 = "stall" /\ y.stage = "Idle" /\ y.class = v.class
  BY DEF Device, Members, SameStream
<1> HIDE DEF y
<1> QED
  BY <1>1, <1>2, <1>3 DEF Armed, Stages, None

\* Submit enters the stage with EP0 armed for it, or stalls.
LEMMA SubmitSound ==
  ASSUME NEW v, Device(v), NEW stage \in Stages, NEW w \in Submit(v, stage)
  PROVE  /\ Device(w) /\ SameStream(v, w) /\ Armed(w)
         /\ w.ep0 # None /\ w.stage \in {stage, "Idle"} /\ w.class = v.class
<1>1. CASE w = [v EXCEPT !.stage = stage, !.ep0 = stage]
  <2>1. Device(w)
    BY <1>1 DEF Device, Members
  <2>2. SameStream(v, w) /\ w.stage = stage /\ w.ep0 = stage /\ w.class = v.class
    BY <1>1 DEF Device, Members, SameStream
  <2> QED
    BY <2>1, <2>2 DEF Armed, Stages, None
<1>2. CASE \E f \in Failing(v) : w = Stall0([f EXCEPT !.stage = "Idle"])
  <2>1. PICK f \in Failing(v) : w = Stall0([f EXCEPT !.stage = "Idle"])
    BY <1>2
  <2> DEFINE y == [f EXCEPT !.stage = "Idle"]
  <2>2. Device(f) /\ SameStream(v, f) /\ SameControl(v, f)
    BY FailingSound
  <2>3. Device(y) /\ y.stage = "Idle"
    BY <2>2 DEF Device, Members
  <2>4. SameStream(v, y) /\ y.class = v.class
    BY <2>2 DEF Device, Members, SameStream, SameControl
  <2>5. w = Stall0(y)
    BY <2>1
  <2> HIDE DEF y
  <2> QED
    BY <2>3, <2>4, <2>5, StallSound DEF SameStream
<1> QED
  BY <1>1, <1>2 DEF Submit

\* A stream that is not configured, at rest.
Quiet(v) == /\ v.state # "Configured" /\ ~v.configured /\ ~v.busy
            /\ v.in = NoTransfer /\ ~v.out /\ v.rx = <<>>

\* Quiet is enough: there is nothing to be usable.
LEMMA QuietSound == ASSUME NEW v, Quiet(v) PROVE Usable(v) /\ Busy(v)
  BY DEF Quiet, Usable, Busy

\* What the stream promises does not see EP0.
LEMMA StreamOnly ==
  ASSUME NEW v, NEW w, SameStream(v, w)
  PROVE  /\ Usable(v) => Usable(w)
         /\ Busy(v) => Busy(w)
         /\ Quiet(v) => Quiet(w)
  BY DEF SameStream, Usable, Busy, Quiet

\* Closing every endpoint of a device that is not configured, and forgetting the
\* session, leaves a quiet stream.
LEMMA TearDownSound ==
  ASSUME NEW v, Device(v)
  PROVE  LET w == Unconfigured(Close(v, Endpoints)) IN
         /\ Device(w) /\ SameControl(v, w) /\ w.state = v.state
         /\ v.state # "Configured" => Quiet(w)
         /\ w.in = NoTransfer /\ ~w.out /\ w.rx = <<>> /\ ~w.configured /\ ~w.busy
<1> DEFINE c == Close(v, Endpoints)
<1>1. /\ Device(c) /\ SameControl(v, c) /\ c.state = v.state
      /\ c.in = NoTransfer /\ ~c.out
  BY CloseSound DEF Endpoints
<1> HIDE DEF c
<1>2. /\ Device(Unconfigured(c)) /\ SameControl(c, Unconfigured(c))
      /\ Unconfigured(c).state = c.state
      /\ Unconfigured(c).in = c.in /\ Unconfigured(c).out = c.out
      /\ Unconfigured(c).rx = <<>> /\ ~Unconfigured(c).configured /\ ~Unconfigured(c).busy
  BY <1>1, UnconfiguredSound
<1>3. SameControl(v, Unconfigured(c))
  BY <1>1, <1>2 DEF SameControl
<1>4. LET w == Unconfigured(c) IN
         /\ Device(w) /\ SameControl(v, w) /\ w.state = v.state
         /\ v.state # "Configured" => Quiet(w)
         /\ w.in = NoTransfer /\ ~w.out /\ w.rx = <<>> /\ ~w.configured /\ ~w.busy
  BY <1>1, <1>2, <1>3 DEF Quiet
<1> QED
  BY <1>4 DEF c

\* The old configuration is gone before the new one is set up.
LEMMA TornDownSound ==
  ASSUME NEW v, Device(v), Usable(v), Busy(v)
  PROVE  Device(TornDown(v)) /\ Quiet(TornDown(v)) /\ SameControl(v, TornDown(v))
<1>1. CASE v.state = "Configured"
  <2> DEFINE c == Unconfigured(Close(v, Endpoints))
             y == [c EXCEPT !.state = "Addressed"]
  <2>1. TornDown(v) = y
    BY <1>1 DEF TornDown
  <2>2. /\ Device(c) /\ SameControl(v, c) /\ c.state = v.state
        /\ c.in = NoTransfer /\ ~c.out /\ c.rx = <<>> /\ ~c.configured /\ ~c.busy
    BY TearDownSound
  <2> HIDE DEF c
  <2>3. Device(y)
    <3>1. Device(c)
      BY <2>2
    <3> QED
      BY <3>1 DEF Device, Members
  <2>4. /\ SameControl(v, y) /\ y.state = "Addressed"
        /\ y.in = NoTransfer /\ ~y.out /\ y.rx = <<>> /\ ~y.configured /\ ~y.busy
    BY <2>2 DEF Device, Members, SameControl
  <2> QED
    BY <2>1, <2>3, <2>4 DEF Quiet
<1>2. CASE v.state # "Configured"
  BY <1>2 DEF TornDown, Quiet, Usable, Busy, SameControl, Device
<1> QED
  BY <1>1, <1>2

\* Setting up the endpoints opens all three and arms the reception, or changes nothing.
LEMMA SetupSound ==
  ASSUME NEW v, Device(v), NEW r \in SetupCdcEndpoints(v)
  PROVE  /\ r[1] \in BOOLEAN /\ Device(r[2]) /\ SameControl(v, r[2])
         /\ r[1] => SameStream([v EXCEPT !.open = Endpoints, !.out = TRUE], r[2])
         /\ ~r[1] => SameStream(v, r[2])
<1>1. CASE r = <<TRUE, [Open(v, Endpoints) EXCEPT !.out = TRUE]>>
  <2> DEFINE y == [v EXCEPT !.open = Endpoints, !.out = TRUE]
  <2>1. r[1] = TRUE /\ r[2] = [Open(v, Endpoints) EXCEPT !.out = TRUE]
    BY <1>1
  <2>2. v.open \cup Endpoints = Endpoints
    BY DEF Device
  <2>3. r[2] = y
    BY <2>1, <2>2 DEF Open, Device, Members
  <2>4. Device(y)
    BY DEF Device, Members
  <2>5. SameControl(v, y)
    BY DEF Device, Members, SameControl
  <2> QED
    BY <2>1, <2>3, <2>4, <2>5 DEF SameStream
<1>2. CASE \E f \in Failing(v) : r = <<FALSE, f>>
  BY <1>2, FailingSound
<1> QED
  BY <1>1, <1>2 DEF SetupCdcEndpoints

\* After SET_CONFIGURATION, whatever fails and from whatever state, the stream is
\* usable and empty, and the host is answered.
LEMMA SetConfigurationSound ==
  ASSUME NEW v, Device(v), Usable(v), Busy(v), v.stage = "Idle",
         NEW w \in SetConfiguration(v)
  PROVE  /\ Device(w) /\ Usable(w) /\ Busy(w) /\ Armed(w) /\ w.ep0 # None
         /\ w.stage \in {"StatusIn", "Idle"} /\ w.rx = <<>> /\ w.in = NoTransfer
<1> DEFINE t == TornDown(v)
           p == PacketSize(t)
<1>1. Device(t) /\ Quiet(t) /\ SameControl(v, t)
  BY TornDownSound
<1> HIDE DEF t
<1>2. Device(p)
  <2>1. Device(t)
    BY <1>1
  <2> QED
    BY <2>1 DEF PacketSize, Device, Members
<1>3. Quiet(p) /\ p.stage = "Idle" /\ p.class = v.class
  BY <1>1 DEF PacketSize, Device, Members, Quiet, SameControl
<1> HIDE DEF p
<1>4. PICK r \in SetupCdcEndpoints(p) :
        \/ r[1] /\ w \in Submit(Configured([r[2] EXCEPT !.state = "Configured", !.conf = 1]), "StatusIn")
        \/ ~r[1] /\ w = Stall0(Unconfigured([r[2] EXCEPT !.state = "Addressed", !.conf = 0]))
  BY DEF SetConfiguration, t, p
<1>5. /\ r[1] \in BOOLEAN /\ Device(r[2]) /\ SameControl(p, r[2])
      /\ r[1] => SameStream([p EXCEPT !.open = Endpoints, !.out = TRUE], r[2])
      /\ ~r[1] => SameStream(p, r[2])
  BY <1>2, SetupSound
<1> DEFINE q == r[2]
<1>6. Device(q) /\ q.stage = "Idle"
  BY <1>3, <1>5 DEF SameControl
<1>7. CASE r[1]
  <2>1. /\ SameStream([p EXCEPT !.open = Endpoints, !.out = TRUE], q)
        /\ w \in Submit(Configured([q EXCEPT !.state = "Configured", !.conf = 1]), "StatusIn")
    BY <1>4, <1>5, <1>7
  <2>2. /\ q.open = Endpoints /\ q.out /\ ~q.busy /\ q.in = NoTransfer /\ q.rx = <<>>
    BY <1>2, <1>3, <2>1 DEF SameStream, Device, Members, Quiet
  <2> HIDE DEF q
  <2> DEFINE y == [q EXCEPT !.state = "Configured", !.conf = 1]
             z == Configured(y)
  <2>3. Device(y)
    BY <1>6 DEF Device, Members
  <2>4. /\ y.state = "Configured" /\ y.conf = 1 /\ y.open = Endpoints /\ y.out
        /\ ~y.busy /\ y.in = NoTransfer /\ y.rx = <<>> /\ y.stage = "Idle"
    BY <1>6, <2>2 DEF Device, Members
  <2> HIDE DEF y
  <2>5. Device(z)
    BY <2>3 DEF Device, Members, Configured
  <2>6. /\ z.state = "Configured" /\ z.conf = 1 /\ z.open = Endpoints /\ z.out
        /\ ~z.busy /\ z.in = NoTransfer /\ z.rx = <<>> /\ z.configured /\ z.qmps = z.mps
    BY <2>3, <2>4 DEF Device, Members, Configured
  <2>7. Usable(z) /\ Busy(z)
    BY <2>6 DEF Usable, Busy
  <2>8. w \in Submit(z, "StatusIn")
    BY <2>1 DEF y
  <2> HIDE DEF z
  <2>9. /\ Device(w) /\ SameStream(z, w) /\ Armed(w)
        /\ w.ep0 # None /\ w.stage \in {"StatusIn", "Idle"}
    BY <2>5, <2>8, SubmitSound DEF Stages
  <2> QED
    BY <2>6, <2>7, <2>9, StreamOnly DEF SameStream
<1>8. CASE ~r[1]
  <2>1. /\ SameStream(p, q)
        /\ w = Stall0(Unconfigured([q EXCEPT !.state = "Addressed", !.conf = 0]))
    BY <1>4, <1>5, <1>8
  <2>2. Quiet(q)
    BY <1>3, <2>1, StreamOnly
  <2> HIDE DEF q
  <2> DEFINE y == [q EXCEPT !.state = "Addressed", !.conf = 0]
             z == Unconfigured(y)
  <2>3. Device(y)
    BY <1>6 DEF Device, Members
  <2>4. Quiet(y) /\ y.stage = "Idle"
    BY <1>6, <2>2 DEF Device, Members, Quiet
  <2> HIDE DEF y
  <2>5. Device(z) /\ Quiet(z) /\ z.stage = "Idle"
    BY <2>3, <2>4, UnconfiguredSound DEF Quiet, SameControl
  <2>6. w = Stall0(z)
    BY <2>1 DEF y
  <2> HIDE DEF z
  <2>7. /\ Device(w) /\ SameStream(z, w) /\ Armed(w) /\ w.ep0 # None /\ w.stage = "Idle"
    BY <2>5, <2>6, StallSound
  <2> QED
    BY <2>5, <2>7, QuietSound, StreamOnly DEF Quiet
<1> QED
  BY <1>5, <1>7, <1>8

\* SET_CONFIGURATION with 0 leaves a quiet stream.
LEMMA ClearConfigurationSound ==
  ASSUME NEW v, Device(v), NEW w \in ClearConfiguration(v)
  PROVE  /\ Device(w) /\ Usable(w) /\ Busy(w) /\ Armed(w) /\ w.ep0 # None
         /\ w.stage \in {"StatusIn", "Idle"} /\ w.rx = <<>> /\ w.in = NoTransfer
<1> DEFINE y == [v EXCEPT !.state = "Addressed", !.conf = 0]
           z == Unconfigured(Close(y, Endpoints))
<1>1. Device(y)
  BY DEF Device, Members
<1>2. y.state = "Addressed"
  BY DEF Device, Members
<1> HIDE DEF y
<1>3. Device(z) /\ Quiet(z)
  BY <1>1, <1>2, TearDownSound
<1>4. w \in Submit(z, "StatusIn")
  BY DEF ClearConfiguration, y
<1> HIDE DEF z
<1>5. /\ Device(w) /\ SameStream(z, w) /\ Armed(w)
      /\ w.ep0 # None /\ w.stage \in {"StatusIn", "Idle"}
  BY <1>3, <1>4, SubmitSound DEF Stages
<1> QED
  BY <1>3, <1>5, QuietSound, StreamOnly DEF Quiet

\* A class request enters a stage or stalls, and its data stage is for it.
LEMMA ClassRequestSound ==
  ASSUME NEW v, Device(v), v.stage = "Idle", NEW req \in ClassRequests,
         NEW w \in HandleClassRequest(v, req)
  PROVE  /\ Device(w) /\ SameStream(v, w) /\ Armed(w) /\ w.ep0 # None
         /\ w.stage = "DataOut" => w.class = req
<1> DEFINE c == [v EXCEPT !.class = req]
           d == [c EXCEPT !.dtr = (req = "SetDtr")]
<1>1. Device(c)
  BY DEF Device, Members
<1>2. SameStream(v, c) /\ c.class = req /\ c.stage = "Idle"
  BY DEF Device, Members, SameStream
<1>3. Device(d) /\ SameStream(v, d)
  <2>1. (req = "SetDtr") \in BOOLEAN
    OBVIOUS
  <2>2. Device(d)
    <3> HIDE DEF c
    <3> QED
      BY <1>1, <2>1 DEF Device, Members
  <2>3. SameStream(v, d)
    BY DEF Device, Members, SameStream
  <2> QED
    BY <2>2, <2>3
<1>4. \/ w = Stall0(c)
      \/ w \in Submit(c, "DataIn") \cup Submit(c, "StatusIn") \cup Submit(d, "StatusIn")
      \/ req = "SetLineCoding" /\ w \in Submit(c, "DataOut")
  BY DEF HandleClassRequest, ClassRequests
<1> HIDE DEF c, d
<1>5. CASE w = Stall0(c)
  BY <1>1, <1>2, <1>5, StallSound DEF SameStream
<1>6. CASE w \in Submit(c, "DataIn") \cup Submit(c, "StatusIn") \cup Submit(c, "DataOut")
  BY <1>1, <1>2, <1>6, SubmitSound DEF SameStream, Stages
<1>7. CASE w \in Submit(d, "StatusIn")
  BY <1>3, <1>7, SubmitSound DEF SameStream, Stages
<1> QED
  BY <1>4, <1>5, <1>6, <1>7

\* HandleSetup: the stream stays usable, a change of configuration empties it, every
\* other request leaves it alone, and the host is answered.
LEMMA HandleSetupSound ==
  ASSUME NEW v, Device(v), Usable(v), Busy(v), NEW req \in Requests,
         req = "SetAddress" => v.state # "Configured", NEW w \in HandleSetup(v, req)
  PROVE  /\ Device(w) /\ Usable(w) /\ Busy(w) /\ Armed(w) /\ w.ep0 # None
         /\ w.stage = "DataOut" => w.class = req
         /\ req \in {"Configure", "Unconfigure"} => w.rx = <<>> /\ w.in = NoTransfer
         /\ req \notin {"Configure", "Unconfigure"} =>
              w.rx = v.rx /\ w.in = v.in /\ w.lost = v.lost /\ w.configured = v.configured
<1> DEFINE i == [v EXCEPT !.stage = "Idle", !.ep0 = None]
<1>1. Device(i)
  BY DEF Device, Members
<1>2. SameStream(v, i) /\ i.stage = "Idle"
  BY DEF Device, Members, SameStream
<1>3. \/ req \in ClassRequests /\ w \in HandleClassRequest(i, req)
      \/ req \notin ClassRequests /\ w \in HandleStandardRequest(i, req)
  BY DEF HandleSetup
<1> HIDE DEF i
<1>4. Usable(i) /\ Busy(i)
  BY <1>2, StreamOnly
<1>5. CASE req \in ClassRequests /\ w \in HandleClassRequest(i, req)
  <2>1. /\ Device(w) /\ SameStream(i, w) /\ Armed(w) /\ w.ep0 # None
        /\ w.stage = "DataOut" => w.class = req
    BY <1>1, <1>2, <1>5, ClassRequestSound
  <2>2. req \notin {"Configure", "Unconfigure"}
    BY <1>5 DEF ClassRequests
  <2>3. Usable(w) /\ Busy(w)
    BY <1>4, <2>1, StreamOnly
  <2> QED
    BY <1>2, <2>1, <2>2, <2>3 DEF SameStream
<1>6. CASE req \notin ClassRequests /\ w \in HandleStandardRequest(i, req)
  <2> DEFINE a == [i EXCEPT !.state = "Addressed"]
  <2>1. \/ req = "SetAddress" /\ w \in Submit(a, "StatusIn")
        \/ req = "Configure" /\ w \in SetConfiguration(i)
        \/ req = "Unconfigure" /\ w \in ClearConfiguration(i)
        \/ /\ req \notin {"SetAddress", "Configure", "Unconfigure"}
           /\ w \in Submit(i, "DataIn") \cup Submit(i, "StatusIn") \cup {Stall0(i)}
    BY <1>6 DEF HandleStandardRequest, InRequests, StatusRequests
  <2>2. CASE req = "SetAddress" /\ w \in Submit(a, "StatusIn")
    <3>1. Device(a)
      BY <1>1 DEF Device, Members
    <3>2. /\ a.state = "Addressed" /\ a.conf = i.conf /\ a.mps = i.mps /\ a.qmps = i.qmps
          /\ a.configured = i.configured /\ a.busy = i.busy /\ a.rx = i.rx /\ a.open = i.open
          /\ a.in = i.in /\ a.out = i.out /\ a.lost = i.lost
      BY <1>1 DEF Device, Members
    <3> HIDE DEF a
    <3>3. i.state # "Configured"
      BY <1>2, <2>2 DEF SameStream
    <3>4. Usable(a) /\ Busy(a)
      BY <1>4, <3>2, <3>3 DEF Usable, Busy
    <3>5. /\ Device(w) /\ SameStream(a, w) /\ Armed(w)
          /\ w.ep0 # None /\ w.stage \in {"StatusIn", "Idle"}
      BY <2>2, <3>1, SubmitSound DEF Stages
    <3>6. Usable(w) /\ Busy(w)
      BY <3>4, <3>5, StreamOnly
    <3> QED
      BY <1>2, <2>2, <3>2, <3>5, <3>6 DEF SameStream
  <2>3. CASE req = "Configure" /\ w \in SetConfiguration(i)
    BY <1>1, <1>2, <1>4, <2>3, SetConfigurationSound
  <2>4. CASE req = "Unconfigure" /\ w \in ClearConfiguration(i)
    BY <1>1, <2>4, ClearConfigurationSound
  <2>5. CASE /\ req \notin {"SetAddress", "Configure", "Unconfigure"}
             /\ w \in Submit(i, "DataIn") \cup Submit(i, "StatusIn") \cup {Stall0(i)}
    <3>1. /\ Device(w) /\ SameStream(i, w) /\ Armed(w)
          /\ w.ep0 # None /\ w.stage # "DataOut"
      BY <1>1, <1>2, <2>5, SubmitSound, StallSound DEF Stages
    <3>2. Usable(w) /\ Busy(w)
      BY <1>4, <3>1, StreamOnly
    <3> QED
      BY <1>2, <2>5, <3>1, <3>2 DEF SameStream
  <2> QED
    BY <2>1, <2>2, <2>3, <2>4, <2>5
<1> QED
  BY <1>3, <1>5, <1>6

\* A stage that completes leads to the next one, to a stall, or, after the status
\* stage, to none; the stream is left alone.
LEMMA Ep0CompleteSound ==
  ASSUME NEW v, Device(v), Armed(v), v.ep0 \in Stages, NEW ok \in BOOLEAN,
         NEW w \in HandleEp0Complete(v, ok)
  PROVE  /\ Device(w) /\ SameStream(v, w) /\ Armed(w) /\ w.stage # "DataOut"
         /\ w.ep0 = None => v.ep0 \in {"StatusIn", "StatusOut"}
<1> DEFINE i == [v EXCEPT !.ep0 = None]
           idle == [i EXCEPT !.stage = "Idle"]
<1>1. Device(i)
  BY DEF Device, Members
<1>2. SameStream(v, i)
  BY DEF Device, Members, SameStream
<1>3. Device(idle)
  BY DEF Device, Members
<1>4. SameStream(v, idle) /\ idle.stage = "Idle" /\ idle.ep0 = None
  BY DEF Device, Members, SameStream
<1>5. v.stage = v.ep0
  BY DEF Armed
<1>6. \/ w \in Submit(i, "StatusOut") \cup Submit(i, "StatusIn") \cup {Stall0(idle)}
      \/ v.ep0 \in {"StatusIn", "StatusOut"} /\ w = idle
  <2>1. v.stage \in Stages /\ v.stage # "Idle"
    BY <1>5 DEF Stages
  <2> HIDE DEF i, idle
  <2>2. w \in CASE v.stage = "Idle"             -> {i}
                [] v.stage # "Idle" /\ ~ok      -> {Stall0(idle)}
                [] v.stage = "DataIn" /\ ok     -> Submit(i, "StatusOut")
                [] v.stage = "DataOut" /\ ok    ->
                     IF v.class = "SetLineCoding" THEN Submit(i, "StatusIn") ELSE {Stall0(idle)}
                [] v.stage \in {"StatusIn", "StatusOut"} /\ ok -> {idle}
    BY DEF HandleEp0Complete, i, idle
  <2> QED
    BY <1>5, <2>1, <2>2 DEF Stages
<1> HIDE DEF i, idle
<1>7. CASE w \in Submit(i, "StatusOut") \cup Submit(i, "StatusIn")
  BY <1>1, <1>2, <1>7, SubmitSound DEF SameStream, Stages
<1>8. CASE w = Stall0(idle)
  BY <1>3, <1>4, <1>8, StallSound DEF SameStream
<1>9. CASE v.ep0 \in {"StatusIn", "StatusOut"} /\ w = idle
  BY <1>3, <1>4, <1>9 DEF Armed, Stages, None
<1> QED
  BY <1>6, <1>7, <1>8, <1>9

-------------------------------------------------------------------------------
(* The bulk endpoints. *)

\* What an event of bulk OUT leaves alone, and what it owes: reception goes on, unless
\* the recovery was lost.
SameSession(v, w) ==
  /\ w.state = v.state /\ w.conf = v.conf /\ w.mps = v.mps /\ w.qmps = v.qmps
  /\ w.configured = v.configured /\ w.busy = v.busy /\ w.rx = v.rx /\ w.in = v.in
  /\ v.lost => w.lost
  /\ SameControl(v, w)

Listening(v) == v.lost \/ (v.open = Endpoints /\ v.out)

\* A session that is the same and listens is as usable as before.
LEMMA SessionSound ==
  ASSUME NEW v, NEW w, v.configured, v.state = "Configured", v.conf = 1, v.qmps = v.mps, Busy(v),
         SameSession(v, w), Listening(w)
  PROVE  Usable(w) /\ Busy(w)
  BY DEF SameSession, Listening, Usable, Busy

\* RecoverRxEndpoint listens again, or is lost.
LEMMA RecoverSound ==
  ASSUME NEW v, Device(v), v.lost \/ v.open = Endpoints, NEW w \in RecoverRxEndpoint(v)
  PROVE  Device(w) /\ SameSession(v, w) /\ Listening(w)
<1> DEFINE c == Close(v, {"out"})
           o == Open(c, {"out"})
<1>1. /\ Device(c) /\ SameSession(v, c) /\ c.open = v.open \ {"out"} /\ c.lost = v.lost
  <2>1. {"out"} \in SUBSET Endpoints /\ "in" \notin {"out"}
    BY DEF Endpoints
  <2> QED
    BY <2>1, CloseSound DEF SameSession
<1>2. \/ \E f \in Failing(c) : w = [f EXCEPT !.lost = TRUE]
      \/ \E r \in StartRx(o) : w = IF r[1] THEN r[2] ELSE [r[2] EXCEPT !.lost = TRUE]
  BY DEF RecoverRxEndpoint
<1> HIDE DEF c
<1>3. Device(o)
  <2>1. Device(c) /\ {"out"} \subseteq Endpoints
    BY <1>1 DEF Endpoints
  <2> QED
    BY <2>1 DEF Open, Device, Members
<1>4. SameSession(v, o) /\ o.open = v.open \cup {"out"} /\ o.lost = v.lost
  BY <1>1 DEF Open, Device, Members, SameSession, SameControl
<1> HIDE DEF o
<1>5. v.lost \/ o.open = Endpoints
  BY <1>4 DEF Endpoints
<1>6. CASE \E f \in Failing(c) : w = [f EXCEPT !.lost = TRUE]
  <2>1. PICK f \in Failing(c) : w = [f EXCEPT !.lost = TRUE]
    BY <1>6
  <2>2. Device(f) /\ SameStream(c, f) /\ SameControl(c, f)
    BY <1>1, FailingSound
  <2>3. Device(w)
    BY <2>1, <2>2 DEF Device, Members
  <2>4. SameSession(f, w) /\ w.lost
    BY <2>1, <2>2 DEF Device, Members, SameSession, SameControl
  <2> QED
    BY <1>1, <2>2, <2>3, <2>4 DEF SameStream, SameSession, SameControl, Listening
<1>7. CASE \E r \in StartRx(o) : w = IF r[1] THEN r[2] ELSE [r[2] EXCEPT !.lost = TRUE]
  <2>1. PICK r \in StartRx(o) : w = IF r[1] THEN r[2] ELSE [r[2] EXCEPT !.lost = TRUE]
    BY <1>7
  <2>2. /\ r[1] \in BOOLEAN /\ Device(r[2]) /\ SameControl(o, r[2])
        /\ r[1] => SameStream([o EXCEPT !.out = TRUE], r[2])
        /\ ~r[1] => SameStream(o, r[2])
    BY <1>3, StartRxSound
  <2>3. CASE r[1]
    <3> DEFINE y == [o EXCEPT !.out = TRUE]
    <3>1. /\ y.state = o.state /\ y.conf = o.conf /\ y.mps = o.mps /\ y.qmps = o.qmps
          /\ y.configured = o.configured /\ y.busy = o.busy /\ y.rx = o.rx /\ y.in = o.in
          /\ y.lost = o.lost /\ y.open = o.open /\ y.out
      BY <1>3 DEF Device, Members
    <3>2. w = r[2] /\ SameStream(y, w) /\ SameControl(o, w)
      BY <2>1, <2>2, <2>3
    <3> HIDE DEF y
    <3> QED
      BY <1>4, <1>5, <2>2, <3>1, <3>2 DEF SameStream, SameSession, SameControl, Listening
  <2>4. CASE ~r[1]
    <3>1. w = [r[2] EXCEPT !.lost = TRUE]
      BY <2>1, <2>4
    <3>2. Device(w)
      BY <2>2, <3>1 DEF Device, Members
    <3>3. SameSession(r[2], w) /\ w.lost
      BY <2>2, <3>1 DEF Device, Members, SameSession, SameControl
    <3> QED
      BY <1>4, <2>2, <2>4, <3>2, <3>3 DEF SameStream, SameSession, SameControl, Listening
  <2> QED
    BY <2>2, <2>3, <2>4
<1> QED
  BY <1>2, <1>6, <1>7

\* So does RequeueRx.
LEMMA RequeueSound ==
  ASSUME NEW v, Device(v), v.lost \/ v.open = Endpoints, NEW w \in RequeueRx(v)
  PROVE  Device(w) /\ SameSession(v, w) /\ Listening(w)
<1>1. PICK r \in StartRx(v) : w \in IF r[1] THEN {r[2]} ELSE RecoverRxEndpoint(r[2])
  BY DEF RequeueRx
<1>2. /\ r[1] \in BOOLEAN /\ Device(r[2]) /\ SameControl(v, r[2])
      /\ r[1] => SameStream([v EXCEPT !.out = TRUE], r[2])
      /\ ~r[1] => SameStream(v, r[2])
  BY StartRxSound
<1>3. CASE r[1]
  <2> DEFINE y == [v EXCEPT !.out = TRUE]
  <2>1. /\ y.state = v.state /\ y.conf = v.conf /\ y.mps = v.mps /\ y.qmps = v.qmps
        /\ y.configured = v.configured /\ y.busy = v.busy /\ y.rx = v.rx /\ y.in = v.in
        /\ y.lost = v.lost /\ y.open = v.open /\ y.out
    BY DEF Device, Members
  <2>2. w = r[2] /\ SameStream(y, w) /\ SameControl(v, w)
    BY <1>1, <1>2, <1>3
  <2> HIDE DEF y
  <2> QED
    BY <1>2, <2>1, <2>2 DEF SameStream, SameSession, Listening
<1>4. CASE ~r[1]
  <2>1. w \in RecoverRxEndpoint(r[2]) /\ SameStream(v, r[2])
    BY <1>1, <1>2, <1>4
  <2>2. r[2].lost \/ r[2].open = Endpoints
    BY <2>1 DEF SameStream
  <2>3. Device(w) /\ SameSession(r[2], w) /\ Listening(w)
    BY <1>2, <2>1, <2>2, RecoverSound
  <2> QED
    BY <1>2, <2>1, <2>3 DEF SameStream, SameSession, SameControl
<1> QED
  BY <1>2, <1>3, <1>4

\* Received data goes up behind what is there, if there is room, and the device goes on
\* receiving.
LEMMA OutCompleteSound ==
  ASSUME NEW v, Device(v), Usable(v), Busy(v), v.out, NEW n \in {0, 1}, v.rx \in Seq({n}),
         NEW w \in HandleOutComplete(v, n)
  PROVE  /\ Device(w) /\ Usable(w) /\ Busy(w) /\ SameControl(v, w)
         /\ w.rx \in Seq({n}) /\ w.in = v.in
         /\ v.lost => w.lost
<1> DEFINE i == [v EXCEPT !.out = FALSE]
           up == Push(i, n)
<1>1. /\ v.configured /\ v.state = "Configured" /\ v.conf = 1 /\ v.qmps = v.mps
      /\ v.lost \/ v.open = Endpoints
  BY DEF Usable
<1>2. Device(i)
  BY DEF Device, Members
<1>3. /\ i.state = v.state /\ i.conf = v.conf /\ i.mps = v.mps /\ i.qmps = v.qmps
      /\ i.configured = v.configured /\ i.busy = v.busy /\ i.rx = v.rx /\ i.in = v.in
      /\ i.lost = v.lost /\ i.open = v.open /\ SameControl(v, i)
  BY DEF Device, Members, SameControl
<1> HIDE DEF i
<1>4. /\ Device(up) /\ up.rx \in Seq({n})
      /\ up.state = i.state /\ up.conf = i.conf /\ up.mps = i.mps /\ up.qmps = i.qmps
      /\ up.configured = i.configured /\ up.busy = i.busy /\ up.in = i.in
      /\ up.lost = i.lost /\ up.open = i.open /\ SameControl(i, up)
  <2>1. CASE Len(i.rx) < Capacity
    <3> DEFINE q == Append(i.rx, n)
               y == [i EXCEPT !.rx = q, !.sem = TRUE]
    <3>1. up = y
      BY <2>1 DEF Push
    <3>2. q \in Seq({0, 1}) /\ q \in Seq({n}) /\ Len(q) <= Capacity
      <4>1. /\ i.rx \in Seq({0, 1}) /\ i.rx \in Seq({n}) /\ Capacity \in Nat
        BY <1>2, <1>3, UsbAssumption DEF Device, UsbAssumption
      <4>2. Len(i.rx) \in Nat /\ Len(q) = Len(i.rx) + 1
        BY <4>1
      <4> QED
        BY <2>1, <4>1, <4>2
    <3> HIDE DEF q
    <3>3. Device(y)
      BY <1>2, <3>2 DEF Device, Members
    <3>4. /\ y.rx = q
          /\ y.state = i.state /\ y.conf = i.conf /\ y.mps = i.mps /\ y.qmps = i.qmps
          /\ y.configured = i.configured /\ y.busy = i.busy /\ y.in = i.in
          /\ y.lost = i.lost /\ y.open = i.open /\ SameControl(i, y)
      BY <1>2 DEF Device, Members, SameControl
    <3> QED
      BY <3>1, <3>2, <3>3, <3>4
  <2>2. CASE ~(Len(i.rx) < Capacity)
    BY <1>2, <1>3, <2>2 DEF Push, SameControl
  <2> QED
    BY <2>1, <2>2
<1>5. w \in RequeueRx(up)
  BY <1>1, <1>3, <1>4 DEF HandleOutComplete, i
<1> HIDE DEF up
<1>6. Device(w) /\ SameSession(up, w) /\ Listening(w)
  BY <1>1, <1>3, <1>4, <1>5, RequeueSound
<1>7. Usable(w) /\ Busy(w)
  <2>1. Busy(up)
    BY <1>3, <1>4 DEF Busy
  <2>2. up.configured /\ up.state = "Configured" /\ up.conf = 1 /\ up.qmps = up.mps
    BY <1>1, <1>3, <1>4
  <2> QED
    BY <1>6, <2>1, <2>2, SessionSound
<1>8. SameControl(v, w)
  <2>1. SameControl(v, i) /\ SameControl(i, up) /\ SameControl(up, w)
    BY <1>3, <1>4, <1>6 DEF SameSession
  <2> QED
    BY <2>1 DEF SameControl
<1>9. w.rx = up.rx /\ w.in = v.in /\ (v.lost => w.lost)
  BY <1>3, <1>4, <1>6 DEF SameSession
<1> QED
  BY <1>4, <1>6, <1>7, <1>8, <1>9

\* After an error nothing goes up, and the endpoint is recovered.
LEMMA OutErrorSound ==
  ASSUME NEW v, Device(v), Usable(v), Busy(v), v.out, NEW w \in HandleOutError(v)
  PROVE  /\ Device(w) /\ Usable(w) /\ Busy(w) /\ SameControl(v, w)
         /\ w.rx = v.rx /\ w.in = v.in
         /\ v.lost => w.lost
<1> DEFINE i == [v EXCEPT !.out = FALSE]
<1>1. /\ v.configured /\ v.state = "Configured" /\ v.conf = 1 /\ v.qmps = v.mps
      /\ v.lost \/ v.open = Endpoints
  BY DEF Usable
<1>2. Device(i)
  BY DEF Device, Members
<1>3. /\ i.state = v.state /\ i.conf = v.conf /\ i.mps = v.mps /\ i.qmps = v.qmps
      /\ i.configured = v.configured /\ i.busy = v.busy /\ i.rx = v.rx /\ i.in = v.in
      /\ i.lost = v.lost /\ i.open = v.open /\ SameControl(v, i)
  BY DEF Device, Members, SameControl
<1>4. PICK up \in {i, [i EXCEPT !.sem = TRUE]} : w \in RecoverRxEndpoint(up)
  BY DEF HandleOutError, PushNothing
<1> HIDE DEF i
<1>5. Device(up) /\ SameSession(i, up) /\ up.open = i.open /\ up.lost = i.lost
  <2>1. CASE up = i
    BY <1>2, <2>1 DEF SameSession, SameControl
  <2>2. CASE up = [i EXCEPT !.sem = TRUE]
    <3>1. Device(up)
      BY <1>2, <2>2 DEF Device, Members
    <3> QED
      BY <1>2, <2>2, <3>1 DEF Device, Members, SameSession, SameControl
  <2> QED
    BY <2>1, <2>2
<1>6. Device(w) /\ SameSession(up, w) /\ Listening(w)
  BY <1>1, <1>3, <1>4, <1>5, RecoverSound
<1>7. Usable(w) /\ Busy(w)
  <2>1. SameSession(v, w)
    BY <1>3, <1>5, <1>6 DEF SameSession, SameControl
  <2> QED
    BY <1>1, <1>6, <2>1, SessionSound
<1> QED
  BY <1>3, <1>5, <1>6, <1>7 DEF SameSession, SameControl

\* A transfer on bulk IN that completes leaves the device busy with its zero length
\* packet, or idle; on a packet boundary it is the former, or a call has failed.
LEMMA InCompleteSound ==
  ASSUME NEW v, Device(v), Usable(v), Busy(v), v.in # NoTransfer, NEW w \in HandleInComplete(v)
  PROVE  /\ Device(w) /\ Usable(w) /\ Busy(w) /\ SameControl(v, w) /\ w.rx = v.rx
         /\ v.in # Zlp /\ v.in % v.mps = 0 => w.in = Zlp \/ w.lost
<1> DEFINE i == [v EXCEPT !.in = NoTransfer]
<1>1. Device(i) /\ i.in = NoTransfer
  BY DEF Device, Members
<1>2. /\ i.state = v.state /\ i.conf = v.conf /\ i.mps = v.mps /\ i.qmps = v.qmps
      /\ i.configured = v.configured /\ i.busy = v.busy /\ i.rx = v.rx /\ i.out = v.out
      /\ i.lost = v.lost /\ i.open = v.open /\ SameControl(v, i)
  BY DEF Device, Members, SameControl
<1>3. w \in OnBulkIn(i, v.in)
  BY DEF HandleInComplete
<1> HIDE DEF i
<1>4. Usable(i) /\ i.busy /\ v.configured
  BY <1>1, <1>2 DEF Usable, Busy
<1>5. v.in \in Lengths \cup {Zlp}
  BY DEF Device
<1>6. /\ Device(w) /\ Usable(w) /\ Busy(w) /\ SameControl(i, w) /\ w.rx = i.rx
      /\ i.configured /\ v.in # Zlp /\ v.in % i.mps = 0 => w.in = Zlp \/ w.lost
  BY <1>1, <1>3, <1>4, <1>5, OnBulkInSound
<1> QED
  BY <1>2, <1>4, <1>6 DEF SameControl

\* One that fails leaves it idle, with the endpoint open again unless that failed.
LEMMA InErrorSound ==
  ASSUME NEW v, Device(v), Usable(v), Busy(v), v.in # NoTransfer, NEW w \in HandleInError(v)
  PROVE  Device(w) /\ Usable(w) /\ Busy(w) /\ SameControl(v, w) /\ w.rx = v.rx
<1> DEFINE i == [v EXCEPT !.in = NoTransfer]
<1>1. Device(i) /\ i.in = NoTransfer
  BY DEF Device, Members
<1>2. /\ i.state = v.state /\ i.conf = v.conf /\ i.mps = v.mps /\ i.qmps = v.qmps
      /\ i.configured = v.configured /\ i.busy = v.busy /\ i.rx = v.rx /\ i.out = v.out
      /\ i.lost = v.lost /\ i.open = v.open /\ SameControl(v, i)
  BY DEF Device, Members, SameControl
<1>3. PICK u \in OnBulkIn(i, 0) :
        \/ w = Open(Close(u, {"in"}), {"in"})
        \/ \E f \in Failing(Close(u, {"in"})) : w = [f EXCEPT !.lost = TRUE]
  BY DEF HandleInError
<1> HIDE DEF i
<1>4. Usable(i) /\ i.busy /\ i.configured
  BY <1>1, <1>2 DEF Usable, Busy
<1>5. /\ Device(u) /\ Usable(u) /\ Busy(u) /\ SameControl(i, u) /\ u.rx = i.rx
      /\ u.configured = i.configured /\ u.in = NoTransfer
  <2>1. u \in OnBulkIn(i, Zlp) /\ Zlp \in Lengths \cup {Zlp}
    BY <1>3 DEF Zlp
  <2> QED
    BY <1>1, <1>4, <2>1, OnBulkInSound
<1> DEFINE c == Close(u, {"in"})
<1>6. /\ Device(c) /\ SameSession(u, c) /\ c.open = u.open \ {"in"}
      /\ c.lost = u.lost /\ c.out = u.out
  <2>1. {"in"} \in SUBSET Endpoints /\ "out" \notin {"in"} /\ "in" \in {"in"}
    BY DEF Endpoints
  <2> QED
    BY <1>5, <2>1, CloseSound DEF SameSession
<1> HIDE DEF c
<1>7. /\ u.state = "Configured" /\ u.conf = 1 /\ u.qmps = u.mps
      /\ u.lost \/ (u.open = Endpoints /\ u.out)
  BY <1>4, <1>5 DEF Usable
<1>8. Device(w) /\ SameSession(u, w) /\ Listening(w)
  <2>1. CASE w = Open(c, {"in"})
    <3>1. Device(c) /\ {"in"} \subseteq Endpoints
      BY <1>6 DEF Endpoints
    <3>2. Device(w)
      BY <2>1, <3>1 DEF Open, Device, Members
    <3>3. /\ SameSession(c, w) /\ w.open = c.open \cup {"in"}
          /\ w.lost = c.lost /\ w.out = c.out
      BY <2>1, <3>1 DEF Open, Device, Members, SameSession, SameControl
    <3>4. w.lost \/ w.open = Endpoints
      BY <1>6, <1>7, <3>3 DEF Endpoints
    <3> QED
      BY <1>6, <1>7, <3>2, <3>3, <3>4 DEF SameSession, SameControl, Listening
  <2>2. CASE \E f \in Failing(c) : w = [f EXCEPT !.lost = TRUE]
    <3>1. PICK f \in Failing(c) : w = [f EXCEPT !.lost = TRUE]
      BY <2>2
    <3>2. Device(f) /\ SameStream(c, f) /\ SameControl(c, f)
      BY <1>6, FailingSound
    <3>3. Device(w)
      BY <3>1, <3>2 DEF Device, Members
    <3>4. SameSession(f, w) /\ w.lost
      BY <3>1, <3>2 DEF Device, Members, SameSession, SameControl
    <3> QED
      BY <1>6, <3>2, <3>3, <3>4 DEF SameStream, SameSession, SameControl, Listening
  <2> QED
    BY <1>3, <2>1, <2>2 DEF c
<1>9. Usable(w) /\ Busy(w)
  BY <1>4, <1>5, <1>7, <1>8, SessionSound
<1> QED
  BY <1>2, <1>5, <1>8, <1>9 DEF SameSession, SameControl

\* Send is busy exactly when it has armed a transfer.
LEMMA SendSound ==
  ASSUME NEW v, Device(v), Usable(v), Busy(v), v.configured, ~v.busy, NEW len \in Lengths,
         NEW r \in StartTx(v, len), NEW w, w = [r[2] EXCEPT !.busy = r[1]]
  PROVE  /\ Device(w) /\ Usable(w) /\ Busy(w) /\ SameControl(v, w)
         /\ w.rx = v.rx /\ w.lost = v.lost
<1> DEFINE q == r[2]
           b == r[1]
<1>1. /\ b \in BOOLEAN /\ Device(q) /\ SameControl(v, q)
      /\ b => SameStream([v EXCEPT !.in = len], q)
      /\ ~b => SameStream(v, q)
  BY StartTxSound
<1>2. len # NoTransfer
  BY UsbAssumption DEF UsbAssumption, NoTransfer
<1>3. /\ q.state = v.state /\ q.conf = v.conf /\ q.mps = v.mps /\ q.qmps = v.qmps
      /\ q.configured = v.configured /\ q.rx = v.rx /\ q.open = v.open
      /\ q.out = v.out /\ q.lost = v.lost
      /\ q.in = IF b THEN len ELSE v.in
  <2> DEFINE y == [v EXCEPT !.in = len]
  <2>1. /\ y.state = v.state /\ y.conf = v.conf /\ y.mps = v.mps /\ y.qmps = v.qmps
        /\ y.configured = v.configured /\ y.rx = v.rx /\ y.open = v.open
        /\ y.out = v.out /\ y.lost = v.lost /\ y.in = len
    BY DEF Device, Members
  <2>2. b => SameStream(y, q)
    BY <1>1
  <2> HIDE DEF y, b, q
  <2> QED
    BY <1>1, <2>1, <2>2 DEF SameStream
<1>4. w = [q EXCEPT !.busy = b]
  OBVIOUS
<1> HIDE DEF q, b
<1>5. Device(w)
  <2>1. Device(q) /\ b \in BOOLEAN
    BY <1>1
  <2> QED
    BY <1>4, <2>1 DEF Device, Members
<1>6. /\ w.state = q.state /\ w.conf = q.conf /\ w.mps = q.mps /\ w.qmps = q.qmps
      /\ w.configured = q.configured /\ w.rx = q.rx /\ w.open = q.open
      /\ w.out = q.out /\ w.lost = q.lost /\ w.in = q.in /\ SameControl(q, w)
  <2>1. Device(q)
    BY <1>1
  <2>2. DOMAIN q = Members
    BY <2>1 DEF Device
  <2>3. SameControl(q, w)
    BY <1>4, <2>2 DEF Members, SameControl
  <2>4. /\ w.state = q.state /\ w.conf = q.conf /\ w.mps = q.mps /\ w.qmps = q.qmps
        /\ w.configured = q.configured /\ w.rx = q.rx
    BY <1>4, <2>2 DEF Members
  <2>5. w.open = q.open /\ w.out = q.out /\ w.lost = q.lost /\ w.in = q.in
    BY <1>4, <2>2 DEF Members
  <2> QED
    BY <2>3, <2>4, <2>5
<1>7. w.busy = b
  BY <1>1, <1>4 DEF Device, Members
<1>8. Usable(w)
  BY <1>3, <1>6 DEF Usable
<1>9. Busy(w)
  BY <1>1, <1>2, <1>3, <1>6, <1>7 DEF Busy
<1> QED
  BY <1>1, <1>3, <1>5, <1>6, <1>8, <1>9 DEF SameControl

\* A bus reset leaves a quiet stream and nothing on EP0.
LEMMA ResetSound ==
  ASSUME NEW v, Device(v)
  PROVE  /\ Device(OnReset(v)) /\ Usable(OnReset(v)) /\ Busy(OnReset(v)) /\ Armed(OnReset(v))
         /\ OnReset(v).rx = <<>> /\ OnReset(v).in = NoTransfer /\ OnReset(v).stage = "Idle"
<1> DEFINE d == ResetState(v)
           z == Unconfigured(Close(d, Endpoints))
           w == [z EXCEPT !.ep0 = None]
<1>1. Device(d)
  BY DEF ResetState, Device, Members
<1>2. d.state = "Default" /\ d.stage = "Idle"
  BY DEF ResetState, Device, Members
<1> HIDE DEF d
<1>3. Device(z) /\ Quiet(z) /\ z.stage = "Idle"
  BY <1>1, <1>2, TearDownSound DEF SameControl
<1>4. OnReset(v) = w
  BY DEF OnReset, d
<1> HIDE DEF z
<1>5. Device(w)
  <2>1. Device(z)
    BY <1>3
  <2> QED
    BY <2>1 DEF Device, Members
<1>6. Quiet(w) /\ w.stage = "Idle" /\ w.ep0 = None
  BY <1>3 DEF Device, Members, Quiet
<1> HIDE DEF w
<1> QED
  BY <1>4, <1>5, <1>6, QuietSound DEF Armed, Quiet, Stages, None

-------------------------------------------------------------------------------
(* The invariant and the theorems. *)

\* The control transfer of the host and the stage of the device belong together.
Talking == /\ host.ctl # None => s.ep0 # None
           /\ s.stage = "DataOut" => s.class = host.ctl

\* A message that is not finished is about to be closed, or a call has failed.
Closed == host.unended => s.lost \/ s.in = Zlp

Inv ==
  /\ Device(s) /\ host \in HostType
  /\ Usable(s) /\ Busy(s) /\ Armed(s) /\ Talking
  /\ s.rx \in Seq({host.number}) /\ Closed

\* The inductive invariant of the USB stream.
THEOREM UsbInvariance == Spec => []Inv
<1>1. Init => Inv
  <2> SUFFICES ASSUME Init PROVE Inv
    OBVIOUS
  <2>1. /\ s.state = "Default" /\ s.conf = 0 /\ s.stage = "Idle" /\ s.class = None
        /\ s.speed = "Full" /\ s.mps = 64 /\ ~s.dtr /\ ~s.configured /\ ~s.busy /\ s.qmps = 64
        /\ s.rx = <<>> /\ ~s.sem /\ s.ep0 = None /\ s.open = {} /\ s.in = NoTransfer /\ ~s.out
        /\ s.faults = 0 /\ ~s.lost /\ DOMAIN s = Members
    BY DEF Init, Members
  <2>2. host = [ctl |-> None, unended |-> FALSE, number |-> 0]
    BY DEF Init
  <2>3. Device(s)
    <3>1. Len(s.rx) = 0 /\ s.rx \in Seq({0, 1})
      BY <2>1
    <3>2. /\ s.dtr \in BOOLEAN /\ s.configured \in BOOLEAN /\ s.busy \in BOOLEAN
          /\ s.sem \in BOOLEAN /\ s.out \in BOOLEAN /\ s.lost \in BOOLEAN
      BY DEF Init
    <3> QED
      BY <2>1, <3>1, <3>2, UsbAssumption DEF Device, UsbAssumption, Speeds
  <2>4. host \in HostType
    BY <2>2 DEF HostType
  <2>5. Usable(s) /\ Busy(s) /\ Armed(s)
    BY <2>1 DEF Usable, Busy, Armed, Stages, None
  <2>6. Talking /\ Closed
    BY <2>1, <2>2 DEF Talking, Closed
  <2>7. s.rx \in Seq({host.number})
    BY <2>1
  <2> QED
    BY <2>3, <2>4, <2>5, <2>6, <2>7 DEF Inv
<1>2. Inv /\ [Next]_vars => Inv'
  <2> SUFFICES ASSUME Inv, [Next]_vars PROVE Inv'
    OBVIOUS
  <2> USE DEF Inv
  <2>1. CASE Send
    <3>1. PICK len \in Lengths : \E r \in StartTx(s, len) : s' = [r[2] EXCEPT !.busy = r[1]]
      BY <2>1 DEF Send
    <3>2. PICK r \in StartTx(s, len) : s' = [r[2] EXCEPT !.busy = r[1]]
      BY <3>1
    <3>3. s.configured /\ ~s.busy /\ host' = host
      BY <2>1 DEF Send
    <3>4. /\ Device(s') /\ Usable(s') /\ Busy(s') /\ SameControl(s, s')
          /\ s'.rx = s.rx /\ s'.lost = s.lost
      BY <3>2, <3>3, SendSound
    <3>5. s.in = NoTransfer
      BY <3>3 DEF Busy
    <3> QED
      BY <3>3, <3>4, <3>5 DEF SameControl, Armed, Talking, Closed, NoTransfer, Zlp
  <2>2. CASE Read
    <3>1. PICK n \in 1..Len(s.rx) : s' = [s EXCEPT !.rx = SubSeq(@, n + 1, Len(@))]
      BY <2>2 DEF Read
    <3> DEFINE q == SubSeq(s.rx, n + 1, Len(s.rx))
    <3>2. Len(s.rx) \in Nat /\ n \in Nat /\ n + 1 \in Int /\ Len(s.rx) <= Capacity
      BY DEF Device
    <3>3. q \in Seq({host.number}) /\ q \in Seq({0, 1}) /\ Len(q) <= Capacity
      <4>1. \A i \in n + 1 .. Len(s.rx) : s.rx[i] \in {host.number}
        BY <3>2
      <4>2. q \in Seq({host.number})
        BY <3>2, <4>1, SubSeqProperties
      <4>3. \A i \in n + 1 .. Len(s.rx) : s.rx[i] \in {0, 1}
        BY <3>2 DEF Device
      <4>4. /\ q \in Seq({0, 1})
            /\ Len(q) = IF n + 1 <= Len(s.rx) THEN Len(s.rx) - (n + 1) + 1 ELSE 0
        BY <3>2, <4>3, SubSeqProperties
      <4>5. Len(q) <= Capacity
        BY <3>2, <4>4, UsbAssumption DEF UsbAssumption
      <4> QED
        BY <4>2, <4>4, <4>5
    <3>4. s' = [s EXCEPT !.rx = q] /\ host' = host
      BY <2>2, <3>1 DEF Read
    <3>5. s.rx # <<>>
      BY <3>2
    <3> HIDE DEF q
    <3>6. Device(s')
      BY <3>3, <3>4 DEF Device, Members
    <3>7. /\ SameControl(s, s') /\ s'.rx = q
          /\ s'.state = s.state /\ s'.conf = s.conf /\ s'.mps = s.mps /\ s'.qmps = s.qmps
          /\ s'.configured = s.configured /\ s'.busy = s.busy /\ s'.open = s.open
          /\ s'.in = s.in /\ s'.out = s.out /\ s'.lost = s.lost
      BY <3>4 DEF Device, Members, SameControl
    <3>8. Usable(s') /\ Busy(s')
      BY <3>5, <3>7 DEF Usable, Busy
    <3> QED
      BY <3>3, <3>4, <3>6, <3>7, <3>8 DEF SameControl, Armed, Talking, Closed
  <2>3. CASE TakeSem
    <3>1. s' = [s EXCEPT !.sem = FALSE] /\ host' = host
      BY <2>3 DEF TakeSem
    <3>2. Device(s')
      BY <3>1 DEF Device, Members
    <3>3. SameStream(s, s') /\ SameControl(s, s')
      BY <3>1 DEF Device, Members, SameStream, SameControl
    <3>4. Usable(s') /\ Busy(s')
      BY <3>3, StreamOnly
    <3> QED
      BY <3>1, <3>2, <3>3, <3>4 DEF SameControl, SameStream, Armed, Talking, Closed
  <2>4. CASE Setup
    <3>1. PICK req \in Requests :
            /\ req = "SetAddress" => s.state # "Configured"
            /\ s' \in HandleSetup(s, req)
            /\ host' = [host EXCEPT !.ctl = req,
                            !.unended = @ /\ req \notin {"Configure", "Unconfigure"},
                            !.number = IF s'.configured /\ req = "Configure" THEN 1 - @ ELSE @]
      BY <2>4 DEF Setup
    <3>2. /\ Device(s') /\ Usable(s') /\ Busy(s') /\ Armed(s') /\ s'.ep0 # None
          /\ s'.stage = "DataOut" => s'.class = req
          /\ req \in {"Configure", "Unconfigure"} => s'.rx = <<>> /\ s'.in = NoTransfer
          /\ req \notin {"Configure", "Unconfigure"} =>
               s'.rx = s.rx /\ s'.in = s.in /\ s'.lost = s.lost /\ s'.configured = s.configured
      BY <3>1, HandleSetupSound
    <3> DEFINE u == host.unended /\ req \notin {"Configure", "Unconfigure"}
               n == IF s'.configured /\ req = "Configure" THEN 1 - host.number ELSE host.number
    <3>3. host' = [host EXCEPT !.ctl = req, !.unended = u, !.number = n]
      BY <3>1
    <3>4. n \in {0, 1}
      BY DEF HostType
    <3>5. u \in BOOLEAN
      BY DEF HostType
    <3>6. s'.rx \in Seq({n})
      <4>1. CASE req \in {"Configure", "Unconfigure"}
        BY <3>2, <4>1, EmptySeq
      <4>2. CASE req \notin {"Configure", "Unconfigure"}
        BY <3>2, <4>2
      <4> QED
        BY <4>1, <4>2
    <3>7. u => s'.lost \/ s'.in = Zlp
      BY <3>2 DEF Closed
    <3> HIDE DEF u, n
    <3>8. host' \in HostType /\ host'.ctl = req /\ host'.unended = u /\ host'.number = n
      BY <3>3, <3>4, <3>5 DEF HostType
    <3> QED
      BY <3>2, <3>6, <3>7, <3>8 DEF Talking, Closed
  <2>5. CASE Ep0Complete
    <3>1. PICK ok \in BOOLEAN : s' \in HandleEp0Complete(s, ok)
      BY <2>5 DEF Ep0Complete
    <3>2. /\ s.ep0 \in Stages
          /\ host' = [host EXCEPT !.ctl = IF s.ep0 \in {"StatusIn", "StatusOut"} THEN None ELSE @]
      BY <2>5 DEF Ep0Complete
    <3>3. /\ Device(s') /\ SameStream(s, s') /\ Armed(s') /\ s'.stage # "DataOut"
          /\ s'.ep0 = None => s.ep0 \in {"StatusIn", "StatusOut"}
      BY <3>1, <3>2, Ep0CompleteSound
    <3>4. Usable(s') /\ Busy(s')
      BY <3>3, StreamOnly
    <3>5. /\ host' \in HostType /\ host'.unended = host.unended /\ host'.number = host.number
          /\ s.ep0 \in {"StatusIn", "StatusOut"} => host'.ctl = None
      BY <3>2 DEF HostType
    <3> QED
      BY <3>3, <3>4, <3>5 DEF SameStream, Talking, Closed
  <2>6. CASE SeeStall
    <3>1. s' = s /\ s.ep0 = "stall" /\ host' = [host EXCEPT !.ctl = None]
      BY <2>6 DEF SeeStall
    <3>2. s.stage # "DataOut"
      BY <3>1 DEF Armed
    <3>3. /\ host' \in HostType /\ host'.unended = host.unended /\ host'.number = host.number
          /\ host'.ctl = None
      BY <3>1 DEF HostType
    <3> QED
      BY <3>1, <3>2, <3>3 DEF Talking, Closed
  <2>7. CASE Reset
    <3>1. s' = OnReset(s) /\ host' = [host EXCEPT !.ctl = None, !.unended = FALSE]
      BY <2>7 DEF Reset
    <3>2. /\ Device(s') /\ Usable(s') /\ Busy(s') /\ Armed(s')
          /\ s'.rx = <<>> /\ s'.in = NoTransfer /\ s'.stage = "Idle"
      BY <3>1, ResetSound
    <3>3. host' \in HostType
      BY <3>1 DEF HostType
    <3>4. host'.ctl = None /\ ~host'.unended
      BY <3>1 DEF HostType
    <3> QED
      BY <3>2, <3>3, <3>4 DEF Talking, Closed
  <2>8. CASE Connected
    <3>1. PICK speed \in Speeds : s' = [s EXCEPT !.speed = speed]
      BY <2>8 DEF Connected
    <3>2. Device(s')
      BY <3>1 DEF Device, Members
    <3>3. SameStream(s, s') /\ SameControl(s, s') /\ host' = host
      BY <2>8, <3>1 DEF Connected, Device, Members, SameStream, SameControl
    <3>4. Usable(s') /\ Busy(s')
      BY <3>3, StreamOnly
    <3> QED
      BY <3>2, <3>3, <3>4 DEF SameControl, SameStream, Armed, Talking, Closed
  <2>9. CASE InComplete
    <3> DEFINE u == s.in # Zlp /\ s.in % s.mps = 0
    <3>1. s.in # NoTransfer /\ s' \in HandleInComplete(s) /\ host' = [host EXCEPT !.unended = u]
      BY <2>9 DEF InComplete
    <3>2. /\ Device(s') /\ Usable(s') /\ Busy(s') /\ SameControl(s, s') /\ s'.rx = s.rx
          /\ u => s'.in = Zlp \/ s'.lost
      BY <3>1, InCompleteSound
    <3>3. u \in BOOLEAN
      OBVIOUS
    <3> HIDE DEF u
    <3>4. /\ host' \in HostType /\ host'.unended = u /\ host'.number = host.number
          /\ host'.ctl = host.ctl
      BY <3>1, <3>3 DEF HostType
    <3> QED
      BY <3>2, <3>4 DEF SameControl, Armed, Talking, Closed
  <2>10. CASE InError
    <3>1. s.in # NoTransfer /\ s' \in HandleInError(s) /\ host' = [host EXCEPT !.unended = FALSE]
      BY <2>10 DEF InError
    <3>2. Device(s') /\ Usable(s') /\ Busy(s') /\ SameControl(s, s') /\ s'.rx = s.rx
      BY <3>1, InErrorSound
    <3>3. host' \in HostType
      BY <3>1 DEF HostType
    <3>4. ~host'.unended /\ host'.number = host.number /\ host'.ctl = host.ctl
      BY <3>1 DEF HostType
    <3> QED
      BY <3>2, <3>3, <3>4 DEF SameControl, Armed, Talking, Closed
  <2>11. CASE OutComplete
    <3>1. s.out /\ s' \in HandleOutComplete(s, host.number) /\ host' = host
      BY <2>11 DEF OutComplete
    <3>2. /\ Device(s') /\ Usable(s') /\ Busy(s') /\ SameControl(s, s')
          /\ s'.rx \in Seq({host.number}) /\ s'.in = s.in
          /\ s.lost => s'.lost
      BY <3>1, OutCompleteSound DEF HostType
    <3> QED
      BY <3>1, <3>2 DEF SameControl, Armed, Talking, Closed
  <2>12. CASE OutError
    <3>1. s.out /\ s' \in HandleOutError(s) /\ host' = host
      BY <2>12 DEF OutError
    <3>2. /\ Device(s') /\ Usable(s') /\ Busy(s') /\ SameControl(s, s')
          /\ s'.rx = s.rx /\ s'.in = s.in
          /\ s.lost => s'.lost
      BY <3>1, OutErrorSound
    <3> QED
      BY <3>1, <3>2 DEF SameControl, Armed, Talking, Closed
  <2>13. CASE UNCHANGED vars
    BY <2>13 DEF vars, Talking, Closed
  <2> QED
    BY <2>1, <2>2, <2>3, <2>4, <2>5, <2>6, <2>7, <2>8, <2>9, <2>10, <2>11, <2>12, <2>13 DEF Next
<1> QED
  BY <1>1, <1>2, PTL DEF Spec

\* Every member of the device and of the host keeps its type; in particular the
\* receive queue never holds more than it has room for.
THEOREM UsbTypes == Spec => []TypeOK
<1>1. Inv => TypeOK
  <2> SUFFICES ASSUME Inv PROVE TypeOK
    OBVIOUS
  <2>1. s.rx \in BoundedSeq({0, 1}, Capacity)
    <3>1. s.rx \in Seq({0, 1}) /\ Len(s.rx) <= Capacity
      BY DEF Inv, Device
    <3>2. Len(s.rx) \in 0..Capacity /\ s.rx \in [1..Len(s.rx) -> {0, 1}]
      BY <3>1, LenProperties, UsbAssumption DEF UsbAssumption
    <3> QED
      BY <3>2 DEF BoundedSeq, SeqOf
  <2>2. {s.dtr, s.configured, s.busy, s.sem, s.out, s.lost} \subseteq BOOLEAN
    BY DEF Inv, Device
  <2>3. s.faults \in 0..MaxFaults
    BY UsbAssumption DEF Inv, Device, UsbAssumption
  <2> QED
    BY <2>1, <2>2, <2>3 DEF Inv, Device, HostType, TypeOK
<1> QED
  BY <1>1, UsbInvariance, PTL

\* The stream is configured with the device and usable while it is, whatever the host
\* resets or reconfigures and whatever call fails, unless the recovery of a failed
\* reception fails as well (usb_dev_port.cpp:156-198, :396-404, :482-488).
THEOREM StreamIsUsable == Spec => []ConfiguredIsUsable
<1>1. Inv => ConfiguredIsUsable
  BY DEF Inv, Usable, ConfiguredIsUsable
<1> QED
  BY <1>1, UsbInvariance, PTL

\* The busy flag neither sticks nor lets a second frame in (usb.cpp:94-151).
THEOREM BusyIsTrue == Spec => []BusyMeansInFlight
<1>1. Inv => BusyMeansInFlight
  BY DEF Inv, Busy, BusyMeansInFlight
<1> QED
  BY <1>1, UsbInvariance, PTL

\* No data of one configuration is read in another (usb.cpp:79-85).
THEOREM SessionsStayApart == Spec => []SessionsDoNotMix
<1>1. Inv => SessionsDoNotMix
  <2> SUFFICES ASSUME Inv, s.rx # <<>>
               PROVE  s.configured /\ \A i \in DOMAIN s.rx : s.rx[i] = host.number
    BY DEF SessionsDoNotMix
  <2>1. s.configured
    BY DEF Inv, Usable
  <2>2. \A i \in DOMAIN s.rx : s.rx[i] \in {host.number}
    BY LenProperties, ElementOfSeq DEF Inv
  <2> QED
    BY <2>1, <2>2
<1> QED
  BY <1>1, UsbInvariance, PTL

\* Frames of any length are kept apart, packets of 64 or 512 bytes (usb.cpp:103-109).
THEOREM FramesStayApart == Spec => []FramesDoNotMerge
<1>1. Inv => FramesDoNotMerge
  BY DEF Inv, Closed, FramesDoNotMerge
<1> QED
  BY <1>1, UsbInvariance, PTL

\* A host that waits on EP0 finds the stage the device is in, or a stall, wherever
\* SETUP cuts in and whatever call fails (usb_dev_port.cpp:72-92, :265-335, :342-380).
THEOREM EveryTransferIsAnswered == Spec => []HostIsAnswered
<1>1. Inv => HostIsAnswered
  BY DEF Inv, Armed, Talking, HostIsAnswered
<1> QED
  BY <1>1, UsbInvariance, PTL

===============================================================================

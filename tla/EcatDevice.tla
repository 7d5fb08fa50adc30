------------------------------ MODULE EcatDevice ------------------------------
(***************************************************************************)
(* The slave (EcatDevice with its state machine, synchronisation and       *)
(* process data) and the master that drives it through the ESC.  A handler *)
(* of the device, in the thread, in the PDI interrupt or in the timer, is  *)
(* one step here: an interrupt between two of its register accesses is     *)
(* not modelled.                                                           *)
(***************************************************************************)
EXTENDS EcatDeviceOps

CONSTANTS
  Configs,   \* the SM configurations the master may write
  Syncs,     \* the DC setups PrepareSm may find
  Watchdogs  \* does PrepareSm find a process data watchdog?

ASSUME MasterAssumption ==
  /\ Configs \subseteq SmConfigs
  /\ Syncs \subseteq SyncSetups
  /\ Watchdogs \subseteq BOOLEAN

VARIABLES
  d,       \* the device record of AlStateMachine and EcatDeviceOps
  life,    \* "off", "prepared" (Prepare done) or "ready" (ready_)
  cfg,     \* SM configuration written by the master
  events   \* AL Event Request (0x0220); reading it acknowledges every bit

vars == <<d, life, cfg, events>>

EventBits == {"AlControl", "SmChange", "PdOut"}

DeviceType ==
  [state : States, code : Codes, error : BOOLEAN, out : BOOLEAN, inp : BOOLEAN,
   first : BOOLEAN, pending : BOOLEAN, target : States, timer : Nat,
   rx : BOOLEAN, tx : BOOLEAN, dc : BOOLEAN, seq : BOOLEAN, wd : BOOLEAN,
   mbx : BOOLEAN, addr : Placements \cup {"none"}, chan : SUBSET Channels,
   mask : SUBSET MaskBits, status : [state : States, error : BOOLEAN]]

\* The members of a constructed EcatDevice, and the ESC as it powers up.
InitialDevice ==
  [state |-> "Init", code |-> "NoError", error |-> FALSE, out |-> FALSE,
   inp |-> FALSE, first |-> FALSE, pending |-> FALSE, target |-> "Init",
   timer |-> 0, rx |-> FALSE, tx |-> FALSE, dc |-> FALSE, seq |-> TRUE,
   wd |-> FALSE, mbx |-> FALSE, addr |-> "none", chan |-> {}, mask |-> {},
   status |-> [state |-> "Init", error |-> FALSE]]

Init ==
  /\ d = InitialDevice
  /\ life = "off"
  /\ cfg \in Configs
  /\ events = {}

\* What a handler may read from the ESC besides the SM configuration.
Readings == [cfg : {cfg}, eeprom : BOOLEAN, sync : Syncs, wd : Watchdogs]

\* The value AL Control is read with, when its event is handled.
ControlReadings ==
  IF "AlControl" \in events THEN Controls ELSE {[req |-> "Init", ack |-> FALSE]}

-------------------------------------------------------------------------------
(* The master, through the registers and the DPRAM of the ESC.             *)

\* A write to AL Control (0x0120).  The value is chosen when it is read: the
\* master may overwrite it until then.
RequestState ==
  /\ events' = events \cup {"AlControl"}
  /\ UNCHANGED <<d, life, cfg>>

WriteSmConfig ==
  /\ cfg' \in Configs
  /\ cfg' # cfg
  /\ events' = events \cup {"SmChange"}
  /\ UNCHANGED <<d, life>>

\* SM2 accepts data only while the PDI side keeps it enabled.
WriteOutputs ==
  /\ "PdOut" \in d.chan
  /\ events' = events \cup {"PdOut"}
  /\ UNCHANGED <<d, life, cfg>>

-------------------------------------------------------------------------------
(* The handlers of the device.                                             *)

\* OnPdi(): an unmasked event is pending.
OnPdi ==
  /\ life = "ready"
  /\ events \cap d.mask # {}
  /\ \E hw \in Readings, ctl \in ControlReadings : d' = HandleAlEvents(d, events, ctl, hw)
  /\ events' = {}
  /\ UNCHANGED <<life, cfg>>

\* Poll(): the thread; the watchdog register is read when it is checked.
ThreadPoll ==
  /\ life = "ready"
  /\ \E hw \in Readings, ctl \in ControlReadings, expired \in BOOLEAN :
       d' = Poll(d, events, ctl, hw, expired)
  /\ events' = {}
  /\ UNCHANGED <<life, cfg>>

\* OnTick1ms(): the timeout, and the verdict of the DC watchdogs.
OnTick ==
  /\ life = "ready"
  /\ \E valid \in BOOLEAN :
       d' = [TickAl(d) EXCEPT !.seq = IF d.dc THEN valid ELSE @]
  /\ UNCHANGED <<life, cfg, events>>

\* OnReset(): the ESC was reset: AL Status reads INIT again, and the SM and
\* event mask registers may have lost what the PDI side wrote.
OnReset ==
  /\ life = "ready"
  /\ \E chan \in {d.chan, {}}, mask \in {d.mask, {}} :
       d' = [TearDown([d EXCEPT !.chan = chan, !.mask = mask])
               EXCEPT !.status = [state |-> "Init", error |-> FALSE]]
  /\ UNCHANGED <<life, cfg, events>>

\* Disable().
Disable ==
  /\ life = "ready"
  /\ d' = TearDown(d)
  /\ life' = "off"
  /\ UNCHANGED <<cfg, events>>

\* Prepare() and Start(), which EthercatSlave::Init calls in this order.
Prepare ==
  /\ life # "ready"
  /\ d' = PrepareDevice(d)
  /\ life' = "prepared"
  /\ UNCHANGED <<cfg, events>>

Start ==
  /\ life = "prepared"
  /\ life' = "ready"
  /\ UNCHANGED <<d, cfg, events>>

Next ==
  \/ RequestState \/ WriteSmConfig \/ WriteOutputs
  \/ OnPdi \/ ThreadPoll \/ OnTick
  \/ OnReset \/ Disable \/ Prepare \/ Start

Spec == Init /\ [][Next]_vars

\* The timer fires and the application's task calls Poll().
FairSpec == Spec /\ WF_vars(OnTick) /\ WF_vars(ThreadPoll)

-------------------------------------------------------------------------------
(* Correctness.                                                            *)

\* Every member keeps its type (EcatDevice, EcatStateMachine, ESC registers).
TypeOK ==
  /\ d \in DeviceType
  /\ life \in {"off", "prepared", "ready"}
  /\ cfg \in Configs
  /\ events \subseteq EventBits

\* Outputs reach the application (ConsumeOutputs) only in OP, with no
\* transition under way, and only after first outputs arrived in this session.
OutputsOnlyInOp ==
  d.out => d.state = "Op" /\ ~d.pending /\ (d.rx => d.first)

\* The only transition that is ever pending is SAFEOP -> OP: the slave is
\* still in SAFEOP without outputs and without an error, and its timeout runs.
PendingIsSafeOpToOp ==
  d.pending => /\ d.state = "SafeOp" /\ d.target = "Op"
               /\ ~d.error /\ ~d.out /\ d.timer <= OpTimeout

\* Process data runs only through channels that are open: SM3 while the
\* inputs run, SM2 while the outputs run, whatever became of the other
\* direction; and its saved area passed ValidateAreas.  While the inputs run
\* the interrupt of AL Control and of the outputs is unmasked as well.
RunningNeedsOpenChannels ==
  /\ d.inp /\ d.tx => "PdIn" \in d.chan
  /\ (d.inp \/ d.out) /\ d.rx => "PdOut" \in d.chan
  /\ d.inp \/ d.out => d.addr \in Areas
  /\ d.inp => "AlControl" \in d.mask
  /\ d.inp /\ d.rx => "PdOut" \in d.mask

\* Process data never stops behind the back of the master: a step that stops
\* the outputs leaves OP, one that stops the inputs leaves SAFEOP and OP, or
\* else AL Status shows an error after it.  A transition that fails half way
\* may leave a state without its process data, but not silently.
StopsAreReported ==
  [][/\ d.out /\ ~d.out' => d.state' # "Op" \/ d.status.error'
     /\ d.inp /\ ~d.inp' => d.state' \notin {"SafeOp", "Op"} \/ d.status.error']_vars

\* Above INIT the master reads the state the slave is in, and an error the
\* slave has latched is always visible: every path that changes the state or
\* raises the latch ends in Publish.  (INIT itself: see InitIsPublished.)
StatusIsTruthful ==
  life = "ready" => /\ d.state # "Init" => d.status.state = d.state
                    /\ d.error => d.status.error

Contract == INSTANCE AlContract
  WITH state <- d.state, error <- d.error, outputs <- d.out,
       fed <- ~d.rx \/ d.first

\* The slave implements the AL contract: one level up at a time, never with
\* an error latched, OP only with valid outputs.
ImplementsContract == Contract!Spec

\* A pending SAFEOP -> OP ends: first outputs complete it, the ESM timeout
\* gives it up, or the master asks for something else.
PendingEnds == d.pending ~> (~d.pending \/ "AlControl" \in events)

\* A transition that fails leaves the state and the opened resources
\* consistent (ecat_device.cpp:697): SAFEOP and OP have their inputs.
StateMatchesResources ==
  life = "ready" => (d.state \in {"SafeOp", "Op"} => d.inp)

\* In INIT the AL Status register agrees with the software (OnReset: to
\* disagree "is lying").
InitIsPublished ==
  life = "ready" /\ d.state = "Init" => d.status.state = "Init"

\* SM_CHANGE may be consumed together with AL Control because the transition
\* has checked the SM settings (HandleAlEvents): a slave that stays in SAFEOP
\* or OP without an error and without a pending event has checked ones.
SmChangeIsChecked ==
  /\ life = "ready"
  /\ d.state \in {"SafeOp", "Op"}
  /\ ~d.error /\ ~d.pending
  /\ "SmChange" \notin events
  => CheckSmSettings(d, 4, cfg) = "NoError"
===============================================================================

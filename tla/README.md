# Verification of the Dust Zephyr drivers

TLA+ specifications of the drivers of this repository, model-checked with TLC
and proved with TLAPS for every value of the constants. The EtherCAT slave is
the part with a protocol of its own (half of the code, four execution contexts,
a master that may do anything), so it comes first; the two streams follow. Paths below are relative to the repository's
`src/`; `core/` stands for `communication/ethercat/core/`, `stream/` for
`communication/stream/`.

Contents: [inventory](#1-inventory), [modules and code](#2-modules-and-the-code-they-model),
[runs](#3-runs), [fairness](#4-fairness), [proofs](#5-proofs),
[findings](#6-what-the-runs-found), [left out](#7-what-is-not-modelled),
[plan](#8-plan).

## 1. Inventory

### EtherCAT slave

The application owns one `EthercatSlave` (`ethercat.hpp`), which holds the
hardware access (`EcatEsc`), the PHYs and one `EcatDevice`. `EcatDevice` owns
all other parts and calls them; none of them calls back. Four contexts enter it:

| context | entry | what it does |
| --- | --- | --- |
| application task | `Poll()` | drains the mailbox, serves SM1, handles AL events, checks timeouts, watchdog and errors |
| PDI interrupt | `OnPdi()` | the same handling of AL events |
| SYNC0/SYNC1 interrupt | `OnSync0/1()` | serves the DC watchdogs, publishes inputs |
| 1 ms timer | `OnTick1ms()` | ESM timeout, DC watchdogs, delayed EEPROM store |

| component | state | operations | hard behaviour | correct when |
| --- | --- | --- | --- | --- |
| AL state machine, `core/al/ecat_state_machine.*` | state, AL status code, error latch, pending transition and its timer, input/output/first-output flags | `BeginTransition`, `CommitStep`, `SetState`, `LatchLocalError`, `Tick`, `TakeTimeout`, ... | a transition that stays pending; timeout against late outputs; a request during another | one level up at a time, never with an error; outputs only in OP |
| Device, `core/ecat_device.*` | `ready_`, saved SM areas, ESC registers 0x0130, 0x0204, 0x0807 | entering, leaving and checking actions, fallbacks, reset, `Prepare`, `Start`, `Disable` | an action that fails half way, fallbacks from a timer or a watchdog, an ESC reset | state, channels, masks and AL Status agree |
| Sync managers and PDO layout, `core/al/ecat_sm.*`, `core/pdo/` | layout sizes | check, open and close a channel, copy process data | the master rewrites SM settings at run time | process data runs over checked areas only |
| Synchronisation, `core/al/ecat_sync.*` | watchdogs, SM cycle and latch counters, missed events | `PrepareSm`, `StartSm`, `StopSm`, `Tick`, `OnSync0/1`, `OnProcessOutput` | ticks and pulses in any order; counters at their limits | healthy DC never trips, lost DC ends OP |
| Mailbox, `core/mailbox/ecat_mailbox.*` | static pool, two rings, SM1 frame, repeat and stored frame, counters, toggle | `Start`, `Stop`, `Receive`, `OnSendMailboxRead`, `OnRepeatRequest`, `Service`, `SubmitResponse`, `TakeReceived`, `CompleteReceived` | lost replies and repeats, lost acknowledges, full queues, interrupt inside `Service` | one owner per buffer; replies complete, in order, once |
| SDO server and CoE, `core/mailbox/ecat_sdo.*`, `ecat_coe.*` | session: command, object, position, toggle, buffer | `Handle`: upload, download, segments, abort | sessions that outlive transfers, repeats, exact segment ends | an upload is a snapshot, a download is stored whole |
| Object dictionary, `core/model/`, `core/spec/ecat_application_objects.hpp` | object data | `Read`, `Write`, lengths, rights, `ProjectSync` | lengths computed in two places, bit-wide entries, rights per AL state | what is announced is what is transferred |
| SDO information, `core/mailbox/ecat_sdo_info.*` | list and fragment position | lists, object and entry descriptions | replies longer than a mailbox | lists are complete |
| SII service, `core/mailbox/ecat_sii_service.*` | read width, store flag and delay | `PollCommand`, `Tick`, `Flush` | delayed store against new commands, three contexts | no write is forgotten, no command acknowledged undone |
| Diagnostics, `core/diag/` | history ring, first fault, replay | `Poll`, `Report`, `OnTick`, requests | requests from other threads | the first fault is kept until cleared |
| PHYs, `device/ecat_phy/` | configured flag | `Init`, `LinkUp`, `SoftReset` | bounded wait | start-up ends |

### Streams and other drivers

| component | state | operations | hard behaviour |
| --- | --- | --- | --- |
| `Stream` (`communication/stream/stream.hpp`) | none | `Read`, `Send` | the contract of the two below |
| UART DMA (`stream/uart/`) | two DMA buffers with free flags, receive queue, `tx_busy_`, `ready_`, `restart_on_disabled_` | `Init`, `Send`, `Read`, `StartRx`, `StopRx`, `Reconfigure`, driver callback | callback against caller, restart after `RX_DISABLED` |
| USB CDC (`stream/usb/`) | device state, EP0 stage, `tx_busy_`, `configured_`, receive queue | SETUP, transfer complete, reset, `Send`, `Read` | reset or reconfiguration during a transfer, endpoint recovery |
| RS485 (`stream/rs485/`) | direction, busy | as UART | does not compile: it derives from `RxStream`, which no longer exists (`README.md:189`, `ARCHITECTURE.md:905`) |
| CAN, SPI, GPIO, PWM | handles, callbacks, descriptors | forwarded to Zephyr | `Spi::WriteThenRead` changes a descriptor all callers share |

What makes the streams correct: a frame on the wire is not changed, `ready_` and
`tx_busy_` tell the truth about the hardware, a buffer is not given out twice,
and what was received in one session is not read in the next.

`PROJECT.json` lists the hazards of this code at their lines, with the
properties that cover them. Smaller ones are not listed there: the receive
queue reset against a reader (`uart.cpp:280`), a queue that overflows silently
(`usb_rx_queue.hpp:46`), a report and a clear request sharing one cell, where
the later one wins (`ecat_diagnostics.cpp:156`), a descriptor that all callers
of `Spi` share (`spi.cpp:89`).

## 2. Modules and the code they model

| module | models | interleaving |
| --- | --- | --- |
| `AlStateMachine` | class `EcatStateMachine`: the decisions | operators |
| `EcatDeviceOps` | the actions of `EcatDevice` that execute a decision, one operator per C++ method | operators |
| `EcatDevice` | master, thread, interrupt, timer, reset, life cycle | one handler is one step |
| `AlContract` | abstract specification: what a master sees of the AL | - |
| `EcatDeviceProofs` | theorems about `EcatDevice` | - |
| `EcatMailboxOps`, `EcatMailbox` | class `EcatMailbox`; master, lossy line, `Poll` and interrupt | `Poll` is split where its calls end |
| `EcatMailboxProofs` | theorems about `EcatMailbox`: the buffers | - |
| `EcatMailboxOrderProofs` | theorems about `EcatMailbox`: the handshake and the order of the replies | - |
| `EcatSync` | class `EcatSync` against a clock, the DC unit and the device's use of it | one handler is one step; time in steps of `Grain` |
| `EcatSyncProofs` | theorems about `EcatSync` | - |
| `EcatSdoOps`, `EcatSdo` | `EcatSdo` on `EcatDictionary`; a master that follows the protocol | one mailbox exchange is one step |
| `EcatSdoProofs` | theorems about `EcatSdo` | - |
| `EcatSii`, `EcatDiagnostics` | classes `EcatSiiService` and `EcatDiagnostics` | operators |
| `EcatBackground` | both services under the thread's `Poll`, the PDI interrupt, the timer, `Disable` and the shell, against a master | the interrupt comes between any two steps of the thread |
| `EcatBackgroundProofs` | theorems about `EcatBackground` | - |
| `Uart` | class `UartDma` and its callback, the owner, senders, Zephyr's driver | one access to a shared member or call of the driver is one step |
| `UartProofs` | theorems about `Uart` | - |
| `Usb` | `Usb`, `UsbCdcAcm`, `UsbDevPort`, `UsbRxQueue` against a host and the HAL | one callback or call is one step |
| `UsbProofs` | theorems about `Usb` | - |

**EcatDevice.** The C++ methods call one another deeply (`HandleAlEvents` →
`ControlRequest` → `Begin` → `EnterSafeOp` → ...), and every handler is the
composition of all of them. They are operators from the device record `d` to
the record after the call, so that a handler is one action that contains every
call it makes. What a handler reads from the ESC while it runs (`hw`: EEPROM
and DC registers, the SM configuration) is chosen nondeterministically; only
the SM configuration `cfg` is a variable, because properties speak of it. AL
Control is re-read by `HandleAlEvents` after the event snapshot, so its value is
chosen when it is read: the master may have overwritten it any number of times.
Reading 0x0220 acknowledges what was read, as `interface/ecat_esc.hpp:106-112`
and `spec/ecat_registers.hpp:52`, `:63` say. A step that ends process data
without leaving the state (a way to PREOP that fails after its channels are
closed, `ecat_device.cpp:693-713`) is a step like any other.

`AlContract` is what remains for an observer: the AL state, the error flag,
whether outputs run and whether they are valid. It allows one level up at a
time without an error, any fall, and outputs only in OP with valid data.
`EcatDevice!ImplementsContract` is the refinement.

**EcatMailbox.** The pool, both rings, all frame pointers, the counters and the
toggle are as in the code; a frame is a request or reply with its session,
number and counter. The master keeps `Window` requests open, writes a request
twice when the acknowledge was lost, loses replies and asks for repeats; a
request may be malformed, come without a counter or ask for no reply
(`Malformed`, `Uncounted`, `Unanswered`).
`Poll` is eight steps, so that the master and the PDI interrupt may come
between `TakeReceived`, `CompleteReceived`, the parts of `Service`, the handling
of the events and the snapshot of the diagnostics; `Concurrent` names who does:
the master's writes (`write`), reads (`read`) and repeat bit (`ask`), the
interrupt (`isr`), and the interrupt between the test of SM1 in `Service` and
the call that follows from it (`test`). `ReadAcknowledges` says what reading
0x0220 does; every configuration takes what the header says, the theorems hold
for both.

**EcatSync.** Time passes in steps until something is due; a pulse and a tick
due at the same instant come in either order. The DC unit may lose either
pulse at any time. `out` are the outputs; SAFEOP is entered from PREOP, from OP
on the master's request (which runs `EnterSafeOp` with `PrepareSm` and `StartSm`
again, `ecat_device.cpp:641-678`) and by the fallbacks, which touch the watchdogs
differently; the way to PREOP may fail after `StopSm` and then stays in SAFEOP
with the counters at zero and the limits kept, so that ticks go on counting
(`:693-713`). `age` is a history variable: the time
since SYNC0 and whether any pulse of the session was lost.

**EcatSdo.** The server's members, the dictionary and the reply are one record
`x`; a byte is (entry, place, value), so a mixture of two values or two entries
is visible. An entry's place in Complete Access is the number of bytes of the
entries before it. The master follows the protocol: expedited, normal and segmented
transfers, complete access, repeats after a lost reply, aborts between
segments, AL state changes at any moment, and resets. A request for INIT does
not stop the mailbox (`BackToInit`, `ecat_device.cpp:914-921`, calls nothing of
it): the request or the reply of a transfer that the master has given up stays
on its way, and is served later. `Waits` says whether the master takes what is on
its way before it asks for the next transfer; one that does not mistakes the old
confirmation for its own (section 6).

**EcatBackground.** Thread and interrupt run the same `HandleAlEvents`, so each
has a program counter and the actions take the context as a parameter. What
matters is where the handler may be cut: between reading the event register and
acting, between writing the medium and marking it (`ecat_sii_service.cpp:119`,
`:123`), between the acknowledge of a segment and the next read of the command
(`:202`, `:205`), and under `irq_lock` in the snapshot, where it may not be cut.
Handlers of mailbox and process data events are left to the other modules. The
ghost fields `done`, `skipped` and `unsaved` of the ESC record what became of
the last command and of the words written. The diagnostics are reduced to the
first fault, its number (modulo 2, enough to tell a fault from the next), the
replay and the requests.

**Uart.** The driver is external and modelled by what Zephyr's asynchronous API
lets it do: it holds one or two buffers, asks for a spare one, gives them back,
and ends reception on request, on a line error or for want of a buffer. A
*prompt* driver raises the events of a call before the call returns, a late one
when it likes; the code must work with both. A received piece is the line
setting it was received with. `SetLineConfig` tests `ready_` under the lock
and applies the setting after it (`SetLineConfig`, `SetLineApply`), so the two
may be torn apart. `StopRx` holds a spinlock, so its two halves (`Locked`) keep a late
driver's events out.

**Usb.** The HAL calls back in its interrupt and `Send` holds a spinlock, so one
event or call is one step, which contains every call it makes down to the HAL.
A HAL call may fail (`MaxFaults`), with the code's own reaction as the rest of
the step. A piece of received data is the number of the configuration it
came in with; a frame is its length, which decides about the zero length packet.
The host obeys the protocol (an address first, and only while not configured)
but may send SETUP at any time, reset, configure again, or let transfers fail.

## 3. Runs

Sizes are distinct states.

| run | asks | instance and why it is enough | states |
| --- | --- | --- | --- |
| `MCEcatDevice` | is the device safe, and does it implement the contract? | both process data directions, two legal areas (so the area can move under a running slave), a bad and an overlapping one, bad and overlapping mailboxes, DC accepted or refused, timeouts of 1 and 2 ticks (so they can expire or be met). The master's configuration has one fault at a time | 316 128 |
| `MCEcatDeviceLive` | does a pending transition end? | as above with one area, a legal configuration and one SAFEOP refuses | 29 936 |
| `MCEcatMailbox` | are buffers owned once, does the pool suffice? | queue depth 1 and four open requests fill both queues and meet a full SM0; one long reply, one malformed request, one without reply or counter; two sessions; reset and INIT; all interruptions | 278 130 |
| `MCEcatMailboxOrder` | are replies complete, in order, once, and is only a read frame repeated? | depth 2, three losses, five requests with counters 1..3, so the counter wraps. The master and the interrupt come between any two steps of `Poll`, but the interrupt not between the test of SM1 and its use, and the session is not restarted: there both fail (section 6) | 50 076 |
| `MCEcatSync` | are the DC watchdogs patient and awake? | steps of 500 us; no DC, SYNC0 only, SYNC1 inside and beyond the SYNC0 cycle, a refused setup; each pulse lost and found at any time; SAFEOP entered again from OP, a way to PREOP that fails | 1 166 780 |
| `MCEcatSdo` | do transfers return and store exactly the data? | mailboxes scaled to 23 bytes (7 in an initiate frame, 14 in a segment), segment buffer 26, objects that fall one short of, on and beyond each limit; two transfers in a row, so a session can outlive its transfer, also over INIT; one lost reply; lengths one short and four long | 642 449 |
| `MCEcatBackground` | is no word forgotten, no command lost, no replay mixed up? | both read widths, a store delay of 2 ticks (one to wait, one to store), 3 requests (a command, one that races with it, and a state request), replays of 2 lines (so a replay can be cut in the middle) | 2 461 056 |
| `MCUart` | are frames whole, flags true, is the line set at rest? | prompt and late drivers, one refused call, one outstanding event before the hardware adds more (a call adds up to four), room for 2 pieces, one sender | 544 867 |
| `MCUsb` | is a configured device usable, EP0 never stuck, no frame merged? | lengths 1 and 64 (a frame that ends on a packet boundary at full speed and not at high speed), both speeds, two failing HAL calls (one to cause a recovery, one to break it), queue of 2 | 223 888 |
| `MCSync_ShortCycle`, `MCUart_SpareIsAnother`, `MCEcatBackground_RequestStaysVisible` | does a comment of the code hold? | found violated, see [findings](#6-what-the-runs-found) | - |

The other configurations here (`MCEcat_*` for `MCEcatDevice`, `MCMailbox_*` for
`MCEcatMailbox`, `MCSdo_*` for `MCEcatSdo`, `MCUart_OldBytes` and
`MCUart_StopStops` for `MCUart`) show the further findings of section 6, each as
a counterexample: `tlc -config MCUart_StopStops.cfg MCUart.tla`.

Every run checks for deadlock. What the properties say, and of which code, is
in the comment above each. The deep ones:

* `ImplementsContract`: whatever the order of requests, failures, timeouts,
  watchdogs and resets, the state rises by one level without an error.
* `StatusIsTruthful`: every path that changes the state or latches an error
  ends in a publication of AL Status.
* `RunningNeedsOpenChannels`: relates flags of the state machine with the SM
  channels and event masks that other methods open and close, inputs and outputs
  each for itself.
* `StopsAreReported`: no step, and no part of one that fails, ends process data
  while the state stays and AL Status shows no error.
* `SlotsHaveOneOwner`, `PoolNeverExhausted`: no leak, no double use, and the
  pool of `2 * depth + 4` frames is enough (with two fewer it runs out).
* `RepliesInOrder`, `RepeatWasRead`: end to end, over losses and retries, with the
  repeat bit toggled and the interrupt taken inside `Poll`.
* `WatchdogIsPatient`, `WatchdogNotices`: both directions of a watchdog.
* `UploadIsSnapshot`, `DownloadIsStored`, `RefusalsAreExplained`: end to end,
  over sessions that were aborted, repeated and left behind.
* `NothingForgotten`: relates the medium with a flag that the timer, the thread,
  the interrupt and `Disable` all change, in the middle of each other's work.
* `AcknowledgedIsDone`: two contexts may handle commands at once; that they never
  take the same one rests on the event register alone.
* `FrameInFlightIntact`: `tx_busy_` is set after the copy, cleared by the
  callback, and still guards the buffer, for one sender.
* `RunningIsReady`: automatic restart, `StartRx` and `Reconfigure` may each
  enable reception, in any order; a running reception never refuses senders.
* `BusyMeansInFlight`, `FramesDoNotMerge`, `HostIsAnswered`: over resets, SETUP
  in the middle of a transfer, and failing HAL calls.

* `LineChangesAtRest`: the automatic restart of an earlier error or stop, however
  late its event, never finds `Reconfigure` between its stop and the new setting.

What a run leaves out, because the code does otherwise there (section 6):
`MCEcatSdo` complete access to the synchronisation objects
(`MCSdo_SyncObject`), a SM0 shorter than `kMaxMailboxSize`
(`MCSdo_ShortMailbox`) and a master that does not wait after INIT
(`MCSdo_InitKeepsReply`); `OnlyDownloadsWrite` the objects that every dispatch
overwrites, and it admits the partial write of a short Complete Access.
`MCEcatMailboxOrder` leaves out INIT, resets and the interrupt after the test of
SM1. `AcknowledgedIsDone` excepts 8 byte reads, `ConfiguredIsUsable` a recovery
that itself failed, and `RunningIsReady` a stop by the user.

Every property of a passing run has a mutant in `PROJECT.json`: a plausible bug
in a modelled operation under which TLC finds the property violated.

## 4. Fairness

* `EcatDevice!FairSpec`: the 1 ms timer fires and the task calls `Poll()`. Both
  are the integrator's duties (`ethercat.hpp`, `communication/ethercat/README.md`). The
  interrupt is not relied upon.
* `EcatMailbox!FairSpec` serves the counterexample `MCMailbox_RequestStuck` only:
  weak fairness of `Poll` and of starting the mailbox, strong fairness of the
  master's reading, repeat request and its sight of the acknowledge. Even so a
  request may stay unanswered, so no run claims otherwise.
* `EcatSync!Spec`: time goes on, and `CheckErrors`, part of `Poll`, is called.
* `EcatBackground`, `Uart` and `Usb` state no liveness and assume no fairness: when
  the EEPROM is stored, reception resumes or the host goes on is up to the
  master, the line and the host.
* `EcatSdo!FairSpec`: no request and no reply stays on its way for ever. It is
  written as `[]<>(req = Nothing) /\ []<>(x.rep = Nothing)`, which is weak
  fairness of serving and of taking.

## 5. Proofs

`EcatDeviceProofs` proves for every profile, every set of areas, every set of
master configurations and every timeout allowed by the `ASSUME`s of
`AlStateMachine`, `EcatDeviceOps` and `EcatDevice`:

| theorem | states |
| --- | --- |
| `TypeCorrect` | `Spec => []TypeOK` |
| `OutputsAreSafe` | outputs only in OP, nothing pending, first outputs seen |
| `PendingIsSafe` | only SAFEOP to OP is ever pending, without an error |
| `ChannelsAreOpen` | inputs and outputs each run over their open channel and a checked area; while inputs run the events are unmasked |
| `StopsAreVisible` | `Spec => StopsAreReported` |
| `StatusTruthful` | AL Status tells the state above INIT, and every error |
| `Implementation` | `Spec => ImplementsContract` |
| `Invariance` | the invariant they rest on |

The assumptions say that timeouts are positive naturals, the profile flags are
Booleans, and legal areas are not named like the illegal ones.

The inductive invariant is `Inv`: `Sound(d)` (types, outputs, pending transition,
layout, channels), `Visible(d)` (AL Status) and the types of the other
variables. None of the properties is inductive alone: that outputs run only in
OP needs that a pending transition has no outputs, the channel part needs
`LayoutOK` (the layout in use is the profile's once SAFEOP was reached, because
`EnterSafeOp` rebuilds it while inputs may still run). The argument follows the code:
one lemma per operator, in call order, says what the call preserves. Within a
transition AL Status is stale, so lemmas on entering and leaving actions speak
of `Sound` and a `Frame` of members they leave alone; `Publish` restores
`Visible`. Steps are summed up as `Lower` or `Higher` moves between the record
before and after, which is all `AlContract` can see; one step per action of
`Next` closes the proof.

`EcatMailboxProofs` proves for every queue depth, counter range, number of
requests, sessions and lost replies, every set of replies that do not fit SM1,
both readings of 0x0220, and whoever comes between the calls of `Poll`
(`MailboxAssumption`, `EnvironmentAssumption`: the numbers are naturals, depth,
counter range and sessions at least one):

| theorem | states |
| --- | --- |
| `NoSlotIsShared` | `Spec => []SlotsHaveOneOwner` |
| `PoolSuffices` | `Spec => []PoolNeverExhausted` |
| `PointersAgree` | `Spec => []FramesAgree` |
| `MailboxTypes` | `Spec => []TypeOK` |
| `MailboxInvariance` | the invariant they rest on |

`Sound(m, L)` says it for a set `L` of slots that are lent out: owners are
pairwise distinct (`Apart`), together they hold exactly the slots marked in the
pool (`Complete`), `full` agrees with `read`, and `Filled`: a marked slot holds a
message, and a frame pointer's message fits SM1 while the mailbox runs. The last
is why a repeat or a displaced frame is never put into the send queue instead,
where a full queue would leak it. Each lemma takes a slot out of one place with
`L` growing by it and puts it into the next with `L` shrinking, in the order of
the code; between two calls `L` is what `TakeReceived` has lent. The pool
suffices because `repeat` and `store` are never both in use (`OneKept`), so that
at most `3 + 2 * QueueDepth` of its slots are taken: with `kMailboxQueueDepth`
= 10, one buffer of the 24 is always spare.

`EcatMailboxOrderProofs` goes on from there to what the master sees:

| theorem | states | for |
| --- | --- | --- |
| `RepeatedFrameWasRead` | `Spec => []RepeatWasRead` | `TestIsCurrent`, no INIT |
| `RepliesArriveInOrder` | `Spec => []RepliesInOrder` | `TestIsCurrent`, `OneSession`, `Regular` |
| `FramesInvariance`, `HandshakeInvariance`, `OrderInvariance` | the invariants they rest on | the same (`HandshakeInvariance` without `Regular`) |

The master reads, writes, retries, loses and asks for repeats between any two
steps of `Poll`, and so does the interrupt. What remains excluded is what the
code cannot do. `TestIsCurrent`: the interrupt keeps out of the gap between the
test of SM1 in `Service` and the call that follows from it; inside it a frame
counts as read that nobody has read (`MCMailbox_DoubleRead`). `OneSession`: no
reset and no request for INIT. Across a reset the repeat level survives and
loses a reply (`MCMailbox_StaleLevel`), across INIT the queues do
(`MCMailbox_InitKeepsReplies`); `RepeatedFrameWasRead` holds over resets.
`Regular`: every request is well formed, has a counter and a reply, every reply
fits SM1, the master has no more requests open than a queue has places, and the
counter takes two values at least (the code's takes seven). With a reply that
does not fit, or one request more than the queue holds, the reply is lost.
`MCEcatMailboxOrder` is an instance of all three.

`FramesInv` ties SM1, the frame `read_frame_` points at and the kept frames to what
the master has taken (`Wire`, `Known`). `HandshakeInv` adds the bits (`Shaken`):
toggle and level agree, the request differs from them only while the master asks,
and a repeat that is owed has its frame, or gets it when `Service` finds SM1
read. It has to allow for the request that `Service` sees while no frame is kept:
its level is taken and its acknowledge forgotten (`Stuck`,
`ecat_mailbox.cpp:609-612`, section 6), and the order survives because the master
then waits.

The order rests on four numbers, which the invariant only claims to exist: `a`
requests let in, `t` of them taken from the queue, `c` replies submitted, `d` of
them out of the send queue. `Requests` and `Replies` put the numbers of the
frames in SM0, both queues and the buffer that is lent out between these without
a gap, `Front` says which frames are in SM1, kept and displaced, by what the
master has received and whether a repeat is pending (`g + 1` comes next, and
during a repeat `g + 2` steps aside for it). Counters are equal for equal numbers
and differ for neighbours, which is all that dropping a retry and a duplicate
needs. That no request and no reply is dropped for want of room follows from
`Window`: what is in a queue was sent and not received.

`EcatSyncProofs` proves for every set of DC setups, both process data directions,
every horizon and limit, and each step of time that divides 1 ms
(`SyncAssumption`):

| theorem | states | for |
| --- | --- | --- |
| `SyncTypes` | `Spec => []TypeOK` | |
| `MissingSyncIsNoticed` | `Spec => []WatchdogNotices` | |
| `PulsesInTimeSuffice` | `Spec => []WatchdogIsPatient` | `SlowSetups` |
| `SyncInvariance` | the invariant they rest on | |

Neither direction of a watchdog is inductive, because the property speaks of time
and the code counts ticks. The invariant bounds the count from both sides: from
below by the age of the last SYNC0 (`Awake`), which makes it notice in
time, and from above by the part of the period that is over (`Patient`, with the
time to the next pulse from `Ahead`), which keeps it from tripping early. Both bounds survive
a SAFEOP that is entered again, because `StartSm` runs whole, and a way to PREOP
that fails, because `StopSm` keeps the limits: the ticks then count from zero, as
at the start of a session.
`SlowSetups`: SYNC0 comes every 1.5 ms or more rarely, and missed events have no
limit (`sync_error_limit_` is 0), as in the code, where nothing sets one. A tick may fall on both
ends of a cycle, so two cycles must hold one tick more than one cycle can
count; for shorter ones `MCSync_ShortCycle` shows the opposite.

`EcatBackgroundProofs` proves for every set of read widths, every store delay,
number of requests and length of a replay (`SiiAssumption`,
`DiagnosticsAssumption`, `BackgroundAssumption`):

| theorem | states |
| --- | --- |
| `WordsAreKept` | `Spec => []NothingForgotten` |
| `CommandsAreDone` | `Spec => []AcknowledgedIsDone` |
| `ReplaysAreWhole` | `Spec => []ReplayIsOfOneFault` |
| `BackgroundTypes` | `Spec => []TypeOK` |
| `BackgroundInvariance` | the invariant they rest on |

The invariant adds two things. `OneFault`: a replay that runs has its fault, so
that no new fault can be recorded under it. `Commanded`, for reads of 4 bytes:
there is one claim to a command, the EEPROM event in the register or the one
context that has read it, and a context that marks or acknowledges has already
carried the command out. With 8 bytes the claim is not unique, which is the
hazard of section 6.

`UartProofs` proves for every set of senders, every capacity and a prompt or a late
driver with any number of refused calls (`UartAssumption`):

| theorem | states | for |
| --- | --- | --- |
| `ReceptionIsReady` | `Spec => []RunningIsReady` | |
| `LineSwitchIsSafe` | `Spec => []LineChangesAtRest` | |
| `FrameStaysIntact` | `Spec => []FrameInFlightIntact` | `OneSender` |
| `UartTypes` | `Spec => []TypeOK` | |
| `UartInvariance` | the invariant they rest on | |

The invariant ties the driver to its outstanding events: exactly one RX_DISABLED
is outstanding while it stops and none otherwise, so the callback can restart
reception only once. `Phases` says at which steps of `Reconfigure` the automatic
restart is off, `Stopped` that reception cannot come back between its stop and
the new setting, and `ReadyAgain` that reception without `ready_` is about to set
it, or follows a stop by the user. All four hold for prompt and late drivers alike.
`FrameStaysIntact` adds `Exclusive`: `tx_busy_` is set from before `uart_tx` until
UART_TX_DONE, and a sender at work has the buffer for itself. The last holds for
one sender only, as the class is used here; with two, TLC finds a frame
overwritten (section 6).

`UsbProofs` proves for every set of frame lengths up to 256, every room in the
queue, any number of failing HAL calls and either reading of DTR
(`UsbAssumption`):

| theorem | states |
| --- | --- |
| `StreamIsUsable` | `Spec => []ConfiguredIsUsable` |
| `BusyIsTrue` | `Spec => []BusyMeansInFlight` |
| `SessionsStayApart` | `Spec => []SessionsDoNotMix` |
| `FramesStayApart` | `Spec => []FramesDoNotMerge` |
| `EveryTransferIsAnswered` | `Spec => []HostIsAnswered` |
| `UsbTypes` | `Spec => []TypeOK` |
| `UsbInvariance` | the invariant they rest on |

The properties are nearly inductive together. What is added: a device that is
not configured has no transfer under way and an empty queue (`Usable`); outside
`Idle` the HAL waits on EP0 in the very stage the device is in (`Armed`); a
message that is not finished has its zero length packet under way, or a call has
failed (`Closed`). `ConfiguredIsUsable` excepts `lost`: where the recovery of a
failed reception fails as well, the device is configured and deaf (section 6).

`EcatSdoProofs` proves for every dictionary, mailbox length, segment buffer, set
of targets, number of transfers and number of lost replies (`SdoAssumption`,
`ClientAssumption`: objects are well formed, a mailbox has room for more than the
headers, SM0 is not longer than the server takes it to be, Complete Access starts
at an entry that exists):

| theorem | states | for |
| --- | --- | --- |
| `SdoTypesAreOK` | `Spec => []TypeOK` | |
| `UploadsAreSnapshots` | `Spec => []UploadIsSnapshot` | |
| `DownloadsAreStored` | `Spec => []DownloadIsStored` | `HasBits` |
| `RefusalsHaveReasons` | `Spec => []RefusalsAreExplained` | |
| `DownloadsAloneWrite` | `Spec => OnlyDownloadsWrite` | `HasBits` |
| `TransfersInTurn` (a lemma) | the invariant they rest on | |

All assume `Roomy` and `Waits`. `Roomy`: for Complete Access the announced length
(`TotalLengthOf`, which adds up the bits of all entries) is not shorter than the
one `Read` and `Write` arrive at (whole bytes of the accessible entries); 0x1C32,
where it is longer, satisfies it. `Waits` is about the master: after INIT it
takes what is still on its way before it asks again, since the server does not
drop it (section 6). `HasBits`: no entry is empty; `Write` would pass over an
empty one at the end. SM0 and the dictionary are otherwise arbitrary; where they
make the server go wrong the properties say so. `UploadIsSnapshot` promises nothing
of an object whose announced length is not its own (`Exact`);
`RefusalsAreExplained` names the two refusals that are the server's fault
(`ServerAtFault`): of a download that needs more than a shorter SM0, and of
an upload whose announced length is too long; `OnlyDownloadsWrite` is silent
on the objects that every dispatch overwrites, and admits that Complete Access
with too little data has written its first entries.

None of the properties speaks of the session, and all depend on it: a reply is
right only because the server's session is of this transfer, and at the same
place in it as the master. `TransferInv` says where the two may be. `InTurn`:
while a transfer is under way there is one request or one reply. `FirstAsked`:
the first request never looks at a session left over from a transfer that was
given up; its reply ends the transfer or begins a session of its own. `UpAsked`,
`DownAsked`: before a segment is served the session has what the master has, and
the toggle of the segment before; afterwards it has what the reply completes. A
segment asked for again, because its reply was lost, finds the session `Behind`
(with its own toggle, or ended): it is refused and never served twice, which is
why `RefusalsAreExplained` speaks of transfers without a lost reply. `served` and
`Stored` carry what the object was, or has become, to the end (`Outcome`). The
lemmas before follow the code: byte strings, offsets in an object, that `Write`
takes from the data the bytes of each entry, what `HandleInitiate` decides, and
one segment in each direction.

Only model-checked: liveness (`PendingEnds`, `OutputsStopWithoutSync`,
`EveryTransferEnds`; TLAPS proves neither
liveness under fairness nor `ENABLED`). Induction over data is out of the
prover's reach, so that the places of bytes in an object are cardinalities of
sets and not sums over its entries.

## 6. What the runs found

| configuration | code | says | does |
| --- | --- | --- | --- |
| `MCSync_ShortCycle` | `ecat_sync.cpp:300` | the watchdog waits two cycles or 1 ms (`:217`) | with a limit of 1 it trips on every tick: cycles below 1 ms never stay in OP |
| `MCUart_SpareIsAnother` | `uart.cpp:113`, `:165`, `:238` | the driver is offered another buffer (`ARCHITECTURE.md:496`) | buffer 0 is marked taken after `uart_rx_enable`, in the restart never: the request that follows hands it out again |
| `MCEcatBackground_RequestStaysVisible` | `ecat_device.cpp:1280` | the snapshot reads nothing that acknowledges (`:1262`) | it reads the event register, which acknowledges: a state request after the handler of that pass is lost |
| `MCEcat_StateMatchesResources` | `ecat_device.cpp:697` | a failed transition keeps state and resources consistent | SAFEOP to PREOP that fails stays in SAFEOP with its inputs stopped and its events masked; the master may acknowledge and go on to OP, where outputs run without inputs |
| `MCEcat_InitIsPublished` | `ecat_device.cpp:531` | state and AL Status must agree (`:307`) | BackToInit publishes nothing |
| `MCEcat_SmChangeIsChecked` | `ecat_device.cpp:387` | the transition has checked the SM settings | a request for the same state checks nothing, and the event is dropped |
| `MCMailbox_DoubleRead` | `ecat_mailbox.cpp:228` | the master has read SM1 (`:563`) | an interrupt between the test and the call refills SM1; an unread reply counts as read |
| `MCMailbox_RequestStuck` | `ecat_mailbox.cpp:427` | a request that meets a full SM1 is received later (`receive_locked_`) | its event went with the read of 0x0220 that reported it, and nothing looks at SM0 again: it stays there unanswered. The event is lost as well when the snapshot reads it (`ecat_device.cpp:1280`) |
| `MCMailbox_StaleLevel` | `ecat_mailbox.cpp:173-211` | no repeat without an edge (`:232`) | `Stop` keeps the repeat level: after a reset the first pass may repeat unasked, and a reply is missed |
| `MCMailbox_InitKeepsReplies` | `ecat_device.cpp:914-921` | `LeavePreOp` stops the mailbox (`:905`) | INIT does not call it: replies of one session answer the requests of the next |
| `MCSdo_SyncObject` | `ecat_dictionary.cpp:452` | offsets must be exact | 0x1C32 by complete access announces 61 bytes and writes 35 |
| `MCSdo_ShortMailbox` | `ecat_sdo.cpp:337-344` | a project may choose a shorter mailbox (`ecat_limits.hpp:20-22`) | lengths are compared with `kMaxMailboxSize`, so correct downloads that need segments are refused |
| `MCSdo_InitKeepsReply` | `ecat_device.cpp:914-921` | `LeavePreOp` stops the mailbox (`:905`) | the confirmation of a download given up by INIT is taken for that of the next |
| `MCUart_OldBytes` | `uart.cpp:280` | the bytes of the old setting are discarded | a late driver raises UART_RX_RDY after `rx_bip_.Reset()`, and they are read with the new ones |
| `MCUart_StopStops` | `uart.cpp:245` | after `StopRx` the DMA has stopped | RX_DISABLED finds the automatic restart on and starts reception again, with `ready_` at 1 |

The first three are runs of `PROJECT.json`; the others are reproduced as section
3 says.

Seen while modelling, without a run of their own:

* Device: after the fallback of an SM change to PREOP the inputs run on.
  `RequestLocalState(INIT)` leaves the mailbox running. `Disable` does not
  publish INIT. `BOOT` is a state without steps. `Disable` after a failed PHY
  start does nothing, because `ready_` is still false (`ethercat.hpp:116`).
* SII: with 8 byte reads `HandleReload` acknowledges the last segment and reads the
  command again; `PollCommand` then writes the register once more
  (`ecat_sii_service.cpp:136`) and acknowledges whatever the master has asked
  for since. A write that fails still starts the store delay. A master that
  keeps reading postpones the store for ever (`:139`).
* SDO information: `ecat_sdo_info.cpp:34` numbers the lists "1=全部 2=RxPDO 3=TxPDO",
  the dictionary masks with `0x0020 << type`, so list 1 holds only the objects
  that may be mapped into an RxPDO (`ecat_object.hpp:77`), and its own comment
  (`ecat_dictionary.cpp:880`) names the two the other way round.
* UART: with two senders `Send` may overwrite a frame in flight (`uart.cpp:210`).
  A refused `ApplyLineConfig` leaves the new setting in `config_`.
* USB: after a failed recovery the device is configured and deaf
  (`usb_dev_port.cpp:482`). The semaphore is not cleared with the queue, against
  the comment `usb.cpp:83`, so a reader may wake up for nothing. An address set
  while configured leaves the stream configured and stops its reception after
  the next packet (`usb_dev_port.cpp:147`, `:403`).
* Mailbox: a repeat request that `Service` sees when no frame is kept has its
  level taken and its acknowledge forgotten (`ecat_mailbox.cpp:609-612`), so
  the master waits for it in vain. A frame lent by `TakeReceived` survives
  `Stop`. A reply longer than SM1 circulates in the send queue for ever.
* Synchronisation: SYNC0 publishes inputs also where SYNC1 should.
  `sync_error_limit_` is never set, though a comment takes it from 0x10F1:02.
  `StartSm` keeps the missed-event counters of the session before. A cycle of
  exactly 1 ms has no margin.
* SDO: Writes to
  0x1C32, 0x1C33 and 0x10F8 are confirmed and overwritten by the next
  dispatch. Complete access that turns out too short has already written its
  first entries, silently skips entries the state protects, and ignores state
  rights when reading. A session survives INIT.

## 7. What is not modelled

* An interrupt *inside* a handler of the AL (`EcatDevice` takes a handler as
  one step). The mailbox, where it matters most, is split.
* In `EcatDevice`: a failure of `Open` in `Prepare`, LEDs, the explicit device
  ID, EEPROM and input events (they change nothing the properties see), the
  distinction of AL status codes beyond those a decision depends on.
* In the mailbox: two members the code only writes; three frames of the same
  counter at once.
* In the synchronisation: timestamps, and two functions nobody calls.
* In the SDO server: frames too short for an SDO header, hooks (none is bound),
  the concrete object table (a parameter; the instance has the shapes of 0x1C32,
  0x10F1, 0x2000, 0x6000, 0x7010).
* In the SII service: addresses, data, error bits; the on-board EEPROM, which the
  ESC serves itself. In the diagnostics: the history and the counters. The timer
  and the PDI interrupt are taken not to interrupt each other.
* In the UART: the contents of frames, the reader's semaphore, user callbacks, a
  reset of the queue in the middle of a read by another thread.
* In the USB stack: descriptors, line coding, halted endpoints, `Stop` (nothing
  calls it), a callback that is itself interrupted by a sender on another core,
  and completions of a control transfer that SETUP has cut short (the HAL is
  taken to drop them).
* SDO information: every answer is one function of the request and a constant
  dictionary; fragments never occur, since at most 32 indices are listed and
  `Continue` has no caller. PHY drivers: register sequences at start-up.
  `Stream`: an interface. CAN, SPI, GPIO, PWM: calls forwarded to Zephyr, with
  no state that two of them share but the SPI descriptor. RS485 does not compile.
* Byte layouts, names and log texts.

## 8. Plan

What is left, in this order.

1. `EcatSdo`: an abstract `SdoContract` (a transfer reads or writes an object
   at one moment) and the refinement, which `TransferInv` should carry.
2. `RepliesArriveInOrder` for replies that the server does not give and requests
   without a counter (`Regular` without `Unanswered` and `Uncounted`).
3. `RefusalsHaveReasons` after a lost reply: what the master may conclude from
   an abort of a segment that it has repeated.

Configurations that only witness a disagreement give way to the runs of new
components; their findings stay in section 6.

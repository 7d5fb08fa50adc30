----------------------------- MODULE EcatBackground -----------------------------
(***************************************************************************)
(* What runs beside the process data: the thread's Poll, the PDI interrupt *)
(* and the 1 ms timer of EcatDevice share the AL event register, the SII   *)
(* service (EcatSii) and the diagnostics (EcatDiagnostics), while the      *)
(* master asks for a state and gives EEPROM commands.                      *)
(*                                                                         *)
(* An interrupt comes between any two steps of the thread, the master acts *)
(* between any two steps of either.  PDI and timer do not interrupt each   *)
(* other.  By the contract of EcatEsc, reading the AL event register       *)
(* acknowledges what it shows (ecat_esc.hpp:107).                          *)
(***************************************************************************)
EXTENDS EcatSii, EcatDiagnostics

CONSTANTS
  MaxRequests  \* bound: state requests and EEPROM commands of the master

ASSUME BackgroundAssumption == MaxRequests \in Nat

VARIABLES
  sii,   \* EcatSiiService
  g,     \* EcatDiagnostics
  e,     \* the ESC: events, mask, al (an unanswered request), and EcatSii's
  ctx,   \* of the thread and the PDI interrupt: pc, events it has read, command
  ready, \* ready_
  asked  \* bound: what the master has asked for

vars == <<sii, g, e, ctx, ready, asked>>

EventBits == {"AlControl", "Eeprom"}
Contexts == {"thread", "pdi"}
Asleep == [pc |-> "idle", ev |-> {}, cmd |-> Idle]

\* irq_lock() in CaptureDiagnosticSnapshot.
Locked == ctx["thread"].pc = "snapshot"

\* The thread runs when the interrupt does not.
Runs(c) == c = "pdi" \/ ctx["pdi"].pc = "idle"

At(c, pc) == ctx[c].pc = pc /\ Runs(c)

Goes(c, pc) == ctx' = [ctx EXCEPT ![c].pc = pc]

\* After its events the interrupt returns; the thread goes on with the snapshot.
Leaves(c) == ctx' = [ctx EXCEPT ![c] = IF c = "pdi" THEN Asleep ELSE [Asleep EXCEPT !.pc = "lock"]]

\* Mutant of ReadAlEvent: what was read stays.
PeekAlEvent(esc) == esc

\* ReadAlEvent(): reading acknowledges.
ReadAlEvent(esc) == [esc EXCEPT !.events = {}]

-------------------------------------------------------------------------------
(* HandleAlEvents(ReadAlEvent()), in the thread and in the interrupt. *)

\* What there is to do for the events that have been read.
FirstTask(ev) == IF "AlControl" \in ev THEN "al" ELSE "sii"

Handles(c) ==
  /\ e' = ReadAlEvent(e)
  /\ IF e.events = {} THEN Leaves(c)
     ELSE ctx' = [ctx EXCEPT ![c].pc = FirstTask(e.events), ![c].ev = e.events]
  /\ UNCHANGED <<sii, g, ready, asked>>

\* Poll() in the thread, OnPdi() in the interrupt.
Poll == At("thread", "idle") /\ ready /\ Handles("thread")

OnPdi ==
  /\ At("pdi", "idle") /\ ready /\ ~Locked
  /\ e.events \cap e.mask # {}
  /\ Handles("pdi")

\* AL Control: the state machine answers; a transition to or from INIT changes
\* the event mask.
AnswerControl(c) ==
  /\ At(c, "al")
  /\ \E mask \in {{}, EventBits} : e' = [e EXCEPT !.al = FALSE, !.mask = mask]
  /\ IF "Eeprom" \in ctx[c].ev THEN Goes(c, "sii") ELSE Leaves(c)
  /\ UNCHANGED <<sii, g, ready, asked>>

\* PollCommand(): nothing to do unless the command is busy.
ReadCommand(c) ==
  /\ At(c, "sii")
  /\ IF e.cmd = Idle THEN Leaves(c)
     ELSE ctx' = [ctx EXCEPT ![c].pc = "execute", ![c].cmd = e.cmd]
  /\ UNCHANGED <<sii, g, e, ready, asked>>

\* Carry the command out.  A reload of 8 bytes may also fail.
ExecuteCommand(c) ==
  /\ At(c, "execute")
  /\ e' \in Execute(e, ctx[c].cmd)
  /\ \/ Segmented(sii, ctx[c].cmd) /\ Goes(c, "segment")
     \/ Goes(c, IF ctx[c].cmd = "write" THEN "mark" ELSE "acknowledge")
  /\ UNCHANGED <<sii, g, ready, asked>>

\* A write starts the store delay, after the medium has been written.
MarkPending(c) ==
  /\ At(c, "mark") /\ Goes(c, "acknowledge")
  /\ sii' = [sii EXCEPT !.pending = TRUE]
  /\ UNCHANGED <<g, e, ready, asked>>

\* HandleReload() acknowledges the segment and looks for the next one.
AcknowledgeSegment(c) ==
  /\ At(c, "segment") /\ Goes(c, "next")
  /\ e' = WriteBack(e)
  /\ UNCHANGED <<sii, g, ready, asked>>

NextSegment(c) ==
  /\ At(c, "next")
  /\ Goes(c, IF e.cmd = "reload" THEN "execute" ELSE "acknowledge")
  /\ UNCHANGED <<sii, g, e, ready, asked>>

\* Mutant of Acknowledge: the store is cancelled, not only its delay.
AcknowledgeAndCancel(c) ==
  /\ At(c, "acknowledge") /\ Leaves(c)
  /\ e' = WriteBack(e)
  /\ sii' = [sii EXCEPT !.counter = 0, !.pending = FALSE]
  /\ UNCHANGED <<g, ready, asked>>

\* The command is acknowledged, and every command starts the delay again.
Acknowledge(c) ==
  /\ At(c, "acknowledge") /\ Leaves(c)
  /\ e' = WriteBack(e)
  /\ sii' = [sii EXCEPT !.counter = 0]
  /\ UNCHANGED <<g, ready, asked>>

HandleAlEvents(c) ==
  \/ AnswerControl(c)
  \/ ReadCommand(c) \/ ExecuteCommand(c) \/ MarkPending(c)
  \/ AcknowledgeSegment(c) \/ NextSegment(c) \/ Acknowledge(c)

-------------------------------------------------------------------------------
(* The rest of the thread, the timer, and Disable. *)

\* CaptureDiagnosticSnapshot() locks the interrupts and reads the events.
LockSnapshot ==
  /\ At("thread", "lock") /\ Goes("thread", "snapshot")
  /\ UNCHANGED <<sii, g, e, ready, asked>>

ReadSnapshot ==
  /\ At("thread", "snapshot") /\ Goes("thread", "diagnose")
  /\ e' = ReadAlEvent(e)
  /\ UNCHANGED <<sii, g, ready, asked>>

\* diagnostics_.Poll() and Report(), which is due once a second.
Diagnose ==
  /\ At("thread", "diagnose") /\ Goes("thread", "idle")
  /\ \E running, line, report, receiving, error \in BOOLEAN :
       LET p == PollDiagnostics(g, running, line)
       IN  g' = IF report THEN Report(p, receiving, error) ELSE p
  /\ UNCHANGED <<sii, e, ready, asked>>

\* OnTick1ms(): the delayed store.
OnTick1ms ==
  /\ At("pdi", "idle") /\ ~Locked /\ ready
  /\ sii' = Tick(sii)
  /\ e' = IF TickStores(sii) THEN StoreSii(e) ELSE e
  /\ UNCHANGED <<g, ctx, ready, asked>>

\* Disable(): events off, the pending store is done now.
Disable ==
  /\ At("thread", "idle") /\ ready
  /\ ready' = FALSE
  /\ sii' = Flush(sii)
  /\ e' = IF sii.pending THEN StoreSii(e) ELSE e
  /\ UNCHANGED <<g, ctx, asked>>

\* Enable().
Enable ==
  /\ At("thread", "idle") /\ ~ready
  /\ ready' = TRUE
  /\ UNCHANGED <<sii, g, e, ctx, asked>>

\* RequestFaultReport() and ClearFaultReport(), from the shell.
RequestFaultReport ==
  /\ g.avail
  /\ g' = [g EXCEPT !.req = 1]
  /\ UNCHANGED <<sii, e, ctx, ready, asked>>

ClearFaultReport ==
  /\ g' = [g EXCEPT !.req = 2]
  /\ UNCHANGED <<sii, e, ctx, ready, asked>>

-------------------------------------------------------------------------------
(* The master. *)

Asks == asked < MaxRequests /\ asked' = asked + 1 /\ UNCHANGED <<sii, g, ctx, ready>>

RequestState ==
  /\ Asks /\ ~e.al
  /\ e' = [e EXCEPT !.al = TRUE, !.events = @ \cup {"AlControl"}]

\* An EEPROM command, when the last one is no longer busy.
GiveCommand ==
  /\ Asks /\ e.cmd = Idle
  /\ \E cmd \in Commands : e' = [e EXCEPT !.cmd = cmd, !.done = FALSE, !.events = @ \cup {"Eeprom"}]

-------------------------------------------------------------------------------
Init ==
  /\ sii \in [width : Widths, counter : {0}, pending : {FALSE}]
  /\ g = [req |-> 0, avail |-> FALSE, id |-> 0, dump |-> FALSE, line |-> 0, out |-> FALSE,
          received |-> FALSE, failed |-> FALSE, shown |-> 0]
  /\ e = [events |-> {}, mask |-> {}, al |-> FALSE, cmd |-> Idle, done |-> TRUE,
          skipped |-> FALSE, unsaved |-> FALSE]
  /\ ctx = [c \in Contexts |-> Asleep]
  /\ ready = FALSE /\ asked = 0

Next ==
  \/ Poll \/ OnPdi \/ \E c \in Contexts : HandleAlEvents(c)
  \/ LockSnapshot \/ ReadSnapshot \/ Diagnose
  \/ OnTick1ms \/ Enable \/ Disable
  \/ RequestFaultReport \/ ClearFaultReport
  \/ RequestState \/ GiveCommand

Spec == Init /\ [][Next]_vars

\* The type invariant of the services and the contexts.
TypeOK ==
  /\ sii \in [width : Widths, counter : 0..StoreDelay-1, pending : BOOLEAN]
  /\ g \in [req : {0, 1, 2}, avail : BOOLEAN, id : {0, 1}, dump : BOOLEAN, line : 0..DumpLines,
            out : BOOLEAN, received : BOOLEAN, failed : BOOLEAN, shown : {0, 1}]
  /\ e \in [events : SUBSET EventBits, mask : SUBSET EventBits, al : BOOLEAN,
            cmd : Commands \cup {Idle}, done : BOOLEAN, skipped : BOOLEAN, unsaved : BOOLEAN]
  /\ ctx \in [Contexts -> [pc : {"idle", "al", "sii", "execute", "mark", "segment", "next",
                                 "acknowledge", "lock", "snapshot", "diagnose"},
                           ev : SUBSET EventBits, cmd : Commands \cup {Idle}]]
  /\ ready \in BOOLEAN /\ asked \in 0..MaxRequests

\* A word the master wrote is never forgotten: until it is stored the store is
\* pending, or the command that wrote it is about to make it so, whenever the
\* timer stores in between (ecat_sii_service.cpp:118-124, :246-276).
NothingForgotten ==
  e.unsaved => sii.pending \/ \E c \in Contexts : ctx[c].pc = "mark"

\* With 4 byte reads a command that is acknowledged has been carried out or refused,
\* although the thread and the interrupt both handle commands and may interrupt each
\* other in the middle of one (ecat_device.cpp:398, ecat_sii_service.cpp:95-136).
AcknowledgedIsDone == e.skipped => sii.width = 8

\* A replay shows one fault: it ends when the fault is cleared, and a new fault
\* cannot take its place half way (ecat_diagnostics.cpp:54-63, :164-201).
ReplayIsOfOneFault == g.dump /\ g.line > 0 => g.avail /\ g.shown = g.id

\* A request of the master that is not answered is in the event register, or in
\* the hands of a context that has read it there (ecat_device.cpp:1260).
RequestStaysVisible ==
  e.al => "AlControl" \in e.events \/ \E c \in Contexts : ctx[c].pc = "al"

===============================================================================

------------------------- MODULE EcatBackgroundProofs -------------------------
(***************************************************************************)
(* Proofs about EcatBackground, for every store delay, every length of a   *)
(* replay and any number of requests: a word the master wrote is not       *)
(* forgotten, an acknowledged command was carried out, and a replay shows  *)
(* one fault.                                                              *)
(***************************************************************************)
EXTENDS EcatBackground, TLAPS

DiagnosticsType ==
  [req : {0, 1, 2}, avail : BOOLEAN, id : {0, 1}, dump : BOOLEAN, line : 0..DumpLines,
   out : BOOLEAN, received : BOOLEAN, failed : BOOLEAN, shown : {0, 1}]

ServiceType == [width : Widths, counter : 0..StoreDelay-1, pending : BOOLEAN]

EscType ==
  [events : SUBSET EventBits, mask : SUBSET EventBits, al : BOOLEAN,
   cmd : Commands \cup {Idle}, done : BOOLEAN, skipped : BOOLEAN, unsaved : BOOLEAN]

\* A replay is of the fault that is kept, from its first line on: without the
\* fault there is no replay, which ReplayIsOfOneFault alone does not say.
OneFault(x) == x.dump => x.avail /\ (x.line > 0 => x.shown = x.id)

-------------------------------------------------------------------------------
(* The diagnostics.                                                        *)

\* A replay has a first line (dump_line_ starts at 0).
LEMMA FirstLine == 0 \in 0..DumpLines
  BY DiagnosticsAssumption DEF DiagnosticsAssumption

\* CaptureFault keeps the type, and a replay that is under way has its fault.
LEMMA CaptureFaultSound ==
  ASSUME NEW x \in DiagnosticsType, OneFault(x)
  PROVE  CaptureFault(x) \in DiagnosticsType /\ OneFault(CaptureFault(x))
<1> DEFINE y == [x EXCEPT !.avail = TRUE, !.id = 1 - @, !.line = 0]
<1>a. 1 - x.id \in {0, 1}
  BY DEF DiagnosticsType
<1>1. y \in DiagnosticsType
  BY <1>a, FirstLine DEF DiagnosticsType
<1>2. y.line = 0 /\ y.avail
  BY DEF DiagnosticsType
<1> QED
  BY <1>1, <1>2 DEF CaptureFault, OneFault

\* So does a line of the replay, which takes the number of the fault when it is
\* the first.
LEMMA ReplayFaultSound ==
  ASSUME NEW x \in DiagnosticsType, OneFault(x), NEW due \in BOOLEAN
  PROVE  ReplayFault(x, due) \in DiagnosticsType /\ OneFault(ReplayFault(x, due))
<1>1. CASE ~x.dump \/ ~due
  BY <1>1 DEF ReplayFault
<1>2. CASE x.dump /\ due /\ x.line = DumpLines
  BY <1>2, FirstLine DEF ReplayFault, DiagnosticsType, OneFault
<1>3. CASE x.dump /\ due /\ x.line # DumpLines
  <2> DEFINE y == [x EXCEPT !.line = @ + 1, !.shown = IF x.line = 0 THEN x.id ELSE @]
  <2>1. ReplayFault(x, due) = y
    BY <1>3 DEF ReplayFault
  <2>2. x.line + 1 \in 0..DumpLines
    BY <1>3, DiagnosticsAssumption DEF DiagnosticsAssumption, DiagnosticsType
  <2>3. y \in DiagnosticsType
    BY <2>2 DEF DiagnosticsType
  <2>4. y.avail = x.avail /\ y.id = x.id /\ y.shown = x.id
    BY <1>3 DEF DiagnosticsType, OneFault
  <2> QED
    BY <1>3, <2>1, <2>3, <2>4 DEF OneFault
<1> QED
  BY <1>1, <1>2, <1>3 DEF DiagnosticsType

\* A request starts a replay of a fault that is there, or ends it with the fault.
LEMMA TakeRequestSound ==
  ASSUME NEW x \in DiagnosticsType, OneFault(x)
  PROVE  TakeRequest(x) \in DiagnosticsType /\ OneFault(TakeRequest(x))
<1>1. CASE x.req = 2
  <2> DEFINE y == [x EXCEPT !.req = 0, !.avail = FALSE, !.dump = FALSE]
  <2>1. TakeRequest(x) = y
    BY <1>1 DEF TakeRequest
  <2>2. y \in DiagnosticsType
    BY DEF DiagnosticsType
  <2>3. ~TakeRequest(x).dump
    BY <2>1 DEF DiagnosticsType
  <2> QED
    BY <2>1, <2>2, <2>3 DEF OneFault
<1>2. CASE x.req = 1 /\ x.avail
  <2> DEFINE y == [x EXCEPT !.req = 0, !.dump = TRUE, !.line = 0]
  <2>1. TakeRequest(x) = y
    BY <1>2 DEF TakeRequest
  <2>2. y \in DiagnosticsType
    BY FirstLine DEF DiagnosticsType
  <2>3. TakeRequest(x).avail /\ TakeRequest(x).line = 0
    BY <1>2, <2>1 DEF DiagnosticsType
  <2> QED
    BY <2>1, <2>2, <2>3 DEF OneFault
<1>3. CASE x.req # 2 /\ ~(x.req = 1 /\ x.avail)
  <2>1. TakeRequest(x) = [x EXCEPT !.req = 0]
    BY <1>3 DEF TakeRequest
  <2> QED
    BY <2>1 DEF DiagnosticsType, OneFault
<1> QED
  BY <1>1, <1>2, <1>3

\* Poll: the request, then a fault, then a line, each sound by itself.
LEMMA PollDiagnosticsSound ==
  ASSUME NEW x \in DiagnosticsType, OneFault(x), NEW running \in BOOLEAN, NEW due \in BOOLEAN
  PROVE  /\ PollDiagnostics(x, running, due) \in DiagnosticsType
         /\ OneFault(PollDiagnostics(x, running, due))
<1> DEFINE t == TakeRequest(x)
           c == IF t.out /\ ~running THEN CaptureFault(t) ELSE t
           r == [c EXCEPT !.out = running]
<1>1. t \in DiagnosticsType /\ OneFault(t)
  BY TakeRequestSound
<1>2. c \in DiagnosticsType /\ OneFault(c)
  BY <1>1, CaptureFaultSound
<1> HIDE DEF c
<1>3. r \in DiagnosticsType /\ OneFault(r)
  BY <1>2 DEF DiagnosticsType, OneFault
<1>4. PollDiagnostics(x, running, due) = ReplayFault(r, due)
  BY DEF PollDiagnostics, c
<1> HIDE DEF r
<1> QED
  BY <1>3, <1>4, ReplayFaultSound

\* Report may capture a fault as well, which a replay under way does not notice.
LEMMA ReportSound ==
  ASSUME NEW x \in DiagnosticsType, OneFault(x), NEW receiving \in BOOLEAN, NEW error \in BOOLEAN
  PROVE  /\ Report(x, receiving, error) \in DiagnosticsType
         /\ OneFault(Report(x, receiving, error))
<1> DEFINE r == [x EXCEPT !.received = @ \/ receiving]
           c == IF r.failed THEN r ELSE CaptureFault(r)
<1>1. r \in DiagnosticsType /\ OneFault(r)
  BY DEF DiagnosticsType, OneFault
<1>2. c \in DiagnosticsType /\ OneFault(c)
  BY <1>1, CaptureFaultSound
<1>3. Report(x, receiving, error) =
        IF error \/ (r.received /\ ~receiving) THEN [c EXCEPT !.failed = TRUE]
        ELSE [r EXCEPT !.failed = @ /\ ~receiving]
  BY DEF Report
<1> HIDE DEF r, c
<1>4. /\ [c EXCEPT !.failed = TRUE] \in DiagnosticsType
      /\ OneFault([c EXCEPT !.failed = TRUE])
  BY <1>2 DEF DiagnosticsType, OneFault
<1>5. /\ [r EXCEPT !.failed = @ /\ ~receiving] \in DiagnosticsType
      /\ OneFault([r EXCEPT !.failed = @ /\ ~receiving])
  BY <1>1 DEF DiagnosticsType, OneFault
<1> QED
  BY <1>3, <1>4, <1>5

-------------------------------------------------------------------------------
(* Types.                                                                  *)

Pcs == {"idle", "al", "sii", "execute", "mark", "segment", "next", "acknowledge",
        "lock", "snapshot", "diagnose"}

ContextType == [Contexts -> [pc : Pcs, ev : SUBSET EventBits, cmd : Commands \cup {Idle}]]

Types ==
  /\ sii \in ServiceType /\ g \in DiagnosticsType /\ e \in EscType
  /\ ctx \in ContextType /\ ready \in BOOLEAN /\ asked \in 0..MaxRequests

\* The type invariant, with its parts named.
LEMMA TypesOK == TypeOK <=> Types
  BY DEF TypeOK, Types, ServiceType, DiagnosticsType, EscType, ContextType, Pcs

\* A tick keeps the counter below the delay.
LEMMA TickType ==
  ASSUME NEW v \in ServiceType
  PROVE  Tick(v) \in ServiceType /\ Flush(v) \in ServiceType
<1>1. 0 \in 0..StoreDelay-1
  BY SiiAssumption DEF SiiAssumption
<1>2. CASE v.pending /\ v.counter + 1 < StoreDelay
  <2>1. v.counter + 1 \in 0..StoreDelay-1
    BY <1>2, SiiAssumption DEF SiiAssumption, ServiceType
  <2> QED
    BY <1>1, <1>2, <2>1 DEF Tick, Flush, ServiceType
<1>3. CASE ~(v.pending /\ v.counter + 1 < StoreDelay)
  BY <1>1, <1>3 DEF Tick, Flush, ServiceType
<1> QED
  BY <1>2, <1>3

\* What a context does to its program counter keeps the type.
LEMMA GoesType ==
  ASSUME NEW c \in Contexts, NEW pc \in Pcs, ctx \in ContextType, Goes(c, pc)
  PROVE  ctx' \in ContextType
  BY DEF Goes, ContextType

\* So does what it does when it has handled its events.
LEMMA LeavesType ==
  ASSUME NEW c \in Contexts, ctx \in ContextType, Leaves(c)
  PROVE  ctx' \in ContextType
  BY DEF Leaves, ContextType, Asleep, Pcs, Commands, Idle

\* The medium and the command register.
LEMMA EscCallsType ==
  ASSUME NEW x \in EscType
  PROVE  /\ ReadAlEvent(x) \in EscType /\ WriteBack(x) \in EscType /\ StoreSii(x) \in EscType
         /\ \A cmd : Execute(x, cmd) \subseteq EscType
<1>1. ReadAlEvent(x) \in EscType /\ StoreSii(x) \in EscType
  BY DEF EscType, ReadAlEvent, StoreSii
<1>2. WriteBack(x) \in EscType
  <2> DEFINE lost == x.skipped \/ (x.cmd # Idle /\ ~x.done)
  <2>1. lost \in BOOLEAN
    BY DEF EscType
  <2>2. WriteBack(x) = [x EXCEPT !.cmd = Idle, !.skipped = lost]
    BY DEF WriteBack
  <2> HIDE DEF lost
  <2> QED
    BY <2>1, <2>2 DEF EscType
<1>3. ASSUME NEW cmd PROVE Execute(x, cmd) \subseteq EscType
  <2>1. x \in EscType /\ [x EXCEPT !.unsaved = TRUE] \in EscType
    BY DEF EscType
  <2>2. \A y \in EscType : [y EXCEPT !.done = TRUE] \in EscType
    BY DEF EscType
  <2> QED
    BY <2>1, <2>2 DEF Execute, WriteSiiWord
<1> QED
  BY <1>1, <1>2, <1>3

\* Reading the events and taking them up, in Poll and in OnPdi.
LEMMA HandlesType ==
  ASSUME Types, NEW c \in Contexts, Handles(c)
  PROVE  Types'
<1>1. e' \in EscType
  BY EscCallsType DEF Handles, Types
<1>2. ctx' \in ContextType
  <2>1. CASE e.events = {}
    BY <2>1, LeavesType DEF Handles, Types
  <2>2. CASE e.events # {}
    BY <2>2 DEF Handles, Types, ContextType, EscType, FirstTask, Pcs
  <2> QED
    BY <2>1, <2>2
<1> QED
  BY <1>1, <1>2 DEF Handles, Types

\* Every step keeps the types; the diagnostics need that a replay has its fault.
LEMMA TypeStep == Types /\ OneFault(g) /\ [Next]_vars => Types'
<1> SUFFICES ASSUME Types, OneFault(g), [Next]_vars PROVE Types'
  OBVIOUS
<1> USE DEF Types
<1>1. CASE Poll \/ OnPdi
  BY <1>1, HandlesType DEF Poll, OnPdi, Contexts
<1>2. ASSUME NEW c \in Contexts, HandleAlEvents(c) PROVE Types'
  <2>1. CASE AnswerControl(c)
    <3>1. e' \in EscType
      BY <2>1 DEF AnswerControl, EscType
    <3>2. ctx' \in ContextType
      BY <2>1, GoesType, LeavesType DEF AnswerControl, Pcs
    <3> QED
      BY <2>1, <3>1, <3>2 DEF AnswerControl
  <2>2. CASE ReadCommand(c)
    <3>1. ctx' \in ContextType
      <4>1. CASE e.cmd = Idle
        BY <2>2, <4>1, LeavesType DEF ReadCommand
      <4>2. CASE e.cmd # Idle
        BY <2>2, <4>2 DEF ReadCommand, ContextType, EscType, Pcs
      <4> QED
        BY <4>1, <4>2
    <3> QED
      BY <2>2, <3>1 DEF ReadCommand
  <2>3. CASE ExecuteCommand(c)
    <3>1. ctx' \in ContextType
      BY <2>3, GoesType DEF ExecuteCommand, Pcs
    <3> QED
      BY <2>3, <3>1, EscCallsType DEF ExecuteCommand
  <2>4. CASE MarkPending(c)
    BY <2>4, GoesType DEF MarkPending, Pcs, ServiceType
  <2>5. CASE AcknowledgeSegment(c)
    BY <2>5, GoesType, EscCallsType DEF AcknowledgeSegment, Pcs
  <2>6. CASE NextSegment(c)
    BY <2>6, GoesType DEF NextSegment, Pcs
  <2>7. CASE Acknowledge(c)
    <3>1. 0 \in 0..StoreDelay-1
      BY SiiAssumption DEF SiiAssumption
    <3> QED
      BY <2>7, <3>1, LeavesType, EscCallsType DEF Acknowledge, ServiceType
  <2> QED
    BY <1>2, <2>1, <2>2, <2>3, <2>4, <2>5, <2>6, <2>7 DEF HandleAlEvents
<1>3. CASE LockSnapshot \/ ReadSnapshot
  BY <1>3, GoesType, EscCallsType DEF LockSnapshot, ReadSnapshot, Contexts, Pcs
<1>4. CASE Enable
  BY <1>4 DEF Enable
<1>5. CASE OnTick1ms
  BY <1>5, TickType, EscCallsType DEF OnTick1ms
<1>6. CASE Disable
  BY <1>6, TickType, EscCallsType DEF Disable
<1>7. CASE RequestFaultReport \/ ClearFaultReport
  BY <1>7 DEF RequestFaultReport, ClearFaultReport, DiagnosticsType
<1>8. CASE RequestState \/ GiveCommand
  <2>1. asked' \in 0..MaxRequests
    <3>1. asked < MaxRequests /\ asked' = asked + 1
      BY <1>8 DEF RequestState, GiveCommand, Asks
    <3> QED
      BY <3>1, BackgroundAssumption DEF BackgroundAssumption
  <2>2. e' \in EscType
    <3>1. CASE RequestState
      BY <3>1 DEF RequestState, EscType, EventBits
    <3>2. CASE GiveCommand
      BY <3>2 DEF GiveCommand, EscType, EventBits
    <3> QED
      BY <1>8, <3>1, <3>2
  <2> QED
    BY <1>8, <2>1, <2>2 DEF RequestState, GiveCommand, Asks
<1>9. CASE Diagnose
  <2>1. g' \in DiagnosticsType
    <3>1. PICK running, line, report, receiving, error \in BOOLEAN :
            LET p == PollDiagnostics(g, running, line)
            IN  g' = IF report THEN Report(p, receiving, error) ELSE p
      BY <1>9 DEF Diagnose
    <3> DEFINE p == PollDiagnostics(g, running, line)
    <3>2. p \in DiagnosticsType /\ OneFault(p)
      BY PollDiagnosticsSound
    <3>3. g' = IF report THEN Report(p, receiving, error) ELSE p
      BY <3>1
    <3> HIDE DEF p
    <3> QED
      BY <3>2, <3>3, ReportSound
  <2> QED
    BY <1>9, <2>1, GoesType DEF Diagnose, Contexts, Pcs
<1>10. CASE UNCHANGED vars
  BY <1>10 DEF vars
<1> QED
  BY <1>1, <1>2, <1>3, <1>4, <1>5, <1>6, <1>7, <1>8, <1>9, <1>10 DEF Next

-------------------------------------------------------------------------------
(* Words the master wrote.                                                 *)

\* Every step keeps written words marked: the medium is written on the way to the
\* mark, and only a store clears it.
LEMMA ForgetStep == Types /\ NothingForgotten /\ [Next]_vars => NothingForgotten'
<1> SUFFICES ASSUME Types, NothingForgotten, [Next]_vars PROVE NothingForgotten'
  OBVIOUS
<1> USE DEF Types, NothingForgotten
<1>1. ASSUME NEW c \in Contexts, ctx[c].pc = "idle", Handles(c) PROVE NothingForgotten'
  BY <1>1 DEF Handles, Leaves, ReadAlEvent, ContextType, EscType
<1>2. ASSUME NEW c \in Contexts, HandleAlEvents(c) PROVE NothingForgotten'
  <2>1. CASE AnswerControl(c)
    BY <2>1 DEF AnswerControl, At, Goes, Leaves, ContextType, EscType
  <2>2. CASE ReadCommand(c)
    BY <2>2 DEF ReadCommand, At, Goes, Leaves, ContextType, EscType
  <2>3. CASE ExecuteCommand(c)
    <3>1. CASE ctx[c].cmd = "write"
      <4>1. ctx'[c].pc = "mark"
        BY <2>3, <3>1 DEF ExecuteCommand, Segmented, Goes, ContextType
      <4> QED
        BY <4>1
    <3>2. CASE ctx[c].cmd # "write"
      <4>1. e'.unsaved = e.unsaved
        BY <2>3, <3>2 DEF ExecuteCommand, Execute, EscType
      <4> QED
        BY <2>3, <4>1 DEF ExecuteCommand, At, Goes, ContextType
    <3> QED
      BY <3>1, <3>2
  <2>4. CASE MarkPending(c)
    BY <2>4 DEF MarkPending, ServiceType
  <2>5. CASE AcknowledgeSegment(c)
    BY <2>5 DEF AcknowledgeSegment, At, Goes, WriteBack, ContextType, EscType
  <2>6. CASE NextSegment(c)
    BY <2>6 DEF NextSegment, At, Goes, ContextType
  <2>7. CASE Acknowledge(c)
    BY <2>7 DEF Acknowledge, At, Leaves, WriteBack, ContextType, EscType, ServiceType
  <2> QED
    BY <1>2, <2>1, <2>2, <2>3, <2>4, <2>5, <2>6, <2>7 DEF HandleAlEvents
<1>3. CASE Poll \/ OnPdi
  BY <1>1, <1>3 DEF Poll, OnPdi, At, Contexts
<1>4. CASE LockSnapshot \/ ReadSnapshot \/ Diagnose
  BY <1>4 DEF LockSnapshot, ReadSnapshot, Diagnose, At, Goes, ReadAlEvent, ContextType, EscType,
     Contexts
<1>5. CASE OnTick1ms
  <2>1. CASE TickStores(sii)
    BY <1>5, <2>1 DEF OnTick1ms, StoreSii, EscType
  <2>2. CASE ~TickStores(sii)
    <3>1. sii'.pending = sii.pending
      <4>1. CASE sii.pending
        <5>1. sii.counter + 1 < StoreDelay
          BY <2>2, <4>1, SiiAssumption DEF SiiAssumption, TickStores, ServiceType
        <5> QED
          BY <1>5, <4>1, <5>1 DEF OnTick1ms, Tick, ServiceType
      <4>2. CASE ~sii.pending
        BY <1>5, <4>2 DEF OnTick1ms, Tick
      <4> QED
        BY <4>1, <4>2
    <3> QED
      BY <1>5, <2>2, <3>1 DEF OnTick1ms
  <2> QED
    BY <2>1, <2>2
<1>6. CASE Disable
  BY <1>6 DEF Disable, Flush, StoreSii, EscType
<1>7. CASE Enable \/ RequestFaultReport \/ ClearFaultReport
  BY <1>7 DEF Enable, RequestFaultReport, ClearFaultReport
<1>8. CASE RequestState \/ GiveCommand
  BY <1>8 DEF RequestState, GiveCommand, Asks, EscType
<1>9. CASE UNCHANGED vars
  BY <1>9 DEF vars
<1> QED
  BY <1>2, <1>3, <1>4, <1>5, <1>6, <1>7, <1>8, <1>9 DEF Next

-------------------------------------------------------------------------------
(* Replays.                                                                *)

\* Every step keeps a replay with its fault: only Diagnose touches either.
LEMMA FaultStep == Types /\ OneFault(g) /\ [Next]_vars => OneFault(g)'
<1> SUFFICES ASSUME Types, OneFault(g), [Next]_vars PROVE OneFault(g')
  BY DEF OneFault
<1> USE DEF Types
<1>1. CASE Diagnose
  <2>1. PICK running, line, report, receiving, error \in BOOLEAN :
          LET p == PollDiagnostics(g, running, line)
          IN  g' = IF report THEN Report(p, receiving, error) ELSE p
    BY <1>1 DEF Diagnose
  <2> QED
    BY <2>1, PollDiagnosticsSound, ReportSound
<1>2. CASE RequestFaultReport \/ ClearFaultReport
  BY <1>2 DEF RequestFaultReport, ClearFaultReport, DiagnosticsType, OneFault
<1>3. CASE UNCHANGED g
  BY <1>3
<1>4. ASSUME NEW c \in Contexts, HandleAlEvents(c) PROVE UNCHANGED g
  BY <1>4 DEF HandleAlEvents, AnswerControl, ReadCommand, ExecuteCommand, MarkPending,
     AcknowledgeSegment, NextSegment, Acknowledge
<1> QED
  BY <1>1, <1>2, <1>3, <1>4 DEF Next, Poll, OnPdi, Handles, LockSnapshot, ReadSnapshot, OnTick1ms,
     Enable, Disable, RequestState, GiveCommand, Asks, vars

-------------------------------------------------------------------------------
(* Commands.  With reads of 4 bytes there is one claim to the command of   *)
(* the master: the Eeprom event in the register, or the context that has   *)
(* read it there, until it acknowledges.                                   *)

Claims(c) ==
  \/ ctx[c].pc = "al" /\ "Eeprom" \in ctx[c].ev
  \/ ctx[c].pc \in {"sii", "execute", "mark", "acknowledge"}

OneClaim ==
  /\ "Eeprom" \in e.events => e.cmd # Idle /\ \A c \in Contexts : ~Claims(c)
  /\ \A c \in Contexts : Claims(c) => e.cmd # Idle
  /\ \A c, k \in Contexts : Claims(c) /\ Claims(k) => c = k

Carried ==
  \A c \in Contexts : /\ ctx[c].pc \in {"mark", "acknowledge"} => e.done
                      /\ ctx[c].pc \notin {"segment", "next"}

Commanded == sii.width = 4 => OneClaim /\ Carried /\ ~e.skipped

\* Every step keeps the claim single: reading the register moves it to the reader,
\* the acknowledge ends it, and the snapshot may drop it, but nothing copies it.
LEMMA CommandStep == Types /\ Commanded /\ [Next]_vars => Commanded'
<1> SUFFICES ASSUME Types, sii.width = 4, OneClaim, Carried, ~e.skipped, [Next]_vars
             PROVE  OneClaim' /\ Carried' /\ ~e'.skipped
  <2>1. ASSUME Types, [Next]_vars PROVE sii'.width = sii.width
    BY <2>1 DEF Types, ServiceType, Next, vars, HandleAlEvents, AnswerControl, ReadCommand, ExecuteCommand,
       MarkPending, AcknowledgeSegment, NextSegment, Acknowledge, Poll, OnPdi, Handles, LockSnapshot,
       ReadSnapshot, Diagnose, OnTick1ms, Tick, Flush, Enable, Disable, RequestFaultReport,
       ClearFaultReport, RequestState, GiveCommand, Asks
  <2> QED
    BY <2>1 DEF Commanded
<1> USE DEF Types, OneClaim, Carried, Claims
<1>1. ASSUME NEW c \in Contexts, ctx[c].pc = "idle", Handles(c)
      PROVE  OneClaim' /\ Carried' /\ ~e'.skipped
  <2>1. e' = [e EXCEPT !.events = {}]
    BY <1>1 DEF Handles, ReadAlEvent
  <2>2. CASE e.events = {}
    <3>1. ctx'[c].pc \in {"idle", "lock"} /\ \A k \in Contexts \ {c} : ctx'[k] = ctx[k]
      BY <1>1, <2>2 DEF Handles, Leaves, Asleep, ContextType
    <3>2. e'.cmd = e.cmd /\ e'.done = e.done /\ e'.skipped = e.skipped /\ e'.events = {}
      BY <2>1 DEF EscType
    <3> QED
      BY <3>1, <3>2
  <2>3. CASE e.events # {}
    <3>1. ctx' = [ctx EXCEPT ![c].pc = FirstTask(e.events), ![c].ev = e.events]
      BY <1>1, <2>3 DEF Handles
    <3>2. FirstTask(e.events) \in {"al", "sii"}
          /\ (FirstTask(e.events) = "sii" => "Eeprom" \in e.events)
      BY <2>3 DEF FirstTask, EscType, EventBits
    <3> HIDE DEF Claims
    <3>3. Claims(c)' => "Eeprom" \in e.events
      BY <3>1, <3>2 DEF ContextType, Claims
    <3>4. \A k \in Contexts \ {c} : ctx'[k] = ctx[k] /\ (Claims(k)' <=> Claims(k))
      BY <3>1 DEF ContextType, Claims
    <3>5. e'.cmd = e.cmd /\ e'.done = e.done /\ e'.skipped = e.skipped /\ e'.events = {}
      BY <2>1 DEF EscType
    <3>6. ctx'[c].pc \in {"al", "sii"}
      BY <3>1, <3>2 DEF ContextType
    <3>7. OneClaim'
      BY <3>3, <3>4, <3>5
    <3>8. Carried'
      BY <3>4, <3>5, <3>6
    <3> QED
      BY <3>5, <3>7, <3>8
  <2> QED
    BY <2>2, <2>3
<1>2. ASSUME NEW c \in Contexts, HandleAlEvents(c)
      PROVE  OneClaim' /\ Carried' /\ ~e'.skipped
  <2>1. CASE AnswerControl(c)
    <3>1. e'.events = e.events /\ e'.cmd = e.cmd /\ e'.done = e.done /\ e'.skipped = e.skipped
      BY <2>1 DEF AnswerControl, EscType
    <3>2. CASE "Eeprom" \in ctx[c].ev
      <4>1. ctx' = [ctx EXCEPT ![c].pc = "sii"]
        BY <2>1, <3>2 DEF AnswerControl, Goes
      <4> QED
        BY <2>1, <3>1, <3>2, <4>1 DEF AnswerControl, At, ContextType
    <3>3. CASE "Eeprom" \notin ctx[c].ev
      BY <2>1, <3>1, <3>3 DEF AnswerControl, Leaves, Asleep, ContextType
    <3> QED
      BY <3>2, <3>3
  <2>2. CASE ReadCommand(c)
    <3>1. e.cmd # Idle
      BY <2>2 DEF ReadCommand, At
    <3>2. ctx' = [ctx EXCEPT ![c].pc = "execute", ![c].cmd = e.cmd]
      BY <2>2, <3>1 DEF ReadCommand
    <3> QED
      BY <2>2, <3>2 DEF ReadCommand, At, ContextType
  <2>3. CASE ExecuteCommand(c)
    <3>1. ctx[c].pc = "execute"
      BY <2>3 DEF ExecuteCommand, At
    <3>2. PICK pc \in {"mark", "acknowledge"} : ctx' = [ctx EXCEPT ![c].pc = pc]
      BY <2>3 DEF ExecuteCommand, Segmented, Goes
    <3>3. e'.events = e.events /\ e'.cmd = e.cmd /\ e'.skipped = e.skipped /\ e'.done
      BY <2>3 DEF ExecuteCommand, Execute, WriteSiiWord, EscType
    <3> QED
      BY <3>1, <3>2, <3>3 DEF ContextType
  <2>4. CASE MarkPending(c)
    BY <2>4 DEF MarkPending, At, Goes, ContextType
  <2>5. CASE AcknowledgeSegment(c) \/ NextSegment(c)
    BY <2>5 DEF AcknowledgeSegment, NextSegment, At
  <2>6. CASE Acknowledge(c)
    <3>1. ctx[c].pc = "acknowledge" /\ e.done
      BY <2>6 DEF Acknowledge, At
    <3>2. e'.events = e.events /\ ~e'.skipped /\ e'.done
      BY <2>6, <3>1 DEF Acknowledge, WriteBack, EscType
    <3>3. \A k \in Contexts \ {c} : ctx'[k] = ctx[k] /\ ~Claims(k)
      BY <2>6, <3>1 DEF Acknowledge, Leaves, ContextType
    <3>4. ctx'[c].pc \in {"idle", "lock"}
      BY <2>6 DEF Acknowledge, Leaves, Asleep, ContextType
    <3>5. "Eeprom" \notin e.events
      BY <3>1
    <3> QED
      BY <3>1, <3>2, <3>3, <3>4, <3>5
  <2> QED
    BY <1>2, <2>1, <2>2, <2>3, <2>4, <2>5, <2>6 DEF HandleAlEvents
<1>3. CASE Poll \/ OnPdi
  BY <1>1, <1>3 DEF Poll, OnPdi, At, Contexts
<1>4. CASE LockSnapshot \/ ReadSnapshot \/ Diagnose
  BY <1>4 DEF LockSnapshot, ReadSnapshot, Diagnose, At, Goes, ReadAlEvent, ContextType, EscType,
     Contexts
<1>5. CASE OnTick1ms \/ Disable
  BY <1>5 DEF OnTick1ms, Disable, StoreSii, EscType
<1>6. CASE Enable \/ RequestFaultReport \/ ClearFaultReport
  BY <1>6 DEF Enable, RequestFaultReport, ClearFaultReport
<1>7. CASE RequestState
  BY <1>7 DEF RequestState, Asks, EscType
<1>8. CASE GiveCommand
  <2>1. /\ \A c \in Contexts : ~Claims(c) /\ ctx[c].pc \notin {"mark", "acknowledge"}
        /\ ctx' = ctx
    BY <1>8 DEF GiveCommand, Asks
  <2>2. e'.cmd # Idle /\ e'.skipped = e.skipped
    BY <1>8 DEF GiveCommand, EscType, Commands, Idle
  <2> QED
    BY <2>1, <2>2
<1>9. CASE UNCHANGED vars
  BY <1>9 DEF vars
<1> QED
  BY <1>2, <1>3, <1>4, <1>5, <1>6, <1>7, <1>8, <1>9 DEF Next

-------------------------------------------------------------------------------
(* The theorems.                                                           *)

Inv == Types /\ NothingForgotten /\ OneFault(g) /\ Commanded

\* The inductive invariant of the background services: types, the mark of written
\* words, the fault of a replay and the single claim to a command.
THEOREM BackgroundInvariance == Spec => []Inv
<1>1. Init => Inv
  <2> SUFFICES ASSUME Init PROVE Inv
    OBVIOUS
  <2> USE DEF Init
  <2>1. sii \in ServiceType
    <3>1. 0 \in 0..StoreDelay-1
      BY SiiAssumption DEF SiiAssumption
    <3> QED
      BY <3>1 DEF ServiceType
  <2>2. g \in DiagnosticsType /\ OneFault(g)
    BY FirstLine DEF DiagnosticsType, OneFault
  <2>3. e \in EscType /\ ~e.unsaved /\ ~e.skipped /\ e.events = {}
    BY DEF EscType
  <2>4. ctx \in ContextType /\ \A c \in Contexts : ctx[c].pc = "idle"
    BY DEF ContextType, Asleep, Pcs
  <2>5. ready \in BOOLEAN /\ asked \in 0..MaxRequests
    <3>1. 0 \in 0..MaxRequests
      BY BackgroundAssumption DEF BackgroundAssumption
    <3> QED
      BY <3>1
  <2>6. Commanded
    BY <2>3, <2>4 DEF Commanded, OneClaim, Claims, Carried
  <2> QED
    BY <2>1, <2>2, <2>3, <2>4, <2>5, <2>6 DEF Inv, Types, NothingForgotten
<1>2. Inv /\ [Next]_vars => Inv'
  BY TypeStep, ForgetStep, FaultStep, CommandStep DEF Inv
<1> QED
  BY <1>1, <1>2, PTL DEF Spec

\* Every member of both services and every register keeps its type; in particular
\* the delay counter stays below the delay and the replay within its lines.
THEOREM BackgroundTypes == Spec => []TypeOK
<1>1. Inv => TypeOK
  BY TypesOK DEF Inv
<1> QED
  BY <1>1, BackgroundInvariance, PTL

\* A word the master wrote is marked for the store, or about to be, whatever the
\* timer stores in between (ecat_sii_service.cpp:118-124, :246-276).
THEOREM WordsAreKept == Spec => []NothingForgotten
<1>1. Inv => NothingForgotten
  BY DEF Inv
<1> QED
  BY <1>1, BackgroundInvariance, PTL

\* With reads of 4 bytes no command is acknowledged that was not carried out or
\* refused, however thread and interrupt cut each other short
\* (ecat_device.cpp:398, ecat_sii_service.cpp:95-136).
THEOREM CommandsAreDone == Spec => []AcknowledgedIsDone
<1>1. Inv => AcknowledgedIsDone
  BY SiiAssumption DEF SiiAssumption, Inv, Types, ServiceType, Commanded, AcknowledgedIsDone
<1> QED
  BY <1>1, BackgroundInvariance, PTL

\* A replay shows one fault from its first line to its last
\* (ecat_diagnostics.cpp:54-63, :164-201).
THEOREM ReplaysAreWhole == Spec => []ReplayIsOfOneFault
<1>1. Inv => ReplayIsOfOneFault
  BY DEF Inv, OneFault, ReplayIsOfOneFault
<1> QED
  BY <1>1, BackgroundInvariance, PTL

===============================================================================

----------------------------- MODULE EcatDeviceOps -----------------------------
(***************************************************************************)
(* The execution side of the AL state machine, class EcatDevice: what each *)
(* step decided by AlStateMachine does to the mailbox, the synchronisation *)
(* domain, the sync manager (SM) channels and the registers of the ESC.    *)
(* The C++ methods call one another, so each is an operator from the       *)
(* device record to the device record after the call; a method that        *)
(* returns an AL status code yields [d |-> record, res |-> code].          *)
(*                                                                         *)
(* Fields of d besides those of AlStateMachine:                            *)
(*   rx, tx   the PDO layout has output / input bytes (layout_)            *)
(*   dc       dc_sync_active_           seq   sm_sequence_valid_           *)
(*   wd       process_wd_value_ > 0     mbx   EcatMailbox::running_        *)
(*   addr     the SM2/SM3 area saved on entering SAFEOP                    *)
(*   chan     SM channels the PDI side keeps enabled (0x0807)              *)
(*   mask     AL Event Mask (0x0204)                                       *)
(*   status   what AL Status (0x0130) shows                                *)
(*                                                                         *)
(* hw is what the handler reads from the ESC while it runs: cfg, the SM    *)
(* configuration of the master, and the EEPROM and DC registers.           *)
(***************************************************************************)
EXTENDS AlStateMachine

CONSTANTS
  HasRx, HasTx,  \* does the DeviceProfile have output / input words?
  Areas          \* legal, non-overlapping placements of SM2 and SM3

ASSUME ProfileAssumption == HasRx \in BOOLEAN /\ HasTx \in BOOLEAN

\* Two further placements: "bad" fails CheckSmSettings, "overlapping" passes
\* it (in range) and fails ValidateAreas.
Placements == Areas \cup {"bad", "overlapping"}

ASSUME AreasAssumption == Areas \cap {"bad", "overlapping", "none"} = {}

\* SM0/SM1 as the master set them up: "overlap" passes CheckSmSettings and
\* is refused by EcatMailbox::Start.
SmConfigs == [mbx : {"ok", "bad", "overlap"}, pd : Placements]

\* eeprom: the EEPROM failed to load (0x0502); sync: the DC unit is off, on,
\* or set up in a way PrepareSm refuses; wd: a process data watchdog is set.
SyncSetups == {"off", "dc", "invalid"}

Hardware == [cfg : SmConfigs, eeprom : BOOLEAN, sync : SyncSetups, wd : BOOLEAN]

Channels == {"Mbx", "PdOut", "PdIn"}
MaskBits == {"AlControl", "Eeprom", "PdOut", "PdIn"}

PdChannels(d) == (IF d.rx THEN {"PdOut"} ELSE {}) \cup (IF d.tx THEN {"PdIn"} ELSE {})

-------------------------------------------------------------------------------
\* Publish(): AL Status shows the current state and error latch.
Publish(d) ==
  [d EXCEPT !.status = [state |-> d.state, error |-> d.error]]

\* EcatSync::StopSm(), as far as CheckErrors can see it.
StopSm(d) == [d EXCEPT !.seq = TRUE]

\* EcatMailbox::Stop() and LeavePreOp(): the mailbox channels are closed.
StopMailbox(d) == [d EXCEPT !.mbx = FALSE, !.chan = @ \ {"Mbx"}]

\* Mutant of LeaveOp: the outputs go on.
LeaveOpRunning(d) == [d EXCEPT !.first = FALSE]

\* LeaveOp(): stop the outputs.
LeaveOp(d) == [d EXCEPT !.out = FALSE, !.first = FALSE]

\* LeaveSafeOp(): close SM2/SM3, mask their events, stop the inputs.
LeaveSafeOp(d) ==
  [StopSm(d) EXCEPT !.chan = @ \ PdChannels(d), !.mask = @ \ {"PdOut", "PdIn"},
                    !.first = FALSE, !.inp = FALSE]

\* BackToInit(): what a request for INIT executes; nothing is published.
BackToInit(d) ==
  [StopSm(d) EXCEPT !.out = FALSE, !.inp = FALSE, !.first = FALSE,
                    !.state = "Init"]

-------------------------------------------------------------------------------
\* EnterPreOp(): the EEPROM must be loaded and the mailbox must start.
EnterPreOp(d, hw) ==
  CASE hw.eeprom ->
         [d |-> d, res |-> "InvalidConfig"]
    [] ~hw.eeprom /\ hw.cfg.mbx # "ok" ->
         [d |-> StopMailbox(d), res |-> "InvalidConfig"]
    [] OTHER ->
         [d |-> [d EXCEPT !.mbx = TRUE, !.chan = @ \cup {"Mbx"}], res |-> "NoError"]

\* EcatSync::PrepareSm(): the watchdog is loaded before the checks can fail.
PrepareSm(d, hw) ==
  LET w == [d EXCEPT !.wd = hw.wd /\ d.rx]
  IN  IF hw.sync # "invalid"
      THEN [d |-> [w EXCEPT !.dc = hw.sync = "dc" /\ d.rx], res |-> "NoError"]
      ELSE [d |-> w, res |-> "InvalidConfig"]

\* The part of EnterSafeOp() after PrepareSm() accepted the configuration.
OpenProcessData(d, hw) ==
  LET o == [StopSm(d) EXCEPT !.first = FALSE, !.chan = @ \cup PdChannels(d),
                             !.addr = hw.cfg.pd]
  IN  IF hw.cfg.pd \notin Areas
      THEN [d   |-> [o EXCEPT !.chan = @ \ {"PdOut", "PdIn"}],
            res |-> "InvalidConfig"]
      ELSE [d   |-> [o EXCEPT !.inp = TRUE,
                              !.mask = @ \cup {"AlControl", "Eeprom"} \cup
                                       (CASE d.rx          -> {"PdOut"}
                                          [] ~d.rx /\ d.tx -> {"PdIn"}
                                          [] OTHER         -> {})],
            res |-> "NoError"]

\* EnterSafeOp(): prepare synchronisation, open SM2/SM3, start the inputs.
EnterSafeOp(d, hw) ==
  LET p == PrepareSm(d, hw)
  IN  IF p.res = "NoError" THEN OpenProcessData(p.d, hw) ELSE p

\* Mutant of EnterOp: SM2 is taken to be open since SAFEOP was entered.
EnterOpBlindly(d) ==
  IF d.rx /\ ~d.first
  THEN [d |-> d, res |-> "InWork"]
  ELSE [d |-> [d EXCEPT !.out = TRUE], res |-> "NoError"]

\* EnterOp(): without first outputs the transition stays in work.
EnterOp(d) ==
  IF d.rx /\ ~d.first
  THEN [d |-> d, res |-> "InWork"]
  ELSE [d   |-> [d EXCEPT !.out = TRUE,
                          !.chan = @ \cup (IF d.rx THEN {"PdOut"} ELSE {})],
        res |-> "NoError"]

\* Transition(): the entering action of the target state.
Enter(d, target, hw) ==
  CASE target = "Init"   -> [d |-> BackToInit(d), res |-> "NoError"]
    [] target = "PreOp"  -> EnterPreOp(d, hw)
    [] target = "SafeOp" -> EnterSafeOp(d, hw)
    [] OTHER             -> EnterOp(d)

-------------------------------------------------------------------------------
\* CheckSmSettings(): SM0/SM1 always, SM2/SM3 for four channels.  In PREOP
\* the process data area only has to be in range, later it must be the one
\* saved on entering SAFEOP.
CheckSmSettings(d, channels, cfg) ==
  IF \/ cfg.mbx = "bad"
     \/ channels = 4 /\ cfg.pd = "bad"
     \/ channels = 4 /\ d.state # "PreOp" /\ cfg.pd # d.addr
  THEN "InvalidConfig"
  ELSE "NoError"

\* Transition(): the jumps it refuses before anything is touched.
IllegalJump(state, target) ==
  \/ state = "Init" /\ target \in {"SafeOp", "Op"}
  \/ state = "PreOp" /\ target = "Op"

\* Configure() runs on the way to SAFEOP and sets the layout.
Configure(d, target) ==
  IF target = "SafeOp" THEN [d EXCEPT !.rx = HasRx, !.tx = HasTx] ELSE d

\* Transition(): leave the states above the target, one level at a time.
LeaveDown(d, target) ==
  LET o == IF d.state = "Op" THEN LeaveOp(d) ELSE d
      s == IF d.state \in {"SafeOp", "Op"} /\ target \in {"Init", "PreOp"}
           THEN LeaveSafeOp(o) ELSE o
  IN  IF target = "Init" /\ d.state # "Init" THEN StopMailbox(s) ELSE s

\* Transition(): what a failed entering action leaves behind.
AfterFailure(d, target) ==
  CASE target = "Op"     -> [LeaveOp(d) EXCEPT !.state = "SafeOp"]
    [] target = "SafeOp" -> [LeaveSafeOp(d) EXCEPT !.state = "PreOp"]
    [] OTHER             -> d

\* Transition(): the checks and the leaving actions came before.
Commit(d, target, hw) ==
  LET e == Enter(LeaveDown(d, target), target, hw)
  IN  CASE e.res = "InWork"  -> e
        [] e.res = "NoError" -> [d |-> [e.d EXCEPT !.state = target], res |-> e.res]
        [] OTHER             -> [d |-> AfterFailure(e.d, target), res |-> e.res]

\* Transition(): a request for the current state only re-enables an SM.
SameState(d, ack) ==
  IF ack /\ d.state \in {"SafeOp", "Op"}
  THEN [d EXCEPT !.chan = @ \cup (CASE d.rx          -> {"PdOut"}
                                    [] ~d.rx /\ d.tx -> {"PdIn"}
                                    [] OTHER         -> {})]
  ELSE d

\* Transition(): refuse, or check, leave and enter.
Transition(d, target, ack, hw) ==
  LET c     == Configure(d, target)
      check == IF target = "Init" THEN "NoError"
               ELSE CheckSmSettings(c, IF target = "PreOp" THEN 2 ELSE 4, hw.cfg)
  IN  CASE d.state = target ->
             [d |-> SameState(d, ack), res |-> "NoError"]
        [] d.state # target /\ IllegalJump(d.state, target) ->
             [d |-> d, res |-> "InvalidRequest"]
        [] d.state # target /\ ~IllegalJump(d.state, target) /\ check # "NoError" ->
             [d |-> c, res |-> check]
        [] OTHER ->
             Commit(c, target, hw)

\* Mutant of FinishTransition: only a failed rise latches its error.
FinishQuietly(d, target, res) ==
  Publish(CASE res = "InWork"  -> BeginTransition(d, target)
            [] res = "NoError" \/ (target = "PreOp" /\ d.state # "Init") ->
                 [d EXCEPT !.code = res]
            [] OTHER           -> [d EXCEPT !.code = res, !.error = TRUE])

\* FinishTransition(): arm the pending transition or latch the result, publish.
FinishTransition(d, target, res) ==
  Publish(CASE res = "InWork"  -> BeginTransition(d, target)
            [] res = "NoError" -> [d EXCEPT !.code = "NoError"]
            [] OTHER           -> [d EXCEPT !.code = res, !.error = TRUE])

EnterStep(d, step, hw) ==
  LET t == Transition(d, step.target, step.ack, hw)
  IN  FinishTransition(t.d, step.target, t.res)

\* ExecuteAlStep(): execute what the state machine decided.
ExecuteAlStep(d, step, hw) ==
  CASE step.action \in {"EnterPreOp", "EnterSafeOp", "EnterOp"} -> EnterStep(d, step, hw)
    [] step.action = "LeaveOp"     -> LeaveOp(d)
    [] step.action = "LeaveSafeOp" -> LeaveSafeOp(d)
    [] step.action = "LeavePreOp"  -> StopMailbox(d)
    [] step.action = "BackToInit"  -> BackToInit(d)
    [] step.action = "Publish"     -> Publish(d)
    [] OTHER                       -> d

-------------------------------------------------------------------------------
\* Mutant of RequestLocalState: AL Status is not written.
FallBackSilently(d, code, target) ==
  LET l == IF d.state = "Op" THEN LeaveOp(d) ELSE d
  IN  [l EXCEPT !.state = target, !.code = code, !.error = TRUE]

\* RequestLocalState(): a local fallback; only the outputs are stopped.
RequestLocalState(d, code, target) ==
  LET l == IF d.state = "Op" THEN LeaveOp(d) ELSE d
  IN  Publish([l EXCEPT !.state = target, !.code = code, !.error = TRUE])

\* CheckErrors(): process data watchdog first, then the DC sequence.
CheckErrors(d, expired) ==
  CASE d.wd /\ d.rx /\ expired /\ d.out ->
         RequestLocalState(d, "RuntimeError", "SafeOp")
    [] d.wd /\ d.rx /\ expired /\ ~d.out ->
         ClearFirstOutputs(d)
    [] ~(d.wd /\ d.rx /\ expired) /\ d.dc /\ d.out /\ ~d.seq ->
         RequestLocalState(d, "RuntimeError", "SafeOp")
    [] OTHER -> d

\* Recheck(): SM_CHANGE outside a transition.
Recheck(d, cfg) ==
  LET result == CheckSmSettings(d, IF d.state = "PreOp" THEN 2 ELSE 4, cfg)
  IN  IF result = "NoError" THEN d
      ELSE RequestLocalState(d, result, IF d.state = "Op" THEN "SafeOp" ELSE "PreOp")

\* HandlePdiEvents(): the outputs of the master arrived.
HandleOutputs(d) ==
  LET m == MarkFirstOutputs(d)
  IN  IF CanCompletePendingOp(m) THEN Publish(CompletePendingOp(m)) ELSE m

\* HandleAlEvents(): AL Control, then SM_CHANGE unless AL Control consumed
\* it, then the process data.
HandleControlEvent(d, ctl, hw) ==
  LET h == HandleControl(d, ctl) IN ExecuteAlStep(h.d, h.step, hw)

HandleAlEvents(d, ev, ctl, hw) ==
  LET c == IF "AlControl" \in ev THEN HandleControlEvent(d, ctl, hw) ELSE d
      s == IF "AlControl" \notin ev /\ "SmChange" \in ev /\ CanRecheck(d)
           THEN Recheck(c, hw.cfg) ELSE c
  IN  IF "PdOut" \in ev THEN HandleOutputs(s) ELSE s

\* Poll(): the thread's pass over a snapshot of the events.
CheckTimeouts(d, hw) ==
  IF TimedOut(d)
  THEN LET t == CheckTimeout(d) IN Publish(ExecuteAlStep(t.d, t.step, hw))
  ELSE d

Poll(d, ev, ctl, hw, expired) ==
  CheckErrors(CheckTimeouts(HandleAlEvents(d, ev, ctl, hw), hw), expired)

-------------------------------------------------------------------------------
\* OnReset(), Disable() and Prepare(): the session is torn down or built up.
TearDown(d) == ResetAl(StopSm(StopMailbox(d)))

PrepareDevice(d) ==
  Publish(ResetAl([StopSm(d) EXCEPT !.chan = {}, !.mask = {}, !.dc = FALSE]))
===============================================================================

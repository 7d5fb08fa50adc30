--------------------------- MODULE EcatDeviceProofs ---------------------------
(***************************************************************************)
(* Proofs about EcatDevice, for every profile, every set of areas, every   *)
(* master configuration and every timeout.  Sound and Visible together     *)
(* are the inductive invariant; each operator of EcatDeviceOps has a       *)
(* lemma that says what it preserves, in the order in which they call one  *)
(* another.                                                                *)
(***************************************************************************)
EXTENDS EcatDevice, TLAPS

(* The parts of the inductive invariant, as predicates of a device record. *)

OutputsOK(x) == x.out => x.state = "Op" /\ ~x.pending /\ (x.rx => x.first)

PendingOK(x) ==
  x.pending => /\ x.state = "SafeOp" /\ x.target = "Op"
               /\ ~x.error /\ ~x.out /\ x.timer <= OpTimeout

ChannelsOK(x) ==
  /\ x.inp /\ x.tx => "PdIn" \in x.chan
  /\ (x.inp \/ x.out) /\ x.rx => "PdOut" \in x.chan
  /\ x.inp \/ x.out => x.addr \in Areas
  /\ x.inp => "AlControl" \in x.mask
  /\ x.inp /\ x.rx => "PdOut" \in x.mask

\* The layout in use is the one of the profile, because a transition to
\* SAFEOP sets it again while outputs or inputs may be running; and above
\* PREOP the saved area is legal, whether or not the inputs still run.
LayoutOK(x) ==
  /\ x.state \in {"SafeOp", "Op"} \/ x.inp => x.rx = HasRx /\ x.tx = HasTx
  /\ x.state \in {"SafeOp", "Op"} => x.addr \in Areas

Core(x) == x \in DeviceType /\ OutputsOK(x) /\ PendingOK(x) /\ LayoutOK(x)

Sound(x) == Core(x) /\ ChannelsOK(x)

Visible(x) ==
  /\ x.state # "Init" => x.status.state = x.state
  /\ x.error => x.status.error

Results == Codes \cup {"InWork"}

\* How a call may move the slave from x to y, as AlContract sees it.
Lower(x, y) ==
  Contract!Rank(y.state) <= Contract!Rank(x.state) /\ (y.out => x.out)

Higher(x, y) ==
  /\ Contract!Rank(y.state) = Contract!Rank(x.state) + 1
  /\ ~y.error
  /\ y.out = (y.state = "Op")

\* A call that stops process data lowers the state or leaves an error the
\* master can read.
Reported(x, y) ==
  /\ x.out /\ ~y.out => y.state # "Op" \/ y.status.error
  /\ x.inp /\ ~y.inp => y.state \notin {"SafeOp", "Op"} \/ y.status.error

\* What every call but the last leaves alone while a transition is executed.
Frame(x, y) ==
  /\ y.state = x.state /\ y.error = x.error /\ y.pending = x.pending
  /\ y.rx = x.rx /\ y.tx = x.tx /\ y.status = x.status

-------------------------------------------------------------------------------
(* Leaving actions and what they leave.                                    *)

\* Publish writes AL Status and nothing the sound parts speak of.
LEMMA PublishSound ==
  ASSUME NEW x, Sound(x)
  PROVE  LET p == Publish(x)
         IN  /\ Sound(p) /\ Visible(p)
             /\ p.state = x.state /\ p.error = x.error /\ p.out = x.out
             /\ p.pending = x.pending /\ p.chan = x.chan
             /\ p.inp = x.inp /\ (x.error => p.status.error)
BY DEF Core, Sound, Visible, OutputsOK, PendingOK, ChannelsOK, LayoutOK, DeviceType,
       Publish

\* After LeaveOp outputs are off, so every part survives whatever the state.
LEMMA LeaveOpSound ==
  ASSUME NEW x, Sound(x)
  PROVE  Sound(LeaveOp(x)) /\ Frame(x, LeaveOp(x)) /\ ~LeaveOp(x).out
BY DEF Core, Sound, OutputsOK, PendingOK, ChannelsOK, LayoutOK, DeviceType, LeaveOp,
       Frame

\* Stopping the mailbox disturbs only the flag mailbox_started.
LEMMA StopMailboxSound ==
  ASSUME NEW x, Sound(x)
  PROVE  /\ Sound(StopMailbox(x)) /\ Frame(x, StopMailbox(x))
         /\ StopMailbox(x).out = x.out
BY DEF Core, Sound, OutputsOK, PendingOK, ChannelsOK, LayoutOK, DeviceType,
       StopMailbox, Channels, Frame

\* LeaveSafeOp stops outputs, inputs and both channels together.
LEMMA LeaveSafeOpSound ==
  ASSUME NEW x, Core(x), ~x.out
  PROVE  /\ Sound(LeaveSafeOp(x)) /\ Frame(x, LeaveSafeOp(x))
         /\ ~LeaveSafeOp(x).inp /\ ~LeaveSafeOp(x).out
BY DEF Core, Sound, OutputsOK, PendingOK, ChannelsOK, LayoutOK, DeviceType,
       LeaveSafeOp, StopSm, Channels, MaskBits, Frame

\* BackToInit leaves nothing running and no channel open.
LEMMA BackToInitSound ==
  ASSUME NEW x, Sound(x), ~x.pending
  PROVE  LET b == BackToInit(x)
         IN  /\ Sound(b) /\ ~b.pending /\ b.state = "Init" /\ ~b.out
             /\ b.error = x.error /\ b.status = x.status
BY DEF Core, Sound, OutputsOK, PendingOK, ChannelsOK, LayoutOK, DeviceType,
       BackToInit, StopSm, States

\* Leaving on the way to another state stops the outputs and changes no state.
LEMMA LeaveDownSound ==
  ASSUME NEW x, Sound(x), NEW target \in States, x.state # target
  PROVE  LET l == LeaveDown(x, target)
         IN  Sound(l) /\ Frame(x, l) /\ ~l.out
<1> DEFINE o == IF x.state = "Op" THEN LeaveOp(x) ELSE x
           s == IF x.state \in {"SafeOp", "Op"} /\ target \in {"Init", "PreOp"}
                THEN LeaveSafeOp(o) ELSE o
<1>1. x.state # "Op" => ~x.out
  BY DEF Sound, Core, OutputsOK
<1>2. Sound(o) /\ Frame(x, o) /\ ~o.out
  BY <1>1, LeaveOpSound DEF Frame
<1> HIDE DEF o
<1>3. Sound(s) /\ Frame(x, s) /\ ~s.out
  BY <1>2, LeaveSafeOpSound DEF Sound, Frame
<1>4. LeaveDown(x, target) = IF target = "Init" /\ x.state # "Init"
                             THEN StopMailbox(s) ELSE s
  BY DEF LeaveDown, o
<1> HIDE DEF s
<1> QED
  BY <1>3, <1>4, StopMailboxSound DEF Frame

-------------------------------------------------------------------------------
(* Entering actions.                                                       *)

\* EnterPreOp opens the mailbox or fails with no channel of its own open.
LEMMA EnterPreOpSound ==
  ASSUME NEW x, Sound(x), NEW hw \in Hardware
  PROVE  LET e == EnterPreOp(x, hw)
         IN  Sound(e.d) /\ Frame(x, e.d) /\ e.d.out = x.out /\ e.res \in Codes
<1>1. /\ Sound([x EXCEPT !.mbx = TRUE, !.chan = @ \cup {"Mbx"}])
      /\ Frame(x, [x EXCEPT !.mbx = TRUE, !.chan = @ \cup {"Mbx"}])
      /\ [x EXCEPT !.mbx = TRUE, !.chan = @ \cup {"Mbx"}].out = x.out
  BY DEF Core, Sound, OutputsOK, PendingOK, ChannelsOK, LayoutOK, DeviceType,
         Channels, Frame
<1>2. Frame(x, x)
  BY DEF Frame
<1> QED
  BY <1>1, <1>2, StopMailboxSound DEF EnterPreOp, Codes

\* PrepareSm opens the channels of a legal layout, or reports a fault.
LEMMA PrepareSmSound ==
  ASSUME NEW x, Sound(x), NEW hw \in Hardware
  PROVE  LET p == PrepareSm(x, hw)
         IN  Sound(p.d) /\ Frame(x, p.d) /\ p.d.out = x.out /\ p.res \in Codes
<1>1. ASSUME NEW w \in BOOLEAN
      PROVE  /\ Sound([x EXCEPT !.wd = w]) /\ Frame(x, [x EXCEPT !.wd = w])
             /\ [x EXCEPT !.wd = w].out = x.out
  BY <1>1 DEF Core, Sound, OutputsOK, PendingOK, ChannelsOK, LayoutOK, DeviceType, Frame
<1>2. ASSUME NEW y, Sound(y), NEW dc \in BOOLEAN
      PROVE  /\ Sound([y EXCEPT !.dc = dc]) /\ Frame(y, [y EXCEPT !.dc = dc])
             /\ [y EXCEPT !.dc = dc].out = y.out
  BY <1>2 DEF Core, Sound, OutputsOK, PendingOK, ChannelsOK, LayoutOK, DeviceType, Frame
<1> DEFINE b == hw.wd /\ x.rx
           w == [x EXCEPT !.wd = b]
           c == hw.sync = "dc" /\ x.rx
<1>3. b \in BOOLEAN /\ c \in BOOLEAN
  OBVIOUS
<1>4. PrepareSm(x, hw) = IF hw.sync # "invalid"
                         THEN [d |-> [w EXCEPT !.dc = c], res |-> "NoError"]
                         ELSE [d |-> w, res |-> "InvalidConfig"]
  BY DEF PrepareSm
<1> HIDE DEF b, c
<1>5. Sound(w) /\ Frame(x, w) /\ w.out = x.out
  BY <1>1, <1>3
<1> HIDE DEF w
<1>6. Sound([w EXCEPT !.dc = c]) /\ Frame(w, [w EXCEPT !.dc = c])
      /\ [w EXCEPT !.dc = c].out = w.out
  BY <1>2, <1>3, <1>5
<1> QED
  BY <1>4, <1>5, <1>6 DEF Frame, Codes

\* When SM2/SM3 overlap, the channels are closed but the inputs may still be
\* marked as running: the failure path of Transition stops them.
LEMMA OpenProcessDataSound ==
  ASSUME NEW x, Sound(x), ~x.out, ~x.pending, x.rx = HasRx, x.tx = HasTx,
         NEW hw \in Hardware, x.state \in {"SafeOp", "Op"} => hw.cfg.pd \in Areas
  PROVE  LET e == OpenProcessData(x, hw)
         IN  /\ Core(e.d) /\ Frame(x, e.d) /\ ~e.d.out /\ e.res \in Codes
             /\ e.res = "NoError" => ChannelsOK(e.d) /\ e.d.addr \in Areas /\ e.d.inp
<1> DEFINE o == [StopSm(x) EXCEPT !.first = FALSE, !.chan = @ \cup PdChannels(x),
                                  !.addr = hw.cfg.pd]
<1>1. hw.cfg.pd \in Placements
  BY DEF Hardware, SmConfigs
<1>2. /\ Core(o) /\ Frame(x, o) /\ ~o.out /\ o.addr = hw.cfg.pd
      /\ o.rx => "PdOut" \in o.chan
      /\ o.tx => "PdIn" \in o.chan
  BY <1>1 DEF Core, Sound, OutputsOK, PendingOK, LayoutOK, DeviceType, StopSm,
              PdChannels, Channels, Frame
<1> HIDE DEF o
<1>3. ASSUME NEW c \in SUBSET Channels
      PROVE  /\ Core([o EXCEPT !.chan = c]) /\ Frame(x, [o EXCEPT !.chan = c])
             /\ ~[o EXCEPT !.chan = c].out
  BY <1>2 DEF Core, OutputsOK, PendingOK, LayoutOK, DeviceType, Frame
<1>4. ASSUME NEW m \in SUBSET MaskBits, "AlControl" \in m, o.rx => "PdOut" \in m,
             o.addr \in Areas
      PROVE  LET r == [o EXCEPT !.inp = TRUE, !.mask = m]
             IN  /\ Core(r) /\ ChannelsOK(r) /\ Frame(x, r) /\ ~r.out
                 /\ r.addr \in Areas /\ r.inp
  BY <1>2, <1>4 DEF Core, OutputsOK, PendingOK, LayoutOK, ChannelsOK, DeviceType, Frame
<1> DEFINE c == o.chan \ {"PdOut", "PdIn"}
           m == o.mask \cup {"AlControl", "Eeprom"} \cup
                (CASE x.rx          -> {"PdOut"}
                   [] ~x.rx /\ x.tx -> {"PdIn"}
                   [] OTHER         -> {})
           closed == [o EXCEPT !.chan = c]
           open == [o EXCEPT !.inp = TRUE, !.mask = m]
<1>5. c \in SUBSET Channels
  BY <1>2 DEF Core, DeviceType
<1>6. m \in SUBSET MaskBits /\ "AlControl" \in m /\ (o.rx => "PdOut" \in m)
  BY <1>2 DEF Core, DeviceType, MaskBits, Frame
<1>7. OpenProcessData(x, hw) = IF hw.cfg.pd \notin Areas
                               THEN [d |-> closed, res |-> "InvalidConfig"]
                               ELSE [d |-> open, res |-> "NoError"]
  BY DEF OpenProcessData, o
<1>8. Core(closed) /\ Frame(x, closed) /\ ~closed.out
  BY <1>3, <1>5
<1>9. o.addr \in Areas => /\ Core(open) /\ ChannelsOK(open) /\ Frame(x, open)
                          /\ ~open.out /\ open.addr \in Areas /\ open.inp
  BY <1>4, <1>6
<1> HIDE DEF c, m, closed, open
<1> QED
  BY <1>2, <1>7, <1>8, <1>9 DEF Codes

\* EnterSafeOp leaves process data running only over open channels.
LEMMA EnterSafeOpSound ==
  ASSUME NEW x, Sound(x), ~x.out, ~x.pending, x.rx = HasRx, x.tx = HasTx,
         NEW hw \in Hardware, x.state \in {"SafeOp", "Op"} => hw.cfg.pd \in Areas
  PROVE  LET e == EnterSafeOp(x, hw)
         IN  /\ Core(e.d) /\ Frame(x, e.d) /\ ~e.d.out /\ e.res \in Codes
             /\ e.res = "NoError" => ChannelsOK(e.d) /\ e.d.addr \in Areas /\ e.d.inp
<1> DEFINE p == PrepareSm(x, hw)
           e == OpenProcessData(p.d, hw)
<1>1. Sound(p.d) /\ Frame(x, p.d) /\ p.d.out = x.out /\ p.res \in Codes
  BY PrepareSmSound
<1>2. EnterSafeOp(x, hw) = IF p.res = "NoError" THEN e ELSE p
  BY DEF EnterSafeOp
<1> HIDE DEF p
<1>3. /\ Core(e.d) /\ Frame(p.d, e.d) /\ ~e.d.out /\ e.res \in Codes
      /\ e.res = "NoError" => ChannelsOK(e.d) /\ e.d.addr \in Areas /\ e.d.inp
  BY <1>1, OpenProcessDataSound DEF Frame
<1> HIDE DEF e
<1> QED
  BY <1>1, <1>2, <1>3 DEF Frame, Sound

\* Outputs are enabled: the caller commits the state OP in the same handler.
LEMMA EnterOpSound ==
  ASSUME NEW x, Sound(x), ~x.pending, x.state = "SafeOp"
  PROVE  LET e == EnterOp(x)
         IN  \/ e.res = "InWork" /\ e.d = x
             \/ /\ e.res = "NoError" /\ e.d.error = x.error
                /\ Sound([e.d EXCEPT !.state = "Op"])
                /\ [e.d EXCEPT !.state = "Op"].out
                /\ [e.d EXCEPT !.state = "Op"].status = x.status
                /\ [e.d EXCEPT !.state = "Op"].error = x.error
                /\ [e.d EXCEPT !.state = "Op"].state = "Op"
                /\ ~[e.d EXCEPT !.state = "Op"].pending
                /\ [e.d EXCEPT !.state = "Op"].inp = x.inp
<1> DEFINE ch == x.chan \cup (IF x.rx THEN {"PdOut"} ELSE {})
           e == [x EXCEPT !.out = TRUE, !.chan = ch]
           op == [e EXCEPT !.state = "Op"]
<1>1. EnterOp(x) = IF x.rx /\ ~x.first THEN [d |-> x, res |-> "InWork"]
                                       ELSE [d |-> e, res |-> "NoError"]
  BY DEF EnterOp
<1>2. ch \in SUBSET Channels /\ x.chan \subseteq ch
  BY DEF Sound, Core, DeviceType, Channels
<1> HIDE DEF ch
<1>3. ~(x.rx /\ ~x.first) => Sound(op)
  <2>1. op \in DeviceType
    BY <1>2 DEF Sound, Core, DeviceType, States
  <2>2. /\ op.state = "Op" /\ op.out /\ ~op.pending /\ op.inp = x.inp /\ op.rx = x.rx
        /\ op.tx = x.tx /\ op.first = x.first /\ op.mask = x.mask /\ op.addr = x.addr
        /\ op.chan = ch
    BY DEF Sound, Core, DeviceType
  <2>3. x.rx => "PdOut" \in ch
    BY DEF ch
  <2> HIDE DEF op
  <2>4. ~(x.rx /\ ~x.first) => OutputsOK(op) /\ PendingOK(op)
    BY <2>2 DEF OutputsOK, PendingOK
  <2>5. LayoutOK(op) /\ ChannelsOK(op)
    BY <1>2, <2>2, <2>3 DEF Sound, Core, LayoutOK, ChannelsOK
  <2> QED
    BY <2>1, <2>4, <2>5 DEF Sound, Core
<1>4. /\ op.out /\ op.state = "Op" /\ op.status = x.status /\ op.error = x.error
      /\ ~op.pending /\ e.error = x.error /\ op.inp = x.inp
  BY DEF Sound, Core, DeviceType
<1> HIDE DEF e
<1> QED
  BY <1>1, <1>3, <1>4

-------------------------------------------------------------------------------
(* Transition and what it is called from.                                  *)

\* A committed state: every part of the invariant survives when no output runs.
LEMMA SetStateSound ==
  ASSUME NEW x, Sound(x), ~x.out, ~x.pending, NEW s \in States,
         s \in {"SafeOp", "Op"} => x.rx = HasRx /\ x.tx = HasTx /\ x.addr \in Areas
  PROVE  LET y == [x EXCEPT !.state = s]
         IN  /\ Sound(y) /\ ~y.out /\ ~y.pending /\ y.state = s
             /\ y.error = x.error /\ y.status = x.status /\ (x.inp => y.inp)
BY DEF Sound, Core, OutputsOK, PendingOK, LayoutOK, ChannelsOK, DeviceType

\* The states a transition may end in, with its result.
Outcome(x, target, t) ==
  /\ Sound(t.d) /\ ~t.d.pending /\ t.res \in Results
  /\ t.d.error = x.error /\ t.d.status = x.status
  /\ t.res = "InWork" => /\ target = "Op" /\ t.d.state = "SafeOp" /\ x.state = "SafeOp"
                         /\ t.d.chan = x.chan /\ t.d.inp = x.inp
  /\ t.res = "NoError" => /\ t.d.state = target /\ (target = "Op" => t.d.out)
                          /\ Contract!Rank(target) <= Contract!Rank(x.state) + 1
                          /\ (target = "SafeOp" => t.d.inp)
                          /\ (target = "Op" => t.d.inp = x.inp)
  /\ t.res \notin {"InWork", "NoError"} => Lower(x, t.d)

\* The four states of the ETG order have the ranks 1 to 4.
LEMMA RankLevels ==
  /\ Contract!Rank("Init") = 0 /\ Contract!Rank("PreOp") = 1
  /\ Contract!Rank("SafeOp") = 2 /\ Contract!Rank("Op") = 3
BY DEF Contract!Rank

\* Commit: the target entered, or the failure path with the old state kept.
LEMMA CommitOutcome ==
  ASSUME NEW x, Sound(x), ~x.pending, NEW target \in States, x.state # target,
         target # "Init", ~IllegalJump(x.state, target),
         target = "SafeOp" => x.rx = HasRx /\ x.tx = HasTx, NEW hw \in Hardware,
         target = "SafeOp" /\ x.state = "Op" => hw.cfg.pd \in Areas
  PROVE  Outcome(x, target, Commit(x, target, hw))
<1> DEFINE l == LeaveDown(x, target)
<1>1. Sound(l) /\ Frame(x, l) /\ ~l.out
  BY LeaveDownSound
<1>2. x.state \in States
  BY DEF Sound, Core, DeviceType
<1> HIDE DEF l
<1>6. Contract!Rank(target) <= Contract!Rank(x.state) + 1
  BY <1>2, RankLevels DEF IllegalJump, States
<1>3. CASE target = "PreOp"
  <2> DEFINE e == EnterPreOp(l, hw)
             y == [e.d EXCEPT !.state = "PreOp"]
  <2>1. Commit(x, target, hw) = CASE e.res = "InWork"  -> e
                                  [] e.res = "NoError" -> [d |-> y, res |-> e.res]
                                  [] OTHER             -> [d |-> e.d, res |-> e.res]
    BY <1>3 DEF Commit, Enter, AfterFailure, l
  <2>2. Sound(e.d) /\ Frame(l, e.d) /\ ~e.d.out /\ e.res \in Codes
    BY <1>1, EnterPreOpSound
  <2> HIDE DEF e
  <2>3. /\ Sound(y) /\ ~y.pending /\ y.state = "PreOp"
        /\ y.error = x.error /\ y.status = x.status
    BY <1>1, <2>2, SetStateSound DEF Frame, States
  <2> HIDE DEF y
  <2>4. Lower(x, e.d)
    BY <1>1, <1>2, <2>2, RankLevels DEF Lower, Frame, States
  <2> QED
    BY <1>1, <1>3, <1>6, <2>1, <2>2, <2>3, <2>4 DEF Outcome, Results, Codes, Frame
<1>4. CASE target = "SafeOp"
  <2> DEFINE e == EnterSafeOp(l, hw)
             y == [e.d EXCEPT !.state = "SafeOp"]
             c == LeaveSafeOp(e.d)
             f == [c EXCEPT !.state = "PreOp"]
  <2>1. Commit(x, target, hw) = CASE e.res = "InWork"  -> e
                                  [] e.res = "NoError" -> [d |-> y, res |-> e.res]
                                  [] OTHER             -> [d |-> f, res |-> e.res]
    BY <1>4 DEF Commit, Enter, AfterFailure, l
  <2>2. /\ Core(e.d) /\ Frame(l, e.d) /\ ~e.d.out /\ e.res \in Codes
        /\ e.res = "NoError" => Sound(e.d) /\ e.d.addr \in Areas /\ e.d.inp
    BY <1>1, <1>4, EnterSafeOpSound DEF Frame, Sound
  <2> HIDE DEF e
  <2>7. Frame(x, e.d) /\ e.d.rx = HasRx /\ e.d.tx = HasTx /\ ~e.d.pending
    BY <1>1, <1>4, <2>2 DEF Frame
  <2>3. e.res = "NoError" => /\ Sound(y) /\ ~y.pending /\ y.state = "SafeOp"
                             /\ y.error = x.error /\ y.status = x.status /\ y.inp
    BY <2>2, <2>7, SetStateSound DEF Frame, States
  <2>4. Sound(c) /\ Frame(e.d, c) /\ ~c.out
    BY <2>2, LeaveSafeOpSound
  <2> HIDE DEF c
  <2>5. /\ Sound(f) /\ ~f.pending /\ f.state = "PreOp" /\ ~f.out
        /\ f.error = x.error /\ f.status = x.status
    BY <2>4, <2>7, SetStateSound DEF Frame, States
  <2> HIDE DEF y, f
  <2>6. Lower(x, f)
    BY <1>2, <1>4, <2>5, RankLevels DEF Lower, IllegalJump, States
  <2> QED
    BY <1>4, <1>6, <2>1, <2>2, <2>3, <2>5, <2>6 DEF Outcome, Results, Codes
<1>5. CASE target = "Op"
  <2> DEFINE e == EnterOp(l)
             y == [e.d EXCEPT !.state = "Op"]
  <2>1. x.state = "SafeOp"
    BY <1>2, <1>5 DEF IllegalJump, States
  <2>2. l = x
    BY <1>5, <2>1 DEF LeaveDown, l
  <2>3. \/ e.res = "InWork" /\ e.d = x
        \/ /\ e.res = "NoError" /\ Sound(y) /\ y.out /\ y.state = "Op" /\ ~y.pending
           /\ y.error = x.error /\ y.status = x.status /\ y.inp = x.inp
    BY <1>1, <2>1, <2>2, EnterOpSound
  <2>4. Commit(x, target, hw) =
          CASE e.res = "InWork"  -> e
            [] e.res = "NoError" -> [d |-> y, res |-> e.res]
            [] OTHER             -> [d |-> AfterFailure(e.d, target), res |-> e.res]
    BY <1>5 DEF Commit, Enter, l
  <2> HIDE DEF e, y
  <2> QED
    BY <1>5, <1>6, <2>1, <2>3, <2>4 DEF Outcome, Results, Codes
<1> QED
  BY <1>3, <1>4, <1>5 DEF States

\* The checks of a transition change no resource.
LEMMA ConfigureSound ==
  ASSUME NEW x, Sound(x), ~x.pending, NEW target \in States
  PROVE  LET c == Configure(x, target)
         IN  /\ Sound(c) /\ ~c.pending /\ c.state = x.state /\ c.error = x.error
             /\ c.status = x.status /\ c.out = x.out /\ c.chan = x.chan /\ c.inp = x.inp
             /\ target = "SafeOp" => c.rx = HasRx /\ c.tx = HasTx
<1> DEFINE c == [x EXCEPT !.rx = HasRx, !.tx = HasTx]
<1>1. /\ Sound(c) /\ ~c.pending /\ c.state = x.state /\ c.error = x.error
      /\ c.status = x.status /\ c.out = x.out /\ c.rx = HasRx /\ c.tx = HasTx
      /\ c.chan = x.chan /\ c.inp = x.inp
  BY ProfileAssumption DEF Sound, Core, OutputsOK, PendingOK, LayoutOK, ChannelsOK,
                           DeviceType
<1> QED
  BY <1>1 DEF Configure

\* A request for the present state restarts no resource.
LEMMA SameStateSound ==
  ASSUME NEW x, Sound(x), NEW ack \in BOOLEAN
  PROVE  LET y == SameState(x, ack)
         IN  Sound(y) /\ Frame(x, y) /\ y.out = x.out /\ y.inp = x.inp
<1> DEFINE ch == x.chan \cup (CASE x.rx          -> {"PdOut"}
                                [] ~x.rx /\ x.tx -> {"PdIn"}
                                [] OTHER         -> {})
           y == [x EXCEPT !.chan = ch]
<1>1. ch \in SUBSET Channels /\ x.chan \subseteq ch
  BY DEF Sound, Core, DeviceType, Channels
<1> HIDE DEF ch
<1>2. Sound(y) /\ Frame(x, y) /\ y.out = x.out /\ y.inp = x.inp
  BY <1>1 DEF Sound, Core, OutputsOK, PendingOK, LayoutOK, ChannelsOK, DeviceType, Frame
<1>3. Frame(x, x)
  BY DEF Frame
<1>4. SameState(x, ack) = IF ack /\ x.state \in {"SafeOp", "Op"} THEN y ELSE x
  BY DEF SameState, ch
<1> HIDE DEF y
<1> QED
  BY <1>2, <1>3, <1>4

\* Transition as a whole: sound, and a move the contract allows.
LEMMA TransitionOutcome ==
  ASSUME NEW x, Sound(x), ~x.pending, NEW target \in States, target # "Init",
         NEW ack \in BOOLEAN, NEW hw \in Hardware
  PROVE  LET t == Transition(x, target, ack, hw)
         IN  IF x.state = target
             THEN /\ t.res = "NoError" /\ Sound(t.d) /\ Frame(x, t.d)
                  /\ t.d.out = x.out /\ t.d.inp = x.inp
             ELSE Outcome(x, target, t)
<1> DEFINE c == Configure(x, target)
           check == CheckSmSettings(c, IF target = "PreOp" THEN 2 ELSE 4, hw.cfg)
<1>1. /\ Sound(c) /\ ~c.pending /\ c.state = x.state /\ c.error = x.error
      /\ c.status = x.status /\ c.out = x.out /\ c.chan = x.chan /\ c.inp = x.inp
      /\ target = "SafeOp" => c.rx = HasRx /\ c.tx = HasTx
  BY ConfigureSound
<1>2. Transition(x, target, ack, hw) =
        CASE x.state = target ->
               [d |-> SameState(x, ack), res |-> "NoError"]
          [] x.state # target /\ IllegalJump(x.state, target) ->
               [d |-> x, res |-> "InvalidRequest"]
          [] x.state # target /\ ~IllegalJump(x.state, target) /\ check # "NoError" ->
               [d |-> c, res |-> check]
          [] OTHER ->
               Commit(c, target, hw)
  BY DEF Transition
<1>3. check \in Codes /\ check \in {"NoError", "InvalidConfig"}
  BY DEF CheckSmSettings, Codes
<1>4. x.state \in States
  BY DEF Sound, Core, DeviceType
<1>10. check = "NoError" /\ target = "SafeOp" /\ c.state = "Op" => hw.cfg.pd \in Areas
  BY <1>1 DEF CheckSmSettings, Sound, Core, LayoutOK
<1> HIDE DEF c, check
<1>5. Lower(x, x) /\ Lower(x, c)
  BY <1>1, <1>4, RankLevels DEF Lower, States
<1>6. CASE x.state = target
  BY <1>2, <1>6, SameStateSound
<1>7. CASE x.state # target /\ IllegalJump(x.state, target)
  BY <1>2, <1>5, <1>7 DEF Outcome, Results, Codes
<1>8. CASE x.state # target /\ ~IllegalJump(x.state, target) /\ check # "NoError"
  BY <1>1, <1>2, <1>3, <1>5, <1>8 DEF Outcome, Results, Codes
<1>9. CASE x.state # target /\ ~IllegalJump(x.state, target) /\ check = "NoError"
  <2>1. Outcome(c, target, Commit(c, target, hw))
    BY <1>1, <1>9, <1>10, CommitOutcome
  <2>2. Transition(x, target, ack, hw) = Commit(c, target, hw)
    BY <1>2, <1>9
  <2> QED
    BY <1>1, <1>9, <2>1, <2>2 DEF Outcome, Lower
<1> QED
  BY <1>6, <1>7, <1>8, <1>9

-------------------------------------------------------------------------------
(* The handlers.                                                           *)

\* What a handler does to the slave: it keeps the invariant, the state is
\* visible, and it moves as the contract allows; a transition that is left
\* pending has not changed the state.
Moved(x, y) ==
  /\ Sound(y) /\ Visible(y)
  /\ Lower(x, y) \/ (Higher(x, y) /\ ~y.pending)
  /\ y.pending => y.state = x.state /\ y.chan = x.chan /\ y.inp = x.inp
  /\ Reported(x, y)

\* BeginTransition latches the request before any resource is touched.
LEMMA BeginSound ==
  ASSUME NEW x, Sound(x), ~x.error, x.state = "SafeOp"
  PROVE  LET b == BeginTransition(x, "Op")
         IN  Sound(b) /\ b.state = x.state /\ b.out = x.out /\ b.chan = x.chan /\ b.inp = x.inp
<1> DEFINE b == [x EXCEPT !.pending = TRUE, !.target = "Op", !.timer = OpTimeout]
<1>1. BeginTransition(x, "Op") = b
  <2>1. (CASE "Op" = "PreOp"  -> PreOpTimeout
           [] "Op" = "SafeOp" -> DefaultTimeout
           [] "Op" = "Op"     -> OpTimeout
           [] OTHER           -> 0) = OpTimeout
    OBVIOUS
  <2> QED
    BY <2>1, Zenon DEF BeginTransition
<1>2. Sound(b) /\ b.state = x.state /\ b.out = x.out /\ b.chan = x.chan /\ b.inp = x.inp
  <2>1. OpTimeout \in Nat /\ OpTimeout <= OpTimeout
    BY TimeoutAssumption
  <2>2. ~x.out
    BY DEF Sound, Core, OutputsOK
  <2>3. b \in DeviceType /\ b.timer = OpTimeout
    BY <2>1 DEF Sound, Core, DeviceType, States
  <2> QED
    BY <2>1, <2>2, <2>3 DEF Sound, Core, OutputsOK, PendingOK, LayoutOK, ChannelsOK,
                            DeviceType
<1> HIDE DEF b
<1> QED
  BY <1>1, <1>2

\* Latching an error sets the code and leaves every resource.
LEMMA LatchSound ==
  ASSUME NEW x, Sound(x), ~x.pending, NEW code \in Codes
  PROVE  LET y == [x EXCEPT !.code = code, !.error = TRUE]
         IN  /\ Sound(y) /\ ~y.pending /\ y.state = x.state /\ y.out = x.out
             /\ y.inp = x.inp /\ y.error
BY DEF Sound, Core, OutputsOK, PendingOK, LayoutOK, ChannelsOK, DeviceType

\* The error code alone carries none of the sound parts.
LEMMA SetCodeSound ==
  ASSUME NEW x, Sound(x), NEW code \in Codes
  PROVE  LET y == [x EXCEPT !.code = code]
         IN  Sound(y) /\ Frame(x, y) /\ y.out = x.out /\ y.inp = x.inp
BY DEF Sound, Core, OutputsOK, PendingOK, LayoutOK, ChannelsOK, DeviceType, Frame

\* One step of the transition handler, as a move of the contract.
LEMMA EnterStepMoved ==
  ASSUME NEW x, Sound(x), ~x.pending, ~x.error, NEW step \in Steps,
         step.target # "Init", NEW hw \in Hardware
  PROVE  Moved(x, EnterStep(x, step, hw))
<1> DEFINE target == step.target
           t == Transition(x, target, step.ack, hw)
           b == BeginTransition(t.d, target)
           n == [t.d EXCEPT !.code = "NoError"]
           f == [t.d EXCEPT !.code = t.res, !.error = TRUE]
           r == CASE t.res = "InWork"  -> b
                  [] t.res = "NoError" -> n
                  [] OTHER             -> f
<1>1. target \in States /\ step.ack \in BOOLEAN
  BY DEF Steps
<1>2. IF x.state = target
      THEN /\ t.res = "NoError" /\ Sound(t.d) /\ Frame(x, t.d)
           /\ t.d.out = x.out /\ t.d.inp = x.inp
      ELSE Outcome(x, target, t)
  BY <1>1, TransitionOutcome
<1>3. EnterStep(x, step, hw) = Publish(r)
  BY DEF EnterStep, FinishTransition
<1>4. x.state \in States /\ x.out \in BOOLEAN
  BY DEF Sound, Core, DeviceType
<1> HIDE DEF t
<1>5. Sound(t.d) /\ ~t.d.pending /\ t.d.error = x.error
  BY <1>2 DEF Outcome, Frame
<1>6. CASE t.res = "InWork"
  <2>1. target = "Op" /\ t.d.state = "SafeOp" /\ x.state = "SafeOp"
    BY <1>2, <1>6 DEF Outcome
  <2>5. t.d.chan = x.chan /\ t.d.inp = x.inp /\ ~x.out
    BY <1>2, <1>6, <2>1 DEF Outcome, Sound, Core, OutputsOK, DeviceType, Frame
  <2>2. Sound(b) /\ b.state = x.state /\ ~b.out /\ b.chan = t.d.chan /\ b.inp = t.d.inp
    <3>1. ~t.d.out
      BY <1>5, <2>1 DEF Sound, Core, OutputsOK
    <3> QED
      BY <1>5, <2>1, <3>1, BeginSound
  <2>3. r = b
    BY <1>6
  <2> HIDE DEF b, r
  <2>4. LET p == Publish(b)
        IN  /\ Sound(p) /\ Visible(p) /\ p.state = x.state /\ ~p.out
            /\ p.chan = b.chan /\ p.inp = b.inp
    BY <2>2, PublishSound
  <2> QED
    BY <1>3, <2>1, <2>2, <2>3, <2>4, <2>5, RankLevels DEF Moved, Lower, Reported
<1>7. CASE t.res = "NoError"
  <2>1. Sound(n) /\ Frame(t.d, n) /\ n.out = t.d.out /\ n.inp = t.d.inp
    BY <1>5, SetCodeSound DEF Codes
  <2>2. r = n
    BY <1>7
  <2> HIDE DEF n, r
  <2>3. n.out \in BOOLEAN /\ (n.out => n.state = "Op") /\ (n.state = "Op" /\ x.state # target => n.out)
    BY <1>2, <1>7, <2>1 DEF Sound, Core, DeviceType, OutputsOK, Frame, Outcome
  <2>4. Lower(x, n) \/ (Higher(x, n) /\ ~n.pending)
    BY <1>1, <1>2, <1>4, <1>5, <1>7, <2>1, <2>3, RankLevels
       DEF Lower, Higher, States, Outcome, Frame
  <2>5. \A y : /\ y.state = n.state /\ y.out = n.out /\ y.inp = n.inp
               => Reported(x, y)
    BY <1>1, <1>2, <1>7, <2>1, <2>3 DEF Reported, Outcome, States, Frame
  <2> QED
    BY <1>3, <1>5, <2>1, <2>2, <2>4, <2>5, PublishSound DEF Moved, Lower, Higher, Frame
<1>8. CASE t.res \notin {"InWork", "NoError"}
  <2>1. x.state # target /\ t.res \in Codes /\ Lower(x, t.d)
    BY <1>2, <1>8 DEF Outcome, Results
  <2>2. Sound(f) /\ ~f.pending /\ f.state = t.d.state /\ f.out = t.d.out /\ f.error
    BY <1>5, <2>1, LatchSound
  <2>3. r = f
    BY <1>8
  <2> HIDE DEF f, r
  <2> QED
    BY <1>3, <2>1, <2>2, <2>3, PublishSound DEF Moved, Lower, Reported
<1> QED
  BY <1>6, <1>7, <1>8

\* A write to AL Control.
LEMMA ControlMoved ==
  ASSUME NEW x, Sound(x), Visible(x), NEW ctl \in Controls, NEW hw \in Hardware
  PROVE  Moved(x, HandleControlEvent(x, ctl, hw))
<1> DEFINE c == CancelPending(x)
           a == IF ctl.ack THEN [c EXCEPT !.error = FALSE] ELSE c
           u == [a EXCEPT !.code = "InvalidRequest", !.error = TRUE]
           step == StepFor(ctl.req, ctl.ack)
<1>1. /\ Sound(c) /\ ~c.pending /\ c.state = x.state /\ c.out = x.out
      /\ c.error = x.error /\ c.status = x.status /\ c.chan = x.chan
      /\ c.inp = x.inp
  <2> DEFINE k == [x EXCEPT !.pending = FALSE, !.target = "Init", !.timer = 0]
  <2>1. /\ Sound(k) /\ ~k.pending /\ k.state = x.state /\ k.out = x.out
        /\ k.error = x.error /\ k.status = x.status /\ k.chan = x.chan /\ k.inp = x.inp
    <3>1. k \in DeviceType
      BY DEF Sound, Core, DeviceType, States
    <3>2. /\ k.state = x.state /\ k.out = x.out /\ k.error = x.error /\ k.status = x.status
          /\ k.inp = x.inp /\ k.rx = x.rx /\ k.tx = x.tx /\ k.first = x.first
          /\ k.chan = x.chan /\ k.mask = x.mask /\ k.addr = x.addr /\ ~k.pending
      BY DEF Sound, Core, DeviceType
    <3> HIDE DEF k
    <3>3. OutputsOK(k) /\ PendingOK(k) /\ LayoutOK(k) /\ ChannelsOK(k)
      BY <3>2 DEF Sound, Core, OutputsOK, PendingOK, LayoutOK, ChannelsOK
    <3> QED
      BY <3>1, <3>2, <3>3 DEF Sound, Core
  <2>2. c = IF x.pending THEN k ELSE x
    BY DEF CancelPending
  <2> HIDE DEF c, k
  <2> QED
    BY <2>1, <2>2
<1>2. /\ HandleControlEvent(x, ctl, hw) =
           CASE Refused(x, ctl) -> c
             [] ~Refused(x, ctl) /\ ctl.req = "Unknown" -> Publish(u)
             [] OTHER -> ExecuteAlStep(a, step, hw)
  BY DEF HandleControlEvent, HandleControl, ExecuteAlStep, NoStep
<1>3. x.state \in States /\ x.out \in BOOLEAN
  BY DEF Sound, Core, DeviceType
<1> HIDE DEF c
<1>4. /\ Sound(a) /\ ~a.pending /\ a.state = x.state /\ a.out = x.out
      /\ a.error => x.error
      /\ a.chan = x.chan /\ a.inp = x.inp
      /\ a.status = x.status /\ a.error = IF ctl.ack THEN FALSE ELSE x.error
  <2> DEFINE k == [c EXCEPT !.error = FALSE]
  <2>1. /\ Sound(k) /\ ~k.pending /\ k.state = c.state /\ k.out = c.out
        /\ ~k.error /\ k.error = FALSE /\ k.status = c.status /\ k.chan = c.chan
        /\ k.inp = c.inp
    BY <1>1 DEF Sound, Core, OutputsOK, PendingOK, LayoutOK, ChannelsOK, DeviceType
  <2>2. a = IF ctl.ack THEN k ELSE c
    OBVIOUS
  <2> HIDE DEF a, k
  <2> QED
    BY <1>1, <2>1, <2>2
<1>5. Visible(c) /\ Visible(a)
  BY <1>1, <1>4 DEF Visible
<1> HIDE DEF a
<1>6. \A y : y.state = x.state /\ y.out = x.out => Lower(x, y)
  BY <1>3, RankLevels DEF Lower, States
<1>7. CASE Refused(x, ctl)
  BY <1>1, <1>2, <1>5, <1>6, <1>7 DEF Moved, Reported
<1>8. CASE ~Refused(x, ctl) /\ ctl.req = "Unknown"
  <2>1. Sound(u) /\ ~u.pending /\ u.state = x.state /\ u.out = x.out /\ u.inp = x.inp
    BY <1>4, LatchSound DEF Codes
  <2> HIDE DEF u
  <2> QED
    BY <1>2, <1>6, <1>8, <2>1, PublishSound DEF Moved, Reported
<1>9. CASE ~Refused(x, ctl) /\ ctl.req = "Init"
  <2>1. HandleControlEvent(x, ctl, hw) = BackToInit(a)
    BY <1>2, <1>9 DEF StepFor, ExecuteAlStep
  <2>2. LET b == BackToInit(a)
        IN  /\ Sound(b) /\ ~b.pending /\ b.state = "Init" /\ ~b.out
            /\ b.error = a.error /\ b.status = a.status
    BY <1>4, BackToInitSound
  <2> QED
    BY <1>3, <1>5, <2>1, <2>2, RankLevels DEF Moved, Lower, Visible, States, Reported
<1>10. CASE ~Refused(x, ctl) /\ ctl.req = "Boot"
  <2>1. HandleControlEvent(x, ctl, hw) = a
    BY <1>2, <1>10 DEF StepFor, ExecuteAlStep, NoStep
  <2> QED
    BY <1>4, <1>5, <1>6, <2>1 DEF Moved, Reported
<1>11. CASE ~Refused(x, ctl) /\ ctl.req \in {"PreOp", "SafeOp", "Op"}
  <2>1. step \in Steps /\ step.target = ctl.req
    BY <1>11 DEF StepFor, Steps, Actions, States, Controls
  <2>2. HandleControlEvent(x, ctl, hw) = EnterStep(a, step, hw)
    BY <1>2, <1>11 DEF StepFor, ExecuteAlStep
  <2>3. ~a.error
    BY <1>4, <1>11 DEF Refused
  <2> HIDE DEF step
  <2>4. Moved(a, EnterStep(a, step, hw))
    BY <1>4, <1>11, <2>1, <2>3, EnterStepMoved
  <2> QED
    BY <1>4, <2>2, <2>4 DEF Moved, Lower, Higher, Reported
<1> QED
  BY <1>7, <1>8, <1>9, <1>10, <1>11 DEF Controls, Requests, States

\* What the slave looks like to the contract, unchanged.
Unmoved(x, y) ==
  /\ Sound(y) /\ (Visible(x) => Visible(y))
  /\ y.state = x.state /\ y.error = x.error /\ y.out = x.out
  /\ y.pending = x.pending /\ y.chan = x.chan /\ y.inp = x.inp /\ y.status = x.status

\* A local fallback from OP to SAFEOP, or from PREOP or SAFEOP to PREOP.
LEMMA FallbackSound ==
  ASSUME NEW x, Sound(x), ~x.pending, NEW code \in Codes,
         NEW target \in {"PreOp", "SafeOp"},
         target = "SafeOp" => x.state = "Op",
         target = "PreOp" => x.state \in {"PreOp", "SafeOp"}
  PROVE  LET y == RequestLocalState(x, code, target)
         IN  /\ Sound(y) /\ Visible(y) /\ y.state = target /\ ~y.out /\ ~y.pending
             /\ y.status.error
<1> DEFINE l == IF x.state = "Op" THEN LeaveOp(x) ELSE x
           s == [l EXCEPT !.state = target]
           y == [s EXCEPT !.code = code, !.error = TRUE]
           z == [l EXCEPT !.state = target, !.code = code, !.error = TRUE]
<1>1. x.state # "Op" => ~x.out
  BY DEF Sound, Core, OutputsOK
<1>2. Sound(l) /\ Frame(x, l) /\ ~l.out
  BY <1>1, LeaveOpSound DEF Frame
<1>3. target \in {"SafeOp", "Op"} => l.rx = HasRx /\ l.tx = HasTx /\ l.addr \in Areas
  BY <1>2 DEF Sound, Core, LayoutOK, Frame
<1> HIDE DEF l
<1>4. Sound(s) /\ ~s.out /\ ~s.pending /\ s.state = target
  BY <1>2, <1>3, SetStateSound DEF Frame, States
<1>5. z = y
  OBVIOUS
<1>6. RequestLocalState(x, code, target) = Publish(z)
  BY DEF RequestLocalState, l
<1> HIDE DEF s, z
<1>7. Sound(y) /\ ~y.pending /\ y.state = s.state /\ y.out = s.out /\ y.error
  BY <1>4, LatchSound
<1> HIDE DEF y
<1> QED
  BY <1>4, <1>5, <1>6, <1>7, PublishSound

\* Outside a transition, SM_CHANGE leaves the slave alone or lets it fall.
LEMMA RecheckMoved ==
  ASSUME NEW x, Sound(x), Visible(x), CanRecheck(x), NEW c \in SmConfigs
  PROVE  /\ Sound(Recheck(x, c)) /\ Visible(Recheck(x, c)) /\ Lower(x, Recheck(x, c))
         /\ ~Recheck(x, c).pending /\ (Recheck(x, c) = x \/ Recheck(x, c).status.error)
<1> DEFINE result == CheckSmSettings(x, IF x.state = "PreOp" THEN 2 ELSE 4, c)
           target == IF x.state = "Op" THEN "SafeOp" ELSE "PreOp"
           y == RequestLocalState(x, result, target)
<1>1. result \in Codes
  BY DEF CheckSmSettings, Codes
<1>2. x.state \in States \ {"Init"} /\ ~x.pending
  BY DEF Sound, Core, DeviceType, CanRecheck
<1>3. Recheck(x, c) = IF result = "NoError" THEN x ELSE y
  BY DEF Recheck
<1> HIDE DEF result
<1>4. Sound(y) /\ Visible(y) /\ y.state = target /\ ~y.out /\ ~y.pending /\ y.status.error
  BY <1>1, <1>2, FallbackSound DEF States
<1> HIDE DEF y
<1>5. Lower(x, x) /\ Lower(x, y)
  BY <1>2, <1>4, RankLevels DEF Lower, States
<1> QED
  BY <1>2, <1>3, <1>4, <1>5

\* MarkFirstOutputs sets a flag that only a pending SAFEOP -> OP reads.
LEMMA MarkSound ==
  ASSUME NEW x, Sound(x)
  PROVE  /\ Unmoved(x, MarkFirstOutputs(x)) /\ MarkFirstOutputs(x).first
         /\ MarkFirstOutputs(x).target = x.target
         /\ (~x.out => Unmoved(x, ClearFirstOutputs(x)))
<1> DEFINE First(b) == [x EXCEPT !.first = b]
<1>1. ASSUME NEW b \in BOOLEAN, b \/ ~x.out
      PROVE  Unmoved(x, First(b)) /\ First(b).first = b /\ First(b).target = x.target
  <2> DEFINE k == First(b)
  <2>1. k \in DeviceType
    BY DEF Sound, Core, DeviceType
  <2>2. /\ k.state = x.state /\ k.out = x.out /\ k.error = x.error /\ k.status = x.status
        /\ k.inp = x.inp /\ k.rx = x.rx /\ k.tx = x.tx /\ k.first = b
        /\ k.chan = x.chan /\ k.mask = x.mask /\ k.addr = x.addr /\ k.pending = x.pending
        /\ k.target = x.target /\ k.timer = x.timer
    BY DEF Sound, Core, DeviceType
  <2> HIDE DEF k
  <2>3. OutputsOK(k) /\ PendingOK(k) /\ LayoutOK(k) /\ ChannelsOK(k)
    BY <1>1, <2>2 DEF Sound, Core, OutputsOK, PendingOK, LayoutOK, ChannelsOK
  <2>4. Unmoved(x, k)
    BY <2>1, <2>2, <2>3 DEF Sound, Core, Visible, Unmoved
  <2> QED
    BY <2>2, <2>4 DEF k
<1>2. MarkFirstOutputs(x) = First(TRUE) /\ ClearFirstOutputs(x) = First(FALSE)
  BY DEF MarkFirstOutputs, ClearFirstOutputs
<1> HIDE DEF First
<1> QED
  BY <1>1, <1>2

\* First outputs leave the slave alone or complete SAFEOP -> OP.
LEMMA OutputsMoved ==
  ASSUME NEW x, Sound(x), Visible(x), x.pending => "PdOut" \in x.chan
  PROVE  LET y == HandleOutputs(x)
         IN  \/ Unmoved(x, y)
             \/ /\ Sound(y) /\ Visible(y) /\ Higher(x, y) /\ ~y.pending
                /\ x.pending /\ y.out /\ y.inp = x.inp
<1> DEFINE m == MarkFirstOutputs(x)
           p == [m EXCEPT !.pending = FALSE, !.code = "NoError", !.state = "Op",
                          !.out = TRUE]
<1>1. Unmoved(x, m) /\ m.first
  BY MarkSound
<1>2. HandleOutputs(x) = IF CanCompletePendingOp(m) THEN Publish(p) ELSE m
  BY DEF HandleOutputs, CompletePendingOp
<1> HIDE DEF m
<1>3. CASE CanCompletePendingOp(m)
  <2>1. m.state = "SafeOp" /\ m.pending /\ ~m.error
    BY <1>3 DEF CanCompletePendingOp
  <2>2. /\ Sound(m) /\ m.state = x.state /\ m.pending = x.pending
        /\ "PdOut" \in m.chan /\ m.inp = x.inp
    BY <1>1, <2>1 DEF Unmoved
  <2>3. p \in DeviceType
    <3>1. "Op" \in States /\ "NoError" \in Codes /\ m \in DeviceType
      BY <2>2 DEF Sound, Core, States, Codes
    <3> QED
      BY <3>1 DEF DeviceType
  <2>4. Sound(p) /\ p.state = "Op" /\ ~p.error /\ p.out /\ ~p.pending /\ p.inp = m.inp
    <3>1. m \in DeviceType /\ m.first /\ LayoutOK(m) /\ ChannelsOK(m) /\ "PdOut" \in m.chan
      BY <1>1, <2>2 DEF Sound, Core
    <3>2. /\ p.state = "Op" /\ ~p.error /\ p.out /\ ~p.pending /\ p.first
          /\ p.inp = m.inp /\ p.rx = m.rx /\ p.tx = m.tx /\ p.chan = m.chan
          /\ p.mask = m.mask /\ p.addr = m.addr
      BY <2>1, <3>1 DEF DeviceType
    <3> HIDE DEF p
    <3>3. OutputsOK(p) /\ PendingOK(p)
      BY <3>2 DEF OutputsOK, PendingOK
    <3>4. LayoutOK(p) /\ ChannelsOK(p)
      BY <2>1, <3>1, <3>2 DEF LayoutOK, ChannelsOK
    <3> QED
      BY <2>3, <3>2, <3>3, <3>4 DEF Sound, Core
  <2> DEFINE y == Publish(p)
  <2> HIDE DEF p
  <2>5. /\ Sound(y) /\ Visible(y) /\ y.state = "Op" /\ ~y.error /\ y.out /\ ~y.pending
        /\ y.inp = p.inp
    BY <2>4, PublishSound
  <2>6. y.out \in BOOLEAN
    BY <2>5 DEF Sound, Core, DeviceType
  <2>7. HandleOutputs(x) = y
    BY <1>2, <1>3
  <2> HIDE DEF y
  <2>8. Higher(x, y)
    <3>1. y.out = (y.state = "Op")
      BY <2>5, <2>6
    <3>2. Contract!Rank(y.state) = Contract!Rank(x.state) + 1
      BY <2>1, <2>2, <2>5, RankLevels
    <3> QED
      BY <2>5, <3>1, <3>2 DEF Higher
  <2> QED
    BY <2>1, <2>2, <2>4, <2>5, <2>7, <2>8
<1>4. CASE ~CanCompletePendingOp(m)
  BY <1>1, <1>2, <1>4
<1> QED
  BY <1>3, <1>4

\* HandleAlEvents: a control write, a Sync Manager change, or nothing.
LEMMA AlEventsMoved ==
  ASSUME NEW x, Sound(x), Visible(x), NEW ev \in SUBSET EventBits,
         NEW ctl \in Controls, NEW hw \in Hardware,
         x.state # "Init" /\ "PdOut" \in ev => "PdOut" \in x.chan
  PROVE  Moved(x, HandleAlEvents(x, ev, ctl, hw))
<1> DEFINE c == IF "AlControl" \in ev THEN HandleControlEvent(x, ctl, hw) ELSE x
           recheck == "AlControl" \notin ev /\ "SmChange" \in ev /\ CanRecheck(x)
           s == IF recheck THEN Recheck(c, hw.cfg) ELSE c
           o == HandleOutputs(s)
<1>1. x.state \in States /\ hw.cfg \in SmConfigs
  BY DEF Sound, Core, DeviceType, Hardware
<1>2. Moved(x, x)
  BY <1>1, RankLevels DEF Moved, Lower, States, Reported
<1>3. Moved(x, s)
  <2>1. CASE "AlControl" \in ev
    BY <2>1, ControlMoved
  <2>2. CASE recheck
    BY <1>1, <1>2, <2>2, RecheckMoved DEF Moved, Reported
  <2> QED
    BY <1>2, <2>1, <2>2
<1>4. HandleAlEvents(x, ev, ctl, hw) = IF "PdOut" \in ev THEN o ELSE s
  BY DEF HandleAlEvents
<1> HIDE DEF s
<1>8. s.pending /\ "PdOut" \in ev => "PdOut" \in s.chan
  BY <1>3 DEF Moved, Sound, Core, PendingOK
<1>5. "PdOut" \in ev =>
        \/ Unmoved(s, o)
        \/ /\ Sound(o) /\ Visible(o) /\ Higher(s, o) /\ ~o.pending /\ s.pending
           /\ o.out /\ o.inp = s.inp
  BY <1>3, <1>8, OutputsMoved DEF Moved
<1>6. s.pending /\ Higher(s, o) => Higher(x, o)
  BY <1>3 DEF Moved, Higher
<1>7. "PdOut" \in ev => Moved(x, o)
  BY <1>3, <1>5, <1>6 DEF Moved, Unmoved, Lower, Higher, Reported
<1> QED
  BY <1>3, <1>4, <1>7

\* A timeout gives up SAFEOP -> OP: the state stays and the error shows.
LEMMA TimeoutsMoved ==
  ASSUME NEW x, Sound(x), Visible(x), NEW hw \in Hardware
  PROVE  LET y == CheckTimeouts(x, hw)
         IN  \/ y = x
             \/ /\ Sound(y) /\ Visible(y) /\ ~y.out /\ ~y.pending /\ x.pending
                /\ y.state = x.state /\ y.status.error
<1> DEFINE t == CheckTimeout(x)
           e == [x EXCEPT !.pending = FALSE, !.error = TRUE, !.code = "RuntimeError"]
<1>1. CASE ~TimedOut(x)
  BY <1>1 DEF CheckTimeouts
<1>2. CASE TimedOut(x)
  <2>1. x.pending /\ x.state = "SafeOp" /\ x.target = "Op" /\ ~x.out
    BY <1>2 DEF TimedOut, Sound, Core, PendingOK
  <2>2. CheckTimeouts(x, hw) = Publish(LeaveOp(e))
    BY <1>2, <2>1 DEF CheckTimeouts, CheckTimeout, TimeoutStep, ExecuteAlStep
  <2>5. e \in DeviceType
    BY DEF Sound, Core, DeviceType, Codes
  <2>3. Sound(e) /\ e.state = x.state /\ ~e.pending /\ e.error
    BY <2>1, <2>5 DEF Sound, Core, OutputsOK, PendingOK, LayoutOK, ChannelsOK, DeviceType
  <2> HIDE DEF e
  <2>4. /\ Sound(LeaveOp(e)) /\ LeaveOp(e).state = x.state /\ ~LeaveOp(e).pending
        /\ ~LeaveOp(e).out /\ LeaveOp(e).error
    BY <2>3, LeaveOpSound DEF Frame
  <2> QED
    BY <2>1, <2>2, <2>4, PublishSound
<1> QED
  BY <1>1, <1>2

\* CheckErrors: a DC fault lowers OP, or the slave stays.
LEMMA ErrorsMoved ==
  ASSUME NEW x, Sound(x), Visible(x), NEW expired \in BOOLEAN
  PROVE  LET y == CheckErrors(x, expired)
         IN  \/ Unmoved(x, y)
             \/ /\ Sound(y) /\ Visible(y) /\ y.state = "SafeOp" /\ x.state = "Op"
                /\ ~y.out /\ ~y.pending /\ y.status.error
<1> DEFINE y == RequestLocalState(x, "RuntimeError", "SafeOp")
<1>1. CheckErrors(x, expired) \in {y, x} \/
      (~x.out /\ CheckErrors(x, expired) = ClearFirstOutputs(x))
  BY DEF CheckErrors
<1>2. ~x.out => CheckErrors(x, expired) # y \/ CheckErrors(x, expired) = x
                \/ CheckErrors(x, expired) = ClearFirstOutputs(x)
  BY DEF CheckErrors
<1>3. Unmoved(x, x)
  BY DEF Unmoved
<1>4. x.out => Sound(y) /\ Visible(y) /\ y.state = "SafeOp" /\ x.state = "Op"
               /\ ~y.out /\ ~y.pending /\ y.status.error
  BY FallbackSound DEF Sound, Core, OutputsOK, Codes
<1> HIDE DEF y
<1> QED
  BY <1>1, <1>2, <1>3, <1>4, MarkSound

\* Poll runs AL events, timeouts and errors in turn: each is a move.
LEMMA PollMoved ==
  ASSUME NEW x, Sound(x), Visible(x), NEW ev \in SUBSET EventBits,
         NEW ctl \in Controls, NEW hw \in Hardware, NEW expired \in BOOLEAN,
         x.state # "Init" /\ "PdOut" \in ev => "PdOut" \in x.chan
  PROVE  LET y == Poll(x, ev, ctl, hw, expired)
         IN  Sound(y) /\ Visible(y) /\ (Lower(x, y) \/ Higher(x, y)) /\ Reported(x, y)
<1> DEFINE a == HandleAlEvents(x, ev, ctl, hw)
           t == CheckTimeouts(a, hw)
           y == CheckErrors(t, expired)
<1>1. Moved(x, a)
  BY AlEventsMoved
<1>2. x.state \in States
  BY DEF Sound, Core, DeviceType
<1>3. Poll(x, ev, ctl, hw, expired) = y
  BY DEF Poll
<1> HIDE DEF a
<1>4. \/ t = a
      \/ /\ Sound(t) /\ Visible(t) /\ ~t.out /\ ~t.pending /\ a.pending
         /\ t.state = a.state /\ t.status.error
  BY <1>1, TimeoutsMoved DEF Moved
<1>5. Sound(t) /\ Visible(t) /\ (Lower(x, t) \/ Higher(x, t)) /\ Reported(x, t)
  BY <1>1, <1>4 DEF Moved, Lower, Higher, Reported
<1> HIDE DEF t
<1>6. \/ Unmoved(t, y)
      \/ /\ Sound(y) /\ Visible(y) /\ y.state = "SafeOp" /\ t.state = "Op"
         /\ ~y.out /\ ~y.pending /\ y.status.error
  BY <1>5, ErrorsMoved
<1> HIDE DEF y
<1>7. CASE Unmoved(t, y)
  BY <1>3, <1>5, <1>7 DEF Unmoved, Lower, Higher, Reported
<1>8. CASE /\ Sound(y) /\ Visible(y) /\ y.state = "SafeOp" /\ t.state = "Op"
           /\ ~y.out /\ ~y.pending /\ y.status.error
  BY <1>2, <1>3, <1>5, <1>8, RankLevels DEF Lower, Higher, States, Reported
<1> QED
  BY <1>6, <1>7, <1>8

-------------------------------------------------------------------------------
(* The life of a session.                                                  *)

\* A slave that stands in INIT with nothing running.
LEMMA ResetSound ==
  ASSUME NEW x \in DeviceType
  PROVE  LET y == ResetAl(x)
         IN  /\ Sound(y) /\ Visible(y) /\ y.state = "Init" /\ ~y.out /\ ~y.error
<1> DEFINE y == ResetAl(x)
<1>1. /\ y.state = "Init" /\ ~y.out /\ ~y.error /\ ~y.pending /\ ~y.inp
  BY DEF ResetAl, DeviceType
<1>2. "Init" \in States /\ "NoError" \in Codes /\ 0 \in Nat
  BY DEF States, Codes
<1>3. y \in DeviceType
  BY <1>2 DEF ResetAl, DeviceType
<1>4. ResetAl(x) = y
  OBVIOUS
<1> HIDE DEF y
<1> QED
  BY <1>1, <1>3, <1>4 DEF Sound, Core, OutputsOK, PendingOK, LayoutOK, ChannelsOK, Visible

\* Disable and a failed Prepare leave nothing running.
LEMMA TearDownSound ==
  ASSUME NEW x \in DeviceType
  PROVE  LET y == TearDown(x)
         IN  Sound(y) /\ Visible(y) /\ y.state = "Init" /\ ~y.out /\ ~y.error
<1>1. StopSm(StopMailbox(x)) \in DeviceType
  BY DEF StopSm, StopMailbox, DeviceType
<1> QED
  BY <1>1, ResetSound DEF TearDown

\* After a reset of the ESC, AL Status reads INIT.
LEMMA StatusReset ==
  ASSUME NEW x, Sound(x), x.state = "Init", ~x.out, ~x.error
  PROVE  LET y == [x EXCEPT !.status = [state |-> "Init", error |-> FALSE]]
         IN  Sound(y) /\ Visible(y) /\ y.state = "Init" /\ ~y.out /\ ~y.error
BY DEF Sound, Core, OutputsOK, PendingOK, LayoutOK, ChannelsOK, DeviceType, Visible, States

\* A successful Prepare stands in INIT with nothing running.
LEMMA PrepareSound ==
  ASSUME NEW x \in DeviceType
  PROVE  LET y == PrepareDevice(x)
         IN  Sound(y) /\ Visible(y) /\ y.state = "Init" /\ ~y.out /\ ~y.error
<1> DEFINE s == [StopSm(x) EXCEPT !.chan = {}, !.mask = {}, !.dc = FALSE]
<1>1. s \in DeviceType
  BY DEF StopSm, DeviceType
<1> HIDE DEF s
<1> DEFINE r == ResetAl(s)
<1>2. Sound(r) /\ r.state = "Init" /\ ~r.out /\ ~r.error
  BY <1>1, ResetSound
<1>3. PrepareDevice(x) = Publish(r)
  BY DEF PrepareDevice, s
<1> HIDE DEF r
<1> QED
  BY <1>2, <1>3, PublishSound

\* The timer counts the timeout down and notes the verdict of the DC watchdogs.
LEMMA TickMoved ==
  ASSUME NEW x, Sound(x), NEW valid \in BOOLEAN
  PROVE  LET y == [TickAl(x) EXCEPT !.seq = IF x.dc THEN valid ELSE @]
         IN  Unmoved(x, y)
<1> DEFINE t == TickAl(x)
           v == IF x.dc THEN valid ELSE t.seq
           y == [t EXCEPT !.seq = v]
<1>1. x.timer \in Nat /\ OpTimeout \in Nat
  BY TimeoutAssumption DEF Sound, Core, DeviceType
<1>2. Unmoved(x, t)
  <2> DEFINE k == [x EXCEPT !.timer = @ - 1]
  <2>1. x.timer > 0 => k \in DeviceType /\ k.timer = x.timer - 1 /\ k.timer <= x.timer
    BY <1>1 DEF Sound, Core, DeviceType
  <2>2. x.timer > 0 => Sound(k)
    BY <1>1, <2>1 DEF Sound, Core, OutputsOK, PendingOK, LayoutOK, ChannelsOK, DeviceType
  <2>3. /\ k.state = x.state /\ k.error = x.error /\ k.out = x.out /\ k.pending = x.pending
        /\ k.status = x.status /\ k.chan = x.chan /\ k.inp = x.inp
    BY DEF Sound, Core, DeviceType
  <2>4. t = IF x.timer > 0 THEN k ELSE x
    BY DEF TickAl
  <2> HIDE DEF t, k
  <2> QED
    BY <2>2, <2>3, <2>4 DEF Unmoved, Visible
<1>3. v \in BOOLEAN
  BY <1>2 DEF Unmoved, Sound, Core, DeviceType
<1> HIDE DEF t, v
<1>4. Unmoved(t, y)
  <2>1. Sound(t)
    BY <1>2 DEF Unmoved
  <2> QED
    BY <2>1, <1>3 DEF Unmoved, Visible, Sound, Core, OutputsOK, PendingOK, LayoutOK,
                      ChannelsOK, DeviceType
<1>5. y = [TickAl(x) EXCEPT !.seq = IF x.dc THEN valid ELSE @]
  BY Zenon DEF t, v
<1> HIDE DEF y
<1> QED
  BY <1>2, <1>4, <1>5 DEF Unmoved

-------------------------------------------------------------------------------
(* The specification.                                                      *)

\* A write to SM2 is reported to a slave that has left INIT only while its
\* channel is open: whoever closes it has consumed the events.
Inv ==
  /\ Sound(d) /\ Visible(d)
  /\ d.state # "Init" /\ "PdOut" \in events => "PdOut" \in d.chan
  /\ life \in {"off", "prepared", "ready"}
  /\ cfg \in Configs
  /\ events \subseteq EventBits

\* The slave before Prepare satisfies the invariant.
LEMMA InitInv == Init => Inv
<1> SUFFICES ASSUME Init PROVE Inv
  OBVIOUS
<1>1. InitialDevice \in DeviceType
  BY DEF InitialDevice, DeviceType, States, Codes
<1>2. Sound(InitialDevice) /\ Visible(InitialDevice)
  BY <1>1 DEF InitialDevice, Sound, Core, OutputsOK, PendingOK, LayoutOK, ChannelsOK, Visible
<1> QED
  BY <1>2 DEF Init, Inv

\* A handler that lowers or raises the state takes a step of the contract.
LEMMA MovedIsContract ==
  ASSUME Sound(d), Sound(d'), Lower(d, d') \/ Higher(d, d')
  PROVE  Contract!Next
<1>1. /\ d.state \in States /\ d'.state \in States /\ d'.error \in BOOLEAN
      /\ d'.out \in BOOLEAN /\ d'.rx \in BOOLEAN /\ d'.first \in BOOLEAN
  BY DEF Sound, Core, DeviceType
<1>2. d'.out => d'.state = "Op" /\ (d'.rx => d'.first)
  BY DEF Sound, Core, OutputsOK
<1>3. States = Contract!AlStates
  BY DEF States, Contract!AlStates
<1>4. (~d.rx \/ d.first)' \in BOOLEAN
  OBVIOUS
<1>5. CASE Lower(d, d')
  BY <1>1, <1>2, <1>3, <1>4, <1>5 DEF Lower, Contract!Next, Contract!StayOrFall
<1>6. CASE Higher(d, d')
  BY <1>1, <1>2, <1>3, <1>4, <1>6 DEF Higher, Contract!Next, Contract!Rise
<1> QED
  BY <1>5, <1>6

\* Every action keeps the invariant and takes a step of the contract.
LEMMA NextInv ==
  ASSUME Inv, [Next]_vars
  PROVE  Inv' /\ (Contract!Next \/ d' = d) /\ Reported(d, d')
<1> USE DEF Inv
<1>1. d \in DeviceType /\ d.state \in States
  BY DEF Sound, Core, DeviceType
<1>2. \A y : y.state = "Init" /\ ~y.out => Lower(d, y)
  BY <1>1, RankLevels DEF Lower, States
<1>3. \A y : Unmoved(d, y) => Sound(y) /\ Visible(y) /\ Lower(d, y)
  BY <1>1, RankLevels DEF Unmoved, Lower, States
<1>4. \A hw \in Readings : hw \in Hardware
  BY MasterAssumption DEF Readings, Hardware
<1>5. ControlReadings \subseteq Controls
  <2>1. [req |-> "Init", ack |-> FALSE] \in Controls
    BY DEF Controls, Requests, States
  <2> QED
    BY <2>1 DEF ControlReadings
<1>17. Reported(d, d)
  BY DEF Reported
<1>6. CASE RequestState
  BY <1>6, <1>17 DEF RequestState, EventBits
<1>7. CASE WriteSmConfig
  BY <1>7, <1>17 DEF WriteSmConfig, EventBits
<1>8. CASE WriteOutputs
  BY <1>8, <1>17 DEF WriteOutputs, EventBits
<1>9. CASE OnPdi
  <2>1. PICK hw \in Readings, ctl \in ControlReadings : d' = HandleAlEvents(d, events, ctl, hw)
    BY <1>9 DEF OnPdi
  <2>2. Moved(d, d')
    BY <1>4, <1>5, <2>1, AlEventsMoved
  <2> QED
    BY <1>9, <2>2, MovedIsContract DEF OnPdi, Moved
<1>10. CASE ThreadPoll
  <2>1. PICK hw \in Readings, ctl \in ControlReadings, expired \in BOOLEAN :
          d' = Poll(d, events, ctl, hw, expired)
    BY <1>10 DEF ThreadPoll
  <2>2. /\ Sound(d') /\ Visible(d') /\ (Lower(d, d') \/ Higher(d, d'))
        /\ Reported(d, d')
    BY <1>4, <1>5, <2>1, PollMoved
  <2> QED
    BY <1>10, <2>2, MovedIsContract DEF ThreadPoll
<1>11. CASE OnTick
  <2>1. PICK valid \in BOOLEAN : d' = [TickAl(d) EXCEPT !.seq = IF d.dc THEN valid ELSE @]
    BY <1>11 DEF OnTick
  <2>2. Unmoved(d, d')
    BY <2>1, TickMoved
  <2>3. /\ Sound(d') /\ Visible(d') /\ Lower(d, d') /\ d'.state = d.state
        /\ d'.chan = d.chan /\ Reported(d, d')
    BY <1>3, <2>2 DEF Unmoved, Reported
  <2> QED
    BY <1>11, <2>3, MovedIsContract DEF OnTick
<1>12. CASE OnReset
  <2>1. PICK chan \in {d.chan, {}}, mask \in {d.mask, {}} :
          d' = [TearDown([d EXCEPT !.chan = chan, !.mask = mask])
                  EXCEPT !.status = [state |-> "Init", error |-> FALSE]]
    BY <1>12 DEF OnReset
  <2> DEFINE k == [d EXCEPT !.chan = chan, !.mask = mask]
             t == TearDown(k)
  <2>2. k \in DeviceType
    BY <1>1 DEF DeviceType
  <2> HIDE DEF k
  <2>3. Sound(t) /\ t.state = "Init" /\ ~t.out /\ ~t.error
    BY <2>2, TearDownSound
  <2>4. d' = [t EXCEPT !.status = [state |-> "Init", error |-> FALSE]]
    BY <2>1 DEF k
  <2> HIDE DEF t
  <2>5. Sound(d') /\ Visible(d') /\ d'.state = "Init" /\ ~d'.out
    BY <2>3, <2>4, StatusReset
  <2> QED
    BY <1>2, <1>12, <2>5, MovedIsContract DEF OnReset, Reported
<1>13. CASE Disable
  <2>1. Sound(d') /\ Visible(d') /\ d'.state = "Init" /\ ~d'.out
    BY <1>1, <1>13, TearDownSound DEF Disable
  <2> QED
    BY <1>2, <1>13, <2>1, MovedIsContract DEF Disable, Reported
<1>14. CASE Prepare
  <2>1. Sound(d') /\ Visible(d') /\ d'.state = "Init" /\ ~d'.out
    BY <1>1, <1>14, PrepareSound DEF Prepare
  <2> QED
    BY <1>2, <1>14, <2>1, MovedIsContract DEF Prepare, Reported
<1>15. CASE Start
  BY <1>15, <1>17 DEF Start
<1>16. CASE UNCHANGED vars
  BY <1>16, <1>17 DEF vars
<1> QED
  BY <1>6, <1>7, <1>8, <1>9, <1>10, <1>11, <1>12, <1>13, <1>14, <1>15, <1>16 DEF Next

\* The inductive invariant holds in every reachable state.
THEOREM Invariance == Spec => []Inv
<1>1. Inv /\ [Next]_vars => Inv'
  BY NextInv
<1> QED
  BY InitInv, <1>1, PTL DEF Spec

\* Every member of the device keeps its type, in every reachable state.
THEOREM TypeCorrect == Spec => []TypeOK
<1>1. Inv => TypeOK
  BY DEF Inv, Sound, Core, TypeOK
<1> QED
  BY Invariance, <1>1, PTL

\* Outputs reach the application only in OP, with no transition under way and
\* after first outputs arrived, whatever the master, the timers and the ESC do.
THEOREM OutputsAreSafe == Spec => []OutputsOnlyInOp
<1>1. Inv => OutputsOnlyInOp
  BY DEF Inv, Sound, Core, OutputsOK, OutputsOnlyInOp
<1> QED
  BY Invariance, <1>1, PTL

\* Only SAFEOP -> OP is ever left pending, without an error and with its timer.
THEOREM PendingIsSafe == Spec => []PendingIsSafeOpToOp
<1>1. Inv => PendingIsSafeOpToOp
  BY DEF Inv, Sound, Core, PendingOK, PendingIsSafeOpToOp
<1> QED
  BY Invariance, <1>1, PTL

\* Outputs run only while SM2 is open, inputs only while SM3 is, and both only
\* over a checked area, also after a transition that failed half way.
THEOREM ChannelsAreOpen == Spec => []RunningNeedsOpenChannels
<1>1. Inv => RunningNeedsOpenChannels
  BY DEF Inv, Sound, ChannelsOK, RunningNeedsOpenChannels
<1> QED
  BY Invariance, <1>1, PTL

\* Process data is never stopped silently: the state falls with it, or the
\* master reads an error.
THEOREM StopsAreVisible == Spec => StopsAreReported
<1>1. Inv /\ [Next]_vars => [Reported(d, d')]_vars
  BY NextInv
<1>2. [Reported(d, d')]_vars =>
        [/\ d.out /\ ~d.out' => d.state' # "Op" \/ d.status.error'
         /\ d.inp /\ ~d.inp' => d.state' \notin {"SafeOp", "Op"} \/ d.status.error']_vars
  BY DEF Reported
<1> QED
  BY Invariance, <1>1, <1>2, PTL DEF Spec, StopsAreReported

\* The master reads the state above INIT and every latched error.
THEOREM StatusTruthful == Spec => []StatusIsTruthful
<1>1. Inv => StatusIsTruthful
  BY DEF Inv, Visible, StatusIsTruthful
<1> QED
  BY Invariance, <1>1, PTL

\* The slave implements the AL contract: one level up at a time and never with
\* an error latched, outputs only in OP and only when they are valid.
THEOREM Implementation == Spec => ImplementsContract
<1>1. Init => Contract!Init
  BY DEF Init, InitialDevice, Contract!Init
<1>2. Inv /\ [Next]_vars => [Contract!Next]_Contract!avars
  <2>1. d' = d => UNCHANGED Contract!avars
    BY DEF Contract!avars
  <2> QED
    BY <2>1, NextInv
<1> QED
  BY Invariance, <1>1, <1>2, PTL DEF Spec, ImplementsContract, Contract!Spec
===============================================================================

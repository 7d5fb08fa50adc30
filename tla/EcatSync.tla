------------------------------- MODULE EcatSync -------------------------------
(***************************************************************************)
(* The synchronisation domain, class EcatSync, against the clock: the DC   *)
(* unit fires SYNC0 (and SYNC1), the 1 ms timer runs the watchdogs and the *)
(* thread takes the slave out of OP when they report a lost sequence.      *)
(* Pulses and ticks that fall on the same instant come in either order.    *)
(* The master sets the unit up before SAFEOP, with legal cycle times.      *)
(*                                                                         *)
(* Fields of s:                                                            *)
(*   dc      dc_sync_active_                                               *)
(*   run     dc_running_                 seq    sm_sequence_valid_         *)
(*   wd0 val0, wd1 val1   the SYNC0 and SYNC1 watchdogs, count and limit   *)
(*   sm smVal             sm_sync0_counter_, sm_sync0_value_               *)
(*   latch latchVal       latch_input_counter_, latch_input_value_         *)
(*   missOut, missIn      sm_event_missed of 0x1C32 and 0x1C33             *)
(*                                                                         *)
(* Left out: sync_set_by_user_, which nothing sets, timestamps, and        *)
(* UpdateErrorStatus and DeriveSyncType, which nothing calls.              *)
(***************************************************************************)
EXTENDS Naturals

CONSTANTS
  Setups,     \* the DC setups of the master, see DcSetups
  OutSize,    \* is there output process data (out_size_ > 0)?
  InSize,     \* is there input process data (in_size_ > 0)?
  ErrorLimit, \* sync_error_limit_, 0 means none
  Grain,      \* bound: a step of time, in units of 100 us
  Horizon     \* bound: the age of the last SYNC0 is counted up to it

\* The master's registers 0x0980, 0x09A0 and 0x09A4: is the unit active, which
\* pulses does it fire, and the two cycle times, in steps of time.
DcSetups == [unit : BOOLEAN, sync0 : BOOLEAN, sync1 : BOOLEAN, c0 : Nat, c1 : Nat]

ASSUME SyncAssumption ==
  /\ Setups \subseteq DcSetups
  /\ OutSize \in BOOLEAN /\ InSize \in BOOLEAN
  /\ ErrorLimit \in Nat /\ Horizon \in Nat
  /\ Grain \in {1, 2, 5, 10}

\* 1 ms.
TickPeriod == 10 \div Grain

VARIABLES
  s,      \* the members of EcatSync
  state,  \* "PreOp" (or INIT), "SafeOp" or "Op": what EcatDevice makes of it
  out,    \* do the outputs run (IsOutputRunning())?
  dcu,    \* the DC unit: setup, lost pulses, time to the next SYNC0 and SYNC1
  timer,  \* time to the next tick
  age     \* time since the last SYNC0 or the last (re)start of the domain; was a
          \* pulse missing since that start?

vars == <<s, state, out, dcu, timer, age>>

Pulses == {0, 1}

-------------------------------------------------------------------------------
\* Mutant of WatchdogTicks: one cycle instead of two.
OneCycle(length) == IF length * Grain < 5 THEN 1 ELSE (length * Grain) \div 10

\* StartSm(): a watchdog waits for two cycles, or 1 ms when they are short.
WatchdogTicks(length) == IF length * Grain < 5 THEN 1 ELSE (length * Grain * 2) \div 10

\* One SM cycle holds several SYNC0 when SYNC1 has the longer cycle.
Subordinate(hw) == hw.sync0 /\ hw.sync1 /\ hw.c1 >= hw.c0 /\ hw.c0 # 0

Ceiling(n, m) == (n + m - 1) \div m

\* PrepareSm(): no DC unit means SM synchronisation; an active unit must fire
\* SYNC0.
RefusesSetup(hw) == hw.unit /\ ~hw.sync0

PrepareSm(v, hw) ==
  [v EXCEPT !.dc = hw.unit /\ OutSize]

\* StopSm(): counters back to zero, the sequence is taken for valid.
StopSm(v) ==
  [v EXCEPT !.latchVal = 0, !.latch = 0, !.sm = 0, !.wd0 = 0, !.wd1 = 0,
            !.run = FALSE, !.seq = TRUE]

\* StartSm(): load the watchdogs, the SYNC0 count of an SM cycle and the latch
\* point of the inputs.  The missed event counters keep their values.
StartSm(v, hw) ==
  LET val0 == IF hw.sync0 /\ hw.c0 # 0 THEN WatchdogTicks(hw.c0) ELSE 0
      val1 == CASE ~(hw.sync1 /\ hw.c0 # 0)              -> 0
                [] hw.sync1 /\ hw.c0 # 0 /\ hw.c1 < hw.c0 -> val0
                [] OTHER -> WatchdogTicks(hw.c0 + hw.c1) + val0 \div 2
      total == hw.c0 + hw.c1
      off   == [StopSm(v) EXCEPT !.val0 = 0, !.val1 = 0, !.smVal = 0]
      on    == [off EXCEPT !.val0 = val0, !.val1 = val1, !.latchVal = 1]
  IN  CASE ~v.dc ->
             off
        [] v.dc /\ Subordinate(hw) ->
             [on EXCEPT !.smVal = (total \div hw.c0) + (IF total % hw.c0 = 0 THEN 1 ELSE 0),
                        !.latchVal = Ceiling(total, hw.c0)]
        [] v.dc /\ ~Subordinate(hw) /\ ~hw.sync1 ->
             [on EXCEPT !.smVal = 1]
        [] OTHER ->
             on

\* Mutant of Sync0: the latch point of the inputs is counted past its limit.
LatchPastLimit(v) ==
  [v EXCEPT !.wd0 = 0, !.run = TRUE, !.latch = IF v.latchVal = 1 THEN 0 ELSE @ + 1]

\* Mutant of TickSync: the watchdogs count, but nothing becomes of it.
TickSilently(v) ==
  IF ~v.dc THEN v ELSE [v EXCEPT !.wd0 = IF @ < v.val0 THEN @ + 1 ELSE @]

\* Tick(): SYNC0 is judged after its count went up, SYNC1 before.
TickSync(v) ==
  LET wd0  == IF v.wd0 < v.val0 THEN v.wd0 + 1 ELSE v.wd0
      run0 == v.val0 = 0 \/ wd0 < v.val0
      run  == run0 /\ (v.val1 = 0 \/ v.wd1 < v.val1)
  IN  IF ~v.dc THEN v
      ELSE [v EXCEPT !.wd0 = wd0, !.run = run,
                     !.wd1 = IF run0 /\ @ < v.val1 THEN @ + 1 ELSE @,
                     !.seq = run /\ (ErrorLimit = 0 \/ v.missOut < ErrorLimit)]

\* OnProcessOutput(): the SM2 event of the master, in OP.
OutputEvent(v) ==
  LET m == IF v.missOut > 0 THEN v.missOut - 1 ELSE 0
  IN  [v EXCEPT !.sm = IF v.dc /\ v.run THEN 0 ELSE @, !.missOut = m, !.missIn = m]

\* OnSync0(): too many SYNC0 without an SM2 event count as missed ones.
Missed(v, miss) == IF miss <= ErrorLimit THEN miss + 3 ELSE miss

Sync0(v) ==
  LET r    == [v EXCEPT !.wd0 = 0, !.run = TRUE]
      l    == IF v.latch < v.latchVal THEN v.latch + 1 ELSE v.latch
      many == v.smVal > 0 /\ v.sm > v.smVal
  IN  IF ~v.dc THEN r
      ELSE [r EXCEPT !.latch = IF v.latchVal = 1 THEN 0 ELSE l,
                     !.missOut = IF many /\ OutSize THEN Missed(v, @) ELSE @,
                     !.missIn  = IF many /\ InSize /\ ~OutSize THEN Missed(v, @) ELSE @,
                     !.sm = IF v.smVal > 0 /\ v.sm <= v.smVal THEN @ + 1 ELSE @]

\* Mutant of Sync1: the wrong watchdog is served.
ServeSync0(v) == [v EXCEPT !.wd0 = 0, !.latch = 0]

\* OnSync1().
Sync1(v) == [v EXCEPT !.wd1 = 0, !.latch = 0]

-------------------------------------------------------------------------------
InitialSync ==
  [dc |-> FALSE, run |-> FALSE, seq |-> TRUE, wd0 |-> 0, val0 |-> 0,
   wd1 |-> 0, val1 |-> 0, sm |-> 0, smVal |-> 0, latch |-> 0, latchVal |-> 0,
   missOut |-> 0, missIn |-> 0]

\* The DC unit: SYNC1 follows SYNC0 by its cycle time, or comes once in the sum
\* of the two when it is the longer.
Period(hw, p) == IF p = 0 \/ hw.c1 < hw.c0 THEN hw.c0 ELSE hw.c0 + hw.c1

Fires(hw, p) == hw.unit /\ hw.c0 # 0 /\ (IF p = 0 THEN hw.sync0 ELSE hw.sync1)

\* SYNC0 comes as soon as the unit is set up, SYNC1 a cycle of its own later.
NextPulse(hw) == [p \in Pulses |-> IF p = 0 THEN 0 ELSE hw.c1]

\* The domain is watched from the entry of SAFEOP to the return to PREOP; each
\* StartSm() and StopSm() begins a session of its own.
Watched == state # "PreOp"

NewSession == [since |-> 0, missing |-> FALSE]

Init ==
  /\ s = InitialSync
  /\ state = "PreOp" /\ out = FALSE
  /\ dcu \in {[hw |-> hw, lost |-> {}, next |-> NextPulse(hw)] : hw \in Setups}
  /\ timer \in 1 .. TickPeriod
  /\ age = NewSession

Due(p) == Fires(dcu.hw, p) /\ dcu.next[p] = 0

\* Time passes when nothing is due.
Advance ==
  /\ timer > 0
  /\ \A p \in Pulses : ~Due(p)
  /\ timer' = timer - 1
  /\ dcu' = [dcu EXCEPT !.next = [p \in Pulses |-> IF @[p] > 0 THEN @[p] - 1 ELSE 0]]
  /\ age' = [age EXCEPT !.since = IF Fires(dcu.hw, 0) /\ Watched /\ @ < Horizon
                                 THEN @ + 1 ELSE @]
  /\ UNCHANGED <<s, state, out>>

\* The DC unit loses its pulses, or finds them again.
Lose(p) ==
  /\ Fires(dcu.hw, p)
  /\ dcu' = [dcu EXCEPT !.lost = IF p \in @ THEN @ \ {p} ELSE @ \cup {p}]
  /\ UNCHANGED <<s, state, out, timer, age>>

\* EcatDevice::OnSync0() and OnSync1(), when the pulse is not lost.
Pulse(p, served) ==
  /\ Due(p)
  /\ dcu' = [dcu EXCEPT !.next[p] = Period(dcu.hw, p)]
  /\ IF p \in dcu.lost
     THEN age' = [age EXCEPT !.missing = Watched] /\ UNCHANGED s
     ELSE age' = [age EXCEPT !.since = IF p = 0 THEN 0 ELSE @] /\ s' = served
  /\ UNCHANGED <<state, out, timer>>

OnSync0 == Pulse(0, Sync0(s))
OnSync1 == Pulse(1, Sync1(s))

\* EcatDevice::OnTick1ms().
OnTick1ms ==
  /\ timer = 0
  /\ s' = TickSync(s)
  /\ timer' = TickPeriod
  /\ UNCHANGED <<state, out, dcu, age>>

\* EcatDevice::HandlePdiEvents(), while the outputs run.
OnProcessOutput ==
  /\ out
  /\ s' = OutputEvent(s)
  /\ UNCHANGED <<state, out, dcu, timer, age>>

\* The master sets the DC unit up, which it does in PREOP.
Reconfigure ==
  /\ state = "PreOp"
  /\ \E hw \in Setups \ {dcu.hw} : dcu' = [hw |-> hw, lost |-> {}, next |-> NextPulse(hw)]
  /\ UNCHANGED <<s, state, out, timer, age>>

\* The master asks for SAFEOP, in PREOP or in OP, which LeaveOp() ends first.
\* EnterSafeOp() prepares and starts the domain anew; a setup that is refused,
\* and areas that overlap, take the slave to PREOP with the domain stopped.
EnterSafeOp ==
  /\ state \in {"PreOp", "Op"}
  /\ \/ /\ ~RefusesSetup(dcu.hw)
        /\ s' = StartSm(PrepareSm(s, dcu.hw), dcu.hw)
        /\ state' = "SafeOp"
     \/ /\ s' = StopSm(IF RefusesSetup(dcu.hw) THEN s
                       ELSE StartSm(PrepareSm(s, dcu.hw), dcu.hw))
        /\ state' = "PreOp"
  /\ out' = FALSE
  /\ age' = NewSession
  /\ UNCHANGED <<dcu, timer>>

\* EnterOp(): at once, or by the first outputs, which are then consumed.
EnterOp ==
  /\ state = "SafeOp"
  /\ state' = "Op" /\ out' = TRUE
  /\ s' \in {s, OutputEvent(s)}
  /\ UNCHANGED <<dcu, timer, age>>

\* RequestLocalState() for another reason than the sequence: it stops the
\* outputs only, so that after a fallback to PREOP the domain still runs.
FallBack ==
  /\ Watched
  /\ state' = IF state = "Op" THEN "SafeOp" ELSE "PreOp"
  /\ out' = FALSE
  /\ age' = IF state = "Op" THEN age ELSE NewSession
  /\ UNCHANGED <<s, dcu, timer>>

\* The master asks for PREOP: LeaveSafeOp() stops the domain.  When EnterPreOp()
\* then fails the slave stays in SAFEOP or OP, without outputs.
LeaveSafeOp ==
  /\ Watched
  /\ s' = StopSm(s)
  /\ state' \in {"PreOp", state}
  /\ out' = FALSE
  /\ age' = NewSession
  /\ UNCHANGED <<dcu, timer>>

\* BackToInit(), which INIT calls in every state, and OnReset().
BackToInit ==
  /\ s' = StopSm(s)
  /\ state' = "PreOp" /\ out' = FALSE
  /\ age' = NewSession
  /\ UNCHANGED <<dcu, timer>>

\* CheckErrors(), called by Poll(): a lost sequence ends OP.
CheckErrors ==
  /\ out
  /\ s.dc
  /\ ~s.seq
  /\ state' = "SafeOp" /\ out' = FALSE
  /\ UNCHANGED <<s, dcu, timer, age>>

Next ==
  \/ Advance \/ OnSync0 \/ OnSync1 \/ OnTick1ms
  \/ \E p \in Pulses : Lose(p)
  \/ OnProcessOutput \/ CheckErrors
  \/ Reconfigure \/ EnterSafeOp \/ EnterOp \/ FallBack \/ LeaveSafeOp \/ BackToInit

\* Time goes on: the pulses, the timer and the application's task keep coming.
Spec ==
  /\ Init /\ [][Next]_vars
  /\ WF_vars(Advance \/ OnSync0 \/ OnSync1 \/ OnTick1ms) /\ WF_vars(CheckErrors)

-------------------------------------------------------------------------------
(* Correctness.                                                            *)

\* Every member of EcatSync keeps its type, and no counter passes its limit.
TypeOK ==
  /\ {s.dc, s.run, s.seq} \subseteq BOOLEAN
  /\ s.wd0 \in 0 .. s.val0 /\ s.wd1 \in 0 .. s.val1
  /\ s.sm \in 0 .. s.smVal + 1
  /\ s.latch \in 0 .. s.latchVal
  /\ {s.missOut, s.missIn} \subseteq 0 .. ErrorLimit + 3
  /\ state \in {"PreOp", "SafeOp", "Op"} /\ out \in BOOLEAN
  /\ dcu \in [hw : Setups, lost : SUBSET Pulses, next : [Pulses -> Nat]]
  /\ timer \in 0 .. TickPeriod
  /\ age \in [since : 0 .. Horizon, missing : BOOLEAN]

\* The watchdogs are patient: as long as every pulse of the session came when
\* it was due the sequence is valid ("two cycles, or 1 ms", StartSm), so that a
\* healthy DC network is never thrown out of OP.
WatchdogIsPatient == Watched /\ ~s.seq => age.missing

\* The watchdogs are awake: when SYNC0 has been missing for as many milliseconds
\* as its watchdog has ticks the sequence is invalid, whatever SYNC1 does, and
\* however often SAFEOP was entered again or left without success before.
WatchdogNotices ==
  /\ Watched /\ s.dc /\ s.val0 > 0
  /\ age.since > s.val0 * TickPeriod
  => ~s.seq

\* When SYNC0 stays away the outputs do not go on.
OutputsStopWithoutSync ==
  (out /\ s.dc /\ s.val0 > 0) ~> (~out \/ 0 \notin dcu.lost)
===============================================================================

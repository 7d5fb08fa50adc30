---------------------------- MODULE EcatSyncProofs ----------------------------
(***************************************************************************)
(* Proofs about EcatSync: the type invariant and the two sides of the      *)
(* watchdogs, for every DC setup, every grain of time and every horizon.   *)
(* They must count fast enough to notice a SYNC0 that is missing, and      *)
(* slowly enough never to trip on pulses that come in time.  Both follow   *)
(* from the count of a watchdog, measured in time: it is bounded from      *)
(* below by the age of the last SYNC0, and from above by the time to the   *)
(* next pulse.                                                             *)
(***************************************************************************)
EXTENDS EcatSync, TLAPS

-------------------------------------------------------------------------------
(* The inductive invariant.                                                *)

SyncType ==
  [dc : BOOLEAN, run : BOOLEAN, seq : BOOLEAN, wd0 : Nat, val0 : Nat, wd1 : Nat, val1 : Nat,
   sm : Nat, smVal : Nat, latch : Nat, latchVal : Nat, missOut : Nat, missIn : Nat]

\* No counter passes its limit.
Bounded(v) ==
  /\ v.wd0 <= v.val0 /\ v.wd1 <= v.val1
  /\ v.sm <= v.smVal + 1 /\ v.latch <= v.latchVal
  /\ v.missOut <= ErrorLimit + 3 /\ v.missIn <= ErrorLimit + 3

Types ==
  /\ s \in SyncType
  /\ state \in {"PreOp", "SafeOp", "Op"}
  /\ out \in BOOLEAN /\ (out => state = "Op")
  /\ dcu \in [hw : Setups, lost : SUBSET Pulses, next : [Pulses -> Nat]]
  /\ timer \in 0 .. TickPeriod
  /\ age \in [since : 0 .. Horizon, missing : BOOLEAN]

\* The age of the last SYNC0 is at most the ticks that were counted since, and
\* the one that has not come to its end.  A watchdog that has counted all of
\* its ticks has ended the sequence.
Awake ==
  Watched /\ s.dc /\ s.val0 > 0 =>
    IF s.wd0 < s.val0 THEN age.since + timer <= (s.wd0 + 1) * TickPeriod ELSE ~s.seq

\* The limits that StartSm gives the watchdogs.
Limit0(hw) == IF hw.sync0 /\ hw.c0 # 0 THEN WatchdogTicks(hw.c0) ELSE 0

Limit1(hw) ==
  CASE ~(hw.sync1 /\ hw.c0 # 0)               -> 0
    [] hw.sync1 /\ hw.c0 # 0 /\ hw.c1 < hw.c0 -> Limit0(hw)
    [] OTHER -> WatchdogTicks(hw.c0 + hw.c1) + Limit0(hw) \div 2

\* The session watches the DC unit that it was started with.
Configured ==
  Watched /\ s.dc =>
    /\ dcu.hw.unit /\ dcu.hw.sync0
    /\ s.val0 = Limit0(dcu.hw) /\ s.val1 = Limit1(dcu.hw)

\* A pulse is at most its period away.
Ahead == \A p \in Pulses : Fires(dcu.hw, p) => dcu.next[p] <= Period(dcu.hw, p)

\* As long as no pulse is missing, a count is at most the ticks that fit into
\* the part of the period that is over.
Counted(count, p) ==
  Fires(dcu.hw, p) => count * TickPeriod + dcu.next[p] <= Period(dcu.hw, p) + timer

Patient ==
  Watched /\ ~age.missing => s.seq /\ (s.dc => Counted(s.wd0, 0) /\ Counted(s.wd1, 1))

Inv == Types /\ Bounded(s) /\ Awake /\ Configured /\ Ahead

\* What the master must not do: SYNC0 faster than every 1.5 ms.  The limit on
\* missed events is 0, none: nothing in the code calls SetSyncErrorLimit.
SlowSetups ==
  /\ ErrorLimit = 0
  /\ \A hw \in Setups : hw.unit /\ hw.sync0 /\ hw.c0 # 0 => hw.c0 * Grain >= 15

-------------------------------------------------------------------------------
(* The operators.                                                          *)

\* A tick is a positive number of steps of time.
LEMMA TickPeriodPositive == TickPeriod \in Nat /\ TickPeriod > 0
BY SyncAssumption DEF SyncAssumption, TickPeriod

\* Limits are natural numbers.
LEMMA LimitsType ==
  ASSUME NEW hw \in DcSetups
  PROVE  Limit0(hw) \in Nat /\ Limit1(hw) \in Nat
<1>1. \A n \in Nat : WatchdogTicks(n) \in Nat
  BY SyncAssumption DEF SyncAssumption, WatchdogTicks
<1>2. hw.c0 \in Nat /\ hw.c1 \in Nat /\ hw.c0 + hw.c1 \in Nat
  BY DEF DcSetups
<1>3. Limit0(hw) \in Nat
  BY <1>1, <1>2 DEF Limit0
<1>4. Limit0(hw) \div 2 \in Nat
  BY <1>3
<1> QED
  BY <1>1, <1>2, <1>3, <1>4 DEF Limit1

\* StopSm resets every counter and takes the sequence for valid.
LEMMA StopSound ==
  ASSUME NEW v \in SyncType, Bounded(v), NEW r, r = StopSm(v)
  PROVE  /\ r \in SyncType /\ Bounded(r)
         /\ r.dc = v.dc /\ r.seq /\ r.wd0 = 0 /\ r.wd1 = 0
         /\ r.val0 = v.val0 /\ r.val1 = v.val1
<1>1. r \in SyncType
  BY DEF StopSm, SyncType
<1>2. /\ r.dc = v.dc /\ r.seq /\ r.wd0 = 0 /\ r.wd1 = 0 /\ r.sm = 0 /\ r.latch = 0
      /\ r.val0 = v.val0 /\ r.val1 = v.val1 /\ r.smVal = v.smVal /\ r.latchVal = 0
      /\ r.missOut = v.missOut /\ r.missIn = v.missIn
  BY DEF StopSm, SyncType
<1> QED
  BY <1>1, <1>2 DEF Bounded, SyncType

\* StartSm does so too, and loads the watchdogs when there is a DC unit.
LEMMA StartSound ==
  ASSUME NEW v \in SyncType, Bounded(v), NEW hw \in DcSetups,
         NEW r, r = StartSm(PrepareSm(v, hw), hw)
  PROVE  /\ r \in SyncType /\ Bounded(r) /\ r.seq /\ r.wd0 = 0 /\ r.wd1 = 0
         /\ r.dc = (hw.unit /\ OutSize)
         /\ r.dc => r.val0 = Limit0(hw) /\ r.val1 = Limit1(hw)
<1> DEFINE u     == PrepareSm(v, hw)
           total == hw.c0 + hw.c1
           off   == [StopSm(u) EXCEPT !.val0 = 0, !.val1 = 0, !.smVal = 0]
           on    == [off EXCEPT !.val0 = Limit0(hw), !.val1 = Limit1(hw), !.latchVal = 1]
           many  == (total \div hw.c0) + (IF total % hw.c0 = 0 THEN 1 ELSE 0)
           point == Ceiling(total, hw.c0)
<1>1. /\ hw.unit \in BOOLEAN /\ OutSize \in BOOLEAN /\ hw.c0 \in Nat /\ hw.c1 \in Nat
  BY SyncAssumption DEF SyncAssumption, DcSetups
<1>2. /\ u \in SyncType /\ u.dc = (hw.unit /\ OutSize)
      /\ u.missOut = v.missOut /\ u.missIn = v.missIn
  BY <1>1 DEF PrepareSm, SyncType
<1>3. r = CASE ~u.dc -> off
            [] u.dc /\ Subordinate(hw) -> [on EXCEPT !.smVal = many, !.latchVal = point]
            [] u.dc /\ ~Subordinate(hw) /\ ~hw.sync1 -> [on EXCEPT !.smVal = 1]
            [] OTHER -> on
  BY DEF StartSm, Limit0, Limit1
<1> HIDE DEF u
<1>4. /\ off \in SyncType /\ off.seq /\ off.dc = u.dc
      /\ off.wd0 = 0 /\ off.val0 = 0 /\ off.wd1 = 0 /\ off.val1 = 0
      /\ off.sm = 0 /\ off.smVal = 0 /\ off.latch = 0 /\ off.latchVal = 0
      /\ off.missOut = v.missOut /\ off.missIn = v.missIn
  BY <1>2 DEF StopSm, SyncType
<1>5. \A w \in SyncType :
        /\ w.wd0 = 0 /\ w.wd1 = 0 /\ w.sm = 0 /\ w.latch = 0
        /\ w.missOut = v.missOut /\ w.missIn = v.missIn
        => Bounded(w)
  BY DEF Bounded, SyncType
<1>6. CASE ~u.dc
  BY <1>2, <1>3, <1>4, <1>5, <1>6
<1> HIDE DEF off
<1>7. /\ on \in SyncType /\ on.seq /\ on.dc = u.dc
      /\ on.wd0 = 0 /\ on.val0 = Limit0(hw) /\ on.wd1 = 0 /\ on.val1 = Limit1(hw)
      /\ on.sm = 0 /\ on.latch = 0
      /\ on.missOut = v.missOut /\ on.missIn = v.missIn
  BY <1>4, LimitsType DEF SyncType
<1> HIDE DEF on
<1>8. CASE u.dc /\ Subordinate(hw)
  <2>1. many \in Nat /\ point \in Nat
    BY <1>1, <1>8 DEF Subordinate, Ceiling
  <2> HIDE DEF many, point
  <2>2. r = [on EXCEPT !.smVal = many, !.latchVal = point]
    BY <1>3, <1>8
  <2>3. r \in SyncType
    BY <1>7, <2>1, <2>2 DEF SyncType
  <2>4. on \in SyncType
    BY <1>7
  <2>5. /\ r.seq = on.seq /\ r.dc = on.dc /\ r.wd0 = on.wd0 /\ r.val0 = on.val0
        /\ r.wd1 = on.wd1 /\ r.val1 = on.val1
    BY <2>2, <2>4 DEF SyncType
  <2>6. /\ r.sm = on.sm /\ r.latch = on.latch
        /\ r.missOut = on.missOut /\ r.missIn = on.missIn
    BY <2>2, <2>4 DEF SyncType
  <2> QED
    BY <1>2, <1>5, <1>7, <2>3, <2>5, <2>6
<1>9. CASE u.dc /\ ~Subordinate(hw) /\ ~hw.sync1
  <2>1. r = [on EXCEPT !.smVal = 1]
    BY <1>3, <1>9
  <2>2. /\ r \in SyncType /\ r.seq /\ r.dc = u.dc
        /\ r.wd0 = 0 /\ r.val0 = Limit0(hw) /\ r.wd1 = 0 /\ r.val1 = Limit1(hw)
        /\ r.sm = 0 /\ r.latch = 0
        /\ r.missOut = v.missOut /\ r.missIn = v.missIn
    BY <1>7, <2>1 DEF SyncType
  <2> QED
    BY <1>2, <1>5, <2>2
<1>10. CASE u.dc /\ ~Subordinate(hw) /\ hw.sync1
  BY <1>2, <1>3, <1>5, <1>7, <1>10
<1> QED
  BY <1>2, <1>6, <1>8, <1>9, <1>10 DEF SyncType

\* OutputEvent leaves the watchdogs and the sequence alone.
LEMMA OutputSound ==
  ASSUME NEW v \in SyncType, Bounded(v), NEW r, r = OutputEvent(v)
  PROVE  /\ r \in SyncType /\ Bounded(r)
         /\ r.dc = v.dc /\ r.seq = v.seq /\ r.wd0 = v.wd0 /\ r.val0 = v.val0
         /\ r.wd1 = v.wd1 /\ r.val1 = v.val1
<1> DEFINE m == IF v.missOut > 0 THEN v.missOut - 1 ELSE 0
<1>1. m \in Nat /\ m <= ErrorLimit + 3
  BY SyncAssumption DEF SyncAssumption, SyncType, Bounded
<1>2. PICK k : k = IF v.dc /\ v.run THEN 0 ELSE v.sm
  OBVIOUS
<1>3. k \in Nat /\ k <= v.smVal + 1
  BY <1>2 DEF SyncType, Bounded
<1> HIDE DEF m
<1>4. r = [v EXCEPT !.sm = k, !.missOut = m, !.missIn = m]
  BY <1>2 DEF OutputEvent, m
<1>5. r \in SyncType
  BY <1>1, <1>3, <1>4 DEF SyncType
<1>6. /\ r.dc = v.dc /\ r.seq = v.seq /\ r.wd0 = v.wd0 /\ r.val0 = v.val0
      /\ r.wd1 = v.wd1 /\ r.val1 = v.val1 /\ r.sm = k /\ r.smVal = v.smVal
      /\ r.latch = v.latch /\ r.latchVal = v.latchVal /\ r.missOut = m /\ r.missIn = m
  BY <1>4 DEF SyncType
<1> QED
  BY <1>1, <1>3, <1>5, <1>6 DEF Bounded

\* OnSync0 restarts its watchdog and keeps every counter within its limit.
LEMMA Sync0Sound ==
  ASSUME NEW v \in SyncType, Bounded(v), NEW r, r = Sync0(v)
  PROVE  /\ r \in SyncType /\ Bounded(r)
         /\ r.dc = v.dc /\ r.seq = v.seq /\ r.wd0 = 0 /\ r.val0 = v.val0
         /\ r.wd1 = v.wd1 /\ r.val1 = v.val1
<1> DEFINE x == [v EXCEPT !.wd0 = 0, !.run = TRUE]
<1>1. /\ x \in SyncType
      /\ x.dc = v.dc /\ x.seq = v.seq /\ x.wd0 = 0 /\ x.val0 = v.val0
      /\ x.wd1 = v.wd1 /\ x.val1 = v.val1 /\ x.sm = v.sm /\ x.smVal = v.smVal
      /\ x.latch = v.latch /\ x.latchVal = v.latchVal
      /\ x.missOut = v.missOut /\ x.missIn = v.missIn
  BY DEF SyncType
<1>2. Bounded(x)
  BY <1>1 DEF Bounded, SyncType
<1>3. PICK a : a = IF v.latchVal = 1 THEN 0
                   ELSE IF v.latch < v.latchVal THEN v.latch + 1 ELSE v.latch
  OBVIOUS
<1>4. a \in Nat /\ a <= v.latchVal
  BY <1>3 DEF SyncType, Bounded
<1>5. \A n \in Nat : n <= ErrorLimit + 3 => Missed(v, n) \in Nat /\ Missed(v, n) <= ErrorLimit + 3
  BY SyncAssumption DEF SyncAssumption, Missed
<1> DEFINE tooMany == v.smVal > 0 /\ v.sm > v.smVal
<1>6. PICK b : b = IF tooMany /\ OutSize THEN Missed(v, v.missOut) ELSE v.missOut
  OBVIOUS
<1>7. PICK c : c = IF tooMany /\ InSize /\ ~OutSize THEN Missed(v, v.missIn) ELSE v.missIn
  OBVIOUS
<1>8. b \in Nat /\ b <= ErrorLimit + 3 /\ c \in Nat /\ c <= ErrorLimit + 3
  BY <1>5, <1>6, <1>7 DEF SyncType, Bounded
<1>9. PICK k : k = IF v.smVal > 0 /\ v.sm <= v.smVal THEN v.sm + 1 ELSE v.sm
  OBVIOUS
<1>10. k \in Nat /\ k <= v.smVal + 1
  BY <1>9 DEF SyncType, Bounded
<1>11. r = IF ~v.dc THEN x
           ELSE [x EXCEPT !.latch = a, !.missOut = b, !.missIn = c, !.sm = k]
  BY <1>1, <1>3, <1>6, <1>7, <1>9 DEF Sync0
<1> HIDE DEF x
<1>12. CASE ~v.dc
  BY <1>1, <1>2, <1>11, <1>12
<1>13. CASE v.dc
  <2>1. r = [x EXCEPT !.latch = a, !.missOut = b, !.missIn = c, !.sm = k]
    BY <1>11, <1>13
  <2>2. r \in SyncType
    BY <1>1, <1>4, <1>8, <1>10, <2>1 DEF SyncType
  <2>3. /\ r.dc = v.dc /\ r.seq = v.seq /\ r.wd0 = 0 /\ r.val0 = v.val0
        /\ r.wd1 = v.wd1 /\ r.val1 = v.val1 /\ r.sm = k /\ r.smVal = v.smVal
        /\ r.latch = a /\ r.latchVal = v.latchVal /\ r.missOut = b /\ r.missIn = c
    BY <1>1, <2>1 DEF SyncType
  <2> QED
    BY <1>4, <1>8, <1>10, <2>2, <2>3 DEF Bounded, SyncType
<1> QED
  BY <1>12, <1>13

\* OnSync1 restarts the other one.
LEMMA Sync1Sound ==
  ASSUME NEW v \in SyncType, Bounded(v), NEW r, r = Sync1(v)
  PROVE  /\ r \in SyncType /\ Bounded(r)
         /\ r.dc = v.dc /\ r.seq = v.seq /\ r.wd0 = v.wd0 /\ r.val0 = v.val0
         /\ r.wd1 = 0 /\ r.val1 = v.val1
<1>1. r \in SyncType
  BY DEF Sync1, SyncType
<1>2. /\ r.dc = v.dc /\ r.seq = v.seq /\ r.wd0 = v.wd0 /\ r.val0 = v.val0
      /\ r.wd1 = 0 /\ r.val1 = v.val1 /\ r.sm = v.sm /\ r.smVal = v.smVal
      /\ r.latch = 0 /\ r.latchVal = v.latchVal
      /\ r.missOut = v.missOut /\ r.missIn = v.missIn
  BY DEF Sync1, SyncType
<1> QED
  BY <1>1, <1>2 DEF Bounded, SyncType

\* A tick without DC does nothing; with DC each watchdog counts at most one
\* more, and the sequence is valid as long as both have ticks left.
LEMMA TickSound ==
  ASSUME NEW v \in SyncType, Bounded(v), NEW r, r = TickSync(v)
  PROVE  /\ r \in SyncType /\ Bounded(r)
         /\ r.dc = v.dc /\ r.val0 = v.val0 /\ r.val1 = v.val1
         /\ ~v.dc => r = v
         /\ v.dc => /\ r.wd0 = IF v.wd0 < v.val0 THEN v.wd0 + 1 ELSE v.wd0
                    /\ r.wd1 \in {v.wd1, v.wd1 + 1}
                    /\ r.seq => v.val0 = 0 \/ r.wd0 < v.val0
                    /\ /\ v.val0 = 0 \/ r.wd0 < v.val0
                       /\ v.val1 = 0 \/ v.wd1 < v.val1
                       /\ ErrorLimit = 0
                       => r.seq
<1>1. CASE ~v.dc
  BY <1>1 DEF TickSync
<1>2. CASE v.dc
  <2>1. PICK a : a = IF v.wd0 < v.val0 THEN v.wd0 + 1 ELSE v.wd0
    OBVIOUS
  <2>2. PICK run0 : run0 = (v.val0 = 0 \/ a < v.val0)
    OBVIOUS
  <2>3. PICK run : run = (run0 /\ (v.val1 = 0 \/ v.wd1 < v.val1))
    OBVIOUS
  <2>4. PICK b : b = IF run0 /\ v.wd1 < v.val1 THEN v.wd1 + 1 ELSE v.wd1
    OBVIOUS
  <2>5. PICK q : q = (run /\ (ErrorLimit = 0 \/ v.missOut < ErrorLimit))
    OBVIOUS
  <2>6. /\ a \in Nat /\ a <= v.val0 /\ b \in Nat /\ b <= v.val1
        /\ run \in BOOLEAN /\ q \in BOOLEAN
    BY <2>1, <2>2, <2>3, <2>4, <2>5 DEF SyncType, Bounded
  <2>7. r = [v EXCEPT !.wd0 = a, !.run = run, !.wd1 = b, !.seq = q]
    BY <1>2, <2>1, <2>2, <2>3, <2>4, <2>5 DEF TickSync
  <2>8. r \in SyncType
    BY <2>6, <2>7 DEF SyncType
  <2>9. /\ r.dc = v.dc /\ r.seq = q /\ r.wd0 = a /\ r.val0 = v.val0
        /\ r.wd1 = b /\ r.val1 = v.val1 /\ r.sm = v.sm /\ r.smVal = v.smVal
        /\ r.latch = v.latch /\ r.latchVal = v.latchVal
        /\ r.missOut = v.missOut /\ r.missIn = v.missIn
    BY <2>7 DEF SyncType
  <2>10. Bounded(r)
    BY <2>6, <2>9 DEF Bounded
  <2> QED
    BY <1>2, <2>1, <2>2, <2>3, <2>4, <2>5, <2>8, <2>9, <2>10 DEF SyncType
<1> QED
  BY <1>1, <1>2

-------------------------------------------------------------------------------
(* The invariant.                                                          *)

\* A pulse of the unit comes again after its period, which is not zero.
LEMMA PeriodType ==
  ASSUME NEW hw \in DcSetups, NEW p \in Pulses
  PROVE  /\ Period(hw, p) \in Nat
         /\ NextPulse(hw) \in [Pulses -> Nat]
         /\ NextPulse(hw)[p] <= Period(hw, p)
         /\ Fires(hw, p) => Period(hw, p) > 0
BY DEF DcSetups, Pulses, Period, NextPulse, Fires

\* A freshly set up unit has its pulses ahead.
LEMMA SetupSound ==
  ASSUME NEW hw \in Setups, NEW u, u = [hw |-> hw, lost |-> {}, next |-> NextPulse(hw)]
  PROVE  /\ u \in [hw : Setups, lost : SUBSET Pulses, next : [Pulses -> Nat]]
         /\ \A p \in Pulses : u.next[p] <= Period(u.hw, p)
<1>1. hw \in DcSetups
  BY SyncAssumption DEF SyncAssumption
<1>2. NextPulse(hw) \in [Pulses -> Nat] /\ \A p \in Pulses : NextPulse(hw)[p] <= Period(hw, p)
  BY <1>1, PeriodType DEF Pulses
<1> QED
  BY <1>2

\* The setup in use is one of the master's.
LEMMA HwType == Types => dcu.hw \in Setups /\ dcu.hw \in DcSetups
BY SyncAssumption DEF SyncAssumption, Types

LEMMA InitInv == Init => Inv
<1> SUFFICES ASSUME Init PROVE Inv
  OBVIOUS
<1>1. s \in SyncType /\ Bounded(s)
  BY SyncAssumption DEF SyncAssumption, Init, InitialSync, SyncType, Bounded
<1>2. PICK hw \in Setups : dcu = [hw |-> hw, lost |-> {}, next |-> NextPulse(hw)]
  BY DEF Init
<1>3. /\ dcu \in [hw : Setups, lost : SUBSET Pulses, next : [Pulses -> Nat]]
      /\ Ahead
  BY <1>2, SetupSound DEF Ahead
<1>4. timer \in 0 .. TickPeriod
  BY TickPeriodPositive DEF Init
<1>5. age \in [since : 0 .. Horizon, missing : BOOLEAN]
  BY SyncAssumption DEF SyncAssumption, Init, NewSession
<1>6. state = "PreOp" /\ out = FALSE
  BY DEF Init
<1> QED
  BY <1>1, <1>3, <1>4, <1>5, <1>6 DEF Inv, Types, Awake, Configured, Watched

\* Time passes: the pulses come nearer, the last SYNC0 gets older, and so does
\* the last tick.
LEMMA AdvanceInv ==
  ASSUME Inv, Advance
  PROVE  Inv' /\ (Patient => Patient')
<1>1. /\ s' = s /\ state' = state /\ out' = out /\ timer' = timer - 1 /\ timer > 0
      /\ age.since \in 0..Horizon
      /\ age' = [age EXCEPT !.since = IF Fires(dcu.hw, 0) /\ Watched /\ age.since < Horizon
                                      THEN age.since + 1 ELSE age.since]
  BY DEF Advance, Inv, Types
<1>2. timer' \in 0 .. TickPeriod
  BY <1>1, TickPeriodPositive DEF Inv, Types
<1>3. /\ age' \in [since : 0 .. Horizon, missing : BOOLEAN]
      /\ age'.missing = age.missing /\ age'.since \in {age.since, age.since + 1}
  BY <1>1, SyncAssumption DEF SyncAssumption, Inv, Types
<1>4. /\ dcu' \in [hw : Setups, lost : SUBSET Pulses, next : [Pulses -> Nat]]
      /\ dcu'.hw = dcu.hw
      /\ \A p \in Pulses : dcu'.next[p] = IF dcu.next[p] > 0 THEN dcu.next[p] - 1 ELSE 0
  BY DEF Advance, Inv, Types
<1>5. \A p \in Pulses : Fires(dcu.hw, p) => dcu'.next[p] = dcu.next[p] - 1 /\ dcu.next[p] > 0
  BY <1>4 DEF Advance, Due, Inv, Types
<1>6. Types' /\ Bounded(s')
  BY <1>1, <1>2, <1>3, <1>4 DEF Inv, Types
<1>7. Ahead'
  BY <1>4, <1>5, HwType, PeriodType DEF Inv, Types, Ahead
<1>8. Configured'
  BY <1>1, <1>4 DEF Inv, Configured, Watched
<1>9. Awake'
  <2>1. s.wd0 \in Nat /\ timer \in Nat /\ age.since \in Nat /\ TickPeriod \in Nat
    BY <1>1, TickPeriodPositive DEF Inv, Types, SyncType
  <2>2. PICK k : k = (s.wd0 + 1) * TickPeriod
    OBVIOUS
  <2>3. k \in Nat
    BY <2>1, <2>2
  <2>4. age.since + timer <= k => age'.since + timer' <= k
    BY <1>1, <1>3, <2>1, <2>3
  <2> QED
    BY <1>1, <2>2, <2>4 DEF Inv, Awake, Watched
<1>10. ASSUME NEW count \in Nat, NEW p \in Pulses, Counted(count, p)
       PROVE  Counted(count, p)'
  <2>1. PICK k : k = count * TickPeriod
    OBVIOUS
  <2>2. k \in Nat /\ timer \in Nat /\ dcu.next[p] \in Nat /\ Period(dcu.hw, p) \in Nat
    BY <2>1, TickPeriodPositive, HwType, PeriodType DEF Inv, Types
  <2> QED
    BY <1>1, <1>4, <1>5, <1>10, <2>1, <2>2 DEF Counted
<1>11. Patient => Patient'
  BY <1>1, <1>3, <1>10 DEF Inv, Types, SyncType, Patient, Watched, Pulses
<1> QED
  BY <1>1, <1>6, <1>7, <1>8, <1>9, <1>11 DEF Inv

\* Losing pulses changes nothing but whether they come.
LEMMA LoseInv ==
  ASSUME Inv, NEW q \in Pulses, Lose(q)
  PROVE  Inv' /\ (Patient => Patient')
<1>1. s' = s /\ state' = state /\ out' = out /\ timer' = timer /\ age' = age
  BY DEF Lose
<1>2. /\ dcu' \in [hw : Setups, lost : SUBSET Pulses, next : [Pulses -> Nat]]
      /\ dcu'.hw = dcu.hw /\ dcu'.next = dcu.next
  BY DEF Lose, Inv, Types
<1>3. Types' /\ Bounded(s') /\ Awake' /\ Configured' /\ Ahead'
  BY <1>1, <1>2 DEF Inv, Types, Awake, Configured, Ahead, Watched
<1>4. Patient => Patient'
  BY <1>1, <1>2 DEF Patient, Counted, Watched
<1> QED
  BY <1>1, <1>3, <1>4 DEF Inv

\* A pulse that comes restarts its watchdog; one that is lost is remembered.
LEMMA PulseInv ==
  ASSUME Inv, NEW q \in Pulses, NEW served, Pulse(q, served),
         served = IF q = 0 THEN Sync0(s) ELSE Sync1(s)
  PROVE  Inv' /\ (Patient => Patient')
<1>1. /\ Fires(dcu.hw, q) /\ dcu.next[q] = 0
      /\ state' = state /\ out' = out /\ timer' = timer
      /\ dcu' = [dcu EXCEPT !.next[q] = Period(dcu.hw, q)]
  BY DEF Pulse, Due
<1>2. dcu.hw \in Setups /\ dcu.hw \in DcSetups /\ dcu.next \in [Pulses -> Nat]
  BY HwType DEF Inv, Types
<1>3. Period(dcu.hw, q) \in Nat
  BY <1>2, PeriodType
<1>4. /\ dcu' \in [hw : Setups, lost : SUBSET Pulses, next : [Pulses -> Nat]]
      /\ dcu'.hw = dcu.hw /\ dcu'.next[q] = Period(dcu.hw, q)
      /\ \A p \in Pulses \ {q} : dcu'.next[p] = dcu.next[p]
  BY <1>1, <1>2, <1>3 DEF Inv, Types
<1>5. Ahead'
  BY <1>2, <1>3, <1>4 DEF Inv, Ahead
<1>6. s \in SyncType /\ Bounded(s) /\ timer \in Nat
  BY TickPeriodPositive DEF Inv, Types
<1>7. CASE q \in dcu.lost
  <2>1. s' = s /\ age' = [age EXCEPT !.missing = Watched]
    BY <1>7 DEF Pulse
  <2>2. /\ age' \in [since : 0 .. Horizon, missing : BOOLEAN]
        /\ age'.since = age.since /\ age'.missing = Watched
    BY <2>1 DEF Inv, Types, Watched
  <2>3. Types' /\ Bounded(s') /\ Awake' /\ Configured'
    BY <1>1, <1>4, <2>1, <2>2 DEF Inv, Types, Awake, Configured, Watched
  <2>4. Patient'
    BY <1>1, <2>2 DEF Patient, Watched
  <2> QED
    BY <1>5, <2>1, <2>3, <2>4 DEF Inv
<1>8. CASE q \notin dcu.lost
  <2>1. s' = served /\ age' = [age EXCEPT !.since = IF q = 0 THEN 0 ELSE age.since]
    BY <1>8 DEF Pulse
  <2>2. /\ age' \in [since : 0 .. Horizon, missing : BOOLEAN]
        /\ age'.since = (IF q = 0 THEN 0 ELSE age.since) /\ age'.missing = age.missing
    BY <2>1, SyncAssumption DEF SyncAssumption, Inv, Types
  <2>3. /\ s' \in SyncType /\ Bounded(s')
        /\ s'.dc = s.dc /\ s'.seq = s.seq /\ s'.val0 = s.val0 /\ s'.val1 = s.val1
        /\ s'.wd0 = (IF q = 0 THEN 0 ELSE s.wd0)
        /\ s'.wd1 = (IF q = 0 THEN s.wd1 ELSE 0)
    BY <1>6, <2>1, Sync0Sound, Sync1Sound
  <2>4. Types' /\ Configured'
    BY <1>1, <1>4, <2>2, <2>3 DEF Inv, Types, Configured, Watched
  <2>5. Awake'
    <3>1. CASE q = 0
      <4>1. s'.wd0 = 0 /\ age'.since = 0 /\ timer' <= TickPeriod
        BY <1>1, <2>2, <2>3, <3>1 DEF Inv, Types
      <4>2. age'.since + timer' <= (s'.wd0 + 1) * TickPeriod
        BY <1>1, <1>6, <4>1, TickPeriodPositive
      <4>3. s'.val0 \in Nat
        BY <2>3 DEF SyncType
      <4> QED
        BY <4>1, <4>2, <4>3 DEF Awake
    <3>2. CASE q # 0
      BY <1>1, <2>2, <2>3, <3>2 DEF Inv, Awake, Watched
    <3> QED
      BY <3>1, <3>2
  <2>6. ASSUME NEW count \in Nat, NEW p \in Pulses, Counted(count, p)
        PROVE  \A new : new = (IF p = q THEN 0 ELSE count) => Counted(new, p)'
    <3>1. CASE p = q
      BY <1>1, <1>3, <1>4, <1>6, <3>1, TickPeriodPositive DEF Counted
    <3>2. CASE p # q
      BY <1>1, <1>4, <2>6, <3>2 DEF Counted
    <3> QED
      BY <3>1, <3>2
  <2>7. Patient => Patient'
    <3>1. 0 \in Pulses /\ 1 \in Pulses /\ q \in {0, 1} /\ s.wd0 \in Nat /\ s.wd1 \in Nat
      BY <1>6 DEF SyncType, Pulses
    <3>2. Counted(s.wd0, 0) => Counted(s.wd0, 0)'
      BY <2>3, <2>6, <3>1
    <3>3. Counted(s.wd1, 1) => Counted(s.wd1, 1)'
      BY <2>3, <2>6, <3>1
    <3> QED
      BY <1>1, <2>2, <2>3, <3>2, <3>3 DEF Patient, Watched
  <2> QED
    BY <2>3, <1>5, <2>4, <2>5, <2>7 DEF Inv
<1> QED
  BY <1>7, <1>8

\* A tick that finds a watchdog with all its ticks counted ends the sequence.
LEMMA TickInv ==
  ASSUME Inv, OnTick1ms
  PROVE  Inv'
<1>1. /\ s' = TickSync(s) /\ timer = 0 /\ timer' = TickPeriod
      /\ state' = state /\ out' = out /\ dcu' = dcu /\ age' = age
  BY DEF OnTick1ms
<1>2. s \in SyncType /\ Bounded(s)
  BY DEF Inv, Types
<1>3. /\ s' \in SyncType /\ Bounded(s')
      /\ s'.dc = s.dc /\ s'.val0 = s.val0 /\ s'.val1 = s.val1
      /\ s.dc => /\ s'.wd0 = IF s.wd0 < s.val0 THEN s.wd0 + 1 ELSE s.wd0
                 /\ s'.seq => s.val0 = 0 \/ s'.wd0 < s.val0
  BY <1>1, <1>2, TickSound
<1>4. Types' /\ Configured' /\ Ahead'
  BY <1>1, <1>3, TickPeriodPositive DEF Inv, Types, Configured, Ahead, Watched
<1>5. Awake'
  <2> SUFFICES ASSUME Watched, s.dc, s.val0 > 0, s'.wd0 < s'.val0
               PROVE  age'.since + timer' <= (s'.wd0 + 1) * TickPeriod
    BY <1>1, <1>2, <1>3 DEF Awake, Watched, SyncType
  <2>1. s.wd0 < s.val0 /\ s'.wd0 = s.wd0 + 1 /\ s.wd0 \in Nat
    BY <1>2, <1>3 DEF SyncType
  <2>2. age.since <= (s.wd0 + 1) * TickPeriod
    <3>1. age.since + timer <= (s.wd0 + 1) * TickPeriod /\ age.since \in Nat
      BY <2>1, SyncAssumption DEF SyncAssumption, Inv, Types, Awake
    <3> QED
      BY <1>1, <3>1
  <2>3. (s.wd0 + 2) * TickPeriod = (s.wd0 + 1) * TickPeriod + TickPeriod
    <3>1. TickPeriod \in {1, 2, 5, 10}
      BY SyncAssumption DEF SyncAssumption, TickPeriod
    <3> QED
      BY <2>1, <3>1
  <2>4. PICK k : k = (s.wd0 + 1) * TickPeriod
    OBVIOUS
  <2>5. k \in Nat /\ TickPeriod \in Nat /\ age.since \in Nat
    BY <2>1, <2>4, TickPeriodPositive DEF Inv, Types
  <2>6. age.since + TickPeriod <= k + TickPeriod
    BY <2>2, <2>4, <2>5
  <2>7. s'.wd0 + 1 = s.wd0 + 2
    BY <2>1
  <2> QED
    BY <1>1, <2>3, <2>4, <2>6, <2>7
<1> QED
  BY <1>3, <1>4, <1>5 DEF Inv

\* The limit of a watchdog, two cycles of at least 1.5 ms each, is more than
\* the ticks that fit into a cycle: one of them may come at its very start and
\* one at its very end.
LEMMA LimitIsPatient ==
  ASSUME NEW cycle \in Nat, cycle * Grain >= 15, NEW count \in Nat, count * TickPeriod <= cycle
  PROVE  count + 1 < WatchdogTicks(cycle)
<1>1. WatchdogTicks(cycle) = (cycle * Grain * 2) \div 10
  BY SyncAssumption DEF SyncAssumption, WatchdogTicks
<1>2. CASE Grain = 1
  <2>1. TickPeriod = 10
    BY <1>2 DEF TickPeriod
  <2> QED
    BY <1>1, <1>2, <2>1
<1>3. CASE Grain = 2
  <2>1. TickPeriod = 5
    BY <1>3 DEF TickPeriod
  <2> QED
    BY <1>1, <1>3, <2>1
<1>4. CASE Grain = 5
  <2>1. TickPeriod = 2
    BY <1>4 DEF TickPeriod
  <2> QED
    BY <1>1, <1>4, <2>1
<1>5. CASE Grain = 10
  <2>1. TickPeriod = 1
    BY <1>5 DEF TickPeriod
  <2> QED
    BY <1>1, <1>5, <2>1
<1> QED
  BY <1>2, <1>3, <1>4, <1>5, SyncAssumption DEF SyncAssumption

\* No tick ends the sequence as long as every pulse came in time.
LEMMA TickPatient ==
  ASSUME SlowSetups, Inv, Patient, OnTick1ms
  PROVE  Patient'
<1> DEFINE hw == dcu.hw
<1>1. /\ s' = TickSync(s) /\ timer = 0 /\ timer' = TickPeriod
      /\ state' = state /\ out' = out /\ dcu' = dcu /\ age' = age
  BY DEF OnTick1ms
<1>2. s \in SyncType /\ Bounded(s)
  BY DEF Inv, Types
<1>3. SUFFICES ASSUME Watched, ~age.missing
               PROVE  s'.seq /\ (s'.dc => Counted(s.wd0, 0)' /\ Counted(s.wd1, 1)')
  BY <1>1 DEF Patient, Watched
<1>4. CASE ~s.dc
  <2>1. s' = s
    BY <1>1, <1>2, <1>4, TickSound
  <2> QED
    BY <1>3, <1>4, <2>1 DEF Patient
<1>5. CASE s.dc
  <2>1. /\ hw \in Setups /\ hw \in DcSetups /\ hw.c0 \in Nat /\ hw.c1 \in Nat
        /\ hw.unit /\ hw.sync0 /\ s.val0 = Limit0(hw) /\ s.val1 = Limit1(hw)
    BY <1>3, <1>5, HwType DEF Inv, Configured, DcSetups
  <2>2. Counted(s.wd0, 0) /\ Counted(s.wd1, 1) /\ s.wd0 \in Nat /\ s.wd1 \in Nat
    BY <1>2, <1>3, <1>5 DEF Patient, SyncType
  <2>3. \A p \in Pulses : Period(hw, p) \in Nat /\ dcu.next[p] \in Nat
    BY <2>1, PeriodType DEF Inv, Types
  <2>4. /\ s'.dc /\ s'.wd0 = IF s.wd0 < s.val0 THEN s.wd0 + 1 ELSE s.wd0
        /\ s'.wd1 \in {s.wd1, s.wd1 + 1}
        /\ /\ s.val0 = 0 \/ s'.wd0 < s.val0
           /\ s.val1 = 0 \/ s.wd1 < s.val1
           /\ ErrorLimit = 0
           => s'.seq
    BY <1>1, <1>2, <1>5, TickSound
  <2>5. /\ Fires(hw, 0) => s.wd0 * TickPeriod <= Period(hw, 0)
        /\ Fires(hw, 1) => s.wd1 * TickPeriod <= Period(hw, 1)
    <3>1. \A k \in Nat : k * TickPeriod \in Nat
      BY TickPeriodPositive
    <3> QED
      BY <1>1, <2>2, <2>3, <3>1 DEF Counted, Pulses
  <2>6. hw.c0 # 0 => hw.c0 * Grain >= 15
    BY <2>1 DEF SlowSetups
  <2>7. s.val0 = 0 \/ s'.wd0 < s.val0
    <3>1. CASE hw.c0 = 0
      BY <2>1, <3>1 DEF Limit0
    <3>2. CASE hw.c0 # 0
      <4>1. s.val0 = WatchdogTicks(hw.c0) /\ Fires(hw, 0) /\ Period(hw, 0) = hw.c0
        BY <2>1, <3>2 DEF Limit0, Fires, Period
      <4>2. s.wd0 + 1 < s.val0
        BY <2>1, <2>2, <2>5, <2>6, <3>2, <4>1, LimitIsPatient
      <4> QED
        BY <1>2, <2>2, <2>4, <4>2 DEF SyncType
    <3> QED
      BY <3>1, <3>2
  <2>8. s.val1 = 0 \/ s.wd1 < s.val1
    <3>1. CASE ~(hw.sync1 /\ hw.c0 # 0)
      BY <2>1, <3>1 DEF Limit1
    <3>2. CASE hw.sync1 /\ hw.c0 # 0 /\ hw.c1 < hw.c0
      <4>1. s.val1 = WatchdogTicks(hw.c0) /\ Fires(hw, 1) /\ Period(hw, 1) = hw.c0
        BY <2>1, <3>2 DEF Limit0, Limit1, Fires, Period
      <4>2. s.wd1 + 1 < s.val1
        BY <2>1, <2>2, <2>5, <2>6, <3>2, <4>1, LimitIsPatient
      <4> QED
        BY <1>2, <2>2, <4>2 DEF SyncType
    <3>3. CASE hw.sync1 /\ hw.c0 # 0 /\ ~(hw.c1 < hw.c0)
      <4> DEFINE sum == hw.c0 + hw.c1
      <4>1. /\ s.val1 = WatchdogTicks(sum) + Limit0(hw) \div 2
            /\ Fires(hw, 1) /\ Period(hw, 1) = sum
        BY <2>1, <3>3 DEF Limit1, Fires, Period
      <4>2. sum \in Nat /\ sum * Grain >= 15
        <5>1. Grain \in {1, 2, 5, 10}
          BY SyncAssumption DEF SyncAssumption
        <5> QED
          BY <2>1, <2>6, <3>3, <5>1
      <4> HIDE DEF sum
      <4>3. s.wd1 + 1 < WatchdogTicks(sum)
        BY <2>2, <2>5, <4>1, <4>2, LimitIsPatient
      <4>4. Limit0(hw) \div 2 \in Nat /\ WatchdogTicks(sum) \in Nat
        <5>1. Limit0(hw) \in Nat
          BY <2>1, LimitsType
        <5>2. WatchdogTicks(sum) \in Nat
          BY <4>2, SyncAssumption DEF SyncAssumption, WatchdogTicks
        <5> QED
          BY <5>1, <5>2
      <4> QED
        BY <2>2, <4>1, <4>3, <4>4
    <3> QED
      BY <3>1, <3>2, <3>3
  <2>9. s'.seq
    BY <2>4, <2>7, <2>8 DEF SlowSetups
  <2>10. ASSUME NEW count \in Nat, NEW p \in Pulses, Counted(count, p)
         PROVE  \A new \in {count, count + 1} : Counted(new, p)'
    <3>1. TickPeriod \in {1, 2, 5, 10}
      BY SyncAssumption DEF SyncAssumption, TickPeriod
    <3> QED
      BY <1>1, <2>3, <2>10, <3>1 DEF Counted
  <2>11. Counted(s.wd0, 0)' /\ Counted(s.wd1, 1)'
    <3>1. s'.wd0 \in {s.wd0, s.wd0 + 1}
      BY <2>2, <2>4
    <3> QED
      BY <2>2, <2>4, <2>10, <3>1 DEF Pulses
  <2> QED
    BY <2>9, <2>11
<1> QED
  BY <1>2, <1>4, <1>5 DEF SyncType

\* The first outputs and those that follow do not touch the watchdogs.
LEMMA OutputInv ==
  ASSUME Inv, NEW r \in {s, OutputEvent(s)}, s' = r, Watched,
         state' = "Op", out' \in BOOLEAN, dcu' = dcu, timer' = timer, age' = age
  PROVE  Inv' /\ (Patient => Patient')
<1>1. /\ s' \in SyncType /\ Bounded(s')
      /\ s'.dc = s.dc /\ s'.seq = s.seq /\ s'.wd0 = s.wd0 /\ s'.val0 = s.val0
      /\ s'.wd1 = s.wd1 /\ s'.val1 = s.val1
  BY OutputSound DEF Inv, Types
<1>2. Types' /\ Awake' /\ Configured' /\ Ahead'
  BY <1>1 DEF Inv, Types, Awake, Configured, Ahead, Watched
<1>3. Patient => Patient'
  BY <1>1 DEF Patient, Counted, Watched
<1> QED
  BY <1>1, <1>2, <1>3 DEF Inv

\* A watchdog that has counted nothing is neither late nor early.
LEMMA FreshInv ==
  Types' /\ Ahead' /\ Bounded(s') /\ Configured' /\ s'.seq /\ s'.wd0 = 0 /\ s'.wd1 = 0
  /\ age'.since = 0 => Inv' /\ Patient'
<1> SUFFICES ASSUME Types', Ahead', Bounded(s'), Configured', s'.seq,
                    s'.wd0 = 0, s'.wd1 = 0, age'.since = 0
             PROVE  Inv' /\ Patient'
  OBVIOUS
<1>1. s' \in SyncType /\ timer' \in 0 .. TickPeriod /\ dcu'.hw \in DcSetups
  BY SyncAssumption DEF SyncAssumption, Types
<1>2. Awake'
  <2>1. (s'.wd0 + 1) * TickPeriod = TickPeriod
    BY TickPeriodPositive
  <2>2. age'.since + timer' <= TickPeriod
    <3>1. \A a, b : a = 0 /\ b \in 0 .. TickPeriod => a + b <= TickPeriod
      BY TickPeriodPositive
    <3>2. timer' \in 0 .. TickPeriod
      BY <1>1
    <3>3. age'.since = 0
      OBVIOUS
    <3> QED
      BY <3>1, <3>2, <3>3
  <2> QED
    BY <1>1, <2>1, <2>2 DEF Awake, SyncType
<1>3. ASSUME NEW p \in Pulses PROVE Counted(0, p)'
  <2>1. dcu'.next[p] \in Nat /\ Period(dcu'.hw, p) \in Nat /\ timer' \in Nat
    BY <1>1, PeriodType, TickPeriodPositive DEF Types
  <2>2. Fires(dcu'.hw, p) => dcu'.next[p] <= Period(dcu'.hw, p)
    BY DEF Ahead
  <2> QED
    BY <2>1, <2>2, TickPeriodPositive DEF Counted
<1>4. Patient'
  BY <1>3 DEF Patient, Pulses
<1> QED
  BY <1>2, <1>4 DEF Inv

\* A session that StartSm() began watches the unit as it is set up now, with
\* nothing counted.
LEMMA StartInv ==
  ASSUME Inv, ~RefusesSetup(dcu.hw), s' = StartSm(PrepareSm(s, dcu.hw), dcu.hw),
         state' = "SafeOp", out' = FALSE, dcu' = dcu, timer' = timer, age' = NewSession
  PROVE  Inv' /\ Patient'
<1>1. /\ age' \in [since : 0 .. Horizon, missing : BOOLEAN]
      /\ age'.since = 0 /\ ~age'.missing
  BY SyncAssumption DEF SyncAssumption, NewSession
<1>2. s \in SyncType /\ Bounded(s) /\ dcu.hw \in DcSetups /\ timer \in 0..TickPeriod
  BY HwType DEF Inv, Types
<1>3. /\ s' \in SyncType /\ Bounded(s') /\ s'.seq /\ s'.wd0 = 0 /\ s'.wd1 = 0
      /\ s'.dc = (dcu.hw.unit /\ OutSize)
      /\ s'.dc => s'.val0 = Limit0(dcu.hw) /\ s'.val1 = Limit1(dcu.hw)
  BY <1>2, StartSound
<1>4. Configured'
  BY <1>3 DEF Configured, RefusesSetup
<1> QED
  BY <1>1, <1>2, <1>3, <1>4, FreshInv DEF Inv, Types, Ahead

\* StopSm() in SAFEOP or OP: the limits stay, the counts begin again.
LEMMA StopInv ==
  ASSUME Inv, Watched, s' = StopSm(s), state' = state, out' = FALSE,
         dcu' = dcu, timer' = timer, age' = NewSession
  PROVE  Inv' /\ Patient'
<1>1. /\ age' \in [since : 0 .. Horizon, missing : BOOLEAN]
      /\ age'.since = 0 /\ ~age'.missing
  BY SyncAssumption DEF SyncAssumption, NewSession
<1>2. s \in SyncType /\ Bounded(s)
  BY DEF Inv, Types
<1>3. /\ s' \in SyncType /\ Bounded(s')
      /\ s'.dc = s.dc /\ s'.seq /\ s'.wd0 = 0 /\ s'.wd1 = 0
      /\ s'.val0 = s.val0 /\ s'.val1 = s.val1
  BY <1>2, StopSound
<1>4. Configured'
  BY <1>3 DEF Inv, Configured, Watched
<1> QED
  BY <1>1, <1>3, <1>4, FreshInv DEF Inv, Types, Ahead

\* Outside a session nothing is watched.
LEMMA LeaveInv ==
  ASSUME Inv, s' \in SyncType, Bounded(s'), state' = "PreOp", out' = FALSE, timer' = timer,
         age' = NewSession,
         dcu' = dcu \/ \E hw \in Setups : dcu' = [hw |-> hw, lost |-> {}, next |-> NextPulse(hw)]
  PROVE  Inv' /\ Patient'
<1>2. age' \in [since : 0 .. Horizon, missing : BOOLEAN]
  BY SyncAssumption DEF SyncAssumption, NewSession
<1>3. /\ dcu' \in [hw : Setups, lost : SUBSET Pulses, next : [Pulses -> Nat]]
      /\ Ahead'
  BY SetupSound DEF Inv, Types, Ahead
<1> QED
  BY <1>2, <1>3 DEF Inv, Types, Awake, Configured, Patient, Watched

\* Taking the slave from one state of a session to another leaves the
\* watchdogs alone.
LEMMA StateInv ==
  ASSUME Inv, Watched, s' = s, dcu' = dcu, timer' = timer, age' = age,
         state' \in {"SafeOp", "Op"}, out' = FALSE
  PROVE  Inv' /\ (Patient => Patient')
<1>1. Inv'
  BY DEF Inv, Types, Awake, Configured, Ahead, Watched
<1>2. Patient => Patient'
  BY DEF Patient, Counted, Watched
<1> QED
  BY <1>1, <1>2

\* Every step keeps the invariant and, when SYNC0 is slow enough, the patience.
LEMMA NextInv ==
  ASSUME Inv, [Next]_vars
  PROVE  Inv' /\ (SlowSetups /\ Patient => Patient')
<1>1. CASE Advance
  BY <1>1, AdvanceInv
<1>2. CASE OnSync0
  BY <1>2, PulseInv DEF OnSync0, Pulses
<1>3. CASE OnSync1
  BY <1>3, PulseInv DEF OnSync1, Pulses
<1>4. CASE OnTick1ms
  BY <1>4, TickInv, TickPatient
<1>5. CASE \E p \in Pulses : Lose(p)
  BY <1>5, LoseInv
<1>6. CASE OnProcessOutput
  <2>1. out /\ state = "Op" /\ state' = "Op" /\ out' \in BOOLEAN
    BY <1>6 DEF OnProcessOutput, Inv, Types
  <2> QED
    BY <1>6, <2>1, OutputInv DEF OnProcessOutput, Watched
<1>7. CASE EnterOp
  BY <1>7, OutputInv DEF EnterOp, Watched
<1>8. CASE CheckErrors
  <2>1. Watched
    BY <1>8 DEF CheckErrors, Inv, Types, Watched
  <2> QED
    BY <1>8, <2>1, StateInv DEF CheckErrors
<1>9. CASE FallBack
  <2>1. CASE state = "Op"
    BY <1>9, <2>1, StateInv DEF FallBack
  <2>2. CASE state # "Op"
    BY <1>9, <2>2, LeaveInv DEF FallBack, Inv, Types
  <2> QED
    BY <2>1, <2>2
<1>10. s \in SyncType /\ Bounded(s) /\ dcu.hw \in DcSetups
  BY HwType DEF Inv, Types
<1>11. CASE EnterSafeOp
  <2>1. out' = FALSE /\ dcu' = dcu /\ timer' = timer /\ age' = NewSession
    BY <1>11 DEF EnterSafeOp
  <2>2. CASE /\ ~RefusesSetup(dcu.hw)
             /\ s' = StartSm(PrepareSm(s, dcu.hw), dcu.hw)
             /\ state' = "SafeOp"
    BY <2>1, <2>2, StartInv
  <2>3. CASE /\ s' = StopSm(IF RefusesSetup(dcu.hw) THEN s
                            ELSE StartSm(PrepareSm(s, dcu.hw), dcu.hw))
             /\ state' = "PreOp"
    <3>1. PICK u : u = IF RefusesSetup(dcu.hw) THEN s
                       ELSE StartSm(PrepareSm(s, dcu.hw), dcu.hw)
      OBVIOUS
    <3>2. u \in SyncType /\ Bounded(u)
      BY <1>10, <3>1, StartSound
    <3>3. s' = StopSm(u)
      BY <2>3, <3>1
    <3>4. s' \in SyncType /\ Bounded(s')
      BY <3>2, <3>3, StopSound
    <3> QED
      BY <2>1, <2>3, <3>4, LeaveInv
  <2> QED
    BY <1>11, <2>2, <2>3 DEF EnterSafeOp
<1>12. CASE LeaveSafeOp
  <2>1. s' = StopSm(s) /\ s' \in SyncType /\ Bounded(s') /\ Watched
    BY <1>10, <1>12, StopSound DEF LeaveSafeOp
  <2>2. CASE state' = "PreOp"
    BY <1>12, <2>1, <2>2, LeaveInv DEF LeaveSafeOp
  <2>3. CASE state' = state
    BY <1>12, <2>1, <2>3, StopInv DEF LeaveSafeOp
  <2> QED
    BY <1>12, <2>2, <2>3 DEF LeaveSafeOp
<1>13. CASE BackToInit
  <2>1. s' \in SyncType /\ Bounded(s')
    BY <1>10, <1>13, StopSound DEF BackToInit
  <2> QED
    BY <1>13, <2>1, LeaveInv DEF BackToInit
<1>14. CASE Reconfigure
  <2>1. /\ s' = s /\ state' = state /\ out' = out /\ timer' = timer /\ age' = age
        /\ state = "PreOp"
        /\ \E hw \in Setups : dcu' = [hw |-> hw, lost |-> {}, next |-> NextPulse(hw)]
    BY <1>14 DEF Reconfigure
  <2>2. dcu' \in [hw : Setups, lost : SUBSET Pulses, next : [Pulses -> Nat]] /\ Ahead'
    BY <2>1, SetupSound DEF Ahead
  <2> QED
    BY <2>1, <2>2 DEF Inv, Types, Awake, Configured, Patient, Watched
<1>15. CASE UNCHANGED vars
  BY <1>15 DEF vars, Inv, Types, Awake, Configured, Ahead, Patient, Counted, Watched
<1> QED
  BY <1>1, <1>2, <1>3, <1>4, <1>5, <1>6, <1>7, <1>8, <1>9, <1>11, <1>12, <1>13, <1>14, <1>15
     DEF Next

-------------------------------------------------------------------------------
(* The theorems.                                                           *)

\* Inv is an invariant.
THEOREM SyncInvariance == Spec => []Inv
<1>1. Init => Inv
  BY InitInv
<1>2. Inv /\ [Next]_vars => Inv'
  BY NextInv
<1> QED
  BY <1>1, <1>2, PTL DEF Spec

\* Every member of EcatSync keeps its type and no counter passes its limit,
\* also when StopSm, a refused PrepareSm or a fallback leaves some of them
\* behind from the session before (ecat_sync.cpp).
THEOREM SyncTypes == Spec => []TypeOK
<1>1. Inv => TypeOK
  <2> SUFFICES ASSUME Inv PROVE TypeOK
    OBVIOUS
  <2>1. s \in SyncType /\ Bounded(s)
    BY DEF Inv, Types
  <2>2. {s.dc, s.run, s.seq} \subseteq BOOLEAN
    BY <2>1 DEF SyncType
  <2>3. /\ s.wd0 \in 0 .. s.val0 /\ s.wd1 \in 0 .. s.val1
        /\ s.sm \in 0 .. s.smVal + 1 /\ s.latch \in 0 .. s.latchVal
    BY <2>1 DEF SyncType, Bounded
  <2>4. {s.missOut, s.missIn} \subseteq 0 .. ErrorLimit + 3
    BY <2>1, SyncAssumption DEF SyncAssumption, SyncType, Bounded
  <2> QED
    BY <2>2, <2>3, <2>4 DEF Inv, Types, TypeOK
<1> QED
  BY <1>1, SyncInvariance, PTL

\* When SYNC0 has been missing for as many milliseconds as its watchdog has
\* ticks, the sequence is invalid, whatever SYNC1 and the outputs do, and also
\* when the domain was started again on the way from OP to SAFEOP or stopped on
\* a way to PREOP that failed (Tick, OnSync0, StartSm, StopSm).  The master may
\* set the DC unit up again in PREOP only.
THEOREM MissingSyncIsNoticed == Spec => []WatchdogNotices
<1>1. Inv => WatchdogNotices
  <2> SUFFICES ASSUME Inv, Watched, s.dc, s.val0 > 0, age.since > s.val0 * TickPeriod, s.seq
               PROVE  FALSE
    BY DEF WatchdogNotices, Inv, Types, SyncType
  <2>1. s.wd0 < s.val0 /\ age.since + timer <= (s.wd0 + 1) * TickPeriod
    BY DEF Inv, Awake
  <2>2. TickPeriod \in {1, 2, 5, 10}
    BY SyncAssumption DEF SyncAssumption, TickPeriod
  <2>3. s.wd0 \in Nat /\ s.val0 \in Nat /\ timer \in Nat /\ age.since \in Nat
    BY <2>2 DEF Inv, Types, SyncType
  <2>4. (s.wd0 + 1) * TickPeriod <= s.val0 * TickPeriod
    BY <2>1, <2>2, <2>3
  <2>5. (s.wd0 + 1) * TickPeriod \in Nat /\ s.val0 * TickPeriod \in Nat
    BY <2>2, <2>3
  <2> QED
    BY <2>1, <2>3, <2>4, <2>5
<1> QED
  BY <1>1, SyncInvariance, PTL

\* A watchdog never trips on pulses that come in time, wherever the ticks fall
\* between them, when SYNC0 comes every 1.5 ms or more rarely: two cycles hold
\* one tick more than may be counted in one (StartSm, Tick).  Of faster ones the
\* run MCSync_ShortCycle shows that it may.
THEOREM PulsesInTimeSuffice ==
  ASSUME SlowSetups
  PROVE  Spec => []WatchdogIsPatient
<1>1. Init => Patient
  BY DEF Init, Patient, Watched
<1>2. Inv /\ Patient /\ [Next]_vars => Patient'
  BY NextInv
<1>3. Patient => WatchdogIsPatient
  BY DEF Patient, WatchdogIsPatient
<1> QED
  BY <1>1, <1>2, <1>3, SyncInvariance, PTL DEF Spec
===============================================================================

------------------------------ MODULE MCEcatSdo ------------------------------
(***************************************************************************)
(* Model checking instance of EcatSdo.  Mailboxes of 23 bytes hold 7 bytes *)
(* of data in an initiate frame and 14 in a segment, so that the short     *)
(* objects below meet every limit of the long ones of the dictionary.      *)
(***************************************************************************)
EXTENDS EcatSdo

Always == {"PreOp", "SafeOp", "Op"}
Entry(bits, read, write) == [bits |-> bits, read |-> read, write |-> write]
Variable(e) == [variable |-> TRUE, entries |-> <<e>>]
Compound(es) == [variable |-> FALSE, entries |-> es]

\* 0x2000, 0x7010 with 3 words (14 bytes, a full segment), 0x6000 with 6 words
\* (26 bytes), 0x10F1 (8 bytes, one more than fits an initiate frame), and of
\* 0x1C32 the entries 1, 14, which nobody may access, and 32, which is a bit.
SmallDictionary ==
  [number   |-> Variable(Entry(32, Always, Always)),
   outputs  |-> Compound([i \in 1..3 |-> Entry(32, Always, Always)]),
   inputs   |-> Compound([i \in 1..6 |-> Entry(32, Always, {})]),
   settings |-> Compound(<<Entry(32, Always, {}), Entry(16, Always, Always)>>),
   sync     |-> Compound(<<Entry(16, Always, {"PreOp"}), Entry(16, {}, {}),
                           Entry(1, Always, {})>>)]

Target(o, s, ca) == [obj |-> o, sub |-> s, ca |-> ca]

CommonTargets ==
  {Target("number", 0, FALSE), Target("number", 0, TRUE),
   Target("outputs", 0, TRUE), Target("outputs", 1, TRUE), Target("outputs", 4, FALSE),
   Target("inputs", 0, TRUE), Target("inputs", 0, FALSE),
   Target("settings", 0, TRUE), Target("settings", 2, FALSE),
   Target("sync", 0, TRUE), Target("sync", 1, FALSE), Target("sync", 2, FALSE)}

PlainTargets == {Target("number", 0, FALSE), Target("outputs", 0, TRUE)}

SyncTargets == {Target("sync", 0, TRUE)}

Errors == {-1, 0, 4}
===============================================================================

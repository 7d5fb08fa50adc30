------------------------------ MODULE MCEcatSync ------------------------------
(***************************************************************************)
(* Model checking instance of EcatSync, in steps of 500 us.               *)
(***************************************************************************)
EXTENDS EcatSync

Setup(sync0, sync1, c0, c1) ==
  [unit |-> TRUE, sync0 |-> sync0, sync1 |-> sync1, c0 |-> c0, c1 |-> c1]

\* No DC; SYNC0 every 1.5 ms; the same with a SYNC1 in between; two SYNC0 in
\* an SM cycle; and a unit that fires SYNC1 only, which PrepareSm refuses.
LongCycles ==
  {[Setup(FALSE, FALSE, 4, 0) EXCEPT !.unit = FALSE],
   Setup(TRUE, FALSE, 3, 0), Setup(TRUE, TRUE, 3, 1), Setup(TRUE, TRUE, 3, 3),
   Setup(FALSE, TRUE, 4, 4)}

\* SYNC0 every 500 us, a cycle time that PrepareSm accepts.
ShortCycles == {Setup(TRUE, FALSE, 1, 0)}
===============================================================================

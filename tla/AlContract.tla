------------------------------ MODULE AlContract ------------------------------
(***************************************************************************)
(* What the AL layer promises a master that watches the slave: the state   *)
(* rises one level at a time and never with an error latched, it may fall  *)
(* at any time, and the outputs run only in OP and only once the process   *)
(* data of the master has arrived.                                         *)
(***************************************************************************)
EXTENDS Naturals

VARIABLES
  state,    \* the AL state
  error,    \* an error the master has not acknowledged
  outputs,  \* outputs are handed to the application
  fed       \* the outputs are valid (or there are none)

avars == <<state, error, outputs, fed>>

Rank(s) ==
  CASE s = "Init" -> 0 [] s = "PreOp" -> 1 [] s = "SafeOp" -> 2 [] s = "Op" -> 3

AlStates == {"Init", "PreOp", "SafeOp", "Op"}

Init == state = "Init" /\ ~error /\ ~outputs /\ fed \in BOOLEAN

\* One level up, without an error; OP needs valid outputs.
Rise ==
  /\ state' \in AlStates
  /\ Rank(state') = Rank(state) + 1
  /\ ~error'
  /\ fed' \in BOOLEAN
  /\ outputs' = (state' = "Op")
  /\ outputs' => fed'

\* Stay or fall; outputs may stop, they never start, and valid they remain.
StayOrFall ==
  /\ state' \in AlStates
  /\ Rank(state') <= Rank(state)
  /\ error' \in BOOLEAN
  /\ fed' \in BOOLEAN
  /\ outputs' \in BOOLEAN
  /\ outputs' => outputs /\ fed' /\ state' = "Op"

Next == Rise \/ StayOrFall

Spec == Init /\ [][Next]_avars
===============================================================================

---------------------------- MODULE MCEcatMailbox ----------------------------
(***************************************************************************)
(* Model checking instance of EcatMailbox.  Each cfg picks the bounds and  *)
(* who acts between two calls of Poll; with a queue of one frame and a     *)
(* window of three requests both queues fill up, and with counters from 1  *)
(* to 2 the counter of a third request is that of the first.               *)
(***************************************************************************)
EXTENDS EcatMailbox
===============================================================================

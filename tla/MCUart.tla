-------------------------------- MODULE MCUart --------------------------------
(* Model checking of Uart: one sender, the owner and the interrupts. *)
EXTENDS Uart
===============================================================================

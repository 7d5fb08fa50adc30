--------------------------------- MODULE MCUsb ---------------------------------
(* Model checking of Usb: frames that end on a packet boundary at full speed, and *)
(* frames that do not.  No frame is as long as a packet of high speed.            *)
EXTENDS Usb
===============================================================================

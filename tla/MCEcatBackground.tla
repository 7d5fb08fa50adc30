--------------------------- MODULE MCEcatBackground ---------------------------
(* Model checking of EcatBackground. *)
EXTENDS EcatBackground
===============================================================================

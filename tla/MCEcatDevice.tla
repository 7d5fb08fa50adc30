----------------------------- MODULE MCEcatDevice -----------------------------
(***************************************************************************)
(* Model checking instance of EcatDevice.  Two legal SM2/SM3 areas, so     *)
(* that the master can move the area while the slave is in SAFEOP or OP,   *)
(* and a timeout of two ticks, so that it can run out or be met.           *)
(***************************************************************************)
EXTENDS EcatDevice

\* The master's configuration has at most one fault at a time.
SingleFault == {c \in SmConfigs : c.mbx = "ok" \/ c.pd = CHOOSE a \in Areas : TRUE}

\* For the liveness run: a legal configuration and one SAFEOP refuses.
LegalOrRefused == {c \in SmConfigs : c.mbx = "ok" /\ c.pd # "bad"}
===============================================================================

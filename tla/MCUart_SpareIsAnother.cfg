CONSTANTS
  Senders = {t1}
  Ops = {"reconfigure", "stop", "start", "line"}
  RxCallback = FALSE
  Capacity = 2
  Drivers = {TRUE, FALSE}
  MaxFaults = 1
  MaxPending = 1
SPECIFICATION Spec
INVARIANT SpareIsAnother

CONSTANTS
  Setups <- ShortCycles
  OutSize = TRUE
  InSize = TRUE
  ErrorLimit = 0
  Grain = 5
  Horizon = 11
SPECIFICATION Spec
INVARIANT WatchdogIsPatient

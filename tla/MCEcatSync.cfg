CONSTANTS
  Setups <- LongCycles
  OutSize = TRUE
  InSize = TRUE
  ErrorLimit = 0
  Grain = 5
  Horizon = 11
SPECIFICATION Spec
INVARIANTS TypeOK WatchdogIsPatient WatchdogNotices
PROPERTY OutputsStopWithoutSync

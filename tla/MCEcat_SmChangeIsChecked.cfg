CONSTANTS
  Areas = {"A"}
  HasRx = TRUE
  HasTx = TRUE
  Configs <- SingleFault
  Syncs = {"dc", "invalid"}
  Watchdogs = {TRUE}
  PreOpTimeout = 1
  DefaultTimeout = 1
  OpTimeout = 2
SPECIFICATION Spec
INVARIANT SmChangeIsChecked

CONSTANTS
  Lengths = {1, 64}
  RequireDtr = TRUE
  Capacity = 2
  MaxFaults = 2
SPECIFICATION Spec
INVARIANTS
  TypeOK
  ConfiguredIsUsable
  BusyMeansInFlight
  SessionsDoNotMix
  FramesDoNotMerge
  HostIsAnswered

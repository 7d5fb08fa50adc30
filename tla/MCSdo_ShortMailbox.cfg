CONSTANTS
  Dictionary <- SmallDictionary
  MaxMailbox = 23
  SegmentCapacity = 26
  Values = {a, b}
  RecvMailbox = 20
  Projected = {"sync"}
  Targets <- CommonTargets
  SizeErrors <- Errors
  Waits = TRUE
  MaxTransfers = 2
  MaxLost = 1
SPECIFICATION Spec
INVARIANT CorrectTransfersSucceed

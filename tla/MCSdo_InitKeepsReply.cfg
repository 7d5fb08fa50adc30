CONSTANTS
  Dictionary <- SmallDictionary
  MaxMailbox = 23
  SegmentCapacity = 26
  Values = {a, b}
  RecvMailbox = 23
  Projected = {"sync"}
  Targets <- PlainTargets
  SizeErrors <- Errors
  Waits = FALSE
  MaxTransfers = 2
  MaxLost = 1
SPECIFICATION Spec
INVARIANT DownloadIsStored

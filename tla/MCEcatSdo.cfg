CONSTANTS
  Dictionary <- SmallDictionary
  MaxMailbox = 23
  SegmentCapacity = 26
  Values = {a, b}
  RecvMailbox = 23
  Projected = {"sync"}
  Targets <- CommonTargets
  SizeErrors <- Errors
  Waits = TRUE
  MaxTransfers = 2
  MaxLost = 1
SPECIFICATION FairSpec
INVARIANTS TypeOK UploadIsSnapshot DownloadIsStored RefusalsAreExplained
PROPERTIES OnlyDownloadsWrite EveryTransferEnds

CONSTANTS
  Tag = {a, b}
  MaxHeight = 3
  NoBlock = NoBlock
  StartHeight = 2
  RescanLastBlockCount = 1
  RescanWhileRunning = FALSE
  MinRescanHeight = 2
  MaxForks = 1
  MaxRpcFailures = 2
  MaxCrashes = 1
  MaxExtractFailures = 1
  MaxNotifyFailures = 1
  MaxCalls = 0
  MaxPauses = 0
SPECIFICATION FairSpec
PROPERTIES
  FollowsWhileReliable
  CatchesUp
  FailedBlocksAreRescanned
  RecordsDropWhenDelivered

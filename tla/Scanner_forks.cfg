CONSTANTS
  Tag = {a, b}
  MaxHeight = 4
  NoBlock = NoBlock
  StartHeight = 2
  RescanLastBlockCount = 1
  RescanWhileRunning = FALSE
  MinRescanHeight = 2
  MaxForks = 2
  MaxRpcFailures = 0
  MaxCrashes = 0
  MaxExtractFailures = 0
  MaxNotifyFailures = 0
  MaxCalls = 1
  MaxPauses = 1
SPECIFICATION Spec
SYMMETRY TagSymmetry
INVARIANTS
  TypeOK
  FollowedBlocksCovered
  ObserversFollowHead
PROPERTY RescanStartsWhereAsked

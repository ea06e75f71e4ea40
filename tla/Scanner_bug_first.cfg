CONSTANTS
  Tag = {a}
  MaxHeight = 3
  NoBlock = NoBlock
  StartHeight = 2
  RescanLastBlockCount = 0
  RescanWhileRunning = FALSE
  MinRescanHeight = 1
  MaxForks = 0
  MaxRpcFailures = 0
  MaxCrashes = 0
  MaxExtractFailures = 0
  MaxNotifyFailures = 0
  MaxCalls = 1
  MaxPauses = 0
SPECIFICATION Spec
PROPERTY RescanStartsWhereAsked

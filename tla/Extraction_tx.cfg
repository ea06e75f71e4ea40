SPECIFICATION Spec
SYMMETRY MCSymmetry
CONSTANTS
  Address = {a, b}
  Module = {m, n}
  Name = {c, e}
  Key = {k, l}
  Observer = {o, p}
  Tx <- MCTx
  Wallet <- MCWallet
  NotWatched = NotWatched
  NoReceipt = NoReceipt
  MaxWatches = 1
  MaxRefusals = 1
  MaxSaveFailures = 1
CHECK_DEADLOCK FALSE
INVARIANTS
  TypeOK
  WatchedIsExtracted
  ReceiptsComplete
  ReceiptsHaveOwnEvents
  FailuresHaveACause

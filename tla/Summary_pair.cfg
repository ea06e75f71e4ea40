\* Two summaries of one account, with a lock that expires between two RPCs.
SPECIFICATION Spec
CONSTANTS
  Addresses <- MCAddresses
  Utxo = {u1, u2, u3, u4, u5}
  MaxAmount = 2
  MaxRpcFailures = 1
  MaxExpiries = 1
  Call = {c1, c2}
  MaxTxInputs = 2
  MinTransfer = 2
CHECK_DEADLOCK FALSE
SYMMETRY Symmetric
INVARIANTS
  TypeOK
  GatheredOnce
  BatchesAreSound
  LastAddressBuilds

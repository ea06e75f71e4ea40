SPECIFICATION Spec
CONSTANTS
  Addresses <- MCAddresses
  Utxo = {u1, u2}
  MaxAmount = 2
  MaxRpcFailures = 1
  MaxExpiries = 0
  Call = {c1}
  MaxTxInputs = 2
  MinTransfer = 2
CHECK_DEADLOCK FALSE
SYMMETRY Symmetric
INVARIANTS
  NothingStranded

\* One transfer, nothing fails: two addresses are enough.
SPECIFICATION Spec
CONSTANTS
  Addresses <- TwoAddresses
  Utxo = {u1, u2}
  MaxAmount = 2
  MaxRpcFailures = 0
  MaxExpiries = 0
  Request = {r1}
  Orders <- MCOrders
  NoTx = NoTx
  MaxCreates = 1
  MaxVerifies = 1
CHECK_DEADLOCK FALSE
SYMMETRY Symmetric
INVARIANT InputsAuthorised

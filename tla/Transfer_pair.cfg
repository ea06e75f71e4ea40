\* Two transfers of one account, with every disturbance the model has.
SPECIFICATION Spec
CONSTANTS
  Addresses <- TwoAddresses
  Utxo = {u1, u2, u3}
  MaxAmount = 2
  MaxRpcFailures = 1
  MaxExpiries = 1
  Request = {r1, r2}
  Orders <- MCOrders
  NoTx = NoTx
  MaxCreates = 2
  MaxVerifies = 1
CHECK_DEADLOCK FALSE
SYMMETRY Symmetric
INVARIANTS
  TypeOK
  ValueConserved
  InputsExclusive
  OwnersAreAsked
  PostedIsSigned

\* A deployment under an ACL of two keys and a call of a user contract, in a
\* wallet of two accounts, each created and submitted twice.
SPECIFICATION FairSpec
CONSTANTS
  deploy = deploy
  invoke = invoke
  Raw = {deploy, invoke}
  ContractAddress <- MCContractAddress
  Deploys = {deploy}
  Addr = {d, k, m}
  Account = {a1, a2}
  NoAccount = NoAccount
  Caller = a1
  DefAddress = d
  AclKeys = {k, m}
  AwaitTimeout = 0
  DefaultTimeout = 2
  SleepSecond = 1
  NoTx = NoTx
  MaxCreates = 2
  MaxSubmits = 2
  MaxRpcFailures = 1
  MaxLostAnswers = 1
CHECK_DEADLOCK FALSE
INVARIANTS
  TypeOK
  SentIsSigned
  ExecutedOnce
  AcceptedIsReported
  ReceiptIsOwn
  PanicsOnReuseOnly
PROPERTY SubmitReturns

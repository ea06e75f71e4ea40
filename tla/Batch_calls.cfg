\* Two calls with up to two transactions each, a pool of two goroutines.
SPECIFICATION FairSpec
CONSTANTS
  Caller = {c1, c2}
  Tx = {t1, t2}
  maxExtractingSize = 2
INVARIANTS
  TypeOK
  TokensConserved
  NothingLeftBehind
  LostMeansRecorded
PROPERTIES
  KeepsContract
  EveryCallReturns

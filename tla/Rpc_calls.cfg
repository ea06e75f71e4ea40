\* Two threads, and a configuration loaded twice.
SPECIFICATION FairSpec
CONSTANTS
  Thread = {t1, t2}
  Timeout = 2
  MaxLoads = 2
CHECK_DEADLOCK FALSE
INVARIANTS
  TypeOK
  PanicsAreExplained
  SettledIsSafe
  FewConnections
PROPERTY CallsReturn

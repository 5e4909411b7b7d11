SPECIFICATION FairSpec
CONSTANTS
  Callers = {g1, g2, g3, g4}
  Cap = 2
INVARIANTS TypeOK NoLostWakeup GrantsBounded BurstBounded
PROPERTY ReceiversServed

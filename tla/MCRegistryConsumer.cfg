SPECIFICATION Spec
CONSTANTS
  Names = {k1, k2}
  GrpcNames = {k2}
  Ips = {i1}
  MaxLog = 3
  MaxCrashes = 2
INVARIANTS TypeOK ReplayConverges NothingSkipped
PROPERTIES CommitsAdvance EveryMessageHandled
CHECK_DEADLOCK FALSE

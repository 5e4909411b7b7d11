SPECIFICATION BreakerSpec
CONSTANTS
  Goroutines = {c1, c2}
  Resources = {orders}
  Breakers = {b1, b2}
  NoBreaker = NoBreaker
  LimitErrors = 1
  LimitCalls = 2
  MaxCalls = 3
SYMMETRY Interchangeable
INVARIANTS BreakerTypeOK
PROPERTIES TripsJustified
CHECK_DEADLOCK FALSE

SPECIFICATION RedisSpec
CONSTANTS
  Clients = {c1, c2}
  Window = 3
  Grace = 2
  Volume = 2
  MaxTime = 12
SYMMETRY Interchangeable
INVARIANTS RedisTypeOK WindowBounded
PROPERTIES RefusalsExplained
CHECK_DEADLOCK FALSE

SPECIFICATION FairSpec
CONSTANTS
  MaxRetries = 3
  Delays = {1, 4}
  Cap = 3
  Width = 5
INVARIANTS TypeOK BodiesSettled EndStops Exponential
PROPERTY CallsReturn
CHECK_DEADLOCK FALSE

SPECIFICATION RoundSpec
CONSTANTS
  Apps = {a1, a2}
  Ips = {i1}
  NoIp = NoIp
  Attempts = 2
  Messages <- MCMessages
  MaxOrphans = 1
INVARIANTS TypeOK
PROPERTIES RemovedForCause ListedAreChecked
CHECK_DEADLOCK FALSE

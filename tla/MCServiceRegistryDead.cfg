SPECIFICATION FairSpec
CONSTANTS
  Apps = {a1}
  Ips = {i1}
  NoIp = NoIp
  Attempts = 3
  Messages <- NoMessages
  MaxOrphans = 1
PROPERTIES DeadAreRemoved
CHECK_DEADLOCK FALSE

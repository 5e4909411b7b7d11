SPECIFICATION Spec
CONSTANTS
  Versions = {v1, v2}
  Envs = {base, dev}
  Base = base
  Puts = {p1, p2}
  Gets = {g1}
  None = None
  Default = Default
  MaxLate = 1
PROPERTIES VersionIsFixed
CHECK_DEADLOCK FALSE

SPECIFICATION Spec
CONSTANTS
  Services = {s1, s2}
  Versions = {v1, v2}
  DefaultVersion = v1
  Envs = {base, dev}
  Base = base
  None = None
  Blank = Blank
  Slots = {r1, r2}
  MaxEvents = 4
SYMMETRY Symmetry
INVARIANTS TypeOK StoredUnderOwnName EnvTextsKept SavedIsStored
CHECK_DEADLOCK FALSE

SPECIFICATION Spec
CONSTANTS
  Versions = {v1, v2}
  Envs = {base, dev}
  Base = base
  Puts = {p1, p2}
  Gets = {g1}
  None = None
  Default = Default
  MaxLate = 1
SYMMETRY Symmetry
INVARIANTS TypeOK AckedIsWhole TemplateBeforeValues AnswerIsCurrent
CHECK_DEADLOCK FALSE

SPECIFICATION Spec
CONSTANTS
  Reqs = {r1, r2}
  Earlier = Earlier
  Skus = {s1}
  Texts = {name}
  Lists = {features}
  Empty = Empty
  Absent = Absent
  NoItem = NoItem
  MaxAttempts = 2
SYMMETRY Interchangeable
INVARIANTS TypeOK WholeProducts AnswersTrue
PROPERTIES OnlyNamedFieldsChange ImplementsCatalog
CHECK_DEADLOCK FALSE

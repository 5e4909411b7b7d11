SPECIFICATION Spec
CONSTANTS
  Keys = {k1, k2, k3}
  Values = {v1, v2}
  None = None
INVARIANTS TypeOK ChannelSafe AnswerWhole
PROPERTIES ImplementsScan
CHECK_DEADLOCK FALSE

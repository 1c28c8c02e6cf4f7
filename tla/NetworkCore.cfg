CONSTANTS
  None = None
  Desc = {d1,d2}
  Timer = {t1,t2}
  Port = {p1,p2}
  MaxByte = 2
  Disciplined = TRUE
SPECIFICATION Spec
CHECK_DEADLOCK FALSE
SYMMETRY Symmetry
INVARIANTS
  RunsAtMostOnce
  NoLostWakeup
PROPERTIES
  HandlerHasWork
  ImplementsStream

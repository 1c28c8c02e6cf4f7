CONSTANTS
  None = None
  SubSystem = {hello}
  Peer = {a,b}
  Key = {k}
  Value = {v}
  Time = {1,2}
  MaxId = 4
  Op = {o1,o2}
  MaxFailure = 0
  MaxFull = 0
  MaxCrash = 0
  Pointer = 99
  Call <- BySubSystemCalls
  Stored <- Stores
SPECIFICATION Spec
CHECK_DEADLOCK FALSE
SYMMETRY Symmetry
INVARIANTS
  IterateComplete

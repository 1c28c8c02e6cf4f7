CONSTANTS
  None = None
  SubSystem = {hello}
  Peer = {a,b}
  Key = {k}
  Value = {v}
  Time = {1,2}
  MaxId = 4
  Op = {o1,o2}
  MaxFailure = 1
  MaxFull = 1
  MaxCrash = 1
  Pointer = 99
  Call <- Calls
  Stored <- Stores
SPECIFICATION FairSpec
CHECK_DEADLOCK FALSE
INVARIANTS
  AnsweredOnce
  IterateComplete
PROPERTIES
  CountIsTrue
  ImplementsRecords
  CallsEnd

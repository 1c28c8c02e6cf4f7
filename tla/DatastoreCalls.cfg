CONSTANTS
  None = None
  Key = {k1}
  Data = {d1,d2}
  Type = {0,1}
  Amount = {0,1}
  Time = {1,2}
  MaxUid = 4
  Op = {o1,o2}
  MaxFailure = 1
  MaxFull = 1
  MaxCrash = 1
  Careful = TRUE
  Call <- Calls
  Stored <- Stores
SPECIFICATION FairSpec
CHECK_DEADLOCK FALSE
INVARIANTS
  NoDuplicates
  AnsweredOnce
  StatusIsTrue
PROPERTIES
  ImplementsStore
  NothingMissed
  Answered

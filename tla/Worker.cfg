CONSTANTS
  Tab = {w1,w2}
  Dependency = {syncfs}
  Desc = {1,2,3}
  Timer = {1,2,3,4,5,6}
  Port = {p1,p2}
  MaxByte = 1
  Disciplined = TRUE
  Talker = {p1}
  Srv = srv
  None = None
SPECIFICATION WorkerFairSpec
CHECK_DEADLOCK FALSE
INVARIANTS
  AcceptsInOrder
PROPERTIES
  RequestServed

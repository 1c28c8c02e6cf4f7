CONSTANTS
  None = None
  Address = {a,b,c}
  Session = {s1,s2,s3}
  Message = {m}
  MaxConnections = 2
  Timeout = 2
  MaxDelay = 1
  a = a
  b = b
  c = c
  Peer <- Peers
SPECIFICATION FairSpec
CHECK_DEADLOCK FALSE
INVARIANTS
  SessionsCounted
  OpenAlive
  MonitorAgrees
PROPERTIES
  EndsOnlyIdle
  IdleEnds

CONSTANTS
  None = None
  Address = {a,b,c}
  Session = {s1,s2,s3}
  Message = {m}
  MaxConnections = 2
  Timeout = 2
  MaxDelay = 1
  a = a
  b = b
  c = c
  Peer <- Peers
SPECIFICATION Spec
CHECK_DEADLOCK FALSE
INVARIANTS
  ContinuedBeforeEnd

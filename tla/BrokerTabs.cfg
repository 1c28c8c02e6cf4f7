CONSTANTS
  None = None
  Tab = {t1,t2}
  Service = {topology,peerinfo}
  Daemon = {topology}
  Conn = {c1,c2}
  Dependency = {syncfs}
  PoolSize = 1
  Reader = {peerinfo}
SPECIFICATION FairSpec
CHECK_DEADLOCK FALSE
INVARIANTS
  ConnectionOnce
  KeyBeforeUse
  OneIdentity
  RandomBytesOnce
PROPERTIES
  Connected

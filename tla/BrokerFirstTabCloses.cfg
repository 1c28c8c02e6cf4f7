CONSTANTS
  None = None
  Tab = {t1,t2}
  Service = {topology,peerinfo}
  Daemon = {topology}
  Conn = {c1,c2}
  Dependency = {syncfs}
  PoolSize = 1
  Reader = {peerinfo}
SPECIFICATION Spec
CHECK_DEADLOCK FALSE
PROPERTIES
  DoToAnyWindow

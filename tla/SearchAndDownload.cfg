CONSTANTS
  None = None
  Publish = {u1, u2}
  File = {f1, f2}
  Download = {d1}
  MaxSearches = 2
  Blocks = 2
  Peer = {a}
  MaxChange = 6
  MaxInFlight = 4
SPECIFICATION PageSpec
CHECK_DEADLOCK FALSE
INVARIANTS
  ActiveResultsKept
  OldResultsStranded
  ObjectWhole
  EncodesInOrder
  WaitsForReadOnly
  TableFollowsTransport
  CountedIsConnected
  UncountedWasOvertaken
PROPERTIES
  DownloadEnds
  RekeyRepairs

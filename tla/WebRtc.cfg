CONSTANTS
  Peer = {a,b}
  None = None
  MaxLoss = 1
SPECIFICATION FairSpec
CHECK_DEADLOCK FALSE
INVARIANTS
  AnswerMatchesOffer
  AnswersAwaited
PROPERTIES
  HandshakeEnds

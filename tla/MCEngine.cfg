SPECIFICATION FairSpec
CONSTANTS
  Cap = 1
  MaxRetries = 1
  MaxFrames = 3
INVARIANTS TypeOK
PROPERTIES NegotiationEnds CloseStopsAll WindsDown

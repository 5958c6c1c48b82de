SPECIFICATION Spec
CONSTANTS
  Packets <- MCPackets
  MaxFrames = 3
  MaxFaults = 0
  Garbage <- MCGarbage
  Pieces = {1, 5, 40}
  BufSize = 30
  OwnFlags = FALSE
INVARIANT AllDelivered

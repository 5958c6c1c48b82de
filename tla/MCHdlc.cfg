SPECIFICATION Spec
CONSTANTS
  Packets <- MCPackets
  MaxFrames = 3
  MaxFaults = 1
  Garbage <- MCGarbage
  Pieces = {1, 5, 40}
  BufSize = 30
  OwnFlags = TRUE
INVARIANTS TypeOK AllDelivered Genuine Resynchronises NeverFull Detected

SPECIFICATION FairSpec
CONSTANTS
  Cap = 1
  Burst = 2
  FromGateway = 2
  FromPppd = 2
  MaxPackets <- MCMax
  Acks = {1, 2}
INVARIANTS TypeOK EventKept
PROPERTIES DownIsPipe UpIsPipe Stops Delivered WindsDown


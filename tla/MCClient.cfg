SPECIFICATION FairSpec
CONSTANTS
  Number <- MCNumber
  Digests <- MCDigests
  Certs <- MCCerts
  Replies <- MCReplies
  Inputs <- MCInputs
  Proxied = {TRUE}
  MaxAttempts = 2
  Pids = {1, 2}
  None = None
  Empty = Empty
  MaxStuck = 1
  MaxMishaps = 1
  MaxRuns = 2
  MaxCrashes = 1
INVARIANTS
  TypeOK
  EffectiveSettings
  Guarded
  NoOverlap
  OnlyOurs
PROPERTIES
  SignalEnds
CHECK_DEADLOCK FALSE

SPECIFICATION FairSpec
CONSTANTS
  MaxAttempts = 1
  ip1 = ip1
  s1 = s1
  n1 = n1
  n2 = n2
  None = None
  MaxFaults = 2
  Uplinks = {lan, wifi}
  HostDefaults = {{}, {lan, wifi}}
  SplitNets = {n1}
  IPs = {ip1}
  Servers = {s1}
  Configs <- OneShot
  Replies <- MCReplies
  Resolvs = {TRUE, FALSE}
INVARIANTS GatewayPinned NetworkRestored
PROPERTIES SignalEndsProcess SetupCompletes

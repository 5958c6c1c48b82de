SPECIFICATION Spec
CONSTANTS
  MaxAttempts = 2
  ip1 = ip1
  s1 = s1
  n1 = n1
  n2 = n2
  None = None
  MaxFaults = 1
  Uplinks = {lan, wifi}
  HostDefaults = {{lan}, {wifi}}
  SplitNets = {n1}
  IPs = {ip1}
  Servers = {s1}
  Configs <- MCConfigs
  Replies <- MCReplies
  Resolvs = {TRUE}
SYMMETRY UplinkSymmetry
INVARIANTS
  TypeOK MonitorJoined OneSetup GatewayPinned SavesOnlyOriginals NetworkRestored

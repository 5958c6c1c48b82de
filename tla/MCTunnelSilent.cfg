SPECIFICATION SilentSpec
CONSTANTS
  MaxAttempts = 1
  ip1 = ip1
  s1 = s1
  n1 = n1
  n2 = n2
  None = None
  MaxFaults = 0
  Uplinks = {lan}
  HostDefaults = {{lan}}
  SplitNets = {n1}
  IPs = {ip1}
  Servers = {s1}
  Configs <- OneShot
  Replies <- FullReplies
  Resolvs = {TRUE}
PROPERTY SignalEndsProcess

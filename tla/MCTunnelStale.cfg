SPECIFICATION Spec
CONSTANTS
  MaxAttempts = 2
  ip1 = ip1
  s1 = s1
  n1 = n1
  n2 = n2
  None = None
  MaxFaults = 0
  Uplinks = {lan}
  HostDefaults = {{lan}}
  SplitNets = {n1, n2}
  IPs = {ip1}
  Servers = {s1}
  Configs <- Forever
  Replies <- SplitReplies
  Resolvs = {TRUE}
INVARIANT ConfigOfThisAttempt

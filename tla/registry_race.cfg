SPECIFICATION Spec
CONSTANTS
  r1 = r1  r2 = r2  tun0 = tun0  tun1 = tun1  absent = absent  ipv6 = ipv6
  Space = 16
  Sizes <- PowersOfTwo
  Unmappable <- ipv6
  Absent <- absent
  Ifaces <- BothIfaces
  Settings <- OnePool
  ClientForms <- ViaPosts
  ClientPatches <- NoPatches
  TunnelForms <- OneTunnel
  TunnelPatches <- SwitchOff
  Imports <- NoExports
  Requests <- TwoRequests
  MaxRequests = 3
  MaxFaults = 0
INVARIANTS ReferencesHold
CHECK_DEADLOCK FALSE

SPECIFICATION Spec
CONSTANTS
  r1 = r1  r2 = r2  tun0 = tun0  tun1 = tun1  absent = absent  ipv6 = ipv6
  Space = 16
  Sizes <- PowersOfTwo
  Unmappable <- ipv6
  Absent <- absent
  Ifaces <- BothIfaces
  Settings <- BothPools
  ClientForms <- Posts
  ClientPatches <- Patches
  TunnelForms <- NewTunnels
  TunnelPatches <- TunnelChanges
  Imports <- Exports
  Requests <- TwoRequests
  MaxRequests = 3
  MaxFaults = 1
INVARIANTS TypeOK ApplyFollows ReferencesKept
PROPERTIES AllocationSound KeepsPromise
SYMMETRY Interchangeable
CHECK_DEADLOCK FALSE

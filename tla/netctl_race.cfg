SPECIFICATION Spec
CONSTANTS
  Clients <- Ids
  Tunnels <- Ids
  Ifaces <- TwoIfaces
  Ext = "eth0"
  BadExt = "overlong-iface-name"
  Addrs <- Two32
  NotV4 = "fd00::2/128"
  Builtin <- KernelRules
  MaxCopies = 2
  Torn = Torn
  SilentDatabases <- NoDatabases
  Jobs = {"boot", "req"}
  Boot = "boot"
  Databases <- RaceDbs
  InitialDatabases <- OnlyDirect
  Faults = {}
  MaxEvents = 2
INVARIANTS QuietMeansInstalled

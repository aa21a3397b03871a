SPECIFICATION FairSpec
CONSTANTS
  Clients <- Ids
  Tunnels <- Ids
  Ifaces <- TwoIfaces
  Ext = "eth0"
  BadExt = "overlong-iface-name"
  Addrs <- Two32
  NotV4 = "fd00::2/128"
  Builtin <- KernelRules
  MaxCopies = 2
  Torn = Torn
  SilentDatabases <- NoDatabases
  Jobs = {"boot"}
  Boot = "boot"
  Databases <- NoDatabases
  InitialDatabases <- OnlyFirst1
  Faults = {"reboot"}
  MaxEvents = 1
PROPERTIES RetryHeals

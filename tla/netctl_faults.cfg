SPECIFICATION Spec
CONSTANTS
  Clients <- AgedIds
  Tunnels <- Ids
  Ifaces <- TwoIfaces
  Ext = "eth0"
  BadExt = "overlong-iface-name"
  Addrs <- Two32
  NotV4 = "fd00::2/128"
  Builtin <- KernelRules
  MaxCopies = 2
  Torn = Torn
  SilentDatabases <- NoDatabases
  Jobs = {"boot"}
  Boot = "boot"
  Databases <- FaultDbs
  InitialDatabases <- FaultInit
  Faults = {"reboot", "kill", "cancel", "refuse", "disk"}
  MaxEvents = 4
INVARIANTS QuietMeansInstalled SuccessIsRecorded BlockPolicyHeld BuiltinStays
CHECK_DEADLOCK FALSE

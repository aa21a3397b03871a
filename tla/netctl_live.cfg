SPECIFICATION FairSpec
CONSTANTS
  Clients <- Ids
  Tunnels <- Ids
  Ifaces <- TwoIfaces
  Ext = "eth0"
  BadExt = "overlong-iface-name"
  Addrs <- Two32
  NotV4 = "fd00::2/128"
  Builtin <- KernelRules
  MaxCopies = 2
  Torn = Torn
  SilentDatabases <- ImportDbs
  Jobs = {"boot"}
  Boot = "boot"
  Databases <- DetourDbs
  InitialDatabases <- DetourInit
  Faults = {"reboot"}
  MaxEvents = 3
INVARIANTS RollbackIsComplete RulesLeadSomewhere
PROPERTIES KeepsConverging EveryApplyReturns ServesEventually

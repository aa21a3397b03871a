SPECIFICATION Spec
CONSTANTS
  r1 = r1  r2 = r2  home = home  ours = ours  theirs = theirs  None = None
  Requests <- TwoRequests
  Ips <- OneAddress
  Burst = 1
  Interval = 2
  MaxLag = 1
  MaxClock = 3
  Passwords <- TwoPasswords
  Found <- Before
  Foreign <- Elsewhere
  Lifetime = 2
  MaxRequests = 4
  MaxFaults = 1
INVARIANTS LimiterTypeOK WindowBound NeverStarves SetupWhole SessionsEarned
PROPERTIES KeepsBucket OneSetup
CHECK_DEADLOCK FALSE

SPECIFICATION Spec
CONSTANTS
  r1 = r1  r2 = r2  blank = blank  absent = absent
  Paddings <- FourPaddings
  Overhead = 2
  Slots <- TwoSlots
  Markers <- TwoMarkers
  Blank <- blank
  Absent <- absent
  Requests <- OneRequest
  Founds <- Whole
  Typed <- OnlyBlank
  Fields <- S1S4
  Files <- SomeFiles
  MaxRequests = 3
  MaxFaults = 0
INVARIANTS ExportsAgree
CHECK_DEADLOCK FALSE

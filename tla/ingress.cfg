SPECIFICATION Spec
CONSTANTS
  r1 = r1  r2 = r2  blank = blank  absent = absent
  Paddings <- FourPaddings
  Overhead = 2
  Slots <- TwoSlots
  Markers <- TwoMarkers
  Blank <- blank
  Absent <- absent
  Requests <- TwoRequests
  Founds <- SomeFounds
  Typed <- OnlyBlank
  Fields <- S1S4
  Files <- SomeFiles
  MaxRequests = 4
  MaxFaults = 1
INVARIANTS TypeOK GivenKept HealsSound KeysPair RunsStored ExportsHold
SYMMETRY Interchangeable
CHECK_DEADLOCK FALSE

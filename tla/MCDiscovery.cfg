SPECIFICATION Spec
CONSTANTS
  Symbols = {s1, s2, s3}
  Workers = {}
  Objects = {o1, o2, o3}
  Outcomes = {pass}
  Cap = 2
  MaxHistory = 1
  MaxPass = 0
  MaxLeaves = 2
  NoState = NoState
  NoSymbol = NoSymbol
  NoOutcome = NoOutcome
SYMMETRY Interchangeable
VIEW Reachable
INVARIANTS
  ScreenBounded
  ScanFlagAgrees
PROPERTY
  ManualLeavesByClear

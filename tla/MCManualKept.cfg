SPECIFICATION Spec
CONSTANTS
  Symbols = {s1, s2}
  Workers = {w1}
  Objects = {o1, o2, o3, o4}
  Outcomes = {pass}
  Cap = 1
  MaxHistory = 1
  MaxPass = 1
  MaxLeaves = 1
  NoState = NoState
  NoSymbol = NoSymbol
  NoOutcome = NoOutcome
INVARIANT ManualAlwaysKept

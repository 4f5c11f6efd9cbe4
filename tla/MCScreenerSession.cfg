SPECIFICATION Spec
CONSTANTS
  Symbols = {s1}
  Workers = {w1, w2}
  Objects = {o1, o2, o3}
  Outcomes = {pass, fail}
  Cap = 1
  MaxHistory = 2
  MaxPass = 4
  MaxLeaves = 1
  NoState = NoState
  NoSymbol = NoSymbol
  NoOutcome = NoOutcome
SYMMETRY Interchangeable
VIEW Reachable
INVARIANTS
  TypeOK
  NothingSurvivesLeaving
  FreshIsConsistent
  TransitionsChain
PROPERTIES
  HistoryRetained
  RetainsUsable

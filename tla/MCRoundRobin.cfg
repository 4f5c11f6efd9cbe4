SPECIFICATION FairSpec
CONSTANTS
  N = 3
  SymbolsPerCycle = 1
  SymbolsPerCycleMax = 2
  MaxRequests = 2
  CyclesInWindow = 2
  ScanEvery = 1
  WarmCycles = 2
  Worths <- OneWorth
  Bonuses <- ScannedOrManual
  StaleBonus = 80
  AgePerCycle = 40
  FreshAge = 80
  AgeCap = 120
PROPERTIES
  RoundRobin

SPECIFICATION FairSpec
CONSTANTS
  N = 3
  SymbolsPerCycle = 1
  SymbolsPerCycleMax = 2
  MaxRequests = 4
  CyclesInWindow = 2
  ScanEvery = 1
  WarmCycles = 2
  Worths <- MixedWorths
  Bonuses <- ScannedOrManual
  StaleBonus = 80
  AgePerCycle = 40
  FreshAge = 80
  AgeCap = 120
INVARIANTS
  TypeOK
PROPERTIES
  SweptWhenHealthy
  RefusedOnlyBesideOthers

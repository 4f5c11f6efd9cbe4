SPECIFICATION FairSpec
CONSTANTS
  Handlers = {h1, h2}
  Boot = Boot
  MaxThreads = 3
  MaxCalls = 5
  WarmCycles = 2
  Nobody = Nobody
INVARIANTS
  TypeOK
  OneLoop
  OffMeansStopping
PROPERTIES
  LoopNeverDies
  StopEndsLoop
  KeepsCycling
CHECK_DEADLOCK FALSE

SPECIFICATION Spec
CONSTANTS
  Handlers = {h1}
  Boot = Boot
  MaxThreads = 2
  MaxCalls = 2
  WarmCycles = 1
  Nobody = Nobody
INVARIANT OnMeansRunning
CHECK_DEADLOCK FALSE

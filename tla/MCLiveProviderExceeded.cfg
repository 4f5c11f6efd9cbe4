\* The pacing comment's own claim, on the same instance.
SPECIFICATION FairSpec
CONSTANTS
  Threads = {t1, t2}
  Sessions = {s1, s2}
  NoThread = NoThread
  NoSession = NoSession
  MaxRequests = 2
  Window = 1
  MaxAttempts = 2
  MaxClock = 2
INVARIANT NeverExceeded

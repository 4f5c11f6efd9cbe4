\* Two callers, two session objects, a budget of two requests per window.
SPECIFICATION FairSpec
CONSTANTS
  Threads = {t1, t2}
  Sessions = {s1, s2}
  NoThread = NoThread
  NoSession = NoSession
  MaxRequests = 2
  Window = 1
  MaxAttempts = 2
  MaxClock = 2
INVARIANT TypeOK
INVARIANT PruneLosesNothing
INVARIANT OvershootBounded
INVARIANT SingleConversation
INVARIANT NoSocketLeak
PROPERTY RefusedOnlyWhenFull
PROPERTY LockReleased
PROPERTY PacesRequests

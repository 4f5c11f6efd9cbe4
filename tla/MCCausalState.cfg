SPECIFICATION FairSpec
CONSTANTS
  Threads = {t1, t2}
  Evidence <- MCEvidence
  NoState = NoState
  Cooldown = 1
  MaxHistory = 1
INVARIANT TypeOK
INVARIANT TrailBounded
PROPERTY EvidenceShown

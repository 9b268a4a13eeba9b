SPECIFICATION Spec
CONSTANTS
  j1 = j1
  j2 = j2
  u1 = u1
  u2 = u2
  u3 = u3
  u4 = u4
  w1 = w1
  w2 = w2
  o1 = o1
  o2 = o2
  Jobs = {j1, j2}
  Urls = {u1}
  Origins = {o1}
  Workers = {w1, w2}
  NoWorker = NoWorker
  InteractiveJobs = {j1}
  OriginOf <- MCOriginOf
  Seed <- MCSeed
  Capable <- MCCapable
  Budget <- MCBudget
  ResponseCap <- MCResponseCap
  Reports <- MCReportsNone
  RetryDelays <- MCDelays
  ArtifactCap = 1
  MaxPages = 1
  MaxDepth = 1
  MaxAttempts = 2
  MaxFailures = 2
  MaxBrowserPages = 0
  Timeout = 2
  LeaseSeconds = 1
  SessionTtl = 1
  MinDelay = 0
  CircuitThreshold = 1
  CircuitSeconds = 1
  LastSubmit = 1
  MaxTime = 3
SYMMETRY Symmetry
INVARIANTS OneLeasePerOrigin
CHECK_DEADLOCK FALSE

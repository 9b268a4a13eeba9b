SPECIFICATION Spec
CONSTANTS
  j1 = j1
  j2 = j2
  u1 = u1
  u2 = u2
  u3 = u3
  u4 = u4
  w1 = w1
  w2 = w2
  o1 = o1
  o2 = o2
  Jobs = {j1}
  Urls = {u1, u2, u3, u4}
  Origins = {o1, o2}
  Workers = {w1, w2}
  NoWorker = NoWorker
  InteractiveJobs = {}
  OriginOf <- MCOneOrigin
  Seed <- MCSeed
  Capable <- MCCapable
  Budget <- MCBudget
  ResponseCap <- MCResponseCap
  Reports <- MCReports
  RetryDelays <- MCDelays
  ArtifactCap = 1
  MaxPages = 3
  MaxDepth = 1
  MaxAttempts = 2
  MaxFailures = 1
  MaxBrowserPages = 1
  Timeout = 4
  LeaseSeconds = 1
  SessionTtl = 1
  MinDelay = 1
  CircuitThreshold = 2
  CircuitSeconds = 2
  LastSubmit = 0
  MaxTime = 5
SYMMETRY PageSymmetry
INVARIANTS TypeOK CountersReconcile LimitsHold OutcomesAreTrue
CHECK_DEADLOCK FALSE

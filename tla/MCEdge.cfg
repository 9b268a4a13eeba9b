SPECIFICATION EdgeSpec
SYMMETRY MCSymmetry
CONSTANTS
    Fleet = {w1, w2}
    Pages = {p1, p2}
    Compatible = {w1, w2}
    Nobody = Nobody
    NoPage = NoPage
    AttemptLimit = 2
    MaxStarts = 1
    MaxGrants = 2
    RemoteSession = RemoteSession
    LocalSession = LocalSession
    Clients = {c1, c2}
    Sockets = {k1, k2}
    NoSocket = NoSocket
    NoClient = NoClient
    BridgeCap = 1
    ShotBudget = 3
    ShotSizes = {1, 2}
    MaxBridges = 2
    MaxRequests = 2
    NoNode = NoNode
    NoTask = NoTask
    Nodes = {n1, n2}
    ProxyTasks = {t1}
    RemoteRuns = {2}
    OfflineAfter = 2
    MaxClaims = 2
    MaxReports = 2
    Callers = {u1, u2}
    NoCaller = NoCaller
    Crawlers = {"c1", "c2"}
    Rows = {x1, x2}
    SeedRow = x1
    RetriedRows = {x2}
    FailCap = 1
    MaxLeases = 2
    MaxAborts = 1
    Visits = {v1, v2}
    Passes = {"pass"}
    Digests = {"d1", "d2"}
    MaxClock = 3
    PassTtl = 2
INVARIANTS FleetInv TunnelInv TransactionsInv AccessInv
PROPERTIES FencesHold RemoteImplementsQueue
CHECK_DEADLOCK FALSE

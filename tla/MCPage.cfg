SPECIFICATION PageSpec
CONSTANTS
    Renders = {b1, b2}
    Humans = {h1}
    MaxContexts = 1
    RestartAfter = 1
    MaxLaunches = 3
    Scrapes = {s1, s2}
    Hosts = {g1, g2}
    Home = g1
    PublicAddrs = {a1, a2}
    PrivateAddrs = {z1}
    NoAddr = NoAddr
    NoScrape = NoScrape
    MaxRedirects = 1
    Allowance = 3
    BodySizes = {2, 4}
    Subrequests = {q1, q2}
    Operators = {o1, o2}
    ReservedUnits = 2
    MaxOps = 3
    PageHosts = {"ok", "bad"}
    Domains = {"d"}
    MatchesPattern <- MCMatchesPattern
    ChallengeKinds = {"image_text", "recaptcha"}
    Scores = {7, 9}
    MinScore = 8
    MaxNavigations = 3
    Requests <- MCRequests
    AllowedPorts = {443}
    PublicIps = {i1, i2}
    PrivateIps = {l1}
    NoIp = NoIp
    Ceiling = 3
    Chunk = 2
    MaxReads = 2
    Readers = {r1, r2}
    Rings <- MCRings
    SiteHosts <- MCSiteHosts
    AllowPatterns <- MCAllowPatterns
    ProfileIds = {"p", "q"}
    MaxDeletes = 2
    Puts = {u1, u2}
    Contents = {"fits", "large"}
    SizeOf <- MCSizeOf
    SizeLimit = 2
INVARIANTS RuntimeInv FetchInv ServicesInv EgressInv StoreInv
PROPERTIES CallsEnd
CHECK_DEADLOCK FALSE

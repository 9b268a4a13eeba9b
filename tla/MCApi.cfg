SPECIFICATION ApiSpec
CONSTANTS
    p1 = p1
    p2 = p2
    u1 = u1
    v1 = v1
    s1 = s1
    s2 = s2
    Runs = {r1}
    Pages = {p1, p2}
    Urls = {u1, v1, u2}
    Norm <- MCNorm
    SeedUrls <- MCSeedUrls
    MaxConcurrent = 1
    MaxRounds = 2
    MaxPages = 2
    LlmCap = 3
    PickPerRound = 2
    MaxCrashes = 1
    Sites = {s1, s2, s3, s4}
    BaseUrl = s1
    SitemapUrls <- MCSitemapUrls
    Links <- MCLinks
    Fetchers = {f1, f2}
    CrawlLimit = 3
    CrawlDepth = 2
    MaxRestarts = 1
    Defs = {"hourly", "daily"}
    KindOf <- MCKindOf
    Scheduled = {"hourly", "daily"}
    BatchUrls = {u1, u2}
    MaxRuns = 2
    MaxBoots = 1
    None = None
    Scrapes = {1, 2, 3}
    UrlOf <- MCUrlOf
    TextOf <- MCTextOf
    Similar <- MCSimilar
    KnownPages <- MCKnownPages
    MaxReboots = 1
    Refs = {d1, d2}
    CorpusRefs = {d1}
    Writers = {i1, i2}
    ChunkCount <- MCChunkCount
    DistanceOf <- MCDistanceOf
    Dimensions = {1, 2}
    FirstWindow = 1
    MaxRows = 4
    ChunkIds = {1, 2, 3}
    ParentOf <- MCParentOf
    RrfK = 60
    WantedK = 2
    FirstDepth = 2
    MaxDepth = 3
    Sizes = {1, 3, 5}
    MaxBlocks = 4
    MaxChars = 4
    Overlap = 1
    MaxChunks = 4
    TargetTokens = 3
    MaxTokens = 4
    OverlapTokens = 2
    Spelled <- MCSpelled
    Escaped <- MCEscaped
    TooLong <- MCTooLong
    NoUrl = NoUrl
    Tracking = {"utm"}
    SiteOrigin = "http://s"
    DocumentNames = {"x.pdf"}
    ImageNames = {"i.png"}
    SkippedNames = {"z.zip"}
    SessionKeys = {"sid"}
    DeepPageKeys = {"p9999"}
    FacetKeys = {"facet1", "facet2"}
    CalendarNames = {"2024-05"}
    MaxSegments = 3
    MaxRepeats = 2
    FacetLimit = 2
    PageElements <- MCElements
    MaxElements = 3
    Follow = TRUE
    WithDocuments = TRUE
    WithImages = TRUE
    WithFrames = TRUE
    WithEmbedded = TRUE
    ChildCap = 2
    LocsOf <- MCLocsOf
    ListedMaps <- MCListed
    FallbackMaps <- MCFallback
    PackedMaps = {"m4.gz"}
    MaxSitemapFetches = 4
    MapLimit = 5
    HomePage = "home"
    HomeLinks <- MCHomeLinks
    Wanted = {"home", "p1", "p3", "p4", "p6"}
    Batches <- MCBatches
    HostOf <- MCHostOf
    NoHost = NoHost
    Concurrency = 2
    PerHost = 1
    PagesOf <- MCPagesOf
    BucketOf <- MCBucketOf
    LowTier = {"other"}
    ChunksOf <- MCChunksOf
    MaxDrains = 2
    MaxDeaths = 1
    MaxGenerations = 4
    Stems = {1, 2, 3}
    KeepRuns = 1
    MaxAge = 0
    Makers = {k1}
    MaxDay = 1
    MaxVersions = 2
    MaxFaults = 1
    Procs = {a1, a2}
    LastVersion = 2
INVARIANTS ResumeInv RunsInv SignalsInv SearchInv TextInv CorpusInv FilesInv LifeInv
PROPERTIES RunsEnd
CHECK_DEADLOCK FALSE

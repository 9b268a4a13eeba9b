SPECIFICATION CorpusSpec
CONSTANTS
    Batches <- MCBatches
    HostOf <- MCHostOf
    NoHost = NoHost
    Concurrency = 2
    PerHost = 1
    PagesOf <- MCPagesOf
    BucketOf <- MCBucketOf
    LowTier = {}
    ChunksOf <- MCChunksOf
    MaxDrains = 2
    MaxDeaths = 1
INVARIANT RoutedEverywhere
CHECK_DEADLOCK FALSE

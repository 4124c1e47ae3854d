SPECIFICATION CoreSpec
CONSTANTS
    Parts = {"pool"}
    A = A
    B = B
    C = C
    NoAddr = NoAddr
    Addrs = {A, B, C}
    Bodies <- MCBodies
    Hash <- MCHash
    MaxHeight = 3
    MaxReorgDepth = 2
    Checkpoint = 0
    CoinbaseMaturity = 2
    InitialReward = 4
    HalvingInterval = 10
    MinFee = 1
    UniqueCoinbase = FALSE
    MaxUint = 1000
    Labels = {1, 2}
    Work <- EqualWork
    MaxStoreHeight = 5
    StoreReorgDepth = 1
    PruneKeep = 2
    CompactInterval = 1
    Start = 1
    Window = 2
    Threshold = 2
    Timeout = 5
    VoteReorgDepth = 2
    MaxVoteHeight = 9
    MaxSuffix = 3
    Holders = {"a", "b"}
    Names = {"n"}
    LeasePeriod = 2
    Periods = {0, 2}
    Amounts = {1, 2}
    MaxAssetSupply = 3
    IssueNonces = {0, 1}
    MaxTokenHeight = 3
    MaxTokenTxs = 3
    MaxDisconnects = 1
    HistoryFrom = 2
    RootReorgDepth = 2
    MaxRootHeight = 6
    MaxRootSuffix = 2
    PoolTxs <- LongTxs
    MaxTxs = 3
    MaxBytes = 3
    MaxPerSender = 3
    MaxPackageAncestors = 1
    MaxPackageDescendants = 2
    MaxPackageBytes = 3
    MinRelayFee = 1
    FloorMultiplier = 1
    BaseFee = 1
    MaxBlockTxs = 2
    MaxBlockBytes = 3
    MaxPoolHeight = 1
    MaxSubmissions = 1
PROPERTIES
    RunsStayContiguous
CHECK_DEADLOCK FALSE

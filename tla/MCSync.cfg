SPECIFICATION Spec
CONSTANTS
    G = G
    a1 = a1
    a2 = a2
    b1 = b1
    b2 = b2
    h1 = h1
    f1 = f1
    tA = tA
    tB = tB
    NoTx = NoTx
    Junk = Junk
    Blocks <- MCBlocks
    Genesis = G
    Path <- MCPath
    Work <- MCWork
    HashRank <- MCHashRank
    Txs = {tA, tB}
    Body <- MCBody
    ShortId <- MCShortId
    Size <- MCSize
    Peers = {h1, f1}
    Faulty = {f1}
    Lies = {"getheaders", "getdata", "getblocks", "getblocktxn"}
    ClaimedHeight = 3
    StartTip = b1
    Starts <- MCStarts
    PeerMoves <- MCPeerMoves
    MaxHeadersBatch = 2
    MaxBlocksBatch = 1
    MaxSyncPeers = 2
    OrphanPoolCapacity = 2
    OrphanPoolBytes = 2
    MaxPendingBlocks = 1
    MaxReorgDepth = 1
    BanThreshold = 2
    BanStalling = 1
    BanBadHeaders = 1
    BanInvalidBlock = 1
    MaxFaults = 1
    MaxQueue = 1
PROPERTY CatchesUp
CHECK_DEADLOCK FALSE

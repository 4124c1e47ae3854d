SPECIFICATION NetworkSpec
CONSTANTS
    Parts = {"relay", "older", "peers"}
    a = a
    b = b
    c = c
    t1 = t1
    t2 = t2
    Silent = {}
    MaxDrops = 1
    p = p
    q = q
    s = s
    x = x
    Addrs = {p, q, s, x}
    Aliases = {s}
    Group <- MCGroup
    Loopback = {s}
    Configured = {p}
    Seeded = {x}
    Strangers = {x}
    MaxPeers = 2
    MaxOutboundPerGroup = 1
    MaxNewEntries = 1
    MaxTriedEntries = 1
    MaxEntriesPerGroup = 2
    MaxDialFailures = 1
    MaxTriedDialFailures = 2
    DnsSeedThreshold = 2
    BanThreshold = 2
    BanHandshake = 1
    MaxEvents = 2
    MaxRestarts = 1
INVARIANTS
    OutboundSlots
PROPERTIES
    Propagates
    SelfDialsEnd
    Reconnects
CHECK_DEADLOCK FALSE

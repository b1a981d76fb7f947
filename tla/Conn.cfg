SPECIFICATION ConnSpec
CHECK_DEADLOCK FALSE
CONSTANTS
    c1 = c1
    c2 = c2
    c3 = c3
    a1 = a1
    a2 = a2
    b = b
    i = i
    w = w
    NoConn = NoConn
    Conns = {c1, c2, c3}
    Addrs = {a1, a2, b, i, w}
    Host <- MCHost
    Group <- MCGroup
    Whitelisted = {w}
    Loopback = {}
    KnownAddrs = {a1, a2, b}
    MaxNormalConns = 2
    MaxConnsPerHost = 1
    TargetOutbound = 1
    MaxPersistent = 2
    MaxPerOutboundGroup = 1
    Listeners = 1
INVARIANTS
    LimitsKept
    PermitsReturned
    OutgoingIndexed
    PersistentServed
    RunNotStuck

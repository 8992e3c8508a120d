SPECIFICATION SshFairSpec
CONSTANTS
    c1 = c1
    c2 = c2
    a1 = a1
    NoConn = NoConn
    Conns = {c1, c2}
    Addrs = {a1}
    RemoteAddr <- OneAddr
    Via <- OneListener
    Configs <- ProxyConfig
INVARIANTS
    SshTypeOK
    RowsTellTruth
PROPERTIES
    ComesBackOnce
    RowCompleted
    ReleasedByNextConnection
    StopReturnsUnlessHeld
    EveryClientServed
CHECK_DEADLOCK FALSE

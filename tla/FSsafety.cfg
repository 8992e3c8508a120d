SPECIFICATION Spec
CONSTANTS
    c1 = c1
    c2 = c2
    c3 = c3
    a1 = a1
    a2 = a2
    NoConn = NoConn
    Conns = {c1, c2, c3}
    Addrs = {a1, a2}
    RemoteAddr <- ThreeAddr
    Via <- Via446
    Configs <- CrossedConfigs
INVARIANTS
    TypeOK
    SocketsOwned
    RegistryExact
    SweepMissesOnlyLate
    OneLastCall
PROPERTIES
    ListenersStayOpen
    ContractSpec
SYMMETRY Alike
CHECK_DEADLOCK FALSE

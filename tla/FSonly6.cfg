SPECIFICATION Spec
CONSTANTS
    c1 = c1
    c2 = c2
    c3 = c3
    a1 = a1
    a2 = a2
    NoConn = NoConn
    Conns = {c1, c2}
    Addrs = {a1}
    RemoteAddr <- TwoAddr
    Via <- Via66
    Configs <- Only6Configs
PROPERTIES
    StopNeverDeclinesRunning
CHECK_DEADLOCK FALSE

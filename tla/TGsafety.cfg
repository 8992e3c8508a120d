SPECIFICATION Spec
CONSTANTS
    Ports = {p1}
    Families <- AllBoth
    Workers = {w1, w2}
    MaxRounds = 3
    MaxOver = 2
    MaxPending = 1
    p1 = p1
    w1 = w1
    w2 = w2
INVARIANTS
    TypeOK
    GateMatchesClock
    ServersReachable
    OneStarter
    BackstopFinishes
CONSTRAINT ThirdStartAlone
SYMMETRY WorkerSymmetry
CHECK_DEADLOCK FALSE

SPECIFICATION FairSpec
CONSTANTS
    Ports = {p1}
    Families <- AllBoth
    Workers = {w1, w2}
    MaxRounds = 3
    MaxOver = 3
    MaxPending = 1
    p1 = p1
    w1 = w1
    w2 = w2
PROPERTIES
    Recovers
CONSTRAINT NoShutdown
CHECK_DEADLOCK FALSE

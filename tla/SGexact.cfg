SPECIFICATION GateSpec
CONSTANTS
    l1 = l1
    l2 = l2
    Loops = {l1, l2}
    Rules <- TwoRules
    DefaultRule <- ThreeMinutes
    DefaultLimit = 2
    Retention = 2
    MaxClock = 5
    MaxRecords = 3
    NoLoc = NoLoc
    Asks = {}
    Configs = {}
    Reloads = {}
PROPERTIES
    BannedMeansExceeded
CHECK_DEADLOCK FALSE

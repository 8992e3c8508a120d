SPECIFICATION GateSpec
CONSTANTS
    l1 = l1
    l2 = l2
    Loops = {l1, l2}
    Rules <- TwoRules
    DefaultRule <- ThreeMinutes
    DefaultLimit = 2
    Retention = 1
    MaxClock = 3
    MaxRecords = 3
    NoLoc = NoLoc
    Asks <- AllAsks
    Configs <- AllConfigs
    Reloads <- Edits
INVARIANTS
    TypeOK
    ServedBounded
    VerdictAsDocumented
    BansHold
PROPERTIES
    NeverUndercounts
    BanCutOnlyIfOvertaken
CHECK_DEADLOCK FALSE

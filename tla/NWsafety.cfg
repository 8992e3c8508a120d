SPECIFICATION FairSpec
CONSTANTS
    s1 = s1
    Subs = {s1}
    Dirs <- TwoDirs
    Limit <- SentOnly
    Span = 2
    Floor = 1
    MaxAge = 1
    Retention = 3
    Width = 5
    Traffic <- QuietOrThree
    Buffer = 1
    FirstTick = 3
    MaxClock = 5
    MaxSenders = 1
    MaxResets = 1
INVARIANTS
    TypeOK
    VerdictTrue
    RealMeansFullSpan
PROPERTIES
    StopEndsAll
CHECK_DEADLOCK FALSE

SPECIFICATION FairSpec
CONSTANTS
    c1 = c1
    c3 = c3
    s1 = s1
    s2 = s2
    s3 = s3
    t1 = t1
    t2 = t2
    TcpServers = {t1, t2}
    SshServers = {s1, s2, s3}
    Only6 = {s3}
    Conns = {c1, c3}
    ServerOf <- Comes
    Options <- Tried
    MaxRounds <- Rounds
INVARIANTS
    TypeOK
    CountedInTimeMeansDone
    EveryExitReleases
    CrashesKnown
PROPERTIES
    EndsUnlessHeld
CHECK_DEADLOCK FALSE

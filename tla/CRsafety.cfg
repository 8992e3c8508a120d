SPECIFICATION FairSpec
CONSTANTS
    accept = accept
    statistics = statistics
    watcher = watcher
    NoVersion = NoVersion
    Readers = {accept, statistics}
    Recovering = {statistics}
    Exposed = {accept, statistics}
    Reloader = watcher
    MaxReloads = 2
INVARIANTS
    TypeOK
    IdleMeansReady
    ReadersSeeChecked
PROPERTIES
    DiesOnlyOfReload
    EveryReaderAnswered
CHECK_DEADLOCK FALSE

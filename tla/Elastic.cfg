SPECIFICATION FairSpec
CONSTANTS
    Keys = {"today", "tomorrow"}
    Modes = {"insert", "upsert"}
    ChanSize = 2
    BatchSize = 2
    Retries = 2
    MaxResults = 3
CHECK_DEADLOCK FALSE
INVARIANTS
    BatchOK
    Indexed
PROPERTIES
    ImplementsSink
    EventuallyFlushed
    StopsOnShutdown

SPECIFICATION FairSpec
CONSTANTS
    Requests = {r1, r2}
    Keys = {k1, k2, k3}
    Nobody = Nobody
    MaxEntries = 2
    MaxBytes = 3
    MaxEntryBytes = 2
    MaxPersistedBytes = 1
    MaxSize = 3
    QueueCapacity = 0
    MaxGeneration = 0
    BootRows = {}
INVARIANTS
    CapacityBound
    ByteBound
PROPERTIES
    WaitersWake

SPECIFICATION Spec
CONSTANTS
    Requests = {r1, r2}
    Keys = {k1}
    Nobody = Nobody
    MaxEntries = 1
    MaxBytes = 3
    MaxEntryBytes = 2
    MaxPersistedBytes = 1
    MaxSize = 3
    QueueCapacity = 1
    MaxGeneration = 0
    BootRows <- MCBootRows
INVARIANT ForcedNeverFromDisk

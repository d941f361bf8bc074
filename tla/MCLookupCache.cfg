SPECIFICATION Spec
CONSTANTS
    Requests = {r1, r2, r3}
    Keys = {k1}
    Nobody = Nobody
    MaxEntries = 1
    MaxBytes = 3
    MaxEntryBytes = 2
    MaxPersistedBytes = 1
    MaxSize = 3
    QueueCapacity = 1
    MaxGeneration = 1
    BootRows <- MCBootRows
SYMMETRY RequestSymmetry
INVARIANTS
    SlotOwnership
    WaitersHaveFetcher
    CurrentGenerationOnly
PROPERTIES
    ObsoleteFetchHarmless
    OneFlightPerKey

\* Two events (one of which gets deleted), an index of three entries of which
\* NVS holds two, one to a blob, saved at every second entry; a power loss at
\* any point, also half-way through a save or a purge.
SPECIFICATION FairSpec
CONSTANTS
    a = a
    b = b
    Ids = {a, b}
    Deletable = {a}
    ZeroId = zero
    MaxEntries = 3
    SaveEvery = 2
    ChunkSize = 1
    NvsChunks = 2
    Ttl = 1
    CompactEvery = 1
    Epoch = 2
    MaxTime = 4
    MaxFileIndex = 3
    MaxBoots = 1
INVARIANTS
    FileIndexFresh
    Recoverable
PROPERTIES
    GoneUntilSentAgain
    RoomAgain
CHECK_DEADLOCK FALSE

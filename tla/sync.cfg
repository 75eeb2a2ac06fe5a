SPECIFICATION MCFairSpec
CONSTANTS
    Msg = {"post", "remote", "spam"}
    Event = {"first", "noise", "other", "again", "junk"}
    Top = 4
    MaxRange = 2
    MinRange = 1
    MaxLogs = 2
    EventLimit = 1
    PageLimit = 1
    ChunkSize = 1
    MaxFaults = 1
    Position <- MCPosition
    File <- MCFile
    Contents <- MCContents
    Foreign <- MCForeign
    Garbled <- MCGarbled
    Bare <- MCBare
    Spam <- MCSpam
    Hash = {"h", "g"}
    Node = {"n1", "n2"}
    Address = {"a", "c"}
    RingSize = 4
    Places <- MCPlaces
    Home <- MCHome
    Replication = 2
    Bootstrap = {"a"}
    MaxMoves = 2
    MaxMisses = 1
INVARIANT PassedIsConfirmed
PROPERTIES KeepsPromise EventsAreSettled PeersSettle

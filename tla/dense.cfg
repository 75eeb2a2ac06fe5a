SPECIFICATION FairSpec
CONSTANTS
    Msg = {"post", "remote", "spam"}
    Event = {"first", "noise", "other", "again"}
    Top = 4
    MaxRange = 2
    MinRange = 2
    MaxLogs = 1
    EventLimit = 1
    PageLimit = 1
    ChunkSize = 1
    MaxFaults = 0
    Position <- MCPosition
    File <- MCFile
    Contents <- MCContents
    Foreign <- MCForeign
    Garbled <- MCGarbled
    Bare <- MCBare
    Spam <- MCSpam
PROPERTY EventsAreSettled

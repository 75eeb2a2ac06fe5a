SPECIFICATION MCFairSpec
CONSTANTS
    Msg = {"post", "forget", "sec1", "sec2"}
    Gossiped = {"post", "forget", "sec1", "sec2"}
    OnChain = {}
    MaxRetries = 2
    MaxFaults = 0
    Kind <- MCKind
    Original <- MCOriginal
    Hashes <- MCHashes
    Sender <- MCSender
    BadSig <- MCBadSig
    BadHash <- MCBadHash
    Malformed <- MCMalformed
    Remote <- MCRemote
    Blacklisted <- MCBlacklisted
    Security <- MCSecurity
    Hash = {"h", "g"}
    Node = {"n1"}
    Address = {"a", "c"}
    RingSize = 4
    Places <- MCPlaces
    Home <- MCHome
    Replication = 2
    ItemType <- MCItemType
    Binary = {}
    FETCH_BATCH_SIZE = 1
    MAX_PEER_ATTEMPTS = 1
    MAX_RETRIES = 2
    MaxLosses = 1
    Process = {"node", "other"}
    MaxMishaps = 1
INVARIANTS SomebodyGetsThrough SchemaIsWhole
PROPERTIES ForgetCompletes FetchedIsKept FetchEnds AnswersAreExplained

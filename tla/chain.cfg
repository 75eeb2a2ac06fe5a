SPECIFICATION MCSpec
CONSTANTS
    Msg = {"remote", "forged", "forgery", "wipe"}
    Gossiped = {"forged", "wipe"}
    OnChain = {"remote", "forged", "forgery"}
    MaxRetries = 2
    MaxFaults = 0
    Kind <- MCKind
    Original <- MCOriginal
    Hashes <- MCHashes
    Sender <- MCSender
    BadSig <- MCBadSig
    BadHash <- MCBadHash
    Malformed <- MCMalformed
    Remote <- MCRemote
    Blacklisted <- MCBlacklisted
    Security <- MCSecurity
    Copy = {"good", "copy", "other", "junk"}
    ItemOf <- MCItemOf
    Garbage = {"junk"}
    CacheSize = 2
    MaxCuts = 2
    Message = {"m1", "m2"}
    From <- MCFrom
    Filter <- MCFilter
    Inbox = 1
    Capacity = 2
    Limit = 2
    MaxRequests = 2
    MaxLosses = 1
    Letter = {"first", "second", "junk"}
    Broadcast = {"second"}
    Removable = {"first"}
    TypeOf <- MCTypeOf
    Body <- MCBody
    SentAt <- MCSentAt
    BatchSize = 1
    MaxQueue = 1
    MaxCrashes = 1
    MaxErrors = 1
ACTION_CONSTRAINT OneCast
INVARIANTS TypeOK UnsignedOnlyFromChain AckedWasInserted ClientIsServed
PROPERTY BackfillRecovers

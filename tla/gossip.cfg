SPECIFICATION Spec
CONSTANTS
    Msg = {"post", "amend", "forget", "thief", "vm", "fix", "retire", "junk", "blob", "drop"}
    Gossiped = {"post", "amend", "forget", "thief", "vm", "fix", "retire", "junk", "drop"}
    OnChain = {"blob"}
    MaxRetries = 2
    MaxFaults = 1
    Kind <- MCKind
    Original <- MCOriginal
    Hashes <- MCHashes
    Sender <- MCSender
    BadSig <- MCBadSig
    BadHash <- MCBadHash
    Malformed <- MCMalformed
    Remote <- MCRemote
    Blacklisted <- MCBlacklisted
    Security <- MCSecurity
ACTION_CONSTRAINT OneCast
INVARIANTS NoMessageLost RecordedIsApplied ForgetIsAuthorized
PROPERTY FollowsLifecycle

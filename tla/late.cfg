SPECIFICATION FairSpec
CONSTANTS
    Msg = {"blob", "wipe"}
    Gossiped = {"wipe"}
    OnChain = {"blob"}
    MaxRetries = 2
    MaxFaults = 2
    Kind <- MCKind
    Original <- MCOriginal
    Hashes <- MCHashes
    Sender <- MCSender
    BadSig <- MCBadSig
    BadHash <- MCBadHash
    Malformed <- MCMalformed
    Remote <- MCRemote
    Blacklisted <- MCBlacklisted
    Security <- MCSecurity
INVARIANT RetriesBelowMax
PROPERTIES ForgottenStaysErased PendingIsResolved

SPECIFICATION Spec
CONSTANTS
    Msg = {"post"}
    Gossiped = {"post"}
    OnChain = {}
    MaxRetries = 2
    MaxFaults = 1
    Kind <- MCKind
    Original <- MCOriginal
    Hashes <- MCHashes
    Sender <- MCSender
    BadSig <- MCBadSig
    BadHash <- MCBadHash
    Malformed <- MCMalformed
    Remote <- MCRemote
    Blacklisted <- MCBlacklisted
    Security <- MCSecurity
INVARIANT AppliedIsRecorded

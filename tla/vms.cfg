SPECIFICATION MCSpec
CONSTANTS
    Vm = {"vm", "fix", "lock", "tool"}
    Instance = {"vm", "fix", "lock"}
    AllowAmend = {"vm", "fix"}
    Forget = {"forget", "undo", "unlock"}
    MaxFaults = 1
    None = None
    Replaces <- MCReplaces
    Time <- MCTime
    Owner <- MCOwner
    Payment <- MCPayment
    Hold <- MCHold
    Credit <- MCCredit
    HoldBalance <- MCHoldBalance
    CreditBalance <- MCCreditBalance
    Target <- MCTarget
    Blob = {"a", "b", "big"}
    MaxBytes = 2
    Put = {"p", "q"}
    Get = {"g"}
    MaxTroubles = 1
    Bytes <- MCBytes
    File = {"h"}
    Caller = {"t", "u", "v"}
    Caching = TRUE
    MaxUpsets = 1
    Hash = {"h", "g"}
    Node = {"n1", "n2", "n3", "n4"}
    Address = {"a"}
    RingSize = 8
    Places <- MCPlaces
    Home <- MCHome
    Replication = 2
INVARIANTS RecordedVmIsCharged NewestVersionWins LockedStaysLocked FitsBeside ForgottenVmIsGone WarmCacheIsSound FilesAreSound
PROPERTY OwnershipIsSound

SPECIFICATION Spec
CONSTANTS
    Element = {"base", "left", "right"}
    Field = {"x", "y"}
    Anchored = {}
    Forget = {}
    Reader = {}
    Security = FALSE
    DirtyThreshold = 10
    MaxBackfills = 0
    Writes <- MCWrites
    Time <- MCTime
    Rank <- MCRank
    Hashes <- MCHashes
INVARIANT MergedOrDirty
CHECK_DEADLOCK FALSE

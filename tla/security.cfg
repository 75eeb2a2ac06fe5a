SPECIFICATION MCSpec
CONSTANTS
    Element = {"base", "left", "right"}
    Field = {"x", "y"}
    Anchored = {"left"}
    Forget = {"forget"}
    Reader = {"get"}
    Security = TRUE
    DirtyThreshold = 2
    MaxBackfills = 1
    Writes <- MCWrites
    Time <- MCTime
    Rank <- MCRank
    Hashes <- MCHashes
    Address = {"alice", "bob", "carol"}
    Label = {"ETH", "main", "blog", "news", "amend", "settings", "security"}
    Post = {"original"}
    Amend = {"edit", "hijack"}
    Grant = {"grant", "coup", "synced"}
    Removal = {"forget"}
    Attr <- MCAttr
    Ref <- MCRef
    Target <- MCTarget
    Stamp <- MCStamp
    Authorizations <- MCAuthorizations
    Trusted = {"original", "synced"}
    MaxFaults = 1
    Row = {1, 2, 3}
    MaxKey = 2
    Sizes = {0, 1, 3}
    SizeCap = 2
    Word = 16
    MaxChanges = 1
    Quoted <- MCQuoted
    DefaultPrices <- MCDefaultPrices
    DefaultDiscounts <- MCDefaultDiscounts
    DefaultTiers <- MCDefaultTiers
    PriceList <- MCPriceList
    UnitMemory = 4
    WordU32 = 16
    Whole = 20
    Tenths = 10
    InternetMultiplier = 12
    BaseStorage <- MCBaseStorage
    Hours = 2
    Mib = 4
    Device <- MCDevice
    StartsWith <- MCStartsWith
    Names <- MCNames
    PremiumNames = {"a40"}
    MaxUpdates = 2
INVARIANTS MergedOrDirty RowIffElements WritersHadTheRight ForgottenThreadIsGone ListIsExact QuotesAgree
PROPERTY TimeNeverRegresses
ACTION_CONSTRAINT OneIntruder
CHECK_DEADLOCK FALSE

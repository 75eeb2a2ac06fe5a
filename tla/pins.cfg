SPECIFICATION FairSpec
CONSTANTS
    Store = {"first", "again"}
    Files = {"data"}
    Owners = {"alice", "bob", "anonymous"}
    Anonymous = "anonymous"
    Used = {}
    GcLimit = 1
    MaxDeliveries = 1
    MaxFaults = 1
    File <- MCFile
    Owner <- MCOwner
    Ref <- MCRef
    Forgetter <- MCForgetter
    Time <- MCTime
    Paid <- MCPaid
INVARIANTS FileIsAccounted FileOutlivesStore
PROPERTY GraceEnds
CHECK_DEADLOCK FALSE

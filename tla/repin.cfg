SPECIFICATION Spec
CONSTANTS
    Store = {"first", "again"}
    Files = {"data"}
    Owners = {"alice", "bob", "anonymous"}
    Anonymous = "anonymous"
    Used = {}
    GcLimit = 1
    MaxDeliveries = 1
    MaxFaults = 0
    File <- MCFile
    Owner <- MCOwner
    Ref <- MCRef
    Forgetter <- MCForgetter
    Time <- MCTime
    Paid <- MCPaid
INVARIANT MultiplePinTypes
CHECK_DEADLOCK FALSE

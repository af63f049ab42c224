SPECIFICATION Spec
CONSTANTS
    SupplierChain <- Chain
    NoSupplier = "nobody"
    o1 = o1   e1 = e1  e2 = e2  e3 = e3  e4 = e4
    Orders = {o1}
    Events = {e1, e2, e3, e4}
    Requests = {r1}
    Sweepers = {s1}
    payload <- Contradictory
    OrphanLimit = 1
    ReplyFirst = TRUE
    Budget <- FailureBudget
CHECK_DEADLOCK FALSE
INVARIANT AckedIsStored

SPECIFICATION FairSpec
CONSTANTS
    SupplierChain <- Chain
    NoSupplier = "nobody"
    o1 = o1  e1 = e1  e2 = e2  e3 = e3  e4 = e4
    Orders = {o1}
    Events = {e1, e2, e3}
    Requests = {r1, r2}
    Sweepers = {s1}
    payload <- Three
    OrphanLimit = 1
    ReplyFirst = TRUE
    Budget <- WebhookBudget
CHECK_DEADLOCK FALSE
INVARIANT TypeOK
INVARIANT OneEventDecides
INVARIANT RejectedForCause
PROPERTY JudgedOnce
PROPERTY ImplementsSettlement
PROPERTY OrphanIsReplayed

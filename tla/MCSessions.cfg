SPECIFICATION FairSpec
CONSTANTS
    SupplierChain <- Chain
    NoSupplier = "nobody"
    o1 = o1  o2 = o2  o3 = o3  o4 = o4  e1 = e1  e2 = e2
    Orders = {o1, o2, o3, o4}
    amount_minor <- Price
    ListLimit = 3
    LiabilityLimit = 2
    Sessions = {1, 2, 3}
    Events = {e1, e2}
    NoOrder = 0
    Plans <- Agendas
    StartStatus <- Beginnings
    ApiPool = 2
    MaxErrors = 1
CHECK_DEADLOCK FALSE
INVARIANT TypeOK
INVARIANT OneOrderPerKey
INVARIANT OnlyRetriesDeadlock
INVARIANT ViewShowsCode
INVARIANT ReportIsSound
PROPERTY StepsOfSettlement
PROPERTY EverySessionEnds

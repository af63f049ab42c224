SPECIFICATION FairSpec
CONSTANTS
    SupplierChain <- Chain
    NoSupplier = "nobody"
    Skus = {1, 2, 3}
    Types = {"key", "topup"}
    AnyType = "any"
    Limits = {1, 2}
    Workers = {w1, w2}
    SkusOf <- SharedSkus
    Catalogs <- SomeCatalogs
    StartPool <- OneKeyAtA
    Budget <- ShelfBudget
INVARIANT TypeOK
INVARIANT SteadyShownOnce
INVARIANT DearerIfShownAgain
PROPERTY StockCatchesUp

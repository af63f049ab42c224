SPECIFICATION Spec
CONSTANTS
    SupplierChain <- Chain
    NoSupplier = "nobody"
    Orders = {o1}
    Workers = {w1}
    JobIds = {j1, j2}
    k1 = k1  k2 = k2  k3 = k3
    Codes = {k1, k2, k3}
    NoOrder = NoOrder
    NoCode = NoCode
    StartKeys <- OneKeyEach
    RestockKeys <- RefillA
    supplier_max_attempts = 2
    job_max_attempts = 3
    worker_batch_size = 1
    Budget <- ConnectBudget
INVARIANT KnownNegativeIsProof

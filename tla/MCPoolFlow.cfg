SPECIFICATION PoolSpec
CONSTANTS
    t1 = t1
    t2 = t2
    k1 = k1
    k2 = k2
    r1 = r1
    r2 = r2
    r3 = r3
    r4 = r4
    Probe = Probe
    Nobody = Nobody
    Threads <- TwoWorkers
    Kids <- TwoKids
    Requests <- FourRequests
    TTL = 2
    MinInterval = 1
    WaitTimeout = 1
    Horizon = 3
    MaxDocs = 1
    PromptWake = TRUE
SYMMETRY Symmetry
INVARIANTS
    CachedKeysFlow

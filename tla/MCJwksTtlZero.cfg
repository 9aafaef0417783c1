SPECIFICATION Spec
CONSTANTS
    t1 = t1
    t2 = t2
    t3 = t3
    k1 = k1
    k2 = k2
    Probe = Probe
    Threads <- TwoThreads
    Kids <- OneKid
    TTL = 0
    MinInterval = 2
    WaitTimeout = 1
    Horizon = 2
    MaxDocs = 2
    PromptWake = FALSE
SYMMETRY Symmetry
PROPERTIES
    FetchRate

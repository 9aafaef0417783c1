SPECIFICATION Spec
CONSTANTS
    t1 = t1
    t2 = t2
    t3 = t3
    k1 = k1
    k2 = k2
    Probe = Probe
    Threads <- TwoThreads
    Kids <- OneKid
    TTL = 2
    MinInterval = 1
    WaitTimeout = 1
    Horizon = 4
    MaxDocs = 2
    PromptWake = FALSE
SYMMETRY Symmetry
PROPERTIES
    FreshServe

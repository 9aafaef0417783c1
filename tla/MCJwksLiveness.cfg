SPECIFICATION FairSpec
CONSTANTS
    t1 = t1
    t2 = t2
    t3 = t3
    k1 = k1
    k2 = k2
    Probe = Probe
    Threads <- TwoThreads
    Kids <- TwoKids
    TTL = 2
    MinInterval = 1
    WaitTimeout = 2
    Horizon = 3
    MaxDocs = 2
    PromptWake = TRUE
PROPERTIES
    CallsReturn
    WaitersServed
    Converges

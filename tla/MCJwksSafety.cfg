SPECIFICATION Spec
CONSTANTS
    t1 = t1
    t2 = t2
    t3 = t3
    k1 = k1
    k2 = k2
    Probe = Probe
    Threads <- ThreeThreads
    Kids <- TwoKids
    TTL = 2
    MinInterval = 2
    WaitTimeout = 1
    Horizon = 3
    MaxDocs = 2
    PromptWake = FALSE
SYMMETRY Symmetry
INVARIANTS
    TypeOK
    SingleFlight
    NoLostWakeup
    ReadyMeansFast
PROPERTIES
    ReadinessEarned
    NoRollback
    ServedIsCurrent
    RevokedStaysRevoked
    FetchRate
    ImplementsCycle

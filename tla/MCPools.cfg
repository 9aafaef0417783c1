SPECIFICATION PoolsSpec
CONSTANTS
    t1 = t1
    t2 = t2
    k1 = k1
    r1 = r1
    r2 = r2
    r3 = r3
    s1 = s1
    s2 = s2
    s3 = s3
    c1 = c1
    c2 = c2
    Probe = Probe
    Nobody = Nobody
    Free = Free
    Unset = Unset
    Threads <- TwoWorkers
    Kids <- OneKid
    Requests <- ThreeRequests
    Senders <- ThreeSenders
    Connections <- TwoConnections
    Base = 2
    TTL = 1
    MinInterval = 1
    WaitTimeout = 1
    Horizon = 2
    MaxDocs = 2
    PromptWake = TRUE
INVARIANTS
    PoolTypeOK
    LineMeansFull
PROPERTIES
    PoolSurvivesHang
    WaitersEscape
    SendersAnswered
    EachImplementsExchange
CHECK_DEADLOCK FALSE

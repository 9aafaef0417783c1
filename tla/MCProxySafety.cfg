SPECIFICATION Spec
CONSTANTS
    RequestLimit = 1
    ResponseLimit = 2
    ListLimit = 1
INVARIANTS
    ProxyTypeOK
    ForwardOnlyAuthorized
    ListOnlyFiltered
    CapHolds
    AuditTrail
    StreamResultTrue
PROPERTIES
    ConnectionReleased
    ImplementsExchange
CHECK_DEADLOCK FALSE

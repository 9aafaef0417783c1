SPECIFICATION Spec
CONSTANTS
    RequestLimit = 1
    ResponseLimit = 2
    ListLimit = 1
INVARIANTS
    EveryRequestAudited
CHECK_DEADLOCK FALSE

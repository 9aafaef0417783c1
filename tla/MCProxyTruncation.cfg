SPECIFICATION Spec
CONSTANTS
    RequestLimit = 1
    ResponseLimit = 2
    ListLimit = 1
INVARIANTS
    TruncationTerminates
CHECK_DEADLOCK FALSE

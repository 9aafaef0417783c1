SPECIFICATION DecisionsSpec
CONSTANTS
    Letters <- LettersDef
    Space <- SpaceDef
    Other <- OtherDef
    MaxLength = 3
    MaxItems = 2
    Segments <- SegmentsDef
    MethodNames <- MethodNamesDef
    ScopeNames <- ScopeNamesDef
    MaxSegments = 3
    Tools <- ToolsDef
    GroupValues <- GroupValuesDef
    MaxPage = 2
    MaxRules = 2
    Numbers <- NumbersDef
    MaxMembers = 3
    Control = "control"
    Wide = "wide"
    MaxSubject = 3
    MaxRuns = 2
    FileNames <- FileNamesDef
    FileMethods <- FileMethodsDef
INVARIANTS
    SameScopesUpstream
    MostSpecificWins
    SameAfterNormalizing
    CallsFollowGrant
    VisibleIffCallable
    AuditedRuleGrants
    NoSilentWeakening
    EveryReaderAgrees
    NothingReinterpreted
    IdentityArrives
    OneLineEach
    ScopesOnlyOnRequest
    FilesAsWritten
CHECK_DEADLOCK FALSE

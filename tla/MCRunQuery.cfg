SPECIFICATION Spec
CONSTANTS
    Components <- MCComponents
    Lower <- MCLower
    MaxExplainDepth = 5
    Policies <- MCPolicies
    Texts <- MCTexts
    Requests <- MCRequests
    NoRequest = NoRequest
    MaxRows = 2
    Answers <- MCAnswers
    NoValue = NoValue
CHECK_DEADLOCK FALSE
INVARIANTS
    TypeOK
    OnlyWritableChanged
    HiddenStaysUnread
    RefusedForAReason
    HiddenNotListed
    NothingMissing
    WithinCap

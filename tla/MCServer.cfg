SPECIFICATION ServerSpec
CONSTANTS
    Calls = {c1, c2, c3}
    Sessions = {s1}
    NoSession = NoSession
    AuthMode = "kerberos"
    Components <- MCComponents
    Lower <- MCLower
    MaxExplainDepth = 5
    ToolCalls <- MCToolCalls
    NoToolCall = NoToolCall
    InForce <- MCInForce
SYMMETRY Symmetry
INVARIANTS
    ServerTypeOK
    OnlyPermittedChanges
    EndingsAreTrue
    RecoveryOnlyInBasicMode
PROPERTIES
    KeepsToolPromise

SPECIFICATION FairServerSpec
CONSTANTS
    Calls = {c1, c2}
    Sessions = {s1, s2}
    NoSession = NoSession
    AuthMode = "basic"
    Components <- MCComponents
    Lower <- MCLower
    MaxExplainDepth = 5
    ToolCalls <- LongToolCalls
    NoToolCall = NoToolCall
    InForce <- MCInForce
PROPERTIES
    EveryToolCallEnds
    ToolStepsRunOut

SPECIFICATION Spec
CONSTANTS
    Calls = {c1, c2, c3}
    Sessions = {s1, s2, s3, s4}
    NoSession = NoSession
    AuthMode = "basic"
SYMMETRY Symmetry
INVARIANTS
    TypeOK
    NeverAnonymous
    QuietCallsSucceed
PROPERTIES
    KeepsPromise
    StepsRunOut

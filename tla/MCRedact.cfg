SPECIFICATION Spec
CONSTANTS
    Keys <- MCKeys
    SensitiveKeys <- MCSensitiveKeys
    Inputs <- MCInputs
CHECK_DEADLOCK FALSE
INVARIANTS
    TypeOK
    ShapeKept
    OnlySecretsGone

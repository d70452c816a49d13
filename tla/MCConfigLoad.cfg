SPECIFICATION Spec
CONSTANTS
    Spellings <- MCSpellings
    NumberOf <- MCNumberOf
    Files <- MCFiles
    Envs <- MCEnvs
    Args <- MCArgs
    InvalidUrls <- MCInvalidUrls
CHECK_DEADLOCK FALSE
INVARIANTS
    TypeOK
    ServingIsConfigured
    LastSourceWins
    RefusedForAFault

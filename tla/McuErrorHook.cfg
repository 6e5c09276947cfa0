CONSTANTS
    Limit = 2
    Positions <- MCPositions
    Derivatives <- MCDerivatives
    MAX_ERRORS_ALLOWED = 2
    SPLIT = FALSE
    BREAKS = TRUE
SPECIFICATION FairSpec
PROPERTY ErrorHook

CONSTANTS
    Limit = 2
    Positions <- MCPositions
    Derivatives <- MCDerivatives
    MAX_ERRORS_ALLOWED = 1
    SPLIT = TRUE
    BREAKS = TRUE
SPECIFICATION FairSpec
INVARIANTS TypeOK NeutralWhenStopped ServoHoldsControls OneExchange FreshSample
PROPERTY HookReturns

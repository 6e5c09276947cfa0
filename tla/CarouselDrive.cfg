CONSTANTS
    Limit = 3
    Targets <- MCTargets
    HandSpeeds = {0}
    Amplitude = 1
    InitSpeeds <- MCInitSpeeds
    PROMPT = TRUE
    MaxFaults = 1
SPECIFICATION FairSpec
INVARIANT LastWordHolds
PROPERTIES NoJump RampEnds

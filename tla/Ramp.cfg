CONSTANTS
    Softlimit = 5
    Threshold = 2
    RETRYS = 2
    Step = 1
    PATIENT = FALSE
    Requests <- MCRequests
    InitSpeeds <- MCInitSpeeds
SPECIFICATION FairSpec
INVARIANT WithinSoftLimit
PROPERTIES TowardsTarget NoJump RampEnds

CONSTANTS
    N = 2
    MaxOverruns = 1
    Grace = 1
SPECIFICATION FairSpec
INVARIANTS LateAreAligned NeutralUnlessReady
PROPERTY FailureNeutralises

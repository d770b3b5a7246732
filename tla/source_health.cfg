SPECIFICATION FairSpec
CONSTANTS
    CheckEvery = 2
    ConnectTimeout = 2
    MaxConnect = 3
    MaxClose = 3
    RestartDelay = 4
    Threshold = 24
    InitialSlack = 12
    Period = 4
    FailureThreshold = 3
    MaxGap = 19
    Horizon = 45
    MaxTurns = 3
INVARIANTS
    TypeOK
    SilenceIsBounded
    OneDropCostsNoPod
PROPERTIES
    RecoversForGood

SPECIFICATION FairSpec
CONSTANTS
    Vectors <- MCVectors
    MaxProcs = 3
    MaxText = 2
    MaxPair = 2
    CrashCodes <- MCCrashCodes
INVARIANTS
    TypeOK
    SameArguments
    SuccessMeansDone
    RefusalMeansUntouched
PROPERTIES
    CommandAnswers
CHECK_DEADLOCK FALSE

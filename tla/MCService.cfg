SPECIFICATION FairSpec
CONSTANTS
    MaxFaults = 2
INVARIANTS
    TypeOK
    CleanExitWasAsked
PROPERTIES
    NeverBackToRunning
    StoppedIsFinal
    ImplementsView
    StopHonoured
    NoHungStopPending

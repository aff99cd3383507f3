SPECIFICATION FairSpec
CONSTANTS
    Period = 3
    Timeout = 2
    Children = {c1, c2}
    NoChild = NoChild
INVARIANTS
    TypeOK
PROPERTIES
    ImplementsTask
    SpawnsIntoLockedLog
    CancelStopsLoop
    CyclesGoOn
